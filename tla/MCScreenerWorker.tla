--------------------------- MODULE MCScreenerWorker ---------------------------
(* ScreenerWorker with a bootstrap in shadow mode and a revision that the  *)
(* platform reissues with another mode.                                    *)
EXTENDS ScreenerWorker, TLC

MCBootstrap == [revision |-> 0, mode |-> "shadow"]
MCSettings == {MCBootstrap, [revision |-> 1, mode |-> "shadow"],
               [revision |-> 1, mode |-> "enforce"]}
MCOutcomes == {"pass", "pass_inconclusive", "quarantine", "deterministic_reject",
               "retryable_infra", "inconclusive"}
MCLanes == {"full", "build_only", "duplicate", "unsupported", "anonymous"}
MCOneSetting == {MCBootstrap}
MCSymmetry == Permutations(Attempts)
=============================================================================
