----------------------------- MODULE MCBuildGate -----------------------------
(* BuildGate with every kind of review answer and short stages.            *)
EXTENDS BuildGate

Answer(ok, risk, categories, failure, audit) ==
  [ok |-> ok, risk |-> risk, categories |-> categories, failure |-> failure,
   finding |-> ok, audit |-> audit]

MCReviews ==
  {Answer(TRUE, "low", {"none"}, "retryable_infra", FALSE),
   Answer(TRUE, "high", {"malicious"}, "retryable_infra", FALSE),
   Answer(TRUE, "other", {"none"}, "retryable_infra", FALSE),
   Answer(FALSE, "none", {}, "retryable_infra", FALSE),
   Answer(FALSE, "none", {}, "inconclusive", FALSE),
   Answer(FALSE, "none", {}, "pass_inconclusive", TRUE)}

MCManifests == {<<"agentic_source_review", "behavioral_oracle">>,
                <<"behavioral_oracle">>}


MCDeadlines == {NoDeadline, 4, 8}
=============================================================================
