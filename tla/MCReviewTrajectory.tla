--------------------------- MODULE MCReviewTrajectory ---------------------------
EXTENDS ReviewTrajectory

Of(role, steps) == [role |-> role, steps |-> steps]

(* A clearance, a violation, and a clearance whose analyst was cached.     *)
MCPaths ==
  {<<Of("analyst", 2), Of("critic", 2), Of("adjudicator", 1)>>,
   <<Of("analyst", 2), Of("violation_adjudicator", 1), Of("violation_tiebreaker", 1)>>,
   <<Of("critic", 2), Of("adjudicator", 1)>>}

Used(tokens, reported) == [tokens |-> tokens, reported |-> reported]

MCTurns == {Used(0, NotReported), Used(1, NotReported), Used(1, 0), Used(2, 1)}
MCDelays == <<1, 2>>
=============================================================================
