----------------------------- MODULE AttemptLedger -----------------------------
(***************************************************************************)
(* What the platform may rely on of a screener, whatever its restarts and  *)
(* retries: each attempt it leased is answered with one verdict at most,   *)
(* and a passing verdict names an image that was uploaded, and verified,   *)
(* for that same attempt before.                                           *)
(***************************************************************************)
CONSTANTS Attempts, Verdicts

VARIABLES
  uploaded,   \* attempts with a verified image
  posted      \* verdicts said so far

Answered == {v.attempt : v \in posted}

Passing == {"pass", "pass_inconclusive"}
Kept(v) ==
  /\ v.outcome \in Passing => v.attempt \in uploaded /\ v.image = v.attempt
  /\ v.outcome \notin Passing => v.image # v.attempt

Init == uploaded = {} /\ posted = {}

Upload(a) ==
  /\ a \notin Answered
  /\ uploaded' = uploaded \cup {a}
  /\ UNCHANGED posted

Answer(v) ==
  /\ v.attempt \notin Answered
  /\ Kept(v)
  /\ posted' = posted \cup {v}
  /\ UNCHANGED uploaded

Next == (\E a \in Attempts : Upload(a)) \/ (\E v \in Verdicts : Answer(v))

Spec == Init /\ [][Next]_<<uploaded, posted>>
=============================================================================
