----------------------------- MODULE ScreenContract -----------------------------
(***************************************************************************)
(* What the worker relies on of one call of BuildGate.screen, and all that *)
(* ScreenerWorker assumes of it: the image is published at most once and   *)
(* before the screen ends; the screen returns a passing outcome if and     *)
(* only if it published; one of the mechanical lane ends in no outcome     *)
(* that takes a review; and what is raised is raised without an image.     *)
(***************************************************************************)
VARIABLES
  buildOnly,   \* the item asks for the mechanical lane
  told,        \* publish_image returned to the gate
  result       \* "-", the outcome returned, or "raised"

Passing == {"pass", "pass_inconclusive"}
Mechanical == {"pass", "deterministic_reject", "retryable_infra"}
Outcomes == Passing \cup Mechanical \cup {"quarantine", "inconclusive"}

Init == buildOnly \in BOOLEAN /\ told = FALSE /\ result = "-"

Publish ==
  /\ result = "-" /\ ~told
  /\ told' = TRUE
  /\ UNCHANGED <<buildOnly, result>>

Return(outcome) ==
  /\ result = "-"
  /\ outcome \in Passing <=> told
  /\ buildOnly => outcome \in Mechanical
  /\ result' = outcome
  /\ UNCHANGED <<buildOnly, told>>

Raise ==
  /\ result = "-" /\ ~told
  /\ result' = "raised"
  /\ UNCHANGED <<buildOnly, told>>

Next == Publish \/ Raise \/ \E outcome \in Outcomes : Return(outcome)

Spec == Init /\ [][Next]_<<buildOnly, told, result>>
=============================================================================
