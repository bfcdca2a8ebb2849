--------------------------- MODULE MCLayeredReview ---------------------------
(* LayeredReview of leads that differ in one thing each from one that may  *)
(* be cleared directly.                                                    *)
EXTENDS LayeredReview, TLC

Plain == [risk |-> "medium", certified |-> TRUE, complete |-> TRUE, graph |-> TRUE,
          scorer |-> FALSE, integrity |-> FALSE]
MCLeads == {Plain, [Plain EXCEPT !.risk = "high"], [Plain EXCEPT !.risk = "low"],
            [Plain EXCEPT !.risk = "low", !.certified = FALSE],
            [Plain EXCEPT !.risk = "failed"], [Plain EXCEPT !.complete = FALSE],
            [Plain EXCEPT !.graph = FALSE], [Plain EXCEPT !.scorer = TRUE],
            [Plain EXCEPT !.integrity = TRUE]}
MCSymmetry == Permutations(Workers) \cup Permutations(Bases)
=============================================================================
