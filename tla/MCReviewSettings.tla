--------------------------- MODULE MCReviewSettings ---------------------------
(* ReviewSettings with three revisions in and out of enforce mode, and a   *)
(* process configured for shadow mode or to enforce.                       *)
EXTENDS ReviewSettings

MCPublished == <<[mode |-> "enforce", maxAge |-> 2], [mode |-> "shadow", maxAge |-> 1],
                 [mode |-> "enforce", maxAge |-> 1]>>
MCBootstraps == [mode : {"shadow", "enforce"}, maxAge : {1}]
=============================================================================
