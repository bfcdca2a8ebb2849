--------------------------- MODULE MCPolicyEngine ---------------------------
(* The policy engine and the verdicts made of its decisions, on every      *)
(* manifest of at most two modules, the two default ones, and longer ones  *)
(* that list challenges before selectors.                                  *)
EXTENDS ScreenVerdict

MCManifests ==
  UNION {[1..n -> Kinds] : n \in 0..2}
    \cup {<<"behavioral_challenge_pack", "agentic_source_review", "behavioral_oracle">>,
          <<"random_audit", "agentic_source_review", "behavioral_oracle",
            "behavioral_challenge_pack">>,
          <<"behavioral_oracle", "source_fingerprint", "timing_relay_risk">>}

Clean == [ok |-> TRUE, risk |-> "low", categories |-> {"none"},
          failure |-> "-", finding |-> TRUE, audit |-> FALSE]
Failed(how) == [Clean EXCEPT !.ok = FALSE, !.risk = "none", !.categories = {},
                             !.failure = how, !.finding = FALSE]

MCReviews ==
  {Clean,
   [Clean EXCEPT !.categories = {"advisory"}],
   [Clean EXCEPT !.categories = {"private"}],
   [Clean EXCEPT !.risk = "medium", !.categories = {"advisory"}],
   [Clean EXCEPT !.risk = "high", !.categories = {"malicious", "private"}],
   [Clean EXCEPT !.risk = "other"],
   Failed("retryable_infra"), Failed("inconclusive"),
   [Failed("pass_inconclusive") EXCEPT !.audit = TRUE, !.finding = TRUE],
   Failed("pass_inconclusive")}

MCPacks == {<<>>} \cup {<<r>> : r \in ChallengeRuns}
             \cup {<<r, s>> : r, s \in {q \in ChallengeRuns : q.bound}}
=============================================================================
