--------------------------- MODULE PolicyModules ---------------------------
(***************************************************************************)
(* The private policy modules of ditto_screener/policy.py: what each kind  *)
(* of module makes of one observation.  A module returns a disposition,    *)
(* the codes of its public-safe evidence, whether it offers a finding and  *)
(* whether it offers a review audit.  Texts, digests and ids are left out. *)
(***************************************************************************)
EXTENDS Naturals, Sequences

CONSTANT MinGatewayCalls            \* BehavioralOracleModule.min_gateway_calls

ASSUME MinGatewayCallsAssumption == MinGatewayCalls \in Nat \ {0}

SelectorKinds == {"timing_relay_risk", "random_audit", "source_fingerprint",
                  "agentic_source_review"}
ChallengeKinds == {"behavioral_challenge_pack", "behavioral_oracle"}
Kinds == SelectorKinds \cup ChallengeKinds

(* Slip: any challenge may clear its own audit.                            *)
ClearsSelectionAny(kind) == kind \in ChallengeKinds

(* Only a CLEAR of a dedicated pack may release a selector tripwire.       *)
ClearsSelection(kind) == kind = "behavioral_challenge_pack"

Dispositions == {"clear", "tripwire", "retryable_infra", "quarantine",
                 "inconclusive", "pass_inconclusive"}

(* Slip: an unusable challenge is on the wrong side.                       *)
TerminalUnlessInconclusive(disposition) ==
  disposition \notin {"clear", "tripwire", "inconclusive"}

(* The dispositions _module_terminal maps to an outcome of the same name.  *)
Terminal(disposition) == disposition \notin {"clear", "tripwire"}

Result(disposition, codes) ==
  [disposition |-> disposition, codes |-> codes,
   finding |-> FALSE, audit |-> FALSE]

-----------------------------------------------------------------------------
(* Selectors                                                               *)

RiskFeeds == {"unavailable", "invalid", "quiet", "flagged"}

TimingRelayRisk(feed) ==
  CASE feed = "unavailable" ->
         Result("retryable_infra", <<"risk-feed-unavailable">>)
    [] feed = "invalid" -> Result("retryable_infra", <<"risk-feed-invalid">>)
    [] feed = "quiet"   -> Result("clear", <<>>)
    [] feed = "flagged" -> Result("tripwire", <<"timing-relay-tripwire">>)

AuditDraws == {"no-seed", "spared", "drawn"}

RandomAudit(draw) ==
  CASE draw = "no-seed" ->
         Result("retryable_infra", <<"audit-seed-unavailable">>)
    [] draw = "spared"  -> Result("clear", <<>>)
    [] draw = "drawn"   -> Result("tripwire", <<"random-control-selected">>)

SourceFingerprintTriage(matched) ==
  IF matched THEN Result("tripwire", <<"source-fingerprint-tripwire">>)
             ELSE Result("clear", <<>>)

(* SourceReviewObservation.  "risk" is "none" where the code has None, and *)
(* any level outside low/medium/high is "other".                           *)
RiskLevels == {"none", "low", "medium", "high", "other"}
CategoryGroups == {"none", "advisory", "malicious", "private", "originality",
                   "behavioral"}
NoReview == [ok |-> FALSE, risk |-> "none", categories |-> {},
             failure |-> "unavailable", finding |-> FALSE, audit |-> FALSE]

(* _source_review_reason: the public-safe risk-domain code of a lead.      *)
RiskDomainCode(categories) ==
  CASE "malicious" \in categories   -> "source-safety-malicious-risk"
    [] "malicious" \notin categories /\ "private" \in categories ->
         "source-safety-private-challenge-risk"
    [] categories \cap {"malicious", "private"} = {}
         /\ "originality" \in categories -> "originality-duplicate-risk"
    [] categories \cap {"malicious", "private", "originality"} = {}
         /\ "advisory" \in categories -> "source-correctness-review"
    [] OTHER -> "source-safety-behavioral-risk"

ReviewFailed(review) ==
  CASE review = NoReview ->
         Result("retryable_infra", <<"source-review-unavailable">>)
    [] review # NoReview /\ review.failure = "pass_inconclusive" ->
         [disposition |-> "pass_inconclusive",
          codes |-> <<"source-review-inconclusive">>,
          finding |-> review.finding, audit |-> review.audit]
    [] OTHER ->
         Result(IF review.failure = "inconclusive"
                  THEN "inconclusive" ELSE "retryable_infra",
                <<"source-review-error">>)

AgenticSourceReview(review) ==
  CASE ~review.ok -> ReviewFailed(review)
    [] review.ok /\ review.risk = "low"
         /\ review.categories \subseteq {"none", "advisory"} ->
         [Result("clear", <<>>) EXCEPT !.finding = review.finding]
    [] review.ok /\ review.risk \in {"none", "other"} ->
         Result("inconclusive", <<"source-review-invalid-risk">>)
    [] OTHER ->
         [Result("tripwire", <<RiskDomainCode(review.categories)>>)
            EXCEPT !.finding = review.finding]

-----------------------------------------------------------------------------
(* Challenges                                                              *)

(* One private request of a pack together with what came back of it.       *)
ChallengeRuns ==
  {run \in [call : BOOLEAN, bound : BOOLEAN,          \* what the pack requires
            ok : BOOLEAN, calls : 0..1, token : BOOLEAN, shape : BOOLEAN] :
     run.bound => run.call}

ChallengeCode(run) ==
  CASE ~run.ok -> "challenge-inconclusive"
    [] run.ok /\ run.call /\ run.calls < 1 -> "challenge-model-call-missing"
    [] run.ok /\ (run.call => run.calls >= 1) /\ run.bound /\ ~run.token ->
         "challenge-gateway-token-missing"
    [] run.ok /\ (run.call => run.calls >= 1) /\ (run.bound => run.token)
         /\ ~run.shape -> "challenge-shape-anomaly"
    [] OTHER -> "challenge-observed"

(* A pack stops at its first run that is not observed clean.  An empty     *)
(* sequence stands for a pack that cannot be read or parsed.               *)
BehavioralChallengePack(runs) ==
  LET stops == {k \in DOMAIN runs : ChallengeCode(runs[k]) # "challenge-observed"}
      last  == IF stops = {} THEN Len(runs)
               ELSE CHOOSE k \in stops : \A j \in stops : k <= j
      codes == [k \in 1..last |-> ChallengeCode(runs[k])]
  IN  CASE runs = <<>> ->
             Result("retryable_infra", <<"challenge-pack-unavailable">>)
        [] runs # <<>> /\ stops = {} -> Result("clear", codes)
        [] runs # <<>> /\ stops # {} ->
             Result(IF codes[last] = "challenge-inconclusive"
                      THEN "inconclusive" ELSE "quarantine", codes)

OracleRuns == [ok : BOOLEAN, calls : 0..2, token : BOOLEAN, fast : BOOLEAN]

BehavioralOracle(run) ==
  CASE ~run.ok -> Result("inconclusive", <<"behavioral-oracle-inconclusive">>)
    [] run.ok /\ (run.calls < MinGatewayCalls \/ (run.calls = 1 /\ ~run.token)) ->
         Result("inconclusive", <<"behavioral-oracle-insufficient-round-trips">>)
    [] run.ok /\ run.calls >= MinGatewayCalls /\ run.calls # 1 /\ ~run.token ->
         Result("quarantine", <<"behavioral-oracle-wrong-answer">>)
    [] run.ok /\ run.calls >= MinGatewayCalls /\ run.token /\ run.fast ->
         Result("quarantine", <<"behavioral-oracle-implausibly-fast">>)
    [] OTHER -> Result("clear", <<"behavioral-oracle-passed">>)
=============================================================================
