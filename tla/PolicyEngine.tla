---------------------------- MODULE PolicyEngine ----------------------------
(***************************************************************************)
(* PolicyEngine.evaluate (ditto_screener/policy.py): one screening taken   *)
(* through the modules of a manifest, one module per step, to a decision.  *)
(* The caller's lane decides whether any module runs at all, and the       *)
(* review of an attempt is one observation that every source-review module *)
(* of the manifest awaits.                                                 *)
(***************************************************************************)
EXTENDS PolicyModules, FiniteSets

CONSTANTS Manifests,      \* the manifests load_policy_engine may return
          Reviews,        \* the observations a source review may end with
          Packs,          \* what the runs of a challenge pack may bring back
          MaxEvidence     \* _MAX_EVIDENCE

ASSUME PolicyAssumption ==
  /\ Manifests \subseteq Seq(Kinds)
  /\ MaxEvidence \in Nat \ {0}
  /\ Packs \subseteq Seq(ChallengeRuns)
  /\ \A r \in Reviews : /\ r.ok \in BOOLEAN /\ r.finding \in BOOLEAN
                        /\ r.audit \in BOOLEAN

VARIABLES
  manifest,     \* self.modules, as the sequence of their kinds
  buildOnly,    \* the mechanical lane
  review,       \* what context.review_source() resolves to
  pending,      \* indices of the modules not evaluated yet
  disposition,  \* history: what each evaluated module returned, or "-"
  evidence, finding, audit, selected, cleared, passInconclusive,
  decision

vars == <<manifest, buildOnly, review, pending, disposition, evidence, finding,
          audit, selected, cleared, passInconclusive, decision>>

Undecided == [outcome |-> "undecided", codes |-> <<>>,
              finding |-> 0, audit |-> FALSE]
Outcomes == {"pass", "pass_inconclusive", "retryable_infra", "quarantine",
             "inconclusive"}

IsSelector(i) == manifest[i] \in SelectorKinds

(* Selectors run first and challenges after them, each in manifest order.  *)
Turn(i) ==
  /\ i \in pending
  /\ \A j \in pending \ {i} :
       IF IsSelector(i) = IsSelector(j) THEN i < j ELSE IsSelector(i)

(* The outcomes each module kind can be asked to judge.                    *)
Observed(kind) ==
  CASE kind = "timing_relay_risk"         -> {TimingRelayRisk(f) : f \in RiskFeeds}
    [] kind = "random_audit"              -> {RandomAudit(d) : d \in AuditDraws}
    [] kind = "source_fingerprint"        -> {SourceFingerprintTriage(m) : m \in BOOLEAN}
    [] kind = "agentic_source_review"     -> {AgenticSourceReview(review)}
    [] kind = "behavioral_challenge_pack" -> {BehavioralChallengePack(p) : p \in Packs}
    [] kind = "behavioral_oracle"         -> {BehavioralOracle(o) : o \in OracleRuns}

(* The mechanical lane runs no module at all.                              *)
ModulesToRun == IF buildOnly THEN {} ELSE DOMAIN manifest

(* _decision and ScreeningDecision.__post_init__: the evidence is cut to   *)
(* its bound, and a pass_inconclusive without an audit raises ValueError.  *)
Decision(outcome, codes, find, aud) ==
  IF outcome = "pass_inconclusive" /\ ~aud
  THEN [Undecided EXCEPT !.outcome = "raised"]
  ELSE [outcome |-> outcome,
        codes   |-> SubSeq(codes, 1, IF Len(codes) <= MaxEvidence
                                     THEN Len(codes) ELSE MaxEvidence),
        finding |-> find, audit |-> aud]

-----------------------------------------------------------------------------
Init ==
  /\ manifest \in Manifests
  /\ buildOnly \in BOOLEAN
  /\ review \in (IF buildOnly THEN {NoReview} ELSE Reviews)
  /\ pending = ModulesToRun
  /\ disposition = [i \in DOMAIN manifest |-> "-"]
  /\ evidence = <<>> /\ finding = 0 /\ audit = FALSE
  /\ selected = FALSE /\ cleared = FALSE /\ passInconclusive = FALSE
  /\ decision = Undecided

(* Slip: a module without a finding erases the one collected before.       *)
CollectLatest(i, r) ==
  /\ pending' = pending \ {i}
  /\ disposition' = [disposition EXCEPT ![i] = r.disposition]
  /\ evidence' = evidence \o r.codes
  /\ finding' = IF r.finding THEN i ELSE 0
  /\ audit' = (r.audit \/ audit)
  /\ UNCHANGED <<manifest, buildOnly, review>>

(* Slip: the evidence of a module replaces what was collected before.      *)
CollectLastEvidence(i, r) ==
  /\ pending' = pending \ {i}
  /\ disposition' = [disposition EXCEPT ![i] = r.disposition]
  /\ evidence' = r.codes
  /\ finding' = IF r.finding THEN i ELSE finding
  /\ audit' = (r.audit \/ audit)
  /\ UNCHANGED <<manifest, buildOnly, review>>

(* One module's turn; "finding" remembers which module offered the one     *)
(* that is kept (0: none), the later replacing the earlier.                *)
Collect(i, r) ==
  /\ pending' = pending \ {i}
  /\ disposition' = [disposition EXCEPT ![i] = r.disposition]
  /\ evidence' = evidence \o r.codes
  /\ finding' = IF r.finding THEN i ELSE finding
  /\ audit' = (r.audit \/ audit)
  /\ UNCHANGED <<manifest, buildOnly, review>>

Select(i) ==
  /\ decision = Undecided
  /\ Turn(i)
  /\ IsSelector(i)
  /\ \E r \in Observed(manifest[i]) :
       /\ Collect(i, r)
       /\ passInconclusive' = (passInconclusive \/ r.disposition = "pass_inconclusive")
       /\ selected' = (selected \/ r.disposition = "tripwire")
       /\ decision' = IF Terminal(r.disposition)
                           /\ r.disposition # "pass_inconclusive"
                      THEN Decision(r.disposition, evidence', finding', audit')
                      ELSE decision
  /\ UNCHANGED cleared

Challenge(i) ==
  /\ decision = Undecided
  /\ Turn(i)
  /\ ~IsSelector(i)
  /\ \E r \in Observed(manifest[i]) :
       /\ Collect(i, r)
       /\ cleared' = (cleared \/ (ClearsSelection(manifest[i])
                                    /\ r.disposition = "clear"))
       /\ decision' = IF Terminal(r.disposition)
                      THEN Decision(r.disposition, evidence', finding', audit')
                      ELSE decision
  /\ UNCHANGED <<selected, passInconclusive>>

(* Every module that had to run is behind; a tripwire still standing holds *)
(* the submission for an operator.                                         *)
Conclude ==
  /\ decision = Undecided
  /\ pending = {}
  /\ decision' =
       IF buildOnly THEN Decision("pass", evidence, finding, FALSE)
       ELSE IF selected /\ ~cleared
       THEN Decision("quarantine",
                     IF evidence = <<>>
                       THEN <<"audit-awaiting-private-challenge">> ELSE evidence,
                     finding, audit)
       ELSE Decision(IF passInconclusive THEN "pass_inconclusive" ELSE "pass",
                     evidence, finding, audit)
  /\ UNCHANGED <<manifest, buildOnly, review, pending, disposition, evidence,
                 finding, audit, selected, cleared, passInconclusive>>

Evaluate == \E i \in DOMAIN manifest : Select(i) \/ Challenge(i)

Next == Evaluate \/ Conclude

Spec == Init /\ [][Next]_vars

-----------------------------------------------------------------------------
(* The codes of evidence.                                                  *)
Codes ==
  {"risk-feed-unavailable", "risk-feed-invalid", "timing-relay-tripwire",
   "audit-seed-unavailable", "random-control-selected",
   "source-fingerprint-tripwire", "source-safety-malicious-risk",
   "source-safety-private-challenge-risk", "originality-duplicate-risk",
   "source-correctness-review", "source-safety-behavioral-risk",
   "source-review-unavailable", "source-review-inconclusive",
   "source-review-error", "source-review-invalid-risk",
   "challenge-pack-unavailable", "challenge-inconclusive",
   "challenge-model-call-missing", "challenge-gateway-token-missing",
   "challenge-shape-anomaly", "challenge-observed",
   "behavioral-oracle-inconclusive",
   "behavioral-oracle-insufficient-round-trips",
   "behavioral-oracle-wrong-answer", "behavioral-oracle-implausibly-fast",
   "behavioral-oracle-passed", "audit-awaiting-private-challenge"}

(* Types of every variable.                                                *)
TypeOK ==
  /\ manifest \in Manifests
  /\ buildOnly \in BOOLEAN
  /\ review \in Reviews \cup {NoReview}
  /\ pending \subseteq DOMAIN manifest
  /\ disposition \in [DOMAIN manifest -> Dispositions \cup {"-"}]
  /\ evidence \in Seq(Codes)
  /\ finding \in Nat
  /\ audit \in BOOLEAN /\ selected \in BOOLEAN /\ cleared \in BOOLEAN
  /\ passInconclusive \in BOOLEAN
  /\ decision.outcome \in Outcomes \cup {"undecided", "raised"}

Passing == decision.outcome \in {"pass", "pass_inconclusive"}
Tripped(i) == IsSelector(i) /\ disposition[i] = "tripwire"
ReleasedBy(j) ==
  manifest[j] = "behavioral_challenge_pack" /\ disposition[j] = "clear"

(* A lead that tripped any selector, however early, lets the submission    *)
(* pass only if a dedicated challenge pack cleared it: the always-on       *)
(* oracle passing does not (policy.py, the comment on clears_selection).   *)
LeadNeedsDedicatedClear ==
  Passing /\ (\E i \in DOMAIN manifest : Tripped(i))
    => \E j \in DOMAIN manifest : ReleasedBy(j)

(* A clean pass of the full lane means that every module of the manifest   *)
(* ran and none of them was unable to decide: an unusable challenge or an  *)
(* exhausted review is never rounded up to "pass".                         *)
CleanPassHeardEveryModule ==
  decision.outcome = "pass" /\ ~buildOnly
    => \A i \in DOMAIN manifest : disposition[i] \in {"clear", "tripwire"}

(* A hold that a source-review lead is part of reaches the operator with   *)
(* the finding of the review that raised it, whatever ran afterwards.      *)
HoldCarriesLeadFinding ==
  decision.outcome = "quarantine" /\ review.finding
    /\ (\E i \in DOMAIN manifest : Tripped(i) /\ manifest[i] = "agentic_source_review")
    => decision.finding # 0 /\ manifest[decision.finding] = "agentic_source_review"
=============================================================================
