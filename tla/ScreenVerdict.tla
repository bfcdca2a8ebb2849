---------------------------- MODULE ScreenVerdict ----------------------------
(***************************************************************************)
(* From a screen to the verdict the platform is sent: the decision of the  *)
(* policy engine is amended and published by the gate                      *)
(* (ditto_screener/gate.py), turned into a request by the worker           *)
(* (ditto_screener/worker.py), and validated by the shared protocol models *)
(* (ditto_screening_protocol/models.py).  The three were written apart,    *)
(* and a request the models refuse is a ValueError in the worker.          *)
(*                                                                         *)
(* An optional field of a request is a set of at most one value.  Digests, *)
(* texts, ids and the binding to the review settings are left out.         *)
(***************************************************************************)
EXTENDS PolicyEngine

VARIABLES
  deferredReview, \* item.deferred_source_review, of the mechanical lane
  lead,           \* static preflight raised a lead, which "review" resolved
  result,         \* what the worker has of the screen, Unscreened before
  image,          \* the image publish_image captured
  request         \* the ScreenResultRequest, or how building it ended

verdictVars == <<deferredReview, lead, result, image, request>>
allVars == <<vars, verdictVars>>

Unscreened == [outcome |-> "unscreened", codes |-> <<>>, finding |-> "-",
               audit |-> FALSE]
NoRequest == [outcome |-> "none"]
Refused == [outcome |-> "refused"]

PassingOutcomes == {"pass", "pass_inconclusive"}
AuditedOutcomes == {"quarantine", "pass_inconclusive"}
HeldOutcomes == AuditedOutcomes \cup {"inconclusive"}

(* core_decision, and what an exception in the gate becomes.               *)
Core(outcome, code) ==
  [outcome |-> outcome, codes |-> <<code>>, finding |-> "-", audit |-> FALSE]
Unexpected == Core("retryable_infra", "unexpected-infrastructure")

VerdictInit ==
  /\ Init
  /\ deferredReview \in (IF buildOnly THEN BOOLEAN ELSE {FALSE})
  /\ lead \in (IF buildOnly THEN {FALSE} ELSE BOOLEAN)
  /\ result = Unscreened /\ image = FALSE /\ request = NoRequest

-----------------------------------------------------------------------------
(* The gate                                                                *)

LeadCleared ==
  \/ review.ok /\ review.risk = "low"
  \/ review.failure = "pass_inconclusive"

(* preexecution_source_decision, for a lead that stands and for a deferral.*)
Preexecution ==
  LET held(outcome, code) ==
        [outcome |-> outcome, codes |-> <<code>>,
         finding |-> IF review.finding THEN "preflight" ELSE "-",
         audit   |-> ~review.ok /\ review.audit]
  IN  CASE ~review.ok ->
             held(IF review.failure \in {"retryable_infra", "pass_inconclusive"}
                  THEN review.failure ELSE "inconclusive",
                  "source-review-error")
        [] review.ok /\ review.risk \in {"medium", "high"} ->
             held("quarantine", RiskDomainCode(review.categories))
        [] OTHER -> Unexpected

(* What the engine returned, or raised.                                    *)
Evaluated ==
  IF decision.outcome = "raised" THEN Unexpected
  ELSE [decision EXCEPT !.finding = IF @ = 0 THEN "-" ELSE manifest[@]]

(* A pass on an exhausted preflight is deferred.  The evidence is put in   *)
(* front and not cut, and ScreeningDecision takes no more than its bound.  *)
Deferred(r) ==
  IF r.outcome # "pass" \/ ~lead \/ review.failure # "pass_inconclusive" THEN r
  ELSE IF ~review.audit \/ Len(r.codes) >= MaxEvidence THEN Unexpected
  ELSE [Preexecution EXCEPT !.codes = @ \o r.codes]

(* _with_image_binding_advisory                                            *)
Advised(r, advisory) ==
  IF ~buildOnly /\ advisory /\ r.outcome \in PassingOutcomes \cup {"quarantine"}
  THEN [r EXCEPT !.outcome = "quarantine",
                 !.codes = Append(IF Len(@) < MaxEvidence THEN @
                                  ELSE SubSeq(@, 1, MaxEvidence - 1),
                                  "image-binding-heuristic")]
  ELSE r

Screening == result = Unscreened /\ UNCHANGED <<deferredReview, lead, request>>

RunPolicy ==
  /\ Screening /\ UNCHANGED <<result, image>>
  /\ lead => LeadCleared
  /\ Next

LeadStands ==
  /\ Screening /\ UNCHANGED <<vars, image>>
  /\ lead /\ ~LeadCleared
  /\ result' = Preexecution

(* The stages before the policy end in core decisions, as do the precheck  *)
(* and the lease in the worker; an exception or the lease may end later    *)
(* ones, too.                                                              *)
StageFails ==
  /\ Screening /\ UNCHANGED <<vars, image>>
  /\ decision = Undecided
  /\ \/ result' = Core("retryable_infra", "lease-budget-exhausted")
     \/ /\ pending = ModulesToRun
        /\ result' = Core("deterministic_reject", "docker-build")

(* The amended decision stands, unless it passes and its image cannot be   *)
(* exported and uploaded; the journal may fail before that.                *)
EndScreen ==
  /\ Screening /\ UNCHANGED vars
  /\ decision # Undecided
  /\ \/ \E advisory \in BOOLEAN :
          LET amended == Advised(Deferred(Evaluated), advisory) IN
            \/ /\ amended.outcome \notin PassingOutcomes
               /\ result' = amended /\ UNCHANGED image
            \/ /\ amended.outcome \in PassingOutcomes
               /\ \/ result' = amended /\ image' = TRUE
                  \/ /\ result' \in
                          {Core("retryable_infra", "image-upload-failed"),
                           Core("deterministic_reject", "screened-image-too-large")}
                     /\ UNCHANGED image
     \/ result' = Unexpected /\ UNCHANGED image

-----------------------------------------------------------------------------
(* The worker                                                              *)

(* Slip: the audit is sent whenever the screen has one.                    *)
AuditKept == result.audit

(* The audit of a review explains a deferral only.                         *)
AuditSent == result.outcome = "pass_inconclusive" /\ result.audit

ReasonCode ==
  IF result.outcome = "pass_inconclusive" THEN {"source-review-inconclusive"}
  ELSE {result.codes[i] : i \in {Len(result.codes)} \ {0}}

Request ==
  LET audited == result.outcome \in AuditedOutcomes IN
    [outcome  |-> result.outcome,
     passed   |-> result.outcome \in PassingOutcomes,
     manifest |-> IF audited THEN {"digest"} ELSE {},
     reason   |-> ReasonCode,
     evidence |-> IF audited THEN result.codes ELSE <<>>,
     finding  |-> IF audited THEN {result.finding} \ {"-"} ELSE {},
     audit    |-> AuditSent,
     image    |-> image,
     buildOnly |-> buildOnly, deferredReview |-> deferredReview]

(* _screen_one refuses, with a PlatformError, what the gate must not yield.*)
MustNotYield ==
  \/ result.outcome \in PassingOutcomes /\ ~image
  \/ buildOnly /\ ~deferredReview /\ result.outcome = "quarantine"

Report ==
  /\ result # Unscreened /\ request = NoRequest
  /\ request' = IF MustNotYield THEN Refused ELSE Request
  /\ UNCHANGED <<vars, deferredReview, lead, result, image>>

VerdictNext == RunPolicy \/ LeadStands \/ StageFails \/ EndScreen \/ Report

VerdictSpec == VerdictInit /\ [][VerdictNext]_allVars

-----------------------------------------------------------------------------
(* The validators of ScreenResultRequest.                                  *)
Accepted(r) ==
  /\ r.passed <=> r.outcome \in PassingOutcomes
  /\ r.outcome \in AuditedOutcomes => r.manifest # {} /\ r.reason # {}
  /\ r.image <=> r.outcome \in PassingOutcomes
  /\ r.evidence # <<>> \/ r.finding # {} => r.outcome \in HeldOutcomes
  /\ Len(r.evidence) <= MaxEvidence
  /\ r.audit <=> r.outcome = "pass_inconclusive"
  /\ r.deferredReview => r.buildOnly
  /\ r.buildOnly /\ ~r.deferredReview => r.outcome # "quarantine"

Sent == request \notin {NoRequest, Refused}

(* However a screen ends, the worker neither trips over its own assertions *)
(* nor builds a request that the models of the protocol refuse.            *)
RequestIsAccepted == request # Refused /\ (Sent => Accepted(request))

ClearCodes == {"challenge-observed", "behavioral-oracle-passed"}

(* The evidence of a hold shows what it is for: the lead of a selector,    *)
(* whatever was collected after it and however much was cut off, and what  *)
(* a challenge found, unless more was collected than is kept.              *)
HoldShowsItsReason ==
  Sent /\ request.outcome = "quarantine"
    /\ (selected \/ Len(evidence) <= MaxEvidence)
    => \E i \in DOMAIN request.evidence : request.evidence[i] \notin ClearCodes
=============================================================================
