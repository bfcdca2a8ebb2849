----------------------------- MODULE LayeredReview -----------------------------
(***************************************************************************)
(* LayeredReview (ditto_screener/l2_review.py): how an L1 or static lead   *)
(* is resolved by LayeredSourceReviewAgent.resolve_lead and                *)
(* KimiSolSourceReviewAgent.review: the L2 analyst, the L3 critic and      *)
(* adjudicators, the lock and the cached stages that workers share, and    *)
(* the deadline.                                                           *)
(*                                                                         *)
(* One lead is reviewed again and again by several workers; leads with     *)
(* other cache keys share nothing with it.  A model trajectory is one step *)
(* that fails or ends in an opinion.  Cached stages may expire at any      *)
(* time, as a cache directory may also be cleaned.                         *)
(***************************************************************************)
EXTENDS Naturals

CONSTANTS
  Workers,     \* processes with a common cache directory
  NoWorker,
  None,        \* no opinion, no result, nothing cached
  Bases,       \* resolution bases of a violation
  Leads,       \* leads, with what the analyzers say of their artifact
  Modes,       \* modes the agent can be configured in
  MaxReviews   \* reviews of one behaviour

ASSUME ReviewAssumption ==
  /\ NoWorker \notin Workers
  /\ Leads \subseteq [risk : {"failed", "low", "medium", "high"},
                      certified : BOOLEAN, \* clearance_certified of L1
                      complete : BOOLEAN,  \* dossier_complete
                      graph : BOOLEAN,     \* direct_clear_graph_complete
                      scorer : BOOLEAN,    \* _dossier_has_scorer_attention
                      integrity : BOOLEAN] \* a served-generator or adaptation hold
  /\ Modes \subseteq {"off", "shadow", "enforce"}
  /\ MaxReviews \in Nat

VARIABLES
  lead, mode,  \* fixed at the start
  pc,          \* where each worker is
  late,        \* the deadline of the review a worker is in has passed
  result,      \* its L2RunResult, "open" until the review has ended
  lock,        \* holder of the cache lock
  cache,       \* what is readable in the cache directory
  answer,      \* how the last review of a worker ended
  reviews      \* reviews started

vars == <<lead, mode, pc, late, result, lock, cache, answer, reviews>>

(* What a trajectory submits.  A firm clearance carries the certificate    *)
(* asked of its role; a firm violation needs no cause adjudication.        *)
Clearances == [verdict : {"low"}, firm : BOOLEAN, basis : {None}]
Violations == [verdict : {"elevated"}, firm : BOOLEAN, basis : Bases]
Undecided == [verdict |-> "inconclusive", firm |-> FALSE, basis |-> None]
Opinions == Clearances \cup Violations \cup {Undecided}

Conclusive == {"low", "elevated", "inconclusive"}
Verdicts == Conclusive \cup {"retryable_infra", "pass_inconclusive"}
Results == [verdict : Verdicts \cup {"open"}, hit : BOOLEAN,
            analyst : Opinions \cup {None}, critic : Opinions \cup {None},
            adjudicator : Opinions \cup {None}]
Open == [verdict |-> "open", hit |-> FALSE,
         analyst |-> None, critic |-> None, adjudicator |-> None]
Answers == [given : Verdicts \cup {"lead", "raised"}, result : Results \cup {None}]

ASSUME NoneAssumption == None \notin Opinions

Stages == {"analyst", "critic", "full"}
Reviewing == {"load", "dossier", "analyst", "cause", "tiebreak", "critic",
              "safety", "finish"}

Init ==
  /\ lead \in Leads /\ mode \in Modes
  /\ pc = [w \in Workers |-> "idle"] /\ late = [w \in Workers |-> FALSE]
  /\ result = [w \in Workers |-> None]
  /\ lock = NoWorker
  /\ cache = [k \in Stages |-> None]
  /\ answer = [w \in Workers |-> None]
  /\ reviews = 0

------------------------------------------------------------------------------
(* resolve_lead                                                            *)

(* Which leads are worth the paid layers.                                  *)
Escalates ==
  /\ mode # "off"
  /\ \/ lead.risk \in {"medium", "high"}
     \/ lead.risk = "low" /\ ~lead.certified

(* What resolve_lead makes of a result.                                    *)
Given(r) == [given |-> IF mode = "enforce" THEN r.verdict ELSE "lead", result |-> r]
Raised == [given |-> "raised", result |-> None]

ResolveLead(w) ==
  /\ pc[w] = "idle" /\ reviews < MaxReviews
  /\ reviews' = reviews + 1
  /\ \/ /\ Escalates
        /\ pc' = [pc EXCEPT ![w] = "lock"]
        /\ late' = [late EXCEPT ![w] = FALSE]
        /\ answer' = [answer EXCEPT ![w] = None]
        /\ UNCHANGED result
     \/ /\ ~Escalates
        /\ answer' = [answer EXCEPT ![w] = [given |-> "lead", result |-> None]]
        /\ UNCHANGED <<pc, late, result>>
  /\ UNCHANGED <<lead, mode, lock, cache>>

(* The review of a worker is over; the finally block gives the lock back.  *)
Leave(w, a) ==
  /\ pc' = [pc EXCEPT ![w] = "idle"]
  /\ answer' = [answer EXCEPT ![w] = a]
  /\ result' = [result EXCEPT ![w] = None]
  /\ lock' = IF lock = w THEN NoWorker ELSE lock

------------------------------------------------------------------------------
(* The lock                                                                *)

(* Slip: a lock that cannot be taken at once is ignored.                   *)
TryLockCacheAnyway(w) ==
  /\ pc[w] = "lock"
  /\ lock' = w
  /\ pc' = [pc EXCEPT ![w] = "load"]
  /\ result' = [result EXCEPT ![w] = Open]
  /\ UNCHANGED <<lead, mode, late, cache, answer, reviews>>

TryLockCache(w) ==
  /\ pc[w] = "lock" /\ lock = NoWorker
  /\ lock' = w
  /\ pc' = [pc EXCEPT ![w] = "load"]
  /\ result' = [result EXCEPT ![w] = Open]
  /\ UNCHANGED <<lead, mode, late, cache, answer, reviews>>

(* The cache directory or the lock file cannot be made or opened: nothing  *)
(* catches that OSError.                                                   *)
LockFails(w) ==
  /\ pc[w] = "lock"
  /\ Leave(w, Raised)
  /\ UNCHANGED <<lead, mode, late, cache, reviews>>

(* Waiting ends with the deadline.  The audit may raise.                   *)
LockTimesOut(w) ==
  /\ pc[w] = "lock" /\ lock # NoWorker /\ late[w]
  /\ \/ Leave(w, Given([Open EXCEPT !.verdict = "retryable_infra"]))
     \/ Leave(w, Raised)
  /\ UNCHANGED <<lead, mode, late, cache, reviews>>

------------------------------------------------------------------------------
(* The stages                                                              *)

Conclude(w, r, verdict) ==
  /\ result' = [result EXCEPT ![w] = [r EXCEPT !.verdict = verdict]]
  /\ pc' = [pc EXCEPT ![w] = "finish"]
Proceed(w, r, stage) ==
  /\ result' = [result EXCEPT ![w] = r]
  /\ pc' = [pc EXCEPT ![w] = stage]
Store(stage, value) == cache' = [cache EXCEPT ![stage] = value]

(* Slip: an inconclusive review is tried again although it is cached.      *)
LoadCachedRetrying(w) ==
  /\ pc[w] = "load"
  /\ IF cache["full"] # None /\ cache["full"].verdict # "inconclusive"
     THEN Proceed(w, cache["full"], "finish")
     ELSE Proceed(w, Open, "dossier")
  /\ UNCHANGED <<lead, mode, late, lock, cache, answer, reviews>>

LoadCached(w) ==
  /\ pc[w] = "load"
  /\ \/ cache["full"] # None /\ Proceed(w, cache["full"], "finish")
     \/ cache["full"] = None /\ Proceed(w, Open, "dossier")
  /\ UNCHANGED <<lead, mode, late, lock, cache, answer, reviews>>

(* A clearance of the primary analyst that skips the L3 critic.            *)
QualifiesForDirectClear(o) ==
  /\ lead.risk = "medium" /\ o.firm
  /\ lead.complete /\ lead.graph
  /\ ~lead.scorer /\ ~lead.integrity

NeedsViolationAdjudication(o) == o.verdict = "elevated" /\ ~o.firm

(* The way on from the analyst's opinion, in r.                            *)
AfterAnalyst(w, r) ==
  LET o == r.analyst IN
  \/ /\ o.verdict = "low" /\ QualifiesForDirectClear(o)
     /\ Conclude(w, r, "low")
  \/ /\ o.verdict = "low" /\ ~QualifiesForDirectClear(o)
     /\ \/ cache["critic"] = None /\ Proceed(w, r, "critic")
        \/ /\ cache["critic"] # None
           /\ Proceed(w, [r EXCEPT !.critic = cache["critic"]], "safety")
  \/ NeedsViolationAdjudication(o) /\ Proceed(w, r, "cause")
  \/ /\ o.verdict # "low" /\ ~NeedsViolationAdjudication(o)
     /\ Conclude(w, r, o.verdict)

(* Slip: only a clearance is taken from the cache.                         *)
BuildDossierReusingClearances(w) ==
  /\ pc[w] = "dossier"
  /\ \/ cache["analyst"] \notin Clearances /\ Proceed(w, result[w], "analyst")
     \/ /\ cache["analyst"] \in Clearances
        /\ AfterAnalyst(w, [result[w] EXCEPT !.analyst = cache["analyst"]])
  /\ UNCHANGED <<lead, mode, late, lock, cache, answer, reviews>>

(* Unpacking the archive and the analyzers may fail; then the analyst runs *)
(* unless its opinion is cached.                                           *)
BuildDossier(w) ==
  /\ pc[w] = "dossier"
  /\ \/ \E v \in {"inconclusive", "retryable_infra"} : Conclude(w, result[w], v)
     \/ cache["analyst"] = None /\ Proceed(w, result[w], "analyst")
     \/ /\ cache["analyst"] # None
        /\ AfterAnalyst(w, [result[w] EXCEPT !.analyst = cache["analyst"]])
  /\ UNCHANGED <<lead, mode, late, lock, cache, answer, reviews>>

(* An exhausted budget of the analyst is no outage; its opinion is kept    *)
(* unless it is undecided, and failing to keep it is an outage.            *)
RunAnalyst(w) ==
  /\ pc[w] = "analyst"
  /\ \/ /\ \E v \in {"pass_inconclusive", "inconclusive", "retryable_infra"} :
             Conclude(w, result[w], v)
        /\ UNCHANGED cache
     \/ \E o \in Opinions :
          /\ AfterAnalyst(w, [result[w] EXCEPT !.analyst = o])
          /\ IF o = Undecided THEN UNCHANGED cache ELSE Store("analyst", o)
  /\ UNCHANGED <<lead, mode, late, lock, answer, reviews>>

(* A trajectory of L3 that does not end in an opinion, whatever ran out.   *)
Inconclusive(w) ==
  \E v \in {"inconclusive", "retryable_infra"} : Conclude(w, result[w], v)

(* A second opinion on the cause of a violation.                           *)
AdjudicateCause(w) ==
  /\ pc[w] = "cause"
  /\ \/ Inconclusive(w)
     \/ \E o \in Opinions :
          LET r == [result[w] EXCEPT !.adjudicator = o] IN
          \/ o.verdict # "elevated" /\ Conclude(w, r, "inconclusive")
          \/ /\ o.verdict = "elevated" /\ o.basis = r.analyst.basis
             /\ Conclude(w, r, "elevated")
          \/ /\ o.verdict = "elevated" /\ o.basis # r.analyst.basis
             /\ Proceed(w, r, "tiebreak")
  /\ UNCHANGED <<lead, mode, late, lock, cache, answer, reviews>>

(* The third opinion has to side with one of the two.                      *)
BreakTie(w) ==
  /\ pc[w] = "tiebreak"
  /\ \/ Inconclusive(w)
     \/ \E o \in Opinions :
          LET sides == o.verdict = "elevated" /\
                       o.basis \in {result[w].analyst.basis, result[w].adjudicator.basis}
          IN Conclude(w, [result[w] EXCEPT !.adjudicator = o],
                      IF sides THEN "elevated" ELSE "inconclusive")
  /\ UNCHANGED <<lead, mode, late, lock, cache, answer, reviews>>

(* The critic's opinion is kept if it was formed on a complete dossier.    *)
RunCritic(w) ==
  /\ pc[w] = "critic"
  /\ \/ Inconclusive(w) /\ UNCHANGED cache
     \/ /\ Conclude(w, [result[w] EXCEPT !.critic = Undecided], "inconclusive")
        /\ UNCHANGED cache
     \/ \E o \in Opinions \ {Undecided} :
          /\ Proceed(w, [result[w] EXCEPT !.critic = o], "safety")
          /\ IF lead.complete THEN Store("critic", o) ELSE UNCHANGED cache
  /\ UNCHANGED <<lead, mode, late, lock, answer, reviews>>

(* Slip: the certificate is asked for, the dossier is not.                 *)
SafetyVerdictUnchecked(o) ==
  IF o.verdict = "low" /\ ~o.firm THEN "retryable_infra" ELSE o.verdict

(* What the safety adjudicator's opinion makes of the review.              *)
SafetyVerdict(o) ==
  IF o.verdict = "low" /\ ~(lead.complete /\ o.firm)
  THEN "retryable_infra" ELSE o.verdict

AdjudicateSafety(w) ==
  /\ pc[w] = "safety"
  /\ \/ Inconclusive(w)
     \/ \E o \in Opinions :
          Conclude(w, [result[w] EXCEPT !.adjudicator = o], SafetyVerdict(o))
  /\ UNCHANGED <<lead, mode, late, lock, cache, answer, reviews>>

------------------------------------------------------------------------------
(* The end of a review                                                     *)

Storable(r) == ~r.hit /\ r.verdict \in Conclusive

(* The cache after a review whose result was kept, if it is to be.         *)
CacheAfter(w) ==
  IF ~late[w] /\ Storable(result[w])
  THEN [cache EXCEPT !["full"] = [result[w] EXCEPT !.hit = TRUE]]
  ELSE cache

(* A result that comes after the deadline is discarded.                    *)
Accepted(w) ==
  IF late[w] THEN [result[w] EXCEPT !.verdict = "retryable_infra"] ELSE result[w]

FinishReview(w) ==
  /\ pc[w] = "finish"
  /\ cache' = CacheAfter(w)
  /\ Leave(w, Given(Accepted(w)))
  /\ UNCHANGED <<lead, mode, late, reviews>>

(* Writing the cache or the audit journal raises.                          *)
FinishRaises(w) ==
  /\ pc[w] = "finish"
  /\ cache' \in {cache, CacheAfter(w)}
  /\ Leave(w, Raised)
  /\ UNCHANGED <<lead, mode, late, reviews>>

(* The review is cancelled, or its process ends and the system unlocks.    *)
Abandon(w) ==
  /\ pc[w] # "idle"
  /\ Leave(w, None)
  /\ UNCHANGED <<lead, mode, late, cache, reviews>>

(* The deadline of a review passes.                                        *)
DeadlinePasses(w) ==
  /\ pc[w] # "idle" /\ ~late[w]
  /\ late' = [late EXCEPT ![w] = TRUE]
  /\ UNCHANGED <<lead, mode, pc, result, lock, cache, answer, reviews>>

(* A cached stage gets older than the time to live.                        *)
Expire(stage) ==
  /\ cache[stage] # None
  /\ Store(stage, None)
  /\ UNCHANGED <<lead, mode, pc, late, result, lock, answer, reviews>>

Next ==
  \/ \E w \in Workers :
       \/ ResolveLead(w) \/ TryLockCache(w) \/ LockFails(w)
       \/ LockTimesOut(w) \/ LoadCached(w)
       \/ BuildDossier(w) \/ RunAnalyst(w)
       \/ AdjudicateCause(w) \/ BreakTie(w)
       \/ RunCritic(w) \/ AdjudicateSafety(w)
       \/ FinishReview(w) \/ FinishRaises(w)
       \/ Abandon(w) \/ DeadlinePasses(w)
  \/ \E stage \in Stages : Expire(stage)

Spec == Init /\ [][Next]_vars

------------------------------------------------------------------------------
(* Properties                                                              *)

(* Types of every variable.                                                *)
TypeOK ==
  /\ lead \in Leads /\ mode \in Modes
  /\ pc \in [Workers -> {"idle", "lock"} \cup Reviewing]
  /\ late \in [Workers -> BOOLEAN]
  /\ result \in [Workers -> Results \cup {None}]
  /\ lock \in Workers \cup {NoWorker}
  /\ cache \in [Stages -> Opinions \cup Results \cup {None}]
  /\ answer \in [Workers -> Answers \cup {None}]
  /\ reviews \in 0..MaxReviews

(* What a clearance may rest on: the analyst alone, for a medium lead      *)
(* without attention, or a certified adjudicator who had a critic before   *)
(* him.                                                                    *)
Certified(r) ==
  /\ lead.complete /\ r.analyst \in Clearances
  /\ \/ /\ lead.risk = "medium" /\ lead.graph /\ r.analyst.firm
        /\ ~lead.scorer /\ ~lead.integrity
     \/ /\ r.critic \in Clearances \cup Violations
        /\ r.adjudicator \in Clearances /\ r.adjudicator.firm

(* A lead is only ever cleared on a complete dossier by a chain that ends  *)
(* in a certificate, however many of its stages were formed in earlier     *)
(* reviews, by other workers or before a failure.                          *)
ClearanceIsCertified ==
  \A w \in Workers :
    answer[w] # None /\ answer[w].given = "low" => Certified(answer[w].result)

(* Worker w answers in this step.                                          *)
AnswersNow(w) == answer'[w] # None /\ answer'[w] # answer[w]

(* A violation the analyst has found stays found as long as it is cached:  *)
(* no retry, by whatever worker, clears the lead or passes it for want of  *)
(* budget.                                                                 *)
ViolationIsNotRetriedAway ==
  [][\A w \in Workers :
       AnswersNow(w) /\ cache["analyst"] \in Violations
         => answer'[w].given \notin {"low", "pass_inconclusive"}]_vars

(* No stage is paid for while an opinion of it can be read: what is in the *)
(* cache stays until it expires.                                           *)
NothingIsPaidTwice ==
  [][\A k \in Stages :
       cache[k] # None => cache'[k] \in {cache[k], None}]_vars

(* Reviews of the same lead agree as long as one of them can be read.      *)
AnswersRepeatTheCache ==
  [][\A w \in Workers :
       AnswersNow(w) /\ cache["full"] # None /\ answer'[w].result # None
         => \/ answer'[w].result.verdict \notin Conclusive
            \/ answer'[w].result.verdict = cache["full"].verdict]_vars
=============================================================================
