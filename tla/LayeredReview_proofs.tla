-------------------------- MODULE LayeredReview_proofs -------------------------
(***************************************************************************)
(* What TLAPS proves of LayeredReview for any workers, leads, bases and    *)
(* number of reviews: types, what a clearance rests on, and what a retry   *)
(* may find in the cache and may not change.                               *)
(*                                                                         *)
(* Parts of the invariant take the cache c as a parameter, so that a step  *)
(* can be asked whether its worker fits the cache it leaves behind.        *)
(***************************************************************************)
EXTENDS LayeredReview, TLAPS

Opined == Clearances \cup Violations

(* Who is past the lock holds it.                                          *)
LockInv == \A w \in Workers : pc[w] \in Reviewing <=> lock = w

(* An analyst's opinion in r is the one that can be read, if any can.      *)
SameAnalyst(r, c) ==
  r.analyst # None /\ c["analyst"] # None => c["analyst"] = r.analyst

(* Opinions are cached one by one, results only with what they rest on.    *)
CacheOK(c) ==
  /\ c \in [Stages -> Opinions \cup Results \cup {None}]
  /\ c["analyst"] \in Opined \cup {None}
  /\ c["critic"] \in Opined \cup {None}
  /\ c["full"] # None =>
       /\ c["full"] \in Results /\ c["full"].hit
       /\ c["full"].verdict \in Conclusive
       /\ c["full"].verdict = "low" => Certified(c["full"])
       /\ SameAnalyst(c["full"], c)

(* What a result r is worth that is about to be given.                     *)
Ends(r, c) ==
  /\ r.verdict \in Verdicts
  /\ r.hit => c["full"] \in {None, r}
  /\ ~r.hit => c["full"] = None
  /\ r.verdict = "low" => Certified(r)
  /\ r.verdict = "pass_inconclusive" => c["analyst"] = None

(* A stage q is only run if it cannot be read, and after those before it.  *)
Fits(q, r, c) ==
  /\ r \in Results /\ SameAnalyst(r, c)
  /\ q \in {"load", "dossier", "analyst"} => r = Open
  /\ q \notin {"load", "finish"} => c["full"] = None /\ ~r.hit
  /\ q = "analyst" => c["analyst"] = None
  /\ q = "critic" => c["critic"] = None
  /\ q \in {"critic", "safety"} => r.analyst \in Clearances
  /\ q \in {"cause", "tiebreak"} => r.analyst \in Violations
  /\ q = "safety" => r.critic \in Opined
  /\ q = "finish" => Ends(r, c)

ReviewInv ==
  \A w \in Workers : pc[w] \in Reviewing => Fits(pc[w], result[w], cache)

IInv == TypeOK /\ LockInv /\ CacheOK(cache) /\ ReviewInv /\ ClearanceIsCertified

------------------------------------------------------------------------------
(* Results and opinions                                                    *)

LEMMA OpinionFacts ==
  /\ Undecided \in Opinions
  /\ \A o \in Opinions : o.verdict \in Conclusive
  /\ \A o \in Opinions : o.verdict = "low" => o \in Clearances
  /\ \A o \in Opinions : o.verdict = "elevated" => o \in Violations
  /\ \A o \in Opinions : o # Undecided => o \in Opined
  /\ \A o \in Clearances : o.verdict = "low" /\ o \notin Violations
  /\ \A o \in Violations : o.verdict = "elevated"
  /\ Opined \subseteq Opinions
<1>1. Undecided \in Opinions
  BY DEF Opinions
<1>2. \A o \in Clearances : o.verdict = "low" /\ o \notin Violations
  BY DEF Clearances, Violations
<1>3. \A o \in Violations : o.verdict = "elevated"
  BY DEF Violations
<1>4. Undecided.verdict = "inconclusive"
  BY DEF Undecided
<1>5. \A o \in Opinions : o \in Clearances \/ o \in Violations \/ o = Undecided
  BY DEF Opinions
<1>. QED
  BY <1>1, <1>2, <1>3, <1>4, <1>5 DEF Opinions, Opined, Conclusive

LEMMA OpenResult ==
  /\ Open \in Results /\ ~Open.hit /\ Open.analyst = None
  BY DEF Open, Results

LEMMA ResultUpdates ==
  ASSUME NEW r \in Results
  PROVE  /\ \A v \in Verdicts :
              /\ [r EXCEPT !.verdict = v] \in Results
              /\ [r EXCEPT !.verdict = v].verdict = v
              /\ [r EXCEPT !.verdict = v].hit = r.hit
              /\ [r EXCEPT !.verdict = v].analyst = r.analyst
              /\ [r EXCEPT !.verdict = v].critic = r.critic
              /\ [r EXCEPT !.verdict = v].adjudicator = r.adjudicator
         /\ /\ [r EXCEPT !.hit = TRUE] \in Results
            /\ [r EXCEPT !.hit = TRUE].hit
            /\ [r EXCEPT !.hit = TRUE].verdict = r.verdict
            /\ [r EXCEPT !.hit = TRUE].analyst = r.analyst
            /\ [r EXCEPT !.hit = TRUE].critic = r.critic
            /\ [r EXCEPT !.hit = TRUE].adjudicator = r.adjudicator
         /\ \A o \in Opinions :
              /\ [r EXCEPT !.analyst = o] \in Results
              /\ [r EXCEPT !.analyst = o].hit = r.hit
              /\ [r EXCEPT !.analyst = o].analyst = o
         /\ \A o \in Opinions :
              /\ [r EXCEPT !.critic = o] \in Results
              /\ [r EXCEPT !.critic = o].hit = r.hit
              /\ [r EXCEPT !.critic = o].analyst = r.analyst
              /\ [r EXCEPT !.critic = o].critic = o
         /\ \A o \in Opinions :
              /\ [r EXCEPT !.adjudicator = o] \in Results
              /\ [r EXCEPT !.adjudicator = o].hit = r.hit
              /\ [r EXCEPT !.adjudicator = o].analyst = r.analyst
              /\ [r EXCEPT !.adjudicator = o].critic = r.critic
              /\ [r EXCEPT !.adjudicator = o].adjudicator = o
  BY DEF Results

(* What it takes to conclude a review.                                     *)
LEMMA ConcludedFits ==
  ASSUME NEW c, NEW r \in Results, ~r.hit, c["full"] = None, SameAnalyst(r, c),
         NEW v \in Verdicts,
         v = "low" => Certified(r),
         v = "pass_inconclusive" => c["analyst"] = None
  PROVE  Fits("finish", [r EXCEPT !.verdict = v], c)
<1>. DEFINE s == [r EXCEPT !.verdict = v]
<1>1. /\ s \in Results /\ s.verdict = v /\ ~s.hit /\ s.analyst = r.analyst
      /\ s.critic = r.critic /\ s.adjudicator = r.adjudicator
  BY ResultUpdates
<1>. HIDE DEF s
<1>2. SameAnalyst(s, c)
  BY <1>1 DEF SameAnalyst
<1>3. v = "low" => Certified(s)
  BY <1>1 DEF Certified
<1>4. Ends(s, c)
  BY <1>1, <1>3 DEF Ends
<1>5. Fits("finish", s, c)
  BY <1>1, <1>2, <1>4 DEF Fits
<1>. QED
  BY <1>5 DEF s

(* Only one worker is past the lock.                                       *)
LEMMA Alone ==
  ASSUME IInv, NEW w \in Workers, pc[w] \in Reviewing
  PROVE  /\ lock = w /\ Fits(pc[w], result[w], cache)
         /\ \A v \in Workers : v # w => pc[v] \notin Reviewing
  BY DEF IInv, LockInv, ReviewInv

(* What a step of one review has to show.                                  *)
LEMMA StageStep ==
  ASSUME IInv, NEW w \in Workers, pc[w] \in Reviewing,
         NEW q \in Reviewing, NEW r, Fits(q, r, cache'), CacheOK(cache'),
         pc' = [pc EXCEPT ![w] = q], result' = [result EXCEPT ![w] = r],
         UNCHANGED <<lead, mode, late, lock, answer, reviews>>
  PROVE  IInv'
<1>1. /\ lock = w
      /\ \A v \in Workers : v # w => pc[v] \notin Reviewing
  BY Alone
<1>2. /\ pc \in [Workers -> {"idle", "lock"} \cup Reviewing]
      /\ result \in [Workers -> Results \cup {None}]
  BY DEF IInv, TypeOK
<1>3. /\ pc'[w] = q /\ result'[w] = r
      /\ \A v \in Workers : v # w => pc'[v] = pc[v] /\ result'[v] = result[v]
  BY <1>2
<1>4. r \in Results
  BY DEF Fits
<1>5. TypeOK'
  <2>1. /\ pc' \in [Workers -> {"idle", "lock"} \cup Reviewing]
        /\ result' \in [Workers -> Results \cup {None}]
    BY <1>2, <1>4
  <2>2. cache' \in [Stages -> Opinions \cup Results \cup {None}]
    BY DEF CacheOK
  <2>. QED
    BY <2>1, <2>2 DEF IInv, TypeOK
<1>6. LockInv'
  BY <1>1, <1>3 DEF LockInv
<1>7. CacheOK(cache)'
  BY DEF CacheOK, Certified, SameAnalyst
<1>8. ReviewInv'
  BY <1>1, <1>3 DEF ReviewInv, Fits, Ends, Certified, SameAnalyst
<1>9. ClearanceIsCertified'
  BY DEF IInv, ClearanceIsCertified, Certified
<1>. QED
  BY <1>5, <1>6, <1>7, <1>8, <1>9 DEF IInv

(* What the end of a review has to show.                                   *)
LEMMA LeaveStep ==
  ASSUME IInv, NEW w \in Workers, NEW a, pc[w] # "idle", Leave(w, a),
         a \in Answers \cup {None},
         a # None /\ a.given = "low" => Certified(a.result),
         CacheOK(cache'), pc[w] \in Reviewing \/ cache' = cache,
         UNCHANGED <<lead, mode, late, reviews>>
  PROVE  IInv'
<1>1. \A v \in Workers : v # w /\ pc[v] \in Reviewing
        => pc[w] \notin Reviewing /\ lock = v /\ cache' = cache
  BY Alone
<1>2. /\ pc \in [Workers -> {"idle", "lock"} \cup Reviewing]
      /\ result \in [Workers -> Results \cup {None}]
      /\ answer \in [Workers -> Answers \cup {None}]
      /\ lock \in Workers \cup {NoWorker}
  BY DEF IInv, TypeOK
<1>3. /\ pc'[w] = "idle" /\ answer'[w] = a
      /\ \A v \in Workers :
           v # w => /\ pc'[v] = pc[v] /\ result'[v] = result[v]
                    /\ answer'[v] = answer[v]
      /\ lock' = IF lock = w THEN NoWorker ELSE lock
  BY <1>2 DEF Leave
<1>4. TypeOK'
  <2>1. /\ pc' \in [Workers -> {"idle", "lock"} \cup Reviewing]
        /\ result' \in [Workers -> Results \cup {None}]
        /\ answer' \in [Workers -> Answers \cup {None}]
        /\ lock' \in Workers \cup {NoWorker}
    BY <1>2, <1>3 DEF Leave
  <2>2. cache' \in [Stages -> Opinions \cup Results \cup {None}]
    BY DEF CacheOK
  <2>. QED
    BY <2>1, <2>2 DEF IInv, TypeOK
<1>5. LockInv'
  <2>1. "idle" \notin Reviewing
    BY DEF Reviewing
  <2>. QED
    BY <1>1, <1>3, <2>1, ReviewAssumption DEF IInv, LockInv
<1>6. CacheOK(cache)'
  BY DEF CacheOK, Certified, SameAnalyst
<1>7. ReviewInv'
  <2>1. SUFFICES ASSUME NEW v \in Workers, pc'[v] \in Reviewing
                 PROVE  Fits(pc[v], result[v], cache)'
    BY DEF ReviewInv
  <2>2. v # w /\ pc'[v] = pc[v] /\ result'[v] = result[v]
    BY <1>3, <2>1 DEF Reviewing
  <2>3. cache' = cache /\ Fits(pc[v], result[v], cache)
    BY <1>1, <2>1, <2>2 DEF IInv, ReviewInv
  <2>. QED
    BY <2>2, <2>3 DEF Fits, Ends, Certified, SameAnalyst
<1>8. ClearanceIsCertified'
  BY <1>3 DEF IInv, ClearanceIsCertified, Certified
<1>. QED
  BY <1>4, <1>5, <1>6, <1>7, <1>8 DEF IInv

------------------------------------------------------------------------------
(* One lemma for each action                                               *)

LEMMA InitStep == Init => IInv
<1>. SUFFICES ASSUME Init PROVE IInv
  OBVIOUS
<1>1. TypeOK
  BY ReviewAssumption DEF Init, TypeOK
<1>2. /\ LockInv /\ ReviewInv /\ ClearanceIsCertified
  BY ReviewAssumption DEF Init, LockInv, ReviewInv, Reviewing, ClearanceIsCertified
<1>3. CacheOK(cache)
  BY DEF Init, CacheOK, Stages
<1>. QED
  BY <1>1, <1>2, <1>3 DEF IInv

LEMMA StutterStep == IInv /\ UNCHANGED vars => IInv'
  BY DEF IInv, vars, TypeOK, LockInv, CacheOK, SameAnalyst, ReviewInv, Fits, Ends,
         ClearanceIsCertified, Certified

(* Steps that change nothing the invariant relates to the cache.           *)
LEMMA OutsideStep ==
  ASSUME IInv, TypeOK',
         \A w \in Workers : /\ pc[w] \in Reviewing <=> pc'[w] \in Reviewing
                            /\ pc[w] \in Reviewing => pc'[w] = pc[w]
                                                      /\ result'[w] = result[w],
         \A w \in Workers : answer'[w] # answer[w] /\ answer'[w] # None
                              => answer'[w].given # "low",
         UNCHANGED <<lead, lock, cache>>
  PROVE  IInv'
<1>1. LockInv'
  BY DEF IInv, LockInv
<1>2. CacheOK(cache)'
  BY DEF IInv, CacheOK, Certified, SameAnalyst
<1>3. ReviewInv'
  BY DEF IInv, ReviewInv, Fits, Ends, Certified, SameAnalyst
<1>4. ClearanceIsCertified'
  BY DEF IInv, ClearanceIsCertified, Certified
<1>. QED
  BY <1>1, <1>2, <1>3, <1>4 DEF IInv

LEMMA ResolveLeadStep ==
  ASSUME IInv, NEW w \in Workers, ResolveLead(w)
  PROVE  IInv'
<1>1. /\ pc \in [Workers -> {"idle", "lock"} \cup Reviewing]
      /\ late \in [Workers -> BOOLEAN]
      /\ answer \in [Workers -> Answers \cup {None}]
      /\ reviews \in 0..MaxReviews
  BY DEF IInv, TypeOK
<1>. DEFINE a == [given |-> "lead", result |-> None]
<1>2. a \in Answers /\ a.given # "low"
  BY DEF Answers
<1>. HIDE DEF a
<1>3. reviews' \in 0..MaxReviews
  BY <1>1, ReviewAssumption DEF ResolveLead
<1>4. /\ pc' \in [Workers -> {"idle", "lock"} \cup Reviewing]
      /\ late' \in [Workers -> BOOLEAN]
      /\ answer' \in [Workers -> Answers \cup {None}]
      /\ answer'[w] \in {None, a}
      /\ pc[w] = "idle" /\ pc'[w] \in {"idle", "lock"}
      /\ \A v \in Workers : v # w => pc'[v] = pc[v] /\ answer'[v] = answer[v]
  BY <1>1, <1>2 DEF ResolveLead, a
<1>5. TypeOK'
  BY <1>3, <1>4 DEF IInv, TypeOK, ResolveLead
<1>6. "idle" \notin Reviewing /\ "lock" \notin Reviewing
  BY DEF Reviewing
<1>. QED
  BY <1>2, <1>4, <1>5, <1>6, OutsideStep DEF ResolveLead

LEMMA DeadlinePassesStep ==
  ASSUME IInv, NEW w \in Workers, DeadlinePasses(w)
  PROVE  IInv'
<1>1. TypeOK'
  BY DEF IInv, TypeOK, DeadlinePasses
<1>. QED
  BY <1>1, OutsideStep DEF DeadlinePasses

LEMMA ExpireStep ==
  ASSUME IInv, NEW k \in Stages, Expire(k)
  PROVE  IInv'
<1>1. cache \in [Stages -> Opinions \cup Results \cup {None}]
  BY DEF IInv, TypeOK
<1>2. /\ cache' \in [Stages -> Opinions \cup Results \cup {None}]
      /\ \A j \in Stages : cache'[j] \in {cache[j], None}
      /\ "analyst" \in Stages /\ "critic" \in Stages /\ "full" \in Stages
  BY <1>1 DEF Expire, Store, Stages
<1>3. TypeOK'
  BY <1>2 DEF IInv, TypeOK, Expire
<1>4. CacheOK(cache)'
  BY <1>2 DEF IInv, CacheOK, Certified, SameAnalyst, Expire
<1>5. ReviewInv'
  BY <1>2 DEF IInv, ReviewInv, Fits, Ends, Certified, SameAnalyst, Expire
<1>. QED
  BY <1>3, <1>4, <1>5
     DEF IInv, LockInv, ClearanceIsCertified, Certified, Expire

LEMMA TryLockCacheStep ==
  ASSUME IInv, NEW w \in Workers, TryLockCache(w)
  PROVE  IInv'
<1>1. /\ pc \in [Workers -> {"idle", "lock"} \cup Reviewing]
      /\ result \in [Workers -> Results \cup {None}]
  BY DEF IInv, TypeOK
<1>2. \A v \in Workers : pc[v] \notin Reviewing
  BY ReviewAssumption DEF IInv, LockInv, TryLockCache
<1>3. /\ pc'[w] = "load" /\ result'[w] = Open /\ "load" \in Reviewing
      /\ \A v \in Workers : v # w => pc'[v] = pc[v]
  BY <1>1 DEF TryLockCache, Reviewing
<1>4. TypeOK'
  <2>1. /\ pc' \in [Workers -> {"idle", "lock"} \cup Reviewing]
        /\ result' \in [Workers -> Results \cup {None}]
    BY <1>1, <1>3, OpenResult DEF TryLockCache
  <2>. QED
    BY <2>1 DEF IInv, TypeOK, TryLockCache
<1>5. LockInv'
  BY <1>2, <1>3 DEF LockInv, TryLockCache
<1>6. CacheOK(cache)'
  BY DEF IInv, CacheOK, Certified, SameAnalyst, TryLockCache
<1>7. Fits("load", Open, cache')
  BY OpenResult DEF Fits, SameAnalyst, IInv, CacheOK, TryLockCache
<1>8. ReviewInv'
  BY <1>2, <1>3, <1>7 DEF ReviewInv, Fits, SameAnalyst
<1>9. ClearanceIsCertified'
  BY DEF IInv, ClearanceIsCertified, Certified, TryLockCache
<1>. QED
  BY <1>4, <1>5, <1>6, <1>8, <1>9 DEF IInv

(* What is given for a result: its verdict, or the lead.                   *)
LEMMA GivenFacts ==
  ASSUME NEW r \in Results, r.verdict \in Verdicts
  PROVE  /\ Given(r) \in Answers /\ Given(r).result = r
         /\ Given(r).given \in {r.verdict, "lead"}
         /\ Raised \in Answers /\ Raised.given = "raised" /\ Raised.result = None
  BY DEF Given, Raised, Answers

LEMMA LockFailsStep ==
  ASSUME IInv, NEW w \in Workers, LockFails(w)
  PROVE  IInv'
<1>1. /\ CacheOK(cache') /\ cache' = cache /\ pc[w] # "idle" /\ Leave(w, Raised)
      /\ UNCHANGED <<lead, mode, late, reviews>>
  BY DEF IInv, LockFails
<1>2. Raised \in Answers /\ Raised.given = "raised"
  BY DEF Raised, Answers
<1>. QED
  BY <1>1, <1>2, LeaveStep

LEMMA LockTimesOutStep ==
  ASSUME IInv, NEW w \in Workers, LockTimesOut(w)
  PROVE  IInv'
<1>. DEFINE r == [Open EXCEPT !.verdict = "retryable_infra"]
<1>1. "retryable_infra" \in Verdicts
  BY DEF Verdicts
<1>2. r \in Results /\ r.verdict = "retryable_infra"
  BY <1>1, OpenResult, ResultUpdates
<1>3. CacheOK(cache') /\ cache' = cache
  BY DEF IInv, LockTimesOut
<1>4. pc[w] # "idle" /\ UNCHANGED <<lead, mode, late, reviews>>
  BY DEF LockTimesOut
<1>. HIDE DEF r
<1>5. CASE Leave(w, Given(r))
  BY <1>1, <1>2, <1>3, <1>4, <1>5, GivenFacts, LeaveStep
<1>6. CASE Leave(w, Raised)
  BY <1>1, <1>2, <1>3, <1>4, <1>6, GivenFacts, LeaveStep
<1>. QED
  BY <1>5, <1>6 DEF LockTimesOut, r

LEMMA AbandonStep ==
  ASSUME IInv, NEW w \in Workers, Abandon(w)
  PROVE  IInv'
<1>1. /\ CacheOK(cache') /\ cache' = cache /\ pc[w] # "idle" /\ Leave(w, None)
      /\ UNCHANGED <<lead, mode, late, reviews>>
  BY DEF IInv, Abandon
<1>. QED
  BY <1>1, LeaveStep

LEMMA LoadCachedStep ==
  ASSUME IInv, NEW w \in Workers, LoadCached(w)
  PROVE  IInv'
<1>1. /\ pc[w] = "load" /\ cache' = cache
      /\ pc[w] \in Reviewing /\ "finish" \in Reviewing /\ "dossier" \in Reviewing
      /\ UNCHANGED <<lead, mode, late, lock, answer, reviews>>
  BY DEF LoadCached, Reviewing
<1>2. CacheOK(cache') /\ CacheOK(cache)
  BY <1>1 DEF IInv
<1>3. CASE cache["full"] # None /\ Proceed(w, cache["full"], "finish")
  <2>1. Ends(cache["full"], cache')
    BY <1>1, <1>2, <1>3 DEF CacheOK, Ends, Verdicts, Conclusive
  <2>2. Fits("finish", cache["full"], cache')
    BY <1>1, <1>2, <1>3, <2>1 DEF CacheOK, Fits
  <2>. QED
    BY <1>1, <1>2, <1>3, <2>2, StageStep DEF Proceed
<1>4. CASE cache["full"] = None /\ Proceed(w, Open, "dossier")
  <2>1. Fits("dossier", Open, cache')
    BY <1>1, <1>4, OpenResult DEF Fits, SameAnalyst
  <2>. QED
    BY <1>1, <1>2, <1>4, <2>1, StageStep DEF Proceed
<1>. QED
  BY <1>3, <1>4 DEF LoadCached

(* A review that ends here without a clearance, whatever it has heard.     *)
LEMMA ConcludeStep ==
  ASSUME IInv, NEW w \in Workers, pc[w] \in Reviewing,
         NEW r \in Results, ~r.hit, SameAnalyst(r, cache'), CacheOK(cache'),
         cache'["full"] = None,
         NEW v \in Verdicts, Conclude(w, r, v),
         v = "low" => Certified(r),
         v = "pass_inconclusive" => cache'["analyst"] = None,
         UNCHANGED <<lead, mode, late, lock, answer, reviews>>
  PROVE  IInv'
<1>1. Fits("finish", [r EXCEPT !.verdict = v], cache')
  BY ConcludedFits
<1>2. "finish" \in Reviewing
  BY DEF Reviewing
<1>. QED
  BY <1>1, <1>2, StageStep DEF Conclude

(* The step on from the opinion o of the analyst, read or just formed.     *)
LEMMA AfterAnalystStep ==
  ASSUME IInv, NEW w \in Workers, pc[w] \in Reviewing,
         NEW o \in Opinions, NEW r, r = [Open EXCEPT !.analyst = o],
         AfterAnalyst(w, r), CacheOK(cache'),
         cache'["full"] = None, cache'["critic"] = cache["critic"],
         cache'["analyst"] \in {None, o},
         UNCHANGED <<lead, mode, late, lock, answer, reviews>>
  PROVE  IInv'
<1>1. r \in Results /\ ~r.hit /\ r.analyst = o
  BY DEF Open, Results
<1>2. SameAnalyst(r, cache')
  BY <1>1 DEF SameAnalyst
<1>3. /\ {"critic", "safety", "cause"} \subseteq Reviewing
      /\ Conclusive \subseteq Verdicts /\ "low" \in Verdicts
  BY DEF Reviewing, Verdicts, Conclusive
<1>4. o.verdict \in Conclusive
  BY OpinionFacts
<1>5. CASE o.verdict = "low" /\ QualifiesForDirectClear(o) /\ Conclude(w, r, "low")
  <2>1. Certified(r)
    BY <1>1, <1>5, OpinionFacts DEF Certified, QualifiesForDirectClear
  <2>. QED
    BY <1>1, <1>2, <1>3, <1>5, <2>1, ConcludeStep
<1>6. CASE o.verdict = "low" /\ cache["critic"] = None /\ Proceed(w, r, "critic")
  <2>1. Fits("critic", r, cache')
    BY <1>1, <1>2, <1>6, OpinionFacts DEF Fits
  <2>. QED
    BY <1>3, <1>6, <2>1, StageStep DEF Proceed
<1>7. CASE /\ o.verdict = "low" /\ cache["critic"] # None
           /\ Proceed(w, [r EXCEPT !.critic = cache["critic"]], "safety")
  <2>. DEFINE s == [r EXCEPT !.critic = cache["critic"]]
  <2>1. cache["critic"] \in Opined /\ cache["critic"] \in Opinions
    BY <1>7, OpinionFacts DEF IInv, CacheOK
  <2>2. /\ s \in Results /\ ~s.hit /\ s.analyst = o /\ s.critic \in Opined
    BY <1>1, <2>1, ResultUpdates
  <2>. HIDE DEF s
  <2>3. SameAnalyst(s, cache')
    BY <2>2 DEF SameAnalyst
  <2>4. Fits("safety", s, cache')
    BY <1>7, <2>2, <2>3, OpinionFacts DEF Fits
  <2>5. Proceed(w, s, "safety")
    BY <1>7 DEF s
  <2>. QED
    BY <1>3, <2>4, <2>5, StageStep DEF Proceed
<1>8. CASE NeedsViolationAdjudication(o) /\ Proceed(w, r, "cause")
  <2>1. Fits("cause", r, cache')
    BY <1>1, <1>2, <1>8, OpinionFacts DEF Fits, NeedsViolationAdjudication
  <2>. QED
    BY <1>3, <1>8, <2>1, StageStep DEF Proceed
<1>9. CASE o.verdict # "low" /\ Conclude(w, r, o.verdict)
  <2>1. o.verdict \in Verdicts /\ o.verdict # "pass_inconclusive"
    BY <1>3, <1>4 DEF Conclusive
  <2>. QED
    BY <1>1, <1>2, <1>9, <2>1, ConcludeStep
<1>. QED
  BY <1>1, <1>5, <1>6, <1>7, <1>8, <1>9 DEF AfterAnalyst

LEMMA BuildDossierStep ==
  ASSUME IInv, NEW w \in Workers, BuildDossier(w)
  PROVE  IInv'
<1>1. /\ pc[w] = "dossier" /\ pc[w] \in Reviewing /\ cache' = cache
      /\ UNCHANGED <<lead, mode, late, lock, answer, reviews>>
  BY DEF BuildDossier, Reviewing
<1>2. result[w] = Open /\ cache["full"] = None /\ CacheOK(cache)
  BY <1>1, Alone DEF Fits, IInv
<1>3. ASSUME NEW v \in {"inconclusive", "retryable_infra"},
             Conclude(w, result[w], v)
      PROVE  IInv'
  <2>1. v \in Verdicts /\ v # "low" /\ v # "pass_inconclusive"
    BY DEF Verdicts, Conclusive
  <2>2. SameAnalyst(Open, cache')
    BY OpenResult DEF SameAnalyst
  <2>. QED
    BY <1>1, <1>2, <1>3, <2>1, <2>2, OpenResult, ConcludeStep
<1>4. CASE cache["analyst"] = None /\ Proceed(w, result[w], "analyst")
  <2>1. Fits("analyst", Open, cache') /\ "analyst" \in Reviewing
    BY <1>1, <1>2, <1>4, OpenResult DEF Fits, SameAnalyst, Reviewing
  <2>. QED
    BY <1>1, <1>2, <1>4, <2>1, StageStep DEF Proceed
<1>5. CASE /\ cache["analyst"] # None
           /\ AfterAnalyst(w, [result[w] EXCEPT !.analyst = cache["analyst"]])
  <2>1. cache["analyst"] \in Opinions
    BY <1>2, <1>5, OpinionFacts DEF CacheOK
  <2>. QED
    BY <1>1, <1>2, <1>5, <2>1, AfterAnalystStep
<1>. QED
  BY <1>3, <1>4, <1>5 DEF BuildDossier

(* Keeping an opinion of a stage while no result can be read.              *)
LEMMA StoreOpinion ==
  ASSUME IInv, NEW k \in {"analyst", "critic"}, NEW o \in Opined,
         cache["full"] = None, Store(k, o)
  PROVE  /\ CacheOK(cache') /\ cache'["full"] = None /\ cache'[k] = o
         /\ k = "analyst" => cache'["critic"] = cache["critic"]
         /\ k = "critic" => cache'["analyst"] = cache["analyst"]
<1>1. /\ cache \in [Stages -> Opinions \cup Results \cup {None}]
      /\ CacheOK(cache)
  BY DEF IInv, TypeOK
<1>2. o \in Opinions /\ k \in Stages /\ {"analyst", "critic", "full"} \subseteq Stages
  BY OpinionFacts DEF Stages
<1>3. /\ cache' \in [Stages -> Opinions \cup Results \cup {None}]
      /\ cache'[k] = o /\ \A j \in Stages : j # k => cache'[j] = cache[j]
  BY <1>1, <1>2 DEF Store
<1>4. cache'["full"] = None
  BY <1>2, <1>3
<1>5. CacheOK(cache')
  BY <1>1, <1>2, <1>3, <1>4 DEF CacheOK
<1>. QED
  BY <1>2, <1>3, <1>4, <1>5

LEMMA RunAnalystStep ==
  ASSUME IInv, NEW w \in Workers, RunAnalyst(w)
  PROVE  IInv'
<1>1. /\ pc[w] = "analyst" /\ pc[w] \in Reviewing
      /\ UNCHANGED <<lead, mode, late, lock, answer, reviews>>
  BY DEF RunAnalyst, Reviewing
<1>2. /\ result[w] = Open /\ cache["full"] = None /\ cache["analyst"] = None
      /\ CacheOK(cache)
  BY <1>1, Alone DEF Fits, IInv
<1>3. ASSUME NEW v \in {"pass_inconclusive", "inconclusive", "retryable_infra"},
             Conclude(w, result[w], v), UNCHANGED cache
      PROVE  IInv'
  <2>1. v \in Verdicts /\ v # "low"
    BY DEF Verdicts, Conclusive
  <2>2. SameAnalyst(Open, cache')
    BY OpenResult DEF SameAnalyst
  <2>. QED
    BY <1>1, <1>2, <1>3, <2>1, <2>2, OpenResult, ConcludeStep
<1>4. ASSUME NEW o \in Opinions,
             AfterAnalyst(w, [result[w] EXCEPT !.analyst = o]),
             IF o = Undecided THEN UNCHANGED cache ELSE Store("analyst", o)
      PROVE  IInv'
  <2>1. /\ CacheOK(cache') /\ cache'["full"] = None
        /\ cache'["critic"] = cache["critic"] /\ cache'["analyst"] \in {None, o}
    <3>1. CASE o = Undecided
      BY <1>2, <1>4, <3>1
    <3>2. CASE o # Undecided
      BY <1>2, <1>4, <3>2, OpinionFacts, StoreOpinion
    <3>. QED
      BY <3>1, <3>2
  <2>. QED
    BY <1>1, <1>2, <1>4, <2>1, AfterAnalystStep
<1>. QED
  BY <1>3, <1>4 DEF RunAnalyst

(* The stages of L3 begin with an analyst's opinion.                       *)
LEMMA L3Facts ==
  ASSUME IInv, NEW w \in Workers,
         pc[w] \in {"cause", "tiebreak", "critic", "safety"}
  PROVE  /\ pc[w] \in Reviewing /\ result[w] \in Results /\ ~result[w].hit
         /\ SameAnalyst(result[w], cache) /\ CacheOK(cache) /\ cache["full"] = None
<1>1. pc[w] \in Reviewing
  BY DEF Reviewing
<1>. QED
  BY <1>1, Alone DEF Fits, IInv

LEMMA InconclusiveStep ==
  ASSUME IInv, NEW w \in Workers,
         pc[w] \in {"cause", "tiebreak", "critic", "safety"},
         Inconclusive(w),
         UNCHANGED <<lead, mode, late, lock, cache, answer, reviews>>
  PROVE  IInv'
<1>1. PICK v \in {"inconclusive", "retryable_infra"} : Conclude(w, result[w], v)
  BY DEF Inconclusive
<1>2. v \in Verdicts /\ v # "low" /\ v # "pass_inconclusive"
  BY DEF Verdicts, Conclusive
<1>. QED
  BY <1>1, <1>2, L3Facts, ConcludeStep

(* A review that ends with the opinion o of an adjudicator.                *)
LEMMA AdjudicatedStep ==
  ASSUME IInv, NEW w \in Workers,
         pc[w] \in {"cause", "tiebreak", "safety"}, NEW o \in Opinions,
         NEW v \in {"elevated", "inconclusive", "retryable_infra"},
         Conclude(w, [result[w] EXCEPT !.adjudicator = o], v),
         UNCHANGED <<lead, mode, late, lock, cache, answer, reviews>>
  PROVE  IInv'
<1>. DEFINE r == [result[w] EXCEPT !.adjudicator = o]
<1>1. /\ pc[w] \in Reviewing /\ result[w] \in Results /\ ~result[w].hit
      /\ SameAnalyst(result[w], cache) /\ CacheOK(cache) /\ cache["full"] = None
  BY L3Facts
<1>2. r \in Results /\ ~r.hit /\ r.analyst = result[w].analyst
  BY <1>1, ResultUpdates
<1>. HIDE DEF r
<1>3. SameAnalyst(r, cache)
  BY <1>1, <1>2 DEF SameAnalyst
<1>4. v \in Verdicts /\ v # "low" /\ v # "pass_inconclusive"
  BY DEF Verdicts, Conclusive
<1>5. Conclude(w, r, v)
  BY DEF r
<1>. QED
  BY <1>1, <1>2, <1>3, <1>4, <1>5, ConcludeStep

LEMMA AdjudicateCauseStep ==
  ASSUME IInv, NEW w \in Workers, AdjudicateCause(w)
  PROVE  IInv'
<1>1. /\ pc[w] = "cause"
      /\ UNCHANGED <<lead, mode, late, lock, cache, answer, reviews>>
  BY DEF AdjudicateCause
<1>2. CASE Inconclusive(w)
  BY <1>1, <1>2, InconclusiveStep
<1>3. ASSUME NEW o \in Opinions,
             \/ Conclude(w, [result[w] EXCEPT !.adjudicator = o], "inconclusive")
             \/ Conclude(w, [result[w] EXCEPT !.adjudicator = o], "elevated")
      PROVE  IInv'
  BY <1>1, <1>3, AdjudicatedStep
<1>4. ASSUME NEW o \in Opinions,
             Proceed(w, [result[w] EXCEPT !.adjudicator = o], "tiebreak")
      PROVE  IInv'
  <2>. DEFINE r == [result[w] EXCEPT !.adjudicator = o]
  <2>1. /\ pc[w] \in Reviewing /\ result[w] \in Results /\ ~result[w].hit
        /\ SameAnalyst(result[w], cache) /\ CacheOK(cache) /\ cache["full"] = None
    BY <1>1, L3Facts
  <2>2. result[w].analyst \in Violations
    BY <1>1, <2>1, Alone DEF Fits
  <2>3. r \in Results /\ ~r.hit /\ r.analyst = result[w].analyst
    BY <2>1, ResultUpdates
  <2>. HIDE DEF r
  <2>4. SameAnalyst(r, cache)
    BY <2>1, <2>3 DEF SameAnalyst
  <2>5. Fits("tiebreak", r, cache) /\ "tiebreak" \in Reviewing
    BY <2>1, <2>2, <2>3, <2>4 DEF Fits, Reviewing
  <2>6. Proceed(w, r, "tiebreak")
    BY <1>4 DEF r
  <2>. QED
    BY <1>1, <2>1, <2>5, <2>6, StageStep DEF Proceed
<1>. QED
  BY <1>2, <1>3, <1>4 DEF AdjudicateCause

LEMMA BreakTieStep ==
  ASSUME IInv, NEW w \in Workers, BreakTie(w)
  PROVE  IInv'
<1>1. /\ pc[w] = "tiebreak"
      /\ UNCHANGED <<lead, mode, late, lock, cache, answer, reviews>>
  BY DEF BreakTie
<1>2. CASE Inconclusive(w)
  BY <1>1, <1>2, InconclusiveStep
<1>3. ASSUME NEW o \in Opinions, NEW v \in {"elevated", "inconclusive"},
             Conclude(w, [result[w] EXCEPT !.adjudicator = o], v)
      PROVE  IInv'
  BY <1>1, <1>3, AdjudicatedStep
<1>. QED
  BY <1>2, <1>3 DEF BreakTie

LEMMA RunCriticStep ==
  ASSUME IInv, NEW w \in Workers, RunCritic(w)
  PROVE  IInv'
<1>1. /\ pc[w] = "critic"
      /\ UNCHANGED <<lead, mode, late, lock, answer, reviews>>
  BY DEF RunCritic
<1>2. /\ pc[w] \in Reviewing /\ result[w] \in Results /\ ~result[w].hit
      /\ SameAnalyst(result[w], cache) /\ CacheOK(cache) /\ cache["full"] = None
  BY <1>1, L3Facts
<1>3. cache["critic"] = None /\ result[w].analyst \in Clearances
  BY <1>1, <1>2, Alone DEF Fits
<1>4. CASE Inconclusive(w) /\ UNCHANGED cache
  BY <1>1, <1>4, InconclusiveStep
<1>5. CASE /\ Conclude(w, [result[w] EXCEPT !.critic = Undecided], "inconclusive")
           /\ UNCHANGED cache
  <2>. DEFINE r == [result[w] EXCEPT !.critic = Undecided]
  <2>1. r \in Results /\ ~r.hit /\ r.analyst = result[w].analyst
    <3>1. PICK o \in Opinions : o = Undecided
      BY OpinionFacts
    <3>2. /\ [result[w] EXCEPT !.critic = o] \in Results
          /\ ~[result[w] EXCEPT !.critic = o].hit
          /\ [result[w] EXCEPT !.critic = o].analyst = result[w].analyst
      BY <1>2, ResultUpdates
    <3>. QED
      BY <3>1, <3>2
  <2>. HIDE DEF r
  <2>2. SameAnalyst(r, cache)
    BY <1>2, <2>1 DEF SameAnalyst
  <2>3. Conclude(w, r, "inconclusive") /\ "inconclusive" \in Verdicts
    BY <1>5 DEF r, Verdicts, Conclusive
  <2>. QED
    BY <1>1, <1>2, <1>5, <2>1, <2>2, <2>3, ConcludeStep
<1>6. ASSUME NEW o \in Opinions \ {Undecided},
             Proceed(w, [result[w] EXCEPT !.critic = o], "safety"),
             IF lead.complete THEN Store("critic", o) ELSE UNCHANGED cache
      PROVE  IInv'
  <2>. DEFINE r == [result[w] EXCEPT !.critic = o]
  <2>1. o \in Opined
    BY OpinionFacts
  <2>2. /\ r \in Results /\ ~r.hit /\ r.analyst = result[w].analyst
        /\ r.critic = o
    BY <1>2, ResultUpdates
  <2>. HIDE DEF r
  <2>3. /\ CacheOK(cache') /\ cache'["full"] = None
        /\ cache'["analyst"] = cache["analyst"]
    <3>1. CASE lead.complete
      BY <1>2, <1>6, <2>1, <3>1, StoreOpinion
    <3>2. CASE ~lead.complete
      BY <1>2, <1>6, <3>2
    <3>. QED
      BY <3>1, <3>2
  <2>4. SameAnalyst(r, cache')
    BY <1>2, <2>2, <2>3 DEF SameAnalyst
  <2>5. Fits("safety", r, cache') /\ "safety" \in Reviewing
    BY <1>3, <2>1, <2>2, <2>3, <2>4 DEF Fits, Reviewing
  <2>6. Proceed(w, r, "safety")
    BY <1>6 DEF r
  <2>. QED
    BY <1>1, <1>2, <2>3, <2>5, <2>6, StageStep DEF Proceed
<1>. QED
  BY <1>4, <1>5, <1>6 DEF RunCritic

LEMMA AdjudicateSafetyStep ==
  ASSUME IInv, NEW w \in Workers, AdjudicateSafety(w)
  PROVE  IInv'
<1>1. /\ pc[w] = "safety"
      /\ UNCHANGED <<lead, mode, late, lock, cache, answer, reviews>>
  BY DEF AdjudicateSafety
<1>2. CASE Inconclusive(w)
  BY <1>1, <1>2, InconclusiveStep
<1>3. ASSUME NEW o \in Opinions,
             Conclude(w, [result[w] EXCEPT !.adjudicator = o], SafetyVerdict(o))
      PROVE  IInv'
  <2>1. CASE o.verdict = "low" /\ lead.complete /\ o.firm
    <3>. DEFINE r == [result[w] EXCEPT !.adjudicator = o]
    <3>1. /\ pc[w] \in Reviewing /\ result[w] \in Results /\ ~result[w].hit
          /\ SameAnalyst(result[w], cache) /\ CacheOK(cache)
          /\ cache["full"] = None
      BY <1>1, L3Facts
    <3>2. result[w].analyst \in Clearances /\ result[w].critic \in Opined
      BY <1>1, <3>1, Alone DEF Fits
    <3>3. /\ r \in Results /\ ~r.hit /\ r.analyst = result[w].analyst
          /\ r.critic = result[w].critic /\ r.adjudicator = o
      BY <3>1, ResultUpdates
    <3>. HIDE DEF r
    <3>4. SameAnalyst(r, cache)
      BY <3>1, <3>3 DEF SameAnalyst
    <3>5. Certified(r)
      BY <2>1, <3>2, <3>3, OpinionFacts DEF Certified, Opined
    <3>6. Conclude(w, r, "low") /\ "low" \in Verdicts
      BY <1>3, <2>1 DEF r, SafetyVerdict, Verdicts, Conclusive
    <3>. QED
      BY <1>1, <3>1, <3>3, <3>4, <3>5, <3>6, ConcludeStep
  <2>2. CASE ~(o.verdict = "low" /\ lead.complete /\ o.firm)
    <3>1. SafetyVerdict(o) \in {"elevated", "inconclusive", "retryable_infra"}
      BY <2>2, OpinionFacts DEF SafetyVerdict, Conclusive
    <3>. QED
      BY <1>1, <1>3, <3>1, AdjudicatedStep
  <2>. QED
    BY <2>1, <2>2
<1>. QED
  BY <1>2, <1>3 DEF AdjudicateSafety

(* What a review knows that is about to end.                               *)
LEMMA FinishFacts ==
  ASSUME IInv, NEW w \in Workers, pc[w] = "finish"
  PROVE  /\ pc[w] \in Reviewing /\ result[w] \in Results
         /\ SameAnalyst(result[w], cache) /\ Ends(result[w], cache)
<1>1. pc[w] \in Reviewing
  BY DEF Reviewing
<1>. QED
  BY <1>1, Alone DEF Fits

LEMMA AcceptedFacts ==
  ASSUME IInv, NEW w \in Workers, pc[w] = "finish"
  PROVE  /\ Accepted(w) \in Results /\ Accepted(w).verdict \in Verdicts
         /\ Accepted(w).verdict = "low" => Certified(Accepted(w))
         /\ Accepted(w).analyst = result[w].analyst
         /\ late[w] => Accepted(w).verdict = "retryable_infra"
         /\ ~late[w] => Accepted(w) = result[w]
<1>1. result[w] \in Results /\ Ends(result[w], cache)
  BY FinishFacts
<1>2. CASE late[w]
  <2>1. "retryable_infra" \in Verdicts
    BY DEF Verdicts
  <2>. QED
    BY <1>1, <1>2, <2>1, ResultUpdates DEF Accepted
<1>3. CASE ~late[w]
  BY <1>1, <1>3 DEF Accepted, Ends
<1>. QED
  BY <1>2, <1>3

LEMMA CacheAfterFacts ==
  ASSUME IInv, NEW w \in Workers, pc[w] = "finish"
  PROVE  /\ CacheOK(CacheAfter(w))
         /\ \A k \in Stages :
              cache[k] # None => CacheAfter(w)[k] = cache[k]
<1>1. /\ result[w] \in Results /\ SameAnalyst(result[w], cache)
      /\ Ends(result[w], cache) /\ CacheOK(cache)
      /\ cache \in [Stages -> Opinions \cup Results \cup {None}]
  BY FinishFacts DEF IInv, TypeOK
<1>2. CASE ~late[w] /\ Storable(result[w])
  <2>. DEFINE r == [result[w] EXCEPT !.hit = TRUE]
  <2>1. /\ r \in Results /\ r.hit /\ r.verdict = result[w].verdict
        /\ r.analyst = result[w].analyst /\ r.critic = result[w].critic
        /\ r.adjudicator = result[w].adjudicator
    BY <1>1, ResultUpdates
  <2>2. CacheAfter(w) = [cache EXCEPT !["full"] = r]
    BY <1>2 DEF CacheAfter
  <2>. HIDE DEF r
  <2>3. /\ CacheAfter(w) \in [Stages -> Opinions \cup Results \cup {None}]
        /\ CacheAfter(w)["full"] = r
        /\ \A k \in Stages : k # "full" => CacheAfter(w)[k] = cache[k]
        /\ {"analyst", "critic", "full"} \subseteq Stages
    BY <1>1, <2>1, <2>2 DEF Stages
  <2>4. SameAnalyst(r, CacheAfter(w))
    BY <1>1, <2>1, <2>3 DEF SameAnalyst
  <2>5. r.verdict \in Conclusive /\ (r.verdict = "low" => Certified(r))
    BY <1>1, <1>2, <2>1 DEF Storable, Ends, Certified
  <2>6. CacheOK(CacheAfter(w))
    BY <1>1, <2>1, <2>3, <2>4, <2>5 DEF CacheOK
  <2>7. cache["full"] = None
    BY <1>1, <1>2 DEF Storable, Ends
  <2>. QED
    BY <2>3, <2>6, <2>7
<1>3. CASE ~(~late[w] /\ Storable(result[w]))
  BY <1>1, <1>3 DEF CacheAfter
<1>. QED
  BY <1>2, <1>3

LEMMA FinishReviewStep ==
  ASSUME IInv, NEW w \in Workers, FinishReview(w)
  PROVE  IInv'
<1>1. /\ pc[w] = "finish" /\ pc[w] # "idle" /\ cache' = CacheAfter(w)
      /\ Leave(w, Given(Accepted(w)))
      /\ UNCHANGED <<lead, mode, late, reviews>>
  BY DEF FinishReview
<1>2. /\ Given(Accepted(w)) \in Answers
      /\ Given(Accepted(w)).given = "low" => Certified(Given(Accepted(w)).result)
  BY <1>1, AcceptedFacts, GivenFacts
<1>3. CacheOK(cache') /\ pc[w] \in Reviewing
  BY <1>1, CacheAfterFacts, FinishFacts
<1>. QED
  BY <1>1, <1>2, <1>3, LeaveStep

LEMMA FinishRaisesStep ==
  ASSUME IInv, NEW w \in Workers, FinishRaises(w)
  PROVE  IInv'
<1>1. /\ pc[w] = "finish" /\ pc[w] # "idle" /\ cache' \in {cache, CacheAfter(w)}
      /\ Leave(w, Raised)
      /\ UNCHANGED <<lead, mode, late, reviews>>
  BY DEF FinishRaises
<1>2. Raised \in Answers /\ Raised.given = "raised"
  BY DEF Raised, Answers
<1>3. CacheOK(cache') /\ pc[w] \in Reviewing
  BY <1>1, CacheAfterFacts, FinishFacts DEF IInv
<1>. QED
  BY <1>1, <1>2, <1>3, LeaveStep

LEMMA NextStep == IInv /\ [Next]_vars => IInv'
<1>. SUFFICES ASSUME IInv, [Next]_vars PROVE IInv'
  OBVIOUS
<1>1. ASSUME NEW w \in Workers, ResolveLead(w) PROVE IInv'
  BY <1>1, ResolveLeadStep
<1>2. ASSUME NEW w \in Workers, TryLockCache(w) PROVE IInv'
  BY <1>2, TryLockCacheStep
<1>3. ASSUME NEW w \in Workers, LockFails(w) \/ LockTimesOut(w) PROVE IInv'
  BY <1>3, LockFailsStep, LockTimesOutStep
<1>4. ASSUME NEW w \in Workers, LoadCached(w) PROVE IInv'
  BY <1>4, LoadCachedStep
<1>5. ASSUME NEW w \in Workers, BuildDossier(w) PROVE IInv'
  BY <1>5, BuildDossierStep
<1>6. ASSUME NEW w \in Workers, RunAnalyst(w) PROVE IInv'
  BY <1>6, RunAnalystStep
<1>7. ASSUME NEW w \in Workers, AdjudicateCause(w) \/ BreakTie(w) PROVE IInv'
  BY <1>7, AdjudicateCauseStep, BreakTieStep
<1>8. ASSUME NEW w \in Workers, RunCritic(w) \/ AdjudicateSafety(w) PROVE IInv'
  BY <1>8, RunCriticStep, AdjudicateSafetyStep
<1>9. ASSUME NEW w \in Workers, FinishReview(w) \/ FinishRaises(w) PROVE IInv'
  BY <1>9, FinishReviewStep, FinishRaisesStep
<1>10. ASSUME NEW w \in Workers, Abandon(w) \/ DeadlinePasses(w) PROVE IInv'
  BY <1>10, AbandonStep, DeadlinePassesStep
<1>11. ASSUME NEW k \in Stages, Expire(k) PROVE IInv'
  BY <1>11, ExpireStep
<1>12. CASE UNCHANGED vars
  BY <1>12, StutterStep
<1>. QED
  BY <1>1, <1>2, <1>3, <1>4, <1>5, <1>6, <1>7, <1>8, <1>9, <1>10, <1>11, <1>12
     DEF Next

LEMMA AlwaysIInv == Spec => []IInv
  BY InitStep, NextStep, PTL DEF Spec

------------------------------------------------------------------------------
(* What a step does to answers and to the cache                            *)

(* A worker answers with what it gives in this step, at its deadline or at *)
(* the end of a review.                                                    *)
LEMMA AnswerCases ==
  ASSUME IInv, [Next]_vars, NEW w \in Workers, AnswersNow(w)
  PROVE  \/ answer'[w].given \in {"lead", "raised"} /\ answer'[w].result = None
         \/ /\ answer'[w].given \in {"lead", "retryable_infra"}
            /\ answer'[w].result.verdict = "retryable_infra"
         \/ pc[w] = "finish" /\ answer'[w] = Given(Accepted(w))
<1>1. answer \in [Workers -> Answers \cup {None}]
  BY DEF IInv, TypeOK
<1>2. answer'[w] # answer[w] /\ answer'[w] # None
  BY DEF AnswersNow
<1>3. ASSUME NEW v \in Workers, NEW a, Leave(v, a) PROVE v = w /\ answer'[w] = a
  BY <1>1, <1>2, <1>3 DEF Leave
<1>4. ASSUME NEW v \in Workers, ResolveLead(v)
      PROVE  answer'[w].given = "lead" /\ answer'[w].result = None
  BY <1>1, <1>2, <1>4 DEF ResolveLead
<1>5. ASSUME NEW v \in Workers, LockTimesOut(v)
      PROVE  \/ answer'[w].given = "raised" /\ answer'[w].result = None
             \/ /\ answer'[w].given \in {"lead", "retryable_infra"}
                /\ answer'[w].result.verdict = "retryable_infra"
  <2>. DEFINE r == [Open EXCEPT !.verdict = "retryable_infra"]
  <2>1. r.verdict = "retryable_infra"
    BY DEF Open
  <2>. HIDE DEF r
  <2>2. \/ answer'[w] = Given(r) \/ answer'[w] = Raised
    BY <1>3, <1>5 DEF LockTimesOut, r
  <2>. QED
    BY <2>1, <2>2 DEF Given, Raised
<1>6. ASSUME NEW v \in Workers, FinishReview(v)
      PROVE  pc[w] = "finish" /\ answer'[w] = Given(Accepted(w))
  BY <1>3, <1>6 DEF FinishReview
<1>7. ASSUME NEW v \in Workers, LockFails(v) \/ FinishRaises(v)
      PROVE  answer'[w].given = "raised" /\ answer'[w].result = None
  BY <1>3, <1>7 DEF LockFails, FinishRaises, Raised
<1>8. ASSUME NEW v \in Workers, Abandon(v) PROVE FALSE
  BY <1>2, <1>3, <1>8 DEF Abandon
<1>9. CASE UNCHANGED answer
  BY <1>2, <1>9
<1>. QED
  BY <1>4, <1>5, <1>6, <1>7, <1>8, <1>9
     DEF Next, vars, TryLockCache, LoadCached, BuildDossier, RunAnalyst,
         AdjudicateCause, BreakTie, RunCritic, AdjudicateSafety, DeadlinePasses,
         Expire

LEMMA CacheCases ==
  ASSUME IInv, [Next]_vars, NEW k \in Stages, cache[k] # None
  PROVE  cache'[k] \in {cache[k], None}
<1>1. cache \in [Stages -> Opinions \cup Results \cup {None}]
  BY DEF IInv, TypeOK
<1>2. ASSUME NEW s \in Stages, NEW o, cache[s] = None, Store(s, o)
      PROVE  cache'[k] = cache[k]
  BY <1>1, <1>2 DEF Store
<1>3. ASSUME NEW w \in Workers, RunAnalyst(w) PROVE cache'[k] = cache[k]
  <2>1. cache["analyst"] = None /\ "analyst" \in Stages
    BY <1>3, Alone DEF RunAnalyst, Reviewing, Fits, Stages
  <2>. QED
    BY <1>2, <1>3, <2>1 DEF RunAnalyst
<1>4. ASSUME NEW w \in Workers, RunCritic(w) PROVE cache'[k] = cache[k]
  <2>1. cache["critic"] = None /\ "critic" \in Stages
    BY <1>4, Alone DEF RunCritic, Reviewing, Fits, Stages
  <2>. QED
    BY <1>2, <1>4, <2>1 DEF RunCritic
<1>5. ASSUME NEW w \in Workers, FinishReview(w) \/ FinishRaises(w)
      PROVE  cache'[k] = cache[k]
  BY <1>5, CacheAfterFacts DEF FinishReview, FinishRaises
<1>6. ASSUME NEW s \in Stages, Expire(s) PROVE cache'[k] \in {cache[k], None}
  BY <1>1, <1>6 DEF Expire, Store
<1>7. CASE UNCHANGED cache
  BY <1>7
<1>. QED
  BY <1>3, <1>4, <1>5, <1>6, <1>7
     DEF Next, vars, ResolveLead, TryLockCache, LockFails, LockTimesOut, LoadCached,
         BuildDossier, AdjudicateCause, BreakTie, AdjudicateSafety, Abandon,
         DeadlinePasses

------------------------------------------------------------------------------
(* The theorems                                                            *)

(* Every variable keeps its type.                                          *)
THEOREM TypeCorrect == Spec => []TypeOK
<1>1. IInv => TypeOK
  BY DEF IInv
<1>. QED
  BY <1>1, AlwaysIInv, PTL

(* Who is past the lock is alone, fits the cache it finds, and what can be *)
(* read is worth what a review of its own would be.                        *)
THEOREM InvariantHolds == Spec => []IInv
  BY AlwaysIInv

(* A clearance given by resolve_lead rests on a certificate and a complete *)
(* dossier, whichever reviews its stages come from.                        *)
THEOREM ClearanceIsCertifiedHolds == Spec => []ClearanceIsCertified
<1>1. IInv => ClearanceIsCertified
  BY DEF IInv
<1>. QED
  BY <1>1, AlwaysIInv, PTL

(* No stage is run and stored while its opinion can be read.               *)
THEOREM NothingIsPaidTwiceHolds == Spec => NothingIsPaidTwice
<1>1. IInv /\ [Next]_vars =>
        \A k \in Stages : cache[k] # None => cache'[k] \in {cache[k], None}
  BY CacheCases
<1>. QED
  BY <1>1, AlwaysIInv, PTL DEF Spec, NothingIsPaidTwice

(* While a violation found by the analyst can be read, no answer clears    *)
(* the lead or passes it for want of budget.                               *)
THEOREM ViolationIsNotRetriedAwayHolds == Spec => ViolationIsNotRetriedAway
<1>1. ASSUME IInv, [Next]_vars, NEW w \in Workers, AnswersNow(w),
             cache["analyst"] \in Violations
      PROVE  answer'[w].given \notin {"low", "pass_inconclusive"}
  <2>1. CASE answer'[w].given \in {"lead", "raised", "retryable_infra"}
    BY <2>1
  <2>2. CASE pc[w] = "finish" /\ answer'[w] = Given(Accepted(w))
    <3>1. /\ Accepted(w) \in Results /\ Accepted(w).verdict \in Verdicts
          /\ Accepted(w).verdict = "low" => Certified(Accepted(w))
          /\ Accepted(w).analyst = result[w].analyst
          /\ late[w] => Accepted(w).verdict = "retryable_infra"
          /\ ~late[w] => Accepted(w) = result[w]
      BY <1>1, <2>2, AcceptedFacts
    <3>2. /\ SameAnalyst(result[w], cache) /\ Ends(result[w], cache)
      BY <1>1, <2>2, FinishFacts
    <3>3. None \notin Violations /\ None \notin Clearances
      BY NoneAssumption DEF Opinions
    <3>4. Accepted(w).verdict # "low"
      BY <1>1, <3>1, <3>2, <3>3, OpinionFacts DEF Certified, SameAnalyst
    <3>5. Accepted(w).verdict # "pass_inconclusive"
      BY <1>1, <3>1, <3>2, <3>3 DEF Ends
    <3>. QED
      BY <2>2, <3>1, <3>4, <3>5, GivenFacts
  <2>. QED
    BY <1>1, <2>1, <2>2, AnswerCases
<1>2. IInv /\ [Next]_vars =>
        \A w \in Workers :
          AnswersNow(w) /\ cache["analyst"] \in Violations
            => answer'[w].given \notin {"low", "pass_inconclusive"}
  BY <1>1
<1>. QED
  BY <1>2, AlwaysIInv, PTL DEF Spec, ViolationIsNotRetriedAway

(* While a result can be read, every conclusive answer repeats it.         *)
THEOREM AnswersRepeatTheCacheHolds == Spec => AnswersRepeatTheCache
<1>1. ASSUME IInv, [Next]_vars, NEW w \in Workers, AnswersNow(w),
             cache["full"] # None, answer'[w].result # None
      PROVE  \/ answer'[w].result.verdict \notin Conclusive
             \/ answer'[w].result.verdict = cache["full"].verdict
  <2>1. "retryable_infra" \notin Conclusive
    BY DEF Conclusive
  <2>2. CASE pc[w] = "finish" /\ answer'[w] = Given(Accepted(w))
    <3>1. /\ Accepted(w) \in Results /\ Accepted(w).verdict \in Verdicts
          /\ late[w] => Accepted(w).verdict = "retryable_infra"
          /\ ~late[w] => Accepted(w) = result[w]
      BY <1>1, <2>2, AcceptedFacts
    <3>2. Ends(result[w], cache)
      BY <1>1, <2>2, FinishFacts
    <3>3. result[w] = cache["full"]
      BY <1>1, <3>2 DEF Ends
    <3>. QED
      BY <2>1, <2>2, <3>1, <3>3, GivenFacts
  <2>. QED
    BY <1>1, <2>1, <2>2, AnswerCases
<1>2. IInv /\ [Next]_vars =>
        \A w \in Workers :
          AnswersNow(w) /\ cache["full"] # None /\ answer'[w].result # None
            => \/ answer'[w].result.verdict \notin Conclusive
               \/ answer'[w].result.verdict = cache["full"].verdict
  BY <1>1
<1>. QED
  BY <1>2, AlwaysIInv, PTL DEF Spec, AnswersRepeatTheCache
=============================================================================
