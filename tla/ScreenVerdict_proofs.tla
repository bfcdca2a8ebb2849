------------------------ MODULE ScreenVerdict_proofs ------------------------
(* What a decision rests on and that its request is accepted, for every    *)
(* manifest, review, pack and bound on evidence.                           *)
EXTENDS ScreenVerdict, WellFoundedInduction, SequenceTheorems, TLAPS

(* A nonempty set of numbers has a least one.                              *)
LEMMA LeastExists ==
  ASSUME NEW T, T \subseteq Nat, T # {}
  PROVE  \E x \in T : \A y \in T : x <= y
<1> DEFINE R == OpToRel(<, Nat)
<1>1. PICK x \in T : \A y \in T : ~(<<y, x>> \in R)
  BY WFMin, NatLessThanWellFounded
<1>2. \A y \in T : ~(y < x)
  BY <1>1 DEF OpToRel
<1> QED
  BY <1>2

(* What a module can return: codes behind every terminal disposition, an   *)
(* audit behind every exhausted review, and a finding of a review only.    *)
ModuleResults ==
  [disposition : Dispositions, codes : Seq(Codes), finding : BOOLEAN,
   audit : BOOLEAN]

LEMMA ChallengeCodeType ==
  ASSUME NEW run
  PROVE  ChallengeCode(run) \in Codes
BY DEF ChallengeCode, Codes

LEMMA RiskDomainCodeType ==
  ASSUME NEW categories
  PROVE  RiskDomainCode(categories) \in Codes
BY DEF RiskDomainCode, Codes

LEMMA PackResult ==
  ASSUME NEW runs \in Seq(ChallengeRuns)
  PROVE  LET r == BehavioralChallengePack(runs) IN
           /\ r \in ModuleResults
           /\ r.disposition \in {"clear", "retryable_infra", "quarantine",
                                 "inconclusive"}
           /\ r.codes # <<>> /\ ~r.finding /\ ~r.audit
<1> DEFINE stops == {k \in DOMAIN runs : ChallengeCode(runs[k]) # "challenge-observed"}
           last  == IF stops = {} THEN Len(runs)
                    ELSE CHOOSE k \in stops : \A j \in stops : k <= j
           codes == [k \in 1..last |-> ChallengeCode(runs[k])]
<1>1. stops \subseteq 1..Len(runs)
  OBVIOUS
<1>2. last \in 0..Len(runs) /\ (runs # <<>> => last > 0)
  <2>1. CASE stops = {}
    BY <2>1
  <2>2. CASE stops # {}
    <3>1. stops \in SUBSET Nat /\ stops # {}
      BY <1>1, <2>2
    <3> HIDE DEF stops
    <3>2. \E k \in stops : \A j \in stops : k <= j
      BY <3>1, LeastExists
    <3>3. last \in stops
      BY <2>2, <3>2
    <3> HIDE DEF last
    <3> QED
      BY <1>1, <3>3
  <2> QED
    BY <2>1, <2>2
<1>3. \A k \in 1..last : ChallengeCode(runs[k]) \in Codes
  BY ChallengeCodeType
<1> HIDE DEF stops, last
<1>4. codes \in Seq(Codes) /\ (runs # <<>> => codes # <<>>)
  <2>1. codes \in [1..last -> Codes]
    BY <1>3
  <2>2. codes \in Seq(Codes) /\ Len(codes) = last
    BY <1>2, <2>1
  <2> QED
    BY <1>2, <2>2
<1> HIDE DEF codes
<1>5. BehavioralChallengePack(runs) =
        CASE runs = <<>> ->
               Result("retryable_infra", <<"challenge-pack-unavailable">>)
          [] runs # <<>> /\ stops = {} -> Result("clear", codes)
          [] runs # <<>> /\ stops # {} ->
               Result(IF codes[last] = "challenge-inconclusive"
                        THEN "inconclusive" ELSE "quarantine", codes)
  BY DEF BehavioralChallengePack, stops, last, codes
<1>6. <<"challenge-pack-unavailable">> \in Seq(Codes)
      /\ <<"challenge-pack-unavailable">> # <<>>
  BY DEF Codes
<1>7. CASE runs = <<>>
  BY <1>5, <1>6, <1>7 DEF Result, ModuleResults, Dispositions
<1>8. CASE runs # <<>> /\ stops = {}
  BY <1>4, <1>5, <1>8 DEF Result, ModuleResults, Dispositions
<1>9. CASE runs # <<>> /\ stops # {}
  <2> PICK d \in {"inconclusive", "quarantine"} :
             BehavioralChallengePack(runs) = Result(d, codes)
    BY <1>5, <1>9
  <2> QED
    BY <1>4, <1>9 DEF Result, ModuleResults, Dispositions
<1> QED
  BY <1>7, <1>8, <1>9

LEMMA OracleResult ==
  ASSUME NEW run
  PROVE  LET r == BehavioralOracle(run) IN
           /\ r \in ModuleResults
           /\ r.disposition \in {"clear", "quarantine", "inconclusive"}
           /\ r.codes # <<>> /\ ~r.finding /\ ~r.audit
<1>1. BehavioralOracle(run) \in
        {Result("inconclusive", <<"behavioral-oracle-inconclusive">>),
         Result("inconclusive", <<"behavioral-oracle-insufficient-round-trips">>),
         Result("quarantine", <<"behavioral-oracle-wrong-answer">>),
         Result("quarantine", <<"behavioral-oracle-implausibly-fast">>),
         Result("clear", <<"behavioral-oracle-passed">>)}
  BY Zenon DEF BehavioralOracle
<1>2. PICK d \in {"clear", "quarantine", "inconclusive"}, c \in Codes :
             BehavioralOracle(run) = Result(d, <<c>>)
  BY <1>1 DEF Codes
<1>3. <<c>> \in Seq(Codes) /\ <<c>> # <<>>
  OBVIOUS
<1> QED
  BY <1>2, <1>3 DEF Result, ModuleResults, Dispositions

(* The oracle is put to the harness in the challenge phase, the pack, too. *)
LEMMA ChallengeResult ==
  ASSUME NEW kind \in ChallengeKinds, NEW r \in Observed(kind)
  PROVE  /\ r \in ModuleResults
         /\ r.disposition \in {"clear", "retryable_infra", "quarantine",
                               "inconclusive"}
         /\ r.codes # <<>> /\ ~r.finding /\ ~r.audit
<1>1. CASE kind = "behavioral_challenge_pack"
  <2> PICK p \in Packs : r = BehavioralChallengePack(p)
    BY <1>1 DEF Observed
  <2>1. p \in Seq(ChallengeRuns)
    BY PolicyAssumption
  <2> QED
    BY <2>1, PackResult
<1>2. CASE kind = "behavioral_oracle"
  <2> PICK o \in OracleRuns : r = BehavioralOracle(o)
    BY <1>2 DEF Observed
  <2> QED
    BY OracleResult
<1> QED
  BY <1>1, <1>2 DEF ChallengeKinds

ReviewsOK(rv) == rv.ok \in BOOLEAN /\ rv.finding \in BOOLEAN /\ rv.audit \in BOOLEAN

LEMMA ReviewResult ==
  ASSUME NEW rv, ReviewsOK(rv)
  PROVE  LET r == AgenticSourceReview(rv) IN
           /\ r \in ModuleResults
           /\ r.disposition # "quarantine"
           /\ Terminal(r.disposition) => r.codes # <<>>
           /\ r.disposition = "tripwire" => (r.finding <=> rv.finding)
<1>1. CASE ~rv.ok
  <2>1. AgenticSourceReview(rv) = ReviewFailed(rv)
    BY <1>1, Zenon DEF AgenticSourceReview
  <2>2. ReviewFailed(rv) \in
          {Result("retryable_infra", <<"source-review-unavailable">>),
           Result("inconclusive", <<"source-review-error">>),
           Result("retryable_infra", <<"source-review-error">>),
           [disposition |-> "pass_inconclusive",
            codes |-> <<"source-review-inconclusive">>,
            finding |-> rv.finding, audit |-> rv.audit]}
    BY Zenon DEF ReviewFailed
  <2>3. /\ <<"source-review-unavailable">> \in Seq(Codes)
        /\ <<"source-review-error">> \in Seq(Codes)
        /\ <<"source-review-inconclusive">> \in Seq(Codes)
        /\ <<"source-review-unavailable">> # <<>>
        /\ <<"source-review-error">> # <<>>
        /\ <<"source-review-inconclusive">> # <<>>
    BY DEF Codes
  <2>4. CASE ReviewFailed(rv) =
               Result("retryable_infra", <<"source-review-unavailable">>)
    BY <2>1, <2>3, <2>4 DEF Result, ModuleResults, Dispositions, ReviewsOK
  <2>5. CASE \E d \in {"inconclusive", "retryable_infra"} :
               ReviewFailed(rv) = Result(d, <<"source-review-error">>)
    BY <2>1, <2>3, <2>5 DEF Result, ModuleResults, Dispositions, ReviewsOK
  <2>6. CASE ReviewFailed(rv) =
               [disposition |-> "pass_inconclusive",
                codes |-> <<"source-review-inconclusive">>,
                finding |-> rv.finding, audit |-> rv.audit]
    BY <2>1, <2>3, <2>6 DEF Result, ModuleResults, Dispositions, ReviewsOK
  <2> QED
    BY <2>2, <2>4, <2>5, <2>6
<1>2. CASE rv.ok
  <2>1. AgenticSourceReview(rv) \in
          {[Result("clear", <<>>) EXCEPT !.finding = rv.finding],
           Result("inconclusive", <<"source-review-invalid-risk">>),
           [Result("tripwire", <<RiskDomainCode(rv.categories)>>)
              EXCEPT !.finding = rv.finding]}
    BY <1>2, Zenon DEF AgenticSourceReview
  <2>2. /\ <<>> \in Seq(Codes)
        /\ <<"source-review-invalid-risk">> \in Seq(Codes)
        /\ <<"source-review-invalid-risk">> # <<>>
        /\ <<RiskDomainCode(rv.categories)>> \in Seq(Codes)
    BY RiskDomainCodeType DEF Codes
  <2> DEFINE c == <<RiskDomainCode(rv.categories)>>
  <2> HIDE DEF c
  <2>3. c \in Seq(Codes)
    BY <2>2 DEF c
  <2>4. AgenticSourceReview(rv) \in
          {[Result("clear", <<>>) EXCEPT !.finding = rv.finding],
           Result("inconclusive", <<"source-review-invalid-risk">>),
           [Result("tripwire", c) EXCEPT !.finding = rv.finding]}
    BY <2>1 DEF c
  <2>5. CASE AgenticSourceReview(rv)
               = [Result("clear", <<>>) EXCEPT !.finding = rv.finding]
    BY <2>2, <2>5 DEF Result, ModuleResults, Dispositions, ReviewsOK, Terminal
  <2>6. CASE AgenticSourceReview(rv)
               = Result("inconclusive", <<"source-review-invalid-risk">>)
    BY <2>2, <2>6 DEF Result, ModuleResults, Dispositions, ReviewsOK, Terminal
  <2>7. CASE AgenticSourceReview(rv)
               = [Result("tripwire", c) EXCEPT !.finding = rv.finding]
    BY <2>3, <2>7 DEF Result, ModuleResults, Dispositions, ReviewsOK, Terminal
  <2> QED
    BY <2>4, <2>5, <2>6, <2>7
<1> QED
  BY <1>1, <1>2 DEF ReviewsOK

LEMMA SelectorResult ==
  ASSUME NEW kind \in SelectorKinds, ReviewsOK(review), NEW r \in Observed(kind)
  PROVE  /\ r \in ModuleResults
         /\ r.disposition # "quarantine"
         /\ Terminal(r.disposition) => r.codes # <<>>
         /\ r.finding => kind = "agentic_source_review"
         /\ kind = "agentic_source_review" /\ r.disposition = "tripwire"
              => (r.finding <=> review.finding)
<1>1. CASE kind = "agentic_source_review"
  <2>1. r = AgenticSourceReview(review)
    BY <1>1 DEF Observed
  <2> QED
    BY <1>1, <2>1, ReviewResult
<1>2. CASE kind # "agentic_source_review"
  <2>1. PICK d \in {"clear", "tripwire", "retryable_infra"}, c \in Codes :
          \/ r = Result(d, <<c>>)
          \/ d = "clear" /\ r = Result("clear", <<>>)
    <3>1. CASE kind = "timing_relay_risk"
      <4> PICK f \in RiskFeeds : r = TimingRelayRisk(f)
        BY <3>1 DEF Observed
      <4> QED
        BY DEF TimingRelayRisk, RiskFeeds, Codes
    <3>2. CASE kind = "random_audit"
      <4> PICK f \in AuditDraws : r = RandomAudit(f)
        BY <3>2 DEF Observed
      <4> QED
        BY DEF RandomAudit, AuditDraws, Codes
    <3>3. CASE kind = "source_fingerprint"
      <4> PICK f \in BOOLEAN : r = SourceFingerprintTriage(f)
        BY <3>3 DEF Observed
      <4> QED
        BY DEF SourceFingerprintTriage, Codes
    <3> QED
      BY <1>2, <3>1, <3>2, <3>3 DEF SelectorKinds
  <2>2. <<c>> \in Seq(Codes) /\ <<>> \in Seq(Codes) /\ <<c>> # <<>>
    OBVIOUS
  <2>3. PICK s \in Seq(Codes) : r = Result(d, s) /\ (Terminal(d) => s # <<>>)
    BY <2>1, <2>2 DEF Terminal
  <2>4. r \in ModuleResults /\ r.disposition = d /\ r.codes = s /\ ~r.finding
    BY <2>3 DEF Result, ModuleResults, Dispositions
  <2> QED
    BY <1>2, <2>3, <2>4
<1> QED
  BY <1>1, <1>2
-----------------------------------------------------------------------------
(* Decisions                                                               *)

(* A decision that was not refused: its evidence fits, a hold has some, and *)
(* an exhausted review has its audit.                                      *)
DecisionOK(d) ==
  /\ d = [outcome |-> d.outcome, codes |-> d.codes, finding |-> d.finding,
          audit |-> d.audit]
  /\ d.outcome \in Outcomes
  /\ d.codes \in Seq(Codes) /\ Len(d.codes) <= MaxEvidence
  /\ d.finding \in Nat /\ d.audit \in BOOLEAN
  /\ d.outcome = "pass_inconclusive" => d.audit
  /\ d.outcome = "quarantine" => d.codes # <<>>

(* Cutting evidence keeps at least one item of it.                         *)
LEMMA CutEvidence ==
  ASSUME NEW S, NEW codes \in Seq(S), NEW n \in Nat \ {0}, n <= Len(codes)
  PROVE  LET cut == SubSeq(codes, 1, n)
         IN  cut \in Seq(S) /\ Len(cut) = n /\ (codes # <<>> => cut # <<>>)
<1>1. SubSeq(codes, 1, n) \in Seq(S) /\ Len(SubSeq(codes, 1, n)) = n
  <2>1. 1 \in 1..(Len(codes) + 1) /\ n \in 1..Len(codes)
    OBVIOUS
  <2>2. SubSeq(codes, 1, n) = [k \in 1..n |-> codes[k]]
    BY <2>1
  <2> QED
    BY <2>1, <2>2
<1> QED
  BY <1>1

LEMMA DecisionType ==
  ASSUME NEW outcome \in Outcomes, NEW codes \in Seq(Codes), NEW find \in Nat,
         NEW aud \in BOOLEAN, outcome = "quarantine" => codes # <<>>
  PROVE  LET d == Decision(outcome, codes, find, aud) IN
           \/ d.outcome = "raised"
           \/ DecisionOK(d) /\ d.outcome = outcome /\ d.finding = find
<1> DEFINE n == IF Len(codes) <= MaxEvidence THEN Len(codes) ELSE MaxEvidence
           cut == SubSeq(codes, 1, n)
<1>1. cut \in Seq(Codes) /\ Len(cut) <= MaxEvidence /\ (codes # <<>> => cut # <<>>)
  <2>1. CASE codes = <<>>
    <3>1. n = 0
      BY <2>1, PolicyAssumption
    <3>2. cut = <<>>
      BY <2>1, <3>1
    <3> QED
      BY <2>1, <3>2, PolicyAssumption
  <2>2. CASE codes # <<>>
    <3>1. n \in Nat \ {0} /\ n <= Len(codes) /\ n <= MaxEvidence
      BY <2>2, PolicyAssumption
    <3> HIDE DEF n
    <3> QED
      BY <3>1, CutEvidence
  <2> QED
    BY <2>1, <2>2
<1>2. CASE outcome = "pass_inconclusive" /\ ~aud
  BY <1>2 DEF Decision, Undecided
<1>3. CASE ~(outcome = "pass_inconclusive" /\ ~aud)
  <2>1. Decision(outcome, codes, find, aud) =
          [outcome |-> outcome, codes |-> cut, finding |-> find, audit |-> aud]
    BY <1>3 DEF Decision
  <2> HIDE DEF cut
  <2> QED
    BY <1>1, <1>3, <2>1 DEF DecisionOK
<1> QED
  BY <1>2, <1>3

-----------------------------------------------------------------------------
(* The engine                                                              *)

(* What the turn of a module does, selector or challenge.                  *)
TurnOf(i, r) ==
  /\ i \in pending /\ decision = Undecided
  /\ Collect(i, r)
  /\ r \in ModuleResults
  /\ r.finding => manifest[i] = "agentic_source_review"
  /\ manifest[i] = "agentic_source_review" /\ r.disposition = "tripwire"
       => (r.finding <=> review.finding)
  /\ passInconclusive' \in BOOLEAN /\ selected' \in BOOLEAN /\ cleared' \in BOOLEAN
  /\ passInconclusive' <=> passInconclusive \/ r.disposition = "pass_inconclusive"
  /\ selected' <=> selected \/ (IsSelector(i) /\ r.disposition = "tripwire")
  /\ cleared' <=> cleared \/ (manifest[i] = "behavioral_challenge_pack"
                                /\ r.disposition = "clear")
  /\ \/ /\ decision' = decision
        /\ r.disposition \in {"clear", "tripwire", "pass_inconclusive"}
     \/ /\ r.codes # <<>>
        /\ \E outcome \in {"retryable_infra", "quarantine", "inconclusive"} :
             decision' = Decision(outcome, evidence', finding', audit')

(* Types, and what the mechanical lane and the reviews can be.             *)
EngineInv ==
  /\ TypeOK
  /\ ReviewsOK(review)
  /\ buildOnly => pending = {} /\ ~selected /\ ~passInconclusive
  /\ buildOnly => decision.outcome \in {"undecided", "pass"}
  /\ decision = Undecided \/ decision.outcome = "raised" \/ DecisionOK(decision)

LEMMA ManifestKinds ==
  ASSUME TypeOK
  PROVE  /\ manifest \in Seq(Kinds)
         /\ \A i \in DOMAIN manifest :
              /\ IsSelector(i) <=> manifest[i] \in SelectorKinds
              /\ ~IsSelector(i) => manifest[i] \in ChallengeKinds
<1>1. manifest \in Seq(Kinds)
  BY PolicyAssumption DEF TypeOK
<1>2. \A i \in DOMAIN manifest : manifest[i] \in Kinds
  BY <1>1
<1> QED
  BY <1>1, <1>2 DEF IsSelector, Kinds

LEMMA EvaluateIsTurn ==
  ASSUME EngineInv, Evaluate
  PROVE  \E i \in DOMAIN manifest : \E r : TurnOf(i, r)
<1> PICK i \in DOMAIN manifest : Select(i) \/ Challenge(i)
  BY DEF Evaluate
<1>1. CASE Select(i)
  <2>1. i \in pending /\ decision = Undecided /\ IsSelector(i)
    BY <1>1 DEF Select, Turn
  <2>2. manifest[i] \in SelectorKinds
    BY <2>1, ManifestKinds DEF EngineInv
  <2> PICK r \in Observed(manifest[i]) :
        /\ Collect(i, r)
        /\ passInconclusive' = (passInconclusive \/ r.disposition = "pass_inconclusive")
        /\ selected' = (selected \/ r.disposition = "tripwire")
        /\ decision' = IF Terminal(r.disposition)
                            /\ r.disposition # "pass_inconclusive"
                       THEN Decision(r.disposition, evidence', finding', audit')
                       ELSE decision
    BY <1>1 DEF Select
  <2>3. /\ r \in ModuleResults
        /\ r.disposition # "quarantine"
        /\ Terminal(r.disposition) => r.codes # <<>>
        /\ r.finding => manifest[i] = "agentic_source_review"
        /\ manifest[i] = "agentic_source_review" /\ r.disposition = "tripwire"
             => (r.finding <=> review.finding)
    BY <2>2, SelectorResult DEF EngineInv
  <2>4. /\ passInconclusive' \in BOOLEAN /\ selected' \in BOOLEAN
        /\ passInconclusive' <=> passInconclusive \/ r.disposition = "pass_inconclusive"
        /\ selected' <=> selected \/ (IsSelector(i) /\ r.disposition = "tripwire")
    BY <2>1 DEF EngineInv, TypeOK
  <2>5. /\ cleared' \in BOOLEAN
        /\ cleared' <=> cleared \/ (manifest[i] = "behavioral_challenge_pack"
                                      /\ r.disposition = "clear")
    BY <1>1, <2>2 DEF Select, EngineInv, TypeOK, SelectorKinds
  <2>6. \/ /\ decision' = decision
           /\ r.disposition \in {"clear", "tripwire", "pass_inconclusive"}
        \/ /\ r.codes # <<>>
           /\ \E outcome \in {"retryable_infra", "quarantine", "inconclusive"} :
                decision' = Decision(outcome, evidence', finding', audit')
    BY <2>3 DEF Terminal, ModuleResults, Dispositions
  <2>7. TurnOf(i, r)
    BY <2>1, <2>3, <2>4, <2>5, <2>6 DEF TurnOf
  <2> QED
    BY <2>7
<1>2. CASE Challenge(i)
  <2>1. i \in pending /\ decision = Undecided /\ ~IsSelector(i)
    BY <1>2 DEF Challenge, Turn
  <2>2. manifest[i] \in ChallengeKinds
    BY <2>1, ManifestKinds DEF EngineInv
  <2> PICK r \in Observed(manifest[i]) :
        /\ Collect(i, r)
        /\ cleared' = (cleared \/ (ClearsSelection(manifest[i])
                                     /\ r.disposition = "clear"))
        /\ decision' = IF Terminal(r.disposition)
                       THEN Decision(r.disposition, evidence', finding', audit')
                       ELSE decision
    BY <1>2 DEF Challenge
  <2>3. /\ r \in ModuleResults
        /\ r.disposition \in {"clear", "retryable_infra", "quarantine",
                              "inconclusive"}
        /\ r.codes # <<>> /\ ~r.finding
    BY <2>2, ChallengeResult
  <2>4. /\ passInconclusive' \in BOOLEAN /\ selected' \in BOOLEAN
        /\ passInconclusive' <=> passInconclusive \/ r.disposition = "pass_inconclusive"
        /\ selected' <=> selected \/ (IsSelector(i) /\ r.disposition = "tripwire")
    BY <1>2, <2>1, <2>3 DEF Challenge, EngineInv, TypeOK
  <2>5. /\ cleared' \in BOOLEAN
        /\ cleared' <=> cleared \/ (manifest[i] = "behavioral_challenge_pack"
                                      /\ r.disposition = "clear")
    BY DEF EngineInv, TypeOK, ClearsSelection
  <2>6. \/ /\ decision' = decision
           /\ r.disposition \in {"clear", "tripwire", "pass_inconclusive"}
        \/ /\ r.codes # <<>>
           /\ \E outcome \in {"retryable_infra", "quarantine", "inconclusive"} :
                decision' = Decision(outcome, evidence', finding', audit')
    BY <2>3 DEF Terminal
  <2>7. manifest[i] # "agentic_source_review"
    BY <2>2 DEF ChallengeKinds
  <2>8. TurnOf(i, r)
    BY <2>1, <2>3, <2>4, <2>5, <2>6, <2>7 DEF TurnOf
  <2> QED
    BY <2>8
<1> QED
  BY <1>1, <1>2

LEMMA EngineInit == Init => EngineInv
<1> SUFFICES ASSUME Init PROVE EngineInv
  OBVIOUS
<1>1. /\ manifest \in Manifests /\ buildOnly \in BOOLEAN
      /\ review \in Reviews \cup {NoReview}
      /\ pending \subseteq DOMAIN manifest
      /\ buildOnly => pending = {}
      /\ disposition \in [DOMAIN manifest -> Dispositions \cup {"-"}]
      /\ evidence \in Seq(Codes) /\ finding = 0
      /\ audit = FALSE /\ selected = FALSE /\ cleared = FALSE
      /\ passInconclusive = FALSE /\ decision = Undecided
  BY DEF Init, ModulesToRun
<1>2. ReviewsOK(review)
  <2>1. CASE review = NoReview
    BY <2>1 DEF ReviewsOK, NoReview
  <2>2. CASE review \in Reviews
    BY <2>2, PolicyAssumption DEF ReviewsOK
  <2> QED
    BY <1>1, <2>1, <2>2
<1> QED
  BY <1>1, <1>2 DEF EngineInv, TypeOK, Undecided

LEMMA EngineStep == EngineInv /\ [Next]_vars => EngineInv'
<1> SUFFICES ASSUME EngineInv, [Next]_vars PROVE EngineInv'
  OBVIOUS
<1>1. CASE Evaluate
  <2> PICK i \in DOMAIN manifest : \E r : TurnOf(i, r)
    BY <1>1, EvaluateIsTurn
  <2> PICK r : TurnOf(i, r)
    OBVIOUS
  <2>1. /\ pending' = pending \ {i}
        /\ disposition' = [disposition EXCEPT ![i] = r.disposition]
        /\ evidence' = evidence \o r.codes
        /\ finding' = IF r.finding THEN i ELSE finding
        /\ audit' = (r.audit \/ audit)
        /\ UNCHANGED <<manifest, buildOnly, review>>
        /\ i \in pending /\ decision = Undecided
        /\ r.disposition \in Dispositions /\ r.codes \in Seq(Codes)
        /\ ~buildOnly
    BY DEF TurnOf, Collect, ModuleResults, EngineInv
  <2>2. evidence' \in Seq(Codes) /\ (r.codes # <<>> => evidence' # <<>>)
    BY <2>1 DEF EngineInv, TypeOK
  <2>3. finding' \in Nat
    <3>1. i \in Nat
      BY ManifestKinds DEF EngineInv
    <3> QED
      BY <2>1, <3>1 DEF EngineInv, TypeOK
  <2>4. audit' \in BOOLEAN
    BY <2>1 DEF TurnOf, ModuleResults, EngineInv, TypeOK
  <2>5. /\ selected' \in BOOLEAN /\ cleared' \in BOOLEAN
        /\ passInconclusive' \in BOOLEAN
    BY DEF TurnOf
  <2>6. \/ decision' = Undecided
        \/ decision'.outcome = "raised"
        \/ DecisionOK(decision')
    <3>1. CASE decision' = decision
      BY <2>1, <3>1
    <3>2. CASE /\ r.codes # <<>>
               /\ \E outcome \in {"retryable_infra", "quarantine", "inconclusive"} :
                    decision' = Decision(outcome, evidence', finding', audit')
      <4> PICK outcome \in {"retryable_infra", "quarantine", "inconclusive"} :
                 decision' = Decision(outcome, evidence', finding', audit')
        BY <3>2
      <4>1. outcome \in Outcomes
        BY DEF Outcomes
      <4> QED
        BY <2>2, <2>3, <2>4, <3>2, <4>1, DecisionType
    <3> QED
      BY <3>1, <3>2 DEF TurnOf
  <2>7. decision'.outcome \in Outcomes \cup {"undecided", "raised"}
    BY <2>6 DEF DecisionOK, Undecided
  <2>8. TypeOK'
    BY <2>1, <2>2, <2>3, <2>4, <2>5, <2>7 DEF EngineInv, TypeOK
  <2> QED
    BY <2>1, <2>6, <2>8 DEF EngineInv, ReviewsOK
<1>2. CASE Conclude
  <2>1. /\ decision = Undecided
        /\ UNCHANGED <<manifest, buildOnly, review, pending, disposition, evidence,
                       finding, audit, selected, cleared, passInconclusive>>
    BY <1>2 DEF Conclude
  <2> DEFINE shown == IF evidence = <<>>
                      THEN <<"audit-awaiting-private-challenge">> ELSE evidence
  <2>2. shown \in Seq(Codes) /\ shown # <<>>
    <3>1. "audit-awaiting-private-challenge" \in Codes
      BY DEF Codes
    <3>2. /\ <<"audit-awaiting-private-challenge">> \in Seq(Codes)
          /\ <<"audit-awaiting-private-challenge">> # <<>>
      BY <3>1
    <3>3. evidence \in Seq(Codes)
      BY DEF EngineInv, TypeOK
    <3> QED
      BY <3>2, <3>3
  <2> HIDE DEF shown
  <2>3. \/ /\ decision' = Decision("quarantine", shown, finding, audit)
           /\ ~buildOnly
        \/ decision' = Decision("pass", evidence, finding, audit)
        \/ decision' = Decision("pass", evidence, finding, FALSE)
        \/ /\ decision' = Decision("pass_inconclusive", evidence, finding, audit)
           /\ ~buildOnly
    BY <1>2 DEF Conclude, shown
  <2>4. /\ evidence \in Seq(Codes) /\ finding \in Nat /\ audit \in BOOLEAN
        /\ {"quarantine", "pass", "pass_inconclusive"} \subseteq Outcomes
    BY DEF EngineInv, TypeOK, Outcomes
  <2>5. decision'.outcome = "raised" \/ DecisionOK(decision')
    <3>1. CASE decision' = Decision("quarantine", shown, finding, audit)
      BY <2>2, <2>4, <3>1, DecisionType
    <3>2. CASE \E a \in BOOLEAN : decision' = Decision("pass", evidence, finding, a)
      BY <2>4, <3>2, DecisionType
    <3>3. CASE decision' = Decision("pass_inconclusive", evidence, finding, audit)
      BY <2>4, <3>3, DecisionType
    <3> QED
      BY <2>3, <2>4, <3>1, <3>2, <3>3
  <2>6. buildOnly => decision'.outcome = "pass"
    <3>1. \A a \in BOOLEAN : Decision("pass", evidence, finding, a).outcome = "pass"
      BY DEF Decision
    <3> QED
      BY <2>3, <2>4, <3>1
  <2>7. TypeOK'
    BY <2>1, <2>5 DEF EngineInv, TypeOK, DecisionOK
  <2> QED
    BY <2>1, <2>5, <2>6, <2>7 DEF EngineInv, ReviewsOK
<1>3. CASE UNCHANGED vars
  BY <1>3 DEF vars, EngineInv, TypeOK, ReviewsOK, DecisionOK
<1> QED
  BY <1>1, <1>2, <1>3 DEF Next

(* The gate and the worker leave the engine to itself.                     *)
LEMMA VerdictKeepsEngine == VerdictNext => [Next]_vars
BY DEF VerdictNext, RunPolicy, LeadStands, StageFails, EndScreen, Report

LEMMA EngineHolds == VerdictSpec => []EngineInv
<1>1. VerdictInit => EngineInv
  BY EngineInit DEF VerdictInit
<1>2. EngineInv /\ [VerdictNext]_allVars => EngineInv'
  <2>1. [VerdictNext]_allVars => [Next]_vars
    BY VerdictKeepsEngine DEF allVars
  <2> QED
    BY <2>1, EngineStep
<1> QED
  BY <1>1, <1>2, PTL DEF VerdictSpec

(* Every variable of the engine keeps its type.                            *)
THEOREM TypeCorrect == VerdictSpec => []TypeOK
<1>1. EngineInv => TypeOK
  BY DEF EngineInv
<1> QED
  BY <1>1, EngineHolds, PTL
-----------------------------------------------------------------------------
(* The decision rules                                                      *)

(* What the engine remembers of the modules behind it.                     *)
SelectionInv ==
  /\ \A i \in DOMAIN manifest : i \in pending => disposition[i] = "-"
  /\ (\E i \in DOMAIN manifest : Tripped(i)) => selected
  /\ cleared => \E j \in DOMAIN manifest : ReleasedBy(j)
  /\ Passing => ~selected \/ cleared

HeardInv ==
  /\ ~buildOnly => \A i \in DOMAIN manifest \ pending : disposition[i] # "-"
  /\ decision = Undecided =>
       \A i \in DOMAIN manifest :
         \/ disposition[i] \in {"-", "clear", "tripwire"}
         \/ disposition[i] = "pass_inconclusive" /\ passInconclusive

FindingInv ==
  /\ finding # 0 => /\ finding \in DOMAIN manifest
                    /\ manifest[finding] = "agentic_source_review"
  /\ review.finding => \A i \in DOMAIN manifest :
       Tripped(i) /\ manifest[i] = "agentic_source_review" => finding # 0
  /\ decision.outcome = "quarantine" => decision.finding = finding

RuleInv == /\ SelectionInv /\ HeardInv /\ FindingInv
           /\ CleanPassHeardEveryModule

(* What a turn leaves behind, with its decision reduced to its outcome.    *)
LEMMA TurnFacts ==
  ASSUME EngineInv, NEW i \in DOMAIN manifest, NEW r, TurnOf(i, r)
  PROVE  /\ pending' = pending \ {i} /\ i \in pending
         /\ disposition' = [disposition EXCEPT ![i] = r.disposition]
         /\ disposition \in [DOMAIN manifest -> Dispositions \cup {"-"}]
         /\ r.disposition \in Dispositions
         /\ finding' = IF r.finding THEN i ELSE finding
         /\ UNCHANGED <<manifest, buildOnly, review>>
         /\ decision = Undecided /\ ~buildOnly
         /\ \/ decision' = Undecided /\ r.disposition \in {"clear", "tripwire",
                                                           "pass_inconclusive"}
            \/ /\ decision' # Undecided /\ ~Passing'
               /\ decision'.outcome = "quarantine" => decision'.finding = finding'
<1>1. /\ pending' = pending \ {i} /\ i \in pending
      /\ disposition' = [disposition EXCEPT ![i] = r.disposition]
      /\ disposition \in [DOMAIN manifest -> Dispositions \cup {"-"}]
      /\ r.disposition \in Dispositions
      /\ finding' = IF r.finding THEN i ELSE finding
      /\ UNCHANGED <<manifest, buildOnly, review>>
      /\ decision = Undecided /\ ~buildOnly
  BY DEF TurnOf, Collect, ModuleResults, EngineInv, TypeOK
<1>2. CASE /\ decision' = decision
           /\ r.disposition \in {"clear", "tripwire", "pass_inconclusive"}
  BY <1>1, <1>2
<1>3. CASE \E outcome \in {"retryable_infra", "quarantine", "inconclusive"} :
             decision' = Decision(outcome, evidence', finding', audit')
  <2> PICK outcome \in {"retryable_infra", "quarantine", "inconclusive"} :
             decision' = Decision(outcome, evidence', finding', audit')
    BY <1>3
  <2>1. decision'.outcome = outcome /\ decision'.finding = finding'
    BY DEF Decision
  <2> QED
    BY <1>1, <2>1 DEF Passing, Undecided
<1> QED
  BY <1>1, <1>2, <1>3 DEF TurnOf

LEMMA SelectionTurn ==
  ASSUME EngineInv, SelectionInv, NEW i \in DOMAIN manifest, NEW r, TurnOf(i, r)
  PROVE  SelectionInv'
<1> USE TurnFacts
<1>1. \A m \in DOMAIN manifest : m # i => disposition'[m] = disposition[m]
  OBVIOUS
<1>2. disposition'[i] = r.disposition /\ disposition[i] = "-"
  BY DEF SelectionInv
<1>3. \A m \in DOMAIN manifest : m \in pending' => disposition'[m] = "-"
  BY <1>1 DEF SelectionInv
<1>4. ASSUME NEW m \in DOMAIN manifest, Tripped(m)' PROVE selected'
  BY <1>1, <1>2, <1>4 DEF SelectionInv, TurnOf, Tripped, IsSelector
<1>5. ASSUME cleared' PROVE \E j \in DOMAIN manifest : ReleasedBy(j)'
  <2>1. CASE cleared
    <3> PICK j \in DOMAIN manifest : ReleasedBy(j)
      BY <2>1 DEF SelectionInv
    <3>1. j # i
      BY <1>2 DEF ReleasedBy
    <3> QED
      BY <1>1, <3>1 DEF ReleasedBy
  <2>2. CASE ~cleared
    <3>1. manifest[i] = "behavioral_challenge_pack" /\ r.disposition = "clear"
      BY <1>5, <2>2 DEF TurnOf
    <3> QED
      BY <1>2, <3>1 DEF ReleasedBy
  <2> QED
    BY <2>1, <2>2
<1>6. ~Passing'
  BY DEF Passing, Undecided
<1> QED
  BY <1>3, <1>4, <1>5, <1>6 DEF SelectionInv

LEMMA HeardTurn ==
  ASSUME EngineInv, SelectionInv, HeardInv, CleanPassHeardEveryModule,
         NEW i \in DOMAIN manifest, NEW r, TurnOf(i, r)
  PROVE  HeardInv' /\ CleanPassHeardEveryModule'
<1> USE TurnFacts
<1>1. \A m \in DOMAIN manifest : m # i => disposition'[m] = disposition[m]
  OBVIOUS
<1>2. disposition'[i] = r.disposition /\ r.disposition # "-"
  BY DEF Dispositions
<1>3. \A m \in DOMAIN manifest \ pending' : disposition'[m] # "-"
  BY <1>1, <1>2 DEF HeardInv
<1>4. ASSUME decision' = Undecided, NEW m \in DOMAIN manifest
      PROVE  \/ disposition'[m] \in {"-", "clear", "tripwire"}
             \/ disposition'[m] = "pass_inconclusive" /\ passInconclusive'
  BY <1>1, <1>2, <1>4 DEF HeardInv, TurnOf
<1>5. ~Passing'
  BY DEF Passing, Undecided
<1> QED
  BY <1>3, <1>4, <1>5 DEF HeardInv, CleanPassHeardEveryModule, Passing

LEMMA FindingTurn ==
  ASSUME EngineInv, FindingInv, SelectionInv,
         NEW i \in DOMAIN manifest, NEW r, TurnOf(i, r)
  PROVE  FindingInv'
<1> USE TurnFacts
<1>1. \A m \in DOMAIN manifest : m # i => disposition'[m] = disposition[m]
  OBVIOUS
<1>2. disposition'[i] = r.disposition
  OBVIOUS
<1>3. i # 0
  BY ManifestKinds DEF EngineInv
<1>4. finding' # 0 => /\ finding' \in DOMAIN manifest
                      /\ manifest[finding'] = "agentic_source_review"
  BY DEF FindingInv, TurnOf
<1>5. ASSUME review.finding, NEW m \in DOMAIN manifest, Tripped(m)',
             manifest[m] = "agentic_source_review"
      PROVE  finding' # 0
  <2>1. CASE m = i
    BY <1>2, <1>3, <1>5, <2>1 DEF TurnOf, Tripped
  <2>2. CASE m # i
    <3>1. Tripped(m)
      BY <1>1, <1>5, <2>2 DEF Tripped, IsSelector
    <3> QED
      BY <1>3, <1>5, <3>1 DEF FindingInv
  <2> QED
    BY <2>1, <2>2
<1>6. decision'.outcome = "quarantine" => decision'.finding = finding'
  BY DEF Undecided
<1> QED
  BY <1>4, <1>5, <1>6 DEF FindingInv
LEMMA RuleInit == Init => RuleInv
<1> SUFFICES ASSUME Init PROVE RuleInv
  OBVIOUS
<1>1. /\ \A i \in DOMAIN manifest : disposition[i] = "-"
      /\ pending = ModulesToRun /\ finding = 0 /\ decision = Undecided
      /\ cleared = FALSE
  BY DEF Init
<1>2. SelectionInv
  BY <1>1 DEF SelectionInv, Tripped, Passing, Undecided
<1>3. HeardInv /\ CleanPassHeardEveryModule
  BY <1>1 DEF HeardInv, CleanPassHeardEveryModule, ModulesToRun, Undecided
<1>4. FindingInv
  BY <1>1 DEF FindingInv, Tripped, Undecided
<1> QED
  BY <1>2, <1>3, <1>4 DEF RuleInv

(* A decision passes, or is a hold, only if it was made as one.            *)
LEMMA DecisionOutcome ==
  ASSUME NEW outcome, NEW codes, NEW find, NEW aud
  PROVE  LET d == Decision(outcome, codes, find, aud) IN
           /\ d.outcome \in {outcome, "raised"}
           /\ d.outcome = outcome /\ outcome # "raised" => d.finding = find
BY DEF Decision, Undecided

(* The end of the manifest decides by what the engine remembers.           *)
LEMMA RuleConclude ==
  ASSUME EngineInv, RuleInv, Conclude
  PROVE  RuleInv'
<1>1. /\ decision = Undecided /\ pending = {}
      /\ UNCHANGED <<manifest, buildOnly, review, pending, disposition, evidence,
                     finding, audit, selected, cleared, passInconclusive>>
  BY DEF Conclude
<1> DEFINE shown == IF evidence = <<>>
                    THEN <<"audit-awaiting-private-challenge">> ELSE evidence
<1>2. \E outcome \in {"pass", "quarantine", "pass_inconclusive"} :
      \E codes, aud :
        /\ decision' = Decision(outcome, codes, finding, aud)
        /\ outcome # "quarantine" => buildOnly \/ ~selected \/ cleared
        /\ outcome = "pass" => buildOnly \/ ~passInconclusive
  <2>1. \/ buildOnly /\ decision' = Decision("pass", evidence, finding, FALSE)
        \/ decision' = Decision("quarantine", shown, finding, audit)
        \/ /\ ~selected \/ cleared
           /\ ~passInconclusive
           /\ decision' = Decision("pass", evidence, finding, audit)
        \/ /\ ~selected \/ cleared
           /\ passInconclusive
           /\ decision' = Decision("pass_inconclusive", evidence, finding, audit)
    BY DEF Conclude
  <2> HIDE DEF shown
  <2> QED
    BY <2>1
<1>3. PICK outcome \in {"pass", "quarantine", "pass_inconclusive"} :
      \E codes, aud :
        /\ decision' = Decision(outcome, codes, finding, aud)
        /\ outcome # "quarantine" => buildOnly \/ ~selected \/ cleared
        /\ outcome = "pass" => buildOnly \/ ~passInconclusive
  BY <1>2
<1>4. /\ decision'.outcome \in {outcome, "raised"}
      /\ decision'.outcome = outcome => decision'.finding = finding
      /\ outcome # "quarantine" => buildOnly \/ ~selected \/ cleared
      /\ outcome = "pass" => buildOnly \/ ~passInconclusive
  BY <1>3, DecisionOutcome
<1>5. buildOnly => ~selected
  BY DEF EngineInv
<1>6. decision' # Undecided
  BY <1>4 DEF Undecided
<1>7. SelectionInv'
  BY <1>1, <1>4, <1>5 DEF RuleInv, SelectionInv, Tripped, ReleasedBy, IsSelector,
                          Passing
<1>8. HeardInv'
  BY <1>1, <1>6 DEF RuleInv, HeardInv
<1>9. CleanPassHeardEveryModule'
  <2>1. SUFFICES ASSUME decision'.outcome = "pass", ~buildOnly,
                        NEW i \in DOMAIN manifest
                 PROVE  disposition[i] \in {"clear", "tripwire"}
    BY <1>1 DEF CleanPassHeardEveryModule
  <2>2. ~passInconclusive
    BY <1>4, <2>1
  <2>3. disposition[i] # "-"
    BY <1>1, <2>1 DEF RuleInv, HeardInv
  <2> QED
    BY <1>1, <2>2, <2>3 DEF RuleInv, HeardInv
<1>10. FindingInv'
  BY <1>1, <1>4 DEF RuleInv, FindingInv, Tripped, IsSelector
<1> QED
  BY <1>7, <1>8, <1>9, <1>10 DEF RuleInv

LEMMA RuleStep == EngineInv /\ RuleInv /\ [Next]_vars => RuleInv'
<1> SUFFICES ASSUME EngineInv, RuleInv, [Next]_vars PROVE RuleInv'
  OBVIOUS
<1>1. CASE Evaluate
  BY <1>1, EvaluateIsTurn, SelectionTurn, HeardTurn, FindingTurn DEF RuleInv
<1>2. CASE Conclude
  BY <1>2, RuleConclude
<1>3. CASE UNCHANGED vars
  <2>1. /\ SelectionInv' <=> SelectionInv
        /\ HeardInv' <=> HeardInv
    BY <1>3 DEF vars, SelectionInv, HeardInv, Tripped, ReleasedBy, IsSelector, Passing
  <2>2. /\ FindingInv' <=> FindingInv
        /\ CleanPassHeardEveryModule' <=> CleanPassHeardEveryModule
    BY <1>3 DEF vars, FindingInv, CleanPassHeardEveryModule, Tripped, IsSelector
  <2> QED
    BY <2>1, <2>2 DEF RuleInv
<1> QED
  BY <1>1, <1>2, <1>3 DEF Next

LEMMA RulesHold == VerdictSpec => []RuleInv
<1>1. VerdictInit => RuleInv
  BY RuleInit DEF VerdictInit
<1>2. EngineInv /\ RuleInv /\ [VerdictNext]_allVars => RuleInv'
  <2>1. [VerdictNext]_allVars => [Next]_vars
    BY VerdictKeepsEngine DEF allVars
  <2> QED
    BY <2>1, RuleStep
<1> QED
  BY <1>1, <1>2, EngineHolds, PTL DEF VerdictSpec

(* A lead that tripped any selector lets the submission pass only if a     *)
(* dedicated challenge pack cleared it, however many modules the manifest  *)
(* has and in whatever order it lists them.                                *)
THEOREM LeadNeedsDedicatedClearHolds == VerdictSpec => []LeadNeedsDedicatedClear
<1>1. RuleInv => LeadNeedsDedicatedClear
  BY DEF RuleInv, SelectionInv, LeadNeedsDedicatedClear
<1> QED
  BY <1>1, RulesHold, PTL

(* A clean pass of the full lane heard every module of the manifest, and   *)
(* none of them was unable to decide.                                      *)
THEOREM CleanPassHeardEveryModuleHolds ==
  VerdictSpec => []CleanPassHeardEveryModule
<1>1. RuleInv => CleanPassHeardEveryModule
  BY DEF RuleInv
<1> QED
  BY <1>1, RulesHold, PTL

(* A hold that a source-review lead is part of carries the finding of that *)
(* review.                                                                 *)
THEOREM HoldCarriesLeadFindingHolds == VerdictSpec => []HoldCarriesLeadFinding
<1>1. RuleInv => HoldCarriesLeadFinding
  BY DEF RuleInv, FindingInv, HoldCarriesLeadFinding
<1> QED
  BY <1>1, RulesHold, PTL
-----------------------------------------------------------------------------
(* The request                                                             *)

ResultCodes ==
  Codes \cup {"lease-budget-exhausted", "docker-build", "image-upload-failed",
              "screened-image-too-large", "unexpected-infrastructure",
              "image-binding-heuristic"}

(* What the gate may yield: its evidence fits, a hold has some, and an     *)
(* exhausted review has its audit.                                         *)
ResultOK(res) ==
  /\ res = [outcome |-> res.outcome, codes |-> res.codes,
            finding |-> res.finding, audit |-> res.audit]
  /\ res.outcome \in Outcomes \cup {"deterministic_reject"}
  /\ res.codes \in Seq(ResultCodes) /\ Len(res.codes) <= MaxEvidence
  /\ res.audit \in BOOLEAN
  /\ res.outcome = "pass_inconclusive" => res.audit
  /\ res.outcome = "quarantine" => res.codes # <<>>

ResultInv ==
  /\ deferredReview \in BOOLEAN /\ lead \in BOOLEAN /\ image \in BOOLEAN
  /\ deferredReview => buildOnly
  /\ lead => ~buildOnly
  /\ result = Unscreened => image = FALSE
  /\ result # Unscreened => /\ ResultOK(result)
                            /\ image <=> result.outcome \in PassingOutcomes
                            /\ buildOnly => result.outcome # "quarantine"

VerdictInv == ResultInv /\ RequestIsAccepted

LEMMA CoreOK ==
  ASSUME NEW outcome \in {"retryable_infra", "deterministic_reject"},
         NEW code \in ResultCodes
  PROVE  ResultOK(Core(outcome, code)) /\ Core(outcome, code).outcome = outcome
<1>1. <<code>> \in Seq(ResultCodes) /\ Len(<<code>>) <= MaxEvidence
  BY PolicyAssumption
<1> QED
  BY <1>1 DEF Core, ResultOK, Outcomes

LEMMA UnexpectedOK == ResultOK(Unexpected) /\ Unexpected.outcome = "retryable_infra"
BY CoreOK DEF Unexpected, ResultCodes

(* A decision about a preflight has one item of evidence, and defers only  *)
(* with an audit at hand.                                                  *)
LEMMA PreexecutionOK ==
  ASSUME ReviewsOK(review), review.failure = "pass_inconclusive" => review.audit
  PROVE  /\ ResultOK(Preexecution) /\ Len(Preexecution.codes) = 1
         /\ Preexecution.outcome \in PassingOutcomes
              => review.failure = "pass_inconclusive"
<1> USE DEF PassingOutcomes
<1>1. /\ <<RiskDomainCode(review.categories)>> \in Seq(ResultCodes)
      /\ Len(<<RiskDomainCode(review.categories)>>) = 1
      /\ <<"source-review-error">> \in Seq(ResultCodes)
      /\ Len(<<"source-review-error">>) = 1
      /\ <<"unexpected-infrastructure">> \in Seq(ResultCodes)
      /\ Len(<<"unexpected-infrastructure">>) = 1
      /\ 1 <= MaxEvidence
  BY RiskDomainCodeType, PolicyAssumption DEF ResultCodes, Codes
<1> DEFINE code == <<RiskDomainCode(review.categories)>>
           find == IF review.finding THEN "preflight" ELSE "-"
           aud  == ~review.ok /\ review.audit
<1>2. aud \in BOOLEAN /\ (~review.ok => (aud <=> review.audit))
  BY DEF ReviewsOK
<1>3. \/ Preexecution = Unexpected
      \/ /\ Preexecution = [outcome |-> "quarantine", codes |-> code,
                            finding |-> find, audit |-> aud]
      \/ \E o \in {"retryable_infra", "pass_inconclusive", "inconclusive"} :
           /\ ~review.ok
           /\ o = "pass_inconclusive" => review.failure = "pass_inconclusive"
           /\ Preexecution = [outcome |-> o, codes |-> <<"source-review-error">>,
                              finding |-> find, audit |-> aud]
  <2>1. CASE ~review.ok
    BY <2>1 DEF Preexecution
  <2>2. CASE review.ok /\ review.risk \in {"medium", "high"}
    BY <2>2 DEF Preexecution
  <2>3. CASE review.ok /\ review.risk \notin {"medium", "high"}
    BY <2>3 DEF Preexecution
  <2> QED
    BY <2>1, <2>2, <2>3 DEF ReviewsOK
<1> HIDE DEF code, find, aud
<1>4. code \in Seq(ResultCodes) /\ Len(code) = 1 /\ code # <<>>
  BY <1>1 DEF code
<1>5. CASE Preexecution = Unexpected
  BY <1>1, <1>5, UnexpectedOK DEF Unexpected, Core, Unscreened
<1>6. CASE Preexecution = [outcome |-> "quarantine", codes |-> code,
                           finding |-> find, audit |-> aud]
  BY <1>1, <1>2, <1>4, <1>6 DEF ResultOK, Outcomes
<1>7. CASE \E o \in {"retryable_infra", "pass_inconclusive", "inconclusive"} :
             /\ ~review.ok
             /\ o = "pass_inconclusive" => review.failure = "pass_inconclusive"
             /\ Preexecution = [outcome |-> o, codes |-> <<"source-review-error">>,
                                finding |-> find, audit |-> aud]
  BY <1>1, <1>2, <1>7 DEF ResultOK, Outcomes
<1> QED
  BY <1>3, <1>5, <1>6, <1>7

LEMMA EvaluatedOK ==
  ASSUME EngineInv, decision # Undecided
  PROVE  /\ ResultOK(Evaluated)
         /\ buildOnly => Evaluated.outcome # "quarantine"
<1>1. CASE decision.outcome = "raised"
  BY <1>1, UnexpectedOK DEF Evaluated
<1>2. CASE decision.outcome # "raised"
  <2>1. DecisionOK(decision)
    BY <1>2 DEF EngineInv
  <2> PICK f : Evaluated = [decision EXCEPT !.finding = f]
    BY <1>2 DEF Evaluated
  <2>2. Evaluated = [outcome |-> decision.outcome, codes |-> decision.codes,
                     finding |-> f, audit |-> decision.audit]
    BY <2>1 DEF DecisionOK
  <2>3. decision.codes \in Seq(ResultCodes)
    BY <2>1 DEF DecisionOK, ResultCodes
  <2>4. ResultOK(Evaluated)
    BY <2>1, <2>2, <2>3 DEF ResultOK, DecisionOK
  <2>5. buildOnly => decision.outcome # "quarantine"
    BY DEF EngineInv
  <2> QED
    BY <2>2, <2>4, <2>5
<1> QED
  BY <1>1, <1>2

(* An amended pass carries its preflight's evidence and still fits.        *)
LEMMA DeferredOK ==
  ASSUME EngineInv, NEW r, ResultOK(r)
  PROVE  /\ ResultOK(Deferred(r))
         /\ ~lead => Deferred(r) = r
<1>1. CASE r.outcome # "pass" \/ ~lead \/ review.failure # "pass_inconclusive"
  BY <1>1 DEF Deferred
<1>2. CASE /\ ~(r.outcome # "pass" \/ ~lead
                  \/ review.failure # "pass_inconclusive")
           /\ ~review.audit \/ Len(r.codes) >= MaxEvidence
  BY <1>2, UnexpectedOK DEF Deferred
<1>3. CASE /\ ~(r.outcome # "pass" \/ ~lead
                  \/ review.failure # "pass_inconclusive")
           /\ ~(~review.audit \/ Len(r.codes) >= MaxEvidence)
  <2>1. ResultOK(Preexecution) /\ Len(Preexecution.codes) = 1
    BY <1>3, PreexecutionOK DEF EngineInv
  <2> DEFINE both == Preexecution.codes \o r.codes
  <2>2. both \in Seq(ResultCodes) /\ Len(both) = 1 + Len(r.codes)
    <3>1. Preexecution.codes \in Seq(ResultCodes) /\ r.codes \in Seq(ResultCodes)
      BY <2>1 DEF ResultOK
    <3>2. \A a, b \in Seq(ResultCodes) :
            a \o b \in Seq(ResultCodes) /\ Len(a \o b) = Len(a) + Len(b)
      OBVIOUS
    <3> QED
      BY <2>1, <3>1, <3>2
  <2>3. Len(both) <= MaxEvidence /\ both # <<>>
    BY <1>3, <2>2, PolicyAssumption DEF ResultOK
  <2>4. Deferred(r) = [Preexecution EXCEPT !.codes = both]
    BY <1>3 DEF Deferred
  <2> HIDE DEF both
  <2>5. Deferred(r) = [outcome |-> Preexecution.outcome, codes |-> both,
                       finding |-> Preexecution.finding,
                       audit |-> Preexecution.audit]
    BY <2>1, <2>4 DEF ResultOK
  <2> QED
    BY <1>3, <2>1, <2>2, <2>3, <2>5 DEF ResultOK
<1> QED
  BY <1>1, <1>2, <1>3

LEMMA AdvisedOK ==
  ASSUME NEW r, ResultOK(r), NEW advisory \in BOOLEAN
  PROVE  /\ ResultOK(Advised(r, advisory))
         /\ buildOnly => Advised(r, advisory) = r
<1> DEFINE kept == IF Len(r.codes) < MaxEvidence THEN r.codes
                   ELSE SubSeq(r.codes, 1, MaxEvidence - 1)
           codes == Append(kept, "image-binding-heuristic")
<1>1. kept \in Seq(ResultCodes) /\ Len(kept) < MaxEvidence
  <2>1. CASE Len(r.codes) < MaxEvidence
    BY <2>1 DEF ResultOK
  <2>2. CASE Len(r.codes) >= MaxEvidence /\ MaxEvidence = 1
    BY <2>2, PolicyAssumption DEF ResultOK
  <2>3. CASE Len(r.codes) >= MaxEvidence /\ MaxEvidence > 1
    <3>1. MaxEvidence - 1 \in Nat \ {0} /\ MaxEvidence - 1 <= Len(r.codes)
      BY <2>3, PolicyAssumption DEF ResultOK
    <3>2. SubSeq(r.codes, 1, MaxEvidence - 1) \in Seq(ResultCodes)
          /\ Len(SubSeq(r.codes, 1, MaxEvidence - 1)) = MaxEvidence - 1
      BY <3>1, CutEvidence DEF ResultOK
    <3> QED
      BY <2>3, <3>2, PolicyAssumption DEF ResultOK
  <2> QED
    BY <2>1, <2>2, <2>3, PolicyAssumption DEF ResultOK
<1> HIDE DEF kept
<1>2. /\ codes \in Seq(ResultCodes) /\ Len(codes) <= MaxEvidence
      /\ codes # <<>>
  <2>1. "image-binding-heuristic" \in ResultCodes
    BY DEF ResultCodes
  <2> QED
    BY <1>1, <2>1, PolicyAssumption
<1>3. \/ Advised(r, advisory) = r
      \/ ~buildOnly /\ Advised(r, advisory)
                         = [r EXCEPT !.outcome = "quarantine", !.codes = codes]
  BY DEF Advised, kept
<1> HIDE DEF codes
<1>4. CASE ~buildOnly /\ Advised(r, advisory)
                           = [r EXCEPT !.outcome = "quarantine", !.codes = codes]
  <2>1. Advised(r, advisory) = [outcome |-> "quarantine", codes |-> codes,
                                finding |-> r.finding, audit |-> r.audit]
    BY <1>4 DEF ResultOK
  <2> QED
    BY <1>2, <1>4, <2>1 DEF ResultOK, Outcomes
<1> QED
  BY <1>3, <1>4

LEMMA VerdictInvInit == VerdictInit => VerdictInv
<1> SUFFICES ASSUME VerdictInit PROVE VerdictInv
  OBVIOUS
<1>1. /\ buildOnly \in BOOLEAN
      /\ deferredReview \in (IF buildOnly THEN BOOLEAN ELSE {FALSE})
      /\ lead \in (IF buildOnly THEN {FALSE} ELSE BOOLEAN)
      /\ result = Unscreened /\ image = FALSE /\ request = NoRequest
  BY DEF VerdictInit, Init
<1> QED
  BY <1>1 DEF VerdictInv, ResultInv, RequestIsAccepted, Sent, NoRequest, Refused

(* However the gate ends a screen, it yields what the worker can report.   *)
LEMMA GateYields ==
  ASSUME EngineInv, VerdictInv, NEW r, result' = r, ResultOK(r),
         image' \in BOOLEAN, image' <=> r.outcome \in PassingOutcomes,
         buildOnly => r.outcome # "quarantine",
         UNCHANGED <<deferredReview, lead, request>>, buildOnly' = buildOnly
  PROVE  VerdictInv'
<1>1. result' # Unscreened
  BY DEF ResultOK, Unscreened, Outcomes
<1> QED
  BY <1>1 DEF VerdictInv, ResultInv, RequestIsAccepted, Sent, Accepted, ResultOK

LEMMA ReportIsAccepted ==
  ASSUME EngineInv, VerdictInv, Report
  PROVE  VerdictInv'
<1>1. /\ result # Unscreened /\ request = NoRequest
      /\ request' = IF MustNotYield THEN Refused ELSE Request
      /\ UNCHANGED <<deferredReview, lead, result, image, buildOnly>>
  BY DEF Report, vars
<1>2. /\ ResultOK(result)
      /\ image <=> result.outcome \in PassingOutcomes
      /\ buildOnly => result.outcome # "quarantine"
      /\ deferredReview => buildOnly
      /\ image \in BOOLEAN /\ deferredReview \in BOOLEAN /\ buildOnly \in BOOLEAN
  BY <1>1 DEF VerdictInv, ResultInv, EngineInv, TypeOK
<1>3. request' = Request
  BY <1>1, <1>2 DEF MustNotYield
<1>4. result.outcome \in AuditedOutcomes => ReasonCode # {}
  <2>1. CASE result.outcome = "pass_inconclusive"
    BY <2>1 DEF ReasonCode
  <2>2. CASE result.outcome = "quarantine"
    <3>1. result.codes # <<>> /\ result.codes \in Seq(ResultCodes)
      BY <1>2, <2>2 DEF ResultOK
    <3>2. Len(result.codes) # 0
      BY <3>1
    <3> QED
      BY <2>2, <3>2 DEF ReasonCode
  <2> QED
    BY <2>1, <2>2 DEF AuditedOutcomes
<1>5. AuditSent <=> result.outcome = "pass_inconclusive"
  BY <1>2 DEF AuditSent, ResultOK
<1>6. Len(<<>>) <= MaxEvidence
  BY PolicyAssumption
<1>7. Accepted(Request)
  <2>1. /\ Request.outcome = result.outcome
        /\ Request.passed <=> result.outcome \in PassingOutcomes
        /\ result.outcome \in AuditedOutcomes => Request.manifest # {}
        /\ Request.reason = ReasonCode
        /\ Request.evidence = IF result.outcome \in AuditedOutcomes
                              THEN result.codes ELSE <<>>
        /\ result.outcome \notin AuditedOutcomes => Request.finding = {}
        /\ Request.audit <=> AuditSent
        /\ Request.image <=> image
        /\ Request.buildOnly <=> buildOnly
        /\ Request.deferredReview <=> deferredReview
    BY DEF Request
  <2>2. Request.evidence # <<>> \/ Request.finding # {}
          => result.outcome \in HeldOutcomes
    BY <2>1 DEF HeldOutcomes
  <2>3. Len(Request.evidence) <= MaxEvidence
    BY <1>2, <1>6, <2>1 DEF ResultOK
  <2> QED
    BY <1>2, <1>4, <1>5, <2>1, <2>2, <2>3 DEF Accepted
<1>8. Request.outcome = result.outcome
  BY DEF Request
<1>9. Request # Refused
  BY <1>2, <1>8 DEF Refused, ResultOK, Outcomes
<1> QED
  BY <1>1, <1>3, <1>7, <1>9
     DEF VerdictInv, ResultInv, RequestIsAccepted, ResultOK

LEMMA VerdictInvStep == EngineInv /\ VerdictInv /\ [VerdictNext]_allVars => VerdictInv'
<1> SUFFICES ASSUME EngineInv, VerdictInv, [VerdictNext]_allVars PROVE VerdictInv'
  OBVIOUS
<1>1. CASE RunPolicy
  <2>1. /\ UNCHANGED <<deferredReview, lead, request, result, image>>
        /\ buildOnly' = buildOnly
    <3>1. Next => buildOnly' = buildOnly
      BY DEF Next, Evaluate, Select, Challenge, Collect, Conclude
    <3> QED
      BY <1>1, <3>1 DEF RunPolicy, Screening
  <2> QED
    BY <2>1 DEF VerdictInv, ResultInv, RequestIsAccepted, Sent, Accepted, ResultOK
<1>2. CASE LeadStands
  <2>1. /\ result = Unscreened /\ lead /\ ~LeadCleared
        /\ result' = Preexecution
        /\ UNCHANGED <<deferredReview, lead, request, image, buildOnly>>
    BY <1>2 DEF LeadStands, Screening, vars
  <2>2. review.failure # "pass_inconclusive" /\ ReviewsOK(review)
    BY <2>1 DEF LeadCleared, EngineInv
  <2>3. ResultOK(Preexecution)
    BY <2>2, PreexecutionOK
  <2>4. Preexecution.outcome \notin PassingOutcomes
    BY <2>2, PreexecutionOK
  <2>5. ~buildOnly /\ image = FALSE
    BY <2>1 DEF VerdictInv, ResultInv
  <2> QED
    BY <2>1, <2>3, <2>4, <2>5, GateYields
<1>3. CASE StageFails
  <2>1. /\ result = Unscreened
        /\ UNCHANGED <<deferredReview, lead, request, image, buildOnly>>
        /\ \/ result' = Core("retryable_infra", "lease-budget-exhausted")
           \/ result' = Core("deterministic_reject", "docker-build")
    BY <1>3 DEF StageFails, Screening, vars
  <2>2. /\ ResultOK(result')
        /\ result'.outcome \in {"retryable_infra", "deterministic_reject"}
    BY <2>1, CoreOK DEF ResultCodes
  <2>3. image = FALSE
    BY <2>1 DEF VerdictInv, ResultInv
  <2> QED
    BY <2>1, <2>2, <2>3, GateYields DEF PassingOutcomes
<1>4. CASE EndScreen
  <2>1. /\ result = Unscreened /\ decision # Undecided
        /\ UNCHANGED <<deferredReview, lead, request, buildOnly>>
    BY <1>4 DEF EndScreen, Screening, vars
  <2>2. image = FALSE
    BY <2>1 DEF VerdictInv, ResultInv
  <2>3. \A advisory \in BOOLEAN :
          LET amended == Advised(Deferred(Evaluated), advisory) IN
            ResultOK(amended) /\ (buildOnly => amended.outcome # "quarantine")
    <3>1. /\ ResultOK(Evaluated)
          /\ buildOnly => Evaluated.outcome # "quarantine" /\ ~lead
      BY <2>1, EvaluatedOK DEF VerdictInv, ResultInv
    <3>2. /\ ResultOK(Deferred(Evaluated))
          /\ buildOnly => Deferred(Evaluated).outcome # "quarantine"
      BY <3>1, DeferredOK
    <3> QED
      BY <3>2, AdvisedOK
  <2>4. CASE result' = Unexpected /\ image' = image
    BY <2>1, <2>2, <2>4, UnexpectedOK, GateYields DEF PassingOutcomes
  <2>5. CASE \E advisory \in BOOLEAN :
               LET amended == Advised(Deferred(Evaluated), advisory) IN
                 /\ result' = amended
                 /\ \/ amended.outcome \notin PassingOutcomes /\ image' = image
                    \/ amended.outcome \in PassingOutcomes /\ image' = TRUE
    <3>1. /\ image' \in BOOLEAN
          /\ image' <=> result'.outcome \in PassingOutcomes
          /\ ResultOK(result')
          /\ buildOnly => result'.outcome # "quarantine"
      BY <2>2, <2>3, <2>5
    <3> QED
      BY <2>1, <3>1, GateYields
  <2>6. CASE /\ result' \in
                  {Core("retryable_infra", "image-upload-failed"),
                   Core("deterministic_reject", "screened-image-too-large")}
             /\ image' = image
    <3>1. /\ ResultOK(result')
          /\ result'.outcome \in {"retryable_infra", "deterministic_reject"}
      BY <2>6, CoreOK DEF ResultCodes
    <3> QED
      BY <2>1, <2>2, <2>6, <3>1, GateYields DEF PassingOutcomes
  <2> QED
    BY <1>4, <2>4, <2>5, <2>6 DEF EndScreen
<1>5. CASE Report
  BY <1>5, ReportIsAccepted
<1>6. CASE UNCHANGED allVars
  <2>1. UNCHANGED <<deferredReview, lead, result, image, request, buildOnly>>
    BY <1>6 DEF allVars, vars, verdictVars
  <2> QED
    BY <2>1 DEF VerdictInv, ResultInv, RequestIsAccepted, Sent, Accepted, ResultOK
<1> QED
  BY <1>1, <1>2, <1>3, <1>4, <1>5, <1>6 DEF VerdictNext

(* However a screen ends, the worker neither trips over its own assertions *)
(* nor builds a request that the models of the protocol refuse, whatever   *)
(* the manifest, the review, the pack and the bound on evidence.           *)
THEOREM RequestIsAcceptedHolds == VerdictSpec => []RequestIsAccepted
<1>1. VerdictInit => VerdictInv
  BY VerdictInvInit
<1>2. EngineInv /\ VerdictInv /\ [VerdictNext]_allVars => VerdictInv'
  BY VerdictInvStep
<1>3. VerdictInv => RequestIsAccepted
  BY DEF VerdictInv
<1> QED
  BY <1>1, <1>2, <1>3, EngineHolds, PTL DEF VerdictSpec

-----------------------------------------------------------------------------
(* The evidence of a hold                                                  *)

Reasons(codes) == \A k \in DOMAIN codes : codes[k] \notin ClearCodes
ShowsReason(codes) == \E k \in DOMAIN codes : codes[k] \notin ClearCodes

(* A pack that holds ends with the code of the run it stopped at.          *)
LEMMA PackReason ==
  ASSUME NEW runs \in Seq(ChallengeRuns),
         BehavioralChallengePack(runs).disposition = "quarantine"
  PROVE  LET codes == BehavioralChallengePack(runs).codes
         IN  codes[Len(codes)] \notin ClearCodes
<1> DEFINE stops == {k \in DOMAIN runs : ChallengeCode(runs[k]) # "challenge-observed"}
           last  == IF stops = {} THEN Len(runs)
                    ELSE CHOOSE k \in stops : \A j \in stops : k <= j
           codes == [k \in 1..last |-> ChallengeCode(runs[k])]
<1>1. BehavioralChallengePack(runs) =
        CASE runs = <<>> ->
               Result("retryable_infra", <<"challenge-pack-unavailable">>)
          [] runs # <<>> /\ stops = {} -> Result("clear", codes)
          [] runs # <<>> /\ stops # {} ->
               Result(IF codes[last] = "challenge-inconclusive"
                        THEN "inconclusive" ELSE "quarantine", codes)
  BY DEF BehavioralChallengePack
<1> HIDE DEF codes
<1>2. stops # {} /\ BehavioralChallengePack(runs).codes = codes
  BY <1>1 DEF Result
<1>3. last \in stops
  <2>1. stops \in SUBSET Nat
    OBVIOUS
  <2> HIDE DEF stops
  <2>2. \E k \in stops : \A j \in stops : k <= j
    BY <1>2, <2>1, LeastExists
  <2> QED
    BY <1>2, <2>2
<1> HIDE DEF last
<1>4. last \in Nat \ {0} /\ ChallengeCode(runs[last]) # "challenge-observed"
  BY <1>3
<1>5. codes[last] = ChallengeCode(runs[last]) /\ Len(codes) = last
  BY <1>4 DEF codes
<1>6. ChallengeCode(runs[last]) # "behavioral-oracle-passed"
  BY DEF ChallengeCode
<1> QED
  BY <1>2, <1>4, <1>5, <1>6 DEF ClearCodes

LEMMA OracleReason ==
  ASSUME NEW run, BehavioralOracle(run).disposition = "quarantine"
  PROVE  LET codes == BehavioralOracle(run).codes
         IN  codes[Len(codes)] \notin ClearCodes
<1>1. BehavioralOracle(run) \in
        {Result("inconclusive", <<"behavioral-oracle-inconclusive">>),
         Result("inconclusive", <<"behavioral-oracle-insufficient-round-trips">>),
         Result("quarantine", <<"behavioral-oracle-wrong-answer">>),
         Result("quarantine", <<"behavioral-oracle-implausibly-fast">>),
         Result("clear", <<"behavioral-oracle-passed">>)}
  BY Zenon DEF BehavioralOracle
<1>2. \E c \in {"behavioral-oracle-wrong-answer", "behavioral-oracle-implausibly-fast"} :
        BehavioralOracle(run) = Result("quarantine", <<c>>)
  BY <1>1 DEF Result
<1> QED
  BY <1>2 DEF Result, ClearCodes

LEMMA ChallengeReason ==
  ASSUME NEW kind \in ChallengeKinds, NEW r \in Observed(kind),
         r.disposition = "quarantine"
  PROVE  r.codes[Len(r.codes)] \notin ClearCodes
<1>1. CASE kind = "behavioral_challenge_pack"
  <2> PICK p \in Packs : r = BehavioralChallengePack(p)
    BY <1>1 DEF Observed
  <2> QED
    BY PolicyAssumption, PackReason
<1>2. CASE kind = "behavioral_oracle"
  <2> PICK o \in OracleRuns : r = BehavioralOracle(o)
    BY <1>2 DEF Observed
  <2> QED
    BY OracleReason
<1> QED
  BY <1>1, <1>2 DEF ChallengeKinds

(* A selector never says that something was cleared, and its tripwire has  *)
(* a code.                                                                 *)
LEMMA SelectorReason ==
  ASSUME NEW kind \in SelectorKinds, NEW r \in Observed(kind)
  PROVE  /\ Reasons(r.codes)
         /\ r.disposition = "tripwire" => r.codes # <<>>
<1>0. Reasons(<<>>)
  BY DEF Reasons
<1>00. ASSUME NEW c, c \notin ClearCodes
       PROVE  Reasons(<<c>>) /\ <<c>> # <<>>
  BY <1>00 DEF Reasons
<1>1. CASE kind = "agentic_source_review"
  <2>1. r = AgenticSourceReview(review)
    BY <1>1 DEF Observed
  <2>2. /\ RiskDomainCode(review.categories) \notin ClearCodes
        /\ "source-review-unavailable" \notin ClearCodes
        /\ "source-review-inconclusive" \notin ClearCodes
        /\ "source-review-error" \notin ClearCodes
        /\ "source-review-invalid-risk" \notin ClearCodes
    BY DEF RiskDomainCode, ClearCodes
  <2>3. CASE ~review.ok
    <3>1. r = ReviewFailed(review)
      BY <2>1, <2>3, Zenon DEF AgenticSourceReview
    <3>2. ReviewFailed(review) \in
            {Result("retryable_infra", <<"source-review-unavailable">>),
             Result("inconclusive", <<"source-review-error">>),
             Result("retryable_infra", <<"source-review-error">>),
             [disposition |-> "pass_inconclusive",
              codes |-> <<"source-review-inconclusive">>,
              finding |-> review.finding, audit |-> review.audit]}
      BY Zenon DEF ReviewFailed
    <3>3. r.codes \in {<<"source-review-unavailable">>, <<"source-review-error">>,
                       <<"source-review-inconclusive">>}
      BY <3>1, <3>2 DEF Result
    <3> QED
      BY <1>00, <2>2, <3>3
  <2>4. CASE review.ok
    <3> DEFINE c == RiskDomainCode(review.categories)
    <3> HIDE DEF c
    <3>1. AgenticSourceReview(review) \in
            {[Result("clear", <<>>) EXCEPT !.finding = review.finding],
             Result("inconclusive", <<"source-review-invalid-risk">>),
             [Result("tripwire", <<c>>) EXCEPT !.finding = review.finding]}
      BY <2>4, Zenon DEF AgenticSourceReview, c
    <3>2. \/ r.disposition = "clear" /\ r.codes = <<>>
          \/ r.codes = <<"source-review-invalid-risk">>
          \/ r.codes = <<c>>
      BY <2>1, <3>1 DEF Result
    <3>3. c \notin ClearCodes
      BY <2>2 DEF c
    <3> QED
      BY <1>0, <1>00, <2>2, <3>2, <3>3
  <2> QED
    BY <2>3, <2>4
<1>2. CASE kind # "agentic_source_review"
  <2>1. PICK d \in Dispositions,
             c \in {"risk-feed-unavailable", "risk-feed-invalid",
                    "timing-relay-tripwire", "audit-seed-unavailable",
                    "random-control-selected", "source-fingerprint-tripwire"} :
          r = Result(d, <<c>>) \/ r = Result("clear", <<>>)
    <3>1. CASE kind = "timing_relay_risk"
      <4> PICK f \in RiskFeeds : r = TimingRelayRisk(f)
        BY <3>1 DEF Observed
      <4> QED
        BY DEF TimingRelayRisk, RiskFeeds, Dispositions
    <3>2. CASE kind = "random_audit"
      <4> PICK f \in AuditDraws : r = RandomAudit(f)
        BY <3>2 DEF Observed
      <4> QED
        BY DEF RandomAudit, AuditDraws, Dispositions
    <3>3. CASE kind = "source_fingerprint"
      <4> PICK f \in BOOLEAN : r = SourceFingerprintTriage(f)
        BY <3>3 DEF Observed
      <4> QED
        BY DEF SourceFingerprintTriage, Dispositions
    <3> QED
      BY <1>2, <3>1, <3>2, <3>3 DEF SelectorKinds
  <2>2. c \notin ClearCodes
    BY DEF ClearCodes
  <2>3. r.codes = <<c>> \/ (r.codes = <<>> /\ r.disposition = "clear")
    BY <2>1 DEF Result
  <2> QED
    BY <1>0, <1>00, <2>2, <2>3
<1> QED
  BY <1>1, <1>2

(* Evidence is cut at its end: an item is kept that is the first, or that  *)
(* no item is cut off behind.                                              *)
LEMMA DecisionShows ==
  ASSUME NEW outcome, NEW codes \in Seq(Codes), NEW find, NEW aud,
         outcome # "pass_inconclusive",
         NEW k \in DOMAIN codes, codes[k] \notin ClearCodes,
         k = 1 \/ Len(codes) <= MaxEvidence
  PROVE  ShowsReason(Decision(outcome, codes, find, aud).codes)
<1> DEFINE n == IF Len(codes) <= MaxEvidence THEN Len(codes) ELSE MaxEvidence
<1>1. Decision(outcome, codes, find, aud).codes = SubSeq(codes, 1, n)
  BY DEF Decision
<1>2. n \in 1..Len(codes) /\ k \in 1..n
  BY PolicyAssumption
<1> HIDE DEF n
<1>3. SubSeq(codes, 1, n) = [m \in 1..n |-> codes[m]]
  BY <1>2
<1> QED
  BY <1>1, <1>2, <1>3 DEF ShowsReason

(* Selectors run first and clear nothing: a lead stands at the front of    *)
(* the evidence; and a hold has a reason unless too much was collected.    *)
ReasonInv ==
  /\ selected => evidence # <<>> /\ evidence[1] \notin ClearCodes
  /\ (\E i \in pending : IsSelector(i)) => Reasons(evidence)
  /\ decision.outcome = "quarantine" /\ (selected \/ Len(evidence) <= MaxEvidence)
       => ShowsReason(decision.codes)

(* Codes are appended.                                                     *)
LEMMA AppendedCodes ==
  ASSUME NEW a \in Seq(Codes), NEW b \in Seq(Codes)
  PROVE  /\ a \o b \in Seq(Codes) /\ Len(a \o b) = Len(a) + Len(b)
         /\ Reasons(a) /\ Reasons(b) => Reasons(a \o b)
         /\ a # <<>> => a \o b # <<>> /\ (a \o b)[1] = a[1]
         /\ b # <<>> => /\ a \o b # <<>>
                        /\ (a \o b)[Len(a \o b)] = b[Len(b)]
<1>1. /\ a \o b \in Seq(Codes) /\ Len(a \o b) = Len(a) + Len(b)
      /\ Len(a) \in Nat /\ Len(b) \in Nat
      /\ DOMAIN a = 1..Len(a) /\ DOMAIN b = 1..Len(b)
      /\ DOMAIN (a \o b) = 1..(Len(a) + Len(b))
  OBVIOUS
<1>2. /\ \A k \in 1..Len(a) : (a \o b)[k] = a[k]
      /\ \A k \in (Len(a) + 1)..(Len(a) + Len(b)) : (a \o b)[k] = b[k - Len(a)]
  BY <1>1
<1>3. ASSUME Reasons(a), Reasons(b) PROVE Reasons(a \o b)
  <2> SUFFICES ASSUME NEW k \in 1..(Len(a) + Len(b))
               PROVE  (a \o b)[k] \notin ClearCodes
    BY <1>1 DEF Reasons
  <2>1. CASE k <= Len(a)
    BY <1>1, <1>2, <1>3, <2>1 DEF Reasons
  <2>2. CASE k > Len(a)
    <3>1. k - Len(a) \in 1..Len(b) /\ k \in (Len(a) + 1)..(Len(a) + Len(b))
      BY <1>1, <2>2
    <3> QED
      BY <1>1, <1>2, <1>3, <3>1 DEF Reasons
  <2> QED
    BY <1>1, <2>1, <2>2
<1>4. a # <<>> => a \o b # <<>> /\ (a \o b)[1] = a[1]
  BY <1>1, <1>2
<1>5. ASSUME b # <<>>
      PROVE  a \o b # <<>> /\ (a \o b)[Len(a \o b)] = b[Len(b)]
  <2>1. Len(b) # 0
    BY <1>5
  <2>2. /\ Len(a \o b) \in (Len(a) + 1)..(Len(a) + Len(b))
        /\ Len(a \o b) - Len(a) = Len(b)
    BY <1>1, <2>1
  <2> QED
    BY <1>1, <1>2, <2>1, <2>2
<1> QED
  BY <1>1, <1>3, <1>4, <1>5

(* While a selector waits, a selector has the turn.                        *)
LEMMA SelectorsFirst ==
  ASSUME NEW i, Turn(i), ~IsSelector(i), NEW j \in pending
  PROVE  ~IsSelector(j)
<1>1. j # i => IF IsSelector(i) <=> IsSelector(j) THEN i < j ELSE IsSelector(i)
  BY DEF Turn
<1> QED
  BY <1>1

LEMMA ReasonSelect ==
  ASSUME EngineInv, ReasonInv, NEW i \in DOMAIN manifest, Select(i)
  PROVE  ReasonInv'
<1>1. /\ i \in pending /\ decision = Undecided /\ IsSelector(i)
      /\ manifest[i] \in SelectorKinds
  BY DEF Select, Turn, IsSelector
<1>2. PICK r \in Observed(manifest[i]) :
        /\ Collect(i, r)
        /\ selected' = (selected \/ r.disposition = "tripwire")
        /\ decision' = IF Terminal(r.disposition)
                            /\ r.disposition # "pass_inconclusive"
                       THEN Decision(r.disposition, evidence', finding', audit')
                       ELSE decision
  BY DEF Select
<1>3. /\ Reasons(r.codes) /\ r.codes \in Seq(Codes)
      /\ r.disposition = "tripwire" => r.codes # <<>>
      /\ r.disposition # "quarantine"
  BY <1>1, SelectorReason, SelectorResult DEF EngineInv, ModuleResults
<1>4. Reasons(evidence) /\ evidence \in Seq(Codes)
  BY <1>1 DEF ReasonInv, EngineInv, TypeOK
<1>5. evidence' = evidence \o r.codes
  BY <1>2 DEF Collect
<1>6. evidence' \in Seq(Codes) /\ Reasons(evidence')
  BY <1>3, <1>4, <1>5, AppendedCodes
<1>7. selected' => evidence' # <<>>
  <2>1. CASE selected
    BY <1>3, <1>4, <1>5, <2>1, AppendedCodes DEF ReasonInv
  <2>2. CASE r.disposition = "tripwire"
    BY <1>3, <1>4, <1>5, <2>2, AppendedCodes
  <2> QED
    BY <1>2, <2>1, <2>2 DEF EngineInv, TypeOK
<1>8. evidence' # <<>> => evidence'[1] \notin ClearCodes
  BY <1>6 DEF Reasons
<1>9. decision'.outcome # "quarantine"
  <2>1. \/ decision' = Undecided
        \/ decision' = Decision(r.disposition, evidence', finding', audit')
    BY <1>1, <1>2
  <2>2. Decision(r.disposition, evidence', finding', audit').outcome
          \in {r.disposition, "raised"}
    BY DecisionOutcome
  <2> QED
    BY <1>3, <2>1, <2>2 DEF Undecided
<1> QED
  BY <1>6, <1>7, <1>8, <1>9 DEF ReasonInv

LEMMA ReasonChallenge ==
  ASSUME EngineInv, ReasonInv, NEW i \in DOMAIN manifest, Challenge(i)
  PROVE  ReasonInv'
<1>1. /\ Turn(i) /\ i \in pending /\ decision = Undecided /\ ~IsSelector(i)
      /\ selected' = selected
  BY DEF Challenge, Turn
<1>2. manifest[i] \in ChallengeKinds
  BY <1>1, ManifestKinds DEF EngineInv
<1>3. PICK r \in Observed(manifest[i]) :
        /\ Collect(i, r)
        /\ decision' = IF Terminal(r.disposition)
                       THEN Decision(r.disposition, evidence', finding', audit')
                       ELSE decision
  BY DEF Challenge
<1>4. /\ r.codes \in Seq(Codes) /\ r.codes # <<>>
      /\ r.disposition = "quarantine" => r.codes[Len(r.codes)] \notin ClearCodes
  BY <1>2, ChallengeResult, ChallengeReason DEF ModuleResults
<1>5. evidence' = evidence \o r.codes /\ evidence \in Seq(Codes)
      /\ pending' = pending \ {i} /\ manifest' = manifest
  BY <1>3 DEF Collect, EngineInv, TypeOK
<1>6. /\ evidence' \in Seq(Codes) /\ evidence' # <<>>
      /\ evidence # <<>> => evidence'[1] = evidence[1]
      /\ evidence'[Len(evidence')] = r.codes[Len(r.codes)]
  BY <1>4, <1>5, AppendedCodes
<1>7. selected' => evidence'[1] \notin ClearCodes
  BY <1>1, <1>6 DEF ReasonInv
<1>8. ~\E j \in pending' : IsSelector(j)'
  <2> SUFFICES ASSUME NEW j \in pending' PROVE ~IsSelector(j)'
    OBVIOUS
  <2>1. ~IsSelector(j)
    BY <1>1, <1>5, SelectorsFirst
  <2> QED
    BY <1>5, <2>1 DEF IsSelector
<1>9. ASSUME decision'.outcome = "quarantine",
             selected' \/ Len(evidence') <= MaxEvidence
      PROVE  ShowsReason(decision'.codes)
  <2>1. decision' = Decision(r.disposition, evidence', finding', audit')
    BY <1>1, <1>3, <1>9 DEF Undecided
  <2>2. r.disposition = "quarantine"
    BY <1>9, <2>1, DecisionOutcome
  <2>3. 1 \in DOMAIN evidence' /\ Len(evidence') \in DOMAIN evidence'
    BY <1>6
  <2>4. CASE selected'
    BY <1>6, <1>7, <2>1, <2>2, <2>3, <2>4, DecisionShows
  <2>5. CASE Len(evidence') <= MaxEvidence
    BY <1>4, <1>6, <2>1, <2>2, <2>3, <2>5, DecisionShows
  <2> QED
    BY <1>9, <2>4, <2>5
<1> QED
  BY <1>6, <1>7, <1>8, <1>9 DEF ReasonInv

LEMMA ReasonConclude ==
  ASSUME EngineInv, ReasonInv, Conclude
  PROVE  ReasonInv'
<1>1. /\ UNCHANGED <<manifest, pending, evidence, selected>>
      /\ evidence \in Seq(Codes)
  BY DEF Conclude, EngineInv, TypeOK
<1>2. ASSUME decision'.outcome = "quarantine"
      PROVE  ShowsReason(decision'.codes)
  <2> DEFINE shown == IF evidence = <<>>
                      THEN <<"audit-awaiting-private-challenge">> ELSE evidence
  <2>1. \/ /\ selected
           /\ decision' = Decision("quarantine", shown, finding, audit)
        \/ \E outcome \in {"pass", "pass_inconclusive"} : \E aud :
             decision' = Decision(outcome, evidence, finding, aud)
    BY DEF Conclude
  <2>2. selected /\ decision' = Decision("quarantine", shown, finding, audit)
    <3> HIDE DEF shown
    <3> QED
      BY <1>2, <2>1, DecisionOutcome
  <2>3. shown = evidence /\ 1 \in DOMAIN evidence /\ evidence[1] \notin ClearCodes
    BY <1>1, <2>2 DEF ReasonInv
  <2> QED
    BY <1>1, <2>2, <2>3, DecisionShows
<1>3. (\E j \in pending' : IsSelector(j)') => \E j \in pending : IsSelector(j)
  BY <1>1 DEF IsSelector
<1> QED
  BY <1>1, <1>2, <1>3 DEF ReasonInv

LEMMA ReasonStep == EngineInv /\ ReasonInv /\ [Next]_vars => ReasonInv'
<1> SUFFICES ASSUME EngineInv, ReasonInv, [Next]_vars PROVE ReasonInv'
  OBVIOUS
<1>1. CASE Evaluate
  BY <1>1, ReasonSelect, ReasonChallenge DEF Evaluate
<1>2. CASE Conclude
  BY <1>2, ReasonConclude
<1>3. CASE UNCHANGED vars
  BY <1>3 DEF vars, ReasonInv, IsSelector
<1> QED
  BY <1>1, <1>2, <1>3 DEF Next

(* The gate and the worker hand the reason on.                             *)
HandedOnInv ==
  /\ request # NoRequest => result # Unscreened
  /\ selected \/ Len(evidence) <= MaxEvidence =>
       /\ result.outcome = "quarantine" => ShowsReason(result.codes)
       /\ Sent /\ request.outcome = "quarantine" => ShowsReason(request.evidence)

LEMMA PreexecutionShows ==
  ASSUME Preexecution.outcome = "quarantine", ReviewsOK(review)
  PROVE  ShowsReason(Preexecution.codes)
<1> DEFINE c == RiskDomainCode(review.categories)
<1>1. c \notin ClearCodes
  BY DEF RiskDomainCode, ClearCodes
<1>2. Preexecution.codes \in {<<c>>, <<"source-review-error">>,
                              <<"unexpected-infrastructure">>}
  <2>1. CASE ~review.ok
    BY <2>1 DEF Preexecution
  <2>2. CASE review.ok /\ review.risk \in {"medium", "high"}
    BY <2>2 DEF Preexecution
  <2>3. CASE review.ok /\ review.risk \notin {"medium", "high"}
    BY <2>3 DEF Preexecution, Unexpected, Core, Unscreened
  <2> QED
    BY <2>1, <2>2, <2>3 DEF ReviewsOK
<1> HIDE DEF c
<1>3. PICK d : Preexecution.codes = <<d>> /\ d \notin ClearCodes
  BY <1>1, <1>2 DEF ClearCodes
<1> QED
  BY <1>3 DEF ShowsReason

LEMMA AmendedShows ==
  ASSUME EngineInv, ReasonInv, decision # Undecided, NEW advisory \in BOOLEAN,
         selected \/ Len(evidence) <= MaxEvidence,
         Advised(Deferred(Evaluated), advisory).outcome = "quarantine"
  PROVE  ShowsReason(Advised(Deferred(Evaluated), advisory).codes)
<1> DEFINE r == Deferred(Evaluated)
           kept == IF Len(r.codes) < MaxEvidence THEN r.codes
                   ELSE SubSeq(r.codes, 1, MaxEvidence - 1)
<1>1. ResultOK(Evaluated) /\ ResultOK(r)
  BY EvaluatedOK, DeferredOK
<1>2. CASE Advised(r, advisory) = r
  <2>1. CASE r = Evaluated
    <3>1. /\ Evaluated.outcome = "quarantine" /\ decision.outcome # "raised"
      BY <1>2, <2>1, UnexpectedOK DEF Evaluated
    <3>2. /\ Evaluated.outcome = decision.outcome
          /\ Evaluated.codes = decision.codes
      <4>1. DecisionOK(decision)
        BY <3>1 DEF EngineInv
      <4>2. PICK f : Evaluated = [decision EXCEPT !.finding = f]
        BY <3>1 DEF Evaluated
      <4>3. Evaluated = [outcome |-> decision.outcome, codes |-> decision.codes,
                         finding |-> f, audit |-> decision.audit]
        BY <4>1, <4>2 DEF DecisionOK
      <4> QED
        BY <4>3
    <3> QED
      BY <1>2, <2>1, <3>1, <3>2 DEF ReasonInv
  <2>2. CASE r # Evaluated
    <3>1. \/ r = Unexpected
          \/ /\ review.failure = "pass_inconclusive" /\ review.audit
             /\ r = [Preexecution EXCEPT !.codes = @ \o Evaluated.codes]
      BY <2>2 DEF Deferred
    <3>2. /\ review.failure = "pass_inconclusive" /\ review.audit
          /\ r = [Preexecution EXCEPT !.codes = @ \o Evaluated.codes]
      BY <1>2, <3>1, UnexpectedOK
    <3>3. ReviewsOK(review) /\ ResultOK(Preexecution)
      BY <3>2, PreexecutionOK DEF EngineInv
    <3>4. /\ r.outcome = Preexecution.outcome
          /\ r.codes = Preexecution.codes \o Evaluated.codes
      <4> DEFINE both == Preexecution.codes \o Evaluated.codes
      <4>1. r = [Preexecution EXCEPT !.codes = both]
        BY <3>2, <3>3 DEF ResultOK
      <4> HIDE DEF both, r
      <4>2. r.outcome = Preexecution.outcome /\ r.codes = both
        BY <3>3, <4>1 DEF ResultOK
      <4> QED
        BY <4>2 DEF both
    <3>5. ShowsReason(Preexecution.codes)
      BY <1>2, <3>3, <3>4, PreexecutionShows
    <3>6. /\ Preexecution.codes \in Seq(ResultCodes)
          /\ Evaluated.codes \in Seq(ResultCodes)
      BY <1>1, <3>3 DEF ResultOK
    <3>7. ShowsReason(Preexecution.codes \o Evaluated.codes)
      <4>1. PICK k \in DOMAIN Preexecution.codes :
                   Preexecution.codes[k] \notin ClearCodes
        BY <3>5 DEF ShowsReason
      <4>2. ASSUME NEW a \in Seq(ResultCodes), NEW b \in Seq(ResultCodes),
                   NEW m \in DOMAIN a
            PROVE  m \in DOMAIN (a \o b) /\ (a \o b)[m] = a[m]
        OBVIOUS
      <4> QED
        BY <3>6, <4>1, <4>2 DEF ShowsReason
    <3> QED
      BY <1>2, <3>4, <3>7
  <2> QED
    BY <2>1, <2>2
<1>3. CASE Advised(r, advisory) # r
  <2>1. Advised(r, advisory) = [r EXCEPT !.outcome = "quarantine",
                                !.codes = Append(kept, "image-binding-heuristic")]
    BY <1>3 DEF Advised
  <2> DEFINE codes == Append(kept, "image-binding-heuristic")
  <2>2. kept \in Seq(ResultCodes)
    <3>1. r.codes \in Seq(ResultCodes)
      BY <1>1 DEF ResultOK
    <3> HIDE DEF r
    <3>2. CASE Len(r.codes) < MaxEvidence
      BY <3>1, <3>2
    <3>3. CASE Len(r.codes) >= MaxEvidence
      <4>1. MaxEvidence - 1 \in Nat /\ MaxEvidence - 1 <= Len(r.codes)
        BY <3>1, <3>3, PolicyAssumption
      <4>2. SubSeq(r.codes, 1, MaxEvidence - 1)
              = [k \in 1..(MaxEvidence - 1) |-> r.codes[k]]
        BY <3>1, <4>1
      <4>3. SubSeq(r.codes, 1, MaxEvidence - 1) \in Seq(ResultCodes)
        BY <3>1, <4>1, <4>2
      <4> QED
        BY <3>3, <4>3, PolicyAssumption
    <3> QED
      BY <3>1, <3>2, <3>3, PolicyAssumption
  <2> HIDE DEF kept
  <2>3. /\ Len(kept) + 1 \in DOMAIN codes
        /\ codes[Len(kept) + 1] = "image-binding-heuristic"
    BY <2>2
  <2> HIDE DEF codes
  <2>4. Advised(r, advisory).codes = codes
    <3>1. r = [outcome |-> r.outcome, codes |-> r.codes,
               finding |-> r.finding, audit |-> r.audit]
      BY <1>1 DEF ResultOK
    <3> HIDE DEF r
    <3>2. Advised(r, advisory) = [r EXCEPT !.outcome = "quarantine", !.codes = codes]
      BY <2>1 DEF codes
    <3> QED
      BY <3>1, <3>2
  <2> QED
    BY <2>3, <2>4 DEF ShowsReason, ClearCodes
<1> QED
  BY <1>2, <1>3

LEMMA HandedOnStep ==
  EngineInv /\ VerdictInv /\ ReasonInv /\ HandedOnInv /\ [VerdictNext]_allVars
    => HandedOnInv'
<1> SUFFICES ASSUME EngineInv, VerdictInv, ReasonInv, HandedOnInv,
                    [VerdictNext]_allVars
             PROVE  HandedOnInv'
  OBVIOUS
<1>1. CASE RunPolicy
  <2>1. result = Unscreened /\ request = NoRequest
    BY <1>1 DEF RunPolicy, Screening, HandedOnInv
  <2>2. result' = result /\ request' = request
    BY <1>1 DEF RunPolicy, Screening
  <2> QED
    BY <2>1, <2>2 DEF HandedOnInv, Unscreened, NoRequest, Sent
<1>2. CASE LeadStands \/ StageFails \/ EndScreen
  <2>1. /\ result = Unscreened /\ request = NoRequest /\ request' = request
        /\ UNCHANGED <<selected, evidence>>
    BY <1>2 DEF LeadStands, StageFails, EndScreen, Screening, vars, HandedOnInv
  <2>2. ASSUME result'.outcome = "quarantine",
               selected \/ Len(evidence) <= MaxEvidence
        PROVE  ShowsReason(result'.codes)
    <3>1. CASE LeadStands
      BY <2>2, <3>1, PreexecutionShows DEF LeadStands, EngineInv
    <3>2. CASE StageFails
      <4>1. result'.outcome \in {"retryable_infra", "deterministic_reject"}
        BY <3>2 DEF StageFails, Core
      <4> QED
        BY <2>2, <4>1
    <3>3. CASE EndScreen
      <4>1. /\ Core("retryable_infra", "image-upload-failed").outcome # "quarantine"
            /\ Core("deterministic_reject", "screened-image-too-large").outcome
                 # "quarantine"
            /\ Unexpected.outcome # "quarantine"
        BY DEF Core, Unexpected
      <4>2. decision # Undecided
            /\ \E advisory \in BOOLEAN :
                 result' = Advised(Deferred(Evaluated), advisory)
        BY <2>2, <3>3, <4>1 DEF EndScreen
      <4> QED
        BY <2>2, <4>2, AmendedShows
    <3> QED
      BY <1>2, <3>1, <3>2, <3>3
  <2>3. request' = NoRequest /\ ~Sent'
    BY <2>1 DEF Sent
  <2> QED
    BY <2>1, <2>2, <2>3 DEF HandedOnInv
<1>3. CASE Report
  <2>1. /\ result # Unscreened /\ request' \in {Refused, Request}
        /\ UNCHANGED <<selected, evidence, result>>
    BY <1>3 DEF Report, vars
  <2>2. /\ Request.outcome = result.outcome
        /\ result.outcome = "quarantine" => Request.evidence = result.codes
    BY DEF Request, AuditedOutcomes
  <2> QED
    BY <2>1, <2>2 DEF HandedOnInv, Sent
<1>4. CASE UNCHANGED allVars
  <2>1. UNCHANGED <<selected, evidence, result, request>>
    BY <1>4 DEF allVars, vars, verdictVars
  <2> QED
    BY <2>1 DEF HandedOnInv, Sent
<1> QED
  BY <1>1, <1>2, <1>3, <1>4 DEF VerdictNext

(* The evidence of a hold shows what it is for: a lead, whatever was cut   *)
(* off behind it, and what a challenge found, unless more was collected    *)
(* than is kept; for every manifest, pack, review and bound on evidence.   *)
THEOREM HoldShowsItsReasonHolds == VerdictSpec => []HoldShowsItsReason
<1>1. VerdictInit => VerdictInv /\ ReasonInv /\ HandedOnInv
  <2> SUFFICES ASSUME VerdictInit PROVE ReasonInv /\ HandedOnInv
    BY VerdictInvInit
  <2>1. /\ selected = FALSE /\ evidence = <<>> /\ decision = Undecided
        /\ result = Unscreened /\ request = NoRequest
    BY DEF VerdictInit, Init
  <2> QED
    BY <2>1 DEF ReasonInv, Reasons, HandedOnInv, Sent, Undecided, Unscreened
<1>2. EngineInv /\ VerdictInv /\ ReasonInv /\ HandedOnInv /\ [VerdictNext]_allVars
        => VerdictInv' /\ ReasonInv' /\ HandedOnInv'
  <2>1. [VerdictNext]_allVars => [Next]_vars
    BY VerdictKeepsEngine DEF allVars
  <2> QED
    BY <2>1, ReasonStep, VerdictInvStep, HandedOnStep
<1>3. HandedOnInv => HoldShowsItsReason
  BY DEF HandedOnInv, HoldShowsItsReason, ShowsReason
<1> QED
  BY <1>1, <1>2, <1>3, EngineHolds, PTL DEF VerdictSpec
=============================================================================
