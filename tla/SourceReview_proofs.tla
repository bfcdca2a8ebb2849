------------------------ MODULE SourceReview_proofs ------------------------
(* What an L1 review promises, for every number of turns, budget, output,  *)
(* lease, and every review a model may submit.                             *)
EXTENDS SourceReview, WellFoundedInduction, TLAPS

-----------------------------------------------------------------------------
(* The filter of citations                                                 *)

(* A consistent review that stays elevated has, for each category that is  *)
(* left, a citation of its own that survived.                              *)
LEMMA FilterGrounds ==
  ASSUME NEW review, Consistent(review), Elevated(Filtered(review).risk),
         NEW k \in Filtered(review).categories
  PROVE  \E c \in Filtered(review).evidence \cap review.evidence :
           c.category = k /\ c.place \in Existing \cap Executable
<1>1. CASE Admitted(review) = Cited(review)
  <2>1. Filtered(review) = Finding(review.risk, review.categories, Cited(review))
    BY <1>1 DEF Filtered
  <2>2. Elevated(review.risk) /\ k \in review.categories
    BY <2>1 DEF Finding
  <2> PICK c \in Under(Cited(review), k) : TRUE
    BY <2>2 DEF Consistent
  <2>3. c \in Cited(review) /\ c \in Admitted(review) /\ c.category = k
    BY <1>1 DEF Under
  <2> QED
    BY <2>1, <2>3 DEF Finding, Cited, Admitted
<1>2. CASE Admitted(review) # Cited(review)
  <2> DEFINE left == {c \in Admitted(review) : c.category \in Surviving(review)}
  <2>1. /\ Filtered(review) = Finding(review.risk, Surviving(review), left)
        /\ Surviving(review) # {}
    BY <1>2 DEF Filtered, Finding, Elevated
  <2>2. k \in Surviving(review)
    BY <2>1 DEF Finding
  <2> PICK c \in Under(Admitted(review), k) : TRUE
    BY <2>2 DEF Surviving
  <2>3. c \in Admitted(review) /\ c.category = k /\ c \in left
    BY <2>2 DEF Under
  <2> QED
    BY <2>1, <2>3 DEF Finding, Cited, Admitted
<1> QED
  BY <1>1, <1>2

(* The filter lowers an elevated risk only when no claim is left.          *)
LEMMA FilterKeepsLiveClaims ==
  ASSUME NEW review, Elevated(review.risk), Filtered(review).risk = "low",
         NEW c \in review.evidence, c.category \in review.categories
  PROVE  c.place \notin Existing \cap Executable
<1>1. SUFFICES ASSUME c.place \in Existing \cap Executable PROVE FALSE
  OBVIOUS
<1>2. c \in Under(Admitted(review), c.category)
  BY <1>1 DEF Under, Admitted, Cited
<1>3. Surviving(review) # {}
  BY <1>2 DEF Surviving
<1>4. Filtered(review).risk = review.risk
  BY <1>3 DEF Filtered, Finding
<1> QED
  BY <1>4 DEF Elevated

(* What the filter returns is a finding.                                   *)
LEMMA FilterType ==
  ASSUME NEW review \in SubmittedReviews
  PROVE  Filtered(review) \in [risk : Risks \cup {"none"},
                               categories : SUBSET Claims,
                               evidence : SUBSET Citations]
<1>1. /\ review.risk \in Risks /\ review.categories \subseteq Claims
      /\ review.evidence \subseteq Citations
  BY DEF SubmittedReviews
<1>2. /\ Cited(review) \subseteq Citations /\ Admitted(review) \subseteq Citations
      /\ Surviving(review) \subseteq Claims
  BY <1>1 DEF Cited, Admitted, Surviving
<1>3. \E r \in Risks, ks \in SUBSET Claims, es \in SUBSET Citations :
        Filtered(review) = Finding(r, ks, es)
  <2>1. "low" \in Risks /\ {"none"} \subseteq Claims
    BY DEF Risks, Claims
  <2> DEFINE left == {c \in Admitted(review) : c.category \in Surviving(review)}
  <2>2. left \in SUBSET Citations
    BY <1>2
  <2>3. \/ Filtered(review) = Finding(review.risk, review.categories, Cited(review))
        \/ Filtered(review) = Finding("low", {"none"}, {})
        \/ Filtered(review) = Finding(review.risk, review.categories, left)
        \/ Filtered(review) = Finding(review.risk, Surviving(review), left)
    BY DEF Filtered
  <2> HIDE DEF left
  <2> QED
    BY <1>1, <1>2, <2>1, <2>2, <2>3
<1> QED
  BY <1>3 DEF Finding
-----------------------------------------------------------------------------
(* The loop                                                                *)

(* Before the end nothing is decided, and the model was shown what was     *)
(* delivered; the end keeps what it was decided by.                        *)
ShownInv ==
  /\ shown <= ReadBudget
  /\ pc # "ended" => delivered = shown /\ submitted = NoFinding
                     /\ observation = Unfinished

EndInv ==
  pc = "ended" =>
    /\ delivered > ReadBudget => observation.failure = "pass_inconclusive"
    /\ observation.failure = "pass_inconclusive"
         => /\ observation.bytes = delivered /\ observation.steps = step
            /\ observation.steps = MaxSteps \/ observation.bytes > ReadBudget
    /\ observation.ok => /\ Consistent(submitted)
                         /\ observation.finding = Filtered(submitted)

PostInv == pc = "post" => attempt # 0

Inv == TypeOK /\ ShownInv /\ EndInv /\ PostInv

LEMMA NoFindingType ==
  /\ NoFinding \in [risk : Risks \cup {"none"}, categories : SUBSET Claims,
                    evidence : SUBSET Citations]
  /\ Unfinished \in Observations
  /\ Failed("retryable_infra") \in Observations
<1>1. NoFinding \in [risk : Risks \cup {"none"}, categories : SUBSET Claims,
                     evidence : SUBSET Citations]
  BY DEF NoFinding, Finding
<1>2. Unfinished \in Observations
  BY <1>1, ReviewAssumption DEF Unfinished, Observations
<1> QED
  BY <1>1, <1>2 DEF Failed, Observations

LEMMA Initially == Init => Inv
<1> SUFFICES ASSUME Init PROVE Inv
  OBVIOUS
<1>1. /\ Len(Delays) \in Nat /\ MaxSteps \in Nat /\ Timeout \in Nat
      /\ MaxCalls \in Nat /\ ReadBudget \in Nat
  BY ReviewAssumption
<1>2. /\ deadline \in Deadlines /\ now = 0 /\ pc = "start"
      /\ step = 0 /\ attempt = 0 /\ limit = 0 /\ operations = 0 /\ pending = 0
      /\ delivered = 0 /\ shown = 0 /\ inspections = 0 /\ runtimeRead = FALSE
      /\ submitted = NoFinding /\ observation = Unfinished
  BY DEF Init
<1>3. observation \in Observations
  BY <1>2, NoFindingType
<1>4. TypeOK
  <2>1. /\ deadline \in Deadlines /\ now \in Nat
        /\ pc \in {"start", "turn", "post", "calls", "ended", "raised"}
        /\ step \in 0..MaxSteps /\ limit \in 0..Timeout /\ operations \in Nat
        /\ pending \in 0..MaxCalls
    BY <1>1, <1>2
  <2>2. attempt \in 0..(Len(Delays) + 1)
    BY <1>1, <1>2
  <2>3. /\ delivered \in Nat /\ shown \in Nat /\ inspections \in Nat
        /\ runtimeRead \in BOOLEAN /\ submitted \in Submissions \cup {NoFinding}
    BY <1>2
  <2> QED
    BY <1>3, <2>1, <2>2, <2>3 DEF TypeOK
<1>5. ShownInv /\ EndInv /\ PostInv
  BY <1>1, <1>2 DEF ShownInv, EndInv, PostInv
<1> QED
  BY <1>4, <1>5 DEF Inv

(* A review that fails decides nothing about the submission.               *)
LEMMA FailsStep ==
  ASSUME Inv, pc # "ended", now' \in Nat, operations' \in Nat,
         pc' = "ended", observation' = Failed("retryable_infra"),
         UNCHANGED <<deadline, step, attempt, limit, pending, reads, submitted>>
  PROVE  Inv'
<1>1. UNCHANGED <<deadline, step, attempt, limit, pending, delivered, shown,
                  inspections, runtimeRead, submitted>>
  BY DEF reads
<1>2. /\ observation' \in Observations
      /\ observation'.failure = "retryable_infra" /\ ~observation'.ok
  BY <1>1, NoFindingType DEF Failed, Unfinished
<1>3. delivered <= ReadBudget
  BY DEF Inv, ShownInv
<1>4. TypeOK'
  BY <1>1, <1>2 DEF Inv, TypeOK
<1>5. ShownInv' /\ EndInv' /\ PostInv'
  BY <1>1, <1>2, <1>3, ReviewAssumption DEF Inv, TypeOK, ShownInv, EndInv, PostInv
<1> QED
  BY <1>4, <1>5 DEF Inv

LEMMA FailsNow ==
  ASSUME Inv, pc # "ended", now' = now, Fails
  PROVE  Inv'
<1>1. now' \in Nat /\ operations' \in Nat
  BY DEF Inv, TypeOK, Fails, End, loop
<1> QED
  BY <1>1, FailsStep DEF Fails, End, loop

(* A review that is exhausted says by what.                                *)
LEMMA ExhaustedStep ==
  ASSUME Inv, pc # "ended", now' = now, shown' = shown,
         delivered' \in Nat, inspections' \in Nat, runtimeRead' \in BOOLEAN,
         submitted' = submitted, Exhausted(delivered'),
         step = MaxSteps \/ delivered' > ReadBudget
  PROVE  Inv'
<1> DEFINE ended == [Failed("pass_inconclusive")
                       EXCEPT !.steps = step, !.bytes = delivered']
<1>1. /\ pc' = "ended" /\ observation' = ended
      /\ UNCHANGED <<deadline, step, attempt, limit, operations, pending>>
  BY DEF Exhausted, End, loop
<1>2. /\ Failed("pass_inconclusive") \in Observations
      /\ Failed("pass_inconclusive").failure = "pass_inconclusive"
      /\ ~Failed("pass_inconclusive").ok
  BY NoFindingType DEF Failed, Observations, Unfinished
<1>3. /\ ended \in Observations
      /\ ended.failure = "pass_inconclusive" /\ ~ended.ok
      /\ ended.steps = step /\ ended.bytes = delivered'
  <2> DEFINE failed == Failed("pass_inconclusive")
  <2>1. failed \in Observations /\ step \in 0..MaxSteps
    BY <1>2 DEF Inv, TypeOK
  <2>2. failed.failure = "pass_inconclusive" /\ ~failed.ok
    BY <1>2
  <2> HIDE DEF failed
  <2>3. [[failed EXCEPT !.steps = step] EXCEPT !.bytes = delivered'] = ended
    BY DEF failed
  <2> QED
    BY <2>1, <2>2, <2>3 DEF Observations
<1> HIDE DEF ended
<1>4. TypeOK'
  BY <1>1, <1>3 DEF Inv, TypeOK
<1>5. ShownInv' /\ EndInv' /\ PostInv'
  BY <1>1, <1>3 DEF Inv, ShownInv, EndInv, PostInv
<1> QED
  BY <1>4, <1>5 DEF Inv

LEMMA SubmitStep ==
  ASSUME Inv, NEW review \in Submissions, Submit(review)
  PROVE  Inv'
<1>1. /\ pc = "calls" /\ submitted' = review /\ pc' = "ended"
      /\ UNCHANGED <<deadline, now, step, attempt, limit, operations, pending,
                     delivered, shown, inspections, runtimeRead>>
      /\ observation' =
           IF Consistent(review)
           THEN [Unfinished EXCEPT
                   !.ok = TRUE, !.finding = Filtered(review),
                   !.certified = (Filtered(review).risk # "low" \/ Certified)]
           ELSE Failed("retryable_infra")
  BY DEF Submit, End, loop, reads
<1>2. review \in SubmittedReviews /\ shown <= ReadBudget /\ delivered = shown
  BY <1>1, ReviewAssumption DEF Inv, ShownInv
<1>3. CASE Consistent(review)
  <2> DEFINE seen == Filtered(review).risk # "low" \/ Certified
  <2>1. observation' = [Unfinished EXCEPT !.ok = TRUE, !.certified = seen,
                                          !.finding = Filtered(review)]
    BY <1>1, <1>3
  <2>2. seen \in BOOLEAN
    OBVIOUS
  <2> HIDE DEF seen
  <2>3. /\ observation' \in Observations
        /\ observation'.finding = Filtered(review)
        /\ observation'.failure = "-"
    <3>1. Unfinished.failure = "-"
      BY DEF Unfinished
    <3> QED
      BY <1>2, <2>1, <2>2, <3>1, FilterType, NoFindingType DEF Observations
  <2>4. TypeOK'
    BY <1>1, <2>3 DEF Inv, TypeOK
  <2>5. ShownInv' /\ EndInv' /\ PostInv'
    BY <1>1, <1>2, <1>3, <2>3, ReviewAssumption DEF Inv, TypeOK, ShownInv, EndInv, PostInv
  <2> QED
    BY <2>4, <2>5 DEF Inv
<1>4. CASE ~Consistent(review)
  <2>1. /\ observation' \in Observations
        /\ observation'.failure = "retryable_infra" /\ ~observation'.ok
    BY <1>1, <1>4, NoFindingType DEF Failed, Unfinished
  <2>2. TypeOK'
    BY <1>1, <2>1 DEF Inv, TypeOK
  <2>3. ShownInv' /\ EndInv' /\ PostInv'
    BY <1>1, <1>2, <2>1, ReviewAssumption DEF Inv, TypeOK, ShownInv, EndInv, PostInv
  <2> QED
    BY <2>2, <2>3 DEF Inv
<1> QED
  BY <1>3, <1>4

LEMMA InspectStep ==
  ASSUME Inv, NEW bytes \in Outputs, NEW runtime \in BOOLEAN,
         Inspect(bytes, runtime)
  PROVE  Inv'
<1>1. /\ pc = "calls" /\ pending > 0 /\ now' = now
      /\ inspections' = inspections + 1
      /\ runtimeRead' = (runtimeRead \/ runtime)
      /\ delivered' = delivered + bytes
  BY DEF Inspect
<1>2. /\ delivered' \in Nat /\ inspections' \in Nat /\ runtimeRead' \in BOOLEAN
  <2>1. bytes \in Nat
    BY ReviewAssumption
  <2> QED
    BY <1>1, <2>1 DEF Inv, TypeOK
<1>3. CASE delivered' > ReadBudget
  <2>1. Exhausted(delivered') /\ shown' = shown /\ submitted' = submitted
    BY <1>3 DEF Inspect
  <2> QED
    BY <1>1, <1>2, <1>3, <2>1, ExhaustedStep
<1>4. CASE ~(delivered' > ReadBudget)
  <2>1. /\ shown' = delivered' /\ pending' = pending - 1 /\ pc' = "calls"
        /\ UNCHANGED <<step, attempt, limit, operations, deadline, submitted,
                       observation>>
    BY <1>4 DEF Inspect, Goto
  <2>2. TypeOK'
    BY <1>1, <1>2, <2>1, ReviewAssumption DEF Inv, TypeOK
  <2>3. ShownInv' /\ EndInv' /\ PostInv'
    BY <1>1, <1>2, <1>4, <2>1, ReviewAssumption DEF Inv, ShownInv, EndInv, PostInv
  <2> QED
    BY <2>2, <2>3 DEF Inv
<1> QED
  BY <1>3, <1>4

(* A step within the loop neither shows nor decides anything.              *)
LoopStep(point) ==
  /\ pc # "ended" /\ pc' = point /\ point # "ended"
  /\ UNCHANGED <<deadline, delivered, shown, inspections, runtimeRead, submitted,
                 observation>>

LEMMA LoopKeeps ==
  ASSUME Inv, NEW point \in {"start", "turn", "post", "calls", "raised"},
         LoopStep(point), now' \in Nat, step' \in 0..MaxSteps,
         attempt' \in 0..(Len(Delays) + 1), limit' \in 0..Timeout,
         operations' \in Nat,
         pending' \in 0..MaxCalls, point = "post" => attempt' # 0
  PROVE  Inv'
<1>1. TypeOK'
  BY DEF LoopStep, Inv, TypeOK
<1>2. ShownInv' /\ EndInv' /\ PostInv'
  BY DEF LoopStep, Inv, ShownInv, EndInv, PostInv
<1> QED
  BY <1>1, <1>2 DEF Inv

(* A wait ends at a time.                                                  *)
LEMMA WaitEnds ==
  ASSUME TypeOK, NEW n \in 1..MaxOperations, NEW end \in RequestEnds(n)
  PROVE  end \in Nat /\ n \in Nat /\ operations + n \in Nat
<1>1. /\ now \in Nat /\ limit \in Nat /\ n \in Nat /\ operations \in Nat
  BY ReviewAssumption DEF TypeOK
<1>2. n * limit \in Nat
  BY <1>1
<1> QED
  BY <1>1, <1>2 DEF RequestEnds, Until

LEMMA TurnLimitType ==
  ASSUME TypeOK, ~LeaseOver
  PROVE  TurnLimit \in 0..Timeout
<1>1. /\ now \in Nat /\ Timeout \in Nat \ {0}
      /\ Leased => deadline \in Nat /\ now < deadline
  BY ReviewAssumption DEF TypeOK, Leased, LeaseOver
<1> QED
  BY <1>1 DEF TurnLimit, Least

LEMMA Step == Inv /\ [Next]_vars => Inv'
<1> SUFFICES ASSUME Inv, [Next]_vars PROVE Inv'
  OBVIOUS
<1>0. /\ now \in Nat /\ step \in 0..MaxSteps /\ MaxSteps \in Nat \ {0}
      /\ attempt \in 0..(Len(Delays) + 1) /\ Len(Delays) \in Nat
      /\ limit \in 0..Timeout /\ operations \in Nat
      /\ pending \in 0..MaxCalls /\ MaxCalls \in Nat \ {0}
      /\ Timeout \in Nat \ {0} /\ TypeOK
  BY ReviewAssumption DEF Inv, TypeOK
<1>1. CASE Prepare
  <2>1. CASE Goto("turn") /\ UNCHANGED <<loop, reads>>
    BY <1>0, <1>1, <2>1, LoopKeeps DEF Prepare, Goto, LoopStep, loop, reads
  <2>2. CASE Fails
    BY <1>0, <1>1, <2>2, FailsNow DEF Prepare
  <2> QED
    BY <1>1, <2>1, <2>2 DEF Prepare
<1>2. CASE BeginTurn
  <2>1. limit' \in 0..Timeout
    BY <1>0, <1>2, TurnLimitType DEF BeginTurn
  <2>2. LoopStep("post")
    BY <1>2 DEF BeginTurn, Goto, LoopStep, reads
  <2>3. now' = now /\ step' = step + 1 /\ step < MaxSteps /\ attempt' = 1
        /\ pending' = pending /\ operations' = 0
    BY <1>2 DEF BeginTurn
  <2> QED
    BY <1>0, <2>1, <2>2, <2>3, LoopKeeps
<1>3. CASE LeaseEndsReview
  BY <1>0, <1>3, FailsNow DEF LeaseEndsReview
<1>4. CASE StepsExhausted
  <2>1. /\ pc # "ended" /\ now' = now /\ step = MaxSteps /\ submitted' = submitted
        /\ UNCHANGED <<delivered, shown, inspections, runtimeRead>>
        /\ Exhausted(delivered)
    BY <1>4 DEF StepsExhausted, reads
  <2>2. Exhausted(delivered')
    BY <2>1
  <2> QED
    BY <1>0, <2>1, <2>2, ExhaustedStep DEF TypeOK
<1>5. CASE \E n \in 1..MaxOperations : RequestRetried(n)
  <2> PICK n \in 1..MaxOperations : RequestRetried(n)
    BY <1>5
  <2>1. /\ attempt <= Len(Delays) /\ attempt' = attempt + 1
        /\ operations' = operations + n
        /\ UNCHANGED <<step, limit, pending>>
        /\ LoopStep("post")
    BY DEF RequestRetried, Goto, LoopStep, reads
  <2>2. now' \in Nat /\ operations' \in Nat
    <3> PICK end \in RequestEnds(n) :
               now' = IF Leased THEN end + Delays[attempt] ELSE now
      BY DEF RequestRetried
    <3>1. end \in Nat /\ operations + n \in Nat
      BY <1>0, WaitEnds
    <3>2. Delays[attempt] \in Nat
      <4>1. attempt # 0
        BY DEF RequestRetried, Inv, PostInv
      <4> QED
        BY <1>0, <2>1, <4>1, ReviewAssumption
    <3> QED
      BY <1>0, <2>1, <3>1, <3>2
  <2> QED
    BY <1>0, <2>1, <2>2, LoopKeeps
<1>6. CASE \E n \in 1..MaxOperations : RequestFails(n)
  <2> PICK n \in 1..MaxOperations : RequestFails(n)
    BY <1>6
  <2>1. now' \in Nat /\ operations' \in Nat
    BY <1>0, WaitEnds DEF RequestFails
  <2> QED
    BY <2>1, FailsStep DEF RequestFails
<1>7. CASE \E n \in 1..MaxOperations : Responds(n)
  <2> PICK n \in 1..MaxOperations : Responds(n)
    BY <1>7
  <2>1. /\ pending' \in 1..MaxCalls /\ now' \in RequestEnds(n)
        /\ operations' = operations + n
        /\ UNCHANGED <<step, attempt, limit>>
        /\ LoopStep("calls")
    BY DEF Responds, Goto, LoopStep, reads
  <2>2. now' \in Nat /\ operations' \in Nat
    BY <1>0, <2>1, WaitEnds
  <2> QED
    BY <1>0, <2>1, <2>2, LoopKeeps
<1>8. CASE CallInvalid
  BY <1>0, <1>8, FailsNow DEF CallInvalid
<1>9. CASE SubmissionUnhashable
  BY <1>0, <1>9, LoopKeeps
     DEF SubmissionUnhashable, Escapes, LoopStep, loop, reads
<1>10. CASE \E bytes \in Outputs, runtime \in BOOLEAN : Inspect(bytes, runtime)
  BY <1>10, InspectStep
<1>11. CASE \E review \in Submissions : Submit(review)
  BY <1>11, SubmitStep
<1>12. CASE TurnEnds
  BY <1>0, <1>12, LoopKeeps DEF TurnEnds, Goto, LoopStep, loop, reads
<1>13. CASE UNCHANGED vars
  BY <1>13 DEF vars, loop, reads, Inv, TypeOK, ShownInv, EndInv, PostInv
<1> QED
  BY <1>1, <1>2, <1>3, <1>4, <1>5, <1>6, <1>7, <1>8, <1>9, <1>10, <1>11, <1>12,
     <1>13 DEF Next

LEMMA InvHolds == Spec => []Inv
BY Initially, Step, PTL DEF Spec

-----------------------------------------------------------------------------
(* The times, counts and findings of a review keep their types.            *)
THEOREM TypeCorrect == Spec => []TypeOK
<1>1. Inv => TypeOK
  BY DEF Inv
<1> QED
  BY <1>1, InvHolds, PTL

(* The model is never sent more than the budget, and an exhausted review   *)
(* is deferred with an audit of the bound it reached.                      *)
THEOREM ExhaustionIsExactHolds == Spec => []ExhaustionIsExact
<1>1. Inv => ExhaustionIsExact
  BY DEF Inv, ShownInv, EndInv, ExhaustionIsExact, Unfinished
<1> QED
  BY <1>1, InvHolds, PTL

(* Every category of an elevated finding has a citation, made by the       *)
(* model, of an existing line that can execute.                            *)
THEOREM FindingIsGroundedHolds == Spec => []FindingIsGrounded
<1>1. Inv => FindingIsGrounded
  <2> SUFFICES ASSUME Inv, observation.ok, Elevated(observation.finding.risk),
                      NEW k \in observation.finding.categories
               PROVE  \E c \in observation.finding.evidence \cap submitted.evidence :
                        c.category = k /\ c.place \in Existing \cap Executable
    BY DEF FindingIsGrounded
  <2>1. pc = "ended"
    BY DEF Inv, ShownInv, Unfinished
  <2>2. Consistent(submitted) /\ observation.finding = Filtered(submitted)
    BY <2>1 DEF Inv, EndInv
  <2> QED
    BY <2>2, FilterGrounds
<1> QED
  BY <1>1, InvHolds, PTL

(* A review that cited an executable line for a category it raised stays   *)
(* elevated, however many of its other citations were dropped.             *)
THEOREM LiveClaimIsNeverClearedHolds == Spec => []LiveClaimIsNeverCleared
<1>1. Inv => LiveClaimIsNeverCleared
  <2> SUFFICES ASSUME Inv, observation.ok, observation.finding.risk = "low",
                      Elevated(submitted.risk),
                      NEW c \in submitted.evidence,
                      c.category \in submitted.categories
               PROVE  c.place \notin Existing \cap Executable
    BY DEF LiveClaimIsNeverCleared
  <2>1. pc = "ended"
    BY DEF Inv, ShownInv, Unfinished
  <2>2. observation.finding = Filtered(submitted)
    BY <2>1 DEF Inv, EndInv
  <2> QED
    BY <2>2, FilterKeepsLiveClaims
<1> QED
  BY <1>1, InvHolds, PTL
-----------------------------------------------------------------------------
(* The delays of a turn.  What a recursive function is worth is shown by   *)
(* its least counterexample, a number, so that nothing is instantiated.    *)

LEMMA LeastNumber ==
  ASSUME NEW S \in SUBSET Nat, S # {}
  PROVE  \E n \in S : \A m \in S : n <= m
<1>1. IsWellFoundedOn(OpToRel(<, Nat), Nat)
  BY NatLessThanWellFounded
<1>2. PICK n \in S : \A m \in S : <<m, n>> \notin OpToRel(<, Nat)
  BY <1>1, WFMin
<1>3. ASSUME NEW m \in S PROVE n <= m
  <2>1. ~(m < n)
    BY <1>2 DEF OpToRel
  <2> QED
    BY <2>1
<1> QED
  BY <1>3

(* f is Waits as far as its first k delays.                                *)
WaitsTo(k, f) ==
  f = [n \in 0..k |-> IF n = 0 THEN 0 ELSE f[n - 1] + Delays[n]]

LEMMA WaitsExist ==
  ASSUME NEW k \in 0..Len(Delays)
  PROVE  \E f : WaitsTo(k, f)
<1> DEFINE Without == {m \in Nat : m <= Len(Delays) /\ ~\E f : WaitsTo(m, f)}
<1>0. Len(Delays) \in Nat
  BY ReviewAssumption
<1>1. SUFFICES Without = {}
  BY <1>0
<1>2. SUFFICES ASSUME Without # {} PROVE FALSE
  OBVIOUS
<1>3. PICK m \in Without : \A i \in Without : m <= i
  <2>1. Without \in SUBSET Nat
    OBVIOUS
  <2> HIDE DEF Without
  <2> QED
    BY <1>2, <2>1, LeastNumber
<1>4. m \in Nat /\ m <= Len(Delays) /\ ~\E f : WaitsTo(m, f)
  OBVIOUS
<1>5. CASE m = 0
  <2> DEFINE f == [n \in 0..0 |-> 0]
  <2>1. f = [n \in 0..0 |-> IF n = 0 THEN 0 ELSE f[n - 1] + Delays[n]]
    OBVIOUS
  <2> QED
    BY <1>4, <1>5, <2>1 DEF WaitsTo
<1>6. CASE m # 0
  <2>1. m - 1 \in Nat /\ m - 1 \notin Without
    BY <1>3, <1>4, <1>6
  <2>2. PICK f : WaitsTo(m - 1, f)
    BY <1>0, <1>4, <2>1
  <2> DEFINE g == [n \in 0..m |-> IF n = m THEN f[m - 1] + Delays[m] ELSE f[n]]
             h == [n \in 0..m |-> IF n = 0 THEN 0 ELSE g[n - 1] + Delays[n]]
  <2>3. ASSUME NEW n \in 0..m PROVE g[n] = h[n]
    <3>1. CASE n = m
      <4>1. g[n] = f[m - 1] + Delays[m]
        BY <3>1
      <4>2. g[m - 1] = f[m - 1]
        BY <1>4, <1>6
      <4>3. h[n] = g[m - 1] + Delays[m]
        BY <1>6, <3>1
      <4> QED
        BY <4>1, <4>2, <4>3
    <3>2. CASE n # m
      <4>1. n \in 0..(m - 1) /\ g[n] = f[n]
        BY <1>4, <3>2
      <4>2. f[n] = IF n = 0 THEN 0 ELSE f[n - 1] + Delays[n]
        BY <2>2, <4>1 DEF WaitsTo
      <4>3. n # 0 => g[n - 1] = f[n - 1]
        BY <1>4, <4>1
      <4>4. h[n] = IF n = 0 THEN 0 ELSE g[n - 1] + Delays[n]
        OBVIOUS
      <4> HIDE DEF g, h
      <4> QED
        BY <4>1, <4>2, <4>3, <4>4
    <3> QED
      BY <3>1, <3>2
  <2>4. g = h
    BY <2>3
  <2>5. WaitsTo(m, g)
    BY <2>4 DEF WaitsTo
  <2> QED
    BY <1>4, <2>5
<1> QED
  BY <1>5, <1>6

LEMMA WaitsUnfold ==
  ASSUME NEW n \in 0..Len(Delays)
  PROVE  Waits[n] = IF n = 0 THEN 0 ELSE Waits[n - 1] + Delays[n]
<1>1. Len(Delays) \in 0..Len(Delays)
  BY ReviewAssumption
<1>2. \E f : WaitsTo(Len(Delays), f)
  BY <1>1, WaitsExist
<1>3. WaitsTo(Len(Delays), Waits)
  BY <1>2 DEF Waits, WaitsTo
<1> HIDE DEF Waits
<1> QED
  BY <1>3 DEF WaitsTo

LEMMA WaitsType ==
  ASSUME NEW n \in 0..Len(Delays)
  PROVE  Waits[n] \in Nat
<1> DEFINE Wrong == {m \in Nat : m <= Len(Delays) /\ Waits[m] \notin Nat}
<1>0. Len(Delays) \in Nat
  BY ReviewAssumption
<1>1. SUFFICES ASSUME Wrong # {} PROVE FALSE
  BY <1>0
<1>2. PICK m \in Wrong : \A i \in Wrong : m <= i
  <2>1. Wrong \in SUBSET Nat
    OBVIOUS
  <2> HIDE DEF Wrong
  <2> QED
    BY <1>1, <2>1, LeastNumber
<1>3. m \in 0..Len(Delays) /\ Waits[m] \notin Nat
  BY <1>0
<1>4. Waits[m] = IF m = 0 THEN 0 ELSE Waits[m - 1] + Delays[m]
  BY <1>3, WaitsUnfold
<1>5. CASE m # 0
  <2>1. m - 1 \in Nat /\ m - 1 <= Len(Delays) /\ m - 1 \notin Wrong
    BY <1>0, <1>2, <1>3, <1>5
  <2>2. Waits[m - 1] \in Nat /\ Delays[m] \in Nat
    BY <1>0, <1>3, <1>5, <2>1, ReviewAssumption
  <2> QED
    BY <1>3, <1>4, <1>5, <2>2
<1> QED
  BY <1>3, <1>4, <1>5

-----------------------------------------------------------------------------
(* The lease of a review                                                   *)

(* A turn begins with a limit that fits what is left of the lease.  Each   *)
(* operation of its requests takes that limit at most, and between two     *)
(* requests there is a delay; each request has operations of its own.      *)
LeaseInv ==
  /\ attempt = 0 => now = 0
  /\ attempt # 0 => operations >= attempt - 1
  /\ Leased /\ attempt # 0 =>
       now + limit <= deadline + operations * limit + Waits[attempt - 1]

OverrunIndInv == Inv /\ LeaseInv

LEMMA LeaseTypes ==
  ASSUME TypeOK
  PROVE  /\ now \in Nat /\ limit \in Nat /\ operations \in Nat
         /\ limit <= Timeout /\ Timeout \in Nat \ {0}
         /\ attempt \in 0..(Len(Delays) + 1) /\ Len(Delays) \in Nat
         /\ Leased => deadline \in Nat
         /\ attempt # 0 => /\ attempt - 1 \in 0..Len(Delays)
                           /\ Waits[attempt - 1] \in Nat
<1>1. /\ now \in Nat /\ limit \in Nat /\ operations \in Nat
      /\ limit <= Timeout /\ Timeout \in Nat \ {0}
      /\ attempt \in 0..(Len(Delays) + 1) /\ Len(Delays) \in Nat
      /\ Leased => deadline \in Nat
  BY ReviewAssumption DEF TypeOK, Leased
<1>2. attempt # 0 => attempt - 1 \in 0..Len(Delays)
  BY <1>1
<1> QED
  BY <1>1, <1>2, WaitsType

LEMMA LeaseInitially == Init => LeaseInv
BY DEF Init, LeaseInv

(* A step that takes no time and begins neither a turn nor a request.      *)
LEMMA TimelessKeepsLease ==
  ASSUME LeaseInv, UNCHANGED <<deadline, now, limit, attempt, operations>>
  PROVE  LeaseInv'
BY DEF LeaseInv, Leased

LEMMA BeginTurnKeepsLease ==
  ASSUME OverrunIndInv, BeginTurn
  PROVE  LeaseInv'
<1>1. /\ now' = now /\ deadline' = deadline /\ limit' = TurnLimit
      /\ attempt' = 1 /\ operations' = 0
  BY DEF BeginTurn, Goto
<1>2. ASSUME Leased
      PROVE  now + TurnLimit <= deadline + 0 * TurnLimit + Waits[1 - 1]
  <2>1. now \in Nat /\ deadline \in Nat /\ now < deadline /\ Len(Delays) \in Nat
        /\ Timeout \in Nat
    BY <1>2, LeaseTypes DEF OverrunIndInv, Inv, BeginTurn, LeaseOver
  <2>2. TurnLimit \in Nat /\ TurnLimit <= deadline - now
    BY <1>2, <2>1 DEF TurnLimit, Least
  <2>3. Waits[0] = 0
    BY <2>1, WaitsUnfold
  <2> QED
    BY <2>1, <2>2, <2>3
<1> QED
  BY <1>1, <1>2 DEF LeaseInv, Leased

(* A request of n operations that ends at end, under the lease.            *)
LEMMA RequestEndsInTime ==
  ASSUME OverrunIndInv, Leased, pc = "post", NEW n \in 1..MaxOperations,
         NEW end \in RequestEnds(n)
  PROVE  /\ end \in Nat
         /\ end + limit <= deadline + (operations + n) * limit + Waits[attempt - 1]
<1>1. /\ now \in Nat /\ limit \in Nat /\ operations \in Nat /\ deadline \in Nat
      /\ attempt # 0 /\ Waits[attempt - 1] \in Nat /\ n \in Nat
  BY LeaseTypes, ReviewAssumption DEF OverrunIndInv, Inv, PostInv
<1>2. end \in Nat /\ end <= now + n * limit
  <2>1. n * limit \in Nat
    BY <1>1
  <2> QED
    BY <1>1, <2>1 DEF RequestEnds, Until
<1>3. now + limit <= deadline + operations * limit + Waits[attempt - 1]
  BY <1>1 DEF OverrunIndInv, LeaseInv
<1>4. /\ (operations + n) * limit = operations * limit + n * limit
      /\ operations * limit \in Nat /\ n * limit \in Nat
  BY <1>1
<1> QED
  BY <1>1, <1>2, <1>3, <1>4

(* A step that ends a request for good.                                    *)
LEMMA EndOfRequestKeepsLease ==
  ASSUME OverrunIndInv, pc = "post", NEW n \in 1..MaxOperations,
         now' \in RequestEnds(n), operations' = operations + n,
         UNCHANGED <<deadline, limit, attempt>>
  PROVE  LeaseInv'
<1>1. attempt # 0 /\ attempt \in Nat /\ operations \in Nat /\ n \in Nat
  BY LeaseTypes, ReviewAssumption DEF OverrunIndInv, Inv, PostInv
<1>2. operations' >= attempt - 1
  BY <1>1 DEF OverrunIndInv, LeaseInv
<1>3. Leased => now' + limit <= deadline + operations' * limit + Waits[attempt - 1]
  BY RequestEndsInTime
<1> QED
  BY <1>1, <1>2, <1>3 DEF LeaseInv, Leased

LEMMA RetryKeepsLease ==
  ASSUME OverrunIndInv, NEW n \in 1..MaxOperations, RequestRetried(n)
  PROVE  LeaseInv'
<1>1. /\ pc = "post" /\ attempt <= Len(Delays) /\ attempt' = attempt + 1
      /\ operations' = operations + n /\ deadline' = deadline /\ limit' = limit
  BY DEF RequestRetried, Goto
<1>2. /\ attempt \in 1..Len(Delays) /\ attempt # 0 /\ attempt \in Nat
      /\ operations \in Nat /\ n \in Nat /\ n >= 1
      /\ limit \in Nat /\ Waits[attempt - 1] \in Nat
  BY <1>1, LeaseTypes, ReviewAssumption DEF OverrunIndInv, Inv, PostInv
<1>3. attempt' # 0 /\ attempt' - 1 = attempt /\ operations' >= attempt' - 1
  BY <1>1, <1>2 DEF OverrunIndInv, LeaseInv
<1>4. ASSUME Leased
      PROVE  now' + limit <= deadline + operations' * limit + Waits[attempt]
  <2> PICK end \in RequestEnds(n) : now' = end + Delays[attempt]
    BY <1>4 DEF RequestRetried
  <2>1. /\ end \in Nat /\ deadline \in Nat
        /\ end + limit <= deadline + operations' * limit + Waits[attempt - 1]
    BY <1>1, <1>4, RequestEndsInTime, LeaseTypes DEF OverrunIndInv, Inv
  <2>2. Waits[attempt] = Waits[attempt - 1] + Delays[attempt] /\ Delays[attempt] \in Nat
    <3>1. attempt \in 0..Len(Delays)
      BY <1>2
    <3> QED
      BY <1>2, <3>1, WaitsUnfold, ReviewAssumption
  <2>3. operations' * limit \in Nat
    BY <1>1, <1>2
  <2> QED
    BY <1>2, <2>1, <2>2, <2>3
<1> QED
  BY <1>1, <1>3, <1>4 DEF LeaseInv, Leased

LEMMA LeaseStep == OverrunIndInv /\ [Next]_vars => LeaseInv'
<1> SUFFICES ASSUME OverrunIndInv, [Next]_vars PROVE LeaseInv'
  OBVIOUS
<1>0. LeaseInv
  BY DEF OverrunIndInv
<1>1. CASE BeginTurn
  BY <1>1, BeginTurnKeepsLease
<1>2. CASE \E n \in 1..MaxOperations : RequestRetried(n)
  BY <1>2, RetryKeepsLease
<1>3. CASE \E n \in 1..MaxOperations : RequestFails(n) \/ Responds(n)
  BY <1>3, EndOfRequestKeepsLease DEF RequestFails, Responds, Goto
<1>4. CASE Prepare \/ LeaseEndsReview \/ StepsExhausted
  BY <1>0, <1>4, TimelessKeepsLease
     DEF Prepare, LeaseEndsReview, StepsExhausted, Exhausted, Fails, End, Goto, loop
<1>5. CASE CallInvalid \/ SubmissionUnhashable \/ TurnEnds
  BY <1>0, <1>5, TimelessKeepsLease
     DEF CallInvalid, SubmissionUnhashable, TurnEnds, Fails, End, Escapes, Goto, loop
<1>6. CASE \E bytes \in Outputs, runtime \in BOOLEAN : Inspect(bytes, runtime)
  BY <1>0, <1>6, TimelessKeepsLease DEF Inspect, Exhausted, End, Goto, loop
<1>7. CASE \E review \in Submissions : Submit(review)
  BY <1>0, <1>7, TimelessKeepsLease DEF Submit, End, loop
<1>8. CASE UNCHANGED vars
  BY <1>0, <1>8, TimelessKeepsLease DEF vars, loop
<1> QED
  BY <1>1, <1>2, <1>3, <1>4, <1>5, <1>6, <1>7, <1>8 DEF Next

LEMMA OverrunIndInvHolds == Spec => []OverrunIndInv
<1>1. Init => OverrunIndInv
  BY Initially, LeaseInitially DEF OverrunIndInv
<1>2. OverrunIndInv /\ [Next]_vars => OverrunIndInv'
  BY Step, LeaseStep DEF OverrunIndInv
<1> QED
  BY <1>1, <1>2, PTL DEF Spec

(* An L1 review outlives its lease by the operations of the requests of one*)
(* turn, all but one of them, and the delays between them at most, for     *)
(* every number of retries, delays and operations.                         *)
THEOREM OverrunIsOneTurnHolds == Spec => []OverrunIsOneTurn
<1>1. OverrunIndInv => OverrunIsOneTurn
  <2> SUFFICES ASSUME OverrunIndInv, Leased, now > deadline
               PROVE  now <= deadline + (operations - 1) * Timeout + Waits[attempt - 1]
    BY DEF OverrunIsOneTurn
  <2>1. /\ now \in Nat /\ deadline \in Nat /\ limit \in Nat /\ operations \in Nat
        /\ limit <= Timeout /\ Timeout \in Nat /\ Len(Delays) \in Nat
        /\ attempt \in Nat
        /\ attempt # 0 => Waits[attempt - 1] \in Nat
    BY LeaseTypes DEF OverrunIndInv, Inv
  <2>2. attempt # 0 /\ operations >= attempt - 1
    BY <2>1 DEF OverrunIndInv, LeaseInv
  <2>3. now + limit <= deadline + operations * limit + Waits[attempt - 1]
    BY <2>2 DEF OverrunIndInv, LeaseInv
  <2>4. operations # 0
    <3>1. SUFFICES ASSUME operations = 0 PROVE FALSE
      OBVIOUS
    <3>2. attempt = 1 /\ operations * limit = 0
      BY <2>1, <2>2, <3>1
    <3>3. Waits[attempt - 1] = 0
      BY <2>1, <3>2, WaitsUnfold
    <3> QED
      BY <2>1, <2>3, <3>2, <3>3
  <2>5. PICK others \in Nat : operations = others + 1
    <3>1. operations - 1 \in Nat /\ operations = (operations - 1) + 1
      BY <2>1, <2>4
    <3> QED
      BY <3>1
  <2>6. PICK rest \in Nat : Timeout = limit + rest
    <3>1. Timeout - limit \in Nat /\ Timeout = limit + (Timeout - limit)
      BY <2>1
    <3> QED
      BY <3>1
  <2>7. /\ others * limit \in Nat /\ others * rest \in Nat
        /\ operations * limit = others * limit + limit
        /\ (operations - 1) * Timeout = others * limit + others * rest
    BY <2>1, <2>5, <2>6
  <2> QED
    BY <2>1, <2>2, <2>3, <2>7
<1> QED
  BY <1>1, OverrunIndInvHolds, PTL

-----------------------------------------------------------------------------
(* That a review ends                                                      *)

(* Where a turn is: asking, answered, over; and the end of the review.     *)
Phase(point) ==
  CASE point = "start" -> 0
    [] point = "post" -> 1
    [] point = "calls" -> 2
    [] point = "turn" -> 3
    [] point \in {"ended", "raised"} -> 4

SamePhase == step' = step /\ Phase(pc') = Phase(pc)

(* A step spends something that TypeOK bounds and that only spending more  *)
(* of what stands before it gives back: turns, the phases of a turn, the   *)
(* attempts of its request, the calls of its answer.                       *)
Advances ==
  \/ step' > step
  \/ step' = step /\ Phase(pc') > Phase(pc)
  \/ SamePhase /\ attempt' > attempt
  \/ SamePhase /\ attempt' = attempt /\ pending' < pending

AlwaysAdvances == [][Advances]_vars

LEMMA StepAdvances ==
  ASSUME Inv, Next
  PROVE  Advances
<1> USE DEF Advances, SamePhase, Phase
<1>1. step \in Nat /\ attempt \in Nat /\ pending \in Nat
  BY ReviewAssumption DEF Inv, TypeOK
<1>2. CASE Prepare \/ BeginTurn
  BY <1>1, <1>2 DEF Prepare, BeginTurn, Goto, Fails, End, loop
<1>3. CASE LeaseEndsReview \/ StepsExhausted
  BY <1>1, <1>3 DEF LeaseEndsReview, StepsExhausted, Fails, Exhausted, End, loop
<1>4. CASE \E n \in 1..MaxOperations :
             RequestRetried(n) \/ RequestFails(n) \/ Responds(n)
  BY <1>1, <1>4 DEF RequestRetried, RequestFails, Responds, Goto
<1>5. CASE CallInvalid \/ SubmissionUnhashable \/ TurnEnds
  BY <1>1, <1>5 DEF CallInvalid, SubmissionUnhashable, TurnEnds, Escapes, Goto,
                    Fails, End, loop
<1>6. CASE \E bytes \in Outputs, runtime \in BOOLEAN : Inspect(bytes, runtime)
  BY <1>1, <1>6 DEF Inspect, Exhausted, Goto, End, loop
<1>7. CASE \E review \in Submissions : Submit(review)
  BY <1>1, <1>7 DEF Submit, End, loop
<1> QED BY <1>2, <1>3, <1>4, <1>5, <1>6, <1>7 DEF Next

(* Neither an inspection without output nor a retry lets a review go on    *)
(* for free: every step spends a turn, a phase of it, an attempt or a call *)
(* of its answer, all bounded, so no L1 review goes on for ever, lease or  *)
(* not.                                                                    *)
THEOREM AlwaysAdvancesHolds == Spec => AlwaysAdvances
<1>1. Inv /\ [Next]_vars => [Advances]_vars
  BY StepAdvances
<1> QED BY <1>1, InvHolds, PTL DEF Spec, AlwaysAdvances
=============================================================================
