------------------------ MODULE ReviewTrajectory_proofs ------------------------
(***************************************************************************)
(* What holds of the turns of a review for all paths, usages, budgets,     *)
(* deadlines and delays.                                                   *)
(***************************************************************************)
EXTENDS ReviewTrajectory, TLAPS

(* A turn that may still send a request has an attempt left for it.        *)
LoopInv ==
  /\ path \in Paths /\ deadline \in Deadlines
  /\ stage \in 1..Len(path)
  /\ step \in 0..MaxSteps /\ calls \in 0..(2 * MaxSteps)
  /\ nudged \in BOOLEAN
  /\ attempt \in 0..(Len(Delays) + 1) /\ pending \in 0..MaxCalls
  /\ pc \in {"post", "backoff"} => attempt <= Len(Delays)
  /\ pc = "request" => attempt >= 1

(* The first operation of a call was cut to the deadline when the call     *)
(* began, and every other wait was cut to it as a whole.                   *)
ClockInv ==
  /\ now \in Nat /\ until \in Nat /\ operations \in 0..MaxOperations
  /\ now > deadline => now <= deadline + (operations - 1) * TurnTimeout
  /\ pc = "request" => until <= deadline + (operations - 1) * TurnTimeout
  /\ pc \in {"backoff", "analyzing"} => until <= deadline

(* What is held against the budget is what the answers have stated.        *)
UsageInv ==
  /\ before \in Usages /\ used \in Usages /\ total \in Usages /\ cost \in Nat
  /\ total = AddUsage(before, used)
  /\ SpendIsBounded

EndInv ==
  /\ pc \in {"turn", "post", "request", "backoff", "reply", "tools",
             "analyzing", "returned", "ended"}
  /\ outcome \in {"-", "result", "pass_inconclusive", "retryable_infra",
                  "inconclusive"}
  /\ audited \in Usages
  /\ pc # "ended" => outcome = "-"
  /\ AuditAddsUp

IInv == LoopInv /\ ClockInv /\ UsageInv /\ EndInv

-----------------------------------------------------------------------------
(* Usage is summed in any order of adding, and nothing adds nothing.       *)
LEMMA AddType ==
  ASSUME NEW a \in Usages, NEW b \in Usages
  PROVE  AddUsage(a, b) \in Usages
BY TrajectoryAssumption DEF AddUsage, Usages, OrZero

LEMMA AddAssociates ==
  ASSUME NEW a \in Usages, NEW b \in Usages, NEW c \in Usages
  PROVE  AddUsage(AddUsage(a, b), c) = AddUsage(a, AddUsage(b, c))
BY TrajectoryAssumption DEF AddUsage, Usages, OrZero

LEMMA AddNothing ==
  ASSUME NEW a \in Usages
  PROVE  NoUsage \in Usages /\ AddUsage(a, NoUsage) = a
BY TrajectoryAssumption DEF AddUsage, Usages, OrZero, NoUsage

LEMMA CostType ==
  ASSUME NEW a \in Usages
  PROVE  BillableCost(a) \in Nat /\ a.tokens \in Nat
BY TrajectoryAssumption DEF Usages, BillableCost

(* One more answer costs no more than it states.                           *)
LEMMA OneAnswerMore ==
  ASSUME NEW a \in Usages, NEW b \in Usages, RequireBudget(a)
  PROVE  /\ AddUsage(a, b).tokens <= MaxTokens + b.tokens
         /\ BillableCost(AddUsage(a, b)) <= MaxCost + BillableCost(b)
BY TrajectoryAssumption
   DEF AddUsage, Usages, OrZero, BillableCost, RequireBudget

LEMMA TurnsAreUsages == Turns \subseteq Usages
BY TrajectoryAssumption DEF Usages

LEMMA StepsType ==
  ASSUME path \in Paths, NEW i \in 1..Len(path)
  PROVE  path[i].steps \in Nat \ {0}
<1> DEFINE T == [role : Roles, steps : Nat \ {0}]
<1>1. path \in Seq(T)
  BY TrajectoryAssumption
<1>2. path[i] \in T
  <2> HIDE DEF T
  <2> QED BY <1>1
<1> QED BY <1>2

LEMMA PathStarts == ASSUME path \in Paths PROVE 1 \in 1..Len(path)
<1> DEFINE T == [role : Roles, steps : Nat \ {0}]
<1>1. path \in Seq(T) /\ path # <<>>
  BY TrajectoryAssumption
<1> HIDE DEF T
<1> QED BY <1>1

(* What the assumptions say of the numbers a wait is made of.              *)
LEMMA ClockConstants ==
  /\ Deadlines \subseteq Nat
  /\ TurnTimeout \in Nat \ {0} /\ AnalyzerTimeout \in Nat \ {0}
  /\ MaxCalls \in Nat /\ Delays \in Seq(Nat \ {0}) /\ Len(Delays) \in Nat
  /\ MaxOperations \in Nat \ {0}
BY TrajectoryAssumption

(* A call that is begun before the deadline ends within a timeout for each *)
(* operation after its first, an analyzer and a delay before the deadline. *)
LEMMA Limits ==
  ASSUME now \in Nat, deadline \in Nat, ~LeaseOver, NEW n \in Nat \ {0}
  PROVE  /\ CallEnd(n) \in Nat
         /\ CallEnd(n) <= deadline + (n - 1) * TurnTimeout
         /\ now + AnalyzerLimit \in Nat /\ now + AnalyzerLimit <= deadline
<1>1. /\ TurnLimit \in Nat /\ TurnLimit <= TurnTimeout /\ TurnTimeout \in Nat
      /\ now + TurnLimit <= deadline
      /\ now + AnalyzerLimit \in Nat /\ now + AnalyzerLimit <= deadline
  BY ClockConstants DEF LeaseOver, TurnLimit, AnalyzerLimit, Remaining, Least
<1>2. PICK more \in Nat : n = more + 1
  <2>1. n - 1 \in Nat /\ n = (n - 1) + 1
    OBVIOUS
  <2> QED BY <2>1
<1>3. PICK rest \in Nat : TurnTimeout = TurnLimit + rest
  <2>1. TurnTimeout - TurnLimit \in Nat /\ TurnTimeout = TurnLimit + (TurnTimeout - TurnLimit)
    BY <1>1
  <2> QED BY <2>1
<1>4. /\ more * TurnLimit \in Nat /\ more * rest \in Nat
      /\ n * TurnLimit = more * TurnLimit + TurnLimit
      /\ (n - 1) * TurnTimeout = more * TurnLimit + more * rest
  BY <1>1, <1>2, <1>3
<1> QED BY <1>1, <1>4 DEF CallEnd

LEMMA DelayFits ==
  ASSUME now \in Nat, deadline \in Nat, attempt \in Nat, attempt >= 1, MayBackOff
  PROVE  /\ attempt <= Len(Delays)
         /\ now + Delays[attempt] \in Nat /\ now + Delays[attempt] <= deadline
<1>1. attempt \in 1..Len(Delays)
  BY ClockConstants DEF MayBackOff
<1>2. Delays[attempt] \in Nat \ {0}
  BY <1>1, ClockConstants
<1>3. Delays[attempt] < TurnLimit /\ TurnLimit <= Remaining
  BY ClockConstants DEF MayBackOff, TurnLimit, Least, Remaining, LeaseOver
<1>4. Remaining = 0 \/ (deadline > now /\ Remaining = deadline - now)
  BY DEF Remaining, LeaseOver
<1>5. TurnLimit \in Nat /\ Remaining \in Nat
  BY ClockConstants DEF TurnLimit, Least, Remaining, LeaseOver
<1> QED BY <1>1, <1>2, <1>3, <1>4, <1>5

-----------------------------------------------------------------------------
LEMMA InitEstablishes == ASSUME Init PROVE IInv
<1>1. stage \in 1..Len(path) /\ stage = 1
  BY PathStarts DEF Init
<1>2. MaxSteps \in Nat \ {0}
  BY <1>1, StepsType DEF Init, MaxSteps
<1>3. LoopInv
  <2>1. 0 \in 0..MaxSteps /\ 0 \in 0..(2 * MaxSteps)
    BY <1>2
  <2>2. attempt \in 0..(Len(Delays) + 1) /\ pending \in 0..MaxCalls
    BY ClockConstants DEF Init
  <2>3. path \in Paths /\ deadline \in Deadlines /\ nudged \in BOOLEAN
    BY DEF Init
  <2>4. step \in 0..MaxSteps /\ calls \in 0..(2 * MaxSteps)
    BY <2>1 DEF Init
  <2>5. pc = "turn"
    BY DEF Init
  <2> QED BY <1>1, <2>2, <2>3, <2>4, <2>5 DEF LoopInv
<1>4. ClockInv
  BY ClockConstants DEF Init, ClockInv
<1>5. AddUsage(NoUsage, NoUsage) = NoUsage /\ RequireBudget(NoUsage)
  BY TrajectoryAssumption DEF AddUsage, OrZero, NoUsage, RequireBudget, BillableCost
<1>6. UsageInv
  BY <1>5, TrajectoryAssumption DEF Init, UsageInv, SpendIsBounded, Usages, NoUsage
<1>7. EndInv
  BY TrajectoryAssumption DEF Init, EndInv, AuditAddsUp, Usages, NoUsage
<1> QED BY <1>3, <1>4, <1>6, <1>7 DEF IInv

-----------------------------------------------------------------------------
LEMMA LoopStep ==
  ASSUME IInv, Next
  PROVE  LoopInv'
<1> USE ClockConstants
<1>1. /\ path \in Paths /\ deadline \in Deadlines /\ stage \in 1..Len(path)
      /\ step \in 0..MaxSteps /\ calls \in 0..(2 * MaxSteps) /\ nudged \in BOOLEAN
      /\ attempt \in 0..(Len(Delays) + 1) /\ pending \in 0..MaxCalls
      /\ pc \in {"post", "backoff"} => attempt <= Len(Delays)
      /\ pc = "request" => attempt >= 1
  BY DEF IInv, LoopInv
<1>2. MaxSteps \in Nat \ {0}
  BY <1>1, StepsType DEF MaxSteps
<1>3. ASSUME path' = path, stage' = stage
      PROVE  MaxSteps' = MaxSteps
  BY <1>3 DEF MaxSteps
<1>4. CASE BeginTurn
  BY <1>1, <1>2, <1>3, <1>4 DEF BeginTurn, Goto, LoopInv
<1>5. CASE \E n \in 1..MaxOperations : SendRequest(n)
  BY <1>1, <1>2, <1>3, <1>5 DEF SendRequest, LoopInv
<1>6. CASE RequestFails
  <2>1. MayBackOff => attempt <= Len(Delays)
    BY DEF MayBackOff
  <2> QED BY <1>1, <1>2, <1>3, <1>6, <2>1
          DEF RequestFails, Wait, Raise, End, LoopInv, loopVars
<1>7. CASE BackoffOver
  BY <1>1, <1>2, <1>3, <1>7 DEF BackoffOver, Goto, LoopInv, loopVars
<1>8. CASE \E turn \in Turns : Responds(turn)
  BY <1>1, <1>2, <1>3, <1>8 DEF Responds, Failure, End, LoopInv, loopVars
<1>9. CASE NoToolCall
  BY <1>1, <1>2, <1>3, <1>9 DEF NoToolCall, Goto, Failure, End, LoopInv, loopVars
<1>10. CASE SubmissionRefused \/ SubmissionAccepted
  BY <1>1, <1>2, <1>3, <1>10
     DEF SubmissionRefused, SubmissionAccepted, Goto, LoopInv
<1>11. CASE \E n \in 1..MaxCalls : CallTools(n)
  <2>1. PICK n \in 1..MaxCalls : CallTools(n)
    BY <1>11
  <2>2. pending' \in 0..MaxCalls
    BY <2>1 DEF CallTools
  <2> QED BY <1>1, <1>2, <1>3, <2>1, <2>2 DEF CallTools, Goto, LoopInv
<1>12. CASE ToolsDone
  BY <1>1, <1>2, <1>3, <1>12 DEF ToolsDone, Goto, LoopInv, loopVars
<1>13. CASE CallUnreadable
  BY <1>1, <1>2, <1>3, <1>13 DEF CallUnreadable, Goto, LoopInv
<1>14. CASE StartAnalyzer
  BY <1>1, <1>2, <1>3, <1>14 DEF StartAnalyzer, CallsLeft, Wait, LoopInv
<1>15. CASE AnalyzerAnswers
  BY <1>1, <1>2, <1>3, <1>15 DEF AnalyzerAnswers, Goto, LoopInv, loopVars
<1>16. CASE NextTrajectory
  <2>1. path' = path /\ stage' \in 1..Len(path)
    BY <1>1, <1>16 DEF NextTrajectory
  <2>2. MaxSteps' \in Nat \ {0}
    BY <1>1, <2>1, StepsType DEF MaxSteps
  <2>3. (0 \in 0..MaxSteps)' /\ (0 \in 0..(2 * MaxSteps))'
    <3> DEFINE m == MaxSteps'
    <3>1. m \in Nat
      BY <2>2
    <3> HIDE DEF m
    <3>2. 0 \in 0..m /\ 0 \in 0..(2 * m)
      BY <3>1
    <3> QED BY <3>2 DEF m
  <2> QED BY <1>1, <1>16, <2>1, <2>3 DEF NextTrajectory, LoopInv
<1>17. CASE Tick
  BY <1>1, <1>2, <1>3, <1>17 DEF Tick, LoopInv, loopVars
<1>18. CASE LeaseEndsTurn \/ RequestRejected
            \/ \E result \in {"inconclusive", "retryable_infra"} : AnalyzerRaises(result)
  BY <1>1, <1>2, <1>3, <1>18
     DEF LeaseEndsTurn, RequestRejected, AnalyzerRaises, Raise, End, LoopInv, loopVars
<1>19. CASE StepsExhausted \/ ResponseUnusable \/ SubmissionMalformed \/ CallMalformed
            \/ CallsExhausted \/ AnalyzerRefused \/ AnalyzerFails \/ ReturnReview
  BY <1>1, <1>2, <1>3, <1>19
     DEF StepsExhausted, ResponseUnusable, SubmissionMalformed, CallMalformed,
         CallsExhausted, AnalyzerRefused, AnalyzerFails, ReturnReview,
         Failure, End, LoopInv, loopVars
<1> QED BY <1>4, <1>5, <1>6, <1>7, <1>8, <1>9, <1>10, <1>11, <1>12, <1>13, <1>14,
           <1>15, <1>16, <1>17, <1>18, <1>19 DEF Next

LEMMA ClockStep ==
  ASSUME IInv, Next
  PROVE  ClockInv'
<1> USE ClockConstants
<1>1. /\ now \in Nat /\ until \in Nat /\ deadline \in Nat
      /\ operations \in 0..MaxOperations
      /\ now > deadline => now <= deadline + (operations - 1) * TurnTimeout
      /\ pc = "request" => until <= deadline + (operations - 1) * TurnTimeout
      /\ pc \in {"backoff", "analyzing"} => until <= deadline
      /\ attempt \in Nat /\ (pc = "request" => attempt >= 1)
  BY DEF IInv, ClockInv, LoopInv
<1>2. CASE \E n \in 1..MaxOperations : SendRequest(n)
  <2>1. PICK n \in 1..MaxOperations : SendRequest(n)
    BY <1>2
  <2>2. /\ ~LeaseOver /\ pc' = "request" /\ until' = CallEnd(n)
        /\ operations' = n /\ UNCHANGED <<now, deadline>>
    BY <2>1 DEF SendRequest
  <2>3. CallEnd(n) \in Nat /\ CallEnd(n) <= deadline + (n - 1) * TurnTimeout
    BY <1>1, <2>2, Limits
  <2>4. ~(now > deadline)
    BY <1>1, <2>2 DEF LeaseOver
  <2> QED BY <1>1, <2>2, <2>3, <2>4 DEF ClockInv
<1>3. CASE RequestFails
  <2>1. CASE MayBackOff
    <3>1. /\ now + Delays[attempt] \in Nat /\ now + Delays[attempt] <= deadline
      BY <1>1, <1>3, <2>1, DelayFits DEF RequestFails
    <3>2. /\ until' = now + Delays[attempt]
          /\ pc' = "backoff" /\ UNCHANGED <<now, deadline, operations>>
      BY <1>3, <2>1 DEF RequestFails, Wait
    <3> QED BY <1>1, <3>1, <3>2 DEF ClockInv
  <2>2. CASE ~MayBackOff
    BY <1>1, <1>3, <2>2 DEF RequestFails, Raise, End, clockVars, ClockInv
  <2> QED BY <2>1, <2>2
<1>4. CASE StartAnalyzer
  <2>1. now + AnalyzerLimit \in Nat /\ now + AnalyzerLimit <= deadline
    BY <1>1, <1>4, Limits DEF StartAnalyzer
  <2> QED BY <1>1, <1>4, <2>1 DEF StartAnalyzer, Wait, ClockInv
<1>5. CASE Tick
  BY <1>1, <1>5 DEF Tick, ClockInv
<1>6. CASE BeginTurn \/ BackoffOver \/ SubmissionRefused \/ SubmissionAccepted
           \/ (\E n \in 1..MaxCalls : CallTools(n)) \/ ToolsDone \/ CallUnreadable
           \/ AnalyzerAnswers
  BY <1>1, <1>6
     DEF BeginTurn, BackoffOver, SubmissionRefused, SubmissionAccepted, CallTools,
         ToolsDone, CallUnreadable, AnalyzerAnswers, Goto, clockVars, ClockInv
<1>7. CASE NoToolCall
  BY <1>1, <1>7 DEF NoToolCall, Goto, Failure, End, clockVars, ClockInv
<1>8. CASE \E turn \in Turns : Responds(turn)
  BY <1>1, <1>8 DEF Responds, Failure, End, clockVars, ClockInv
<1>9. CASE LeaseEndsTurn \/ RequestRejected
            \/ \E result \in {"inconclusive", "retryable_infra"} : AnalyzerRaises(result)
  BY <1>1, <1>9
     DEF LeaseEndsTurn, RequestRejected, AnalyzerRaises, Raise, End, clockVars, ClockInv
<1>10. CASE StepsExhausted \/ ResponseUnusable \/ SubmissionMalformed \/ CallMalformed
            \/ CallsExhausted \/ AnalyzerRefused \/ AnalyzerFails \/ ReturnReview
  BY <1>1, <1>10
     DEF StepsExhausted, ResponseUnusable, SubmissionMalformed, CallMalformed,
         CallsExhausted, AnalyzerRefused, AnalyzerFails, ReturnReview,
         Failure, End, clockVars, ClockInv
<1>11. CASE NextTrajectory
  BY <1>1, <1>11 DEF NextTrajectory, clockVars, ClockInv
<1> QED BY <1>2, <1>3, <1>4, <1>5, <1>6, <1>7, <1>8, <1>9, <1>10, <1>11 DEF Next

-----------------------------------------------------------------------------
LEMMA UsageStep ==
  ASSUME IInv, Next
  PROVE  UsageInv'
<1>1. /\ before \in Usages /\ used \in Usages /\ total \in Usages /\ cost \in Nat
      /\ total = AddUsage(before, used) /\ SpendIsBounded
  BY DEF IInv, UsageInv
<1>2. ASSUME usageVars' = usageVars, pc # "ended"
      PROVE  UsageInv'
  BY <1>1, <1>2
     DEF usageVars, UsageInv, SpendIsBounded, RequireBudget, BillableCost
<1>3. CASE \E turn \in Turns : Responds(turn)
  <2>1. PICK turn \in Turns : Responds(turn)
    BY <1>3
  <2>2. turn \in Usages
    BY TurnsAreUsages
  <2>3. /\ before' = before /\ used' = AddUsage(used, turn)
        /\ total' = AddUsage(total, turn) /\ cost' = cost + BillableCost(turn)
        /\ pc = "request"
    BY <2>1 DEF Responds
  <2>4. used' \in Usages /\ total' \in Usages /\ cost' \in Nat
    BY <1>1, <2>2, <2>3, AddType, CostType
  <2>5. total' = AddUsage(before', used')
    BY <1>1, <2>2, <2>3, AddAssociates
  <2>6. RequireBudget(total)
    BY <1>1, <2>3 DEF SpendIsBounded
  <2>7. /\ total'.tokens <= MaxTokens + turn.tokens
        /\ BillableCost(total') <= MaxCost + BillableCost(turn)
    BY <1>1, <2>2, <2>3, <2>6, OneAnswerMore
  <2>8. pc' # "ended" => RequireBudget(total')
    BY <2>1, <2>3, <2>5 DEF Responds, Failure, End, Combined
  <2>9. SpendIsBounded'
    BY <2>7, <2>8 DEF SpendIsBounded, RequireBudget, BillableCost
  <2> QED BY <1>1, <2>3, <2>4, <2>5, <2>9 DEF UsageInv
<1>4. CASE NextTrajectory
  <2>1. /\ before' = AddUsage(before, used) /\ used' = NoUsage
        /\ total' = total /\ cost' = cost /\ pc = "returned"
    BY <1>4 DEF NextTrajectory
  <2>2. before' \in Usages /\ used' \in Usages /\ total' = AddUsage(before', used')
    BY <1>1, <2>1, AddType, AddNothing
  <2>3. SpendIsBounded'
    BY <1>1, <2>1 DEF SpendIsBounded, RequireBudget, BillableCost
  <2> QED BY <1>1, <2>1, <2>2, <2>3 DEF UsageInv
<1>5. CASE BeginTurn \/ BackoffOver \/ SubmissionRefused \/ SubmissionAccepted
           \/ (\E n \in 1..MaxCalls : CallTools(n)) \/ ToolsDone \/ CallUnreadable
           \/ AnalyzerAnswers
  BY <1>2, <1>5
     DEF BeginTurn, BackoffOver, SubmissionRefused, SubmissionAccepted, CallTools,
         ToolsDone, CallUnreadable, AnalyzerAnswers, Goto
<1>6. CASE (\E n \in 1..MaxOperations : SendRequest(n)) \/ StartAnalyzer \/ Tick
  BY <1>2, <1>6 DEF SendRequest, StartAnalyzer, Tick, Wait
<1>7. CASE RequestFails \/ NoToolCall
  BY <1>2, <1>7 DEF RequestFails, NoToolCall, Wait, Raise, Goto
<1>8. CASE LeaseEndsTurn \/ RequestRejected
            \/ \E result \in {"inconclusive", "retryable_infra"} : AnalyzerRaises(result)
  BY <1>2, <1>8 DEF LeaseEndsTurn, RequestRejected, AnalyzerRaises, Raise
<1>9. CASE StepsExhausted \/ ResponseUnusable \/ SubmissionMalformed \/ CallMalformed
            \/ CallsExhausted \/ AnalyzerRefused \/ AnalyzerFails \/ ReturnReview
  BY <1>2, <1>9
     DEF StepsExhausted, ResponseUnusable, SubmissionMalformed, CallMalformed,
         CallsExhausted, AnalyzerRefused, AnalyzerFails, ReturnReview
<1> QED BY <1>3, <1>4, <1>5, <1>6, <1>7, <1>8, <1>9 DEF Next

LEMMA EndStep ==
  ASSUME IInv, Next
  PROVE  EndInv'
<1>1. /\ before \in Usages /\ used \in Usages /\ total = AddUsage(before, used)
      /\ UsageInv'
  BY UsageStep DEF IInv, UsageInv
<1>2. /\ before' \in Usages /\ used' \in Usages /\ total' = AddUsage(before', used')
      /\ AddUsage(before', used') \in Usages
  BY <1>1, AddType DEF UsageInv
<1>3. /\ audited \in Usages /\ (pc # "ended" => outcome = "-")
  BY DEF IInv, EndInv
<1>4. ASSUME pc # "ended", outcome' = outcome, audited' = audited,
             pc' \in {"turn", "post", "request", "backoff", "reply", "tools",
                     "analyzing", "returned"}
      PROVE  EndInv'
  BY <1>3, <1>4 DEF EndInv, AuditAddsUp
<1>5. ASSUME NEW code, before' = before, Failure(code, used')
      PROVE  EndInv'
  <2>1. /\ pc' = "ended" /\ outcome' \in {"pass_inconclusive", "retryable_infra"}
        /\ audited' = AddUsage(before', used')
    BY <1>5 DEF Failure, End
  <2> QED BY <1>2, <2>1 DEF EndInv, AuditAddsUp
<1>6. ASSUME NEW result \in {"inconclusive", "retryable_infra"}, Raise(result)
      PROVE  EndInv'
  BY <1>1, <1>6 DEF Raise, End, EndInv, AuditAddsUp
<1>7. ASSUME NEW code, usageVars' = usageVars, Failure(code, used)
      PROVE  EndInv'
  BY <1>5, <1>7 DEF usageVars
<1>8. CASE \E turn \in Turns : Responds(turn)
  <2>1. PICK turn \in Turns : Responds(turn)
    BY <1>8
  <2> QED BY <1>4, <1>5, <2>1 DEF Responds, endVars
<1>9. CASE NextTrajectory
  BY <1>4, <1>9 DEF NextTrajectory, endVars
<1>10. CASE BeginTurn \/ BackoffOver \/ SubmissionRefused \/ SubmissionAccepted
           \/ (\E n \in 1..MaxCalls : CallTools(n)) \/ ToolsDone \/ CallUnreadable
           \/ AnalyzerAnswers
  BY <1>4, <1>10
     DEF BeginTurn, BackoffOver, SubmissionRefused, SubmissionAccepted, CallTools,
         ToolsDone, CallUnreadable, AnalyzerAnswers, Goto, endVars
<1>11. CASE (\E n \in 1..MaxOperations : SendRequest(n)) \/ StartAnalyzer \/ Tick
  BY <1>4, <1>11 DEF SendRequest, StartAnalyzer, Tick, Wait, endVars
<1>12. CASE RequestFails
  BY <1>4, <1>6, <1>12 DEF RequestFails, Wait, endVars
<1>13. CASE NoToolCall
  BY <1>4, <1>7, <1>13 DEF NoToolCall, Goto, endVars
<1>14. CASE LeaseEndsTurn \/ RequestRejected
            \/ \E result \in {"inconclusive", "retryable_infra"} : AnalyzerRaises(result)
  BY <1>6, <1>14 DEF LeaseEndsTurn, RequestRejected, AnalyzerRaises
<1>15. CASE StepsExhausted \/ ResponseUnusable \/ SubmissionMalformed \/ CallMalformed
            \/ CallsExhausted \/ AnalyzerRefused \/ AnalyzerFails
  BY <1>7, <1>15
     DEF StepsExhausted, ResponseUnusable, SubmissionMalformed, CallMalformed,
         CallsExhausted, AnalyzerRefused, AnalyzerFails
<1>16. CASE ReturnReview
  BY <1>2, <1>16 DEF ReturnReview, End, usageVars, EndInv, AuditAddsUp
<1> QED BY <1>8, <1>9, <1>10, <1>11, <1>12, <1>13, <1>14, <1>15, <1>16 DEF Next

-----------------------------------------------------------------------------
LEMMA Inductive == ASSUME IInv, [Next]_vars PROVE IInv'
<1>1. CASE Next
  BY <1>1, LoopStep, ClockStep, UsageStep, EndStep DEF IInv
<1>2. CASE UNCHANGED vars
  <2>1. LoopInv' /\ ClockInv'
    BY <1>2 DEF IInv, LoopInv, ClockInv, MaxSteps, vars, clockVars, loopVars
  <2>2. UsageInv' /\ EndInv'
    BY <1>2 DEF IInv, UsageInv, EndInv, SpendIsBounded, AuditAddsUp,
                RequireBudget, BillableCost, vars, usageVars, endVars
  <2> QED BY <2>1, <2>2 DEF IInv
<1> QED BY <1>1, <1>2

THEOREM InvariantHolds == Spec => []IInv
<1> QED BY InitEstablishes, Inductive, PTL DEF Spec

(* Types; turns, attempts and analyzer calls stay within their limits.     *)
THEOREM TypeCorrect == Spec => []TypeOK
<1>1. IInv => TypeOK
  BY DEF IInv, LoopInv, ClockInv, UsageInv, EndInv, TypeOK
<1> QED BY <1>1, InvariantHolds, PTL

(* All trajectories of a review together go over its budget by one answer. *)
THEOREM SpendIsBoundedHolds == Spec => []SpendIsBounded
<1>1. IInv => SpendIsBounded
  BY DEF IInv, UsageInv
<1> QED BY <1>1, InvariantHolds, PTL

(* A result, or an exhausted budget, reports the usage of every stage.     *)
THEOREM AuditAddsUpHolds == Spec => []AuditAddsUp
<1>1. IInv => AuditAddsUp
  BY DEF IInv, EndInv
<1> QED BY <1>1, InvariantHolds, PTL

(* A review outlives its deadline only by operations of one gateway call,  *)
(* other than its first, each with its own timeout: however many these are.*)
THEOREM OverrunIsOneRequestHolds == Spec => []OverrunIsOneRequest
<1>1. IInv => OverrunIsOneRequest
  BY DEF IInv, ClockInv, OverrunIsOneRequest
<1> QED BY <1>1, InvariantHolds, PTL

-----------------------------------------------------------------------------
(* That a review ends                                                      *)

(* Where a turn is: asking, answered, running tools, over; and the ends of *)
(* a trajectory and of the review.                                         *)
Phase(point) ==
  CASE point \in {"post", "request", "backoff"} -> 1
    [] point = "reply" -> 2
    [] point \in {"tools", "analyzing"} -> 3
    [] point = "turn" -> 4
    [] point = "returned" -> 5
    [] point = "ended" -> 6

(* Where one attempt, or one call of a tool, is.                           *)
Waited(point) ==
  CASE point \in {"request", "analyzing"} -> 0
    [] point = "backoff" -> 1
    [] OTHER -> 2

SameTurn == stage' = stage /\ step' = step
SamePhase == SameTurn /\ Phase(pc') = Phase(pc)
SameCall == SamePhase /\ attempt' = attempt /\ pending' = pending

(* A step spends something that IInv bounds and that only spending more of *)
(* what stands before it gives back: trajectories, turns, the phases of a  *)
(* turn, attempts, calls of the answer, their waits, and the time of each. *)
Advances ==
  \/ stage' > stage
  \/ stage' = stage /\ step' > step
  \/ SameTurn /\ Phase(pc') > Phase(pc)
  \/ SamePhase /\ attempt' > attempt
  \/ SamePhase /\ attempt' = attempt /\ pending' < pending
  \/ SameCall /\ Waited(pc') > Waited(pc)
  \/ SameCall /\ pc' = pc /\ until' = until /\ now < until /\ now' = now + 1

AlwaysAdvances == [][Advances]_vars

LEMMA StepAdvances ==
  ASSUME IInv, Next
  PROVE  Advances
<1> USE DEF Advances, SameTurn, SamePhase, SameCall, Phase, Waited
<1>1. /\ stage \in Nat /\ step \in Nat /\ attempt \in Nat /\ pending \in Nat
      /\ now \in Nat /\ until \in Nat
  <2>1. MaxSteps \in Nat \ {0} /\ Len(path) \in Nat
    BY StepsType, TrajectoryAssumption DEF IInv, LoopInv, MaxSteps
  <2> QED BY <2>1, ClockConstants, TrajectoryAssumption DEF IInv, LoopInv, ClockInv
<1>2. CASE BeginTurn
  BY <1>1, <1>2 DEF BeginTurn
<1>3. CASE (\E n \in 1..MaxOperations : SendRequest(n)) \/ BackoffOver
  BY <1>1, <1>3 DEF SendRequest, BackoffOver, Wait, Goto, loopVars
<1>4. CASE RequestFails
  BY <1>1, <1>4 DEF RequestFails, Wait, Raise, End, loopVars
<1>5. CASE \E turn \in Turns : Responds(turn)
  BY <1>1, <1>5 DEF Responds, Failure, End, loopVars
<1>6. CASE NoToolCall
  BY <1>1, <1>6 DEF NoToolCall, Goto, Failure, End, loopVars
<1>7. CASE SubmissionRefused \/ SubmissionAccepted \/ ToolsDone
            \/ \E n \in 1..MaxCalls : CallTools(n)
  BY <1>1, <1>7 DEF SubmissionRefused, SubmissionAccepted, ToolsDone, CallTools,
                    Goto, loopVars
<1>8. CASE CallUnreadable \/ StartAnalyzer \/ AnalyzerAnswers
  BY <1>1, <1>8 DEF CallUnreadable, StartAnalyzer, AnalyzerAnswers, Goto, Wait,
                    loopVars
<1>9. CASE NextTrajectory
  BY <1>1, <1>9 DEF NextTrajectory
<1>10. CASE Tick
  BY <1>1, <1>10 DEF Tick, loopVars
<1>11. CASE LeaseEndsTurn \/ RequestRejected
            \/ \E result \in {"inconclusive", "retryable_infra"} : AnalyzerRaises(result)
  BY <1>1, <1>11
     DEF LeaseEndsTurn, RequestRejected, AnalyzerRaises, Raise, End, loopVars
<1>12. CASE StepsExhausted \/ ResponseUnusable \/ SubmissionMalformed \/ CallMalformed
            \/ CallsExhausted \/ AnalyzerRefused \/ AnalyzerFails \/ ReturnReview
  BY <1>1, <1>12
     DEF StepsExhausted, ResponseUnusable, SubmissionMalformed, CallMalformed,
         CallsExhausted, AnalyzerRefused, AnalyzerFails, ReturnReview,
         Failure, End, loopVars
<1> QED BY <1>2, <1>3, <1>4, <1>5, <1>6, <1>7, <1>8, <1>9, <1>10, <1>11, <1>12 DEF Next

(* No retry, refused submission, nudge or failed call lets a review go on  *)
(* for free: every step of it spends something that is bounded, so none    *)
(* goes on for ever.                                                       *)
THEOREM AlwaysAdvancesHolds == Spec => AlwaysAdvances
<1>1. IInv /\ [Next]_vars => [Advances]_vars
  BY StepAdvances
<1> QED BY <1>1, InvariantHolds, PTL DEF Spec, AlwaysAdvances
=============================================================================
