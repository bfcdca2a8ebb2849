---------------------------- MODULE ReviewTrajectory ----------------------------
(***************************************************************************)
(* The model turns of one L2/L3 review (ditto_screener/l2_review.py): the  *)
(* trajectories it runs one after the other, each of at most so many turns,*)
(* a turn being a request to the gateway, with its retries, and the        *)
(* analyzers its answer asks for.  Usage is summed over the trajectories   *)
(* and held against one budget, and every wait against one deadline.       *)
(*                                                                         *)
(* LayeredReview takes a trajectory as one step and models which one comes *)
(* next; here that is free, and a stage found in the cache is a path that  *)
(* starts after it.  A token is priced at one: estimated cost is tokens.   *)
(***************************************************************************)
EXTENDS Naturals, Sequences

CONSTANTS
  Paths,            \* sequences of trajectories, [role, steps] each
  Turns,            \* usages an answer can state, [tokens, reported] each
  NotReported,      \* the provider omits the cost
  MaxTokens,        \* the token budgets of a review, as one
  MaxCost,          \* max_cost_usd
  Deadlines,        \* deadlines of the review, from its first trajectory on
  TurnTimeout,      \* timeout_seconds of each network operation of a call
  AnalyzerTimeout,  \* timeout_seconds of an analyzer
  Delays,           \* _RETRY_DELAYS_SECONDS
  MaxCalls,         \* bound: function calls of one answer
  MaxOperations     \* bound: network operations of one gateway call

Roles == {"analyst", "critic", "violation_adjudicator",
          "violation_tiebreaker", "adjudicator"}

ASSUME TrajectoryAssumption ==
  /\ \A p \in Paths : p \in Seq([role : Roles, steps : Nat \ {0}]) /\ p # <<>>
  /\ NotReported \notin Nat
  /\ Turns \subseteq [tokens : Nat, reported : Nat \cup {NotReported}]
  /\ MaxTokens \in Nat /\ MaxCost \in Nat /\ MaxCalls \in Nat
  /\ Deadlines \subseteq Nat
  /\ TurnTimeout \in Nat \ {0} /\ AnalyzerTimeout \in Nat \ {0}
  /\ Delays \in Seq(Nat \ {0}) /\ MaxOperations \in Nat \ {0}

VARIABLES
  path, deadline,   \* what this review is to run, fixed at its start
  now,
  until,            \* the latest time the wait at hand can end
  operations,       \* history: network operations of the last call, at most
  pc,               \* the point of the loop of _run_trajectory
  stage,            \* the trajectory at hand, an index of path
  step, calls,      \* its turns and its analyzer calls so far
  nudged,           \* no_tool_retries: the last answer had no tool call
  attempt,          \* attempts of _post for this turn
  pending,          \* function calls of the answer still to be run
  before, used,     \* usage_before, and the usage of this trajectory
  total,            \* history: the usage of every answer of the review
  cost,             \* history: each turn at its own reported or estimated cost
  outcome, audited  \* of the review: "-" or its end, with the usage it reports

clockVars == <<now, until, operations>>
loopVars == <<stage, step, calls, nudged, attempt, pending>>
usageVars == <<before, used, total, cost>>
endVars == <<outcome, audited>>
vars == <<path, deadline, clockVars, pc, loopVars, usageVars, endVars>>

Least(a, b) == IF a <= b THEN a ELSE b

-----------------------------------------------------------------------------
(* Usage.                                                                  *)
NoUsage == [tokens |-> 0, reported |-> NotReported]

OrZero(reported) == IF reported = NotReported THEN 0 ELSE reported

AddUsage(left, right) ==
  [tokens |-> left.tokens + right.tokens,
   reported |-> IF left.reported = NotReported /\ right.reported = NotReported
                THEN NotReported
                ELSE OrZero(left.reported) + OrZero(right.reported)]

BillableCost(usage) ==
  IF usage.reported = NotReported THEN usage.tokens ELSE usage.reported

RequireBudget(usage) ==
  usage.tokens <= MaxTokens /\ BillableCost(usage) <= MaxCost

(* Slip: each trajectory has a budget of its own.                          *)
CombinedAlone(spent) == spent

(* What the budget is held against once this trajectory has used spent.    *)
Combined(spent) == AddUsage(before, spent)

-----------------------------------------------------------------------------
(* The ends of a review.                                                   *)
End(result, usage) ==
  /\ pc' = "ended" /\ outcome' = result /\ audited' = usage
  /\ UNCHANGED <<path, deadline, clockVars, loopVars>>

Budgets == {"model-total-budget", "model-tool-budget", "model-step-budget"}

(* L2TrajectoryError: its usage is added to that of the stages before.     *)
Failure(code, spent) ==
  End(IF path[stage].role = "analyst" /\ code \in Budgets
      THEN "pass_inconclusive" ELSE "retryable_infra",
      AddUsage(before, spent))

(* Any other error: the usage of this trajectory is not reported.          *)
Raise(result) == End(result, before) /\ UNCHANGED usageVars

-----------------------------------------------------------------------------
(* The lease.                                                              *)
LeaseOver == deadline <= now
Remaining == IF LeaseOver THEN 0 ELSE deadline - now

(* Slip: the timeout is not cut to the lease.                              *)
TurnLimitUncut == TurnTimeout

TurnLimit == Least(TurnTimeout, Remaining)
AnalyzerLimit == Least(AnalyzerTimeout, Remaining)

(* httpx applies the timeout to each network operation of a call: getting  *)
(* a connection, connecting, TLS, each write and each read.  Nothing bounds*)
(* their number: the body is read until it ends.                           *)
CallEnd(n) == now + n * TurnLimit

Wait(point, end) ==
  /\ pc' = point /\ until' = end
  /\ UNCHANGED <<path, deadline, now, operations, usageVars, endVars>>

Goto(point) ==
  /\ pc' = point
  /\ UNCHANGED <<path, deadline, clockVars, usageVars, endVars>>

Init ==
  /\ path \in Paths /\ deadline \in Deadlines
  /\ now = 0 /\ until = 0 /\ operations = 0
  /\ pc = "turn" /\ stage = 1
  /\ step = 0 /\ calls = 0 /\ nudged = FALSE /\ attempt = 0 /\ pending = 0
  /\ before = NoUsage /\ used = NoUsage /\ total = NoUsage /\ cost = 0
  /\ outcome = "-" /\ audited = NoUsage

MaxSteps == path[stage].steps

(* The head of the loop over max_steps.                                    *)
BeginTurn ==
  /\ pc = "turn" /\ step < MaxSteps
  /\ step' = step + 1 /\ attempt' = 0
  /\ Goto("post")
  /\ UNCHANGED <<stage, calls, nudged, pending>>

StepsExhausted ==
  /\ pc = "turn" /\ step = MaxSteps
  /\ Failure("model-step-budget", used) /\ UNCHANGED usageVars

-----------------------------------------------------------------------------
(* _post: the request of a turn and its retries.                           *)
SendRequest(n) ==
  /\ pc = "post" /\ ~LeaseOver
  /\ attempt' = attempt + 1 /\ operations' = n
  /\ pc' = "request" /\ until' = CallEnd(n)
  /\ UNCHANGED <<path, deadline, now, stage, step, calls, nudged, pending,
                 usageVars, endVars>>

LeaseEndsTurn ==
  /\ pc = "post" /\ LeaseOver
  /\ Raise("retryable_infra")

(* No answer, 429 or 5xx: the lease must outlast the delay.                *)
MayBackOff == attempt <= Len(Delays) /\ Delays[attempt] < TurnLimit

RequestFails ==
  /\ pc = "request"
  /\ IF MayBackOff
     THEN Wait("backoff", now + Delays[attempt]) /\ UNCHANGED loopVars
     ELSE Raise("retryable_infra")

BackoffOver ==
  /\ pc = "backoff" /\ now = until
  /\ Goto("post") /\ UNCHANGED loopVars

(* Any other 4xx.                                                          *)
RequestRejected ==
  /\ pc = "request"
  /\ Raise("retryable_infra")

ResponseUnusable ==
  /\ pc = "request"
  /\ Failure("model-response-contract", used) /\ UNCHANGED usageVars

(* The budget is looked at once the answer is there.                       *)
Responds(turn) ==
  /\ pc = "request"
  /\ used' = AddUsage(used, turn)
  /\ total' = AddUsage(total, turn) /\ cost' = cost + BillableCost(turn)
  /\ UNCHANGED before
  /\ IF RequireBudget(Combined(used'))
     THEN /\ pc' = "reply"
          /\ UNCHANGED <<path, deadline, clockVars, loopVars, endVars>>
     ELSE Failure("model-total-budget", used')

-----------------------------------------------------------------------------
(* What the answer asks for.                                               *)
NoToolCall ==
  /\ pc = "reply"
  /\ IF nudged
     THEN Failure("model-tool-contract", used) /\ UNCHANGED usageVars
     ELSE /\ nudged' = TRUE
          /\ Goto("turn") /\ UNCHANGED <<stage, step, calls, attempt, pending>>

(* A submission beside other calls, or one that names no call.             *)
SubmissionMalformed ==
  /\ pc = "reply"
  /\ Failure("model-tool-contract", used) /\ UNCHANGED usageVars

(* Slip: the turn of a refused submission is given back.                   *)
SubmissionRefusedFree ==
  /\ pc = "reply"
  /\ nudged' = FALSE /\ step' = step - 1
  /\ Goto("turn") /\ UNCHANGED <<stage, calls, attempt, pending>>

(* Arguments that do not parse, or a review that _parse_l2_review refuses: *)
(* the model is told, and the turn is spent.                               *)
SubmissionRefused ==
  /\ pc = "reply"
  /\ nudged' = FALSE
  /\ Goto("turn") /\ UNCHANGED <<stage, step, calls, attempt, pending>>

SubmissionAccepted ==
  /\ pc = "reply"
  /\ nudged' = FALSE
  /\ Goto("returned") /\ UNCHANGED <<stage, step, calls, attempt, pending>>

CallTools(n) ==
  /\ pc = "reply"
  /\ nudged' = FALSE /\ pending' = n
  /\ Goto("tools") /\ UNCHANGED <<stage, step, calls, attempt>>

-----------------------------------------------------------------------------
(* The loop over the calls of one answer.                                  *)
ToolsDone ==
  /\ pc = "tools" /\ pending = 0
  /\ Goto("turn") /\ UNCHANGED loopVars

CallUnreadable ==
  /\ pc = "tools" /\ pending > 0
  /\ pending' = pending - 1
  /\ Goto("tools") /\ UNCHANGED <<stage, step, calls, nudged, attempt>>

CallMalformed ==
  /\ pc = "tools" /\ pending > 0
  /\ Failure("model-tool-contract", used) /\ UNCHANGED usageVars

CallsLeft == calls < 2 * MaxSteps

CallsExhausted ==
  /\ pc = "tools" /\ pending > 0 /\ ~CallsLeft
  /\ Failure("model-tool-budget", used) /\ UNCHANGED usageVars

(* IsolatedCodingHarness.run.                                              *)
StartAnalyzer ==
  /\ pc = "tools" /\ pending > 0 /\ CallsLeft /\ ~LeaseOver
  /\ calls' = calls + 1 /\ pending' = pending - 1
  /\ Wait("analyzing", now + AnalyzerLimit)
  /\ UNCHANGED <<stage, step, nudged, attempt>>

(* An analyzer that is not on the list, or a lease that is over.           *)
AnalyzerRefused ==
  /\ pc = "tools" /\ pending > 0 /\ CallsLeft
  /\ Failure("analyzer-contract", used) /\ UNCHANGED usageVars

(* Its output is shown to the model, or withheld if it is partial.         *)
AnalyzerAnswers ==
  /\ pc = "analyzing"
  /\ Goto("tools") /\ UNCHANGED loopVars

(* It timed out, said too much or failed.                                  *)
AnalyzerFails ==
  /\ pc = "analyzing"
  /\ Failure("analyzer-contract", used) /\ UNCHANGED usageVars

(* An error that is itself partial is an L2InconclusiveError; output that  *)
(* is not JSON a ValueError, a container that does not start an OSError.   *)
AnalyzerRaises(result) ==
  /\ pc = "analyzing"
  /\ Raise(result)

-----------------------------------------------------------------------------
(* Slip: the stages before the last one are forgotten.                     *)
NextTrajectoryForgetting ==
  /\ pc = "returned" /\ stage < Len(path)
  /\ stage' = stage + 1
  /\ step' = 0 /\ calls' = 0 /\ nudged' = FALSE
  /\ before' = used /\ used' = NoUsage
  /\ pc' = "turn"
  /\ UNCHANGED <<path, deadline, clockVars, attempt, pending, total, cost, endVars>>

(* The caller of _run_trajectory: _run_model.                              *)
NextTrajectory ==
  /\ pc = "returned" /\ stage < Len(path)
  /\ stage' = stage + 1
  /\ step' = 0 /\ calls' = 0 /\ nudged' = FALSE
  /\ before' = AddUsage(before, used) /\ used' = NoUsage
  /\ pc' = "turn"
  /\ UNCHANGED <<path, deadline, clockVars, attempt, pending, total, cost, endVars>>

ReturnReview ==
  /\ pc = "returned"
  /\ End("result", AddUsage(before, used)) /\ UNCHANGED usageVars

Tick ==
  /\ pc \in {"request", "backoff", "analyzing"} /\ now < until
  /\ now' = now + 1
  /\ UNCHANGED <<path, deadline, until, operations, pc, loopVars, usageVars, endVars>>

Next ==
  \/ BeginTurn \/ StepsExhausted
  \/ \E n \in 1..MaxOperations : SendRequest(n)
  \/ LeaseEndsTurn \/ RequestFails \/ BackoffOver
  \/ RequestRejected \/ ResponseUnusable
  \/ \E turn \in Turns : Responds(turn)
  \/ NoToolCall \/ SubmissionMalformed \/ SubmissionRefused \/ SubmissionAccepted
  \/ \E n \in 1..MaxCalls : CallTools(n)
  \/ ToolsDone \/ CallUnreadable \/ CallMalformed \/ CallsExhausted
  \/ StartAnalyzer \/ AnalyzerRefused \/ AnalyzerAnswers \/ AnalyzerFails
  \/ \E result \in {"inconclusive", "retryable_infra"} : AnalyzerRaises(result)
  \/ NextTrajectory \/ ReturnReview
  \/ Tick

(* An analyzer and a delay are bounded by asyncio.wait_for and their own   *)
(* length, each network operation of a call by its timeout; that a call is *)
(* a finite number of them is assumed of the gateway, not of this code.    *)
Spec == Init /\ [][Next]_vars /\ WF_vars(Next)

-----------------------------------------------------------------------------
Usages == [tokens : Nat, reported : Nat \cup {NotReported}]

(* Types of every variable; no trajectory takes more turns, attempts or    *)
(* analyzer calls than its limits.                                         *)
TypeOK ==
  /\ path \in Paths /\ deadline \in Deadlines
  /\ now \in Nat /\ until \in Nat /\ operations \in 0..MaxOperations
  /\ pc \in {"turn", "post", "request", "backoff", "reply", "tools",
             "analyzing", "returned", "ended"}
  /\ stage \in 1..Len(path)
  /\ step \in 0..MaxSteps /\ calls \in 0..(2 * MaxSteps)
  /\ nudged \in BOOLEAN
  /\ attempt \in 0..(Len(Delays) + 1) /\ pending \in 0..MaxCalls
  /\ before \in Usages /\ used \in Usages /\ total \in Usages /\ cost \in Nat
  /\ outcome \in {"-", "result", "pass_inconclusive", "retryable_infra",
                  "inconclusive"}
  /\ audited \in Usages

(* However many trajectories a review runs and however often it retries,   *)
(* all of them together go over the budget by the last answer only: no     *)
(* request is made once the sum of the answers is above it.                *)
SpendIsBounded ==
  /\ pc # "ended" => RequireBudget(total)
  /\ \/ RequireBudget(total)
     \/ \E turn \in Turns :
          /\ total.tokens <= MaxTokens + turn.tokens
          /\ BillableCost(total) <= MaxCost + BillableCost(turn)

(* A review that returns a result, or gives up for an exhausted budget,    *)
(* reports what all its trajectories used.                                 *)
AuditAddsUp ==
  outcome \in {"result", "pass_inconclusive"} => audited = total

(* No analyzer and no retry delay reaches past the deadline, and nothing is*)
(* begun after it: whatever was retried before, a review is late only by   *)
(* the network operations of the call in which the deadline passed, and    *)
(* only by those after the first, each with its own timeout.               *)
OverrunIsOneRequest ==
  /\ pc \in {"backoff", "analyzing"} => until <= deadline
  /\ now > deadline => now <= deadline + (operations - 1) * TurnTimeout

(* Every review ends, whatever the model and the gateway answer.           *)
ReviewEnds == <>(pc = "ended")

(* docs/l2-source-review.md: the cost cap is on the reported cost, and on  *)
(* the estimate where the provider omits it; one answer may exceed it.     *)
CostCapCoversEveryTurn ==
  cost <= MaxCost \/ \E turn \in Turns : cost <= MaxCost + BillableCost(turn)
=============================================================================
