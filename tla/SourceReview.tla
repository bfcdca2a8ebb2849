----------------------------- MODULE SourceReview -----------------------------
(***************************************************************************)
(* OpenRouterSourceReviewAgent.review (ditto_screener/source_review.py):   *)
(* the L1 review, a loop of model turns over read-only tools.  A turn is a *)
(* request with its retries and the calls of its answer, in order; the     *)
(* loop is bounded by steps, by the bytes of tool output it may deliver,   *)
(* and by the lease.  Whatever ends it is turned into an observation.      *)
(*                                                                         *)
(* An action that waits says when the wait may have ended.  The tools run  *)
(* inside the turn and take no time; without a lease no time is kept.      *)
(* Messages are reduced to the bytes of tool output in them.               *)
(***************************************************************************)
EXTENDS ReviewFinding, Sequences

CONSTANTS
  MaxSteps,      \* max_steps
  ReadBudget,    \* _MAX_TOTAL_TOOL_CHARS
  Outputs,       \* lengths a tool output can have, up to _MAX_TOOL_OUTPUT_CHARS
  Timeout,       \* timeout_seconds of each network operation of a request
  Delays,        \* _RETRY_DELAYS_SECONDS
  Deadlines, NoDeadline,
  Submissions,   \* the reviews a model may submit
  MaxCalls,      \* bound: tool calls of one answer
  MaxOperations  \* bound: network operations of one request

ASSUME ReviewAssumption ==
  /\ MaxSteps \in Nat \ {0} /\ ReadBudget \in Nat \ {0}
  /\ Outputs \subseteq Nat
  /\ Timeout \in Nat \ {0} /\ Delays \in Seq(Nat)
  /\ NoDeadline \notin Nat /\ Deadlines \subseteq Nat \cup {NoDeadline}
  /\ Submissions \subseteq SubmittedReviews
  /\ MaxCalls \in Nat \ {0} /\ MaxOperations \in Nat \ {0}

VARIABLES
  deadline, now,
  pc,           \* "start", "turn", "post", "calls", "ended" or "raised"
  step,         \* turns begun
  attempt,      \* requests of this turn
  limit,        \* request_timeout of this turn
  operations,   \* history: network operations of the requests of this turn
  pending,      \* calls of the answer still to be handled
  delivered,    \* bytes of tool output, those refused included
  shown,        \* bytes of tool output in the messages
  inspections,  \* inspection_calls
  runtimeRead,  \* runtime_source_read
  submitted,    \* the review the model submitted, NoFinding before
  observation   \* what review() returns, Unfinished before

loop == <<step, attempt, limit, operations, pending>>
reads == <<delivered, shown, inspections, runtimeRead>>
vars == <<deadline, now, pc, loop, reads, submitted, observation>>

NoFinding == Finding("none", {}, {})
Unfinished == [ok |-> FALSE, finding |-> NoFinding, certified |-> FALSE,
               failure |-> "-", steps |-> 0, bytes |-> 0]

Least(a, b) == IF a <= b THEN a ELSE b

Leased == deadline # NoDeadline
LeaseOver == Leased /\ deadline <= now

(* The times at which a wait that begins now may have ended.               *)
Until(end) == IF Leased THEN now..end ELSE {now}

(* httpx applies the timeout to each network operation of a request, from  *)
(* getting a connection to each read; nothing bounds their number.         *)
RequestEnds(n) == Until(now + n * limit)

-----------------------------------------------------------------------------
(* The ends of a review.                                                   *)
End(result) ==
  /\ pc' = "ended" /\ observation' = result
  /\ UNCHANGED <<deadline, loop>>

Failed(disposition) == [Unfinished EXCEPT !.failure = disposition]

(* OSError, ValueError, TarError or HTTPError without a budget behind it.  *)
Fails == End(Failed("retryable_infra")) /\ UNCHANGED <<reads, submitted>>

(* SourceReviewBudgetExhausted, and the audit it carries.                  *)
Exhausted(bytes) ==
  End([Failed("pass_inconclusive") EXCEPT !.steps = step, !.bytes = bytes])

(* An exception review() does not catch.                                   *)
Escapes ==
  /\ pc' = "raised"
  /\ UNCHANGED <<deadline, now, loop, reads, submitted, observation>>

Goto(point) ==
  /\ pc' = point
  /\ UNCHANGED <<deadline, submitted, observation>>

Init ==
  /\ deadline \in Deadlines /\ now = 0
  /\ pc = "start"
  /\ step = 0 /\ attempt = 0 /\ limit = 0 /\ operations = 0 /\ pending = 0
  /\ delivered = 0 /\ shown = 0 /\ inspections = 0 /\ runtimeRead = FALSE
  /\ submitted = NoFinding /\ observation = Unfinished

(* The key, the archive, the inventory and the provenance.                 *)
Prepare ==
  /\ pc = "start"
  /\ \/ Goto("turn") /\ UNCHANGED <<loop, reads>>
     \/ Fails
  /\ UNCHANGED now

-----------------------------------------------------------------------------
(* The head of the loop                                                    *)

(* Slip: the timeout of a turn is not cut to the lease.                    *)
TurnLimitUncut == Timeout

(* Cut once a turn, to what is left when it begins.                        *)
TurnLimit == IF Leased THEN Least(Timeout, deadline - now) ELSE Timeout

BeginTurn ==
  /\ pc = "turn" /\ step < MaxSteps /\ ~LeaseOver
  /\ step' = step + 1 /\ attempt' = 1 /\ limit' = TurnLimit /\ operations' = 0
  /\ Goto("post")
  /\ UNCHANGED <<now, pending, reads>>

LeaseEndsReview ==
  /\ pc = "turn" /\ step < MaxSteps /\ LeaseOver
  /\ Fails /\ UNCHANGED now

StepsExhausted ==
  /\ pc = "turn" /\ step = MaxSteps
  /\ Exhausted(delivered) /\ UNCHANGED <<now, reads, submitted>>

-----------------------------------------------------------------------------
(* _post_completion                                                        *)

(* No answer, 429 or 5xx; every attempt has the timeout of the turn.       *)
RequestRetried(n) ==
  /\ pc = "post" /\ attempt <= Len(Delays)
  /\ operations' = operations + n
  /\ \E end \in RequestEnds(n) :
       now' = IF Leased THEN end + Delays[attempt] ELSE now
  /\ attempt' = attempt + 1
  /\ Goto("post")
  /\ UNCHANGED <<step, limit, pending, reads>>

(* The last attempt failed, another 4xx, or an answer that is no message   *)
(* with tool calls.                                                        *)
RequestFails(n) ==
  /\ pc = "post"
  /\ operations' = operations + n
  /\ now' \in RequestEnds(n)
  /\ pc' = "ended" /\ observation' = Failed("retryable_infra")
  /\ UNCHANGED <<deadline, step, attempt, limit, pending, reads, submitted>>

Responds(n) ==
  /\ pc = "post"
  /\ operations' = operations + n
  /\ now' \in RequestEnds(n)
  /\ pending' \in 1..MaxCalls
  /\ Goto("calls")
  /\ UNCHANGED <<step, attempt, limit, reads>>

-----------------------------------------------------------------------------
(* The calls of an answer                                                  *)

(* _tool_call and _execute_tool refuse a call that is not one of theirs;   *)
(* the submission is refused if its fields are not what they must be.      *)
CallInvalid ==
  /\ pc = "calls" /\ pending > 0
  /\ Fails /\ UNCHANGED now

(* A list where a risk or a category belongs cannot be hashed, which is a  *)
(* TypeError.                                                              *)
SubmissionUnhashable ==
  /\ pc = "calls" /\ pending > 0
  /\ Escapes

(* Slip: the audit has what was delivered before.                          *)
InspectCountingShown(bytes, runtime) ==
  /\ pc = "calls" /\ pending > 0
  /\ inspections' = inspections + 1
  /\ runtimeRead' = (runtimeRead \/ runtime)
  /\ delivered' = delivered + bytes
  /\ IF delivered' > ReadBudget
     THEN Exhausted(shown) /\ UNCHANGED <<shown, submitted>>
     ELSE /\ shown' = delivered'
          /\ pending' = pending - 1
          /\ Goto("calls")
          /\ UNCHANGED <<step, attempt, limit, operations>>
  /\ UNCHANGED now

(* The output of an inspection, unless it exceeds what may be delivered.   *)
(* A read counts for the runtime source by the name of its path.           *)
Inspect(bytes, runtime) ==
  /\ pc = "calls" /\ pending > 0
  /\ inspections' = inspections + 1
  /\ runtimeRead' = (runtimeRead \/ runtime)
  /\ delivered' = delivered + bytes
  /\ IF delivered' > ReadBudget
     THEN Exhausted(delivered') /\ UNCHANGED <<shown, submitted>>
     ELSE /\ shown' = delivered'
          /\ pending' = pending - 1
          /\ Goto("calls")
          /\ UNCHANGED <<step, attempt, limit, operations>>
  /\ UNCHANGED now

(* submit_review ends the loop at once; what it submits is judged after.   *)
Certified == inspections >= 2 /\ runtimeRead

Submit(review) ==
  /\ pc = "calls" /\ pending > 0
  /\ submitted' = review
  /\ IF Consistent(review)
     THEN End([Unfinished EXCEPT
                 !.ok = TRUE, !.finding = Filtered(review),
                 !.certified = (Filtered(review).risk # "low" \/ Certified)])
     ELSE End(Failed("retryable_infra"))
  /\ UNCHANGED <<now, reads>>

TurnEnds ==
  /\ pc = "calls" /\ pending = 0
  /\ Goto("turn")
  /\ UNCHANGED <<now, loop, reads>>

Next ==
  \/ Prepare
  \/ BeginTurn \/ LeaseEndsReview \/ StepsExhausted
  \/ \E n \in 1..MaxOperations :
       RequestRetried(n) \/ RequestFails(n) \/ Responds(n)
  \/ CallInvalid \/ SubmissionUnhashable
  \/ \E bytes \in Outputs, runtime \in BOOLEAN : Inspect(bytes, runtime)
  \/ \E review \in Submissions : Submit(review)
  \/ TurnEnds

Spec == Init /\ [][Next]_vars

-----------------------------------------------------------------------------
Observations ==
  [ok : BOOLEAN, certified : BOOLEAN,
   finding : [risk : Risks \cup {"none"}, categories : SUBSET Claims,
              evidence : SUBSET Citations],
   failure : {"-", "retryable_infra", "pass_inconclusive"},
   steps : 0..MaxSteps, bytes : Nat]

(* Types of every variable.                                                *)
TypeOK ==
  /\ deadline \in Deadlines /\ now \in Nat
  /\ pc \in {"start", "turn", "post", "calls", "ended", "raised"}
  /\ step \in 0..MaxSteps /\ attempt \in 0..(Len(Delays) + 1)
  /\ limit \in 0..Timeout /\ operations \in Nat /\ pending \in 0..MaxCalls
  /\ delivered \in Nat /\ shown \in Nat /\ inspections \in Nat
  /\ runtimeRead \in BOOLEAN
  /\ submitted \in Submissions \cup {NoFinding}
  /\ observation \in Observations

(* The first n delays together.                                            *)
Waits[n \in 0..Len(Delays)] == IF n = 0 THEN 0 ELSE Waits[n - 1] + Delays[n]

(* A review under a lease outlives it by one turn at most: by the network  *)
(* operations of the requests of the turn in which the lease ended, all    *)
(* but one of them, each with its own timeout, and by the delays between   *)
(* those requests.  No turn begins after it.                               *)
OverrunIsOneTurn ==
  Leased /\ now > deadline =>
    now <= deadline + (operations - 1) * Timeout + Waits[attempt - 1]

(* The model is never sent more than the budget, and a review that needed  *)
(* more is deferred with what it used, never retried: of every exhausted   *)
(* review the audit says which bound was reached, and by how much.         *)
ExhaustionIsExact ==
  /\ shown <= ReadBudget
  /\ pc = "ended" /\ delivered > ReadBudget
       => observation.failure = "pass_inconclusive"
  /\ observation.failure = "pass_inconclusive"
       => /\ observation.bytes = delivered /\ observation.steps = step
          /\ observation.steps = MaxSteps \/ observation.bytes > ReadBudget

(* What selects a hold rests on code: every category of an elevated        *)
(* finding has a citation, made by the model, of an existing place that is *)
(* not known to be inert (opaque members count as Executable).             *)
FindingIsGrounded ==
  observation.ok /\ Elevated(observation.finding.risk)
    => \A k \in observation.finding.categories :
         \E c \in observation.finding.evidence \cap submitted.evidence :
           c.category = k /\ c.place \in Existing \cap Executable

(* The filter releases nobody against whom one claim stands: a review that *)
(* raised a category and cited an executable line for it stays elevated,   *)
(* however many of its other citations were dropped.                       *)
LiveClaimIsNeverCleared ==
  observation.ok /\ observation.finding.risk = "low" /\ Elevated(submitted.risk)
    => ~\E c \in submitted.evidence :
           /\ c.category \in submitted.categories
           /\ c.place \in Existing \cap Executable
=============================================================================
