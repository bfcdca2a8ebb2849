------------------------- MODULE ScreenerWorker_proofs -------------------------
(***************************************************************************)
(* What TLAPS proves of the two models of worker.py: of ScreenerWorker for *)
(* any attempts, claims, settings, lanes, number of tries and crashes, and *)
(* of Heartbeat for any agents, stages and clock.                          *)
(***************************************************************************)
EXTENDS ScreenerWorker, Heartbeat, TLAPS

Answered == {v.attempt : v \in posted}
Busy == {"item", "screen", "decided", "posting", "finally"}

(* The item at hand was leased; up to its verdict its attempt is not       *)
(* answered, and while that is posted, it is the only thing to be posted.  *)
ItemInv ==
  /\ pc \in Busy => item \in Items /\ lease[item.attempt] # "free"
  /\ pc \in {"item", "screen", "decided"} => item.attempt \notin Answered
  /\ pc \in {"decided", "posting"} => outcome \in Outcomes
  /\ pc = "posting" => try # 0 /\ Verdict(outcome) \in posted

(* What is still to come was leased, each attempt once, and not answered.  *)
QueueInv ==
  \A i \in DOMAIN queue :
    /\ lease[queue[i].attempt] # "free"
    /\ queue[i].attempt \notin Answered
    /\ pc \in Busy => queue[i].attempt # item.attempt
    /\ \A j \in DOMAIN queue : queue[i].attempt = queue[j].attempt => i = j

(* The worker knows of an image only if it was uploaded for its item, and  *)
(* has none if the decision does not pass.                                 *)
ImageInv ==
  /\ image # NoAttempt =>
       /\ pc \in {"screen", "decided", "posting", "finally"}
       /\ image = item.attempt /\ image \in uploaded
  /\ pc = "decided" /\ image # NoAttempt => outcome \in PassingOutcomes

AnsweredInv == \A v \in posted : lease[v.attempt] # "free"

IInv == TypeOK /\ ItemInv /\ QueueInv /\ ImageInv /\ AnsweredInv

(* What a process knows at its end, and at its start, is well typed.       *)
LEMMA DieTypes ==
  ASSUME TypeOK, Die, crashes' \in 0..MaxCrashes
  PROVE  LoopTypes'
<1>1. <<>> \in Seq(Items)
  OBVIOUS
<1> QED
  BY <1>1, WorkerAssumption DEF TypeOK, LoopTypes, Die

(* What the first of a queue and the rest of it are.                       *)
LEMMA QueueTypes ==
  ASSUME queue \in Seq(Items), queue # <<>>
  PROVE  Head(queue) \in Items /\ Tail(queue) \in Seq(Items)
OBVIOUS

(* What a claim hands out: leased before by no one, each attempt once.     *)
LEMMA ClaimTypes ==
  ASSUME NEW is \in Claims
  PROVE  /\ is \in Seq(Items)
         /\ \A i \in DOMAIN is : lease[is[i].attempt] = "free"
         /\ \A i, j \in DOMAIN is : is[i].attempt = is[j].attempt => i = j
<1>1. PICK n \in 0..MaxClaim : is \in [1..n -> Items]
  BY DEF Claims
<1>2. n \in Nat
  BY WorkerAssumption
<1>3. is \in Seq(Items)
  BY <1>1, <1>2
<1> QED
  BY <1>3 DEF Claims, Free

(* A decided item gives a well-typed verdict.                              *)
LEMMA VerdictTypes ==
  ASSUME TypeOK, ItemInv, pc \in {"decided", "posting"}
  PROVE  Verdict(outcome) \in Verdicts
<1>1. item.attempt \in Attempts
  BY DEF ItemInv, Busy, Items
<1>2. Signed(status) \in Settings \cup {NoSettings}
  BY DEF TypeOK, LoopTypes, Signed
<1> QED
  BY <1>1, <1>2 DEF TypeOK, LoopTypes, ItemInv, Verdict, Verdicts

(* What a post leaves of the call, and of what was said.                   *)
LEMMA PostTypes ==
  ASSUME CallTypes, HistoryTypes, NEW v \in Verdicts, NEW n \in 1..Tries, Post(v, n)
  PROVE  CallTypes' /\ posted' \subseteq Verdicts
BY WorkerAssumption DEF CallTypes, HistoryTypes, Post

(* Every step keeps the types of what the loop remembers.                  *)
LEMMA LoopStep ==
  ASSUME TypeOK, ItemInv, [Next]_vars
  PROVE  LoopTypes'
<1> USE WorkerAssumption DEF TypeOK, LoopTypes, vars, memory, rest, call, platform, history
<1>1. CASE Poll
  BY <1>1 DEF Poll, Go, ItemInv, Items, NoItem, Busy, Outcomes
<1>2. CASE GetReviewSettings
  BY <1>2 DEF GetReviewSettings, Go, ItemInv, Items, NoItem, Busy, Outcomes
<1>3. CASE RequiredPolicyAgrees
  BY <1>3 DEF RequiredPolicyAgrees, Go, ItemInv, Items, NoItem, Busy, Outcomes
<1>4. CASE SweepFails
  <2>1. CASE Die
    BY <1>4, <2>1, DieTypes DEF SweepFails
  <2>2. CASE Go("poll") /\ UNCHANGED <<stop, memory, try, answer>>
    BY <1>4, <2>2 DEF SweepFails, Go
  <2> QED
    BY <1>4, <2>1, <2>2 DEF SweepFails
<1>5. CASE Claim
  <2>1. PICK is \in Claims :
          \/ queue' = is /\ Go("next") /\ UNCHANGED <<stop, try, answer, rest>>
          \/ Go("poll") /\ UNCHANGED <<stop, try, answer, queue, rest>>
          \/ Die
    BY <1>5 DEF Claim
  <2>2. is \in Seq(Items)
    BY ClaimTypes
  <2>3. CASE Die
    BY <1>5, <2>3, DieTypes DEF Claim
  <2>4. CASE ~Die
    BY <1>5, <2>1, <2>2, <2>4 DEF Claim, Go
  <2> QED
    BY <2>3, <2>4
<1>6. CASE EndSweep
  <2>1. <<>> \in Seq(Items)
    OBVIOUS
  <2> QED
    BY <1>6, <2>1 DEF EndSweep, Go
<1>7. CASE BeginItem
  BY <1>7, QueueTypes DEF BeginItem, Go
<1>8. CASE DecideUnscreened
  BY <1>8 DEF DecideUnscreened, Go, Decide, ItemInv, Items, NoItem, Busy, Outcomes
<1>9. CASE Unsupported
  BY <1>9 DEF Unsupported, Go, ItemInv, Items, NoItem, Busy, Outcomes
<1>10. CASE GetArtifact
  BY <1>10 DEF GetArtifact, Go, ItemInv, Items, NoItem, Busy, Outcomes
<1>11. CASE ArtifactFails
  BY <1>11 DEF ArtifactFails, Go, Except, ItemInv, Items, NoItem, Busy, Outcomes
<1>12. CASE PublishImage
  BY <1>12 DEF PublishImage, ItemInv, Items, NoItem, Busy, Outcomes
<1>13. CASE ScreenReturns
  BY <1>13 DEF ScreenReturns, Go, Decide, ItemInv, Items, NoItem, Busy, Outcomes
<1>14. CASE ScreenRaises
  BY <1>14 DEF ScreenRaises, Go, ItemInv, Items, NoItem, Busy, Outcomes
<1>15. CASE SubmitShadowReview
  BY <1>15 DEF SubmitShadowReview, Go, Reportable, ItemInv, Items, NoItem, Busy, Outcomes
<1>16. CASE SubmitResult
  BY <1>16 DEF SubmitResult, Go, Post, ItemInv, Items, NoItem, Busy, Outcomes
<1>17. CASE RetryVerdict
  BY <1>17 DEF RetryVerdict, Post, ItemInv, Items, NoItem, Busy, Outcomes
<1>18. CASE VerdictAccepted
  BY <1>18 DEF VerdictAccepted, Go, Except, EndCall, ItemInv, Items, NoItem, Busy, Outcomes
<1>19. CASE VerdictNotApplied
  BY <1>19 DEF VerdictNotApplied, Go, EndCall, ItemInv, Items, NoItem, Busy, Outcomes
<1>20. CASE EndItem
  <2>1. CASE Die
    BY <1>20, <2>1, DieTypes DEF EndItem
  <2>2. CASE ~raising
    BY <1>20, <2>2 DEF EndItem, Go
  <2> QED
    BY <1>20, <2>1, <2>2 DEF EndItem
<1>21. CASE RequestStop
  BY <1>21 DEF RequestStop, ItemInv, Items, NoItem, Busy, Outcomes
<1>22. CASE Crash
  BY <1>22, DieTypes DEF Crash
<1>23. CASE Restart
  BY <1>23 DEF Restart, Go, ItemInv, Items, NoItem, Busy, Outcomes
<1>24. CASE Lapse
  BY <1>24 DEF Lapse, ItemInv, Items, NoItem, Busy, Outcomes
<1>25. CASE Platform
  BY <1>25 DEF Platform, Handle, ItemInv, Items, NoItem, Busy, Outcomes
<1>26. CASE UNCHANGED vars
  BY <1>26 DEF ItemInv, Items, NoItem, Busy, Outcomes
<1> QED
  BY <1>1, <1>2, <1>3, <1>4, <1>5, <1>6, <1>7, <1>8, <1>9, <1>10, <1>11, <1>12, <1>13, <1>14, <1>15, <1>16, <1>17, <1>18, <1>19, <1>20, <1>21, <1>22, <1>23, <1>24, <1>25, <1>26 DEF Next, Worker

(* Every step keeps the types of the verdict requests.                     *)
LEMMA CallStep ==
  ASSUME TypeOK, ItemInv, [Next]_vars
  PROVE  CallTypes'
<1> USE WorkerAssumption DEF TypeOK, CallTypes, vars, memory, rest, call, platform, history
<1>1. CASE Poll
  BY <1>1 DEF Poll, Go, LoopTypes, ItemInv, Busy
<1>2. CASE GetReviewSettings
  BY <1>2 DEF GetReviewSettings, Go, LoopTypes, ItemInv, Busy
<1>3. CASE RequiredPolicyAgrees
  BY <1>3 DEF RequiredPolicyAgrees, Go, LoopTypes, ItemInv, Busy
<1>4. CASE SweepFails
  BY <1>4 DEF SweepFails, Go, Die, LoopTypes, ItemInv, Busy
<1>5. CASE Claim
  BY <1>5 DEF Claim, Go, Die, Claims, Free, LoopTypes, ItemInv, Busy
<1>6. CASE EndSweep
  BY <1>6 DEF EndSweep, Go, LoopTypes, ItemInv, Busy
<1>7. CASE BeginItem
  BY <1>7 DEF BeginItem, Go, LoopTypes, ItemInv, Busy
<1>8. CASE DecideUnscreened
  BY <1>8 DEF DecideUnscreened, Go, Decide, LoopTypes, ItemInv, Busy
<1>9. CASE Unsupported
  BY <1>9 DEF Unsupported, Go, LoopTypes, ItemInv, Busy
<1>10. CASE GetArtifact
  BY <1>10 DEF GetArtifact, Go, LoopTypes, ItemInv, Busy
<1>11. CASE ArtifactFails
  BY <1>11 DEF ArtifactFails, Go, Except, LoopTypes, ItemInv, Busy
<1>12. CASE PublishImage
  BY <1>12 DEF PublishImage, LoopTypes, ItemInv, Busy
<1>13. CASE ScreenReturns
  BY <1>13 DEF ScreenReturns, Go, Decide, LoopTypes, ItemInv, Busy
<1>14. CASE ScreenRaises
  BY <1>14 DEF ScreenRaises, Go, LoopTypes, ItemInv, Busy
<1>15. CASE SubmitShadowReview
  BY <1>15 DEF SubmitShadowReview, Go, Reportable, LoopTypes, ItemInv, Busy
<1>16. CASE SubmitResult
  BY <1>16, VerdictTypes, PostTypes DEF SubmitResult
<1>17. CASE RetryVerdict
  <2>1. try + 1 \in 1..Tries /\ pc = "posting"
    BY <1>17 DEF RetryVerdict
  <2> QED
    BY <1>17, <2>1, VerdictTypes, PostTypes DEF RetryVerdict
<1>18. CASE VerdictAccepted
  BY <1>18 DEF VerdictAccepted, Go, Except, EndCall, LoopTypes, ItemInv, Busy
<1>19. CASE VerdictNotApplied
  BY <1>19 DEF VerdictNotApplied, Go, EndCall, LoopTypes, ItemInv, Busy
<1>20. CASE EndItem
  BY <1>20 DEF EndItem, Go, Die, LoopTypes, ItemInv, Busy
<1>21. CASE RequestStop
  BY <1>21 DEF RequestStop, LoopTypes, ItemInv, Busy
<1>22. CASE Crash
  BY <1>22 DEF Crash, Die, LoopTypes, ItemInv, Busy
<1>23. CASE Restart
  BY <1>23 DEF Restart, Go, LoopTypes, ItemInv, Busy
<1>24. CASE Lapse
  BY <1>24 DEF Lapse, LoopTypes, ItemInv, Busy
<1>25. CASE Platform
  BY <1>25 DEF Platform, Handle, LoopTypes, ItemInv, Busy
<1>26. CASE UNCHANGED vars
  BY <1>26 DEF LoopTypes, ItemInv, Busy
<1> QED
  BY <1>1, <1>2, <1>3, <1>4, <1>5, <1>6, <1>7, <1>8, <1>9, <1>10, <1>11, <1>12, <1>13, <1>14, <1>15, <1>16, <1>17, <1>18, <1>19, <1>20, <1>21, <1>22, <1>23, <1>24, <1>25, <1>26 DEF Next, Worker

(* Every step keeps the types of the platform and of the histories.        *)
LEMMA RecordStep ==
  ASSUME TypeOK, ItemInv, [Next]_vars
  PROVE  PlatformTypes' /\ HistoryTypes'
<1> USE WorkerAssumption DEF TypeOK, PlatformTypes, HistoryTypes, vars, memory, rest, call, platform, history
<1>1. CASE Poll
  BY <1>1 DEF Poll, Go, LoopTypes, CallTypes, ItemInv, Busy, Items
<1>2. CASE GetReviewSettings
  BY <1>2 DEF GetReviewSettings, Go, LoopTypes, CallTypes, ItemInv, Busy, Items
<1>3. CASE RequiredPolicyAgrees
  BY <1>3 DEF RequiredPolicyAgrees, Go, LoopTypes, CallTypes, ItemInv, Busy, Items
<1>4. CASE SweepFails
  BY <1>4 DEF SweepFails, Go, Die, LoopTypes, CallTypes, ItemInv, Busy, Items
<1>5. CASE Claim
  BY <1>5 DEF Claim, Go, Die, Claims, Free, LoopTypes, CallTypes, ItemInv, Busy, Items
<1>6. CASE EndSweep
  BY <1>6 DEF EndSweep, Go, LoopTypes, CallTypes, ItemInv, Busy, Items
<1>7. CASE BeginItem
  BY <1>7 DEF BeginItem, Go, LoopTypes, CallTypes, ItemInv, Busy, Items
<1>8. CASE DecideUnscreened
  BY <1>8 DEF DecideUnscreened, Go, Decide, LoopTypes, CallTypes, ItemInv, Busy, Items
<1>9. CASE Unsupported
  BY <1>9 DEF Unsupported, Go, LoopTypes, CallTypes, ItemInv, Busy, Items
<1>10. CASE GetArtifact
  BY <1>10 DEF GetArtifact, Go, LoopTypes, CallTypes, ItemInv, Busy, Items
<1>11. CASE ArtifactFails
  BY <1>11 DEF ArtifactFails, Go, Except, LoopTypes, CallTypes, ItemInv, Busy, Items
<1>12. CASE PublishImage
  BY <1>12 DEF PublishImage, LoopTypes, CallTypes, ItemInv, Busy, Items
<1>13. CASE ScreenReturns
  BY <1>13 DEF ScreenReturns, Go, Decide, LoopTypes, CallTypes, ItemInv, Busy, Items
<1>14. CASE ScreenRaises
  BY <1>14 DEF ScreenRaises, Go, LoopTypes, CallTypes, ItemInv, Busy, Items
<1>15. CASE SubmitShadowReview
  BY <1>15 DEF SubmitShadowReview, Go, Reportable, LoopTypes, CallTypes, ItemInv, Busy, Items
<1>16. CASE SubmitResult
  BY <1>16, VerdictTypes, PostTypes DEF SubmitResult
<1>17. CASE RetryVerdict
  <2>1. try + 1 \in 1..Tries /\ pc = "posting"
    BY <1>17 DEF RetryVerdict, CallTypes
  <2> QED
    BY <1>17, <2>1, VerdictTypes, PostTypes DEF RetryVerdict
<1>18. CASE VerdictAccepted
  BY <1>18 DEF VerdictAccepted, Go, Except, EndCall, LoopTypes, CallTypes, ItemInv, Busy, Items
<1>19. CASE VerdictNotApplied
  BY <1>19 DEF VerdictNotApplied, Go, EndCall, LoopTypes, CallTypes, ItemInv, Busy, Items
<1>20. CASE EndItem
  BY <1>20 DEF EndItem, Go, Die, LoopTypes, CallTypes, ItemInv, Busy, Items
<1>21. CASE RequestStop
  BY <1>21 DEF RequestStop, LoopTypes, CallTypes, ItemInv, Busy, Items
<1>22. CASE Crash
  BY <1>22 DEF Crash, Die, LoopTypes, CallTypes, ItemInv, Busy, Items
<1>23. CASE Restart
  BY <1>23 DEF Restart, Go, LoopTypes, CallTypes, ItemInv, Busy, Items
<1>24. CASE Lapse
  BY <1>24 DEF Lapse, LoopTypes, CallTypes, ItemInv, Busy, Items
<1>25. CASE Platform
  BY <1>25 DEF Platform, Handle, LoopTypes, CallTypes, ItemInv, Busy, Items
<1>26. CASE UNCHANGED vars
  BY <1>26 DEF LoopTypes, CallTypes, ItemInv, Busy, Items
<1> QED
  BY <1>1, <1>2, <1>3, <1>4, <1>5, <1>6, <1>7, <1>8, <1>9, <1>10, <1>11, <1>12, <1>13, <1>14, <1>15, <1>16, <1>17, <1>18, <1>19, <1>20, <1>21, <1>22, <1>23, <1>24, <1>25, <1>26 DEF Next, Worker

(* Every step keeps what is known of the item at hand.                     *)
LEMMA ItemStep ==
  ASSUME IInv, [Next]_vars
  PROVE  ItemInv'
<1> USE WorkerAssumption DEF IInv, ItemInv, Busy, Answered, Verdict, vars, memory, rest, call, platform, history
<1>1. CASE Poll
  BY <1>1 DEF Poll, Go, TypeOK, LoopTypes, PlatformTypes, CallTypes, Items
<1>2. CASE GetReviewSettings
  BY <1>2 DEF GetReviewSettings, Go, TypeOK, LoopTypes, PlatformTypes, CallTypes, Items
<1>3. CASE RequiredPolicyAgrees
  BY <1>3 DEF RequiredPolicyAgrees, Go, TypeOK, LoopTypes, PlatformTypes, CallTypes, Items
<1>4. CASE SweepFails
  BY <1>4 DEF SweepFails, Go, Die, TypeOK, LoopTypes, PlatformTypes, CallTypes, Items
<1>5. CASE Claim
  BY <1>5 DEF Claim, Go, Die, Claims, Free, TypeOK, LoopTypes, PlatformTypes, CallTypes, Items
<1>6. CASE EndSweep
  BY <1>6 DEF EndSweep, Go, TypeOK, LoopTypes, PlatformTypes, CallTypes, Items
<1>7. CASE BeginItem
  <2>1. queue[1] = Head(queue) /\ 1 \in DOMAIN queue /\ Head(queue) \in Items
    BY <1>7, QueueTypes DEF BeginItem, TypeOK, LoopTypes
  <2>2. lease[Head(queue).attempt] # "free" /\ Head(queue).attempt \notin Answered
    BY <2>1 DEF QueueInv
  <2> QED
    BY <1>7, <2>1, <2>2 DEF BeginItem, Go
<1>8. CASE DecideUnscreened
  BY <1>8 DEF DecideUnscreened, Go, Decide, Outcomes
<1>9. CASE Unsupported
  BY <1>9 DEF Unsupported, Go, TypeOK, LoopTypes, PlatformTypes, CallTypes, Items
<1>10. CASE GetArtifact
  BY <1>10 DEF GetArtifact, Go, TypeOK, LoopTypes, PlatformTypes, CallTypes, Items
<1>11. CASE ArtifactFails
  BY <1>11 DEF ArtifactFails, Go, Except, TypeOK, LoopTypes, PlatformTypes, CallTypes, Items
<1>12. CASE PublishImage
  BY <1>12 DEF PublishImage, TypeOK, LoopTypes, PlatformTypes, CallTypes, Items
<1>13. CASE ScreenReturns
  BY <1>13 DEF ScreenReturns, Go, Decide, Outcomes
<1>14. CASE ScreenRaises
  BY <1>14 DEF ScreenRaises, Go, TypeOK, LoopTypes, PlatformTypes, CallTypes, Items
<1>15. CASE SubmitShadowReview
  BY <1>15 DEF SubmitShadowReview, Go, Reportable, TypeOK, LoopTypes, PlatformTypes, CallTypes, Items
<1>16. CASE SubmitResult
  BY <1>16 DEF SubmitResult, Go, Post, TypeOK, LoopTypes, PlatformTypes, CallTypes, Items
<1>17. CASE RetryVerdict
  BY <1>17 DEF RetryVerdict, Post, TypeOK, LoopTypes, PlatformTypes, CallTypes, Items
<1>18. CASE VerdictAccepted
  BY <1>18 DEF VerdictAccepted, Go, Except, EndCall, TypeOK, LoopTypes, PlatformTypes, CallTypes, Items
<1>19. CASE VerdictNotApplied
  BY <1>19 DEF VerdictNotApplied, Go, EndCall, TypeOK, LoopTypes, PlatformTypes, CallTypes, Items
<1>20. CASE EndItem
  BY <1>20 DEF EndItem, Go, Die, TypeOK, LoopTypes, PlatformTypes, CallTypes, Items
<1>21. CASE RequestStop
  BY <1>21 DEF RequestStop, TypeOK, LoopTypes, PlatformTypes, CallTypes, Items
<1>22. CASE Crash
  BY <1>22 DEF Crash, Die, TypeOK, LoopTypes, PlatformTypes, CallTypes, Items
<1>23. CASE Restart
  BY <1>23 DEF Restart, Go, TypeOK, LoopTypes, PlatformTypes, CallTypes, Items
<1>24. CASE Lapse
  BY <1>24 DEF Lapse, TypeOK, LoopTypes, PlatformTypes, CallTypes, Items
<1>25. CASE Platform
  BY <1>25 DEF Platform, Handle, TypeOK, LoopTypes, PlatformTypes, CallTypes, Items
<1>26. CASE UNCHANGED vars
  BY <1>26 DEF TypeOK, LoopTypes, PlatformTypes, CallTypes, Items
<1> QED
  BY <1>1, <1>2, <1>3, <1>4, <1>5, <1>6, <1>7, <1>8, <1>9, <1>10, <1>11, <1>12, <1>13, <1>14, <1>15, <1>16, <1>17, <1>18, <1>19, <1>20, <1>21, <1>22, <1>23, <1>24, <1>25, <1>26 DEF Next, Worker

(* Every step keeps what is known of the items to come.                    *)
LEMMA QueueStep ==
  ASSUME IInv, [Next]_vars
  PROVE  QueueInv'
<1> USE WorkerAssumption DEF IInv, QueueInv, Busy, Answered, vars, memory, rest, call, platform, history
<1>1. CASE Poll
  BY <1>1 DEF Poll, Go, TypeOK, LoopTypes, PlatformTypes
<1>2. CASE GetReviewSettings
  BY <1>2 DEF GetReviewSettings, Go, TypeOK, LoopTypes, PlatformTypes
<1>3. CASE RequiredPolicyAgrees
  BY <1>3 DEF RequiredPolicyAgrees, Go, TypeOK, LoopTypes, PlatformTypes
<1>4. CASE SweepFails
  BY <1>4 DEF SweepFails, Go, Die, TypeOK, LoopTypes, PlatformTypes
<1>5. CASE Claim
  <2>1. PICK is \in Claims :
          /\ lease' = [a \in Attempts |-> IF \E i \in DOMAIN is : is[i].attempt = a
                                          THEN "live" ELSE lease[a]]
          /\ \/ queue' = is /\ Go("next") /\ UNCHANGED <<stop, try, answer, rest>>
             \/ Go("poll") /\ UNCHANGED <<stop, try, answer, queue, rest>>
             \/ Die
    BY <1>5 DEF Claim
  <2>2. posted' = posted /\ pc' \notin Busy
    BY <1>5, <2>1 DEF Claim, Go, Die
  <2>3. \A i \in DOMAIN queue : lease'[queue[i].attempt] # "free"
    <3>1. \A i \in DOMAIN queue : queue[i] \in Items
      BY DEF TypeOK, LoopTypes
    <3>2. \A i \in DOMAIN queue : queue[i].attempt \in Attempts
      BY <3>1 DEF Items
    <3> QED
      BY <2>1, <3>2
  <2>4. CASE queue' = is
    <3>1. \A i \in DOMAIN is : is[i].attempt \in Attempts
      <4>1. is \in Seq(Items)
        BY ClaimTypes
      <4>2. \A i \in DOMAIN is : is[i] \in Items
        BY <4>1
      <4> QED
        BY <4>2 DEF Items
    <3>2. \A i \in DOMAIN is : is[i].attempt \notin Answered
      BY ClaimTypes DEF AnsweredInv
    <3>3. \A i \in DOMAIN is : lease'[is[i].attempt] # "free"
      BY <2>1, <3>1
    <3> QED
      BY <2>2, <2>4, <3>2, <3>3, ClaimTypes
  <2>5. CASE queue' = queue
    BY <2>2, <2>3, <2>5
  <2>6. CASE queue' = <<>>
    BY <2>6
  <2> QED
    BY <2>1, <2>4, <2>5, <2>6 DEF Die
<1>6. CASE EndSweep
  BY <1>6 DEF EndSweep, Go, TypeOK, LoopTypes, PlatformTypes
<1>7. CASE BeginItem
  BY <1>7 DEF BeginItem, Go, TypeOK, LoopTypes, PlatformTypes
<1>8. CASE DecideUnscreened
  BY <1>8 DEF DecideUnscreened, Go, Decide, TypeOK, LoopTypes, PlatformTypes
<1>9. CASE Unsupported
  BY <1>9 DEF Unsupported, Go, TypeOK, LoopTypes, PlatformTypes
<1>10. CASE GetArtifact
  BY <1>10 DEF GetArtifact, Go, TypeOK, LoopTypes, PlatformTypes
<1>11. CASE ArtifactFails
  BY <1>11 DEF ArtifactFails, Go, Except, TypeOK, LoopTypes, PlatformTypes
<1>12. CASE PublishImage
  BY <1>12 DEF PublishImage, TypeOK, LoopTypes, PlatformTypes
<1>13. CASE ScreenReturns
  BY <1>13 DEF ScreenReturns, Go, Decide, TypeOK, LoopTypes, PlatformTypes
<1>14. CASE ScreenRaises
  BY <1>14 DEF ScreenRaises, Go, TypeOK, LoopTypes, PlatformTypes
<1>15. CASE SubmitShadowReview
  BY <1>15 DEF SubmitShadowReview, Go, Reportable, TypeOK, LoopTypes, PlatformTypes
<1>16. CASE SubmitResult
  <2>1. posted' = posted \/ posted' = posted \cup {Verdict(outcome)}
    BY <1>16 DEF SubmitResult, Post
  <2>2. Verdict(outcome).attempt = item.attempt
    BY DEF Verdict
  <2>3. pc = "decided" /\ UNCHANGED <<queue, item, lease>>
    BY <1>16 DEF SubmitResult
  <2> QED
    BY <2>1, <2>2, <2>3
<1>17. CASE RetryVerdict
  <2>1. posted' = posted
    BY <1>17 DEF RetryVerdict, Post, ItemInv
  <2> QED
    BY <1>17, <2>1 DEF RetryVerdict
<1>18. CASE VerdictAccepted
  BY <1>18 DEF VerdictAccepted, Go, Except, EndCall, TypeOK, LoopTypes, PlatformTypes
<1>19. CASE VerdictNotApplied
  BY <1>19 DEF VerdictNotApplied, Go, EndCall, TypeOK, LoopTypes, PlatformTypes
<1>20. CASE EndItem
  BY <1>20 DEF EndItem, Go, Die, TypeOK, LoopTypes, PlatformTypes
<1>21. CASE RequestStop
  BY <1>21 DEF RequestStop, TypeOK, LoopTypes, PlatformTypes
<1>22. CASE Crash
  BY <1>22 DEF Crash, Die, TypeOK, LoopTypes, PlatformTypes
<1>23. CASE Restart
  BY <1>23 DEF Restart, Go, TypeOK, LoopTypes, PlatformTypes
<1>24. CASE Lapse
  BY <1>24 DEF Lapse, TypeOK, LoopTypes, PlatformTypes
<1>25. CASE Platform
  BY <1>25 DEF Platform, Handle, TypeOK, LoopTypes, PlatformTypes
<1>26. CASE UNCHANGED vars
  BY <1>26 DEF TypeOK, LoopTypes, PlatformTypes
<1> QED
  BY <1>1, <1>2, <1>3, <1>4, <1>5, <1>6, <1>7, <1>8, <1>9, <1>10, <1>11, <1>12, <1>13, <1>14, <1>15, <1>16, <1>17, <1>18, <1>19, <1>20, <1>21, <1>22, <1>23, <1>24, <1>25, <1>26 DEF Next, Worker

(* Every step keeps what is known of the image.                            *)
LEMMA ImageStep ==
  ASSUME IInv, [Next]_vars
  PROVE  ImageInv'
<1> USE WorkerAssumption DEF IInv, ImageInv, vars, memory, rest, call, platform, history
<1>1. CASE Poll
  BY <1>1 DEF Poll, Go, PassingOutcomes, ItemInv, Busy, Items
<1>2. CASE GetReviewSettings
  BY <1>2 DEF GetReviewSettings, Go, PassingOutcomes, ItemInv, Busy, Items
<1>3. CASE RequiredPolicyAgrees
  BY <1>3 DEF RequiredPolicyAgrees, Go, PassingOutcomes, ItemInv, Busy, Items
<1>4. CASE SweepFails
  BY <1>4 DEF SweepFails, Go, Die, PassingOutcomes, ItemInv, Busy, Items
<1>5. CASE Claim
  BY <1>5 DEF Claim, Go, Die, Claims, Free, PassingOutcomes, ItemInv, Busy, Items
<1>6. CASE EndSweep
  BY <1>6 DEF EndSweep, Go, PassingOutcomes, ItemInv, Busy, Items
<1>7. CASE BeginItem
  BY <1>7 DEF BeginItem, Go, PassingOutcomes, ItemInv, Busy, Items
<1>8. CASE DecideUnscreened
  BY <1>8 DEF DecideUnscreened, Go, Decide, PassingOutcomes, ItemInv, Busy, Items
<1>9. CASE Unsupported
  BY <1>9 DEF Unsupported, Go, PassingOutcomes, ItemInv, Busy, Items
<1>10. CASE GetArtifact
  BY <1>10 DEF GetArtifact, Go, PassingOutcomes, ItemInv, Busy, Items
<1>11. CASE ArtifactFails
  BY <1>11 DEF ArtifactFails, Go, Except, PassingOutcomes, ItemInv, Busy, Items
<1>12. CASE PublishImage
  BY <1>12 DEF PublishImage, PassingOutcomes, ItemInv, Busy, Items
<1>13. CASE ScreenReturns
  BY <1>13 DEF ScreenReturns, Go, Decide, PassingOutcomes, ItemInv, Busy, Items
<1>14. CASE ScreenRaises
  BY <1>14 DEF ScreenRaises, Go, PassingOutcomes, ItemInv, Busy, Items
<1>15. CASE SubmitShadowReview
  BY <1>15 DEF SubmitShadowReview, Go, Reportable, PassingOutcomes, ItemInv, Busy, Items
<1>16. CASE SubmitResult
  BY <1>16 DEF SubmitResult, Go, Post, PassingOutcomes, ItemInv, Busy, Items
<1>17. CASE RetryVerdict
  BY <1>17 DEF RetryVerdict, Post, PassingOutcomes, ItemInv, Busy, Items
<1>18. CASE VerdictAccepted
  BY <1>18 DEF VerdictAccepted, Go, Except, EndCall, PassingOutcomes, ItemInv, Busy, Items
<1>19. CASE VerdictNotApplied
  BY <1>19 DEF VerdictNotApplied, Go, EndCall, PassingOutcomes, ItemInv, Busy, Items
<1>20. CASE EndItem
  BY <1>20 DEF EndItem, Go, Die, PassingOutcomes, ItemInv, Busy, Items
<1>21. CASE RequestStop
  BY <1>21 DEF RequestStop, PassingOutcomes, ItemInv, Busy, Items
<1>22. CASE Crash
  BY <1>22 DEF Crash, Die, PassingOutcomes, ItemInv, Busy, Items
<1>23. CASE Restart
  BY <1>23 DEF Restart, Go, PassingOutcomes, ItemInv, Busy, Items
<1>24. CASE Lapse
  BY <1>24 DEF Lapse, PassingOutcomes, ItemInv, Busy, Items
<1>25. CASE Platform
  BY <1>25 DEF Platform, Handle, PassingOutcomes, ItemInv, Busy, Items
<1>26. CASE UNCHANGED vars
  BY <1>26 DEF PassingOutcomes, ItemInv, Busy, Items
<1> QED
  BY <1>1, <1>2, <1>3, <1>4, <1>5, <1>6, <1>7, <1>8, <1>9, <1>10, <1>11, <1>12, <1>13, <1>14, <1>15, <1>16, <1>17, <1>18, <1>19, <1>20, <1>21, <1>22, <1>23, <1>24, <1>25, <1>26 DEF Next, Worker

(* Every step leaves answered attempts leased.                             *)
LEMMA AnsweredStep ==
  ASSUME IInv, [Next]_vars
  PROVE  AnsweredInv'
<1> USE WorkerAssumption DEF IInv, AnsweredInv, vars, memory, rest, call, platform, history
<1>1. CASE Poll
  BY <1>1 DEF Poll, Go, TypeOK, LoopTypes, PlatformTypes, HistoryTypes, Verdicts, Verdict, ItemInv, Busy
<1>2. CASE GetReviewSettings
  BY <1>2 DEF GetReviewSettings, Go, TypeOK, LoopTypes, PlatformTypes, HistoryTypes, Verdicts, Verdict, ItemInv, Busy
<1>3. CASE RequiredPolicyAgrees
  BY <1>3 DEF RequiredPolicyAgrees, Go, TypeOK, LoopTypes, PlatformTypes, HistoryTypes, Verdicts, Verdict, ItemInv, Busy
<1>4. CASE SweepFails
  BY <1>4 DEF SweepFails, Go, Die, TypeOK, LoopTypes, PlatformTypes, HistoryTypes, Verdicts, Verdict, ItemInv, Busy
<1>5. CASE Claim
  BY <1>5 DEF Claim, Go, Die, Claims, Free, TypeOK, LoopTypes, PlatformTypes, HistoryTypes, Verdicts, Verdict, ItemInv, Busy
<1>6. CASE EndSweep
  BY <1>6 DEF EndSweep, Go, TypeOK, LoopTypes, PlatformTypes, HistoryTypes, Verdicts, Verdict, ItemInv, Busy
<1>7. CASE BeginItem
  BY <1>7 DEF BeginItem, Go, TypeOK, LoopTypes, PlatformTypes, HistoryTypes, Verdicts, Verdict, ItemInv, Busy
<1>8. CASE DecideUnscreened
  BY <1>8 DEF DecideUnscreened, Go, Decide, TypeOK, LoopTypes, PlatformTypes, HistoryTypes, Verdicts, Verdict, ItemInv, Busy
<1>9. CASE Unsupported
  BY <1>9 DEF Unsupported, Go, TypeOK, LoopTypes, PlatformTypes, HistoryTypes, Verdicts, Verdict, ItemInv, Busy
<1>10. CASE GetArtifact
  BY <1>10 DEF GetArtifact, Go, TypeOK, LoopTypes, PlatformTypes, HistoryTypes, Verdicts, Verdict, ItemInv, Busy
<1>11. CASE ArtifactFails
  BY <1>11 DEF ArtifactFails, Go, Except, TypeOK, LoopTypes, PlatformTypes, HistoryTypes, Verdicts, Verdict, ItemInv, Busy
<1>12. CASE PublishImage
  BY <1>12 DEF PublishImage, TypeOK, LoopTypes, PlatformTypes, HistoryTypes, Verdicts, Verdict, ItemInv, Busy
<1>13. CASE ScreenReturns
  BY <1>13 DEF ScreenReturns, Go, Decide, TypeOK, LoopTypes, PlatformTypes, HistoryTypes, Verdicts, Verdict, ItemInv, Busy
<1>14. CASE ScreenRaises
  BY <1>14 DEF ScreenRaises, Go, TypeOK, LoopTypes, PlatformTypes, HistoryTypes, Verdicts, Verdict, ItemInv, Busy
<1>15. CASE SubmitShadowReview
  BY <1>15 DEF SubmitShadowReview, Go, Reportable, TypeOK, LoopTypes, PlatformTypes, HistoryTypes, Verdicts, Verdict, ItemInv, Busy
<1>16. CASE SubmitResult
  BY <1>16 DEF SubmitResult, Go, Post, TypeOK, LoopTypes, PlatformTypes, HistoryTypes, Verdicts, Verdict, ItemInv, Busy
<1>17. CASE RetryVerdict
  BY <1>17 DEF RetryVerdict, Post, TypeOK, LoopTypes, PlatformTypes, HistoryTypes, Verdicts, Verdict, ItemInv, Busy
<1>18. CASE VerdictAccepted
  BY <1>18 DEF VerdictAccepted, Go, Except, EndCall, TypeOK, LoopTypes, PlatformTypes, HistoryTypes, Verdicts, Verdict, ItemInv, Busy
<1>19. CASE VerdictNotApplied
  BY <1>19 DEF VerdictNotApplied, Go, EndCall, TypeOK, LoopTypes, PlatformTypes, HistoryTypes, Verdicts, Verdict, ItemInv, Busy
<1>20. CASE EndItem
  BY <1>20 DEF EndItem, Go, Die, TypeOK, LoopTypes, PlatformTypes, HistoryTypes, Verdicts, Verdict, ItemInv, Busy
<1>21. CASE RequestStop
  BY <1>21 DEF RequestStop, TypeOK, LoopTypes, PlatformTypes, HistoryTypes, Verdicts, Verdict, ItemInv, Busy
<1>22. CASE Crash
  BY <1>22 DEF Crash, Die, TypeOK, LoopTypes, PlatformTypes, HistoryTypes, Verdicts, Verdict, ItemInv, Busy
<1>23. CASE Restart
  BY <1>23 DEF Restart, Go, TypeOK, LoopTypes, PlatformTypes, HistoryTypes, Verdicts, Verdict, ItemInv, Busy
<1>24. CASE Lapse
  BY <1>24 DEF Lapse, TypeOK, LoopTypes, PlatformTypes, HistoryTypes, Verdicts, Verdict, ItemInv, Busy
<1>25. CASE Platform
  BY <1>25 DEF Platform, Handle, TypeOK, LoopTypes, PlatformTypes, HistoryTypes, Verdicts, Verdict, ItemInv, Busy
<1>26. CASE UNCHANGED vars
  BY <1>26 DEF TypeOK, LoopTypes, PlatformTypes, HistoryTypes, Verdicts, Verdict, ItemInv, Busy
<1> QED
  BY <1>1, <1>2, <1>3, <1>4, <1>5, <1>6, <1>7, <1>8, <1>9, <1>10, <1>11, <1>12, <1>13, <1>14, <1>15, <1>16, <1>17, <1>18, <1>19, <1>20, <1>21, <1>22, <1>23, <1>24, <1>25, <1>26 DEF Next, Worker

(* The invariant holds of a process that was just started.                 *)
LEMMA InitInv == Init => IInv
<1>1. <<>> \in Seq(Items)
  OBVIOUS
<1> USE WorkerAssumption DEF Init
<1>2. Init => LoopTypes
  <2>1. Init => queue \in Seq(Items) /\ item \in Items \cup {NoItem}
    BY <1>1
  <2>2. Init => crashes \in 0..MaxCrashes
    OBVIOUS
  <2>3. Init => applied \in Settings /\ status \in Settings
    OBVIOUS
  <2> QED
    BY <2>1, <2>2, <2>3 DEF LoopTypes
<1>3. Init => CallTypes
  BY DEF CallTypes
<1>4. Init => PlatformTypes /\ HistoryTypes
  <2>1. [a \in Attempts |-> "free"] \in [Attempts -> {"free", "live", "lapsed"}]
    OBVIOUS
  <2>2. [a \in Attempts |-> NoSettings] \in [Attempts -> Settings \cup {NoSettings}]
    OBVIOUS
  <2> QED
    BY <2>1, <2>2 DEF PlatformTypes, HistoryTypes
<1>5. Init => ItemInv /\ QueueInv /\ ImageInv /\ AnsweredInv
  BY DEF ItemInv, QueueInv, ImageInv, AnsweredInv, Busy
<1> QED
  BY <1>2, <1>3, <1>4, <1>5 DEF IInv, TypeOK

(* Every step keeps the invariant.                                         *)
LEMMA Inductive == IInv /\ [Next]_vars => IInv'
BY LoopStep, CallStep, RecordStep, ItemStep, QueueStep, ImageStep, AnsweredStep
DEF IInv, TypeOK

(* The inductive invariant, which the theorems below are read from.        *)
THEOREM InvariantHolds == Spec => []IInv
BY InitInv, Inductive, PTL DEF Spec

(* Every variable keeps its type.                                          *)
THEOREM TypeCorrect == Spec => []TypeOK
BY InvariantHolds, PTL DEF IInv

(* What a step of the worker is to the ledger: an image uploaded for an    *)
(* attempt not answered yet, a first answer that is kept, or nothing.      *)
LEMMA StepRefines ==
  ASSUME IInv, [Next]_vars
  PROVE  [Ledger!Next]_<<uploaded, posted>>
<1> USE DEF vars, memory, rest, call, platform, history
<1>1. Ledger!Answered = Answered
  BY DEF Ledger!Answered, Answered
<1>2. CASE PublishImage
  <2>1. item.attempt \in Attempts /\ item.attempt \notin Answered
    BY <1>2 DEF PublishImage, IInv, ItemInv, Busy, Items
  <2>2. Ledger!Upload(item.attempt)
    BY <1>1, <1>2, <2>1 DEF PublishImage, Ledger!Upload
  <2> QED
    BY <2>1, <2>2 DEF Ledger!Next
<1>3. CASE SubmitResult
  <2>1. CASE Refused
    BY <1>3, <2>1 DEF SubmitResult
  <2>2. CASE ~Refused
    <3>1. pc = "decided" /\ posted' = posted \cup {Verdict(outcome)} /\ uploaded' = uploaded
      BY <1>3, <2>2 DEF SubmitResult, Post
    <3>2. Verdict(outcome) \in Verdicts /\ item.attempt \notin Answered
      BY <3>1, VerdictTypes DEF IInv, ItemInv
    <3>3. item.attempt \in Attempts
      BY <3>1 DEF IInv, ItemInv, Busy, Items
    <3>4. Ledger!Kept(Verdict(outcome))
      BY <2>2, <3>1, <3>3, WorkerAssumption
      DEF Verdict, Ledger!Kept, Ledger!Passing, PassingOutcomes, Refused, IInv, ImageInv
    <3>5. Ledger!Answer(Verdict(outcome))
      BY <1>1, <3>1, <3>2, <3>4 DEF Ledger!Answer, Verdict
    <3> QED
      BY <3>2, <3>5 DEF Ledger!Next
  <2> QED
    BY <2>1, <2>2
<1>4. CASE RetryVerdict
  BY <1>4 DEF RetryVerdict, Post, IInv, ItemInv
<1>5. CASE ~PublishImage /\ ~SubmitResult /\ ~RetryVerdict
  BY <1>5
  DEF Next, Worker, Poll, GetReviewSettings, RequiredPolicyAgrees, SweepFails, Claim, EndSweep,
      BeginItem, DecideUnscreened, Unsupported, GetArtifact, ArtifactFails, ScreenReturns,
      ScreenRaises, SubmitShadowReview, VerdictAccepted, VerdictNotApplied, EndItem, RequestStop,
      Crash, Restart, Lapse, Platform
<1> QED
  BY <1>2, <1>3, <1>4, <1>5

(* The worker implements the ledger: whatever is lost, repeated or         *)
(* restarted, an attempt is given one verdict, and a pass names the image  *)
(* that was uploaded for it.                                               *)
THEOREM KeepsLedgerHolds == Spec => KeepsLedger
<1>1. Init => Ledger!Init
  BY DEF Init, Ledger!Init
<1>2. IInv /\ [Next]_vars => [Ledger!Next]_<<uploaded, posted>>
  BY StepRefines
<1> QED
  BY <1>1, <1>2, InvariantHolds, PTL DEF Spec, KeepsLedger, Ledger!Spec

-----------------------------------------------------------------------------
(* An attempt that was given its artifact is leased, and is neither the    *)
(* item that begins nor one to come: no claim and no sweep screens it      *)
(* again, under other settings.                                            *)
Gathered(a) ==
  /\ lease[a] # "free"
  /\ pc = "item" => item.attempt # a
  /\ \A i \in DOMAIN queue : queue[i].attempt # a

(* The two copies of the settings agree, and stay what the item was        *)
(* screened under until its verdict and its shadow result are sent.        *)
SettingsInv ==
  /\ status = applied
  /\ \A a \in Attempts : screenedBy[a] # NoSettings => Gathered(a)
  /\ pc = "screen" => screenedBy[item.attempt] = applied
  /\ pc \in {"decided", "posting"} => screenedBy[item.attempt] \in {NoSettings, applied}
  /\ \A a \in shadow :
       /\ pc \in {"decided", "finally"} /\ a = item.attempt
       /\ screenedBy[a] = applied

(* Every step keeps the settings of an item together.                      *)
LEMMA SettingsStep ==
  ASSUME IInv, SettingsInv, [Next]_vars
  PROVE  SettingsInv'
<1> USE WorkerAssumption DEF SettingsInv, Gathered, vars, memory, rest, call, platform, history
<1>1. CASE Poll
  BY <1>1 DEF Poll, Go, IInv, ItemInv, Busy, TypeOK, LoopTypes, HistoryTypes, PlatformTypes, Items
<1>2. CASE GetReviewSettings
  BY <1>2 DEF GetReviewSettings, Go, SettingsKey, IInv, ItemInv, Busy, TypeOK, LoopTypes, HistoryTypes, PlatformTypes, Items
<1>3. CASE RequiredPolicyAgrees
  BY <1>3 DEF RequiredPolicyAgrees, Go, IInv, ItemInv, Busy, TypeOK, LoopTypes, HistoryTypes, PlatformTypes, Items
<1>4. CASE SweepFails
  BY <1>4 DEF SweepFails, Go, Die, IInv, ItemInv, Busy, TypeOK, LoopTypes, HistoryTypes, PlatformTypes, Items
<1>5. CASE Claim
  <2>1. PICK is \in Claims :
          /\ lease' = [a \in Attempts |-> IF \E i \in DOMAIN is : is[i].attempt = a
                                          THEN "live" ELSE lease[a]]
          /\ \/ queue' = is /\ Go("next") /\ UNCHANGED <<stop, try, answer, rest>>
             \/ Go("poll") /\ UNCHANGED <<stop, try, answer, queue, rest>>
             \/ Die
    BY <1>5 DEF Claim
  <2>2. /\ shadow = {} /\ shadow' = {} /\ status' = applied'
        /\ screenedBy' = screenedBy /\ pc' \in {"next", "poll", "dead"}
    BY <1>5, <2>1 DEF Claim, Go, Die
  <2>3. ASSUME NEW a \in Attempts, screenedBy[a] # NoSettings
        PROVE  lease'[a] # "free" /\ \A i \in DOMAIN queue' : queue'[i].attempt # a
    <3>1. lease[a] # "free" /\ \A i \in DOMAIN queue : queue[i].attempt # a
      BY <2>3
    <3>2. lease'[a] # "free"
      BY <2>1, <3>1
    <3>3. \A i \in DOMAIN is : is[i].attempt # a
      BY <3>1, ClaimTypes
    <3>4. queue' = is \/ queue' = queue \/ queue' = <<>>
      BY <2>1 DEF Die
    <3> QED
      BY <3>1, <3>2, <3>3, <3>4
  <2> QED
    BY <2>2, <2>3
<1>6. CASE EndSweep
  BY <1>6 DEF EndSweep, Go, IInv, ItemInv, Busy, TypeOK, LoopTypes, HistoryTypes, PlatformTypes, Items
<1>7. CASE BeginItem
  BY <1>7 DEF BeginItem, Go, Post, IInv, ItemInv, Busy, TypeOK, LoopTypes, HistoryTypes, PlatformTypes, Items
<1>8. CASE DecideUnscreened
  BY <1>8 DEF DecideUnscreened, Go, Decide, IInv, ItemInv, Busy, TypeOK, LoopTypes, HistoryTypes, PlatformTypes, Items
<1>9. CASE Unsupported
  BY <1>9 DEF Unsupported, Go, IInv, ItemInv, Busy, TypeOK, LoopTypes, HistoryTypes, PlatformTypes, Items
<1>10. CASE GetArtifact
  <2>1. /\ pc = "item" /\ pc' = "screen" /\ item' = item /\ item.attempt \in Attempts
        /\ UNCHANGED <<lease, queue, shadow, applied, status>>
    BY <1>10 DEF GetArtifact, Go, IInv, ItemInv, Busy, Items
  <2>2. /\ lease[item.attempt] # "free"
        /\ \A i \in DOMAIN queue : queue[i].attempt # item.attempt
    BY <2>1 DEF IInv, ItemInv, QueueInv, Busy
  <2>3. /\ screenedBy'[item.attempt] = applied
        /\ \A a \in Attempts \ {item.attempt} : screenedBy'[a] = screenedBy[a]
    BY <1>10, <2>1 DEF GetArtifact, IInv, TypeOK, HistoryTypes
  <2>4. shadow = {}
    BY <2>1
  <2>5. ASSUME NEW a \in Attempts, screenedBy'[a] # NoSettings
        PROVE  lease[a] # "free" /\ \A i \in DOMAIN queue : queue[i].attempt # a
    BY <2>2, <2>3, <2>5
  <2> QED
    BY <2>1, <2>3, <2>4, <2>5
<1>11. CASE ArtifactFails
  BY <1>11 DEF ArtifactFails, Go, Except, IInv, ItemInv, Busy, TypeOK, LoopTypes, HistoryTypes, PlatformTypes, Items
<1>12. CASE PublishImage
  BY <1>12 DEF PublishImage, IInv, ItemInv, Busy, TypeOK, LoopTypes, HistoryTypes, PlatformTypes, Items
<1>13. CASE ScreenReturns
  BY <1>13 DEF ScreenReturns, Go, Decide, IInv, ItemInv, Busy, TypeOK, LoopTypes, HistoryTypes, PlatformTypes, Items
<1>14. CASE ScreenRaises
  BY <1>14 DEF ScreenRaises, Go, IInv, ItemInv, Busy, TypeOK, LoopTypes, HistoryTypes, PlatformTypes, Items
<1>15. CASE SubmitShadowReview
  BY <1>15 DEF SubmitShadowReview, Go, Reportable, IInv, ItemInv, Busy, TypeOK, LoopTypes, HistoryTypes, PlatformTypes, Items
<1>16. CASE SubmitResult
  BY <1>16 DEF SubmitResult, Go, Post, IInv, ItemInv, Busy, TypeOK, LoopTypes, HistoryTypes, PlatformTypes, Items
<1>17. CASE RetryVerdict
  BY <1>17 DEF RetryVerdict, Go, Post, IInv, ItemInv, Busy, TypeOK, LoopTypes, HistoryTypes, PlatformTypes, Items
<1>18. CASE VerdictAccepted
  BY <1>18 DEF VerdictAccepted, Go, Except, EndCall, IInv, ItemInv, Busy, TypeOK, LoopTypes, HistoryTypes, PlatformTypes, Items
<1>19. CASE VerdictNotApplied
  BY <1>19 DEF VerdictNotApplied, Go, EndCall, IInv, ItemInv, Busy, TypeOK, LoopTypes, HistoryTypes, PlatformTypes, Items
<1>20. CASE EndItem
  BY <1>20 DEF EndItem, Go, Die, IInv, ItemInv, Busy, TypeOK, LoopTypes, HistoryTypes, PlatformTypes, Items
<1>21. CASE RequestStop
  BY <1>21 DEF RequestStop, IInv, ItemInv, Busy, TypeOK, LoopTypes, HistoryTypes, PlatformTypes, Items
<1>22. CASE Crash
  BY <1>22 DEF Crash, Die, IInv, ItemInv, Busy, TypeOK, LoopTypes, HistoryTypes, PlatformTypes, Items
<1>23. CASE Restart
  BY <1>23 DEF Restart, Go, IInv, ItemInv, Busy, TypeOK, LoopTypes, HistoryTypes, PlatformTypes, Items
<1>24. CASE Lapse
  BY <1>24 DEF Lapse, IInv, ItemInv, Busy, TypeOK, LoopTypes, HistoryTypes, PlatformTypes, Items
<1>25. CASE Platform
  BY <1>25 DEF Platform, Handle, IInv, ItemInv, Busy, TypeOK, LoopTypes, HistoryTypes, PlatformTypes, Items
<1>26. CASE UNCHANGED vars
  BY <1>26
<1> QED
  BY <1>1, <1>2, <1>3, <1>4, <1>5, <1>6, <1>7, <1>8, <1>9, <1>10, <1>11, <1>12, <1>13, <1>14, <1>15, <1>16, <1>17, <1>18, <1>19, <1>20, <1>21, <1>22, <1>23, <1>24, <1>25, <1>26 DEF Next, Worker

(* Every step keeps what was said true of the screen: an attempt is given  *)
(* its artifact before anything is said of it, and once.                   *)
LEMMA SaidStep ==
  ASSUME IInv, SettingsInv, SaysWhatItRanUnder, [Next]_vars
  PROVE  SaysWhatItRanUnder'
<1> USE DEF vars, memory, rest, call, platform, history
<1>1. CASE GetArtifact
  <2>1. /\ pc = "item" /\ item.attempt \in Attempts
        /\ posted' = posted /\ telemetry' = telemetry
    BY <1>1 DEF GetArtifact, IInv, ItemInv, Busy, Items
  <2>2. \A a \in Attempts \ {item.attempt} : screenedBy'[a] = screenedBy[a]
    BY <1>1 DEF GetArtifact, IInv, TypeOK, HistoryTypes
  <2>3. screenedBy[item.attempt] = NoSettings
    BY <2>1 DEF SettingsInv, Gathered
  <2>4. \A v \in posted : v.attempt \in Attempts /\ v.attempt # item.attempt
    BY <2>1 DEF IInv, ItemInv, Answered, TypeOK, HistoryTypes, Verdicts
  <2>5. \A t \in telemetry : t.attempt \in Attempts /\ t.attempt # item.attempt
    BY <2>1, <2>3, WorkerAssumption
    DEF SaysWhatItRanUnder, IInv, TypeOK, HistoryTypes
  <2> QED
    BY <2>1, <2>2, <2>4, <2>5 DEF SaysWhatItRanUnder
<1>2. CASE SubmitShadowReview
  <2>1. /\ item.attempt \in shadow /\ posted' = posted /\ screenedBy' = screenedBy
        /\ \/ telemetry' = telemetry
           \/ Reportable /\ telemetry' =
                telemetry \cup {[attempt |-> item.attempt, settings |-> status]}
    BY <1>2 DEF SubmitShadowReview
  <2>2. screenedBy[item.attempt] = status
    BY <2>1 DEF SettingsInv
  <2> QED
    BY <2>1, <2>2 DEF SaysWhatItRanUnder, Reportable
<1>3. CASE SubmitResult \/ RetryVerdict
  <2>1. /\ pc \in {"decided", "posting"}
        /\ telemetry' = telemetry /\ screenedBy' = screenedBy
        /\ posted' = posted \/ posted' = posted \cup {Verdict(outcome)}
    BY <1>3 DEF SubmitResult, RetryVerdict, Post
  <2>2. screenedBy[item.attempt] \in {NoSettings, status}
    BY <2>1 DEF SettingsInv
  <2> QED
    BY <2>1, <2>2 DEF SaysWhatItRanUnder, Verdict
<1>4. CASE UNCHANGED <<posted, telemetry, screenedBy>>
  BY <1>4 DEF SaysWhatItRanUnder
<1> QED
  BY <1>1, <1>2, <1>3, <1>4
  DEF Next, Worker, Poll, GetReviewSettings, RequiredPolicyAgrees, SweepFails, Claim, EndSweep,
      BeginItem, DecideUnscreened, Unsupported, ArtifactFails, PublishImage, ScreenReturns,
      ScreenRaises, VerdictAccepted, VerdictNotApplied, EndItem, RequestStop, Crash, Restart,
      Lapse, Platform

(* What a verdict is signed over, and what shadow telemetry names, is what *)
(* the submission was screened under, whatever settings came in between.   *)
THEOREM SaysWhatItRanUnderHolds == Spec => []SaysWhatItRanUnder
<1>1. Init => SettingsInv /\ SaysWhatItRanUnder
  BY DEF Init, SettingsInv, SaysWhatItRanUnder
<1>2. IInv /\ SettingsInv /\ SaysWhatItRanUnder /\ [Next]_vars
        => SettingsInv' /\ SaysWhatItRanUnder'
  BY SettingsStep, SaidStep
<1> QED
  BY <1>1, <1>2, InvariantHolds, PTL DEF Spec

-----------------------------------------------------------------------------
(* The reports of the worker                                               *)

Screening == phase \in {"active", "stopping"}

(* There is a job, a beat and tasks of reports only while an item is       *)
(* screened, and every task reports of the agent at hand.                  *)
JobInv ==
  /\ Screening => agent \in Agents /\ stage \in Stages
  /\ ~Screening => agent = NoAgent /\ stage = 0 /\ pending = <<>> /\ beat = "off"
  /\ \A i \in DOMAIN pending : pending[i].agent = agent

(* A report that names a stage names the agent whose stage it is.          *)
AgentsAgree(report) ==
  report.progress # NoProgress => report.progress.agent = report.agent

(* Timestamps only rise, up to the last one taken, which between items is  *)
(* that of a report that the worker is polling.                            *)
SentInv ==
  /\ \A i \in DOMAIN sent : sent[i].at <= last /\ AgentsAgree(sent[i])
  /\ \A i, j \in DOMAIN sent : i < j => sent[i].at < sent[j].at
  /\ ~Screening /\ sent # <<>> =>
       /\ sent[Len(sent)].state = "polling" /\ sent[Len(sent)].agent = NoAgent
       /\ sent[Len(sent)].at = last

HeartbeatInv == HeartbeatTypeOK /\ JobInv /\ SentInv

(* What a report is: its timestamp is later than any before it.            *)
Sent(state, who, progress) ==
  [at |-> Timestamp, state |-> state, agent |-> who, progress |-> progress]

LEMMA TimestampRises ==
  ASSUME HeartbeatTypeOK
  PROVE  Timestamp \in Nat /\ last < Timestamp
BY HeartbeatAssumption DEF HeartbeatTypeOK, Timestamp

(* What is recorded keeps its types, its order and its agents; a report    *)
(* without progress is always sent.                                        *)
LEMMA ReportStep ==
  ASSUME HeartbeatTypeOK, SentInv,
         NEW state \in {"polling", "screening"}, NEW who \in Agents \cup {NoAgent},
         NEW progress \in Progress \cup {NoProgress},
         progress # NoProgress => progress.agent = who,
         Report(state, who, progress)
  PROVE  /\ last' \in Nat /\ last < last' /\ sent' \in Seq(Reports)
         /\ \A i \in DOMAIN sent' : sent'[i].at <= last' /\ AgentsAgree(sent'[i])
         /\ \A i, j \in DOMAIN sent' : i < j => sent'[i].at < sent'[j].at
         /\ progress = NoProgress =>
              /\ sent' # <<>> /\ sent'[Len(sent')] = Sent(state, who, progress)
              /\ last' = Timestamp
<1> DEFINE r == Sent(state, who, progress)
<1>1. last' = Timestamp /\ Timestamp \in Nat /\ last < Timestamp
  BY TimestampRises DEF Report
<1>2. sent' = sent \/ sent' = Append(sent, r)
  BY DEF Report, Sent
<1>3. r \in Reports /\ r.at = Timestamp /\ AgentsAgree(r)
  BY <1>1 DEF Reports, Sent, AgentsAgree
<1>4. progress = NoProgress => sent' = Append(sent, r)
  BY DEF Report, Valid, Sent
<1>5. sent \in Seq(Reports) /\ last \in Nat
  BY DEF HeartbeatTypeOK
<1>6. \A i \in DOMAIN sent : sent[i].at \in Nat
  <2>1. \A i \in DOMAIN sent : sent[i] \in Reports
    BY <1>5
  <2>2. \A report \in Reports : report.at \in Nat
    BY DEF Reports
  <2> QED
    BY <2>1, <2>2
<1> HIDE DEF r
<1>7. CASE sent' = sent
  <2>1. Append(sent, r) # sent
    <3>1. Len(Append(sent, r)) = Len(sent) + 1 /\ Len(sent) \in Nat
      BY <1>3, <1>5
    <3> QED
      BY <3>1
  <2>3. progress # NoProgress
    BY <1>4, <1>7, <2>1
  <2>2. \A i \in DOMAIN sent : sent[i].at <= last' /\ AgentsAgree(sent[i])
    BY <1>1, <1>5, <1>6 DEF SentInv
  <2> QED
    BY <1>1, <1>5, <1>7, <2>2, <2>3 DEF SentInv
<1>8. CASE sent' = Append(sent, r)
  <2>1. /\ Len(sent') = Len(sent) + 1 /\ sent'[Len(sent')] = r
        /\ \A i \in DOMAIN sent : sent'[i] = sent[i]
        /\ DOMAIN sent' = DOMAIN sent \cup {Len(sent')}
        /\ sent' \in Seq(Reports) /\ sent' # <<>>
    BY <1>3, <1>5, <1>8
  <2>2. \A i \in DOMAIN sent' : sent'[i].at <= last' /\ AgentsAgree(sent'[i])
    BY <1>1, <1>3, <1>5, <1>6, <2>1 DEF SentInv
  <2>3. \A i, j \in DOMAIN sent' : i < j => sent'[i].at < sent'[j].at
    <3>1. ASSUME NEW i \in DOMAIN sent', NEW j \in DOMAIN sent', i < j
          PROVE  sent'[i].at < sent'[j].at
      <4>1. i \in DOMAIN sent
        BY <1>5, <2>1, <3>1
      <4>2. CASE j \in DOMAIN sent
        BY <2>1, <3>1, <4>1, <4>2 DEF SentInv
      <4>3. CASE j = Len(sent')
        BY <1>1, <1>3, <1>5, <1>6, <2>1, <4>1, <4>3 DEF SentInv
      <4> QED
        BY <2>1, <4>2, <4>3
    <3> QED
      BY <3>1
  <2> QED
    BY <1>1, <2>1, <2>2, <2>3 DEF r
<1> QED
  BY <1>2, <1>7, <1>8

(* A step that reports nothing keeps what was reported.                    *)
LEMMA QuietStep ==
  ASSUME SentInv, UNCHANGED <<last, sent>>, ~Screening' => ~Screening
  PROVE  SentInv'
BY DEF SentInv, AgentsAgree

(* Every step keeps the invariant of the reports.                          *)
LEMMA HeartbeatStep ==
  ASSUME HeartbeatInv, [HeartbeatNext]_heartbeatVars
  PROVE  HeartbeatInv'
<1> USE HeartbeatAssumption DEF HeartbeatInv, job, heartbeatVars
<1> USE DEF HeartbeatTypeOK, JobInv, Screening
<1>1. CASE PollingThrottled
  BY <1>1, QuietStep DEF PollingThrottled, Stage, Stages, Progress
<1>2. CASE SweepEnds
  BY <1>2, QuietStep DEF SweepEnds, Stage, Stages, Progress
<1>3. CASE BeginJob
  <2>1. PICK a \in Agents :
          /\ agent' = a /\ startedAt' = wall
          /\ \/ stage' = 1 /\ pending' = pending \o <<Stage(a, 1, wall)>>
             \/ /\ stage' = LastStage
                /\ pending' = pending \o <<Stage(a, 1, wall), Stage(a, LastStage, wall)>>
    BY <1>3 DEF BeginJob
  <2>2. /\ pending = <<>> /\ phase' = "active" /\ beat' = "waiting"
        /\ UNCHANGED <<wall, last, lastState, calls, sent>>
    BY <1>3 DEF BeginJob
  <2>3. 1 \in Stages /\ LastStage \in Stages
    BY DEF Stages
  <2>4. Stage(a, 1, wall) \in Progress /\ Stage(a, LastStage, wall) \in Progress
    BY <2>3 DEF Stage, Progress
  <2>5. Stage(a, 1, wall).agent = a /\ Stage(a, LastStage, wall).agent = a
    BY DEF Stage
  <2>6. stage' \in Stages
    BY <2>1, <2>3
  <2>7. \/ pending' = <<Stage(a, 1, wall)>>
        \/ pending' = <<Stage(a, 1, wall), Stage(a, LastStage, wall)>>
    BY <2>1, <2>2, <2>4
  <2>8. pending' \in Seq(Progress) /\ \A i \in DOMAIN pending' : pending'[i].agent = a
    <3>1. CASE pending' = <<Stage(a, 1, wall)>>
      BY <2>4, <2>5, <3>1
    <3>2. CASE pending' = <<Stage(a, 1, wall), Stage(a, LastStage, wall)>>
      <4>1. /\ DOMAIN pending' = {1, 2} /\ pending'[1] = Stage(a, 1, wall)
            /\ pending'[2] = Stage(a, LastStage, wall)
        BY <3>2
      <4> QED
        BY <2>4, <2>5, <3>2, <4>1
    <3> QED
      BY <2>7, <3>1, <3>2
  <2>9. SentInv'
    BY <2>2, QuietStep
  <2> QED
    BY <2>1, <2>2, <2>6, <2>8, <2>9 DEF Stages
<1>4. CASE SetProgress
  BY <1>4, QuietStep DEF SetProgress, Stage, Stages, Progress
<1>5. CASE BeatStops
  BY <1>5, QuietStep DEF BeatStops, Stage, Stages, Progress
<1>6. CASE StopBeat
  BY <1>6, QuietStep DEF StopBeat, Stage, Stages, Progress
<1>7. CASE PollingAnswered
  BY <1>7, QuietStep DEF PollingAnswered, Stage, Stages, Progress
<1>8. CASE ProgressAnswered
  BY <1>8, QuietStep DEF ProgressAnswered, Stage, Stages, Progress
<1>9. CASE BeatAnswered
  BY <1>9, QuietStep DEF BeatAnswered, Stage, Stages, Progress
<1>10. CASE Tick
  BY <1>10, QuietStep DEF Tick, Stage, Stages, Progress
<1>11. CASE SetClockBack
  BY <1>11, QuietStep DEF SetClockBack, Stage, Stages, Progress
<1>12. CASE PollingReport
  <2>1. /\ ~Screening /\ phase' = "polling" /\ agent = NoAgent
        /\ Report("polling", NoAgent, NoProgress)
        /\ UNCHANGED <<agent, stage, startedAt, wall, lastState, pending, calls, beat>>
    BY <1>12 DEF PollingReport
  <2>2. HeartbeatTypeOK' /\ JobInv'
    BY <2>1, ReportStep
  <2>3. SentInv'
    <3>1. /\ sent' # <<>> /\ sent'[Len(sent')] = Sent("polling", NoAgent, NoProgress)
          /\ last' = Timestamp
          /\ \A i \in DOMAIN sent' : sent'[i].at <= last' /\ AgentsAgree(sent'[i])
          /\ \A i, j \in DOMAIN sent' : i < j => sent'[i].at < sent'[j].at
      BY <2>1, ReportStep
    <3>2. /\ sent'[Len(sent')].state = "polling" /\ sent'[Len(sent')].agent = NoAgent
          /\ sent'[Len(sent')].at = last'
      BY <3>1 DEF Sent
    <3> QED
      BY <3>1, <3>2 DEF SentInv, AgentsAgree
  <2> QED
    BY <2>2, <2>3
<1>13. CASE StartProgress
  BY <1>13, ReportStep DEF StartProgress, SentInv
<1>14. CASE Beat
  <2>1. /\ Report("screening", agent, Current) /\ beat' \in {"calling", "waiting"}
        /\ Screening /\ phase' = phase /\ beat # "off"
        /\ UNCHANGED <<agent, stage, startedAt, wall, lastState, pending, calls>>
    BY <1>14 DEF Beat
  <2>2. Current = Stage(agent, stage, startedAt) /\ agent \in Agents
    BY <2>1, HeartbeatAssumption DEF Current, Stages
  <2>3. Current \in Progress /\ Current.agent = agent
    BY <2>1, <2>2 DEF Stage, Progress
  <2>4. HeartbeatTypeOK' /\ JobInv'
    BY <2>1, <2>3, ReportStep
  <2>5. SentInv'
    BY <2>1, <2>2, <2>3, ReportStep DEF SentInv
  <2> QED
    BY <2>4, <2>5
<1>15. CASE CloseItem
  <2>1. /\ Report("polling", NoAgent, NoProgress) /\ beat = "off" /\ beat' = beat
        /\ agent' = NoAgent /\ stage' = 0 /\ startedAt' = 0 /\ phase' = "closing"
        /\ pending' = <<>> /\ calls' = 0 /\ UNCHANGED <<wall, lastState>>
    BY <1>15 DEF CloseItem, EndJob
  <2>2. HeartbeatTypeOK' /\ JobInv'
    BY <2>1, ReportStep
  <2>3. SentInv'
    <3>1. /\ sent' # <<>> /\ sent'[Len(sent')] = Sent("polling", NoAgent, NoProgress)
          /\ last' = Timestamp
          /\ \A i \in DOMAIN sent' : sent'[i].at <= last' /\ AgentsAgree(sent'[i])
          /\ \A i, j \in DOMAIN sent' : i < j => sent'[i].at < sent'[j].at
      BY <2>1, ReportStep
    <3>2. /\ sent'[Len(sent')].state = "polling" /\ sent'[Len(sent')].agent = NoAgent
          /\ sent'[Len(sent')].at = last'
      BY <3>1 DEF Sent
    <3> QED
      BY <3>1, <3>2 DEF SentInv, AgentsAgree
  <2> QED
    BY <2>2, <2>3
<1>16. CASE UNCHANGED heartbeatVars
  BY <1>16, QuietStep
<1> QED
  BY <1>1, <1>2, <1>3, <1>4, <1>5, <1>6, <1>7, <1>8, <1>9, <1>10, <1>11, <1>12, <1>13, <1>14, <1>15, <1>16 DEF HeartbeatNext, Answers

(* Nothing was reported of a worker that was just started.                 *)
LEMMA HeartbeatInitInv == HeartbeatInit => HeartbeatInv
BY HeartbeatAssumption
DEF HeartbeatInit, HeartbeatInv, HeartbeatTypeOK, JobInv, SentInv, Screening

(* The invariant of the reports.                                           *)
THEOREM HeartbeatInvariantHolds == HeartbeatSpec => []HeartbeatInv
BY HeartbeatInitInv, HeartbeatStep, PTL DEF HeartbeatSpec

(* Every variable of the reports keeps its type.                           *)
THEOREM HeartbeatTypeCorrect == HeartbeatSpec => []HeartbeatTypeOK
BY HeartbeatInvariantHolds, PTL DEF HeartbeatInv

(* A report that names a stage names its agent, and between items the      *)
(* latest timestamp is that of a report that the worker is polling.        *)
THEOREM ReportsAreTrueHolds == HeartbeatSpec => []ReportsAreTrue
<1>1. HeartbeatInv => ReportsAreTrue
  <2> SUFFICES ASSUME HeartbeatInv PROVE ReportsAreTrue
    OBVIOUS
  <2>1. sent \in Seq(Reports)
    BY DEF HeartbeatInv, HeartbeatTypeOK
  <2>2. \A i \in DOMAIN sent : sent[i].progress # NoProgress
                                => sent[i].progress.agent = sent[i].agent
    BY DEF HeartbeatInv, SentInv, AgentsAgree
  <2>3. ASSUME phase \in {"closing", "idle", "sweep", "polling"}, sent # <<>>
        PROVE  \E i \in DOMAIN sent :
                 /\ sent[i].state = "polling" /\ sent[i].agent = NoAgent
                 /\ \A j \in DOMAIN sent : sent[j].at <= sent[i].at
    <3>1. Len(sent) \in DOMAIN sent
      BY <2>1, <2>3
    <3> QED
      BY <2>3, <3>1 DEF HeartbeatInv, SentInv, Screening
  <2> QED
    BY <2>2, <2>3 DEF ReportsAreTrue
<1> QED
  BY <1>1, HeartbeatInvariantHolds, PTL

(* However late a task runs, and though the clock is set back, a report    *)
(* has a later timestamp than those whose requests began before its own.   *)
TimestampsRise == \A i, j \in DOMAIN sent : i < j => sent[i].at < sent[j].at

(* The timestamps of Heartbeat rise, for any bounds and clocks.            *)
THEOREM TimestampsRiseHolds == HeartbeatSpec => []TimestampsRise
<1>1. HeartbeatInv => TimestampsRise
  BY DEF HeartbeatInv, SentInv, TimestampsRise
<1> QED
  BY <1>1, HeartbeatInvariantHolds, PTL
=============================================================================
