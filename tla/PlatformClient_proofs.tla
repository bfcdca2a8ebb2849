------------------------- MODULE PlatformClient_proofs -------------------------
(***************************************************************************)
(* What TLAPS proves of the two models of PlatformClient: of ImageUpload   *)
(* for every number of attempts, part size and size the archive on disk    *)
(* may take, and of ReviewSettings for every list of published revisions,  *)
(* configuration and bound on ages.                                        *)
(***************************************************************************)
EXTENDS ImageUpload, ReviewSettings, TLAPS

(* Every request in flight was made by this upload: once it has an id, it  *)
(* carries that id, and the id is never absent from the platform.          *)
CallInv ==
  /\ pc \in {"start", "initiate"} => upload = NoUpload
  /\ pc \in (Working \ {"initiate"}) \cup {"aborting", "returned"} => upload # NoUpload
  /\ answer["main"] # "-" => pc \in Working \ {"read"}
  /\ answer["abort"] # "-" => pc \in {"aborting", "raised"} /\ upload # NoUpload
  /\ pc = "aborting" => answer["abort"] # "-"
  /\ \A c \in Callers : try[c] = 0 <=> answer[c] = "-"
OwnerInv ==
  /\ \A r \in inflight : r.op # "initiate" => r.upload = upload /\ upload # NoUpload
  /\ \A r \in inflight : r.who = "abort" <=> r.op = "abort"
NameInv ==
  /\ pc = "initiate" /\ answer["main"] = "ok" => named # NoUpload
  /\ named # NoUpload => status[named] # "absent"
  /\ upload # NoUpload => status[upload] # "absent"

(* What the answers of the platform tell about the upload.                 *)
AnswerInv ==
  /\ pc = "complete" /\ answer["main"] = "ok" => status[upload] = "completed"
  /\ pc = "returned" => status[upload] = "completed"
  /\ answer["abort"] = "ok" => status[upload] # "open"
  /\ pc = "raised" /\ upload # NoUpload /\ answer["abort"] = "-" /\ ~gaveUp
       => status[upload] # "open"

(* The parts stored so far tile the bytes before "end".                    *)
TilesUpTo(parts, end) ==
  /\ IF parts = <<>> THEN end = 0
     ELSE parts[1].from = 0 /\ parts[Len(parts)].to = end
  /\ \A i \in 1..(Len(parts) - 1) : parts[i].to = parts[i + 1].from
  /\ \A i \in DOMAIN parts : parts[i].to - parts[i].from \in 1..PartSize

TilesInv ==
  /\ pc \in {"start", "initiate"} => completed = <<>> /\ offset = 0
  /\ pc = "read" => TilesUpTo(completed, offset)
  /\ pc \in {"mint", "store"} =>
       /\ TilesUpTo(completed, part.from)
       /\ part.to = offset /\ part.to - part.from \in 1..PartSize
  /\ pc = "complete" => Tiles(completed)
  /\ \A r \in inflight : r.op = "complete" => Tiles(r.parts)

IInv == TypeOK /\ CallInv /\ OwnerInv /\ NameInv /\ AnswerInv /\ TilesInv

(* What the assumptions on the constants say, in the form the steps use.   *)
LEMMA ConstantTypes ==
  /\ NoUpload \notin Uploads /\ FileSizes \subseteq Nat
  /\ Attempts \in Nat /\ 1 \in 1..Attempts
  /\ DeclaredSize \in Nat \ {0} /\ PartSize \in Nat \ {0}
BY UploadAssumption

(* What a request of a caller, or none, leaves of the calls.               *)
LEMMA AskTypes ==
  ASSUME ClientTypes, CallTypes, NEW op \in Ops, NEW who \in Callers,
         NEW n \in 1..Attempts, NEW span \in Spans, Ask(op, who, n, span)
  PROVE  CallTypes'
<1>1. Request(op, who, n, span) \in Requests
  BY DEF ClientTypes, Request, Requests
<1> QED
  BY <1>1, UploadAssumption DEF CallTypes, Ask, Requests

(* A caller whose request is over has no attempt and no answer.            *)
LEMMA RestTypes ==
  ASSUME CallTypes, NEW who \in Callers, Rest(who)
  PROVE  CallTypes'
BY UploadAssumption DEF CallTypes, Rest

(* The failure handler leaves well-typed calls and ends the upload or      *)
(* starts its abort.                                                       *)
LEMMA FailTypes ==
  ASSUME ClientTypes, CallTypes, Fail
  PROVE  CallTypes' /\ pc' \in {"raised", "aborting"}
<1>1. Request("abort", "abort", 1, part) \in Requests
  BY UploadAssumption DEF ClientTypes, Request, Requests, Ops, Callers
<1>2. CASE upload = NoUpload
  BY <1>2, RestTypes DEF Fail, Enter, Callers
<1>3. CASE upload # NoUpload
  BY <1>1, <1>3, UploadAssumption DEF Fail, Enter, CallTypes, Callers
<1> QED
  BY <1>2, <1>3

(* Every step keeps the types.                                              *)
LEMMA TypeStep ==
  ASSUME TypeOK, CallInv, OwnerInv, [Next]_vars
  PROVE  TypeOK'
<1> USE ConstantTypes DEF TypeOK
<1>1. CASE Start
  <2>1. ClientTypes'
    BY <1>1, FailTypes DEF Start, ClientTypes, Ops,
       Callers, Working, Enter, fileVars, callVars
  <2>2. CallTypes'
    <3>1. part \in Spans /\ "initiate" \in Ops /\ "main" \in Callers
      BY DEF ClientTypes, Ops, Callers
    <3>2. UNCHANGED callVars \/ Ask("initiate", "main", 1, part)
      BY <1>1 DEF Start
    <3> QED
      BY <3>1, <3>2, AskTypes DEF callVars, CallTypes
  <2>3. PlatformTypes'
    BY <1>1 DEF Start, PlatformTypes, platformVars
  <2> QED
    BY <2>1, <2>2, <2>3 DEF TypeOK
<1>2. CASE Initiated
  <2>1. ClientTypes'
    BY <1>2, FailTypes DEF Initiated, ClientTypes, Ops,
       Callers, Working, Enter, fileVars, callVars, PlatformTypes
  <2>2. CallTypes'
    BY <1>2, AskTypes, RestTypes, FailTypes DEF Initiated, ClientTypes, Ops,
       Callers, Working, Enter, fileVars, callVars, PlatformTypes
  <2>3. PlatformTypes'
    BY <1>2 DEF Initiated, PlatformTypes, platformVars
  <2> QED
    BY <2>1, <2>2, <2>3 DEF TypeOK
<1>3. CASE ReadPart
  <2>1. ClientTypes'
    <3>1. offset' \in Nat
      BY <1>3 DEF ReadPart, Lesser, ClientTypes
    <3>2. part' \in Spans
      BY <1>3, <3>1 DEF ReadPart, Span, Spans, ClientTypes
    <3>3. pc' \in {"raised", "aborting", "mint"}
      BY <1>3, FailTypes DEF ReadPart, Enter
    <3> QED
      BY <1>3, <3>1, <3>2, <3>3 DEF ReadPart, ClientTypes, Working
  <2>2. CallTypes'
    <3>1. part' \in Spans /\ "mint" \in Ops /\ "main" \in Callers
      BY <2>1 DEF ClientTypes, Ops, Callers
    <3>2. Fail \/ Ask("mint", "main", 1, part')
      BY <1>3 DEF ReadPart
    <3> QED
      BY <3>1, <3>2, AskTypes, FailTypes
  <2>3. PlatformTypes'
    BY <1>3 DEF ReadPart, PlatformTypes, platformVars
  <2> QED
    BY <2>1, <2>2, <2>3 DEF TypeOK
<1>4. CASE AskCompletion
  <2>1. ClientTypes'
    BY <1>4, FailTypes DEF AskCompletion, SizeStillDeclared, ClientTypes, Ops,
       Callers, Working, Enter, fileVars, callVars
  <2>2. CallTypes'
    BY <1>4, AskTypes, RestTypes, FailTypes DEF AskCompletion, SizeStillDeclared, ClientTypes, Ops,
       Callers, Working, Enter, fileVars, callVars
  <2>3. PlatformTypes'
    BY <1>4 DEF AskCompletion, PlatformTypes, platformVars
  <2> QED
    BY <2>1, <2>2, <2>3 DEF TypeOK
<1>5. CASE Minted
  <2>1. ClientTypes'
    BY <1>5, FailTypes DEF Minted, ClientTypes, Ops,
       Callers, Working, Enter, fileVars, callVars
  <2>2. CallTypes'
    BY <1>5, AskTypes, RestTypes, FailTypes DEF Minted, ClientTypes, Ops,
       Callers, Working, Enter, fileVars, callVars
  <2>3. PlatformTypes'
    BY <1>5 DEF Minted, PlatformTypes, platformVars
  <2> QED
    BY <2>1, <2>2, <2>3 DEF TypeOK
<1>6. CASE StoredPart
  <2>1. ClientTypes'
    BY <1>6, FailTypes DEF StoredPart, ClientTypes, Ops,
       Callers, Working, Enter, fileVars, callVars
  <2>2. CallTypes'
    BY <1>6, AskTypes, RestTypes, FailTypes DEF StoredPart, ClientTypes, Ops,
       Callers, Working, Enter, fileVars, callVars
  <2>3. PlatformTypes'
    BY <1>6 DEF StoredPart, PlatformTypes, platformVars
  <2> QED
    BY <2>1, <2>2, <2>3 DEF TypeOK
<1>7. CASE Completed
  <2>1. ClientTypes'
    BY <1>7, FailTypes DEF Completed, ClientTypes, Ops,
       Callers, Working, Enter, fileVars, callVars
  <2>2. CallTypes'
    BY <1>7, AskTypes, RestTypes, FailTypes DEF Completed, ClientTypes, Ops,
       Callers, Working, Enter, fileVars, callVars
  <2>3. PlatformTypes'
    BY <1>7 DEF Completed, PlatformTypes, platformVars
  <2> QED
    BY <2>1, <2>2, <2>3 DEF TypeOK
<1>8. CASE RetryRequest
  <2>1. ClientTypes'
    BY <1>8, FailTypes DEF RetryRequest, Again, ClientTypes, Ops,
       Callers, Working, Enter, fileVars, callVars
  <2>2. CallTypes'
    <3>1. pc \in Ops /\ "main" \in Callers /\ part \in Spans
      BY <1>8 DEF RetryRequest, Again, CallInv, ClientTypes, Ops, Callers, Working
    <3>2. try["main"] + 1 \in 1..Attempts
      BY <1>8, <3>1 DEF RetryRequest, Again, CallTypes
    <3>3. Ask(pc, "main", try["main"] + 1, part)
      BY <1>8 DEF RetryRequest
    <3> QED
      BY <3>1, <3>2, <3>3, AskTypes
  <2>3. PlatformTypes'
    BY <1>8 DEF RetryRequest, PlatformTypes, platformVars
  <2> QED
    BY <2>1, <2>2, <2>3 DEF TypeOK
<1>9. CASE RequestFails
  <2>1. ClientTypes'
    BY <1>9, FailTypes DEF RequestFails, Exhausted, ClientTypes, Ops,
       Callers, Working, Enter, fileVars, callVars
  <2>2. CallTypes'
    BY <1>9, AskTypes, RestTypes, FailTypes DEF RequestFails, Exhausted, ClientTypes, Ops,
       Callers, Working, Enter, fileVars, callVars
  <2>3. PlatformTypes'
    BY <1>9 DEF RequestFails, PlatformTypes, platformVars
  <2> QED
    BY <2>1, <2>2, <2>3 DEF TypeOK
<1>10. CASE Cancel
  <2>1. ClientTypes'
    BY <1>10, FailTypes DEF Cancel, ClientTypes, Ops,
       Callers, Working, Enter, fileVars, callVars
  <2>2. CallTypes'
    BY <1>10, AskTypes, RestTypes, FailTypes DEF Cancel, ClientTypes, Ops,
       Callers, Working, Enter, fileVars, callVars
  <2>3. PlatformTypes'
    BY <1>10 DEF Cancel, PlatformTypes, platformVars
  <2> QED
    BY <2>1, <2>2, <2>3 DEF TypeOK
<1>11. CASE CancelWaitForAbort
  <2>1. ClientTypes'
    BY <1>11, FailTypes DEF CancelWaitForAbort, ClientTypes, Ops,
       Callers, Working, Enter, fileVars, callVars, CallTypes
  <2>2. CallTypes'
    BY <1>11, AskTypes, RestTypes, FailTypes DEF CancelWaitForAbort, ClientTypes, Ops,
       Callers, Working, Enter, fileVars, callVars, CallTypes
  <2>3. PlatformTypes'
    BY <1>11 DEF CancelWaitForAbort, PlatformTypes, platformVars
  <2> QED
    BY <2>1, <2>2, <2>3 DEF TypeOK
<1>12. CASE AbortAcknowledged
  <2>1. ClientTypes'
    BY <1>12, FailTypes DEF AbortAcknowledged, EndAbort, ClientTypes, Ops,
       Callers, Working, Enter, fileVars, callVars
  <2>2. CallTypes'
    BY <1>12, AskTypes, RestTypes, FailTypes DEF AbortAcknowledged, EndAbort, ClientTypes, Ops,
       Callers, Working, Enter, fileVars, callVars
  <2>3. PlatformTypes'
    BY <1>12 DEF AbortAcknowledged, PlatformTypes, platformVars
  <2> QED
    BY <2>1, <2>2, <2>3 DEF TypeOK
<1>13. CASE RetryAbort
  <2>1. ClientTypes'
    BY <1>13, FailTypes DEF RetryAbort, Again, ClientTypes, Ops,
       Callers, Working, Enter, fileVars, callVars, CallTypes
  <2>2. CallTypes'
    BY <1>13, AskTypes, RestTypes, FailTypes DEF RetryAbort, Again, ClientTypes, Ops,
       Callers, Working, Enter, fileVars, callVars, CallTypes
  <2>3. PlatformTypes'
    BY <1>13 DEF RetryAbort, PlatformTypes, platformVars
  <2> QED
    BY <2>1, <2>2, <2>3 DEF TypeOK
<1>14. CASE AbortFails
  <2>1. ClientTypes'
    BY <1>14, FailTypes DEF AbortFails, EndAbort, Exhausted, ClientTypes, Ops,
       Callers, Working, Enter, fileVars, callVars
  <2>2. CallTypes'
    BY <1>14, AskTypes, RestTypes, FailTypes DEF AbortFails, EndAbort, Exhausted, ClientTypes, Ops,
       Callers, Working, Enter, fileVars, callVars
  <2>3. PlatformTypes'
    BY <1>14 DEF AbortFails, PlatformTypes, platformVars
  <2> QED
    BY <2>1, <2>2, <2>3 DEF TypeOK
<1>15. CASE FileChanges
  <2>1. ClientTypes'
    BY <1>15, FailTypes DEF FileChanges, ClientTypes, Ops,
       Callers, Working, Enter, fileVars, callVars, CallTypes
  <2>2. CallTypes'
    BY <1>15, AskTypes, RestTypes, FailTypes DEF FileChanges, ClientTypes, Ops,
       Callers, Working, Enter, fileVars, callVars, CallTypes
  <2>3. PlatformTypes'
    BY <1>15 DEF FileChanges, PlatformTypes, platformVars
  <2> QED
    BY <2>1, <2>2, <2>3 DEF TypeOK
<1>16. CASE Platform
  <2>1. PICK r \in inflight : Perform(r) \/ Refuse(r)
    BY <1>16 DEF Platform
  <2>2. r \in Requests
    BY DEF CallTypes
  <2>3. ClientTypes'
    BY <2>1 DEF Perform, Refuse, ClientTypes, fileVars
  <2>4. CallTypes'
    BY <2>1, <2>2 DEF Perform, Refuse, Respond, CallTypes, Requests
  <2>5. PlatformTypes'
    <3>1. CASE Refuse(r)
      BY <3>1 DEF Refuse, PlatformTypes, platformVars
    <3>2. CASE Perform(r)
      <4>1. CASE r.op = "initiate"
        BY <3>2, <4>1 DEF Perform, Effect, PlatformTypes
      <4>2. CASE r.op = "mint"
        BY <3>2, <4>2 DEF Perform, Effect, PlatformTypes, platformVars
      <4>3. CASE r.op = "store"
        <5>1. r.part \in Spans
          BY <2>2 DEF Requests
        <5> QED
          BY <3>2, <4>3, <5>1 DEF Perform, Effect, PlatformTypes
      <4>4. CASE r.op \in {"complete", "abort"}
        BY <3>2, <4>4 DEF Perform, Effect, PlatformTypes
      <4> QED
        BY <2>2, <4>1, <4>2, <4>3, <4>4 DEF Requests, Ops
    <3> QED
      BY <2>1, <3>1, <3>2
  <2> QED
    BY <2>3, <2>4, <2>5 DEF TypeOK
<1>17. CASE UNCHANGED vars
  BY <1>17 DEF vars, ClientTypes, CallTypes, PlatformTypes, fileVars,
     callVars, platformVars
<1> QED
  BY <1>1, <1>2, <1>3, <1>4, <1>5, <1>6, <1>7, <1>8, <1>9, <1>10, <1>11, <1>12, <1>13, <1>14, <1>15, <1>16, <1>17
     DEF Next, Client

(* Every step keeps CallInv.                                                *)
LEMMA CallStep ==
  ASSUME TypeOK, CallInv, NameInv, [Next]_vars
  PROVE  CallInv'
<1> USE ConstantTypes DEF TypeOK, ClientTypes, CallTypes, PlatformTypes, Working, Callers,
    Rest, Ask, Enter, Fail, fileVars, callVars, platformVars, CallInv
<1>1. CASE Start
  BY <1>1 DEF Start
<1>2. CASE Initiated
  BY <1>2 DEF Initiated, NameInv, Accepted
<1>3. CASE ReadPart
  <2>1. CASE Fail
    BY <2>1, <1>3 DEF ReadPart
  <2>2. CASE Ask("mint", "main", 1, part')
    <3>1. /\ pc' = "mint" /\ upload' = upload /\ pc = "read"
          /\ try' = [try EXCEPT !["main"] = 1]
          /\ answer' = [answer EXCEPT !["main"] = "waiting"]
      BY <2>2, <1>3 DEF ReadPart
    <3> QED
      BY <3>1
  <2> QED
    BY <2>1, <2>2, <1>3 DEF ReadPart
<1>4. CASE AskCompletion
  BY <1>4 DEF AskCompletion, SizeStillDeclared
<1>5. CASE Minted
  BY <1>5 DEF Minted
<1>6. CASE StoredPart
  BY <1>6 DEF StoredPart
<1>7. CASE Completed
  BY <1>7 DEF Completed
<1>8. CASE RetryRequest
  BY <1>8 DEF RetryRequest, Again
<1>9. CASE RequestFails
  BY <1>9 DEF RequestFails, Exhausted
<1>10. CASE Cancel
  BY <1>10 DEF Cancel
<1>11. CASE CancelWaitForAbort
  BY <1>11 DEF CancelWaitForAbort
<1>12. CASE AbortAcknowledged
  BY <1>12 DEF AbortAcknowledged, EndAbort
<1>13. CASE RetryAbort
  BY <1>13 DEF RetryAbort, Again
<1>14. CASE AbortFails
  BY <1>14 DEF AbortFails, EndAbort, Exhausted
<1>15. CASE FileChanges
  BY <1>15 DEF FileChanges
<1>16. CASE Platform
  <2>1. PICK r \in inflight : Perform(r) \/ Refuse(r)
    BY <1>16 DEF Platform
  <2>2. CASE Perform(r)
    BY <2>1, <2>2 DEF Perform, Effect, Respond, Current, Requests
  <2>3. CASE Refuse(r)
    BY <2>1, <2>3 DEF Refuse, Respond, Current, Requests
  <2> QED
    BY <2>1, <2>2, <2>3
<1>17. CASE UNCHANGED vars
  BY <1>17 DEF vars
<1> QED
  BY <1>1, <1>2, <1>3, <1>4, <1>5, <1>6, <1>7, <1>8, <1>9, <1>10, <1>11, <1>12, <1>13, <1>14, <1>15, <1>16, <1>17
     DEF Next, Client

(* Every step keeps OwnerInv.                                               *)
LEMMA OwnerStep ==
  ASSUME TypeOK, CallInv, OwnerInv, [Next]_vars
  PROVE  OwnerInv'
<1> USE ConstantTypes DEF TypeOK, ClientTypes, CallTypes, PlatformTypes, Working, Callers,
    Rest, Ask, Enter, Fail, fileVars, callVars, platformVars, CallInv, OwnerInv, Request
<1>1. CASE Start
  BY <1>1 DEF Start
<1>2. CASE Initiated
  BY <1>2 DEF Initiated
<1>3. CASE ReadPart
  BY <1>3 DEF ReadPart, Lesser
<1>4. CASE AskCompletion
  BY <1>4 DEF AskCompletion, SizeStillDeclared
<1>5. CASE Minted
  BY <1>5 DEF Minted
<1>6. CASE StoredPart
  BY <1>6 DEF StoredPart
<1>7. CASE Completed
  BY <1>7 DEF Completed
<1>8. CASE RetryRequest
  BY <1>8 DEF RetryRequest, Again
<1>9. CASE RequestFails
  BY <1>9 DEF RequestFails, Exhausted
<1>10. CASE Cancel
  BY <1>10 DEF Cancel
<1>11. CASE CancelWaitForAbort
  BY <1>11 DEF CancelWaitForAbort
<1>12. CASE AbortAcknowledged
  BY <1>12 DEF AbortAcknowledged, EndAbort
<1>13. CASE RetryAbort
  BY <1>13 DEF RetryAbort, Again
<1>14. CASE AbortFails
  BY <1>14 DEF AbortFails, EndAbort, Exhausted
<1>15. CASE FileChanges
  BY <1>15 DEF FileChanges
<1>16. CASE Platform
  <2>1. PICK r \in inflight : Perform(r) \/ Refuse(r)
    BY <1>16 DEF Platform
  <2>2. CASE Perform(r)
    BY <2>1, <2>2 DEF Perform, Effect, Respond, Current, Requests
  <2>3. CASE Refuse(r)
    BY <2>1, <2>3 DEF Refuse, Respond, Current, Requests
  <2> QED
    BY <2>1, <2>2, <2>3
<1>17. CASE UNCHANGED vars
  BY <1>17 DEF vars
<1> QED
  BY <1>1, <1>2, <1>3, <1>4, <1>5, <1>6, <1>7, <1>8, <1>9, <1>10, <1>11, <1>12, <1>13, <1>14, <1>15, <1>16, <1>17
     DEF Next, Client

(* Every step keeps NameInv.                                                *)
LEMMA NameStep ==
  ASSUME TypeOK, CallInv, OwnerInv, NameInv, [Next]_vars
  PROVE  NameInv'
<1> USE ConstantTypes DEF TypeOK, ClientTypes, CallTypes, PlatformTypes, Working, Callers,
    Rest, Ask, Enter, Fail, fileVars, callVars, platformVars, CallInv, OwnerInv, NameInv
<1>1. CASE Start
  BY <1>1 DEF Start
<1>2. CASE Initiated
  BY <1>2 DEF Initiated
<1>3. CASE ReadPart
  BY <1>3 DEF ReadPart, Lesser
<1>4. CASE AskCompletion
  BY <1>4 DEF AskCompletion, SizeStillDeclared
<1>5. CASE Minted
  BY <1>5 DEF Minted
<1>6. CASE StoredPart
  BY <1>6 DEF StoredPart
<1>7. CASE Completed
  BY <1>7 DEF Completed
<1>8. CASE RetryRequest
  BY <1>8 DEF RetryRequest, Again
<1>9. CASE RequestFails
  BY <1>9 DEF RequestFails, Exhausted
<1>10. CASE Cancel
  BY <1>10 DEF Cancel
<1>11. CASE CancelWaitForAbort
  BY <1>11 DEF CancelWaitForAbort
<1>12. CASE AbortAcknowledged
  BY <1>12 DEF AbortAcknowledged, EndAbort
<1>13. CASE RetryAbort
  BY <1>13 DEF RetryAbort, Again
<1>14. CASE AbortFails
  BY <1>14 DEF AbortFails, EndAbort, Exhausted
<1>15. CASE FileChanges
  BY <1>15 DEF FileChanges
<1>16. CASE Platform
  <2>1. PICK r \in inflight : Perform(r) \/ Refuse(r)
    BY <1>16 DEF Platform
  <2>2. CASE Perform(r)
    BY <2>1, <2>2 DEF Perform, Effect, Respond, Current, Requests
  <2>3. CASE Refuse(r)
    BY <2>1, <2>3 DEF Refuse, Respond, Current, Requests
  <2> QED
    BY <2>1, <2>2, <2>3
<1>17. CASE UNCHANGED vars
  BY <1>17 DEF vars
<1> QED
  BY <1>1, <1>2, <1>3, <1>4, <1>5, <1>6, <1>7, <1>8, <1>9, <1>10, <1>11, <1>12, <1>13, <1>14, <1>15, <1>16, <1>17
     DEF Next, Client

(* Every step keeps AnswerInv.                                              *)
LEMMA AnswerStep ==
  ASSUME TypeOK, CallInv, OwnerInv, NameInv, AnswerInv, [Next]_vars
  PROVE  AnswerInv'
<1> USE ConstantTypes DEF TypeOK, ClientTypes, CallTypes, PlatformTypes, Working, Callers,
    Rest, Ask, Enter, Fail, fileVars, callVars, platformVars,
    CallInv, OwnerInv, NameInv, AnswerInv, Accepted
<1>1. CASE Start
  BY <1>1 DEF Start
<1>2. CASE Initiated
  BY <1>2 DEF Initiated
<1>3. CASE ReadPart
  BY <1>3 DEF ReadPart, Lesser
<1>4. CASE AskCompletion
  BY <1>4 DEF AskCompletion, SizeStillDeclared
<1>5. CASE Minted
  BY <1>5 DEF Minted
<1>6. CASE StoredPart
  BY <1>6 DEF StoredPart
<1>7. CASE Completed
  BY <1>7 DEF Completed
<1>8. CASE RetryRequest
  BY <1>8 DEF RetryRequest, Again
<1>9. CASE RequestFails
  BY <1>9 DEF RequestFails, Exhausted
<1>10. CASE Cancel
  BY <1>10 DEF Cancel
<1>11. CASE CancelWaitForAbort
  BY <1>11 DEF CancelWaitForAbort
<1>12. CASE AbortAcknowledged
  BY <1>12 DEF AbortAcknowledged, EndAbort
<1>13. CASE RetryAbort
  BY <1>13 DEF RetryAbort, Again
<1>14. CASE AbortFails
  BY <1>14 DEF AbortFails, EndAbort, Exhausted
<1>15. CASE FileChanges
  BY <1>15 DEF FileChanges
<1>16. CASE Platform
  <2>1. PICK r \in inflight : Perform(r) \/ Refuse(r)
    BY <1>16 DEF Platform
  <2>2. CASE Perform(r)
    BY <2>1, <2>2 DEF Perform, Effect, Respond, Current, Requests
  <2>3. CASE Refuse(r)
    BY <2>1, <2>3 DEF Refuse, Respond, Current, Requests
  <2> QED
    BY <2>1, <2>2, <2>3
<1>17. CASE UNCHANGED vars
  BY <1>17 DEF vars
<1> QED
  BY <1>1, <1>2, <1>3, <1>4, <1>5, <1>6, <1>7, <1>8, <1>9, <1>10, <1>11, <1>12, <1>13, <1>14, <1>15, <1>16, <1>17
     DEF Next, Client

(* A part that starts where the others end extends the tiling.             *)
LEMMA AppendTiles ==
  ASSUME NEW parts \in Seq(Spans), NEW span \in Spans, TilesUpTo(parts, span.from),
         span.to - span.from \in 1..PartSize
  PROVE  TilesUpTo(Append(parts, span), span.to)
<1> DEFINE more == Append(parts, span)
<1>1. /\ more \in Seq(Spans) /\ Len(more) = Len(parts) + 1 /\ Len(parts) \in Nat
      /\ \A i \in 1..Len(parts) : more[i] = parts[i]
      /\ more[Len(parts) + 1] = span
      /\ DOMAIN more = 1..(Len(parts) + 1) /\ DOMAIN parts = 1..Len(parts)
  BY DEF Spans
<1>2. more # <<>> /\ more[Len(more)].to = span.to /\ (parts = <<>> <=> Len(parts) = 0)
  BY <1>1
<1>3. more[1].from = 0
  <2>1. CASE parts = <<>>
    BY <2>1, <1>1 DEF TilesUpTo
  <2>2. CASE parts # <<>>
    BY <2>2, <1>1, <1>2 DEF TilesUpTo
  <2> QED
    BY <2>1, <2>2
<1>4. \A i \in 1..(Len(more) - 1) : more[i].to = more[i + 1].from
  <2> TAKE i \in 1..(Len(more) - 1)
  <2>0. i \in 1..Len(parts)
    BY <1>1
  <2>1. CASE i < Len(parts)
    BY <2>0, <2>1, <1>1 DEF TilesUpTo
  <2>2. CASE i = Len(parts)
    BY <2>0, <2>2, <1>1, <1>2 DEF TilesUpTo
  <2>3. i < Len(parts) \/ i = Len(parts)
    <3>1. i \in 1..Len(parts) /\ Len(parts) \in Nat
      BY <2>0, <1>1
    <3> QED
      BY <3>1
  <2> QED
    BY <2>1, <2>2, <2>3
<1>5. \A i \in DOMAIN more : more[i].to - more[i].from \in 1..PartSize
  BY <1>1 DEF TilesUpTo
<1> QED
  BY <1>2, <1>3, <1>4, <1>5 DEF TilesUpTo


(* Every step keeps TilesInv.                                               *)
LEMMA TilesStep ==
  ASSUME TypeOK, CallInv, TilesInv, [Next]_vars
  PROVE  TilesInv'
<1> USE ConstantTypes DEF TypeOK, ClientTypes, CallTypes, PlatformTypes, Working, Callers,
    Rest, Ask, Enter, Fail, fileVars, callVars, platformVars, CallInv, TilesInv, Request
<1>1. CASE Start
  BY <1>1 DEF Start
<1>2. CASE Initiated
  <2>1. /\ completed' = <<>> /\ offset' = 0 /\ pc' \in {"read", "raised"}
        /\ inflight' = inflight
    BY <1>2 DEF Initiated
  <2>2. TilesUpTo(completed', offset')
    BY <2>1 DEF TilesUpTo
  <2> QED
    BY <2>1, <2>2
<1>3. CASE ReadPart
  <2>1. CASE Fail
    BY <2>1, <1>3 DEF ReadPart
  <2>2. CASE Ask("mint", "main", 1, part')
    <3>1. /\ pc' = "mint" /\ completed' = completed
          /\ part'.from = offset /\ part'.to = offset'
          /\ offset' - offset \in 1..PartSize
      BY <2>2, <1>3 DEF ReadPart, Lesser, Span
    <3>2. \A r \in inflight' \ inflight : r.op = "mint"
      BY <2>2
    <3>3. TilesUpTo(completed', part'.from) /\ part'.to = offset'
      BY <3>1, <1>3 DEF ReadPart, TilesUpTo
    <3> QED
      BY <3>1, <3>2, <3>3
  <2> QED
    BY <2>1, <2>2, <1>3 DEF ReadPart
<1>4. CASE AskCompletion
  <2>1. CASE Fail
    BY <2>1, <1>4 DEF AskCompletion
  <2>2. CASE SizeStillDeclared /\ Ask("complete", "main", 1, part) /\ pc' = "complete"
    <3>1. Tiles(completed)
      BY <2>2, <1>4 DEF AskCompletion, SizeStillDeclared, Tiles, TilesUpTo
    <3>2. \A r \in inflight' \ inflight : r.parts = completed
      BY <2>2
    <3>3. completed' = completed
      BY <1>4 DEF AskCompletion
    <3>4. Tiles(completed')
      BY <3>1, <3>3
    <3>5. \A r \in inflight' : r.op = "complete" => Tiles(r.parts)
      BY <3>1, <3>2
    <3> QED
      BY <2>2, <3>4, <3>5
  <2> QED
    BY <2>1, <2>2, <1>4 DEF AskCompletion
<1>5. CASE Minted
  BY <1>5 DEF Minted
<1>6. CASE StoredPart
  <2>1. CASE Fail
    BY <2>1, <1>6 DEF StoredPart
  <2>2. CASE completed' = Append(completed, part) /\ pc' = "read" /\ Rest("main")
    <3>1. /\ TilesUpTo(completed, part.from) /\ part.to = offset
          /\ part.to - part.from \in 1..PartSize /\ offset' = offset
      BY <1>6 DEF StoredPart
    <3>2. TilesUpTo(completed', offset)
      BY <2>2, <3>1, AppendTiles
    <3>3. TilesUpTo(completed', offset')
      BY <3>1, <3>2
    <3> QED
      BY <2>2, <3>3
  <2> QED
    BY <2>1, <2>2, <1>6 DEF StoredPart
<1>7. CASE Completed
  BY <1>7 DEF Completed
<1>8. CASE RetryRequest
  BY <1>8 DEF RetryRequest, Again
<1>9. CASE RequestFails
  BY <1>9 DEF RequestFails, Exhausted
<1>10. CASE Cancel
  BY <1>10 DEF Cancel
<1>11. CASE CancelWaitForAbort
  BY <1>11 DEF CancelWaitForAbort
<1>12. CASE AbortAcknowledged
  BY <1>12 DEF AbortAcknowledged, EndAbort
<1>13. CASE RetryAbort
  BY <1>13 DEF RetryAbort, Again
<1>14. CASE AbortFails
  BY <1>14 DEF AbortFails, EndAbort, Exhausted
<1>15. CASE FileChanges
  BY <1>15 DEF FileChanges
<1>16. CASE Platform
  <2>1. PICK r \in inflight : Perform(r) \/ Refuse(r)
    BY <1>16 DEF Platform
  <2> QED
    BY <2>1 DEF Perform, Refuse
<1>17. CASE UNCHANGED vars
  BY <1>17 DEF vars
<1> QED
  BY <1>1, <1>2, <1>3, <1>4, <1>5, <1>6, <1>7, <1>8, <1>9, <1>10, <1>11, <1>12, <1>13, <1>14, <1>15, <1>16, <1>17
     DEF Next, Client

(* The inductive invariant: types, who made the requests in flight, the id *)
(* the platform named, what its answers tell, and the tiling of the parts. *)
THEOREM InvariantHolds == Spec => []IInv
<1>1. Init => IInv
  <2> SUFFICES ASSUME Init PROVE IInv
    OBVIOUS
  <2> USE ConstantTypes DEF Init, Working, Callers
  <2>1. ClientTypes
    <3>1. part \in Spans /\ completed \in Seq(Spans)
      BY DEF Span, Spans
    <3> QED
      BY <3>1 DEF ClientTypes
  <2>2. CallTypes /\ PlatformTypes
    BY DEF CallTypes, PlatformTypes
  <2>3. CallInv /\ OwnerInv /\ NameInv /\ AnswerInv /\ TilesInv
    BY DEF CallInv, OwnerInv, NameInv, AnswerInv, TilesInv
  <2> QED
    BY <2>1, <2>2, <2>3 DEF IInv, TypeOK
<1>2. IInv /\ [Next]_vars => IInv'
  BY TypeStep, CallStep, OwnerStep, NameStep, AnswerStep, TilesStep DEF IInv
<1> QED
  BY <1>1, <1>2, PTL DEF Spec

(* Every variable keeps its type.                                          *)
THEOREM TypeCorrect == Spec => []TypeOK
BY InvariantHolds, PTL DEF IInv

(* A completion that reaches the platform covers the declared bytes.       *)
THEOREM CompletionTilesTheImageHolds == Spec => []CompletionTilesTheImage
<1>1. IInv => CompletionTilesTheImage
  BY DEF IInv, TilesInv, CompletionTilesTheImage
<1> QED
  BY <1>1, InvariantHolds, PTL

(* A returned upload is, and stays, verified at the platform.              *)
THEOREM ReturnedIsVerifiedHolds == Spec => []ReturnedIsVerified
<1>1. IInv => ReturnedIsVerified
  BY DEF IInv, AnswerInv, ReturnedIsVerified
<1> QED
  BY <1>1, InvariantHolds, PTL

(* A failed upload is left open only by an abort that failed.              *)
THEOREM LeftOpenOnlyIfAbortFailedHolds == Spec => []LeftOpenOnlyIfAbortFailed
<1>1. IInv => LeftOpenOnlyIfAbortFailed
  BY DEF IInv, CallInv, Callers, AnswerInv, LeftOpenOnlyIfAbortFailed
<1> QED
  BY <1>1, InvariantHolds, PTL

-----------------------------------------------------------------------------
(* That an upload ends                                                     *)

(* Where an upload is, and where the requests of one part are.             *)
Leg(point) ==
  CASE point = "start" -> 0
    [] point \in Working -> 1
    [] point = "aborting" -> 2
    [] point \in {"returned", "raised"} -> 3
Turn(point) ==
  CASE point \in {"initiate", "mint"} -> 1
    [] point = "store" -> 2
    [] point = "read" -> 3
    [] point = "complete" -> 4
    [] OTHER -> 0

(* The attempts an abort has used up; one that ended has none left.        *)
AbortSpent == IF answer["abort"] = "-" THEN Attempts + 1 ELSE try["abort"]

SameLeg == Leg(pc') = Leg(pc) /\ offset' = offset
SameRequest == SameLeg /\ Turn(pc') = Turn(pc) /\ try'["main"] = try["main"]
SameCalls == pc' = pc /\ try' = try

(* A step spends something bounded that only spending more of what stands  *)
(* before it gives back: the legs of the upload, the bytes of the image,   *)
(* the requests of a part, their attempts, those of the abort, the one     *)
(* change of the file, the requests on their way.                          *)
Spends ==
  \/ Leg(pc') > Leg(pc)
  \/ Leg(pc') = Leg(pc) /\ offset < DeclaredSize /\ offset' > offset
  \/ SameLeg /\ Turn(pc') > Turn(pc)
  \/ SameLeg /\ pc' = pc /\ try'["main"] > try["main"]
  \/ SameRequest /\ AbortSpent' > AbortSpent
  \/ SameCalls /\ offset' = offset /\ ~fileChanged /\ fileChanged'
  \/ /\ SameCalls /\ UNCHANGED fileVars
     /\ \E r \in inflight : inflight' = inflight \ {r}

AlwaysSpends == [][Spends]_vars

LEMMA StepSpends ==
  ASSUME IInv, Next
  PROVE  Spends
<1> USE ConstantTypes DEF Spends, SameLeg, SameRequest, SameCalls, Leg, Turn, Working,
    Rest, Ask, Enter, Fail, fileVars, callVars, platformVars, Callers
<1>1. /\ try \in [Callers -> 0..Attempts] /\ DOMAIN answer = Callers
      /\ offset \in Nat /\ Attempts \in Nat
  BY DEF IInv, TypeOK, ClientTypes, CallTypes
<1>2. CASE Start \/ Initiated
  BY <1>2 DEF Start, Initiated
<1>3. CASE ReadPart
  <2>1. CASE Fail
    BY <1>3, <2>1 DEF ReadPart
  <2>2. CASE ~(fileSize <= offset)
    <3>1. /\ offset' = Lesser(offset + PartSize, fileSize)
          /\ pc = "read" /\ pc' = "mint" /\ offset < DeclaredSize
      BY <1>3, <2>2 DEF ReadPart
    <3>2. fileSize \in Nat
      BY DEF IInv, TypeOK, ClientTypes
    <3>3. offset' > offset
      BY <1>1, <2>2, <3>1, <3>2 DEF Lesser
    <3> QED BY <3>1, <3>3
  <2> QED BY <1>3, <2>1, <2>2 DEF ReadPart
<1>4. CASE AskCompletion \/ Minted \/ StoredPart \/ Completed
  BY <1>4 DEF AskCompletion, Minted, StoredPart, Completed
<1>5. CASE RetryRequest
  BY <1>1, <1>5 DEF RetryRequest, Again
<1>6. CASE RequestFails \/ Cancel \/ CancelWaitForAbort
  BY <1>6 DEF RequestFails, Cancel, CancelWaitForAbort
<1>7. CASE RetryAbort
  BY <1>1, <1>7 DEF RetryAbort, Again, AbortSpent
<1>8. CASE AbortAcknowledged \/ AbortFails
  <2>1. answer["abort"] # "-" /\ pc \in {"aborting", "raised"}
    BY <1>8 DEF AbortAcknowledged, AbortFails, Accepted, Exhausted, IInv, CallInv
  <2>2. /\ try'["main"] = try["main"] /\ answer'["abort"] = "-"
        /\ offset' = offset /\ pc' = "raised"
    BY <1>1, <1>8, <2>1 DEF AbortAcknowledged, AbortFails, EndAbort
  <2>3. AbortSpent' > AbortSpent
    BY <1>1, <2>1, <2>2 DEF AbortSpent
  <2> QED BY <2>1, <2>2, <2>3
<1>9. CASE FileChanges
  BY <1>9 DEF FileChanges
<1>10. CASE Platform
  BY <1>10 DEF Platform, Perform, Refuse
<1> QED
  BY <1>2, <1>3, <1>4, <1>5, <1>6, <1>7, <1>8, <1>9, <1>10 DEF Next, Client

(* No retry, repeated part or unanswered abort lets an upload go on for    *)
(* free: whatever the platform answers, every step of either side spends   *)
(* something bounded, so no upload goes on for ever.                       *)
THEOREM AlwaysSpendsHolds == Spec => AlwaysSpends
<1>1. IInv /\ [Next]_vars => [Spends]_vars
  BY StepSpends
<1> QED
  BY <1>1, InvariantHolds, PTL DEF Spec, AlwaysSpends

-----------------------------------------------------------------------------
(* The review settings                                                     *)

(* How old by their issue the settings in memory and in the file can be,   *)
(* against the clocks the code goes by.                                    *)
AgeInv ==
  /\ reply # None => fetch = "asking"
  /\ source = "platform" => memIssued <= memAge
  /\ source = "cache" => memIssued <= memAge + MaxStale + MaxCall + setback
  /\ file # None => fileIssued <= fileAge + MaxCall + setback

(* What is held of the platform is the highest revision ever served, which *)
(* an answer on its way cannot be below.                                   *)
RevisionInv ==
  /\ top <= current
  /\ reply # None => top <= reply /\ reply <= current
  /\ memory \notin {0, None} => memory = top
  /\ file # None => file = top
  /\ served.source \in {"platform", "cache"} => served.revision # 0

SettingsInv ==
  /\ SettingsTypeOK /\ AgeInv /\ RevisionInv
  /\ ServedInTime /\ EnforceOutlivesOutage /\ NeverAnEarlierRevision

(* The assumptions in the form the steps use.                              *)
LEMMA SettingsConstants ==
  /\ Len(Published) \in Nat /\ DOMAIN Published = 1..Len(Published)
  /\ \A r \in DOMAIN Published : Published[r].maxAge \in Nat \ {0}
  /\ None \notin 0..Len(Published)
  /\ MaxStale \in Nat \ {0} /\ MaxCall \in Nat /\ MaxSetback \in Nat
  /\ AgeBound \in Nat
  /\ \A r \in DOMAIN Published :
       MaxStale + MaxCall + MaxSetback + Published[r].maxAge <= AgeBound
<1>1. Published \in Seq([mode : Mode, maxAge : Nat \ {0}])
  BY SettingsAssumption
<1>2. \A r \in DOMAIN Published : Published[r] \in [mode : Mode, maxAge : Nat \ {0}]
  <2> DEFINE S == [mode : Mode, maxAge : Nat \ {0}]
  <2>1. Published \in Seq(S)
    BY <1>1
  <2> HIDE DEF S
  <2>2. \A r \in DOMAIN Published : Published[r] \in S
    BY <2>1
  <2> QED
    BY <2>2 DEF S
<1> QED
  BY <1>1, <1>2, SettingsAssumption

(* An age grows until ages are not told apart, and two of them together.   *)
LEMMA OlderBound ==
  ASSUME NEW age \in Int, age <= AgeBound + 1
  PROVE  Older(age) \in Int /\ age <= Older(age) /\ Older(age) <= AgeBound + 1
BY SettingsConstants DEF Older

LEMMA OlderTogether ==
  ASSUME NEW age \in Int, NEW other \in Int, NEW slack \in Nat,
         age <= AgeBound + 1, age <= other + slack
  PROVE  Older(age) <= Older(other) + slack
BY SettingsConstants DEF Older

(* Every step keeps the invariant of the settings.                         *)
LEMMA SettingsStep ==
  ASSUME SettingsInv, [SettingsNext]_settingsVars
  PROVE  SettingsInv'
<1> USE SettingsConstants DEF SettingsInv, SettingsTypeOK, AgeInv, RevisionInv, ServedInTime,
      EnforceOutlivesOutage, NeverAnEarlierRevision, Ages, Revision,
      mem, disk, call, environment, history, settingsVars
<1>1. CASE FromMemory
  <2>1. /\ memory # None /\ memAge < Settings(memory).maxAge
        /\ served' = [source |-> source, revision |-> memory, age |-> memIssued]
        /\ top' = (IF memory > top THEN memory ELSE top)
        /\ UNCHANGED <<memory, source, memAge, memIssued, file, fileAge, fileIssued, fetch,
                       asked, reply, replyAge, bootstrap, current, healthy, setback>>
    BY <1>1 DEF FromMemory, Fresh, Serve
  <2>2. memory \in Revision /\ top' = top
    BY <2>1
  <2>3. CASE source = "bootstrap"
    BY <2>1, <2>2, <2>3 DEF Settings
  <2>4. CASE source # "bootstrap"
    <3>1. memory # 0 /\ memAge < Published[memory].maxAge
      BY <2>1, <2>2, <2>4 DEF Settings
    <3>2. memory \in DOMAIN Published
      <4>1. memory \in 0..Len(Published)
        BY <2>2
      <4> HIDE DEF SettingsInv, SettingsTypeOK, AgeInv, RevisionInv, ServedInTime,
                   EnforceOutlivesOutage, NeverAnEarlierRevision
      <4> QED
        BY <3>1, <4>1
    <3>3. Published[memory].maxAge \in Nat /\ memAge \in Nat /\ memIssued \in Nat
          /\ setback \in Nat
      BY <3>2
    <3>4. /\ source = "platform" => memIssued <= memAge
          /\ source = "cache" => memIssued <= memAge + MaxStale + MaxCall + setback
      BY <3>2
    <3>5. ServedInTime'
      <4> HIDE DEF SettingsInv, SettingsTypeOK, AgeInv, RevisionInv,
                   EnforceOutlivesOutage, NeverAnEarlierRevision
      <4>1. served'.source = source /\ served'.revision = memory /\ served'.age = memIssued
        BY <2>1
      <4> QED
        BY <2>1, <3>1, <3>3, <3>4, <4>1
    <3> QED
      BY <2>1, <2>2, <3>1, <3>5 DEF Settings
  <2> QED
    BY <2>3, <2>4
<1>2. CASE AskPlatform
  BY <1>2 DEF AskPlatform, Fresh, Serve, Settings, Done, Remember, UseCache, UseBootstrap, RefuseClaims, ExpiredEnforce, Stale
<1>3. CASE Fetched
  <2>1. /\ fetch = "asking" /\ reply # None
        /\ file' = reply /\ fileAge' = 0 /\ fileIssued' = replyAge
        /\ memory' = reply /\ source' = "platform" /\ memAge' = asked
        /\ memIssued' = replyAge
        /\ served' = [source |-> "platform", revision |-> reply, age |-> replyAge]
        /\ top' = (IF reply > top THEN reply ELSE top)
        /\ UNCHANGED <<bootstrap, current, healthy, setback>>
    BY <1>3 DEF Fetched, Remember, Serve
  <2>2. Done
    BY <1>3 DEF Fetched
  <2>3. /\ reply \in DOMAIN Published /\ reply \in Revision /\ reply # 0
        /\ asked \in 0..MaxCall /\ replyAge \in 0..asked /\ setback \in Nat
    BY <2>1
  <2>4. top' = reply
    BY <2>1, <2>3
  <2>5. ServedInTime'
    BY <2>1, <2>3
  <2>6. AgeInv'
    BY <2>1, <2>2, <2>3 DEF Done
  <2>7. SettingsTypeOK'
    BY <2>1, <2>2, <2>3, <2>4 DEF Done
  <2>8. RevisionInv' /\ NeverAnEarlierRevision' /\ EnforceOutlivesOutage'
    BY <2>1, <2>2, <2>3, <2>4 DEF Done
  <2> QED
    BY <2>5, <2>6, <2>7, <2>8
<1>4. CASE FetchFails
  <2>1. Done /\ UNCHANGED <<bootstrap, current, healthy, setback>>
    BY <1>4 DEF FetchFails
  <2>2. CASE UseCache
    <3>1. /\ file # None /\ fileAge <= MaxStale
          /\ memory' = file /\ source' = "cache" /\ memAge' = asked
          /\ memIssued' = fileIssued
          /\ served' = [source |-> "cache", revision |-> file, age |-> fileIssued]
          /\ top' = (IF file > top THEN file ELSE top)
          /\ UNCHANGED <<file, fileAge, fileIssued>>
      BY <2>2 DEF UseCache, Stale, Remember, Serve
    <3>2. /\ file \in DOMAIN Published /\ file = top /\ top' = top
          /\ Published[file].maxAge \in Nat \ {0}
      BY <3>1
    <3>3. fileIssued <= MaxStale + MaxCall + setback
      BY <3>1
    <3>4. ServedInTime'
      <4>1. setback' = setback /\ setback \in Nat /\ fileIssued \in Nat
        BY <2>1
      <4> HIDE DEF SettingsInv, SettingsTypeOK, AgeInv, RevisionInv,
                   EnforceOutlivesOutage, NeverAnEarlierRevision
      <4>2. /\ served'.source = "cache" /\ served'.revision = file
            /\ served'.age = fileIssued
        BY <3>1
      <4> QED
        BY <3>2, <3>3, <4>1, <4>2
    <3>5. AgeInv'
      BY <2>1, <3>1, <3>3 DEF Done
    <3>6. SettingsTypeOK'
      BY <2>1, <3>1, <3>2 DEF Done
    <3>7. RevisionInv' /\ NeverAnEarlierRevision' /\ EnforceOutlivesOutage'
      BY <2>1, <3>1, <3>2 DEF Done
    <3> QED
      BY <3>4, <3>5, <3>6, <3>7
  <2>3. CASE UseBootstrap
    <3>1. /\ file = None \/ Settings(file).mode # "enforce"
          /\ memory' = 0 /\ source' = "bootstrap" /\ memAge' = asked /\ memIssued' = 0
          /\ served' = [source |-> "bootstrap", revision |-> 0, age |-> 0]
          /\ top' = (IF 0 > top THEN 0 ELSE top)
          /\ UNCHANGED <<file, fileAge, fileIssued>>
      BY <2>3 DEF UseBootstrap, ExpiredEnforce, Remember, Serve
    <3>2. top' = top
      BY <3>1
    <3>3. SettingsTypeOK'
      BY <2>1, <3>1, <3>2 DEF Done
    <3>4. AgeInv' /\ RevisionInv' /\ ServedInTime' /\ NeverAnEarlierRevision'
      BY <2>1, <3>1, <3>2 DEF Done
    <3>5. EnforceOutlivesOutage'
      BY <2>1, <3>1 DEF Settings
    <3> QED
      BY <3>3, <3>4, <3>5
  <2>4. CASE RefuseClaims
    BY <2>1, <2>4 DEF RefuseClaims, Done, Settings
  <2> QED
    BY <1>4, <2>2, <2>3, <2>4 DEF FetchFails
<1>5. CASE PlatformReplies
  BY <1>5 DEF PlatformReplies, Fresh, Serve, Settings, Done, Remember, UseCache, UseBootstrap, RefuseClaims, ExpiredEnforce, Stale
<1>6. CASE Publish
  BY <1>6 DEF Publish, Fresh, Serve, Settings, Done, Remember, UseCache, UseBootstrap, RefuseClaims, ExpiredEnforce, Stale
<1>7. CASE Weather
  BY <1>7 DEF Weather, Fresh, Serve, Settings, Done, Remember, UseCache, UseBootstrap, RefuseClaims, ExpiredEnforce, Stale
<1>8. CASE LoseFile
  BY <1>8 DEF LoseFile, Fresh, Serve, Settings, Done, Remember, UseCache, UseBootstrap, RefuseClaims, ExpiredEnforce, Stale
<1>9. CASE Restart
  BY <1>9 DEF Restart, Fresh, Serve, Settings, Done, Remember, UseCache, UseBootstrap, RefuseClaims, ExpiredEnforce, Stale
<1>10. CASE SetClockBack
  <2>1. /\ setback' = setback + 1 /\ setback < MaxSetback /\ fileAge' = fileAge - 1
        /\ UNCHANGED <<memory, source, memAge, memIssued, file, fileIssued, fetch, asked,
                       reply, replyAge, bootstrap, current, healthy, served, top>>
    BY <1>10 DEF SetClockBack
  <2>2. AgeInv'
    BY <2>1
  <2>3. ServedInTime'
    <3>1. served.source = "cache" => Published[served.revision].maxAge \in Int
      BY <2>1
    <3> QED
      BY <2>1, <3>1
  <2> QED
    BY <2>1, <2>2, <2>3 DEF Settings
<1>11. CASE Tick
  <2>1. /\ memAge' = Older(memAge) /\ memIssued' = Older(memIssued)
        /\ fileAge' = Older(fileAge) /\ fileIssued' = Older(fileIssued)
        /\ UNCHANGED <<memory, source, file, fetch, reply, bootstrap, current, healthy,
                       setback, served, top>>
    BY <1>11 DEF Tick
  <2>2. asked' \in 0..MaxCall /\ replyAge' \in 0..asked'
    <3>1. /\ fetch = "asking" => asked < MaxCall
          /\ asked' = (IF fetch = "asking" THEN asked + 1 ELSE asked)
          /\ replyAge' = (IF reply # None THEN replyAge + 1 ELSE replyAge)
      BY <1>11 DEF Tick
    <3>2. asked \in 0..MaxCall /\ replyAge \in 0..asked /\ MaxCall \in Nat
      OBVIOUS
    <3>3. CASE fetch = "asking"
      BY <3>1, <3>2, <3>3
    <3>4. CASE fetch # "asking"
      <4>1. reply = None
        BY <3>4
      <4> QED
        BY <3>1, <3>2, <3>4, <4>1
    <3> QED
      BY <3>3, <3>4
  <2>3. /\ memAge \in Int /\ memIssued \in Int /\ fileIssued \in Int /\ fileAge \in Int
        /\ 0 <= memAge /\ 0 <= memIssued /\ 0 <= fileIssued
        /\ memAge <= AgeBound + 1 /\ memIssued <= AgeBound + 1
        /\ fileIssued <= AgeBound + 1 /\ fileAge <= AgeBound + 1
    OBVIOUS
  <2>4. memAge' \in Ages
    <3> HIDE DEF SettingsInv, SettingsTypeOK, AgeInv, RevisionInv, ServedInTime,
                   EnforceOutlivesOutage, NeverAnEarlierRevision
    <3>1. Older(memAge) \in Int /\ memAge <= Older(memAge) /\ Older(memAge) <= AgeBound + 1
      BY <2>3, OlderBound
    <3>2. Older(memAge) \in 0..(AgeBound + 1)
      BY <2>3, <3>1
    <3> QED
      BY <2>1, <3>2 DEF Ages
  <2>5. memIssued' \in Ages
    <3> HIDE DEF SettingsInv, SettingsTypeOK, AgeInv, RevisionInv, ServedInTime,
                   EnforceOutlivesOutage, NeverAnEarlierRevision
    <3>1. Older(memIssued) \in Int /\ memIssued <= Older(memIssued) /\ Older(memIssued) <= AgeBound + 1
      BY <2>3, OlderBound
    <3>2. Older(memIssued) \in 0..(AgeBound + 1)
      BY <2>3, <3>1
    <3> QED
      BY <2>1, <3>2 DEF Ages
  <2>6. fileIssued' \in Ages
    <3> HIDE DEF SettingsInv, SettingsTypeOK, AgeInv, RevisionInv, ServedInTime,
                   EnforceOutlivesOutage, NeverAnEarlierRevision
    <3>1. Older(fileIssued) \in Int /\ fileIssued <= Older(fileIssued) /\ Older(fileIssued) <= AgeBound + 1
      BY <2>3, OlderBound
    <3>2. Older(fileIssued) \in 0..(AgeBound + 1)
      BY <2>3, <3>1
    <3> QED
      BY <2>1, <3>2 DEF Ages
  <2>7. fileAge' \in Int /\ fileAge' <= AgeBound + 1
    BY <2>1, <2>3, OlderBound
  <2>8. AgeInv'
    <3>1. source = "platform" => Older(memIssued) <= Older(memAge) + 0
      BY <2>3, OlderTogether
    <3>2. source = "cache" => Older(memIssued) <= Older(memAge) + (MaxStale + MaxCall + setback)
      BY <2>3, OlderTogether
    <3>3. file # None => Older(fileIssued) <= Older(fileAge) + (MaxCall + setback)
      BY <2>3, OlderTogether
    <3>4. Older(memAge) \in Int /\ Older(fileAge) \in Int
      BY <2>3, OlderBound
    <3>5. setback \in Nat
      OBVIOUS
    <3>6. /\ Older(memAge) + 0 = Older(memAge)
          /\ Older(memAge) + (MaxStale + MaxCall + setback)
               = Older(memAge) + MaxStale + MaxCall + setback
          /\ Older(fileAge) + (MaxCall + setback) = Older(fileAge) + MaxCall + setback
      <4> HIDE DEF SettingsInv, SettingsTypeOK, AgeInv, RevisionInv, ServedInTime,
                   EnforceOutlivesOutage, NeverAnEarlierRevision
      <4> QED
        BY <3>4, <3>5
    <3>7. reply' # None => fetch' = "asking"
      BY <2>1
    <3>8. /\ source' = "platform" => memIssued' <= memAge'
          /\ source' = "cache" => memIssued' <= memAge' + MaxStale + MaxCall + setback'
          /\ file' # None => fileIssued' <= fileAge' + MaxCall + setback'
      <4> HIDE DEF SettingsInv, SettingsTypeOK, AgeInv, RevisionInv, ServedInTime,
                   EnforceOutlivesOutage, NeverAnEarlierRevision
      <4> QED
        BY <2>1, <3>1, <3>2, <3>3, <3>6
    <3> QED
      BY <3>7, <3>8
  <2> QED
    BY <2>1, <2>2, <2>4, <2>5, <2>6, <2>7, <2>8 DEF Settings
<1>12. CASE UNCHANGED settingsVars
  BY <1>12 DEF Settings
<1> QED
  BY <1>1, <1>2, <1>3, <1>4, <1>5, <1>6, <1>7, <1>8, <1>9, <1>10, <1>11, <1>12 DEF SettingsNext, Get

(* A process that was just started knows nothing.                          *)
LEMMA SettingsInitInv == SettingsInit => SettingsInv
BY SettingsConstants
DEF SettingsInit, SettingsInv, SettingsTypeOK, AgeInv, RevisionInv, ServedInTime,
    EnforceOutlivesOutage, NeverAnEarlierRevision, Ages, Revision

(* The invariant of the settings.                                          *)
THEOREM SettingsInvariantHolds == SettingsSpec => []SettingsInv
BY SettingsInitInv, SettingsStep, PTL DEF SettingsSpec

(* Every variable of the settings keeps its type.                          *)
THEOREM SettingsTypeCorrect == SettingsSpec => []SettingsTypeOK
BY SettingsInvariantHolds, PTL DEF SettingsInv

(* What a sweep is given is as young as its source allows, with all that   *)
(* the wall clock was set back.                                            *)
THEOREM ServedInTimeHolds == SettingsSpec => []ServedInTime
BY SettingsInvariantHolds, PTL DEF SettingsInv

(* Settings to be enforced are never replaced by the configuration.        *)
THEOREM EnforceOutlivesOutageHolds == SettingsSpec => []EnforceOutlivesOutage
BY SettingsInvariantHolds, PTL DEF SettingsInv

(* No sweep is given an earlier revision than one before it.               *)
THEOREM NeverAnEarlierRevisionHolds == SettingsSpec => []NeverAnEarlierRevision
BY SettingsInvariantHolds, PTL DEF SettingsInv
=============================================================================
