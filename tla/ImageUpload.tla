------------------------------ MODULE ImageUpload ------------------------------
(***************************************************************************)
(* PlatformClient.upload_screened_image (ditto_screener/platform.py): the  *)
(* multipart upload of a screened image, with its bounded retries, the     *)
(* cancellation by the lease and the abort of what failed.                 *)
(*                                                                         *)
(* A request may be handled late, after the client gave up on its answer   *)
(* and tried again, or never.  The platform and its object storage are     *)
(* modelled from the requests and answers the client exchanges with them.  *)
(* A part is the span of bytes it carries, which is also its ETag.         *)
(***************************************************************************)
EXTENDS Naturals, Sequences, FiniteSets

CONSTANTS
  Uploads,        \* upload ids the platform can hand out
  NoUpload,
  Attempts,       \* _IMAGE_UPLOAD_ATTEMPTS
  DeclaredSize,   \* size_bytes of the image that was hashed
  PartSize,       \* part_size_bytes of the platform
  FileSizes       \* sizes the archive on disk may be found to have

ASSUME UploadAssumption ==
  /\ NoUpload \notin Uploads
  /\ Attempts \in Nat \ {0}
  /\ DeclaredSize \in Nat \ {0} /\ PartSize \in Nat \ {0}
  /\ FileSizes \subseteq Nat

Callers == {"main", "abort"}     \* the upload, and its shielded abort

VARIABLES
  pc,          \* the call the upload is at, or how it ended
  upload,      \* the upload initiated for it, NoUpload before
  offset,      \* uploaded_bytes
  part,        \* the part read last
  completed,   \* the parts stored so far
  fileSize,    \* bytes of the archive on disk
  fileChanged,
  cancelled,   \* asyncio.timeout fires once
  try,         \* attempts of the request each caller is at, 0 if none
  answer,      \* its answer: "-", "waiting", "ok", "transient", "rejected"
  gaveUp,      \* history: the abort ended without an acknowledgement
  inflight,    \* requests the platform has not handled
  named,       \* the upload an accepted initiate named
  status,      \* platform: "absent", "open", "completed", "aborted"
  stored       \* platform: the parts in storage per upload

fileVars == <<offset, part, completed, fileSize, fileChanged>>
callVars == <<try, answer, inflight>>
platformVars == <<named, status, stored>>
vars == <<pc, upload, fileVars, cancelled, callVars, gaveUp, platformVars>>

Span(from, to) == [from |-> from, to |-> to]
Working == {"initiate", "read", "mint", "store", "complete"}

Request(op, who, n, span) ==
  [op |-> op, who |-> who, try |-> n, upload |-> upload, part |-> span,
   parts |-> completed]

(* The request whose answer a caller still waits for.                      *)
Current(r) ==
  /\ answer[r.who] = "waiting"
  /\ r.try = try[r.who] /\ r.part = part
  /\ r.who = "main" => r.op = pc

Init ==
  /\ pc = "start"
  /\ upload = NoUpload
  /\ offset = 0 /\ part = Span(0, 0) /\ completed = <<>>
  /\ fileSize \in FileSizes /\ fileChanged = FALSE
  /\ cancelled = FALSE
  /\ try = [c \in Callers |-> 0] /\ answer = [c \in Callers |-> "-"]
  /\ gaveUp = FALSE
  /\ inflight = {}
  /\ named = NoUpload
  /\ status = [u \in Uploads |-> "absent"] /\ stored = [u \in Uploads |-> {}]

-----------------------------------------------------------------------------
(* _image_request: one finite request of a caller                          *)

Ask(op, who, n, span) ==
  /\ try' = [try EXCEPT ![who] = n]
  /\ answer' = [answer EXCEPT ![who] = "waiting"]
  /\ inflight' = inflight \cup {Request(op, who, n, span)}

Rest(who) ==
  /\ try' = [try EXCEPT ![who] = 0]
  /\ answer' = [answer EXCEPT ![who] = "-"]
  /\ UNCHANGED inflight

Accepted(who) == answer[who] = "ok"

(* A transient answer, or a transport error, which may strike whether or   *)
(* not the request was handled, uses up one attempt.                       *)
Again(who) == answer[who] # "-" /\ try[who] < Attempts

Exhausted(who) ==
  \/ answer[who] = "rejected"
  \/ answer[who] # "-" /\ try[who] = Attempts

-----------------------------------------------------------------------------
(* upload_screened_image                                                   *)

Enter(stage) == pc' = stage

(* The BaseException handler: an upload that has an id is aborted first.   *)
Fail ==
  IF upload = NoUpload
  THEN Enter("raised") /\ Rest("main")
  ELSE /\ Enter("aborting")
       /\ try' = [try EXCEPT !["main"] = 0, !["abort"] = 1]
       /\ answer' = [answer EXCEPT !["main"] = "-", !["abort"] = "waiting"]
       /\ inflight' = inflight \cup {Request("abort", "abort", 1, part)}

(* The size check comes before any request and needs no abort.             *)
Start ==
  /\ pc = "start"
  /\ IF fileSize # DeclaredSize
     THEN Enter("raised") /\ UNCHANGED callVars
     ELSE Enter("initiate") /\ Ask("initiate", "main", 1, part)
  /\ UNCHANGED <<upload, fileVars, cancelled, gaveUp, platformVars>>

(* An accepted initiate that cannot be parsed fails before the id is known.*)
Initiated ==
  /\ pc = "initiate" /\ Accepted("main")
  /\ \/ /\ upload' = named
        /\ Enter("read")
     \/ /\ Enter("raised")
        /\ UNCHANGED upload
  /\ Rest("main")
  /\ UNCHANGED <<fileVars, cancelled, gaveUp, platformVars>>

(* Slip: nothing compares what was read with what was declared.            *)
SizeUnchecked == TRUE

SizeStillDeclared == offset = DeclaredSize /\ fileSize = DeclaredSize

Lesser(a, b) == IF a <= b THEN a ELSE b

(* The next part is read, and a URL requested for it.                      *)
ReadPart ==
  /\ pc = "read" /\ offset < DeclaredSize
  /\ IF fileSize <= offset
     THEN Fail /\ UNCHANGED <<offset, part>>
     ELSE /\ offset' = Lesser(offset + PartSize, fileSize)
          /\ part' = Span(offset, offset')
          /\ Enter("mint") /\ Ask("mint", "main", 1, part')
  /\ UNCHANGED <<upload, completed, fileSize, fileChanged, cancelled, gaveUp,
                 platformVars>>

(* With enough bytes stored the upload is completed.                       *)
AskCompletion ==
  /\ pc = "read" /\ offset >= DeclaredSize
  /\ IF SizeStillDeclared
     THEN Enter("complete") /\ Ask("complete", "main", 1, part)
     ELSE Fail
  /\ UNCHANGED <<upload, fileVars, cancelled, gaveUp, platformVars>>

Minted ==
  /\ pc = "mint" /\ Accepted("main")
  /\ \/ Enter("store") /\ Ask("store", "main", 1, part)
     \/ Fail                                  \* an answer that does not parse
  /\ UNCHANGED <<upload, fileVars, cancelled, gaveUp, platformVars>>

StoredPart ==
  /\ pc = "store" /\ Accepted("main")
  /\ \/ /\ completed' = Append(completed, part)
        /\ Enter("read") /\ Rest("main")
     \/ Fail /\ UNCHANGED completed           \* no ETag
  /\ UNCHANGED <<upload, offset, part, fileSize, fileChanged, cancelled, gaveUp,
                 platformVars>>

(* Slip: a last 5xx is taken for a verification that merely answered late. *)
CompletedAfterRetries ==
  /\ pc = "complete"
  /\ Accepted("main") \/ (answer["main"] = "transient" /\ try["main"] = Attempts)
  /\ Enter("returned") /\ Rest("main")
  /\ UNCHANGED <<upload, fileVars, cancelled, gaveUp, platformVars>>

Completed ==
  /\ pc = "complete" /\ Accepted("main")
  /\ \/ Enter("returned") /\ Rest("main")
     \/ Fail                                  \* an answer that does not parse
  /\ UNCHANGED <<upload, fileVars, cancelled, gaveUp, platformVars>>

(* Slip: the attempt is not counted.                                       *)
RetryRequestUncounted ==
  /\ pc \in Working /\ Again("main")
  /\ Ask(pc, "main", try["main"], part)
  /\ UNCHANGED <<pc, upload, fileVars, cancelled, gaveUp, platformVars>>

RetryRequest ==
  /\ pc \in Working /\ Again("main")
  /\ Ask(pc, "main", try["main"] + 1, part)
  /\ UNCHANGED <<pc, upload, fileVars, cancelled, gaveUp, platformVars>>

RequestFails ==
  /\ pc \in Working /\ Exhausted("main")
  /\ Fail
  /\ UNCHANGED <<upload, fileVars, cancelled, gaveUp, platformVars>>

(* The lease of the screen runs out.  Once: a second timeout does not come.*)
Cancel ==
  /\ pc \in Working /\ ~cancelled
  /\ cancelled' = TRUE
  /\ Fail
  /\ UNCHANGED <<upload, fileVars, gaveUp, platformVars>>

-----------------------------------------------------------------------------
(* _abort_screened_image_upload, which asyncio.shield keeps alive          *)

EndAbort ==
  /\ Rest("abort")
  /\ pc' = IF pc = "aborting" THEN "raised" ELSE pc

AbortAcknowledged ==
  /\ Accepted("abort")
  /\ EndAbort
  /\ UNCHANGED <<upload, fileVars, cancelled, gaveUp, platformVars>>

RetryAbort ==
  /\ Again("abort")
  /\ Ask("abort", "abort", try["abort"] + 1, part)
  /\ UNCHANGED <<pc, upload, fileVars, cancelled, gaveUp, platformVars>>

AbortFails ==
  /\ Exhausted("abort")
  /\ EndAbort
  /\ gaveUp' = TRUE
  /\ UNCHANGED <<upload, fileVars, cancelled, platformVars>>

(* Slip: the abort is awaited without a shield and dies with its caller.   *)
CancelKillsAbort ==
  /\ pc = "aborting" /\ ~cancelled
  /\ cancelled' = TRUE
  /\ Enter("raised") /\ Rest("abort")
  /\ UNCHANGED <<upload, fileVars, gaveUp, platformVars>>

(* A timeout that strikes while a failed upload is being aborted ends the  *)
(* wait and leaves the abort running.                                      *)
CancelWaitForAbort ==
  /\ pc = "aborting" /\ ~cancelled
  /\ cancelled' = TRUE
  /\ Enter("raised")
  /\ UNCHANGED <<upload, fileVars, callVars, gaveUp, platformVars>>

-----------------------------------------------------------------------------
(* The environment                                                         *)

FileChanges ==
  /\ ~fileChanged /\ pc \in Working
  /\ fileChanged' = TRUE
  /\ fileSize' \in FileSizes
  /\ UNCHANGED <<pc, upload, offset, part, completed, cancelled, callVars,
                 gaveUp, platformVars>>

(* The platform handles a request: with its effect, or refusing it.  An    *)
(* answer of the 5xx kind may or may not come with the effect.             *)
Effect(r) ==
  \/ /\ r.op = "initiate"
     /\ \E u \in Uploads :
          /\ status[u] = "absent"
          /\ status' = [status EXCEPT ![u] = "open"]
          /\ named' = IF Current(r) THEN u ELSE named
     /\ UNCHANGED stored
  \/ /\ r.op = "mint" /\ status[r.upload] = "open"
     /\ UNCHANGED platformVars
  \/ /\ r.op = "store" /\ status[r.upload] = "open"
     /\ stored' = [stored EXCEPT ![r.upload] = @ \cup {r.part}]
     /\ UNCHANGED <<named, status>>
  \/ /\ r.op = "complete" /\ status[r.upload] \in {"open", "completed"}
     /\ {r.parts[i] : i \in DOMAIN r.parts} \subseteq stored[r.upload]
     /\ status' = [status EXCEPT ![r.upload] = "completed"]
     /\ UNCHANGED <<named, stored>>
  \/ /\ r.op = "abort"
     /\ status' = [status EXCEPT ![r.upload] = IF @ = "open" THEN "aborted" ELSE @]
     /\ UNCHANGED <<named, stored>>

Respond(r, how) ==
  answer' = IF Current(r) THEN [answer EXCEPT ![r.who] = how] ELSE answer

Perform(r) ==
  /\ r \in inflight
  /\ Effect(r)
  /\ \E how \in {"ok", "transient"} : Respond(r, how)
  /\ inflight' = inflight \ {r}
  /\ UNCHANGED <<pc, upload, fileVars, cancelled, try, gaveUp>>

Refuse(r) ==
  /\ r \in inflight
  /\ \E how \in {"transient", "rejected"} : Respond(r, how)
  /\ inflight' = inflight \ {r}
  /\ UNCHANGED <<pc, upload, fileVars, cancelled, try, gaveUp, platformVars>>

Platform == \E r \in inflight : Perform(r) \/ Refuse(r)

Client ==
  \/ Start \/ Initiated \/ ReadPart \/ AskCompletion \/ Minted \/ StoredPart
  \/ Completed \/ RetryRequest \/ RequestFails \/ Cancel \/ CancelWaitForAbort
  \/ AbortAcknowledged \/ RetryAbort \/ AbortFails

Next == Client \/ FileChanges \/ Platform

(* Every request has a timeout, so a client step is always due; the        *)
(* platform owes nothing.                                                  *)
Spec == Init /\ [][Next]_vars /\ WF_vars(Client)

-----------------------------------------------------------------------------
Ops == {"initiate", "mint", "store", "complete", "abort"}
Spans == [from : Nat, to : Nat]
Requests == [op : Ops, who : Callers, try : 1..Attempts,
             upload : Uploads \cup {NoUpload}, part : Spans, parts : Seq(Spans)]

ClientTypes ==
  /\ pc \in Working \cup {"start", "aborting", "returned", "raised"}
  /\ upload \in Uploads \cup {NoUpload}
  /\ offset \in Nat /\ part \in Spans /\ completed \in Seq(Spans)
  /\ fileSize \in FileSizes /\ fileChanged \in BOOLEAN
  /\ cancelled \in BOOLEAN /\ gaveUp \in BOOLEAN
CallTypes ==
  /\ try \in [Callers -> 0..Attempts]
  /\ answer \in [Callers -> {"-", "waiting", "ok", "transient", "rejected"}]
  /\ inflight \subseteq Requests
PlatformTypes ==
  /\ named \in Uploads \cup {NoUpload}
  /\ status \in [Uploads -> {"absent", "open", "completed", "aborted"}]
  /\ stored \in [Uploads -> SUBSET Spans]

(* Types of every variable.                                                *)
TypeOK == ClientTypes /\ CallTypes /\ PlatformTypes

Tiles(parts) ==
  /\ parts # <<>>
  /\ parts[1].from = 0 /\ parts[Len(parts)].to = DeclaredSize
  /\ \A i \in 1..(Len(parts) - 1) : parts[i].to = parts[i + 1].from
  /\ \A i \in DOMAIN parts : parts[i].to - parts[i].from \in 1..PartSize

(* A completion that reaches the platform lists parts that cover the       *)
(* declared bytes once and in order, however often the file changed size   *)
(* under the upload and however often a part was sent.                     *)
CompletionTilesTheImage ==
  \A r \in inflight : r.op = "complete" => Tiles(r.parts)

(* An upload id that was returned stays verified at the platform: neither  *)
(* a late answer nor a request still on its way takes the image away.      *)
ReturnedIsVerified ==
  pc = "returned" => status[upload] = "completed"

(* An initiated upload that failed is left open at the platform only if    *)
(* its abort was refused or exhausted: no failure, and no timeout, even    *)
(* one that strikes during the abort, drops it silently.                   *)
LeftOpenOnlyIfAbortFailed ==
  pc = "raised" /\ upload # NoUpload /\ try["abort"] = 0 /\ ~gaveUp
    => status[upload] # "open"

(* The upload ends whatever the platform answers or fails to answer.       *)
UploadEnds == <>(pc \in {"returned", "raised"} /\ try["abort"] = 0)
=============================================================================
