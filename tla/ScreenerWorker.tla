---------------------------- MODULE ScreenerWorker ----------------------------
(***************************************************************************)
(* ScreenerWorker (ditto_screener/worker.py): the sweep loop, one item at  *)
(* a time, and the verdict submission of PlatformClient.submit_result with *)
(* its retries, through stops, crashes and restarts.                       *)
(*                                                                         *)
(* A screen is one step here, with what BuildGate promises of it: it       *)
(* publishes an image if and only if it passes, it may raise, and it may   *)
(* leave a shadow result.  A verdict is its attempt, outcome, image and    *)
(* settings; an image is named by the attempt it was uploaded for.  Leases *)
(* run out at any time.  Heartbeats are in a module of their own.          *)
(***************************************************************************)
EXTENDS Naturals, Sequences, FiniteSets

CONSTANTS
  Attempts,      \* attempt ids the platform can hand out
  NoAttempt,
  ScreenOutcomes, \* what a screen may end in
  Lanes,         \* what the items of a claim ask for
  Settings,      \* effective review settings: [revision, mode]
  Bootstrap,     \* those of the configuration, revision 0
  NoSettings,    \* the unsigned settings of revision 0
  Tries,         \* len(_VERDICT_RETRY_DELAYS_SECONDS) + 1
  MaxClaim,      \* items of one claim
  MaxCrashes

ASSUME WorkerAssumption ==
  /\ NoAttempt \notin Attempts
  /\ Lanes \subseteq {"full", "build_only", "duplicate", "unsupported",
                      "anonymous"}                  \* no attempt id
  /\ ScreenOutcomes \subseteq {"pass", "pass_inconclusive", "quarantine",
                               "deterministic_reject", "retryable_infra",
                               "inconclusive"}
  /\ Settings \subseteq [revision : Nat, mode : {"off", "shadow", "enforce"}]
  /\ Bootstrap \in Settings /\ Bootstrap.revision = 0
  /\ NoSettings \notin Settings
  /\ Tries \in Nat \ {0} /\ MaxClaim \in Nat \ {0} /\ MaxCrashes \in Nat

VARIABLES
  pc,         \* where the sweep loop is
  stop,       \* the stop event of a signal
  applied,    \* the settings the gate runs under
  status,     \* _review_settings_status
  queue,      \* items of this sweep still to come
  item,       \* the item being screened
  image,      \* screened_image_upload_id
  outcome,    \* of the decision, "-" before
  shadow,     \* attempts whose shadow result the gate holds
  raising,    \* an exception that is not a PlatformError is on its way out
  try,        \* attempts of the verdict request, 0 if none
  answer,     \* its answer: "-", "waiting", "ok", "transient", "rejected"
  inflight,   \* verdict requests the platform has not handled
  crashes,
  lease,      \* platform: "free", "live", "lapsed"
  uploaded,   \* platform: attempts with a verified image
  verdicts,   \* platform: the verdicts it applied
  posted,     \* history: every verdict sent
  telemetry,  \* history: every shadow report sent
  screenedBy  \* history: the settings the gate screened an attempt under

rest == <<applied, status, item, image, outcome, shadow, raising>>
memory == <<queue, rest>>
call == <<try, answer, inflight>>
platform == <<lease, uploaded, verdicts>>
history == <<posted, telemetry, screenedBy>>
vars == <<pc, stop, memory, call, crashes, platform, history>>

Items == [attempt : Attempts, lane : Lanes]
NoItem == [attempt |-> NoAttempt, lane |-> "-"]

PassingOutcomes == {"pass", "pass_inconclusive"}
Outcomes == ScreenOutcomes \cup {"deterministic_reject", "retryable_infra"}

Init ==
  /\ pc = "poll" /\ stop = FALSE
  /\ applied = Bootstrap /\ status = Bootstrap
  /\ queue = <<>> /\ item = NoItem /\ image = NoAttempt /\ outcome = "-"
  /\ shadow = {} /\ raising = FALSE
  /\ try = 0 /\ answer = "-"
  /\ inflight = {} /\ crashes = 0
  /\ lease = [a \in Attempts |-> "free"] /\ uploaded = {} /\ verdicts = {}
  /\ posted = {} /\ telemetry = {}
  /\ screenedBy = [a \in Attempts |-> NoSettings]

-----------------------------------------------------------------------------
(* The sweep                                                               *)

Go(to) == pc' = to

(* The process ends, and all it knew is lost.                              *)
Die ==
  /\ pc' = "dead" /\ stop' = FALSE
  /\ applied' = Bootstrap /\ status' = Bootstrap
  /\ queue' = <<>> /\ item' = NoItem /\ image' = NoAttempt /\ outcome' = "-"
  /\ shadow' = {} /\ raising' = FALSE
  /\ try' = 0 /\ answer' = "-"

Poll ==
  /\ pc = "poll"
  /\ Go(IF stop THEN "stopped" ELSE "settings")
  /\ UNCHANGED <<stop, memory, call, crashes, platform, history>>

(* Slip: a revision is taken to determine its contents.                    *)
RevisionOnly(s) == s.revision

(* What apply_review_settings compares to find settings unchanged.         *)
SettingsKey(s) == s

GetReviewSettings ==
  /\ pc = "settings"
  /\ \E s \in Settings :
       /\ applied' = IF SettingsKey(s) = SettingsKey(applied) THEN applied ELSE s
       /\ status' = s
  /\ Go("policy")
  /\ UNCHANGED <<stop, queue, item, image, outcome, shadow, raising, call,
                 crashes, platform, history>>

RequiredPolicyAgrees ==
  /\ pc = "policy"
  /\ Go("claim")
  /\ UNCHANGED <<stop, memory, call, crashes, platform, history>>

(* A PlatformError ends the sweep until the next cycle; any other error,   *)
(* as of an answer that does not parse, ends the worker.                   *)
SweepFails ==
  /\ pc \in {"settings", "policy", "claim"}
  /\ \/ Go("poll") /\ UNCHANGED <<stop, memory, try, answer>>
     \/ Die
  /\ UNCHANGED <<inflight, crashes, platform, history>>

Free == {a \in Attempts : lease[a] = "free"}
Claims ==
  {is \in UNION {[1..n -> Items] : n \in 0..MaxClaim} :
     /\ \A i \in DOMAIN is : is[i].attempt \in Free
     /\ \A i, j \in DOMAIN is : is[i].attempt = is[j].attempt => i = j}

(* The platform leases what it hands out even if the worker then learns of *)
(* another policy, or nothing at all.                                      *)
Claim ==
  /\ pc = "claim"
  /\ \E is \in Claims :
       /\ lease' = [a \in Attempts |-> IF \E i \in DOMAIN is : is[i].attempt = a
                                       THEN "live" ELSE lease[a]]
       /\ \/ queue' = is /\ Go("next") /\ UNCHANGED <<stop, try, answer, rest>>
          \/ Go("poll") /\ UNCHANGED <<stop, try, answer, queue, rest>>
          \/ Die
  /\ UNCHANGED <<inflight, crashes, uploaded, verdicts, history>>

(* A stop leaves the rest of the claim to its leases.                      *)
EndSweep ==
  /\ pc = "next" /\ (stop \/ queue = <<>>)
  /\ queue' = <<>>
  /\ Go("poll")
  /\ UNCHANGED <<stop, applied, status, item, image, outcome, shadow, raising,
                 call, crashes, platform, history>>

-----------------------------------------------------------------------------
(* _screen_one                                                             *)

BeginItem ==
  /\ pc = "next" /\ ~stop /\ queue # <<>>
  /\ queue' = Tail(queue)
  /\ IF Head(queue).lane = "anonymous"
     THEN UNCHANGED <<pc, item>>
     ELSE item' = Head(queue) /\ Go("item")
  /\ UNCHANGED <<stop, applied, status, image, outcome, shadow, raising, call,
                 crashes, platform, history>>

Decide(result) == outcome' = result /\ Go("decided")

(* The precheck and the lease decide an item that is not worth a screen.   *)
DecideUnscreened ==
  /\ pc = "item"
  /\ \/ item.lane = "duplicate" /\ Decide("deterministic_reject")
     \/ item.lane \in {"full", "build_only"} /\ Decide("retryable_infra")
  /\ UNCHANGED <<stop, applied, status, queue, item, image, shadow, raising, call,
                 crashes, platform, history>>

Unsupported ==
  /\ pc = "item" /\ item.lane = "unsupported"
  /\ Go("finally")
  /\ UNCHANGED <<stop, memory, call, crashes, platform, history>>

(* get_artifact, bound to the lease of the attempt.                        *)
GetArtifact ==
  /\ pc = "item" /\ item.lane \in {"full", "build_only"}
  /\ lease[item.attempt] = "live"
  /\ screenedBy' = [screenedBy EXCEPT ![item.attempt] = applied]
  /\ Go("screen")
  /\ UNCHANGED <<stop, memory, call, crashes, platform, posted, telemetry>>

(* An exception leaves _screen_one unless it is a PlatformError.           *)
Except == Go("finally") /\ raising' \in BOOLEAN

ArtifactFails ==
  /\ pc = "item" /\ item.lane \in {"full", "build_only"}
  /\ Except
  /\ UNCHANGED <<stop, applied, status, queue, item, image, outcome, shadow, call,
                 crashes, platform, history>>

(* publish_image, which the gate calls once, when it decided to pass; its  *)
(* answer may be lost, or come too late, after the platform verified it.   *)
PublishImage ==
  /\ pc = "screen" /\ item.attempt \notin uploaded
  /\ lease[item.attempt] = "live"
  /\ uploaded' = uploaded \cup {item.attempt}
  /\ image' \in {item.attempt, NoAttempt}
  /\ UNCHANGED <<pc, stop, applied, status, queue, item, outcome, shadow, raising,
                 call, crashes, lease, verdicts, history>>

(* The gate returns; a full screen may have run a review in shadow.        *)
ScreenReturns ==
  /\ pc = "screen"
  /\ \E o \in ScreenOutcomes :
       /\ o \in PassingOutcomes <=> image # NoAttempt
       /\ item.lane = "build_only" =>
            o \in {"pass", "deterministic_reject", "retryable_infra"}
       /\ Decide(o)
  /\ \/ UNCHANGED shadow
     \/ /\ item.lane = "full" /\ applied.mode = "shadow"
        /\ shadow' = shadow \cup {item.attempt}
  /\ UNCHANGED <<stop, applied, status, queue, item, image, raising, call, crashes,
                 platform, history>>

ScreenRaises ==
  /\ pc = "screen" /\ item.attempt \notin uploaded
  /\ raising' = TRUE /\ Go("finally")
  /\ UNCHANGED <<stop, applied, status, queue, item, image, outcome, shadow, call,
                 crashes, platform, history>>

(* A shadow result is reported under a shadow revision of the platform.    *)
Reportable == status.mode = "shadow" /\ status.revision >= 1

SubmitShadowReview ==
  /\ pc = "decided" /\ item.attempt \in shadow
  /\ shadow' = shadow \ {item.attempt}
  /\ \/ /\ Reportable
        /\ telemetry' = telemetry \cup {[attempt |-> item.attempt, settings |-> status]}
        /\ \/ UNCHANGED <<pc, raising>>
           \/ raising' = TRUE /\ Go("finally")   \* an answer that does not parse
     \/ ~Reportable /\ UNCHANGED <<pc, raising, telemetry>>
  /\ UNCHANGED <<stop, applied, status, queue, item, image, outcome, call, crashes,
                 platform, posted, screenedBy>>

(* The settings a verdict is signed over: none below revision 1.           *)
Signed(s) == IF s.revision >= 1 THEN s ELSE NoSettings

Verdict(result) ==
  [attempt |-> item.attempt, outcome |-> result, image |-> image,
   settings |-> Signed(status)]

(* A pass without an image and a hold of the mechanical lane are refused.  *)
Refused ==
  \/ outcome \in PassingOutcomes /\ image = NoAttempt
  \/ outcome = "quarantine" /\ item.lane = "build_only"

Post(v, n) ==
  /\ try' = n /\ answer' = "waiting"
  /\ inflight' = inflight \cup {[verdict |-> v, try |-> n]}
  /\ posted' = posted \cup {v}

SubmitResult ==
  /\ pc = "decided" /\ item.attempt \notin shadow
  /\ IF Refused
     THEN Go("finally") /\ UNCHANGED <<call, posted>>
     ELSE Go("posting") /\ Post(Verdict(outcome), 1)
  /\ UNCHANGED <<stop, memory, crashes, platform, telemetry, screenedBy>>

(* Slip: the attempt is not counted.                                       *)
RetryUncounted ==
  /\ pc = "posting" /\ answer \in {"waiting", "transient"}
  /\ Post(Verdict(outcome), try)
  /\ UNCHANGED <<pc, stop, memory, crashes, platform, telemetry, screenedBy>>

(* A transport error, handled or not, or a transient status.               *)
RetryVerdict ==
  /\ pc = "posting" /\ answer \in {"waiting", "transient"} /\ try < Tries
  /\ Post(Verdict(outcome), try + 1)
  /\ UNCHANGED <<pc, stop, memory, crashes, platform, telemetry, screenedBy>>

EndCall == try' = 0 /\ answer' = "-" /\ UNCHANGED inflight

VerdictAccepted ==
  /\ pc = "posting" /\ answer = "ok"
  /\ Except                                  \* an answer that does not parse
  /\ EndCall
  /\ UNCHANGED <<stop, applied, status, queue, item, image, outcome, shadow,
                 crashes, platform, history>>

VerdictNotApplied ==
  /\ pc = "posting"
  /\ answer = "rejected" \/ (answer \in {"waiting", "transient"} /\ try = Tries)
  /\ Go("finally")
  /\ EndCall
  /\ UNCHANGED <<stop, memory, crashes, platform, history>>

(* Slip: the image is an attribute of the worker.                          *)
EndItemKeepingImage ==
  /\ pc = "finally"
  /\ \/ /\ ~raising
        /\ shadow' = shadow \ {item.attempt}
        /\ item' = NoItem /\ outcome' = "-"
        /\ Go("next")
        /\ UNCHANGED <<stop, applied, status, queue, image, raising, try, answer>>
     \/ raising /\ Die
  /\ UNCHANGED <<inflight, crashes, platform, history>>

(* The finally block, and the exception that goes on to end the worker.    *)
EndItem ==
  /\ pc = "finally"
  /\ \/ /\ ~raising
        /\ shadow' = shadow \ {item.attempt}
        /\ item' = NoItem /\ image' = NoAttempt /\ outcome' = "-"
        /\ Go("next")
        /\ UNCHANGED <<stop, applied, status, queue, raising, try, answer>>
     \/ raising /\ Die
  /\ UNCHANGED <<inflight, crashes, platform, history>>

-----------------------------------------------------------------------------
(* The environment: signals, crashes, the service manager, the platform    *)

RequestStop ==
  /\ ~stop /\ pc \notin {"stopped", "dead"}
  /\ stop' = TRUE
  /\ UNCHANGED <<pc, memory, call, crashes, platform, history>>

Crash ==
  /\ pc \notin {"stopped", "dead"} /\ crashes < MaxCrashes
  /\ crashes' = crashes + 1
  /\ Die
  /\ UNCHANGED <<inflight, platform, history>>

(* Restart=always: the process starts anew; requests may still be on their *)
(* way.                                                                    *)
Restart ==
  /\ pc = "dead"
  /\ Go("poll")
  /\ UNCHANGED <<stop, memory, call, crashes, platform, history>>

Lapse ==
  /\ \E a \in Attempts :
       lease[a] = "live" /\ lease' = [lease EXCEPT ![a] = "lapsed"]
  /\ UNCHANGED <<pc, stop, memory, call, crashes, uploaded, verdicts, history>>

(* The platform applies a verdict to a live lease, and knows a replay.     *)
Handle(r) ==
  \/ /\ r.verdict \in verdicts \/ (/\ lease[r.verdict.attempt] = "live"
                                   /\ \A v \in verdicts :
                                        v.attempt # r.verdict.attempt)
     /\ verdicts' = verdicts \cup {r.verdict}
  \/ UNCHANGED verdicts

Platform ==
  /\ \E r \in inflight :
       /\ Handle(r)
       /\ inflight' = inflight \ {r}
       /\ IF pc = "posting" /\ r.verdict.attempt = item.attempt /\ r.try = try
          THEN answer' \in (IF r.verdict \in verdicts' THEN {"ok", "transient"}
                            ELSE {"transient", "rejected"})
          ELSE UNCHANGED answer
  /\ UNCHANGED <<pc, stop, memory, try, crashes, lease, uploaded, history>>

Worker ==
  \/ Poll \/ GetReviewSettings \/ RequiredPolicyAgrees \/ SweepFails \/ Claim
  \/ EndSweep \/ BeginItem \/ DecideUnscreened \/ Unsupported \/ GetArtifact
  \/ ArtifactFails \/ PublishImage \/ ScreenReturns \/ ScreenRaises
  \/ SubmitShadowReview \/ SubmitResult \/ RetryVerdict \/ VerdictAccepted
  \/ VerdictNotApplied \/ EndItem

Next == Worker \/ RequestStop \/ Crash \/ Restart \/ Lapse \/ Platform

(* Every await of the worker has a timeout; a screen ends (BuildGate), and *)
(* the service manager restarts what died.                                 *)
Spec == Init /\ [][Next]_vars /\ WF_vars(Worker) /\ WF_vars(Restart)

-----------------------------------------------------------------------------
(* Properties                                                              *)

Verdicts == [attempt : Attempts, outcome : Outcomes,
             image : Attempts \cup {NoAttempt}, settings : Settings \cup {NoSettings}]

LoopTypes ==
  /\ pc \in {"poll", "settings", "policy", "claim", "next", "item", "screen",
             "decided", "posting", "finally", "stopped", "dead"}
  /\ stop \in BOOLEAN /\ raising \in BOOLEAN /\ crashes \in 0..MaxCrashes
  /\ applied \in Settings /\ status \in Settings
  /\ queue \in Seq(Items) /\ item \in Items \cup {NoItem}
  /\ image \in Attempts \cup {NoAttempt}
  /\ outcome \in Outcomes \cup {"-"} /\ shadow \subseteq Attempts
CallTypes ==
  /\ try \in 0..Tries
  /\ answer \in {"-", "waiting", "ok", "transient", "rejected"}
  /\ inflight \subseteq [verdict : Verdicts, try : 1..Tries]
PlatformTypes ==
  /\ lease \in [Attempts -> {"free", "live", "lapsed"}]
  /\ uploaded \subseteq Attempts /\ verdicts \subseteq Verdicts
HistoryTypes ==
  /\ posted \subseteq Verdicts
  /\ telemetry \subseteq [attempt : Attempts, settings : Settings]
  /\ screenedBy \in [Attempts -> Settings \cup {NoSettings}]

(* Types of every variable.                                                *)
TypeOK == LoopTypes /\ CallTypes /\ PlatformTypes /\ HistoryTypes

(* The worker implements the ledger: over retries, crashes and restarts an *)
(* attempt is given one verdict, which a later try only repeats, and a     *)
(* pass names the image uploaded for that attempt.                         *)
Ledger == INSTANCE AttemptLedger
            WITH Attempts <- Attempts, Verdicts <- Verdicts,
                 uploaded <- uploaded, posted <- posted
KeepsLedger == Ledger!Spec

(* What a verdict is signed over is what its submission was screened       *)
(* under, however the settings changed between sweeps; shadow telemetry    *)
(* names the same, and only reviews that ran in shadow mode give any.      *)
SaysWhatItRanUnder ==
  /\ \A v \in posted : screenedBy[v.attempt] # NoSettings
                          => v.settings = Signed(screenedBy[v.attempt])
  /\ \A t \in telemetry :
       /\ t.settings = screenedBy[t.attempt]
       /\ t.settings.mode = "shadow" /\ t.settings.revision >= 1

(* A signal to stop ends the worker, whatever it is doing and whatever the *)
(* platform does, unless the process dies and is started again.            *)
StopEnds == stop ~> (pc = "stopped" \/ ~stop)
=============================================================================
