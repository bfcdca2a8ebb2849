---------------------------- MODULE ReviewSettings ----------------------------
(***************************************************************************)
(* PlatformClient.get_review_settings and ReviewSettingsCache: the review  *)
(* settings a sweep runs under come from memory while they are fresh, else *)
(* from the platform, else from the last ones stored in a file, else from  *)
(* the configuration of the process.                                       *)
(*                                                                         *)
(* Time is kept as ages.  memAge is by the monotonic clock, fileAge by the *)
(* wall clock, which may be set back; the issued ages are the true time    *)
(* since the platform gave out those settings.                             *)
(***************************************************************************)
EXTENDS Integers, Sequences

CONSTANTS
  Published,    \* what the platform publishes: Published[r] is revision r
  Bootstraps,   \* configurations a process may be started with
  None,
  MaxStale,     \* review_settings_max_stale_seconds
  MaxCall,      \* bound on one request
  MaxSetback,   \* bound on how far the wall clock is set back in all
  AgeBound      \* ages beyond it are not told apart

Mode == {"off", "shadow", "enforce"}
ASSUME SettingsAssumption ==
  /\ Published \in Seq([mode : Mode, maxAge : Nat \ {0}]) /\ Published # <<>>
  /\ Bootstraps \subseteq [mode : Mode, maxAge : Nat \ {0}]
  /\ None \notin 0..Len(Published)
  /\ MaxStale \in Nat \ {0} /\ MaxCall \in Nat /\ MaxSetback \in Nat
  /\ AgeBound \in Nat
  /\ \A r \in DOMAIN Published :
       MaxStale + MaxCall + MaxSetback + Published[r].maxAge <= AgeBound

VARIABLES
  fetch,       \* "idle" or "asking"
  bootstrap,   \* the configuration
  memory,      \* revision in memory, 0 for the bootstrap, or None
  source,      \* review_settings_source
  memAge,      \* since _review_settings_fetched_at
  memIssued,
  file,        \* revision in the cache file, or None
  fileAge,     \* by the wall clock since cached_at
  fileIssued,
  asked,       \* since the running call began
  reply,       \* revision the platform answers it with, or None
  replyAge,
  current,     \* platform: its revision
  healthy,     \* environment: the platform answers, the disk takes writes, and
               \* the process lives
  setback,     \* environment: how far the wall clock was set back
  served,      \* history: the last settings a sweep was given
  top          \* history: the highest revision a sweep was given

mem == <<memory, source, memAge, memIssued>>
disk == <<file, fileAge, fileIssued>>
call == <<fetch, asked, reply, replyAge>>
environment == <<bootstrap, current, healthy, setback>>
history == <<served, top>>
settingsVars == <<mem, disk, call, environment, history>>

Settings(r) == IF r = 0 THEN bootstrap ELSE Published[r]

SettingsInit ==
  /\ fetch = "idle" /\ bootstrap \in Bootstraps
  /\ memory = None /\ source = "bootstrap" /\ memAge = 0 /\ memIssued = 0
  /\ file = None /\ fileAge = 0 /\ fileIssued = 0
  /\ asked = 0 /\ reply = None /\ replyAge = 0
  /\ current \in DOMAIN Published /\ healthy \in BOOLEAN /\ setback = 0
  /\ served = [source |-> "none", revision |-> 0, age |-> 0] /\ top = 0

-----------------------------------------------------------------------------

(* Slip: the configuration does not age.                                   *)
FreshUnlessFetched ==
  memory # None /\ (memory = 0 \/ memAge < Settings(memory).maxAge)

Fresh == memory # None /\ memAge < Settings(memory).maxAge

Serve(from, r, age) ==
  /\ served' = [source |-> from, revision |-> r, age |-> age]
  /\ top' = IF r > top THEN r ELSE top

FromMemory ==
  /\ fetch = "idle" /\ Fresh
  /\ Serve(source, memory, memIssued)
  /\ UNCHANGED <<mem, disk, call, environment>>

AskPlatform ==
  /\ fetch = "idle" /\ ~Fresh
  /\ fetch' = "asking" /\ asked' = 0 /\ reply' = None /\ replyAge' = 0
  /\ UNCHANGED <<mem, disk, environment, history>>

Done == fetch' = "idle" /\ asked' = 0 /\ reply' = None /\ replyAge' = 0

(* Slip: the age of an answer is counted from its arrival.                 *)
RememberOnArrival(from, r, issued) ==
  /\ memory' = r /\ source' = from /\ memAge' = 0 /\ memIssued' = issued
  /\ Serve(from, r, issued)

(* The age of an answer is counted from the start of its request.          *)
Remember(from, r, issued) ==
  /\ memory' = r /\ source' = from /\ memAge' = asked /\ memIssued' = issued
  /\ Serve(from, r, issued)

(* Slip: a cache that cannot be written is no reason to drop an answer.    *)
FetchedUnstored ==
  /\ fetch = "asking" /\ reply # None
  /\ Remember("platform", reply, replyAge)
  /\ \/ file' = reply /\ fileAge' = 0 /\ fileIssued' = replyAge
     \/ ~healthy /\ UNCHANGED disk
  /\ Done
  /\ UNCHANGED environment

(* A valid answer is stored in the file first, and then kept in memory.    *)
Fetched ==
  /\ fetch = "asking" /\ reply # None
  /\ file' = reply /\ fileAge' = 0 /\ fileIssued' = replyAge
  /\ Remember("platform", reply, replyAge)
  /\ Done
  /\ UNCHANGED environment

Stale == fileAge > MaxStale

(* Slip: what is read from the cache is stored again.                      *)
UseCacheAndTouch ==
  /\ file # None /\ ~Stale
  /\ Remember("cache", file, fileIssued)
  /\ fileAge' = 0 /\ UNCHANGED <<file, fileIssued>>

UseCache ==
  /\ file # None /\ ~Stale
  /\ Remember("cache", file, fileIssued)
  /\ UNCHANGED disk

(* Slip: expired settings are worth no more than none.                     *)
ExpiredIsNone == FALSE

ExpiredEnforce == file # None /\ Stale /\ Settings(file).mode = "enforce"

UseBootstrap ==
  /\ file = None \/ Stale
  /\ ~ExpiredEnforce /\ bootstrap.mode # "enforce"
  /\ Remember("bootstrap", 0, 0)
  /\ UNCHANGED disk

(* No settings, no claim; what is in memory stays, expired.                *)
RefuseClaims ==
  /\ file = None \/ Stale
  /\ ExpiredEnforce \/ bootstrap.mode = "enforce"
  /\ served' = [source |-> "refused", revision |-> 0, age |-> 0]
  /\ UNCHANGED <<mem, disk, top>>

(* No answer, one that is refused or not valid, or one that is not stored. *)
FetchFails ==
  /\ fetch = "asking" /\ ~healthy
  /\ UseCache \/ UseBootstrap \/ RefuseClaims
  /\ Done
  /\ UNCHANGED environment

-----------------------------------------------------------------------------
(* The environment                                                         *)

PlatformReplies ==
  /\ fetch = "asking" /\ reply = None
  /\ reply' = current /\ replyAge' = 0
  /\ UNCHANGED <<mem, disk, fetch, asked, environment, history>>

Publish ==
  /\ current < Len(Published)
  /\ current' = current + 1
  /\ UNCHANGED <<mem, disk, call, bootstrap, healthy, setback, history>>

Weather ==
  /\ healthy' = ~healthy
  /\ UNCHANGED <<mem, disk, call, bootstrap, current, setback, history>>

(* The file is lost or no longer parses.                                   *)
LoseFile ==
  /\ file # None
  /\ file' = None /\ fileAge' = 0 /\ fileIssued' = 0
  /\ UNCHANGED <<mem, call, environment, history>>

(* The process dies and another is started, perhaps configured anew.       *)
Restart ==
  /\ ~healthy
  /\ memory' = None /\ source' = "bootstrap" /\ memAge' = 0 /\ memIssued' = 0
  /\ bootstrap' \in Bootstraps
  /\ Done
  /\ UNCHANGED <<disk, current, healthy, setback, history>>

SetClockBack ==
  /\ setback < MaxSetback
  /\ setback' = setback + 1 /\ fileAge' = fileAge - 1
  /\ UNCHANGED <<mem, file, fileIssued, call, bootstrap, current, healthy, history>>

Older(age) == IF age > AgeBound THEN age ELSE age + 1

Tick ==
  /\ fetch = "asking" => asked < MaxCall
  /\ memAge' = Older(memAge) /\ memIssued' = Older(memIssued)
  /\ fileAge' = Older(fileAge) /\ fileIssued' = Older(fileIssued)
  /\ asked' = IF fetch = "asking" THEN asked + 1 ELSE asked
  /\ replyAge' = IF reply # None THEN replyAge + 1 ELSE replyAge
  /\ UNCHANGED <<memory, source, file, fetch, reply, environment, history>>

Get == FromMemory \/ AskPlatform \/ Fetched \/ FetchFails

SettingsNext ==
  \/ Get \/ PlatformReplies \/ Publish \/ Weather \/ LoseFile \/ Restart
  \/ SetClockBack \/ Tick

(* The worker asks before every claim, time passes, and a platform that is *)
(* up answers.                                                             *)
SettingsSpec ==
  /\ SettingsInit /\ [][SettingsNext]_settingsVars
  /\ WF_settingsVars(FromMemory \/ AskPlatform)
  /\ WF_settingsVars(Fetched) /\ WF_settingsVars(FetchFails)
  /\ WF_settingsVars(PlatformReplies) /\ WF_settingsVars(Tick)

-----------------------------------------------------------------------------
(* Properties                                                              *)

Ages == 0..(AgeBound + 1)
Revision == 0..Len(Published)

(* Types of every variable; source tells the bootstrap from what was ever  *)
(* the platform's.                                                         *)
SettingsTypeOK ==
  /\ fetch \in {"idle", "asking"} /\ bootstrap \in Bootstraps
  /\ memory \in Revision \cup {None} /\ source \in {"platform", "cache", "bootstrap"}
  /\ source = "bootstrap" <=> memory \in {0, None}
  /\ memAge \in Ages /\ memIssued \in Ages
  /\ file \in DOMAIN Published \cup {None} /\ fileIssued \in Ages
  /\ fileAge \in Int /\ fileAge <= AgeBound + 1
  /\ asked \in 0..MaxCall /\ replyAge \in 0..asked
  /\ reply \in DOMAIN Published \cup {None} /\ current \in DOMAIN Published
  /\ healthy \in BOOLEAN /\ setback \in 0..MaxSetback
  /\ served \in [source : {"none", "refused", "platform", "cache", "bootstrap"},
                 revision : Revision, age : Ages]
  /\ top \in Revision

(* A sweep is never given settings the platform issued longer ago than one *)
(* request or their own age allows, or, out of the file, than the bound of *)
(* the operator, one request, that age and all that the wall clock was set *)
(* back add up to.                                                         *)
ServedInTime ==
  /\ served.source = "platform" =>
       served.age <= MaxCall \/ served.age < Published[served.revision].maxAge
  /\ served.source = "cache" =>
       served.age < MaxStale + MaxCall + setback + Published[served.revision].maxAge

(* While the file holds settings to be enforced, no sweep is run under the *)
(* configuration instead, however old they are: it is refused.             *)
EnforceOutlivesOutage ==
  memory = 0 => file = None \/ Settings(file).mode # "enforce"

(* Over outages, restarts and failing writes a sweep is never given an     *)
(* earlier revision than one before it.                                    *)
NeverAnEarlierRevision ==
  served.source \in {"platform", "cache"} => served.revision = top

(* Once the platform stays up, the sweeps end up with its revision.        *)
FollowsPlatform == <>[]healthy => <>[](served.revision = current)
=============================================================================
