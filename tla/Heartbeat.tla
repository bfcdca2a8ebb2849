------------------------------- MODULE Heartbeat -------------------------------
(***************************************************************************)
(* The fleet reports of ScreenerWorker (worker.py): one task for every     *)
(* stage of an item, a periodic beat while it is screened, and the polling *)
(* reports between items, all of them best effort and concurrent.          *)
(*                                                                         *)
(* A report takes its timestamp when its task first runs, and then waits   *)
(* for the platform.  The event loop runs what is ready in order: a task   *)
(* in pending runs before the screen or the periodic task, if it was not   *)
(* ready before, go on.  Stages are numbered as the item reaches them.     *)
(* The wall clock may be set back.                                         *)
(***************************************************************************)
EXTENDS Integers, Sequences

CONSTANTS
  Agents,      \* active_agent_id
  NoAgent,
  LastStage,   \* stages 1..LastStage, "preparing" to "submitting"
  MaxWall,     \* bound on the wall clock
  MaxReports   \* bound on the reports of a behaviour, but for a last one

ASSUME HeartbeatAssumption ==
  /\ NoAgent \notin Agents
  /\ LastStage \in Nat \ {0} /\ MaxWall \in Nat /\ MaxReports \in Nat \ {0}

VARIABLES
  phase,          \* "idle", "polling", "sweep", "active", "stopping", "closing"
  agent,       \* _active_agent_id
  stage,       \* _active_progress_stage, 0 if none
  startedAt,   \* _job_started_at
  wall,        \* int(time.time())
  last,        \* _last_heartbeat_timestamp
  lastState,   \* _last_heartbeat_state
  pending,     \* _progress_heartbeat_tasks not yet run, first come first
  calls,       \* how many of those tasks wait for the platform
  beat,        \* the periodic task: "off", "waiting", "calling"
  sent         \* history: reports in the order their requests began

job == <<agent, stage, startedAt>>
heartbeatVars == <<phase, job, wall, last, lastState, pending, calls, beat, sent>>

Stages == 1..LastStage
NoProgress == [agent |-> NoAgent, stage |-> 0, startedAt |-> 0]
Stage(a, s, at) == [agent |-> a, stage |-> s, startedAt |-> at]
Progress == [agent : Agents, stage : Stages, startedAt : 0..MaxWall]

HeartbeatInit ==
  /\ phase = "idle" /\ agent = NoAgent /\ stage = 0 /\ startedAt = 0
  /\ wall = 0 /\ last = 0 /\ lastState = "none"
  /\ pending = <<>> /\ calls = 0 /\ beat = "off" /\ sent = <<>>

Room == Len(sent) + Len(pending) < MaxReports

-----------------------------------------------------------------------------
(* _report_heartbeat                                                       *)

Timestamp == IF wall > last THEN wall ELSE last + 1

(* ScreenerHeartbeatRequest: a stage belongs to active work that started.  *)
Valid(state, who, progress, at) ==
  progress # NoProgress =>
    state = "screening" /\ who # NoAgent /\ progress.startedAt <= at

(* The timestamp is taken first; a request that is not valid is not sent.  *)
Report(state, who, progress) ==
  /\ last' = Timestamp
  /\ sent' = IF Valid(state, who, progress, Timestamp)
             THEN Append(sent, [at |-> Timestamp, state |-> state, agent |-> who,
                                progress |-> progress])
             ELSE sent
Sends(state, progress) == Valid(state, agent, progress, Timestamp)

Current ==
  IF stage = 0 THEN NoProgress
  ELSE Stage(agent, stage, startedAt)

-----------------------------------------------------------------------------
(* Between items                                                           *)

PollingReport ==
  /\ phase = "idle" /\ Room
  /\ Report("polling", agent, NoProgress)
  /\ phase' = "polling"
  /\ UNCHANGED <<job, wall, lastState, pending, calls, beat>>

(* Nothing new to say, and not long since it was said.                     *)
PollingThrottled ==
  /\ phase = "idle" /\ lastState = "polling"
  /\ phase' = "sweep"
  /\ UNCHANGED <<job, wall, last, lastState, pending, calls, beat, sent>>

(* An answer, an error or a timeout.                                       *)
PollingAnswered ==
  /\ phase \in {"polling", "closing"}
  /\ lastState' = "polling"
  /\ phase' = "sweep"
  /\ UNCHANGED <<job, wall, last, pending, calls, beat, sent>>

SweepEnds ==
  /\ phase = "sweep"
  /\ phase' = "idle"
  /\ UNCHANGED <<job, wall, last, lastState, pending, calls, beat, sent>>

-----------------------------------------------------------------------------
(* While an item is screened                                               *)

(* A duplicate is decided, and about to be submitted, without an await.    *)
BeginJob ==
  /\ phase = "sweep" /\ Room
  /\ \E a \in Agents :
       /\ agent' = a /\ startedAt' = wall
       /\ \/ stage' = 1 /\ pending' = pending \o <<Stage(a, 1, wall)>>
          \/ /\ stage' = LastStage
             /\ pending' = pending \o <<Stage(a, 1, wall), Stage(a, LastStage, wall)>>
  /\ beat' = "waiting"
  /\ phase' = "active"
  /\ UNCHANGED <<wall, last, lastState, calls, sent>>

(* The gate reports its stages in order (BuildGate).                       *)
SetProgress ==
  /\ phase = "active" /\ pending = <<>> /\ Room
  /\ \E s \in stage..LastStage :
       stage' = s /\ pending' = <<Stage(agent, s, startedAt)>>
  /\ UNCHANGED <<phase, agent, startedAt, wall, last, lastState, calls, beat, sent>>

StartProgress ==
  /\ pending # <<>>
  /\ Report("screening", agent, Head(pending))
  /\ calls' = IF Sends("screening", Head(pending)) THEN calls + 1 ELSE calls
  /\ pending' = Tail(pending)
  /\ UNCHANGED <<phase, job, wall, lastState, beat>>

ProgressAnswered ==
  /\ calls > 0
  /\ calls' = calls - 1
  /\ lastState' = "screening"
  /\ UNCHANGED <<phase, job, wall, last, pending, beat, sent>>

(* The wait for the stop times out, even as the stop is set.               *)
Beat ==
  /\ beat = "waiting" /\ Room
  /\ \A i \in DOMAIN pending : pending[i].stage = stage
  /\ Report("screening", agent, Current)
  /\ beat' = IF Sends("screening", Current) THEN "calling" ELSE "waiting"
  /\ UNCHANGED <<phase, job, wall, lastState, pending, calls>>

BeatAnswered ==
  /\ beat = "calling"
  /\ beat' = "waiting" /\ lastState' = "screening"
  /\ UNCHANGED <<phase, job, wall, last, pending, calls, sent>>

BeatStops ==
  /\ phase = "stopping" /\ beat = "waiting"
  /\ beat' = "off"
  /\ UNCHANGED <<phase, job, wall, last, lastState, pending, calls, sent>>

-----------------------------------------------------------------------------
(* The finally block of _screen_one                                        *)

StopBeat ==
  /\ phase = "active"
  /\ phase' = "stopping"
  /\ UNCHANGED <<job, wall, last, lastState, pending, calls, beat, sent>>

EndJob ==
  /\ agent' = NoAgent /\ stage' = 0 /\ startedAt' = 0
  /\ Report("polling", NoAgent, NoProgress)
  /\ phase' = "closing"
  /\ UNCHANGED <<wall, lastState>>

(* Slip: the tasks are forgotten and not cancelled.                        *)
CloseItemLeavingTasks ==
  /\ phase = "stopping" /\ beat = "off"
  /\ EndJob
  /\ UNCHANGED <<pending, calls, beat>>

(* With the periodic task ended, the others are cancelled and awaited.     *)
CloseItem ==
  /\ phase = "stopping" /\ beat = "off"
  /\ pending' = <<>> /\ calls' = 0
  /\ EndJob
  /\ UNCHANGED beat

-----------------------------------------------------------------------------
(* The clock                                                               *)

Tick ==
  /\ wall < MaxWall
  /\ wall' = wall + 1
  /\ UNCHANGED <<phase, job, last, lastState, pending, calls, beat, sent>>

SetClockBack ==
  /\ wall > 0
  /\ wall' = wall - 1
  /\ UNCHANGED <<phase, job, last, lastState, pending, calls, beat, sent>>

Answers == PollingAnswered \/ ProgressAnswered \/ BeatAnswered

HeartbeatNext ==
  \/ PollingReport \/ PollingThrottled \/ SweepEnds \/ BeginJob \/ SetProgress
  \/ StartProgress \/ Beat \/ BeatStops \/ StopBeat \/ CloseItem \/ Answers
  \/ Tick \/ SetClockBack

HeartbeatSpec == HeartbeatInit /\ [][HeartbeatNext]_heartbeatVars

-----------------------------------------------------------------------------
(* Properties                                                              *)

Reports == [at : Nat, state : {"polling", "screening"}, agent : Agents \cup {NoAgent},
            progress : Progress \cup {NoProgress}]

(* Types of every variable; there is a beat only while there is a job.     *)
HeartbeatTypeOK ==
  /\ phase \in {"idle", "polling", "sweep", "active", "stopping", "closing"}
  /\ agent \in Agents \cup {NoAgent} /\ stage \in 0..LastStage
  /\ wall \in 0..MaxWall /\ startedAt \in 0..MaxWall /\ last \in Nat
  /\ lastState \in {"none", "polling", "screening"}
  /\ pending \in Seq(Progress) /\ calls \in Nat
  /\ beat \in {"off", "waiting", "calling"}
  /\ beat # "off" => agent # NoAgent
  /\ sent \in Seq(Reports)

(* What the platform reads from the reports is true, whatever ran late and *)
(* whatever the clock did: a report that names a stage names the agent     *)
(* whose stage it is; and between items, and while the last report of an   *)
(* item is on its way, the latest timestamp is that of a report that the   *)
(* worker is polling.                                                      *)
ReportsAreTrue ==
  /\ \A i \in DOMAIN sent : sent[i].progress # NoProgress
                             => sent[i].progress.agent = sent[i].agent
  /\ phase \in {"closing", "idle", "sweep", "polling"} /\ sent # <<>>
       => \E i \in DOMAIN sent :
            /\ sent[i].state = "polling" /\ sent[i].agent = NoAgent
            /\ \A j \in DOMAIN sent : sent[j].at <= sent[i].at
=============================================================================
