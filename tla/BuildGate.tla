------------------------------ MODULE BuildGate ------------------------------
(***************************************************************************)
(* BuildGate.screen (ditto_screener/gate.py): one attempt taken through    *)
(* download, contract check, preflight, build, serve, policy, export and   *)
(* publication, while the source review runs beside the build and serve    *)
(* stages, the lease runs down and the Docker host may go away.            *)
(*                                                                         *)
(* Time is discrete.  Every stage has a latest end, "until"; time cannot   *)
(* pass it, so a stage ends somewhere between its start and that bound.    *)
(* Submission data is reduced to what each check can conclude from it.     *)
(***************************************************************************)
EXTENDS PolicyModules, Integers, FiniteSets

CONSTANTS
  NoDeadline,    \* an open lease: deadline is None
  Deadlines,     \* the deadlines a screen may be given
  Manifests,     \* the policy manifests modelled here
  Reviews,       \* what a source review may resolve to; only a failed one
                 \* has a failure disposition other than the default
  Journals,      \* review_journal_file is configured
  MinStage,      \* _LEASE_MIN_STAGE_SECONDS
  VerifyCap, DownloadCap, ReviewCap, ReviewGrace, BuildCap, InspectCap, GatewayCap,
  RunCap, HealthCap, ChallengeCap, ExportCap, UploadCap, AbortCap, DrainCap,
  TeardownCap    \* the longest each stage may take, in ticks

Caps == {VerifyCap, DownloadCap, ReviewCap, ReviewGrace, BuildCap, InspectCap,
         GatewayCap, RunCap, HealthCap, ChallengeCap, ExportCap, UploadCap, AbortCap,
         DrainCap, TeardownCap}

ASSUME GateAssumption ==
  /\ MinStage \in Nat
  /\ Caps \subseteq Nat
  /\ Journals \in BOOLEAN
  /\ NoDeadline \notin Int
  /\ Deadlines \subseteq Nat \cup {NoDeadline}
  /\ Manifests \subseteq {<<"agentic_source_review", "behavioral_oracle">>,
                          <<"behavioral_oracle">>}
  /\ \A r \in Reviews : r.ok => r.failure # "pass_inconclusive"

VARIABLES
  now, deadline, buildOnly, manifest,
  pc,            \* the stage screen() is in
  until,         \* latest end of that stage
  docker,        \* "up", or "down" once the Docker host is lost
  lead,          \* history: static preflight raised a lead
  clearance,     \* preflight_clearance, NoReview where the code has None
  reviewState,   \* "none", "running", "done", "failed" or "cancelling"
  reviewObs,     \* what the review task returned
  reviewUntil,   \* latest end of the review task
  inPolicyPhase, \* in_policy_phase
  selected,      \* a selector tripped in the policy phase
  reported,      \* the last progress stage reported
  files,         \* temporary files of this screen on the host
  decision, journal, published

input == <<deadline, buildOnly, manifest>>
preflightVars == <<lead, clearance>>
reviewVars == <<reviewState, reviewObs, reviewUntil>>
policyVars == <<inPolicyPhase, selected>>
vars == <<now, input, pc, until, docker, preflightVars, reviewVars, policyVars,
          reported, files, decision, journal, published>>

Undecided == [outcome |-> "undecided", code |-> "-"]
Decision(outcome, code) == [outcome |-> outcome, code |-> code]
PassingOutcomes == {"pass", "pass_inconclusive"}
HeldOutcomes == {"quarantine", "inconclusive", "pass_inconclusive"}

Least(a, b) == IF a <= b THEN a ELSE b

(* _lease_exhausted: too little lease is left to start a stage.            *)
LeaseExhausted == deadline # NoDeadline /\ deadline - now <= MinStage

(* A cap clamped to the remaining lease, and one that is not.              *)
Clamped(cap) ==
  now + (IF deadline = NoDeadline THEN cap ELSE Least(cap, deadline - now))
Unclamped(cap) == now + cap

(* Slip: the reviewer is not told the deadline.                            *)
ReviewEndUnclamped == now + ReviewCap

(* What a reviewer given the deadline may still take past it.              *)
ReviewEnd ==
  IF deadline = NoDeadline THEN now + ReviewCap
  ELSE Least(now + ReviewCap,
             (IF deadline >= now THEN deadline ELSE now) + ReviewGrace)

-----------------------------------------------------------------------------
(* Each stage ends by entering the next one or by returning a decision,    *)
(* which runs the "finally" block.                                         *)
Enter(stage, end) == pc' = stage /\ until' = end

Return(outcome, code) ==
  /\ decision' = Decision(outcome, code)
  /\ Enter("cleanup", now)

Unreviewed == UNCHANGED <<preflightVars, reviewVars, policyVars>>
Quiet == UNCHANGED <<now, input, docker, published>>

(* The guard in front of a heavy stage.                                    *)
EnterWithinLease(stage, end) ==
  IF LeaseExhausted
  THEN Return("retryable_infra", "lease-budget-exhausted")
  ELSE Enter(stage, end) /\ UNCHANGED decision

Init ==
  /\ now = 0
  /\ deadline \in Deadlines
  /\ buildOnly \in BOOLEAN
  /\ manifest \in Manifests
  /\ pc = "start" /\ until = 0
  /\ docker = "up"
  /\ lead = FALSE /\ clearance = NoReview
  /\ reviewState = "none" /\ reviewObs = NoReview /\ reviewUntil = 0
  /\ inPolicyPhase = FALSE /\ selected = FALSE
  /\ reported = "-"
  /\ files = {}
  /\ decision = Undecided /\ journal = "-" /\ published = FALSE

(* _prepare_gateway_state runs before the try block: an OSError of it      *)
(* leaves screen() with no decision and nothing to clean.                  *)
PrepareGatewayState ==
  /\ pc = "start"
  /\ \/ /\ files' = {"gateway-state"}
        /\ Enter("verify", Unclamped(VerifyCap))
     \/ /\ Enter("raised", now)
        /\ UNCHANGED files
  /\ Quiet /\ Unreviewed /\ UNCHANGED <<reported, decision, journal>>

(* _verify_executor: docker info under a timeout of its own, which asks    *)
(* nothing once Docker is verified.                                        *)
VerifyExecutor ==
  /\ pc = "verify"
  /\ \/ /\ reported' = "downloading"
        /\ EnterWithinLease("download", Unclamped(DownloadCap))
     \/ /\ Return("retryable_infra", "executor-isolation-unavailable")
        /\ UNCHANGED reported
  /\ Quiet /\ Unreviewed /\ UNCHANGED <<files, journal>>

(* _download_verified keeps its file only when it returns a path.          *)
Download ==
  /\ pc = "download"
  /\ \/ /\ files' = files \cup {"tarball"}
        /\ reported' = "validating"
        /\ Enter("validate", now)
        /\ UNCHANGED decision
     \/ /\ \/ Return("retryable_infra", "artifact-download")
           \/ Return("deterministic_reject", "artifact-invalid")
        /\ UNCHANGED <<files, reported>>
  /\ Quiet /\ Unreviewed /\ UNCHANGED journal

-----------------------------------------------------------------------------
(* Validation, the static preflight and the review task                    *)

StartBuild ==
  /\ reported' = "building"
  /\ EnterWithinLease("build", Clamped(BuildCap))

(* asyncio.create_task around the reviewer, or around the clearance that   *)
(* preflight already produced.                                             *)
StartReview(end) ==
  /\ reviewState' = "running"
  /\ reviewUntil' = end
  /\ UNCHANGED reviewObs

Validate ==
  /\ pc = "validate"
  /\ \/ /\ Return("deterministic_reject", "container-harness-contract")
        /\ UNCHANGED <<lead, reviewVars, reported>>
     \/ /\ Return("retryable_infra", "unexpected-infrastructure")
        /\ UNCHANGED <<lead, reviewVars, reported>>
     \/ /\ buildOnly
        /\ StartBuild
        /\ UNCHANGED <<lead, reviewVars>>
     \/ /\ ~buildOnly
        /\ StartReview(ReviewEnd)
        /\ StartBuild
        /\ UNCHANGED lead
     \/ /\ ~buildOnly
        /\ lead' = TRUE
        /\ Enter("preflight", ReviewEnd)
        /\ UNCHANGED <<reviewVars, reported, decision>>
  /\ Quiet /\ UNCHANGED <<clearance, policyVars, files, journal>>

(* Slip: every review that gave an answer counts as a clearance.           *)
ClearsAnyAnswer(obs) == obs.ok \/ obs.failure = "pass_inconclusive"

(* Whether a resolved lead lets untrusted build execution start.           *)
ClearsPreflight(obs) ==
  \/ obs.ok /\ obs.risk = "low"
  \/ obs.failure = "pass_inconclusive"

(* Slip: a deferral counts as a pass and is not journalled.                *)
JournalledHoldsOnly(outcome) ==
  IF Journals /\ outcome \in HeldOutcomes \ {"pass_inconclusive"}
  THEN outcome ELSE journal

(* ReviewJournal.record writes what is held or deferred, if it has a path. *)
Journalled(outcome) ==
  IF Journals /\ outcome \in HeldOutcomes THEN outcome ELSE journal

(* PolicyEngine.preexecution_source_decision, on what did not clear; a     *)
(* risk outside medium and high raises ValueError.                         *)
PreexecutionDecision(obs) ==
  CASE ~obs.ok /\ obs.failure = "retryable_infra" ->
         Decision("retryable_infra", "source-review-error")
    [] ~obs.ok /\ obs.failure # "retryable_infra" ->
         Decision("inconclusive", "source-review-error")
    [] obs.ok /\ obs.risk \in {"medium", "high"} ->
         Decision("quarantine", RiskDomainCode(obs.categories))
    [] OTHER -> Decision("retryable_infra", "unexpected-infrastructure")

(* The layered reviewer resolves the lead.  It may raise, and so may the   *)
(* journal, before or after its line is written.                           *)
ResolveLead ==
  /\ pc = "preflight"
  /\ \E obs \in Reviews :
       \/ /\ ClearsPreflight(obs)
          /\ clearance' = obs
          /\ StartReview(now)
          /\ StartBuild
          /\ UNCHANGED journal
       \/ /\ ~ClearsPreflight(obs)
          /\ decision' = PreexecutionDecision(obs)
          /\ Enter("cleanup", now)
          /\ journal' = Journalled(decision'.outcome)
          /\ UNCHANGED <<clearance, reviewVars, reported>>
       \/ /\ Return("retryable_infra", "unexpected-infrastructure")
          /\ \/ UNCHANGED journal
             \/ /\ ~ClearsPreflight(obs)
                /\ journal' = Journalled(PreexecutionDecision(obs).outcome)
          /\ UNCHANGED <<clearance, reviewVars, reported>>
  /\ Quiet /\ UNCHANGED <<lead, policyVars, files>>

(* The reviewer answers, or dies of an exception it does not catch.  A     *)
(* task around a clearance answers with it.                                *)
ReviewAnswers ==
  /\ reviewState = "running"
  /\ \/ /\ reviewState' = "done"
        /\ reviewObs' \in (IF clearance = NoReview THEN Reviews ELSE {clearance})
     \/ /\ clearance = NoReview
        /\ reviewState' = "failed"
        /\ UNCHANGED reviewObs
  /\ Quiet
  /\ UNCHANGED <<pc, until, preflightVars, reviewUntil, policyVars, reported,
                 files, decision, journal>>

(* report_review_progress, and the unmuted progress of resolve_lead.       *)
MayReportReview ==
  \/ reviewState = "running" /\ clearance = NoReview /\ inPolicyPhase
  \/ pc = "preflight"

ReviewProgress ==
  /\ MayReportReview
  /\ reported' = "source_review"
  /\ UNCHANGED <<now, input, pc, until, docker, preflightVars, reviewVars,
                 policyVars, files, decision, journal, published>>

-----------------------------------------------------------------------------
(* Build and serve.  With the host gone every docker command fails.        *)

(* docker build: a host fault is recognised by its markers; a build that   *)
(* fails, or is killed at its bound, is the artifact's.                    *)
Build ==
  /\ pc = "build"
  /\ \/ /\ docker = "up"
        /\ Enter("inspect", Unclamped(InspectCap))
        /\ UNCHANGED decision
     \/ Return("retryable_infra", "docker-build-infrastructure")
     \/ /\ docker = "up" \/ now = until
        /\ Return("deterministic_reject", "docker-build")
  /\ Quiet /\ Unreviewed /\ UNCHANGED <<reported, files, journal>>

(* The image id and volumes are read back outside the clamped budget.      *)
Inspect ==
  /\ pc = "inspect"
  /\ \/ /\ docker = "up"
        /\ reported' = "starting"
        /\ EnterWithinLease("gateway", Unclamped(GatewayCap))
     \/ /\ Return("retryable_infra", "docker-build-infrastructure")
        /\ UNCHANGED reported
     \/ /\ docker = "up"
        /\ Return("deterministic_reject", "docker-build")
        /\ UNCHANGED reported
  /\ Quiet /\ Unreviewed /\ UNCHANGED <<files, journal>>

StartGateway ==
  /\ pc = "gateway"
  /\ \/ /\ docker = "up"
        /\ Enter("run", Unclamped(RunCap))
        /\ UNCHANGED decision
     \/ Return("retryable_infra", "serve-infrastructure")
  /\ Quiet /\ Unreviewed /\ UNCHANGED <<reported, files, journal>>

RunHarness ==
  /\ pc = "run"
  /\ \/ /\ docker = "up"
        /\ reported' = "health_check"
        /\ Enter("health", Unclamped(HealthCap))
        /\ UNCHANGED decision
     \/ /\ Return("retryable_infra", "serve-infrastructure")
        /\ UNCHANGED reported
     \/ /\ docker = "up" \/ now = until
        /\ Return("deterministic_reject", "health-contract")
        /\ UNCHANGED reported
  /\ Quiet /\ Unreviewed /\ UNCHANGED <<files, journal>>

(* _wait_healthy: whatever the probe could not reach, giving up is the     *)
(* artifact's failure.                                                     *)
WaitHealthy ==
  /\ pc = "health"
  /\ \/ /\ docker = "up"
        /\ reported' = "validating"
        /\ EnterWithinLease("policy", now)
     \/ /\ Return("deterministic_reject", "health-contract")
        /\ UNCHANGED reported
  /\ Quiet /\ Unreviewed /\ UNCHANGED <<files, journal>>

-----------------------------------------------------------------------------
(* Policy: the selector phase awaits the review, then the oracle runs      *)

BeginPolicy ==
  /\ pc = "policy"
  /\ \/ /\ buildOnly
        /\ decision' = Decision("pass", "-")
        /\ Enter("judged", now)
        /\ UNCHANGED inPolicyPhase
     \/ /\ ~buildOnly /\ manifest[1] = "agentic_source_review"
        /\ inPolicyPhase' = TRUE
        /\ Enter("await", now)
        /\ UNCHANGED decision
     \/ /\ ~buildOnly /\ manifest[1] # "agentic_source_review"
        /\ Enter("oracle", Unclamped(ChallengeCap))
        /\ UNCHANGED <<decision, inPolicyPhase>>
  /\ Quiet
  /\ UNCHANGED <<preflightVars, reviewVars, selected, reported, files, journal>>

AwaitReview ==
  /\ pc = "await"
  /\ \/ /\ reviewState = "failed"
        /\ Return("retryable_infra", "unexpected-infrastructure")
        /\ UNCHANGED selected
     \/ /\ reviewState = "done"
        /\ LET r == AgenticSourceReview(reviewObs) IN
             \/ /\ r.disposition \in {"clear", "tripwire", "pass_inconclusive"}
                /\ selected' = (r.disposition = "tripwire")
                /\ Enter("oracle", Unclamped(ChallengeCap))
                /\ UNCHANGED decision
             \/ /\ r.disposition \in {"retryable_infra", "inconclusive"}
                /\ decision' = Decision(r.disposition, r.codes[1])
                /\ Enter("judged", now)
                /\ UNCHANGED selected
  /\ Quiet
  /\ UNCHANGED <<preflightVars, reviewVars, inPolicyPhase, reported, files, journal>>

(* Slip: passing the oracle clears the audit.                              *)
OracleClearsAudit(r) ==
  IF Terminal(r.disposition) THEN r.disposition
  ELSE IF inPolicyPhase /\ AgenticSourceReview(reviewObs).disposition = "pass_inconclusive"
  THEN "pass_inconclusive" ELSE "pass"

(* What PolicyEngine.evaluate concludes of these two manifests.            *)
OracleOutcome(r) ==
  IF Terminal(r.disposition) THEN r.disposition
  ELSE IF selected THEN "quarantine"
  ELSE IF inPolicyPhase /\ AgenticSourceReview(reviewObs).disposition = "pass_inconclusive"
  THEN "pass_inconclusive" ELSE "pass"

RunOracle ==
  /\ pc = "oracle"
  /\ \E run \in OracleRuns :
       LET r == BehavioralOracle(run) IN
         /\ run.ok => docker = "up"
         /\ decision' = Decision(OracleOutcome(r), r.codes[1])
  /\ Enter("judged", now)
  /\ Quiet /\ Unreviewed /\ UNCHANGED <<reported, files, journal>>

(* A pass that only survives on an exhausted preflight is deferred; the    *)
(* image-binding advisory then turns a pass of a full screen into a hold.  *)
Judge(advisory) ==
  LET deferred == IF decision.outcome = "pass"
                       /\ clearance.failure = "pass_inconclusive"
                  THEN Decision("pass_inconclusive", "source-review-error")
                  ELSE decision
  IN  IF ~buildOnly /\ advisory
           /\ deferred.outcome \in PassingOutcomes \cup {"quarantine"}
      THEN Decision("quarantine", "image-binding-heuristic")
      ELSE deferred

(* The decision is journalled, and a pass goes on to export its image.     *)
(* What raises in between, the journal after its write included, is an     *)
(* infrastructure failure.                                                 *)
Settle ==
  /\ pc = "judged"
  /\ \/ /\ Return("retryable_infra", "unexpected-infrastructure")
        /\ \/ UNCHANGED journal
           \/ \E advisory \in BOOLEAN : journal' = Journalled(Judge(advisory).outcome)
        /\ UNCHANGED reported
     \/ \E advisory \in BOOLEAN :
          LET judged == Judge(advisory) IN
            /\ journal' = Journalled(judged.outcome)
            /\ \/ /\ judged.outcome \in PassingOutcomes
                  /\ reported' = "submitting"
                  /\ IF LeaseExhausted
                     THEN Return("retryable_infra", "lease-budget-exhausted")
                     ELSE decision' = judged /\ Enter("save", Clamped(ExportCap))
               \/ /\ judged.outcome \notin PassingOutcomes
                  /\ decision' = judged
                  /\ Enter("cleanup", now)
                  /\ UNCHANGED reported
  /\ Quiet /\ Unreviewed /\ UNCHANGED files

-----------------------------------------------------------------------------
(* Export and publication                                                  *)

(* Slip: only the archive docker wrote is unlinked when an export fails.   *)
FilesAfterSaveOnly == files \ {"archive"}

(* The BaseException handler of _export_image unlinks both archives.       *)
FilesAfterFailedExport == files \ {"archive", "portable"}

ExportFails ==
  /\ pc \in {"save", "normalize", "hash"}
  /\ \/ Return("deterministic_reject", "screened-image-too-large")
     \/ /\ deadline # NoDeadline /\ now = until
        /\ Return("retryable_infra", "lease-budget-exhausted")
     \/ Return("retryable_infra", "screened-image-export-failed")
  /\ files' = FilesAfterFailedExport
  /\ Quiet /\ Unreviewed /\ UNCHANGED <<reported, journal>>

SaveImage ==
  /\ pc = "save"
  /\ docker = "up"
  /\ files' = files \cup {"archive", "portable"}
  /\ Enter("normalize", until)
  /\ Quiet /\ Unreviewed /\ UNCHANGED <<reported, decision, journal>>

NormalizeArchive ==
  /\ pc = "normalize"
  /\ files' = files \ {"archive"}
  /\ Enter("hash", until)
  /\ Quiet /\ Unreviewed /\ UNCHANGED <<reported, decision, journal>>

UploadEnd ==
  IF deadline = NoDeadline THEN now + UploadCap ELSE deadline

HashImage ==
  /\ pc = "hash"
  /\ IF deadline # NoDeadline /\ deadline - now <= 0
     THEN /\ Return("retryable_infra", "lease-budget-exhausted")
          /\ files' = files \ {"portable"}
     ELSE /\ Enter("publish", UploadEnd)
          /\ UNCHANGED <<files, decision>>
  /\ Quiet /\ Unreviewed /\ UNCHANGED <<reported, journal>>

PublishSucceeds ==
  /\ pc = "publish"
  /\ published' = TRUE
  /\ files' = files \ {"portable"}
  /\ Enter("cleanup", now)
  /\ UNCHANGED <<now, input, docker, reported, decision, journal>> /\ Unreviewed

(* Slip: a failed upload is logged and the pass stands.                    *)
PublishFailsQuietly ==
  /\ pc = "publish"
  /\ files' = files \ {"portable"}
  /\ Enter("cleanup", now)
  /\ Quiet /\ Unreviewed /\ UNCHANGED <<reported, decision, journal>>

PublishFails ==
  /\ pc = "publish"
  /\ Return("retryable_infra", "image-upload-failed")
  /\ files' = files \ {"portable"}
  /\ Quiet /\ Unreviewed /\ UNCHANGED <<reported, journal>>

(* asyncio.timeout cancels the upload, which first aborts it at the        *)
(* platform: the decision waits for that call.                             *)
PublishTimesOut ==
  /\ pc = "publish"
  /\ deadline # NoDeadline /\ now = until
  /\ decision' = Decision("retryable_infra", "lease-budget-exhausted")
  /\ Enter("aborting", Unclamped(AbortCap))
  /\ Quiet /\ Unreviewed /\ UNCHANGED <<reported, files, journal>>

AbortReturns ==
  /\ pc = "aborting"
  /\ files' = files \ {"portable"}
  /\ Enter("cleanup", now)
  /\ Quiet /\ Unreviewed /\ UNCHANGED <<reported, decision, journal>>

-----------------------------------------------------------------------------
(* The finally block                                                       *)

CancelReview ==
  /\ pc = "cleanup"
  /\ reviewState = "running"
  /\ reviewState' = "cancelling"
  /\ reviewUntil' = Unclamped(DrainCap)
  /\ Quiet
  /\ UNCHANGED <<pc, until, preflightVars, reviewObs, policyVars, reported,
                 files, decision, journal>>

ReviewStops ==
  /\ reviewState = "cancelling"
  /\ reviewState' = "failed"
  /\ Quiet
  /\ UNCHANGED <<pc, until, preflightVars, reviewObs, reviewUntil, policyVars,
                 reported, files, decision, journal>>

(* Slips: the cancelled review is not awaited; a failed one is waited for. *)
CancelledIsDrained == reviewState # "running"
AnsweredIsDrained == reviewState \in {"none", "done"}

ReviewDrained == reviewState \notin {"running", "cancelling"}

BeginTeardown ==
  /\ pc = "cleanup"
  /\ ReviewDrained
  /\ Enter("teardown", Unclamped(TeardownCap))
  /\ Quiet /\ Unreviewed /\ UNCHANGED <<reported, files, decision, journal>>

(* _teardown is best effort and the host files go whatever it did.         *)
Teardown ==
  /\ pc = "teardown"
  /\ files' = files \ {"gateway-state", "tarball"}
  /\ Enter("ended", now)
  /\ Quiet /\ Unreviewed /\ UNCHANGED <<reported, decision, journal>>

-----------------------------------------------------------------------------
(* The environment                                                         *)

Ended == pc \in {"ended", "raised"}
Waiting == pc \in {"await", "cleanup"}

(* Time passes while the stage may still run and the review is not due;    *)
(* a stage that only waits for the review lets time pass with it.          *)
Tick ==
  /\ ~Ended
  /\ \/ now < until
     \/ Waiting /\ reviewState \in {"running", "cancelling"}
  /\ reviewState \in {"running", "cancelling"} => now < reviewUntil
  /\ ~(pc = "cleanup" /\ reviewState = "running")
  /\ now' = now + 1
  /\ UNCHANGED <<input, pc, until, docker, preflightVars, reviewVars, policyVars,
                 reported, files, decision, journal, published>>

DockerGoesDown ==
  /\ docker = "up" /\ ~Ended
  /\ docker' = "down"
  /\ UNCHANGED <<now, input, pc, until, preflightVars, reviewVars, policyVars,
                 reported, files, decision, journal, published>>

Screen ==
  \/ PrepareGatewayState \/ VerifyExecutor \/ Download \/ Validate \/ ResolveLead
  \/ Build \/ Inspect \/ StartGateway \/ RunHarness \/ WaitHealthy
  \/ BeginPolicy \/ AwaitReview \/ RunOracle \/ Settle
  \/ SaveImage \/ NormalizeArchive \/ HashImage \/ ExportFails
  \/ PublishSucceeds \/ PublishFails \/ PublishTimesOut \/ AbortReturns
  \/ CancelReview \/ BeginTeardown \/ Teardown

ReviewTask == ReviewAnswers \/ ReviewStops

Next == Screen \/ ReviewTask \/ ReviewProgress \/ Tick \/ DockerGoesDown

(* Each coroutine keeps running and the clock keeps going: every await of  *)
(* the code has a bound.                                                   *)
Fairness == WF_vars(Screen) /\ WF_vars(ReviewTask) /\ WF_vars(Tick)

Spec == Init /\ [][Next]_vars /\ Fairness

-----------------------------------------------------------------------------
(* Properties                                                              *)

Stages == {"start", "verify", "download", "validate", "preflight", "build",
           "inspect", "gateway", "run", "health", "policy", "await", "oracle",
           "judged", "save", "normalize", "hash", "publish", "aborting",
           "cleanup", "teardown", "ended", "raised"}
Reports == {"-", "downloading", "validating", "source_review", "building",
            "starting", "health_check", "submitting"}
GateOutcomes == {"undecided", "pass", "pass_inconclusive", "retryable_infra",
                 "quarantine", "inconclusive", "deterministic_reject"}
HostFiles == {"gateway-state", "tarball", "archive", "portable"}

ClockTypes ==
  /\ now \in Nat /\ until \in Int /\ reviewUntil \in Int
  /\ deadline \in Deadlines
ControlTypes ==
  /\ pc \in Stages /\ docker \in {"up", "down"} /\ reported \in Reports
  /\ reviewState \in {"none", "running", "done", "failed", "cancelling"}
FlagTypes ==
  /\ buildOnly \in BOOLEAN /\ lead \in BOOLEAN /\ inPolicyPhase \in BOOLEAN
  /\ selected \in BOOLEAN /\ published \in BOOLEAN
DataTypes ==
  /\ manifest \in Manifests
  /\ clearance \in Reviews \cup {NoReview} /\ reviewObs \in Reviews \cup {NoReview}
  /\ files \subseteq HostFiles
  /\ decision.outcome \in GateOutcomes
  /\ journal \in HeldOutcomes \cup {"-"}

(* Types of every variable.                                                *)
TypeOK == ClockTypes /\ ControlTypes /\ FlagTypes /\ DataTypes

(* The image is at the platform exactly when the screen ends in an         *)
(* outcome that promises one: the verdict carries the image fields if and  *)
(* only if it passes, and worker.py refuses a pass without an upload.      *)
PublishedIffPassing ==
  pc = "ended" => (published <=> decision.outcome \in PassingOutcomes)

(* The screen keeps the contract the worker relies on: whatever is late or *)
(* fails, it publishes once at most, passes if and only if it published,   *)
(* and judges an item of the mechanical lane by nothing that lane skips.   *)
Seen == CASE pc = "ended" -> decision.outcome
          [] pc = "raised" -> "raised"
          [] OTHER -> "-"
Contract == INSTANCE ScreenContract
              WITH buildOnly <- buildOnly, told <- published, result <- Seen
KeepsContract == Contract!Spec

(* Submission-controlled build steps never run under a static lead that    *)
(* was not resolved to low risk or to an exhausted budget (gate.py: "the   *)
(* static rules run before any submission-controlled Dockerfile").         *)
NoBuildUnderOpenLead ==
  lead /\ pc \in {"build", "inspect", "gateway", "run", "health", "oracle"}
    => clearance.risk = "low" \/ clearance.failure = "pass_inconclusive"

(* A full screen under a manifest with a source review ends in a pass only *)
(* on a finished, clean review, and in a deferral only on one that ran out *)
(* of its budget: an unfinished, failed or cancelled review passes nobody. *)
PassRestsOnItsReview ==
  pc \in {"publish", "ended"} /\ ~buildOnly /\ manifest[1] = "agentic_source_review"
    => /\ decision.outcome = "pass" =>
            /\ reviewState = "done"
            /\ AgenticSourceReview(reviewObs).disposition = "clear"
       /\ decision.outcome = "pass_inconclusive" =>
            AgenticSourceReview(reviewObs).disposition = "pass_inconclusive"

(* The tarball the review task reads stays until that task has stopped,    *)
(* and the task never outlives the screen.                                 *)
ReviewReadsALiveTarball ==
  reviewState \in {"running", "cancelling"} => "tarball" \in files /\ ~Ended

(* Whatever failed, an ended screen leaves none of its files on the host.  *)
NoFilesLeftBehind == Ended => files = {}

(* The private journal, written before the image is exported and           *)
(* published, agrees with the outcome the screen returns: every hold and   *)
(* deferral is in it, and what it holds that the screen did not return is  *)
(* a deferral whose image was lost after it, or a record that failed after *)
(* its write.  Nothing is journalled of the mechanical lane, or without a  *)
(* configured path.                                                        *)
JournalAgrees ==
  pc = "ended" =>
    /\ Journals /\ decision.outcome \in HeldOutcomes => journal = decision.outcome
    /\ journal # "-" => Journals /\ ~buildOnly
    /\ journal \notin {"-", decision.outcome} =>
         \/ decision.code = "unexpected-infrastructure"
         \/ /\ journal = "pass_inconclusive" /\ ~published
            /\ decision.outcome \in {"retryable_infra", "deterministic_reject"}

(* The lease overrun a screen can reach, from the stages that are not      *)
(* clamped to it: it is what the submit margin of the worker has to hold.  *)
Greater(a, b) == IF a >= b THEN a ELSE b
UndrainedEnd ==
  Greater(Greater(ReviewGrace, DownloadCap - MinStage - 1 + ReviewGrace),
          Greater(InspectCap,
                  Greater(GatewayCap + RunCap + HealthCap - MinStage - 1, AbortCap)))
Overrun ==
  TeardownCap + Greater(VerifyCap,
                        Greater(DrainCap + UndrainedEnd, ReviewGrace + ChallengeCap))
EndsWithinOverrun ==
  pc = "ended" /\ deadline # NoDeadline => now <= deadline + Overrun

(* screen() always returns or raises, whatever hangs.                      *)
ScreenEnds == <>Ended
=============================================================================
