--------------------------- MODULE BuildGate_proofs ---------------------------
(***************************************************************************)
(* What TLAPS proves of BuildGate for every deadline, every length of a    *)
(* stage and every set of review answers.                                  *)
(***************************************************************************)
EXTENDS BuildGate, TLAPS

(* The configured limits are times; what the assumptions on the constants  *)
(* say, in the form the steps below use.                                   *)
LEMMA ConstantTypes ==
  /\ MinStage \in Nat
  /\ Journals \in BOOLEAN /\ VerifyCap \in Nat
  /\ DownloadCap \in Nat /\ ReviewCap \in Nat /\ ReviewGrace \in Nat
  /\ BuildCap \in Nat /\ InspectCap \in Nat /\ GatewayCap \in Nat
  /\ RunCap \in Nat /\ HealthCap \in Nat /\ ChallengeCap \in Nat
  /\ ExportCap \in Nat /\ UploadCap \in Nat /\ AbortCap \in Nat
  /\ DrainCap \in Nat /\ TeardownCap \in Nat
  /\ \A d \in Deadlines : d # NoDeadline => d \in Nat
BY GateAssumption DEF Caps

(* The oracle's disposition is one the engine can turn into an outcome.    *)
LEMMA OracleDisposition ==
  ASSUME NEW run \in OracleRuns
  PROVE  BehavioralOracle(run).disposition \in
           {"clear", "inconclusive", "quarantine"}
BY DEF BehavioralOracle, Result, OracleRuns

(* What the engine makes of the oracle's disposition is an outcome of a    *)
(* screen.                                                                 *)
LEMMA OracleOutcomeType ==
  ASSUME NEW run \in OracleRuns
  PROVE  OracleOutcome(BehavioralOracle(run)) \in
           {"pass", "pass_inconclusive", "quarantine", "inconclusive"}
BY OracleDisposition DEF OracleOutcome, Terminal

(* What the engine makes of the review before execution is an outcome, or  *)
(* leave to go on.                                                         *)
LEMMA PreexecutionType ==
  ASSUME NEW obs
  PROVE  PreexecutionDecision(obs).outcome \in
           {"retryable_infra", "inconclusive", "quarantine"}
BY DEF PreexecutionDecision, Decision

(* The decision at the end of a full screen is an outcome.                 *)
LEMMA JudgeType ==
  ASSUME NEW advisory, TypeOK
  PROVE  Judge(advisory).outcome \in GateOutcomes
BY DEF Judge, Decision, TypeOK, DataTypes, GateOutcomes

(* The ends of the timed stages are times.                                 *)
LEMMA EndTypes ==
  ASSUME TypeOK
  PROVE  /\ ReviewEnd \in Int /\ UploadEnd \in Int
         /\ \A cap \in Nat : Clamped(cap) \in Int /\ Unclamped(cap) \in Int
<1>1. now \in Nat /\ deadline \in Deadlines
  BY DEF TypeOK, ClockTypes
<1> QED
  BY <1>1, ConstantTypes DEF ReviewEnd, UploadEnd, Clamped, Unclamped, Least

(* Every variable of screen() keeps its type through every stage, timeout, *)
(* host loss and cancelled task.                                           *)
THEOREM TypeCorrect == Spec => []TypeOK
<1>1. Init => TypeOK
  <2> SUFFICES ASSUME Init PROVE TypeOK
    OBVIOUS
  <2> USE ConstantTypes DEF Init, Undecided
  <2>1. ClockTypes
    BY DEF ClockTypes
  <2>2. ControlTypes
    BY DEF ControlTypes, Stages, Reports
  <2>3. FlagTypes
    BY DEF FlagTypes
  <2>4. DataTypes
    BY DEF DataTypes, HostFiles, GateOutcomes
  <2> QED
    BY <2>1, <2>2, <2>3, <2>4 DEF TypeOK
<1>2. TypeOK /\ [Next]_vars => TypeOK'
  <2> SUFFICES ASSUME TypeOK, [Next]_vars PROVE TypeOK'
    OBVIOUS
  <2> USE ConstantTypes, EndTypes DEF TypeOK, ClockTypes, ControlTypes,
      FlagTypes, DataTypes, Stages, Reports, HostFiles,
      GateOutcomes, HeldOutcomes, PassingOutcomes, Return, Enter, Quiet,
      Unreviewed, EnterWithinLease, Decision, input, preflightVars, reviewVars,
      policyVars
  <2>1. CASE PrepareGatewayState
    <3>1. ClockTypes'
      BY <2>1 DEF PrepareGatewayState
    <3>2. ControlTypes'
      BY <2>1 DEF PrepareGatewayState
    <3>3. FlagTypes'
      BY <2>1 DEF PrepareGatewayState
    <3>4. DataTypes'
      BY <2>1 DEF PrepareGatewayState
    <3> QED
      BY <3>1, <3>2, <3>3, <3>4 DEF TypeOK
  <2>2. CASE VerifyExecutor
    BY <2>2 DEF VerifyExecutor
  <2>3. CASE Download
    <3>1. ClockTypes'
      BY <2>3 DEF Download
    <3>2. ControlTypes'
      BY <2>3 DEF Download
    <3>3. FlagTypes'
      BY <2>3 DEF Download
    <3>4. DataTypes'
      <4>1. files' \subseteq HostFiles
        BY <2>3 DEF Download
      <4>2. decision'.outcome \in GateOutcomes
        BY <2>3 DEF Download
      <4> QED
        BY <2>3, <4>1, <4>2 DEF Download
    <3> QED
      BY <3>1, <3>2, <3>3, <3>4 DEF TypeOK
  <2>4. CASE Validate
    <3>1. ClockTypes'
      BY <2>4 DEF Validate, StartBuild, StartReview
    <3>2. ControlTypes'
      BY <2>4 DEF Validate, StartBuild, StartReview
    <3>3. FlagTypes'
      BY <2>4 DEF Validate, StartBuild, StartReview
    <3>4. DataTypes'
      BY <2>4 DEF Validate, StartBuild, StartReview
    <3> QED
      BY <3>1, <3>2, <3>3, <3>4 DEF TypeOK
  <2>5. CASE ResolveLead
    BY <2>5, PreexecutionType DEF ResolveLead, StartBuild, StartReview, Journalled
  <2>6. CASE Build
    BY <2>6 DEF Build
  <2>7. CASE Inspect
    BY <2>7 DEF Inspect
  <2>8. CASE StartGateway
    BY <2>8 DEF StartGateway
  <2>9. CASE RunHarness
    BY <2>9 DEF RunHarness
  <2>10. CASE WaitHealthy
    BY <2>10 DEF WaitHealthy
  <2>11. CASE BeginPolicy
    <3>1. ClockTypes'
      BY <2>11 DEF BeginPolicy
    <3>2. ControlTypes'
      BY <2>11 DEF BeginPolicy
    <3>3. FlagTypes'
      BY <2>11 DEF BeginPolicy
    <3>4. DataTypes'
      BY <2>11 DEF BeginPolicy
    <3> QED
      BY <3>1, <3>2, <3>3, <3>4 DEF TypeOK
  <2>12. CASE AwaitReview
    <3>1. ClockTypes'
      BY <2>12 DEF AwaitReview
    <3>2. ControlTypes'
      BY <2>12 DEF AwaitReview
    <3>3. FlagTypes'
      BY <2>12 DEF AwaitReview
    <3>4. DataTypes'
      BY <2>12 DEF AwaitReview
    <3> QED
      BY <3>1, <3>2, <3>3, <3>4 DEF TypeOK
  <2>13. CASE RunOracle
    BY <2>13, OracleOutcomeType DEF RunOracle
  <2>14. CASE Settle
    BY <2>14, JudgeType DEF Settle, Journalled
  <2>15. CASE SaveImage
    BY <2>15 DEF SaveImage
  <2>16. CASE NormalizeArchive
    BY <2>16 DEF NormalizeArchive
  <2>17. CASE HashImage
    <3>1. ClockTypes'
      BY <2>17 DEF HashImage
    <3>2. ControlTypes'
      BY <2>17 DEF HashImage
    <3>3. FlagTypes'
      BY <2>17 DEF HashImage
    <3>4. DataTypes'
      <4>1. files' \subseteq HostFiles
        BY <2>17 DEF HashImage
      <4>2. decision'.outcome \in GateOutcomes
        BY <2>17 DEF HashImage
      <4> QED
        BY <2>17, <4>1, <4>2 DEF HashImage
    <3> QED
      BY <3>1, <3>2, <3>3, <3>4 DEF TypeOK
  <2>18. CASE ExportFails
    BY <2>18 DEF ExportFails, FilesAfterFailedExport
  <2>19. CASE PublishSucceeds
    BY <2>19 DEF PublishSucceeds
  <2>20. CASE PublishFails
    BY <2>20 DEF PublishFails
  <2>21. CASE PublishTimesOut
    BY <2>21 DEF PublishTimesOut
  <2>22. CASE AbortReturns
    BY <2>22 DEF AbortReturns
  <2>23. CASE CancelReview
    BY <2>23 DEF CancelReview
  <2>24. CASE BeginTeardown
    BY <2>24 DEF BeginTeardown
  <2>25. CASE Teardown
    BY <2>25 DEF Teardown
  <2>26. CASE ReviewTask
    <3>1. ClockTypes'
      BY <2>26 DEF ReviewTask, ReviewAnswers, ReviewStops
    <3>2. ControlTypes'
      BY <2>26 DEF ReviewTask, ReviewAnswers, ReviewStops
    <3>3. FlagTypes'
      BY <2>26 DEF ReviewTask, ReviewAnswers, ReviewStops
    <3>4. DataTypes'
      BY <2>26 DEF ReviewTask, ReviewAnswers, ReviewStops
    <3> QED
      BY <3>1, <3>2, <3>3, <3>4 DEF TypeOK
  <2>27. CASE ReviewProgress
    BY <2>27 DEF ReviewProgress
  <2>28. CASE Tick
    BY <2>28 DEF Tick
  <2>29. CASE DockerGoesDown
    BY <2>29 DEF DockerGoesDown
  <2>30. CASE UNCHANGED vars
    BY <2>30 DEF vars
  <2> QED
    BY <2>1, <2>2, <2>3, <2>4, <2>5, <2>6, <2>7, <2>8, <2>9, <2>10, <2>11,
       <2>12, <2>13, <2>14, <2>15, <2>16, <2>17, <2>18, <2>19, <2>20, <2>21,
       <2>22, <2>23, <2>24, <2>25, <2>26, <2>27, <2>28, <2>29, <2>30
       DEF Next, Screen
<1> QED
  BY <1>1, <1>2, PTL DEF Spec

-----------------------------------------------------------------------------
(* The inductive invariant, one part per concern.                          *)

(* Which files exist in which stage.                                       *)
FilesInv ==
  /\ pc \in {"start", "raised", "ended"} => files = {}
  /\ pc \in {"verify", "download"} => files = {"gateway-state"}
  /\ pc \notin {"start", "verify", "download", "cleanup", "teardown", "ended",
                "raised"} => "tarball" \in files
  /\ "archive" \in files => pc = "normalize"
  /\ "portable" \in files => pc \in {"normalize", "hash", "publish", "aborting"}

(* A live review task has its tarball and a screen that will drain it.     *)
ReviewInv ==
  reviewState \in {"running", "cancelling"}
    => /\ "tarball" \in files
       /\ pc \notin {"start", "verify", "download", "validate", "preflight",
                     "teardown", "ended", "raised"}

(* How far the image has come, and the outcome that goes with it.          *)
PublishInv ==
  /\ published => pc \in {"cleanup", "teardown", "ended"}
                    /\ decision.outcome \in PassingOutcomes
  /\ pc \in {"save", "normalize", "hash", "publish"}
       => decision.outcome \in PassingOutcomes
  /\ pc = "aborting" => decision.outcome \notin PassingOutcomes
  /\ pc \in {"cleanup", "teardown", "ended"}
       /\ decision.outcome \in PassingOutcomes => published

(* Beyond preflight a lead has its clearance.                              *)
LeadInv ==
  /\ pc \in {"start", "verify", "download", "validate"} => ~lead
  /\ lead /\ pc \notin {"preflight", "cleanup", "teardown", "ended"}
       => ClearsPreflight(clearance)

(* The decision of a full screen under a manifest with a source review     *)
(* follows what the finished review found.                                 *)
Reviewing == ~buildOnly /\ manifest[1] = "agentic_source_review"
Finding == AgenticSourceReview(reviewObs).disposition

PolicyInv ==
  /\ pc \in {"start", "verify", "download", "validate", "preflight"}
       => clearance = NoReview
  /\ clearance # NoReview /\ reviewState = "done" => reviewObs = clearance
  /\ pc \in {"judged", "save", "normalize", "hash", "publish", "aborting",
             "cleanup", "teardown", "ended"}
       \/ decision.outcome \notin PassingOutcomes
  /\ pc = "await" => inPolicyPhase
  /\ Reviewing /\ pc = "oracle"
       => /\ reviewState = "done" /\ inPolicyPhase
          /\ Finding \in {"clear", "tripwire", "pass_inconclusive"}
          /\ selected = (Finding = "tripwire")
  /\ Reviewing /\ decision.outcome = "pass"
       => reviewState = "done" /\ Finding = "clear"
  /\ Reviewing /\ decision.outcome = "pass_inconclusive"
       => reviewState = "done" /\ Finding = "pass_inconclusive"

(* The mechanical lane meets no lead, review or oracle, and what it is     *)
(* decided by is mechanical; a screen past its policy is decided.          *)
MechanicalOutcomes == {"undecided", "pass", "deterministic_reject",
                       "retryable_infra"}
LaneInv ==
  /\ pc \in {"judged", "save", "normalize", "hash", "publish", "aborting",
             "cleanup", "teardown", "ended"} => decision.outcome # "undecided"
  /\ buildOnly => /\ pc \notin {"preflight", "await", "oracle"}
                  /\ clearance = NoReview
                  /\ decision.outcome \in MechanicalOutcomes

(* Every step keeps FilesInv: which files exist at which stage.            *)
LEMMA FilesStep ==
  ASSUME TypeOK, FilesInv, ReviewInv, [Next]_vars
  PROVE  FilesInv'
<1> USE DEF FilesInv, TypeOK, DataTypes, HostFiles, ReviewInv, Return, Enter, Quiet, Unreviewed, EnterWithinLease, Decision, input,
    preflightVars, reviewVars, policyVars
<1>1. CASE PrepareGatewayState
  BY <1>1 DEF PrepareGatewayState
<1>2. CASE VerifyExecutor
  BY <1>2 DEF VerifyExecutor
<1>3. CASE Download
  BY <1>3 DEF Download
<1>4. CASE Validate
  BY <1>4 DEF Validate, StartBuild, StartReview
<1>5. CASE ResolveLead
  BY <1>5 DEF ResolveLead, StartBuild, StartReview
<1>6. CASE Build
  BY <1>6 DEF Build
<1>7. CASE Inspect
  BY <1>7 DEF Inspect
<1>8. CASE StartGateway
  BY <1>8 DEF StartGateway
<1>9. CASE RunHarness
  BY <1>9 DEF RunHarness
<1>10. CASE WaitHealthy
  BY <1>10 DEF WaitHealthy
<1>11. CASE BeginPolicy
  BY <1>11 DEF BeginPolicy
<1>12. CASE AwaitReview
  BY <1>12 DEF AwaitReview
<1>13. CASE RunOracle
  BY <1>13 DEF RunOracle
<1>14. CASE Settle
  BY <1>14 DEF Settle
<1>15. CASE SaveImage
  BY <1>15 DEF SaveImage
<1>16. CASE NormalizeArchive
  BY <1>16 DEF NormalizeArchive
<1>17. CASE HashImage
  BY <1>17 DEF HashImage
<1>18. CASE ExportFails
  BY <1>18 DEF ExportFails, FilesAfterFailedExport
<1>19. CASE PublishSucceeds
  BY <1>19 DEF PublishSucceeds
<1>20. CASE PublishFails
  BY <1>20 DEF PublishFails
<1>21. CASE PublishTimesOut
  BY <1>21 DEF PublishTimesOut
<1>22. CASE AbortReturns
  BY <1>22 DEF AbortReturns
<1>23. CASE CancelReview
  BY <1>23 DEF CancelReview
<1>24. CASE BeginTeardown
  BY <1>24 DEF BeginTeardown
<1>25. CASE Teardown
  BY <1>25 DEF Teardown
<1>26. CASE ReviewAnswers
  BY <1>26 DEF ReviewAnswers
<1>27. CASE ReviewStops
  BY <1>27 DEF ReviewStops
<1>28. CASE ReviewProgress
  BY <1>28 DEF ReviewProgress
<1>29. CASE Tick
  BY <1>29 DEF Tick
<1>30. CASE DockerGoesDown
  BY <1>30 DEF DockerGoesDown
<1>31. CASE UNCHANGED vars
  BY <1>31 DEF vars
<1> QED
  BY <1>1, <1>2, <1>3, <1>4, <1>5, <1>6, <1>7, <1>8, <1>9, <1>10,
     <1>11, <1>12, <1>13, <1>14, <1>15, <1>16, <1>17, <1>18, <1>19,
     <1>20, <1>21, <1>22, <1>23, <1>24, <1>25, <1>26, <1>27, <1>28,
     <1>29, <1>30, <1>31
     DEF Next, Screen, ReviewTask

(* Every step keeps ReviewInv: when the review task lives and what it      *)
(* still reads.                                                            *)
LEMMA ReviewStep ==
  ASSUME TypeOK, FilesInv, ReviewInv, [Next]_vars
  PROVE  ReviewInv'
<1> USE DEF FilesInv, ReviewInv, Return, Enter, Quiet, Unreviewed, EnterWithinLease, Decision, input,
    preflightVars, reviewVars, policyVars
<1>1. CASE PrepareGatewayState
  BY <1>1 DEF PrepareGatewayState
<1>2. CASE VerifyExecutor
  BY <1>2 DEF VerifyExecutor
<1>3. CASE Download
  BY <1>3 DEF Download
<1>4. CASE Validate
  BY <1>4 DEF Validate, StartBuild, StartReview
<1>5. CASE ResolveLead
  BY <1>5 DEF ResolveLead, StartBuild, StartReview
<1>6. CASE Build
  BY <1>6 DEF Build
<1>7. CASE Inspect
  BY <1>7 DEF Inspect
<1>8. CASE StartGateway
  BY <1>8 DEF StartGateway
<1>9. CASE RunHarness
  BY <1>9 DEF RunHarness
<1>10. CASE WaitHealthy
  BY <1>10 DEF WaitHealthy
<1>11. CASE BeginPolicy
  BY <1>11 DEF BeginPolicy
<1>12. CASE AwaitReview
  BY <1>12 DEF AwaitReview
<1>13. CASE RunOracle
  BY <1>13 DEF RunOracle
<1>14. CASE Settle
  BY <1>14 DEF Settle
<1>15. CASE SaveImage
  BY <1>15 DEF SaveImage
<1>16. CASE NormalizeArchive
  BY <1>16 DEF NormalizeArchive
<1>17. CASE HashImage
  BY <1>17 DEF HashImage
<1>18. CASE ExportFails
  BY <1>18 DEF ExportFails, FilesAfterFailedExport
<1>19. CASE PublishSucceeds
  BY <1>19 DEF PublishSucceeds
<1>20. CASE PublishFails
  BY <1>20 DEF PublishFails
<1>21. CASE PublishTimesOut
  BY <1>21 DEF PublishTimesOut
<1>22. CASE AbortReturns
  BY <1>22 DEF AbortReturns
<1>23. CASE CancelReview
  BY <1>23 DEF CancelReview
<1>24. CASE BeginTeardown
  BY <1>24 DEF BeginTeardown, ReviewDrained
<1>25. CASE Teardown
  BY <1>25 DEF Teardown
<1>26. CASE ReviewAnswers
  BY <1>26 DEF ReviewAnswers
<1>27. CASE ReviewStops
  BY <1>27 DEF ReviewStops
<1>28. CASE ReviewProgress
  BY <1>28 DEF ReviewProgress
<1>29. CASE Tick
  BY <1>29 DEF Tick
<1>30. CASE DockerGoesDown
  BY <1>30 DEF DockerGoesDown
<1>31. CASE UNCHANGED vars
  BY <1>31 DEF vars
<1> QED
  BY <1>1, <1>2, <1>3, <1>4, <1>5, <1>6, <1>7, <1>8, <1>9, <1>10,
     <1>11, <1>12, <1>13, <1>14, <1>15, <1>16, <1>17, <1>18, <1>19,
     <1>20, <1>21, <1>22, <1>23, <1>24, <1>25, <1>26, <1>27, <1>28,
     <1>29, <1>30, <1>31
     DEF Next, Screen, ReviewTask

(* Every step keeps PublishInv: an outcome passes only once its image is   *)
(* at the platform.                                                        *)
LEMMA PublishStep ==
  ASSUME TypeOK, PublishInv, [Next]_vars
  PROVE  PublishInv'
<1> USE DEF PublishInv, PassingOutcomes, Return, Enter, Quiet, Unreviewed, EnterWithinLease, Decision, input,
    preflightVars, reviewVars, policyVars
<1>1. CASE PrepareGatewayState
  BY <1>1 DEF PrepareGatewayState
<1>2. CASE VerifyExecutor
  BY <1>2 DEF VerifyExecutor
<1>3. CASE Download
  BY <1>3 DEF Download
<1>4. CASE Validate
  BY <1>4 DEF Validate, StartBuild, StartReview
<1>5. CASE ResolveLead
  BY <1>5, PreexecutionType DEF ResolveLead, StartBuild, StartReview
<1>6. CASE Build
  BY <1>6 DEF Build
<1>7. CASE Inspect
  BY <1>7 DEF Inspect
<1>8. CASE StartGateway
  BY <1>8 DEF StartGateway
<1>9. CASE RunHarness
  BY <1>9 DEF RunHarness
<1>10. CASE WaitHealthy
  BY <1>10 DEF WaitHealthy
<1>11. CASE BeginPolicy
  BY <1>11 DEF BeginPolicy
<1>12. CASE AwaitReview
  BY <1>12 DEF AwaitReview
<1>13. CASE RunOracle
  BY <1>13 DEF RunOracle
<1>14. CASE Settle
  BY <1>14 DEF Settle
<1>15. CASE SaveImage
  BY <1>15 DEF SaveImage
<1>16. CASE NormalizeArchive
  BY <1>16 DEF NormalizeArchive
<1>17. CASE HashImage
  BY <1>17 DEF HashImage
<1>18. CASE ExportFails
  BY <1>18 DEF ExportFails
<1>19. CASE PublishSucceeds
  BY <1>19 DEF PublishSucceeds
<1>20. CASE PublishFails
  BY <1>20 DEF PublishFails
<1>21. CASE PublishTimesOut
  BY <1>21 DEF PublishTimesOut
<1>22. CASE AbortReturns
  BY <1>22 DEF AbortReturns
<1>23. CASE CancelReview
  BY <1>23 DEF CancelReview
<1>24. CASE BeginTeardown
  BY <1>24 DEF BeginTeardown
<1>25. CASE Teardown
  BY <1>25 DEF Teardown
<1>26. CASE ReviewAnswers
  BY <1>26 DEF ReviewAnswers
<1>27. CASE ReviewStops
  BY <1>27 DEF ReviewStops
<1>28. CASE ReviewProgress
  BY <1>28 DEF ReviewProgress
<1>29. CASE Tick
  BY <1>29 DEF Tick
<1>30. CASE DockerGoesDown
  BY <1>30 DEF DockerGoesDown
<1>31. CASE UNCHANGED vars
  BY <1>31 DEF vars
<1> QED
  BY <1>1, <1>2, <1>3, <1>4, <1>5, <1>6, <1>7, <1>8, <1>9, <1>10,
     <1>11, <1>12, <1>13, <1>14, <1>15, <1>16, <1>17, <1>18, <1>19,
     <1>20, <1>21, <1>22, <1>23, <1>24, <1>25, <1>26, <1>27, <1>28,
     <1>29, <1>30, <1>31
     DEF Next, Screen, ReviewTask

(* The end of a mechanical screen stays mechanical, and decided.           *)
LEMMA JudgeLane ==
  ASSUME NEW advisory, LaneInv, pc = "judged"
  PROVE  /\ Judge(advisory).outcome # "undecided"
         /\ buildOnly => Judge(advisory).outcome \in MechanicalOutcomes
BY DEF Judge, Decision, LaneInv, MechanicalOutcomes, NoReview

(* Every step keeps LaneInv: the mechanical lane enters none of the stages *)
(* that review.                                                            *)
LEMMA LaneStep ==
  ASSUME TypeOK, LaneInv, [Next]_vars
  PROVE  LaneInv'
<1> USE DEF LaneInv, MechanicalOutcomes, Return, Enter, Quiet, Unreviewed, EnterWithinLease, Decision, input,
    preflightVars, reviewVars, policyVars
<1>1. CASE PrepareGatewayState
  BY <1>1 DEF PrepareGatewayState
<1>2. CASE VerifyExecutor
  BY <1>2 DEF VerifyExecutor
<1>3. CASE Download
  BY <1>3 DEF Download
<1>4. CASE Validate
  BY <1>4 DEF Validate, StartBuild, StartReview
<1>5. CASE ResolveLead
  BY <1>5, PreexecutionType DEF ResolveLead, StartBuild, StartReview
<1>6. CASE Build
  BY <1>6 DEF Build
<1>7. CASE Inspect
  BY <1>7 DEF Inspect
<1>8. CASE StartGateway
  BY <1>8 DEF StartGateway
<1>9. CASE RunHarness
  BY <1>9 DEF RunHarness
<1>10. CASE WaitHealthy
  BY <1>10 DEF WaitHealthy
<1>11. CASE BeginPolicy
  BY <1>11 DEF BeginPolicy
<1>12. CASE AwaitReview
  BY <1>12 DEF AwaitReview
<1>13. CASE RunOracle
  BY <1>13, OracleOutcomeType DEF RunOracle
<1>14. CASE Settle
  BY <1>14, JudgeLane DEF Settle
<1>15. CASE SaveImage
  BY <1>15 DEF SaveImage
<1>16. CASE NormalizeArchive
  BY <1>16 DEF NormalizeArchive
<1>17. CASE HashImage
  BY <1>17 DEF HashImage
<1>18. CASE ExportFails
  BY <1>18 DEF ExportFails
<1>19. CASE PublishSucceeds
  BY <1>19 DEF PublishSucceeds
<1>20. CASE PublishFails
  BY <1>20 DEF PublishFails
<1>21. CASE PublishTimesOut
  BY <1>21 DEF PublishTimesOut
<1>22. CASE AbortReturns
  BY <1>22 DEF AbortReturns
<1>23. CASE CancelReview
  BY <1>23 DEF CancelReview
<1>24. CASE BeginTeardown
  BY <1>24 DEF BeginTeardown
<1>25. CASE Teardown
  BY <1>25 DEF Teardown
<1>26. CASE ReviewAnswers
  BY <1>26 DEF ReviewAnswers
<1>27. CASE ReviewStops
  BY <1>27 DEF ReviewStops
<1>28. CASE ReviewProgress
  BY <1>28 DEF ReviewProgress
<1>29. CASE Tick
  BY <1>29 DEF Tick
<1>30. CASE DockerGoesDown
  BY <1>30 DEF DockerGoesDown
<1>31. CASE UNCHANGED vars
  BY <1>31 DEF vars
<1> QED
  BY <1>1, <1>2, <1>3, <1>4, <1>5, <1>6, <1>7, <1>8, <1>9, <1>10,
     <1>11, <1>12, <1>13, <1>14, <1>15, <1>16, <1>17, <1>18, <1>19,
     <1>20, <1>21, <1>22, <1>23, <1>24, <1>25, <1>26, <1>27, <1>28,
     <1>29, <1>30, <1>31
     DEF Next, Screen, ReviewTask

(* Every step keeps LeadInv: the build stages follow only a lead that is   *)
(* absent or cleared.                                                      *)
LEMMA LeadStep ==
  ASSUME TypeOK, LeadInv, [Next]_vars
  PROVE  LeadInv'
<1> USE DEF LeadInv, Return, Enter, Quiet, Unreviewed, EnterWithinLease, Decision, input,
    preflightVars, reviewVars, policyVars
<1>1. CASE PrepareGatewayState
  BY <1>1 DEF PrepareGatewayState
<1>2. CASE VerifyExecutor
  BY <1>2 DEF VerifyExecutor
<1>3. CASE Download
  BY <1>3 DEF Download
<1>4. CASE Validate
  BY <1>4 DEF Validate, StartBuild, StartReview
<1>5. CASE ResolveLead
  BY <1>5 DEF ResolveLead, StartBuild, StartReview, ClearsPreflight
<1>6. CASE Build
  BY <1>6 DEF Build
<1>7. CASE Inspect
  BY <1>7 DEF Inspect
<1>8. CASE StartGateway
  BY <1>8 DEF StartGateway
<1>9. CASE RunHarness
  BY <1>9 DEF RunHarness
<1>10. CASE WaitHealthy
  BY <1>10 DEF WaitHealthy
<1>11. CASE BeginPolicy
  BY <1>11 DEF BeginPolicy
<1>12. CASE AwaitReview
  BY <1>12 DEF AwaitReview
<1>13. CASE RunOracle
  BY <1>13 DEF RunOracle
<1>14. CASE Settle
  BY <1>14 DEF Settle
<1>15. CASE SaveImage
  BY <1>15 DEF SaveImage
<1>16. CASE NormalizeArchive
  BY <1>16 DEF NormalizeArchive
<1>17. CASE HashImage
  BY <1>17 DEF HashImage
<1>18. CASE ExportFails
  BY <1>18 DEF ExportFails
<1>19. CASE PublishSucceeds
  BY <1>19 DEF PublishSucceeds
<1>20. CASE PublishFails
  BY <1>20 DEF PublishFails
<1>21. CASE PublishTimesOut
  BY <1>21 DEF PublishTimesOut
<1>22. CASE AbortReturns
  BY <1>22 DEF AbortReturns
<1>23. CASE CancelReview
  BY <1>23 DEF CancelReview
<1>24. CASE BeginTeardown
  BY <1>24 DEF BeginTeardown
<1>25. CASE Teardown
  BY <1>25 DEF Teardown
<1>26. CASE ReviewAnswers
  BY <1>26 DEF ReviewAnswers
<1>27. CASE ReviewStops
  BY <1>27 DEF ReviewStops
<1>28. CASE ReviewProgress
  BY <1>28 DEF ReviewProgress
<1>29. CASE Tick
  BY <1>29 DEF Tick
<1>30. CASE DockerGoesDown
  BY <1>30 DEF DockerGoesDown
<1>31. CASE UNCHANGED vars
  BY <1>31 DEF vars
<1> QED
  BY <1>1, <1>2, <1>3, <1>4, <1>5, <1>6, <1>7, <1>8, <1>9, <1>10,
     <1>11, <1>12, <1>13, <1>14, <1>15, <1>16, <1>17, <1>18, <1>19,
     <1>20, <1>21, <1>22, <1>23, <1>24, <1>25, <1>26, <1>27, <1>28,
     <1>29, <1>30, <1>31
     DEF Next, Screen, ReviewTask

(* A review that ran out of its budget is never read as clear.             *)
LEMMA ExhaustedFinding ==
  ASSUME NEW obs \in Reviews, obs.failure = "pass_inconclusive"
  PROVE  AgenticSourceReview(obs).disposition = "pass_inconclusive"
<1>1. ~obs.ok /\ obs # NoReview
  BY GateAssumption DEF NoReview
<1> QED
  BY <1>1 DEF AgenticSourceReview, ReviewFailed

(* Every step keeps PolicyInv: a passing decision rests on the review it   *)
(* was taken from.                                                         *)
LEMMA PolicyStep ==
  ASSUME TypeOK, PolicyInv, [Next]_vars
  PROVE  PolicyInv'
<1> USE DEF PolicyInv, PassingOutcomes, Reviewing, Finding, Return, Enter, Quiet, Unreviewed, EnterWithinLease, Decision, input,
    preflightVars, reviewVars, policyVars
<1>1. CASE PrepareGatewayState
  BY <1>1 DEF PrepareGatewayState
<1>2. CASE VerifyExecutor
  BY <1>2 DEF VerifyExecutor
<1>3. CASE Download
  BY <1>3 DEF Download
<1>4. CASE Validate
  BY <1>4 DEF Validate, StartBuild, StartReview
<1>5. CASE ResolveLead
  BY <1>5, PreexecutionType DEF ResolveLead, StartBuild, StartReview
<1>6. CASE Build
  BY <1>6 DEF Build
<1>7. CASE Inspect
  BY <1>7 DEF Inspect
<1>8. CASE StartGateway
  BY <1>8 DEF StartGateway
<1>9. CASE RunHarness
  BY <1>9 DEF RunHarness
<1>10. CASE WaitHealthy
  BY <1>10 DEF WaitHealthy
<1>11. CASE BeginPolicy
  BY <1>11 DEF BeginPolicy
<1>12. CASE AwaitReview
  <2>1. UNCHANGED <<clearance, reviewObs, reviewState, inPolicyPhase, buildOnly,
                    manifest>>
    BY <1>12 DEF AwaitReview
  <2>2. CASE reviewState = "failed"
    <3>1. decision'.outcome = "retryable_infra" /\ pc' = "cleanup"
      BY <1>12, <2>2 DEF AwaitReview
    <3> QED
      BY <2>1, <2>2, <3>1
  <2>3. CASE reviewState = "done" /\ pc' = "oracle"
    <3>1. /\ Finding \in {"clear", "tripwire", "pass_inconclusive"}
          /\ selected' = (Finding = "tripwire") /\ UNCHANGED decision
      BY <1>12, <2>3 DEF AwaitReview
    <3>2. inPolicyPhase /\ pc = "await"
      BY <1>12 DEF AwaitReview
    <3> QED
      BY <1>12, <2>1, <2>3, <3>1, <3>2 DEF AwaitReview
  <2>4. CASE reviewState = "done" /\ pc' # "oracle"
    <3>1. pc' = "judged" /\ decision'.outcome \in {"retryable_infra", "inconclusive"}
      BY <1>12, <2>4 DEF AwaitReview
    <3> QED
      BY <2>1, <2>4, <3>1
  <2> QED
    BY <1>12, <2>2, <2>3, <2>4 DEF AwaitReview
<1>13. CASE RunOracle
  <2>1. PICK run \in OracleRuns :
          decision'.outcome = OracleOutcome(BehavioralOracle(run))
    BY <1>13 DEF RunOracle
  <2>2. /\ decision'.outcome = "pass"
             => ~selected /\ ~(inPolicyPhase /\ Finding = "pass_inconclusive")
        /\ decision'.outcome = "pass_inconclusive"
             => inPolicyPhase /\ Finding = "pass_inconclusive"
    BY <2>1, OracleDisposition DEF OracleOutcome, Terminal
  <2> QED
    BY <1>13, <2>2 DEF RunOracle
<1>14. CASE Settle
  BY <1>14, ExhaustedFinding DEF Settle, Judge, TypeOK, DataTypes, NoReview
<1>15. CASE SaveImage
  BY <1>15 DEF SaveImage
<1>16. CASE NormalizeArchive
  BY <1>16 DEF NormalizeArchive
<1>17. CASE HashImage
  BY <1>17 DEF HashImage
<1>18. CASE ExportFails
  BY <1>18 DEF ExportFails
<1>19. CASE PublishSucceeds
  BY <1>19 DEF PublishSucceeds
<1>20. CASE PublishFails
  BY <1>20 DEF PublishFails
<1>21. CASE PublishTimesOut
  BY <1>21 DEF PublishTimesOut
<1>22. CASE AbortReturns
  BY <1>22 DEF AbortReturns
<1>23. CASE CancelReview
  BY <1>23 DEF CancelReview
<1>24. CASE BeginTeardown
  BY <1>24 DEF BeginTeardown
<1>25. CASE Teardown
  BY <1>25 DEF Teardown
<1>26. CASE ReviewAnswers
  <2>1. reviewState = "running" /\ reviewState' \in {"done", "failed"}
    BY <1>26 DEF ReviewAnswers
  <2>2. clearance # NoReview /\ reviewState' = "done" => reviewObs' = clearance
    BY <1>26 DEF ReviewAnswers
  <2> QED
    BY <1>26, <2>1, <2>2 DEF ReviewAnswers
<1>27. CASE ReviewStops
  BY <1>27 DEF ReviewStops
<1>28. CASE ReviewProgress
  BY <1>28 DEF ReviewProgress
<1>29. CASE Tick
  BY <1>29 DEF Tick
<1>30. CASE DockerGoesDown
  BY <1>30 DEF DockerGoesDown
<1>31. CASE UNCHANGED vars
  BY <1>31 DEF vars
<1> QED
  BY <1>1, <1>2, <1>3, <1>4, <1>5, <1>6, <1>7, <1>8, <1>9, <1>10,
     <1>11, <1>12, <1>13, <1>14, <1>15, <1>16, <1>17, <1>18, <1>19,
     <1>20, <1>21, <1>22, <1>23, <1>24, <1>25, <1>26, <1>27, <1>28,
     <1>29, <1>30, <1>31
     DEF Next, Screen, ReviewTask

IInv == FilesInv /\ ReviewInv /\ PublishInv /\ LaneInv /\ LeadInv /\ PolicyInv

(* The inductive invariant: types, files, review, publication, lead and    *)
(* policy together. Each part needs the types and some need each other, so *)
(* they are proved as one.                                                 *)
THEOREM InvariantHolds == Spec => []IInv
<1>1. Init => IInv
  BY DEF Init, IInv, FilesInv, ReviewInv, PublishInv, LaneInv, LeadInv, PolicyInv,
     Undecided, PassingOutcomes, MechanicalOutcomes
<1>2. TypeOK /\ IInv /\ [Next]_vars => IInv'
  BY FilesStep, ReviewStep, PublishStep, LaneStep, LeadStep, PolicyStep DEF IInv
<1> QED
  BY <1>1, <1>2, TypeCorrect, PTL DEF Spec

(* The uploaded image and the outcome that promises it come together.      *)
THEOREM PublishedIffPassingHolds == Spec => []PublishedIffPassing
<1>1. IInv => PublishedIffPassing
  BY DEF IInv, PublishInv, PublishedIffPassing
<1> QED
  BY <1>1, InvariantHolds, PTL

(* No submission-controlled step runs under an unresolved static lead.     *)
THEOREM NoBuildUnderOpenLeadHolds == Spec => []NoBuildUnderOpenLead
<1>1. IInv => NoBuildUnderOpenLead
  BY DEF IInv, LeadInv, NoBuildUnderOpenLead, ClearsPreflight
<1> QED
  BY <1>1, InvariantHolds, PTL

(* A pass or a deferral of a full screen rests on its own finished review. *)
THEOREM PassRestsOnItsReviewHolds == Spec => []PassRestsOnItsReview
<1>1. IInv => PassRestsOnItsReview
  BY DEF IInv, PolicyInv, PassRestsOnItsReview, Reviewing, Finding
<1> QED
  BY <1>1, InvariantHolds, PTL

(* The review task never reads a tarball that is gone, nor outlives its    *)
(* screen.                                                                 *)
THEOREM ReviewReadsALiveTarballHolds == Spec => []ReviewReadsALiveTarball
<1>1. IInv => ReviewReadsALiveTarball
  BY DEF IInv, ReviewInv, ReviewReadsALiveTarball, Ended
<1> QED
  BY <1>1, InvariantHolds, PTL

(* Whatever failed, no temporary file survives the screen.                 *)
THEOREM NoFilesLeftBehindHolds == Spec => []NoFilesLeftBehind
<1>1. IInv => NoFilesLeftBehind
  BY DEF IInv, FilesInv, NoFilesLeftBehind, Ended
<1> QED
  BY <1>1, InvariantHolds, PTL
-----------------------------------------------------------------------------
(* The journal                                                             *)

(* A decision that is not to be judged any more is journalled if it holds; *)
(* nothing is journalled before that, and what a screen on its way to the  *)
(* platform has journalled is its outcome.                                 *)
Recorded == {"save", "normalize", "hash", "publish"}
JournalInv ==
  /\ Journals /\ pc # "judged" /\ decision.outcome \in HeldOutcomes
       => journal = decision.outcome
  /\ journal # "-" => /\ Journals /\ ~buildOnly
                      /\ pc \in Recorded \cup {"aborting", "cleanup", "teardown", "ended"}
  /\ pc \in Recorded => journal \in {"-", decision.outcome}
  /\ journal \notin {"-", decision.outcome} =>
       \/ decision.code = "unexpected-infrastructure"
       \/ /\ journal = "pass_inconclusive" /\ ~published
          /\ decision.outcome \in {"retryable_infra", "deterministic_reject"}

(* Every step keeps JournalInv: what is decided after the judgement holds  *)
(* nothing, and what is judged is journalled as it is judged.              *)
LEMMA JournalStep ==
  ASSUME TypeOK, PublishInv, LaneInv, JournalInv, [Next]_vars
  PROVE  JournalInv'
<1> USE DEF JournalInv, Recorded, PassingOutcomes, HeldOutcomes, Return, Enter, Quiet, Unreviewed, EnterWithinLease, Decision, input,
    preflightVars, reviewVars, policyVars
<1>0. /\ journal \in {"quarantine", "inconclusive", "pass_inconclusive", "-"}
      /\ published => pc \in {"cleanup", "teardown", "ended"}
      /\ pc \in Recorded => decision.outcome \in PassingOutcomes
  BY DEF TypeOK, DataTypes, PublishInv
<1>1. CASE PrepareGatewayState
  BY <1>1 DEF PrepareGatewayState
<1>2. CASE VerifyExecutor
  BY <1>2 DEF VerifyExecutor
<1>3. CASE Download
  BY <1>3 DEF Download
<1>4. CASE Validate
  BY <1>4 DEF Validate, StartBuild, StartReview
<1>5. CASE ResolveLead
  <2>1. CASE UNCHANGED journal
    BY <1>5, <2>1, PreexecutionType DEF ResolveLead, StartBuild, StartReview, Journalled
  <2>2. CASE journal' # journal
    BY <1>0, <1>5, <2>2, PreexecutionType DEF ResolveLead, LaneInv, Journalled
  <2> QED
    BY <2>1, <2>2
<1>6. CASE Build
  BY <1>6 DEF Build
<1>7. CASE Inspect
  BY <1>7 DEF Inspect
<1>8. CASE StartGateway
  BY <1>8 DEF StartGateway
<1>9. CASE RunHarness
  BY <1>9 DEF RunHarness
<1>10. CASE WaitHealthy
  BY <1>10 DEF WaitHealthy
<1>11. CASE BeginPolicy
  BY <1>11 DEF BeginPolicy
<1>12. CASE AwaitReview
  BY <1>12 DEF AwaitReview
<1>13. CASE RunOracle
  BY <1>13 DEF RunOracle
<1>14. CASE Settle
  <2>1. journal = "-" /\ ~published
    BY <1>0, <1>14 DEF Settle
  <2>2. ASSUME NEW advisory \in BOOLEAN
        PROVE  ~buildOnly \/ Judge(advisory).outcome \notin HeldOutcomes
    BY <1>14, JudgeLane DEF Settle, MechanicalOutcomes
  <2> QED
    BY <1>14, <2>1, <2>2 DEF Settle, Journalled
<1>15. CASE SaveImage
  BY <1>15 DEF SaveImage
<1>16. CASE NormalizeArchive
  BY <1>16 DEF NormalizeArchive
<1>17. CASE HashImage
  BY <1>0, <1>17 DEF HashImage
<1>18. CASE ExportFails
  BY <1>0, <1>18 DEF ExportFails
<1>19. CASE PublishSucceeds
  BY <1>19 DEF PublishSucceeds
<1>20. CASE PublishFails
  BY <1>0, <1>20 DEF PublishFails
<1>21. CASE PublishTimesOut
  BY <1>0, <1>21 DEF PublishTimesOut
<1>22. CASE AbortReturns
  BY <1>22 DEF AbortReturns
<1>23. CASE CancelReview
  BY <1>23 DEF CancelReview
<1>24. CASE BeginTeardown
  BY <1>24 DEF BeginTeardown
<1>25. CASE Teardown
  BY <1>25 DEF Teardown
<1>26. CASE ReviewAnswers
  BY <1>26 DEF ReviewAnswers
<1>27. CASE ReviewStops
  BY <1>27 DEF ReviewStops
<1>28. CASE ReviewProgress
  BY <1>28 DEF ReviewProgress
<1>29. CASE Tick
  BY <1>29 DEF Tick
<1>30. CASE DockerGoesDown
  BY <1>30 DEF DockerGoesDown
<1>31. CASE UNCHANGED vars
  BY <1>31 DEF vars
<1> QED
  BY <1>1, <1>2, <1>3, <1>4, <1>5, <1>6, <1>7, <1>8, <1>9, <1>10,
     <1>11, <1>12, <1>13, <1>14, <1>15, <1>16, <1>17, <1>18, <1>19,
     <1>20, <1>21, <1>22, <1>23, <1>24, <1>25, <1>26, <1>27, <1>28,
     <1>29, <1>30, <1>31
     DEF Next, Screen, ReviewTask

(* The journal agrees with the outcome the screen returns, with or without *)
(* a configured path, whatever fails after the record.                     *)
THEOREM JournalAgreesHolds == Spec => []JournalAgrees
<1>1. Init => JournalInv
  BY DEF Init, JournalInv, Recorded, Undecided, HeldOutcomes
<1>2. TypeOK /\ IInv /\ JournalInv /\ [Next]_vars => JournalInv'
  BY JournalStep DEF IInv
<1>3. JournalInv => JournalAgrees
  BY DEF JournalInv, JournalAgrees
<1> QED
  BY <1>1, <1>2, <1>3, TypeCorrect, InvariantHolds, PTL DEF Spec
-----------------------------------------------------------------------------
(* The contract of a screen                                                *)

(* The end of a screen is a step of the contract.                          *)
LEMMA ReturnsByContract ==
  ASSUME TypeOK, IInv, Teardown
  PROVE  Contract!Return(decision.outcome) /\ decision.outcome \in Contract!Outcomes
<1> DEFINE o == decision.outcome
<1>1. /\ o # "undecided" /\ o \in GateOutcomes
      /\ buildOnly => o \in MechanicalOutcomes
      /\ o \in PassingOutcomes <=> published
  BY DEF Teardown, IInv, LaneInv, PublishInv, TypeOK, DataTypes
<1>2. Seen = "-" /\ Seen' = o /\ UNCHANGED <<buildOnly, published>>
  BY DEF Teardown, Enter, Quiet, Unreviewed, input, Seen
<1>3. o \in Contract!Passing <=> published
  BY <1>1 DEF Contract!Passing, PassingOutcomes
<1>4. buildOnly => o \in Contract!Mechanical
  BY <1>1 DEF Contract!Mechanical, MechanicalOutcomes
<1>5. o \in Contract!Outcomes
  BY <1>1 DEF Contract!Outcomes, Contract!Passing, Contract!Mechanical, GateOutcomes
<1> QED
  BY <1>2, <1>3, <1>4, <1>5 DEF Contract!Return

(* Every step of a screen is one of the contract, or none of its business. *)
LEMMA ContractStep ==
  ASSUME TypeOK, IInv, [Next]_vars
  PROVE  [Contract!Next]_<<buildOnly, published, Seen>>
<1> USE DEF Return, Enter, Quiet, Unreviewed, EnterWithinLease, Decision, input,
    preflightVars, reviewVars, policyVars, Seen
<1>1. CASE PrepareGatewayState
  <2>1. ~published
    BY <1>1 DEF PrepareGatewayState, IInv, PublishInv
  <2>2. CASE pc' = "raised"
    BY <1>1, <2>1, <2>2 DEF PrepareGatewayState, Contract!Raise, Contract!Next
  <2>3. CASE pc' # "raised"
    BY <1>1, <2>3 DEF PrepareGatewayState
  <2> QED
    BY <2>2, <2>3
<1>2. CASE VerifyExecutor
  BY <1>2 DEF VerifyExecutor
<1>3. CASE Download
  BY <1>3 DEF Download
<1>4. CASE Validate
  BY <1>4 DEF Validate, StartBuild, StartReview
<1>5. CASE ResolveLead
  BY <1>5 DEF ResolveLead, StartBuild, StartReview
<1>6. CASE Build
  BY <1>6 DEF Build
<1>7. CASE Inspect
  BY <1>7 DEF Inspect
<1>8. CASE StartGateway
  BY <1>8 DEF StartGateway
<1>9. CASE RunHarness
  BY <1>9 DEF RunHarness
<1>10. CASE WaitHealthy
  BY <1>10 DEF WaitHealthy
<1>11. CASE BeginPolicy
  BY <1>11 DEF BeginPolicy
<1>12. CASE AwaitReview
  BY <1>12 DEF AwaitReview
<1>13. CASE RunOracle
  BY <1>13 DEF RunOracle
<1>14. CASE Settle
  BY <1>14 DEF Settle
<1>15. CASE SaveImage
  BY <1>15 DEF SaveImage
<1>16. CASE NormalizeArchive
  BY <1>16 DEF NormalizeArchive
<1>17. CASE HashImage
  BY <1>17 DEF HashImage
<1>18. CASE ExportFails
  BY <1>18 DEF ExportFails
<1>19. CASE PublishSucceeds
  <2>1. ~published
    BY <1>19 DEF PublishSucceeds, IInv, PublishInv
  <2> QED
    BY <1>19, <2>1 DEF PublishSucceeds, Contract!Publish, Contract!Next
<1>20. CASE PublishFails
  BY <1>20 DEF PublishFails
<1>21. CASE PublishTimesOut
  BY <1>21 DEF PublishTimesOut
<1>22. CASE AbortReturns
  BY <1>22 DEF AbortReturns
<1>23. CASE CancelReview
  BY <1>23 DEF CancelReview
<1>24. CASE BeginTeardown
  BY <1>24 DEF BeginTeardown
<1>25. CASE Teardown
  BY <1>25, ReturnsByContract DEF Contract!Next
<1>26. CASE ReviewAnswers
  BY <1>26 DEF ReviewAnswers
<1>27. CASE ReviewStops
  BY <1>27 DEF ReviewStops
<1>28. CASE ReviewProgress
  BY <1>28 DEF ReviewProgress
<1>29. CASE Tick
  BY <1>29 DEF Tick
<1>30. CASE DockerGoesDown
  BY <1>30 DEF DockerGoesDown
<1>31. CASE UNCHANGED vars
  BY <1>31 DEF vars
<1> QED
  BY <1>1, <1>2, <1>3, <1>4, <1>5, <1>6, <1>7, <1>8, <1>9, <1>10,
     <1>11, <1>12, <1>13, <1>14, <1>15, <1>16, <1>17, <1>18, <1>19,
     <1>20, <1>21, <1>22, <1>23, <1>24, <1>25, <1>26, <1>27, <1>28,
     <1>29, <1>30, <1>31
     DEF Next, Screen, ReviewTask

(* A screen implements its contract: what the worker assumes of it.        *)
THEOREM KeepsContractHolds == Spec => KeepsContract
<1>1. Init => Contract!Init
  BY DEF Init, Contract!Init, Seen
<1>2. TypeOK /\ IInv /\ [Next]_vars
        => [Contract!Next]_<<buildOnly, published, Seen>>
  BY ContractStep
<1> QED
  BY <1>1, <1>2, TypeCorrect, InvariantHolds, PTL
     DEF Spec, KeepsContract, Contract!Spec
-----------------------------------------------------------------------------
(* The lease                                                               *)

(* What the two sums of the overrun are at least.                          *)
LEMMA OverrunBounds ==
  /\ UndrainedEnd \in Int /\ Overrun \in Int
  /\ UndrainedEnd >= ReviewGrace
  /\ UndrainedEnd >= DownloadCap - MinStage - 1 + ReviewGrace
  /\ UndrainedEnd >= InspectCap
  /\ UndrainedEnd >= GatewayCap + RunCap + HealthCap - MinStage - 1
  /\ UndrainedEnd >= AbortCap
  /\ Overrun >= TeardownCap + DrainCap + UndrainedEnd
  /\ Overrun >= TeardownCap + ReviewGrace + ChallengeCap
  /\ Overrun >= TeardownCap + VerifyCap
<1>1. \A a, b \in Int : /\ Greater(a, b) \in Int
                        /\ Greater(a, b) >= a /\ Greater(a, b) >= b
  BY DEF Greater
<1> DEFINE serve == Greater(GatewayCap + RunCap + HealthCap - MinStage - 1, AbortCap)
           late  == Greater(InspectCap, serve)
           slow  == Greater(ReviewGrace, DownloadCap - MinStage - 1 + ReviewGrace)
<1>2. /\ serve \in Int /\ serve >= AbortCap
      /\ serve >= GatewayCap + RunCap + HealthCap - MinStage - 1
  BY <1>1, ConstantTypes
<1>3. /\ slow \in Int /\ slow >= ReviewGrace
      /\ slow >= DownloadCap - MinStage - 1 + ReviewGrace
  BY <1>1, ConstantTypes
<1> HIDE DEF serve, slow
<1>4. late \in Int /\ late >= InspectCap /\ late >= serve
  BY <1>1, <1>2, ConstantTypes
<1> HIDE DEF late
<1>5. UndrainedEnd = Greater(slow, late)
  BY DEF UndrainedEnd, serve, late, slow
<1>6. UndrainedEnd \in Int /\ UndrainedEnd >= slow /\ UndrainedEnd >= late
  BY <1>1, <1>3, <1>4, <1>5
<1> DEFINE reviewed == Greater(DrainCap + UndrainedEnd, ReviewGrace + ChallengeCap)
           most == Greater(VerifyCap, reviewed)
<1>7. /\ reviewed \in Int /\ reviewed >= DrainCap + UndrainedEnd
      /\ reviewed >= ReviewGrace + ChallengeCap
  <2>1. DrainCap + UndrainedEnd \in Int /\ ReviewGrace + ChallengeCap \in Int
    BY <1>6, ConstantTypes
  <2> QED
    BY <1>1, <2>1
<1> HIDE DEF reviewed
<1>8. most \in Int /\ most >= VerifyCap /\ most >= reviewed
  <2>1. VerifyCap \in Int /\ reviewed \in Int
    BY <1>7, ConstantTypes
  <2> QED
    BY <1>1, <2>1
<1>9. Overrun = TeardownCap + most
  BY DEF Overrun, reviewed
<1> HIDE DEF most
<1> QED
  BY <1>2, <1>3, <1>4, <1>6, <1>7, <1>8, <1>9, ConstantTypes

(* When a stage that began under a lease must have ended, ...              *)
StageDue ==
  /\ pc = "start" => until = 0
  /\ pc = "verify" => until <= deadline + VerifyCap
  /\ pc \in {"download", "validate"}
       => until <= deadline + DownloadCap - MinStage - 1
  /\ pc = "preflight" => until <= deadline + UndrainedEnd
  /\ pc \in {"build", "policy", "await", "save", "normalize", "hash", "publish"}
       => until <= deadline
  /\ pc = "inspect" => until <= deadline + InspectCap
  /\ pc = "gateway" => until <= deadline + GatewayCap - MinStage - 1
  /\ pc = "run" => until <= deadline + GatewayCap + RunCap - MinStage - 1
  /\ pc = "health"
       => until <= deadline + GatewayCap + RunCap + HealthCap - MinStage - 1
  /\ pc \in {"oracle", "judged"} => until <= deadline + ReviewGrace + ChallengeCap
  /\ pc = "aborting" => until <= deadline + AbortCap
  /\ pc = "cleanup" => until <= deadline + Overrun - TeardownCap
  /\ pc \in {"teardown", "ended"} => until <= deadline + Overrun

(* ... how far the clock has come in it, ...                               *)
NowDue ==
  /\ pc \notin {"await", "cleanup"} => now <= until
  /\ pc = "await" => now <= deadline + ReviewGrace
  /\ pc = "cleanup" => now <= deadline + Overrun - TeardownCap

(* ... and when the review beside it must have stopped.                    *)
ReviewDue ==
  /\ reviewState \in {"running", "cancelling"} => now <= reviewUntil
  /\ reviewState = "running" => reviewUntil <= deadline + UndrainedEnd
  /\ reviewState = "running" /\ pc # "cleanup"
       => reviewUntil <= deadline + ReviewGrace
  /\ reviewState = "cancelling"
       => pc = "cleanup" /\ reviewUntil <= deadline + Overrun - TeardownCap

LeaseInv == deadline # NoDeadline => StageDue /\ NowDue /\ ReviewDue

(* What is clamped to the lease ends by it, if there is some lease left.   *)
LEMMA ClampedEnds ==
  ASSUME TypeOK, deadline # NoDeadline
  PROVE  /\ now \in Nat /\ deadline \in Nat /\ until \in Int /\ reviewUntil \in Int
         /\ \A cap \in Nat : Unclamped(cap) = now + cap
         /\ \A cap \in Nat : Clamped(cap) <= deadline /\ Clamped(cap) \in Int
         /\ \A cap \in Nat : now <= deadline => now <= Clamped(cap)
         /\ ReviewEnd \in Int /\ now <= ReviewEnd
         /\ now <= deadline => ReviewEnd <= deadline + ReviewGrace
         /\ deadline <= now => ReviewEnd <= now + ReviewGrace
         /\ LeaseExhausted <=> deadline - now <= MinStage
<1>1. /\ now \in Nat /\ deadline \in Nat /\ until \in Int /\ reviewUntil \in Int
      /\ MinStage \in Nat /\ ReviewCap \in Nat /\ ReviewGrace \in Nat
  BY ConstantTypes DEF TypeOK, ClockTypes
<1> QED
  BY <1>1 DEF Unclamped, Clamped, ReviewEnd, LeaseExhausted, Least

(* Every step keeps LeaseInv.                                              *)
LEMMA LeaseStep ==
  ASSUME TypeOK, ReviewInv, LeaseInv, [Next]_vars
  PROVE  LeaseInv'
<1>1. deadline' = deadline
  BY DEF Next, Screen, ReviewTask, vars, input, Quiet, PrepareGatewayState,
     VerifyExecutor, Download, Validate, ResolveLead, Build, Inspect,
     StartGateway, RunHarness, WaitHealthy, BeginPolicy, AwaitReview,
     RunOracle, Settle, SaveImage, NormalizeArchive, HashImage, ExportFails,
     PublishSucceeds, PublishFails, PublishTimesOut, AbortReturns,
     CancelReview, BeginTeardown, Teardown, ReviewAnswers, ReviewStops,
     ReviewProgress, Tick, DockerGoesDown
<1> SUFFICES ASSUME deadline # NoDeadline PROVE StageDue' /\ NowDue' /\ ReviewDue'
  BY <1>1 DEF LeaseInv
<1>2. StageDue /\ NowDue /\ ReviewDue
  BY DEF LeaseInv
<1> USE <1>1, <1>2, ClampedEnds, OverrunBounds, ConstantTypes
    DEF StageDue, NowDue, ReviewDue, Return, Enter, Quiet, Unreviewed,
        EnterWithinLease, input, preflightVars, reviewVars, policyVars
<1>3. CASE PrepareGatewayState
  BY <1>3 DEF PrepareGatewayState
<1>4. CASE VerifyExecutor
  BY <1>4 DEF VerifyExecutor
<1>5. CASE Download
  BY <1>5 DEF Download
<1>6. CASE Validate
  BY <1>6 DEF Validate, StartBuild, StartReview
<1>7. CASE ResolveLead
  BY <1>7 DEF ResolveLead, StartBuild, StartReview
<1>8. CASE Build
  BY <1>8 DEF Build
<1>9. CASE Inspect
  BY <1>9 DEF Inspect
<1>10. CASE StartGateway
  BY <1>10 DEF StartGateway
<1>11. CASE RunHarness
  BY <1>11 DEF RunHarness
<1>12. CASE WaitHealthy
  BY <1>12 DEF WaitHealthy
<1>13. CASE BeginPolicy
  BY <1>13 DEF BeginPolicy
<1>14. CASE AwaitReview
  BY <1>14 DEF AwaitReview
<1>15. CASE RunOracle
  BY <1>15 DEF RunOracle
<1>16. CASE Settle
  BY <1>16 DEF Settle
<1>17. CASE SaveImage
  BY <1>17 DEF SaveImage
<1>18. CASE NormalizeArchive
  BY <1>18 DEF NormalizeArchive
<1>19. CASE HashImage
  BY <1>19 DEF HashImage, UploadEnd
<1>20. CASE ExportFails
  BY <1>20 DEF ExportFails
<1>21. CASE PublishSucceeds
  BY <1>21 DEF PublishSucceeds
<1>22. CASE PublishFails
  BY <1>22 DEF PublishFails
<1>23. CASE PublishTimesOut
  BY <1>23 DEF PublishTimesOut
<1>24. CASE AbortReturns
  BY <1>24 DEF AbortReturns
<1>25. CASE CancelReview
  BY <1>25 DEF CancelReview
<1>26. CASE BeginTeardown
  BY <1>26 DEF BeginTeardown, ReviewDrained
<1>27. CASE Teardown
  BY <1>27 DEF Teardown
<1>28. CASE ReviewAnswers
  BY <1>28 DEF ReviewAnswers
<1>29. CASE ReviewStops
  BY <1>29 DEF ReviewStops
<1>30. CASE ReviewProgress
  BY <1>30 DEF ReviewProgress
<1>31. CASE Tick
  BY <1>31 DEF Tick, Waiting, Ended
<1>32. CASE DockerGoesDown
  BY <1>32 DEF DockerGoesDown
<1>33. CASE UNCHANGED vars
  BY <1>33 DEF vars
<1> QED
  BY <1>3, <1>4, <1>5, <1>6, <1>7, <1>8, <1>9, <1>10, <1>11, <1>12, <1>13, <1>14, <1>15, <1>16, <1>17, <1>18, <1>19, <1>20, <1>21, <1>22, <1>23, <1>24, <1>25, <1>26, <1>27, <1>28, <1>29, <1>30, <1>31, <1>32, <1>33
     DEF Next, Screen, ReviewTask

LEMMA LeaseHolds == Spec => []LeaseInv
<1>1. Init => LeaseInv
  <2> SUFFICES ASSUME Init, deadline # NoDeadline PROVE LeaseInv
    BY DEF LeaseInv
  <2> QED
    BY DEF Init, LeaseInv, StageDue, NowDue, ReviewDue
<1>2. TypeOK /\ IInv /\ LeaseInv /\ [Next]_vars => LeaseInv'
  BY LeaseStep DEF IInv
<1> QED
  BY <1>1, <1>2, TypeCorrect, InvariantHolds, PTL DEF Spec

(* A screen outlives its lease by what the stages that are not clamped to  *)
(* it can take, and no more, however long they are configured to be.       *)
THEOREM EndsWithinOverrunHolds == Spec => []EndsWithinOverrun
<1>1. TypeOK /\ LeaseInv => EndsWithinOverrun
  <2> SUFFICES ASSUME TypeOK, LeaseInv, pc = "ended", deadline # NoDeadline
               PROVE  now <= deadline + Overrun
    BY DEF EndsWithinOverrun
  <2>1. now <= until /\ until <= deadline + Overrun
    BY DEF LeaseInv, StageDue, NowDue
  <2>2. now \in Nat /\ until \in Int /\ deadline \in Nat /\ Overrun \in Int
    BY ClampedEnds, OverrunBounds
  <2> QED
    BY <2>1, <2>2
<1> QED
  BY <1>1, TypeCorrect, LeaseHolds, PTL
=============================================================================
