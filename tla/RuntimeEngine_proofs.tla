------------------------ MODULE RuntimeEngine_proofs ------------------------
(***************************************************************************)
(* Proofs about RuntimeEngine, for every playbook, any number of runs and  *)
(* attempts, with crashes and with resets at any moment.                   *)
(***************************************************************************)
EXTENDS RuntimeEngine, TLAPS, WellFoundedInduction

(***************************************************************************)
(* The cursors.  The type invariant alone is not inductive: that the next  *)
(* stage or step is one of the playbook's depends on where the engine is.  *)
(***************************************************************************)
AtStage == {"stage_open", "stage_inapp", "stage_close", "stage_fail", "step"}
AtStep  == {"step_inapp", "step_start", "work", "working", "succeed", "fail", "await"}

CursorOK ==
  /\ pc \in AtStage \cup AtStep => stg \in Stage
  /\ pc \in AtStep => at \in StepsOf(stg)
  /\ op \in {"approve", "reject"} => opStep \in Step

(***************************************************************************)
(* What an approval means at every place it is stored or remembered: in    *)
(* the state file, in the copy the engine took when it started the step,   *)
(* and in the operator's command that is about to be committed.            *)
(***************************************************************************)
GrantsOK ==
  /\ \A s \in Step : approval[s] = "APPROVED" => s \in granted
  /\ pc = "work" \/ (pc = "step_start" /\ phase \in {"report", "log"}) => (seen => at \in granted)
  /\ pc = "work" => (at \in Gated \ Fixer => seen)
  /\ op \in {"approve", "reject"} => (opFresh => opRun = runId)
  /\ AuthorizedWork

(***************************************************************************)
(* Facts about the stages and steps of a playbook.                         *)
(***************************************************************************)
\* A set of numbers has a least one: the induction that the facts below need.
LEMMA LeastNumber ==
  ASSUME NEW S \in SUBSET Nat, S # {}
  PROVE  \E i \in S : \A j \in S : i <= j
<1> DEFINE Less == {ij \in Nat \X Nat : ij[1] < ij[2]}
<1>1. IsWellFoundedOn(Less, Nat)
  BY NatLessThanWellFounded DEF OpToRel
<1> HIDE DEF Less
<1>2. PICK i \in S : \A j \in S : <<j, i>> \notin Less
  BY <1>1, WFMin
<1>3. \A j \in S : ~(j < i)
  <2> TAKE j \in S
  <2>1. <<j, i>> \in Nat \X Nat
    OBVIOUS
  <2> QED
    BY <1>2, <2>1 DEF Less
<1> QED
  BY <1>3

\* A later stage begins later, if every stage has a step.
LEMMA FirstIsMonotone ==
  ASSUME NEW g \in 1..(NStages + 1), NEW h \in 1..(NStages + 1), g <= h
  PROVE  First[g] <= First[h]
<1>1. NStages \in Nat /\ \A i \in 1..(NStages + 1) : First[i] \in Nat
  BY EngineAssumption
<1> DEFINE Early == {i \in 1..(NStages + 1) : g <= i /\ First[i] < First[g]}
<1>2. CASE Early = {}
  BY <1>1, <1>2
<1>3. CASE Early # {}
  <2>1. PICK i \in Early : \A j \in Early : i <= j
    <3>1. Early \in SUBSET Nat
      BY <1>1
    <3> HIDE DEF Early
    <3> QED
      BY <1>3, <3>1, LeastNumber
  <2>2. i # g /\ i \in 1..(NStages + 1) /\ g <= i /\ First[i] < First[g]
    BY <1>1, <2>1
  <2>3. i - 1 \in Stage /\ i - 1 \in 1..(NStages + 1) /\ g <= i - 1 /\ (i - 1) + 1 = i
    BY <1>1, <2>2 DEF Stage
  <2>4. First[i - 1] < First[i]
    BY <2>3, EngineAssumption
  <2>5. First[i - 1] < First[g]
    BY <1>1, <2>2, <2>3, <2>4
  <2>6. i - 1 \in Early
    BY <2>3, <2>5
  <2> QED
    BY <1>1, <2>1, <2>2, <2>6
<1> QED
  BY <1>2, <1>3

\* Every stage has its steps to itself, before those of later stages, and every step has a stage
\* (how the playbook's steps are numbered).
LEMMA StagesInOrder ==
  /\ \A g \in Stage : StepsOf(g) \subseteq Step
  /\ \A g, h \in Stage : g < h => First[g + 1] <= First[h]
  /\ \A s \in Step : \E g \in Stage : s \in StepsOf(g)
<1>1. /\ NStages \in Nat /\ First[1] = 1 /\ 1 \in 1..(NStages + 1) /\ NStages + 1 \in 1..(NStages + 1)
      /\ \A i \in 1..(NStages + 1) : First[i] \in Nat
      /\ \A g \in Stage : g \in Nat /\ g \in 1..(NStages + 1) /\ g + 1 \in 1..(NStages + 1)
  BY EngineAssumption DEF Stage
<1>2. ASSUME NEW g \in Stage PROVE StepsOf(g) \subseteq Step
  <2>1. 1 <= First[g] /\ First[g + 1] <= First[NStages + 1]
    BY <1>1, FirstIsMonotone
  <2> QED
    BY <1>1, <2>1 DEF StepsOf, Step, NSteps
<1>3. ASSUME NEW g \in Stage, NEW h \in Stage, g < h PROVE First[g + 1] <= First[h]
  BY <1>1, <1>3, FirstIsMonotone
<1>4. ASSUME NEW s \in Step PROVE \E g \in Stage : s \in StepsOf(g)
  <2> DEFINE Later == {i \in 1..(NStages + 1) : s < First[i]}
  <2>1. s \in Nat /\ 1 <= s /\ NStages + 1 \in Later
    BY <1>1 DEF Step, NSteps
  <2>2. PICK i \in Later : \A j \in Later : i <= j
    <3>1. Later \in SUBSET Nat
      BY <1>1
    <3> HIDE DEF Later
    <3> QED
      BY <2>1, <3>1, LeastNumber
  <2>3. i - 1 \in Stage /\ i - 1 \in 1..(NStages + 1) /\ (i - 1) + 1 = i
    BY <1>1, <2>1, <2>2 DEF Stage
  <2>4. First[i - 1] <= s
    BY <1>1, <2>1, <2>2, <2>3
  <2>5. s \in StepsOf(i - 1)
    BY <1>1, <2>1, <2>2, <2>3, <2>4 DEF StepsOf
  <2> QED
    BY <2>3, <2>5
<1> QED
  BY <1>2, <1>3, <1>4

\* Stages and steps are numbered without gaps, and every stage has a first step (the cursor
\* arithmetic of the two loops of execute).
LEMMA PlaybookFacts ==
  /\ 1 \in 1..(NStages + 1) /\ 1 \in 1..(NSteps + 1)
  /\ \A g \in Stage : g \in 1..(NStages + 1) /\ g + 1 \in 1..(NStages + 1)
  /\ \A s \in Step : s \in 1..(NSteps + 1) /\ s + 1 \in 1..(NSteps + 1)
  /\ \A g \in Stage : First[g] \in 1..(NSteps + 1)
  /\ \A g \in Stage : \A s \in StepsOf(g) : s \in Step
<1>1. NStages \in Nat /\ NSteps \in Nat
  BY EngineAssumption DEF NSteps
<1>2. \A g \in Stage : g \in 1..(NStages + 1) /\ g + 1 \in 1..(NStages + 1)
  BY <1>1 DEF Stage
<1>3. \A s \in Step : s \in 1..(NSteps + 1) /\ s + 1 \in 1..(NSteps + 1)
  BY <1>1 DEF Step
<1>4. \A g \in Stage : StepsOf(g) \subseteq Step
  BY StagesInOrder
<1>5. \A g \in Stage : First[g] \in StepsOf(g)
  <2>1. \A g \in Stage : g \in 1..(NStages + 1) /\ g + 1 \in 1..(NStages + 1)
    BY <1>2
  <2>2. \A g \in Stage : First[g] \in Nat /\ First[g + 1] \in Nat /\ First[g] < First[g + 1]
    BY <2>1, EngineAssumption
  <2>3. QED BY <2>2 DEF StepsOf
<1>6. QED BY <1>1, <1>2, <1>3, <1>4, <1>5

(***************************************************************************)
(* The actions by what they do to the state file: nothing, or an update by *)
(* the engine or by the operator.  Throwing are the exceptions, all alike. *)
(***************************************************************************)
Throwing == UpdateRefused \/ StageRefused \/ StepRefused \/ ReportRefused \/ LogRefused

Reading ==
  \/ EngineLoad \/ ExamineStage \/ ExamineStep \/ InvokeCapability \/ CapabilityEnds
  \/ WriteReport \/ LogEvent \/ LogInterrupted \/ Reconcile \/ RunCommand \/ ResumeCommand \/ RecoverRunLock
  \/ BeginDecision \/ BeginReset \/ BeginInit \/ BeginReport \/ OperatorEnds \/ Crash
  \/ EditPlaybook \/ CommitToRepository

EngineUpdate ==
  \/ Initialize \/ ResumeRun \/ MarkTainted \/ MarkStale \/ CompleteRun \/ OpenStage
  \/ MarkStageInapplicable \/ CloseStage \/ MarkStepInapplicable \/ StartStep \/ SucceedStep
  \/ FailStep \/ AwaitApproval

OperatorUpdate == RecordApproval \/ ResetState \/ InitState \/ StopInitialState

\* The four groups are all there is.
LEMMA NextIsGrouped ==
  ASSUME Next PROVE Throwing \/ Reading \/ EngineUpdate \/ OperatorUpdate
BY DEF Next, EngineStep, OperatorStep, Throwing, Reading, EngineUpdate, OperatorUpdate

\* Every exception ends the command in the same way.
LEMMA ThrowingThrows == ASSUME Throwing PROVE Throws
BY DEF Throwing, UpdateRefused, StageRefused, StepRefused, ReportRefused, LogRefused

\* Only updates change the state file.
LEMMA ReadingReads == ASSUME Reading \/ Throwing PROVE UNCHANGED stateVars
BY ThrowingThrows
   DEF Throws, Reading, EngineLoad, ExamineStage, LooksAround, ExamineStep, InvokeCapability,
       CapabilityEnds, WriteReport, LogEvent, LogInterrupted, Reconcile, RunCommand, ResumeCommand,
       ResumeWith, TakesRunLock, RecoverRunLock, BeginDecision, BeginReset, BeginInit, BeginReport,
       OperatorLoads, OperatorEnds, Crash, EditPlaybook, CommitToRepository

(***************************************************************************)
(* Type correctness.                                                       *)
(***************************************************************************)
\* Updates write statuses, counters and decisions of the right kind.
LEMMA StateTypesStep ==
  ASSUME TypeOK, CursorOK, Next PROVE StateTypes'
<1> USE DEF TypeOK, StateTypes, RunStatus, StepStatus, StageStatus
<1>1. CASE Reading \/ Throwing
  BY <1>1, ReadingReads DEF stateVars
<1>2. CASE Initialize
  BY <1>2 DEF Initialize, InitializeWith, EngineTypes, Decision
<1>3. CASE ResumeRun \/ MarkTainted \/ MarkStale \/ CompleteRun
  BY <1>3 DEF ResumeRun, MarkTainted, MarkStale, CompleteRun, SetsRunStatus
<1>4. CASE OpenStage \/ CloseStage
  BY <1>4 DEF OpenStage, CloseStage
<1>5. CASE MarkStageInapplicable
  BY <1>5 DEF MarkStageInapplicable, Inapplicable, PendingStepsBecome
<1>6. CASE MarkStepInapplicable
  BY <1>6 DEF MarkStepInapplicable, Inapplicable, PendingStepsBecome
<1>7. CASE StartStep
  BY <1>7 DEF StartStep, EngineTypes
<1>8. CASE SucceedStep \/ FailStep \/ AwaitApproval
  BY <1>8 DEF SucceedStep, FailStep, AwaitApproval, AwaitsApproval
<1>9. CASE RecordApproval
  BY <1>9 DEF RecordApproval, Decision
<1>10. CASE ResetState
  BY <1>10 DEF ResetState, ResetsTo
<1>11. CASE InitState \/ StopInitialState
  BY <1>11 DEF InitState, StopInitialState, HistoryTypes
<1>12. QED
  BY <1>1, <1>2, <1>3, <1>4, <1>5, <1>6, <1>7, <1>8, <1>9, <1>10, <1>11, NextIsGrouped
     DEF EngineUpdate, OperatorUpdate

\* The operator's command is one of the commands, and its step one of the playbook's.
LEMMA OperatorTypesStep ==
  ASSUME TypeOK, Next PROVE OperatorTypes'
<1> USE DEF TypeOK, OperatorTypes, OperatorKinds
<1>1. CASE Throwing
  BY <1>1, ThrowingThrows DEF Throws, operatorVars
<1>2. CASE EngineUpdate
  BY <1>2 DEF EngineUpdate, EngineCommit, Initialize, InitializeWith, ResumeRun, MarkTainted,
              MarkStale, CompleteRun, SetsRunStatus, OpenStage, MarkStageInapplicable, CloseStage,
              MarkStepInapplicable, StartStep, SucceedStep, FailStep, AwaitApproval, AwaitsApproval
<1>3. CASE OperatorUpdate
  <2>1. CASE InitState
    BY <2>1 DEF InitState
  <2>2. CASE RecordApproval \/ ResetState \/ StopInitialState
    <3>1. OperatorBecomes("report")
      BY <2>2 DEF RecordApproval, ResetState, ResetsTo, StopInitialState
    <3>2. QED
      BY <3>1 DEF OperatorBecomes
  <2>3. QED
    BY <1>3, <2>1, <2>2 DEF OperatorUpdate
<1>4. CASE BeginDecision \/ BeginReset \/ BeginInit \/ BeginReport
  BY <1>4, EngineAssumption DEF BeginDecision, BeginReset, BeginInit, BeginReport, OperatorLoads,
                                StateTypes
<1>5. CASE Reconcile \/ OperatorEnds
  <2>1. CASE Reconcile
    <3>1. OperatorBecomes("report") \/ UNCHANGED operatorVars
      BY <2>1 DEF Reconcile
    <3>2. CASE OperatorBecomes("report")
      BY <3>2 DEF OperatorBecomes
    <3>3. CASE UNCHANGED operatorVars
      BY <3>3 DEF operatorVars
    <3>4. QED
      BY <3>1, <3>2, <3>3
  <2>2. CASE OperatorEnds
    BY <2>2 DEF OperatorEnds, OperatorBecomes
  <2>3. QED
    BY <1>5, <2>1, <2>2
<1>6. CASE Reading /\ ~(BeginDecision \/ BeginReset \/ BeginInit \/ BeginReport)
             /\ ~(Reconcile \/ OperatorEnds)
  BY <1>6 DEF Reading, EngineLoad, ExamineStage, LooksAround, ExamineStep, InvokeCapability,
              CapabilityEnds, WriteReport, LogEvent, LogInterrupted, RunCommand, ResumeCommand,
              ResumeWith, TakesRunLock, RecoverRunLock, Crash, EditPlaybook, CommitToRepository, operatorVars
<1>7. QED
  BY <1>1, <1>2, <1>3, <1>4, <1>5, <1>6, NextIsGrouped

\* The journal, the world and the history stay within the playbook.
LEMMA HistoryTypesStep ==
  ASSUME TypeOK, CursorOK, Next PROVE HistoryTypes'
<1> USE DEF TypeOK, HistoryTypes
<1>1. CASE Throwing
  BY <1>1, ThrowingThrows DEF Throws, worldVars, journalVars, historyVars
<1>2. CASE Initialize
  BY <1>2 DEF Initialize, InitializeWith, worldVars
<1>3. CASE EngineUpdate /\ ~Initialize
  BY <1>3 DEF EngineUpdate, EngineCommit, ResumeRun, MarkTainted, MarkStale, CompleteRun,
              SetsRunStatus, OpenStage, MarkStageInapplicable, CloseStage, MarkStepInapplicable,
              StartStep, SucceedStep, FailStep, AwaitApproval, AwaitsApproval, worldVars,
              journalVars, historyVars
<1>4. CASE OperatorUpdate
  BY <1>4 DEF OperatorUpdate, RecordApproval, ResetState, ResetsTo, InitState, StopInitialState,
         OperatorCommit, worldVars, journalVars, historyVars, CursorOK
<1>5. CASE InvokeCapability
  <2>1. at \in Step
    BY <1>5, PlaybookFacts DEF CursorOK, AtStep, InvokeCapability
  <2>2. QED
    BY <1>5, <2>1 DEF InvokeCapability, worldVars, journalVars
<1>6. CASE LogEvent \/ LogInterrupted \/ Crash
  <2>1. pc = "succeed" => at \in Step
    BY PlaybookFacts DEF CursorOK, AtStep
  <2>2. Recorded \subseteq ({"STEP_SUCCEEDED"} \X Step) \cup {<<"RUN_COMPLETED", 0>>}
    BY <2>1 DEF Recorded
  <2>3. QED
    BY <1>6, <2>2 DEF LogEvent, LogInterrupted, Crash, worldVars, journalVars, historyVars
<1>7. CASE EditPlaybook \/ CommitToRepository
  BY <1>7 DEF EditPlaybook, CommitToRepository, journalVars, historyVars
<1>8. CASE Reading /\ ~InvokeCapability /\ ~(LogEvent \/ LogInterrupted \/ Crash)
             /\ ~(EditPlaybook \/ CommitToRepository)
  BY <1>8 DEF Reading, EngineLoad, ExamineStage, LooksAround, ExamineStep, CapabilityEnds,
              WriteReport, Reconcile, RunCommand, ResumeCommand, ResumeWith, TakesRunLock,
              RecoverRunLock, BeginDecision, BeginReset, BeginInit, BeginReport, OperatorLoads,
              OperatorEnds, worldVars, journalVars, historyVars
<1>9. QED
  BY <1>1, <1>2, <1>3, <1>4, <1>5, <1>6, <1>7, <1>8, NextIsGrouped

\* Where the engine continues after an update is a place of the playbook.
LEMMA ContinueTypes ==
  ASSUME EngineTypes, CursorOK, Continue
  PROVE  /\ pc' \in Updates \cup Decides \cup {"idle", "reconcile"}
         /\ phase' \in {"load", "commit"} /\ fresh' \in BOOLEAN
         /\ stg' \in 1..(NStages + 1) /\ at' \in 1..(NSteps + 1)
         /\ pc' \in AtStage \cup AtStep => stg' \in Stage
         /\ pc' \in AtStep => at' \in StepsOf(stg')
<1> USE DEF EngineTypes, CursorOK, AtStage, AtStep, Updates, Decides
<1>1. CASE pc \in {"initialize", "resume"}
  BY <1>1, PlaybookFacts DEF Continue, Goto
<1>2. CASE pc = "stage_open"
  BY <1>2, PlaybookFacts DEF Continue, Goto
<1>3. CASE \/ pc = "stage_close"
           \/ pc = "stage_inapp" /\ StagePolicy[stg] # "MARK_BLOCKED"
           \/ pc = "step_inapp" /\ StepPolicy[at] = "STOP_STAGE"
  <2>1. stg \in Stage /\ NextStage /\ at' = at
    BY <1>3 DEF Continue
  <2>2. QED
    BY <2>1, PlaybookFacts DEF NextStage, Goto
<1>4. CASE \/ pc = "succeed"
           \/ pc = "step_inapp" /\ StepPolicy[at] \in {"NONE", "SKIP"}
  <2>1. stg \in Stage /\ at \in Step /\ NextStep /\ stg' = stg
    BY <1>4, PlaybookFacts DEF Continue
  <2>2. QED
    BY <2>1, PlaybookFacts DEF NextStep, Goto
<1>5. CASE pc = "step_start"
  BY <1>5 DEF Continue, Goto
<1>6. CASE \/ pc \in {"fail", "await", "taint", "stale", "complete", "stage_fail"}
           \/ pc = "stage_inapp" /\ StagePolicy[stg] = "MARK_BLOCKED"
           \/ pc = "step_inapp" /\ StepPolicy[at] = "MARK_BLOCKED"
  BY <1>6 DEF Continue, ToReconcile
<1>7. QED
  BY <1>1, <1>2, <1>3, <1>4, <1>5, <1>6 DEF Continue

\* The engine's cursors and what it remembers stay within the playbook.
LEMMA EngineTypesStep ==
  ASSUME TypeOK, CursorOK, Next
  PROVE  /\ EngineTypes'
         /\ pc' \in AtStage \cup AtStep => stg' \in Stage
         /\ pc' \in AtStep => at' \in StepsOf(stg')
<1> USE DEF TypeOK, EngineTypes, CursorOK, AtStage, AtStep, Updates, Decides
<1>1. CASE Throwing
  BY <1>1, ThrowingThrows, PlaybookFacts DEF Throws, EngineEnds, EngineIdle
<1>2. CASE Crash \/ LogInterrupted
  <2>1. EngineIdle /\ runLock' \in {"free", "stale"}
    BY <1>2 DEF Crash, LogInterrupted, EngineEnds
  <2>2. QED
    BY <2>1, PlaybookFacts DEF EngineIdle
<1>3. CASE Reconcile
  BY <1>3, PlaybookFacts DEF Reconcile, EngineEnds, EngineIdle
<1>4. CASE Initialize
  BY <1>4 DEF Initialize, InitializeWith, cursorVars
<1>5. CASE ResumeRun \/ MarkTainted \/ MarkStale \/ CompleteRun
  BY <1>5 DEF ResumeRun, MarkTainted, MarkStale, CompleteRun, SetsRunStatus, EngineCommit, cursorVars
<1>6. CASE OpenStage
  BY <1>6 DEF OpenStage, EngineCommit, cursorVars
<1>7. CASE MarkStageInapplicable
  BY <1>7 DEF MarkStageInapplicable, EngineCommit, cursorVars
<1>8. CASE CloseStage
  BY <1>8 DEF CloseStage, EngineCommit, cursorVars
<1>9. CASE MarkStepInapplicable
  BY <1>9 DEF MarkStepInapplicable, EngineCommit, cursorVars
<1>10. CASE StartStep
  BY <1>10 DEF StartStep, EngineCommit
<1>11. CASE SucceedStep
  BY <1>11 DEF SucceedStep, EngineCommit, cursorVars
<1>12. CASE FailStep
  BY <1>12 DEF FailStep, EngineCommit, cursorVars
<1>13. CASE AwaitApproval
  BY <1>13 DEF AwaitApproval, AwaitsApproval, EngineCommit, cursorVars
<1>14. CASE OperatorUpdate
  BY <1>14 DEF OperatorUpdate, RecordApproval, ResetState, ResetsTo, InitState, StopInitialState,
               OperatorCommit, cursorVars
<1>15. CASE EngineLoad
  BY <1>15 DEF EngineLoad, cursorVars
<1>16. CASE ExamineStage
  BY <1>16, PlaybookFacts DEF ExamineStage, NextStage, Goto, LooksAround
<1>17. CASE ExamineStep
  <2>1. stg \in Stage /\ stg' = stg /\ seen' = seen /\ LooksAround
    BY <1>17 DEF ExamineStep
  <2>2. /\ at \in 1..(NSteps + 1) /\ att \in Nat
        /\ at \in StepsOf(stg) => at + 1 \in 1..(NSteps + 1) /\ attempts[at] \in Nat
    BY <2>1, PlaybookFacts DEF StateTypes
  <2>3. /\ pc' \in {"stage_close", "step", "taint", "step_start", "step_inapp"}
        /\ pc' \in {"step_start", "step_inapp"} => at' = at /\ at \in StepsOf(stg)
        /\ at' \in 1..(NSteps + 1) /\ att' \in Nat /\ phase' = "load" /\ fresh' = FALSE
    BY <1>17, <2>2 DEF ExamineStep, NextStep, Goto, ReadyStep
  <2>4. QED
    BY <2>1, <2>3 DEF LooksAround
<1>18. CASE InvokeCapability
  BY <1>18 DEF InvokeCapability, cursorVars
<1>19. CASE CapabilityEnds
  BY <1>19 DEF CapabilityEnds, cursorVars
<1>20. CASE WriteReport
  BY <1>20, ContinueTypes DEF WriteReport
<1>21. CASE LogEvent
  BY <1>21, ContinueTypes DEF LogEvent
<1>22. CASE RunCommand
  BY <1>22 DEF RunCommand, TakesRunLock, Goto, HistoryTypes
<1>23. CASE ResumeCommand
  BY <1>23 DEF ResumeCommand, ResumeWith, TakesRunLock, StartsFresh, OnlyReconciles, RunsAgain, Goto,
               HistoryTypes
<1>24. CASE RecoverRunLock
  BY <1>24 DEF RecoverRunLock, engineVars, cursorVars
<1>25. CASE BeginDecision \/ BeginReset \/ BeginInit \/ BeginReport \/ OperatorEnds
  BY <1>25 DEF BeginDecision, BeginReset, BeginInit, BeginReport, OperatorLoads, OperatorEnds,
               engineVars, cursorVars
<1>26. CASE EditPlaybook \/ CommitToRepository
  BY <1>26 DEF EditPlaybook, CommitToRepository, engineVars, cursorVars
<1>27. QED
  BY <1>1, <1>2, <1>3, <1>4, <1>5, <1>6, <1>7, <1>8, <1>9, <1>10, <1>11, <1>12, <1>13, <1>14, <1>15,
     <1>16, <1>17, <1>18, <1>19, <1>20, <1>21, <1>22, <1>23, <1>24, <1>25, <1>26, NextIsGrouped
     DEF EngineUpdate, Reading

\* A decision is about a step of the playbook: the operator names one when he loads the state.
LEMMA CursorStep ==
  ASSUME TypeOK, CursorOK, Next PROVE CursorOK'
<1>1. op' \in {"approve", "reject"} => opStep' \in Step
  <2>1. CASE Throwing \/ Reconcile
    BY <2>1, ThrowingThrows DEF Throws, Reconcile, OperatorBecomes, operatorVars, CursorOK
  <2>2. CASE EngineUpdate
    BY <2>2 DEF EngineUpdate, EngineCommit, Initialize, InitializeWith, ResumeRun, MarkTainted,
                MarkStale, CompleteRun, SetsRunStatus, OpenStage, MarkStageInapplicable, CloseStage,
                MarkStepInapplicable, StartStep, SucceedStep, FailStep, AwaitApproval,
                AwaitsApproval, CursorOK
  <2>3. CASE OperatorUpdate \/ OperatorEnds
    BY <2>3 DEF OperatorUpdate, RecordApproval, ResetState, ResetsTo, InitState, StopInitialState,
                OperatorEnds, OperatorBecomes
  <2>4. CASE BeginDecision \/ BeginReset \/ BeginInit \/ BeginReport
    BY <2>4, EngineAssumption DEF BeginDecision, BeginReset, BeginInit, BeginReport, OperatorLoads
  <2>5. CASE Reading /\ ~(BeginDecision \/ BeginReset \/ BeginInit \/ BeginReport)
               /\ ~(Reconcile \/ OperatorEnds)
    BY <2>5 DEF Reading, EngineLoad, ExamineStage, LooksAround, ExamineStep, InvokeCapability,
                CapabilityEnds, WriteReport, LogEvent, LogInterrupted, RunCommand, ResumeCommand,
                ResumeWith, TakesRunLock, RecoverRunLock, Crash, EditPlaybook, CommitToRepository, operatorVars,
                CursorOK
  <2>6. QED
    BY <2>1, <2>2, <2>3, <2>4, <2>5, NextIsGrouped
<1>2. QED
  BY <1>1, EngineTypesStep DEF CursorOK

\* Type correctness holds for every playbook.  That the cursors never leave it, the part that
\* could fail, needs CursorOK: after stage_open the first step of an existing stage is next.
THEOREM TypeCorrect == Spec => [](TypeOK /\ CursorOK)
<1>1. Init => TypeOK /\ CursorOK
  <2> SUFFICES ASSUME Init PROVE TypeOK /\ CursorOK
    OBVIOUS
  <2>1. StateTypes
    BY DEF Init, StateTypes, RunStatus, StepStatus, StageStatus, Decision
  <2>2. EngineTypes
    BY PlaybookFacts DEF Init, EngineTypes
  <2>3. OperatorTypes /\ HistoryTypes
    BY DEF Init, OperatorTypes, OperatorKinds, HistoryTypes
  <2>4. CursorOK
    BY DEF Init, CursorOK, AtStage, AtStep
  <2>5. QED
    BY <2>1, <2>2, <2>3, <2>4 DEF TypeOK
<1>2. TypeOK /\ CursorOK /\ [Next]_vars => (TypeOK /\ CursorOK)'
  <2>1. ASSUME TypeOK, CursorOK, Next PROVE (TypeOK /\ CursorOK)'
    BY <2>1, StateTypesStep, EngineTypesStep, OperatorTypesStep, HistoryTypesStep, CursorStep
       DEF TypeOK
  <2>2. ASSUME TypeOK, CursorOK, UNCHANGED vars PROVE (TypeOK /\ CursorOK)'
    BY <2>2 DEF vars, stateVars, worldVars, engineVars, cursorVars, operatorVars, journalVars,
                historyVars, TypeOK, StateTypes, EngineTypes, OperatorTypes, HistoryTypes, CursorOK
  <2>3. QED
    BY <2>1, <2>2
<1>3. QED
  BY <1>1, <1>2, PTL DEF Spec

(***************************************************************************)
(* Approvals.  AuthorizedWork is not inductive: InvokeCapability relies on *)
(* a decision the engine read two commits earlier, which in turn came from *)
(* a command that loaded the state before it committed.                    *)
(***************************************************************************)
\* Exceptions and reads leave the decisions alone.
LEMMA GrantsReading ==
  ASSUME TypeOK, CursorOK, GrantsOK, Reading \/ Throwing PROVE GrantsOK'
<1> USE DEF GrantsOK, AuthorizedWork
<1>1. CASE Throwing
  BY <1>1, ThrowingThrows DEF Throws, EngineEnds, EngineIdle, stateVars, operatorVars, historyVars
<1>2. CASE Crash \/ LogInterrupted
  BY <1>2 DEF Crash, LogInterrupted, EngineEnds, EngineIdle, stateVars, operatorVars, historyVars
<1>3. CASE Reconcile
  BY <1>3 DEF Reconcile, OperatorBecomes, EngineEnds, EngineIdle, stateVars, operatorVars, historyVars
<1>4. CASE EngineLoad
  BY <1>4 DEF EngineLoad, Updates, stateVars, cursorVars, operatorVars, historyVars
<1>5. CASE ExamineStage
  BY <1>5 DEF ExamineStage, NextStage, Goto, LooksAround, stateVars, operatorVars, historyVars
<1>6. CASE ExamineStep
  BY <1>6 DEF ExamineStep, NextStep, Goto, LooksAround, stateVars, operatorVars, historyVars
<1>7. CASE InvokeCapability
  <2>1. at \in Gated => at \in granted \/ worked' = worked
    BY <1>7 DEF InvokeCapability, MayWork
  <2>2. worked' \cap Gated \subseteq granted
    BY <1>7, <2>1 DEF InvokeCapability
  <2>3. QED
    BY <1>7, <2>2 DEF InvokeCapability, stateVars, operatorVars
<1>8. CASE CapabilityEnds
  BY <1>8 DEF CapabilityEnds, stateVars, cursorVars, operatorVars, historyVars
<1>9. CASE WriteReport \/ LogEvent
  <2>1. seen' = seen /\ UNCHANGED <<stateVars, operatorVars, historyVars>>
    BY <1>9 DEF WriteReport, LogEvent
  <2>2. \/ phase' \in {"report", "log"} /\ UNCHANGED <<pc, at>> /\ phase \in {"report", "log"}
        \/ Continue /\ phase \in {"report", "log"}
    BY <1>9 DEF WriteReport, LogEvent
  <2>3. CASE Continue
    <3>1. /\ pc' # "step_start"
          /\ pc' = "work" => pc = "step_start" /\ at' = at /\ (at \in Gated \ Fixer => seen)
      BY <2>3 DEF Continue, Goto, NextStage, NextStep, ToReconcile
    <3>2. QED
      BY <2>1, <2>2, <2>3, <3>1 DEF stateVars, operatorVars, historyVars
  <2>4. QED
    BY <2>1, <2>2, <2>3 DEF stateVars, operatorVars, historyVars
<1>10. CASE RunCommand
  BY <1>10 DEF RunCommand, TakesRunLock, Goto, stateVars, operatorVars, historyVars
<1>11. CASE ResumeCommand
  BY <1>11 DEF ResumeCommand, ResumeWith, TakesRunLock, StartsFresh, OnlyReconciles, RunsAgain, Goto,
               stateVars, operatorVars, historyVars
<1>12. CASE BeginDecision \/ BeginReset \/ BeginInit \/ BeginReport
  BY <1>12 DEF BeginDecision, BeginReset, BeginInit, BeginReport, OperatorLoads, stateVars,
               engineVars, cursorVars, historyVars
<1>13. CASE OperatorEnds
  BY <1>13 DEF OperatorEnds, OperatorBecomes, stateVars, engineVars, cursorVars, historyVars
<1>14. CASE RecoverRunLock \/ EditPlaybook \/ CommitToRepository
  BY <1>14 DEF RecoverRunLock, EditPlaybook, CommitToRepository, stateVars, engineVars, cursorVars,
               operatorVars, historyVars
<1>15. QED
  BY <1>1, <1>2, <1>3, <1>4, <1>5, <1>6, <1>7, <1>8, <1>9, <1>10, <1>11, <1>12, <1>13, <1>14
     DEF Reading

\* The engine's updates: only startRun touches decisions, and it forgets them all; startStep
\* reads one.
LEMMA GrantsEngineUpdate ==
  ASSUME TypeOK, CursorOK, GrantsOK, EngineUpdate PROVE GrantsOK'
<1> USE DEF GrantsOK, AuthorizedWork
<1>1. CASE Initialize
  BY <1>1 DEF Initialize, InitializeWith
<1>2. CASE StartStep
  <2>1. at \in Step
    BY <1>2, PlaybookFacts DEF CursorOK, AtStep, StartStep
  <2>2. QED
    BY <1>2, <2>1 DEF StartStep, EngineCommit, historyVars
<1>3. CASE ResumeRun \/ MarkTainted \/ MarkStale \/ CompleteRun
  BY <1>3 DEF ResumeRun, MarkTainted, MarkStale, CompleteRun, SetsRunStatus, EngineCommit, cursorVars,
              historyVars
<1>4. CASE OpenStage \/ MarkStageInapplicable \/ CloseStage
  BY <1>4 DEF OpenStage, MarkStageInapplicable, CloseStage, EngineCommit, cursorVars, historyVars
<1>5. CASE MarkStepInapplicable \/ SucceedStep \/ FailStep \/ AwaitApproval
  BY <1>5 DEF MarkStepInapplicable, SucceedStep, FailStep, AwaitApproval, AwaitsApproval,
              EngineCommit, cursorVars, historyVars
<1>6. QED
  BY <1>1, <1>2, <1>3, <1>4, <1>5 DEF EngineUpdate

\* The operator's updates: the compare-and-swap makes an approval one of the current run.
LEMMA GrantsOperatorUpdate ==
  ASSUME TypeOK, CursorOK, GrantsOK, OperatorUpdate PROVE GrantsOK'
<1> USE DEF GrantsOK, AuthorizedWork
<1>1. CASE RecordApproval
  <2>1. opRun = runId /\ opStep \in Step
    BY <1>1 DEF RecordApproval, OperatorCommit, CursorOK
  <2>2. \A s \in Step : approval'[s] = "APPROVED" => s \in granted'
    BY <1>1, <2>1 DEF RecordApproval, TypeOK, StateTypes
  <2>3. granted \subseteq granted' /\ worked' = worked
    BY <1>1 DEF RecordApproval
  <2>4. UNCHANGED <<pc, phase, seen, at>> /\ op' = "report"
    BY <1>1 DEF RecordApproval, OperatorCommit, OperatorBecomes, cursorVars
  <2>5. QED
    BY <2>2, <2>3, <2>4
<1>2. CASE ResetState
  BY <1>2 DEF ResetState, ResetsTo, OperatorCommit, OperatorBecomes, cursorVars
<1>3. CASE InitState \/ StopInitialState
  BY <1>3 DEF InitState, StopInitialState, OperatorCommit, OperatorBecomes, cursorVars, historyVars
<1>4. QED
  BY <1>1, <1>2, <1>3 DEF OperatorUpdate

\* In every run, whatever is approved, rejected, reset or killed and in whatever order, the
\* capability of a gated step runs only if the operator approved the step in that run.
THEOREM Authorization == Spec => []AuthorizedWork
<1>1. Init => GrantsOK
  BY DEF Init, GrantsOK, AuthorizedWork
<1>2. TypeOK /\ CursorOK /\ GrantsOK /\ [Next]_vars => GrantsOK'
  <2>1. ASSUME TypeOK, CursorOK, GrantsOK, Next PROVE GrantsOK'
    BY <2>1, NextIsGrouped, GrantsReading, GrantsEngineUpdate, GrantsOperatorUpdate
  <2>2. ASSUME GrantsOK, UNCHANGED vars PROVE GrantsOK'
    BY <2>2 DEF vars, stateVars, engineVars, cursorVars, operatorVars, historyVars, GrantsOK,
                AuthorizedWork
  <2>3. QED
    BY <2>1, <2>2
<1>3. GrantsOK => AuthorizedWork
  BY DEF GrantsOK
<1>4. QED
  BY <1>1, <1>2, <1>3, TypeCorrect, PTL DEF Spec

(***************************************************************************)
(* Where the engine is.  Who may be there with the engine, what is still   *)
(* unwritten before the run's first update, and which playbook the digest  *)
(* in the state belongs to at every place of execute that follows it.      *)
(***************************************************************************)
Within == {"step", "step_inapp", "step_start", "work", "working", "succeed", "fail", "await"}
InRun  == Within \cup {"stage", "stage_inapp", "stage_open", "stage_close", "stage_fail", "complete"}

Committed == phase \in {"report", "log"}

\* Who is there: the engine with its lock, or the operator's first commands.
Alone ==
  /\ runLock = "held" <=> pc # "idle"
  /\ op = "init" /\ opFresh => runId = 0
  /\ op = "init_stop" /\ opFresh => status = "RUNNING" /\ pc \notin InRun /\ ~Committed
  /\ runId = 0 => /\ pc \in {"idle", "initialize"} /\ ~Committed
                  /\ status = "STOPPED" /\ logged = {}
  /\ pc \in {"idle", "stage", "step", "work", "working"} => phase = "load"
  /\ pc = "stage_fail" => Committed

\* The state's digest is that of the playbook in memory from the first commit on.
Pinned ==
  pc \in InRun \/ pc = "resume" \/ (pc = "initialize" /\ Committed) => digest = loaded /\ runId > 0

\* The engine stops, orderly or not.
Stopping == Throwing \/ Crash \/ LogInterrupted \/ Reconcile

\* The engine reads, decides or continues.
Moving ==
  \/ EngineLoad \/ ExamineStage \/ ExamineStep \/ InvokeCapability \/ CapabilityEnds
  \/ WriteReport \/ LogEvent

\* A command of the engine begins.
Starting == RunCommand \/ ResumeCommand

\* The engine has nothing to do with it.
Elsewhere ==
  \/ RecoverRunLock \/ BeginDecision \/ BeginReset \/ BeginInit \/ BeginReport \/ OperatorEnds
  \/ EditPlaybook \/ CommitToRepository

\* The six groups are all there is.
LEMMA NextIsGroupedFinely ==
  ASSUME Next PROVE Stopping \/ Moving \/ Starting \/ Elsewhere \/ EngineUpdate \/ OperatorUpdate
BY NextIsGrouped DEF Stopping, Moving, Starting, Elsewhere, Reading

\* Whoever stops leaves the state as it is, forgets where it was, and may have logged its event.
LEMMA StoppingStops ==
  ASSUME Stopping
  PROVE  /\ pc' = "idle" /\ phase' = "load" /\ runLock' \in {"free", "stale"}
         /\ UNCHANGED <<stateVars, historyVars>>
         /\ logged' = logged \/ (phase = "log" /\ logged' = logged \cup Recorded)
         /\ UNCHANGED operatorVars \/ (op' = "report" /\ opFresh' = FALSE)
         /\ pc # "idle" \/ UNCHANGED logged
<1>1. CASE Throwing
  <2>1. Throws
    BY <1>1, ThrowingThrows
  <2>2. QED
    BY <2>1 DEF Throws, EngineEnds, EngineIdle, journalVars
<1>2. CASE Crash
  BY <1>2 DEF Crash, EngineIdle, journalVars
<1>3. CASE LogInterrupted
  <2>1. pc = "idle" => Recorded = {}
    BY DEF Recorded
  <2>2. QED
    BY <1>3, <2>1 DEF LogInterrupted, EngineEnds, EngineIdle
<1>4. CASE Reconcile
  BY <1>4 DEF Reconcile, EngineEnds, EngineIdle, OperatorBecomes, journalVars
<1>5. QED
  BY <1>1, <1>2, <1>3, <1>4 DEF Stopping

\* An update of the engine is between its load and its report.
LEMMA EngineUpdates ==
  ASSUME EngineUpdate
  PROVE  /\ phase = "commit" /\ phase' \in {"report", "log"} /\ opFresh' = FALSE
         /\ UNCHANGED <<runLock, op, loaded, stg, at>>
         /\ pc \in InRun \cup {"initialize", "resume", "taint", "stale"} /\ pc' \in {pc, "stage_fail"}
         /\ pc' # pc => pc = "stage_close"
         /\ logged' = logged \/ (pc = "initialize" /\ logged' = {})
         /\ pc = "initialize" => Initialize
         /\ pc # "initialize" => UNCHANGED <<runId, digest, logged>>
<1> USE DEF InRun, Within, EngineCommit, cursorVars, journalVars
<1>1. CASE Initialize
  BY <1>1 DEF Initialize, InitializeWith
<1>2. CASE ResumeRun \/ MarkTainted \/ MarkStale \/ CompleteRun
  BY <1>2 DEF ResumeRun, MarkTainted, MarkStale, CompleteRun, SetsRunStatus
<1>3. CASE OpenStage \/ MarkStageInapplicable \/ CloseStage
  BY <1>3 DEF OpenStage, MarkStageInapplicable, CloseStage
<1>4. CASE MarkStepInapplicable \/ StartStep
  BY <1>4 DEF MarkStepInapplicable, StartStep
<1>5. CASE SucceedStep \/ FailStep \/ AwaitApproval
  BY <1>5 DEF SucceedStep, FailStep, AwaitApproval, AwaitsApproval
<1>6. QED
  BY <1>1, <1>2, <1>3, <1>4, <1>5 DEF EngineUpdate

\* The engine moves on without touching anything of the others.
LEMMA MovingMoves ==
  ASSUME Moving, Alone
  PROVE  /\ UNCHANGED <<stateVars, operatorVars, runLock, loaded>>
         /\ pc # "idle" /\ pc' # "idle"
         /\ pc \notin InRun /\ ~Committed => pc' = pc /\ ~Committed' /\ UNCHANGED logged
         /\ pc' \in InRun => pc \in InRun \/ (pc \in {"initialize", "resume"} /\ Committed)
         /\ pc' \in {"initialize", "resume"} => pc' = pc /\ (Committed' => Committed)
         /\ pc' \in {"stage", "step", "work", "working"} => phase' = "load"
         /\ pc' = "stage_fail" => Committed'
         /\ logged' = logged \/ Committed
<1> USE DEF Alone, InRun, Within, Committed, Goto
<1>1. CASE EngineLoad
  BY <1>1 DEF EngineLoad, Updates, cursorVars, journalVars
<1>2. CASE ExamineStage \/ ExamineStep
  BY <1>2 DEF ExamineStage, ExamineStep, NextStage, NextStep, LooksAround, journalVars
<1>3. CASE InvokeCapability \/ CapabilityEnds
  BY <1>3 DEF InvokeCapability, CapabilityEnds, cursorVars, journalVars
<1>4. CASE WriteReport \/ LogEvent
  <2>1. UNCHANGED <<stateVars, operatorVars, runLock, loaded>> /\ Committed
    BY <1>4 DEF WriteReport, LogEvent
  <2>2. (UNCHANGED pc /\ phase' \in {"report", "log"} /\ (phase' = "log" => pc \notin Silent)) \/ Continue
    BY <1>4 DEF WriteReport, LogEvent
  <2>3. CASE Continue
    BY <2>1, <2>3 DEF Continue, NextStage, NextStep, ToReconcile
  <2>4. QED
    BY <2>1, <2>2, <2>3 DEF Silent
<1>5. QED
  BY <1>1, <1>2, <1>3, <1>4 DEF Moving

\* Nobody comes in between the engine and its lock, nor the first commands of the operator.
LEMMA AloneStep ==
  ASSUME TypeOK, Alone, Next PROVE Alone'
<1> USE DEF Alone, InRun, Within, Committed
<1>1. CASE Stopping
  <2>1. /\ pc' = "idle" /\ phase' = "load" /\ runLock' \in {"free", "stale"}
        /\ UNCHANGED <<runId, status>>
        /\ UNCHANGED <<op, opFresh>> \/ (op' = "report" /\ opFresh' = FALSE)
    BY <1>1, StoppingStops DEF stateVars, operatorVars
  <2>2. runId = 0 => UNCHANGED logged
    BY <1>1, StoppingStops
  <2>3. QED
    BY <2>1, <2>2
<1>2. CASE Moving
  <2>1. UNCHANGED <<runId, status, op, opFresh, runLock>> /\ pc # "idle" /\ pc' # "idle"
    BY <1>2, MovingMoves DEF stateVars, operatorVars
  <2>2. runId = 0 => pc' = "initialize" /\ ~Committed' /\ UNCHANGED logged
    BY <1>2, <2>1, MovingMoves
  <2>3. op = "init_stop" /\ opFresh => pc' \notin InRun /\ ~Committed'
    BY <1>2, <2>1, MovingMoves
  <2>4. /\ pc' \in {"stage", "step", "work", "working"} => phase' = "load"
        /\ pc' = "stage_fail" => Committed'
    BY <1>2, <2>1, MovingMoves
  <2>5. QED
    BY <2>1, <2>2, <2>3, <2>4
<1>3. CASE Starting
  BY <1>3 DEF Starting, RunCommand, ResumeCommand, ResumeWith, TakesRunLock, StartsFresh, OnlyReconciles,
              RunsAgain, Goto, stateVars, operatorVars, journalVars
<1>4. CASE Elsewhere
  <2>1. CASE RecoverRunLock \/ EditPlaybook \/ CommitToRepository
    BY <2>1 DEF RecoverRunLock, EditPlaybook, CommitToRepository, stateVars, engineVars, operatorVars,
                journalVars
  <2>2. CASE OperatorEnds
    BY <2>2 DEF OperatorEnds, OperatorBecomes, stateVars, engineVars, journalVars
  <2>3. CASE BeginDecision \/ BeginReset \/ BeginInit \/ BeginReport
    BY <2>3 DEF BeginDecision, BeginReset, BeginInit, BeginReport, OperatorLoads, stateVars, engineVars,
                journalVars
  <2>4. QED
    BY <1>4, <2>1, <2>2, <2>3 DEF Elsewhere
<1>5. CASE EngineUpdate
  <2>1. CASE Initialize
    BY <2>1 DEF Initialize, InitializeWith, TypeOK, StateTypes
  <2>2. CASE ~Initialize
    BY <1>5, <2>2, EngineUpdates
  <2>3. QED
    BY <2>1, <2>2
<1>6. CASE OperatorUpdate
  <2>1. CASE RecordApproval
    BY <2>1 DEF RecordApproval, OperatorCommit, OperatorBecomes
  <2>2. CASE ResetState
    BY <2>2 DEF ResetState, ResetsTo, OperatorCommit, OperatorBecomes
  <2>3. CASE InitState
    BY <2>3 DEF InitState, OperatorCommit
  <2>4. CASE StopInitialState
    BY <2>4 DEF StopInitialState, OperatorCommit, OperatorBecomes
  <2>5. QED
    BY <1>6, <2>1, <2>2, <2>3, <2>4 DEF OperatorUpdate
<1>7. QED
  BY <1>1, <1>2, <1>3, <1>4, <1>5, <1>6, NextIsGroupedFinely

\* The digest of a run is written once, and what is in memory stays while a command runs.
LEMMA PinnedStep ==
  ASSUME TypeOK, Alone, Pinned, Next PROVE Pinned'
<1> USE DEF Pinned, InRun, Within, Committed
<1>1. CASE Stopping
  BY <1>1, StoppingStops
<1>2. CASE Moving
  BY <1>2, MovingMoves DEF stateVars
<1>3. CASE Starting
  BY <1>3 DEF Starting, RunCommand, ResumeCommand, ResumeWith, TakesRunLock, StartsFresh, OnlyReconciles,
              RunsAgain, Goto, stateVars
<1>4. CASE Elsewhere
  BY <1>4 DEF Elsewhere, RecoverRunLock, EditPlaybook, CommitToRepository, OperatorEnds, BeginDecision,
              BeginReset, BeginInit, BeginReport, OperatorLoads, stateVars, engineVars, cursorVars
<1>5. CASE EngineUpdate
  <2>1. CASE Initialize
    BY <2>1 DEF Initialize, InitializeWith, TypeOK, StateTypes, cursorVars
  <2>2. CASE ~Initialize
    BY <1>5, <2>2, EngineUpdates
  <2>3. QED
    BY <2>1, <2>2
<1>6. CASE OperatorUpdate
  BY <1>6 DEF OperatorUpdate, RecordApproval, ResetState, ResetsTo, InitState, StopInitialState,
              OperatorCommit, cursorVars, Alone
<1>7. QED
  BY <1>1, <1>2, <1>3, <1>4, <1>5, <1>6, NextIsGroupedFinely

\* While a capability runs, the playbook it was read from is the one the run is pinned to, for every
\* playbook and with resets, edits and kills at any moment (execute, continueRun).
THEOREM RunsArePinned == Spec => []PinnedPlaybook
<1>1. Init => Alone /\ Pinned
  BY DEF Init, Alone, Pinned, InRun, Within, Committed
<1>2. TypeOK /\ Alone /\ Pinned /\ [Next]_vars => (Alone /\ Pinned)'
  <2>1. ASSUME TypeOK, Alone, Pinned, Next PROVE (Alone /\ Pinned)'
    BY <2>1, AloneStep, PinnedStep
  <2>2. ASSUME Alone, Pinned, UNCHANGED vars PROVE (Alone /\ Pinned)'
    BY <2>2 DEF vars, stateVars, engineVars, cursorVars, operatorVars, journalVars, Alone, Pinned, Committed
  <2>3. QED
    BY <2>1, <2>2
<1>3. Pinned => PinnedPlaybook
  BY DEF Pinned, PinnedPlaybook, InRun, Within
<1>4. QED
  BY <1>1, <1>2, <1>3, TypeCorrect, PTL DEF Spec

=============================================================================
