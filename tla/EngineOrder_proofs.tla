------------------------- MODULE EngineOrder_proofs -------------------------
(***************************************************************************)
(* The order of work of RuntimeEngine, for every playbook: what the engine *)
(* knows at each place of execute and what the state file says by then.    *)
(* A reset that comes while the engine holds the run lock takes it all     *)
(* away (run engine_reset_race), so the theorems are about Resets that     *)
(* wait for the lock to be free, with crashes, resumes, refused updates,   *)
(* decisions and edits of the playbook at any moment.                      *)
(***************************************************************************)
EXTENDS RuntimeEngine_proofs

AtWork == {"work", "working", "succeed", "fail", "await"}

\* Updates after which the run, the stage or the step is through.
StopsTheRun ==
  \/ pc \in {"fail", "await", "complete"}
  \/ pc = "stage_inapp" /\ StagePolicy[stg] = "MARK_BLOCKED"
  \/ pc = "step_inapp" /\ StepPolicy[at] = "MARK_BLOCKED"

SettlesTheStage ==
  \/ pc = "stage_close"
  \/ pc = "stage_inapp" /\ StagePolicy[stg] # "MARK_BLOCKED"
  \/ pc = "step_inapp" /\ StepPolicy[at] = "STOP_STAGE"

SettlesTheStep ==
  \/ pc = "succeed"
  \/ pc = "step_inapp" /\ StepPolicy[at] \in {"NONE", "SKIP"}

\* No reset has loaded the state while the engine is at it.
Quiet == op = "reset" => pc = "idle" /\ Resets # "never" /\ runId > 0

\* Before the first run nothing is begun.
Blank ==
  runId = 0 \/ (op = "init_stop" /\ opFresh) =>
    (\A s \in Step : stepSt[s] = "PENDING") /\ (\A g \in Stage : stageSt[g] = "PENDING")

\* The run is RUNNING until the update that stops it, and what resume finds is not terminal.
StatusOK ==
  /\ pc \in {"initialize", "resume"} /\ Committed => status = "RUNNING"
  /\ pc \in InRun /\ ~(Committed /\ StopsTheRun) => status = "RUNNING"
  /\ pc \in {"resume", "taint", "stale"} /\ ~Committed => status \notin Terminal
  /\ pc = "complete" /\ Committed => status = "COMPLETED"

\* The stages before the cursor are settled, the one at the cursor is open.
StagesOK ==
  /\ pc \in InRun => \A g \in Stage : g < stg => stageSt[g] \in Closed
  /\ pc = "complete" => stg = NStages + 1
  /\ Committed /\ SettlesTheStage => stageSt[stg] \in Closed
  /\ pc \in {"stage_open", "stage_inapp"} /\ ~Committed => stageSt[stg] \notin Closed
  /\ pc \in Within \cup {"stage_close"} /\ ~Committed => stageSt[stg] = "IN_PROGRESS"
  /\ pc = "stage_open" /\ Committed => stageSt[stg] = "IN_PROGRESS"
  /\ pc \in {"step_start", "succeed"} => stageSt[stg] = "IN_PROGRESS"
  /\ pc = "step_inapp" /\ StepPolicy[at] \in {"NONE", "SKIP"} => stageSt[stg] = "IN_PROGRESS"

\* The steps of the stage before the cursor are settled, and the one at the cursor is what the
\* engine's place says.
StepsOK ==
  /\ pc \in Within => \A s \in Step : First[stg] <= s /\ s < at => stepSt[s] \in Closed
  /\ pc \in {"step_start", "work", "working"} => \A d \in StepNeeds[at] : stepSt[d] \in Closed
  /\ pc \in {"step_inapp", "step_start"} /\ ~Committed => stepSt[at] \notin Closed
  /\ pc = "step_start" /\ ~Committed => att >= 1
  /\ (pc = "step_start" /\ Committed) \/ (pc \in AtWork /\ ~Committed) =>
       stepSt[at] = "IN_PROGRESS" /\ attempts[at] >= 1
  /\ Committed /\ SettlesTheStep => stepSt[at] \in Closed
  /\ Committed /\ pc = "succeed" => stepSt[at] = "SUCCEEDED"

\* What the state calls succeeded was earned.
WorkOK ==
  /\ pc = "working" \/ (pc = "succeed" /\ ~Committed) => at \in worked \cup Fixer
  /\ \A s \in Step : stepSt[s] = "SUCCEEDED" => s \in worked \cup Fixer
  /\ \A g \in Stage : stageSt[g] = "SUCCEEDED" => AllSucceeded(g)
  /\ status = "COMPLETED" => \A g \in Stage : stageSt[g] \in Closed

\* Nothing beyond an open stage, or an open step of an open stage, is settled.
Open(g) == stageSt[g] \notin Closed

Frontier ==
  /\ \A g, h \in Stage : g < h /\ Open(g) =>
       Open(h) /\ \A s \in StepsOf(h) : stepSt[s] \notin Closed
  /\ \A g \in Stage : Open(g) =>
       \A s, t \in StepsOf(g) : s < t /\ stepSt[s] \notin Closed => stepSt[t] \notin Closed

OrderInv ==
  /\ Quiet /\ Blank /\ StatusOK /\ StagesOK /\ StepsOK /\ WorkOK /\ Frontier
  /\ ActiveHasAttempt /\ PausedForAReason /\ LoggedIsTrue

(***************************************************************************)
(* The actions once more, by what the invariant needs to know of them.     *)
(***************************************************************************)
\* What happens elsewhere leaves the engine, its state file and its journal alone.
LEMMA ElsewhereIsElsewhere ==
  ASSUME Elsewhere
  PROVE  UNCHANGED <<stateVars, engineVars, journalVars, historyVars>>
BY DEF Elsewhere, RecoverRunLock, EditPlaybook, CommitToRepository, OperatorEnds, BeginDecision,
       BeginReset, BeginInit, BeginReport, OperatorLoads

\* A command begins at the first stage's door with the state as it was left.
LEMMA StartingStarts ==
  ASSUME Starting, Alone
  PROVE  /\ UNCHANGED <<stateVars, operatorVars, journalVars, historyVars>>
         /\ pc = "idle" /\ pc' \in {"initialize", "resume", "taint", "stale", "reconcile"}
         /\ pc' # "reconcile" => phase' = "load"
         /\ pc' \in {"resume", "taint", "stale"} => status \notin Terminal /\ runId > 0
         /\ Resets = "unlocked" => op # "reset"
BY DEF Starting, RunCommand, ResumeCommand, ResumeWith, TakesRunLock, StartsFresh, OnlyReconciles,
       RunsAgain, Goto, Alone, stateVars

\* After a commit the engine waits for the event to be written, or continues.
LEMMA AfterCommit ==
  ASSUME WriteReport \/ LogEvent
  PROVE  /\ Committed /\ UNCHANGED <<stateVars, operatorVars, att, seen, historyVars>>
         /\ (UNCHANGED <<pc, stg, at>> /\ Committed') \/ Continue
BY DEF WriteReport, LogEvent, Committed

\* Updates within a stage.
StageUpdate ==
  \/ OpenStage \/ MarkStageInapplicable \/ CloseStage \/ MarkStepInapplicable \/ StartStep
  \/ SucceedStep \/ FailStep \/ AwaitApproval

StatusUpdate == ResumeRun \/ MarkTainted \/ MarkStale \/ CompleteRun

LEMMA EngineUpdateIsGrouped ==
  ASSUME EngineUpdate PROVE Initialize \/ StatusUpdate \/ StageUpdate
BY DEF EngineUpdate, StatusUpdate, StageUpdate

\* The disjoint stages: no step belongs to two of them, and their order is that of the steps.
LEMMA StagesAreDisjoint ==
  ASSUME NEW g \in Stage, NEW h \in Stage, NEW s \in StepsOf(g), NEW t \in StepsOf(h)
  PROVE  /\ s \in Nat /\ t \in Nat /\ g \in Nat /\ h \in Nat
         /\ g < h => s < t
         /\ s = t => g = h
<1>1. /\ g \in Nat /\ h \in Nat /\ g \in 1..(NStages + 1) /\ h \in 1..(NStages + 1)
      /\ g + 1 \in 1..(NStages + 1) /\ h + 1 \in 1..(NStages + 1)
  BY PlaybookFacts, EngineAssumption DEF Stage
<1>2. First[g] \in Nat /\ First[h] \in Nat /\ First[g + 1] \in Nat /\ First[h + 1] \in Nat
  BY <1>1, EngineAssumption
<1>3. g < h => First[g + 1] <= First[h]
  BY StagesInOrder
<1>4. h < g => First[h + 1] <= First[g]
  BY StagesInOrder
<1>5. QED
  BY <1>1, <1>2, <1>3, <1>4 DEF StepsOf

(***************************************************************************)
(* Who is there, before the first run and while the engine works.          *)
(***************************************************************************)
\* A reset that waits for the lock to be free does not meet the engine.
LEMMA QuietStep ==
  ASSUME Resets # "anytime", TypeOK, Alone, Quiet, Next PROVE Quiet'
<1> USE DEF Quiet
<1>1. CASE Stopping
  BY <1>1, StoppingStops DEF operatorVars, stateVars
<1>2. CASE Moving
  BY <1>2, MovingMoves DEF operatorVars, stateVars
<1>3. CASE Starting
  BY <1>3, StartingStarts, EngineAssumption DEF operatorVars, stateVars
<1>4. CASE Elsewhere
  <2>1. UNCHANGED <<pc, runId>>
    BY <1>4, ElsewhereIsElsewhere DEF engineVars, stateVars
  <2>2. op' # "reset" \/ op' = op \/ BeginReset
    BY <1>4 DEF Elsewhere, RecoverRunLock, EditPlaybook, CommitToRepository, OperatorEnds, OperatorBecomes,
                BeginDecision, BeginInit, BeginReport, OperatorLoads, operatorVars
  <2>3. BeginReset => pc = "idle" /\ Resets # "never" /\ runId > 0
    BY EngineAssumption DEF BeginReset, ResetAllowed, Alone
  <2>4. QED
    BY <2>1, <2>2, <2>3
<1>5. CASE EngineUpdate
  BY <1>5, EngineUpdates DEF InRun, Within
<1>6. CASE OperatorUpdate
  BY <1>6 DEF OperatorUpdate, RecordApproval, ResetState, ResetsTo, InitState, StopInitialState, OperatorBecomes
<1>7. QED
  BY <1>1, <1>2, <1>3, <1>4, <1>5, <1>6, NextIsGroupedFinely

\* Only a run begins something.
LEMMA BlankStep ==
  ASSUME TypeOK, Alone, Blank, Next PROVE Blank'
<1> USE DEF Blank
<1>1. CASE Stopping \/ Moving \/ Starting
  BY <1>1, StoppingStops, MovingMoves, StartingStarts DEF stateVars, operatorVars
<1>2. CASE Elsewhere
  <2>1. op' # "init_stop" \/ UNCHANGED operatorVars
    BY <1>2 DEF Elsewhere, RecoverRunLock, EditPlaybook, CommitToRepository, OperatorEnds, OperatorBecomes,
                BeginDecision, BeginReset, BeginInit, BeginReport, OperatorLoads
  <2>2. QED
    BY <1>2, <2>1, ElsewhereIsElsewhere DEF stateVars, operatorVars
<1>3. CASE EngineUpdate
  <2>1. CASE Initialize
    BY <2>1 DEF Initialize, InitializeWith
  <2>2. CASE ~Initialize
    BY <1>3, <2>2, EngineUpdates DEF Alone, InRun, Within
  <2>3. QED
    BY <2>1, <2>2
<1>4. CASE OperatorUpdate
  BY <1>4 DEF OperatorUpdate, RecordApproval, ResetState, ResetsTo, InitState, StopInitialState,
              OperatorCommit, OperatorBecomes, Alone
<1>5. QED
  BY <1>1, <1>2, <1>3, <1>4, NextIsGroupedFinely

\* Where an operator's update comes, no capability is between two updates of the engine's, but
\* for the update of a decision, which leaves everything else alone.
LEMMA OperatorUpdates ==
  ASSUME OperatorUpdate, TypeOK, Alone, Quiet
  PROVE  /\ UNCHANGED <<pc, phase, cursorVars>> /\ logged' \in {logged, {}}
         /\ \/ UNCHANGED <<runId, status, stageSt, stepSt, attempts, worked, logged>>
            \/ ResetState /\ pc = "idle" /\ Resets # "never"
            \/ /\ InitState \/ StopInitialState
               /\ pc \notin InRun /\ ~Committed /\ status \notin Terminal
               /\ status' \in {"RUNNING", "STOPPED"} /\ status \in {"RUNNING", "STOPPED"}
               /\ UNCHANGED <<stageSt, stepSt, attempts, worked, logged>>
<1> USE DEF OperatorCommit, cursorVars
<1>1. CASE RecordApproval
  BY <1>1 DEF RecordApproval
<1>2. CASE ResetState
  BY <1>2 DEF ResetState, ResetsTo, Quiet
<1>3. CASE InitState
  BY <1>3 DEF InitState, Alone, InRun, Within, Committed, historyVars, Terminal
<1>4. CASE StopInitialState
  BY <1>4 DEF StopInitialState, Alone, historyVars, Terminal
<1>5. QED
  BY <1>1, <1>2, <1>3, <1>4 DEF OperatorUpdate

(***************************************************************************)
(* The status of the run.                                                  *)
(***************************************************************************)
\* The engine's own moves keep to the status it wrote.
LEMMA StatusMoving ==
  ASSUME TypeOK, Alone, StatusOK, Moving PROVE StatusOK'
<1> USE DEF StatusOK, InRun, Within, Committed, StopsTheRun, Terminal
<1>1. CASE EngineLoad
  BY <1>1 DEF EngineLoad, stateVars, cursorVars
<1>2. CASE ExamineStage
  BY <1>2 DEF ExamineStage, NextStage, Goto, LooksAround, stateVars, Alone
<1>3. CASE ExamineStep
  BY <1>3 DEF ExamineStep, NextStep, Goto, LooksAround, stateVars, Alone
<1>4. CASE InvokeCapability \/ CapabilityEnds
  BY <1>4 DEF InvokeCapability, CapabilityEnds, stateVars, Alone
<1>5. CASE WriteReport \/ LogEvent
  <2>1. status' = status
    BY <1>5, AfterCommit DEF stateVars
  <2>2. CASE UNCHANGED <<pc, stg, at>> /\ Committed'
    BY <1>5, <2>1, <2>2, AfterCommit
  <2>3. CASE Continue
    <3>1. /\ pc' \in {"stage", "step", "await", "work", "reconcile"}
          /\ pc' \in InRun => phase' = "load" /\ status = "RUNNING"
      BY <1>5, <2>3, AfterCommit DEF Continue, Goto, NextStage, NextStep, ToReconcile
    <3>2. QED
      BY <2>1, <3>1
  <2>4. QED
    BY <1>5, <2>2, <2>3, AfterCommit
<1>6. QED
  BY <1>1, <1>2, <1>3, <1>4, <1>5 DEF Moving

\* Updates write the status that their place says.
LEMMA StatusEngineUpdate ==
  ASSUME TypeOK, Alone, StatusOK, EngineUpdate PROVE StatusOK'
<1> USE DEF StatusOK, InRun, Within, Committed, StopsTheRun, EngineCommit, cursorVars
<1>1. CASE Initialize
  BY <1>1 DEF Initialize, InitializeWith
<1>2. CASE StatusUpdate
  BY <1>2 DEF StatusUpdate, ResumeRun, MarkTainted, MarkStale, CompleteRun, SetsRunStatus
<1>3. CASE OpenStage \/ CloseStage
  BY <1>3 DEF OpenStage, CloseStage
<1>4. CASE MarkStageInapplicable \/ MarkStepInapplicable
  BY <1>4 DEF MarkStageInapplicable, MarkStepInapplicable, Inapplicable
<1>5. CASE StartStep \/ SucceedStep
  BY <1>5 DEF StartStep, SucceedStep
<1>6. CASE FailStep \/ AwaitApproval
  BY <1>6 DEF FailStep, AwaitApproval, AwaitsApproval
<1>7. QED
  BY <1>1, <1>2, <1>3, <1>4, <1>5, <1>6, EngineUpdateIsGrouped DEF StageUpdate

LEMMA StatusStep ==
  ASSUME TypeOK, Alone, Quiet, StatusOK, Next PROVE StatusOK'
<1> USE DEF StatusOK, InRun, Within, Committed, StopsTheRun
<1>1. CASE Stopping
  BY <1>1, StoppingStops
<1>2. CASE Moving
  BY <1>2, StatusMoving
<1>3. CASE Starting
  BY <1>3, StartingStarts DEF stateVars
<1>4. CASE Elsewhere
  BY <1>4, ElsewhereIsElsewhere DEF stateVars, engineVars, cursorVars
<1>5. CASE EngineUpdate
  BY <1>5, StatusEngineUpdate
<1>6. CASE OperatorUpdate
  <2>1. UNCHANGED <<pc, phase, stg, at>>
    BY <1>6, OperatorUpdates DEF cursorVars
  <2>2. status' = status \/ (pc \notin InRun /\ ~Committed /\ status' \notin Terminal)
    BY <1>6, OperatorUpdates DEF ResetState, ResetsTo, Terminal, Alone
  <2>3. QED
    BY <2>1, <2>2
<1>7. QED
  BY <1>1, <1>2, <1>3, <1>4, <1>5, <1>6, NextIsGroupedFinely

(***************************************************************************)
(* The stages.                                                             *)
(***************************************************************************)
\* The engine's own moves: a stage is entered when all before it are settled.
LEMMA StagesMoving ==
  ASSUME TypeOK, CursorOK, Alone, StagesOK, Moving PROVE StagesOK'
<1> USE DEF StagesOK, InRun, Within, Committed, SettlesTheStage
<1>1. CASE EngineLoad
  BY <1>1 DEF EngineLoad, stateVars, cursorVars
<1>2. CASE ExamineStage
  <2>1. \A g \in Stage : g \in Int /\ stg \in Int /\ (g < stg + 1 => g < stg \/ g = stg)
    BY EngineAssumption DEF Stage, TypeOK, EngineTypes
  <2>2. /\ stageSt' = stageSt /\ phase' = "load" /\ pc = "stage"
        /\ \/ pc' = "complete" /\ stg' = stg /\ stg = NStages + 1
           \/ pc' = "stage" /\ stg' = stg + 1 /\ stageSt[stg] \in Closed
           \/ pc' \in {"stage_open", "stage_inapp"} /\ stg' = stg /\ stageSt[stg] \notin Closed
    BY <1>2 DEF ExamineStage, NextStage, Goto, LooksAround, stateVars
  <2>3. QED
    BY <2>1, <2>2
<1>3. CASE ExamineStep
  BY <1>3 DEF ExamineStep, NextStep, Goto, LooksAround, stateVars, Alone
<1>4. CASE InvokeCapability \/ CapabilityEnds
  BY <1>4 DEF InvokeCapability, CapabilityEnds, stateVars, cursorVars, Alone
<1>5. CASE WriteReport \/ LogEvent
  <2>1. stageSt' = stageSt /\ Committed
    BY <1>5, AfterCommit DEF stateVars
  <2>2. CASE UNCHANGED <<pc, stg, at>> /\ Committed'
    BY <2>1, <2>2
  <2>3. CASE Continue
    <3>1. CASE pc \in {"initialize", "resume"}
      BY <2>1, <2>3, <3>1 DEF Continue, Goto, Stage
    <3>2. CASE pc \in {"stage_open", "succeed", "step_start"}
               \/ (pc = "step_inapp" /\ StepPolicy[at] \in {"NONE", "SKIP"})
      <4>1. /\ pc' \in {"step", "work", "await"} /\ phase' = "load" /\ stg' = stg
            /\ stageSt[stg] = "IN_PROGRESS"
        BY <2>1, <2>3, <3>2 DEF Continue, Goto, NextStep
      <4>2. QED
        BY <2>1, <3>2, <4>1
    <3>3. CASE SettlesTheStage
      <4>1. \A g \in Stage : g \in Int /\ stg \in Int /\ (g < stg + 1 => g < stg \/ g = stg)
        BY EngineAssumption DEF Stage, TypeOK, EngineTypes
      <4>2. pc' = "stage" /\ stg' = stg + 1 /\ phase' = "load" /\ stageSt[stg] \in Closed
        BY <2>1, <2>3, <3>3 DEF Continue, NextStage, Goto
      <4>3. QED
        BY <2>1, <3>3, <4>1, <4>2
    <3>4. CASE pc' = "reconcile" /\ phase' = "commit"
      BY <3>4
    <3>5. QED
      BY <2>3, <3>1, <3>2, <3>3, <3>4 DEF Continue, ToReconcile
  <2>4. QED
    BY <1>5, <2>2, <2>3, AfterCommit
<1>6. QED
  BY <1>1, <1>2, <1>3, <1>4, <1>5 DEF Moving

\* Updates within a stage change no other stage.
LEMMA StagesStageUpdate ==
  ASSUME TypeOK, CursorOK, StagesOK, StageUpdate PROVE StagesOK'
<1> USE DEF StagesOK, InRun, Within, Committed, SettlesTheStage, EngineCommit, cursorVars
<1>1. stg \in Stage /\ stageSt \in [Stage -> StageStatus] /\ stg \in Int
  BY DEF StageUpdate, OpenStage, MarkStageInapplicable, CloseStage, MarkStepInapplicable, StartStep,
         SucceedStep, FailStep, AwaitApproval, AwaitsApproval, CursorOK, AtStage, AtStep, TypeOK,
         StateTypes, EngineTypes
<1>2. \A g \in Stage : g < stg => g # stg
  BY <1>1 DEF Stage
<1>3. CASE OpenStage
  BY <1>1, <1>2, <1>3 DEF OpenStage
<1>4. CASE MarkStageInapplicable
  BY <1>1, <1>2, <1>4, EngineAssumption DEF MarkStageInapplicable, Inapplicable, Closed, Policies
<1>5. CASE CloseStage
  BY <1>1, <1>2, <1>5 DEF CloseStage, Closed
<1>6. CASE MarkStepInapplicable
  <2>1. StepPolicy[at] \in Policies
    BY <1>6, PlaybookFacts, EngineAssumption DEF MarkStepInapplicable, CursorOK, AtStep
  <2>2. CASE StepPolicy[at] \in {"NONE", "SKIP"}
    BY <1>1, <1>6, <2>2 DEF MarkStepInapplicable, Inapplicable
  <2>3. CASE StepPolicy[at] \in {"STOP_STAGE", "MARK_BLOCKED"}
    BY <1>1, <1>2, <1>6, <2>3 DEF MarkStepInapplicable, Inapplicable, Closed
  <2>4. QED
    BY <2>1, <2>2, <2>3 DEF Policies
<1>7. CASE StartStep \/ SucceedStep \/ AwaitApproval
  BY <1>1, <1>7 DEF StartStep, SucceedStep, AwaitApproval, AwaitsApproval
<1>8. CASE FailStep
  BY <1>1, <1>2, <1>8 DEF FailStep
<1>9. QED
  BY <1>3, <1>4, <1>5, <1>6, <1>7, <1>8 DEF StageUpdate

LEMMA StagesStep ==
  ASSUME TypeOK, CursorOK, Alone, Quiet, StagesOK, Next PROVE StagesOK'
<1> USE DEF StagesOK, InRun, Within, Committed, SettlesTheStage
<1>1. CASE Stopping
  BY <1>1, StoppingStops
<1>2. CASE Moving
  BY <1>2, StagesMoving
<1>3. CASE Starting
  BY <1>3, StartingStarts
<1>4. CASE Elsewhere
  BY <1>4, ElsewhereIsElsewhere DEF stateVars, engineVars, cursorVars
<1>5. CASE EngineUpdate
  <2>1. CASE Initialize
    BY <2>1 DEF Initialize, InitializeWith
  <2>2. CASE StatusUpdate
    BY <2>2 DEF StatusUpdate, ResumeRun, MarkTainted, MarkStale, CompleteRun, SetsRunStatus,
                EngineCommit, cursorVars
  <2>3. QED
    BY <1>5, <2>1, <2>2, StagesStageUpdate, EngineUpdateIsGrouped
<1>6. CASE OperatorUpdate
  <2>1. UNCHANGED <<pc, phase, stg, at>>
    BY <1>6, OperatorUpdates DEF cursorVars
  <2>2. stageSt' = stageSt \/ pc = "idle"
    BY <1>6, OperatorUpdates
  <2>3. pc = "idle" => phase = "load"
    BY DEF Alone
  <2>4. QED
    BY <2>1, <2>2, <2>3
<1>7. QED
  BY <1>1, <1>2, <1>3, <1>4, <1>5, <1>6, NextIsGroupedFinely

(***************************************************************************)
(* The steps.                                                              *)
(***************************************************************************)
\* Integers of the cursors, for the comparisons below.
LEMMA StepOrder ==
  ASSUME TypeOK, CursorOK
  PROVE  /\ \A s \in Step : s \in Int /\ at \in Int /\ (s < at + 1 => s < at \/ s = at)
         /\ pc \in AtStep => at \in Step
BY PlaybookFacts, EngineAssumption DEF NSteps, Step, TypeOK, EngineTypes, CursorOK

\* The engine's own moves: a step is entered when all before it in its stage are settled.
LEMMA StepsMoving ==
  ASSUME TypeOK, CursorOK, Alone, StepsOK, Moving PROVE StepsOK'
<1> USE DEF StepsOK, Within, AtWork, Committed, SettlesTheStep
<1>1. CASE EngineLoad
  BY <1>1 DEF EngineLoad, stateVars, cursorVars
<1>2. CASE ExamineStage
  BY <1>2 DEF ExamineStage, NextStage, Goto, LooksAround
<1>3. CASE ExamineStep
  <2>1. UNCHANGED <<stepSt, attempts, stg>> /\ pc = "step" /\ phase' = "load"
    BY <1>3 DEF ExamineStep, NextStep, Goto, LooksAround, stateVars
  <2>2. CASE at \notin StepsOf(stg) \/ (ReadyStep /\ playbook # loaded)
    BY <1>3, <2>2 DEF ExamineStep, NextStep, Goto, ReadyStep, LooksAround
  <2>3. CASE at \in StepsOf(stg) /\ stepSt[at] \in Closed
    <3>1. pc' = "step" /\ at' = at + 1
      BY <1>3, <2>3 DEF ExamineStep, NextStep, Goto, ReadyStep
    <3>2. QED
      BY <2>1, <2>3, <3>1, StepOrder
  <2>4. CASE ReadyStep /\ playbook = loaded
    <3>1. /\ at' = at /\ pc' \in {"step_start", "step_inapp"} /\ stepSt[at] \notin Closed
          /\ \A d \in StepNeeds[at] : stepSt[d] \in Closed
          /\ pc' = "step_start" => /\ Active(at) => attempts[at] >= 1
                                   /\ att' = IF Active(at) THEN attempts[at] ELSE attempts[at] + 1
      BY <1>3, <2>4 DEF ExamineStep, Goto, ReadyStep
    <3>2. pc' = "step_start" => att' >= 1
      <4>1. stg \in Stage
        BY <2>1 DEF CursorOK, AtStage
      <4>2. at \in StepsOf(stg)
        BY <2>4 DEF ReadyStep
      <4>3. at \in Step
        BY <4>1, <4>2, PlaybookFacts
      <4>4. attempts[at] \in Nat
        BY <4>3 DEF TypeOK, StateTypes
      <4>5. QED
        BY <3>1, <4>4
    <3>3. QED
      BY <2>1, <3>1, <3>2
  <2>5. QED
    BY <2>1, <2>2, <2>3, <2>4 DEF ReadyStep
<1>4. CASE InvokeCapability \/ CapabilityEnds
  BY <1>4 DEF InvokeCapability, CapabilityEnds, stateVars, cursorVars, Alone
<1>5. CASE WriteReport \/ LogEvent
  <2>1. UNCHANGED <<stepSt, attempts, att>> /\ Committed
    BY <1>5, AfterCommit DEF stateVars
  <2>2. CASE UNCHANGED <<pc, stg, at>> /\ Committed'
    BY <2>1, <2>2
  <2>3. CASE Continue
    <3>1. CASE pc = "stage_open"
      <4>1. pc' = "step" /\ at' = First[stg] /\ stg' = stg
        BY <2>3, <3>1 DEF Continue, Goto
      <4>2. First[stg] \in Int /\ \A s \in Step : s \in Int
        BY <3>1, PlaybookFacts, EngineAssumption DEF CursorOK, AtStage, NSteps, Step
      <4>3. QED
        BY <2>1, <4>1, <4>2
    <3>2. CASE SettlesTheStep
      <4>1. pc' = "step" /\ at' = at + 1 /\ stg' = stg /\ phase' = "load" /\ stepSt[at] \in Closed
        BY <2>1, <2>3, <3>2 DEF Continue, NextStep, Goto
      <4>2. \A s \in Step : First[stg] <= s /\ s < at => stepSt[s] \in Closed
        BY <3>2
      <4>3. QED
        BY <2>1, <4>1, <4>2, StepOrder
    <3>3. CASE pc = "step_start"
      <4>1. pc' \in {"work", "await"} /\ UNCHANGED <<stg, at>> /\ phase' = "load"
        BY <2>3, <3>3 DEF Continue, Goto
      <4>2. QED
        BY <2>1, <3>3, <4>1
    <3>4. CASE pc' \in {"stage", "reconcile"}
      BY <3>4
    <3>5. QED
      BY <2>3, <3>1, <3>2, <3>3, <3>4 DEF Continue, NextStage, Goto, ToReconcile
  <2>4. QED
    BY <1>5, <2>2, <2>3, AfterCommit
<1>6. QED
  BY <1>1, <1>2, <1>3, <1>4, <1>5 DEF Moving

\* Updates within a stage: what is settled stays, the step at the cursor becomes what it says.
LEMMA StepsStageUpdate ==
  ASSUME TypeOK, CursorOK, StepsOK, StageUpdate PROVE StepsOK'
<1> USE DEF StepsOK, Within, AtWork, Committed, SettlesTheStep, EngineCommit, cursorVars
<1>1. CASE OpenStage \/ CloseStage
  BY <1>1 DEF OpenStage, CloseStage
<1>2. CASE MarkStageInapplicable
  BY <1>2 DEF MarkStageInapplicable
<1>3. CASE MarkStepInapplicable \/ StartStep \/ SucceedStep \/ FailStep \/ AwaitApproval
  <2> USE <1>3
  <2>1. at \in Step /\ stepSt \in [Step -> StepStatus] /\ attempts \in [Step -> Nat]
    BY PlaybookFacts DEF MarkStepInapplicable, StartStep, SucceedStep, FailStep, AwaitApproval, AwaitsApproval,
         CursorOK, AtStep, TypeOK, StateTypes
  <2>2. \A s \in Step : s < at => s # at
    BY StepOrder
  <2>3. CASE MarkStepInapplicable
    <3>1. /\ pc = "step_inapp" /\ UNCHANGED <<pc, stg, at>> /\ phase' = "report" /\ phase = "commit"
          /\ \A s \in Step : s # at /\ stepSt[s] \in Closed => stepSt'[s] \in Closed
          /\ StepPolicy[at] \in {"NONE", "SKIP"} => stepSt'[at] \in Closed
      BY <2>1, <2>3 DEF MarkStepInapplicable, Inapplicable, PendingStepsBecome, Closed
    <3>2. QED
      BY <2>2, <3>1
  <2>4. CASE StartStep
    <3>1. /\ pc = "step_start" /\ UNCHANGED <<pc, stg, at, att>> /\ phase' = "report" /\ phase = "commit"
          /\ \A s \in Step : s # at => stepSt'[s] = stepSt[s]
          /\ stepSt'[at] = "IN_PROGRESS" /\ attempts'[at] = att
      BY <2>1, <2>4 DEF StartStep
    <3>2. \A d \in StepNeeds[at] : d # at /\ d \in Step
      BY <2>1, <3>1, EngineAssumption
    <3>3. QED
      BY <2>2, <3>1, <3>2
  <2>5. CASE SucceedStep
    BY <2>1, <2>2, <2>5 DEF SucceedStep, Closed
  <2>6. CASE FailStep
    BY <2>1, <2>2, <2>6 DEF FailStep
  <2>7. CASE AwaitApproval
    BY <2>1, <2>2, <2>7 DEF AwaitApproval, AwaitsApproval
  <2>8. QED
    BY <2>3, <2>4, <2>5, <2>6, <2>7
<1>4. QED
  BY <1>1, <1>2, <1>3 DEF StageUpdate

LEMMA StepsStep ==
  ASSUME TypeOK, CursorOK, Alone, Quiet, StepsOK, Next PROVE StepsOK'
<1> USE DEF StepsOK, Within, AtWork, Committed, SettlesTheStep
<1>1. CASE Stopping
  BY <1>1, StoppingStops
<1>2. CASE Moving
  BY <1>2, StepsMoving
<1>3. CASE Starting
  BY <1>3, StartingStarts
<1>4. CASE Elsewhere
  BY <1>4, ElsewhereIsElsewhere DEF stateVars, engineVars, cursorVars
<1>5. CASE EngineUpdate
  <2>1. CASE Initialize
    BY <2>1 DEF Initialize, InitializeWith
  <2>2. CASE StatusUpdate
    BY <2>2 DEF StatusUpdate, ResumeRun, MarkTainted, MarkStale, CompleteRun, SetsRunStatus,
                EngineCommit, cursorVars
  <2>3. QED
    BY <1>5, <2>1, <2>2, StepsStageUpdate, EngineUpdateIsGrouped
<1>6. CASE OperatorUpdate
  <2>1. UNCHANGED <<pc, phase, stg, at, att>>
    BY <1>6, OperatorUpdates DEF cursorVars
  <2>2. UNCHANGED <<stepSt, attempts>> \/ pc = "idle"
    BY <1>6, OperatorUpdates
  <2>3. pc = "idle" => phase = "load"
    BY DEF Alone
  <2>4. QED
    BY <2>1, <2>2, <2>3
<1>7. QED
  BY <1>1, <1>2, <1>3, <1>4, <1>5, <1>6, NextIsGroupedFinely

(***************************************************************************)
(* What an update within a stage may do, whichever it is: it is about an   *)
(* open stage all before which are settled, and takes nothing back.        *)
(***************************************************************************)
SettlesStepAt ==
  /\ at \in StepsOf(stg) /\ stepSt[at] \notin Closed /\ stepSt'[at] \in Closed
  /\ \A s \in StepsOf(stg) : s < at => stepSt[s] \in Closed
  /\ \A s \in Step : s # at /\ stepSt[s] \notin Closed => stepSt'[s] \notin Closed

SettlesNothing == \A s \in Step : stepSt[s] \notin Closed => stepSt'[s] \notin Closed

LEMMA StageUpdates ==
  ASSUME TypeOK, CursorOK, StatusOK, StagesOK, StepsOK, StageUpdate
  PROVE  /\ status = "RUNNING" /\ stg \in Stage /\ Open(stg)
         /\ \A g \in Stage : g < stg => ~Open(g)
         /\ \A g \in Stage : g # stg => stageSt'[g] = stageSt[g]
         /\ \A s \in Step : stepSt[s] \in Closed \/ s \notin StepsOf(stg) => stepSt'[s] = stepSt[s]
         /\ stageSt'[stg] \in Closed \/ SettlesStepAt \/ SettlesNothing
         /\ (stageSt'[stg] \in Closed \/ SettlesStepAt) => status' = status
         /\ status' \in {"RUNNING", "BLOCKED", "FAILED", "AWAITING_USER"}
         /\ UNCHANGED <<runId, worked, logged>>
<1> USE DEF EngineCommit, cursorVars, journalVars, historyVars, Open
<1>1. /\ stg \in Stage /\ pc \in InRun /\ ~Committed /\ pc # "complete"
      /\ UNCHANGED <<runId, worked, logged>>
      /\ pc \in {"stage_open", "stage_inapp", "stage_close", "step_inapp", "step_start",
                 "succeed", "fail", "await"}
  BY DEF StageUpdate, OpenStage, MarkStageInapplicable, CloseStage, MarkStepInapplicable, StartStep,
         SucceedStep, FailStep, AwaitApproval, AwaitsApproval, CursorOK, AtStage, AtStep, InRun, Within,
         Committed
<1>2. status = "RUNNING" /\ Open(stg) /\ \A g \in Stage : g < stg => ~Open(g)
  BY <1>1 DEF StatusOK, StagesOK, Within, InRun, Closed
<1>3. pc \in AtStep => /\ at \in StepsOf(stg) /\ at \in Step /\ stepSt[at] \notin Closed
                       /\ \A s \in StepsOf(stg) : s \in Step /\ (s < at => stepSt[s] \in Closed)
  <2> SUFFICES ASSUME pc \in AtStep
               PROVE  /\ at \in StepsOf(stg) /\ at \in Step /\ stepSt[at] \notin Closed
                      /\ \A s \in StepsOf(stg) : s \in Step /\ (s < at => stepSt[s] \in Closed)
    OBVIOUS
  <2>1. at \in StepsOf(stg) /\ \A s \in StepsOf(stg) : s \in Step
    BY <1>1, PlaybookFacts DEF CursorOK
  <2>2. stepSt[at] \notin Closed
    BY <1>1, <2>1 DEF StepsOK, AtStep, AtWork, Closed
  <2>3. \A s \in Step : First[stg] <= s /\ s < at => stepSt[s] \in Closed
    BY <1>1 DEF StepsOK, Within, AtStep
  <2>4. \A s \in StepsOf(stg) : First[stg] <= s
    BY <1>1, PlaybookFacts, EngineAssumption DEF StepsOf, NSteps
  <2>5. QED
    BY <2>1, <2>2, <2>3, <2>4
<1>4. stageSt \in [Stage -> StageStatus] /\ stepSt \in [Step -> StepStatus]
  BY DEF TypeOK, StateTypes
<1>5. CASE OpenStage \/ CloseStage
  BY <1>1, <1>2, <1>4, <1>5 DEF OpenStage, CloseStage, SettlesNothing, Closed
<1>6. CASE MarkStageInapplicable
  <2>1. /\ \A g \in Stage : g # stg => stageSt'[g] = stageSt[g]
        /\ \A s \in Step : stepSt[s] \in Closed \/ s \notin StepsOf(stg) => stepSt'[s] = stepSt[s]
    BY <1>4, <1>6 DEF MarkStageInapplicable, PendingStepsBecome, Closed
  <2>2. CASE StagePolicy[stg] = "MARK_BLOCKED"
    <3>1. /\ stageSt' = [stageSt EXCEPT ![stg] = "BLOCKED"] /\ stepSt' = PendingStepsBecome("BLOCKED")
          /\ status' = "BLOCKED"
      BY <1>6, <2>2 DEF MarkStageInapplicable, Inapplicable
    <3>2. SettlesNothing /\ ~SettlesStepAt
      BY <1>4, <3>1, PlaybookFacts, <1>1 DEF PendingStepsBecome, SettlesNothing, SettlesStepAt, Closed
    <3>3. stageSt'[stg] \notin Closed
      BY <1>1, <1>4, <3>1 DEF Closed
    <3>4. QED
      BY <1>1, <1>2, <2>1, <3>1, <3>2, <3>3
  <2>3. CASE StagePolicy[stg] # "MARK_BLOCKED"
    BY <1>1, <1>2, <1>4, <1>6, <2>1, <2>3 DEF MarkStageInapplicable, Inapplicable, Closed
  <2>4. QED
    BY <2>2, <2>3
<1>7. CASE MarkStepInapplicable
  <2>1. pc = "step_inapp" /\ StepPolicy[at] \in Policies
    BY <1>3, <1>7, EngineAssumption DEF MarkStepInapplicable, AtStep
  <2>2. /\ \A g \in Stage : g # stg => stageSt'[g] = stageSt[g]
        /\ \A s \in Step : stepSt[s] \in Closed \/ s \notin StepsOf(stg) => stepSt'[s] = stepSt[s]
    BY <1>3, <1>4, <1>7, <2>1 DEF MarkStepInapplicable, PendingStepsBecome, Closed, AtStep
  <2>3. CASE StepPolicy[at] = "MARK_BLOCKED"
    BY <1>1, <1>2, <1>3, <1>4, <1>7, <2>1, <2>2, <2>3 DEF MarkStepInapplicable, Inapplicable,
       SettlesNothing, Closed, SettlesStepAt, AtStep
  <2>4. CASE StepPolicy[at] = "STOP_STAGE"
    BY <1>1, <1>2, <1>4, <1>7, <2>1, <2>2, <2>4 DEF MarkStepInapplicable, Inapplicable, Closed
  <2>5. CASE StepPolicy[at] \in {"NONE", "SKIP"}
    <3>1. stepSt' = [stepSt EXCEPT ![at] = "SKIPPED_INAPPLICABLE"] /\ stageSt' = stageSt /\ status' = status
      BY <1>7, <2>5 DEF MarkStepInapplicable, Inapplicable
    <3>2. SettlesStepAt
      BY <1>3, <1>4, <2>1, <3>1 DEF SettlesStepAt, AtStep, Closed
    <3>3. QED
      BY <1>1, <1>2, <2>2, <3>1, <3>2
  <2>6. QED
    BY <2>1, <2>3, <2>4, <2>5 DEF Policies
<1>8. CASE SucceedStep
  <2>1. stepSt' = [stepSt EXCEPT ![at] = "SUCCEEDED"] /\ UNCHANGED <<stageSt, status>> /\ pc = "succeed"
    BY <1>8 DEF SucceedStep
  <2>2. SettlesStepAt
    BY <1>3, <1>4, <2>1 DEF SettlesStepAt, AtStep, Closed
  <2>3. QED
    BY <1>1, <1>2, <1>3, <1>4, <2>1, <2>2 DEF AtStep
<1>9. CASE StartStep \/ FailStep \/ AwaitApproval
  <2>1. pc \in AtStep /\ \A g \in Stage : g # stg => stageSt'[g] = stageSt[g]
    BY <1>4, <1>9 DEF StartStep, FailStep, AwaitApproval, AwaitsApproval, AtStep
  <2>2. \E new \in {"IN_PROGRESS", "BLOCKED", "FAILED", "AWAITING_APPROVAL"} :
          stepSt' = [stepSt EXCEPT ![at] = new]
    BY <1>9 DEF StartStep, FailStep, AwaitApproval, AwaitsApproval
  <2>3. /\ stageSt'[stg] \notin Closed
        /\ status' \in {"RUNNING", "BLOCKED", "FAILED", "AWAITING_USER"}
    BY <1>1, <1>2, <1>4, <1>9 DEF StartStep, FailStep, AwaitApproval, AwaitsApproval, Closed
  <2>4. SettlesNothing /\ ~SettlesStepAt
    BY <1>3, <1>4, <2>1, <2>2 DEF SettlesNothing, SettlesStepAt, Closed
  <2>5. QED
    BY <1>1, <1>2, <1>3, <1>4, <2>1, <2>2, <2>3, <2>4
<1>10. QED
  BY <1>5, <1>6, <1>7, <1>8, <1>9 DEF StageUpdate

(***************************************************************************)
(* What succeeded.                                                         *)
(***************************************************************************)
\* Success is written at two places, of the step at the cursor and of a stage with only such steps.
LEMMA SuccessIsWritten ==
  ASSUME TypeOK, CursorOK, StageUpdate
  PROVE  /\ \A s \in Step : stepSt'[s] = "SUCCEEDED" => stepSt[s] = "SUCCEEDED" \/ (s = at /\ pc = "succeed")
         /\ \A g \in Stage : stageSt'[g] = "SUCCEEDED" =>
              stageSt[g] = "SUCCEEDED" \/ (AllSucceeded(g) /\ stepSt' = stepSt)
         /\ phase = "commit" /\ Committed'
<1> USE DEF EngineCommit, Committed
<1>1. stageSt \in [Stage -> StageStatus] /\ stepSt \in [Step -> StepStatus]
  BY DEF TypeOK, StateTypes
<1>2. CASE OpenStage \/ CloseStage
  BY <1>1, <1>2 DEF OpenStage, CloseStage
<1>3. CASE MarkStageInapplicable
  BY <1>1, <1>3 DEF MarkStageInapplicable, Inapplicable, PendingStepsBecome
<1>4. CASE MarkStepInapplicable
  BY <1>1, <1>4 DEF MarkStepInapplicable, Inapplicable, PendingStepsBecome
<1>5. CASE StartStep \/ SucceedStep
  BY <1>1, <1>5 DEF StartStep, SucceedStep
<1>6. CASE FailStep \/ AwaitApproval
  BY <1>1, <1>6 DEF FailStep, AwaitApproval, AwaitsApproval
<1>7. QED
  BY <1>2, <1>3, <1>4, <1>5, <1>6 DEF StageUpdate

LEMMA WorkMoving ==
  ASSUME TypeOK, CursorOK, Alone, WorkOK, Moving PROVE WorkOK'
<1> USE DEF WorkOK, Committed, AllSucceeded
<1>1. UNCHANGED <<stageSt, stepSt, status>>
  BY MovingMoves DEF stateVars
<1>2. CASE EngineLoad
  BY <1>1, <1>2 DEF EngineLoad, cursorVars, historyVars
<1>3. CASE ExamineStage \/ ExamineStep
  BY <1>1, <1>3 DEF ExamineStage, ExamineStep, NextStage, NextStep, Goto, LooksAround, historyVars
<1>4. CASE InvokeCapability \/ CapabilityEnds
  BY <1>1, <1>4 DEF InvokeCapability, CapabilityEnds, cursorVars, historyVars, Alone
<1>5. CASE WriteReport \/ LogEvent
  <2>1. Continue => pc' \notin {"working", "succeed"}
    BY DEF Continue, Goto, NextStage, NextStep, ToReconcile
  <2>2. QED
    BY <1>1, <1>5, <2>1, AfterCommit DEF historyVars
<1>6. QED
  BY <1>2, <1>3, <1>4, <1>5 DEF Moving

\* A step that succeeded worked in this run, a stage that succeeded has only such steps, and a run
\* that is completed only settled stages.
LEMMA WorkStep ==
  ASSUME TypeOK, CursorOK, Alone, Quiet, StatusOK, StagesOK, StepsOK, WorkOK, Next PROVE WorkOK'
<1> USE DEF WorkOK
<1>1. CASE Stopping
  BY <1>1, StoppingStops DEF stateVars, historyVars, AllSucceeded
<1>2. CASE Moving
  BY <1>2, WorkMoving
<1>3. CASE Starting
  BY <1>3, StartingStarts DEF stateVars, historyVars, AllSucceeded
<1>4. CASE Elsewhere
  BY <1>4, ElsewhereIsElsewhere DEF stateVars, engineVars, cursorVars, historyVars, AllSucceeded, Committed
<1>5. CASE Initialize
  BY <1>5 DEF Initialize, InitializeWith
<1>6. CASE StatusUpdate
  <2>1. UNCHANGED <<stageSt, stepSt, worked>> /\ pc' = pc /\ pc \in {"resume", "taint", "stale", "complete"}
    BY <1>6 DEF StatusUpdate, ResumeRun, MarkTainted, MarkStale, CompleteRun, SetsRunStatus, historyVars
  <2>2. status' = "COMPLETED" => pc = "complete"
    BY <1>6 DEF StatusUpdate, ResumeRun, MarkTainted, MarkStale, CompleteRun, SetsRunStatus
  <2>3. pc = "complete" => \A g \in Stage : stageSt[g] \in Closed
    BY EngineAssumption DEF StagesOK, InRun, Stage
  <2>4. QED
    BY <2>1, <2>2, <2>3 DEF AllSucceeded
<1>7. CASE StageUpdate
  <2>1. worked' = worked /\ status' # "COMPLETED" /\ Committed'
    BY <1>7, StageUpdates, SuccessIsWritten
  <2>2. pc' # "working"
    BY <1>7 DEF StageUpdate, OpenStage, MarkStageInapplicable, CloseStage, MarkStepInapplicable, StartStep,
                SucceedStep, FailStep, AwaitApproval, AwaitsApproval
  <2>3. \A s \in Step : stepSt'[s] = "SUCCEEDED" => s \in worked' \cup Fixer
    BY <1>7, <2>1, SuccessIsWritten DEF Committed
  <2>4. ASSUME NEW g \in Stage, stageSt'[g] = "SUCCEEDED" PROVE AllSucceeded(g)'
    <3>1. AllSucceeded(g)
      BY <1>7, <2>4, SuccessIsWritten
    <3>2. \A s \in StepsOf(g) : stepSt'[s] = stepSt[s]
      BY <1>7, <3>1, StageUpdates, PlaybookFacts DEF AllSucceeded, Closed
    <3>3. QED
      BY <3>1, <3>2 DEF AllSucceeded
  <2>5. QED
    BY <2>1, <2>2, <2>3, <2>4
<1>8. CASE OperatorUpdate
  <2>1. UNCHANGED <<pc, phase, at>>
    BY <1>8, OperatorUpdates DEF cursorVars
  <2>2. CASE ResetState /\ pc = "idle"
    BY <2>1, <2>2 DEF ResetState, ResetsTo
  <2>3. CASE UNCHANGED <<stageSt, stepSt, worked>> /\ (status' = "COMPLETED" => status = "COMPLETED")
    BY <2>1, <2>3 DEF AllSucceeded, Committed
  <2>4. QED
    BY <1>8, <2>2, <2>3, OperatorUpdates
<1>9. QED
  BY <1>1, <1>2, <1>3, <1>4, <1>5, <1>6, <1>7, <1>8, NextIsGroupedFinely, EngineUpdateIsGrouped

(***************************************************************************)
(* The frontier: nothing is settled out of order.                          *)
(***************************************************************************)
LEMMA FrontierStageUpdate ==
  ASSUME TypeOK, CursorOK, StatusOK, StagesOK, StepsOK, Frontier, StageUpdate PROVE Frontier'
<1>1. ASSUME NEW g \in Stage, NEW h \in Stage, g < h, Open(g)'
      PROVE  Open(h)' /\ \A s \in StepsOf(h) : stepSt'[s] \notin Closed
  <2>1. g \in Int /\ h \in Int /\ stg \in Int /\ stg \in Stage
    BY StageUpdates, EngineAssumption DEF Stage
  <2>2. stg <= g /\ Open(g) /\ h # stg
    <3>1. Open(g)
      BY <1>1, StageUpdates DEF Open
    <3>2. ~(g < stg)
      BY <3>1, StageUpdates
    <3>3. QED
      BY <1>1, <2>1, <3>1, <3>2
  <2>3. Open(h) /\ \A s \in StepsOf(h) : stepSt[s] \notin Closed
    BY <1>1, <2>2 DEF Frontier
  <2>4. \A s \in StepsOf(h) : s \in Step /\ s \notin StepsOf(stg)
    BY <2>2, StageUpdates, StagesAreDisjoint, PlaybookFacts
  <2>5. QED
    BY <2>2, <2>3, <2>4, StageUpdates DEF Open
<1>2. ASSUME NEW g \in Stage, Open(g)', NEW s \in StepsOf(g), NEW t \in StepsOf(g), s < t,
             stepSt'[s] \notin Closed
      PROVE  stepSt'[t] \notin Closed
  <2>1. s \in Step /\ t \in Step /\ s \in Nat /\ t \in Nat
    BY PlaybookFacts, StagesAreDisjoint
  <2>2. Open(g)
    BY <1>2, StageUpdates DEF Open
  <2>3. stepSt[s] \notin Closed
    BY <1>2, <2>1, StageUpdates
  <2>4. stepSt[t] \notin Closed
    BY <1>2, <2>2, <2>3 DEF Frontier
  <2>5. CASE g # stg
    BY <2>1, <2>4, <2>5, StageUpdates, StagesAreDisjoint
  <2>6. CASE g = stg
    <3>1. SettlesStepAt \/ SettlesNothing
      BY <1>2, <2>6, StageUpdates DEF Open
    <3>2. SettlesStepAt => t # at
      BY <1>2, <2>3, <2>6 DEF SettlesStepAt
    <3>3. QED
      BY <2>1, <2>4, <3>1, <3>2 DEF SettlesStepAt, SettlesNothing
  <2>7. QED
    BY <2>5, <2>6
<1>3. QED
  BY <1>1, <1>2 DEF Frontier, Open

LEMMA FrontierStep ==
  ASSUME TypeOK, CursorOK, Alone, Quiet, StatusOK, StagesOK, StepsOK, Frontier, Next PROVE Frontier'
<1> USE DEF Frontier, Open
<1>1. CASE Stopping \/ Moving \/ Starting \/ Elsewhere
  BY <1>1, StoppingStops, MovingMoves, StartingStarts, ElsewhereIsElsewhere DEF stateVars
<1>2. CASE Initialize
  BY <1>2, PlaybookFacts DEF Initialize, InitializeWith, Closed
<1>3. CASE StatusUpdate
  BY <1>3 DEF StatusUpdate, ResumeRun, MarkTainted, MarkStale, CompleteRun, SetsRunStatus
<1>4. CASE StageUpdate
  BY <1>4, FrontierStageUpdate
<1>5. CASE OperatorUpdate
  <2>1. CASE ResetState
    BY <2>1, PlaybookFacts DEF ResetState, ResetsTo, Closed
  <2>2. QED
    BY <1>5, <2>1, OperatorUpdates
<1>6. QED
  BY <1>1, <1>2, <1>3, <1>4, <1>5, NextIsGroupedFinely, EngineUpdateIsGrouped

(***************************************************************************)
(* Attempts, reasons and the journal.                                      *)
(***************************************************************************)
\* A step that becomes active got its attempt from the same or an earlier update.
LEMMA AttemptStep ==
  ASSUME TypeOK, CursorOK, Alone, Quiet, StepsOK, ActiveHasAttempt, Next PROVE ActiveHasAttempt'
<1> USE DEF ActiveHasAttempt, Active
<1>1. CASE Stopping \/ Moving \/ Starting \/ Elsewhere
  BY <1>1, StoppingStops, MovingMoves, StartingStarts, ElsewhereIsElsewhere DEF stateVars
<1>2. CASE Initialize
  BY <1>2 DEF Initialize, InitializeWith
<1>3. CASE StatusUpdate
  BY <1>3 DEF StatusUpdate, ResumeRun, MarkTainted, MarkStale, CompleteRun, SetsRunStatus
<1>4. CASE StageUpdate
  <2>1. stepSt \in [Step -> StepStatus] /\ attempts \in [Step -> Nat]
    BY DEF TypeOK, StateTypes
  <2>2. CASE OpenStage \/ CloseStage
    BY <2>2 DEF OpenStage, CloseStage
  <2>3. CASE MarkStageInapplicable
    BY <2>1, <2>3 DEF MarkStageInapplicable, Inapplicable, PendingStepsBecome
  <2>4. CASE MarkStepInapplicable
    BY <2>1, <2>4 DEF MarkStepInapplicable, Inapplicable, PendingStepsBecome
  <2>5. CASE StartStep
    BY <2>1, <2>5 DEF StartStep, StepsOK, EngineCommit, Committed
  <2>6. CASE SucceedStep \/ FailStep
    BY <2>1, <2>6 DEF SucceedStep, FailStep
  <2>7. CASE AwaitApproval
    BY <2>1, <2>7 DEF AwaitApproval, AwaitsApproval, StepsOK, AtWork, EngineCommit, Committed
  <2>8. QED
    BY <1>4, <2>2, <2>3, <2>4, <2>5, <2>6, <2>7 DEF StageUpdate
<1>5. CASE OperatorUpdate
  <2>1. CASE ResetState
    BY <2>1 DEF ResetState, ResetsTo
  <2>2. QED
    BY <1>5, <2>1, OperatorUpdates
<1>6. QED
  BY <1>1, <1>2, <1>3, <1>4, <1>5, NextIsGroupedFinely, EngineUpdateIsGrouped

\* The update that stops the run marks the step, and no other update comes before the next run of it.
LEMMA ReasonStep ==
  ASSUME TypeOK, CursorOK, Alone, Quiet, StatusOK, StagesOK, StepsOK, PausedForAReason, Next
  PROVE  PausedForAReason'
<1> USE DEF PausedForAReason
<1>1. CASE Stopping \/ Moving \/ Starting \/ Elsewhere
  BY <1>1, StoppingStops, MovingMoves, StartingStarts, ElsewhereIsElsewhere DEF stateVars
<1>2. CASE Initialize
  BY <1>2 DEF Initialize, InitializeWith
<1>3. CASE StatusUpdate
  BY <1>3 DEF StatusUpdate, ResumeRun, MarkTainted, MarkStale, CompleteRun, SetsRunStatus
<1>4. CASE StageUpdate
  <2>1. /\ stepSt \in [Step -> StepStatus] /\ stageSt \in [Stage -> StageStatus]
        /\ status = "RUNNING" /\ stg \in Stage
        /\ pc \in AtStep => at \in StepsOf(stg) /\ at \in Step
    BY <1>4, StageUpdates, StepOrder DEF TypeOK, StateTypes, CursorOK
  <2>2. CASE OpenStage \/ CloseStage \/ StartStep \/ SucceedStep
    BY <2>1, <2>2 DEF OpenStage, CloseStage, StartStep, SucceedStep
  <2>3. CASE MarkStageInapplicable
    BY <2>1, <2>3 DEF MarkStageInapplicable, Inapplicable
  <2>4. CASE MarkStepInapplicable
    <3>1. at \in Step /\ stepSt'[at] = Inapplicable(StepPolicy[at])
      BY <2>1, <2>4 DEF MarkStepInapplicable, PendingStepsBecome, AtStep
    <3>2. status' = "RUNNING" \/ (status' = "BLOCKED" /\ Inapplicable(StepPolicy[at]) = "BLOCKED")
      BY <2>1, <2>4 DEF MarkStepInapplicable
    <3>3. QED
      BY <3>1, <3>2
  <2>5. CASE FailStep
    <3>1. at \in Step /\ stepSt'[at] = status' /\ status' \in {"BLOCKED", "FAILED"}
      BY <2>1, <2>5 DEF FailStep, AtStep
    <3>2. QED
      BY <3>1
  <2>6. CASE AwaitApproval
    <3>1. stageSt[stg] = "IN_PROGRESS" /\ pc \in AtStep
      BY <2>6 DEF AwaitApproval, AwaitsApproval, StagesOK, Within, EngineCommit, Committed, AtStep
    <3>2. stepSt'[at] = "AWAITING_APPROVAL" /\ stageSt' = stageSt /\ status' = "AWAITING_USER"
      BY <2>1, <2>6, <3>1 DEF AwaitApproval, AwaitsApproval
    <3>3. QED
      BY <2>1, <3>1, <3>2
  <2>7. QED
    BY <1>4, <2>2, <2>3, <2>4, <2>5, <2>6 DEF StageUpdate
<1>5. CASE OperatorUpdate
  <2>1. CASE ResetState
    BY <2>1 DEF ResetState, ResetsTo
  <2>2. QED
    BY <1>5, <2>1, OperatorUpdates
<1>6. QED
  BY <1>1, <1>2, <1>3, <1>4, <1>5, NextIsGroupedFinely, EngineUpdateIsGrouped

\* An event follows the update it is about, and the next update that takes it back, of a reset or
\* a new run, begins a new journal.
LEMMA LoggedStep ==
  ASSUME TypeOK, CursorOK, Alone, Quiet, StatusOK, StagesOK, StepsOK, LoggedIsTrue, Next
  PROVE  LoggedIsTrue'
<1> USE DEF LoggedIsTrue
<1>1. ASSUME Committed, NEW e \in Recorded
      PROVE  \/ e = <<"STEP_SUCCEEDED", at>> /\ stepSt[at] = "SUCCEEDED"
             \/ e = <<"RUN_COMPLETED", 0>> /\ status = "COMPLETED"
  BY <1>1 DEF Recorded, StepsOK, StatusOK
<1>2. ASSUME UNCHANGED <<stepSt, status>>, logged' = logged \/ (Committed /\ logged' = logged \cup Recorded)
      PROVE  LoggedIsTrue'
  BY <1>1, <1>2
<1>3. CASE Stopping
  BY <1>2, <1>3, StoppingStops DEF stateVars, Committed
<1>4. CASE Moving
  <2>1. UNCHANGED <<stepSt, status>>
    BY <1>4, MovingMoves DEF stateVars
  <2>2. logged' = logged \/ (Committed /\ logged' = logged \cup Recorded)
    BY <1>4 DEF Moving, EngineLoad, ExamineStage, ExamineStep, LooksAround, InvokeCapability, CapabilityEnds,
                WriteReport, LogEvent, journalVars, Committed
  <2>3. QED
    BY <1>2, <2>1, <2>2
<1>5. CASE Starting \/ Elsewhere
  BY <1>2, <1>5, StartingStarts, ElsewhereIsElsewhere DEF stateVars, journalVars
<1>6. CASE Initialize
  BY <1>6 DEF Initialize, InitializeWith
<1>7. CASE StatusUpdate
  <2>1. UNCHANGED <<stepSt, logged>> /\ status \notin Terminal
    BY <1>7 DEF StatusUpdate, ResumeRun, MarkTainted, MarkStale, CompleteRun, SetsRunStatus, EngineCommit,
                journalVars, StatusOK, InRun, Committed, Terminal
  <2>2. QED
    BY <2>1 DEF Terminal
<1>8. CASE StageUpdate
  BY <1>8, StageUpdates DEF Closed
<1>9. CASE OperatorUpdate
  <2>1. CASE ResetState
    BY <2>1 DEF ResetState, ResetsTo
  <2>2. CASE UNCHANGED <<stepSt, logged>> /\ (status' = status \/ status \notin Terminal)
    BY <2>2 DEF Terminal
  <2>3. QED
    BY <1>9, <2>1, <2>2, OperatorUpdates
<1>10. QED
  BY <1>3, <1>4, <1>5, <1>6, <1>7, <1>8, <1>9, NextIsGroupedFinely, EngineUpdateIsGrouped

(***************************************************************************)
(* The inductive invariant and what it implies.                            *)
(***************************************************************************)
LEMMA OrderInvariant ==
  ASSUME Resets # "anytime" PROVE Spec => [](TypeOK /\ CursorOK /\ Alone /\ OrderInv)
<1>1. Init => OrderInv /\ Alone
  <2> SUFFICES ASSUME Init PROVE OrderInv /\ Alone
    OBVIOUS
  <2>1. Alone /\ Quiet /\ Blank
    BY DEF Init, Alone, Quiet, Blank, InRun, Within, Committed
  <2>2. StatusOK /\ StagesOK /\ StepsOK
    BY DEF Init, StatusOK, StagesOK, StepsOK, InRun, Within, AtWork, Committed
  <2>3. WorkOK
    BY DEF Init, WorkOK
  <2>4. Frontier
    BY PlaybookFacts DEF Init, Frontier, Open, Closed
  <2>5. ActiveHasAttempt /\ PausedForAReason /\ LoggedIsTrue
    BY DEF Init, ActiveHasAttempt, Active, PausedForAReason, LoggedIsTrue
  <2>6. QED
    BY <2>1, <2>2, <2>3, <2>4, <2>5 DEF OrderInv
<1>2. TypeOK /\ CursorOK /\ Alone /\ OrderInv /\ [Next]_vars => (Alone /\ OrderInv)'
  <2>1. ASSUME TypeOK, CursorOK, Alone, OrderInv, Next PROVE (Alone /\ OrderInv)'
    BY <2>1, AloneStep, QuietStep, BlankStep, StatusStep, StagesStep, StepsStep, WorkStep, FrontierStep,
       AttemptStep, ReasonStep, LoggedStep DEF OrderInv
  <2>2. ASSUME Alone, OrderInv, UNCHANGED vars PROVE (Alone /\ OrderInv)'
    <3> USE <2>2 DEF vars, stateVars, engineVars, cursorVars, operatorVars, journalVars, historyVars, OrderInv
    <3>1. Alone' /\ Quiet' /\ Blank'
      BY DEF Alone, Quiet, Blank, Committed
    <3>2. StatusOK' /\ StagesOK' /\ StepsOK'
      BY DEF StatusOK, StagesOK, StepsOK, Committed, StopsTheRun, SettlesTheStage, SettlesTheStep
    <3>3. WorkOK' /\ Frontier'
      BY DEF WorkOK, AllSucceeded, Frontier, Open, Committed
    <3>4. ActiveHasAttempt' /\ PausedForAReason' /\ LoggedIsTrue'
      BY DEF ActiveHasAttempt, Active, PausedForAReason, LoggedIsTrue
    <3>5. QED
      BY <3>1, <3>2, <3>3, <3>4
  <2>3. QED
    BY <2>1, <2>2
<1>3. QED
  BY <1>1, <1>2, TypeCorrect, PTL DEF Spec

\* While a capability runs, everything before it is settled and its step is the open one on disk, for
\* every playbook, when no reset comes while the run lock is held (execute, executeStep).
THEOREM WorkIsInOrder ==
  ASSUME Resets # "anytime" PROVE Spec => []DeclaredOrder
<1>1. TypeOK /\ CursorOK /\ Alone /\ OrderInv => DeclaredOrder
  <2> SUFFICES ASSUME TypeOK, CursorOK, Alone, OrderInv, pc \in {"work", "working"}
               PROVE  /\ stg \in Stage /\ at \in StepsOf(stg)
                      /\ stepSt[at] = "IN_PROGRESS" /\ status = "RUNNING"
                      /\ \A g \in 1..(stg - 1) : stageSt[g] \in Closed
                      /\ \A s \in First[stg]..(at - 1) : stepSt[s] \in Closed
                      /\ \A d \in StepNeeds[at] : stepSt[d] \in Closed
    BY DEF DeclaredOrder
  <2>1. stg \in Stage /\ at \in StepsOf(stg) /\ at \in Step /\ ~Committed
    BY PlaybookFacts DEF CursorOK, AtStep, Alone, Committed
  <2>2. stepSt[at] = "IN_PROGRESS" /\ status = "RUNNING" /\ \A d \in StepNeeds[at] : stepSt[d] \in Closed
    BY <2>1 DEF OrderInv, StatusOK, StepsOK, AtWork, InRun, Within
  <2>3. \A g \in 1..(stg - 1) : g \in Stage /\ g < stg
    BY <2>1, EngineAssumption DEF Stage
  <2>4. \A g \in 1..(stg - 1) : stageSt[g] \in Closed
    BY <2>3 DEF OrderInv, StagesOK, InRun, Within
  <2>5. \A s \in First[stg]..(at - 1) : s \in Step /\ First[stg] <= s /\ s < at
    BY <2>1, PlaybookFacts, EngineAssumption DEF NSteps, Step
  <2>6. \A s \in First[stg]..(at - 1) : stepSt[s] \in Closed
    BY <2>5 DEF OrderInv, StepsOK, Within
  <2>7. QED
    BY <2>1, <2>2, <2>4, <2>6
<1>2. QED
  BY <1>1, OrderInvariant, PTL

\* A completed run settled every stage, and what counts as a success of a succeeded stage worked in
\* this run, for every playbook, when no reset comes while the run lock is held (completeRun).
THEOREM CompletionIsEarned ==
  ASSUME Resets # "anytime" PROVE Spec => []CompletedIsEarned
<1>1. OrderInv => CompletedIsEarned
  BY PlaybookFacts DEF OrderInv, WorkOK, CompletedIsEarned, AllSucceeded
<1>2. QED
  BY <1>1, OrderInvariant, PTL

\* An active step has an execution attempt, for every playbook, when no reset comes while the run lock
\* is held: the assertion of nextExecutionAttempt never fails.
THEOREM AttemptsAreCounted ==
  ASSUME Resets # "anytime" PROVE Spec => []ActiveHasAttempt
BY OrderInvariant, PTL DEF OrderInv

\* A run that waits, failed or is blocked has a step, or a stage, that does, for every playbook, when
\* no reset comes while the run lock is held (awaitApproval, failStep, markStageInapplicable).
THEOREM PausesHaveAReason ==
  ASSUME Resets # "anytime" PROVE Spec => []PausedForAReason
BY OrderInvariant, PTL DEF OrderInv

\* What the journal says of a run is what the state file says, whatever update, report or event was
\* refused or interrupted, when no reset comes while the run lock is held (appendEvent after update).
THEOREM JournalTellsTheTruth ==
  ASSUME Resets # "anytime" PROVE Spec => []LoggedIsTrue
BY OrderInvariant, PTL DEF OrderInv

(***************************************************************************)
(* Terminal runs.                                                          *)
(***************************************************************************)
\* Updates of the engine are of runs that are not terminal, and start new runs.
LEMMA TerminalStep ==
  ASSUME TypeOK, CursorOK, Alone, OrderInv, Next, status \in Terminal, runId' = runId
  PROVE  UNCHANGED <<status, stageSt, stepSt>> \/ ResetState
<1>1. CASE Stopping \/ Moving \/ Starting \/ Elsewhere
  BY <1>1, StoppingStops, MovingMoves, StartingStarts, ElsewhereIsElsewhere DEF stateVars
<1>2. CASE Initialize
  BY <1>2 DEF Initialize, InitializeWith, TypeOK, StateTypes
<1>3. CASE StatusUpdate
  BY <1>3 DEF StatusUpdate, ResumeRun, MarkTainted, MarkStale, CompleteRun, SetsRunStatus, EngineCommit,
              OrderInv, StatusOK, InRun, Committed, Terminal
<1>4. CASE StageUpdate
  BY <1>4, StageUpdates DEF OrderInv, Terminal
<1>5. CASE OperatorUpdate
  BY <1>5, OperatorUpdates DEF OrderInv
<1>6. QED
  BY <1>1, <1>2, <1>3, <1>4, <1>5, NextIsGroupedFinely, EngineUpdateIsGrouped

\* A completed, tainted or stale run is touched by reset only, for every playbook (continueRun only
\* reconciles it, and no command that was under way can still commit to it).
THEOREM OnlyResetTouchesTerminalRuns ==
  ASSUME Resets # "anytime"
  PROVE  Spec => [][runId' = runId /\ status \in Terminal
                     => (UNCHANGED <<status, stageSt, stepSt>>) \/ ResetState]_vars
<1>1. TypeOK /\ CursorOK /\ Alone /\ OrderInv /\ [Next]_vars
        => [runId' = runId /\ status \in Terminal
             => (UNCHANGED <<status, stageSt, stepSt>>) \/ ResetState]_vars
  BY TerminalStep
<1>2. QED
  BY <1>1, OrderInvariant, PTL DEF Spec

\* Without resets a terminal run stays as it is until a new run replaces it, for every playbook and
\* any number of runs, resumes, decisions and crashes (continueRun).
THEOREM TerminalRunsStay ==
  ASSUME Resets = "never" PROVE Spec => TerminalRunStays
<1>1. ResetState => op = "reset"
  BY DEF ResetState, ResetsTo
<1>2. TypeOK /\ CursorOK /\ Alone /\ OrderInv /\ [Next]_vars
        => [runId' = runId /\ status \in Terminal => (UNCHANGED <<status, stageSt, stepSt>>)]_vars
  BY <1>1, TerminalStep DEF OrderInv, Quiet
<1>3. Spec => [](TypeOK /\ CursorOK /\ Alone /\ OrderInv)
  BY OrderInvariant
<1>4. QED
  BY <1>2, <1>3, PTL DEF Spec, TerminalRunStays

(***************************************************************************)
(* The engine implements RunLifecycle.                                     *)
(***************************************************************************)
\* An update within a stage settles what comes next in the declared order, or nothing.
LEMMA SettledGrows ==
  ASSUME TypeOK, CursorOK, StatusOK, StagesOK, StepsOK, Frontier, StageUpdate
  PROVE  \/ Settled' = Settled
         \/ /\ status' = status /\ Settled \subseteq Settled'
            /\ \E k \in 1..NSteps : Settled' = 1..k
<1>1. Settled \subseteq Settled'
  <2> SUFFICES ASSUME NEW s \in Settled PROVE s \in Settled'
    OBVIOUS
  <2>1. s \in Step
    BY DEF Settled
  <2>2. stepSt[s] \in Closed => stepSt'[s] \in Closed
    BY <2>1, StageUpdates
  <2>3. \A g \in Stage : stageSt[g] \in Closed => stageSt'[g] \in Closed
    BY StageUpdates DEF Open
  <2>4. QED
    BY <2>1, <2>2, <2>3 DEF Settled
<1>2. /\ NSteps \in Nat /\ Step = 1..NSteps /\ stg \in Stage
      /\ \A g \in Stage : g \in Int /\ First[g] \in Nat \ {0} /\ First[g + 1] \in Nat
      /\ \A g \in Stage : StepsOf(g) \subseteq Step /\ StepsOf(g) = First[g]..(First[g + 1] - 1)
  <2>1. \A g \in Stage : g \in Int /\ g \in 1..(NStages + 1) /\ g + 1 \in 1..(NStages + 1)
    BY PlaybookFacts, EngineAssumption DEF Stage
  <2>2. NSteps \in Nat /\ Step = 1..NSteps
    <3>1. NStages + 1 \in 1..(NStages + 1)
      BY EngineAssumption
    <3>2. QED
      BY <3>1, EngineAssumption DEF NSteps, Step
  <2>3. \A g \in Stage : First[g] \in Nat \ {0} /\ First[g + 1] \in Nat
    BY <2>1, EngineAssumption
  <2>4. QED
    BY <2>1, <2>2, <2>3, StageUpdates, StagesInOrder, EngineAssumption DEF StepsOf
\* What an open stage after this one, or this one, holds that is settled now, was settled by the update.
<1>3. ASSUME NEW s \in Step, NEW g \in Stage, s \in StepsOf(g), stg < g PROVE s \notin Settled'
  <2>1. g # stg /\ Open(g) /\ stepSt[s] \notin Closed
    BY <1>2, <1>3, StageUpdates DEF Frontier
  <2>2. s \notin StepsOf(stg)
    BY <1>3, <2>1, StageUpdates, StagesAreDisjoint
  <2>3. stageSt'[g] \notin Closed /\ stepSt'[s] \notin Closed
    BY <2>1, <2>2, StageUpdates DEF Open
  <2>4. \A h \in Stage : s \in StepsOf(h) => h = g
    BY <1>3, StagesAreDisjoint
  <2>5. QED
    BY <2>3, <2>4 DEF Settled
<1>4. ASSUME NEW s \in Step, NEW g \in Stage, s \in StepsOf(g), g < stg PROVE s \in Settled'
  BY <1>1, <1>4, StageUpdates DEF Settled, Open
<1>5. CASE stageSt'[stg] \in Closed
  <2> DEFINE k == First[stg + 1] - 1
  <2>1. k \in StepsOf(stg) /\ k \in 1..NSteps
    <3>1. First[stg] < First[stg + 1]
      BY <1>2, EngineAssumption
    <3>2. k \in StepsOf(stg)
      BY <1>2, <3>1
    <3> QED
      BY <1>2, <3>2
  <2>2. Settled' = 1..k
    <3>1. ASSUME NEW s \in Step PROVE s \in Settled' <=> s <= k
      <4>1. PICK g \in Stage : s \in StepsOf(g)
        BY StagesInOrder
      <4>2. CASE g < stg
        BY <1>4, <2>1, <4>1, <4>2, StagesAreDisjoint, <1>2
      <4>3. CASE g = stg
        BY <1>2, <1>5, <4>1, <4>3 DEF Settled
      <4>4. CASE stg < g
        BY <1>3, <2>1, <4>1, <4>4, StagesAreDisjoint, <1>2
      <4>5. QED
        BY <1>2, <4>2, <4>3, <4>4
    <3>2. \A s \in Settled' : s \in Step
      BY DEF Settled
    <3>3. \A s : s \in 1..k <=> s \in Step /\ s <= k
      BY <1>2, <2>1
    <3>4. QED
      BY <3>1, <3>2, <3>3
  <2>3. status' = status
    BY <1>5, StageUpdates
  <2>4. QED
    BY <1>1, <2>1, <2>2, <2>3
<1>6. CASE stageSt'[stg] \notin Closed /\ SettlesStepAt
  <2>1. at \in StepsOf(stg) /\ at \in 1..NSteps
    BY <1>2, <1>6 DEF SettlesStepAt
  <2>2. Settled' = 1..at
    <3>1. ASSUME NEW s \in Step PROVE s \in Settled' <=> s <= at
      <4>1. PICK g \in Stage : s \in StepsOf(g)
        BY StagesInOrder
      <4>2. CASE g < stg
        BY <1>4, <2>1, <4>1, <4>2, StagesAreDisjoint, <1>2
      <4>3. CASE g = stg
        <5>1. \A h \in Stage : s \in StepsOf(h) => h = stg
          BY <4>1, <4>3, StagesAreDisjoint
        <5>2. s \in Settled' <=> stepSt'[s] \in Closed
          BY <1>6, <5>1 DEF Settled
        <5>3. s <= at => stepSt'[s] \in Closed
          BY <1>2, <1>6, <4>1, <4>3, <2>1, StageUpdates DEF SettlesStepAt
        <5>4. at < s => stepSt'[s] \notin Closed
          <6>1. at < s => stepSt[s] \notin Closed
            BY <1>6, <2>1, <4>1, <4>3, StageUpdates DEF SettlesStepAt, Frontier
          <6>2. QED
            BY <1>2, <1>6, <2>1, <6>1 DEF SettlesStepAt
        <5>5. QED
          BY <1>2, <2>1, <5>2, <5>3, <5>4
      <4>4. CASE stg < g
        BY <1>3, <2>1, <4>1, <4>4, StagesAreDisjoint, <1>2
      <4>5. QED
        BY <1>2, <4>2, <4>3, <4>4
    <3>2. \A s \in Settled' : s \in Step
      BY DEF Settled
    <3>3. \A s : s \in 1..at <=> s \in Step /\ s <= at
      BY <1>2, <2>1
    <3>4. QED
      BY <3>1, <3>2, <3>3
  <2>3. status' = status
    BY <1>6, StageUpdates
  <2>4. QED
    BY <1>1, <2>1, <2>2, <2>3
<1>7. CASE stageSt'[stg] \notin Closed /\ SettlesNothing
  <2>1. \A g \in Stage : stageSt'[g] \in Closed => stageSt[g] \in Closed
    BY <1>7, StageUpdates
  <2>2. Settled' \subseteq Settled
    BY <1>7, <2>1 DEF Settled, SettlesNothing
  <2>3. QED
    BY <1>1, <2>2
<1>8. QED
  BY <1>5, <1>6, <1>7, StageUpdates

\* Every step of the engine, of the operator and of the world is a step of RunLifecycle or none.
LEMMA StepIsLifecycleStep ==
  ASSUME TypeOK, CursorOK, Alone, OrderInv, Next
  PROVE  Lifecycle!Next \/ UNCHANGED Lifecycle!vars
<1> USE DEF Lifecycle!vars, Lifecycle!Next
<1>1. CASE Stopping \/ Moving \/ Starting \/ Elsewhere
  BY <1>1, StoppingStops, MovingMoves, StartingStarts, ElsewhereIsElsewhere DEF stateVars, Settled
<1>2. CASE Initialize
  <2>1. Settled' = {}
    BY <1>2, PlaybookFacts DEF Initialize, InitializeWith, Settled, Closed
  <2>2. Lifecycle!Start
    BY <1>2, <2>1 DEF Initialize, InitializeWith, Lifecycle!Start
  <2>3. QED
    BY <2>2
<1>3. CASE StatusUpdate
  <2>1. UNCHANGED <<runId, Settled>>
    BY <1>3 DEF StatusUpdate, ResumeRun, MarkTainted, MarkStale, CompleteRun, SetsRunStatus, Settled
  <2>2. CASE ResumeRun
    <3>1. runId > 0 /\ status \notin Terminal /\ status' = "RUNNING"
      BY <2>2 DEF ResumeRun, SetsRunStatus, EngineCommit, OrderInv, StatusOK, Alone, Committed, TypeOK, StateTypes
    <3>2. QED
      BY <2>1, <3>1 DEF Terminal, Lifecycle!Resume, Lifecycle!Finished
  <2>3. CASE MarkTainted \/ MarkStale
    <3>1. runId > 0 /\ status \notin Terminal /\ status' \in {"TAINTED", "STALE"}
      BY <2>3 DEF MarkTainted, MarkStale, SetsRunStatus, EngineCommit, OrderInv, StatusOK, Alone, Committed,
                  TypeOK, StateTypes
    <3>2. QED
      BY <2>1, <3>1 DEF Terminal, Lifecycle!Abandon, Lifecycle!Finished
  <2>4. CASE CompleteRun
    <3>1. status = "RUNNING" /\ \A g \in Stage : stageSt[g] \in Closed
      BY <2>4, EngineAssumption DEF CompleteRun, SetsRunStatus, EngineCommit, OrderInv, StatusOK, StagesOK,
                                    InRun, Committed, Stage
    <3>2. Settled = 1..NSteps
      BY <3>1, StagesInOrder DEF Settled, Step
    <3>3. QED
      BY <2>1, <2>4, <3>1, <3>2 DEF CompleteRun, SetsRunStatus, Lifecycle!Complete
  <2>5. QED
    BY <1>3, <2>2, <2>3, <2>4 DEF StatusUpdate
<1>4. CASE StageUpdate
  <2>1. /\ status = "RUNNING" /\ runId' = runId
        /\ status' \in {"RUNNING", "BLOCKED", "FAILED", "AWAITING_USER"}
    BY <1>4, StageUpdates DEF OrderInv
  <2>2. CASE Settled' = Settled
    BY <2>1, <2>2 DEF Lifecycle!Pause, Lifecycle!Paused
  <2>3. CASE Settled' # Settled
    BY <1>4, <2>1, <2>3, SettledGrows DEF OrderInv, Lifecycle!Advance
  <2>4. QED
    BY <2>2, <2>3
<1>5. CASE OperatorUpdate
  <2>1. CASE ResetState
    <3>1. Settled' = {}
      BY <2>1, PlaybookFacts DEF ResetState, ResetsTo, Settled, Closed
    <3>2. QED
      BY <2>1, <3>1 DEF ResetState, ResetsTo, OrderInv, Quiet, Lifecycle!Reset
  <2>2. CASE RecordApproval
    BY <2>2 DEF RecordApproval, Settled
  <2>3. CASE InitState \/ StopInitialState
    <3>1. Settled = {} /\ Settled' = {}
      BY <2>3, PlaybookFacts DEF InitState, StopInitialState, OperatorCommit, OrderInv, Blank, Alone, Settled, Closed
    <3>2. CASE InitState
      BY <3>1, <3>2 DEF InitState, OperatorCommit, Alone, Lifecycle!Start
    <3>3. CASE StopInitialState
      BY <3>1, <3>3 DEF StopInitialState, OperatorCommit, Alone, TypeOK, StateTypes, Lifecycle!Reset
    <3>4. QED
      BY <2>3, <3>2, <3>3
  <2>4. QED
    BY <1>5, <2>1, <2>2, <2>3 DEF OperatorUpdate
<1>6. QED
  BY <1>1, <1>2, <1>3, <1>4, <1>5, NextIsGroupedFinely, EngineUpdateIsGrouped

\* The engine implements RunLifecycle for every playbook, any number of runs and attempts, with
\* crashes, refused updates and decisions, when no reset comes while the run lock is held: its stages
\* and steps, retries and resumes are steps through the declared order, strictly one after the other.
THEOREM EngineIsLifecycle ==
  ASSUME Resets # "anytime" PROVE Spec => ImplementsLifecycle
<1>1. Init => Lifecycle!Init
  BY PlaybookFacts DEF Init, Lifecycle!Init, Settled, Closed
<1>2. TypeOK /\ CursorOK /\ Alone /\ OrderInv /\ [Next]_vars => [Lifecycle!Next]_(Lifecycle!vars)
  <2>1. ASSUME UNCHANGED vars PROVE UNCHANGED Lifecycle!vars
    BY <2>1 DEF vars, stateVars, Lifecycle!vars, Settled
  <2>2. QED
    BY <2>1, StepIsLifecycleStep
<1>3. QED
  BY <1>1, <1>2, OrderInvariant, PTL DEF Spec, ImplementsLifecycle, Lifecycle!Spec

=============================================================================
