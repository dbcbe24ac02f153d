--------------------------- MODULE RuntimeEngine ---------------------------
(***************************************************************************)
(* The Dokion execution engine (src/engine) together with the actors that  *)
(* share .dokion/state.json with it: the operator's approve, reject, reset *)
(* and init commands, an editor of the active playbook, somebody who       *)
(* commits to the repository, and the operating system that may kill the   *)
(* engine between any two of its steps.                                    *)
(*                                                                         *)
(* Every change of the state file is a load followed by a compare-and-swap *)
(* on state.revision.  The revision itself is abstracted to one flag per   *)
(* process, "the copy I loaded is still the stored one": every commit      *)
(* clears the flag of the other process.  Module StateStore models the     *)
(* file operations that implement that compare-and-swap.                   *)
(***************************************************************************)
EXTENDS Integers

CONSTANTS
  NStages,      \* number of declared stages
  First,        \* First[g] is the first step of stage g, First[NStages+1] closes the last stage
  StageNeeds,   \* depends_on of every stage
  StepNeeds,    \* depends_on of every step
  StagePolicy,  \* applicability.on_inapplicable of a stage, "NONE" without conditions
  StepPolicy,   \* applicability.on_inapplicable of a step, "NONE" without conditions
  Gated,        \* steps whose approval policy asks for a decision on step:<id>
  Fixer,        \* steps in a FIX_* mode (they ask inside the remediation)
  PerFinding,   \* FIX_WITH_APPROVAL steps with policy BEFORE_EACH_FIX
  Blocking,     \* steps whose failure policy is MARK_BLOCKED
  Digest,       \* digests the active playbook may have
  Commit,       \* repository identities
  Resets,       \* "never", "unlocked" (only while no engine runs) or "anytime"
  Reports,      \* whether dokion report, or init once more, is used while the engine runs
  Crashes,      \* whether the engine may be killed
  MaxRuns,      \* bound: runs started
  MaxAttempts   \* bound: attempts of one step (no resume that would exceed it)

NSteps == First[NStages + 1] - 1
Stage  == 1..NStages
Step   == 1..NSteps
StepsOf(g) == First[g]..(First[g + 1] - 1)

Policies == {"NONE", "SKIP", "STOP_STAGE", "MARK_BLOCKED"}

ASSUME EngineAssumption ==
  /\ NStages \in Nat
  /\ First \in [1..(NStages + 1) -> Nat \ {0}]
  /\ First[1] = 1
  /\ \A g \in Stage : First[g] < First[g + 1]
  /\ StageNeeds \in [Stage -> SUBSET Stage]
  /\ StepNeeds \in [Step -> SUBSET Step]
  /\ StagePolicy \in [Stage -> Policies]
  /\ StepPolicy \in [Step -> Policies]
  /\ Gated \subseteq Step /\ Fixer \subseteq Step /\ Blocking \subseteq Step
  /\ PerFinding \subseteq Fixer \ Gated
  /\ "unconfigured" \notin Digest
  /\ "unread" \notin Commit
  /\ Resets \in {"never", "unlocked", "anytime"}
  /\ Reports \in BOOLEAN /\ Crashes \in BOOLEAN
  /\ MaxRuns \in Nat /\ MaxAttempts \in Nat

VARIABLES
  \* .dokion/state.json; planned: it lists the stages of the playbook
  runId, status, digest, identity, planned, stageSt, stepSt, attempts, approval,
  \* the active playbook, the repository, .dokion/run.lock
  playbook, commit, runLock,
  \* the engine process: what it does next, whether its copy is current, its
  \* stage and step cursors, and what it read and still relies on
  pc, phase, fresh, stg, at, att, seen, loaded, ident,
  \* the operator's command
  op, opStep, opRun, opFresh,
  \* .dokion/events.ndjson: events of this run since its last reset, and whether its chain is broken
  logged, wedged,
  \* history of this run: steps whose capability ran, steps the operator approved
  worked, granted

stateVars    == <<runId, status, digest, identity, planned, stageSt, stepSt, attempts, approval>>
worldVars    == <<playbook, commit>>
cursorVars   == <<stg, at, att, seen, loaded, ident>>
engineVars   == <<pc, phase, fresh, cursorVars>>
operatorVars == <<op, opStep, opRun, opFresh>>
journalVars  == <<logged, wedged>>
historyVars  == <<worked, granted>>
vars == <<stateVars, worldVars, runLock, engineVars, operatorVars, journalVars, historyVars>>

(***************************************************************************)
(* Statuses (src/state/types.ts).                                          *)
(***************************************************************************)
RunStatus   == {"RUNNING", "AWAITING_USER", "COMPLETED", "STOPPED", "BLOCKED", "FAILED",
                "TAINTED", "STALE"}
StepStatus  == {"PENDING", "IN_PROGRESS", "AWAITING_APPROVAL", "SUCCEEDED", "FAILED",
                "BLOCKED", "SKIPPED_INAPPLICABLE", "STOPPED_BY_POLICY"}
StageStatus == StepStatus \ {"AWAITING_APPROVAL"}
Terminal    == {"COMPLETED", "TAINTED", "STALE"}
Closed      == {"SUCCEEDED", "SKIPPED_INAPPLICABLE", "STOPPED_BY_POLICY"}
Decision    == {"NONE", "APPROVED", "REJECTED"}

\* Begun and not ended: nextExecutionAttempt keeps the attempt.
Active(s) == stepSt[s] \in {"IN_PROGRESS", "AWAITING_APPROVAL"}

\* What the engine does next: an update of the state file, or a decision.
Updates == {"initialize", "resume", "taint", "stale", "stage_inapp", "stage_open",
            "step_inapp", "step_start", "succeed", "fail", "await", "stage_close", "complete"}
Decides == {"stage", "step", "work", "working", "stage_fail"}

(***************************************************************************)
(* The engine process.  EngineEnds is the lease release in the finally     *)
(* clause of run and resume: it happens on return and on every exception.  *)
(***************************************************************************)
EngineIdle ==
  /\ pc' = "idle" /\ phase' = "load" /\ fresh' = FALSE
  /\ stg' = 1 /\ at' = 1 /\ att' = 0 /\ seen' = FALSE
  /\ loaded' = "unconfigured" /\ ident' = "unread"

EngineEnds == EngineIdle /\ runLock' = "free"

Throws ==
  /\ EngineEnds
  /\ UNCHANGED <<stateVars, worldVars, operatorVars, journalVars, historyVars>>

\* Continue with p; updates begin by loading the state again.
Goto(p) == pc' = p /\ phase' = "load" /\ fresh' = FALSE

\* The engine's commit makes the copy the operator loaded outdated; HARDENING.md is next.
EngineCommit ==
  /\ phase = "commit" /\ fresh
  /\ phase' = "report" /\ fresh' = TRUE
  /\ opFresh' = FALSE
  /\ UNCHANGED <<worldVars, runLock, op, opStep, opRun, journalVars>>

EngineLoad ==
  /\ pc \in Updates /\ phase = "load"
  /\ phase' = "commit" /\ fresh' = TRUE
  /\ UNCHANGED <<stateVars, worldVars, runLock, pc, cursorVars, operatorVars, journalVars,
                 historyVars>>

\* The events of this module's properties that an update is followed by.
Recorded ==
  CASE pc = "succeed"  -> {<<"STEP_SUCCEEDED", at>>}
    [] pc = "complete" -> {<<"RUN_COMPLETED", 0>>}
    [] OTHER           -> {}

\* Bugs: the event is appended before the update; the update is tried again for ever.
UpdateRefusedAfterEvent ==
  /\ phase = "commit"
  /\ EngineEnds
  /\ logged' = logged \cup Recorded
  /\ UNCHANGED <<stateVars, worldVars, operatorVars, wedged, historyVars>>

UpdateRefusedRetries ==
  /\ phase = "commit" /\ ~fresh
  /\ Goto(pc)
  /\ UNCHANGED <<stateVars, worldVars, runLock, cursorVars, operatorVars, journalVars, historyVars>>

\* The update throws and ends the command, the state stays as it is: the revision moved on,
\* the transition lock is not to be had within two seconds, or the recovery of another
\* command swept the temporary file away.
UpdateRefused ==
  /\ phase = "commit"
  /\ Throws

(***************************************************************************)
(* The commands run and resume.                                            *)
(***************************************************************************)
TakesRunLock ==
  /\ runLock = "free"
  /\ runLock' = "held"
  /\ Resets = "unlocked" => op # "reset"
  /\ loaded' = playbook
  /\ UNCHANGED <<stateVars, worldVars, at, att, seen, stg, operatorVars, journalVars, historyVars>>

RunCommand ==
  /\ runId < MaxRuns
  /\ TakesRunLock
  /\ ident' = commit
  /\ Goto("initialize")

\* continueRun: a terminal run is only reconciled, a changed playbook taints the
\* run, a changed repository makes it stale, anything else is run again.
StartsFresh == runId = 0 /\ runId < MaxRuns /\ ident' = commit /\ Goto("initialize")

OnlyReconciles(terminal) ==
  /\ runId > 0 /\ status \in terminal
  /\ pc' = "reconcile" /\ phase' = "commit" /\ fresh' = TRUE

RunsAgain(terminal, expected) ==
  /\ runId > 0 /\ status \notin terminal
  /\ \/ expected # playbook /\ Goto("taint")
     \/ expected = playbook /\ identity # commit /\ Goto("stale")
     \/ expected = playbook /\ identity = commit /\ Goto("resume")

ResumeWith(terminal, expected) ==
  /\ \A s \in Step : stepSt[s] \in Closed \/ Active(s) \/ attempts[s] < MaxAttempts
  /\ TakesRunLock
  /\ \/ StartsFresh
     \/ (OnlyReconciles(terminal) \/ RunsAgain(terminal, expected)) /\ ident' = ident

\* Bugs: a completed run is run again; the digest is compared with itself.
ResumeCompleted  == ResumeWith({"TAINTED", "STALE"}, digest)
ResumeUnverified == ResumeWith(Terminal, playbook)

ResumeCommand == ResumeWith(Terminal, digest)

\* startRun: a new run replaces the whole state; approvals is what becomes of the decisions.
InitializeWith(approvals) ==
  /\ pc = "initialize"
  /\ phase = "commit" /\ fresh
  /\ phase' = "log" /\ fresh' = TRUE /\ opFresh' = FALSE
  /\ runId' = runId + 1 /\ status' = "RUNNING"
  /\ digest' = loaded /\ identity' = ident /\ planned' = TRUE
  /\ stageSt' = [g \in Stage |-> "PENDING"]
  /\ stepSt' = [s \in Step |-> "PENDING"]
  /\ attempts' = [s \in Step |-> 0]
  /\ approval' = approvals
  /\ worked' = {} /\ granted' = {} /\ logged' = {}
  /\ UNCHANGED <<worldVars, runLock, pc, cursorVars, op, opStep, opRun, wedged>>

\* Bug: the decisions of the previous run are kept.
InitializeKeepsApprovals == InitializeWith(approval)

Initialize == InitializeWith([s \in Step |-> "NONE"])

\* Updates that change only run.status.
SetsRunStatus(update, new) ==
  /\ pc = update
  /\ EngineCommit
  /\ status' = new
  /\ UNCHANGED <<runId, digest, identity, planned, stageSt, stepSt, attempts, approval, pc, cursorVars,
                 historyVars>>

\* Bug: the resumed run keeps the status it was left with.
ResumeKeepsStatus == SetsRunStatus("resume", status)

ResumeRun   == SetsRunStatus("resume", "RUNNING")
MarkTainted == SetsRunStatus("taint", "TAINTED")
MarkStale   == SetsRunStatus("stale", "STALE")
CompleteRun == SetsRunStatus("complete", "COMPLETED")

(***************************************************************************)
(* Stages.                                                                 *)
(***************************************************************************)
LooksAround == UNCHANGED <<stateVars, worldVars, runLock, loaded, ident, operatorVars,
                           journalVars, historyVars>>

NextStage ==
  /\ stg' = stg + 1 /\ Goto("stage")

ExamineStage ==
  /\ pc = "stage"
  /\ \/ /\ stg = NStages + 1
        /\ Goto("complete") /\ stg' = stg /\ LooksAround
     \/ /\ stg \in Stage /\ planned /\ stageSt[stg] \in Closed
        /\ NextStage /\ LooksAround
     \/ /\ stg \in Stage /\ planned /\ stageSt[stg] \notin Closed
        /\ \A g \in StageNeeds[stg] : stageSt[g] \in Closed
        /\ \/ Goto("stage_open")
           \/ StagePolicy[stg] # "NONE" /\ Goto("stage_inapp")
        /\ stg' = stg /\ LooksAround
  /\ UNCHANGED <<at, att, seen>>

\* The state of init lists no stages, or assertStageDependencies throws DEPENDENCY_UNMET.
StageRefused ==
  /\ pc = "stage" /\ stg \in Stage
  /\ \/ ~planned
     \/ stageSt[stg] \notin Closed /\ \E g \in StageNeeds[stg] : stageSt[g] \notin Closed
  /\ Throws

OpenStage ==
  /\ pc = "stage_open"
  /\ EngineCommit
  /\ stageSt' = [stageSt EXCEPT ![stg] = "IN_PROGRESS"]
  /\ UNCHANGED <<runId, status, digest, identity, planned, stepSt, attempts, approval, pc,
                 cursorVars, historyVars>>

\* The status markStageInapplicable and markStepInapplicable write for a policy.
Inapplicable(policy) ==
  CASE policy = "MARK_BLOCKED" -> "BLOCKED"
    [] policy = "STOP_STAGE"   -> "STOPPED_BY_POLICY"
    [] OTHER                   -> "SKIPPED_INAPPLICABLE"

\* Only PENDING steps of the stage take its new status.
PendingStepsBecome(new) ==
  [s \in Step |-> IF s \in StepsOf(stg) /\ stepSt[s] = "PENDING" THEN new ELSE stepSt[s]]

MarkStageInapplicable ==
  /\ pc = "stage_inapp"
  /\ EngineCommit
  /\ stageSt' = [stageSt EXCEPT ![stg] = Inapplicable(StagePolicy[stg])]
  /\ stepSt' = PendingStepsBecome(Inapplicable(StagePolicy[stg]))
  /\ status' = IF StagePolicy[stg] = "MARK_BLOCKED" THEN "BLOCKED" ELSE status
  /\ UNCHANGED <<runId, digest, identity, planned, attempts, approval, pc, cursorVars, historyVars>>

AllSucceeded(g) == \A s \in StepsOf(g) : stepSt[s] \in {"SUCCEEDED", "SKIPPED_INAPPLICABLE"}

CloseStage ==
  /\ pc = "stage_close"
  /\ EngineCommit
  /\ \/ /\ AllSucceeded(stg)
        /\ stageSt' = [stageSt EXCEPT ![stg] = "SUCCEEDED"] /\ pc' = pc
     \/ /\ ~AllSucceeded(stg)
        /\ stageSt' = [stageSt EXCEPT ![stg] = "FAILED"] /\ pc' = "stage_fail"
  /\ UNCHANGED <<runId, status, digest, identity, planned, stepSt, attempts, approval, cursorVars,
                 historyVars>>

(***************************************************************************)
(* Steps.                                                                  *)
(***************************************************************************)
NextStep == at' = at + 1 /\ Goto("step")

ReadyStep == pc = "step" /\ at \in StepsOf(stg) /\ stepSt[at] \notin Closed

ExamineStep ==
  /\ pc = "step"
  /\ \/ /\ at \notin StepsOf(stg)
        /\ Goto("stage_close") /\ UNCHANGED <<at, att>>
     \/ /\ at \in StepsOf(stg) /\ stepSt[at] \in Closed
        /\ NextStep /\ att' = att
     \/ /\ ReadyStep /\ playbook # loaded
        /\ Goto("taint") /\ UNCHANGED <<at, att>>
     \/ /\ ReadyStep /\ playbook = loaded
        /\ \A d \in StepNeeds[at] : stepSt[d] \in Closed
        /\ \/ /\ Active(at) => attempts[at] >= 1
              /\ att' = IF Active(at) THEN attempts[at] ELSE attempts[at] + 1
              /\ Goto("step_start")
           \/ StepPolicy[at] # "NONE" /\ att' = att /\ Goto("step_inapp")
        /\ at' = at
  /\ UNCHANGED <<stg, seen>>
  /\ LooksAround

\* DEPENDENCY_UNMET, or nextExecutionAttempt finds an active step without an attempt.
StepRefused ==
  /\ ReadyStep /\ playbook = loaded
  /\ \/ \E d \in StepNeeds[at] : stepSt[d] \notin Closed
     \/ Active(at) /\ attempts[at] < 1
  /\ Throws

MarkStepInapplicable ==
  /\ pc = "step_inapp"
  /\ EngineCommit
  /\ LET new == Inapplicable(StepPolicy[at])
     IN /\ stepSt' = [IF new = "STOPPED_BY_POLICY" THEN PendingStepsBecome(new) ELSE stepSt
                        EXCEPT ![at] = new]
        /\ stageSt' = IF new = "SKIPPED_INAPPLICABLE" THEN stageSt
                                                      ELSE [stageSt EXCEPT ![stg] = new]
        /\ status' = IF new = "BLOCKED" THEN "BLOCKED" ELSE status
  /\ UNCHANGED <<runId, digest, identity, planned, attempts, approval, pc, cursorVars, historyVars>>

StartStep ==
  /\ pc = "step_start"
  /\ EngineCommit
  /\ stepSt' = [stepSt EXCEPT ![at] = "IN_PROGRESS"]
  /\ attempts' = [attempts EXCEPT ![at] = att]
  /\ seen' = (approval[at] = "APPROVED")
  /\ UNCHANGED <<runId, status, digest, identity, planned, stageSt, approval, pc, stg, at, att, loaded,
                 ident, historyVars>>

(***************************************************************************)
(* The capability of a step.  An analysis or a verification runs its       *)
(* commands at once; a remediation first looks for open findings and asks  *)
(* for the decisions they need.  The commands may fail, time out or throw. *)
(***************************************************************************)
MayWork(s) == s \in Fixer \cap Gated => seen

InvokeCapability ==
  /\ pc = "work"
  /\ \/ /\ MayWork(at)
        /\ pc' = "working" /\ worked' = worked \cup {at}
     \/ /\ at \in Fixer
        /\ \/ pc' = "succeed"                                   \* no finding to repair
           \/ pc' = "await" /\ (at \in PerFinding \/ ~MayWork(at))
        /\ worked' = worked
     \/ /\ pc' = "fail" /\ worked' = worked                     \* refused before it ran
  /\ UNCHANGED <<stateVars, worldVars, runLock, phase, fresh, cursorVars, operatorVars,
                 journalVars, granted>>

CapabilityEnds ==
  /\ pc = "working"
  /\ \/ pc' \in {"succeed", "fail"}
     \/ at \in PerFinding /\ pc' = "await"                      \* the next finding needs a decision
  /\ UNCHANGED <<stateVars, worldVars, runLock, phase, fresh, cursorVars, operatorVars,
                 journalVars, historyVars>>

SucceedStep ==
  /\ pc = "succeed"
  /\ EngineCommit
  /\ stepSt' = [stepSt EXCEPT ![at] = "SUCCEEDED"]
  /\ UNCHANGED <<runId, status, digest, identity, planned, stageSt, attempts, approval, pc, cursorVars,
                 historyVars>>

\* Every failure policy ends the run; MARK_BLOCKED only changes the statuses.
FailStep ==
  /\ pc = "fail"
  /\ EngineCommit
  /\ LET new == IF at \in Blocking THEN "BLOCKED" ELSE "FAILED"
     IN /\ stepSt' = [stepSt EXCEPT ![at] = new]
        /\ status' = new
  /\ stageSt' = [stageSt EXCEPT ![stg] = "FAILED"]
  /\ UNCHANGED <<runId, digest, identity, planned, attempts, approval, pc, cursorVars, historyVars>>

AwaitsApproval(steps, stages) ==
  /\ pc = "await"
  /\ EngineCommit
  /\ stepSt' = steps /\ stageSt' = stages
  /\ status' = "AWAITING_USER"
  /\ UNCHANGED <<runId, digest, identity, planned, attempts, approval, pc, cursorVars, historyVars>>

\* Bugs: only the run is marked; the stage is marked as well.
AwaitApprovalOfNothing == AwaitsApproval(stepSt, stageSt)
AwaitApprovalOfStage ==
  AwaitsApproval([stepSt EXCEPT ![at] = "AWAITING_APPROVAL"],
                 [stageSt EXCEPT ![stg] = "AWAITING_APPROVAL"])

AwaitApproval == AwaitsApproval([stepSt EXCEPT ![at] = "AWAITING_APPROVAL"], stageSt)

(***************************************************************************)
(* After the commit: HARDENING.md, then the event (startRun: the event     *)
(* first), then what the engine does next.  The report is written through  *)
(* HARDENING.md.tmp, created exclusively and without a lock: while another *)
(* command writes the report, or recovers temporary files, the write may   *)
(* throw.  A chain head is written through events.head.json.tmp, which the  *)
(* recovery of init and reset may sweep away under a live writer as well:  *)
(* the event stays without its head.  On a journal whose chain is broken   *)
(* every append throws.                                                    *)
(***************************************************************************)
ToReconcile == pc' = "reconcile" /\ phase' = "commit" /\ UNCHANGED <<stg, at>>

Continue ==
  \/ /\ pc \in {"initialize", "resume"}
     /\ Goto("stage") /\ stg' = 1 /\ at' = at
  \/ /\ pc = "stage_open"
     /\ Goto("step") /\ at' = First[stg] /\ stg' = stg
  \/ /\ \/ pc = "stage_close"
        \/ pc = "stage_inapp" /\ StagePolicy[stg] # "MARK_BLOCKED"
        \/ pc = "step_inapp" /\ StepPolicy[at] = "STOP_STAGE"
     /\ NextStage /\ at' = at
  \/ /\ \/ pc = "succeed"
        \/ pc = "step_inapp" /\ StepPolicy[at] \in {"NONE", "SKIP"}
     /\ NextStep /\ stg' = stg
  \/ /\ pc = "step_start"
     /\ Goto(IF at \in Gated \ Fixer /\ ~seen THEN "await" ELSE "work")
     /\ UNCHANGED <<stg, at>>
  \/ /\ pc \in {"fail", "await", "taint", "stale", "complete", "stage_fail"}
     /\ ToReconcile /\ fresh' = fresh
  \/ /\ \/ pc = "stage_inapp" /\ StagePolicy[stg] = "MARK_BLOCKED"
        \/ pc = "step_inapp" /\ StepPolicy[at] = "MARK_BLOCKED"
     /\ ToReconcile /\ fresh' = TRUE                            \* return this.store.load()

Silent == {"stage_open", "stage_close", "stage_fail"}

WriteReport ==
  /\ phase = "report"
  /\ \/ /\ pc \in Silent \cup {"initialize"} /\ Continue
     \/ /\ pc \notin Silent \cup {"initialize"}
        /\ phase' = "log" /\ UNCHANGED <<pc, fresh, stg, at>>
  /\ UNCHANGED <<stateVars, worldVars, runLock, att, seen, loaded, ident, operatorVars, journalVars,
                 historyVars>>

\* Another command may recover the temporary files at this moment.
Sweeping == Reports \/ Resets = "anytime"

ReportRefused ==
  /\ phase = "report" /\ (Sweeping \/ op \in {"reset", "init", "report"})
  /\ Throws

LogEvent ==
  /\ phase = "log" /\ ~wedged
  /\ logged' = logged \cup Recorded
  /\ \/ pc = "initialize" /\ phase' = "report" /\ UNCHANGED <<pc, fresh, stg, at>>
     \/ pc # "initialize" /\ Continue
  /\ UNCHANGED <<stateVars, worldVars, runLock, att, seen, loaded, ident, operatorVars, wedged,
                 historyVars>>

LogRefused == phase = "log" /\ wedged /\ Throws

LogInterrupted ==
  /\ phase = "log" /\ ~wedged /\ Sweeping
  /\ logged' = logged \cup Recorded /\ wedged' = TRUE
  /\ EngineEnds
  /\ UNCHANGED <<stateVars, worldVars, operatorVars, historyVars>>

OperatorBecomes(kind) == op' = kind /\ opStep' = 0 /\ opRun' = 0 /\ opFresh' = FALSE

\* run and resume return the promise of reconcileState without awaiting it, so that the finally
\* clause releases the lock here while the reconciliation runs on (module Gates).  To the others
\* it is one more command: its update makes their copies outdated, which UpdateRefused and
\* OperatorEnds allow at any time, and then it writes the report.
Reconcile ==
  /\ pc = "reconcile"
  /\ EngineEnds
  /\ (op = "idle" /\ OperatorBecomes("report")) \/ UNCHANGED operatorVars
  /\ UNCHANGED <<stateVars, worldVars, journalVars, historyVars>>

(***************************************************************************)
(* The engine is killed: its lock file stays and needs explicit recovery.  *)
(* Killed while it appends an event, it may leave the event without the    *)
(* chain head, or a torn line: the journal no longer verifies.             *)
(***************************************************************************)
Crash ==
  /\ Crashes /\ pc # "idle"
  /\ EngineIdle /\ runLock' = "stale"
  /\ \/ UNCHANGED journalVars
     \/ /\ phase = "log" /\ ~wedged
        /\ wedged' \in BOOLEAN
        /\ logged' = logged \cup Recorded
  /\ UNCHANGED <<stateVars, worldVars, operatorVars, historyVars>>

RecoverRunLock ==
  /\ runLock = "stale"
  /\ runLock' = "free"
  /\ UNCHANGED <<stateVars, worldVars, engineVars, operatorVars, journalVars, historyVars>>

(***************************************************************************)
(* The operator's commands: they load the state, then commit with the      *)
(* revision they loaded, then write HARDENING.md.  None takes the run lock. *)
(***************************************************************************)
OperatorKinds == {"idle", "approve", "reject", "reset", "init", "init_stop", "report"}

ResetAllowed ==
  \/ Resets = "anytime"
  \/ Resets = "unlocked" /\ runLock # "held"

OperatorLoads(kind, s) ==
  /\ op = "idle"
  /\ op' = kind /\ opStep' = s /\ opRun' = runId /\ opFresh' = TRUE
  /\ UNCHANGED <<stateVars, worldVars, runLock, engineVars, journalVars, historyVars>>

BeginDecision == runId > 0 /\ \E s \in Gated, kind \in {"approve", "reject"} : OperatorLoads(kind, s)
BeginReset    == runId > 0 /\ ResetAllowed /\ OperatorLoads("reset", 0)
BeginInit     == runId = 0 /\ runId < MaxRuns /\ OperatorLoads("init", 0)
BeginReport   == Reports /\ runId > 0 /\ OperatorLoads("report", 0)

OperatorCommit ==
  /\ opFresh
  /\ fresh' = FALSE
  /\ UNCHANGED <<worldVars, runLock, pc, phase, cursorVars, wedged>>

\* recordApproval appends a record; the latest record of a subject decides.
RecordApproval ==
  /\ op \in {"approve", "reject"}
  /\ OperatorCommit
  /\ OperatorBecomes("report")
  /\ approval' = [approval EXCEPT ![opStep] = IF op = "approve" THEN "APPROVED" ELSE "REJECTED"]
  /\ granted' = IF op = "approve" /\ opRun = runId THEN granted \cup {opStep} ELSE granted
  /\ UNCHANGED <<logged, runId, status, digest, identity, planned, stageSt, stepSt, attempts, worked>>

\* handleResetCommand keeps the run id, the digest, the approvals and the journal.  History
\* starts over: the events of before the reset are about what it took back.
ResetsTo(steps) ==
  /\ op = "reset"
  /\ OperatorCommit
  /\ OperatorBecomes("report")
  /\ status' = "STOPPED"
  /\ stageSt' = [g \in Stage |-> "PENDING"]
  /\ stepSt' = steps
  /\ attempts' = [s \in Step |-> 0]
  /\ worked' = {} /\ logged' = {}
  /\ UNCHANGED <<runId, digest, identity, planned, approval, granted>>

\* Bug: the stages are reset, their steps are not.
ResetKeepsSteps == ResetsTo(stepSt)

ResetState == ResetsTo([s \in Step |-> "PENDING"])

\* dokion init, or reset of a project without a state: a state without stages, stopped by
\* a second update.  Init names no playbook, reset the one it could load.
InitState ==
  /\ op = "init"
  /\ OperatorCommit
  /\ op' = "init_stop" /\ opStep' = 0 /\ opRun' = 1 /\ opFresh' = TRUE
  /\ runId' = 1 /\ status' = "RUNNING" /\ identity' = commit
  /\ digest' \in Digest \cup {"unconfigured"}
  /\ UNCHANGED <<logged, planned, stageSt, stepSt, attempts, approval, historyVars>>

StopInitialState ==
  /\ op = "init_stop"
  /\ OperatorCommit
  /\ OperatorBecomes("report")
  /\ status' = "STOPPED"
  /\ UNCHANGED <<logged, runId, digest, identity, planned, stageSt, stepSt, attempts, approval, historyVars>>

\* The report is written, an update or the report threw, or the command is interrupted.
OperatorEnds ==
  /\ op # "idle"
  /\ OperatorBecomes("idle")
  /\ UNCHANGED <<stateVars, worldVars, runLock, engineVars, journalVars, historyVars>>

(***************************************************************************)
(* The world outside.                                                      *)
(***************************************************************************)
EditPlaybook ==
  /\ playbook' \in Digest \ {playbook}
  /\ UNCHANGED <<stateVars, commit, runLock, engineVars, operatorVars, journalVars, historyVars>>

CommitToRepository ==
  /\ commit' \in Commit \ {commit}
  /\ UNCHANGED <<stateVars, playbook, runLock, engineVars, operatorVars, journalVars, historyVars>>

Init ==
  /\ runId = 0 /\ status = "STOPPED" /\ digest = "unconfigured" /\ identity = "unread"
  /\ planned = FALSE
  /\ stageSt = [g \in Stage |-> "PENDING"]
  /\ stepSt = [s \in Step |-> "PENDING"]
  /\ attempts = [s \in Step |-> 0]
  /\ approval = [s \in Step |-> "NONE"]
  /\ playbook \in Digest /\ commit \in Commit
  /\ runLock = "free"
  /\ pc = "idle" /\ phase = "load" /\ fresh = FALSE
  /\ stg = 1 /\ at = 1 /\ att = 0 /\ seen = FALSE
  /\ loaded = "unconfigured" /\ ident = "unread"
  /\ op = "idle" /\ opStep = 0 /\ opRun = 0 /\ opFresh = FALSE
  /\ logged = {} /\ wedged = FALSE
  /\ worked = {} /\ granted = {}

EngineStep ==
  \/ EngineLoad \/ UpdateRefused
  \/ Initialize \/ ResumeRun \/ MarkTainted \/ MarkStale \/ CompleteRun
  \/ ExamineStage \/ StageRefused \/ OpenStage \/ MarkStageInapplicable \/ CloseStage
  \/ ExamineStep \/ StepRefused \/ MarkStepInapplicable \/ StartStep
  \/ InvokeCapability \/ CapabilityEnds \/ SucceedStep \/ FailStep \/ AwaitApproval
  \/ WriteReport \/ ReportRefused \/ LogEvent \/ LogRefused \/ LogInterrupted \/ Reconcile

OperatorStep ==
  \/ RunCommand \/ ResumeCommand \/ RecoverRunLock
  \/ BeginDecision \/ BeginReset \/ BeginInit \/ BeginReport
  \/ RecordApproval \/ ResetState \/ InitState \/ StopInitialState \/ OperatorEnds

Next == EngineStep \/ OperatorStep \/ Crash \/ EditPlaybook \/ CommitToRepository

Spec == Init /\ [][Next]_vars

\* The engine waits for a command of the playbook, with the run lock held.
AtCapability == pc = "working"

\* A started command of the engine keeps running: every other await is of a file operation
\* or of git.  A command of the playbook owes nothing: it has a timeout, but runCommand may
\* wait for its output forever (ProcessTree, CommandsEnd).  Nor do operators and crashes.
FairSpec == Spec /\ WF_vars(EngineStep /\ ~AtCapability)

(***************************************************************************)
(* Properties.                                                             *)
(***************************************************************************)
StateTypes ==
  /\ runId \in Nat /\ status \in RunStatus
  /\ digest \in Digest \cup {"unconfigured"} /\ identity \in Commit \cup {"unread"}
  /\ planned \in BOOLEAN
  /\ stageSt \in [Stage -> StageStatus]
  /\ stepSt \in [Step -> StepStatus]
  /\ attempts \in [Step -> Nat]
  /\ approval \in [Step -> Decision]

EngineTypes ==
  /\ runLock \in {"free", "held", "stale"}
  /\ pc \in Updates \cup Decides \cup {"idle", "reconcile"}
  /\ phase \in {"load", "commit", "report", "log"} /\ fresh \in BOOLEAN
  /\ stg \in 1..(NStages + 1) /\ at \in 1..(NSteps + 1) /\ att \in Nat /\ seen \in BOOLEAN
  /\ loaded \in Digest \cup {"unconfigured"} /\ ident \in Commit \cup {"unread"}

OperatorTypes ==
  op \in OperatorKinds /\ opStep \in Step \cup {0} /\ opRun \in Nat /\ opFresh \in BOOLEAN

HistoryTypes ==
  /\ playbook \in Digest /\ commit \in Commit
  /\ logged \subseteq ({"STEP_SUCCEEDED"} \X Step) \cup {<<"RUN_COMPLETED", 0>>}
  /\ wedged \in BOOLEAN
  /\ worked \subseteq Step /\ granted \subseteq Step

\* Every value a variable can take, and with it the schema of the state file: a stage is
\* never AWAITING_APPROVAL, the cursors never leave the playbook.
TypeOK == StateTypes /\ EngineTypes /\ OperatorTypes /\ HistoryTypes

\* A gated capability runs only in a run in which the operator approved it: an approval
\* given to an earlier run, or written with an outdated copy of the state, authorises nothing.
AuthorizedWork == worked \cap Gated \subseteq granted

\* While a capability runs, its step is the open one on disk, every earlier stage and every
\* earlier step of its stage is settled and so is everything it depends on: nothing that
\* succeeded is replayed and nothing overtakes, through resumes, crashes and decisions.
DeclaredOrder ==
  pc \in {"work", "working"} =>
    /\ stg \in Stage /\ at \in StepsOf(stg)
    /\ stepSt[at] = "IN_PROGRESS" /\ status = "RUNNING"
    /\ \A g \in 1..(stg - 1) : stageSt[g] \in Closed
    /\ \A s \in First[stg]..(at - 1) : stepSt[s] \in Closed
    /\ \A d \in StepNeeds[at] : stepSt[d] \in Closed

\* A completed run settled every stage, and a step it counts as a success of a succeeded
\* stage ran its capability in this very run.
CompletedIsEarned ==
  status = "COMPLETED" =>
    \A g \in Stage :
      /\ stageSt[g] \in Closed
      /\ stageSt[g] = "SUCCEEDED" =>
           \A s \in StepsOf(g) :
             \/ stepSt[s] = "SKIPPED_INAPPLICABLE"
             \/ stepSt[s] = "SUCCEEDED" /\ s \in worked \cup Fixer

\* nextExecutionAttempt's own assertion: an active step has an execution attempt.
ActiveHasAttempt == \A s \in Step : Active(s) => attempts[s] >= 1

\* A run that stopped says at which step: whoever reads AWAITING_USER finds the step that
\* asks, in a stage that is open, and a FAILED or BLOCKED run has a step (or stage) that is.
PausedForAReason ==
  /\ status = "AWAITING_USER" =>
       \E g \in Stage, s \in Step :
         s \in StepsOf(g) /\ stepSt[s] = "AWAITING_APPROVAL" /\ stageSt[g] = "IN_PROGRESS"
  /\ status = "FAILED" => \E s \in Step : stepSt[s] = "FAILED"
  /\ status = "BLOCKED" => \/ \E s \in Step : stepSt[s] = "BLOCKED"
                          \/ \E g \in Stage : stageSt[g] = "BLOCKED"

\* While a capability runs, the playbook it was read from is the one the run is pinned to.
PinnedPlaybook == pc \in {"work", "working"} => digest = loaded

\* What the journal says of this run is what the state says: a step it calls succeeded is
\* SUCCEEDED, a run it calls completed is COMPLETED.  Refused updates leave no trace in it.
LoggedIsTrue ==
  /\ \A s \in Step : <<"STEP_SUCCEEDED", s>> \in logged => stepSt[s] = "SUCCEEDED"
  /\ <<"RUN_COMPLETED", 0>> \in logged => status = "COMPLETED"

\* A completed, tainted or stale run is never touched again; only a new run replaces it.
TerminalRunStays ==
  [][runId' = runId /\ status \in Terminal
       => (UNCHANGED <<status, stageSt, stepSt>>)]_vars

\* A completed run has no step that failed, is blocked or was never settled.
CompletedWithoutFailure == status = "COMPLETED" => \A s \in Step : stepSt[s] \in Closed

\* Every command of the engine comes to an end and gives the run lock back, unless a command
\* of the playbook never returns.
CommandsEnd == ((runLock = "held") ~> (runLock # "held")) \/ <>[]AtCapability

(***************************************************************************)
(* The engine implements RunLifecycle: a step is done when it is settled   *)
(* itself or its stage is.                                                 *)
(***************************************************************************)
Settled == {s \in Step : \/ stepSt[s] \in Closed
                        \/ \E g \in Stage : s \in StepsOf(g) /\ stageSt[g] \in Closed}

Lifecycle == INSTANCE RunLifecycle WITH run <- runId, done <- Settled

ImplementsLifecycle == Lifecycle!Spec

=============================================================================
