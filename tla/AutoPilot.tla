------------------------------ MODULE AutoPilot ------------------------------
(***************************************************************************)
(* The automatic runner of a playbook: runToAbsoluteSuccess of             *)
(* src/autopilot/auto-playbook-runner.ts with selectNextAction of          *)
(* next-action.ts and executeAutoresearchStepLoop of                       *)
(* src/autoresearch/iteration-loop.ts.                                     *)
(*                                                                         *)
(* One loop, whose callbacks do the work: they execute a step, run its     *)
(* verification and guard commands, verify it independently, repair it and *)
(* roll it back.  A callback may throw, and some of them are not caught.   *)
(* The model keeps, beside what the loop remembers, what the callbacks did *)
(* to the repository.  A receipt is true, and a callback that throws       *)
(* changed nothing: the loop has no other way to know.                     *)
(***************************************************************************)
EXTENDS Integers, Sequences, FiniteSets

CONSTANTS
  Playbook,     \* its steps, in order
  NoStep,       \* not a step
  DependsOn,    \* per step, the steps that must have succeeded
  Target,       \* targetCompletion, in percent
  Enabled,      \* whether the circuit breaker is enabled
  MaxTurns,     \* maxTurns
  MaxCost,      \* maxCostDollars, in cents
  MaxFailures,  \* maxConsecutiveFailures
  MaxForeign    \* bound: steps of the given state that the playbook has not

StepIds == {Playbook[i] : i \in DOMAIN Playbook}

ASSUME PilotAssumption ==
  /\ Playbook \in Seq(StepIds) /\ Playbook # <<>> /\ NoStep \notin StepIds
  /\ DependsOn \in [StepIds -> SUBSET StepIds]
  /\ Target \in 0..100 /\ Enabled \in BOOLEAN
  /\ {MaxTurns, MaxCost, MaxFailures, MaxForeign} \subseteq Nat

VARIABLES
  steps,          \* per step of the playbook, its status in the state
  foreign,        \* SUCCEEDED steps of the state that the playbook has not
  runStatus,      \* status of the run that was given
  turns,          \* turns begun
  failures,       \* consecutiveFailures
  cost,           \* totalCost, in cents
  loop,           \* how far the loop is
  action,         \* the step it is at
  stepReceipt,    \* of the attempt: [executed, changed]
  repairReceipt,  \* of the repair
  breaker,        \* circuitBreakerStatus
  report,         \* what it returned: [completed, breaker]
  repository      \* per step, what its changes in the repository are

accounts == <<turns, failures, cost>>
callbacks  == <<action, stepReceipt, repairReceipt>>
given    == <<foreign, runStatus>>
pilotVars == <<steps, given, accounts, loop, callbacks, breaker, report, repository>>

Nothing   == [executed |-> FALSE, changed |-> FALSE]
Receipts  == [executed : BOOLEAN, changed : BOOLEAN]
NoReport  == [completed |-> FALSE, breaker |-> "NONE"]

Completed == {s \in StepIds : steps[s] = "SUCCEEDED"}

\* calculateCompletionPercentage counts what the state has, of the playbook or not.
TargetReached == 100 * (Cardinality(Completed) + foreign) >= Target * Len(Playbook)

PilotInit ==
  /\ steps \in [StepIds -> {"PENDING", "SUCCEEDED", "FAILED"}]
  /\ foreign \in 0..MaxForeign
  /\ runStatus \in {"IN_PROGRESS", "COMPLETED", "AWAITING_USER", "STOPPED"}
  /\ turns = 0 /\ failures = 0 /\ cost = 0
  /\ loop = "loop"
  /\ action = NoStep /\ stepReceipt = Nothing /\ repairReceipt = Nothing
  /\ breaker = "HEALTHY" /\ report = NoReport
  /\ repository = [s \in StepIds |-> "untouched"]

Report(completed, status) ==
  /\ loop' = "reported"
  /\ report' = [completed |-> completed, breaker |-> status]
  /\ UNCHANGED <<steps, given, callbacks, breaker, repository>>

\* An exception of a callback that is not caught.
Throws ==
  /\ loop' = "threw"
  /\ UNCHANGED <<steps, given, accounts, callbacks, breaker, report, repository>>

(***************************************************************************)
(* A turn begins.                                                          *)
(***************************************************************************)
ReportCompletion ==
  /\ loop = "loop" /\ turns < MaxTurns /\ TargetReached
  /\ Report(TRUE, breaker)
  /\ UNCHANGED accounts

Tripped == Enabled /\ (cost >= MaxCost \/ failures >= MaxFailures)

\* Also because the time is over, which it may be at any turn.
Trip ==
  /\ Enabled
  /\ loop = "loop" /\ turns < MaxTurns /\ ~TargetReached
  /\ Report(FALSE, "TRIPPED")
  /\ UNCHANGED accounts

TurnsAreOver ==
  /\ loop = "loop" /\ turns = MaxTurns
  /\ Report(TargetReached, breaker)
  /\ UNCHANGED accounts

MayTurn == loop = "loop" /\ turns < MaxTurns /\ ~TargetReached /\ ~Tripped

\* The first step of the playbook that has not succeeded.
FirstOpen == CHOOSE i \in DOMAIN Playbook :
  /\ Playbook[i] \notin Completed
  /\ \A j \in 1..(i - 1) : Playbook[j] \in Completed

ActionSelected ==
  /\ runStatus = "IN_PROGRESS"
  /\ Completed # StepIds
  /\ DependsOn[Playbook[FirstOpen]] \subseteq Completed

StopReason ==
  /\ MayTurn /\ ~ActionSelected
  /\ turns' = turns + 1
  /\ Report(FALSE, breaker)
  /\ UNCHANGED <<failures, cost>>

\* The approval policy FROM_PLAYBOOK allows every execution.
SelectNextAction ==
  /\ MayTurn /\ ActionSelected
  /\ turns' = turns + 1
  /\ action' = Playbook[FirstOpen] /\ stepReceipt' = Nothing /\ repairReceipt' = Nothing
  /\ loop' = "execute"
  /\ UNCHANGED <<steps, given, failures, cost, breaker, report, repository>>

(***************************************************************************)
(* The callbacks.                                                          *)
(***************************************************************************)
Changes(r) ==
  repository' = IF r.changed THEN [repository EXCEPT ![action] = "unverified"] ELSE repository

\* onExecuteStep; an exception of it is caught, and one that is not there counts as one.
ExecuteStep ==
  /\ loop = "execute"
  /\ \E r \in Receipts :
       /\ stepReceipt' = r
       /\ Changes(r)
       /\ loop' = IF r.executed THEN "verify" ELSE "repair"
  /\ UNCHANGED <<steps, given, accounts, action, repairReceipt, breaker, report>>

Verified ==
  /\ repository' = [repository EXCEPT ![action] = IF @ = "unverified" THEN "verified" ELSE @]
  /\ UNCHANGED <<given, callbacks, report>>

RecordSuccess ==
  /\ steps' = [steps EXCEPT ![action] = "SUCCEEDED"]
  /\ failures' = 0 /\ cost' = cost + 2
  /\ UNCHANGED turns
  /\ loop' = "loop"

\* The verification command, the guard and the independent verification pass.
VerificationPasses ==
  /\ loop \in {"verify", "verify repair"}
  /\ Verified
  /\ RecordSuccess
  /\ breaker' = IF loop = "verify repair" THEN "RECOVERED" ELSE breaker

\* One of them fails, or its callback is not there.
VerificationFails ==
  /\ loop \in {"verify", "verify repair"}
  /\ loop' = IF loop = "verify" THEN "repair" ELSE "failed"
  /\ UNCHANGED <<steps, given, accounts, callbacks, breaker, report, repository>>

\* Nobody catches what onRunShellCommand and onShadowVerify throw.
VerificationThrows == loop \in {"verify", "verify repair"} /\ Throws

\* onSelfHealingRepair; its exceptions are caught.
SelfHealingRepair ==
  /\ loop = "repair"
  /\ \E r \in Receipts :
       /\ repairReceipt' = r
       /\ Changes(r)
       /\ loop' = IF r.executed THEN "verify repair" ELSE "failed"
  /\ UNCHANGED <<steps, given, accounts, action, stepReceipt, breaker, report>>

RecordFailure ==
  /\ loop = "failed"
  /\ steps' = [steps EXCEPT ![action] = "FAILED"]
  /\ failures' = failures + 1 /\ cost' = cost + 1
  /\ UNCHANGED <<turns, given, callbacks, breaker>>

\* Bug: only what the repair changed is rolled back.
NothingRepaired ==
  /\ loop = "failed" /\ ~repairReceipt.changed
  /\ RecordFailure
  /\ loop' = "loop"
  /\ UNCHANGED <<report, repository>>

NothingToRollBack ==
  /\ loop = "failed" /\ ~stepReceipt.changed /\ ~repairReceipt.changed
  /\ RecordFailure
  /\ loop' = "loop"
  /\ UNCHANGED <<report, repository>>

\* onRollbackStep confirms that the changes of the attempt and of its repair are undone.
RollbackConfirmed ==
  /\ loop = "failed" /\ (stepReceipt.changed \/ repairReceipt.changed)
  /\ RecordFailure
  /\ repository' = [repository EXCEPT ![action] = "untouched"]
  /\ loop' = "loop"
  /\ UNCHANGED report

\* It does not, or throws, or is not there.
RollbackNotConfirmed ==
  /\ loop = "failed" /\ (stepReceipt.changed \/ repairReceipt.changed)
  /\ RecordFailure
  /\ report' = [completed |-> FALSE, breaker |-> "TRIPPED"]
  /\ loop' = "reported"
  /\ UNCHANGED repository

PilotNext ==
  \/ ReportCompletion \/ Trip \/ TurnsAreOver \/ StopReason \/ SelectNextAction
  \/ ExecuteStep \/ VerificationPasses \/ VerificationFails \/ VerificationThrows
  \/ SelfHealingRepair \/ NothingToRollBack \/ RollbackConfirmed \/ RollbackNotConfirmed

PilotSpec == PilotInit /\ [][PilotNext]_pilotVars

------------------------------------------------------------------------------
PilotTypeOK ==
  /\ steps \in [StepIds -> {"PENDING", "SUCCEEDED", "FAILED"}]
  /\ foreign \in 0..MaxForeign
  /\ turns \in 0..MaxTurns /\ {failures, cost} \subseteq Nat
  /\ loop \in {"loop", "execute", "verify", "repair", "verify repair", "failed", "reported", "threw"}
  /\ action \in StepIds \cup {NoStep}
  /\ {stepReceipt, repairReceipt} \subseteq Receipts
  /\ breaker \in {"HEALTHY", "RECOVERED"}
  /\ report \in [completed : BOOLEAN, breaker : {"NONE", "HEALTHY", "RECOVERED", "TRIPPED"}]
  /\ repository \in [StepIds -> {"untouched", "unverified", "verified"}]

\* No turn leaves a change behind that no verification passed on, whoever of the attempt and
\* its repair made it and whatever they confirmed; the next step starts from a repository without
\* one.  The exceptions are a rollback that is not confirmed, which the report says, and an
\* exception of a verification, after which there is no report (runToAbsoluteSuccess).
NothingUnverifiedIsLeft ==
  loop = "loop" \/ (loop = "reported" /\ report.breaker # "TRIPPED")
  => \A s \in StepIds : repository[s] # "unverified"
==============================================================================
