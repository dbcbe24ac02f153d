# TLA+ models of Dokion

Dokion runs a *playbook* (stages of steps, each step a capability: an analysis, a remediation or a
verification) over a repository, pauses for the user's approvals, survives interruption, and keeps
everything it knows in files under `.dokion/`. The implementation is TypeScript under `src/src`;
paths below are relative to it. This directory holds TLA+ modules of its core, TLC configurations
that check them on small instances, and proofs that TLAPS checks.

## The system

| part | state it keeps | operations | works with |
|---|---|---|---|
| execution engine (`engine/runtime-engine.ts`, `engine/execution-engine.ts`) | `.dokion/state.json` through the state store; stage and step cursors and the loaded playbook in memory | run, resume, and in them: initialise, taint, stale, open and close a stage, start, succeed, fail, await, skip a step, complete, reconcile | everything below |
| operator's commands (`cli.ts`, `cli/handlers/reset.ts`, `approvals/approval-store.ts`) | the same state file | approve, reject, reset, init, report | state store, report; only some take the run lock |
| state store (`state/state-store.ts`) | `state.json`, `state.transition.lock` | load, initialize, update (compare-and-swap on `revision`) | atomic files |
| atomic files (`core/json.ts`, `core/atomic-file.ts`) | `<file>.tmp`, `<file>.tmp.meta.json`, quarantine | write through a temporary file; recover what a killed writer left | every JSON and report file |
| event journal (`state/event-log.ts`, `state/event-chain.ts`) | `events.ndjson`, `events.head.json`, append lock | append under a lock after verifying the chain; verify | atomic files |
| run lock (`state/run-lock.ts`) | `run.lock.json`, archive, recovery log | acquire, release, recover when stale | engine, verify, autopilot |
| command capabilities (`invocation/command-capability-invoker.ts`, `state/checkpoint.ts`, `artifacts/run-artifact-store.ts`) | per attempt: request, side-effect checkpoint, output directory, receipt; per output: its binding to one invocation | invoke; begin, complete and recover a side effect; publish an artifact | engine, verify, command runner |
| remediation (`engine/capability-runner.ts`, `validation/*`, `findings/finding-store.ts`) | finding files, a snapshot in memory | repair one finding after the other: approve, snapshot, repair, validate, verify, roll back | approvals, command runner |
| command runner (`engine/command-runner.ts`, `execution/process-controller.ts`) | a process group, spooled output | run with a timeout, terminate the tree | operating system |
| verification, coverage and release gates (`verification/*`, `readiness/*`) | gates and coverage in the state | verify, reconcile, evaluate | state store, command runner |
| autopilot (`autopilot/*`, `autoresearch/iteration-loop.ts`) | counters and a state in memory | turn: choose an action, execute, verify, repair, roll back | callbacks |
| registry cache (`registry/artifact-cache.ts`, `registry/artifact-lock.ts`) | content-addressed objects, lock files | pull under a per-digest lock | network |
| authoring, inspection, rendering | none across calls | documents, plans, reports | - |

`PROJECT.json` lists every part with its status. What is hard in this system, and where tests hardly
reach, is listed there as hazards; in short:

* processes share files, not memory. The engine takes the run lock, but approve, reject, reset, init
  and report do not; all of them rely on the compare-and-swap of the state store;
* every `await` is a point where the process may be killed, and the recovery of temporary files, of
  locks and of started side effects runs while other commands are alive;
* one logical step is several writes: state, report, journal line, chain head. Each may be refused;
* a resume starts over at the first stage and relies on statuses alone to know what is done.

For each part, what makes it correct: the engine works in declared order, only under the pinned
playbook and only with the approvals the policy asks for, and completes only what it earned; the
store loses no acknowledged update; the journal is one chain and an acknowledged event is covered by
its head; a lock has one owner; a repair that is not verified is rolled back; a side effect is not
started twice; gates are not passed by stale results; loops end within their budgets.

## Modules

| module | models | about |
|---|---|---|
| `RuntimeEngine` | `engine/*`, the operator's commands, the outside world | the state file, the engine's cursors, the run lock, the journal as far as the engine notices it |
| `RunLifecycle` | - | what the engine promises: steps of a run are settled one after the other, never back except by a reset or a new run |
| `StateStore` | `state/state-store.ts`, `core/json.ts`, `core/atomic-file.ts` | the file operations behind one update |
| `StateRegister` | - | what the store promises: an atomic compare-and-swap register |
| `EventJournal` | `state/event-log.ts`, `state/event-chain.ts` | the append lock, the journal and the head of its chain |
| `Remediation` | `engine/capability-runner.ts`, `validation/repair-*.ts`, `findings/finding-store.ts` | one remediation step: finding statuses, snapshots, validation, rollback |
| `Invocation` | `invocation/*`, `state/checkpoint.ts`, `artifacts/run-artifact-store.ts` | all attempts at one step whose capability is a command |
| `RunLock` | `state/run-lock.ts` | the file operations behind acquiring, releasing and recovering the run lock |
| `Gates` | `readiness/release-gates.ts`, `readiness/coverage.ts`, `verification/verify-run.ts`, the end of run and resume | how gates and coverage are evaluated and recorded while others change the state |
| `ProcessTree` | `engine/command-runner.ts`, `execution/process-controller.ts`, `execution/output-spool.ts` | one external command and the processes it starts |
| `RegistryCache` | `registry/artifact-cache.ts`, `registry/artifact-lock.ts` | the pulls of one artifact |
| `AutoPilot` | `autopilot/auto-playbook-runner.ts`, `autopilot/next-action.ts`, `autoresearch/iteration-loop.ts` | the loop that runs a playbook through callbacks |
| `MCRuntimeEngine`, `MCRemediation`, `MCStateStore`, `MCEventJournal` | - | instances of one module |
| `MCProtocolsSafe`, `MCProtocolsLive` | - | suites of protocols that share nothing, see Runs |
| `*_proofs` | - | theorems about the module of that name; `EngineOrder_proofs` about the order of work in RuntimeEngine, on top of `RuntimeEngine_proofs`; `Protocols_proofs` about RunLock, ProcessTree, Gates, AutoPilot and the composition in MCProtocolsSafe |

### RuntimeEngine

The variables of the state file are those of `.dokion/state.json`: `runId`, `status`, `digest` (the
playbook the run is pinned to), `identity` (of the repository), the statuses and attempts of stages
and steps, and `approval`, the latest decision per step. `planned` says whether the file lists the
stages of the playbook: the state that `init` writes has none. The engine is a program counter `pc`
with the `phase` of its current update: every update is load, commit, report, event, and every one of
these is a step of its own, so that another process, a kill or an exception may come in between. The
revision is abstracted to `fresh` and `opFresh`, "the copy I loaded is still the stored one"; a commit
clears the flag of the other process. `Throws` is what every exception comes to: the `finally` clause
releases the lease. The capability of a step is two actions, begin and end, with every outcome the
runner can report. `worked`, `granted` and `logged` are history, for the properties.

An instance is given by the playbook (stages and their steps, dependencies, applicability policies,
failure policies, which steps need an approval, which are remediations) and by what the outside may
do (edits, commits, resets, reports, kills). Whether an applicability condition holds is a choice
wherever a condition is declared.

### StateStore

One process runs one call at a time, `update` or the recovery of temporary files, and every file
operation of it is an action: exclusive creation of the lock file, its record, the read of the lock
and of the state, the ownership check, temporary file, metadata, rename, removal, and the `catch` and
`finally` clauses. Locks carry the call that owns them, since a token is drawn per call. `Kill` leaves
the files as they are. Recovery is the scan, the read of the metadata, the two digest comparisons and
the two renames into quarantine, each on what is there by then.

### EventJournal

Processes append events of several runs. The lock file, its record, the removal of a dead owner's
lock in two steps, the verified read, the line and the head are separate steps. Heads are written
atomically; a sweep of temporary files by another command makes a live head write throw, before or
after its rename.

### Remediation

It refines what `CapabilityEnds` of RuntimeEngine leaves open for a remediation: one attempt goes
through the findings that are still pending, and for each of them asks for approval, marks it, takes
the snapshot, runs the repair command, validates, verifies, and settles the finding or rolls back. The
repository holds at each path at most one *version*: who wrote it (a finding, whose command did, or
the user) and whether it silences a check. A command may write any path over what is there, with
content of its own or with what the user once wrote (a checkout), and remove any file; the user edits at
any time. Which paths are tests, in scope or ignored by git is given; what git ignores is outside of
every snapshot. `Approvals` are chosen when the attempt begins, because the code reads the state it was
started with. An exception and a kill leave the same behind and are one action, `Interrupt`, which may
also fall between the removal and the write of a file that is being restored. `base`, `edited`,
`tests` and `interrupted` are history.

It is the validation of the default policy (scope, suppressions, deleted tests, optionally a
regression test) with all of its flags on and without `max_diff_lines`, which counts lines.
Verification commands are assumed not to write to the repository. What the user changes while a repair
runs counts as the repair's: it is validated and rolled back with it. The validation asks whether a
test was added or modified, not whose it is: a repair that overwrites the regression test of an
earlier one passes, and even counts as having brought its own. So the content of a regression test
does not last, only that there is a file (`TestsStay`).

### Invocation

An invocation is one attempt at a step; its identity is a digest of run, stage, step and attempt, so
here it is the attempt. Its request, checkpoint, output directory and receipt are functions of it, and
`published` is the invocation that an output's descriptor names. Engine and verify hold the run lock in
turn and are one program counter with a `holder`. They differ: the engine recovers started
side effects first and invokes the recorded attempt; verify recovers nothing and passes no attempt,
which makes it the first. A command is a process of its own and goes on when its caller is killed.
What the code does between two writes is one step each, and any of them may throw.

### RunLock

What RuntimeEngine does in one step when it takes, releases or recovers the run lock. A process is one
command: `stage` is how far it is, `lockFile` whose file is there, `recorded` whether its record can
be read yet. A token is drawn per acquisition, so the process stands for it. Every removal is by path:
it removes what is there by then. A recovery reads the record, copies the file (which reads it again),
appends to the recovery log and removes, four steps. The file's other states (foreign host, torn
record) end a command without a change and are `AcquireRefused` and `RecoveryRefused`.

### Gates

RuntimeEngine ends where `run` and `resume` return the promise of `reconcileState`. They do so without
awaiting it inside of their `try`, so the `finally` clause releases the run lock while gates are being
evaluated: `Reconcile` there gives the lock back at once, and Gates has what goes on without it. A
caller works (one step, `Work`), evaluates and stores. The file of a gate's command and its record
are two writes (`stored` maps an output to what its record says); the spool of a command refuses an
output path that exists. `verify` holds the lock, runs every command again and writes to files of its
own. Coverage and conditions are evaluated on the `copy`, as in the code.

### ProcessTree

The command and its descendants fork, exit, leave the group, ignore SIGTERM, and may be held by the
kernel; which streams a child inherits is a choice. Beside them runs the code: the race between exit,
timeout, cancellation and a failing stream, then the escalation (look, SIGTERM, grace, SIGKILL, wait),
then the end of the spools. A spool ends when nobody holds its pipe any more. Signals sent to a group
reach those that are in it at that moment, but for processes of another user (`Foreign`): when the
group has no others the signal is refused (EPERM) and the termination throws.

### RegistryCache

One object: `artifact` and `evidence` (who published them), the temporary files, the lock, and per
pull its step and what it remembers. A hard link gives a file two names until the temporary one is
gone, which `pathState` takes for corruption, so the number of names matters and is derived from
`temps`. A lock is old or not at the reader's choice (`SlowOwners`) when its owner is at work, since
only its age is looked at. With `Faults` every file operation may fail, and what follows is the code's:
a look that fails ends the pull (`LookFails`), a failing read of what is there is reported as
`REGISTRY_CACHE_CORRUPT` (`ReadFails`), and a look that fails in the clean-up counts as missing, so that
the evidence is taken back (`CatchStateFails`). `unread` and `faults` are history: which pulls could not
read, and what befell any of them, `Misfortunes`. An index is the index as one source names it, since
the evidence contains the source's id, name and transport beside the digest (`registry/pull-evidence.ts`).

### AutoPilot

The callbacks do the work, so the model has, beside the loop's counters, what they did to the
`repository`. A receipt says whether the callback executed and changed something; that it is true, and
that a callback which throws changed nothing, is assumed, because the loop has no other way to know;
for callbacks that change files and then throw, NothingUnverifiedIsLeft says nothing.
Exceptions that nobody catches end the loop (`threw`).

## Runs

| run | instance | shows |
|---|---|---|
| `engine_order` | two stages of three steps, all policies, one remediation that asks per finding, kills, resets between commands | DeclaredOrder, CompletedIsEarned, ActiveHasAttempt, PausedForAReason, LoggedIsTrue; the engine implements RunLifecycle |
| `engine_approval` | two gated steps, two runs, two versions of the playbook, decisions at any time | TypeOK, AuthorizedWork, PinnedPlaybook, TerminalRunStays |
| `engine_live` | reports, sweeps, resets and commits to the repository at any time | CommandsEnd under weak fairness, unless a command of the playbook never returns |
| `engine_reset_race` | resets at any time | **violated**: CompletedWithoutFailure |
| `engine_hidden_failure` | a stage with a condition | **violated**: CompletedWithoutFailure |
| `store_stale_lock` | three processes, kills | **violated**: AcknowledgedStays |
| `journal_swept` | nobody is killed | **violated**: IntactUnlessKilled |
| `repair_rollback` | two findings, four paths, six versions, two attempts, interruptions, decisions and edits at any time | TypeOK, RejectedIsRolledBack, ForbiddenIsRemoved, RollbackIsExact, TestsStay, SucceededIsSettled, SettledStays, AttemptsEnd |
| `repair_retry` | the same without approvals | **violated**: RolledBackBetweenAttempts |
| `protocols_live` | store: two processes, kills; command: three processes, one of them unkillable, one of another user, daemons, failing output, cancellation | OneWriter, NothingLeftBehind, CallsEnd, the store implements StateRegister; StoppedIsGone, EndsUnlessOutputIsHeld |
| `command_hangs` | a command and one child, nothing fails | **violated**: TimeoutStaysActive |
| `protocols_safe` | journal: two processes, two runs, three events; invocation: two attempts, two outputs; run lock: five commands; cache: three pulls; gates: three commands, two runs; autopilot: three steps, five turns; kills everywhere | TypesOK; OneChain, AcknowledgedIsCovered, NothingAfterABreak; EngineStartsOnce, IntentThenResult, ReceiptIsTrue, SucceededIsPublished; ExclusiveUnlessRecoveredTwice, ArchiveNamesTheLock; PulledStaysWhole, CorruptOnlyAfterAFault; VerdictIsEvidenced, RecordedGatesAreCurrent; NothingUnverifiedIsLeft |

The two suites put protocols side by side that have no file and no variable in common. Their product
would say nothing that the parts do not: `focus`, which never changes, picks whose steps a behaviour
has, the other variables keep one value, and the state space is the sum of the parts. What is
composed is composed in its module: RuntimeEngine has the engine with the operator's commands and the
run lock, Gates has the lock with evaluations and the operator, Invocation has the engine with verify
and the commands that outlive them.

Bounds. `MaxRuns` and `MaxAttempts` bound how often a run is started and a step attempted: every attempt
starts from a state that the statuses describe completely, so a second one shows what a third would.
`MaxRevision` lets every process update twice against the other. `MaxEvents` of three (four in
`journal_swept`) lets one run's events stand between two of another. Two processes are enough for a lock
and its compare-and-swap; a third one is needed to have two that both find the lock of a killed one, and
there the code fails (`store_stale_lock`): with kills, the properties of the store and of the journal
hold for two processes and not for three. Without kills they hold for any number; both is proved.

Two findings are what it takes for a repair or a rollback to meet an earlier repair, and two attempts
for one to meet an interruption. The six versions are a test of the user's, in which a repair may put a
directive, a test that both repairs write, a path out of scope and one that git ignores. Two attempts
are what it takes for an invocation to meet the outputs of another, two outputs for one to be published
without the other; a reset leads back to the first attempt as often as it happens. The theorems about
all modules have no such bounds.

For the run lock five commands are the smallest number in which it fails to exclude: one is killed, two
recover its lock, and two others acquire it, one after either removal. Three pulls let one rob another
of its lock and a third one find what both left; two of them run where the pulls read different indexes.
Three commands let a run and a verification overlap an evaluation that goes on without the lock, and two
runs let one replace the other meanwhile; `MaxRevision` of two lets the operator come in twice. Three
processes of a command let one fork between the signals while another has left the group. Three steps
with a dependency, five turns and two consecutive failures let a step fail, be repaired, succeed and
trip the breaker. `MaxForeign` lets the given state have a step that the playbook has not.

Fairness. `FairSpec` of RuntimeEngine is weak fairness of the engine's next step except at a command of
the playbook (`AtCapability`): every other `await` of the engine is of a file operation or of git, which
are assumed to end. A command has a timeout, but finding 6 shows that its runner may wait for ever,
with the run lock held; so a command of the playbook owes nothing, and `CommandsEnd` says that every
run gives the lock back or stays at a command for ever. The operator, the outside and kills owe
nothing. In StateStore a live process keeps running its call
(weak fairness per process), and only the give-up after the deadline needs strong fairness, because
the lock may be there and gone again at every look. In Remediation a step of an attempt is awaited
work, but for the repair and the verification command (`AtCommand`), which owe nothing for the same
reason: `AttemptsEnd` has the same exception. Neither do the user, the command's writes and
interruptions. In ProcessTree the event loop is fair (the timer fires, the escalation goes
on, a pipe without a writer comes to its end) and so is death: who got a signal that it does not
survive dies, unless it is one of `Unkillable`. Each of these steps happens a bounded number of times
in a behaviour, so that fairness of their disjunction is fairness of each. The processes of the
command owe nothing: they may run, fork and hold pipes for ever.

## Findings

1. *reset takes no run lock* (`cli/handlers/reset.ts:29`). A reset between two steps of a running
   engine puts every step back to PENDING; the engine goes on and completes the run. The lock
   operation `reset` exists in `state/run-lock.ts` and is never acquired by reset.
2. *an inapplicable stage hides a failed step* (`engine/runtime-engine.ts:330`). On resume the stage
   of a failed step is found inapplicable; the stage counts as settled and the run completes with the
   step still FAILED.
3. *two processes remove the lock of a dead one* (`state/state-store.ts:161`): a lost update.
4. *a sweep breaks the journal* (`core/atomic-file.ts`, called by init and reset without a lock): the
   line stays without its head and every later append is refused.
5. *an interrupted repair is not rolled back* (`engine/capability-runner.ts:404`). The command of a
   repair that times out makes `runCommand` throw; nothing restores the snapshot. The next attempt
   takes what it left behind for its base, so that it is neither validated nor rolled back. SPEC.md
   asks for a rollback between attempts.
6. *a command that exits and leaves a child hangs its runner* (`engine/command-runner.ts:408`). The
   exit wins the race, the timer is cleared, the group is left alone, and both spools are awaited. The
   test `tests/execution/secure-command-runner.test.ts:174` says "keeps timeout active until
   descendant-held output streams close".

Without a run of their own, first those of the gates. `run` and `resume` return `reconcileState(state)`
without `await` (`engine/execution-engine.ts:23`, `:44`), so the lock is gone while gate commands run,
and `docs/backlog/state-execution-security.md:20` asks that "a second live process is blocked"; the
store's compare-and-swap is what keeps `RecordedGatesAreCurrent` true, at the price that one of two
evaluations ends with `STATE_REVISION_CONFLICT` after its work. The gate `blocking_lanes_assigned` is
evaluated on the coverage of the evaluation before (`readiness/release-gates.ts:48`), so a first run
fails it. A gate whose command failed cannot be evaluated again in the same run except by verify,
because its output path exists and the spool refuses it: every later resume rejects. A gate that passed
is taken over by later reconciliations, whatever has changed in the tree. A reset keeps gates and
coverage. A run is COMPLETED although gates are FAIL (SPEC.md:635 lists them as completion criteria);
`evaluateCompletion`, which would look, has no caller.

Of the other parts: a pull of an artifact that an older index listed, or the same index under another
source, ends in `REGISTRY_CACHE_CORRUPT`, since the evidence names both (`registry/artifact-cache.ts:215`),
and so does one that for a moment cannot read a whole object (`:246`); a pull that cannot look at the
artifact it published takes the evidence of it away (`:348`); a pull killed before its temporary
artifact is unlinked leaves two names, and pulls of it are corrupt until the temporary file is
a day old. Two calls of `recoverStaleRunLock` at once remove a live lock, and two commands run together
(`state/run-lock.ts:200`); both recoveries are in the log. `recoverStaleRunLock` and
`AutoPlaybookRunner` have no caller among the commands (`dokion autopilot` runs a simulation). AutoPilot
does not catch exceptions of `onRunShellCommand` and `onShadowVerify`, which leave the changes of the
attempt behind without report or rollback, counts SUCCEEDED steps that the playbook does not have
towards completion, and never reads `maxRetriesPerStep`.

In the engine and around: attempts of a step are not limited (`engine/attempt-policy.ts:27`), a reset
forgets that the run was TAINTED (`cli/handlers/reset.ts:33`), and two commands that write the report at
the same moment make one of them throw (`core/json.ts:38`), which the model has as `ReportRefused`.
README.md says that `dokion verify` does not execute capability commands; it calls
`executeStepVerification`, which invokes the command of the step as its first attempt
(`verification/step-verification.ts:62`). It is a re-use of the receipt when there is one; if the
engine was killed in that attempt the checkpoint is still STARTED and the command runs a second time,
which is why `EngineStartsOnce` speaks of the engine. An output that is once bound to an invocation
stays bound: after a kill between the first output and the receipt, or a failed verification command
after a success, every later attempt ends in `ARTIFACT_CONFLICT` until there is a new run (in the
second case a reset leads back to the receipt). An attempt
whose outcome is unknown is not replayed, but the next attempt at the step is a new invocation and
starts the command, also while the command that outlived the killed engine is still at work.

## Proofs

TLAPS proves every property that a passing run checks, except the four liveness properties, as a
theorem of the specification for every value of the constants. `PROJECT.json` lists the theorems with
the properties they state. What follows is the argument of each: the inductive invariant, and why the
property alone is not one.

*RuntimeEngine* (`RuntimeEngine_proofs`, `EngineOrder_proofs`).

* `TypeCorrect`: the types, and that the engine's cursors never leave the playbook. `TypeOK` alone is
  not inductive: after `stage_open` the engine indexes `First[stg]`, which needs `CursorOK`, that the
  program counter determines where the cursors are.
* `Authorization`: `AuthorizedWork`. The strengthening `GrantsOK` follows a decision from the
  operator's load to the commit (the compare-and-swap makes it a decision of the current run), to the
  copy the engine reads at `StartStep`, and to the capability two steps later.
* `RunsArePinned`: `PinnedPlaybook`. `Pinned` says that from the first commit of a command on, the
  digest in the state is the one of the playbook in memory. It needs `Alone`: nobody else takes the run
  lock, and the operator's init, which also writes a digest, commits only before any run exists.
* `WorkIsInOrder`, `CompletionIsEarned`, `AttemptsAreCounted`, `PausesHaveAReason` and
  `JournalTellsTheTruth` share one invariant, `OrderInv`. It says at each place of the engine, before
  and after the commit of the update it is at, what the state file says of the run, of the stages and
  of the steps (`StatusOK`, `StagesOK`, `StepsOK`, `WorkOK`), and, wherever the engine is, that nothing
  beyond an open stage or an open step of an open stage is settled (`Frontier`). `Frontier` is what a
  resume rests on: it starts at the first stage and believes the statuses.
* `EngineIsLifecycle`: the engine implements RunLifecycle. With `Frontier` each update settles the next
  step of the declared order, or is a retry, a reset or a new run, or a stutter.
* `OnlyResetTouchesTerminalRuns` and `TerminalRunsStay`: no commit that was under way when a run
  became terminal still succeeds, because `StatusOK` has the run RUNNING until the update that stops it.

  The theorems about the order of work have the hypothesis `Resets # "anytime"`: a reset finds the run
  lock free, or there is none. The code does not ensure it (finding 1), and the run `engine_reset_race`
  shows that a reset that comes at any time takes away what `OrderInv` says. None of the five properties can do
  without it: with `Resets = "anytime"` in `engine_order` TLC finds each of them violated. `TerminalRunsStay` is about
  runs that nobody resets; a reset of a terminal run is the exception in the other theorem. TypeCorrect,
  Authorization and RunsArePinned have no hypothesis: they hold with resets at any time.

  The order of the stages, `First[g] <= First[h]` for `g < h`, is not an assumption. `StagesInOrder`
  derives it from neighbouring stages by taking the least counterexample (`LeastNumber`, from the
  well-foundedness of `<`): the way around the induction theorems, which have an operator for a parameter.

*StateStore and EventJournal*, under `TwoIfKilled`: nobody is killed, or there are at most two
processes. That is exactly where the code is right: two live processes that both find the lock of a
third, dead one remove it twice (finding 3). Of two processes, the one that breaks a lock is alone.

* `MutualExclusion` and `StoreIsRegister`: one writer, and StateStore implements StateRegister. The
  invariant `StoreInv` says that what a process past the lock has read is what is there, and that no
  file of another is.
* `UpdatesCleanUp`: `NothingLeftBehind` needs neither the hypothesis nor the lock. `Owned` names, for
  each file that an update creates, the places of the one who still has to remove it, dead or alive.
* `JournalIsOneChain` and `AcknowledgedEventsAreCovered`. `Position` says what the holder of the append
  lock knows; `Bounded`, that the events of a run have a last one, stands for the induction that the
  maximum of their sequence numbers would need.
* `BrokenJournalsStay`: nothing is appended to a journal that does not verify. It follows from the same
  `Position`: between the verification and the line the journal is what was verified.

*Remediation*, for any number of findings and any files.

* `RejectedRepairsAreRolledBack`, `NothingForbiddenStays` and `RollbacksAreExact`. The invariant
  `RepairInv` says of every version of a finding that is in the tree or in the snapshot that its finding
  is verified and the validation let it through (`CleanTree`, `CleanSnapshot`), but for what the current
  repair wrote, of which the same holds once it was validated (`AtWork`), and during the rollback that
  every path but those still in `undo` is as it was in the snapshot (`RollbackLeft`). The snapshot is
  needed because a rollback writes it back.
* `SuccessSettlesAll` and `SettledFindingsStay`. `Agenda` says that while an attempt is at work every
  finding is settled or still on its list, so that a list that is empty has left nothing, and that what
  is on the list is pending, so that nothing settled is repaired.
* `TestsAreNotLost`. `TestsAreKept` follows the paths in `tests` through the next repair: they are in
  its snapshot, and there again once it is validated or rolled back, unless something was interrupted.
  That a deleted test fails the validation is what it rests on, not what is in the test.

*Invocation*, for any number of attempts and outputs: `IntentBeforeResult`, `ReceiptsAreTrue`,
`SuccessIsPublished` and `CommandsStartOnce`. `RecordsInOrder` says what is on disk at each step of the
caller and `Recovered` that the engine never comes to a checkpoint that is STARTED, because it recovered
all of them under the lock and verify cannot run meanwhile.

*RunLock*, for any number of commands, with kills: `LockExcludes` and `ArchivesAreTrue`. `LockInv` says
that a recovery's owner is gone (`StaleIsGone`), that what the log names is what was read (`LogIsTrue`),
and, unless one lock was recovered by two, that whoever is past the acquisition or between archive and
removal has the file it believes to have (`LockIsCurrent`, `ArchiveIsCurrent`). The exception is no
weakness of the proof: with it dropped TLC finds two owners.

*ProcessTree*, for any processes and streams: `TreeTypeCorrect` and `StoppedGroupIsGone`. `SeenIsTrue`
says that a group that was found empty stays empty, since only its members can fork into it.

*RegistryCache*, for any number of pulls and indexes, with kills, faults and robbed locks.

* `PulledObjectsStayWhole`. `Order` ties each step of a publication to the files that are there (the
  evidence goes first and has an owner who is still at it, or an artifact); the rest is that nobody
  takes away the evidence of an object that a pull found whole. One can: a pull whose look at the
  artifact fails removes the evidence it linked (`registry/artifact-cache.ts:348`). Under the lock that
  is its own evidence, of an object nobody has returned yet; after its lock was broken by age it may be
  that of an object another pull found complete. So the theorem, and the property, except runs in which
  both happened (`{"robbed", "blind"}`): without the exception TLC finds the object gone.
* `CorruptionNeedsAFault`. As long as no pull was killed, robbed, blind or unable to clean up and there
  is one index, the lock excludes, and between two pulls the object is whole or absent with nothing
  temporary beside it (`Quiet`); then only a pull that could not read it calls it corrupt. `Order` is
  needed too: it says what the holder of the lock has left so far.
* `CacheTypesHold`: the types.

*Gates*, for any number of commands and runs: `VerdictsAreEvidenced` and `GatesAreCurrent`. Nobody may
rely on the run lock here, so `GatesInv` speaks of every copy that any process has: its verdict is that
of the file it names, and when its revision is still the stored one so are its run and its step
(`CopiesOK`), which is what a successful compare-and-swap then proves. That an attempt at a gate
has one output (`OutputsOK`) is what the spool's refusal of existing paths is good for.

*AutoPilot*, for any playbook and limits: `PilotLeavesNothing`. `ChangesAreKnown` says that a change
that no verification passed on belongs to the step the loop is at and that a receipt knows of it.

*The composition*, `MCProtocolsSafe`. `EachForItself` shows that its specification implies those of the
six protocols, which share no variable, so their theorems hold of it; `ProtocolsTypeCorrect` is `TypesOK`
from the type theorem of each, that of the journal (`JournalTypesHold`) and of the cache among them.

Assumptions are the ASSUMEs of the modules (a playbook has at least one step per stage, indices are
contiguous, a policy for every stage and step; the autopilot's playbook is a sequence) and the hypotheses
named above. Only model-checked, because fairness and ENABLED are out of the prover's reach: `CommandsEnd`,
`AttemptsEnd`, `CallsEnd` and `EndsUnlessOutputIsHeld`. The runs that find a violation have, of course,
nothing to prove: they show that the hypotheses are needed, `engine_reset_race` that of the order of work
and `store_stale_lock` that of the store.

## Plan

Done: the engine, the store, the journal, remediation, invocation, run lock, gates, command, cache and
autopilot, in this order, and the theorems about the safety of each. Left:

1. Proofs: what is left of the order of work with resets at any time (that what a capability depends on
   was settled when the engine looked, `executeStep`), and the steps of the liveness arguments that are
   not temporal: the measures that decrease with every step of a call.
2. Pure algorithms against a reference definition: dependencies, dataflow contract, path policy.
3. The byte limits of `execution/output-spool.ts` in ProcessTree.

## Not modelled

`PROJECT.json` says for each part what is left out and why. The models cover the part of the code that
keeps state over several steps or processes. Most of the repository does not: of about 60000 lines of
implementation more than half are the web frontend with its vendored helper scripts, the skills with
copies of them, and release scripts; of the 27000 in `src/src` most parse arguments, validate documents
against schemas, render plans and reports, or compile playbooks from answers. Those are functions of
their input without a step that another could interleave with, and a model of them would be the code
again in another notation. That is why the share of lines with a definition stays small, and a larger
share would not say more about the system.
