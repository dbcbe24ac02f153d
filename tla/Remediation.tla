----------------------------- MODULE Remediation -----------------------------
(***************************************************************************)
(* One remediation step: runRemediationCapability of                       *)
(* src/engine/capability-runner.ts over the finding files of               *)
(* src/findings/finding-store.ts, with the snapshot, the validation and    *)
(* the rollback of src/validation/.                                        *)
(*                                                                         *)
(* A version is what a path can hold: who wrote it (a finding, whose       *)
(* repair command did, or the user) and whether it contains a directive    *)
(* that silences a check.  The repository is the set of the versions that  *)
(* are there, one to a path; writing a file replaces the version at its    *)
(* path.  What git ignores no snapshot sees.                               *)
(*                                                                         *)
(* Whatever makes runRemediationCapability throw (a timeout of one of its  *)
(* commands, a snapshot or a write that fails) and a kill leave the same   *)
(* behind, the files as they are: both are the action Interrupt.           *)
(***************************************************************************)
EXTENDS Integers, FiniteSets

CONSTANTS
  N,              \* number of findings, in the order of their ids
  Path,           \* of the repository
  Tests,          \* the paths that isTestPath holds of
  Scope,          \* those that match the write scopes of the step
  Ignored,        \* those that git does not list
  Version,        \* [at |-> Path, by |-> finding or User, suppresses |-> BOOLEAN]
  NeedsApproval,  \* BEFORE_EACH_FIX, else NEVER or FROM_PLAYBOOK
  RequireTest,    \* require_regression_test
  Interrupts,     \* whether an attempt may be interrupted
  MaxAttempts     \* bound: attempts at the step

User    == 0
Finding == 1..N

ASSUME RemediationAssumption ==
  /\ N \in Nat
  /\ Tests \subseteq Path /\ Scope \subseteq Path /\ Ignored \subseteq Path
  /\ Version \subseteq [at : Path, by : Finding \cup {User}, suppresses : BOOLEAN]
  /\ NeedsApproval \in BOOLEAN /\ RequireTest \in BOOLEAN /\ Interrupts \in BOOLEAN
  /\ MaxAttempts \in Nat

VARIABLES
  tree,         \* the versions that are there
  status,       \* of the finding files
  loaded,       \* findings approved in the state the step was started with
  pc, todo,     \* findings the attempt has before it
  current,      \* the one it is at, or User
  before,       \* RepairSnapshot before the command of the current finding
  after,        \* RepairSnapshot the validation took, until the delta is computed
  succeeded,    \* whether the repair command exited with 0
  undo,         \* paths of the delta that are still to be restored
  rejects,      \* what the finding becomes after the rollback, or "none"
  outcome,      \* of the last attempt
  attempts,
  base,         \* history: the tree when the current command was started
  edited,       \* history: paths the user touched since the delta was measured
  tests,        \* history: test paths that were there when some repair began and
                \* that the user has not touched since
  interrupted   \* history: findings whose repair was interrupted

findings == <<status, attempts>>
memory   == <<loaded, todo, current, before, after, succeeded, undo, rejects>>
history  == <<base, edited, tests, interrupted>>
vars     == <<tree, findings, memory, pc, outcome, history>>

Pending == {"OPEN", "APPROVED_FOR_FIX", "FIXING", "FIXED_PENDING_VERIFICATION"}
Settled == {"VERIFIED", "REPAIR_REJECTED", "BLOCKED"}

Labels == {"idle", "next", "mark", "capture", "repair", "validate", "reject",
           "measure", "restore", "pending", "verify", "confirm"}

Visible(files) == {v \in files : v.at \notin Ignored}

At(files, p) == {v \in files : v.at = p}

Paths(files) == {v.at : v \in files}

\* The states of the repository.
Trees == {files \in SUBSET Version : \A u, v \in files : u.at = v.at => u = v}

Write(files, v) == (files \ At(files, v.at)) \cup {v}

\* changedPaths of diffRepairSnapshots.
Changed(left, right) == Paths(left \ right) \cup Paths(right \ left)

DeletesTest(left, right) == \E p \in Tests : At(left, p) # {} /\ At(right, p) = {}

\* changedTestPaths: those added or modified.
ChangesTest(left, right) == \E p \in Tests \cap Changed(left, right) : At(right, p) # {}

Suppresses(left, right) ==
  \E v \in right \ left : v.suppresses /\ \A u \in At(left, v.at) : ~u.suppresses

\* Bug: the scope is asked of removed files only.
ScopeOfRemoved(left, right) ==
  \/ ~(Paths(left) \ Paths(right) \subseteq Scope)
  \/ DeletesTest(left, right) \/ Suppresses(left, right)
  \/ RequireTest /\ ~ChangesTest(left, right)

\* Bug: deleted tests are let through.
DeletedTestsPass(left, right) ==
  \/ ~(Changed(left, right) \subseteq Scope)
  \/ Suppresses(left, right)
  \/ RequireTest /\ ~ChangesTest(left, right)

\* The rules of validateRepair: scope, deleted tests, suppression, a
\* regression test.
Violates(left, right) ==
  \/ ~(Changed(left, right) \subseteq Scope)
  \/ DeletesTest(left, right)
  \/ Suppresses(left, right)
  \/ RequireTest /\ ~ChangesTest(left, right)

Init ==
  /\ tree \in {files \in Trees : \A v \in files : v.by = User}
  /\ status = [f \in Finding |-> "OPEN"]
  /\ loaded = {}
  /\ pc = "idle" /\ todo = {} /\ current = User
  /\ before = {} /\ after = {} /\ succeeded = FALSE /\ undo = {}
  /\ rejects = "none" /\ outcome = "none" /\ attempts = 0
  /\ base = {} /\ edited = {} /\ tests = {} /\ interrupted = {}

Goes(l) == pc' = l

Becomes(s) == status' = [status EXCEPT ![current] = s]

\* The attempt returns; nothing of its memory is used again.
Returns(result) ==
  /\ outcome' = result
  /\ pc' = "idle" /\ todo' = {} /\ current' = User /\ loaded' = {}
  /\ before' = {} /\ after' = {} /\ succeeded' = FALSE /\ undo' = {}
  /\ rejects' = "none" /\ base' = {} /\ edited' = {}

\* Bug: findings whose repair was begun are left out.
Unbegun == {"OPEN", "APPROVED_FOR_FIX"}

\* Bug: a finding is listed whatever its status.
Listed == Pending \cup Settled

\* What listFindings is filtered by.
Repairable == Pending

\* The findings whose latest decision is APPROVED when an attempt begins: the
\* user decides, and takes back what he decided, at any time.
Approvals == IF NeedsApproval THEN SUBSET Finding ELSE {{}}

Begin ==
  /\ pc = "idle" /\ attempts < MaxAttempts
  /\ todo' = {f \in Finding : status[f] \in Repairable}
  /\ loaded' \in Approvals
  /\ attempts' = attempts + 1
  /\ outcome' = "none"
  /\ Goes("next")
  /\ UNCHANGED <<tree, status, current, before, after, succeeded, undo, rejects, history>>

Finish ==
  /\ pc = "next" /\ todo = {}
  /\ Returns("SUCCEEDED")
  /\ UNCHANGED <<tree, findings, tests, interrupted>>

\* Findings are sorted by their ids.
TakesUp(f) == pc = "next" /\ f \in todo /\ \A g \in todo : f <= g

AwaitApproval ==
  /\ \E f \in Finding : TakesUp(f) /\ NeedsApproval /\ f \notin loaded
  /\ Returns("AWAITING_APPROVAL")
  /\ UNCHANGED <<tree, findings, tests, interrupted>>

MarkApproved ==
  /\ \E f \in Finding :
       /\ TakesUp(f) /\ (NeedsApproval => f \in loaded)
       /\ current' = f
       /\ status' = IF NeedsApproval THEN [status EXCEPT ![f] = "APPROVED_FOR_FIX"] ELSE status
  /\ Goes("mark")
  /\ UNCHANGED <<tree, attempts, loaded, todo, before, after, succeeded, undo,
                 rejects, outcome, history>>

MarkFixing ==
  /\ pc = "mark"
  /\ Becomes("FIXING")
  /\ Goes("capture")
  /\ UNCHANGED <<tree, attempts, memory, outcome, history>>

\* Bug: one snapshot for the whole step.
SnapshotOfStep == IF before = {} THEN Visible(tree) ELSE before

\* captureRepairSnapshot
Snapshot == Visible(tree)

Capture ==
  /\ pc = "capture"
  /\ before' = Snapshot
  /\ base' = tree
  /\ tests' = tests \cup {p \in Tests \ Ignored : At(tree, p) # {}}
  /\ Goes("repair")
  /\ UNCHANGED <<tree, findings, loaded, todo, current, after, succeeded, undo, rejects, outcome,
                 edited, interrupted>>

\* The repair command writes any path, over what is there: contents of its own
\* or what the user has written before (a checkout).  It removes any file.
CommandWrites ==
  /\ pc = "repair"
  /\ \/ \E v \in Version : v.by \in {current, User} /\ tree' = Write(tree, v)
     \/ \E p \in Path : tree' = tree \ At(tree, p)
  /\ UNCHANGED <<findings, memory, pc, outcome, history>>

CommandExits ==
  /\ pc = "repair"
  /\ succeeded' \in BOOLEAN
  /\ Goes("validate")
  /\ UNCHANGED <<tree, findings, loaded, todo, current, before, after, undo, rejects,
                 outcome, history>>

\* validateRepair is called, and its diff written, whatever the exit code.
Validate ==
  /\ pc = "validate"
  /\ after' = Visible(tree)
  /\ \/ ~succeeded /\ Goes("measure") /\ rejects' = "BLOCKED"
     \/ succeeded /\ Violates(before, after') /\ Goes("reject") /\ rejects' = "none"
     \/ succeeded /\ ~Violates(before, after') /\ Goes("pending") /\ rejects' = "none"
  /\ UNCHANGED <<tree, findings, loaded, todo, current, before, succeeded, undo, outcome,
                 history>>

\* A rejected repair: first the finding, then the rollback.
RejectRepair ==
  /\ pc = "reject"
  /\ Becomes("REPAIR_REJECTED")
  /\ undo' = Changed(before, after) /\ after' = {} /\ succeeded' = FALSE
  /\ Goes("restore")
  /\ UNCHANGED <<tree, attempts, loaded, todo, current, before, rejects, outcome, history>>

\* restoreCurrentRepair takes a snapshot of its own.
Measure ==
  /\ pc = "measure"
  /\ undo' = Changed(before, Visible(tree)) /\ after' = {} /\ succeeded' = FALSE
  /\ Goes("restore")
  /\ UNCHANGED <<tree, findings, loaded, todo, current, before, rejects, outcome, history>>

\* restoreEntry, one path of the delta after the other.
RestoreFile ==
  /\ pc = "restore"
  /\ \E p \in undo :
       /\ tree' = (tree \ At(tree, p)) \cup At(before, p)
       /\ undo' = undo \ {p}
  /\ UNCHANGED <<findings, loaded, todo, current, before, after, succeeded, rejects, pc,
                 outcome, history>>

\* Bug: the finding is written where the rollback follows its rejection, too.
RestoredAnyway ==
  /\ pc = "restore" /\ undo = {}
  /\ Becomes(rejects)
  /\ Returns("FAILED")
  /\ UNCHANGED <<tree, attempts, tests, interrupted>>

Restored ==
  /\ pc = "restore" /\ undo = {}
  /\ IF rejects = "none" THEN status' = status ELSE Becomes(rejects)
  /\ Returns("FAILED")
  /\ UNCHANGED <<tree, attempts, tests, interrupted>>

MarkPending ==
  /\ pc = "pending"
  /\ Becomes("FIXED_PENDING_VERIFICATION")
  /\ Goes("verify")
  /\ UNCHANGED <<tree, attempts, memory, outcome, history>>

\* The verification commands: all exit with 0, or one does not.
VerificationPasses ==
  /\ pc = "verify"
  /\ Goes("confirm")
  /\ UNCHANGED <<tree, findings, memory, outcome, history>>

\* Bug: a failed verification rejects the repair and leaves it there.
VerificationFailsOnly ==
  /\ pc = "verify"
  /\ Becomes("REPAIR_REJECTED")
  /\ Returns("FAILED")
  /\ UNCHANGED <<tree, attempts, tests, interrupted>>

\* Bug: a failed verification is run again and again.
VerificationAgain ==
  /\ pc = "verify"
  /\ Goes("pending")
  /\ UNCHANGED <<tree, findings, memory, outcome, history>>

VerificationFails ==
  /\ pc = "verify"
  /\ rejects' = "REPAIR_REJECTED"
  /\ Goes("measure")
  /\ UNCHANGED <<tree, findings, loaded, todo, current, before, after, succeeded, undo,
                 outcome, history>>

Confirm ==
  /\ pc = "confirm"
  /\ Becomes("VERIFIED")
  /\ todo' = todo \ {current} /\ current' = User
  /\ after' = {} /\ succeeded' = FALSE /\ base' = {}
  /\ Goes("next")
  /\ UNCHANGED <<tree, attempts, loaded, before, undo, rejects, outcome, edited,
                 tests, interrupted>>

(***************************************************************************)
(* The surroundings.                                                       *)
(***************************************************************************)

\* The labels at which a repair may have written and is not yet settled.
Repairing == {"repair", "validate", "reject", "measure", "restore", "pending", "verify",
              "confirm"}

\* The attempt is at the repair of f.
Repairs(f) == pc \in Repairing /\ f = current

\* restoreEntry removes a file before it writes it.
Interrupt ==
  /\ Interrupts /\ pc # "idle"
  /\ interrupted' = interrupted \cup {f \in Finding : Repairs(f)}
  /\ tree' \in {tree} \cup {tree \ At(tree, p) : p \in undo}
  /\ Returns("INTERRUPTED")
  /\ UNCHANGED <<findings, tests>>

\* The user goes on editing, whatever there is.
UserEdits ==
  /\ \E p \in Path :
       /\ \/ \E v \in At(Version, p) : v.by = User /\ tree' = Write(tree, v)
          \/ tree' = tree \ At(tree, p)
       /\ edited' = IF pc \in {"reject", "restore"} THEN edited \cup {p} ELSE edited
       /\ tests' = tests \ {p}
  /\ UNCHANGED <<findings, memory, pc, outcome, base, interrupted>>

StepOfAttempt ==
  \/ Finish \/ AwaitApproval \/ MarkApproved \/ MarkFixing \/ Capture \/ CommandExits
  \/ Validate \/ RejectRepair \/ Measure \/ RestoreFile \/ Restored \/ MarkPending
  \/ VerificationPasses \/ VerificationFails \/ Confirm

Next == Begin \/ StepOfAttempt \/ CommandWrites \/ Interrupt \/ UserEdits

Spec == Init /\ [][Next]_vars

\* The attempt waits for a command of the playbook.
AtCommand == pc \in {"repair", "verify"}

\* Every other step of an attempt is awaited work of a live process.  A command
\* that runs into its timeout is terminated, which is an interruption, but
\* runCommand may wait for its output forever (ProcessTree, CommandsEnd).
FairSpec == Spec /\ WF_vars(StepOfAttempt /\ ~AtCommand)

-----------------------------------------------------------------------------
TypeOK ==
  /\ tree \in Trees /\ before \in Trees /\ after \in Trees /\ base \in Trees
  /\ undo \subseteq Path /\ edited \subseteq Path /\ tests \subseteq Tests \ Ignored
  /\ status \in [Finding -> Pending \cup Settled]
  /\ loaded \subseteq Finding
  /\ todo \subseteq Finding /\ interrupted \subseteq Finding
  /\ current \in Finding \cup {User}
  /\ pc \in Labels
  /\ succeeded \in BOOLEAN
  /\ rejects \in {"none", "REPAIR_REJECTED", "BLOCKED"}
  /\ outcome \in {"none", "SUCCEEDED", "FAILED", "AWAITING_APPROVAL", "INTERRUPTED"}
  /\ attempts \in 0..MaxAttempts
  /\ pc \notin {"idle", "next"} => current \in todo

Of(f, files) == {v \in Visible(files) : v.by = f}

\* A finding whose repair command failed or whose repair was rejected has
\* nothing of the repair left in the repository, whatever later repairs and
\* their rollbacks did, unless its own repair was interrupted once.
RejectedIsRolledBack ==
  \A f \in Finding \ interrupted :
    status[f] \in {"BLOCKED", "REPAIR_REJECTED"} /\ ~Repairs(f) => Of(f, tree) = {}

\* Somebody else whom the validation does not judge, or no longer, may have
\* put a directive there before.
Excused(p) ==
  \E v \in At(Version, p) : v.suppresses /\ v.by \in {User} \cup interrupted

\* What the validation forbids (a write out of scope, a directive that silences
\* a check) never outlives the repair that wrote it, be it verified or not,
\* unless that repair was interrupted once.
ForbiddenIsRemoved ==
  \A f \in Finding \ interrupted :
    ~Repairs(f) =>
      \A v \in Of(f, tree) : v.at \in Scope /\ (v.suppresses => Excused(v.at))

\* A rollback ends with the repository of the moment the command was started:
\* whatever the command overwrote or removed, the user's files and those of
\* repairs verified before it, is back as it was, and so is what the user
\* changed in the meantime, up to the delta that is being undone.
RollbackIsExact ==
  pc = "restore" /\ undo = {} =>
    \A p \in Path \ (Ignored \cup edited) : At(tree, p) = At(base, p)

\* No repair and no rollback takes away a test that was there when a repair
\* began, the regression tests of earlier repairs among them: the path exists
\* until the user touches it, as long as nothing was interrupted.  What is in
\* it a later repair may have replaced: that is no deletion to validateRepair.
TestsStay ==
  interrupted = {} /\ pc \notin Repairing => \A p \in tests : At(tree, p) # {}

\* A step that succeeded leaves no finding half repaired: one that an earlier
\* attempt was interrupted in is taken up again.
SucceededIsSettled ==
  outcome = "SUCCEEDED" /\ pc = "idle" => \A f \in Finding : status[f] \in Settled

\* A settled finding is not repaired again.
SettledStays == [][\A f \in Finding : status[f] \in Settled => status'[f] = status[f]]_vars

\* Every attempt ends, unless one of its commands never returns.
AttemptsEnd == (pc # "idle" ~> pc = "idle") \/ <>[]AtCommand

\* No attempt at a repair starts from what an earlier one left behind.
RolledBackBetweenAttempts ==
  pc = "repair" => Of(current, base) = {}
=============================================================================
