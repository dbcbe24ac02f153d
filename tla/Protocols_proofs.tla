-------------------------- MODULE Protocols_proofs --------------------------
(***************************************************************************)
(* Proofs about RunLock, ProcessTree, Gates and AutoPilot, and about the   *)
(* composition of the protocols in MCProtocolsSafe: as they share no file, *)
(* each of them behaves there as its own specification says.               *)
(***************************************************************************)
EXTENDS MCProtocolsSafe, EventJournal_proofs, Invocation_proofs, RegistryCache_proofs, ProcessTree,
        WellFoundedInduction

(***************************************************************************)
(* The run lock, for any number of commands, recoveries and kills.         *)
(*                                                                         *)
(* Each recovery decides about a record and removes the lock three file    *)
(* operations later. What saves it is that it logs the owner in between:   *)
(* either the lock is still the one it decided about, or somebody else     *)
(* logged a recovery of the same owner before removing it.                 *)
(***************************************************************************)
Live  == {"record", "work", "release", "remove"}
Begun == {"archive", "log", "break"}

\* Another recovery of what q recovers is in the log.
AlsoRecovered(q) ==
  \E r \in recoveries : r.by # q /\ r.previous_owner_token = stale[q]

\* A recovery is of a command that is gone.
StaleIsGone ==
  \A q \in Command : stage[q] \in Begun =>
    stale[q] \in Command /\ CommandGone(stale[q])

\* The log says what each recovery decided, and of whom nothing is to come but the removal.
LogIsTrue ==
  /\ \A r \in recoveries :
       /\ stage[r.by] \in {"break", "exited", "killed"}
       /\ r.previous_owner_token = stale[r.by]
  /\ \A q \in Command : stage[q] = "break" =>
       [by |-> q, previous_owner_token |-> stale[q]] \in recoveries

\* The lock file is that of whoever acquired it, and of whoever a recovery decided about.
LockIsCurrent ==
  /\ \A p \in Command : stage[p] \in Live => lockFile = p
  /\ \A q \in Command : stage[q] \in Begun => lockFile = stale[q] \/ AlsoRecovered(q)

\* So is what was archived.
ArchiveIsCurrent ==
  /\ \A q \in Command : stage[q] = "log" => archived[q] = stale[q] \/ AlsoRecovered(q)
  /\ \A r \in recoveries : archived[r.by] = r.previous_owner_token \/ AlsoRecovered(r.by)

LockInv ==
  /\ RunLockTypeOK
  /\ StaleIsGone
  /\ LogIsTrue
  /\ RecoveredTwice \/ (LockIsCurrent /\ ArchiveIsCurrent)

\* The log of recoveries only grows, so that a second recovery stays visible (recoveryLog).
LEMMA LogGrows ==
  ASSUME recoveries \subseteq recoveries', RecoveredTwice
  PROVE  RecoveredTwice'
BY DEF RecoveredTwice

\* Acquiring and releasing the lock keeps the invariant (acquireRunLock, release).
LEMMA AcquireReleaseKeeps ==
  ASSUME LockInv, NEW p \in Command,
         \/ CreateLock(p) \/ WriteLockRecord(p) \/ RecordRefused(p) \/ AcquireRefused(p)
         \/ BeginRelease(p) \/ OwnTokenRead(p) \/ RemoveLock(p) \/ KillProcess(p)
  PROVE  LockInv'
<1> USE RunLockAssumption DEF LockInv, RunLockTypeOK, Advances, file, CommandGone, Begun, Live
<1>1. recoveries' = recoveries /\ stale' = stale /\ archived' = archived
  BY DEF CreateLock, WriteLockRecord, RecordRefused, AcquireRefused, BeginRelease, OwnTokenRead,
         RemoveLock, KillProcess
<1>2. \A q \in Command : AlsoRecovered(q)' <=> AlsoRecovered(q)
  BY <1>1 DEF AlsoRecovered
<1>3. \A q \in Command :
        /\ q # p => stage'[q] = stage[q]
        /\ stage'[q] \in Begun => stage[q] = stage'[q]
        /\ CommandGone(q) => CommandGone(q)'
        /\ stage[q] = "exited" => stage'[q] = "exited"
        /\ stage[q] = "break" => stage'[q] \in {"break", "killed"}
  BY DEF CreateLock, WriteLockRecord, RecordRefused, AcquireRefused, BeginRelease, OwnTokenRead,
         RemoveLock, KillProcess
<1>4. RunLockTypeOK'
  BY <1>1 DEF CreateLock, WriteLockRecord, RecordRefused, AcquireRefused, BeginRelease, OwnTokenRead,
         RemoveLock, KillProcess
<1>5. StaleIsGone'
  BY <1>1, <1>3 DEF StaleIsGone
<1>6. LogIsTrue'
  BY <1>1, <1>3 DEF LogIsTrue
<1>7. CASE RecoveredTwice
  BY <1>1, <1>4, <1>5, <1>6, <1>7, LogGrows
<1>8. CASE LockIsCurrent /\ ArchiveIsCurrent
  <2>1. ArchiveIsCurrent'
    BY <1>1, <1>2, <1>3, <1>8 DEF ArchiveIsCurrent
  <2>2. LockIsCurrent'
    <3>1. CASE CreateLock(p)
      BY <1>1, <1>2, <1>3, <1>8, <3>1 DEF LockIsCurrent, StaleIsGone, CreateLock
    <3>2. CASE RemoveLock(p)
      <4>1. lockFile = p /\ stage[p] = "remove"
        BY <1>8, <3>2 DEF LockIsCurrent, RemoveLock
      <4>2. \A q \in Command : stage'[q] \notin Live
        BY <1>8, <4>1, <3>2 DEF LockIsCurrent, RemoveLock
      <4>3. \A q \in Command : stage[q] \in Begun => stale[q] # p
        BY <4>1 DEF StaleIsGone
      <4>4. QED
        BY <1>1, <1>2, <1>3, <1>8, <4>1, <4>2, <4>3 DEF LockIsCurrent
    <3>3. CASE ~CreateLock(p) /\ ~RemoveLock(p)
      <4>1. lockFile' = lockFile
        BY <3>3 DEF WriteLockRecord, RecordRefused, AcquireRefused, BeginRelease, OwnTokenRead,
                    KillProcess
      <4>2. \A q \in Command : stage'[q] \in Live => stage[q] \in Live
        BY <3>3 DEF WriteLockRecord, RecordRefused, AcquireRefused, BeginRelease, OwnTokenRead,
                    KillProcess
      <4>3. QED
        BY <1>1, <1>2, <1>3, <1>8, <4>1, <4>2 DEF LockIsCurrent
    <3>4. QED
      BY <3>1, <3>2, <3>3
  <2>3. QED
    BY <1>4, <1>5, <1>6, <2>1, <2>2
<1>9. QED
  BY <1>7, <1>8

\* A recovery keeps the invariant (recoverStaleRunLock).
LEMMA RecoveryKeeps ==
  ASSUME LockInv, NEW p \in Command,
         \/ BeginRecovery(p) \/ RecoveryRefused(p) \/ Archive(p) \/ LogRecovery(p)
         \/ RemoveStaleLock(p)
  PROVE  LockInv'
<1> USE RunLockAssumption DEF LockInv, RunLockTypeOK, Advances, file, CommandGone, Begun, Live
<1>1. CASE BeginRecovery(p)
  <2>1. \A r \in recoveries : r.by # p
    BY <1>1 DEF BeginRecovery, LogIsTrue
  <2>2. stale'[p] = lockFile /\ \A q \in Command \ {p} : stale'[q] = stale[q]
    BY <1>1 DEF BeginRecovery
  <2>3. \A q \in Command \ {p} : AlsoRecovered(q)' <=> AlsoRecovered(q)
    BY <1>1, <2>2 DEF AlsoRecovered, BeginRecovery
  <2>4. RunLockTypeOK' /\ StaleIsGone' /\ LogIsTrue'
    BY <1>1, <2>1, <2>2 DEF BeginRecovery, StaleIsGone, LogIsTrue
  <2>5. RecoveredTwice => RecoveredTwice'
    BY <1>1, LogGrows DEF BeginRecovery
  <2>6. LockIsCurrent /\ ArchiveIsCurrent => LockIsCurrent' /\ ArchiveIsCurrent'
    BY <1>1, <2>1, <2>2, <2>3 DEF BeginRecovery, LockIsCurrent, ArchiveIsCurrent
  <2>7. QED
    BY <2>4, <2>5, <2>6
<1>2. CASE RecoveryRefused(p)
  BY <1>2 DEF RecoveryRefused, StaleIsGone, LogIsTrue, LockIsCurrent, ArchiveIsCurrent,
              AlsoRecovered, RecoveredTwice
<1>3. CASE Archive(p)
  <2>1. RunLockTypeOK' /\ StaleIsGone' /\ LogIsTrue'
    BY <1>3 DEF Archive, StaleIsGone, LogIsTrue
  <2>2. \A q \in Command : AlsoRecovered(q)' <=> AlsoRecovered(q)
    BY <1>3 DEF Archive, AlsoRecovered
  <2>3. \A r \in recoveries : r.by # p
    BY <1>3 DEF Archive, LogIsTrue
  <2>4. RecoveredTwice => RecoveredTwice'
    BY <1>3, LogGrows DEF Archive
  <2>5. LockIsCurrent /\ ArchiveIsCurrent => LockIsCurrent' /\ ArchiveIsCurrent'
    BY <1>3, <2>2, <2>3 DEF Archive, LockIsCurrent, ArchiveIsCurrent
  <2>6. QED
    BY <2>1, <2>4, <2>5
<1>4. CASE LogRecovery(p)
  <2> DEFINE entry == [by |-> p, previous_owner_token |-> stale[p]]
  <2>1. /\ recoveries' = recoveries \cup {entry}
        /\ stage[p] = "log" /\ stale[p] \in Command
        /\ stale' = stale /\ archived' = archived /\ lockFile' = lockFile
        /\ stage' = [stage EXCEPT ![p] = "break"]
    BY <1>4 DEF LogRecovery, StaleIsGone
  <2>2. RunLockTypeOK' /\ StaleIsGone'
    BY <1>4, <2>1 DEF LogRecovery, StaleIsGone
  <2>3. LogIsTrue'
    BY <2>1 DEF LogIsTrue
  <2>4. \A q \in Command : AlsoRecovered(q) => AlsoRecovered(q)'
    BY <2>1 DEF AlsoRecovered
  <2>5. RecoveredTwice => RecoveredTwice'
    BY <2>1, LogGrows
  <2>6. LockIsCurrent => LockIsCurrent'
    BY <2>1, <2>4 DEF LockIsCurrent
  <2>7. ArchiveIsCurrent => ArchiveIsCurrent'
    BY <2>1, <2>4 DEF ArchiveIsCurrent
  <2>8. QED
    BY <2>2, <2>3, <2>5, <2>6, <2>7
<1>5. CASE RemoveStaleLock(p)
  <2>1. /\ recoveries' = recoveries /\ stale' = stale /\ archived' = archived
        /\ lockFile' = NoCommand
        /\ stage' = [stage EXCEPT ![p] = "exited"] /\ stage[p] = "break"
    BY <1>5 DEF RemoveStaleLock
  <2>2. RunLockTypeOK' /\ StaleIsGone' /\ LogIsTrue'
    <3>1. RunLockTypeOK'
      BY <1>5, <2>1 DEF RemoveStaleLock
    <3>2. StaleIsGone'
      BY <2>1 DEF StaleIsGone
    <3>3. LogIsTrue'
      BY <2>1 DEF LogIsTrue
    <3>4. QED
      BY <3>1, <3>2, <3>3
  <2>3. \A q \in Command : AlsoRecovered(q)' <=> AlsoRecovered(q)
    BY <2>1 DEF AlsoRecovered
  <2>4. RecoveredTwice => RecoveredTwice'
    BY <2>1, LogGrows
  <2>5. [by |-> p, previous_owner_token |-> stale[p]] \in recoveries /\ stale[p] \in Command
    BY <2>1 DEF LogIsTrue, StaleIsGone
  <2>6. ASSUME ~RecoveredTwice, LockIsCurrent, ArchiveIsCurrent
        PROVE  LockIsCurrent' /\ ArchiveIsCurrent'
    <3>1. lockFile = stale[p]
      BY <2>1, <2>5, <2>6 DEF LockIsCurrent, AlsoRecovered, RecoveredTwice
    <3>2. \A q \in Command : stage[q] \notin Live
      BY <2>1, <2>6, <3>1 DEF LockIsCurrent, StaleIsGone
    <3>3. \A q \in Command \ {p} : stage[q] \in Begun => AlsoRecovered(q)
      BY <2>5, <2>6, <3>1 DEF LockIsCurrent, AlsoRecovered
    <3>4. LockIsCurrent'
      BY <2>1, <2>3, <3>2, <3>3 DEF LockIsCurrent
    <3>5. ArchiveIsCurrent'
      BY <2>1, <2>3, <2>6 DEF ArchiveIsCurrent
    <3>6. QED
      BY <3>4, <3>5
  <2>7. QED
    BY <2>2, <2>4, <2>6
<1>6. QED
  BY <1>1, <1>2, <1>3, <1>4, <1>5

\* The invariant holds in every reachable state.
LEMMA LockInvHolds == RunLockSpec => []LockInv
<1>1. RunLockInit => LockInv
  BY RunLockAssumption DEF RunLockInit, LockInv, RunLockTypeOK, StaleIsGone, LogIsTrue,
     LockIsCurrent, ArchiveIsCurrent, Live, Begun
<1>2. LockInv /\ [RunLockNext]_runLockVars => LockInv'
  <2> SUFFICES ASSUME LockInv, [RunLockNext]_runLockVars PROVE LockInv'
    OBVIOUS
  <2>1. CASE RunLockNext
    BY <2>1, AcquireReleaseKeeps, RecoveryKeeps DEF RunLockNext
  <2>2. CASE UNCHANGED runLockVars
    BY <2>2 DEF runLockVars, file, LockInv, RunLockTypeOK, StaleIsGone, LogIsTrue, LockIsCurrent,
       ArchiveIsCurrent, AlsoRecovered, RecoveredTwice, CommandGone
  <2>3. QED
    BY <2>1, <2>2
<1>3. QED
  BY <1>1, <1>2, PTL DEF RunLockSpec

\* For any number of commands: two of them hold the run lock at once only after two recoveries of
\* the same stale lock, which the recovery log shows (acquireRunLock, recoverStaleRunLock).
THEOREM LockExcludes == RunLockSpec => []ExclusiveUnlessRecoveredTwice
<1>1. LockInv => ExclusiveUnlessRecoveredTwice
  BY DEF LockInv, LockIsCurrent, ExclusiveUnlessRecoveredTwice, Owners, Live
<1>2. QED
  BY <1>1, LockInvHolds, PTL

\* For any number of commands: an archive holds the record that the recovery log names, unless the
\* log shows a second recovery of the same lock (recoverStaleRunLock).
THEOREM ArchivesAreTrue == RunLockSpec => []ArchiveNamesTheLock
<1>1. LockInv => ArchiveNamesTheLock
  <2> SUFFICES ASSUME LockInv, ~RecoveredTwice, NEW r \in recoveries
               PROVE  archived[r.by] = r.previous_owner_token
    BY DEF ArchiveNamesTheLock
  <2>1. archived[r.by] = r.previous_owner_token \/ AlsoRecovered(r.by)
    BY DEF LockInv, ArchiveIsCurrent
  <2>2. r.previous_owner_token = stale[r.by]
    BY DEF LockInv, LogIsTrue
  <2>3. QED
    BY <2>1, <2>2 DEF AlsoRecovered, RecoveredTwice
<1>2. QED
  BY <1>1, LockInvHolds, PTL

(***************************************************************************)
(* The processes of one external command, for any number of processes and  *)
(* streams.                                                                *)
(*                                                                         *)
(* A group that is empty stays empty, because a process gets into it only  *)
(* as the child of a member. So what terminateProcessTree saw of the group *)
(* is still true when the output is settled, however long that takes.      *)
(***************************************************************************)
Stopping == {"look", "terminate", "grace", "kill", "kill wait"}

\* Where the call can be after each end of the race, and what it knows by then.
RaceIsOver ==
  /\ (call = "racing") <=> (winner = "none")
  /\ winner = "EXIT" => call \in {"storing", "returned", "threw"}
  /\ call \in {"storing", "returned"} => winner = "EXIT"
  /\ call \in {"settling", "threw"} /\ winner # "EXIT" => terminated # "not asked"

\* What was seen of the group is true.
SeenIsTrue == terminated \in {"already exited", "terminated"} => group = {}

TreeInv == TreeTypeOK /\ RaceIsOver /\ SeenIsTrue

\* The processes of the command keep the invariant whatever they do.
LEMMA ProcessesKeep ==
  ASSUME TreeInv, Processes
  PROVE  TreeInv'
<1> USE DEF TreeInv, TreeTypeOK, RaceIsOver, SeenIsTrue, Running
<1>1. PICK p \in Member : LeaveGroup(p) \/ Exit(p) \/ \E child \in Member : Fork(p, child)
  BY DEF Processes
<1>2. CASE LeaveGroup(p)
  <2>1. TreeTypeOK'
    BY <1>2 DEF LeaveGroup
  <2>2. RaceIsOver' /\ SeenIsTrue'
    BY <1>2 DEF LeaveGroup
  <2>3. QED
    BY <2>1, <2>2
<1>3. CASE Exit(p)
  <2>1. TreeTypeOK'
    BY <1>3 DEF Exit
  <2>2. RaceIsOver' /\ SeenIsTrue'
    BY <1>3 DEF Exit
  <2>3. QED
    BY <2>1, <2>2
<1>4. CASE \E child \in Member : Fork(p, child)
  <2>1. PICK child \in Member : Fork(p, child)
    BY <1>4
  <2>2. group' \cup escaped' = group \cup escaped \cup {child} /\ group' \cap escaped' = {}
    BY <2>1 DEF Fork
  <2>3. writers' \in [Stream -> SUBSET (group' \cup escaped')]
    <3>1. PICK inherited \in SUBSET {s \in Stream : p \in writers[s]} :
            writers' = [s \in Stream |->
                          IF s \in inherited THEN writers[s] \cup {child} ELSE writers[s]]
      BY <2>1 DEF Fork
    <3>2. \A s \in Stream : writers[s] \subseteq group \cup escaped
      OBVIOUS
    <3>3. \A s \in Stream :
            (IF s \in inherited THEN writers[s] \cup {child} ELSE writers[s])
              \in SUBSET (group' \cup escaped')
      BY <2>2, <3>2
    <3>4. QED
      BY <3>1, <3>3
  <2>4. TreeTypeOK'
    BY <2>1, <2>2, <2>3 DEF Fork
  <2>5. RaceIsOver' /\ SeenIsTrue'
    BY <2>1 DEF Fork
  <2>6. QED
    BY <2>4, <2>5
<1>5. QED
  BY <1>1, <1>2, <1>3, <1>4

\* So do the spools and the race (spoolOutput, runCommand).
LEMMA RaceKeeps ==
  ASSUME TreeInv,
         \/ \E s \in Stream : SpoolEnds(s) \/ SpoolFails(s)
         \/ LeaderExits \/ TimesOut \/ Cancelled \/ WatchFails \/ StreamFails
  PROVE  TreeInv'
<1> USE DEF TreeInv, TreeTypeOK, RaceIsOver, SeenIsTrue, Running, processes
<1>1. CASE \E s \in Stream : SpoolEnds(s) \/ SpoolFails(s)
  BY <1>1 DEF SpoolEnds, SpoolFails
<1>2. CASE LeaderExits
  BY <1>2 DEF LeaderExits, Wins
<1>3. CASE TimesOut
  BY <1>3 DEF TimesOut, Wins
<1>4. CASE Cancelled
  BY <1>4 DEF Cancelled, Wins
<1>5. CASE StreamFails
  BY <1>5 DEF StreamFails, Wins
<1>6. CASE WatchFails
  BY <1>6 DEF WatchFails, Wins
<1>7. QED
  BY <1>1, <1>2, <1>3, <1>4, <1>5, <1>6

\* And the termination with what follows it (terminateProcessTree, runCommand).
LEMMA ControllerKeeps ==
  ASSUME TreeInv, Controller
  PROVE  TreeInv'
<1> USE DEF TreeInv, TreeTypeOK, RaceIsOver, SeenIsTrue, Running, processes
<1>1. CASE LookForGroup
  BY <1>1 DEF LookForGroup
<1>2. CASE Terminate
  BY <1>2 DEF Terminate, Signal
<1>3. CASE GroupIsGone
  BY <1>3 DEF GroupIsGone
<1>4. CASE GraceIsOver
  BY <1>4 DEF GraceIsOver
<1>5. CASE KillGroup
  BY <1>5 DEF KillGroup, Signal
<1>6. CASE SurvivesKill
  BY <1>6 DEF SurvivesKill
<1>7. CASE StoreOutput
  BY <1>7 DEF StoreOutput
<1>8. CASE SettleOutput
  BY <1>8 DEF SettleOutput
<1>9. CASE SignalRefused
  BY <1>9 DEF SignalRefused
<1>10. QED
  BY <1>1, <1>2, <1>3, <1>4, <1>5, <1>6, <1>7, <1>8, <1>9 DEF Controller

\* The invariant holds in every reachable state.
LEMMA TreeInvHolds == TreeSpec => []TreeInv
<1>1. TreeInit => TreeInv
  BY TreeAssumption DEF TreeInit, TreeInv, TreeTypeOK, RaceIsOver, SeenIsTrue, Running
<1>2. TreeInv /\ [TreeNext]_treeVars => TreeInv'
  <2> SUFFICES ASSUME TreeInv, [TreeNext]_treeVars PROVE TreeInv'
    OBVIOUS
  <2>1. CASE TreeNext
    BY <2>1, ProcessesKeep, RaceKeeps, ControllerKeeps DEF TreeNext
  <2>2. CASE UNCHANGED treeVars
    BY <2>2 DEF treeVars, processes, TreeInv, TreeTypeOK, RaceIsOver, SeenIsTrue, Running
  <2>3. QED
    BY <2>1, <2>2
<1>3. QED
  BY <1>1, <1>2, PTL DEF TreeSpec

\* The processes of a command are in its group or outside of it, and only running ones hold its
\* output, for any number of processes and streams.
THEOREM TreeTypeCorrect == TreeSpec => []TreeTypeOK
BY TreeInvHolds, PTL DEF TreeInv

\* For any number of processes, whatever they fork and ignore and whoever leaves the group: when a
\* stopped command is over nothing of its group runs on, unless the error says that it survived
\* or could not be signalled (runCommand, terminateProcessTree).
THEOREM StoppedGroupIsGone == TreeSpec => []StoppedIsGone
<1>1. TreeInv => StoppedIsGone
  BY DEF TreeInv, TreeTypeOK, RaceIsOver, SeenIsTrue, StoppedIsGone, Ended
<1>2. QED
  BY <1>1, TreeInvHolds, PTL

(***************************************************************************)
(* The release gates, for any number of commands and runs.                 *)
(*                                                                         *)
(* A verdict is always in a file that says the same, the copies that       *)
(* evaluations work on included, and a copy with the revision of the state *)
(* is of its run and its step: so the compare-and-store of an evaluation   *)
(* without the run lock is enough.                                         *)
(***************************************************************************)
States == [run : 0..MaxRuns, revision : Nat,
           step : {"PENDING", "SUCCEEDED", "SKIPPED_INAPPLICABLE"},
           lane : {"NONE", "ASSIGNED", "UNASSIGNED"},
           command : {"NONE", "PASS", "FAIL"}, artifact : Attempts \cup {<<>>},
           steps : {"NONE", "PASS", "FAIL"}, lanes : {"NONE", "PASS", "FAIL"}]

Evaluating == {"gate", "command", "evidence", "store"}

\* The states that there are, and who has one.
StatesOK ==
  /\ state \in States /\ copy \in [Caller -> States]
  /\ \A p \in Caller : caller[p] = "load" => state.run > 0
  /\ \A p \in Caller : caller[p] \in Evaluating => copy[p].run > 0

\* The verdict of a state is that of the file it names.
Evidenced(s) ==
  s.command # "NONE" =>
    /\ [attempt |-> s.artifact, says |-> s.command] \in stored
    /\ s.artifact[1] = s.run

\* So it is for the copies, and a copy of the current revision is of the current run and step.
CopiesOK ==
  \A p \in Caller :
    /\ Evidenced(copy[p])
    /\ caller[p] \in Evaluating =>
         /\ copy[p].revision <= state.revision
         /\ copy[p].revision = state.revision =>
              copy[p].run = state.run /\ copy[p].step = state.step

\* An attempt has one output, stored by one process, which has yet to say the verdict.
OutputsOK ==
  /\ \A e, f \in stored : e.attempt = f.attempt => e = f
  /\ \A p \in Caller : caller[p] = "evidence" =>
       /\ [attempt |-> OutputOf(p), says |-> "NONE"] \in stored
       /\ found[p] # "NONE"
  /\ \A p, q \in Caller :
       caller[p] = "evidence" /\ caller[q] = "evidence" /\ OutputOf(p) = OutputOf(q) => p = q

\* What is about to be recorded is evidenced.
TakenOver(p) == does[p] = "run" /\ copy[p].command = "PASS"

VerdictsOK ==
  /\ \A p \in Caller : caller[p] \in {"command", "evidence"} => ~TakenOver(p)
  /\ \A p \in Caller : caller[p] = "store" =>
       IF TakenOver(p) THEN found[p] = "PASS"
       ELSE found[p] # "NONE" /\ [attempt |-> OutputOf(p), says |-> found[p]] \in stored

GatesInv ==
  GatesTypeOK /\ StatesOK /\ Evidenced(state) /\ CopiesOK /\ OutputsOK /\ VerdictsOK

\* What a new revision with another outcome of the step has in its fields.
NewStep(s, outcome) ==
  [run |-> s.run, revision |-> s.revision + 1, step |-> outcome, lane |-> s.lane,
   command |-> s.command, artifact |-> s.artifact, steps |-> s.steps, lanes |-> s.lanes]

LEMMA NewStepIsState ==
  ASSUME NEW s \in States, NEW outcome \in {"PENDING", "SUCCEEDED", "SKIPPED_INAPPLICABLE"}
  PROVE  NewStep(s, outcome) \in States /\ s.run \in Nat /\ NewStep(s, outcome).revision > s.revision
BY GatesAssumption DEF States, NewStep

\* Another value of the state file has another revision: a copy of the current one is current.
LEMMA NewRevision ==
  ASSUME GatesInv, state' \in States,
         state' = state \/ (state'.revision > state.revision /\ state'.run >= state.run)
  PROVE  /\ \A p \in Caller : caller[p] = "load" => state'.run > 0
         /\ \A p \in Caller : caller[p] \in Evaluating =>
              /\ copy[p].revision <= state'.revision
              /\ copy[p].revision = state'.revision =>
                   copy[p].run = state'.run /\ copy[p].step = state'.step
<1>1. state \in States /\ \A p \in Caller : copy[p] \in States
  BY DEF GatesInv, StatesOK
<1>2. /\ state.run \in Nat /\ state'.run \in Nat
      /\ state.revision \in Nat /\ state'.revision \in Nat
      /\ \A p \in Caller : copy[p].revision \in Nat
  BY <1>1, GatesAssumption DEF States
<1>3. \A p \in Caller : caller[p] = "load" => state'.run > 0
  BY <1>2 DEF GatesInv, StatesOK
<1>4. SUFFICES ASSUME NEW p \in Caller, caller[p] \in Evaluating
      PROVE  /\ copy[p].revision <= state'.revision
             /\ copy[p].revision = state'.revision =>
                  copy[p].run = state'.run /\ copy[p].step = state'.step
  BY <1>3
<1>5. /\ copy[p].revision <= state.revision
      /\ copy[p].revision = state.revision =>
           copy[p].run = state.run /\ copy[p].step = state.step
  BY <1>4 DEF GatesInv, CopiesOK
<1>6. CASE state' = state
  BY <1>5, <1>6
<1>7. CASE state'.revision > state.revision
  BY <1>2, <1>5, <1>7
<1> QED
  BY <1>6, <1>7

\* The operator changes the state file, and nobody's evaluation.
LEMMA OperatorKeeps ==
  ASSUME GatesInv, Approve \/ ResetSteps
  PROVE  GatesInv'
<1> state \in States
  BY DEF GatesInv, StatesOK
<1>1. /\ state' \in States
      /\ state'.revision > state.revision /\ state'.run = state.run
      /\ state'.command = state.command /\ state'.artifact = state.artifact
      /\ UNCHANGED <<stored, runLock, does, caller, copy, found>>
  <2>1. CASE Approve
    BY <2>1 DEF States, Approve
  <2>2. CASE ResetSteps
    <3>1. state' = NewStep(state, "PENDING")
      BY <2>2, Zenon DEF ResetSteps, NewStep, States
    <3> QED
      BY <2>2, <3>1, NewStepIsState DEF ResetSteps, NewStep
  <2> QED
    BY <2>1, <2>2
<1>2. GatesTypeOK'
  BY <1>1 DEF GatesInv, GatesTypeOK, States
<1>3. StatesOK'
  BY <1>1 DEF GatesInv, StatesOK
<1>4. Evidenced(state)'
  BY <1>1 DEF GatesInv, Evidenced
<1>5. CopiesOK'
  <2>1. \A p \in Caller : caller'[p] = caller[p] /\ copy'[p] = copy[p]
    BY <1>1
  <2>2. \A p \in Caller : Evidenced(copy[p])'
    BY <1>1 DEF GatesInv, CopiesOK, Evidenced
  <2>3. \A p \in Caller : caller[p] \in Evaluating =>
          /\ copy[p].revision <= state'.revision
          /\ copy[p].revision = state'.revision =>
               copy[p].run = state'.run /\ copy[p].step = state'.step
    <3>1. state'.run >= state.run
      BY <1>1, GatesAssumption DEF States
    <3> QED
      BY <1>1, <3>1, NewRevision
  <2> QED
    BY <2>1, <2>2, <2>3 DEF CopiesOK
<1>6. OutputsOK' /\ VerdictsOK'
  BY <1>1 DEF GatesInv, OutputsOK, VerdictsOK, TakenOver, OutputOf
<1> QED
  BY <1>2, <1>3, <1>4, <1>5, <1>6 DEF GatesInv

\* A command that ends forgets its copy.
LEMMA EndingKeeps ==
  ASSUME GatesInv, NEW p \in Caller, CallerEnds(p), UNCHANGED <<state, stored, runLock>>
  PROVE  GatesInv'
<1> USE DEF CallerEnds, Moves
<1>1. NoState \in States /\ NoState.command = "NONE"
  BY GatesAssumption DEF NoState, States
<1>2. GatesTypeOK'
  BY DEF GatesInv, GatesTypeOK
<1>3. StatesOK'
  BY <1>1 DEF GatesInv, GatesTypeOK, StatesOK, Evaluating
<1>4. CopiesOK'
  BY <1>1 DEF GatesInv, GatesTypeOK, StatesOK, CopiesOK, Evaluating, Evidenced
<1>5. OutputsOK'
  BY DEF GatesInv, GatesTypeOK, StatesOK, OutputsOK, OutputOf
<1>6. VerdictsOK'
  BY DEF GatesInv, GatesTypeOK, StatesOK, VerdictsOK, TakenOver, OutputOf
<1>7. Evidenced(state)'
  BY DEF GatesInv, Evidenced
<1> QED
  BY <1>2, <1>3, <1>4, <1>5, <1>6, <1>7 DEF GatesInv

\* Who goes on to another place before a command of a gate runs keeps what the others have.
LEMMA BeginningKeeps ==
  ASSUME GatesInv, NEW p \in Caller,
         BeginRun(p) \/ BeginVerify(p) \/ ReleaseRunLock(p) \/ LoadState(p)
  PROVE  GatesInv'
<1>1. CASE BeginRun(p) \/ BeginVerify(p)
  <2> USE <1>1 DEF BeginRun, BeginVerify, AcquireRunLock, Moves
  <2>1. GatesTypeOK'
    BY DEF GatesInv, GatesTypeOK
  <2>2. StatesOK'
    <3>1. CASE BeginRun(p)
      BY <3>1 DEF GatesInv, GatesTypeOK, StatesOK, Evaluating
    <3>2. CASE BeginVerify(p)
      BY <3>2 DEF GatesInv, GatesTypeOK, StatesOK, Evaluating
    <3> QED
      BY <3>1, <3>2
  <2>3. CopiesOK' /\ Evidenced(state)'
    BY DEF GatesInv, GatesTypeOK, StatesOK, CopiesOK, Evaluating, Evidenced
  <2>4. OutputsOK'
    BY DEF GatesInv, GatesTypeOK, StatesOK, OutputsOK, OutputOf
  <2>5. /\ \A q \in Caller : q # p => does'[q] = does[q] /\ caller'[q] = caller[q]
        /\ caller'[p] \in {"work", "load"}
        /\ UNCHANGED <<stored, copy, found>>
    BY DEF GatesInv, GatesTypeOK
  <2>6. VerdictsOK'
    BY <2>5 DEF GatesInv, VerdictsOK, TakenOver, OutputOf
  <2> QED
    BY <2>1, <2>2, <2>3, <2>4, <2>6 DEF GatesInv
<1>2. CASE ReleaseRunLock(p)
  BY <1>2 DEF ReleaseRunLock, GatesInv, GatesTypeOK, StatesOK, CopiesOK, OutputsOK, VerdictsOK,
              TakenOver, Evidenced, OutputOf
<1>3. CASE LoadState(p)
  <2> USE <1>3 DEF LoadState, Moves
  <2>1. GatesTypeOK'
    BY DEF GatesInv, GatesTypeOK
  <2>2. StatesOK'
    BY DEF GatesInv, GatesTypeOK, StatesOK, Evaluating
  <2>3. CopiesOK' /\ Evidenced(state)'
    BY DEF GatesInv, GatesTypeOK, StatesOK, States, CopiesOK, Evaluating, Evidenced
  <2>4. OutputsOK'
    BY DEF GatesInv, GatesTypeOK, StatesOK, OutputsOK, OutputOf
  <2>5. VerdictsOK'
    BY DEF GatesInv, GatesTypeOK, StatesOK, VerdictsOK, TakenOver, OutputOf
  <2> QED
    BY <2>1, <2>2, <2>3, <2>4, <2>5 DEF GatesInv
<1> QED
  BY <1>1, <1>2, <1>3

\* The work on the step makes a new revision, or leaves the state file alone.
LEMMA WorkKeeps ==
  ASSUME GatesInv, NEW p \in Caller, Work(p)
  PROVE  GatesInv'
<1> USE DEF Moves
<1>1. /\ state' \in States /\ state'.run > 0
      /\ state' = state \/ (state'.revision > state.revision /\ state'.run >= state.run)
  <2>1. state \in States
    BY DEF GatesInv, StatesOK
  <2>2. CASE /\ state.run < MaxRuns
             /\ \E outcome \in {"PENDING", "SUCCEEDED", "SKIPPED_INAPPLICABLE"} :
                  state' = [NoState EXCEPT !.run = state.run + 1, !.revision = state.revision + 1,
                                           !.step = outcome]
    <3>1. PICK outcome \in {"PENDING", "SUCCEEDED", "SKIPPED_INAPPLICABLE"} :
            state' = [NoState EXCEPT !.run = state.run + 1, !.revision = state.revision + 1,
                                     !.step = outcome]
      BY <2>2
    <3>2. state' = [run |-> state.run + 1, revision |-> state.revision + 1, step |-> outcome,
                    lane |-> "NONE", command |-> "NONE", artifact |-> <<>>, steps |-> "NONE",
                    lanes |-> "NONE"]
      BY <3>1 DEF NoState
    <3> QED
      BY <2>1, <2>2, <3>2, GatesAssumption DEF States
  <2>3. CASE /\ state.run > 0
             /\ \E outcome \in {"PENDING", "SUCCEEDED", "SKIPPED_INAPPLICABLE"} :
                  state' = [state EXCEPT !.revision = state.revision + 1, !.step = outcome]
    <3>1. PICK outcome \in {"PENDING", "SUCCEEDED", "SKIPPED_INAPPLICABLE"} :
            state' = NewStep(state, outcome)
      BY <2>1, <2>3, Zenon DEF NewStep, States
    <3>2. state.run > 0
      BY <2>3
    <3>3. state'.run = state.run
      BY <3>1 DEF NewStep
    <3>4. state' \in States /\ state'.revision > state.revision /\ state.run \in Nat
      BY <2>1, <3>1, NewStepIsState
    <3> QED
      BY <3>2, <3>3, <3>4
  <2>4. CASE state.run > 0 /\ state' = state
    BY <2>1, <2>4
  <2> QED
    BY <2>2, <2>3, <2>4 DEF Work
<1>2. state'.command = "NONE" \/ (state'.command = state.command /\ state'.run = state.run
                                  /\ state'.artifact = state.artifact)
  BY DEF Work, GatesInv, StatesOK, States, NoState
<1>3. /\ caller[p] = "work" /\ caller' = [caller EXCEPT ![p] = "gate"]
      /\ copy' = [copy EXCEPT ![p] = state']
      /\ UNCHANGED <<stored, runLock, does, found>>
  BY DEF Work
<1>4. GatesTypeOK'
  BY <1>1, <1>3 DEF GatesInv, GatesTypeOK, States
<1>5. StatesOK'
  BY <1>1, <1>3, NewRevision DEF GatesInv, GatesTypeOK, StatesOK, Evaluating
<1>6. Evidenced(state)'
  BY <1>2, <1>3 DEF GatesInv, Evidenced
<1>7. CopiesOK'
  BY <1>1, <1>3, <1>6, NewRevision DEF GatesInv, GatesTypeOK, StatesOK, States, CopiesOK, Evaluating, Evidenced
<1>8. OutputsOK'
  BY <1>3 DEF GatesInv, GatesTypeOK, StatesOK, OutputsOK, OutputOf
<1>9. VerdictsOK'
  BY <1>3 DEF GatesInv, GatesTypeOK, StatesOK, VerdictsOK, TakenOver, OutputOf
<1> QED
  BY <1>4, <1>5, <1>6, <1>7, <1>8, <1>9 DEF GatesInv

\* Nobody's output is there twice, and one that does not exist is nobody's evidence.
LEMMA CommandKeeps ==
  ASSUME GatesInv, NEW p \in Caller, TakePassOver(p) \/ StartGateCommand(p) \/ GateCommandEnds(p)
  PROVE  GatesInv'
<1>1. CASE TakePassOver(p)
  <2> USE <1>1 DEF TakePassOver, Moves
  <2>1. GatesTypeOK'
    BY DEF GatesInv, GatesTypeOK
  <2>2. StatesOK'
    BY DEF GatesInv, GatesTypeOK, StatesOK, Evaluating
  <2>3. CopiesOK' /\ Evidenced(state)'
    BY DEF GatesInv, GatesTypeOK, StatesOK, CopiesOK, Evaluating, Evidenced
  <2>4. OutputsOK'
    BY DEF GatesInv, GatesTypeOK, StatesOK, OutputsOK, OutputOf
  <2>5. VerdictsOK'
    BY DEF GatesInv, GatesTypeOK, StatesOK, VerdictsOK, TakenOver, OutputOf
  <2> QED
    BY <2>1, <2>2, <2>3, <2>4, <2>5 DEF GatesInv
<1>2. CASE StartGateCommand(p) /\ ~CallerEnds(p)
  <2>1. /\ caller[p] = "gate" /\ ~TakenOver(p)
        /\ caller' = [caller EXCEPT ![p] = "command"]
        /\ UNCHANGED <<state, stored, runLock, does, copy, found>>
    BY <1>2 DEF StartGateCommand, Moves, TakenOver
  <2>2. GatesTypeOK'
    BY <2>1 DEF GatesInv, GatesTypeOK
  <2>3. StatesOK'
    BY <2>1 DEF GatesInv, GatesTypeOK, StatesOK, Evaluating
  <2>4. CopiesOK' /\ Evidenced(state)'
    BY <2>1 DEF GatesInv, GatesTypeOK, CopiesOK, Evaluating, Evidenced
  <2>5. OutputsOK'
    BY <2>1 DEF GatesInv, GatesTypeOK, OutputsOK, OutputOf
  <2>6. VerdictsOK'
    BY <2>1 DEF GatesInv, GatesTypeOK, VerdictsOK, TakenOver, OutputOf
  <2> QED
    BY <2>2, <2>3, <2>4, <2>5, <2>6 DEF GatesInv
<1>3. CASE GateCommandEnds(p) /\ ~OutputExists(p)
  <2> DEFINE e0 == [attempt |-> OutputOf(p), says |-> "NONE"]
  <2>1. /\ caller[p] = "command" /\ caller' = [caller EXCEPT ![p] = "evidence"]
        /\ \E verdict \in {"PASS", "FAIL"} : found' = [found EXCEPT ![p] = verdict]
        /\ stored' = stored \cup {e0}
        /\ UNCHANGED <<state, runLock, does, copy>>
    BY <1>3 DEF GateCommandEnds, Moves
  <2>2. \A e \in stored : e.attempt # OutputOf(p)
    BY <1>3 DEF OutputExists
  <2>3. OutputOf(p) \in Attempts
    BY <2>1, GatesAssumption
       DEF GatesInv, StatesOK, States, Evaluating, OutputOf, Attempts
  <2>4. GatesTypeOK'
    BY <2>1, <2>3 DEF GatesInv, GatesTypeOK
  <2>5. StatesOK'
    BY <2>1 DEF GatesInv, GatesTypeOK, StatesOK, Evaluating
  <2>6. Evidenced(state)'
    BY <2>1 DEF GatesInv, Evidenced
  <2>7. CopiesOK'
    BY <2>1 DEF GatesInv, GatesTypeOK, CopiesOK, Evidenced, Evaluating
  <2>8. OutputsOK'
    <3>1. \A q \in Caller : OutputOf(q)' = OutputOf(q)
      BY <2>1 DEF OutputOf
    <3>2. \A e, f \in stored' : e.attempt = f.attempt => e = f
      BY <2>1, <2>2 DEF GatesInv, OutputsOK
    <3>3. \A q \in Caller : caller'[q] = "evidence" =>
            /\ [attempt |-> OutputOf(q), says |-> "NONE"] \in stored'
            /\ found'[q] # "NONE"
      BY <2>1 DEF GatesInv, GatesTypeOK, OutputsOK
    <3>4. \A q \in Caller : q # p /\ caller[q] = "evidence" => OutputOf(q) # OutputOf(p)
      BY <2>2 DEF GatesInv, OutputsOK
    <3>5. \A q, r \in Caller :
            caller'[q] = "evidence" /\ caller'[r] = "evidence" /\ OutputOf(q) = OutputOf(r) => q = r
      BY <2>1, <3>4 DEF GatesInv, GatesTypeOK, OutputsOK
    <3> QED
      BY <3>1, <3>2, <3>3, <3>5 DEF OutputsOK
  <2>9. VerdictsOK'
    BY <2>1 DEF GatesInv, GatesTypeOK, VerdictsOK, TakenOver, OutputOf
  <2> QED
    BY <2>4, <2>5, <2>6, <2>7, <2>8, <2>9 DEF GatesInv
<1> QED
  BY <1>1, <1>2, <1>3, EndingKeeps DEF StartGateCommand, GateCommandEnds

\* The file of the verdict gets its content once: no state and no copy names it before.
LEMMA EvidenceKeeps ==
  ASSUME GatesInv, NEW p \in Caller, WriteGateEvidence(p)
  PROVE  GatesInv'
<1> DEFINE before == [attempt |-> OutputOf(p), says |-> "NONE"]
           after == [attempt |-> OutputOf(p), says |-> found[p]]
<1>1. /\ caller[p] = "evidence" /\ caller' = [caller EXCEPT ![p] = "store"]
      /\ stored' = {e \in stored : e.attempt # OutputOf(p)} \cup {after}
      /\ UNCHANGED <<state, runLock, does, copy, found>>
  BY DEF WriteGateEvidence, Moves
<1>2. /\ before \in stored /\ found[p] \in {"PASS", "FAIL"} /\ OutputOf(p) \in Attempts
      /\ \A e, f \in stored : e.attempt = f.attempt => e = f
  BY <1>1 DEF GatesInv, GatesTypeOK, OutputsOK
<1>3. \A a, says : [attempt |-> a, says |-> says] \in stored /\ says # "NONE" =>
        [attempt |-> a, says |-> says] \in stored'
  BY <1>1, <1>2
<1>4. GatesTypeOK'
  BY <1>1, <1>2 DEF GatesInv, GatesTypeOK
<1>5. StatesOK'
  BY <1>1 DEF GatesInv, GatesTypeOK, StatesOK, Evaluating
<1>6. Evidenced(state)'
  BY <1>1, <1>3 DEF GatesInv, Evidenced
<1>7. CopiesOK'
  <2>1. \A q \in Caller : Evidenced(copy[q])'
    BY <1>1, <1>3 DEF GatesInv, CopiesOK, Evidenced
  <2> QED
    BY <1>1, <2>1 DEF GatesInv, GatesTypeOK, CopiesOK, Evaluating
<1>8. OutputsOK'
  <2>1. \A q \in Caller : OutputOf(q)' = OutputOf(q)
    BY <1>1 DEF OutputOf
  <2>2. \A e, f \in stored' : e.attempt = f.attempt => e = f
    BY <1>1, <1>2
  <2>3. \A q \in Caller : caller'[q] = "evidence" => q # p /\ caller[q] = "evidence"
    BY <1>1 DEF GatesInv, GatesTypeOK
  <2>4. \A q \in Caller : caller'[q] = "evidence" =>
          /\ [attempt |-> OutputOf(q), says |-> "NONE"] \in stored'
          /\ found'[q] # "NONE"
    BY <1>1, <2>3 DEF GatesInv, OutputsOK
  <2>5. \A q, r \in Caller :
          caller'[q] = "evidence" /\ caller'[r] = "evidence" /\ OutputOf(q) = OutputOf(r) => q = r
    BY <2>3 DEF GatesInv, OutputsOK
  <2> QED
    BY <2>1, <2>2, <2>4, <2>5 DEF OutputsOK
<1>9. VerdictsOK'
  <2>1. \A q \in Caller : OutputOf(q)' = OutputOf(q)
    BY <1>1 DEF OutputOf
  <2>2. \A q \in Caller : caller'[q] = "store" => q = p \/ caller[q] = "store"
    BY <1>1 DEF GatesInv, GatesTypeOK
  <2>3. \A q \in Caller : TakenOver(q)' <=> TakenOver(q)
    BY <1>1 DEF TakenOver
  <2>4. \A q \in Caller : caller'[q] \in {"command", "evidence"} => ~TakenOver(q)
    BY <1>1 DEF GatesInv, GatesTypeOK, VerdictsOK
  <2>5. ~TakenOver(p) /\ found'[p] # "NONE" /\ [attempt |-> OutputOf(p), says |-> found'[p]] \in stored'
    BY <1>1, <1>2 DEF GatesInv, VerdictsOK
  <2>6. \A q \in Caller : q # p /\ caller'[q] = "store" =>
          IF TakenOver(q) THEN found'[q] = "PASS"
          ELSE found'[q] # "NONE" /\ [attempt |-> OutputOf(q), says |-> found'[q]] \in stored'
    BY <1>1, <1>3, <2>2 DEF GatesInv, VerdictsOK
  <2> QED
    BY <2>1, <2>3, <2>4, <2>5, <2>6 DEF VerdictsOK
<1> QED
  BY <1>4, <1>5, <1>6, <1>7, <1>8, <1>9 DEF GatesInv

\* Only a state of the revision that the evaluation read gets its result.
LEMMA StoreKeeps ==
  ASSUME GatesInv, NEW p \in Caller, Store(p)
  PROVE  /\ GatesInv'
         /\ state' # state => state'.steps = Verdict(RequiredStepsComplete(state))
<1>1. CASE state' = state
  BY <1>1, EndingKeeps DEF Store
<1>2. CASE copy[p].revision = state.revision /\ state' = Recorded(p)
  <2> DEFINE proof == IF TakenOver(p) THEN copy[p].artifact ELSE OutputOf(p)
             onSteps == Verdict(RequiredStepsComplete(copy[p]))
             onLanes == Verdict(BlockingLanesAssigned(copy[p]))
             onLane == IF does[p] = "run" THEN EvaluateCoverage(copy[p]) ELSE state.lane
  <2> HIDE DEF proof, onSteps, onLanes, onLane
  <2>1. /\ caller[p] = "store"
        /\ caller' = [caller EXCEPT ![p] = "end"]
        /\ does' = [does EXCEPT ![p] = "nothing"]
        /\ copy' = [copy EXCEPT ![p] = NoState]
        /\ found' = [found EXCEPT ![p] = "NONE"]
        /\ UNCHANGED <<stored, runLock>>
    BY DEF Store, CallerEnds, Moves
  <2>2. state \in States /\ copy[p] \in States /\ copy[p].run > 0
    BY <2>1 DEF GatesInv, StatesOK, Evaluating
  <2>3. copy[p].run = state.run /\ copy[p].step = state.step
    BY <1>2, <2>1 DEF GatesInv, CopiesOK, Evaluating
  <2>4. state' = [run |-> state.run, revision |-> state.revision + 1, step |-> state.step,
                  lane |-> onLane, command |-> found[p], artifact |-> proof,
                  steps |-> onSteps, lanes |-> onLanes]
    BY <1>2, <2>2, Zenon DEF Recorded, States, proof, onSteps, onLanes, onLane, TakenOver
  <2>5. [attempt |-> proof, says |-> found[p]] \in stored /\ proof[1] = state.run
    <3>1. CASE TakenOver(p)
      <4>1. copy[p].command = "PASS" /\ found[p] = "PASS" /\ proof = copy[p].artifact
        BY <2>1, <3>1 DEF GatesInv, VerdictsOK, TakenOver, proof
      <4> QED
        BY <2>3, <4>1 DEF GatesInv, CopiesOK, Evidenced
    <3>2. CASE ~TakenOver(p)
      BY <2>1, <2>3, <3>2 DEF GatesInv, VerdictsOK, OutputOf, proof
    <3> QED
      BY <3>1, <3>2
  <2>6. /\ proof \in Attempts /\ found[p] \in {"NONE", "PASS", "FAIL"}
        /\ {onSteps, onLanes} \subseteq {"NONE", "PASS", "FAIL"}
        /\ onLane \in {"NONE", "ASSIGNED", "UNASSIGNED"}
    BY <2>2, <2>5 DEF GatesInv, GatesTypeOK, States, onSteps, onLanes, onLane, Verdict, EvaluateCoverage
  <2>7. state' \in States /\ state'.revision > state.revision /\ state'.run = state.run
    BY <2>2, <2>4, <2>6 DEF States
  <2>8. Evidenced(state)'
    BY <2>1, <2>4, <2>5 DEF Evidenced
  <2>9. NoState \in States /\ NoState.command = "NONE"
    BY GatesAssumption DEF NoState, States
  <2>10. state'.steps = Verdict(RequiredStepsComplete(state))
    BY <2>3, <2>4 DEF onSteps, RequiredStepsComplete
  <2>11. GatesTypeOK'
    BY <2>1, <2>7 DEF GatesInv, GatesTypeOK, States
  <2>12. \A q \in Caller : q # p =>
           /\ caller'[q] = caller[q] /\ copy'[q] = copy[q] /\ does'[q] = does[q]
           /\ found'[q] = found[q]
    BY <2>1 DEF GatesInv, GatesTypeOK, StatesOK
  <2>13. caller'[p] = "end" /\ copy'[p] = NoState
    BY <2>1 DEF GatesInv, GatesTypeOK, StatesOK
  <2>14. /\ \A q \in Caller : caller[q] = "load" => state'.run > 0
         /\ \A q \in Caller : caller[q] \in Evaluating =>
              /\ copy[q].revision <= state'.revision
              /\ copy[q].revision = state'.revision =>
                   copy[q].run = state'.run /\ copy[q].step = state'.step
    <3>1. state'.run >= state.run
      BY <2>2, <2>7, GatesAssumption DEF States
    <3> QED
      BY <2>7, <3>1, NewRevision
  <2>15. StatesOK'
    BY <2>1, <2>7, <2>9, <2>12, <2>13, <2>14 DEF GatesInv, StatesOK, Evaluating
  <2>16. CopiesOK'
    BY <2>1, <2>9, <2>12, <2>13, <2>14 DEF GatesInv, CopiesOK, Evaluating, Evidenced
  <2>17. OutputsOK'
    BY <2>1, <2>12, <2>13 DEF GatesInv, OutputsOK, OutputOf
  <2>18. VerdictsOK'
    BY <2>1, <2>12, <2>13 DEF GatesInv, VerdictsOK, TakenOver, OutputOf
  <2> QED
    BY <2>8, <2>10, <2>11, <2>15, <2>16, <2>17, <2>18 DEF GatesInv
<1> QED
  BY <1>1, <1>2 DEF Store

LEMMA GatesInvHolds == GatesSpec => []GatesInv
<1>1. GatesInit => GatesInv
  <2>1. NoState \in States /\ NoState.command = "NONE"
    BY GatesAssumption DEF NoState, States
  <2> QED
    BY <2>1, GatesAssumption
       DEF GatesInit, GatesInv, GatesTypeOK, StatesOK, CopiesOK, OutputsOK, VerdictsOK,
           Evidenced, Evaluating, NoState
<1>2. GatesInv /\ [GatesNext]_gatesVars => GatesInv'
  <2> SUFFICES ASSUME GatesInv, [GatesNext]_gatesVars PROVE GatesInv'
    OBVIOUS
  <2>1. CASE Approve \/ ResetSteps
    BY <2>1, OperatorKeeps
  <2>2. ASSUME NEW p \in Caller,
               WorkThrows(p) \/ GateThrows(p) \/ KillCommand(p)
        PROVE  GatesInv'
    BY <2>2, EndingKeeps DEF WorkThrows, GateThrows, KillCommand
  <2>3. ASSUME NEW p \in Caller,
               \/ BeginRun(p) \/ BeginVerify(p) \/ ReleaseRunLock(p) \/ LoadState(p) \/ Work(p)
               \/ TakePassOver(p) \/ StartGateCommand(p) \/ GateCommandEnds(p)
               \/ WriteGateEvidence(p) \/ Store(p)
        PROVE  GatesInv'
    BY <2>3, BeginningKeeps, WorkKeeps, CommandKeeps, EvidenceKeeps, StoreKeeps
  <2>4. CASE UNCHANGED gatesVars
    BY <2>4 DEF gatesVars, GatesInv, GatesTypeOK, StatesOK, CopiesOK, OutputsOK, VerdictsOK,
                Evidenced, TakenOver, OutputOf
  <2> QED
    BY <2>1, <2>2, <2>3, <2>4 DEF GatesNext
<1> QED
  BY <1>1, <1>2, PTL DEF GatesSpec

\* The state file, the outputs and the evaluations keep their types (reconcileState).
THEOREM GatesTypeCorrect == GatesSpec => []GatesTypeOK
<1>1. GatesInv => GatesTypeOK
  BY DEF GatesInv
<1> QED
  BY <1>1, GatesInvHolds, PTL

\* For any number of processes and runs, the verdict that the state file records is that of a
\* command of the current run, and the file it names says so, through evaluations without the
\* lock, kills and replaced runs (evaluateReleaseGates, reconcileState).
THEOREM VerdictsAreEvidenced == GatesSpec => []VerdictIsEvidenced
<1>1. GatesInv => VerdictIsEvidenced
  BY DEF GatesInv, Evidenced, VerdictIsEvidenced
<1> QED
  BY <1>1, GatesInvHolds, PTL

\* For any number of processes and runs, what an evaluation records of the steps is true of the
\* steps it is recorded with, though what it read is not protected (reconcileState).
THEOREM GatesAreCurrent == GatesSpec => RecordedGatesAreCurrent
<1>1. GatesInv /\ [GatesNext]_gatesVars =>
        [ (\E p \in Caller : caller[p] = "store" /\ caller'[p] = "end") /\ state' # state
          => state'.steps = Verdict(RequiredStepsComplete(state)) ]_gatesVars
  <2> SUFFICES ASSUME GatesInv, GatesNext, NEW p \in Caller,
                      caller[p] = "store", caller'[p] = "end", state' # state
               PROVE  state'.steps = Verdict(RequiredStepsComplete(state))
    BY DEF gatesVars
  <2>1. CASE Approve \/ ResetSteps
    BY <2>1 DEF Approve, ResetSteps
  <2>2. ASSUME NEW q \in Caller, Work(q) PROVE FALSE
    BY <2>2 DEF Work, Moves, GatesInv, GatesTypeOK
  <2>3. ASSUME NEW q \in Caller, Store(q)
        PROVE  state'.steps = Verdict(RequiredStepsComplete(state))
    BY <2>3, StoreKeeps
  <2>4. ASSUME NEW q \in Caller,
               \/ BeginRun(q) \/ BeginVerify(q) \/ WorkThrows(q) \/ LoadState(q)
               \/ ReleaseRunLock(q) \/ TakePassOver(q) \/ StartGateCommand(q)
               \/ GateCommandEnds(q) \/ WriteGateEvidence(q) \/ GateThrows(q) \/ KillCommand(q)
        PROVE  FALSE
    BY <2>4 DEF BeginRun, BeginVerify, AcquireRunLock, WorkThrows, LoadState, ReleaseRunLock,
                TakePassOver, StartGateCommand, GateCommandEnds, WriteGateEvidence, GateThrows,
                KillCommand
  <2> QED
    BY <2>1, <2>2, <2>3, <2>4 DEF GatesNext
<1> QED
  BY <1>1, GatesInvHolds, PTL DEF GatesSpec, RecordedGatesAreCurrent

(***************************************************************************)
(* The automatic runner, for any playbook, any limits and callbacks that   *)
(* throw.                                                                  *)
(*                                                                         *)
(* A change that no verification passed on belongs to the attempt the loop *)
(* is at, and one of the receipts knows of it, until the report says so.   *)
(***************************************************************************)
\* A set of numbers has a least one: the induction that the facts below need.
LEMMA LeastNumber ==
  ASSUME NEW S \in SUBSET Nat, S # {}
  PROVE  \E i \in S : \A j \in S : i <= j
<1> DEFINE Less == {ij \in Nat \X Nat : ij[1] < ij[2]}
<1>1. IsWellFoundedOn(Less, Nat)
  BY NatLessThanWellFounded DEF OpToRel
<1> HIDE DEF Less
<1>2. PICK i \in S : \A j \in S : <<j, i>> \notin Less
  BY <1>1, WFMin
<1>3. \A j \in S : ~(j < i)
  <2> TAKE j \in S
  <2>1. <<j, i>> \in Nat \X Nat
    OBVIOUS
  <2> QED
    BY <1>2, <2>1 DEF Less
<1> QED
  BY <1>3

\* A playbook with an open step has a first one (selectNextAction).
LEMMA FirstOpenIsOpen ==
  ASSUME Completed # StepIds
  PROVE  Playbook[FirstOpen] \in StepIds /\ Playbook[FirstOpen] \notin Completed
<1> DEFINE opens == {i \in DOMAIN Playbook : Playbook[i] \notin Completed}
<1>1. Len(Playbook) \in Nat /\ DOMAIN Playbook = 1..Len(Playbook)
  BY PilotAssumption
<1>2. opens \in SUBSET Nat /\ opens # {}
  BY <1>1 DEF Completed, StepIds
<1>3. PICK i \in opens : \A j \in opens : i <= j
  <2> HIDE DEF opens
  <2> QED
    BY <1>2, LeastNumber
<1>4. \A j \in 1..(i - 1) : Playbook[j] \in Completed
  BY <1>1, <1>3
<1>5. FirstOpen \in DOMAIN Playbook /\ Playbook[FirstOpen] \notin Completed
  BY <1>3, <1>4 DEF FirstOpen
<1> QED
  BY <1>5 DEF StepIds

\* The counters and limits are numbers.
LEMMA PilotCounts ==
  ASSUME PilotTypeOK
  PROVE  MaxTurns \in Nat /\ Target \in Nat /\ foreign \in Nat /\ failures \in Nat /\ cost \in Nat
<1>1. MaxTurns \in Nat /\ MaxForeign \in Nat /\ Target \in Nat
  <2>1. {MaxTurns, MaxCost, MaxFailures, MaxForeign} \subseteq Nat /\ Target \in 0..100
    BY PilotAssumption
  <2> QED
    BY <2>1
<1>2. {failures, cost} \subseteq Nat /\ foreign \in 0..MaxForeign
  BY DEF PilotTypeOK
<1> QED
  BY <1>1, <1>2

\* The completion is a number, and reached or not (calculateCompletionPercentage).
LEMMA TargetIsReachedOrNot ==
  ASSUME PilotTypeOK
  PROVE  TargetReached \in BOOLEAN
<1>1. Len(Playbook) \in Nat /\ Playbook \in [1..Len(Playbook) -> StepIds]
  BY PilotAssumption
<1>2. IsFiniteSet(StepIds)
  <2>1. Playbook \in Surjection(1..Len(Playbook), StepIds)
    BY <1>1 DEF Surjection, StepIds
  <2>2. IsFiniteSet(1..Len(Playbook))
    BY <1>1, FS_Interval
  <2> QED
    BY <2>1, <2>2, FS_Surjection
<1>3. Cardinality(Completed) \in Nat
  <2>1. Completed \subseteq StepIds
    BY DEF Completed
  <2> QED
    BY <1>2, <2>1, FS_Subset, FS_CardinalityType
<1> DEFINE reached == 100 * (Cardinality(Completed) + foreign)
           needed  == Target * Len(Playbook)
<1>4. reached \in Int /\ needed \in Int
  <2>1. foreign \in Nat /\ Target \in Nat
    BY PilotCounts
  <2>2. reached \in Int
    BY <1>3, <2>1
  <2>3. needed \in Int
    BY <1>1, <2>1
  <2> QED
    BY <2>2, <2>3
<1> HIDE DEF reached, needed
<1>5. (reached >= needed) \in BOOLEAN
  BY <1>4
<1> QED
  BY <1>5, Zenon DEF TargetReached, reached, needed

InAttempt == {"execute", "verify", "repair", "verify repair", "failed"}

\* What no verification passed on belongs to the attempt that the loop is at, and a receipt of it
\* says so, until it is reported.
ChangesAreKnown ==
  /\ loop \in InAttempt => action \in StepIds
  /\ loop = "execute" => stepReceipt = Nothing
  /\ loop \in {"execute", "verify", "repair"} => repairReceipt = Nothing
  /\ \A s \in StepIds : repository[s] = "unverified" =>
       \/ loop \in InAttempt /\ s = action /\ (stepReceipt.changed \/ repairReceipt.changed)
       \/ loop = "reported" /\ report.breaker = "TRIPPED"
       \/ loop = "threw"

PilotInv == PilotTypeOK /\ ChangesAreKnown

\* Between attempts nothing changes but the account and the report.
LEMMA BetweenAttempts ==
  ASSUME PilotInv, ReportCompletion \/ Trip \/ TurnsAreOver \/ StopReason \/ SelectNextAction
  PROVE  PilotInv'
<1>0. \A s \in StepIds : repository[s] # "unverified"
  BY DEF PilotInv, ChangesAreKnown, ReportCompletion, Trip, TurnsAreOver, StopReason, SelectNextAction,
         MayTurn, InAttempt
<1>1. CASE ReportCompletion \/ Trip \/ TurnsAreOver \/ StopReason
  <2>1. /\ loop' = "reported"
        /\ report' \in [completed : BOOLEAN, breaker : {"NONE", "HEALTHY", "RECOVERED", "TRIPPED"}]
        /\ UNCHANGED <<steps, given, callbacks, breaker, repository, failures, cost>>
        /\ turns' \in 0..MaxTurns
    <3> USE DEF Report, accounts, PilotInv, PilotTypeOK
    <3>1. TargetReached \in BOOLEAN
      BY TargetIsReachedOrNot
    <3>2. CASE ReportCompletion
      BY <3>2 DEF ReportCompletion
    <3>3. CASE Trip
      BY <3>3 DEF Trip
    <3>4. CASE TurnsAreOver
      BY <3>1, <3>4 DEF TurnsAreOver
    <3>5. CASE StopReason
      BY <3>5, PilotAssumption DEF StopReason, MayTurn
    <3> QED
      BY <1>1, <3>2, <3>3, <3>4, <3>5
  <2>2. PilotTypeOK'
    BY <2>1 DEF PilotInv, PilotTypeOK, given, callbacks
  <2>3. ChangesAreKnown'
    BY <1>0, <2>1 DEF ChangesAreKnown, InAttempt
  <2> QED
    BY <2>2, <2>3 DEF PilotInv
<1>2. CASE SelectNextAction
  <2>1. Playbook[FirstOpen] \in StepIds
    BY <1>2, FirstOpenIsOpen DEF SelectNextAction, ActionSelected
  <2>2. turns' \in 0..MaxTurns
    BY <1>2, PilotAssumption DEF SelectNextAction, MayTurn, PilotInv, PilotTypeOK
  <2>3. Nothing \in Receipts
    BY DEF Nothing, Receipts
  <2>4. PilotTypeOK'
    BY <1>2, <2>1, <2>2, <2>3 DEF SelectNextAction, PilotInv, PilotTypeOK, given
  <2>5. ChangesAreKnown'
    BY <1>0, <1>2, <2>1 DEF SelectNextAction, ChangesAreKnown, InAttempt
  <2> QED
    BY <2>4, <2>5 DEF PilotInv
<1> QED
  BY <1>1, <1>2

\* What a callback changes, its receipt says.
LEMMA CallbacksKeep ==
  ASSUME PilotInv, ExecuteStep \/ SelfHealingRepair
  PROVE  PilotInv'
<1>0. action \in StepIds /\ repository \in [StepIds -> {"untouched", "unverified", "verified"}]
  BY DEF PilotInv, PilotTypeOK, ChangesAreKnown, InAttempt, ExecuteStep, SelfHealingRepair
<1>1. CASE ExecuteStep
  <2>1. PICK r \in Receipts :
          /\ stepReceipt' = r /\ Changes(r)
          /\ loop' = IF r.executed THEN "verify" ELSE "repair"
    BY <1>1 DEF ExecuteStep
  <2>2. loop = "execute" /\ UNCHANGED <<steps, given, accounts, action, repairReceipt, breaker, report>>
    BY <1>1 DEF ExecuteStep
  <2>3. PilotTypeOK'
    BY <1>0, <2>1, <2>2 DEF PilotInv, PilotTypeOK, Changes, given, accounts
  <2>4. \A s \in StepIds : repository[s] # "unverified"
    BY <2>2 DEF PilotInv, ChangesAreKnown, Nothing, InAttempt
  <2>5. repairReceipt' = Nothing /\ action' = action /\ loop' \in {"verify", "repair"}
    BY <2>1, <2>2 DEF PilotInv, ChangesAreKnown
  <2>6. \A s \in StepIds : repository'[s] = "unverified" => s = action /\ stepReceipt'.changed
    BY <1>0, <2>1, <2>4 DEF Changes
  <2>7. ChangesAreKnown'
    BY <1>0, <2>5, <2>6 DEF ChangesAreKnown, InAttempt
  <2> QED
    BY <2>3, <2>7 DEF PilotInv
<1>2. CASE SelfHealingRepair
  <2>1. PICK r \in Receipts :
          /\ repairReceipt' = r /\ Changes(r)
          /\ loop' = IF r.executed THEN "verify repair" ELSE "failed"
    BY <1>2 DEF SelfHealingRepair
  <2>2. loop = "repair" /\ UNCHANGED <<steps, given, accounts, action, stepReceipt, breaker, report>>
    BY <1>2 DEF SelfHealingRepair
  <2>3. PilotTypeOK'
    BY <1>0, <2>1, <2>2 DEF PilotInv, PilotTypeOK, Changes, given, accounts
  <2>4. repairReceipt.changed = FALSE
    BY <2>2 DEF PilotInv, ChangesAreKnown, Nothing
  <2>5. ChangesAreKnown'
    BY <1>0, <2>1, <2>2, <2>4 DEF PilotInv, ChangesAreKnown, Changes, InAttempt
  <2> QED
    BY <2>3, <2>5 DEF PilotInv
<1> QED
  BY <1>1, <1>2

\* A verification that passes covers all that the attempt changed, one that fails nothing.
LEMMA VerificationKeeps ==
  ASSUME PilotInv, VerificationPasses \/ VerificationFails \/ VerificationThrows
  PROVE  PilotInv'
<1>0. action \in StepIds /\ repository \in [StepIds -> {"untouched", "unverified", "verified"}]
  BY DEF PilotInv, PilotTypeOK, ChangesAreKnown, InAttempt, VerificationPasses, VerificationFails,
         VerificationThrows
<1>1. CASE VerificationPasses
  <2>1. PilotTypeOK'
    <3>1. /\ repository' \in [StepIds -> {"untouched", "unverified", "verified"}]
          /\ steps' \in [StepIds -> {"PENDING", "SUCCEEDED", "FAILED"}]
      BY <1>0, <1>1 DEF PilotInv, PilotTypeOK, VerificationPasses, Verified, RecordSuccess
    <3>2. {failures', cost'} \subseteq Nat /\ loop' = "loop" /\ breaker' \in {"HEALTHY", "RECOVERED"}
      <4>1. cost \in Nat /\ breaker \in {"HEALTHY", "RECOVERED"}
        BY PilotCounts DEF PilotInv, PilotTypeOK
      <4>2. loop' = "loop" /\ failures' = 0 /\ cost' = cost + 2 /\ breaker' \in {breaker, "RECOVERED"}
        BY <1>1 DEF VerificationPasses, RecordSuccess
      <4> QED
        BY <4>1, <4>2
    <3>3. UNCHANGED <<turns, given, callbacks, report>>
      BY <1>1 DEF VerificationPasses, Verified, RecordSuccess
    <3> QED
      BY <3>1, <3>2, <3>3 DEF PilotInv, PilotTypeOK, given, callbacks
  <2>2. \A s \in StepIds : repository'[s] # "unverified"
    BY <1>0, <1>1 DEF PilotInv, ChangesAreKnown, VerificationPasses, Verified, InAttempt
  <2>3. ChangesAreKnown'
    BY <1>1, <2>2 DEF ChangesAreKnown, VerificationPasses, RecordSuccess, InAttempt
  <2> QED
    BY <2>1, <2>3 DEF PilotInv
<1>2. CASE VerificationFails
  BY <1>2 DEF PilotInv, PilotTypeOK, ChangesAreKnown, VerificationFails, InAttempt, given, accounts, callbacks
<1>3. CASE VerificationThrows
  BY <1>3 DEF PilotInv, PilotTypeOK, ChangesAreKnown, VerificationThrows, Throws, InAttempt, given,
              accounts, callbacks
<1> QED
  BY <1>1, <1>2, <1>3

\* A failed attempt has changed nothing, is rolled back, or is reported.
LEMMA FailureKeeps ==
  ASSUME PilotInv, NothingToRollBack \/ RollbackConfirmed \/ RollbackNotConfirmed
  PROVE  PilotInv'
<1>0. /\ loop = "failed" /\ action \in StepIds
      /\ repository \in [StepIds -> {"untouched", "unverified", "verified"}]
      /\ \A s \in StepIds : repository[s] = "unverified" =>
           s = action /\ (stepReceipt.changed \/ repairReceipt.changed)
  BY DEF PilotInv, PilotTypeOK, ChangesAreKnown, InAttempt, NothingToRollBack, RollbackConfirmed,
         RollbackNotConfirmed
<1>1. /\ steps' \in [StepIds -> {"PENDING", "SUCCEEDED", "FAILED"}]
      /\ {failures', cost'} \subseteq Nat
      /\ UNCHANGED <<turns, given, callbacks, breaker>>
  BY <1>0 DEF PilotInv, PilotTypeOK, NothingToRollBack, RollbackConfirmed, RollbackNotConfirmed, RecordFailure
<1>2. CASE NothingToRollBack
  BY <1>0, <1>1, <1>2 DEF PilotInv, PilotTypeOK, ChangesAreKnown, NothingToRollBack, InAttempt, given, callbacks
<1>3. CASE RollbackConfirmed
  BY <1>0, <1>1, <1>3 DEF PilotInv, PilotTypeOK, ChangesAreKnown, RollbackConfirmed, InAttempt, given, callbacks
<1>4. CASE RollbackNotConfirmed
  BY <1>0, <1>1, <1>4 DEF PilotInv, PilotTypeOK, ChangesAreKnown, RollbackNotConfirmed, InAttempt, given, callbacks
<1> QED
  BY <1>2, <1>3, <1>4

LEMMA PilotInvHolds == PilotSpec => []PilotInv
<1>1. PilotInit => PilotInv
  BY PilotAssumption
     DEF PilotInit, PilotInv, PilotTypeOK, ChangesAreKnown, InAttempt, Nothing, NoReport, Receipts
<1>2. PilotInv /\ [PilotNext]_pilotVars => PilotInv'
  <2>1. ASSUME PilotInv, UNCHANGED pilotVars PROVE PilotInv'
    BY <2>1 DEF pilotVars, given, accounts, callbacks, PilotInv, PilotTypeOK, ChangesAreKnown
  <2> QED
    BY <2>1, BetweenAttempts, CallbacksKeep, VerificationKeeps, FailureKeeps DEF PilotNext
<1> QED
  BY <1>1, <1>2, PTL DEF PilotSpec

\* For any playbook and limits, what the runner keeps has its types and its action is a step of
\* the playbook (runToAbsoluteSuccess, selectNextAction).
THEOREM PilotTypeCorrect == PilotSpec => []PilotTypeOK
<1>1. PilotInv => PilotTypeOK
  BY DEF PilotInv
<1> QED
  BY <1>1, PilotInvHolds, PTL

\* For any playbook and limits, and whatever the callbacks do, report or throw, no turn but the
\* reported last one leaves a change behind that nothing verified (runToAbsoluteSuccess).
THEOREM PilotLeavesNothing == PilotSpec => []NothingUnverifiedIsLeft
<1>1. PilotInv => NothingUnverifiedIsLeft
  BY DEF PilotInv, ChangesAreKnown, InAttempt, NothingUnverifiedIsLeft
<1> QED
  BY <1>1, PilotInvHolds, PTL

(***************************************************************************)
(* The protocols of one project together.                                  *)
(***************************************************************************)
\* Protocols that share no file do not disturb each other: each behaves as its own specification
\* says, so that what is proved of it above and in the modules before holds in the composition.
LEMMA EachForItself ==
  Spec => JournalSpec /\ InvocationSpec /\ RunLockSpec /\ CacheSpec /\ GatesSpec /\ PilotSpec
<1>1. Init => JournalInit /\ InvocationInit /\ RunLockInit /\ CacheInit /\ GatesInit /\ PilotInit
  BY DEF Init
<1>2. [Next]_suiteVars =>
        /\ [JournalNext]_journalVars /\ [InvocationNext]_invocationVars
        /\ [RunLockNext]_runLockVars /\ [CacheNext]_cacheVars
        /\ [GatesNext]_gatesVars /\ [PilotNext]_pilotVars
  BY DEF Next, suiteVars, JournalSteps, InvocationSteps, RunLockSteps, CacheSteps, GatesSteps,
     PilotSteps
<1> QED
  BY <1>1, <1>2, PTL
     DEF Spec, JournalSpec, InvocationSpec, RunLockSpec, CacheSpec, GatesSpec, PilotSpec

\* Every variable of every protocol keeps its type, whatever the others do and whatever is
\* killed, fails or is removed.
THEOREM ProtocolsTypeCorrect == Spec => []TypesOK
<1>1. LockInv => RunLockTypeOK
  BY DEF LockInv
<1> QED
  BY <1>1, EachForItself, JournalTypesHold, TypeCorrect, LockInvHolds, CacheTypesHold,
     GatesTypeCorrect, PilotTypeCorrect, PTL DEF TypesOK
=============================================================================
