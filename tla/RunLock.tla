------------------------------ MODULE RunLock ------------------------------
(***************************************************************************)
(* .dokion/run.lock.json at the granularity of file operations:            *)
(* acquireRunLock, release and recoverStaleRunLock of                      *)
(* src/state/run-lock.ts.  RuntimeEngine takes this lock in one step; here *)
(* is what that step is made of.                                           *)
(*                                                                         *)
(* A process is one dokion command: it acquires the lock, works, releases  *)
(* and exits, or it recovers the lock of another that is gone.  A token is *)
(* drawn per acquisition, so that the process stands for it.  Creating the *)
(* lock file and writing its record are two steps of the operating system, *)
(* and every removal of the file is by path: it removes what is there.     *)
(***************************************************************************)
EXTENDS FiniteSets

CONSTANTS
  Command,      \* commands, each a process of its own
  NoCommand,    \* not a process
  CommandKills  \* whether processes may be killed

ASSUME RunLockAssumption == NoCommand \notin Command /\ CommandKills \in BOOLEAN

VARIABLES
  lockFile,   \* whose lock file is there, or NoCommand
  recorded,   \* whether its record is written; until then nobody can read it
  stage,      \* how far a process is
  stale,      \* whose record a recovery read
  archived,   \* whose record the archive of a recovery holds, or NoCommand
  recoveries  \* the recovery log: [by, previous_owner_token]

file == <<lockFile, recorded>>
runLockVars == <<file, stage, stale, archived, recoveries>>

CommandGone(p) == stage[p] \in {"exited", "killed"}

Advances(p, s) == stage' = [stage EXCEPT ![p] = s]

RunLockInit ==
  /\ lockFile = NoCommand /\ recorded = FALSE
  /\ stage = [p \in Command |-> "new"]
  /\ stale = [p \in Command |-> NoCommand]
  /\ archived = [p \in Command |-> NoCommand]
  /\ recoveries = {}

(***************************************************************************)
(* acquireRunLock.                                                         *)
(***************************************************************************)
CreateLock(p) ==
  /\ stage[p] = "new" /\ lockFile = NoCommand
  /\ lockFile' = p /\ recorded' = FALSE
  /\ Advances(p, "record")
  /\ UNCHANGED <<stale, archived, recoveries>>

\* The record goes to the file that was created, also when its name is gone by now.
WriteLockRecord(p) ==
  /\ stage[p] = "record"
  /\ recorded' = (recorded \/ lockFile = p)
  /\ Advances(p, "work")
  /\ UNCHANGED <<lockFile, stale, archived, recoveries>>

\* A write that fails throws, and the file stays without a record.
RecordRefused(p) ==
  /\ stage[p] = "record"
  /\ Advances(p, "exited")
  /\ UNCHANGED <<file, stale, archived, recoveries>>

\* Bug: a stale lock is taken over.
TakeOver(p) ==
  /\ stage[p] = "new" /\ lockFile # NoCommand
  /\ IF recorded /\ CommandGone(lockFile) THEN lockFile' = p /\ Advances(p, "work")
                                   ELSE UNCHANGED lockFile /\ Advances(p, "exited")
  /\ UNCHANGED <<recorded, stale, archived, recoveries>>

\* EEXIST: RUN_LOCKED, RUN_LOCK_STALE or INVALID_RUN_LOCK, and the command ends in each case.
AcquireRefused(p) ==
  /\ stage[p] = "new" /\ lockFile # NoCommand
  /\ Advances(p, "exited")
  /\ UNCHANGED <<file, stale, archived, recoveries>>

(***************************************************************************)
(* release, from the finally clause of the command.                        *)
(***************************************************************************)
BeginRelease(p) ==
  /\ stage[p] = "work"
  /\ Advances(p, "release")
  /\ UNCHANGED <<file, stale, archived, recoveries>>

\* readLock and the comparison of the token.
OwnTokenRead(p) ==
  /\ stage[p] = "release"
  /\ Advances(p, IF lockFile = p /\ recorded THEN "remove" ELSE "exited")
  /\ UNCHANGED <<file, stale, archived, recoveries>>

RemoveLock(p) ==
  /\ stage[p] = "remove"
  /\ lockFile' = NoCommand /\ recorded' = FALSE
  /\ Advances(p, "exited")
  /\ UNCHANGED <<stale, archived, recoveries>>

(***************************************************************************)
(* recoverStaleRunLock.                                                    *)
(***************************************************************************)
\* Bug: the liveness of the owner is not looked at.
BeginAnyRecovery(p) ==
  /\ stage[p] = "new"
  /\ lockFile # NoCommand /\ recorded
  /\ stale' = [stale EXCEPT ![p] = lockFile]
  /\ Advances(p, "archive")
  /\ UNCHANGED <<file, archived, recoveries>>

\* The record is readable and its process is gone.  A process that is gone may also look
\* alive, when its pid was given to another: then, as for every other lock, nothing happens.
BeginRecovery(p) ==
  /\ stage[p] = "new"
  /\ lockFile # NoCommand /\ recorded /\ CommandGone(lockFile)
  /\ stale' = [stale EXCEPT ![p] = lockFile]
  /\ Advances(p, "archive")
  /\ UNCHANGED <<file, archived, recoveries>>

RecoveryRefused(p) ==
  /\ stage[p] = "new"
  /\ Advances(p, "exited")
  /\ UNCHANGED <<file, stale, archived, recoveries>>

\* copyFile takes what is there by now, and throws when nothing is.
Archive(p) ==
  /\ stage[p] = "archive"
  /\ archived' = [archived EXCEPT ![p] = lockFile]
  /\ Advances(p, IF lockFile = NoCommand THEN "exited" ELSE "log")
  /\ UNCHANGED <<file, stale, recoveries>>

LogRecovery(p) ==
  /\ stage[p] = "log"
  /\ recoveries' = recoveries \cup {[by |-> p, previous_owner_token |-> stale[p]]}
  /\ Advances(p, "break")
  /\ UNCHANGED <<file, stale, archived>>

RemoveStaleLock(p) ==
  /\ stage[p] = "break"
  /\ lockFile' = NoCommand /\ recorded' = FALSE
  /\ Advances(p, "exited")
  /\ UNCHANGED <<stale, archived, recoveries>>

KillProcess(p) ==
  /\ CommandKills /\ stage[p] \notin {"new", "exited", "killed"}
  /\ Advances(p, "killed")
  /\ UNCHANGED <<file, stale, archived, recoveries>>

RunLockNext ==
  \E p \in Command :
    \/ CreateLock(p) \/ WriteLockRecord(p) \/ RecordRefused(p) \/ AcquireRefused(p)
    \/ BeginRelease(p) \/ OwnTokenRead(p) \/ RemoveLock(p)
    \/ BeginRecovery(p) \/ RecoveryRefused(p) \/ Archive(p) \/ LogRecovery(p)
    \/ RemoveStaleLock(p) \/ KillProcess(p)

RunLockSpec == RunLockInit /\ [][RunLockNext]_runLockVars

------------------------------------------------------------------------------
RunLockTypeOK ==
  /\ lockFile \in Command \cup {NoCommand}
  /\ recorded \in BOOLEAN
  /\ stage \in [Command -> {"new", "record", "work", "release", "remove", "archive", "log",
                         "break", "exited", "killed"}]
  /\ stale \in [Command -> Command \cup {NoCommand}]
  /\ archived \in [Command -> Command \cup {NoCommand}]
  /\ recoveries \subseteq [by : Command, previous_owner_token : Command]

\* Processes that hold the lease.
Owners == {p \in Command : stage[p] \in {"work", "release"}}

\* The recovery log says that the lock of p was recovered by two.
RecoveredTwice ==
  \E r, s \in recoveries :
    r.by # s.by /\ r.previous_owner_token = s.previous_owner_token

\* The lock excludes: two commands hold it at once only if two recoveries of one and the
\* same stale lock ran at once, and then the recovery log shows it, because both are
\* recorded before either removes a file (acquireRunLock, recoverStaleRunLock).
ExclusiveUnlessRecoveredTwice ==
  (\E p, q \in Owners : p # q) => RecoveredTwice

\* What a recovery archived is the record that it names, or the log shows a second recovery
\* of the same lock: copyFile reads the file again, after the decision.
ArchiveNamesTheLock ==
  \A r \in recoveries :
    archived[r.by] # r.previous_owner_token => RecoveredTwice
=============================================================================
