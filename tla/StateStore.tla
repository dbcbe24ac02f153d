----------------------------- MODULE StateStore -----------------------------
(***************************************************************************)
(* .dokion/state.json at the granularity of file operations: the           *)
(* compare-and-swap of src/state/state-store.ts under its transition lock, *)
(* the temporary files of src/core/json.ts, and recoverAtomicWrites        *)
(* (src/core/atomic-file.ts), which init and reset run without any lock.   *)
(* Every await is a point at which another process may run, and the point  *)
(* at which the process may be killed.                                     *)
(*                                                                         *)
(* The content of the file is the sequence of the updates that made it, so *)
(* that its revision is its length and a lost update is one that is not in *)
(* it.  An update is named after the process and the content it extends.   *)
(***************************************************************************)
EXTENDS Integers, Sequences

CONSTANTS
  Proc,        \* processes that share the project (of one host)
  Nobody,      \* not a process
  Crashes,     \* whether processes may be killed
  MaxRevision  \* bound: no update begins at this revision

ASSUME StoreAssumption ==
  /\ Nobody \notin Proc
  /\ Crashes \in BOOLEAN
  /\ MaxRevision \in Nat

VARIABLES
  content,    \* state.json; <<>> while it does not exist
  tmp, meta,  \* state.json.tmp and state.json.tmp.meta.json (its digest); <<>> if absent
  lock,       \* whose record the transition lock file holds
  torn,       \* the lock file exists but its record is not written yet
  live,       \* processes that run
  writer,
  expected,   \* the content whose revision the caller expects
  next,       \* the content the process writes, or whose digest its recovery read
  acked       \* updates whose callers were told of their success

files == <<content, tmp, meta>>
locks == <<lock, torn>>
local == <<writer, expected, next>>
storeVars  == <<files, locks, live, local, acked>>

NoFile == <<>>

Goes(p, l) == writer' = [writer EXCEPT ![p] = l]
At(p, l)   == p \in live /\ writer[p] = l

Names(p, base) == [by |-> p, at |-> Len(base)]

\* The exception reaches the finally clause of withTransitionLock.
Fails(p) == Goes(p, "release_failed")

(***************************************************************************)
(* withTransitionLock: an exclusive create in a loop.  A lock whose owner  *)
(* no longer runs is removed, by whoever saw it.                           *)
(***************************************************************************)
\* The caller loads the state; it passes the revision it saw to update or initialize.
Load(p) ==
  /\ At(p, "idle") /\ Len(content) < MaxRevision
  /\ expected' = [expected EXCEPT ![p] = content]
  /\ Goes(p, "lock")
  /\ UNCHANGED <<files, locks, live, next, acked>>

OpenLock(p) ==
  /\ At(p, "lock") /\ lock = Nobody
  /\ lock' = p /\ torn' = TRUE
  /\ Goes(p, "record")
  /\ UNCHANGED <<files, live, expected, next, acked>>

\* The record goes to the file that was opened, wherever its name points by now.
WriteRecord(p) ==
  /\ At(p, "record")
  /\ torn' = (torn /\ lock # p)
  /\ Goes(p, "load")
  /\ UNCHANGED <<files, lock, live, expected, next, acked>>

LockExists(p) ==
  /\ At(p, "lock") /\ lock # Nobody
  /\ Goes(p, "inspect")
  /\ UNCHANGED <<files, locks, live, expected, next, acked>>

\* Bug: a lock without a record counts as abandoned.
OwnerGoneOrTorn == lock # Nobody /\ (torn \/ lock \notin live)

OwnerGone == lock # Nobody /\ ~torn /\ lock \notin live

InspectLock(p) ==
  /\ At(p, "inspect")
  /\ IF OwnerGone THEN Goes(p, "break") ELSE Goes(p, "lock")
  /\ UNCHANGED <<files, locks, live, expected, next, acked>>

\* Bug: the deadline is only looked at when the lock has a record.
GiveUpOnRecord(p) ==
  /\ At(p, "inspect") /\ ~OwnerGone /\ ~torn
  /\ Goes(p, "idle")
  /\ UNCHANGED <<files, locks, live, expected, next, acked>>

\* Two seconds have passed: STATE_WRITE_LOCKED.
GiveUp(p) ==
  /\ At(p, "inspect") /\ ~OwnerGone
  /\ Goes(p, "idle")
  /\ UNCHANGED <<files, locks, live, expected, next, acked>>

\* rm(lockPath, force): whatever the file holds by now.
BreakLock(p) ==
  /\ At(p, "break")
  /\ lock' = Nobody /\ torn' = FALSE
  /\ Goes(p, "lock")
  /\ UNCHANGED <<files, live, expected, next, acked>>

Owns(p) == lock = p /\ ~torn

(***************************************************************************)
(* The action under the lock: load, compare, mutate, assert ownership,     *)
(* write (writeTextAtomic), assert ownership again.                        *)
(***************************************************************************)
\* Bug: the revision is compared before the lock is taken, not under it.
LoadUnchecked(p) ==
  /\ At(p, "load")
  /\ next' = [next EXCEPT ![p] = Append(expected[p], Names(p, expected[p]))]
  /\ Goes(p, "assert")
  /\ UNCHANGED <<files, locks, live, expected, acked>>

LoadLocked(p) ==
  /\ At(p, "load")
  /\ \/ /\ Len(content) = Len(expected[p])
        /\ next' = [next EXCEPT ![p] = Append(content, Names(p, content))]
        /\ Goes(p, "assert")
     \/ Fails(p) /\ next' = next      \* STATE_REVISION_CONFLICT, the mutator throws, INVALID_STATE
  /\ UNCHANGED <<files, locks, live, expected, acked>>

AssertOwnership(p) ==
  /\ At(p, "assert")
  /\ IF Owns(p) THEN Goes(p, "tmp") ELSE Fails(p)
  /\ UNCHANGED <<files, locks, live, expected, next, acked>>

CreateTemporary(p) ==
  /\ At(p, "tmp")
  /\ \/ tmp = NoFile /\ tmp' = next[p] /\ Goes(p, "meta")
     \/ tmp # NoFile /\ tmp' = tmp /\ Fails(p)
  /\ UNCHANGED <<content, meta, locks, live, expected, next, acked>>

CreateMetadata(p) ==
  /\ At(p, "meta")
  /\ \/ meta = NoFile /\ meta' = next[p] /\ Goes(p, "rename")
     \/ meta # NoFile /\ meta' = meta /\ Goes(p, "undo_tmp")
  /\ UNCHANGED <<content, tmp, locks, live, expected, next, acked>>

\* rename fails when a recovery moved the temporary file away.
Rename(p) ==
  /\ At(p, "rename")
  /\ \/ tmp # NoFile /\ content' = tmp /\ Goes(p, "rm_meta")
     \/ tmp = NoFile /\ content' = content /\ Goes(p, "undo_both")
  /\ tmp' = NoFile
  /\ UNCHANGED <<meta, locks, live, expected, next, acked>>

RemoveMetadata(p) ==
  /\ At(p, "rm_meta")
  /\ IF meta # NoFile THEN Goes(p, "confirm") ELSE Goes(p, "undo_meta")
  /\ meta' = NoFile
  /\ UNCHANGED <<content, tmp, locks, live, expected, next, acked>>

\* Bug: the catch clause forgets the metadata.
UndoTemporaryOnly(p) ==
  /\ p \in live /\ writer[p] \in {"undo_tmp", "undo_both"}
  /\ tmp' = NoFile
  /\ Fails(p)
  /\ UNCHANGED <<content, meta, locks, live, expected, next, acked>>

\* The catch clause of writeTextAtomic removes, by name and with force, what was created.
UndoTemporary(p) ==
  /\ p \in live /\ writer[p] \in {"undo_tmp", "undo_both"}
  /\ tmp' = NoFile
  /\ IF writer[p] = "undo_both" THEN Goes(p, "undo_meta") ELSE Fails(p)
  /\ UNCHANGED <<content, meta, locks, live, expected, next, acked>>

UndoMetadata(p) ==
  /\ At(p, "undo_meta")
  /\ meta' = NoFile
  /\ Fails(p)
  /\ UNCHANGED <<content, tmp, locks, live, expected, next, acked>>

ConfirmOwnership(p) ==
  /\ At(p, "confirm")
  /\ IF Owns(p) THEN Goes(p, "release_done") ELSE Fails(p)
  /\ UNCHANGED <<files, locks, live, expected, next, acked>>

\* finally: read the lock again, remove it if it is the process's own, return or rethrow.
Release(p) ==
  /\ p \in live /\ writer[p] \in {"release_done", "release_failed"}
  /\ \/ /\ Owns(p)
        /\ Goes(p, IF writer[p] = "release_done" THEN "rm_done" ELSE "rm_failed")
        /\ acked' = acked
     \/ /\ ~Owns(p)
        /\ Goes(p, "idle")
        /\ acked' = IF writer[p] = "release_done" THEN acked \cup {next[p][Len(next[p])]} ELSE acked
  /\ UNCHANGED <<files, locks, live, expected, next>>

RemoveLock(p) ==
  /\ p \in live /\ writer[p] \in {"rm_done", "rm_failed"}
  /\ lock' = Nobody /\ torn' = FALSE
  /\ Goes(p, "idle")
  /\ acked' = IF writer[p] = "rm_done" THEN acked \cup {next[p][Len(next[p])]} ELSE acked
  /\ UNCHANGED <<files, live, expected, next>>

(***************************************************************************)
(* recoverAtomicWrites, run by init and reset at any moment and by run,    *)
(* resume and verify before they start.  It cannot tell the files of a     *)
(* killed writer from those of a running one.                              *)
(***************************************************************************)
Scan(p) ==
  /\ At(p, "idle")
  /\ \/ tmp # NoFile /\ Goes(p, "r_meta")
     \/ tmp = NoFile /\ meta # NoFile /\ Goes(p, "r_orphan")
  /\ UNCHANGED <<files, locks, live, expected, next, acked>>

FindMetadata(p) ==
  /\ p \in live
  /\ \/ writer[p] = "r_meta" /\ Goes(p, IF meta = NoFile THEN "q_tmp" ELSE "r_read")
     \/ writer[p] = "r_orphan" /\ Goes(p, IF meta = NoFile THEN "idle" ELSE "q_tmp")
  /\ UNCHANGED <<files, locks, live, expected, next, acked>>

ReadMetadata(p) ==
  /\ At(p, "r_read")
  /\ next' = [next EXCEPT ![p] = meta]
  /\ Goes(p, IF meta = NoFile THEN "q_tmp" ELSE "r_verify")
  /\ UNCHANGED <<files, locks, live, expected, acked>>

VerifyTemporary(p) ==
  /\ At(p, "r_verify") /\ tmp # NoFile
  /\ Goes(p, IF tmp = next[p] THEN "r_target" ELSE "q_tmp")
  /\ UNCHANGED <<files, locks, live, expected, next, acked>>

CompareTarget(p) ==
  /\ At(p, "r_target")
  /\ Goes(p, CASE content = NoFile  -> "r_rename"
               [] content = next[p] -> "r_discard"
               [] OTHER             -> "q_tmp")
  /\ UNCHANGED <<files, locks, live, expected, next, acked>>

RecoverTarget(p) ==
  /\ At(p, "r_rename") /\ tmp # NoFile
  /\ content' = tmp /\ tmp' = NoFile
  /\ Goes(p, "r_rm_meta")
  /\ UNCHANGED <<meta, locks, live, expected, next, acked>>

TakeTemporary(p) ==
  /\ p \in live
  /\ \/ writer[p] = "r_discard" /\ Goes(p, "r_rm_meta")
     \/ writer[p] = "q_tmp" /\ Goes(p, "q_meta")
  /\ tmp' = NoFile
  /\ UNCHANGED <<content, meta, locks, live, expected, next, acked>>

TakeMetadata(p) ==
  /\ p \in live /\ writer[p] \in {"r_rm_meta", "q_meta"}
  /\ meta' = NoFile
  /\ Goes(p, "idle")
  /\ UNCHANGED <<content, tmp, locks, live, expected, next, acked>>

\* A file vanished between two of its steps: the recovery, and its command, end.
RecoveryThrows(p) ==
  /\ p \in live
  /\ \/ writer[p] \in {"r_verify", "r_rename", "q_tmp"} /\ tmp = NoFile
     \/ writer[p] = "q_meta" /\ meta = NoFile
  /\ Goes(p, "idle")
  /\ UNCHANGED <<files, locks, live, expected, next, acked>>

Kill(p) ==
  /\ Crashes /\ p \in live
  /\ live' = live \ {p}
  /\ UNCHANGED <<files, locks, local, acked>>

StoreInit ==
  /\ content = NoFile /\ tmp = NoFile /\ meta = NoFile
  /\ lock = Nobody /\ torn = FALSE
  /\ live = Proc
  /\ writer = [p \in Proc |-> "idle"]
  /\ expected = [p \in Proc |-> NoFile]
  /\ next = [p \in Proc |-> NoFile]
  /\ acked = {}

Locking(p) == OpenLock(p) \/ WriteRecord(p) \/ LockExists(p) \/ InspectLock(p) \/ GiveUp(p) \/ BreakLock(p)

Writing(p) ==
  \/ LoadLocked(p) \/ AssertOwnership(p) \/ CreateTemporary(p) \/ CreateMetadata(p) \/ Rename(p)
  \/ RemoveMetadata(p) \/ UndoTemporary(p) \/ UndoMetadata(p) \/ ConfirmOwnership(p)
  \/ Release(p) \/ RemoveLock(p)

Recovery(p) ==
  \/ FindMetadata(p) \/ ReadMetadata(p) \/ VerifyTemporary(p) \/ CompareTarget(p)
  \/ RecoverTarget(p) \/ TakeTemporary(p) \/ TakeMetadata(p) \/ RecoveryThrows(p)

StoreNext == \E p \in Proc : Load(p) \/ Scan(p) \/ Locking(p) \/ Writing(p) \/ Recovery(p) \/ Kill(p)

StoreSpec == StoreInit /\ [][StoreNext]_storeVars

\* A running process goes on, and the clock passes the deadline of the lock loop: SF, because
\* the deadline is looked at once in every turn of the loop.
FairStore ==
  /\ StoreSpec
  /\ \A p \in Proc : WF_storeVars(Locking(p) \/ Writing(p) \/ Recovery(p))
  /\ \A p \in Proc : SF_storeVars(GiveUp(p))

(***************************************************************************)
(* Properties.                                                             *)
(***************************************************************************)
Critical == {"record", "load", "assert", "tmp", "meta", "rename", "rm_meta", "undo_tmp", "undo_both",
             "undo_meta", "confirm", "release_done", "release_failed", "rm_done", "rm_failed"}

\* At most one process is between the creation and the removal of the transition lock.
OneWriter == \A p, q \in live : writer[p] \in Critical /\ writer[q] \in Critical => p = q

\* A failed or finished update leaves neither state.json.tmp nor its metadata behind: either
\* would make every later update throw EEXIST, for ever.
NothingLeftBehind ==
  (\A p \in Proc : writer[p] \in {"idle", "lock", "inspect", "break"}) => tmp = NoFile /\ meta = NoFile

\* An update whose caller was told of its success stays in every later state.
AcknowledgedStays == \A u \in acked : \E i \in DOMAIN content : content[i] = u

\* Every update and every recovery comes to an end, even when a killed process left a lock
\* file that nobody may remove.
CallsEnd == \A p \in Proc : (writer[p] # "idle") ~> (writer[p] = "idle" \/ p \notin live)

\* The store implements the register: no update is lost, and none its caller was told of.
Register == INSTANCE StateRegister WITH chain <- content

ImplementsRegister == Register!Spec
=============================================================================
