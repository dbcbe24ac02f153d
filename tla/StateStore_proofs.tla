-------------------------- MODULE StateStore_proofs --------------------------
(***************************************************************************)
(* Proofs about StateStore, for any number of processes and of updates.    *)
(* As long as no process is killed, and for two of which one may be, the   *)
(* transition lock excludes, and the store implements StateRegister        *)
(* although recoveries sweep the temporary files of running writers away.  *)
(* With kills among three both are false: run store_stale_lock.            *)
(***************************************************************************)
EXTENDS StateStore, SequenceTheorems, TLAPS

\* Of two processes the one that breaks a lock is alone: its owner was the other.
TwoIfKilled == Crashes => \A p, q, r \in Proc : p = q \/ q = r \/ p = r

Update == [by : Proc, at : Nat]
States == Seq(Update)
Labels ==
  Critical \cup {"idle", "lock", "inspect", "break", "r_meta", "r_orphan", "r_read", "r_verify",
                 "r_target", "r_rename", "r_discard", "r_rm_meta", "q_tmp", "q_meta"}

Types ==
  /\ content \in States /\ tmp \in States /\ meta \in States
  /\ next \in [Proc -> States] /\ expected \in [Proc -> States]
  /\ writer \in [Proc -> Labels]
  /\ live \subseteq Proc /\ (~Crashes => live = Proc)

\* The lock belongs to whoever is in the critical section, and who breaks it is alone.
Exclusion ==
  /\ lock \in Proc \cup {Nobody}
  /\ \A p \in live : writer[p] \in Critical => lock = p
  /\ \A p \in live : writer[p] = "break" => live = {p}

Extends(s, t) == Len(s) = Len(t) + 1 /\ SubSeq(s, 1, Len(t)) = t

\* The temporary file, while there is one, is one update ahead of the state file, so that it
\* does not matter who renames it; and as long as all run, it is that of the owner of the lock.
Ahead ==
  tmp # NoFile =>
    /\ Extends(tmp, content)
    /\ live = Proc => lock \in Proc /\ writer[lock] \in {"meta", "rename", "undo_tmp"}

\* What the owner prepared extends the state file, and what it wrote is the state file.
Current ==
  \A p \in live :
    /\ writer[p] \in {"assert", "tmp"} => next[p] # NoFile /\ Extends(next[p], content)
    /\ writer[p] \in {"meta", "rename"} => next[p] # NoFile /\ tmp \in {NoFile, next[p]}
    /\ writer[p] \in {"rm_meta", "confirm", "release_done", "rm_done"} =>
         next[p] # NoFile /\ next[p] = content

StoreInv == Types /\ Exclusion /\ Ahead /\ Current

\* An absent file counts as a state (json.ts and atomic-file.ts only ask whether it exists).
LEMMA AbsentIsState == NoFile \in States
BY EmptySeq DEF NoFile, States

\* An update extends the state it was computed from (LoadLocked).
LEMMA AppendExtends ==
  ASSUME NEW s \in States, NEW e \in Update
  PROVE  Append(s, e) \in States /\ Append(s, e) # NoFile /\ Extends(Append(s, e), s)
<1> DEFINE t == Append(s, e)
<1>1. t \in Seq(Update) /\ Len(t) = Len(s) + 1 /\ \A i \in 1..Len(s) : t[i] = s[i]
  BY DEF States
<1>2. Len(s) \in Nat /\ s \in Seq(Update)
  BY DEF States
<1>3. SubSeq(t, 1, Len(s)) = s
  <2>1. \A i \in 1..Len(s) : t[i] \in Update
    BY <1>1, <1>2, ElementOfSeq
  <2>2. /\ SubSeq(t, 1, Len(s)) \in Seq(Update)
        /\ Len(SubSeq(t, 1, Len(s))) = Len(s)
        /\ \A i \in 1..Len(s) : SubSeq(t, 1, Len(s))[i] = t[i]
    BY <2>1, <1>2, SubSeqProperties, Z3
  <2>3. QED
    BY <2>2, <1>1, <1>2, SeqEqual
<1>4. t # <<>>
  BY <1>1, <1>2
<1>5. QED
  BY <1>1, <1>3, <1>4 DEF States, Extends, NoFile

(***************************************************************************)
(* Every step of a process keeps StoreInv.                                 *)
(***************************************************************************)
\* Taking, inspecting and waiting for the transition lock (withTransitionLock).
LEMMA LockingKeeps ==
  ASSUME TwoIfKilled, StoreInv, NEW p \in Proc, Load(p) \/ Scan(p) \/ Locking(p)
  PROVE  StoreInv'
<1> USE DEF StoreInv, Types, Exclusion, Ahead, Current, Critical, At, Goes, files, locks, NoFile,
        Extends, Labels, TwoIfKilled
<1>1. CASE Load(p)
  BY <1>1 DEF Load
<1>2. CASE Scan(p)
  BY <1>2 DEF Scan
<1>3. CASE OpenLock(p)
  BY <1>3, StoreAssumption DEF OpenLock
<1>4. CASE WriteRecord(p)
  BY <1>4 DEF WriteRecord
<1>5. CASE LockExists(p)
  BY <1>5 DEF LockExists
<1>6. CASE InspectLock(p)
  BY <1>6 DEF InspectLock, OwnerGone
<1>7. CASE GiveUp(p)
  BY <1>7 DEF GiveUp
<1>8. CASE BreakLock(p)
  BY <1>8 DEF BreakLock
<1>9. QED
  BY <1>1, <1>2, <1>3, <1>4, <1>5, <1>6, <1>7, <1>8 DEF Locking

\* The action under the lock and its release (update, writeTextAtomic).
LEMMA WritingKeeps ==
  ASSUME TwoIfKilled, StoreInv, NEW p \in Proc, Writing(p)
  PROVE  StoreInv'
<1> USE DEF StoreInv, Types, Exclusion, Ahead, Current, Critical, At, Goes, Fails, files, locks,
        NoFile, Extends, Labels
<1>1. CASE LoadLocked(p)
  <2>1. Names(p, content) \in Update
    BY DEF Names, Update, States
  <2>2. /\ Append(content, Names(p, content)) \in States
        /\ Append(content, Names(p, content)) # NoFile
        /\ Extends(Append(content, Names(p, content)), content)
    BY <2>1, AppendExtends
  <2>3. p \in live /\ UNCHANGED <<content, tmp, meta, lock, live, expected>>
    BY <1>1 DEF LoadLocked
  <2>4. \A q \in live \ {p} : writer[q] \notin Critical
    BY <1>1, <2>3 DEF LoadLocked
  <2>5. CASE /\ next' = [next EXCEPT ![p] = Append(content, Names(p, content))]
             /\ writer' = [writer EXCEPT ![p] = "assert"]
    <3>1. next'[p] = Append(content, Names(p, content)) /\ writer'[p] = "assert"
      BY <2>5
    <3>2. Types' /\ Exclusion' /\ Ahead'
      BY <1>1, <2>2, <2>3, <2>5 DEF LoadLocked
    <3>3. Current'
      BY <2>2, <2>3, <2>4, <2>5, <3>1
    <3>4. QED
      BY <3>2, <3>3
  <2>6. CASE next' = next /\ writer' = [writer EXCEPT ![p] = "release_failed"]
    BY <1>1, <2>3, <2>6 DEF LoadLocked
  <2>7. QED
    BY <1>1, <2>5, <2>6 DEF LoadLocked
<1>2. CASE AssertOwnership(p)
  BY <1>2 DEF AssertOwnership
<1>3. CASE CreateTemporary(p)
  BY <1>3 DEF CreateTemporary
<1>4. CASE CreateMetadata(p)
  BY <1>4 DEF CreateMetadata
<1>5. CASE Rename(p)
  BY <1>5, AbsentIsState DEF Rename
<1>6. CASE RemoveMetadata(p)
  BY <1>6, AbsentIsState DEF RemoveMetadata
<1>7. CASE UndoTemporary(p)
  BY <1>7, AbsentIsState DEF UndoTemporary
<1>8. CASE UndoMetadata(p)
  BY <1>8, AbsentIsState DEF UndoMetadata
<1>9. CASE ConfirmOwnership(p)
  BY <1>9 DEF ConfirmOwnership
<1>10. CASE Release(p)
  BY <1>10 DEF Release
<1>11. CASE RemoveLock(p)
  BY <1>11, StoreAssumption DEF RemoveLock
<1>12. QED
  BY <1>1, <1>2, <1>3, <1>4, <1>5, <1>6, <1>7, <1>8, <1>9, <1>10, <1>11 DEF Writing

\* A recovery that races with the owner of the lock (recoverAtomicWrites).
LEMMA RecoveryKeeps ==
  ASSUME TwoIfKilled, StoreInv, NEW p \in Proc, Recovery(p)
  PROVE  StoreInv'
<1> USE DEF StoreInv, Types, Exclusion, Ahead, Current, Critical, At, Goes, files, locks, NoFile,
        Extends, Labels, TwoIfKilled
<1>1. CASE FindMetadata(p)
  BY <1>1 DEF FindMetadata
<1>2. CASE ReadMetadata(p)
  BY <1>2 DEF ReadMetadata
<1>3. CASE VerifyTemporary(p)
  BY <1>3 DEF VerifyTemporary
<1>4. CASE CompareTarget(p)
  BY <1>4 DEF CompareTarget
<1>5. CASE RecoverTarget(p)
  <2>1. /\ p \in live /\ writer[p] = "r_rename" /\ writer' = [writer EXCEPT ![p] = "r_rm_meta"]
        /\ tmp # NoFile /\ content' = tmp /\ tmp' = NoFile
        /\ UNCHANGED <<meta, lock, live, expected, next>>
    BY <1>5 DEF RecoverTarget
  <2>2. \A q \in live \ {p} : writer[q] \in Critical => writer[q] \in {"meta", "rename", "undo_tmp"}
    <3>1. CASE live = Proc
      BY <2>1, <3>1
    <3>2. CASE live # Proc
      <4>1. PICK d \in Proc : d \notin live
        BY <3>2
      <4>2. \A q \in live : q = p
        BY <2>1, <3>2, <4>1
      <4>3. QED
        BY <4>2
    <3>3. QED
      BY <3>1, <3>2
  <2>3. Types' /\ Exclusion' /\ Ahead'
    BY <2>1, AbsentIsState
  <2>4. Current'
    BY <2>1, <2>2
  <2>5. QED
    BY <2>3, <2>4
<1>6. CASE TakeTemporary(p)
  BY <1>6, AbsentIsState DEF TakeTemporary
<1>7. CASE TakeMetadata(p)
  BY <1>7, AbsentIsState DEF TakeMetadata
<1>8. CASE RecoveryThrows(p)
  BY <1>8 DEF RecoveryThrows
<1>9. QED
  BY <1>1, <1>2, <1>3, <1>4, <1>5, <1>6, <1>7, <1>8 DEF Recovery

\* A kill leaves everything as it is.
LEMMA KillKeeps ==
  ASSUME StoreInv, NEW p \in Proc, Kill(p)
  PROVE  StoreInv'
BY DEF Kill, StoreInv, Types, Exclusion, Ahead, Current, files, locks, local, NoFile, Extends

\* The invariant holds in every reachable state.
LEMMA StoreInvariant ==
  ASSUME TwoIfKilled PROVE StoreSpec => []StoreInv
<1>1. StoreInit => StoreInv
  BY AbsentIsState DEF StoreInit, StoreInv, Types, Exclusion, Ahead, Current, Critical, Labels, NoFile
<1>2. StoreInv /\ [StoreNext]_storeVars => StoreInv'
  <2>1. ASSUME StoreInv, StoreNext PROVE StoreInv'
    BY <2>1, LockingKeeps, WritingKeeps, RecoveryKeeps, KillKeeps DEF StoreNext
  <2>2. ASSUME StoreInv, UNCHANGED storeVars PROVE StoreInv'
    BY <2>2 DEF storeVars, files, locks, local, StoreInv, Types, Exclusion, Ahead, Current, NoFile, Extends
  <2>3. QED
    BY <2>1, <2>2
<1>3. QED
  BY <1>1, <1>2, PTL DEF StoreSpec

\* For any number of processes none of which is killed, or two of which one may be, at most one
\* is between the creation and the removal of the transition lock (withTransitionLock).
THEOREM MutualExclusion ==
  ASSUME TwoIfKilled PROVE StoreSpec => []OneWriter
<1>1. StoreInv => OneWriter
  BY DEF StoreInv, Types, Exclusion, OneWriter
<1>2. QED
  BY <1>1, StoreInvariant, PTL

\* Only the two renames change the state file, and each extends it by one update; a caller is
\* told of its success only while its update is the last one.
LEMMA StepIsRegisterStep ==
  ASSUME StoreInv, NEW p \in Proc,
         Load(p) \/ Scan(p) \/ Locking(p) \/ Writing(p) \/ Recovery(p) \/ Kill(p)
  PROVE  Register!Next \/ UNCHANGED Register!vars
<1> USE DEF Register!Next, Register!vars, files
<1>1. CASE Rename(p)
  <2>1. content' = content \/ (tmp # NoFile /\ content' = tmp)
    BY <1>1 DEF Rename
  <2>2. acked' = acked
    BY <1>1 DEF Rename
  <2>3. QED
    BY <2>1, <2>2 DEF StoreInv, Ahead, Extends, Register!Extend
<1>2. CASE RecoverTarget(p)
  BY <1>2 DEF RecoverTarget, StoreInv, Ahead, Extends, Register!Extend
<1>3. CASE Release(p) \/ RemoveLock(p)
  <2>1. content' = content
    BY <1>3 DEF Release, RemoveLock
  <2>2. CASE acked' = acked
    BY <2>1, <2>2
  <2>3. CASE acked' # acked
    <3>1. writer[p] \in {"release_done", "rm_done"} /\ acked' = acked \cup {next[p][Len(next[p])]}
      BY <1>3, <2>3 DEF Release, RemoveLock
    <3>2. next[p] = content /\ content # <<>> /\ content \in Seq(Update)
      BY <1>3, <3>1 DEF Release, RemoveLock, StoreInv, Current, Types, States, NoFile
    <3>3. Len(content) \in DOMAIN content
      BY <3>2, LenProperties, EmptySeq
    <3>4. QED
      BY <2>1, <3>1, <3>2, <3>3 DEF Register!Acknowledge
  <2>4. QED
    BY <2>2, <2>3
<1>4. CASE Load(p) \/ Scan(p) \/ Locking(p)
  BY <1>4 DEF Load, Scan, Locking, OpenLock, WriteRecord, LockExists, InspectLock, GiveUp, BreakLock
<1>5. CASE Writing(p) /\ ~Rename(p) /\ ~Release(p) /\ ~RemoveLock(p)
  BY <1>5 DEF Writing, LoadLocked, AssertOwnership, CreateTemporary, CreateMetadata, RemoveMetadata,
              UndoTemporary, UndoMetadata, ConfirmOwnership
<1>6. CASE Recovery(p) /\ ~RecoverTarget(p)
  BY <1>6 DEF Recovery, FindMetadata, ReadMetadata, VerifyTemporary, CompareTarget, TakeTemporary,
              TakeMetadata, RecoveryThrows
<1>7. CASE Kill(p)
  BY <1>7 DEF Kill
<1>8. QED
  BY <1>1, <1>2, <1>3, <1>4, <1>5, <1>6, <1>7

\* For any number of processes none of which is killed, or two of which one may be, and however
\* recoveries race with writers, the state file is a register: updates extend what their callers loaded, and what
\* a caller was told stays (update and initialize of StateStore).
THEOREM StoreIsRegister ==
  ASSUME TwoIfKilled PROVE StoreSpec => ImplementsRegister
<1>1. StoreInit => Register!Init
  BY DEF StoreInit, Register!Init, NoFile
<1>2. StoreInv /\ [StoreNext]_storeVars => [Register!Next]_(Register!vars)
  <2>1. ASSUME StoreInv, StoreNext PROVE Register!Next \/ UNCHANGED Register!vars
    BY <2>1, StepIsRegisterStep DEF StoreNext
  <2>2. ASSUME UNCHANGED storeVars PROVE UNCHANGED Register!vars
    BY <2>2 DEF storeVars, files, Register!vars
  <2>3. QED
    BY <2>1, <2>2
<1>3. QED
  BY <1>1, <1>2, StoreInvariant, PTL DEF StoreSpec, ImplementsRegister, Register!Spec
(***************************************************************************)
(* Cleaning up, which needs neither the lock nor that anybody survives.    *)
(***************************************************************************)
\* Who created a file is still there to remove it, or was killed before it could.
Owned ==
  /\ writer \in [Proc -> Labels]
  /\ tmp # NoFile => \E p \in Proc : writer[p] \in {"meta", "rename", "undo_tmp"}
  /\ meta # NoFile => \E p \in Proc : writer[p] \in {"rename", "rm_meta", "undo_both", "undo_meta"}

\* For any number of processes and kills: an update that failed or was finished leaves neither
\* the temporary file nor its metadata behind (writeTextAtomic).
THEOREM UpdatesCleanUp == StoreSpec => []NothingLeftBehind
<1>1. StoreInit => Owned
  BY DEF StoreInit, Owned, Labels, NoFile
<1>2. Owned /\ [StoreNext]_storeVars => Owned'
  <2> SUFFICES ASSUME Owned, [StoreNext]_storeVars PROVE Owned'
    OBVIOUS
  <2> USE DEF Owned, At, Goes, Fails, files, NoFile, Labels, Critical
  <2>1. CASE UNCHANGED storeVars
    BY <2>1 DEF storeVars, local
  <2>2. ASSUME NEW p \in Proc, Load(p) \/ Scan(p) \/ Locking(p) \/ Kill(p) PROVE Owned'
    BY <2>2 DEF Load, Scan, Locking, OpenLock, WriteRecord, LockExists, InspectLock, GiveUp,
       BreakLock, Kill, local
  <2>3. ASSUME NEW p \in Proc, Recovery(p) PROVE Owned'
    BY <2>3 DEF Recovery, FindMetadata, ReadMetadata, VerifyTemporary, CompareTarget,
       RecoverTarget, TakeTemporary, TakeMetadata, RecoveryThrows
  <2>4. ASSUME NEW p \in Proc, Writing(p) PROVE Owned'
    <3>1. CASE CreateTemporary(p) \/ CreateMetadata(p)
      BY <2>4, <3>1 DEF CreateTemporary, CreateMetadata
    <3>2. CASE Rename(p) \/ RemoveMetadata(p)
      BY <2>4, <3>2 DEF Rename, RemoveMetadata
    <3>3. CASE UndoTemporary(p) \/ UndoMetadata(p)
      BY <2>4, <3>3 DEF UndoTemporary, UndoMetadata
    <3>4. CASE LoadLocked(p) \/ AssertOwnership(p) \/ ConfirmOwnership(p) \/ Release(p) \/ RemoveLock(p)
      BY <2>4, <3>4 DEF LoadLocked, AssertOwnership, ConfirmOwnership, Release, RemoveLock
    <3> QED
      BY <2>4, <3>1, <3>2, <3>3, <3>4 DEF Writing
  <2> QED
    BY <2>1, <2>2, <2>3, <2>4 DEF StoreNext
<1>3. Owned => NothingLeftBehind
  BY DEF Owned, NothingLeftBehind
<1> QED
  BY <1>1, <1>2, <1>3, PTL DEF StoreSpec
=============================================================================
