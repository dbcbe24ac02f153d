------------------------ MODULE RegistryCache_proofs ------------------------
(***************************************************************************)
(* Proofs about RegistryCache, for any number of pulls and indexes, with   *)
(* kills, failing file operations and locks broken under their owners.     *)
(*                                                                         *)
(* What keeps an object whole is the order of the links.  The evidence     *)
(* belongs to one pull at a time, only that one links the artifact, and    *)
(* only that one removes the evidence again, as long as the artifact is    *)
(* missing or has its temporary name.  The lock is what spares a pull the  *)
(* sight of an object that is half there, and what protects an object from *)
(* a pull that cannot look at its artifact.                                *)
(***************************************************************************)
EXTENDS RegistryCache, TLAPS

\* Steps before a pull may have linked anything, and those of them with no temporary file yet.
Empty == {"new", "record", "break", "clean", "see_artifact", "see_evidence", "write"}
Early == Empty \cup {"write_evidence", "link_evidence"}

\* Steps after its evidence is linked, up to the end of the catch clause.
Linking  == {"unlink_evidence", "link_artifact", "conflict", "unlink_artifact", "final"}
Catching == {"catch_artifact", "catch_temporary_evidence", "catch_state", "catch_evidence"}

\* It saw no artifact and has not ended.
SawNothing(p) ==
  \/ pull[p] \in {"write", "write_evidence", "link_evidence", "conflict_artifact"}
  \/ pull[p] \in Linking \cup Catching
  \/ pull[p] = "see_evidence" /\ ~seen[p]

\* Who has the evidence.
EvidenceHasOwner(p) ==
  /\ pull[p] \in Early => artifact # p /\ evidence # p /\ ~linked[p]
  /\ pull[p] = "conflict_artifact" => ~linked[p]
  /\ pull[p] \in Linking => linked[p]
  /\ pull[p] \in Linking \cup Catching /\ linked[p] => evidence = p

\* Who has the artifact.
ArtifactHasOwner(p) ==
  /\ pull[p] \in {"unlink_evidence", "link_artifact", "conflict_artifact"} => artifact # p
  /\ pull[p] = "conflict" => artifact \notin {p, NoPull}
  /\ pull[p] \in {"unlink_artifact", "final"} => artifact = p
  /\ pull[p] \in Catching /\ artifact = p => linked[p]

\* What temporary files there are.
TemporariesAreThere(p) ==
  /\ pull[p] \in Empty => <<p, "artifact">> \notin temps /\ <<p, "evidence">> \notin temps
  /\ pull[p] \in {"write_evidence", "link_evidence", "unlink_evidence", "link_artifact",
                  "unlink_artifact"} => <<p, "artifact">> \in temps
  /\ pull[p] \in {"link_evidence", "unlink_evidence"} => <<p, "evidence">> \in temps
  /\ <<p, "artifact">> \in old \/ <<p, "evidence">> \in old => PullGone(p)

\* While a pull that saw nothing is at work, an artifact without its own evidence has its
\* temporary name, which is not old.
StrayIsLinkedTwice(p) ==
  SawNothing(p) /\ artifact # NoPull =>
    /\ evidence = artifact \/ <<artifact, "artifact">> \in temps
    /\ <<artifact, "artifact">> \notin old

\* Evidence is taken back only from what is not whole.
CatchIsRight(p) ==
  pull[p] = "catch_evidence" =>
    /\ linked[p]
    /\ artifact = NoPull \/ <<artifact, "artifact">> \in temps

Orderly(p) ==
  /\ EvidenceHasOwner(p) /\ ArtifactHasOwner(p) /\ TemporariesAreThere(p)
  /\ StrayIsLinkedTwice(p) /\ CatchIsRight(p)

Order == CacheTypeOK /\ old \subseteq temps /\ \A p \in Pull : Orderly(p)

\* An object is verified and its evidence compared in two steps, and is whole in between.
SeenWhole == \A p \in Pull : pull[p] = "compare" => Whole

\* What was pulled stays whole, with no exception.
AllStaysWhole == \A p \in Pull : Succeeded(p) => Whole /\ index[evidence] = index[p]

CacheInv == Order /\ SeenWhole /\ AllStaysWhole

CacheInvUnlessBlind == "blind" \notin faults => CacheInv

\* Every step keeps the types.
LEMMA CacheTypesKeep ==
  ASSUME CacheTypeOK, [CacheNext]_cacheVars
  PROVE  CacheTypeOK'
<1> USE CacheAssumption DEF CacheTypeOK, temporaries, object, memory, history
<1>1. ASSUME NEW p \in Pull, PullStep(p)
      PROVE  CacheTypeOK'
  <2> USE <1>1 DEF PullStep, Publish, PullEnds, OpenPullLock, RecordLock, SeeStaleLock,
          BreakPullLock, PullGivesUp, Unlock, CleanUp, CleanUpFails, CheckArtifact, CheckEvidence,
          LookFails, VerifyExisting, CompareEvidence, ReadFails, WriteTemporaryArtifact,
          WriteTemporaryEvidence, LinkEvidence, UnlinkTemporaryEvidence, LinkArtifact,
          TakeEvidenceBack, UnlinkTemporaryArtifact, FinalCheck, PublicationFails,
          CatchTemporaries, CatchTemporary, CatchState, CatchStateFails, CatchEvidence, KillPull
  <2>1. \E s \in Steps : Enters(p, s)
    BY DEF Steps
  <2>2. pull' \in [Pull -> Steps]
    BY <2>1 DEF Enters
  <2>3. \/ result' = result
        \/ \E r \in {"hit", "published", "corrupt", "failed", "locked"} :
             result' = [result EXCEPT ![p] = r]
    OBVIOUS
  <2>4. result' \in [Pull -> {"none", "hit", "published", "corrupt", "failed", "locked"}]
    BY <2>3
  <2>5. \/ temps' \subseteq temps
        \/ temps' = temps \cup {<<p, "artifact">>} \/ temps' = temps \cup {<<p, "evidence">>}
    OBVIOUS
  <2>6. temps' \subseteq Pull \X {"artifact", "evidence"}
    BY <2>5
  <2>7. old' \subseteq temps'
    OBVIOUS
  <2>8. {pullLock', artifact', evidence'} \subseteq Pull \cup {NoPull}
    OBVIOUS
  <2>9. index' \in [Pull -> Index] /\ seen' \in [Pull -> BOOLEAN]
    OBVIOUS
  <2>10. linked' \in [Pull -> BOOLEAN]
    OBVIOUS
  <2>11. unread' \subseteq Pull /\ faults' \subseteq Misfortunes
    BY DEF Suffers, Misfortunes
  <2>12. QED
    BY <2>2, <2>4, <2>6, <2>7, <2>8, <2>9, <2>10, <2>11
<1>2. CASE Tomorrow
  BY <1>2 DEF Tomorrow
<1>3. CASE UNCHANGED cacheVars
  BY <1>3 DEF cacheVars
<1>4. QED
  BY <1>1, <1>2, <1>3 DEF CacheNext

\* Every variable keeps its type, whatever goes wrong (cacheRegistryArtifact).
THEOREM CacheTypesHold == CacheSpec => []CacheTypeOK
<1>1. CacheInit => CacheTypeOK
  BY CacheAssumption DEF CacheInit, CacheTypeOK, Steps
<1> QED
  BY <1>1, CacheTypesKeep, PTL DEF CacheSpec

\* What went wrong is never forgotten, and an index is read once.
LEMMA FaultsStay ==
  ASSUME CacheNext
  PROVE  faults \subseteq faults' /\ unread \subseteq unread' /\ index' = index
BY DEF CacheNext, PullStep, Publish, Tomorrow, OpenPullLock, RecordLock, SeeStaleLock,
   BreakPullLock, PullGivesUp, Unlock, CheckArtifact, CheckEvidence, VerifyExisting,
   CompareEvidence, FinalCheck, PublicationFails, CatchState, KillPull, LookFails, ReadFails,
   CatchStateFails, CleanUpFails, CleanUp, WriteTemporaryArtifact, WriteTemporaryEvidence,
   UnlinkTemporaryEvidence, UnlinkTemporaryArtifact, CatchTemporaries, CatchTemporary,
   LinkEvidence, LinkArtifact, TakeEvidenceBack, CatchEvidence, memory, history, Suffers

\* A step that only moves p is of no concern to the others.
LEMMA OthersKeep ==
  ASSUME Order, NEW p \in Pull, UNCHANGED <<temps, old, artifact, evidence, linked>>,
         \A q \in Pull \ {p} : pull'[q] = pull[q] /\ seen'[q] = seen[q]
  PROVE  \A q \in Pull \ {p} : Orderly(q)'
BY DEF Order, Orderly, EvidenceHasOwner, ArtifactHasOwner, TemporariesAreThere,
       StrayIsLinkedTwice, CatchIsRight, SawNothing, PullGone

\* Where p is in nobody's way.
Harmless == {"verify", "compare", "unlock", "done", "killed"}

\* Ending, and reading an object, need nothing.
LEMMA HarmlessIsOrderly ==
  ASSUME Order, NEW p \in Pull, old' = old, ~PullGone(p), pull'[p] \in Harmless
  PROVE  Orderly(p)'
BY DEF Order, Orderly, EvidenceHasOwner, ArtifactHasOwner, TemporariesAreThere,
       StrayIsLinkedTwice, CatchIsRight, SawNothing, PullGone, Harmless, Early, Empty, Linking,
       Catching

\* The steps of p that change neither the object nor a temporary file.
Looks(p) ==
  \/ OpenPullLock(p) \/ RecordLock(p) \/ SeeStaleLock(p) \/ BreakPullLock(p) \/ PullGivesUp(p)
  \/ Unlock(p) \/ CheckArtifact(p) \/ CheckEvidence(p) \/ VerifyExisting(p)
  \/ CompareEvidence(p) \/ FinalCheck(p) \/ PublicationFails(p) \/ CatchState(p) \/ KillPull(p)
  \/ LookFails(p) \/ ReadFails(p)

\* They keep the order.
LEMMA LookingKeeps ==
  ASSUME Order, NEW p \in Pull, Looks(p)
  PROVE  Order'
<1> USE CacheAssumption DEF Enters, PullEnds, temporaries, object, memory, history, PullGone
<1>1. UNCHANGED <<temps, old, artifact, evidence, linked, index>>
  BY DEF Looks, OpenPullLock, RecordLock, SeeStaleLock, BreakPullLock, PullGivesUp, Unlock,
         CheckArtifact, CheckEvidence, VerifyExisting, CompareEvidence, FinalCheck,
         PublicationFails, CatchState, KillPull, LookFails, ReadFails
<1>2. \A q \in Pull \ {p} : pull'[q] = pull[q] /\ seen'[q] = seen[q]
  BY DEF Looks, OpenPullLock, RecordLock, SeeStaleLock, BreakPullLock, PullGivesUp, Unlock,
         CheckArtifact, CheckEvidence, VerifyExisting, CompareEvidence, FinalCheck,
         PublicationFails, CatchState, KillPull, LookFails, ReadFails, Order, CacheTypeOK
<1>3. CacheTypeOK'
  BY CacheTypesKeep DEF Looks, CacheNext, PullStep, Publish, Order
<1>4. Orderly(p)'
  <2>1. CASE pull'[p] \in Harmless
    <3>1. ~PullGone(p)
      BY DEF Looks, OpenPullLock, RecordLock, SeeStaleLock, BreakPullLock, PullGivesUp, Unlock,
             CheckArtifact, CheckEvidence, VerifyExisting, CompareEvidence, FinalCheck,
             PublicationFails, CatchState, KillPull, LookFails, ReadFails
    <3>2. QED
      BY <1>1, <2>1, <3>1, HarmlessIsOrderly
  <2>2. CASE pull[p] \in {"new", "record", "break"} /\ pull'[p] \notin Harmless
    <3>1. pull'[p] \in {"new", "record", "break", "clean"}
      BY <2>2 DEF Looks, OpenPullLock, RecordLock, SeeStaleLock, BreakPullLock, PullGivesUp,
             Unlock, CheckArtifact, CheckEvidence, VerifyExisting, CompareEvidence, FinalCheck,
             PublicationFails, CatchState, KillPull, LookFails, ReadFails, Order, CacheTypeOK, Harmless
    <3>2. QED
      BY <1>1, <2>2, <3>1 DEF Order, Orderly, EvidenceHasOwner, ArtifactHasOwner,
         TemporariesAreThere, StrayIsLinkedTwice, CatchIsRight, SawNothing, Early, Empty,
         Linking, Catching
  <2>3. CASE pull[p] = "see_artifact" /\ pull'[p] \notin Harmless
    <3>1. pull'[p] = "see_evidence" /\ (~seen'[p] => artifact = NoPull)
      BY <2>3 DEF Looks, OpenPullLock, RecordLock, SeeStaleLock, BreakPullLock, PullGivesUp,
             Unlock, CheckArtifact, CheckEvidence, VerifyExisting, CompareEvidence, FinalCheck,
             PublicationFails, CatchState, KillPull, LookFails, ReadFails, Order, CacheTypeOK, Harmless
    <3>2. QED
      BY <1>1, <2>3, <3>1 DEF Order, Orderly, EvidenceHasOwner, ArtifactHasOwner,
         TemporariesAreThere, StrayIsLinkedTwice, CatchIsRight, SawNothing, Early, Empty,
         Linking, Catching
  <2>4. CASE pull[p] = "see_evidence" /\ pull'[p] \notin Harmless
    <3>1. pull'[p] = "write" /\ ~seen[p]
      BY <2>4 DEF Looks, OpenPullLock, RecordLock, SeeStaleLock, BreakPullLock, PullGivesUp,
             Unlock, CheckArtifact, CheckEvidence, VerifyExisting, CompareEvidence, FinalCheck,
             PublicationFails, CatchState, KillPull, LookFails, ReadFails, Order, CacheTypeOK, Harmless
    <3>2. QED
      BY <1>1, <2>4, <3>1 DEF Order, Orderly, EvidenceHasOwner, ArtifactHasOwner,
         TemporariesAreThere, StrayIsLinkedTwice, CatchIsRight, SawNothing, Early, Empty,
         Linking, Catching
  <2>5. CASE pull[p] \notin {"new", "record", "break", "see_artifact", "see_evidence"}
             /\ pull'[p] \notin Harmless
    <3>1. CASE pull'[p] = "catch_artifact"
      <4>1. pull[p] \in {"write", "write_evidence", "link_evidence", "conflict_artifact"}
                         \cup Linking
        BY <3>1, <2>5 DEF Looks, OpenPullLock, RecordLock, SeeStaleLock, BreakPullLock,
           PullGivesUp, Unlock, CheckArtifact, CheckEvidence, VerifyExisting, CompareEvidence,
           FinalCheck, PublicationFails, CatchState, KillPull, LookFails, ReadFails, Order,
           CacheTypeOK, Linking
      <4>2. QED
        BY <1>1, <3>1, <4>1 DEF Order, Orderly, EvidenceHasOwner, ArtifactHasOwner,
           TemporariesAreThere, StrayIsLinkedTwice, CatchIsRight, SawNothing, Early, Empty,
           Linking, Catching
    <3>2. CASE pull'[p] # "catch_artifact"
      <4>1. /\ pull[p] = "catch_state" /\ pull'[p] = "catch_evidence"
            /\ linked[p] /\ (artifact = NoPull \/ ArtifactIsLinkedTwice)
        BY <3>2, <2>5 DEF Looks, OpenPullLock, RecordLock, SeeStaleLock, BreakPullLock,
           PullGivesUp, Unlock, CheckArtifact, CheckEvidence, VerifyExisting, CompareEvidence,
           FinalCheck, PublicationFails, CatchState, KillPull, LookFails, ReadFails, Order,
           CacheTypeOK, Harmless
      <4>2. QED
        BY <1>1, <4>1 DEF Order, Orderly, EvidenceHasOwner, ArtifactHasOwner,
           TemporariesAreThere, StrayIsLinkedTwice, CatchIsRight, SawNothing, Early, Empty,
           Linking, Catching, ArtifactIsLinkedTwice
    <3>3. QED
      BY <3>1, <3>2
  <2>6. QED
    BY <2>1, <2>2, <2>3, <2>4, <2>5
<1>5. QED
  BY <1>1, <1>2, <1>3, <1>4, OthersKeep DEF Order

\* Writing and removing temporary files keeps the order (cacheRegistryArtifact, cleanup).
LEMMA TemporariesKeep ==
  ASSUME Order, NEW p \in Pull,
         \/ CleanUp(p) \/ CleanUpFails(p) \/ WriteTemporaryArtifact(p)
         \/ WriteTemporaryEvidence(p) \/ UnlinkTemporaryEvidence(p) \/ UnlinkTemporaryArtifact(p)
         \/ CatchTemporaries(p)
  PROVE  Order'
<1>0. CacheTypeOK'
  BY CacheTypesKeep DEF CacheNext, PullStep, Publish, Order
<1> USE CacheAssumption DEF Enters, temporaries, object, memory, history, PullGone, Order, Orderly,
        EvidenceHasOwner, ArtifactHasOwner, TemporariesAreThere, StrayIsLinkedTwice,
        CatchIsRight, SawNothing, Early, Empty, Linking, Catching
<1>1. CASE CleanUp(p)
  <2>1. ASSUME NEW q \in Pull PROVE Orderly(q)'
    <3>1. Orderly(q)
      OBVIOUS
    <3>2. (EvidenceHasOwner(q) /\ ArtifactHasOwner(q))'
      BY <1>1, <3>1 DEF CleanUp, CacheTypeOK
    <3>3. TemporariesAreThere(q)'
      BY <1>1, <3>1 DEF CleanUp, CacheTypeOK
    <3>4. (StrayIsLinkedTwice(q) /\ CatchIsRight(q))'
      BY <1>1, <3>1 DEF CleanUp, CacheTypeOK
    <3>5. QED
      BY <3>2, <3>3, <3>4
  <2> QED
    BY <1>0, <1>1, <2>1 DEF CleanUp
<1>2. CASE WriteTemporaryArtifact(p)
  <2>1. \A q \in Pull : Orderly(q)'
    BY <1>2 DEF WriteTemporaryArtifact, CacheTypeOK
  <2> QED
    BY <1>0, <1>2, <2>1 DEF WriteTemporaryArtifact
<1>3. CASE WriteTemporaryEvidence(p)
  <2>1. \A q \in Pull : Orderly(q)'
    BY <1>3 DEF WriteTemporaryEvidence, CacheTypeOK
  <2> QED
    BY <1>0, <1>3, <2>1 DEF WriteTemporaryEvidence
<1>4. CASE UnlinkTemporaryEvidence(p)
  <2>1. ASSUME NEW q \in Pull PROVE Orderly(q)'
    <3>1. Orderly(q)
      OBVIOUS
    <3>2. (EvidenceHasOwner(q) /\ ArtifactHasOwner(q))'
      BY <1>4, <3>1 DEF UnlinkTemporaryEvidence, CacheTypeOK
    <3>3. TemporariesAreThere(q)'
      BY <1>4, <3>1 DEF UnlinkTemporaryEvidence, CacheTypeOK
    <3>4. (StrayIsLinkedTwice(q) /\ CatchIsRight(q))'
      BY <1>4, <3>1 DEF UnlinkTemporaryEvidence, CacheTypeOK
    <3>5. QED
      BY <3>2, <3>3, <3>4
  <2> QED
    BY <1>0, <1>4, <2>1 DEF UnlinkTemporaryEvidence
<1>5. CASE UnlinkTemporaryArtifact(p)
  <2>1. ASSUME NEW q \in Pull PROVE Orderly(q)'
    <3>1. Orderly(q)
      OBVIOUS
    <3>2. (EvidenceHasOwner(q) /\ ArtifactHasOwner(q))'
      BY <1>5, <3>1 DEF UnlinkTemporaryArtifact, CacheTypeOK
    <3>3. TemporariesAreThere(q)'
      BY <1>5, <3>1 DEF UnlinkTemporaryArtifact, CacheTypeOK
    <3>4. (StrayIsLinkedTwice(q) /\ CatchIsRight(q))'
      BY <1>5, <3>1 DEF UnlinkTemporaryArtifact, CacheTypeOK
    <3>5. QED
      BY <3>2, <3>3, <3>4
  <2> QED
    BY <1>0, <1>5, <2>1 DEF UnlinkTemporaryArtifact
<1>6. CASE CatchTemporary(p, "artifact", "catch_artifact", "catch_temporary_evidence")
  <2>1. ASSUME NEW q \in Pull PROVE Orderly(q)'
    <3>1. Orderly(q)
      OBVIOUS
    <3>2. (EvidenceHasOwner(q) /\ ArtifactHasOwner(q))'
      BY <1>6, <3>1 DEF CatchTemporary, CacheTypeOK
    <3>3. TemporariesAreThere(q)'
      BY <1>6, <3>1 DEF CatchTemporary, CacheTypeOK
    <3>4. (StrayIsLinkedTwice(q) /\ CatchIsRight(q))'
      BY <1>6, <3>1 DEF CatchTemporary, CacheTypeOK
    <3>5. QED
      BY <3>2, <3>3, <3>4
  <2> QED
    BY <1>0, <1>6, <2>1 DEF CatchTemporary
<1>7. CASE CatchTemporary(p, "evidence", "catch_temporary_evidence", "catch_state")
  <2>1. ASSUME NEW q \in Pull PROVE Orderly(q)'
    <3>1. Orderly(q)
      OBVIOUS
    <3>2. (EvidenceHasOwner(q) /\ ArtifactHasOwner(q))'
      BY <1>7, <3>1 DEF CatchTemporary, CacheTypeOK
    <3>3. TemporariesAreThere(q)'
      BY <1>7, <3>1 DEF CatchTemporary, CacheTypeOK
    <3>4. (StrayIsLinkedTwice(q) /\ CatchIsRight(q))'
      BY <1>7, <3>1 DEF CatchTemporary, CacheTypeOK
    <3>5. QED
      BY <3>2, <3>3, <3>4
  <2> QED
    BY <1>0, <1>7, <2>1 DEF CatchTemporary
<1>8. CASE CleanUpFails(p)
  <2>0. PICK gone \in SUBSET old :
          /\ temps' = temps \ gone /\ old' = old \ gone
          /\ pull[p] = "clean" /\ pull' = [pull EXCEPT ![p] = "unlock"]
          /\ UNCHANGED <<artifact, evidence, linked, seen>>
    BY <1>8 DEF CleanUpFails, PullEnds
  <2>1. ASSUME NEW q \in Pull PROVE Orderly(q)'
    <3>1. Orderly(q)
      OBVIOUS
    <3>2. (EvidenceHasOwner(q) /\ ArtifactHasOwner(q))'
      BY <2>0, <3>1 DEF CacheTypeOK
    <3>3. TemporariesAreThere(q)'
      BY <2>0, <3>1 DEF CacheTypeOK
    <3>4. (StrayIsLinkedTwice(q) /\ CatchIsRight(q))'
      BY <2>0, <3>1 DEF CacheTypeOK
    <3>5. QED
      BY <3>2, <3>3, <3>4
  <2> QED
    BY <1>0, <2>0, <2>1
<1> QED
  BY <1>1, <1>2, <1>3, <1>4, <1>5, <1>6, <1>7, <1>8 DEF CatchTemporaries

\* Linking the two files, and taking the evidence back, keeps the order (cacheRegistryArtifact).
LEMMA LinksKeep ==
  ASSUME Order, NEW p \in Pull,
         LinkEvidence(p) \/ LinkArtifact(p) \/ TakeEvidenceBack(p) \/ CatchEvidence(p)
  PROVE  Order'
<1> USE CacheAssumption DEF temporaries, object, memory, history, PullGone, SawNothing, Early, Empty,
        Linking, Catching
<1>1. CASE LinkEvidence(p)
  <2>1. CacheTypeOK' /\ UNCHANGED <<temps, old, artifact, seen>> /\ pull[p] = "link_evidence"
    BY <1>1 DEF LinkEvidence, Enters, Order, CacheTypeOK, Steps
  <2>2. CASE evidence = NoPull
    <3>1. /\ evidence' = p /\ linked' = [linked EXCEPT ![p] = TRUE]
          /\ pull' = [pull EXCEPT ![p] = "unlink_evidence"]
      BY <1>1, <2>2 DEF LinkEvidence, Enters
    <3>2. Orderly(p)'
      BY <2>1, <2>2, <3>1 DEF Order, CacheTypeOK, Orderly, EvidenceHasOwner, ArtifactHasOwner,
         TemporariesAreThere, StrayIsLinkedTwice, CatchIsRight
    <3>3. \A q \in Pull \ {p} : Orderly(q)'
      BY <2>1, <2>2, <3>1 DEF Order, CacheTypeOK, Orderly, EvidenceHasOwner, ArtifactHasOwner,
         TemporariesAreThere, StrayIsLinkedTwice, CatchIsRight
    <3>4. QED
      BY <2>1, <3>2, <3>3 DEF Order
  <2>3. CASE evidence # NoPull
    <3>1. UNCHANGED <<evidence, linked>> /\ pull' = [pull EXCEPT ![p] = "catch_artifact"]
      BY <1>1, <2>3 DEF LinkEvidence, Enters
    <3>2. Orderly(p)'
      BY <2>1, <3>1 DEF Order, CacheTypeOK, Orderly, EvidenceHasOwner, ArtifactHasOwner,
         TemporariesAreThere, StrayIsLinkedTwice, CatchIsRight
    <3>3. \A q \in Pull \ {p} : Orderly(q)'
      BY <2>1, <3>1, OthersKeep DEF Order, CacheTypeOK
    <3>4. QED
      BY <2>1, <3>2, <3>3 DEF Order
  <2>4. QED
    BY <2>2, <2>3
<1>2. CASE LinkArtifact(p)
  <2>1. /\ CacheTypeOK' /\ UNCHANGED <<temps, old, evidence, seen, linked>>
        /\ pull[p] = "link_artifact" /\ linked[p] /\ evidence = p
    BY <1>2 DEF LinkArtifact, Enters, Order, CacheTypeOK, Steps, Orderly, EvidenceHasOwner
  <2>2. CASE artifact = NoPull
    <3>1. artifact' = p /\ pull' = [pull EXCEPT ![p] = "unlink_artifact"]
      BY <1>2, <2>2 DEF LinkArtifact, Enters
    <3>2. Orderly(p)'
      BY <2>1, <2>2, <3>1 DEF Order, CacheTypeOK, Orderly, EvidenceHasOwner, ArtifactHasOwner,
         TemporariesAreThere, StrayIsLinkedTwice, CatchIsRight
    <3>3. \A q \in Pull \ {p} : Orderly(q)'
      BY <2>1, <2>2, <3>1 DEF Order, CacheTypeOK, Orderly, EvidenceHasOwner, ArtifactHasOwner,
         TemporariesAreThere, StrayIsLinkedTwice, CatchIsRight
    <3>4. QED
      BY <2>1, <3>2, <3>3 DEF Order
  <2>3. CASE artifact # NoPull
    <3>1. UNCHANGED artifact /\ pull' = [pull EXCEPT ![p] = "conflict"]
      BY <1>2, <2>3 DEF LinkArtifact, Enters
    <3>2. Orderly(p)'
      BY <2>1, <2>3, <3>1 DEF Order, CacheTypeOK, Orderly, EvidenceHasOwner, ArtifactHasOwner,
         TemporariesAreThere, StrayIsLinkedTwice, CatchIsRight
    <3>3. \A q \in Pull \ {p} : Orderly(q)'
      BY <2>1, <3>1, OthersKeep DEF Order, CacheTypeOK
    <3>4. QED
      BY <2>1, <3>2, <3>3 DEF Order
  <2>4. QED
    BY <2>2, <2>3
<1>3. CASE TakeEvidenceBack(p)
  <2>1. /\ CacheTypeOK' /\ UNCHANGED <<temps, old, artifact, seen>>
        /\ pull[p] = "conflict" /\ linked[p] /\ evidence = p
        /\ evidence' = NoPull /\ linked' = [linked EXCEPT ![p] = FALSE]
        /\ pull' = [pull EXCEPT ![p] = "conflict_artifact"]
    BY <1>3 DEF TakeEvidenceBack, Enters, Order, CacheTypeOK, Steps, Orderly, EvidenceHasOwner
  <2>2. artifact \notin {p, NoPull} /\ <<artifact, "artifact">> \in temps
    BY <2>1 DEF Order, Orderly, ArtifactHasOwner, StrayIsLinkedTwice
  <2>3. Orderly(p)'
    BY <2>1, <2>2 DEF Order, CacheTypeOK, Orderly, EvidenceHasOwner, ArtifactHasOwner,
       TemporariesAreThere, StrayIsLinkedTwice, CatchIsRight
  <2>4. \A q \in Pull \ {p} : Orderly(q)'
    BY <2>1, <2>2 DEF Order, CacheTypeOK, Orderly, EvidenceHasOwner, ArtifactHasOwner,
       TemporariesAreThere, StrayIsLinkedTwice, CatchIsRight
  <2>5. QED
    BY <2>1, <2>3, <2>4 DEF Order
<1>4. CASE CatchEvidence(p)
  <2>1. /\ CacheTypeOK' /\ UNCHANGED <<temps, old, artifact, seen, linked>>
        /\ pull[p] = "catch_evidence" /\ evidence = p
        /\ pull' = [pull EXCEPT ![p] = "unlock"]
        /\ evidence' \in {evidence, NoPull}
    <3>1. CacheTypeOK'
      BY <1>4, CacheTypesKeep DEF CacheNext, PullStep, Publish, Order
    <3>2. linked[p] /\ evidence = p
      BY <1>4 DEF CatchEvidence, Order, Orderly, EvidenceHasOwner, CatchIsRight
    <3>3. QED
      BY <1>4, <3>1, <3>2 DEF CatchEvidence, Enters, PullEnds
  <2>2. artifact = NoPull \/ <<artifact, "artifact">> \in temps
    BY <2>1 DEF Order, Orderly, CatchIsRight
  <2>3. Orderly(p)'
    BY <2>1, HarmlessIsOrderly DEF Order, CacheTypeOK, Harmless
  <2>4. \A q \in Pull \ {p} : Orderly(q)'
    <3>1. CASE evidence' = evidence
      BY <2>1, <3>1, OthersKeep DEF Order, CacheTypeOK
    <3>2. CASE evidence' = NoPull
      BY <2>1, <2>2, <3>2 DEF Order, CacheTypeOK, Orderly, EvidenceHasOwner, ArtifactHasOwner,
         TemporariesAreThere, StrayIsLinkedTwice, CatchIsRight
    <3>3. QED
      BY <2>1, <3>1, <3>2
  <2>5. QED
    BY <2>1, <2>3, <2>4 DEF Order
<1>5. QED
  BY <1>1, <1>2, <1>3, <1>4

\* A day passes only while nobody is at work, so that no temporary file of a pull gets old.
LEMMA TomorrowKeeps ==
  ASSUME Order, Tomorrow
  PROVE  Order'
<1>1. CacheTypeOK'
  BY CacheTypesKeep DEF Order, CacheNext
<1>2. \A q \in Pull : Orderly(q)'
  BY DEF Order, Tomorrow, object, memory, CacheTypeOK, PullGone, Orderly,
     EvidenceHasOwner, ArtifactHasOwner, TemporariesAreThere, StrayIsLinkedTwice, CatchIsRight,
     SawNothing, Early, Empty, Linking, Catching
<1>3. QED
  BY <1>1, <1>2 DEF Order, Tomorrow

\* Every step keeps the order, unless a pull takes its evidence back without a look.
LEMMA OrderKeeps ==
  ASSUME Order, [CacheNext]_cacheVars, "blind" \notin faults'
  PROVE  Order'
<1>1. CASE Tomorrow
  BY <1>1, TomorrowKeeps
<1>2. CASE \E p \in Pull : Looks(p)
  BY <1>2, LookingKeeps
<1>3. CASE \E p \in Pull :
             \/ CleanUp(p) \/ CleanUpFails(p) \/ WriteTemporaryArtifact(p)
             \/ WriteTemporaryEvidence(p) \/ UnlinkTemporaryEvidence(p)
             \/ UnlinkTemporaryArtifact(p) \/ CatchTemporaries(p)
  BY <1>3, TemporariesKeep
<1>4. CASE \E p \in Pull :
             LinkEvidence(p) \/ LinkArtifact(p) \/ TakeEvidenceBack(p) \/ CatchEvidence(p)
  BY <1>4, LinksKeep
<1>5. CASE UNCHANGED cacheVars
  BY <1>5 DEF cacheVars, temporaries, object, memory, history, Order, CacheTypeOK, Orderly,
     EvidenceHasOwner, ArtifactHasOwner, TemporariesAreThere, StrayIsLinkedTwice, CatchIsRight,
     SawNothing, PullGone
<1>6. ASSUME NEW p \in Pull, CatchStateFails(p)
      PROVE  FALSE
  BY <1>6 DEF CatchStateFails, Suffers
<1>7. QED
  BY <1>1, <1>2, <1>3, <1>4, <1>5, <1>6 DEF CacheNext, PullStep, Publish, Looks

\* No step takes a whole object apart, of whichever pulls it is made.
LEMMA WholeStays ==
  ASSUME Order, [CacheNext]_cacheVars, "blind" \notin faults', Whole
  PROVE  Whole' /\ evidence' = evidence
<1> USE CacheAssumption DEF Whole, ArtifactIsLinkedTwice, EvidenceIsLinkedTwice
<1>1. UNCHANGED <<artifact, evidence>>
  <2>1. ASSUME NEW p \in Pull, TakeEvidenceBack(p)
        PROVE  FALSE
    BY <2>1 DEF TakeEvidenceBack, Order, Orderly, ArtifactHasOwner, EvidenceHasOwner,
       StrayIsLinkedTwice, SawNothing, Linking
  <2>2. ASSUME NEW p \in Pull, CatchEvidence(p)
        PROVE  FALSE
    BY <2>2 DEF CatchEvidence, Order, Orderly, CatchIsRight
  <2>3. QED
    BY <2>1, <2>2 DEF CacheNext, PullStep, Publish, Tomorrow, OpenPullLock, RecordLock, SeeStaleLock,
       BreakPullLock, PullGivesUp, Unlock, CheckArtifact, CheckEvidence, VerifyExisting,
       CompareEvidence, FinalCheck, PublicationFails, CatchState, KillPull, LookFails, ReadFails,
       CatchStateFails, CleanUpFails, CleanUp,
       WriteTemporaryArtifact, WriteTemporaryEvidence, UnlinkTemporaryEvidence,
       UnlinkTemporaryArtifact, CatchTemporaries, CatchTemporary, LinkEvidence, LinkArtifact,
       cacheVars, object
<1>2. <<artifact, "artifact">> \notin temps' /\ <<evidence, "evidence">> \notin temps'
  <2>1. CASE \E p \in Pull : WriteTemporaryArtifact(p)
    <3>1. PICK p \in Pull : WriteTemporaryArtifact(p)
      BY <2>1
    <3>2. p # artifact /\ temps' = temps \cup {<<p, "artifact">>}
      BY <3>1 DEF WriteTemporaryArtifact, Order, Orderly, EvidenceHasOwner, Early, Empty
    <3>3. QED
      BY <3>2
  <2>2. CASE \E p \in Pull : WriteTemporaryEvidence(p)
    <3>1. PICK p \in Pull : WriteTemporaryEvidence(p)
      BY <2>2
    <3>2. p # evidence /\ temps' = temps \cup {<<p, "evidence">>}
      BY <3>1 DEF WriteTemporaryEvidence, Order, Orderly, EvidenceHasOwner, Early, Empty
    <3>3. QED
      BY <3>2
  <2>3. CASE \A p \in Pull : ~WriteTemporaryArtifact(p) /\ ~WriteTemporaryEvidence(p)
    <3>1. temps' \subseteq temps
      BY <2>3 DEF CacheNext, PullStep, Publish, Tomorrow, OpenPullLock, RecordLock, SeeStaleLock,
         BreakPullLock, PullGivesUp, Unlock, CheckArtifact, CheckEvidence, VerifyExisting,
         CompareEvidence, FinalCheck, PublicationFails, CatchState, KillPull, LookFails, ReadFails,
       CatchStateFails, CleanUpFails, CleanUp,
         UnlinkTemporaryEvidence, UnlinkTemporaryArtifact, CatchTemporaries, CatchTemporary,
         LinkEvidence, LinkArtifact, TakeEvidenceBack, CatchEvidence, cacheVars, temporaries
    <3>2. QED
      BY <3>1
  <2>4. QED
    BY <2>1, <2>2, <2>3
<1>3. QED
  BY <1>1, <1>2

\* Evidence is compared only after the object was verified.
LEMMA OnlyVerified ==
  ASSUME Order, NEW p \in Pull, [CacheNext]_cacheVars, pull[p] # "compare", pull'[p] = "compare"
  PROVE  VerifyExisting(p)
<1> USE DEF Order, CacheTypeOK, Enters, PullEnds
<1>1. ~UNCHANGED pull
  OBVIOUS
<1>2. ASSUME NEW q \in Pull, OpenPullLock(q) \/ RecordLock(q) \/ SeeStaleLock(q) \/ BreakPullLock(q)
      PROVE  FALSE
  BY <1>2 DEF OpenPullLock, RecordLock, SeeStaleLock, BreakPullLock
<1>3. ASSUME NEW q \in Pull, PullGivesUp(q) \/ Unlock(q) \/ CleanUp(q) \/ CheckArtifact(q)
      PROVE  FALSE
  BY <1>3 DEF PullGivesUp, Unlock, CleanUp, CheckArtifact
<1>4. ASSUME NEW q \in Pull, CheckEvidence(q) \/ CompareEvidence(q) \/ FinalCheck(q) \/ KillPull(q)
      PROVE  FALSE
  BY <1>4 DEF CheckEvidence, CompareEvidence, FinalCheck, KillPull
<1>5. ASSUME NEW q \in Pull,
             \/ WriteTemporaryArtifact(q) \/ WriteTemporaryEvidence(q) \/ LinkEvidence(q)
             \/ UnlinkTemporaryEvidence(q) \/ LinkArtifact(q)
      PROVE  FALSE
  BY <1>5 DEF WriteTemporaryArtifact, WriteTemporaryEvidence, LinkEvidence,
     UnlinkTemporaryEvidence, LinkArtifact
<1>6. ASSUME NEW q \in Pull,
             TakeEvidenceBack(q) \/ UnlinkTemporaryArtifact(q) \/ PublicationFails(q)
      PROVE  FALSE
  BY <1>6 DEF TakeEvidenceBack, UnlinkTemporaryArtifact, PublicationFails
<1>7. ASSUME NEW q \in Pull, CatchTemporaries(q) \/ CatchState(q) \/ CatchEvidence(q)
      PROVE  FALSE
  BY <1>7 DEF CatchTemporaries, CatchTemporary, CatchState, CatchEvidence
<1>8. ASSUME NEW q \in Pull, VerifyExisting(q)
      PROVE  q = p
  BY <1>8 DEF VerifyExisting
<1>9. ASSUME NEW q \in Pull,
             CleanUpFails(q) \/ LookFails(q) \/ ReadFails(q) \/ CatchStateFails(q)
      PROVE  FALSE
  BY <1>9 DEF CleanUpFails, LookFails, ReadFails, CatchStateFails
<1>10. QED
  BY <1>1, <1>2, <1>3, <1>4, <1>5, <1>6, <1>7, <1>8, <1>9 DEF CacheNext, PullStep, Publish, Tomorrow, cacheVars

\* What a pull returns is true of the object at that moment.
LEMMA ResultIsTrue ==
  ASSUME CacheInv, NEW p \in Pull, [CacheNext]_cacheVars, ~Succeeded(p), Succeeded(p)'
  PROVE  Whole /\ index[evidence] = index[p]
<1> USE CacheAssumption DEF CacheInv, Order, CacheTypeOK, Succeeded, Enters, PullEnds
<1>1. CompareEvidence(p) \/ FinalCheck(p)
  <2>1. UNCHANGED result => Succeeded(p)
    OBVIOUS
  <2>2. ASSUME NEW q \in Pull, RecordLock(q) \/ PullGivesUp(q)
        PROVE  FALSE
    BY <2>2 DEF RecordLock, PullGivesUp
  <2>3. ASSUME NEW q \in Pull,
               \/ CheckArtifact(q) \/ CheckEvidence(q) \/ VerifyExisting(q) \/ CleanUpFails(q)
               \/ LookFails(q) \/ ReadFails(q)
        PROVE  FALSE
    BY <2>3 DEF CheckArtifact, CheckEvidence, VerifyExisting, CleanUpFails, LookFails, ReadFails
  <2>4. ASSUME NEW q \in Pull, CatchState(q) \/ CatchEvidence(q)
        PROVE  FALSE
    BY <2>4 DEF CatchState, CatchEvidence
  <2>5. ASSUME NEW q \in Pull, CompareEvidence(q) \/ FinalCheck(q)
        PROVE  q = p
    BY <2>5 DEF CompareEvidence, FinalCheck
  <2>6. QED
    BY <2>1, <2>2, <2>3, <2>4, <2>5 DEF CacheNext, PullStep, Publish, Tomorrow, OpenPullLock,
       SeeStaleLock, BreakPullLock, Unlock, PublicationFails, KillPull, CatchStateFails, CleanUp,
       WriteTemporaryArtifact, WriteTemporaryEvidence, UnlinkTemporaryEvidence,
       UnlinkTemporaryArtifact, CatchTemporaries, CatchTemporary, LinkEvidence, LinkArtifact,
       TakeEvidenceBack, cacheVars
<1>2. CASE CompareEvidence(p)
  BY <1>2 DEF CompareEvidence, SeenWhole
<1>3. CASE FinalCheck(p)
  <2>1. Whole
    BY <1>3 DEF FinalCheck, Whole
  <2>2. evidence = p
    BY <1>3 DEF FinalCheck, Orderly, EvidenceHasOwner, Linking
  <2>3. QED
    BY <2>1, <2>2
<1>4. QED
  BY <1>1, <1>2, <1>3

\* Unless a pull took its evidence back without a look, the invariant holds.
LEMMA CacheInvHolds == CacheSpec => []CacheInvUnlessBlind
<1>1. CacheInit => CacheInvUnlessBlind
  BY CacheAssumption DEF CacheInit, CacheInv, Order, CacheTypeOK, Steps, Orderly,
     EvidenceHasOwner, ArtifactHasOwner, TemporariesAreThere, StrayIsLinkedTwice, CatchIsRight,
     SawNothing, Early, Empty, Linking, Catching, SeenWhole, AllStaysWhole, Succeeded,
     CacheInvUnlessBlind
<1>2. CacheTypeOK /\ CacheInvUnlessBlind /\ [CacheNext]_cacheVars => CacheInvUnlessBlind'
  <2> SUFFICES ASSUME CacheTypeOK, CacheInvUnlessBlind, [CacheNext]_cacheVars, "blind" \notin faults'
               PROVE  CacheInv'
    BY DEF CacheInvUnlessBlind
  <2>0. CacheInv
    BY FaultsStay DEF CacheInvUnlessBlind, cacheVars, history
  <2>1. Order'
    BY <2>0, OrderKeeps DEF CacheInv
  <2>2. index' = index
    BY FaultsStay DEF cacheVars, memory
  <2>3. SeenWhole'
    <3> SUFFICES ASSUME NEW p \in Pull, pull'[p] = "compare" PROVE Whole'
      BY DEF SeenWhole
    <3>1. Whole
      <4>1. CASE pull[p] = "compare"
        BY <2>0, <4>1 DEF CacheInv, SeenWhole
      <4>2. CASE pull[p] # "compare"
        <5>1. VerifyExisting(p)
          BY <2>0, <4>2, OnlyVerified DEF CacheInv
        <5>2. QED
          BY <2>0, <5>1 DEF VerifyExisting, Whole, PullEnds, Enters, CacheInv, Order, CacheTypeOK
      <4>3. QED
        BY <4>1, <4>2
    <3>2. QED
      BY <2>0, <3>1, WholeStays DEF CacheInv
  <2>4. AllStaysWhole'
    <3> SUFFICES ASSUME NEW p \in Pull, Succeeded(p)'
                 PROVE  Whole' /\ index'[evidence'] = index'[p]
      BY DEF AllStaysWhole
    <3>1. Whole /\ index[evidence] = index[p]
      BY <2>0, ResultIsTrue DEF CacheInv, AllStaysWhole
    <3>2. QED
      BY <2>0, <2>2, <3>1, WholeStays DEF CacheInv
  <2>5. QED
    BY <2>1, <2>3, <2>4 DEF CacheInv
<1>3. QED
  BY <1>1, <1>2, CacheTypesHold, PTL DEF CacheSpec

(***************************************************************************)
(* Unless a lock is broken under its owner, no two pulls are at work, so   *)
(* that taking the evidence back without a look harms no other pull.       *)
(***************************************************************************)
InLock(p) == pull[p] \notin {"new", "break", "done", "killed"}

\* What the pull that has the lock knows.
Alone(p) ==
  /\ SawNothing(p) => \A q \in Pull : ~Succeeded(q)
  /\ pull[p] = "see_evidence" /\ ~seen[p] => artifact = NoPull
  /\ pull[p] \in {"write", "write_evidence", "link_evidence", "unlink_evidence", "link_artifact"}
       => artifact = NoPull
  /\ pull[p] \notin {"conflict", "conflict_artifact"}
  /\ pull[p] \in {"unlink_artifact", "final"} => artifact = p
  /\ pull[p] \in Linking => evidence = p
  /\ pull[p] = "compare" => Whole

OneAtWork ==
  /\ \A p \in Pull : InLock(p) => pullLock = p /\ Alone(p)
  /\ AllStaysWhole

OneAtWorkUnlessRobbed == "robbed" \notin faults => OneAtWork

\* Only a pull that has the lock changes what Alone speaks of.
LEMMA HolderStaysAlone ==
  ASSUME CacheTypeOK, OneAtWork, NEW p \in Pull, InLock(p), NEW s, Enters(p, s),
         pullLock' = pullLock, InLock(p)' => Alone(p)', AllStaysWhole'
  PROVE  OneAtWork'
<1>1. \A q \in Pull : q # p => ~InLock(q)
  BY DEF OneAtWork
<1>2. \A q \in Pull : q # p => ~InLock(q)'
  BY <1>1 DEF InLock, Enters, CacheTypeOK
<1> QED
  BY <1>2 DEF OneAtWork

\* Nothing that was pulled is there while a pull that saw nothing is at work.
LEMMA NothingPulledYet ==
  ASSUME CacheTypeOK, OneAtWork, NEW p \in Pull, InLock(p), SawNothing(p), index' = index,
         \/ result' = result
         \/ \E r \in {"failed", "corrupt"} : result' = [result EXCEPT ![p] = r]
  PROVE  AllStaysWhole' /\ \A q \in Pull : ~Succeeded(q)'
BY DEF OneAtWork, Alone, AllStaysWhole, Succeeded, CacheTypeOK

\* The lock comes and goes.
LEMMA LockingLeavesOne ==
  ASSUME CacheTypeOK, OneAtWork, "robbed" \notin faults', NEW p \in Pull,
         \/ OpenPullLock(p) \/ RecordLock(p) \/ SeeStaleLock(p) \/ BreakPullLock(p)
         \/ PullGivesUp(p) \/ Unlock(p) \/ KillPull(p)
  PROVE  OneAtWork'
<1> USE DEF Enters, temporaries, object, memory
<1>1. UNCHANGED <<temps, artifact, evidence, seen, index>>
  BY DEF OpenPullLock, RecordLock, SeeStaleLock, BreakPullLock, PullGivesUp, Unlock, KillPull
<1>2. \A q \in Pull : q # p => pull'[q] = pull[q]
  BY DEF OpenPullLock, RecordLock, SeeStaleLock, BreakPullLock, PullGivesUp, Unlock, KillPull,
     CacheTypeOK
<1>3. \A q \in Pull : Succeeded(q)' => Succeeded(q)
  BY DEF OpenPullLock, RecordLock, SeeStaleLock, BreakPullLock, PullGivesUp, Unlock, KillPull,
     CacheTypeOK, Succeeded
<1>4. AllStaysWhole'
  BY <1>1, <1>3 DEF OneAtWork, AllStaysWhole, Whole, ArtifactIsLinkedTwice, EvidenceIsLinkedTwice
<1>5. ASSUME NEW q \in Pull, q # p, Alone(q)
      PROVE  Alone(q)'
  BY <1>1, <1>2, <1>3, <1>5 DEF Alone, SawNothing, Whole, ArtifactIsLinkedTwice,
     EvidenceIsLinkedTwice
<1>6. CASE OpenPullLock(p)
  <2>1. \A q \in Pull : ~InLock(q)
    BY CacheAssumption, <1>6 DEF OpenPullLock, OneAtWork
  <2>2. pull'[p] = "record" /\ pullLock' = p
    BY <1>6 DEF OpenPullLock, CacheTypeOK
  <2>3. Alone(p)'
    BY <2>2 DEF Alone, SawNothing, Linking, Catching
  <2>4. \A q \in Pull : q # p => ~InLock(q)'
    BY <1>2, <2>1 DEF InLock
  <2> QED
    BY <1>4, <2>2, <2>3, <2>4 DEF OneAtWork
<1>7. CASE RecordLock(p)
  <2>1. InLock(p) /\ pullLock' = pullLock /\ pull'[p] \in {"clean", "done"}
    BY <1>7 DEF RecordLock, CacheTypeOK, InLock
  <2>2. Alone(p)'
    BY <2>1 DEF Alone, SawNothing, Linking, Catching
  <2> QED
    BY <1>2, <1>4, <1>5, <2>1, <2>2 DEF OneAtWork, InLock
<1>8. CASE SeeStaleLock(p) \/ PullGivesUp(p) \/ KillPull(p)
  <2>1. ~InLock(p)' /\ pullLock' = pullLock
    BY <1>8 DEF SeeStaleLock, PullGivesUp, KillPull, CacheTypeOK, InLock
  <2> QED
    BY <1>2, <1>4, <1>5, <2>1 DEF OneAtWork, InLock
<1>9. CASE BreakPullLock(p) \/ Unlock(p)
  <2>1. ~InLock(p)' /\ \A q \in Pull : q # p => ~InLock(q)
    BY CacheAssumption, <1>9 DEF BreakPullLock, Unlock, PullGone, OneAtWork, InLock, Suffers,
       CacheTypeOK
  <2>2. \A q \in Pull : ~InLock(q)'
    BY <1>2, <2>1 DEF InLock
  <2> QED
    BY <1>4, <2>2 DEF OneAtWork
<1> QED
  BY <1>6, <1>7, <1>8, <1>9

\* A pull reads what is there under its lock.
LEMMA ReadingLeavesOne ==
  ASSUME CacheTypeOK, OneAtWork, NEW p \in Pull,
         \/ CleanUp(p) \/ CleanUpFails(p) \/ CheckArtifact(p) \/ CheckEvidence(p) \/ LookFails(p)
         \/ VerifyExisting(p) \/ CompareEvidence(p) \/ ReadFails(p)
  PROVE  OneAtWork'
<1> USE CacheAssumption DEF PullEnds, Enters, temporaries, object, memory
<1>1. InLock(p) /\ Alone(p) /\ pullLock' = pullLock /\ UNCHANGED <<artifact, evidence, index>>
  BY DEF OneAtWork, InLock, CleanUp, CleanUpFails, CheckArtifact, CheckEvidence, LookFails,
     VerifyExisting, CompareEvidence, ReadFails
<1>2. temps' \subseteq temps
  BY DEF CleanUp, CleanUpFails, CheckArtifact, CheckEvidence, LookFails, VerifyExisting,
     CompareEvidence, ReadFails
<1>3. Whole => Whole'
  BY <1>1, <1>2 DEF Whole, ArtifactIsLinkedTwice, EvidenceIsLinkedTwice
<1>4. CASE CompareEvidence(p)
  <2>1. pull'[p] = "unlock" /\ Whole /\ Enters(p, "unlock")
    BY <1>1, <1>4 DEF CompareEvidence, Alone, CacheTypeOK
  <2>2. \A q \in Pull : Succeeded(q)' => Succeeded(q) \/ (q = p /\ index[evidence] = index[p])
    BY <1>4 DEF CompareEvidence, Succeeded, CacheTypeOK
  <2>3. AllStaysWhole'
    BY <1>1, <1>3, <2>1, <2>2 DEF OneAtWork, AllStaysWhole
  <2>4. Alone(p)'
    BY <2>1 DEF Alone, SawNothing, Linking, Catching
  <2> QED
    BY <1>1, <2>1, <2>3, <2>4, HolderStaysAlone
<1>5. CASE ~CompareEvidence(p)
  <2>1. \A q \in Pull : Succeeded(q)' => Succeeded(q)
    BY <1>5 DEF CleanUp, CleanUpFails, CheckArtifact, CheckEvidence, LookFails, VerifyExisting,
       ReadFails, Succeeded, CacheTypeOK
  <2>2. AllStaysWhole'
    BY <1>1, <1>3, <2>1 DEF OneAtWork, AllStaysWhole
  <2>3. CASE CheckArtifact(p)
    <3>1. seen'[p] = (artifact # NoPull) /\ pull'[p] \in {"see_evidence", "unlock"}
      BY <2>3 DEF CheckArtifact, CacheTypeOK
    <3>2. artifact = NoPull => \A q \in Pull : ~Succeeded(q)
      BY DEF OneAtWork, AllStaysWhole, Whole
    <3>3. Alone(p)'
      BY <1>1, <2>1, <3>1, <3>2 DEF Alone, SawNothing, Linking, Catching
    <3> QED
      BY <1>1, <2>2, <2>3, <3>3, HolderStaysAlone DEF CheckArtifact
  <2>4. CASE CheckEvidence(p)
    <3>1. pull'[p] \in {"verify", "write", "unlock"} /\ (pull'[p] = "write" => ~seen[p])
      BY <2>4 DEF CheckEvidence, CacheTypeOK
    <3>2. Alone(p)'
      BY <1>1, <2>1, <2>4, <3>1 DEF CheckEvidence, Alone, SawNothing, Linking, Catching
    <3> QED
      BY <1>1, <2>2, <2>4, <3>2, HolderStaysAlone DEF CheckEvidence
  <2>5. CASE VerifyExisting(p)
    <3>1. pull'[p] \in {"compare", "unlock"} /\ (pull'[p] = "compare" => Whole)
      BY <2>5 DEF VerifyExisting, CacheTypeOK, Whole
    <3>2. Alone(p)'
      BY <1>3, <3>1 DEF Alone, SawNothing, Linking, Catching
    <3> QED
      BY <1>1, <2>2, <2>5, <3>2, HolderStaysAlone DEF VerifyExisting
  <2>6. CASE CleanUp(p) \/ CleanUpFails(p) \/ LookFails(p) \/ ReadFails(p)
    <3>1. PICK s \in {"see_artifact", "unlock"} : Enters(p, s)
      BY <2>6 DEF CleanUp, CleanUpFails, LookFails, ReadFails
    <3>2. Alone(p)'
      BY <3>1 DEF Alone, SawNothing, Linking, Catching, CacheTypeOK
    <3> QED
      BY <1>1, <2>2, <3>1, <3>2, HolderStaysAlone
  <2> QED
    BY <1>5, <2>3, <2>4, <2>5, <2>6
<1> QED
  BY <1>4, <1>5

\* A pull publishes under its lock, and cleans up, whatever it takes back.
LEMMA PublishingLeavesOne ==
  ASSUME CacheTypeOK, OneAtWork, index' = index, NEW p \in Pull,
         \/ Publish(p) \/ CatchTemporaries(p) \/ CatchState(p) \/ CatchStateFails(p)
         \/ CatchEvidence(p)
  PROVE  OneAtWork'
<1> USE CacheAssumption DEF PullEnds, Enters, temporaries, object, memory
<1>1. /\ InLock(p) /\ Alone(p) /\ pullLock' = pullLock
      /\ pull[p] \in {"write", "write_evidence", "link_evidence"} \cup Linking \cup Catching
  BY DEF OneAtWork, InLock, Alone, Publish, WriteTemporaryArtifact, WriteTemporaryEvidence,
     LinkEvidence, UnlinkTemporaryEvidence, LinkArtifact, TakeEvidenceBack,
     UnlinkTemporaryArtifact, FinalCheck, PublicationFails, CatchTemporaries, CatchTemporary,
     CatchState, CatchStateFails, CatchEvidence, Linking, Catching
<1>2. SawNothing(p)
  BY <1>1 DEF SawNothing
<1>3. CASE FinalCheck(p)
  <2>1. artifact = p /\ evidence = p /\ UNCHANGED <<temps, artifact, evidence>>
    BY <1>1, <1>3 DEF FinalCheck, Alone, Linking
  <2>2. CASE pull'[p] = "catch_artifact"
    <3>1. result' = result /\ Enters(p, "catch_artifact")
      BY <1>3, <2>2 DEF FinalCheck, CacheTypeOK
    <3>2. Alone(p)' /\ AllStaysWhole'
      BY <1>1, <1>2, <2>2, <3>1, NothingPulledYet DEF Alone, SawNothing, Linking, Catching
    <3> QED
      BY <1>1, <3>1, <3>2, HolderStaysAlone
  <2>3. CASE pull'[p] # "catch_artifact"
    <3>1. Whole /\ Enters(p, "unlock") /\ result' = [result EXCEPT ![p] = "published"]
      BY <1>3, <2>3 DEF FinalCheck, CacheTypeOK, Whole
    <3>2. AllStaysWhole'
      BY <1>1, <1>2, <2>1, <3>1 DEF Alone, AllStaysWhole, Succeeded, Whole, CacheTypeOK,
         ArtifactIsLinkedTwice, EvidenceIsLinkedTwice
    <3>3. Alone(p)'
      BY <3>1 DEF Alone, SawNothing, Linking, Catching, CacheTypeOK
    <3> QED
      BY <1>1, <3>1, <3>2, <3>3, HolderStaysAlone
  <2> QED
    BY <2>2, <2>3
<1>4. CASE ~FinalCheck(p)
  <2>1. /\ \/ result' = result
           \/ \E r \in {"failed", "corrupt"} : result' = [result EXCEPT ![p] = r]
        /\ \E s : Enters(p, s)
    BY <1>4 DEF Publish, WriteTemporaryArtifact, WriteTemporaryEvidence, LinkEvidence,
       UnlinkTemporaryEvidence, LinkArtifact, TakeEvidenceBack, UnlinkTemporaryArtifact,
       PublicationFails, CatchTemporaries, CatchTemporary, CatchState, CatchStateFails,
       CatchEvidence
  <2>2. AllStaysWhole' /\ \A q \in Pull : ~Succeeded(q)'
    BY <1>1, <1>2, <2>1, NothingPulledYet
  <2>3. Alone(p)'
    <3>1. CASE pull'[p] \in Catching \cup {"unlock"}
      BY <2>2, <3>1 DEF Alone, Linking, Catching
    <3>2. CASE pull'[p] \notin Catching \cup {"unlock"}
      <4>1. \/ WriteTemporaryArtifact(p) \/ WriteTemporaryEvidence(p) \/ LinkEvidence(p)
            \/ UnlinkTemporaryEvidence(p) \/ LinkArtifact(p) \/ UnlinkTemporaryArtifact(p)
        BY <1>1, <1>4, <3>2 DEF Publish, TakeEvidenceBack, PublicationFails, CatchTemporaries,
           CatchTemporary, CatchState, CatchStateFails, CatchEvidence, Alone, Catching, CacheTypeOK
      <4>2. /\ pull'[p] \in {"write_evidence", "link_evidence", "unlink_evidence", "link_artifact"}
                 => artifact' = NoPull
            /\ pull'[p] \notin {"compare", "see_evidence", "write", "conflict", "conflict_artifact"}
            /\ pull'[p] \in {"unlink_artifact", "final"} => artifact' = p
            /\ pull'[p] \in Linking => evidence' = p
        BY <1>1, <3>2, <4>1 DEF WriteTemporaryArtifact, WriteTemporaryEvidence, LinkEvidence,
           UnlinkTemporaryEvidence, LinkArtifact, UnlinkTemporaryArtifact, Alone, CacheTypeOK,
           Linking, Catching
      <4> QED
        BY <2>2, <4>2 DEF Alone
    <3> QED
      BY <3>1, <3>2
  <2> QED
    BY <1>1, <2>1, <2>2, <2>3, HolderStaysAlone
<1> QED
  BY <1>3, <1>4

\* It holds in every reachable state.
LEMMA OneAtWorkHolds == CacheSpec => []OneAtWorkUnlessRobbed
<1>1. CacheInit => OneAtWorkUnlessRobbed
  BY DEF CacheInit, OneAtWorkUnlessRobbed, OneAtWork, InLock, AllStaysWhole, Succeeded
<1>2. CacheTypeOK /\ OneAtWorkUnlessRobbed /\ [CacheNext]_cacheVars => OneAtWorkUnlessRobbed'
  <2> SUFFICES ASSUME CacheTypeOK, OneAtWorkUnlessRobbed, [CacheNext]_cacheVars,
                      "robbed" \notin faults'
               PROVE  OneAtWork'
    BY DEF OneAtWorkUnlessRobbed
  <2>1. CASE UNCHANGED cacheVars
    BY <2>1 DEF cacheVars, temporaries, object, memory, history, OneAtWorkUnlessRobbed,
       OneAtWork, AllStaysWhole, InLock, Alone, SawNothing, Succeeded, Whole,
       ArtifactIsLinkedTwice, EvidenceIsLinkedTwice
  <2>2. CASE CacheNext
    <3>1. OneAtWork /\ index' = index
      BY <2>2, FaultsStay DEF OneAtWorkUnlessRobbed
    <3>2. CASE Tomorrow
      BY <3>1, <3>2 DEF Tomorrow, object, memory, OneAtWork, AllStaysWhole, InLock, Alone,
         SawNothing, Succeeded, Whole, ArtifactIsLinkedTwice, EvidenceIsLinkedTwice
    <3> QED
      BY <2>2, <3>1, <3>2, LockingLeavesOne, ReadingLeavesOne, PublishingLeavesOne DEF CacheNext, PullStep
  <2> QED
    BY <2>1, <2>2
<1> QED
  BY <1>1, <1>2, CacheTypesHold, PTL DEF CacheSpec

\* For any number of pulls, indexes, kills, failures and broken locks: what a pull reported as
\* published or found stays whole and keeps the evidence of its index, unless a pull was robbed
\* of its lock and a pull took its evidence back without a look (cacheRegistryArtifact).
THEOREM PulledObjectsStayWhole == CacheSpec => []PulledStaysWhole
<1>1. CacheInvUnlessBlind /\ OneAtWorkUnlessRobbed => PulledStaysWhole
  BY DEF CacheInvUnlessBlind, CacheInv, OneAtWorkUnlessRobbed, OneAtWork, AllStaysWhole,
     PulledStaysWhole
<1> QED
  BY <1>1, CacheInvHolds, OneAtWorkHolds, PTL

(***************************************************************************)
(* Without kills, robbed locks and failed clean-ups, and with one index,   *)
(* the lock does what it is for.  What a pull left behind then is an       *)
(* object or nothing, so that no pull ever meets a corrupt one.            *)
(***************************************************************************)
AtRest == temps = {} /\ (artifact = NoPull <=> evidence = NoPull)

\* What the pull that has the lock finds and leaves.
Stands(p) ==
  /\ pull[p] \in {"record", "clean", "see_artifact", "see_evidence", "verify", "compare", "unlock"}
       => AtRest
  /\ pull[p] = "see_evidence" => (seen[p] <=> artifact # NoPull)
  /\ pull[p] \in {"verify", "compare"} => artifact # NoPull
  /\ pull[p] \in {"write", "write_evidence", "link_evidence"} => evidence = NoPull
  /\ pull[p] \in {"write", "write_evidence", "link_evidence", "unlink_evidence", "link_artifact",
                  "catch_evidence"} => artifact = NoPull
  /\ pull[p] \notin {"conflict", "conflict_artifact"}
  /\ temps \subseteq {<<p, "artifact">>, <<p, "evidence">>}
  /\ pull[p] \in {"write", "final", "catch_state", "catch_evidence"} => temps = {}
  /\ pull[p] \in {"link_artifact", "unlink_artifact"} => <<p, "evidence">> \notin temps
  /\ pull[p] = "catch_temporary_evidence" => <<p, "artifact">> \notin temps
  /\ pull[p] \in Catching => /\ artifact # NoPull => evidence # NoPull
                             /\ evidence # NoPull => linked[p]

Quiet ==
  /\ \A p \in Pull : pull[p] # "killed" /\ (result[p] = "corrupt" => p \in unread)
  /\ \A p \in Pull : InLock(p) => pullLock = p /\ Stands(p)
  /\ (\A p \in Pull : ~InLock(p)) => AtRest

OneIndex == \A p, q \in Pull : index[q] = index[p]

\* Only a pull that has the lock changes what Stands speaks of.
LEMMA HolderGoesOn ==
  ASSUME CacheTypeOK, Quiet, NEW p \in Pull, InLock(p), NEW s, Enters(p, s),
         s \notin {"new", "break", "done", "killed"}, pullLock' = pullLock, Stands(p)',
         unread \subseteq unread',
         \/ result' = result
         \/ \E r : (r = "corrupt" => p \in unread') /\ result' = [result EXCEPT ![p] = r]
  PROVE  Quiet'
<1>1. \A q \in Pull : q # p => ~InLock(q)
  BY DEF Quiet
<1>2. pull'[p] = s /\ \A q \in Pull : q # p => pull'[q] = pull[q]
  BY DEF Enters, CacheTypeOK
<1>3. \A q \in Pull : q # p => ~InLock(q)'
  BY <1>1, <1>2 DEF InLock
<1>4. \A q \in Pull : pull'[q] # "killed" /\ (result'[q] = "corrupt" => q \in unread')
  BY <1>2 DEF Quiet, CacheTypeOK
<1>5. InLock(p)'
  BY <1>2 DEF InLock
<1>6. pullLock' = p
  BY DEF Quiet
<1> QED
  BY <1>3, <1>4, <1>5, <1>6 DEF Quiet

\* Reading what is there under the lock finds it at rest.
LEMMA ReadingIsQuiet ==
  ASSUME CacheInv, Quiet, OneIndex, NEW p \in Pull,
         \/ CleanUp(p) \/ CheckArtifact(p) \/ CheckEvidence(p) \/ VerifyExisting(p)
         \/ CompareEvidence(p) \/ CleanUpFails(p) \/ LookFails(p) \/ ReadFails(p)
  PROVE  Quiet'
<1>0. CacheTypeOK /\ Orderly(p) /\ old \subseteq temps
  BY DEF CacheInv, Order
<1> USE DEF PullEnds, Enters, temporaries, object, memory, history
<1>1. InLock(p) /\ Stands(p)
  BY DEF Quiet, InLock, CleanUp, CheckArtifact, CheckEvidence, VerifyExisting, CompareEvidence,
     CleanUpFails, LookFails, ReadFails
<1>2. pullLock' = pullLock /\ UNCHANGED object /\ unread \subseteq unread'
  BY DEF CleanUp, CheckArtifact, CheckEvidence, VerifyExisting, CompareEvidence,
     CleanUpFails, LookFails, ReadFails
<1>3. CASE CleanUp(p)
  <2>1. pull' = [pull EXCEPT ![p] = "see_artifact"] /\ pull'[p] = "see_artifact" /\ result' = result
    BY <1>0, <1>3 DEF CleanUp, CacheTypeOK
  <2>2. Stands(p)'
    BY <1>0, <1>1, <1>2, <1>3, <2>1 DEF CleanUp, Stands, AtRest, Catching
  <2> QED
    BY <1>0, <1>1, <1>2, <2>1, <2>2, HolderGoesOn
<1>4. CASE CheckArtifact(p)
  <2>1. /\ pull' = [pull EXCEPT ![p] = "see_evidence"] /\ pull'[p] = "see_evidence" /\ result' = result
        /\ seen'[p] = (artifact # NoPull) /\ temps' = temps
    BY <1>0, <1>1, <1>4 DEF CheckArtifact, CacheTypeOK, ArtifactIsLinkedTwice, Stands, AtRest
  <2>2. Stands(p)'
    BY <1>1, <1>2, <1>4, <2>1 DEF CheckArtifact, Stands, AtRest, Catching
  <2> QED
    BY <1>0, <1>1, <1>2, <2>1, <2>2, HolderGoesOn
<1>5. CASE CheckEvidence(p)
  <2>1. PICK s \in {"verify", "write"} :
          /\ pull' = [pull EXCEPT ![p] = s] /\ pull'[p] = s /\ result' = result
          /\ temps' = temps /\ s = IF seen[p] THEN "verify" ELSE "write"
    BY <1>0, <1>1, <1>5 DEF CheckEvidence, CacheTypeOK, EvidenceIsLinkedTwice, Stands, AtRest
  <2>2. Stands(p)'
    BY <1>1, <1>2, <1>5, <2>1 DEF CheckEvidence, Stands, AtRest, Catching
  <2> QED
    BY <1>0, <1>1, <1>2, <2>1, <2>2, HolderGoesOn
<1>6. CASE VerifyExisting(p)
  <2>1. /\ pull' = [pull EXCEPT ![p] = "compare"] /\ pull'[p] = "compare" /\ result' = result
        /\ temps' = temps
    BY <1>0, <1>1, <1>6 DEF VerifyExisting, CacheTypeOK, EvidenceIsLinkedTwice,
       ArtifactIsLinkedTwice, Stands, AtRest
  <2>2. Stands(p)'
    BY <1>1, <1>2, <1>6, <2>1 DEF VerifyExisting, Stands, AtRest, Catching
  <2> QED
    BY <1>0, <1>1, <1>2, <2>1, <2>2, HolderGoesOn
<1>7. CASE CompareEvidence(p)
  <2>1. evidence \in Pull /\ index[evidence] = index[p]
    BY <1>0, <1>1, <1>7 DEF CompareEvidence, CacheTypeOK, Stands, AtRest, OneIndex
  <2>2. /\ pull' = [pull EXCEPT ![p] = "unlock"] /\ pull'[p] = "unlock"
        /\ result' = [result EXCEPT ![p] = "hit"] /\ temps' = temps
    BY CacheAssumption, <1>0, <1>7, <2>1 DEF CompareEvidence, CacheTypeOK
  <2>3. Stands(p)'
    BY <1>1, <1>2, <1>7, <2>2 DEF CompareEvidence, Stands, AtRest, Catching
  <2> QED
    BY <1>0, <1>1, <1>2, <2>2, <2>3, HolderGoesOn
<1>8. CASE CleanUpFails(p) \/ LookFails(p)
  <2>1. /\ pull' = [pull EXCEPT ![p] = "unlock"] /\ pull'[p] = "unlock"
        /\ result' = [result EXCEPT ![p] = "failed"] /\ temps' \subseteq temps
    BY <1>0, <1>8 DEF CleanUpFails, LookFails, CacheTypeOK
  <2>2. Stands(p)'
    BY <1>1, <1>2, <1>8, <2>1 DEF CleanUpFails, LookFails, Stands, AtRest, Catching
  <2> QED
    BY <1>0, <1>1, <1>2, <2>1, <2>2, HolderGoesOn
<1>9. CASE ReadFails(p)
  <2>1. /\ pull' = [pull EXCEPT ![p] = "unlock"] /\ pull'[p] = "unlock" /\ p \in unread'
        /\ result' = [result EXCEPT ![p] = "corrupt"] /\ temps' = temps
    BY <1>0, <1>9 DEF ReadFails, CacheTypeOK
  <2>2. Stands(p)'
    BY <1>1, <1>2, <1>9, <2>1 DEF ReadFails, Stands, AtRest, Catching
  <2> QED
    BY <1>0, <1>1, <1>2, <2>1, <2>2, HolderGoesOn
<1> QED
  BY <1>3, <1>4, <1>5, <1>6, <1>7, <1>8, <1>9

\* Publication finds nothing in its way.
LEMMA PublishingIsQuiet ==
  ASSUME CacheInv, Quiet, NEW p \in Pull, Publish(p)
  PROVE  Quiet'
<1>0. CacheTypeOK /\ EvidenceHasOwner(p) /\ ArtifactHasOwner(p)
  BY DEF CacheInv, Order, Orderly
<1> USE DEF PullEnds, Enters, temporaries, object, memory, history
<1>1. InLock(p) /\ Stands(p)
  BY DEF Quiet, InLock, Publish, WriteTemporaryArtifact, WriteTemporaryEvidence, LinkEvidence,
     UnlinkTemporaryEvidence, LinkArtifact, TakeEvidenceBack, UnlinkTemporaryArtifact, FinalCheck,
     PublicationFails
<1>2. pullLock' = pullLock /\ unread' = unread
  BY DEF Publish, WriteTemporaryArtifact, WriteTemporaryEvidence, LinkEvidence,
     UnlinkTemporaryEvidence, LinkArtifact, TakeEvidenceBack, UnlinkTemporaryArtifact, FinalCheck,
     PublicationFails
<1>3. CASE WriteTemporaryArtifact(p)
  <2>1. pull' = [pull EXCEPT ![p] = "write_evidence"] /\ pull'[p] = "write_evidence" /\ result' = result
    BY <1>0, <1>3 DEF WriteTemporaryArtifact, CacheTypeOK
  <2>2. Stands(p)'
    BY <1>1, <1>3, <2>1 DEF WriteTemporaryArtifact, Stands, AtRest, Catching
  <2> QED
    BY <1>0, <1>1, <1>2, <2>1, <2>2, HolderGoesOn
<1>4. CASE WriteTemporaryEvidence(p)
  <2>1. pull' = [pull EXCEPT ![p] = "link_evidence"] /\ pull'[p] = "link_evidence" /\ result' = result
    BY <1>0, <1>4 DEF WriteTemporaryEvidence, CacheTypeOK
  <2>2. Stands(p)'
    BY <1>1, <1>4, <2>1 DEF WriteTemporaryEvidence, Stands, AtRest, Catching
  <2> QED
    BY <1>0, <1>1, <1>2, <2>1, <2>2, HolderGoesOn
<1>5. CASE LinkEvidence(p)
  <2>1. /\ pull' = [pull EXCEPT ![p] = "unlink_evidence"] /\ pull'[p] = "unlink_evidence"
        /\ result' = result
    BY <1>0, <1>1, <1>5 DEF LinkEvidence, CacheTypeOK, Stands
  <2>2. Stands(p)'
    BY <1>1, <1>5, <2>1 DEF LinkEvidence, Stands, AtRest, Catching
  <2> QED
    BY <1>0, <1>1, <1>2, <2>1, <2>2, HolderGoesOn
<1>6. CASE UnlinkTemporaryEvidence(p)
  <2>1. pull' = [pull EXCEPT ![p] = "link_artifact"] /\ pull'[p] = "link_artifact" /\ result' = result
    BY <1>0, <1>6 DEF UnlinkTemporaryEvidence, CacheTypeOK
  <2>2. Stands(p)'
    BY <1>1, <1>6, <2>1 DEF UnlinkTemporaryEvidence, Stands, AtRest, Catching
  <2> QED
    BY <1>0, <1>1, <1>2, <2>1, <2>2, HolderGoesOn
<1>7. CASE LinkArtifact(p)
  <2>1. /\ pull' = [pull EXCEPT ![p] = "unlink_artifact"] /\ pull'[p] = "unlink_artifact"
        /\ result' = result
    BY <1>0, <1>1, <1>7 DEF LinkArtifact, CacheTypeOK, Stands
  <2>2. Stands(p)'
    BY <1>1, <1>7, <2>1 DEF LinkArtifact, Stands, AtRest, Catching
  <2> QED
    BY <1>0, <1>1, <1>2, <2>1, <2>2, HolderGoesOn
<1>8. CASE UnlinkTemporaryArtifact(p)
  <2>1. /\ pull[p] = "unlink_artifact"
        /\ pull' = [pull EXCEPT ![p] = "final"] /\ pull'[p] = "final" /\ result' = result
    BY <1>0, <1>1, <1>8 DEF UnlinkTemporaryArtifact, CacheTypeOK, Stands
  <2>2. Stands(p)'
    BY <1>1, <1>8, <2>1 DEF UnlinkTemporaryArtifact, Stands, AtRest, Catching
  <2> QED
    BY <1>0, <1>1, <1>2, <2>1, <2>2, HolderGoesOn
<1>9. CASE FinalCheck(p)
  <2>1. artifact = p /\ evidence = p /\ temps = {}
    BY <1>0, <1>1, <1>9 DEF FinalCheck, Stands, EvidenceHasOwner, ArtifactHasOwner, Linking
  <2>2. /\ pull' = [pull EXCEPT ![p] = "unlock"] /\ pull'[p] = "unlock"
        /\ result' = [result EXCEPT ![p] = "published"] /\ UNCHANGED <<temps, artifact, evidence>>
    BY CacheAssumption, <1>0, <1>9, <2>1 DEF FinalCheck, CacheTypeOK, ArtifactIsLinkedTwice,
       EvidenceIsLinkedTwice
  <2>3. Stands(p)'
    BY CacheAssumption, <2>1, <2>2 DEF Stands, AtRest, Catching
  <2> QED
    BY <1>0, <1>1, <1>2, <2>2, <2>3, HolderGoesOn
<1>10. CASE PublicationFails(p)
  <2>1. /\ pull' = [pull EXCEPT ![p] = "catch_artifact"] /\ pull'[p] = "catch_artifact"
        /\ result' = result /\ UNCHANGED <<temps, artifact, evidence, linked>>
    BY <1>0, <1>10 DEF PublicationFails, CacheTypeOK
  <2>2. artifact # NoPull => evidence # NoPull
    BY CacheAssumption, <1>0, <1>1, <1>10 DEF PublicationFails, Stands, EvidenceHasOwner,
       ArtifactHasOwner, Linking
  <2>3. evidence # NoPull => linked[p]
    BY <1>0, <1>1, <1>10 DEF PublicationFails, Stands, EvidenceHasOwner, Linking
  <2>4. Stands(p)'
    BY <1>1, <2>1, <2>2, <2>3 DEF Stands, Catching
  <2> QED
    BY <1>0, <1>1, <1>2, <2>1, <2>4, HolderGoesOn
<1>11. CASE TakeEvidenceBack(p)
  BY <1>1, <1>11 DEF TakeEvidenceBack, Stands
<1> QED
  BY <1>3, <1>4, <1>5, <1>6, <1>7, <1>8, <1>9, <1>10, <1>11 DEF Publish

\* A pull that throws and cleans up leaves an object or nothing.
LEMMA CatchingIsQuiet ==
  ASSUME CacheInv, Quiet, faults' = {}, NEW p \in Pull,
         \/ CatchTemporaries(p) \/ CatchState(p) \/ CatchStateFails(p) \/ CatchEvidence(p)
  PROVE  Quiet'
<1>0. CacheTypeOK
  BY DEF CacheInv, Order
<1> USE DEF PullEnds, Enters, temporaries, object, memory, history, Suffers
<1>1. InLock(p) /\ Stands(p)
  BY DEF Quiet, InLock, CatchTemporaries, CatchTemporary, CatchState, CatchStateFails,
     CatchEvidence
<1>2. pullLock' = pullLock /\ unread' = unread
  BY DEF CatchTemporaries, CatchTemporary, CatchState, CatchStateFails,
     CatchEvidence
<1>3. CASE CatchTemporary(p, "artifact", "catch_artifact", "catch_temporary_evidence")
  <2>1. /\ pull' = [pull EXCEPT ![p] = "catch_temporary_evidence"]
        /\ pull'[p] = "catch_temporary_evidence" /\ result' = result
    BY <1>0, <1>3 DEF CatchTemporary, CacheTypeOK
  <2>2. temps' = temps \ {<<p, "artifact">>} /\ UNCHANGED <<artifact, evidence, linked>>
    BY <1>3 DEF CatchTemporary
  <2>3. Stands(p)'
    BY <1>1, <1>3, <2>1, <2>2 DEF CatchTemporary, Stands, Catching
  <2> QED
    BY <1>0, <1>1, <1>2, <2>1, <2>3, HolderGoesOn
<1>4. CASE CatchTemporary(p, "evidence", "catch_temporary_evidence", "catch_state")
  <2>1. pull' = [pull EXCEPT ![p] = "catch_state"] /\ pull'[p] = "catch_state" /\ result' = result
    BY <1>0, <1>4 DEF CatchTemporary, CacheTypeOK
  <2>2. temps' = temps \ {<<p, "evidence">>} /\ UNCHANGED <<artifact, evidence, linked>>
    BY <1>4 DEF CatchTemporary
  <2>3. Stands(p)'
    BY <1>1, <1>4, <2>1, <2>2 DEF CatchTemporary, Stands, Catching
  <2> QED
    BY <1>0, <1>1, <1>2, <2>1, <2>3, HolderGoesOn
<1>5. CASE CatchState(p) /\ linked[p] /\ artifact = NoPull
  <2>1. /\ pull' = [pull EXCEPT ![p] = "catch_evidence"] /\ pull'[p] = "catch_evidence"
        /\ result' = result /\ UNCHANGED <<temps, artifact, evidence, linked>>
    BY <1>0, <1>5 DEF CatchState, CacheTypeOK
  <2>2. Stands(p)'
    BY <1>1, <1>5, <2>1 DEF CatchState, Stands, Catching
  <2> QED
    BY <1>0, <1>1, <1>2, <2>1, <2>2, HolderGoesOn
<1>6. CASE CatchState(p) /\ ~(linked[p] /\ artifact = NoPull)
  <2>1. temps = {} /\ AtRest
    BY <1>1, <1>6 DEF CatchState, Stands, Catching, AtRest
  <2>2. /\ pull' = [pull EXCEPT ![p] = "unlock"] /\ pull'[p] = "unlock"
        /\ result' = [result EXCEPT ![p] = "failed"] /\ UNCHANGED <<temps, artifact, evidence>>
    BY <1>0, <1>6, <2>1 DEF CatchState, CacheTypeOK, ArtifactIsLinkedTwice
  <2>3. Stands(p)'
    BY <1>1, <2>1, <2>2 DEF Stands, AtRest, Catching
  <2> QED
    BY <1>0, <1>1, <1>2, <2>2, <2>3, HolderGoesOn
<1>7. CASE CatchEvidence(p)
  <2>1. /\ pull' = [pull EXCEPT ![p] = "unlock"] /\ pull'[p] = "unlock"
        /\ result' = [result EXCEPT ![p] = "failed"] /\ evidence' = NoPull
        /\ UNCHANGED <<temps, artifact>>
    BY <1>0, <1>7 DEF CatchEvidence, CacheTypeOK
  <2>2. Stands(p)'
    BY <1>1, <1>7, <2>1 DEF CatchEvidence, Stands, AtRest, Catching
  <2> QED
    BY <1>0, <1>1, <1>2, <2>1, <2>2, HolderGoesOn
<1>8. ~CatchStateFails(p)
  BY DEF CatchStateFails
<1> QED
  BY <1>3, <1>4, <1>5, <1>6, <1>7, <1>8 DEF CatchTemporaries

\* The lock comes and goes with nothing half done.
LEMMA LockingIsQuiet ==
  ASSUME CacheInv, Quiet, faults' = {}, NEW p \in Pull,
         \/ OpenPullLock(p) \/ RecordLock(p) \/ SeeStaleLock(p) \/ BreakPullLock(p)
         \/ PullGivesUp(p) \/ Unlock(p)
  PROVE  Quiet'
<1>0. CacheTypeOK /\ EvidenceHasOwner(p)
  BY DEF CacheInv, Order, Orderly
<1> USE DEF Enters, temporaries, object, memory, history, Suffers
<1>1. UNCHANGED <<temps, artifact, evidence, linked, seen, unread>>
  BY DEF OpenPullLock, RecordLock, SeeStaleLock, BreakPullLock, PullGivesUp, Unlock
<1>2. \A q \in Pull : q # p => pull'[q] = pull[q]
  BY <1>0 DEF OpenPullLock, RecordLock, SeeStaleLock, BreakPullLock, PullGivesUp, Unlock,
     CacheTypeOK
<1>3. \A q \in Pull : pull'[q] # "killed" /\ (result'[q] = "corrupt" => q \in unread')
  BY <1>0 DEF OpenPullLock, RecordLock, SeeStaleLock, BreakPullLock, PullGivesUp, Unlock,
     CacheTypeOK, Quiet
<1>4. CASE OpenPullLock(p)
  <2>1. \A q \in Pull : ~InLock(q)
    BY CacheAssumption, <1>4 DEF OpenPullLock, Quiet
  <2>2. pull'[p] = "record" /\ pullLock' = p
    BY <1>0, <1>4 DEF OpenPullLock, CacheTypeOK
  <2>3. AtRest
    BY <2>1 DEF Quiet
  <2>4. Stands(p)'
    BY <1>1, <2>2, <2>3 DEF Stands, AtRest, Catching
  <2>5. \A q \in Pull : q # p => ~InLock(q)'
    BY <1>2, <2>1 DEF InLock
  <2>6. InLock(p)'
    BY <2>2 DEF InLock
  <2> QED
    BY <1>3, <2>2, <2>4, <2>5, <2>6 DEF Quiet
<1>5. CASE RecordLock(p) /\ pull'[p] = "clean"
  <2>1. InLock(p) /\ Stands(p) /\ pull' = [pull EXCEPT ![p] = "clean"] /\ result' = result
    BY <1>0, <1>5 DEF RecordLock, CacheTypeOK, Quiet, InLock
  <2>2. Stands(p)'
    BY <1>1, <1>5, <2>1 DEF RecordLock, Stands, AtRest, Catching
  <2> QED
    BY <1>0, <1>5, <2>1, <2>2, HolderGoesOn DEF RecordLock
<1>6. CASE (RecordLock(p) /\ pull'[p] # "clean") \/ Unlock(p)
  <2>1. InLock(p) /\ AtRest /\ pull'[p] = "done"
    BY <1>0, <1>6 DEF RecordLock, Unlock, CacheTypeOK, Quiet, InLock, Stands
  <2>2. \A q \in Pull : ~InLock(q)'
    BY <1>2, <2>1 DEF InLock, Quiet
  <2> QED
    BY <1>1, <1>3, <2>1, <2>2 DEF Quiet, AtRest
<1>7. CASE SeeStaleLock(p) \/ PullGivesUp(p)
  <2>1. ~InLock(p) /\ ~InLock(p)' /\ pullLock' = pullLock
    BY <1>0, <1>7 DEF SeeStaleLock, PullGivesUp, CacheTypeOK, InLock
  <2>2. \A q \in Pull : q # p => (InLock(q)' <=> InLock(q)) /\ (Stands(q)' <=> Stands(q))
    BY <1>1, <1>2 DEF InLock, Stands, AtRest
  <2>3. AtRest' <=> AtRest
    BY <1>1 DEF AtRest
  <2> QED
    BY <1>3, <2>1, <2>2, <2>3 DEF Quiet
<1>8. CASE BreakPullLock(p)
  <2>1. \A q \in Pull : ~InLock(q)
    BY CacheAssumption, <1>8 DEF BreakPullLock, PullGone, Quiet, InLock
  <2>2. \A q \in Pull : ~InLock(q)'
    BY <1>0, <1>2, <1>8, <2>1 DEF BreakPullLock, InLock, CacheTypeOK
  <2> QED
    BY <1>1, <1>3, <2>1, <2>2 DEF Quiet, AtRest
<1> QED
  BY <1>4, <1>5, <1>6, <1>7, <1>8

QuietUnlessFault == faults = {} /\ OneIndex => Quiet

\* It holds in every reachable state.
LEMMA QuietHolds == CacheSpec => []QuietUnlessFault
<1>1. CacheInit => QuietUnlessFault
  BY CacheAssumption DEF CacheInit, QuietUnlessFault, Quiet, InLock, AtRest
<1>2. CacheInvUnlessBlind /\ QuietUnlessFault /\ [CacheNext]_cacheVars => QuietUnlessFault'
  <2> SUFFICES ASSUME CacheInvUnlessBlind, QuietUnlessFault, [CacheNext]_cacheVars,
                      faults' = {}, OneIndex'
               PROVE  Quiet'
    BY DEF QuietUnlessFault
  <2>1. CASE UNCHANGED cacheVars
    BY <2>1 DEF cacheVars, temporaries, object, memory, history, QuietUnlessFault, OneIndex,
       Quiet, InLock, AtRest, Stands
  <2>2. CASE CacheNext
    <3>1. faults = {} /\ OneIndex /\ Quiet /\ CacheInv
      BY <2>2, FaultsStay DEF OneIndex, QuietUnlessFault, CacheInvUnlessBlind
    <3>2. CASE Tomorrow
      <4>1. \A p \in Pull : ~InLock(p)
        BY <3>2 DEF Tomorrow, PullGone, InLock
      <4>2. temps = {} /\ old \subseteq temps
        BY <3>1, <4>1 DEF Quiet, AtRest, CacheInv, Order
      <4> QED
        BY <3>2, <4>2 DEF Tomorrow
    <3>3. ASSUME NEW p \in Pull, KillPull(p) PROVE FALSE
      BY <3>3 DEF KillPull, Suffers
    <3> QED
      BY <2>2, <3>1, <3>2, <3>3, ReadingIsQuiet, PublishingIsQuiet, CatchingIsQuiet, LockingIsQuiet
         DEF CacheNext, PullStep
  <2> QED
    BY <2>1, <2>2
<1> QED
  BY <1>1, <1>2, CacheInvHolds, PTL DEF CacheSpec

\* For any number of pulls, failing file operations and locks broken by age: a pull that reports
\* the object as corrupt could not read it itself, or a pull was killed before, robbed of its
\* lock, unable to clean up or unable to look, or there are two indexes (cacheRegistryArtifact).
THEOREM CorruptionNeedsAFault == CacheSpec => []CorruptOnlyAfterAFault
<1>1. QuietUnlessFault => CorruptOnlyAfterAFault
  <2> SUFFICES ASSUME QuietUnlessFault, NEW p \in Pull, result[p] = "corrupt", faults = {},
                      \A q \in Pull : index[q] = index[p]
               PROVE  p \in unread
    BY DEF CorruptOnlyAfterAFault
  <2>1. OneIndex
    BY DEF OneIndex
  <2> QED
    BY <2>1 DEF QuietUnlessFault, Quiet
<1> QED
  BY <1>1, QuietHolds, PTL
=============================================================================
