---------------------------- MODULE RegistryCache ----------------------------
(***************************************************************************)
(* One object of the registry cache: the pulls of one artifact digest, at  *)
(* the granularity of file operations (cacheRegistryArtifact of            *)
(* src/registry/artifact-cache.ts under the lock of artifact-lock.ts).     *)
(*                                                                         *)
(* An object is two files, the artifact and its evidence, each published   *)
(* by a hard link from a temporary file.  Until the temporary name of the  *)
(* artifact is gone the artifact has two links, which a reader takes for a *)
(* corruption.  The lock is a file that is removed by its path: by its     *)
(* owner when it ends, and by anybody once it is five minutes old.         *)
(***************************************************************************)
EXTENDS FiniteSets

CONSTANTS
  Pull,       \* pulls of the artifact, each in a process of its own
  NoPull,     \* not a pull
  Index,      \* published registry indexes that list the artifact, each as one source names it
  PullKills,  \* whether processes may be killed
  Faults,     \* whether file operations may fail
  SlowOwners  \* whether a pull may take longer than a lock lives

ASSUME CacheAssumption ==
  /\ NoPull \notin Pull
  /\ Index # {}
  /\ {PullKills, Faults, SlowOwners} \subseteq BOOLEAN

VARIABLES
  pullLock,  \* whose lock file is there, or NoPull
  temps,     \* <<pull, kind>> of the temporary files
  old,       \* those of them that are older than a day
  artifact,  \* who published artifact.dokion-package, or NoPull
  evidence,  \* who published evidence.json, or NoPull
  pull,      \* how far a pull is
  index,     \* the index it read
  seen,      \* it found the artifact
  linked,    \* evidencePublished
  result,    \* what it returned or threw
  unread,    \* history: pulls that could not read the object they verified
  faults     \* history: what went wrong with the other pulls, of Misfortunes

object  == <<artifact, evidence>>
temporaries == <<temps, old>>
memory  == <<index, seen, linked>>
history == <<unread, faults>>
cacheVars == <<pullLock, temporaries, object, pull, memory, result, history>>

\* A pull was killed; its lock was broken while it was at work; it could not remove what it left;
\* it could not look whether its artifact was published, and took the evidence back.
Misfortunes == {"killed", "robbed", "left", "blind"}

Suffers(what, when) == faults' = IF when THEN faults \cup {what} ELSE faults

Enters(p, step) == pull' = [pull EXCEPT ![p] = step]

\* The action under the lock returned or threw.
PullEnds(p, outcome) == Enters(p, "unlock") /\ result' = [result EXCEPT ![p] = outcome]

PullGone(p) == pull[p] \in {"done", "killed"}

\* pathState throws REGISTRY_CACHE_CORRUPT for a file with two names.
ArtifactIsLinkedTwice == artifact # NoPull /\ <<artifact, "artifact">> \in temps
EvidenceIsLinkedTwice == evidence # NoPull /\ <<evidence, "evidence">> \in temps

CacheInit ==
  /\ pullLock = NoPull /\ temps = {} /\ old = {}
  /\ artifact = NoPull /\ evidence = NoPull
  /\ pull = [p \in Pull |-> "new"]
  /\ index \in [Pull -> Index]
  /\ seen = [p \in Pull |-> FALSE]
  /\ linked = [p \in Pull |-> FALSE]
  /\ result = [p \in Pull |-> "none"]
  /\ unread = {} /\ faults = {}

(***************************************************************************)
(* withRegistryArtifactLock.                                               *)
(***************************************************************************)
OpenPullLock(p) ==
  /\ pull[p] = "new" /\ pullLock = NoPull
  /\ pullLock' = p
  /\ Enters(p, "record")
  /\ UNCHANGED <<temporaries, object, memory, result, history>>

\* A record that cannot be written ends the pull and leaves the lock file.
RecordLock(p) ==
  /\ pull[p] = "record"
  /\ \/ Enters(p, "clean") /\ UNCHANGED result
     \/ Faults /\ Enters(p, "done") /\ result' = [result EXCEPT ![p] = "locked"]
  /\ UNCHANGED <<pullLock, temporaries, object, memory, history>>

\* lstat: the age is all that is looked at.
SeeStaleLock(p) ==
  /\ pull[p] = "new" /\ pullLock # NoPull
  /\ PullGone(pullLock) \/ SlowOwners
  /\ Enters(p, "break")
  /\ UNCHANGED <<pullLock, temporaries, object, memory, result, history>>

BreakPullLock(p) ==
  /\ pull[p] = "break"
  /\ pullLock' = NoPull
  /\ Suffers("robbed", pullLock # NoPull /\ ~PullGone(pullLock))
  /\ Enters(p, "new")
  /\ UNCHANGED <<temporaries, object, memory, result, unread>>

\* Five hundred attempts, or the lock cannot be opened, looked at or broken.
PullGivesUp(p) ==
  /\ \/ pull[p] = "new" /\ pullLock # NoPull
     \/ Faults /\ pull[p] \in {"new", "break"}
  /\ Enters(p, "done") /\ result' = [result EXCEPT ![p] = "locked"]
  /\ UNCHANGED <<pullLock, temporaries, object, memory, history>>

\* finally: unlink by path, and an error of it is ignored.
Unlock(p) ==
  /\ pull[p] = "unlock"
  /\ pullLock' \in {NoPull} \cup (IF Faults THEN {pullLock} ELSE {})
  /\ Enters(p, "done")
  /\ UNCHANGED <<temporaries, object, memory, result, history>>

(***************************************************************************)
(* What is there already.                                                  *)
(***************************************************************************)
CleanUp(p) ==
  /\ pull[p] = "clean"
  /\ temps' = temps \ old /\ old' = {}
  /\ Enters(p, "see_artifact")
  /\ UNCHANGED <<pullLock, object, memory, result, history>>

\* A file cannot be looked at or removed, or a directory made: the pull ends with that error.
CleanUpFails(p) ==
  /\ Faults /\ pull[p] = "clean"
  /\ \E gone \in SUBSET old : temps' = temps \ gone /\ old' = old \ gone
  /\ PullEnds(p, "failed")
  /\ UNCHANGED <<pullLock, object, memory, history>>

CheckArtifact(p) ==
  /\ pull[p] = "see_artifact"
  /\ seen' = [seen EXCEPT ![p] = artifact # NoPull]
  /\ IF ArtifactIsLinkedTwice THEN PullEnds(p, "corrupt")
                              ELSE Enters(p, "see_evidence") /\ UNCHANGED result
  /\ UNCHANGED <<pullLock, temporaries, object, index, linked, history>>

CheckEvidence(p) ==
  /\ pull[p] = "see_evidence"
  /\ IF EvidenceIsLinkedTwice \/ seen[p] # (evidence # NoPull)
     THEN PullEnds(p, "corrupt")
     ELSE Enters(p, IF seen[p] THEN "verify" ELSE "write") /\ UNCHANGED result
  /\ UNCHANGED <<pullLock, temporaries, object, memory, history>>

\* pathState throws any other error of its lstat as it is.
LookFails(p) ==
  /\ Faults /\ pull[p] \in {"see_artifact", "see_evidence"}
  /\ PullEnds(p, "failed")
  /\ UNCHANGED <<pullLock, temporaries, object, memory, history>>

\* verifyExisting: both are files with one link, and the package verifies.
VerifyExisting(p) ==
  /\ pull[p] = "verify"
  /\ IF \/ NoPull \in {artifact, evidence}
        \/ ArtifactIsLinkedTwice \/ EvidenceIsLinkedTwice
     THEN PullEnds(p, "corrupt")
     ELSE Enters(p, "compare") /\ UNCHANGED result
  /\ UNCHANGED <<pullLock, temporaries, object, memory, history>>

\* readEvidence: every byte of it, the digest and the size of the index included.
CompareEvidence(p) ==
  /\ pull[p] = "compare"
  /\ IF evidence # NoPull /\ index[evidence] = index[p] THEN PullEnds(p, "hit") ELSE PullEnds(p, "corrupt")
  /\ UNCHANGED <<pullLock, temporaries, object, memory, history>>

\* The catch clause of verifyExisting: an object that cannot be read is reported as corrupt too.
ReadFails(p) ==
  /\ Faults /\ pull[p] \in {"verify", "compare"}
  /\ PullEnds(p, "corrupt")
  /\ unread' = unread \cup {p}
  /\ UNCHANGED <<pullLock, temporaries, object, memory, faults>>

(***************************************************************************)
(* Publication.                                                            *)
(***************************************************************************)
WriteTemporaryArtifact(p) ==
  /\ pull[p] = "write"
  /\ temps' = temps \cup {<<p, "artifact">>}
  /\ Enters(p, "write_evidence")
  /\ UNCHANGED <<pullLock, old, object, memory, result, history>>

WriteTemporaryEvidence(p) ==
  /\ pull[p] = "write_evidence"
  /\ temps' = temps \cup {<<p, "evidence">>}
  /\ Enters(p, "link_evidence")
  /\ UNCHANGED <<pullLock, old, object, memory, result, history>>

\* Bug: the evidence is renamed into place and replaces what is there.
ReplaceEvidence(p) ==
  /\ pull[p] = "link_evidence"
  /\ evidence' = p
  /\ linked' = [linked EXCEPT ![p] = TRUE]
  /\ Enters(p, "unlink_evidence")
  /\ UNCHANGED <<pullLock, temporaries, artifact, index, seen, result, history>>

LinkEvidence(p) ==
  /\ pull[p] = "link_evidence"
  /\ IF evidence = NoPull
     THEN /\ evidence' = p
          /\ linked' = [linked EXCEPT ![p] = TRUE]
          /\ Enters(p, "unlink_evidence")
     ELSE Enters(p, "catch_artifact") /\ UNCHANGED <<evidence, linked>>
  /\ UNCHANGED <<pullLock, temporaries, artifact, index, seen, result, history>>

UnlinkTemporaryEvidence(p) ==
  /\ pull[p] = "unlink_evidence"
  /\ temps' = temps \ {<<p, "evidence">>} /\ old' = old \ {<<p, "evidence">>}
  /\ Enters(p, "link_artifact")
  /\ UNCHANGED <<pullLock, object, memory, result, history>>

LinkArtifact(p) ==
  /\ pull[p] = "link_artifact"
  /\ IF artifact = NoPull THEN artifact' = p /\ Enters(p, "unlink_artifact")
                          ELSE UNCHANGED artifact /\ Enters(p, "conflict")
  /\ UNCHANGED <<pullLock, temporaries, evidence, memory, result, history>>

\* Somebody else's artifact is there: take the evidence back and verify theirs.
TakeEvidenceBack(p) ==
  /\ pull[p] = "conflict"
  /\ evidence' = NoPull
  /\ linked' = [linked EXCEPT ![p] = FALSE]
  /\ Enters(p, "conflict_artifact")
  /\ UNCHANGED <<pullLock, temporaries, artifact, index, seen, result, history>>

UnlinkTemporaryArtifact(p) ==
  /\ pull[p] \in {"unlink_artifact", "conflict_artifact"}
  /\ temps' = temps \ {<<p, "artifact">>} /\ old' = old \ {<<p, "artifact">>}
  /\ Enters(p, IF pull[p] = "unlink_artifact" THEN "final" ELSE "verify")
  /\ UNCHANGED <<pullLock, object, memory, result, history>>

\* "failed" stands for whatever error the publication met; no pull without faults around it finds
\* its own files with two links here, so that none of those errors is REGISTRY_CACHE_CORRUPT.
FinalCheck(p) ==
  /\ pull[p] = "final"
  /\ IF \/ NoPull \in {artifact, evidence}
        \/ ArtifactIsLinkedTwice \/ EvidenceIsLinkedTwice
     THEN Enters(p, "catch_artifact") /\ UNCHANGED result
     ELSE PullEnds(p, "published")
  /\ UNCHANGED <<pullLock, temporaries, object, memory, history>>

\* A write, a link, an unlink or a sync fails, or the package does not verify.
PublicationFails(p) ==
  /\ Faults
  /\ pull[p] \in {"write", "write_evidence", "link_evidence", "unlink_evidence", "link_artifact",
                "conflict", "conflict_artifact", "unlink_artifact", "final"}
  /\ Enters(p, "catch_artifact")
  /\ UNCHANGED <<pullLock, temporaries, object, memory, result, history>>

(***************************************************************************)
(* The catch clause; errors of its own are ignored.                        *)
(***************************************************************************)
CatchTemporary(p, kind, here, then) ==
  /\ pull[p] = here
  /\ \/ temps' = temps \ {<<p, kind>>} /\ old' = old \ {<<p, kind>>} /\ UNCHANGED faults
     \/ Faults /\ <<p, kind>> \in temps /\ Suffers("left", TRUE) /\ UNCHANGED temporaries
  /\ Enters(p, then)
  /\ UNCHANGED <<pullLock, object, memory, result, unread>>

CatchTemporaries(p) ==
  \/ CatchTemporary(p, "artifact", "catch_artifact", "catch_temporary_evidence")
  \/ CatchTemporary(p, "evidence", "catch_temporary_evidence", "catch_state")

\* Bug: the evidence of a publication that failed stays.
ForgetEvidence(p) ==
  /\ pull[p] = "catch_state"
  /\ PullEnds(p, "failed")
  /\ UNCHANGED <<pullLock, temporaries, object, memory, history>>

\* pathState(artifact): an artifact with two links is an error of it, which counts as missing.
CatchState(p) ==
  /\ pull[p] = "catch_state"
  /\ IF linked[p] /\ (artifact = NoPull \/ ArtifactIsLinkedTwice)
     THEN Enters(p, "catch_evidence") /\ UNCHANGED result
     ELSE PullEnds(p, "failed")
  /\ UNCHANGED <<pullLock, temporaries, object, memory, history>>

\* So does an lstat that fails, although the artifact is published.
CatchStateFails(p) ==
  /\ Faults /\ pull[p] = "catch_state" /\ linked[p]
  /\ artifact # NoPull /\ ~ArtifactIsLinkedTwice
  /\ Suffers("blind", TRUE)
  /\ Enters(p, "catch_evidence")
  /\ UNCHANGED <<pullLock, temporaries, object, memory, result, unread>>

CatchEvidence(p) ==
  /\ pull[p] = "catch_evidence"
  /\ \/ evidence' = NoPull /\ UNCHANGED faults
     \/ Faults /\ Suffers("left", TRUE) /\ UNCHANGED evidence
  /\ PullEnds(p, "failed")
  /\ UNCHANGED <<pullLock, temporaries, artifact, memory, unread>>

(***************************************************************************)
(* Around the pulls.                                                       *)
(***************************************************************************)
KillPull(p) ==
  /\ PullKills /\ pull[p] # "new" /\ ~PullGone(p)
  /\ Enters(p, "killed")
  /\ Suffers("killed", TRUE)
  /\ UNCHANGED <<pullLock, temporaries, object, memory, result, unread>>

\* A day passes, while no pull is at work.
Tomorrow ==
  /\ \A p \in Pull : pull[p] = "new" \/ PullGone(p)
  /\ old' = temps /\ old' # old
  /\ UNCHANGED <<pullLock, temps, object, pull, memory, result, history>>

Publish(p) ==
  \/ WriteTemporaryArtifact(p) \/ WriteTemporaryEvidence(p) \/ LinkEvidence(p)
  \/ UnlinkTemporaryEvidence(p) \/ LinkArtifact(p) \/ TakeEvidenceBack(p)
  \/ UnlinkTemporaryArtifact(p) \/ FinalCheck(p) \/ PublicationFails(p)

PullStep(p) ==
  \/ OpenPullLock(p) \/ RecordLock(p) \/ SeeStaleLock(p) \/ BreakPullLock(p) \/ PullGivesUp(p) \/ Unlock(p)
  \/ CleanUp(p) \/ CheckArtifact(p) \/ CheckEvidence(p) \/ VerifyExisting(p) \/ CompareEvidence(p)
  \/ CleanUpFails(p) \/ LookFails(p) \/ ReadFails(p)
  \/ Publish(p)
  \/ CatchTemporaries(p) \/ CatchState(p) \/ CatchStateFails(p) \/ CatchEvidence(p)
  \/ KillPull(p)

CacheNext == Tomorrow \/ \E p \in Pull : PullStep(p)

CacheSpec == CacheInit /\ [][CacheNext]_cacheVars

------------------------------------------------------------------------------
Steps ==
  {"new", "record", "break", "clean", "see_artifact", "see_evidence", "verify", "compare", "write",
   "write_evidence", "link_evidence", "unlink_evidence", "link_artifact", "conflict",
   "conflict_artifact", "unlink_artifact", "final", "catch_artifact", "catch_temporary_evidence",
   "catch_state", "catch_evidence", "unlock", "done", "killed"}

CacheTypeOK ==
  /\ {pullLock, artifact, evidence} \subseteq Pull \cup {NoPull}
  /\ temps \subseteq Pull \X {"artifact", "evidence"}
  /\ old \subseteq temps
  /\ pull \in [Pull -> Steps]
  /\ index \in [Pull -> Index]
  /\ seen \in [Pull -> BOOLEAN]
  /\ linked \in [Pull -> BOOLEAN]
  /\ result \in [Pull -> {"none", "hit", "published", "corrupt", "failed", "locked"}]
  /\ unread \subseteq Pull
  /\ faults \subseteq Misfortunes

Whole == NoPull \notin {artifact, evidence} /\ ~ArtifactIsLinkedTwice /\ ~EvidenceIsLinkedTwice

Succeeded(p) == result[p] \in {"hit", "published"}

\* A pull that succeeded leaves an object that stays whole: both files, each with one name, and
\* the evidence of its index.  No kill, no failed clean-up and no broken lock takes it away, since the
\* evidence is linked first and never replaced; only two of them together do: a pull that was robbed
\* of its lock while it published and that then cannot look at the artifact removes the evidence
\* of what another has returned (cacheRegistryArtifact).
PulledStaysWhole ==
  \A p \in Pull : Succeeded(p) =>
    \/ Whole /\ index[evidence] = index[p]
    \/ {"robbed", "blind"} \subseteq faults

\* A pull that throws and cleans up leaves nothing partial.  REGISTRY_CACHE_CORRUPT says that this
\* pull could not read the object, that the object was pulled by another index or for another source,
\* or that something befell a pull before: a kill, a lock broken under its owner, a clean-up that
\* failed.  In the last case it is for ever, since a partial object is never replaced, so that it
\* must not come from an ordinary failure (cacheRegistryArtifact).
CorruptOnlyAfterAFault ==
  \A p \in Pull : result[p] = "corrupt" =>
    p \in unread \/ faults # {} \/ \E q \in Pull : index[q] # index[p]
=============================================================================
