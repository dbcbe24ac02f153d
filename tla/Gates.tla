-------------------------------- MODULE Gates --------------------------------
(***************************************************************************)
(* Release gates and coverage: how run, resume and verify evaluate them    *)
(* and record them in .dokion/state.json (reconcileState of                *)
(* src/engine/execution-engine.ts, verifyDeclaredGates of                  *)
(* src/verification/verify-run.ts, src/readiness/release-gates.ts and      *)
(* coverage.ts), while the operator approves and resets.                   *)
(*                                                                         *)
(* RuntimeEngine says what a run does to the steps; here that is one step, *)
(* Work, and what follows it is in detail.  run and resume return the      *)
(* promise of reconcileState without awaiting it inside of their try       *)
(* clause, so that the finally clause releases the run lock while the      *)
(* gates are evaluated.  verify holds the lock to its end.                 *)
(*                                                                         *)
(* The playbook has a step, a lane that only this step covers, a gate with *)
(* a command and the gates required_steps_complete and                     *)
(* blocking_lanes_assigned.                                                *)
(***************************************************************************)
EXTENDS Integers

CONSTANTS
  Caller,       \* commands, each a process of its own
  NoCaller,     \* not a process
  MaxRuns,      \* bound: runs
  MaxRevision,  \* bound: the operator changes nothing at this revision
  CallerKills   \* whether processes may be killed

ASSUME GatesAssumption ==
  /\ NoCaller \notin Caller
  /\ MaxRuns \in Nat /\ MaxRevision \in Nat
  /\ CallerKills \in BOOLEAN

VARIABLES
  state,    \* [run, revision, step, lane, command, artifact, steps, lanes]: the state file
  stored,   \* attempts whose output was stored, with the verdict that the gate's file states
  runLock,  \* whose run lock is there, or NoCaller
  does,     \* what a process is: a run, a verification
  caller,   \* how far it is
  copy,     \* the state it read or was given
  found     \* its verdict about the command of the gate

gatesVars == <<state, stored, runLock, does, caller, copy, found>>

Verdict(passed) == IF passed THEN "PASS" ELSE "FAIL"

NoState == [run |-> 0, revision |-> 0, step |-> "PENDING", lane |-> "NONE",
            command |-> "NONE", artifact |-> <<>>, steps |-> "NONE", lanes |-> "NONE"]

Moves(p, where) == caller' = [caller EXCEPT ![p] = where]

CallerEnds(p) ==
  /\ Moves(p, "end")
  /\ does' = [does EXCEPT ![p] = "nothing"]
  /\ copy' = [copy EXCEPT ![p] = NoState]
  /\ found' = [found EXCEPT ![p] = "NONE"]

GatesInit ==
  /\ state = NoState
  /\ stored = {}
  /\ runLock = NoCaller
  /\ does = [p \in Caller |-> "nothing"]
  /\ caller = [p \in Caller |-> "new"]
  /\ copy = [p \in Caller |-> NoState]
  /\ found = [p \in Caller |-> "NONE"]

(***************************************************************************)
(* The commands begin.                                                     *)
(***************************************************************************)
AcquireRunLock(p, command, then) ==
  /\ caller[p] = "new" /\ runLock = NoCaller
  /\ runLock' = p
  /\ does' = [does EXCEPT ![p] = command]
  /\ Moves(p, then)
  /\ UNCHANGED <<state, stored, copy, found>>

BeginRun(p)    == AcquireRunLock(p, "run", "work")
BeginVerify(p) == state.run > 0 /\ AcquireRunLock(p, "verify", "load")

\* A new run, a resumed one, or a terminal one that is left as it is.  The step is done, it is
\* found inapplicable, or the run stops before.
Work(p) ==
  /\ caller[p] = "work"
  /\ \/ /\ state.run < MaxRuns
        /\ \E outcome \in {"PENDING", "SUCCEEDED", "SKIPPED_INAPPLICABLE"} :
             state' = [NoState EXCEPT !.run = state.run + 1, !.revision = state.revision + 1,
                                      !.step = outcome]
     \/ /\ state.run > 0 /\ state.step = "PENDING"
        /\ \E outcome \in {"PENDING", "SUCCEEDED", "SKIPPED_INAPPLICABLE"} :
             state' = [state EXCEPT !.revision = state.revision + 1, !.step = outcome]
     \/ state.run > 0 /\ state' = state
  /\ copy' = [copy EXCEPT ![p] = state']
  /\ Moves(p, "gate")
  /\ UNCHANGED <<stored, runLock, does, found>>

WorkThrows(p) ==
  /\ caller[p] = "work"
  /\ CallerEnds(p)
  /\ UNCHANGED <<state, stored, runLock>>

\* verify runs the verification commands of the steps; what they show is recorded per step.
LoadState(p) ==
  /\ caller[p] = "load"
  /\ copy' = [copy EXCEPT ![p] = state]
  /\ Moves(p, "gate")
  /\ UNCHANGED <<state, stored, runLock, does, found>>

\* finally: run and resume get here while reconcileState goes on.
ReleaseRunLock(p) ==
  /\ runLock = p
  /\ \/ caller[p] = "end"
     \/ does[p] = "run" /\ caller[p] \in {"gate", "command", "evidence", "store"}
  /\ runLock' = NoCaller
  /\ UNCHANGED <<state, stored, does, caller, copy, found>>

(***************************************************************************)
(* evaluateReleaseGates: the gate with a command.  A PASS of this run is   *)
(* taken over, unless it is a verification.  The command's output goes to  *)
(* files of the run, or of the verification attempt, which must not exist. *)
(***************************************************************************)
OutputOf(p) == <<copy[p].run, IF does[p] = "verify" THEN p ELSE NoCaller>>

OutputExists(p) == \E e \in stored : e.attempt = OutputOf(p)

TakePassOver(p) ==
  /\ caller[p] = "gate"
  /\ does[p] = "run" /\ copy[p].command = "PASS"
  /\ found' = [found EXCEPT ![p] = "PASS"]
  /\ Moves(p, "store")
  /\ UNCHANGED <<state, stored, runLock, does, copy>>

StartGateCommand(p) ==
  /\ caller[p] = "gate"
  /\ ~(does[p] = "run" /\ copy[p].command = "PASS")
  /\ IF OutputExists(p) THEN CallerEnds(p) ELSE Moves(p, "command") /\ UNCHANGED <<does, copy, found>>
  /\ UNCHANGED <<state, stored, runLock>>

\* Bug: the output of an earlier evaluation is replaced.
ReplaceOutput(p) ==
  /\ caller[p] = "command"
  /\ \E verdict \in {"PASS", "FAIL"} :
       /\ found' = [found EXCEPT ![p] = verdict]
       /\ stored' = {e \in stored : e.attempt # OutputOf(p)}
                        \cup {[attempt |-> OutputOf(p), says |-> "NONE"]}
  /\ Moves(p, "evidence")
  /\ UNCHANGED <<state, runLock, does, copy>>

\* The command ends and its output is linked to its name, which throws when there is one by now.
GateCommandEnds(p) ==
  /\ caller[p] = "command"
  /\ IF OutputExists(p)
     THEN CallerEnds(p) /\ UNCHANGED stored
     ELSE /\ \E verdict \in {"PASS", "FAIL"} : found' = [found EXCEPT ![p] = verdict]
          /\ stored' = stored \cup {[attempt |-> OutputOf(p), says |-> "NONE"]}
          /\ Moves(p, "evidence")
          /\ UNCHANGED <<does, copy>>
  /\ UNCHANGED <<state, runLock>>

\* <gate>.json: the exit code.
WriteGateEvidence(p) ==
  /\ caller[p] = "evidence"
  /\ stored' = {e \in stored : e.attempt # OutputOf(p)}
                   \cup {[attempt |-> OutputOf(p), says |-> found[p]]}
  /\ Moves(p, "store")
  /\ UNCHANGED <<state, runLock, does, copy, found>>

GateThrows(p) ==
  /\ caller[p] \in {"command", "evidence"}
  /\ CallerEnds(p)
  /\ UNCHANGED <<state, stored, runLock>>

(***************************************************************************)
(* The conditions, evaluated on the copy, and the update that records all. *)
(***************************************************************************)
RequiredStepsComplete(s) == s.step \in {"SUCCEEDED", "SKIPPED_INAPPLICABLE"}

\* Lanes as the state file has them, which is before the evaluation of now is stored.
BlockingLanesAssigned(s) == s.lane = "ASSIGNED"

EvaluateCoverage(s) == IF s.step = "SKIPPED_INAPPLICABLE" THEN "UNASSIGNED" ELSE "ASSIGNED"

Recorded(p) ==
  [state EXCEPT
    !.revision = state.revision + 1,
    !.lane = IF does[p] = "run" THEN EvaluateCoverage(copy[p]) ELSE state.lane,
    !.command = found[p],
    !.artifact = IF does[p] = "run" /\ copy[p].command = "PASS" THEN copy[p].artifact ELSE OutputOf(p),
    !.steps = Verdict(RequiredStepsComplete(copy[p])),
    !.lanes = Verdict(BlockingLanesAssigned(copy[p]))]

\* Bug: the update loads the revision that it expects.
StoreAnyway(p) ==
  /\ caller[p] = "store"
  /\ state' = Recorded(p)
  /\ CallerEnds(p)
  /\ UNCHANGED <<stored, runLock>>

\* STATE_REVISION_CONFLICT discards everything.
Store(p) ==
  /\ caller[p] = "store"
  /\ state' = IF copy[p].revision = state.revision THEN Recorded(p) ELSE state
  /\ CallerEnds(p)
  /\ UNCHANGED <<stored, runLock>>

(***************************************************************************)
(* Around the commands: neither approve nor reset takes the lock.          *)
(***************************************************************************)
Approve ==
  /\ state.run > 0 /\ state.revision < MaxRevision
  /\ state' = [state EXCEPT !.revision = @ + 1]
  /\ UNCHANGED <<stored, runLock, does, caller, copy, found>>

\* The steps start over; gates and coverage stay as they are.
ResetSteps ==
  /\ state.run > 0 /\ state.revision < MaxRevision
  /\ state' = [state EXCEPT !.revision = @ + 1, !.step = "PENDING"]
  /\ UNCHANGED <<stored, runLock, does, caller, copy, found>>

\* The lock of a killed process stays until somebody recovers it: ReleaseRunLock, then, is the
\* recovery.
KillCommand(p) ==
  /\ CallerKills /\ caller[p] \notin {"new", "end"}
  /\ CallerEnds(p)
  /\ UNCHANGED <<state, stored, runLock>>

GatesNext ==
  \/ Approve \/ ResetSteps
  \/ \E p \in Caller :
       \/ BeginRun(p) \/ BeginVerify(p) \/ Work(p) \/ WorkThrows(p) \/ LoadState(p)
       \/ ReleaseRunLock(p)
       \/ TakePassOver(p) \/ StartGateCommand(p) \/ GateCommandEnds(p) \/ WriteGateEvidence(p)
       \/ GateThrows(p) \/ Store(p)
       \/ KillCommand(p)

GatesSpec == GatesInit /\ [][GatesNext]_gatesVars

------------------------------------------------------------------------------
Attempts == (1..MaxRuns) \X (Caller \cup {NoCaller})

GatesTypeOK ==
  /\ state.run \in 0..MaxRuns /\ state.revision \in Nat
  /\ state.step \in {"PENDING", "SUCCEEDED", "SKIPPED_INAPPLICABLE"}
  /\ state.lane \in {"NONE", "ASSIGNED", "UNASSIGNED"}
  /\ {state.command, state.steps, state.lanes} \subseteq {"NONE", "PASS", "FAIL"}
  /\ state.artifact \in Attempts \cup {<<>>}
  /\ stored \subseteq [attempt : Attempts, says : {"NONE", "PASS", "FAIL"}]
  /\ runLock \in Caller \cup {NoCaller}
  /\ does \in [Caller -> {"nothing", "run", "verify"}]
  /\ caller \in [Caller -> {"new", "work", "load", "gate", "command", "evidence", "store", "end"}]
  /\ found \in [Caller -> {"NONE", "PASS", "FAIL"}]

\* A recorded verdict is that of a command that ran in this run, and the file that the state
\* names says the same: through evaluations that run at once because the lock is gone, kills
\* between the two writes, verdicts taken over and runs that were replaced meanwhile.
VerdictIsEvidenced ==
  state.command # "NONE" =>
    /\ [attempt |-> state.artifact, says |-> state.command] \in stored
    /\ state.artifact[1] = state.run

\* The gates that are recorded are about the steps of the state they are recorded in, though the
\* lock does not protect what was read for them (reconcileState, verifyDeclaredGates).
RecordedGatesAreCurrent ==
  [][ (\E p \in Caller : caller[p] = "store" /\ caller'[p] = "end") /\ state' # state
      => state'.steps = Verdict(RequiredStepsComplete(state)) ]_gatesVars
=============================================================================
