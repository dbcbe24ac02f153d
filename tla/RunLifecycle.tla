---------------------------- MODULE RunLifecycle ----------------------------
(***************************************************************************)
(* What the execution engine promises about one project: runs follow each  *)
(* other, a run works through its declared steps strictly in order, it is  *)
(* completed only when nothing is left to do, and a completed, tainted or  *)
(* stale run never moves again.  Nothing here mentions processes, stages,  *)
(* approvals, revisions or crashes; module RuntimeEngine implements it.    *)
(***************************************************************************)
EXTENDS Integers

CONSTANT NSteps

VARIABLES run, status, done
vars == <<run, status, done>>

Finished == {"COMPLETED", "TAINTED", "STALE"}
Paused   == {"AWAITING_USER", "FAILED", "BLOCKED"}

Init == run = 0 /\ status = "STOPPED" /\ done = {}

\* A new run, whatever became of the one before it.
Start == run' = run + 1 /\ status' = "RUNNING" /\ done' = {}

\* The next declared steps are settled: done, skipped or stopped by policy.
Advance ==
  /\ status = "RUNNING"
  /\ \E k \in 1..NSteps : done' = 1..k
  /\ done \subseteq done' /\ done' # done
  /\ UNCHANGED <<run, status>>

Pause == status = "RUNNING" /\ status' \in Paused /\ UNCHANGED <<run, done>>

Resume ==
  /\ run > 0 /\ status \notin Finished
  /\ status' = "RUNNING"
  /\ UNCHANGED <<run, done>>

\* The playbook or the repository is no longer the one the run was started with.
Abandon ==
  /\ run > 0 /\ status \notin Finished
  /\ status' \in {"TAINTED", "STALE"}
  /\ UNCHANGED <<run, done>>

Complete ==
  /\ status = "RUNNING" /\ done = 1..NSteps
  /\ status' = "COMPLETED"
  /\ UNCHANGED <<run, done>>

Reset == run > 0 /\ status' = "STOPPED" /\ done' = {} /\ run' = run

Next == Start \/ Advance \/ Pause \/ Resume \/ Abandon \/ Complete \/ Reset

Spec == Init /\ [][Next]_vars
=============================================================================
