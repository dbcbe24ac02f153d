--------------------------- MODULE MCProtocolsSafe ---------------------------
(***************************************************************************)
(* Protocols of one project that share no file with each other: the event  *)
(* journal, the command invocations, the run lock, the registry cache, the *)
(* release gates and the automatic runner.  Because they are independent,  *)
(* no property of one needs the steps of another; focus, which never       *)
(* changes, says whose steps a behaviour has.  Safety only: symmetric.     *)
(***************************************************************************)
EXTENDS EventJournal, Invocation, RunLock, RegistryCache, Gates, AutoPilot, TLC

VARIABLE focus

Protocols == {"journal", "invocation", "run lock", "cache", "gates", "pilot"}

suiteVars == <<focus, journalVars, invocationVars, runLockVars, cacheVars, gatesVars, pilotVars>>

TwoIndexes == \E p, q \in Pull : index[p] # index[q]

Init ==
  /\ focus \in Protocols
  /\ JournalInit /\ InvocationInit /\ RunLockInit /\ CacheInit /\ GatesInit /\ PilotInit
  /\ \/ index = [p \in Pull |-> CHOOSE i \in Index : TRUE]
     \/ focus = "cache" /\ TwoIndexes
  /\ focus # "pilot" =>
       /\ steps = [s \in StepIds |-> "PENDING"] /\ foreign = 0
       /\ runStatus = "IN_PROGRESS"

JournalSteps ==
  /\ focus = "journal" /\ JournalNext
  /\ UNCHANGED <<focus, invocationVars, runLockVars, cacheVars, gatesVars, pilotVars>>

InvocationSteps ==
  /\ focus = "invocation" /\ InvocationNext
  /\ UNCHANGED <<focus, journalVars, runLockVars, cacheVars, gatesVars, pilotVars>>

RunLockSteps ==
  /\ focus = "run lock" /\ RunLockNext
  /\ UNCHANGED <<focus, journalVars, invocationVars, cacheVars, gatesVars, pilotVars>>

\* Bound: with two indexes, two of the pulls run.
CacheSteps ==
  /\ focus = "cache" /\ CacheNext
  /\ TwoIndexes => \E p \in Pull : pull'[p] = "new"
  /\ UNCHANGED <<focus, journalVars, invocationVars, runLockVars, gatesVars, pilotVars>>

GatesSteps ==
  /\ focus = "gates" /\ GatesNext
  /\ UNCHANGED <<focus, journalVars, invocationVars, runLockVars, cacheVars, pilotVars>>

PilotSteps ==
  /\ focus = "pilot" /\ PilotNext
  /\ UNCHANGED <<focus, journalVars, invocationVars, runLockVars, cacheVars, gatesVars>>

Next ==
  \/ JournalSteps \/ InvocationSteps \/ RunLockSteps \/ CacheSteps \/ GatesSteps \/ PilotSteps

Spec == Init /\ [][Next]_suiteVars

\* Every variable of every protocol has a value it can have.
TypesOK ==
  /\ JournalTypeOK /\ InvocationTypeOK /\ RunLockTypeOK
  /\ CacheTypeOK /\ GatesTypeOK /\ PilotTypeOK

\* A playbook whose last step needs the first.
ThreeSteps == <<"prepare", "change", "check">>
CheckNeedsPrepare == [s \in StepIds |-> IF s = "check" THEN {"prepare"} ELSE {}]

\* The same processes play commands, pulls and callers.
Symmetry == Permutations(Pull)
=============================================================================
