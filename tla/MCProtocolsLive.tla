--------------------------- MODULE MCProtocolsLive ---------------------------
(***************************************************************************)
(* Two protocols of one project that share nothing with each other and     *)
(* have to come to an end: the state store and an external command.        *)
(* focus, which never changes, says whose steps a behaviour has.           *)
(***************************************************************************)
EXTENDS StateStore, ProcessTree

VARIABLE focus

suiteVars == <<focus, storeVars, treeVars>>

\* A command that is over.
TreeOver ==
  /\ group = {} /\ escaped = {} /\ born = {Leader} /\ doomed = {}
  /\ writers = [s \in Stream |-> {}] /\ spool = [s \in Stream |-> "stored"]
  /\ call = "returned" /\ winner = "EXIT" /\ terminated = "not asked"

Init ==
  /\ focus \in {"store", "command"}
  /\ StoreInit
  /\ IF focus = "command" THEN TreeInit ELSE TreeOver

StoreSteps == focus = "store" /\ StoreNext /\ UNCHANGED <<focus, treeVars>>

TreeSteps == focus = "command" /\ TreeNext /\ UNCHANGED <<focus, storeVars>>

Next == StoreSteps \/ TreeSteps

\* The fairness of FairStore and of FairTree, each where its steps are.
FairSpec ==
  /\ Init /\ [][Next]_suiteVars
  /\ \A p \in Proc : WF_storeVars(focus = "store" /\ (Locking(p) \/ Writing(p) \/ Recovery(p)))
  /\ \A p \in Proc : SF_storeVars(focus = "store" /\ GiveUp(p))
  /\ WF_treeVars(focus = "command" /\ EventLoop)
  /\ WF_treeVars(focus = "command" /\ Deaths)
=============================================================================
