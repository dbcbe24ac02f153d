----------------------------- MODULE ProcessTree -----------------------------
(***************************************************************************)
(* One external command: runCommand (src/engine/command-runner.ts), the    *)
(* termination of its process group (src/execution/process-controller.ts), *)
(* the spools that read its output (src/execution/output-spool.ts), and,   *)
(* concurrently, the processes that the command starts.                    *)
(*                                                                         *)
(* A spool ends when the last process that holds the write end of its pipe *)
(* is gone, which need not be a process of the group.                      *)
(***************************************************************************)
EXTENDS FiniteSets

CONSTANTS
  Member,      \* processes that the command may come to
  Leader,      \* the one that is spawned, and leads the group
  Stream,      \* its stdout and stderr
  Unkillable,  \* processes that may stay in the kernel for ever, whatever the signal
  Foreign,     \* processes that run as another user, who may not be signalled
  Daemons,     \* whether a descendant may leave the group
  IOErrors,    \* whether a spool, or the wait for the exit, may fail
  Cancels      \* whether the caller may cancel

ASSUME TreeAssumption ==
  /\ Leader \in Member /\ Unkillable \subseteq Member /\ Foreign \subseteq Member
  /\ {Daemons, IOErrors, Cancels} \subseteq BOOLEAN

VARIABLES
  group,      \* running processes of the group
  escaped,    \* running descendants outside of it
  born,       \* processes that ever ran
  doomed,     \* processes that got a signal they do not survive
  writers,    \* per stream, the processes that hold its write end
  spool,      \* per stream, what became of its spool
  call,       \* how far runCommand is
  winner,     \* of the race
  terminated  \* what terminateProcessTree reported

processes == <<group, escaped, born, doomed, writers>>
treeVars == <<processes, spool, call, winner, terminated>>

Running == group \cup escaped
Ended   == call \in {"returned", "threw"}

TreeInit ==
  /\ group = {Leader} /\ escaped = {} /\ born = {Leader} /\ doomed = {}
  /\ writers = [s \in Stream |-> {Leader}]
  /\ spool = [s \in Stream |-> "reading"]
  /\ call = "racing" /\ winner = "none" /\ terminated = "not asked"

(***************************************************************************)
(* The processes.                                                          *)
(***************************************************************************)
\* The child joins its parent's side and inherits some of its output streams.
Fork(p, child) ==
  /\ p \in Running \ doomed /\ child \notin born
  /\ born' = born \cup {child}
  /\ group' = IF p \in group THEN group \cup {child} ELSE group
  /\ escaped' = IF p \in escaped THEN escaped \cup {child} ELSE escaped
  /\ \E inherited \in SUBSET {s \in Stream : p \in writers[s]} :
       writers' = [s \in Stream |-> IF s \in inherited THEN writers[s] \cup {child} ELSE writers[s]]
  /\ UNCHANGED <<doomed, spool, call, winner, terminated>>

\* setsid, which the leader of a group cannot do.
LeaveGroup(p) ==
  /\ Daemons
  /\ p \in group \ (doomed \cup {Leader})
  /\ group' = group \ {p} /\ escaped' = escaped \cup {p}
  /\ UNCHANGED <<born, doomed, writers, spool, call, winner, terminated>>

Exit(p) ==
  /\ p \in Running
  /\ group' = group \ {p} /\ escaped' = escaped \ {p} /\ doomed' = doomed \ {p}
  /\ writers' = [s \in Stream |-> writers[s] \ {p}]
  /\ UNCHANGED <<born, spool, call, winner, terminated>>

Dies(p) == p \in doomed /\ Exit(p)

(***************************************************************************)
(* spoolOutput.                                                            *)
(***************************************************************************)
SpoolEnds(s) ==
  /\ spool[s] = "reading" /\ writers[s] = {}
  /\ spool' = [spool EXCEPT ![s] = "stored"]
  /\ UNCHANGED <<processes, call, winner, terminated>>

\* The artifact exists already, or cannot be written, synced or linked.
SpoolFails(s) ==
  /\ IOErrors /\ spool[s] = "reading"
  /\ spool' = [spool EXCEPT ![s] = "failed"]
  /\ UNCHANGED <<processes, call, winner, terminated>>

(***************************************************************************)
(* runCommand: the race.  Whatever wins, the timer is cleared.             *)
(***************************************************************************)
Wins(result, then) ==
  /\ call = "racing"
  /\ winner' = result /\ call' = then
  /\ UNCHANGED <<processes, spool, terminated>>

LeaderExits  == Leader \notin group /\ Wins("EXIT", "storing")
TimesOut     == Wins("TIMEOUT", "look")
Cancelled    == Cancels /\ Wins("CANCELLATION", "look")
WatchFails   == IOErrors /\ Wins("SPAWN_ERROR", "look")
StreamFails  == (\E s \in Stream : spool[s] = "failed") /\ Wins("IO_ERROR", "look")

(***************************************************************************)
(* terminateProcessTree.  It knows the group, and nothing outside of it.   *)
(***************************************************************************)
LookForGroup ==
  /\ call = "look"
  /\ IF group = {} THEN call' = "settling" /\ terminated' = "already exited"
                   ELSE call' = "terminate" /\ UNCHANGED terminated
  /\ UNCHANGED <<processes, spool, winner>>

\* A signal reaches those that it may reach.  If the group is gone that is no error (ESRCH).
Signal(reached) ==
  /\ group = {} \/ group \ Foreign # {}
  /\ doomed' = doomed \cup reached

\* SIGTERM; some ignore it.
Terminate ==
  /\ call = "terminate"
  /\ \E obeying \in SUBSET (group \ Foreign) : Signal(obeying)
  /\ call' = "grace"
  /\ UNCHANGED <<group, escaped, born, writers, spool, winner, terminated>>

GroupIsGone ==
  /\ call \in {"grace", "kill wait"} /\ group = {}
  /\ call' = "settling" /\ terminated' = "terminated"
  /\ UNCHANGED <<processes, spool, winner>>

GraceIsOver ==
  /\ call = "grace" /\ group # {}
  /\ call' = "kill"
  /\ UNCHANGED <<processes, spool, winner, terminated>>

\* Bug: nobody waits for the effect of SIGKILL.
KillAndTrust ==
  /\ call = "kill"
  /\ Signal(group \ Foreign)
  /\ call' = "settling" /\ terminated' = "terminated"
  /\ UNCHANGED <<group, escaped, born, writers, spool, winner>>

KillGroup ==
  /\ call = "kill"
  /\ Signal(group \ Foreign)
  /\ call' = "kill wait"
  /\ UNCHANGED <<group, escaped, born, writers, spool, winner, terminated>>

SurvivesKill ==
  /\ call = "kill wait" /\ group # {}
  /\ call' = "settling" /\ terminated' = "survived"
  /\ UNCHANGED <<processes, spool, winner>>

\* EPERM, if not one process of the group may be signalled: the termination throws.
SignalRefused ==
  /\ call \in {"terminate", "kill"}
  /\ group # {} /\ group \subseteq Foreign
  /\ call' = "settling" /\ terminated' = "refused"
  /\ UNCHANGED <<processes, spool, winner>>

(***************************************************************************)
(* The end: all spools, however the race went.                             *)
(***************************************************************************)
\* EXIT: Promise.all.
StoreOutput ==
  /\ call = "storing"
  /\ \/ (\A s \in Stream : spool[s] = "stored") /\ call' = "returned"
     \/ (\E s \in Stream : spool[s] = "failed") /\ call' = "threw"
  /\ UNCHANGED <<processes, spool, winner, terminated>>

\* Bug: only an output that was stored is waited for.
SettleStored ==
  /\ call = "settling" /\ \A s \in Stream : spool[s] = "stored"
  /\ call' = "threw"
  /\ UNCHANGED <<processes, spool, winner, terminated>>

\* Promise.allSettled.
SettleOutput ==
  /\ call = "settling" /\ \A s \in Stream : spool[s] # "reading"
  /\ call' = "threw"
  /\ UNCHANGED <<processes, spool, winner, terminated>>

Processes == \E p \in Member : LeaveGroup(p) \/ Exit(p) \/ \E child \in Member : Fork(p, child)

Controller ==
  \/ LookForGroup \/ Terminate \/ GroupIsGone \/ GraceIsOver \/ KillGroup \/ SurvivesKill
  \/ SignalRefused \/ StoreOutput \/ SettleOutput

TreeNext ==
  \/ Processes
  \/ \E s \in Stream : SpoolEnds(s) \/ SpoolFails(s)
  \/ LeaderExits \/ TimesOut \/ Cancelled \/ WatchFails \/ StreamFails
  \/ Controller

TreeSpec == TreeInit /\ [][TreeNext]_treeVars

\* The event loop: the timer fires, the termination goes on, a pipe without a writer is at its end.
EventLoop == TimesOut \/ Controller \/ \E s \in Stream : SpoolEnds(s)

\* A process that got a deadly signal dies, unless the kernel holds it.
Deaths == \E p \in Member \ Unkillable : Dies(p)

\* Each of these steps happens a bounded number of times, so that fairness of their disjunction
\* is fairness of each.  No process owes anything else.
FairTree == TreeSpec /\ WF_treeVars(EventLoop) /\ WF_treeVars(Deaths)

------------------------------------------------------------------------------
TreeTypeOK ==
  /\ group \cup escaped \subseteq born /\ born \subseteq Member
  /\ group \cap escaped = {} /\ doomed \subseteq Running
  /\ writers \in [Stream -> SUBSET Running]
  /\ spool \in [Stream -> {"reading", "stored", "failed"}]
  /\ call \in {"racing", "storing", "look", "terminate", "grace", "kill", "kill wait", "settling",
               "returned", "threw"}
  /\ winner \in {"none", "EXIT", "TIMEOUT", "CANCELLATION", "IO_ERROR", "SPAWN_ERROR"}
  /\ terminated \in {"not asked", "already exited", "terminated", "survived", "refused"}

\* When a command was stopped, nothing of its group runs on, not even what was forked between
\* the signals, unless the error says that the group survived or could not be
\* signalled (terminateProcessTree).
StoppedIsGone ==
  Ended /\ winner # "EXIT" /\ terminated \notin {"survived", "refused"} => group = {}

\* Processes that termination does not reach: those outside of the group, those that the kernel
\* holds, those of other users, and what is left of the group when the command itself exited or
\* the termination has given up.
OutOfReach ==
  escaped \cup Unkillable \cup Foreign
    \cup (IF winner = "EXIT" \/ terminated \in {"survived", "refused"} THEN group ELSE {})

\* A command ends, by its timeout at the latest, whatever its group does with the signals, if the
\* output is not held for ever by a process that termination does not reach (runCommand).
EndsUnlessOutputIsHeld ==
  <>[](\A s \in Stream : writers[s] \cap OutOfReach = {}) => <>Ended

\* The timeout stays active until the output that descendants hold is closed: every command ends
\* (tests/execution/secure-command-runner.test.ts:174).
TimeoutStaysActive == <>Ended
=============================================================================
