----------------------------- MODULE Invocation -----------------------------
(***************************************************************************)
(* A step whose capability is a command with declared outputs, over all    *)
(* its attempts in one run: invokeCommandCapability of                     *)
(* src/invocation/command-capability-invoker.ts with the side-effect       *)
(* checkpoints of src/state/checkpoint.ts and the artifacts of             *)
(* src/artifacts/run-artifact-store.ts, called by the engine and by        *)
(* dokion verify, which both hold the run lock.                            *)
(*                                                                         *)
(* An invocation is identified by the attempt (run, stage and step are     *)
(* fixed).  Its command is a process of its own, which a killed caller     *)
(* leaves behind.  Of an artifact only the invocation that published it is *)
(* kept, of an output only whether it is there.  The playbook does not     *)
(* change, so the request of an invocation is always the same; the step    *)
(* asks for no approval and has verification commands, without which       *)
(* verify would pass it by.                                                *)
(***************************************************************************)
EXTENDS Integers, FiniteSets

CONSTANTS
  MaxAttempts,  \* bound: attempts of the step between two resets
  Output,       \* declared outputs
  Undeclared    \* an entry of the output directory that is none of them

Attempt == 1..MaxAttempts

ASSUME InvocationAssumption == MaxAttempts \in Nat \ {0} /\ Undeclared \notin Output

VARIABLES
  step, attempt,  \* status and attempts of the step in the state file
  request,        \* invocations with a request.json
  checkpoint,     \* status of their side-effect checkpoint
  receipt,        \* status of their receipt.json
  staged,         \* what is in their output directory
  published,      \* the invocation that an output's descriptor names, or 0
  command,        \* "none", "running" or "ended": the command of an invocation
  holder,         \* of the run lock: "engine", "verify" or "nobody"
  pc, at,         \* the invocation the holder is at
  exit,           \* how its command ended
  left,           \* outputs it has still to publish
  started         \* history: invocations whose command was started

stateFile == <<step, attempt>>
store     == <<request, checkpoint, receipt>>
outputs   == <<staged, published>>
process   == <<command, started>>
local     == <<exit, left>>
invocationVars      == <<stateFile, store, outputs, process, holder, pc, at, local>>

Labels == {"idle", "recover", "receipt", "request", "outputs", "begin", "spawn", "run",
           "complete", "validate", "publish", "fail", "return"}

InvocationInit ==
  /\ step = "PENDING" /\ attempt = 0
  /\ request = {}
  /\ checkpoint = [a \in Attempt |-> "none"]
  /\ receipt = [a \in Attempt |-> "none"]
  /\ staged = [a \in Attempt |-> {}]
  /\ published = [o \in Output |-> 0]
  /\ command = [a \in Attempt |-> "none"] /\ started = {}
  /\ holder = "nobody" /\ pc = "idle" /\ at = 1
  /\ exit = "none" /\ left = {}

From(l, m) == pc = l /\ pc' = m

\* The lease is released; the memory of the process is not used again.
Ends ==
  /\ pc' = "idle" /\ holder' = "nobody" /\ at' = 1
  /\ exit' = "none" /\ left' = {}

(***************************************************************************)
(* The callers.                                                            *)
(***************************************************************************)
\* dokion run begins a run with an id of its own: a behaviour of this module.
Resume ==
  /\ holder = "nobody" /\ holder' = "engine"
  /\ \/ step \in {"PENDING", "FAILED"} /\ attempt < MaxAttempts
     \/ step = "IN_PROGRESS"
  /\ From("idle", "recover")
  /\ UNCHANGED <<stateFile, store, outputs, process, at, local>>

\* recoverStartedSideEffects, one file after the other.
RecoverStarted ==
  /\ pc = "recover"
  /\ \E a \in Attempt :
       /\ checkpoint[a] = "STARTED"
       /\ checkpoint' = [checkpoint EXCEPT ![a] = "STARTED_UNKNOWN"]
  /\ UNCHANGED <<stateFile, request, receipt, outputs, process, holder, pc, at, local>>

\* Bug: the recovery stops after some files.
SomeRecovered == TRUE

AllRecovered == \A a \in Attempt : checkpoint[a] # "STARTED"

\* Bug: the attempt is counted when it has failed.
RecordedAttempt == attempt

nextExecutionAttempt == IF step = "IN_PROGRESS" THEN attempt ELSE attempt + 1

\* The update that marks the step IN_PROGRESS.
StartStep ==
  /\ From("recover", "receipt") /\ AllRecovered
  /\ attempt' = nextExecutionAttempt
  /\ step' = "IN_PROGRESS"
  /\ at' = attempt'
  /\ UNCHANGED <<store, outputs, process, holder, local>>

\* dokion verify recovers no side effects and passes no attempt: it is the first.
Verify ==
  /\ holder = "nobody" /\ holder' = "verify"
  /\ From("idle", "receipt")
  /\ at' = 1
  /\ UNCHANGED <<stateFile, store, outputs, process, local>>

\* Of the caller: the engine fails the step, verify says so and is done.
Settles(result) ==
  /\ step' = IF holder = "engine" THEN result ELSE step
  /\ Ends
  /\ UNCHANGED <<attempt, store, outputs, process>>

(***************************************************************************)
(* invokeCommandCapability.                                                *)
(***************************************************************************)
FindReceipt ==
  /\ pc = "receipt"
  /\ pc' = IF receipt[at] = "none" THEN "request" ELSE "return"
  /\ UNCHANGED <<stateFile, store, outputs, process, holder, at, local>>

PersistRequest ==
  /\ From("request", "outputs")
  /\ request' = request \cup {at}
  /\ UNCHANGED <<stateFile, checkpoint, receipt, outputs, process, holder, at, local>>

\* ensureEmptyOutputDirectory
OutputsAreEmpty ==
  /\ From("outputs", "begin")
  /\ staged[at] = {}
  /\ UNCHANGED <<stateFile, store, outputs, process, holder, at, local>>

OutputsAreNot ==
  /\ pc = "outputs" /\ staged[at] # {}
  /\ Settles("FAILED")

\* assertInvocationReplaySafe, of the checkpoint beginSideEffect returned.
ReplaySafe(was) == was = "STARTED"

Begin ==
  /\ From("begin", "spawn")
  /\ \/ checkpoint[at] = "none" /\ checkpoint' = [checkpoint EXCEPT ![at] = "STARTED"]
     \/ ReplaySafe(checkpoint[at]) /\ checkpoint' = checkpoint
  /\ UNCHANGED <<stateFile, request, receipt, outputs, process, holder, at, local>>

ReplayRefused ==
  /\ pc = "begin" /\ checkpoint[at] # "none" /\ ~ReplaySafe(checkpoint[at])
  /\ Settles("FAILED")

Spawn ==
  /\ From("spawn", "run")
  /\ command' = [command EXCEPT ![at] = "running"]
  /\ started' = started \cup {at}
  /\ UNCHANGED <<stateFile, store, outputs, holder, at, local>>

\* runCommand throws before there is a process.
SpawnRefused ==
  /\ From("spawn", "complete")
  /\ exit' = "threw"
  /\ UNCHANGED <<stateFile, store, outputs, process, holder, at, left>>

\* The command exits, or is terminated at its timeout, which may fail.
CommandEnds ==
  /\ From("run", "complete")
  /\ exit' \in {"zero", "other", "threw"}
  /\ \/ command' = [command EXCEPT ![at] = "ended"]
     \/ exit' = "threw" /\ command' = command
  /\ UNCHANGED <<stateFile, store, outputs, started, holder, at, left>>

\* Bug: the checkpoint of a command that failed is left as it is.
CompleteSuccess ==
  /\ From("complete", IF exit = "zero" THEN "validate" ELSE "fail")
  /\ checkpoint[at] \in {"STARTED", "STARTED_UNKNOWN"}
  /\ checkpoint' = [checkpoint EXCEPT ![at] = IF exit = "zero" THEN "COMPLETED" ELSE @]
  /\ UNCHANGED <<stateFile, request, receipt, outputs, process, holder, at, local>>

\* completeSideEffect, then the failure receipt or the outputs.
Complete ==
  /\ From("complete", IF exit = "zero" THEN "validate" ELSE "fail")
  /\ checkpoint[at] \in {"STARTED", "STARTED_UNKNOWN"}
  /\ checkpoint' = [checkpoint EXCEPT ![at] = IF exit = "zero" THEN "COMPLETED" ELSE "FAILED"]
  /\ UNCHANGED <<stateFile, request, receipt, outputs, process, holder, at, local>>

\* An error of the completion itself is caught like one of the command.
CompletionFails ==
  /\ pc = "complete" /\ exit # "threw"
  /\ exit' = "threw"
  /\ UNCHANGED <<stateFile, store, outputs, process, holder, pc, at, left>>

\* Exactly the declared outputs are there, and the request is what it was.
ValidateOutputs ==
  /\ From("validate", "publish")
  /\ staged[at] = Output
  /\ left' = Output
  /\ UNCHANGED <<stateFile, store, outputs, process, holder, at, exit>>

\* Something else is there, or a file or the request is not as it has to be.
OutputsInvalid ==
  /\ pc \in {"validate", "publish"} /\ (pc = "publish" => left # {})
  /\ pc' = "fail" /\ left' = {}
  /\ UNCHANGED <<stateFile, store, outputs, process, holder, at, exit>>

\* Bug: an artifact that is there is taken for the invocation's own.
AnyBinding(o) == published[o] # 0

\* sameBindingIdentity: the descriptor that is there is of this invocation.
OwnBinding(o) == published[o] = at

\* materializeRunArtifact; a descriptor of another invocation is a conflict.
Materialize ==
  /\ pc = "publish"
  /\ \E o \in left :
       \/ /\ published[o] = 0 /\ published' = [published EXCEPT ![o] = at]
          /\ left' = left \ {o} /\ pc' = pc
       \/ OwnBinding(o) /\ published' = published /\ left' = left \ {o} /\ pc' = pc
       \/ /\ published[o] # 0 /\ ~OwnBinding(o)
          /\ published' = published /\ left' = {} /\ pc' = "fail"
  /\ UNCHANGED <<stateFile, store, staged, process, holder, at, exit>>

\* persistReceipt; a receipt is written once.
WriteReceipt(result) ==
  /\ receipt[at] = "none" /\ receipt' = [receipt EXCEPT ![at] = result]
  /\ pc' = "return"
  /\ UNCHANGED <<stateFile, request, checkpoint, outputs, process, holder, at, local>>

ReceiptOfSuccess == pc = "publish" /\ left = {} /\ WriteReceipt("SUCCEEDED")
ReceiptOfFailure == pc = "fail" /\ WriteReceipt("FAILED")

\* Bug: the verification commands alone decide.
ReturnAnyway ==
  /\ pc = "return"
  /\ \E result \in {"SUCCEEDED", "FAILED"} : Settles(result)

\* The receipt decides; after a success verification commands of the step
\* may still fail it.
Return ==
  /\ pc = "return"
  /\ \E result \in {receipt[at], "FAILED"} : Settles(result)

\* Anything else that throws: reads, writes, the inputs.  What the engine
\* throws before the step is started or after it returned, nobody catches.
Throw ==
  \/ /\ \/ pc \in {"receipt", "request", "outputs", "begin", "fail"}
        \/ pc = "complete" /\ exit = "threw"
        \/ pc = "publish" /\ left = {}
     /\ Settles("FAILED")
  \/ /\ pc \in {"recover", "return"}
     /\ Ends
     /\ UNCHANGED <<stateFile, store, outputs, process>>

(***************************************************************************)
(* The surroundings.                                                       *)
(***************************************************************************)

\* A running command, or one that its caller left running, writes.
CommandWrites ==
  /\ \E a \in Attempt, o \in Output \cup {Undeclared} :
       command[a] = "running" /\ staged' = [staged EXCEPT ![a] = @ \cup {o}]
  /\ UNCHANGED <<stateFile, store, published, process, holder, pc, at, local>>

OrphanEnds ==
  /\ \E a \in Attempt :
       /\ command[a] = "running" /\ ~(pc = "run" /\ at = a)
       /\ command' = [command EXCEPT ![a] = "ended"]
  /\ UNCHANGED <<stateFile, store, outputs, started, holder, pc, at, local>>

\* The caller is killed; its command is not.  The stale run lock is recovered
\* by hand.
Kill ==
  /\ holder # "nobody"
  /\ Ends
  /\ UNCHANGED <<stateFile, store, outputs, process>>

\* dokion reset between two commands: run id and invocations stay.
Reset ==
  /\ holder = "nobody"
  /\ step' = "PENDING" /\ attempt' = 0
  /\ UNCHANGED <<store, outputs, process, holder, pc, at, local>>

InvocationNext ==
  \/ Resume \/ RecoverStarted \/ StartStep \/ Verify
  \/ FindReceipt \/ PersistRequest \/ OutputsAreEmpty \/ OutputsAreNot
  \/ Begin \/ ReplayRefused \/ Spawn \/ SpawnRefused \/ CommandEnds \/ Complete
  \/ CompletionFails \/ ValidateOutputs \/ OutputsInvalid \/ Materialize
  \/ ReceiptOfSuccess \/ ReceiptOfFailure \/ Return \/ Throw
  \/ CommandWrites \/ OrphanEnds \/ Kill \/ Reset

InvocationSpec == InvocationInit /\ [][InvocationNext]_invocationVars

-----------------------------------------------------------------------------
InvocationTypeOK ==
  /\ step \in {"PENDING", "IN_PROGRESS", "SUCCEEDED", "FAILED"}
  /\ attempt \in 0..MaxAttempts
  /\ request \subseteq Attempt /\ started \subseteq Attempt
  /\ checkpoint \in [Attempt -> {"none", "STARTED", "STARTED_UNKNOWN", "COMPLETED", "FAILED"}]
  /\ receipt \in [Attempt -> {"none", "SUCCEEDED", "FAILED"}]
  /\ staged \in [Attempt -> SUBSET (Output \cup {Undeclared})]
  /\ published \in [Output -> 0..MaxAttempts]
  /\ command \in [Attempt -> {"none", "running", "ended"}]
  /\ holder \in {"nobody", "engine", "verify"}
  /\ pc \in Labels /\ at \in Attempt
  /\ exit \in {"none", "zero", "other", "threw"}
  /\ left \subseteq Output
  /\ (step \in {"IN_PROGRESS", "SUCCEEDED"} => attempt > 0)

\* The engine never starts the command of an invocation a second time: not
\* after a kill, and not after a verify was killed in it.
EngineStartsOnce == holder = "engine" /\ pc = "spawn" => at \notin started

\* The intent of a command is on disk before the command runs, and its result
\* before the receipt.
IntentThenResult ==
  \A a \in Attempt :
    /\ a \in started => a \in request /\ checkpoint[a] # "none"
    /\ receipt[a] # "none" => checkpoint[a] \in {"COMPLETED", "FAILED"}

\* A receipt of success is of an invocation whose command succeeded and which
\* published every output of the step itself.
ReceiptIsTrue ==
  \A a \in Attempt :
    receipt[a] = "SUCCEEDED" =>
      checkpoint[a] = "COMPLETED" /\ \A o \in Output : published[o] = a

\* What the steps after this one read is of the attempt that succeeded, never
\* a leftover of another one.
SucceededIsPublished ==
  step = "SUCCEEDED" =>
    receipt[attempt] = "SUCCEEDED" /\ \A o \in Output : published[o] = attempt
=============================================================================
