------------------------- MODULE Invocation_proofs --------------------------
(***************************************************************************)
(* Proofs about module Invocation: for any number of attempts and outputs, *)
(* with kills, commands that outlive their caller, and resets.             *)
(***************************************************************************)
EXTENDS Invocation, TLAPS

\* The attempt at work is within the bound, the lock is held exactly while
\* somebody is at work, and the engine is at the recorded attempt.
InBounds ==
  /\ InvocationTypeOK
  /\ (holder = "nobody" <=> pc = "idle")
  /\ (pc = "recover" /\ step # "IN_PROGRESS" => attempt < MaxAttempts)
  /\ (pc = "recover" => holder = "engine" /\ step # "SUCCEEDED")
  /\ (holder = "engine" /\ pc # "recover" => step = "IN_PROGRESS" /\ at = attempt)
  /\ (pc = "return" => receipt[at] # "none")

LEMMA BoundsInit == InvocationInit => InBounds
<1> SUFFICES ASSUME InvocationInit PROVE InBounds
  OBVIOUS
<1>1. /\ 0 \in 0..MaxAttempts /\ 1 \in Attempt
  BY InvocationAssumption DEF Attempt
<1>2. /\ checkpoint \in [Attempt -> {"none", "STARTED", "STARTED_UNKNOWN", "COMPLETED", "FAILED"}]
      /\ receipt \in [Attempt -> {"none", "SUCCEEDED", "FAILED"}]
      /\ command \in [Attempt -> {"none", "running", "ended"}]
      /\ staged \in [Attempt -> SUBSET (Output \cup {Undeclared})]
  BY DEF InvocationInit
<1>3. published \in [Output -> 0..MaxAttempts]
  BY <1>1 DEF InvocationInit
<1> QED
  BY <1>1, <1>2, <1>3 DEF InvocationInit, InBounds, InvocationTypeOK, Labels

LEMMA BoundsNext == InBounds /\ [InvocationNext]_invocationVars => InBounds'
<1> SUFFICES ASSUME InBounds, [InvocationNext]_invocationVars PROVE InBounds'
  OBVIOUS
<1>0. 1 \in Attempt /\ 0 \in 0..MaxAttempts /\ 0 \notin Attempt /\ Attempt \subseteq 0..MaxAttempts
  BY InvocationAssumption DEF Attempt
<1> USE DEF InBounds, InvocationTypeOK, Labels, stateFile, store, outputs, process, local, From, Ends
<1>1. CASE Resume
  BY <1>0, <1>1 DEF Resume
<1>2. CASE RecoverStarted
  BY <1>0, <1>2 DEF RecoverStarted
<1>3. CASE StartStep
  <2>1. attempt' \in Attempt /\ attempt' \in 0..MaxAttempts /\ attempt' > 0
    BY <1>3, InvocationAssumption DEF StartStep, nextExecutionAttempt, Attempt
  <2> QED
    BY <1>3, <2>1 DEF StartStep
<1>4. CASE Verify
  BY <1>0, <1>4 DEF Verify
<1>5. CASE FindReceipt
  BY <1>0, <1>5 DEF FindReceipt
<1>6. CASE PersistRequest
  BY <1>0, <1>6 DEF PersistRequest
<1>7. CASE OutputsAreEmpty
  BY <1>0, <1>7 DEF OutputsAreEmpty
<1>8. CASE OutputsAreNot
  BY <1>0, <1>8 DEF OutputsAreNot, Settles
<1>9. CASE Begin
  BY <1>0, <1>9 DEF Begin
<1>10. CASE ReplayRefused
  BY <1>0, <1>10 DEF ReplayRefused, Settles
<1>11. CASE Spawn
  BY <1>0, <1>11 DEF Spawn
<1>12. CASE SpawnRefused
  BY <1>0, <1>12 DEF SpawnRefused
<1>13. CASE CommandEnds
  BY <1>0, <1>13 DEF CommandEnds
<1>14. CASE Complete
  BY <1>0, <1>14 DEF Complete
<1>15. CASE CompletionFails
  BY <1>0, <1>15 DEF CompletionFails
<1>16. CASE ValidateOutputs
  BY <1>0, <1>16 DEF ValidateOutputs
<1>17. CASE OutputsInvalid
  BY <1>0, <1>17 DEF OutputsInvalid
<1>18. CASE Materialize
  BY <1>0, <1>18 DEF Materialize
<1>19. CASE ReceiptOfSuccess \/ ReceiptOfFailure
  <2>1. receipt' \in [Attempt -> {"none", "SUCCEEDED", "FAILED"}] /\ receipt'[at] # "none"
    BY <1>19 DEF ReceiptOfSuccess, ReceiptOfFailure, WriteReceipt
  <2> QED
    BY <1>19, <2>1 DEF ReceiptOfSuccess, ReceiptOfFailure, WriteReceipt
<1>20. CASE Return
  <2>1. PICK result \in {receipt[at], "FAILED"} : Settles(result)
    BY <1>20 DEF Return
  <2>2. result \in {"SUCCEEDED", "FAILED"}
    BY <1>20 DEF Return
  <2>3. holder = "engine" => attempt > 0
    BY <1>20 DEF Return
  <2> QED
    BY <1>0, <1>20, <2>1, <2>2, <2>3 DEF Return, Settles
<1>21. CASE Throw
  BY <1>0, <1>21 DEF Throw, Settles
<1>22. CASE CommandWrites
  BY <1>0, <1>22 DEF CommandWrites
<1>23. CASE OrphanEnds
  BY <1>0, <1>23 DEF OrphanEnds
<1>24. CASE Kill
  BY <1>0, <1>24 DEF Kill
<1>25. CASE Reset
  BY <1>0, <1>25 DEF Reset
<1>26. CASE UNCHANGED invocationVars
  BY <1>26 DEF invocationVars
<1> QED
  BY <1>1, <1>2, <1>3, <1>4, <1>5, <1>6, <1>7, <1>8, <1>9, <1>10, <1>11, <1>12, <1>13, <1>14, <1>15, <1>16, <1>17, <1>18, <1>19, <1>20, <1>21, <1>22, <1>23, <1>24, <1>25, <1>26 DEF InvocationNext

\* The types of the state file, of the files of the invocations and of the
\* engine's position.
THEOREM TypeCorrect == InvocationSpec => []InvocationTypeOK
<1>1. InBounds => InvocationTypeOK
  BY DEF InBounds
<1> QED
  BY <1>1, BoundsInit, BoundsNext, PTL DEF InvocationSpec

-----------------------------------------------------------------------------
\* What is on disk about the invocation at work, at every step of its caller.
RecordsInOrder ==
  /\ IntentThenResult
  /\ (pc \in {"outputs", "begin"} => at \in request)
  /\ (pc \in {"spawn", "run", "complete"} => at \in request /\ checkpoint[at] = "STARTED")
  /\ (pc \in {"validate", "publish"} => checkpoint[at] = "COMPLETED")
  /\ (pc = "fail" => checkpoint[at] \in {"COMPLETED", "FAILED"})
  /\ (pc \in {"request", "outputs", "begin", "spawn", "run", "complete", "validate",
              "publish", "fail"} => receipt[at] = "none")

LEMMA RecordsInOrderInit == InvocationInit => RecordsInOrder
  BY DEF InvocationInit, RecordsInOrder, IntentThenResult

LEMMA RecordsInOrderNext == InBounds /\ RecordsInOrder /\ [InvocationNext]_invocationVars => RecordsInOrder'
<1> SUFFICES ASSUME InBounds, RecordsInOrder, [InvocationNext]_invocationVars PROVE RecordsInOrder'
  OBVIOUS
<1> USE DEF InBounds, InvocationTypeOK, Labels, stateFile, store, outputs, process, local, From, Ends, RecordsInOrder,
        IntentThenResult
<1>1. CASE Resume
  BY <1>1 DEF Resume
<1>2. CASE RecoverStarted
  BY <1>2 DEF RecoverStarted
<1>3. CASE StartStep
  BY <1>3 DEF StartStep
<1>4. CASE Verify
  BY <1>4 DEF Verify
<1>5. CASE FindReceipt
  BY <1>5 DEF FindReceipt
<1>6. CASE PersistRequest
  BY <1>6 DEF PersistRequest
<1>7. CASE OutputsAreEmpty
  BY <1>7 DEF OutputsAreEmpty
<1>8. CASE OutputsAreNot
  BY <1>8 DEF OutputsAreNot, Settles
<1>9. CASE Begin
  BY <1>9 DEF Begin, ReplaySafe
<1>10. CASE ReplayRefused
  BY <1>10 DEF ReplayRefused, Settles
<1>11. CASE Spawn
  BY <1>11 DEF Spawn
<1>12. CASE SpawnRefused
  BY <1>12 DEF SpawnRefused
<1>13. CASE CommandEnds
  BY <1>13 DEF CommandEnds
<1>14. CASE Complete
  BY <1>14 DEF Complete
<1>15. CASE CompletionFails
  BY <1>15 DEF CompletionFails
<1>16. CASE ValidateOutputs
  BY <1>16 DEF ValidateOutputs
<1>17. CASE OutputsInvalid
  BY <1>17 DEF OutputsInvalid
<1>18. CASE Materialize
  BY <1>18 DEF Materialize
<1>19. CASE ReceiptOfSuccess
  BY <1>19 DEF ReceiptOfSuccess, WriteReceipt
<1>20. CASE ReceiptOfFailure
  BY <1>20 DEF ReceiptOfFailure, WriteReceipt
<1>21. CASE Return
  BY <1>21 DEF Return, Settles
<1>22. CASE Throw
  BY <1>22 DEF Throw, Settles
<1>23. CASE CommandWrites
  BY <1>23 DEF CommandWrites
<1>24. CASE OrphanEnds
  BY <1>24 DEF OrphanEnds
<1>25. CASE Kill
  BY <1>25 DEF Kill
<1>26. CASE Reset
  BY <1>26 DEF Reset
<1>27. CASE UNCHANGED invocationVars
  BY <1>27 DEF invocationVars
<1> QED
  BY <1>1, <1>2, <1>3, <1>4, <1>5, <1>6, <1>7, <1>8, <1>9, <1>10, <1>11, <1>12, <1>13,
     <1>14, <1>15, <1>16, <1>17, <1>18, <1>19, <1>20, <1>21, <1>22, <1>23, <1>24,
     <1>25, <1>26, <1>27 DEF InvocationNext

\* The intent of a command is on disk before it runs and its result before the
\* receipt: what recoverStartedSideEffects and the next attempt rely on.
THEOREM IntentBeforeResult == InvocationSpec => []IntentThenResult
<1>1. RecordsInOrder => IntentThenResult
  BY DEF RecordsInOrder
<1> QED
  BY <1>1, BoundsInit, BoundsNext, RecordsInOrderInit, RecordsInOrderNext, PTL DEF InvocationSpec

-----------------------------------------------------------------------------
\* What the caller has ticked off is published by the invocation at work.
Published ==
  /\ ReceiptIsTrue
  /\ (pc = "publish" => \A o \in Output \ left : published[o] = at)

LEMMA PublishedInit == InvocationInit => Published
  BY DEF InvocationInit, Published, ReceiptIsTrue

LEMMA PublishedNext == InBounds /\ RecordsInOrder /\ Published /\ [InvocationNext]_invocationVars => Published'
<1> SUFFICES ASSUME InBounds, RecordsInOrder, Published, [InvocationNext]_invocationVars PROVE Published'
  OBVIOUS
<1> USE DEF InBounds, InvocationTypeOK, Labels, stateFile, store, outputs, process, local, From, Ends, Published,
        ReceiptIsTrue
<1>1. CASE Resume
  BY <1>1 DEF Resume
<1>2. CASE RecoverStarted
  BY <1>2 DEF RecoverStarted
<1>3. CASE StartStep
  BY <1>3 DEF StartStep
<1>4. CASE Verify
  BY <1>4 DEF Verify
<1>5. CASE FindReceipt
  BY <1>5 DEF FindReceipt
<1>6. CASE PersistRequest
  BY <1>6 DEF PersistRequest
<1>7. CASE OutputsAreEmpty
  BY <1>7 DEF OutputsAreEmpty
<1>8. CASE OutputsAreNot
  BY <1>8 DEF OutputsAreNot, Settles
<1>9. CASE Begin
  BY <1>9 DEF Begin, ReplaySafe, RecordsInOrder
<1>10. CASE ReplayRefused
  BY <1>10 DEF ReplayRefused, Settles
<1>11. CASE Spawn
  BY <1>11 DEF Spawn
<1>12. CASE SpawnRefused
  BY <1>12 DEF SpawnRefused
<1>13. CASE CommandEnds
  BY <1>13 DEF CommandEnds
<1>14. CASE Complete
  BY <1>14 DEF Complete, RecordsInOrder
<1>15. CASE CompletionFails
  BY <1>15 DEF CompletionFails
<1>16. CASE ValidateOutputs
  BY <1>16 DEF ValidateOutputs
<1>17. CASE OutputsInvalid
  BY <1>17 DEF OutputsInvalid
<1>18. CASE Materialize
  <2>1. PICK o \in left :
         \/ published[o] = 0 /\ published' = [published EXCEPT ![o] = at] /\ left' = left \ {o}
         \/ OwnBinding(o) /\ published' = published /\ left' = left \ {o}
         \/ published' = published /\ pc' = "fail"
    BY <1>18 DEF Materialize
  <2>2. \A a \in Attempt : a # 0
    BY InvocationAssumption DEF Attempt
  <2> QED
    BY <1>18, <2>1, <2>2 DEF Materialize, OwnBinding
<1>19. CASE ReceiptOfSuccess
  <2>1. checkpoint[at] = "COMPLETED" /\ \A o \in Output : published[o] = at
    BY <1>19 DEF ReceiptOfSuccess, RecordsInOrder
  <2> QED
    BY <1>19, <2>1 DEF ReceiptOfSuccess, WriteReceipt
<1>20. CASE ReceiptOfFailure
  BY <1>20 DEF ReceiptOfFailure, WriteReceipt
<1>21. CASE Return
  BY <1>21 DEF Return, Settles
<1>22. CASE Throw
  BY <1>22 DEF Throw, Settles
<1>23. CASE CommandWrites
  BY <1>23 DEF CommandWrites
<1>24. CASE OrphanEnds
  BY <1>24 DEF OrphanEnds
<1>25. CASE Kill
  BY <1>25 DEF Kill
<1>26. CASE Reset
  BY <1>26 DEF Reset
<1>27. CASE UNCHANGED invocationVars
  BY <1>27 DEF invocationVars
<1> QED
  BY <1>1, <1>2, <1>3, <1>4, <1>5, <1>6, <1>7, <1>8, <1>9, <1>10, <1>11, <1>12, <1>13,
     <1>14, <1>15, <1>16, <1>17, <1>18, <1>19, <1>20, <1>21, <1>22, <1>23, <1>24,
     <1>25, <1>26, <1>27 DEF InvocationNext

\* A receipt of success: the command succeeded and every output names its
\* invocation, whatever was killed and whatever other attempts published.
THEOREM ReceiptsAreTrue == InvocationSpec => []ReceiptIsTrue
<1>1. Published => ReceiptIsTrue
  BY DEF Published
<1> QED
  BY <1>1, BoundsInit, BoundsNext, RecordsInOrderInit, RecordsInOrderNext, PublishedInit, PublishedNext,
     PTL DEF InvocationSpec

LEMMA SucceededInit == InvocationInit => SucceededIsPublished
  BY DEF InvocationInit, SucceededIsPublished

LEMMA SucceededNext == InBounds /\ Published /\ SucceededIsPublished /\ [InvocationNext]_invocationVars => SucceededIsPublished'
<1> SUFFICES ASSUME InBounds, Published, SucceededIsPublished, [InvocationNext]_invocationVars PROVE SucceededIsPublished'
  OBVIOUS
<1> USE DEF InBounds, InvocationTypeOK, Labels, stateFile, store, outputs, process, local, From, Ends, SucceededIsPublished
<1>1. CASE Resume
  BY <1>1 DEF Resume
<1>2. CASE RecoverStarted
  BY <1>2 DEF RecoverStarted
<1>3. CASE StartStep
  BY <1>3 DEF StartStep
<1>4. CASE Verify
  BY <1>4 DEF Verify
<1>5. CASE FindReceipt
  BY <1>5 DEF FindReceipt
<1>6. CASE PersistRequest
  BY <1>6 DEF PersistRequest
<1>7. CASE OutputsAreEmpty
  BY <1>7 DEF OutputsAreEmpty
<1>8. CASE OutputsAreNot
  BY <1>8 DEF OutputsAreNot, Settles
<1>9. CASE Begin
  BY <1>9 DEF Begin, ReplaySafe
<1>10. CASE ReplayRefused
  BY <1>10 DEF ReplayRefused, Settles
<1>11. CASE Spawn
  BY <1>11 DEF Spawn
<1>12. CASE SpawnRefused
  BY <1>12 DEF SpawnRefused
<1>13. CASE CommandEnds
  BY <1>13 DEF CommandEnds
<1>14. CASE Complete
  BY <1>14 DEF Complete
<1>15. CASE CompletionFails
  BY <1>15 DEF CompletionFails
<1>16. CASE ValidateOutputs
  BY <1>16 DEF ValidateOutputs
<1>17. CASE OutputsInvalid
  BY <1>17 DEF OutputsInvalid
<1>18. CASE Materialize
  <2>1. \A a \in Attempt : a # 0
    BY InvocationAssumption DEF Attempt
  <2>2. step = "SUCCEEDED" => attempt \in Attempt
    BY InvocationAssumption DEF Attempt
  <2>3. \A o \in Output : published[o] # 0 => published'[o] = published[o]
    BY <1>18 DEF Materialize
  <2> QED
    BY <1>18, <2>1, <2>2, <2>3 DEF Materialize
<1>19. CASE ReceiptOfSuccess
  <2>1. step = "SUCCEEDED" => attempt \in Attempt
    BY InvocationAssumption DEF Attempt
  <2> QED
    BY <1>19, <2>1 DEF ReceiptOfSuccess, WriteReceipt
<1>20. CASE ReceiptOfFailure
  <2>1. step = "SUCCEEDED" => attempt \in Attempt
    BY InvocationAssumption DEF Attempt
  <2> QED
    BY <1>20, <2>1 DEF ReceiptOfFailure, WriteReceipt
<1>21. CASE Return
  <2>1. PICK result \in {receipt[at], "FAILED"} : Settles(result)
    BY <1>21 DEF Return
  <2>2. CASE holder = "engine" /\ result = "SUCCEEDED"
    <3>1. receipt[attempt] = "SUCCEEDED" /\ attempt \in Attempt
      BY <1>21, <2>1, <2>2 DEF Return
    <3>2. \A o \in Output : published[o] = attempt
      BY <3>1 DEF Published, ReceiptIsTrue
    <3> QED
      BY <2>1, <3>1, <3>2 DEF Settles
  <2>3. CASE ~(holder = "engine" /\ result = "SUCCEEDED")
    BY <1>21, <2>1, <2>3 DEF Settles, Return
  <2> QED
    BY <2>2, <2>3
<1>22. CASE Throw
  BY <1>22 DEF Throw, Settles
<1>23. CASE CommandWrites
  BY <1>23 DEF CommandWrites
<1>24. CASE OrphanEnds
  BY <1>24 DEF OrphanEnds
<1>25. CASE Kill
  BY <1>25 DEF Kill
<1>26. CASE Reset
  BY <1>26 DEF Reset
<1>27. CASE UNCHANGED invocationVars
  BY <1>27 DEF invocationVars
<1> QED
  BY <1>1, <1>2, <1>3, <1>4, <1>5, <1>6, <1>7, <1>8, <1>9, <1>10, <1>11, <1>12, <1>13,
     <1>14, <1>15, <1>16, <1>17, <1>18, <1>19, <1>20, <1>21, <1>22, <1>23, <1>24,
     <1>25, <1>26, <1>27 DEF InvocationNext

\* A step that succeeded left exactly what its own attempt produced.
THEOREM SuccessIsPublished == InvocationSpec => []SucceededIsPublished
  BY BoundsInit, BoundsNext, RecordsInOrderInit, RecordsInOrderNext, PublishedInit, PublishedNext,
     SucceededInit, SucceededNext, PTL DEF InvocationSpec

-----------------------------------------------------------------------------
\* The engine never comes to a checkpoint that may be replayed.
Recovered ==
  /\ EngineStartsOnce
  /\ holder = "engine" /\ pc \in {"receipt", "request", "outputs", "begin"}
       => checkpoint[at] # "STARTED"

LEMMA RecoveredInit == InvocationInit => Recovered
  BY DEF InvocationInit, Recovered, EngineStartsOnce

LEMMA RecoveredNext == InBounds /\ RecordsInOrder /\ Recovered /\ [InvocationNext]_invocationVars => Recovered'
<1> SUFFICES ASSUME InBounds, RecordsInOrder, Recovered, [InvocationNext]_invocationVars PROVE Recovered'
  OBVIOUS
<1> USE DEF InBounds, InvocationTypeOK, Labels, stateFile, store, outputs, process, local, From, Ends, Recovered,
        EngineStartsOnce
<1>1. CASE Resume
  BY <1>1 DEF Resume
<1>2. CASE RecoverStarted
  BY <1>2 DEF RecoverStarted
<1>3. CASE StartStep
  <2>1. at' \in Attempt
    BY <1>3, BoundsNext
  <2> QED
    BY <1>3, <2>1 DEF StartStep, AllRecovered
<1>4. CASE Verify
  BY <1>4 DEF Verify
<1>5. CASE FindReceipt
  BY <1>5 DEF FindReceipt
<1>6. CASE PersistRequest
  BY <1>6 DEF PersistRequest
<1>7. CASE OutputsAreEmpty
  BY <1>7 DEF OutputsAreEmpty
<1>8. CASE OutputsAreNot
  BY <1>8 DEF OutputsAreNot, Settles
<1>9. CASE Begin
  BY <1>9 DEF Begin, ReplaySafe, RecordsInOrder, IntentThenResult
<1>10. CASE ReplayRefused
  BY <1>10 DEF ReplayRefused, Settles
<1>11. CASE Spawn
  BY <1>11 DEF Spawn
<1>12. CASE SpawnRefused
  BY <1>12 DEF SpawnRefused
<1>13. CASE CommandEnds
  BY <1>13 DEF CommandEnds
<1>14. CASE Complete
  BY <1>14 DEF Complete
<1>15. CASE CompletionFails
  BY <1>15 DEF CompletionFails
<1>16. CASE ValidateOutputs
  BY <1>16 DEF ValidateOutputs
<1>17. CASE OutputsInvalid
  BY <1>17 DEF OutputsInvalid
<1>18. CASE Materialize
  BY <1>18 DEF Materialize
<1>19. CASE ReceiptOfSuccess
  BY <1>19 DEF ReceiptOfSuccess, WriteReceipt
<1>20. CASE ReceiptOfFailure
  BY <1>20 DEF ReceiptOfFailure, WriteReceipt
<1>21. CASE Return
  BY <1>21 DEF Return, Settles
<1>22. CASE Throw
  BY <1>22 DEF Throw, Settles
<1>23. CASE CommandWrites
  BY <1>23 DEF CommandWrites
<1>24. CASE OrphanEnds
  BY <1>24 DEF OrphanEnds
<1>25. CASE Kill
  BY <1>25 DEF Kill
<1>26. CASE Reset
  BY <1>26 DEF Reset
<1>27. CASE UNCHANGED invocationVars
  BY <1>27 DEF invocationVars
<1> QED
  BY <1>1, <1>2, <1>3, <1>4, <1>5, <1>6, <1>7, <1>8, <1>9, <1>10, <1>11, <1>12, <1>13,
     <1>14, <1>15, <1>16, <1>17, <1>18, <1>19, <1>20, <1>21, <1>22, <1>23, <1>24,
     <1>25, <1>26, <1>27 DEF InvocationNext

\* The engine starts the command of an attempt once, whoever was killed in it.
THEOREM CommandsStartOnce == InvocationSpec => []EngineStartsOnce
<1>1. Recovered => EngineStartsOnce
  BY DEF Recovered
<1> QED
  BY <1>1, BoundsInit, BoundsNext, RecordsInOrderInit, RecordsInOrderNext, RecoveredInit, RecoveredNext,
     PTL DEF InvocationSpec
=============================================================================
