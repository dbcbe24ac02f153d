-------------------------- MODULE MCRuntimeEngine --------------------------
(***************************************************************************)
(* Playbooks for model checking RuntimeEngine: two stages, three steps.    *)
(***************************************************************************)
EXTENDS RuntimeEngine, TLC

\* Stage 1 holds steps 1 and 2, stage 2 holds step 3.
TwoStages == <<1, 3, 4>>
OneByOne == <<1, 2, 3>>
InSequence == [g \in Stage |-> 1..(g - 1)]
NeedsPrevious == [s \in Step |-> {s - 1} \ {0}]
NoConditions == [s \in Step |-> "NONE"]
NoStageConditions == [g \in Stage |-> "NONE"]
StopSecond == (1 :> "NONE") @@ (2 :> "STOP_STAGE")
StepPolicies == (1 :> "SKIP") @@ (2 :> "STOP_STAGE") @@ (3 :> "MARK_BLOCKED")
StagePolicies == (1 :> "STOP_STAGE") @@ (2 :> "MARK_BLOCKED")
=============================================================================
