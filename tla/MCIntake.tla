------------------------------ MODULE MCIntake ------------------------------
(* Intake and materialization: one issue, two requests at a time, a plan      *)
(* that a stage report or a second materialization may replace, and failing   *)
(* requests and reconciliations.                                              *)
EXTENDS ControlPlane, TLC

CONSTANTS c1, c2

MCAlphabet == <<"plan", "release">>

Stage(deps, checkpoint) ==
    [ deps |-> deps, auto |-> TRUE, approval |-> FALSE, checkpoint |-> checkpoint,
      rollbackStage |-> NoStage, policy |-> "none", autoRollback |-> FALSE,
      onFailure |-> {}, onSuccess |-> {}, parallelism |-> 0, keys |-> << >> ]

MCPlans == {[plan |-> Stage({}, "awaiting_approval"),
             release |-> Stage({"plan"}, "completed")],
            [release |-> Stage({}, "completed")]}
MCClients == {c1, c2}
ClientSymmetry == Permutations(MCClients)
MCWorkerStages == [w \in Workers |-> Stages]
=============================================================================
