----------------------------- MODULE MCRollback -----------------------------
(* The rollback path observe_dev -> rollback_dev -> observe_rollback_dev as   *)
(* the files under stage-specs/ specify it, in a delivery target that enables *)
(* automatic rollback: rollback_dev is triggered, and names no trigger.       *)
EXTENDS ControlPlane

MCAlphabet == <<"observe_dev", "observe_rollback_dev", "rollback_dev">>

Stage ==
    [ deps |-> {}, auto |-> TRUE, approval |-> FALSE, checkpoint |-> "none",
      rollbackStage |-> NoStage, policy |-> "none", autoRollback |-> TRUE,
      onFailure |-> {}, onSuccess |-> {}, parallelism |-> 1, keys |-> << >> ]

\* The stages before observe_dev, which promote to dev, have succeeded.
ShippedPlans ==
    {[observe_dev          |-> [Stage EXCEPT !.checkpoint = "awaiting_approval",
                                             !.rollbackStage = "rollback_dev",
                                             !.policy = "app_auto_rollback"],
      rollback_dev         |-> [Stage EXCEPT !.auto = FALSE, !.deps = {"observe_dev"}],
      observe_rollback_dev |-> [Stage EXCEPT !.auto = FALSE, !.deps = {"rollback_dev"},
                                             !.checkpoint = "failed"]]}

MCWorkerStages == [w \in Workers |-> Stages]
=============================================================================
