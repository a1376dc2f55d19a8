----------------------------- MODULE MCDelivery -----------------------------
(* Scheduling: the shape of the shipped stage graph with one stage for each  *)
(* role.  security and test run side by side; observe_dev joins them,        *)
(* observe_dev checkpoints the approval wait and has a rollback plan;        *)
(* promote_prod needs the approval; closeout completes the run.  The rollback *)
(* stages name what triggers them, which those of stage-specs/ do not: so     *)
(* that they run here, beside the stages that wait (MCRollback has theirs).   *)
EXTENDS ControlPlane, TLC

CONSTANT w1, w2

MCAlphabet == <<"closeout", "observe_dev", "observe_rollback_dev",
                "promote_prod", "rollback_dev", "security", "test">>

Stage(deps) ==
    [ deps |-> deps, auto |-> TRUE, approval |-> FALSE, checkpoint |-> "none",
      rollbackStage |-> NoStage, policy |-> "none", autoRollback |-> FALSE,
      onFailure |-> {}, onSuccess |-> {}, parallelism |-> 1, keys |-> << >> ]

Triggered(dep) == [Stage({dep}) EXCEPT !.auto = FALSE, !.autoRollback = TRUE]

MCPlans ==
    {[security             |-> Stage({}),
      test                 |-> Stage({}),
      observe_dev          |-> [Stage({"security", "test"}) EXCEPT
                                  !.checkpoint = "awaiting_approval",
                                  !.rollbackStage = "rollback_dev",
                                  !.policy = "app_auto_rollback",
                                  !.autoRollback = TRUE],
      promote_prod         |-> [Stage({"observe_dev"}) EXCEPT !.approval = TRUE],
      closeout             |-> [Stage({"promote_prod"}) EXCEPT !.checkpoint = "completed"],
      rollback_dev         |-> [Triggered("observe_dev") EXCEPT
                                  !.onFailure = {"observe_dev"},
                                  !.policy = "app_auto_rollback"],
      observe_rollback_dev |-> [Triggered("rollback_dev") EXCEPT
                                  !.onSuccess = {"rollback_dev"},
                                  !.checkpoint = "failed"]]}

MCWorkers == {w1, w2}
MCWorkerStages == [w \in Workers |-> Stages]
MCResults == {"succeeded", "blocked", "failed"}
WorkerSymmetry == Permutations(MCWorkers)
=============================================================================
