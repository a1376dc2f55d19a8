------------------------------ MODULE MCLeases ------------------------------
(* Claims, heartbeats, completion and recovery: a run of three stages that    *)
(* need overlapping locks, two workers and every failure.                     *)
EXTENDS ControlPlane, TLC

CONSTANTS app, doc, w1, w2

MCAlphabet == <<"generate", "implement", "release">>

Stage(keys) ==
    [ deps |-> {}, auto |-> TRUE, approval |-> FALSE, checkpoint |-> "none",
      rollbackStage |-> NoStage, policy |-> "none", autoRollback |-> FALSE,
      onFailure |-> {}, onSuccess |-> {}, parallelism |-> 2, keys |-> keys ]

MCPlans == {[generate |-> Stage(<<app, doc>>), implement |-> Stage(<<app>>),
             release |-> Stage(<<doc>>)]}
MCKeys == {app, doc}
MCWorkers == {w1, w2}
MCWorkerStages == [w \in MCWorkers |-> {"generate", "implement", "release"}]
MCResults == {"succeeded", "failed"}
WorkerSymmetry == Permutations(MCWorkers)
=============================================================================
