----------------------------- MODULE MCProgress -----------------------------
(* Progress: two stages that compete for one lock and a closing stage, with   *)
(* crashes and failing operations for a while.                                *)
EXTENDS ControlPlane

CONSTANT app

MCAlphabet == <<"closeout", "generate", "implement">>

Stage(deps, checkpoint, keys) ==
    [ deps |-> deps, auto |-> TRUE, approval |-> FALSE, checkpoint |-> checkpoint,
      rollbackStage |-> NoStage, policy |-> "none", autoRollback |-> FALSE,
      onFailure |-> {}, onSuccess |-> {}, parallelism |-> 1, keys |-> keys ]

MCPlans == {[generate  |-> Stage({}, "none", <<app>>),
             implement |-> Stage({}, "none", <<app>>),
             closeout  |-> Stage({"generate", "implement"}, "completed", << >>)]}
MCKeys == {app}
MCWorkerStages == [w \in Workers |-> Stages]
=============================================================================
