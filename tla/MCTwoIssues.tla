---------------------------- MODULE MCTwoIssues -----------------------------
(* Two issues, so that one reconciliation handles several runs, one of which  *)
(* may not have a plan yet.                                                   *)
EXTENDS ControlPlane, TLC

CONSTANTS app, i1, i2, w1, w2

MCAlphabet == <<"implement">>

MCPlans ==
    {[implement |-> [ deps |-> {}, auto |-> TRUE, approval |-> FALSE,
        checkpoint |-> "completed", rollbackStage |-> NoStage, policy |-> "none",
        autoRollback |-> FALSE, onFailure |-> {}, onSuccess |-> {},
        parallelism |-> 1, keys |-> <<app>> ]]}
MCKeys == {app}
MCIssues == {i1, i2}
MCWorkers == {w1, w2}
MCWorkerStages == [w \in Workers |-> Stages]
PartySymmetry == Permutations(MCIssues) \cup Permutations(MCWorkers)
=============================================================================
