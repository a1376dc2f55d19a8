-------------------------- MODULE MCStageExecution --------------------------
(* Executions of a stage of two steps that requires an output which only a *)
(* step can write.  A step leaves its files alone and ends well or not,    *)
(* writes the output and removes the metadata, asks for a block or breaks  *)
(* the working result.                                                     *)
EXTENDS StageExecution

Kept == [file |-> "kept"]
Wrote(status, complete) == [file |-> "written", status |-> status, complete |-> complete]
Leaves(code, result, meta) == [exitCode |-> code, result |-> result, meta |-> meta]

MCStepOutcomes ==
  {Leaves(0, Kept, "kept"), Leaves(1, Kept, "kept"),
   Leaves(0, Wrote("succeeded", TRUE), "removed"),
   Leaves(0, Wrote("blocked", FALSE), "kept"), Leaves(0, [file |-> "broken"], "kept")}
=============================================================================
