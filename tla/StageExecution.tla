--------------------------- MODULE StageExecution ---------------------------
(***************************************************************************)
(* The execution of ONE stage attempt: the worker's StageExecutor          *)
(* (internal/runner/runner.go) and the runtime in the stage's container    *)
(* (tooling/runtime/single_plane.go), which talk only through files of the *)
(* workspace <data>/workspaces/<run>/<stage>.  An attempt whose lease ends *)
(* is handed out again (see ControlPlane), and every execution of it uses  *)
(* the same workspace, which nobody ever clears: a later execution meets   *)
(* the files of an earlier one, whose container may even be running still, *)
(* because "docker run" does not end with the worker.                      *)
(***************************************************************************)
EXTENDS Naturals, Sequences

CONSTANTS Executions,     \* how often the attempt is executed
          Steps,          \* the number of steps of the stage's operation plan
          ExpectedStatus, \* success_criteria.result_status, "" when not set
          StepOutputs,    \* TRUE if it requires outputs that only a step writes
          StepMetadata,   \* TRUE if it requires such report metadata
          StepOutcomes,   \* what a step may leave behind, see StepOutcome
          MaxFaults,      \* bound on what goes wrong: crashes, failed writes...
          None            \* a file that is not there

ASSUME BoundsAssumption ==
  Executions \in Nat /\ Steps \in Nat \ {0} /\ MaxFaults \in Nat
ASSUME CriteriaAssumption == StepOutputs \in BOOLEAN /\ StepMetadata \in BOOLEAN

Execution == 1 .. Executions

VARIABLES
  container, \* the runtime process of each execution
  executor,  \* the worker's call of ExecuteWithProgress for each execution
  stream,    \* what each execution's streamStageState knows of state.json
  workspace, \* state.json, result.json and report.json
  shared,    \* executions that were not alone: another one was on its way
  faults     \* how often something went wrong

vars == <<container, executor, stream, workspace, shared, faults>>

-----------------------------------------------------------------------------
(* The runtime's working data.  A transition is identified by its number   *)
(* within the execution; the metadata is typed as long as it is the Go     *)
(* value the runtime built and untyped once it was read back from JSON.    *)
(* "complete" says that what the stage requires of it is there.            *)

Statuses == {"succeeded", "failed", "blocked", "other"}
Result == [by : Execution, status : Statuses, complete : BOOLEAN]
StepLog == [step : 1 .. Steps, event : {"succeeded", "failed"}]

NoMeta == [transitions |-> <<>>, step_log |-> <<>>, typed |-> TRUE,
           complete |-> ~ StepMetadata]

recordTransition(meta, n) ==
  [meta EXCEPT !.transitions = IF meta.typed THEN Append(@, n) ELSE <<n>>, !.typed = TRUE]

\* mutant: metadata that was read back starts a new log
appendTypedLogs(meta, entry) ==
  [meta EXCEPT !.step_log = Append(IF meta.typed THEN @ ELSE <<>>, entry)]

\* Both forms of the log are continued: the raw entries are copied (their exit
\* codes, which are left out here, are not).
appendStepLogs(meta, entry) == [meta EXCEPT !.step_log = Append(@, entry)]

\* Reading the working metadata back after a step: a file the step removed is
\* skipped, otherwise the metadata is what was persisted before the step ran.
reload(meta, persisted, file) ==
  IF file = "removed" THEN meta
  ELSE [persisted EXCEPT !.typed = FALSE, !.complete = @ \/ file = "written"]

\* mutant: the summary and the signals are replaced and the status is forgotten
setFailedSignals(result) == result

setFailed(result) == [result EXCEPT !.status = "failed"]
failedResult(e) == [by |-> e, status |-> "failed", complete |-> FALSE]

-----------------------------------------------------------------------------
(* No two contents of state.json are equal (each has its time), so what a  *)
(* reader knows of it is only whether it is the current content or an      *)
(* older one: the content being examined, the one whose digest is kept and *)
(* the one that was reported.  Of the file itself it is enough to know     *)
(* whether it exists.                                                      *)

Fresh == [digest |-> "none", last |-> "none", told |-> "none"]
Outdated(k) == [x \in DOMAIN k |-> IF k[x] = "none" THEN "none" ELSE "old"]

NotStarted ==
  [pc |-> "none", step |-> 0, seq |-> 0, result |-> None,
   meta |-> NoMeta, persisted |-> NoMeta, exit |-> "none"]

Init ==
  /\ container = [e \in Execution |-> NotStarted]
  /\ executor = [e \in Execution |->
       [pc |-> "idle", result |-> None, report |-> None, status |-> "none"]]
  /\ stream = [e \in Execution |-> Fresh]
  /\ workspace = [state |-> FALSE, result |-> None, report |-> None]
  /\ shared = {}
  /\ faults = 0

Fault == faults < MaxFaults /\ faults' = faults + 1

Running(e) == container[e].pc \notin {"none", "exited"}
InProgress(e) == executor[e].pc \notin {"idle", "returned", "crashed"} \/ Running(e)

\* writeState ignores its error: the file keeps what it had.
writeState ==
  \/ /\ workspace' = [workspace EXCEPT !.state = TRUE]
     /\ stream' = [e \in Execution |-> Outdated(stream[e])]
     /\ UNCHANGED faults
  \/ Fault /\ UNCHANGED <<workspace, stream>>

(* execute gives up before it has working data: an unreadable or invalid   *)
(* contract, no steps, no work directory, working files not persisted.     *)
GiveUp(e) ==
  /\ container' = [container EXCEPT ![e].pc = "result", ![e].result = failedResult(e),
                                    ![e].meta = NoMeta]
  /\ Fault /\ UNCHANGED <<workspace, stream>>

LoadContract(e) ==
  /\ container[e].pc = "load"
  /\ \/ GiveUp(e)
     \/ /\ container' = [container EXCEPT ![e].pc = "step", ![e].step = 1, ![e].seq = 1,
             ![e].result = [by |-> e, status |-> "succeeded", complete |-> ~ StepOutputs],
             ![e].meta = recordTransition(NoMeta, 1)]
        /\ writeState
  /\ UNCHANGED <<executor, shared>>

BeginStep(e) ==
  LET c == container[e]
      n == c.seq + 1 IN
  /\ c.pc = "step"
  /\ \/ GiveUp(e)
     \/ /\ container' = [container EXCEPT ![e].pc = "command", ![e].seq = n,
             ![e].persisted = c.meta, ![e].meta = recordTransition(c.meta, n)]
        /\ writeState
  /\ UNCHANGED <<executor, shared>>

(* What a step leaves behind: its exit code, the working result (kept,     *)
(* which is also what a removed file amounts to, written or broken) and    *)
(* the working metadata, whose keys of the runtime's own it leaves alone.  *)
StepOutcome ==
  [exitCode : {0, 1}, meta : {"kept", "written", "removed", "broken"},
   result : [file : {"kept", "broken"}]
              \cup [file : {"written"}, status : Statuses, complete : BOOLEAN]]
ASSUME OutcomesAssumption == StepOutcomes \subseteq StepOutcome

Broken(out) == out.result.file = "broken" \/ out.meta = "broken"

\* mutant: one step too many
StepsLeftInclusive(c) == c.step <= Steps

StepsLeft(c) == c.step < Steps

\* The step's entry is the failure of the first check that fails; a broken
\* result leaves the metadata of before the step in place, and so does broken
\* metadata, after which the result the step wrote is already loaded.
AfterStep(c, out) ==
  LET result == IF out.result.file = "written"
                THEN [c.result EXCEPT !.status = out.result.status,
                                      !.complete = out.result.complete]
                ELSE c.result
      meta == IF Broken(out) THEN c.meta ELSE reload(c.meta, c.persisted, out.meta)
      good == out.exitCode = 0 /\ ~ Broken(out)
      entry == [step |-> c.step, event |-> IF good THEN "succeeded" ELSE "failed"] IN
  [c EXCEPT !.pc = IF good /\ StepsLeft(c) THEN "step" ELSE "validate",
            !.step = IF good /\ StepsLeft(c) THEN @ + 1 ELSE @,
            !.seq = @ + 1,
            !.result = IF good THEN result ELSE setFailed(result),
            !.meta = recordTransition(appendStepLogs(meta, entry), c.seq + 1),
            !.persisted = NoMeta]

EndStep(e) ==
  /\ container[e].pc = "command"
  /\ \E out \in StepOutcomes :
       container' = [container EXCEPT ![e] = AfterStep(container[e], out)]
  /\ writeState
  /\ UNCHANGED <<executor, shared>>

\* The summary, the required outputs and the required report metadata.
checkCriteria(result, meta) == result.complete /\ meta.complete

\* The criteria are consulted for a succeeded result only.
Validate(e) ==
  LET c == container[e]
      n == c.seq + 1
      violated == c.result.status = "succeeded" /\ ~ checkCriteria(c.result, c.meta) IN
  /\ c.pc = "validate"
  /\ container' = [container EXCEPT ![e].pc = "result", ![e].seq = n,
       ![e].result = IF violated THEN setFailed(c.result) ELSE c.result,
       ![e].meta = recordTransition(c.meta, n)]
  /\ writeState
  /\ UNCHANGED <<executor, shared>>

\* run: the result first, then the report; exit code 2 when one is not written.
Exit(e, code) == [container EXCEPT ![e].pc = "exited", ![e].exit = code]

\* mutant: a file that is not written is logged and forgotten
FailedWriteIgnored(e) == container' = Exit(e, "zero") /\ Fault /\ UNCHANGED workspace

FailedWrite(e) == container' = Exit(e, "nonzero") /\ Fault /\ UNCHANGED workspace

WriteResult(e) ==
  /\ container[e].pc = "result"
  /\ \/ FailedWrite(e)
     \/ /\ workspace' = [workspace EXCEPT !.result = container[e].result]
        /\ container' = [container EXCEPT ![e].pc = "report"]
        /\ UNCHANGED faults
  /\ UNCHANGED <<executor, stream, shared>>

Report(e) == [by |-> e, complete |-> container[e].meta.complete,
              transitions |-> container[e].meta.transitions,
              step_log |-> container[e].meta.step_log]
WriteReport(e) ==
  /\ container[e].pc = "report"
  /\ \/ FailedWrite(e)
     \/ /\ workspace' = [workspace EXCEPT !.report = Report(e)]
        /\ container' = Exit(e, "zero")
        /\ UNCHANGED faults
  /\ UNCHANGED <<executor, stream, shared>>

\* The container is killed or dies; "docker run" then fails.
Kill(e) ==
  /\ Running(e)
  /\ container' = [Exit(e, "nonzero") EXCEPT ![e].persisted = NoMeta]
  /\ Fault
  /\ UNCHANGED <<executor, stream, workspace, shared>>

-----------------------------------------------------------------------------
(* The executor in the worker.                                             *)

Returned(e, status) == [executor EXCEPT ![e].pc = "returned", ![e].status = status]

\* Everything before runEntrypoint (secrets, workspace, repositories,
\* invariants, images, context.json): it fails or the container is started,
\* with the goroutine that streams the state beside it.
Start(e) ==
  /\ executor[e].pc = "idle"
  /\ \A f \in Execution : f < e => executor[f].pc # "idle"
  /\ \/ /\ executor' = Returned(e, "failed")
        /\ Fault
        /\ UNCHANGED <<container, shared>>
     \/ /\ executor' = [executor EXCEPT ![e].pc = "running"]
        /\ container' = [container EXCEPT ![e].pc = "load"]
        /\ LET others == {f \in Execution : InProgress(f)} IN
           shared' = shared \cup others \cup IF others = {} THEN {} ELSE {e}
        /\ UNCHANGED faults
  /\ UNCHANGED <<stream, workspace>>

\* The stream is done with an emission: only the one after the cancellation and
\* that of emitLatestStageState, after a container that ended well, let the
\* executor go on.
AfterEmission(e) ==
  CASE executor[e].pc = "draining" /\ container[e].exit = "zero" ->
         [executor EXCEPT ![e].pc = "latest"]
    [] executor[e].pc = "draining" /\ container[e].exit # "zero" -> Returned(e, "failed")
    [] executor[e].pc = "latest" -> [executor EXCEPT ![e].pc = "result"]
    [] OTHER -> executor

\* emitStageStateIfChanged, first read: the file against the last digest (which
\* emitLatestStageState starts without).
Changed(e) ==
  /\ workspace.state
  /\ executor[e].pc = "latest" \/ stream[e].last # "current"

Look(e) ==
  /\ executor[e].pc \in {"running", "draining", "latest"}
  /\ stream[e].digest = "none"
  /\ Changed(e)
  /\ stream' = [stream EXCEPT ![e].digest = "current"]
  /\ UNCHANGED <<container, executor, workspace, shared, faults>>

\* Second read: what is reported is read again, and may be newer than the digest
\* that is remembered for it.
Tell(e) ==
  /\ executor[e].pc \in {"running", "draining", "latest"}
  /\ stream[e].digest # "none"
  /\ stream' = [stream EXCEPT ![e] =
                   [told |-> "current", last |-> stream[e].digest, digest |-> "none"]]
  /\ executor' = AfterEmission(e)
  /\ UNCHANGED <<container, workspace, shared, faults>>

NothingToTell(e) ==
  /\ executor[e].pc \in {"draining", "latest"}
  /\ stream[e].digest = "none"
  /\ ~ Changed(e)
  /\ executor' = AfterEmission(e)
  /\ UNCHANGED <<container, stream, workspace, shared, faults>>

\* mutant: the stream returns as soon as it is cancelled
DrainAtOnce(e) ==
  /\ executor[e].pc = "running"
  /\ stream[e].digest = "none"
  /\ container[e].pc = "exited"
  /\ executor' = IF container[e].exit = "zero" THEN [executor EXCEPT ![e].pc = "latest"]
                 ELSE Returned(e, "failed")
  /\ UNCHANGED <<container, stream, workspace, shared, faults>>

\* The container ended: the stream is cancelled, ends the emission it is in and
\* makes one more.
Drain(e) ==
  /\ executor[e].pc = "running"
  /\ stream[e].digest = "none"
  /\ container[e].pc = "exited"
  /\ executor' = [executor EXCEPT ![e].pc = "draining"]
  /\ UNCHANGED <<container, stream, workspace, shared, faults>>

\* The stream and what it knew are gone.
LoadResult(e) ==
  /\ executor[e].pc = "result"
  /\ executor' = IF workspace.result = None THEN Returned(e, "failed")
                 ELSE [executor EXCEPT ![e].pc = "report", ![e].result = workspace.result]
  /\ stream' = [stream EXCEPT ![e] = Fresh]
  /\ UNCHANGED <<container, workspace, shared, faults>>

LoadReport(e) ==
  /\ executor[e].pc = "report"
  /\ executor' = IF workspace.report = None THEN Returned(e, "failed")
                 ELSE [executor EXCEPT ![e].pc = "finish", ![e].report =
                        [by |-> workspace.report.by, complete |-> workspace.report.complete]]
  /\ UNCHANGED <<container, stream, workspace, shared, faults>>

\* A blocked result passes; otherwise the status must be the expected one, if
\* one is set, and the required outputs and report metadata must be there.
validateSuccessCriteria(result, report) ==
  \/ result.status = "blocked"
  \/ ExpectedStatus \in {"", result.status} /\ result.complete /\ report.complete

\* The statistics and artifacts are written at the end and may fail.
Finish(e) ==
  LET r == executor[e].result IN
  /\ executor[e].pc = "finish"
  /\ \/ /\ executor' = Returned(e, IF validateSuccessCriteria(r, executor[e].report)
                                   THEN r.status ELSE "failed")
        /\ UNCHANGED faults
     \/ executor' = Returned(e, "failed") /\ Fault
  /\ UNCHANGED <<container, stream, workspace, shared>>

\* The worker ends; its container does not.
Crash(e) ==
  /\ executor[e].pc \notin {"idle", "returned", "crashed"}
  /\ executor' = [executor EXCEPT ![e].pc = "crashed"]
  /\ stream' = [stream EXCEPT ![e] = Fresh]
  /\ Fault
  /\ UNCHANGED <<container, workspace, shared>>

ContainerStep(e) ==
  \/ LoadContract(e) \/ BeginStep(e) \/ EndStep(e) \/ Validate(e)
  \/ WriteResult(e) \/ WriteReport(e)
ExecutorStep(e) ==
  \/ Start(e) \/ Look(e) \/ Tell(e) \/ NothingToTell(e) \/ Drain(e)
  \/ LoadResult(e) \/ LoadReport(e) \/ Finish(e)

\* Every execution was started and has ended.  Any other state in which nothing
\* can happen, the executor waiting for its stream forever for one, is a deadlock.
Terminated ==
  /\ \A e \in Execution :
       executor[e].pc \in {"returned", "crashed"} /\ container[e].pc \in {"none", "exited"}
  /\ UNCHANGED vars

Next ==
  \/ \E e \in Execution : ContainerStep(e) \/ ExecutorStep(e) \/ Kill(e) \/ Crash(e)
  \/ Terminated

Spec == Init /\ [][Next]_vars

-----------------------------------------------------------------------------
Metadata == [transitions : Seq(1 .. 2 * Steps + 2), step_log : Seq(StepLog),
             typed : BOOLEAN, complete : BOOLEAN]
ReportFile == [by : Execution, complete : BOOLEAN, step_log : Seq(StepLog),
               transitions : Seq(1 .. 2 * Steps + 2)]

\* The type of the workspace's files, of the runtime process and of the executor.
TypeOK ==
  /\ container \in [Execution ->
       [pc : {"none", "load", "step", "command", "validate", "result", "report", "exited"},
        step : 0 .. Steps, seq : 0 .. 2 * Steps + 2, result : Result \cup {None},
        meta : Metadata, persisted : Metadata,
        exit : {"none", "zero", "nonzero"}]]
  /\ executor \in [Execution ->
       [pc : {"idle", "running", "draining", "latest", "result", "report", "finish",
              "returned", "crashed"},
        result : Result \cup {None}, status : Statuses \cup {"none"},
        report : [by : Execution, complete : BOOLEAN] \cup {None}]]
  /\ stream \in [Execution -> [{"digest", "last", "told"} -> {"none", "old", "current"}]]
  /\ workspace \in [state : BOOLEAN, result : Result \cup {None},
                     report : ReportFile \cup {None}]
  /\ shared \subseteq Execution
  /\ faults \in 0 .. MaxFaults

\* An execution that was alone in the workspace never passes off the result or the
\* report an earlier, crashed execution left there as its own: the runtime exits
\* with an error whenever it could not write either of them.
FreshEvidence == \A e \in Execution \ shared :
  executor[e].status \in Statuses \ {"failed"} =>
    executor[e].result.by = e /\ executor[e].report.by = e

\* Whatever other executions did to the workspace meanwhile, "succeeded" is only
\* returned when ONE execution ran every step of the plan with success and found
\* its criteria satisfied, and the report came from an execution as well.
SuccessIsBacked == \A e \in Execution :
  executor[e].status = "succeeded" =>
    LET c == container[executor[e].result.by] IN
    /\ c.result.status = "succeeded" /\ c.result.complete /\ c.meta.complete
    /\ Len(c.meta.step_log) = Steps
    /\ \A i \in 1 .. Steps : c.meta.step_log[i].event = "succeeded"

\* The step log of a report has every step that was run, in order, and none but the
\* last one failed, although it is written to a file and read back around every
\* step; it is empty only if the runtime gave up.  Its state transitions are the
\* last ones recorded, without a gap (those before the last reload are dropped).
StepLogKept ==
  LET r == workspace.report
      c == container[r.by] IN
  r # None =>
    \/ r.step_log = <<>> /\ r.transitions = <<>> /\ c.result = failedResult(r.by)
    \/ /\ Len(r.step_log) = c.step
       /\ \A i \in 1 .. c.step : r.step_log[i].step = i
       /\ \A i \in 1 .. c.step - 1 : r.step_log[i].event = "succeeded"
       /\ \A n \in DOMAIN r.transitions :
            r.transitions[n] = c.seq - Len(r.transitions) + n

\* No execution goes on before the last state that was written was reported, whether
\* the container succeeded or not: the stream makes one more emission after it is
\* cancelled.
LastStateTold ==
  [][\A e \in Execution :
       /\ executor[e].pc \in {"running", "draining", "latest"}
       /\ executor'[e].pc \in {"result", "returned"}
       /\ workspace.state
       => stream'[e].told = "current"]_vars
=============================================================================
