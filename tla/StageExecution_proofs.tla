------------------------ MODULE StageExecution_proofs ------------------------
(***************************************************************************)
(* Proofs about the execution of a stage attempt: what the executor makes  *)
(* of the files it finds is backed by what a runtime really did, for any   *)
(* number of executions that share the workspace, steps and faults, and    *)
(* whatever the steps leave behind.                                        *)
(***************************************************************************)
EXTENDS StageExecution, SequenceTheorems, TLAPS

ContainerType ==
  [pc : {"none", "load", "step", "command", "validate", "result", "report", "exited"},
   step : 0 .. Steps, seq : 0 .. 2 * Steps + 2, result : Result \cup {None},
   meta : Metadata, persisted : Metadata, exit : {"none", "zero", "nonzero"}]
ExecutorType ==
  [pc : {"idle", "running", "draining", "latest", "result", "report", "finish",
         "returned", "crashed"},
   result : Result \cup {None}, status : Statuses \cup {"none"},
   report : [by : Execution, complete : BOOLEAN] \cup {None}]

------------------------------------------------------------------------------
(* The runtime, by itself.  How far it is says what its log holds.         *)

\* The steps up to n were run in order, all with success; all but the last.
AllSucceeded(log, n) ==
  Len(log) = n /\ \A i \in 1 .. n : log[i].step = i /\ log[i].event = "succeeded"
LastMayFail(log, n) ==
  /\ Len(log) = n
  /\ \A i \in 1 .. n : log[i].step = i
  /\ \A i \in 1 .. n - 1 : log[i].event = "succeeded"

\* The transitions are the last ones before seq.
Contiguous(meta, seq) == \A n \in DOMAIN meta.transitions :
  meta.transitions[n] = seq - Len(meta.transitions) + n

GaveUp(e, c) == c.result = failedResult(e) /\ c.meta = NoMeta

\* Every step was run, or the last one failed and so did the result.
Ran(c) ==
  /\ c.step \in 1 .. Steps
  /\ LastMayFail(c.meta.step_log, c.step)
  /\ Contiguous(c.meta, c.seq)
  /\ c.result.status = "succeeded" => AllSucceeded(c.meta.step_log, Steps)

Validated(e, c) ==
  \/ GaveUp(e, c)
  \/ /\ Ran(c)
     /\ c.result.status = "succeeded" => c.result.complete /\ c.meta.complete

RuntimeInv(e, c) ==
  /\ c.pc = "none" => c = NotStarted
  /\ c.pc # "exited" => c.exit = "none"
  /\ c.pc = "load" => c.seq = 0
  /\ c.pc \in {"step", "command", "validate", "result", "report"} =>
       c.result \in Result /\ c.result.by = e
  /\ c.pc \in {"step", "command"} =>
       /\ c.step \in 1 .. Steps
       /\ AllSucceeded(c.meta.step_log, c.step - 1)
       /\ Contiguous(c.meta, c.seq)
  /\ c.pc = "step" => c.seq = 2 * c.step - 1
  /\ c.pc = "command" =>
       c.seq = 2 * c.step /\ c.meta.typed /\ AllSucceeded(c.persisted.step_log, c.step - 1)
  /\ c.pc = "validate" => c.seq = 2 * c.step + 1 /\ Ran(c)
  /\ c.pc \in {"result", "report"} => Validated(e, c)

LEMMA NoMetaType == NoMeta \in Metadata
BY CriteriaAssumption, EmptySeq DEF NoMeta, Metadata

\* A number appended to the ones before it.
LEMMA AppendContiguous ==
  ASSUME NEW T \in SUBSET Nat, NEW old \in Seq(T), NEW n \in T,
         \A i \in DOMAIN old : old[i] = (n - 1) - Len(old) + i
  PROVE  /\ Append(old, n) \in Seq(T)
         /\ \A i \in DOMAIN Append(old, n) : Append(old, n)[i] = n - Len(Append(old, n)) + i
<1> DEFINE new == Append(old, n)
<1>1. /\ new \in Seq(T) /\ Len(new) = Len(old) + 1
      /\ \A i \in 1 .. Len(old) : new[i] = old[i]
      /\ new[Len(old) + 1] = n
  BY AppendProperties
<1> HIDE DEF new
<1>2. /\ Len(old) \in Nat /\ n \in Nat
      /\ DOMAIN new = 1 .. Len(old) + 1 /\ DOMAIN old = 1 .. Len(old)
  BY <1>1, LenProperties
<1>3. ASSUME NEW i \in DOMAIN new PROVE new[i] = n - Len(new) + i
  <2>1. CASE i \in 1 .. Len(old)
    BY <1>1, <1>2, <2>1
  <2>2. CASE i = Len(old) + 1
    BY <1>1, <1>2, <2>2
  <2> QED
    BY <1>2, <2>1, <2>2
<1> QED
  BY <1>1, <1>3 DEF new

\* A recorded transition continues the ones before it.
LEMMA RecordTransition ==
  ASSUME NEW meta \in Metadata, NEW n \in 1 .. 2 * Steps + 2,
         meta.typed => Contiguous(meta, n - 1)
  PROVE  LET m == recordTransition(meta, n) IN
         /\ m \in Metadata
         /\ m.step_log = meta.step_log
         /\ m.complete = meta.complete
         /\ m.typed = TRUE
         /\ Contiguous(m, n)
<1> DEFINE T == 1 .. 2 * Steps + 2
           m == recordTransition(meta, n)
<1>1. /\ meta.transitions \in Seq(T)
      /\ meta.typed \in BOOLEAN
  BY DEF Metadata
<1>2. T \in SUBSET Nat /\ n \in T
  BY BoundsAssumption
<1>3. ASSUME NEW new \in Seq(T), m = [meta EXCEPT !.transitions = new, !.typed = TRUE],
             \A i \in DOMAIN new : new[i] = n - Len(new) + i
      PROVE  /\ m \in Metadata
             /\ m.step_log = meta.step_log
             /\ m.complete = meta.complete
             /\ m.typed = TRUE
             /\ Contiguous(m, n)
  <2> HIDE DEF m
  <2>1. /\ m \in Metadata /\ m.step_log = meta.step_log /\ m.complete = meta.complete
        /\ m.typed = TRUE
    BY <1>3 DEF Metadata
  <2>2. m.transitions = new
    BY <1>3 DEF Metadata
  <2> QED
    BY <1>3, <2>1, <2>2 DEF Contiguous
<1>4. CASE meta.typed
  <2> DEFINE new == Append(meta.transitions, n)
  <2>1. \A i \in DOMAIN meta.transitions :
          meta.transitions[i] = (n - 1) - Len(meta.transitions) + i
    BY <1>4 DEF Contiguous
  <2>2. new \in Seq(T) /\ \A i \in DOMAIN new : new[i] = n - Len(new) + i
    <3> HIDE DEF T
    <3> QED
      BY <1>1, <1>2, <2>1, AppendContiguous
  <2>3. m = [meta EXCEPT !.transitions = new, !.typed = TRUE]
    BY <1>4 DEF recordTransition
  <2> HIDE DEF new, T
  <2> QED
    BY <1>3, <2>2, <2>3
<1>5. CASE ~ meta.typed
  <2> DEFINE new == <<n>>
  <2>1. new \in Seq(T) /\ Len(new) = 1 /\ DOMAIN new = {1} /\ new[1] = n
    <3> HIDE DEF T
    <3> QED
      BY <1>2
  <2>2. m = [meta EXCEPT !.transitions = new, !.typed = TRUE]
    BY <1>5 DEF recordTransition
  <2>3. \A i \in DOMAIN new : new[i] = n - Len(new) + i
    BY <1>2, <2>1
  <2> HIDE DEF new, T
  <2> QED
    BY <1>3, <2>1, <2>2, <2>3
<1> HIDE DEF m
<1> QED
  BY <1>1, <1>4, <1>5 DEF m

\* The entry of the step that was run continues the log.
LEMMA AppendEntry ==
  ASSUME NEW log \in Seq(StepLog), NEW n \in Nat, AllSucceeded(log, n),
         NEW entry \in StepLog, entry.step = n + 1
  PROVE  /\ Append(log, entry) \in Seq(StepLog)
         /\ LastMayFail(Append(log, entry), n + 1)
         /\ entry.event = "succeeded" => AllSucceeded(Append(log, entry), n + 1)
<1> DEFINE new == Append(log, entry)
<1>1. /\ new \in Seq(StepLog) /\ Len(new) = Len(log) + 1
      /\ \A i \in 1 .. Len(log) : new[i] = log[i]
      /\ new[Len(log) + 1] = entry
  BY AppendProperties
<1> HIDE DEF new
<1>2. Len(log) = n
  BY DEF AllSucceeded
<1>3. ASSUME NEW i \in 1 .. n
      PROVE  new[i].step = i /\ new[i].event = "succeeded"
  BY <1>1, <1>2 DEF AllSucceeded
<1>4. new[n + 1].step = n + 1
  BY <1>1, <1>2
<1>5. LastMayFail(new, n + 1)
  <2>1. \A i \in 1 .. n + 1 : i \in 1 .. n \/ i = n + 1
    OBVIOUS
  <2>2. (n + 1) - 1 = n
    OBVIOUS
  <2> QED
    BY <1>1, <1>2, <1>3, <1>4, <2>1, <2>2 DEF LastMayFail
<1>6. entry.event = "succeeded" => AllSucceeded(new, n + 1)
  <2>1. \A i \in 1 .. n + 1 : i \in 1 .. n \/ i = n + 1
    OBVIOUS
  <2> QED
    BY <1>1, <1>2, <1>3, <1>4, <2>1 DEF AllSucceeded
<1> QED
  BY <1>1, <1>5, <1>6 DEF new

\* What the metadata is when the step's entry is added: it has the log of the
\* steps before, whichever way it came back.
LEMMA Reloaded ==
  ASSUME NEW e, NEW c \in ContainerType, RuntimeInv(e, c), c.pc = "command", NEW file, NEW broken
  PROVE  LET meta == IF broken THEN c.meta ELSE reload(c.meta, c.persisted, file) IN
         /\ meta \in Metadata
         /\ AllSucceeded(meta.step_log, c.step - 1)
         /\ meta.typed => Contiguous(meta, c.seq)
<1>1. /\ c.meta \in Metadata /\ c.persisted \in Metadata
      /\ AllSucceeded(c.meta.step_log, c.step - 1)
      /\ AllSucceeded(c.persisted.step_log, c.step - 1)
      /\ Contiguous(c.meta, c.seq)
  BY DEF ContainerType, RuntimeInv
<1> DEFINE back == [c.persisted EXCEPT !.typed = FALSE, !.complete = @ \/ file = "written"]
<1>2. back \in Metadata /\ back.step_log = c.persisted.step_log /\ back.typed = FALSE
  BY <1>1 DEF Metadata
<1>3. CASE broken \/ file = "removed"
  BY <1>1, <1>3 DEF reload
<1>4. CASE ~ broken /\ file # "removed"
  <2>1. reload(c.meta, c.persisted, file) = back
    BY <1>4 DEF reload
  <2> HIDE DEF back
  <2> QED
    BY <1>1, <1>2, <1>4, <2>1
<1> QED
  BY <1>3, <1>4

\* A step keeps the runtime in order, whatever it leaves behind.
LEMMA StepRun ==
  ASSUME NEW e \in Execution, NEW c \in ContainerType, RuntimeInv(e, c), c.pc = "command",
         NEW out \in StepOutcomes
  PROVE  LET d == AfterStep(c, out) IN
         /\ d \in ContainerType
         /\ RuntimeInv(e, d)
         /\ d.pc \in {"step", "validate"}
         /\ d.exit = c.exit
<1> DEFINE result == IF out.result.file = "written"
                     THEN [c.result EXCEPT !.status = out.result.status,
                                           !.complete = out.result.complete]
                     ELSE c.result
           good == out.exitCode = 0 /\ ~ Broken(out)
           kept == IF good THEN result ELSE setFailed(result)
           meta == IF Broken(out) THEN c.meta ELSE reload(c.meta, c.persisted, out.meta)
           entry == [step |-> c.step, event |-> IF good THEN "succeeded" ELSE "failed"]
           logged == appendStepLogs(meta, entry)
           final == recordTransition(logged, c.seq + 1)
           on == good /\ StepsLeft(c)
           d == AfterStep(c, out)
<1>1. /\ c.step \in 1 .. Steps /\ c.seq = 2 * c.step
      /\ c.result \in Result /\ c.result.by = e
  BY DEF RuntimeInv
<1>2. out \in StepOutcome
  BY OutcomesAssumption
<1>3. result \in Result /\ result.by = e
  <2>1. CASE out.result.file = "written"
    <3>1. out.result \in [file : {"kept", "broken"}]
                          \cup [file : {"written"}, status : Statuses, complete : BOOLEAN]
      BY <1>2 DEF StepOutcome
    <3>2. out.result \in [file : {"written"}, status : Statuses, complete : BOOLEAN]
      BY <2>1, <3>1
    <3> QED
      BY <1>1, <2>1, <3>2 DEF Result
  <2>2. CASE out.result.file # "written"
    BY <1>1, <2>2
  <2> QED
    BY <2>1, <2>2
<1> HIDE DEF result
<1>4. kept \in Result /\ kept.by = e /\ (kept.status = "succeeded" => good)
  BY <1>3 DEF setFailed, Result, Statuses
<1>5. /\ meta \in Metadata
      /\ AllSucceeded(meta.step_log, c.step - 1)
      /\ meta.typed => Contiguous(meta, c.seq)
  BY Reloaded
<1>6. entry \in StepLog /\ entry.step = (c.step - 1) + 1 /\ (good => entry.event = "succeeded")
  BY <1>1, BoundsAssumption DEF StepLog
<1> HIDE DEF meta, entry, kept, good
<1>7. /\ logged \in Metadata
      /\ logged.step_log = Append(meta.step_log, entry)
      /\ logged.transitions = meta.transitions
      /\ logged.typed = meta.typed
  <2>1. Append(meta.step_log, entry) \in Seq(StepLog)
    BY <1>1, <1>5, <1>6, AppendEntry DEF Metadata
  <2> QED
    BY <1>5, <2>1 DEF appendStepLogs, Metadata
<1>8. /\ LastMayFail(logged.step_log, c.step)
      /\ good => AllSucceeded(logged.step_log, c.step)
  <2>1. c.step - 1 \in Nat /\ (c.step - 1) + 1 = c.step /\ meta.step_log \in Seq(StepLog)
    BY <1>1, <1>5 DEF Metadata
  <2> QED
    BY <1>5, <1>6, <1>7, <2>1, AppendEntry
<1>9. c.seq + 1 \in 1 .. 2 * Steps + 2 /\ (c.seq + 1) - 1 = c.seq /\ Steps \in Nat
  BY <1>1, BoundsAssumption
<1>10. logged.typed => Contiguous(logged, (c.seq + 1) - 1)
  BY <1>5, <1>7, <1>9 DEF Contiguous
<1> HIDE DEF logged
<1>11. /\ final \in Metadata /\ final.step_log = logged.step_log
       /\ Contiguous(final, c.seq + 1)
  BY <1>7, <1>9, <1>10, RecordTransition
<1> HIDE DEF final
<1>12. d = [c EXCEPT !.pc = IF on THEN "step" ELSE "validate",
                     !.step = IF on THEN c.step + 1 ELSE c.step,
                     !.seq = c.seq + 1, !.result = kept, !.meta = final, !.persisted = NoMeta]
  BY DEF AfterStep, kept, final, logged, entry, meta, good, result, ContainerType
<1>13. on => c.step + 1 \in 1 .. Steps
  BY <1>1, <1>9 DEF StepsLeft
<1> HIDE DEF d
<1> DEFINE pc == IF on THEN "step" ELSE "validate"
           step == IF on THEN c.step + 1 ELSE c.step
           seq == c.seq + 1
<1>14. /\ d \in ContainerType
       /\ d.pc = pc /\ d.step = step
       /\ d.seq = seq /\ d.result = kept /\ d.meta = final /\ d.exit = c.exit
  <2>1. pc \in {"step", "validate"} /\ step \in 0 .. Steps /\ seq \in 0 .. 2 * Steps + 2
    BY <1>1, <1>9, <1>13
  <2> HIDE DEF on, pc, step, seq
  <2>2. d = [c EXCEPT !.pc = pc, !.step = step, !.seq = seq, !.result = kept,
                      !.meta = final, !.persisted = NoMeta]
    BY <1>12 DEF pc, step, seq
  <2>3. kept \in Result \cup {None}
    BY <1>4
  <2> QED
    BY <1>11, <2>1, <2>2, <2>3, NoMetaType DEF ContainerType
<1>14a. d.exit = "none"
  BY <1>14 DEF RuntimeInv
<1>15. CASE on
  <2>1. AllSucceeded(d.meta.step_log, d.step - 1)
    <3>1. (c.step + 1) - 1 = c.step
      BY <1>1
    <3> QED
      BY <1>8, <1>11, <1>14, <1>15, <3>1
  <2>2. d.seq = 2 * d.step - 1 /\ d.step \in 1 .. Steps
    BY <1>1, <1>9, <1>13, <1>14, <1>15
  <2>3. d.pc = "step"
    BY <1>14, <1>15
  <2>4. d.result \in Result /\ d.result.by = e /\ Contiguous(d.meta, d.seq)
    BY <1>4, <1>11, <1>14
  <2> QED
    BY <1>14, <2>1, <2>2, <2>3, <2>4, <1>14a DEF RuntimeInv, d
<1>16. CASE ~ on
  <2>1. kept.status = "succeeded" => AllSucceeded(final.step_log, Steps)
    <3>1. ASSUME kept.status = "succeeded" PROVE good /\ c.step = Steps
      BY <1>1, <1>4, <1>9, <1>16, <3>1 DEF StepsLeft
    <3> QED
      BY <1>8, <1>11, <3>1
  <2>2. d.seq = 2 * d.step + 1 /\ d.pc = "validate"
    BY <1>1, <1>14, <1>16
  <2>3. Ran(d)
    BY <1>1, <1>8, <1>11, <1>14, <1>16, <2>1 DEF Ran
  <2>4. d.result \in Result /\ d.result.by = e
    BY <1>4, <1>14
  <2> QED
    BY <1>14, <2>2, <2>3, <2>4, <1>14a DEF RuntimeInv, d
<1> QED
  BY <1>15, <1>16

\* What any step of the runtime does to it.  Once its result is settled it stays.
Same(c, d) == d.result = c.result /\ d.meta = c.meta /\ d.step = c.step /\ d.seq = c.seq
Moves(e, d) ==
  LET c == container[e] IN
  /\ c.pc \notin {"none", "exited"} /\ d.pc # "none"
  /\ c.pc = "result" => Same(c, d) /\ d.pc \in {"report", "exited"}
  /\ c.pc = "report" => Same(c, d) /\ d.pc = "exited"
  /\ d.pc = "report" => c.pc = "result"
  /\ d.exit = "zero" => c.pc = "report"

Runtimes == \A e \in Execution : RuntimeInv(e, container[e])

LEMMA ContainerTyped ==
  ASSUME TypeOK, NEW e \in Execution
  PROVE  container[e] \in ContainerType /\ DOMAIN container = Execution
BY DEF TypeOK, ContainerType

LEMMA RuntimeGivesUp ==
  ASSUME TypeOK, Runtimes, NEW e \in Execution, container[e].pc \in {"load", "step"}, GiveUp(e)
  PROVE  \E d \in ContainerType :
           container' = [container EXCEPT ![e] = d] /\ RuntimeInv(e, d) /\ Moves(e, d)
<1> DEFINE c == container[e]
           d == [c EXCEPT !.pc = "result", !.result = failedResult(e), !.meta = NoMeta]
<1>1. c \in ContainerType /\ RuntimeInv(e, c)
  BY ContainerTyped DEF Runtimes
<1>2. failedResult(e) \in Result /\ failedResult(e).by = e
  BY DEF failedResult, Result, Statuses
<1>3. container' = [container EXCEPT ![e] = d]
  BY ContainerTyped DEF GiveUp
<1> HIDE DEF c
<1>4. /\ d \in ContainerType /\ d.pc = "result" /\ d.result = failedResult(e)
      /\ d.meta = NoMeta /\ d.exit = c.exit
  <2> HIDE DEF NoMeta, failedResult
  <2> QED
    BY <1>1, <1>2, NoMetaType DEF ContainerType
<1> HIDE DEF d
<1>5. c.pc \in {"load", "step"} /\ d.exit = "none"
  BY <1>1, <1>4 DEF c, RuntimeInv
<1>6. RuntimeInv(e, d)
  BY <1>2, <1>4, <1>5 DEF RuntimeInv, Validated, GaveUp
<1>7. Moves(e, d)
  BY <1>4, <1>5 DEF Moves, c
<1> QED
  BY <1>3, <1>4, <1>6, <1>7

LEMMA RuntimeLoads ==
  ASSUME TypeOK, Runtimes, NEW e \in Execution, LoadContract(e)
  PROVE  \E d \in ContainerType :
           container' = [container EXCEPT ![e] = d] /\ RuntimeInv(e, d) /\ Moves(e, d)
<1>1. CASE GiveUp(e)
  BY <1>1, RuntimeGivesUp DEF LoadContract
<1>2. CASE ~ GiveUp(e)
  <2> DEFINE c == container[e]
             r == [by |-> e, status |-> "succeeded", complete |-> ~ StepOutputs]
             m == recordTransition(NoMeta, 1)
             d == [c EXCEPT !.pc = "step", !.step = 1, !.seq = 1, !.result = r, !.meta = m]
  <2>1. c \in ContainerType /\ RuntimeInv(e, c) /\ c.pc = "load"
    BY ContainerTyped DEF Runtimes, LoadContract
  <2>2. r \in Result /\ r.by = e
    BY CriteriaAssumption DEF Result, Statuses
  <2>3. container' = [container EXCEPT ![e] = d]
    BY <1>2, ContainerTyped DEF LoadContract
  <2>4. 1 \in 1 .. 2 * Steps + 2 /\ 1 \in 0 .. 2 * Steps + 2 /\ 1 \in 1 .. Steps
        /\ 1 \in 0 .. Steps
    BY BoundsAssumption
  <2>5. Contiguous(NoMeta, 1 - 1)
    BY DEF Contiguous, NoMeta
  <2>6. m \in Metadata /\ m.step_log = <<>> /\ Contiguous(m, 1)
    <3>1. NoMeta.step_log = <<>>
      BY DEF NoMeta
    <3> HIDE DEF NoMeta
    <3> QED
      BY <2>4, <2>5, <3>1, NoMetaType, RecordTransition
  <2> HIDE DEF c, m, r
  <2>7. /\ d \in ContainerType /\ d.pc = "step" /\ d.step = 1 /\ d.seq = 1 /\ d.result = r
        /\ d.meta = m /\ d.exit = c.exit
    BY <2>1, <2>2, <2>4, <2>6 DEF ContainerType
  <2> HIDE DEF d
  <2>8. d.exit = "none"
    BY <2>1, <2>7 DEF RuntimeInv
  <2>9. AllSucceeded(m.step_log, 1 - 1)
    BY <2>6 DEF AllSucceeded
  <2>10. RuntimeInv(e, d)
    BY <2>2, <2>4, <2>6, <2>7, <2>8, <2>9 DEF RuntimeInv
  <2>11. Moves(e, d)
    BY <2>1, <2>7, <2>8 DEF Moves, c
  <2> QED
    BY <2>3, <2>7, <2>10, <2>11
<1> QED
  BY <1>1, <1>2

LEMMA RuntimeBegins ==
  ASSUME TypeOK, Runtimes, NEW e \in Execution, BeginStep(e)
  PROVE  \E d \in ContainerType :
           container' = [container EXCEPT ![e] = d] /\ RuntimeInv(e, d) /\ Moves(e, d)
<1>1. CASE GiveUp(e)
  BY <1>1, RuntimeGivesUp DEF BeginStep
<1>2. CASE ~ GiveUp(e)
  <2> DEFINE c == container[e]
             n == c.seq + 1
             m == recordTransition(c.meta, n)
             d == [c EXCEPT !.pc = "command", !.seq = n, !.persisted = c.meta, !.meta = m]
  <2>1. c \in ContainerType /\ RuntimeInv(e, c) /\ c.pc = "step"
    BY ContainerTyped DEF Runtimes, BeginStep
  <2>2. container' = [container EXCEPT ![e] = d]
    BY <1>2, ContainerTyped DEF BeginStep
  <2> HIDE DEF c
  <2>3. /\ c.result \in Result /\ c.result.by = e /\ c.step \in 1 .. Steps
        /\ AllSucceeded(c.meta.step_log, c.step - 1) /\ Contiguous(c.meta, c.seq)
        /\ c.seq = 2 * c.step - 1 /\ c.exit = "none"
    BY <2>1 DEF RuntimeInv
  <2>4. /\ n \in 1 .. 2 * Steps + 2 /\ n \in 0 .. 2 * Steps + 2 /\ n - 1 = c.seq
        /\ n = 2 * c.step
    BY <2>3, BoundsAssumption
  <2>5. c.meta \in Metadata
    BY <2>1 DEF ContainerType
  <2> HIDE DEF n
  <2>6. /\ m \in Metadata /\ m.step_log = c.meta.step_log /\ Contiguous(m, n)
        /\ m.typed = TRUE
    BY <2>3, <2>4, <2>5, RecordTransition
  <2> HIDE DEF m
  <2>7. /\ d \in ContainerType /\ d.pc = "command" /\ d.step = c.step /\ d.seq = n
        /\ d.result = c.result /\ d.meta = m /\ d.persisted = c.meta /\ d.exit = c.exit
    BY <2>1, <2>4, <2>5, <2>6 DEF ContainerType
  <2> HIDE DEF d
  <2>8. RuntimeInv(e, d)
    BY <2>3, <2>4, <2>6, <2>7 DEF RuntimeInv
  <2>9. Moves(e, d)
    BY <2>1, <2>3, <2>7 DEF Moves, c
  <2> QED
    BY <2>2, <2>7, <2>8, <2>9
<1> QED
  BY <1>1, <1>2

LEMMA RuntimeEndsStep ==
  ASSUME TypeOK, Runtimes, NEW e \in Execution, EndStep(e)
  PROVE  \E d \in ContainerType :
           container' = [container EXCEPT ![e] = d] /\ RuntimeInv(e, d) /\ Moves(e, d)
<1>1. PICK out \in StepOutcomes :
        container' = [container EXCEPT ![e] = AfterStep(container[e], out)]
  BY DEF EndStep
<1>2. container[e] \in ContainerType /\ RuntimeInv(e, container[e]) /\ container[e].pc = "command"
  BY ContainerTyped DEF Runtimes, EndStep
<1> DEFINE d == AfterStep(container[e], out)
<1>3. /\ d \in ContainerType /\ RuntimeInv(e, d) /\ d.pc \in {"step", "validate"}
      /\ d.exit = container[e].exit
  BY <1>2, StepRun
<1> HIDE DEF d
<1>4. d.exit = "none"
  BY <1>2, <1>3 DEF RuntimeInv
<1>5. Moves(e, d)
  BY <1>2, <1>3, <1>4 DEF Moves
<1> QED
  BY <1>1, <1>3, <1>5 DEF d

LEMMA RuntimeValidates ==
  ASSUME TypeOK, Runtimes, NEW e \in Execution, Validate(e)
  PROVE  \E d \in ContainerType :
           container' = [container EXCEPT ![e] = d] /\ RuntimeInv(e, d) /\ Moves(e, d)
<1> DEFINE c == container[e]
           n == c.seq + 1
           violated == c.result.status = "succeeded" /\ ~ checkCriteria(c.result, c.meta)
           r == IF violated THEN setFailed(c.result) ELSE c.result
           m == recordTransition(c.meta, n)
           d == [c EXCEPT !.pc = "result", !.seq = n, !.result = r, !.meta = m]
<1>1. c \in ContainerType /\ RuntimeInv(e, c) /\ c.pc = "validate"
  BY ContainerTyped DEF Runtimes, Validate
<1>2. container' = [container EXCEPT ![e] = d]
  BY ContainerTyped DEF Validate
<1> HIDE DEF c
<1>3. /\ c.result \in Result /\ c.result.by = e /\ c.seq = 2 * c.step + 1 /\ Ran(c)
      /\ c.exit = "none" /\ c.step \in 1 .. Steps /\ Contiguous(c.meta, c.seq)
      /\ c.meta \in Metadata
  BY <1>1 DEF RuntimeInv, Ran, ContainerType
<1>4. n \in 1 .. 2 * Steps + 2 /\ n \in 0 .. 2 * Steps + 2 /\ n - 1 = c.seq
  BY <1>3, BoundsAssumption
<1>5. /\ r \in Result /\ r.by = e
      /\ r.status = "succeeded" =>
           c.result.status = "succeeded" /\ r.complete /\ c.meta.complete
  BY <1>3 DEF setFailed, checkCriteria, Result, Statuses
<1> HIDE DEF n, r
<1>6. /\ m \in Metadata /\ m.step_log = c.meta.step_log /\ Contiguous(m, n)
      /\ m.complete = c.meta.complete
  BY <1>3, <1>4, RecordTransition
<1> HIDE DEF m
<1>7. /\ d \in ContainerType /\ d.pc = "result" /\ d.step = c.step /\ d.seq = n
      /\ d.result = r /\ d.meta = m /\ d.exit = c.exit
  BY <1>1, <1>4, <1>5, <1>6 DEF ContainerType
<1> HIDE DEF d
<1>8. Validated(e, d)
  BY <1>3, <1>5, <1>6, <1>7 DEF Validated, Ran
<1>9. RuntimeInv(e, d)
  BY <1>3, <1>5, <1>7, <1>8 DEF RuntimeInv
<1>10. Moves(e, d)
  BY <1>1, <1>3, <1>7 DEF Moves, c
<1> QED
  BY <1>2, <1>7, <1>9, <1>10

\* The runtime ends, with whatever code.
LEMMA RuntimeEnds ==
  ASSUME TypeOK, Runtimes, NEW e \in Execution, Running(e), NEW code \in {"zero", "nonzero"},
         code = "zero" => container[e].pc = "report",
         NEW p \in Metadata,
         container' = [container EXCEPT ![e] =
                         [container[e] EXCEPT !.pc = "exited", !.exit = code, !.persisted = p]]
  PROVE  \E d \in ContainerType :
           container' = [container EXCEPT ![e] = d] /\ RuntimeInv(e, d) /\ Moves(e, d)
<1> DEFINE c == container[e]
           d == [c EXCEPT !.pc = "exited", !.exit = code, !.persisted = p]
<1>1. c \in ContainerType
  BY ContainerTyped
<1>2. c.pc \notin {"none", "exited"}
  BY DEF Running
<1>3. /\ d \in ContainerType /\ d.pc = "exited" /\ d.exit = code /\ Same(c, d)
  <2> HIDE DEF c
  <2> QED
    BY <1>1 DEF ContainerType, Same
<1>4. container' = [container EXCEPT ![e] = d]
  OBVIOUS
<1> HIDE DEF d
<1>5. RuntimeInv(e, d)
  BY <1>3 DEF RuntimeInv
<1>6. Moves(e, d)
  BY <1>2, <1>3 DEF Moves
<1> QED
  BY <1>3, <1>4, <1>5, <1>6

LEMMA RuntimeWritesResult ==
  ASSUME TypeOK, Runtimes, NEW e \in Execution, container[e].pc = "result",
         container' = [container EXCEPT ![e].pc = "report"]
  PROVE  \E d \in ContainerType :
           container' = [container EXCEPT ![e] = d] /\ RuntimeInv(e, d) /\ Moves(e, d)
<1> DEFINE c == container[e]
           d == [c EXCEPT !.pc = "report"]
<1>1. c \in ContainerType /\ RuntimeInv(e, c) /\ c.pc = "result"
  BY ContainerTyped DEF Runtimes
<1>2. container' = [container EXCEPT ![e] = d]
  BY ContainerTyped
<1> HIDE DEF c
<1>3. d \in ContainerType /\ d.pc = "report" /\ d.exit = c.exit /\ Same(c, d)
  BY <1>1 DEF ContainerType, Same
<1> HIDE DEF d
<1>4. /\ c.exit = "none" /\ Validated(e, c) /\ c.result \in Result /\ c.result.by = e
  BY <1>1 DEF RuntimeInv
<1>5. Validated(e, d)
  BY <1>3, <1>4 DEF Validated, GaveUp, Ran, Same
<1>6. RuntimeInv(e, d)
  BY <1>3, <1>4, <1>5 DEF RuntimeInv, Same
<1>7. Moves(e, d)
  BY <1>1, <1>3, <1>4 DEF Moves, c
<1> QED
  BY <1>2, <1>3, <1>6, <1>7

LEMMA RuntimeExits ==
  ASSUME TypeOK, Runtimes, NEW e \in Execution, Running(e), NEW code \in {"zero", "nonzero"},
         code = "zero" => container[e].pc = "report",
         \/ container' = Exit(e, code)
         \/ container' = [Exit(e, code) EXCEPT ![e].persisted = NoMeta]
  PROVE  \E d \in ContainerType :
           container' = [container EXCEPT ![e] = d] /\ RuntimeInv(e, d) /\ Moves(e, d)
<1> DEFINE c == container[e]
           after(p) == [container EXCEPT ![e] =
                          [container[e] EXCEPT !.pc = "exited", !.exit = code, !.persisted = p]]
<1>1. container[e] \in ContainerType /\ DOMAIN container = Execution
  BY ContainerTyped
<1>2. container[e].persisted \in Metadata
  BY <1>1 DEF ContainerType
<1>3. CASE container' = Exit(e, code)
  <2>1. container' = after(container[e].persisted)
    <3>1. [container[e] EXCEPT !.pc = "exited", !.exit = code]
            = [container[e] EXCEPT !.pc = "exited", !.exit = code,
                                   !.persisted = container[e].persisted]
      BY <1>1 DEF ContainerType
    <3>2. container' = [container EXCEPT ![e] =
                          [container[e] EXCEPT !.pc = "exited", !.exit = code]]
      BY <1>1, <1>3 DEF Exit
    <3> QED
      BY <3>1, <3>2
  <2> QED
    BY <1>2, <2>1, RuntimeEnds
<1>4. CASE container' = [Exit(e, code) EXCEPT ![e].persisted = NoMeta]
  <2>1. container' = after(NoMeta)
    BY <1>1, <1>4 DEF Exit
  <2> QED
    BY <2>1, NoMetaType, RuntimeEnds
<1> QED
  BY <1>3, <1>4

\* Every step of the runtime of e moves its process, in order, and no other one.
LEMMA RuntimeStep ==
  ASSUME TypeOK, Runtimes, NEW e \in Execution, ContainerStep(e) \/ Kill(e)
  PROVE  /\ \E d \in ContainerType :
              container' = [container EXCEPT ![e] = d] /\ RuntimeInv(e, d) /\ Moves(e, d)
         /\ UNCHANGED <<executor, shared>>
<1>1. CASE LoadContract(e)
  BY <1>1, RuntimeLoads DEF LoadContract
<1>2. CASE BeginStep(e)
  BY <1>2, RuntimeBegins DEF BeginStep
<1>3. CASE EndStep(e)
  BY <1>3, RuntimeEndsStep DEF EndStep
<1>4. CASE Validate(e)
  BY <1>4, RuntimeValidates DEF Validate
<1>5. CASE WriteResult(e)
  <2>1. Running(e)
    BY <1>5 DEF WriteResult, Running
  <2> QED
    BY <1>5, <2>1, RuntimeWritesResult, RuntimeExits DEF WriteResult, FailedWrite
<1>6. CASE WriteReport(e)
  <2>1. Running(e) /\ container[e].pc = "report"
    BY <1>6 DEF WriteReport, Running
  <2> QED
    BY <1>6, <2>1, RuntimeExits DEF WriteReport, FailedWrite
<1>7. CASE Kill(e)
  BY <1>7, RuntimeExits DEF Kill
<1> QED
  BY <1>1, <1>2, <1>3, <1>4, <1>5, <1>6, <1>7 DEF ContainerStep

------------------------------------------------------------------------------
(* Types.  An execution that was not started has no runtime.               *)

StreamType == [{"digest", "last", "told"} -> {"none", "old", "current"}]

LEMMA FreshType == Fresh \in StreamType
BY DEF Fresh, StreamType

LEMMA OutdatedType ==
  ASSUME NEW k \in StreamType PROVE Outdated(k) \in StreamType
BY DEF Outdated, StreamType

NotIdle == \A e \in Execution : executor[e].pc = "idle" => container[e].pc = "none"

\* A finished or judged execution has a result.
Loaded == \A e \in Execution :
  /\ executor[e].pc \in {"report", "finish"} => executor[e].result \in Result
  /\ executor[e].pc \notin {"returned"} => executor[e].status = "none"

TypeInv == TypeOK /\ Runtimes /\ NotIdle /\ Loaded

LEMMA TypeInit == Init => TypeInv
<1> SUFFICES ASSUME Init PROVE TypeInv
  OBVIOUS
<1>1. NotStarted \in ContainerType
  <2>1. 0 \in 0 .. Steps /\ 0 \in 0 .. 2 * Steps + 2
    BY BoundsAssumption
  <2> HIDE DEF NoMeta
  <2> QED
    BY <2>1, NoMetaType DEF NotStarted, ContainerType
<1>2. container \in [Execution -> ContainerType]
  BY <1>1 DEF Init
<1>3. executor \in [Execution -> ExecutorType]
  BY DEF Init, ExecutorType
<1>4. stream \in [Execution -> StreamType]
  BY FreshType DEF Init
<1>5. /\ workspace \in [state : BOOLEAN, result : Result \cup {None}, report : ReportFile \cup {None}]
      /\ shared \subseteq Execution
      /\ faults \in 0 .. MaxFaults
  BY BoundsAssumption DEF Init
<1>6. TypeOK
  BY <1>2, <1>3, <1>4, <1>5 DEF TypeOK, ContainerType, ExecutorType, StreamType
<1>7. ASSUME NEW e \in Execution
      PROVE  RuntimeInv(e, container[e]) /\ container[e].pc = "none"
  <2>1. container[e] = NotStarted
    BY DEF Init
  <2>2. NotStarted.pc = "none" /\ NotStarted.exit = "none"
    BY DEF NotStarted
  <2> QED
    BY <2>1, <2>2 DEF RuntimeInv
<1>8. ASSUME NEW e \in Execution
      PROVE  executor[e].pc = "idle" /\ executor[e].status = "none"
  BY DEF Init
<1> QED
  BY <1>6, <1>7, <1>8 DEF TypeInv, Runtimes, NotIdle, Loaded

\* The files the runtime writes.
LEMMA ReportType ==
  ASSUME TypeOK, NEW e \in Execution PROVE Report(e) \in ReportFile
<1>1. container[e].meta \in Metadata
  BY ContainerTyped DEF ContainerType
<1> QED
  BY <1>1 DEF Report, ReportFile, Metadata

LEMMA FaultType ==
  ASSUME TypeOK, Fault \/ UNCHANGED faults PROVE faults' \in 0 .. MaxFaults
BY BoundsAssumption DEF TypeOK, Fault

LEMMA WriteStateType ==
  ASSUME TypeOK, writeState
  PROVE  /\ faults' \in 0 .. MaxFaults
         /\ stream' \in [Execution -> StreamType]
         /\ workspace' \in [state : BOOLEAN, result : Result \cup {None},
                             report : ReportFile \cup {None}]
         /\ workspace'.result = workspace.result
         /\ workspace'.report = workspace.report
<1>1. faults' \in 0 .. MaxFaults
  BY FaultType DEF writeState
<1>2. stream \in [Execution -> StreamType]
  BY DEF TypeOK, StreamType
<1>3. stream' \in [Execution -> StreamType]
  BY <1>2, OutdatedType DEF writeState
<1> QED
  BY <1>1, <1>3 DEF writeState, TypeOK

LEMMA GiveUpType ==
  ASSUME TypeOK, NEW e \in Execution, GiveUp(e)
  PROVE  faults' \in 0 .. MaxFaults /\ UNCHANGED <<stream, workspace>>
BY FaultType DEF GiveUp

\* What a step of the runtime of e does to the files: nothing but to state.json, or
\* it wrote its settled result, or its report and ended well.
Keeps(e) ==
  /\ workspace'.result = workspace.result /\ workspace'.report = workspace.report
  /\ container'[e].pc # "report" /\ container'[e].exit # "zero"
SavesResult(e) ==
  /\ container[e].pc = "result" /\ container'[e].pc = "report"
  /\ workspace'.result = container[e].result /\ workspace'.report = workspace.report
SavesReport(e) ==
  /\ container[e].pc = "report" /\ container'[e].exit = "zero"
  /\ workspace'.result = workspace.result /\ workspace'.report = Report(e)
StreamsLate == stream' \in {stream, [e \in Execution |-> Outdated(stream[e])]}

LEMMA RuntimeFiles ==
  ASSUME TypeOK, Runtimes, NEW e \in Execution, ContainerStep(e) \/ Kill(e)
  PROVE  /\ faults' \in 0 .. MaxFaults
         /\ stream' \in [Execution -> StreamType]
         /\ workspace' \in [state : BOOLEAN, result : Result \cup {None},
                             report : ReportFile \cup {None}]
         /\ Keeps(e) \/ SavesResult(e) \/ SavesReport(e)
         /\ StreamsLate
<1>1. PICK d \in ContainerType :
        container' = [container EXCEPT ![e] = d] /\ RuntimeInv(e, d) /\ Moves(e, d)
  BY RuntimeStep
<1>2. container'[e] = d /\ container[e] \in ContainerType
  BY <1>1, ContainerTyped
<1>3. stream \in [Execution -> StreamType] /\ workspace.result \in Result \cup {None}
  BY DEF TypeOK, StreamType
<1>4. ASSUME container[e].pc \in {"load", "step", "command", "validate"}
      PROVE  container'[e].pc # "report" /\ container'[e].exit # "zero"
  BY <1>1, <1>2, <1>4 DEF Moves
<1>5. ASSUME NEW code \in {"zero", "nonzero"},
             \/ container' = Exit(e, code)
             \/ container' = [Exit(e, code) EXCEPT ![e].persisted = NoMeta]
      PROVE  container'[e].pc = "exited" /\ container'[e].exit = code
  <2>1. DOMAIN container = Execution
    BY ContainerTyped
  <2> DEFINE c == container[e]
  <2>2. CASE container' = Exit(e, code)
    <3>1. container'[e] = [c EXCEPT !.pc = "exited", !.exit = code]
      BY <2>1, <2>2 DEF Exit
    <3> HIDE DEF c
    <3>2. c \in ContainerType
      BY <1>2 DEF c
    <3> QED
      BY <3>1, <3>2 DEF ContainerType
  <2>3. CASE container' = [Exit(e, code) EXCEPT ![e].persisted = NoMeta]
    <3>1. container'[e] = [c EXCEPT !.pc = "exited", !.exit = code, !.persisted = NoMeta]
      BY <2>1, <2>3 DEF Exit
    <3> HIDE DEF c
    <3>2. c \in ContainerType
      BY <1>2 DEF c
    <3> QED
      BY <3>1, <3>2 DEF ContainerType
  <2> QED
    BY <1>5, <2>2, <2>3
<1>6. ASSUME writeState \/ GiveUp(e),
             container[e].pc \in {"load", "step", "command", "validate"}
      PROVE  /\ faults' \in 0 .. MaxFaults
             /\ stream' \in [Execution -> StreamType]
             /\ workspace' \in [state : BOOLEAN, result : Result \cup {None},
                                 report : ReportFile \cup {None}]
             /\ Keeps(e)
             /\ StreamsLate
  <2>1. CASE writeState
    <3>1. StreamsLate
      BY <2>1 DEF writeState, StreamsLate
    <3> QED
      BY <1>4, <1>6, <2>1, <3>1, WriteStateType DEF Keeps
  <2>2. CASE GiveUp(e)
    BY <1>3, <1>4, <1>6, <2>2, GiveUpType DEF Keeps, StreamsLate, TypeOK
  <2> QED
    BY <1>6, <2>1, <2>2
<1>7. CASE LoadContract(e) \/ BeginStep(e) \/ EndStep(e) \/ Validate(e)
  <2>1. /\ writeState \/ GiveUp(e)
        /\ container[e].pc \in {"load", "step", "command", "validate"}
    BY <1>7 DEF LoadContract, BeginStep, EndStep, Validate
  <2> QED
    BY <1>6, <2>1
<1>8. ASSUME UNCHANGED <<stream, workspace>>, Fault,
             container'[e].pc = "exited" /\ container'[e].exit = "nonzero"
      PROVE  /\ faults' \in 0 .. MaxFaults
             /\ stream' \in [Execution -> StreamType]
             /\ workspace' \in [state : BOOLEAN, result : Result \cup {None},
                                 report : ReportFile \cup {None}]
             /\ Keeps(e)
             /\ StreamsLate
  BY <1>3, <1>8, FaultType DEF Keeps, StreamsLate, TypeOK
<1>9. CASE WriteResult(e)
  <2>1. CASE FailedWrite(e)
    BY <1>5, <1>8, <1>9, <2>1 DEF WriteResult, FailedWrite
  <2>2. CASE ~ FailedWrite(e)
    <3>1. /\ container[e].pc = "result"
          /\ workspace' = [workspace EXCEPT !.result = container[e].result]
          /\ container' = [container EXCEPT ![e].pc = "report"]
          /\ UNCHANGED <<faults, stream>>
      BY <1>9, <2>2 DEF WriteResult
    <3>2. container'[e].pc = "report"
      <4>1. container'[e] = [container[e] EXCEPT !.pc = "report"]
        BY <3>1, ContainerTyped
      <4> QED
        BY <1>2, <4>1 DEF ContainerType
    <3>3. container[e].result \in Result \cup {None}
      BY <1>2 DEF ContainerType
    <3>4. SavesResult(e) /\ workspace' \in [state : BOOLEAN, result : Result \cup {None},
                                             report : ReportFile \cup {None}]
      BY <3>1, <3>2, <3>3 DEF SavesResult, TypeOK
    <3> QED
      BY <1>3, <3>1, <3>4, FaultType DEF StreamsLate
  <2> QED
    BY <2>1, <2>2
<1>10. CASE WriteReport(e)
  <2>1. CASE FailedWrite(e)
    BY <1>5, <1>8, <1>10, <2>1 DEF WriteReport, FailedWrite
  <2>2. CASE ~ FailedWrite(e)
    <3>1. /\ container[e].pc = "report"
          /\ workspace' = [workspace EXCEPT !.report = Report(e)]
          /\ container' = Exit(e, "zero")
          /\ UNCHANGED <<faults, stream>>
      BY <1>10, <2>2 DEF WriteReport
    <3>2. container'[e].exit = "zero"
      BY <1>5, <3>1
    <3>3. Report(e) \in ReportFile
      BY ReportType
    <3>4. SavesReport(e) /\ workspace' \in [state : BOOLEAN, result : Result \cup {None},
                                             report : ReportFile \cup {None}]
      BY <3>1, <3>2, <3>3 DEF SavesReport, TypeOK
    <3> QED
      BY <1>3, <3>1, <3>4, FaultType DEF StreamsLate
  <2> QED
    BY <2>1, <2>2
<1>11. CASE Kill(e)
  BY <1>5, <1>8, <1>11 DEF Kill
<1> QED
  BY <1>7, <1>9, <1>10, <1>11 DEF ContainerStep

\* What a step of the executor makes of it.
Going(x, y) == x.result = y.result /\ x.report = y.report /\ x.status = y.status
Waits(e, x) ==
  LET y == executor[e] IN
  /\ Going(x, y)
  /\ \/ x.pc = y.pc
     \/ y.pc = "running" /\ x.pc = "draining" /\ container[e].pc = "exited"
     \/ y.pc = "draining" /\ x.pc = "latest" /\ container[e].exit = "zero"
     \/ y.pc = "latest" /\ x.pc = "result"
Fails(e, x) ==
  LET y == executor[e] IN
  /\ x.result = y.result /\ x.report = y.report
  /\ \/ x.pc = "returned" /\ x.status = "failed"
     \/ x.pc = "crashed" /\ x.status = y.status /\ y.pc # "returned"
TakesResult(e, x) ==
  /\ executor[e].pc = "result" /\ x.pc = "report" /\ workspace.result # None
  /\ x.result = workspace.result /\ x.report = executor[e].report
  /\ x.status = executor[e].status
TakesReport(e, x) ==
  /\ executor[e].pc = "report" /\ x.pc = "finish" /\ workspace.report # None
  /\ x.report \in [by : Execution, complete : BOOLEAN] /\ x.report.by = workspace.report.by
  /\ x.result = executor[e].result /\ x.status = executor[e].status
Judges(e, x) ==
  /\ executor[e].pc = "finish" /\ x.pc = "returned"
  /\ x.status \in {executor[e].result.status, "failed"}
  /\ x.result = executor[e].result /\ x.report = executor[e].report

\* The only step of the executor that touches the runtime.
Launch(e) ==
  /\ executor[e].pc = "idle"
  /\ executor' = [executor EXCEPT ![e].pc = "running"]
  /\ container' = [container EXCEPT ![e].pc = "load"]
  /\ LET others == {f \in Execution : InProgress(f)} IN
     shared' = shared \cup others \cup IF others = {} THEN {} ELSE {e}
  /\ UNCHANGED <<stream, workspace, faults>>

LEMMA ExecutorTyped ==
  ASSUME TypeOK, NEW e \in Execution
  PROVE  executor[e] \in ExecutorType /\ DOMAIN executor = Execution
BY DEF TypeOK, ExecutorType

LEMMA ExecutorSame ==
  ASSUME TypeOK, NEW e \in Execution PROVE executor = [executor EXCEPT ![e] = executor[e]]
BY DEF TypeOK

LEMMA PcMoved ==
  ASSUME TypeOK, NEW e \in Execution,
         NEW p \in {"running", "draining", "latest", "result", "crashed"},
         executor' = [executor EXCEPT ![e].pc = p]
  PROVE  \E x \in ExecutorType :
           executor' = [executor EXCEPT ![e] = x] /\ x.pc = p /\ Going(x, executor[e])
<1> DEFINE y == executor[e]
           x == [y EXCEPT !.pc = p]
<1>1. y \in ExecutorType
  BY ExecutorTyped
<1>2. executor' = [executor EXCEPT ![e] = x]
  BY ExecutorTyped
<1>3. x \in ExecutorType /\ x.pc = p /\ Going(x, y)
  <2> HIDE DEF y
  <2> QED
    BY <1>1 DEF ExecutorType, Going
<1> HIDE DEF x
<1> QED
  BY <1>2, <1>3

LEMMA ReturnsStatus ==
  ASSUME TypeOK, NEW e \in Execution, NEW s \in Statuses, executor' = Returned(e, s)
  PROVE  \E x \in ExecutorType :
           /\ executor' = [executor EXCEPT ![e] = x] /\ x.pc = "returned" /\ x.status = s
           /\ x.result = executor[e].result /\ x.report = executor[e].report
<1> DEFINE y == executor[e]
           x == [y EXCEPT !.pc = "returned", !.status = s]
<1>1. y \in ExecutorType
  BY ExecutorTyped
<1>2. executor' = [executor EXCEPT ![e] = x]
  BY ExecutorTyped DEF Returned
<1>3. /\ x \in ExecutorType /\ x.pc = "returned" /\ x.status = s
      /\ x.result = y.result /\ x.report = y.report
  <2> HIDE DEF y
  <2> QED
    BY <1>1 DEF ExecutorType
<1> HIDE DEF x
<1> QED
  BY <1>2, <1>3

LEMMA ReturnsFailed ==
  ASSUME TypeOK, NEW e \in Execution, executor' = Returned(e, "failed")
  PROVE  \E x \in ExecutorType : executor' = [executor EXCEPT ![e] = x] /\ Fails(e, x)
<1>1. "failed" \in Statuses
  BY DEF Statuses
<1> QED
  BY <1>1, ReturnsStatus DEF Fails

LEMMA EmissionEnds ==
  ASSUME TypeOK, NEW e \in Execution, executor' = AfterEmission(e)
  PROVE  \E x \in ExecutorType :
           executor' = [executor EXCEPT ![e] = x] /\ (Waits(e, x) \/ Fails(e, x))
<1>1. CASE executor[e].pc = "draining" /\ container[e].exit = "zero"
  <2>1. executor' = [executor EXCEPT ![e].pc = "latest"]
    BY <1>1 DEF AfterEmission
  <2> QED
    BY <1>1, <2>1, PcMoved DEF Waits
<1>2. CASE executor[e].pc = "draining" /\ container[e].exit # "zero"
  <2>1. executor' = Returned(e, "failed")
    BY <1>2 DEF AfterEmission
  <2> QED
    BY <2>1, ReturnsFailed
<1>3. CASE executor[e].pc = "latest"
  <2>1. executor' = [executor EXCEPT ![e].pc = "result"]
    BY <1>3 DEF AfterEmission
  <2> QED
    BY <1>3, <2>1, PcMoved DEF Waits
<1>4. CASE executor[e].pc \notin {"draining", "latest"}
  <2>1. executor' = executor
    BY <1>4 DEF AfterEmission
  <2>2. executor' = [executor EXCEPT ![e] = executor[e]]
    BY <2>1, ExecutorSame
  <2> QED
    BY <2>2, ExecutorTyped DEF Waits, Going
<1> QED
  BY <1>1, <1>2, <1>3, <1>4

\* Every step of the executor of e moves it, in order, and no other one; only its
\* start touches the runtime.
ExecutorMoves(e, x) ==
  Waits(e, x) \/ Fails(e, x) \/ TakesResult(e, x) \/ TakesReport(e, x) \/ Judges(e, x)

LEMMA ExecutorMoved ==
  ASSUME TypeOK, Loaded, NEW e \in Execution, ExecutorStep(e) \/ Crash(e)
  PROVE  \/ Launch(e)
         \/ /\ UNCHANGED <<container, workspace, shared>>
            /\ faults' \in 0 .. MaxFaults
            /\ stream' \in [Execution -> StreamType]
            /\ \E x \in ExecutorType :
                 executor' = [executor EXCEPT ![e] = x] /\ ExecutorMoves(e, x)
<1>1. stream \in [Execution -> StreamType] /\ executor[e] \in ExecutorType
  BY ExecutorTyped DEF TypeOK, StreamType
<1>2. CASE Start(e)
  BY <1>1, <1>2, FaultType, ReturnsFailed DEF Start, Launch, ExecutorMoves
<1>3. CASE Look(e)
  <2>1. executor' = [executor EXCEPT ![e] = executor[e]]
    BY <1>3, ExecutorSame DEF Look
  <2>2. Waits(e, executor[e])
    BY DEF Waits, Going
  <2>3. stream' \in [Execution -> StreamType]
    BY <1>1, <1>3 DEF Look, StreamType
  <2> QED
    BY <1>1, <1>3, <2>1, <2>2, <2>3, FaultType DEF Look, ExecutorMoves
<1>4. CASE Tell(e)
  <2>1. stream[e].digest \in {"none", "old", "current"}
    BY <1>1 DEF StreamType
  <2>2. [told |-> "current", last |-> stream[e].digest, digest |-> "none"] \in StreamType
    BY <2>1 DEF StreamType
  <2>3. stream' \in [Execution -> StreamType]
    BY <1>1, <1>4, <2>2 DEF Tell
  <2> QED
    BY <1>4, <2>3, FaultType, EmissionEnds DEF Tell, ExecutorMoves
<1>5. CASE NothingToTell(e)
  BY <1>1, <1>5, FaultType, EmissionEnds DEF NothingToTell, ExecutorMoves
<1>6. CASE Drain(e)
  <2>1. executor' = [executor EXCEPT ![e].pc = "draining"]
    BY <1>6 DEF Drain
  <2> QED
    BY <1>1, <1>6, <2>1, FaultType, PcMoved DEF Drain, ExecutorMoves, Waits
<1>7. CASE LoadResult(e)
  <2>1. stream' \in [Execution -> StreamType]
    BY <1>1, <1>7, FreshType DEF LoadResult
  <2>2. CASE workspace.result = None
    BY <1>7, <2>1, <2>2, FaultType, ReturnsFailed DEF LoadResult, ExecutorMoves
  <2>3. CASE workspace.result # None
    <3> DEFINE y == executor[e]
               x == [y EXCEPT !.pc = "report", !.result = workspace.result]
    <3>1. executor' = [executor EXCEPT ![e] = x]
      BY <1>7, <2>3, ExecutorTyped DEF LoadResult
    <3>2. workspace.result \in Result \cup {None}
      BY DEF TypeOK
    <3>3. /\ x \in ExecutorType /\ x.pc = "report" /\ x.result = workspace.result
          /\ x.report = y.report /\ x.status = y.status
      <4> HIDE DEF y
      <4>1. y \in ExecutorType
        BY <1>1 DEF y
      <4> QED
        BY <3>2, <4>1 DEF ExecutorType
    <3> HIDE DEF x
    <3>4. TakesResult(e, x)
      BY <1>7, <2>3, <3>3 DEF TakesResult, LoadResult
    <3> QED
      BY <1>7, <2>1, <3>1, <3>3, <3>4, FaultType DEF LoadResult, ExecutorMoves
  <2> QED
    BY <2>2, <2>3
<1>8. CASE LoadReport(e)
  <2>1. CASE workspace.report = None
    BY <1>1, <1>8, <2>1, FaultType, ReturnsFailed DEF LoadReport, ExecutorMoves
  <2>2. CASE workspace.report # None
    <3> DEFINE y == executor[e]
               r == [by |-> workspace.report.by, complete |-> workspace.report.complete]
               x == [y EXCEPT !.pc = "finish", !.report = r]
    <3>1. executor' = [executor EXCEPT ![e] = x]
      BY <1>8, <2>2, ExecutorTyped DEF LoadReport
    <3>2. r \in [by : Execution, complete : BOOLEAN] /\ r.by = workspace.report.by
      BY <2>2 DEF TypeOK, ReportFile
    <3> HIDE DEF r
    <3>3. /\ x \in ExecutorType /\ x.pc = "finish" /\ x.report = r
          /\ x.result = y.result /\ x.status = y.status
      <4> HIDE DEF y
      <4>1. y \in ExecutorType
        BY <1>1 DEF y
      <4> QED
        BY <3>2, <4>1 DEF ExecutorType
    <3> HIDE DEF x
    <3>4. TakesReport(e, x)
      BY <1>8, <2>2, <3>2, <3>3 DEF TakesReport, LoadReport
    <3> QED
      BY <1>1, <1>8, <3>1, <3>3, <3>4, FaultType DEF LoadReport, ExecutorMoves
  <2> QED
    BY <2>1, <2>2
<1>9. CASE Finish(e)
  <2> DEFINE s == IF validateSuccessCriteria(executor[e].result, executor[e].report)
                  THEN executor[e].result.status ELSE "failed"
  <2>1. s \in Statuses /\ s \in {executor[e].result.status, "failed"}
    BY <1>9 DEF Finish, Loaded, Result, Statuses
  <2>2. CASE executor' = Returned(e, s) /\ UNCHANGED faults
    <3> HIDE DEF s
    <3>1. PICK x \in ExecutorType :
            /\ executor' = [executor EXCEPT ![e] = x] /\ x.pc = "returned" /\ x.status = s
            /\ x.result = executor[e].result /\ x.report = executor[e].report
      BY <2>1, <2>2, ReturnsStatus
    <3>2. Judges(e, x)
      BY <1>9, <2>1, <3>1 DEF Judges, Finish
    <3> QED
      BY <1>1, <1>9, <2>2, <3>1, <3>2, FaultType DEF Finish, ExecutorMoves
  <2>3. CASE executor' = Returned(e, "failed") /\ Fault
    BY <1>1, <1>9, <2>3, FaultType, ReturnsFailed DEF Finish, ExecutorMoves
  <2> QED
    BY <1>9, <2>2, <2>3 DEF Finish
<1>10. CASE Crash(e)
  <2>1. stream' \in [Execution -> StreamType]
    BY <1>1, <1>10, FreshType DEF Crash
  <2>2. executor' = [executor EXCEPT ![e].pc = "crashed"] /\ executor[e].pc # "returned"
    BY <1>10 DEF Crash
  <2> QED
    BY <1>10, <2>1, <2>2, FaultType, PcMoved DEF Crash, ExecutorMoves, Fails, Going
<1> QED
  BY <1>2, <1>3, <1>4, <1>5, <1>6, <1>7, <1>8, <1>9, <1>10 DEF ExecutorStep

\* The start of an execution: its runtime is new.
LEMMA Launched ==
  ASSUME TypeInv, NEW e \in Execution, Launch(e)
  PROVE  /\ \E d \in ContainerType :
              /\ container' = [container EXCEPT ![e] = d] /\ RuntimeInv(e, d)
              /\ d.pc = "load" /\ container[e].pc = "none" /\ d.exit = "none"
         /\ \E x \in ExecutorType :
              /\ executor' = [executor EXCEPT ![e] = x] /\ x.pc = "running"
              /\ Going(x, executor[e])
<1> DEFINE c == container[e]
           d == [c EXCEPT !.pc = "load"]
<1>1. c \in ContainerType /\ RuntimeInv(e, c) /\ c.pc = "none"
  BY ContainerTyped DEF TypeInv, Runtimes, NotIdle, Launch
<1>2. container' = [container EXCEPT ![e] = d]
  BY ContainerTyped DEF TypeInv, Launch
<1> HIDE DEF c
<1>3. d \in ContainerType /\ d.pc = "load" /\ d.seq = c.seq /\ d.exit = c.exit
  BY <1>1 DEF ContainerType
<1>4. c.seq = 0 /\ c.exit = "none"
  <2>1. c = NotStarted
    BY <1>1 DEF RuntimeInv
  <2> QED
    BY <2>1 DEF NotStarted
<1> HIDE DEF d
<1>5. RuntimeInv(e, d)
  BY <1>3, <1>4 DEF RuntimeInv
<1>6. \E x \in ExecutorType :
        executor' = [executor EXCEPT ![e] = x] /\ x.pc = "running" /\ Going(x, executor[e])
  BY PcMoved DEF Launch, TypeInv
<1> QED
  BY <1>1, <1>2, <1>3, <1>4, <1>5, <1>6 DEF c

LEMMA TypeStep == TypeInv /\ [Next]_vars => TypeInv'
<1> SUFFICES ASSUME TypeInv, [Next]_vars PROVE TypeInv'
  OBVIOUS
<1>1. ASSUME container' \in [Execution -> ContainerType],
             executor' \in [Execution -> ExecutorType],
             stream' \in [Execution -> StreamType],
             workspace' \in [state : BOOLEAN, result : Result \cup {None},
                             report : ReportFile \cup {None}],
             shared' \subseteq Execution, faults' \in 0 .. MaxFaults
      PROVE  TypeOK'
  BY <1>1 DEF TypeOK, ContainerType, ExecutorType, StreamType
<1>2. /\ container \in [Execution -> ContainerType]
      /\ executor \in [Execution -> ExecutorType]
      /\ shared \subseteq Execution
      /\ workspace \in [state : BOOLEAN, result : Result \cup {None},
                        report : ReportFile \cup {None}]
      /\ stream \in [Execution -> StreamType]
      /\ faults \in 0 .. MaxFaults
  BY DEF TypeInv, TypeOK, ContainerType, ExecutorType, StreamType
<1>3. ASSUME NEW e \in Execution, ContainerStep(e) \/ Kill(e) PROVE TypeInv'
  <2>1. PICK d \in ContainerType :
          container' = [container EXCEPT ![e] = d] /\ RuntimeInv(e, d) /\ Moves(e, d)
    BY <1>3, RuntimeStep DEF TypeInv
  <2>2. UNCHANGED <<executor, shared>>
    BY <1>3, RuntimeStep DEF TypeInv
  <2>3. TypeOK'
    <3>1. container' \in [Execution -> ContainerType]
      BY <1>2, <2>1
    <3> QED
      BY <1>1, <1>2, <1>3, <2>2, <3>1, RuntimeFiles DEF TypeInv
  <2>4. Runtimes'
    BY <1>2, <2>1 DEF TypeInv, Runtimes
  <2>5. NotIdle'
    <3>1. executor[e].pc # "idle"
      BY <2>1 DEF TypeInv, NotIdle, Moves
    <3> QED
      BY <1>2, <2>1, <2>2, <3>1 DEF TypeInv, NotIdle
  <2>6. Loaded'
    BY <2>2 DEF TypeInv, Loaded
  <2> QED
    BY <2>3, <2>4, <2>5, <2>6 DEF TypeInv
<1>4. ASSUME NEW e \in Execution, Launch(e) PROVE TypeInv'
  <2>1. PICK d \in ContainerType :
          /\ container' = [container EXCEPT ![e] = d] /\ RuntimeInv(e, d)
          /\ d.pc = "load" /\ container[e].pc = "none" /\ d.exit = "none"
    BY <1>4, Launched
  <2>2. PICK x \in ExecutorType :
          executor' = [executor EXCEPT ![e] = x] /\ x.pc = "running" /\ Going(x, executor[e])
    BY <1>4, Launched
  <2>3. shared' \subseteq Execution
    BY <1>2, <1>4 DEF Launch
  <2>4. UNCHANGED <<stream, workspace, faults>>
    BY <1>4 DEF Launch
  <2>5. container' \in [Execution -> ContainerType] /\ executor' \in [Execution -> ExecutorType]
    BY <1>2, <2>1, <2>2
  <2>6. Runtimes'
    BY <1>2, <2>1 DEF TypeInv, Runtimes
  <2>7. NotIdle'
    BY <1>2, <2>1, <2>2 DEF TypeInv, NotIdle
  <2>8. Loaded'
    <3>1. executor[e].status = "none"
      BY <1>4 DEF TypeInv, Loaded, Launch
    <3> QED
      BY <1>2, <2>2, <3>1 DEF TypeInv, Loaded, Going
  <2> QED
    BY <1>1, <1>2, <2>3, <2>4, <2>5, <2>6, <2>7, <2>8 DEF TypeInv
<1>5. ASSUME NEW e \in Execution, ExecutorStep(e) \/ Crash(e), ~ Launch(e) PROVE TypeInv'
  <2>1. /\ UNCHANGED <<container, workspace, shared>>
        /\ faults' \in 0 .. MaxFaults
        /\ stream' \in [Execution -> StreamType]
    BY <1>5, ExecutorMoved DEF TypeInv
  <2>2. PICK x \in ExecutorType : executor' = [executor EXCEPT ![e] = x] /\ ExecutorMoves(e, x)
    BY <1>5, ExecutorMoved DEF TypeInv
  <2>3. executor' \in [Execution -> ExecutorType]
    BY <1>2, <2>2
  <2>4. Runtimes'
    BY <2>1 DEF TypeInv, Runtimes
  <2>5. x.pc = "idle" => executor[e].pc = "idle"
    BY <2>2 DEF ExecutorMoves, Waits, Fails, TakesResult, TakesReport, Judges
  <2>6. NotIdle'
    BY <1>2, <2>1, <2>2, <2>5 DEF TypeInv, NotIdle
  <2>7. /\ x.pc \in {"report", "finish"} => x.result \in Result
        /\ x.pc \notin {"returned"} => x.status = "none"
    <3>1. /\ executor[e].pc \in {"report", "finish"} => executor[e].result \in Result
          /\ executor[e].pc \notin {"returned"} => executor[e].status = "none"
      BY DEF TypeInv, Loaded
    <3>2. workspace.result \in Result \cup {None}
      BY <1>2
    <3> QED
      BY <2>2, <3>1, <3>2
         DEF ExecutorMoves, Waits, Going, Fails, TakesResult, TakesReport, Judges
  <2>8. Loaded'
    BY <1>2, <2>2, <2>7 DEF TypeInv, Loaded
  <2> QED
    BY <1>1, <1>2, <2>1, <2>3, <2>4, <2>6, <2>8 DEF TypeInv
<1>6. CASE UNCHANGED vars
  BY <1>6 DEF vars, TypeInv, TypeOK, Runtimes, NotIdle, Loaded
<1> QED
  BY <1>3, <1>4, <1>5, <1>6 DEF Next, Terminated

\* The files, the runtimes and the executors always have their types: a runtime
\* numbers its transitions within 2 * Steps + 2 and no more than MaxFaults things go
\* wrong, whatever the executions do to each other's files.
THEOREM ExecutionTypeCorrect == Spec => []TypeOK
<1>1. TypeInv => TypeOK
  BY DEF TypeInv
<1> QED
  BY <1>1, TypeInit, TypeStep, PTL DEF Spec

------------------------------------------------------------------------------
(* Evidence.  Whatever lies in the workspace, and whatever an executor     *)
(* read there, is what some runtime settled on; a runtime that wrote its   *)
(* result changes nothing of what it is about any more.                    *)

ResultBacked(r, k) ==
  /\ k[r.by].pc \in {"report", "exited"}
  /\ k[r.by].result = r
  /\ Validated(r.by, k[r.by])
ReportBacked(r, k) ==
  /\ k[r.by].pc = "exited"
  /\ Validated(r.by, k[r.by])
  /\ r.transitions = k[r.by].meta.transitions
  /\ r.step_log = k[r.by].meta.step_log

ResultEvidence == workspace.result # None => ResultBacked(workspace.result, container)
ReportEvidence == workspace.report # None => ReportBacked(workspace.report, container)
ReadEvidence == \A e \in Execution :
  /\ executor[e].result # None => ResultBacked(executor[e].result, container)
  /\ executor[e].pc \in {"report", "finish"} => executor[e].result # None
  /\ executor[e].status = "succeeded" =>
       executor[e].result # None /\ executor[e].result.status = "succeeded"

EvidenceInv == ResultEvidence /\ ReportEvidence /\ ReadEvidence

LEMMA ValidatedStays ==
  ASSUME NEW b, NEW c, NEW d, Same(c, d), Validated(b, c) PROVE Validated(b, d)
BY DEF Same, Validated, GaveUp, Ran

\* Whose result is settled does not move, but to its end.
LEMMA SettledStays ==
  ASSUME TypeInv, NEW e \in Execution,
         \/ ContainerStep(e) \/ Kill(e)
         \/ Launch(e)
         \/ UNCHANGED container,
         NEW b \in Execution, container[b].pc \in {"report", "exited"}
  PROVE  /\ container'[b].pc \in {"report", "exited"}
         /\ container[b].pc = "exited" => container'[b] = container[b]
         /\ Same(container[b], container'[b])
<1>1. DOMAIN container = Execution
  BY ContainerTyped DEF TypeInv
<1>2. CASE ContainerStep(e) \/ Kill(e)
  <2>1. PICK d \in ContainerType : container' = [container EXCEPT ![e] = d] /\ Moves(e, d)
    BY <1>2, RuntimeStep DEF TypeInv
  <2>2. CASE b = e
    BY <1>1, <2>1, <2>2 DEF Moves
  <2>3. CASE b # e
    BY <1>1, <2>1, <2>3 DEF Same
  <2> QED
    BY <2>2, <2>3
<1>3. CASE Launch(e)
  <2>1. PICK d \in ContainerType :
          container' = [container EXCEPT ![e] = d] /\ container[e].pc = "none"
    BY <1>3, Launched
  <2>2. b # e
    BY <2>1
  <2> QED
    BY <1>1, <2>1, <2>2 DEF Same
<1>4. CASE UNCHANGED container
  BY <1>4 DEF Same
<1> QED
  BY <1>2, <1>3, <1>4

LEMMA EvidenceStays ==
  ASSUME TypeInv, NEW e \in Execution,
         \/ ContainerStep(e) \/ Kill(e)
         \/ Launch(e)
         \/ UNCHANGED container
  PROVE  /\ \A r \in Result : ResultBacked(r, container) => ResultBacked(r, container')
         /\ \A r \in ReportFile : ReportBacked(r, container) => ReportBacked(r, container')
<1>1. ASSUME NEW r \in Result, ResultBacked(r, container) PROVE ResultBacked(r, container')
  <2>1. r.by \in Execution
    BY DEF Result
  <2>2. /\ container[r.by].pc \in {"report", "exited"}
        /\ Validated(r.by, container[r.by]) /\ container[r.by].result = r
    BY <1>1 DEF ResultBacked
  <2>3. container'[r.by].pc \in {"report", "exited"} /\ Same(container[r.by], container'[r.by])
    BY <2>1, <2>2, SettledStays
  <2>4. Validated(r.by, container'[r.by])
    BY <2>2, <2>3, ValidatedStays
  <2> QED
    BY <2>2, <2>3, <2>4 DEF ResultBacked, Same
<1>2. ASSUME NEW r \in ReportFile, ReportBacked(r, container) PROVE ReportBacked(r, container')
  <2>1. r.by \in Execution
    BY DEF ReportFile
  <2>2. container[r.by].pc = "exited"
    BY <1>2 DEF ReportBacked
  <2>3. container'[r.by] = container[r.by]
    BY <2>1, <2>2, SettledStays
  <2> QED
    BY <1>2, <2>3 DEF ReportBacked
<1> QED
  BY <1>1, <1>2

LEMMA EvidenceInit == Init => EvidenceInv
<1> SUFFICES ASSUME Init PROVE EvidenceInv
  OBVIOUS
<1>1. workspace.result = None /\ workspace.report = None
  BY DEF Init
<1>2. ASSUME NEW e \in Execution
      PROVE  executor[e].result = None /\ executor[e].pc = "idle" /\ executor[e].status = "none"
  BY DEF Init
<1> QED
  BY <1>1, <1>2 DEF EvidenceInv, ResultEvidence, ReportEvidence, ReadEvidence

LEMMA EvidenceStep == TypeInv /\ TypeInv' /\ EvidenceInv /\ [Next]_vars => EvidenceInv'
<1> SUFFICES ASSUME TypeInv, TypeInv', EvidenceInv, [Next]_vars PROVE EvidenceInv'
  OBVIOUS
<1>1. /\ workspace.result \in Result \cup {None} /\ workspace'.result \in Result \cup {None}
      /\ workspace.report \in ReportFile \cup {None}
      /\ \A e \in Execution : executor[e].result \in Result \cup {None}
  BY DEF TypeInv, TypeOK
<1>2. ASSUME NEW e \in Execution, ContainerStep(e) \/ Kill(e) PROVE EvidenceInv'
  <2>1. /\ \A r \in Result : ResultBacked(r, container) => ResultBacked(r, container')
        /\ \A r \in ReportFile : ReportBacked(r, container) => ReportBacked(r, container')
    BY <1>2, EvidenceStays
  <2>2. executor' = executor
    BY <1>2, RuntimeStep DEF TypeInv
  <2>3. PICK d \in ContainerType :
          container' = [container EXCEPT ![e] = d] /\ RuntimeInv(e, d) /\ Moves(e, d)
    BY <1>2, RuntimeStep DEF TypeInv
  <2>4. container'[e] = d /\ RuntimeInv(e, container[e]) /\ container[e] \in ContainerType
    BY <2>3, ContainerTyped DEF TypeInv, Runtimes
  <2>5. ReadEvidence'
    BY <1>1, <2>1, <2>2 DEF EvidenceInv, ReadEvidence
  <2>6. CASE Keeps(e)
    <3>1. ResultEvidence'
      BY <1>1, <2>1, <2>6 DEF EvidenceInv, ResultEvidence, Keeps
    <3>2. ReportEvidence'
      BY <1>1, <2>1, <2>6 DEF EvidenceInv, ReportEvidence, Keeps
    <3> QED
      BY <2>5, <3>1, <3>2 DEF EvidenceInv
  <2>7. CASE SavesResult(e)
    <3>1. /\ d.result = container[e].result /\ d.pc = "report" /\ Same(container[e], d)
          /\ container[e].result.by = e /\ Validated(e, container[e])
      BY <2>3, <2>4, <2>7 DEF SavesResult, Moves, Same, RuntimeInv
    <3>2. Validated(e, d)
      BY <3>1, ValidatedStays
    <3>3. ResultEvidence'
      BY <2>4, <2>7, <3>1, <3>2 DEF SavesResult, ResultEvidence, ResultBacked
    <3>4. ReportEvidence'
      BY <1>1, <2>1, <2>7 DEF EvidenceInv, ReportEvidence, SavesResult
    <3> QED
      BY <2>5, <3>3, <3>4 DEF EvidenceInv
  <2>8. CASE SavesReport(e)
    <3>1. /\ d.pc = "exited" /\ Same(container[e], d) /\ Validated(e, container[e])
      BY <2>3, <2>4, <2>8 DEF SavesReport, Moves, RuntimeInv
    <3>2. Validated(e, d)
      BY <3>1, ValidatedStays
    <3>3. /\ workspace'.report.by = e
          /\ workspace'.report.transitions = d.meta.transitions
          /\ workspace'.report.step_log = d.meta.step_log
      BY <2>8, <3>1 DEF SavesReport, Report, Same
    <3>4. ReportEvidence'
      BY <2>4, <3>1, <3>2, <3>3 DEF ReportEvidence, ReportBacked
    <3>5. ResultEvidence'
      BY <1>1, <2>1, <2>8 DEF EvidenceInv, ResultEvidence, SavesReport
    <3> QED
      BY <2>5, <3>4, <3>5 DEF EvidenceInv
  <2> QED
    BY <1>2, <2>6, <2>7, <2>8, RuntimeFiles DEF TypeInv
<1>3. ASSUME NEW e \in Execution, Launch(e) PROVE EvidenceInv'
  <2>1. /\ \A r \in Result : ResultBacked(r, container) => ResultBacked(r, container')
        /\ \A r \in ReportFile : ReportBacked(r, container) => ReportBacked(r, container')
    BY <1>3, EvidenceStays
  <2>2. PICK x \in ExecutorType :
          executor' = [executor EXCEPT ![e] = x] /\ x.pc = "running" /\ Going(x, executor[e])
    BY <1>3, Launched
  <2>3. workspace' = workspace
    BY <1>3 DEF Launch
  <2>4. ReadEvidence'
    <3>1. DOMAIN executor = Execution
      BY ExecutorTyped DEF TypeInv
    <3> QED
      BY <1>1, <2>1, <2>2, <3>1 DEF EvidenceInv, ReadEvidence, Going
  <2>5. ResultEvidence' /\ ReportEvidence'
    BY <1>1, <2>1, <2>3 DEF EvidenceInv, ResultEvidence, ReportEvidence
  <2> QED
    BY <2>4, <2>5 DEF EvidenceInv
<1>4. ASSUME NEW e \in Execution, ExecutorStep(e) \/ Crash(e), ~ Launch(e) PROVE EvidenceInv'
  <2>1. UNCHANGED <<container, workspace>>
    BY <1>4, ExecutorMoved DEF TypeInv
  <2>2. PICK x \in ExecutorType : executor' = [executor EXCEPT ![e] = x] /\ ExecutorMoves(e, x)
    BY <1>4, ExecutorMoved DEF TypeInv
  <2>3. ResultEvidence' /\ ReportEvidence'
    BY <2>1 DEF EvidenceInv, ResultEvidence, ReportEvidence
  <2>4. /\ x.result # None => ResultBacked(x.result, container)
        /\ x.pc \in {"report", "finish"} => x.result # None
        /\ x.status = "succeeded" => x.result # None /\ x.result.status = "succeeded"
    <3>1. /\ executor[e].result # None => ResultBacked(executor[e].result, container)
          /\ executor[e].pc \in {"report", "finish"} => executor[e].result # None
          /\ executor[e].status = "succeeded" =>
               executor[e].result # None /\ executor[e].result.status = "succeeded"
          /\ workspace.result # None => ResultBacked(workspace.result, container)
          /\ executor[e].pc \notin {"returned"} => executor[e].status = "none"
      BY DEF EvidenceInv, ReadEvidence, ResultEvidence, TypeInv, Loaded
    <3> QED
      BY <2>2, <3>1
         DEF ExecutorMoves, Waits, Going, Fails, TakesResult, TakesReport, Judges
  <2>5. ReadEvidence'
    <3>1. DOMAIN executor = Execution
      BY ExecutorTyped DEF TypeInv
    <3> QED
      BY <2>1, <2>2, <2>4, <3>1 DEF EvidenceInv, ReadEvidence
  <2> QED
    BY <2>3, <2>5 DEF EvidenceInv
<1>5. CASE UNCHANGED vars
  BY <1>5 DEF vars, EvidenceInv, ResultEvidence, ReportEvidence, ReadEvidence
<1> QED
  BY <1>2, <1>3, <1>4, <1>5 DEF Next, Terminated

\* Whatever other executions of the attempt do to the workspace, an executor returns
\* "succeeded" only if one runtime ran every step of the plan with success and found
\* its criteria satisfied.
THEOREM SuccessIsEarned == Spec => []SuccessIsBacked
<1>1. TypeInv /\ EvidenceInv => SuccessIsBacked
  <2> SUFFICES ASSUME TypeInv, EvidenceInv, NEW e \in Execution,
                      executor[e].status = "succeeded"
               PROVE  LET c == container[executor[e].result.by] IN
                      /\ c.result.status = "succeeded" /\ c.result.complete /\ c.meta.complete
                      /\ Len(c.meta.step_log) = Steps
                      /\ \A i \in 1 .. Steps : c.meta.step_log[i].event = "succeeded"
    BY DEF SuccessIsBacked
  <2> DEFINE b == executor[e].result.by
             c == container[b]
  <2>1. Validated(b, c) /\ c.result.status = "succeeded"
    BY DEF EvidenceInv, ReadEvidence, ResultBacked
  <2>2. ~ GaveUp(b, c)
    BY <2>1 DEF GaveUp, failedResult
  <2>3. Ran(c) /\ c.result.complete /\ c.meta.complete
    BY <2>1, <2>2 DEF Validated
  <2> QED
    BY <2>1, <2>3 DEF Ran, AllSucceeded
<1> QED
  BY <1>1, TypeInit, TypeStep, EvidenceInit, EvidenceStep, PTL DEF Spec

\* The step log of a report has every step its runtime ran, in order, and none but
\* the last failed, although the log goes through a file around every step; the
\* transitions are the last ones recorded, without a gap.
THEOREM StepLogsAreComplete == Spec => []StepLogKept
<1>1. TypeInv /\ EvidenceInv => StepLogKept
  <2> SUFFICES ASSUME TypeInv, EvidenceInv, workspace.report # None PROVE StepLogKept
    BY DEF StepLogKept
  <2> DEFINE r == workspace.report
             c == container[r.by]
  <2>1. /\ Validated(r.by, c) /\ r.transitions = c.meta.transitions
        /\ r.step_log = c.meta.step_log
    BY DEF EvidenceInv, ReportEvidence, ReportBacked
  <2>2. CASE GaveUp(r.by, c)
    <3>1. r.step_log = <<>> /\ r.transitions = <<>> /\ c.result = failedResult(r.by)
      BY <2>1, <2>2 DEF GaveUp, NoMeta
    <3> QED
      BY <3>1 DEF StepLogKept
  <2>3. CASE Ran(c)
    <3>1. /\ Len(r.step_log) = c.step
          /\ \A i \in 1 .. c.step : r.step_log[i].step = i
          /\ \A i \in 1 .. c.step - 1 : r.step_log[i].event = "succeeded"
      BY <2>1, <2>3 DEF Ran, LastMayFail
    <3>2. \A n \in DOMAIN r.transitions : r.transitions[n] = c.seq - Len(r.transitions) + n
      BY <2>1, <2>3 DEF Ran, Contiguous
    <3> QED
      BY <3>1, <3>2 DEF StepLogKept
  <2> QED
    BY <2>1, <2>2, <2>3 DEF Validated
<1> QED
  BY <1>1, TypeInit, TypeStep, EvidenceInit, EvidenceStep, PTL DEF Spec

------------------------------------------------------------------------------
(* Being alone.  From its start to its end nobody else writes to the files *)
(* of an execution that is alone, so that what it finds there after its    *)
(* runtime ended well is what its own runtime wrote.                       *)

Active(e) == executor[e].pc \notin {"idle", "returned", "crashed"}
Own(e) == workspace.result.by = e /\ workspace.report.by = e

Together == \A e, f \in Execution :
  e # f /\ InProgress(e) /\ InProgress(f) => e \in shared /\ f \in shared
EndedWell == \A e \in Execution :
  executor[e].pc \in {"latest", "result", "report", "finish"} => container[e].exit = "zero"
OwnFiles == \A e \in Execution \ shared :
  /\ container[e].pc = "report" => workspace.result.by = e
  /\ Active(e) /\ container[e].exit = "zero" => Own(e)
OwnReads == \A e \in Execution \ shared :
  /\ executor[e].pc \in {"report", "finish"} => executor[e].result.by = e
  /\ executor[e].pc = "finish" => executor[e].report.by = e

AloneInv == Together /\ EndedWell /\ OwnFiles /\ OwnReads /\ FreshEvidence

LEMMA AloneInit == Init => AloneInv
<1> SUFFICES ASSUME Init PROVE AloneInv
  OBVIOUS
<1>1. ASSUME NEW e \in Execution
      PROVE  /\ executor[e].pc = "idle" /\ executor[e].status = "none"
             /\ container[e].pc = "none"
  BY DEF Init, NotStarted
<1>2. \A e \in Execution : ~ InProgress(e) /\ ~ Active(e)
  BY <1>1 DEF InProgress, Running, Active
<1>3. "none" \notin Statuses
  BY DEF Statuses
<1> QED
  BY <1>1, <1>2, <1>3
     DEF AloneInv, Together, EndedWell, OwnFiles, OwnReads, FreshEvidence

LEMMA AloneStep == TypeInv /\ TypeInv' /\ AloneInv /\ [Next]_vars => AloneInv'
<1> SUFFICES ASSUME TypeInv, TypeInv', AloneInv, [Next]_vars PROVE AloneInv'
  OBVIOUS
<1>1. DOMAIN container = Execution /\ DOMAIN executor = Execution
  BY DEF TypeInv, TypeOK
<1>2. ASSUME NEW e \in Execution PROVE InProgress(e) <=> (Active(e) \/ Running(e))
  BY DEF InProgress, Active
<1>3. ASSUME NEW e \in Execution, ContainerStep(e) \/ Kill(e) PROVE AloneInv'
  <2>1. executor' = executor /\ shared' = shared
    BY <1>3, RuntimeStep DEF TypeInv
  <2>2. PICK d \in ContainerType :
          container' = [container EXCEPT ![e] = d] /\ RuntimeInv(e, d) /\ Moves(e, d)
    BY <1>3, RuntimeStep DEF TypeInv
  <2>3. /\ container'[e] = d
        /\ \A f \in Execution : f # e => container'[f] = container[f]
    BY <1>1, <2>2
  <2>4. Running(e) /\ RuntimeInv(e, container[e])
    BY <2>2 DEF Moves, Running, TypeInv, Runtimes
  <2>5. Together'
    <3>1. ASSUME NEW f \in Execution, InProgress(f)' PROVE InProgress(f)
      <4>1. CASE f = e
        BY <2>4, <4>1 DEF InProgress
      <4>2. CASE f # e
        BY <2>1, <2>3, <3>1, <4>2 DEF InProgress, Running
      <4> QED
        BY <4>1, <4>2
    <3> QED
      BY <2>1, <3>1 DEF AloneInv, Together
  <2>6. EndedWell'
    <3>1. container[e].exit # "zero"
      BY <2>4 DEF RuntimeInv, Running
    <3> QED
      BY <2>1, <2>3, <3>1 DEF AloneInv, EndedWell
  <2>7. ASSUME NEW f \in Execution \ shared, f # e,
               workspace'.result # workspace.result \/ workspace'.report # workspace.report
        PROVE  ~ Running(f) /\ ~ Active(f)
    <3>1. InProgress(e)
      BY <2>4 DEF InProgress
    <3> QED
      BY <1>2, <2>7, <3>1 DEF AloneInv, Together
  <2>8. OwnFiles'
    <3> SUFFICES ASSUME NEW f \in Execution \ shared
                 PROVE  /\ container'[f].pc = "report" => workspace'.result.by = f
                        /\ Active(f) /\ container'[f].exit = "zero" =>
                             workspace'.result.by = f /\ workspace'.report.by = f
      BY <2>1 DEF OwnFiles, Own, Active
    <3>1. CASE f # e
      <4>1. /\ container'[f] = container[f]
            /\ container[f].pc = "report" => Running(f)
        BY <2>3, <3>1 DEF Running
      <4> QED
        BY <2>7, <3>1, <4>1 DEF AloneInv, OwnFiles, Own
    <3>2. CASE f = e
      <4>1. CASE Keeps(e)
        BY <3>2, <4>1 DEF Keeps
      <4>2. CASE SavesResult(e)
        <5>1. container[e].result.by = e /\ d.exit = "none"
          BY <2>2, <2>3, <2>4, <4>2 DEF SavesResult, RuntimeInv
        <5> QED
          BY <2>3, <3>2, <4>2, <5>1 DEF SavesResult
      <4>3. CASE SavesReport(e)
        <5>1. workspace.result.by = e
          BY <3>2, <4>3 DEF SavesReport, AloneInv, OwnFiles
        <5>2. workspace'.report.by = e
          BY <4>3 DEF SavesReport, Report
        <5> QED
          BY <3>2, <4>3, <5>1, <5>2 DEF SavesReport
      <4> QED
        BY <1>3, <4>1, <4>2, <4>3, RuntimeFiles DEF TypeInv
    <3> QED
      BY <3>1, <3>2
  <2>9. OwnReads' /\ FreshEvidence'
    BY <2>1 DEF AloneInv, OwnReads, FreshEvidence
  <2> QED
    BY <2>5, <2>6, <2>8, <2>9 DEF AloneInv
<1>4. ASSUME NEW e \in Execution, Launch(e) PROVE AloneInv'
  <2>1. PICK d \in ContainerType :
          /\ container' = [container EXCEPT ![e] = d]
          /\ d.pc = "load" /\ container[e].pc = "none" /\ d.exit = "none"
    BY <1>4, Launched
  <2>2. PICK x \in ExecutorType :
          executor' = [executor EXCEPT ![e] = x] /\ x.pc = "running" /\ Going(x, executor[e])
    BY <1>4, Launched
  <2>3. workspace' = workspace /\ executor[e].pc = "idle"
    BY <1>4 DEF Launch
  <2>4. \A f \in Execution : f # e => container'[f] = container[f] /\ executor'[f] = executor[f]
    BY <1>1, <2>1, <2>2
  <2>5. container'[e] = d /\ executor'[e] = x
    BY <1>1, <2>1, <2>2
  <2>6. /\ shared \subseteq shared'
        /\ \A f \in Execution : InProgress(f) => f \in shared' /\ e \in shared'
    BY <1>4 DEF Launch
  <2>7. Together'
    <3>1. ASSUME NEW f \in Execution, f # e, InProgress(f)' PROVE InProgress(f)
      BY <2>4, <3>1 DEF InProgress, Running
    <3> SUFFICES ASSUME NEW f \in Execution, NEW g \in Execution, f # g,
                        InProgress(f)', InProgress(g)'
                 PROVE  f \in shared' /\ g \in shared'
      BY DEF Together
    <3>2. CASE f # e /\ g # e
      BY <2>6, <3>1, <3>2
    <3>3. CASE f = e
      BY <2>6, <3>1, <3>3
    <3>4. CASE g = e
      BY <2>6, <3>1, <3>4
    <3> QED
      BY <3>2, <3>3, <3>4
  <2>8. EndedWell'
    BY <2>2, <2>4, <2>5 DEF AloneInv, EndedWell
  <2>9. OwnFiles'
    BY <2>1, <2>3, <2>4, <2>5, <2>6 DEF AloneInv, OwnFiles, Own, Active
  <2>10. OwnReads'
    BY <2>2, <2>4, <2>5, <2>6 DEF AloneInv, OwnReads
  <2>11. FreshEvidence'
    <3>1. x.status = "none" /\ "none" \notin Statuses
      BY <2>2, <2>3 DEF Going, TypeInv, Loaded, Statuses
    <3> QED
      BY <2>4, <2>5, <2>6, <3>1 DEF AloneInv, FreshEvidence
  <2> QED
    BY <2>7, <2>8, <2>9, <2>10, <2>11 DEF AloneInv
<1>5. ASSUME NEW e \in Execution, ExecutorStep(e) \/ Crash(e), ~ Launch(e) PROVE AloneInv'
  <2>1. container' = container /\ workspace' = workspace /\ shared' = shared
    BY <1>5, ExecutorMoved DEF TypeInv
  <2>2. PICK x \in ExecutorType : executor' = [executor EXCEPT ![e] = x] /\ ExecutorMoves(e, x)
    BY <1>5, ExecutorMoved DEF TypeInv
  <2>3. executor'[e] = x /\ \A f \in Execution : f # e => executor'[f] = executor[f]
    BY <1>1, <2>2
  <2>4. x.pc \notin {"idle", "returned", "crashed"} => Active(e)
    BY <2>2 DEF Active, ExecutorMoves, Waits, Fails, TakesResult, TakesReport, Judges
  <2>5. ASSUME NEW f \in Execution
        PROVE  /\ Active(f)' => Active(f)
               /\ Running(f)' <=> Running(f)
    <3>1. Running(f)' <=> Running(f)
      BY <2>1 DEF Running
    <3>2. CASE f = e
      BY <2>3, <2>4, <3>1, <3>2 DEF Active
    <3>3. CASE f # e
      BY <2>3, <3>1, <3>3 DEF Active
    <3> QED
      BY <3>2, <3>3
  <2>6. Together'
    <3>1. ASSUME NEW f \in Execution, InProgress(f)' PROVE InProgress(f)
      BY <2>5, <3>1 DEF InProgress, Active
    <3> QED
      BY <2>1, <3>1 DEF AloneInv, Together
  <2>7. EndedWell'
    <3>1. x.pc \in {"latest", "result", "report", "finish"} => container[e].exit = "zero"
      BY <2>2 DEF AloneInv, EndedWell, ExecutorMoves, Waits, Fails, TakesResult,
                  TakesReport, Judges
    <3> QED
      BY <2>1, <2>3, <3>1 DEF AloneInv, EndedWell
  <2>8. OwnFiles'
    BY <2>1, <2>5 DEF AloneInv, OwnFiles, Own
  <2>9. ASSUME e \notin shared
        PROVE  /\ x.pc \in {"report", "finish"} => x.result.by = e
               /\ x.pc = "finish" => x.report.by = e
               /\ x.status \in Statuses \ {"failed"} => x.result.by = e /\ x.report.by = e
    <3>1. /\ executor[e].pc \in {"report", "finish"} => executor[e].result.by = e
          /\ executor[e].pc = "finish" => executor[e].report.by = e
          /\ executor[e].status \in Statuses \ {"failed"} =>
               executor[e].result.by = e /\ executor[e].report.by = e
      BY <2>9 DEF AloneInv, OwnReads, FreshEvidence
    <3>2. executor[e].pc \in {"result", "report"} => Own(e)
      BY <2>9 DEF AloneInv, EndedWell, OwnFiles, Active
    <3>3. /\ executor[e].pc \notin {"returned"} => executor[e].status = "none"
          /\ "none" \notin Statuses
      BY DEF TypeInv, Loaded, Statuses
    <3>4. CASE Waits(e, x)
      BY <3>1, <3>4 DEF Waits, Going
    <3>5. CASE Fails(e, x)
      BY <3>1, <3>5 DEF Fails
    <3>6. CASE TakesResult(e, x)
      BY <3>1, <3>2, <3>3, <3>6 DEF TakesResult, Own
    <3>7. CASE TakesReport(e, x)
      BY <3>1, <3>2, <3>3, <3>7 DEF TakesReport, Own
    <3>8. CASE Judges(e, x)
      BY <3>1, <3>8 DEF Judges
    <3> QED
      BY <2>2, <3>4, <3>5, <3>6, <3>7, <3>8 DEF ExecutorMoves
  <2>10. OwnReads' /\ FreshEvidence'
    BY <2>1, <2>3, <2>9 DEF AloneInv, OwnReads, FreshEvidence
  <2> QED
    BY <2>6, <2>7, <2>8, <2>10 DEF AloneInv
<1>6. CASE UNCHANGED vars
  BY <1>6 DEF vars, AloneInv, Together, EndedWell, OwnFiles, OwnReads, FreshEvidence,
              InProgress, Running, Active, Own
<1> QED
  BY <1>3, <1>4, <1>5, <1>6 DEF Next, Terminated

\* An execution that was alone in the workspace never passes off the result or the
\* report that an earlier execution left there as its own, although nobody clears the
\* workspace: the runtime exits with an error when it could not write either.
THEOREM EvidenceIsFresh == Spec => []FreshEvidence
<1>1. AloneInv => FreshEvidence
  BY DEF AloneInv
<1> QED
  BY <1>1, TypeInit, TypeStep, AloneInit, AloneStep, PTL DEF Spec

------------------------------------------------------------------------------
(* The stream of states.  What is remembered as the last state was reported.*)

StreamInv == \A e \in Execution : stream[e].last = "current" => stream[e].told = "current"

LEMMA StreamInit == Init => StreamInv
BY DEF Init, StreamInv, Fresh

LEMMA StreamStep == TypeInv /\ StreamInv /\ [Next]_vars => StreamInv'
<1> SUFFICES ASSUME TypeInv, StreamInv, [Next]_vars PROVE StreamInv'
  OBVIOUS
<1>1. stream \in [Execution -> StreamType]
  BY DEF TypeInv, TypeOK, StreamType
<1>2. ASSUME NEW e \in Execution, ContainerStep(e) \/ Kill(e) PROVE StreamInv'
  <2>1. StreamsLate
    BY <1>2, RuntimeFiles DEF TypeInv
  <2>2. CASE stream' = stream
    BY <2>2 DEF StreamInv
  <2>3. CASE stream' = [f \in Execution |-> Outdated(stream[f])]
    <3>1. ASSUME NEW f \in Execution PROVE stream'[f].last # "current"
      <4>1. stream'[f] = Outdated(stream[f]) /\ stream[f] \in StreamType
        BY <1>1, <2>3
      <4> QED
        BY <4>1 DEF Outdated, StreamType
    <3> QED
      BY <3>1 DEF StreamInv
  <2> QED
    BY <2>1, <2>2, <2>3 DEF StreamsLate
<1>3. ASSUME NEW e \in Execution, ExecutorStep(e) \/ Crash(e) PROVE StreamInv'
  <2>1. CASE stream' = stream
    BY <2>1 DEF StreamInv
  <2>2. CASE Look(e)
    <3>1. /\ \A f \in Execution : f # e => stream'[f] = stream[f]
          /\ stream'[e] = [stream[e] EXCEPT !.digest = "current"]
      BY <1>1, <2>2 DEF Look
    <3>2. stream'[e].last = stream[e].last /\ stream'[e].told = stream[e].told
      BY <1>1, <3>1 DEF StreamType
    <3> QED
      BY <3>1, <3>2 DEF StreamInv
  <2>3. CASE Tell(e)
    <3>1. /\ \A f \in Execution : f # e => stream'[f] = stream[f]
          /\ stream'[e].told = "current"
      BY <1>1, <2>3 DEF Tell
    <3> QED
      BY <3>1 DEF StreamInv
  <2>4. CASE LoadResult(e) \/ Crash(e)
    <3>1. /\ \A f \in Execution : f # e => stream'[f] = stream[f]
          /\ stream'[e] = Fresh
      BY <1>1, <2>4 DEF LoadResult, Crash
    <3> QED
      BY <3>1 DEF StreamInv, Fresh
  <2> QED
    BY <1>3, <2>1, <2>2, <2>3, <2>4
       DEF ExecutorStep, Start, NothingToTell, Drain, LoadReport, Finish
<1>4. CASE UNCHANGED vars
  BY <1>4 DEF vars, StreamInv
<1> QED
  BY <1>2, <1>3, <1>4 DEF Next, Terminated

\* No execution goes on before the last state its runtime wrote was reported to the
\* control plane, whether the container succeeded or not: the stream that is cancelled
\* makes one more emission.
THEOREM LastStateIsTold == Spec => LastStateTold
<1> DEFINE P == \A e \in Execution :
                  /\ executor[e].pc \in {"running", "draining", "latest"}
                  /\ executor'[e].pc \in {"result", "returned"}
                  /\ workspace.state
                  => stream'[e].told = "current"
<1>1. TypeInv /\ StreamInv /\ [Next]_vars => [P]_vars
  <2> SUFFICES ASSUME TypeInv, StreamInv, Next,
                      NEW e \in Execution,
                      executor[e].pc \in {"running", "draining", "latest"},
                      executor'[e].pc \in {"result", "returned"},
                      workspace.state
               PROVE  stream'[e].told = "current"
    OBVIOUS
  <2>1. stream \in [Execution -> StreamType] /\ DOMAIN executor = Execution
    BY DEF TypeInv, TypeOK, StreamType
  <2>2. executor'[e].pc # executor[e].pc
    OBVIOUS
  <2>3. PICK f \in Execution :
          ContainerStep(f) \/ Kill(f) \/ ExecutorStep(f) \/ Crash(f)
    BY <2>2 DEF Next, Terminated, vars
  <2>4. ~ (ContainerStep(f) \/ Kill(f))
    BY <2>2, RuntimeStep DEF TypeInv
  <2>5. f = e
    <3>1. CASE Launch(f)
      BY <2>1, <2>2, <3>1 DEF Launch
    <3>2. CASE ~ Launch(f)
      <4>1. PICK x \in ExecutorType : executor' = [executor EXCEPT ![f] = x]
        BY <2>3, <2>4, <3>2, ExecutorMoved DEF TypeInv
      <4> QED
        BY <2>1, <2>2, <4>1
    <3> QED
      BY <3>1, <3>2
  <2>6. CASE Tell(e)
    BY <2>1, <2>6 DEF Tell
  <2>7. CASE NothingToTell(e)
    <3>1. executor[e].pc = "draining" /\ stream[e].last = "current"
      BY <2>7 DEF NothingToTell, Changed
    <3> QED
      BY <2>7, <3>1 DEF NothingToTell, StreamInv
  <2>8. ~ Start(e) /\ ~ LoadResult(e) /\ ~ LoadReport(e) /\ ~ Finish(e)
    BY DEF Start, LoadResult, LoadReport, Finish
  <2>9. ~ Look(e)
    BY <2>2 DEF Look
  <2>10. ~ Drain(e) /\ ~ Crash(e)
    <3>1. ASSUME NEW p \in {"draining", "crashed"}, executor' = [executor EXCEPT ![e].pc = p]
          PROVE  FALSE
      <4>1. executor'[e].pc = p
        BY <3>1, PcMoved, <2>1 DEF TypeInv
      <4> QED
        BY <4>1
    <3> QED
      BY <3>1 DEF Drain, Crash
  <2> QED
    BY <2>3, <2>4, <2>5, <2>6, <2>7, <2>8, <2>9, <2>10 DEF ExecutorStep
<1>2. (Spec => [][P]_vars) => (Spec => LastStateTold)
  BY DEF LastStateTold
<1> QED
  BY <1>1, <1>2, TypeInit, TypeStep, StreamInit, StreamStep, PTL DEF Spec
==============================================================================
