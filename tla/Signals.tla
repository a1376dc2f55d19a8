------------------------------ MODULE Signals ------------------------------
(***************************************************************************)
(* Operational signals (internal/signals): after a claim, a completion or  *)
(* a recovery has saved its state, the control plane records what happened *)
(* as pipeline events, one after the other, and derives signals from each. *)
(* The store's mutex is free again by then, so the calls interleave        *)
(* statement by statement; every statement commits by itself.              *)
(*                                                                         *)
(* An event's age says which of the windows of the queries it lies in:     *)
(* "hour" (events of this hour, the new ones among them), "week" or "old". *)
(***************************************************************************)
EXTENDS Naturals, Sequences, FiniteSets, SequencesExt

CONSTANTS Calls,        \* the operations of the service that emit events
          Workloads,    \* the event tables found, with the events of each call
          RecentLimit,  \* events of a baseline: 20 in the code
          MaxFailures   \* bound: calls that are stopped by an error

VARIABLES pipeline_events,      \* a sequence: the ids are its indices
          operational_signals,  \* fingerprint -> the row's event_count
          comments,             \* fingerprint -> comments on issues about it
          call                  \* each call: its events and where it is

signalVars == <<pipeline_events, operational_signals, comments, call>>

\* A call that has no event returns at once.
Begin(events) ==
  [pc |-> IF events = << >> THEN "done" ELSE "emit",
   events |-> events, at |-> 1, id |-> 0, due |-> << >>, made |-> << >>]

SignalsInit ==
  /\ \E w \in Workloads :
       /\ pipeline_events = w.history
       /\ call = [c \in Calls |-> Begin(w.emits[c])]
  /\ operational_signals = << >>
  /\ comments = << >>

----------------------------------------------------------------------------
(* The queries.                                                             *)

Of(kind, event) ==
  {i \in DOMAIN pipeline_events :
     /\ pipeline_events[i].kind = kind
     /\ pipeline_events[i].stage = event.stage
     /\ pipeline_events[i].repo = event.repo}

\* mutant: the event itself is not counted
CountOthers(event, id) ==
  Cardinality({i \in Of("lock_contention", event) \ {id} : pipeline_events[i].age = "hour"})

CountEvents(event, id) ==
  Cardinality({i \in Of("lock_contention", event) : pipeline_events[i].age = "hour"})

Successes(event) ==
  {i \in Of("stage_completed", event) :
     pipeline_events[i].status = "succeeded" /\ pipeline_events[i].age # "old"}

Latest(ids) == {i \in ids : Cardinality({j \in ids : j > i}) < RecentLimit}

\* mutant: the attempt that has just completed is part of its own baseline
RecentWithOwn(event) == Latest(Successes(event))

\* The other attempts' successes; the event itself is in the table already.
RecentEvents(event) ==
  Latest({i \in Successes(event) : pipeline_events[i].attempt # event.attempt})

Average(field, ids) ==
  SumFunction([i \in ids |-> pipeline_events[i][field]]) \div Cardinality(ids)

----------------------------------------------------------------------------
(* The rules.                                                               *)

makeSignal(category, event) ==
  [category |-> category, scope |-> IF event.repo = "" THEN "global" ELSE event.repo,
   stage |-> event.stage, environment |-> event.environment]

\* More than twice the baseline and more than a margin above it.
Rose(value, baseline, margin) ==
  baseline > 0 /\ value > 2 * baseline /\ value > baseline + margin

\* A duration in milliseconds, a cost in millionths of a dollar.
Regressions(event) ==
  LET recent == RecentEvents(event) IN
  IF Cardinality(recent) < 3 THEN << >>
  ELSE (IF Rose(event.duration, Average("duration", recent), 500)
          THEN <<makeSignal("pipeline_timing_regression", event)>> ELSE << >>)
       \o (IF Rose(event.cost, Average("cost", recent), 5000)
             THEN <<makeSignal("pipeline_cost_anomaly", event)>> ELSE << >>)

synthesize(event, id) ==
  CASE event.kind = "stage_completed" ->
         (CASE event.status = "failed"    -> <<makeSignal("pipeline_failure", event)>>
            [] event.status = "blocked"   -> <<makeSignal("pipeline_blocked", event)>>
            [] event.status = "succeeded" -> Regressions(event))
    [] event.kind = "lock_contention" ->
         (IF CountEvents(event, id) >= 3
            THEN <<makeSignal("pipeline_contention_hotspot", event)>> ELSE << >>)
    [] event.kind = "stale_attempt_recovered" -> <<makeSignal("pipeline_stale_recovery", event)>>

----------------------------------------------------------------------------
(* A call.                                                                  *)

Current(c) == call[c].events[call[c].at]

\* The event of a call is dealt with; the next one follows.
NextEvent(c) ==
  [call[c] EXCEPT !.pc = IF call[c].at = Len(call[c].events) THEN "done" ELSE "emit",
                  !.at = @ + 1, !.due = << >>, !.made = << >>]

InsertEvent(c) ==
  /\ call[c].pc = "emit"
  /\ pipeline_events' = Append(pipeline_events, Current(c))
  /\ call' = [call EXCEPT ![c].pc = "synthesize", ![c].id = Len(pipeline_events) + 1]
  /\ UNCHANGED <<operational_signals, comments>>

Synthesize(c) ==
  LET due == synthesize(Current(c), call[c].id) IN
  /\ call[c].pc = "synthesize"
  /\ call' = [call EXCEPT ![c] =
       IF due = << >> THEN NextEvent(c) ELSE [@ EXCEPT !.pc = "upsert", !.due = due]]
  /\ UNCHANGED <<pipeline_events, operational_signals, comments>>

Count(table, f) == IF f \in DOMAIN table THEN table[f] ELSE 0
Put(table, f, n) == [g \in DOMAIN table \cup {f} |-> IF g = f THEN n ELSE table[g]]

\* mutant: a signal that exists is written anew
Rewritten(f) == 1

EventCount(f) == Count(operational_signals, f) + 1

UpsertSignal(c) ==
  LET f == Head(call[c].due) IN
  /\ call[c].pc = "upsert"
  /\ operational_signals' = Put(operational_signals, f, EventCount(f))
  /\ call' = [call EXCEPT ![c].due = Tail(@), ![c].made = Append(@, f),
                          ![c].pc = IF Len(call[c].due) = 1 THEN "comment" ELSE "upsert"]
  /\ UNCHANGED <<pipeline_events, comments>>

\* commentIssue, one Save per signal.
commentIssue(c) ==
  LET made == call[c].made
      f == Head(made) IN
  /\ call[c].pc = "comment"
  /\ comments' = Put(comments, f, Count(comments, f) + 1)
  /\ call' = [call EXCEPT ![c] =
       IF Len(made) = 1 THEN NextEvent(c) ELSE [@ EXCEPT !.made = Tail(made)]]
  /\ UNCHANGED <<pipeline_events, operational_signals>>

\* A statement or a comment fails: the call returns the error, and what is
\* left of its events and signals is never made up for.
emitSignalsFails(c) ==
  /\ call[c].pc \notin {"done", "failed"}
  /\ Cardinality({d \in Calls : call[d].pc = "failed"}) < MaxFailures
  /\ call' = [call EXCEPT ![c].pc = "failed"]
  /\ UNCHANGED <<pipeline_events, operational_signals, comments>>

AllReturned == \A c \in Calls : call[c].pc \in {"done", "failed"}

SignalsNext ==
  \/ \E c \in Calls :
       \/ InsertEvent(c) \/ Synthesize(c) \/ UpsertSignal(c) \/ commentIssue(c)
       \/ emitSignalsFails(c)
  \/ AllReturned /\ UNCHANGED signalVars

SignalsSpec == SignalsInit /\ [][SignalsNext]_signalVars

----------------------------------------------------------------------------
\* The events of a kind that calls which returned without an error have emitted.
Emitted(test(_)) == {i \in DOMAIN pipeline_events : test(pipeline_events[i])}

EmittersDone(test(_)) ==
  \A c \in Calls : (\E n \in DOMAIN call[c].events : test(call[c].events[n])) => call[c].pc = "done"

(***************************************************************************)
(* Contention that recurs is signalled: once a stage and repository have   *)
(* three contentions within the hour, one of them new, and the calls that  *)
(* met them returned, there is a hotspot signal.  Each call inserts before *)
(* it counts, so whoever is last sees all three (README.md: "signals for   *)
(* failures, timing regressions, cost anomalies, and contention").         *)
(***************************************************************************)
HotspotSignalled ==
  \A c \in Calls : \A n \in DOMAIN call[c].events :
    LET e == call[c].events[n]
        Same(x) == x.kind = "lock_contention" /\ x.stage = e.stage /\ x.repo = e.repo
    IN  (/\ e.kind = "lock_contention"
         /\ Cardinality({i \in Emitted(Same) : pipeline_events[i].age = "hour"}) >= 3
         /\ EmittersDone(Same))
          => \E f \in DOMAIN operational_signals :
               f.category = "pipeline_contention_hotspot" /\ f.stage = e.stage

(***************************************************************************)
(* The event_count of a failure, block or recovery signal counts the       *)
(* events behind it, each once: never more than there are, and all of them *)
(* when their calls returned; and no comment is about a signal that was    *)
(* not recorded as often.                                                  *)
(***************************************************************************)
SignalsCountEvents ==
  \A c \in Calls : \A n \in DOMAIN call[c].events :
    LET e == call[c].events[n]
        category == CASE e.status = "failed" -> "pipeline_failure"
                      [] e.status = "blocked" -> "pipeline_blocked"
                      [] OTHER -> "pipeline_stale_recovery"
        f == makeSignal(category, e)
        Counted(x) == x.kind = e.kind /\ x.status = e.status /\ makeSignal(category, x) = f
        new == {i \in Emitted(Counted) : pipeline_events[i].age = "hour"}
    IN  (e.kind = "stale_attempt_recovered" \/ e.status \in {"failed", "blocked"}) =>
          /\ Count(operational_signals, f) <= Cardinality(new)
          /\ EmittersDone(Counted) => Count(operational_signals, f) = Cardinality(new)
          /\ Count(comments, f) <= Count(operational_signals, f)

(***************************************************************************)
(* A timing regression is measured against others: a signal of one rests   *)
(* on a success of its stage and repository that took more than twice as   *)
(* long as some other attempt's, with three other attempts' successes to   *)
(* compare with.  (The event is in the table before the baseline is read.) *)
(***************************************************************************)
BaselineOfOthers ==
  \A f \in DOMAIN operational_signals : f.category = "pipeline_timing_regression" =>
    \E i \in DOMAIN pipeline_events :
      LET e == pipeline_events[i]
          others == {j \in Successes(e) : pipeline_events[j].attempt # e.attempt}
      IN  /\ e.status = "succeeded" /\ e.stage = f.stage /\ e.age = "hour"
          /\ Cardinality(others) >= 3
          /\ \E j \in others : e.duration > 2 * pipeline_events[j].duration
=============================================================================
