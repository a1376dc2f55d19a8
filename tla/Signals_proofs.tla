--------------------------- MODULE Signals_proofs ---------------------------
(***************************************************************************)
(* Proofs about the operational signals: recurring contention is signalled *)
(* and a signal's count is the number of events behind it, for any number  *)
(* of calls of the service, each with any events, that interleave in any   *)
(* order and may be stopped by an error anywhere.                          *)
(***************************************************************************)
EXTENDS Signals, SequenceTheorems, FiniteSums

Succeeded(e) == e.kind = "stage_completed" /\ e.status = "succeeded"

(* What the service emits (internal/controlplane/service.go:317, 496, 556): *)
(* the outcome of a completed attempt is its event's status, the other      *)
(* events have none, and what is emitted is of this hour.                   *)
Shaped(e) ==
  \/ e.kind = "stage_completed" /\ e.status \in {"succeeded", "failed", "blocked"}
  \/ e.kind \in {"lock_contention", "stale_attempt_recovered"} /\ e.status = ""

Emits(Events) ==
  /\ \A e \in Events : Shaped(e)
  /\ \A w \in Workloads :
       /\ w.history \in Seq(Events)
       /\ \A c \in Calls :
            /\ w.emits[c] \in Seq(Events)
            /\ \A n \in DOMAIN w.emits[c] : w.emits[c][n].age = "hour"

(* The table of signals starts empty, so that it knows nothing of earlier   *)
(* events: there are none of this hour.                                     *)
EarlierHistory == \A w \in Workloads : \A n \in DOMAIN w.history : w.history[n].age # "hour"

-----------------------------------------------------------------------------
(* One call.  The signals it has at hand are those of its current event.   *)

RegressionCategories == {"pipeline_timing_regression", "pipeline_cost_anomaly"}

Category(e) ==
  IF e.kind = "lock_contention" THEN "pipeline_contention_hotspot"
  ELSE IF e.kind = "stale_attempt_recovered" THEN "pipeline_stale_recovery"
  ELSE IF e.status = "failed" THEN "pipeline_failure" ELSE "pipeline_blocked"

\* The one signal an event can give that is not a success.
TheSignal(e) == makeSignal(Category(e), e)

IsRegression(s) == s.category \in RegressionCategories
Sigs(Events) ==
  {TheSignal(e) : e \in Events} \cup
  {makeSignal(cat, e) : cat \in RegressionCategories, e \in Events}
Regs(Events) == {s \in Sigs(Events) : IsRegression(s)}

CallType(Events) ==
  [pc : {"emit", "synthesize", "upsert", "comment", "done", "failed"},
   events : Seq(Events), at : Nat, id : Nat, due : Seq(Sigs(Events)), made : Seq(Sigs(Events))]

CallOK(Events, k) ==
  LET e == k.events[k.at] IN
  /\ \A n \in DOMAIN k.events : k.events[n].age = "hour"
  /\ k.pc \in {"emit", "synthesize", "upsert", "comment"} => k.at \in 1 .. Len(k.events)
  /\ k.pc = "done" => k.at = Len(k.events) + 1
  /\ k.pc \in {"emit", "synthesize"} => k.due = << >> /\ k.made = << >>
  /\ k.pc = "upsert" /\ ~ Succeeded(e) => k.due = <<TheSignal(e)>> /\ k.made = << >>
  /\ k.pc = "comment" /\ ~ Succeeded(e) => k.made = <<TheSignal(e)>>
  /\ k.pc = "upsert" /\ Succeeded(e) =>
       k.due \in Seq(Regs(Events)) /\ k.due # << >> /\ k.made \in Seq(Regs(Events))
  /\ k.pc = "comment" /\ Succeeded(e) => k.made \in Seq(Regs(Events)) /\ k.made # << >>

CallInv(Events) ==
  /\ pipeline_events \in Seq(Events)
  /\ call \in [Calls -> CallType(Events)]
  /\ \A c \in Calls : CallOK(Events, call[c])

\* What the synthesis gives for an event.
LEMMA Regressed ==
  ASSUME NEW Events, NEW e \in Events PROVE Regressions(e) \in Seq(Regs(Events))
<1> DEFINE a == makeSignal("pipeline_timing_regression", e)
           b == makeSignal("pipeline_cost_anomaly", e)
           T == Regs(Events)
           p == Rose(e.duration, Average("duration", RecentEvents(e)), 500)
           q == Rose(e.cost, Average("cost", RecentEvents(e)), 5000)
           x == IF p THEN <<a>> ELSE << >>
           y == IF q THEN <<b>> ELSE << >>
<1>1. Regressions(e) \in {<< >>, x \o y}
  BY DEF Regressions
<1>2. a \in T /\ b \in T
  <2>1. IsRegression(a) /\ IsRegression(b)
    BY DEF IsRegression, makeSignal, RegressionCategories
  <2> QED
    BY <2>1 DEF Regs, Sigs, RegressionCategories
<1> HIDE DEF p, q, a, b, T
<1>3. <<a>> \in Seq(T) /\ <<b>> \in Seq(T) /\ << >> \in Seq(T)
  BY <1>2
<1>4. x \in Seq(T) /\ y \in Seq(T)
  BY <1>3
<1> HIDE DEF x, y
<1>5. x \o y \in Seq(T)
  BY <1>4, ConcatProperties
<1> QED
  BY <1>1, <1>3, <1>5 DEF T

LEMMA Synthesized ==
  ASSUME NEW Events, NEW e \in Events, Shaped(e), NEW id
  PROVE  LET s == synthesize(e, id) IN
         /\ s \in Seq(Sigs(Events))
         /\ Succeeded(e) => s \in Seq(Regs(Events))
         /\ ~ Succeeded(e) => s \in {<< >>, <<TheSignal(e)>>}
         /\ ~ Succeeded(e) /\ s = << >> =>
              e.kind = "lock_contention" /\ ~ (CountEvents(e, id) >= 3)
<1> DEFINE s == synthesize(e, id)
<1>1. CASE Succeeded(e)
  <2>1. s = Regressions(e)
    BY <1>1 DEF Succeeded, synthesize
  <2>2. s \in Seq(Regs(Events))
    BY <2>1, Regressed
  <2>3. Regs(Events) \subseteq Sigs(Events)
    BY DEF Regs
  <2> HIDE DEF s
  <2>4. s \in Seq(Sigs(Events))
    BY <2>2, <2>3
  <2> QED
    BY <1>1, <2>2, <2>4 DEF s
<1>2. CASE ~ Succeeded(e)
  <2>1. TheSignal(e) \in Sigs(Events)
    BY DEF Sigs
  <2>2. /\ s \in {<< >>, <<TheSignal(e)>>}
        /\ s = << >> => e.kind = "lock_contention" /\ ~ (CountEvents(e, id) >= 3)
    <3>1. CASE e.kind = "lock_contention"
      BY <3>1 DEF synthesize, TheSignal, Category
    <3>2. CASE e.kind = "stale_attempt_recovered"
      BY <3>2 DEF synthesize, TheSignal, Category
    <3>3. CASE e.kind = "stage_completed"
      <4>1. e.status \in {"failed", "blocked"}
        BY <1>2, <3>3 DEF Shaped, Succeeded
      <4> QED
        BY <3>3, <4>1 DEF synthesize, TheSignal, Category
    <3> QED
      BY <3>1, <3>2, <3>3 DEF Shaped
  <2>3. << >> \in Seq(Sigs(Events)) /\ <<TheSignal(e)>> \in Seq(Sigs(Events))
    BY <2>1
  <2> HIDE DEF s
  <2> QED
    BY <1>2, <2>2, <2>3 DEF s
<1> QED
  BY <1>1, <1>2

(* What each step does to its call, whose new value is d.                  *)
Tables == <<pipeline_events, operational_signals, comments>>
Stays(c, d) == d.events = call[c].events /\ d.at = call[c].at
Advances(c, d) ==
  /\ d.events = call[c].events /\ d.at = call[c].at + 1
  /\ d.pc \in {"emit", "done"}

Inserts(c, d) ==
  /\ call[c].pc = "emit" /\ d.pc = "synthesize" /\ Stays(c, d)
  /\ pipeline_events' = Append(pipeline_events, Current(c))
  /\ UNCHANGED <<operational_signals, comments>>
Finds(c, d) ==
  /\ call[c].pc = "synthesize" /\ d.pc = "upsert" /\ Stays(c, d)
  /\ UNCHANGED Tables
Passes(c, d) ==
  /\ call[c].pc = "synthesize" /\ Advances(c, d)
  /\ ~ Succeeded(Current(c)) =>
       Current(c).kind = "lock_contention" /\ ~ (CountEvents(Current(c), call[c].id) >= 3)
  /\ UNCHANGED Tables
Upserts(c, d) ==
  /\ call[c].pc = "upsert" /\ d.pc \in {"upsert", "comment"} /\ Stays(c, d)
  /\ \E f : /\ operational_signals' = Put(operational_signals, f, EventCount(f))
            /\ Succeeded(Current(c)) => IsRegression(f)
            /\ ~ Succeeded(Current(c)) => f = TheSignal(Current(c)) /\ d.pc = "comment"
  /\ UNCHANGED <<pipeline_events, comments>>
Remarks(c, d) ==
  /\ call[c].pc = "comment"
  /\ \/ d.pc = "comment" /\ Stays(c, d)
     \/ Advances(c, d)
  /\ \E f : /\ comments' = Put(comments, f, Count(comments, f) + 1)
            /\ Succeeded(Current(c)) => IsRegression(f)
            /\ ~ Succeeded(Current(c)) => f = TheSignal(Current(c)) /\ Advances(c, d)
  /\ UNCHANGED <<pipeline_events, operational_signals>>
Stops(c, d) ==
  /\ call[c].pc \notin {"done", "failed"} /\ d.pc = "failed" /\ Stays(c, d)
  /\ UNCHANGED Tables

CallMoves(c, d) ==
  \/ Inserts(c, d) \/ Finds(c, d) \/ Passes(c, d) \/ Upserts(c, d) \/ Remarks(c, d)
  \/ Stops(c, d)

LEMMA CallTyped ==
  ASSUME NEW Events, CallInv(Events), NEW c \in Calls
  PROVE  call[c] \in CallType(Events) /\ CallOK(Events, call[c]) /\ DOMAIN call = Calls
BY DEF CallInv

\* The event in hand is one of the call's.
LEMMA InHand ==
  ASSUME NEW Events, CallInv(Events), NEW c \in Calls,
         call[c].pc \in {"emit", "synthesize", "upsert", "comment"}
  PROVE  /\ call[c].at \in DOMAIN call[c].events /\ call[c].at \in 1 .. Len(call[c].events)
         /\ Current(c) \in Events /\ Current(c).age = "hour"
<1> DEFINE k == call[c]
<1>1. k \in CallType(Events) /\ CallOK(Events, k)
  BY CallTyped
<1>2. k.events \in Seq(Events) /\ k.at \in 1 .. Len(k.events)
  BY <1>1 DEF CallType, CallOK
<1>3. k.at \in DOMAIN k.events /\ k.events[k.at] \in Events
  BY <1>2
<1>4. k.events[k.at].age = "hour"
  BY <1>1, <1>3 DEF CallOK
<1> QED
  BY <1>2, <1>3, <1>4 DEF Current

\* The event of a call is dealt with.
LEMMA NextInHand ==
  ASSUME NEW Events, CallInv(Events), NEW c \in Calls, call[c].pc \in {"synthesize", "comment"}
  PROVE  LET d == NextEvent(c) IN
         d \in CallType(Events) /\ CallOK(Events, d) /\ Advances(c, d)
<1> DEFINE k == call[c]
           d == NextEvent(c)
           pc == IF k.at = Len(k.events) THEN "done" ELSE "emit"
           at == k.at + 1
<1>1. k \in CallType(Events) /\ CallOK(Events, k)
  BY CallTyped
<1>2. k.events \in Seq(Events) /\ k.at \in 1 .. Len(k.events) /\ Len(k.events) \in Nat
  BY <1>1 DEF CallType, CallOK
<1>3. d = [k EXCEPT !.pc = pc, !.at = at, !.due = << >>, !.made = << >>]
  BY <1>1 DEF NextEvent, CallType
<1>4. pc \in {"emit", "done"} /\ at \in Nat /\ << >> \in Seq(Sigs(Events))
  BY <1>2
<1> HIDE DEF k, pc, at, d
<1>5. /\ d \in CallType(Events) /\ d.pc = pc /\ d.at = at /\ d.events = k.events
      /\ d.due = << >> /\ d.made = << >>
  BY <1>1, <1>3, <1>4 DEF CallType
<1>6. /\ pc = "emit" => at \in 1 .. Len(k.events)
      /\ pc = "done" => at = Len(k.events) + 1
  BY <1>2 DEF pc, at
<1>7. \A n \in DOMAIN k.events : k.events[n].age = "hour"
  BY <1>1 DEF CallOK
<1>8. CallOK(Events, d)
  BY <1>4, <1>5, <1>6, <1>7 DEF CallOK
<1>9. Advances(c, d)
  BY <1>4, <1>5 DEF Advances, at, k
<1> QED
  BY <1>5, <1>8, <1>9 DEF d

LEMMA InsertMoves ==
  ASSUME NEW Events, CallInv(Events), NEW c \in Calls, InsertEvent(c)
  PROVE  \E d \in CallType(Events) :
           call' = [call EXCEPT ![c] = d] /\ CallOK(Events, d) /\ CallMoves(c, d)
<1> DEFINE k == call[c]
           id == Len(pipeline_events) + 1
           d == [k EXCEPT !.pc = "synthesize", !.id = id]
<1>1. k \in CallType(Events) /\ CallOK(Events, k) /\ k.pc = "emit" /\ DOMAIN call = Calls
  BY CallTyped DEF InsertEvent
<1>2. id \in Nat
  BY DEF CallInv
<1>3. call' = [call EXCEPT ![c] = d]
  BY <1>1 DEF InsertEvent
<1> HIDE DEF k, id
<1>4. /\ d \in CallType(Events) /\ d.pc = "synthesize" /\ d.events = k.events /\ d.at = k.at
      /\ d.due = k.due /\ d.made = k.made
  BY <1>1, <1>2 DEF CallType
<1> HIDE DEF d
<1>5. CallOK(Events, d)
  BY <1>1, <1>4 DEF CallOK
<1>6. Inserts(c, d)
  BY <1>1, <1>4 DEF Inserts, Stays, InsertEvent, k
<1> QED
  BY <1>3, <1>4, <1>5, <1>6 DEF CallMoves

LEMMA SynthesizeMoves ==
  ASSUME NEW Events, Emits(Events), CallInv(Events), NEW c \in Calls, Synthesize(c)
  PROVE  \E d \in CallType(Events) :
           call' = [call EXCEPT ![c] = d] /\ CallOK(Events, d) /\ CallMoves(c, d)
<1> DEFINE k == call[c]
           e == Current(c)
           due == synthesize(e, k.id)
<1>1. k \in CallType(Events) /\ CallOK(Events, k) /\ k.pc = "synthesize" /\ DOMAIN call = Calls
  BY CallTyped DEF Synthesize
<1>2. e \in Events /\ Shaped(e) /\ k.at \in 1 .. Len(k.events)
  BY <1>1, InHand DEF Emits
<1>3. /\ due \in Seq(Sigs(Events))
      /\ Succeeded(e) => due \in Seq(Regs(Events))
      /\ ~ Succeeded(e) => due \in {<< >>, <<TheSignal(e)>>}
      /\ ~ Succeeded(e) /\ due = << >> =>
           e.kind = "lock_contention" /\ ~ (CountEvents(e, k.id) >= 3)
  BY <1>2, Synthesized
<1>4. UNCHANGED Tables
  BY DEF Synthesize, Tables
<1>5. CASE due = << >>
  <2>1. call' = [call EXCEPT ![c] = NextEvent(c)]
    BY <1>5 DEF Synthesize
  <2> DEFINE d == NextEvent(c)
  <2>2. d \in CallType(Events) /\ CallOK(Events, d) /\ Advances(c, d)
    BY <1>1, NextInHand
  <2> HIDE DEF d
  <2>3. Passes(c, d)
    BY <1>1, <1>3, <1>4, <1>5, <2>2 DEF Passes
  <2> QED
    BY <2>1, <2>2, <2>3 DEF CallMoves, d
<1>6. CASE due # << >>
  <2> HIDE DEF due
  <2> DEFINE d == [k EXCEPT !.pc = "upsert", !.due = due]
  <2>1. call' = [call EXCEPT ![c] = d]
    BY <1>1, <1>6 DEF Synthesize, due
  <2> HIDE DEF k
  <2>2. /\ d \in CallType(Events) /\ d.pc = "upsert" /\ d.events = k.events /\ d.at = k.at
        /\ d.due = due /\ d.made = k.made
    BY <1>1, <1>3 DEF CallType
  <2> HIDE DEF d
  <2>3. d.events[d.at] = e
    BY <2>2 DEF Current, k
  <2>4. k.made = << >> /\ \A n \in DOMAIN k.events : k.events[n].age = "hour"
    BY <1>1 DEF CallOK
  <2>5. d.made \in Seq(Regs(Events))
    BY <2>2, <2>4
  <2> HIDE DEF e
  <2>6. CallOK(Events, d)
    BY <1>2, <1>3, <1>6, <2>2, <2>3, <2>4, <2>5 DEF CallOK
  <2>7. Finds(c, d)
    BY <1>1, <1>4, <2>2 DEF Finds, Stays, k
  <2> QED
    BY <2>1, <2>2, <2>6, <2>7 DEF CallMoves
<1> QED
  BY <1>5, <1>6

LEMMA Single ==
  ASSUME NEW x
  PROVE  Head(<<x>>) = x /\ Len(<<x>>) = 1 /\ <<x>> # << >> /\ Append(<< >>, x) = <<x>>
<1>1. Len(<<x>>) = 1 /\ Len(<< >>) = 0
  OBVIOUS
<1>2. Head(<<x>>) = x
  OBVIOUS
<1>3. Append(<< >>, x) = <<x>>
  OBVIOUS
<1> QED
  BY <1>1, <1>2, <1>3

LEMMA Longer ==
  ASSUME NEW T, NEW s \in Seq(T), Len(s) # 0 PROVE s # << >>
<1>1. Len(<< >>) = 0
  OBVIOUS
<1> QED
  BY <1>1

LEMMA UpsertMoves ==
  ASSUME NEW Events, CallInv(Events), NEW c \in Calls, UpsertSignal(c)
  PROVE  \E d \in CallType(Events) :
           call' = [call EXCEPT ![c] = d] /\ CallOK(Events, d) /\ CallMoves(c, d)
<1> DEFINE k == call[c]
           e == Current(c)
           f == Head(k.due)
           pc == IF Len(k.due) = 1 THEN "comment" ELSE "upsert"
           due == Tail(k.due)
           made == Append(k.made, f)
           d == [k EXCEPT !.due = due, !.made = made, !.pc = pc]
<1>1. k \in CallType(Events) /\ CallOK(Events, k) /\ k.pc = "upsert" /\ DOMAIN call = Calls
  BY CallTyped DEF UpsertSignal
<1>2. call' = [call EXCEPT ![c] = d]
  BY <1>1 DEF UpsertSignal, CallType
<1>3. /\ operational_signals' = Put(operational_signals, f, EventCount(f))
      /\ UNCHANGED <<pipeline_events, comments>>
  BY DEF UpsertSignal
<1>4. k.due \in Seq(Sigs(Events)) /\ k.made \in Seq(Sigs(Events))
  BY <1>1 DEF CallType
<1>5. e = k.events[k.at]
  BY DEF Current
<1> HIDE DEF k, e
<1>6. ~ Succeeded(e) => k.due = <<TheSignal(e)>> /\ k.made = << >>
  BY <1>1, <1>5 DEF CallOK
<1>7. Succeeded(e) =>
        k.due \in Seq(Regs(Events)) /\ k.due # << >> /\ k.made \in Seq(Regs(Events))
  BY <1>1, <1>5 DEF CallOK
<1>8. ~ Succeeded(e) => f = TheSignal(e) /\ pc = "comment" /\ made = <<TheSignal(e)>>
  <2> SUFFICES ASSUME ~ Succeeded(e)
               PROVE  f = TheSignal(e) /\ pc = "comment" /\ made = <<TheSignal(e)>>
    OBVIOUS
  <2>1. f = TheSignal(e) /\ Len(k.due) = 1
    BY <1>6, Single
  <2> HIDE DEF f
  <2>2. Append(<< >>, f) = <<f>>
    OBVIOUS
  <2> QED
    BY <1>6, <2>1, <2>2
<1>9. Succeeded(e) =>
        /\ f \in Regs(Events) /\ made \in Seq(Regs(Events)) /\ made # << >>
        /\ due \in Seq(Regs(Events)) /\ (pc = "upsert" => due # << >>)
  <2> SUFFICES ASSUME Succeeded(e)
               PROVE  /\ f \in Regs(Events) /\ made \in Seq(Regs(Events)) /\ made # << >>
                      /\ due \in Seq(Regs(Events)) /\ (pc = "upsert" => due # << >>)
    OBVIOUS
  <2> DEFINE R == Regs(Events)
  <2>1. k.due \in Seq(R) /\ k.due # << >> /\ k.made \in Seq(R)
    BY <1>7
  <2> HIDE DEF R
  <2>2. f \in R /\ due \in Seq(R) /\ Len(due) = Len(k.due) - 1
    BY <2>1, HeadTailProperties
  <2>3. made \in Seq(R) /\ Len(made) = Len(k.made) + 1
    BY <2>1, <2>2, AppendProperties
  <2>4. Len(k.made) \in Nat /\ Len(k.due) \in Nat
    BY <2>1
  <2>5. made # << >>
    BY <2>3, <2>4
  <2>6. pc = "upsert" => due # << >>
    <3> SUFFICES ASSUME pc = "upsert" PROVE due # << >>
      OBVIOUS
    <3>1. Len(k.due) # 1
      OBVIOUS
    <3>2. Len(due) # 0
      BY <2>2, <2>4, <3>1
    <3> QED
      BY <2>2, <3>2, Longer
  <2> QED
    BY <2>2, <2>3, <2>5, <2>6 DEF R
<1>10. due \in Seq(Sigs(Events)) /\ made \in Seq(Sigs(Events)) /\ pc \in {"upsert", "comment"}
  <2> DEFINE S == Sigs(Events)
  <2>1. k.due \in Seq(S) /\ k.due # << >> /\ k.made \in Seq(S)
    BY <1>4, <1>6, <1>7, Single
  <2> HIDE DEF S
  <2>2. f \in S /\ due \in Seq(S)
    BY <2>1, HeadTailProperties
  <2>3. made \in Seq(S)
    BY <2>1, <2>2, AppendProperties
  <2> QED
    BY <2>2, <2>3 DEF S
<1> HIDE DEF f, pc, due, made
<1>11. /\ d \in CallType(Events) /\ d.pc = pc /\ d.events = k.events /\ d.at = k.at
       /\ d.due = due /\ d.made = made
  BY <1>1, <1>10 DEF CallType
<1> HIDE DEF d
<1>12. k.at \in 1 .. Len(k.events) /\ \A n \in DOMAIN k.events : k.events[n].age = "hour"
  BY <1>1 DEF CallOK
<1>13. d.events[d.at] = e
  BY <1>5, <1>11
<1>14. CallOK(Events, d)
  BY <1>8, <1>9, <1>10, <1>11, <1>12, <1>13 DEF CallOK
<1>15. Succeeded(e) => IsRegression(f)
  BY <1>9 DEF Regs
<1>16. Upserts(c, d)
  BY <1>1, <1>3, <1>8, <1>10, <1>11, <1>15 DEF Upserts, Stays, k, e
<1> QED
  BY <1>2, <1>11, <1>14, <1>16 DEF CallMoves

LEMMA CommentMoves ==
  ASSUME NEW Events, CallInv(Events), NEW c \in Calls, commentIssue(c)
  PROVE  \E d \in CallType(Events) :
           call' = [call EXCEPT ![c] = d] /\ CallOK(Events, d) /\ CallMoves(c, d)
<1> DEFINE k == call[c]
           e == Current(c)
           f == Head(k.made)
<1>1. k \in CallType(Events) /\ CallOK(Events, k) /\ k.pc = "comment" /\ DOMAIN call = Calls
  BY CallTyped DEF commentIssue
<1>2. /\ comments' = Put(comments, f, Count(comments, f) + 1)
      /\ UNCHANGED <<pipeline_events, operational_signals>>
  BY DEF commentIssue
<1>3. /\ ~ Succeeded(e) => k.made = <<TheSignal(e)>>
      /\ Succeeded(e) => k.made \in Seq(Regs(Events)) /\ k.made # << >>
  BY <1>1 DEF CallOK, Current
<1>4. /\ ~ Succeeded(e) => f = TheSignal(e) /\ Len(k.made) = 1
      /\ Succeeded(e) => IsRegression(f)
  <2>1. ~ Succeeded(e) => f = TheSignal(e) /\ Len(k.made) = 1
    BY <1>3, Single
  <2>2. Succeeded(e) => f \in Regs(Events)
    BY <1>3, HeadTailProperties
  <2> QED
    BY <2>1, <2>2 DEF Regs
<1>5. CASE Len(k.made) = 1
  <2>1. call' = [call EXCEPT ![c] = NextEvent(c)]
    BY <1>5 DEF commentIssue
  <2> DEFINE d == NextEvent(c)
  <2>2. d \in CallType(Events) /\ CallOK(Events, d) /\ Advances(c, d)
    BY <1>1, NextInHand
  <2> HIDE DEF d
  <2>3. Remarks(c, d)
    BY <1>1, <1>2, <1>4, <2>2 DEF Remarks
  <2> QED
    BY <2>1, <2>2, <2>3 DEF CallMoves, d
<1>6. CASE Len(k.made) # 1
  <2> DEFINE made == Tail(k.made)
             d == [k EXCEPT !.made = made]
  <2>1. call' = [call EXCEPT ![c] = d]
    <3>1. call' = [call EXCEPT ![c] = IF Len(k.made) = 1 THEN NextEvent(c)
                                      ELSE [k EXCEPT !.made = Tail(k.made)]]
      BY DEF commentIssue
    <3> QED
      BY <1>6, <3>1
  <2>2. Succeeded(e) /\ k.made \in Seq(Regs(Events)) /\ k.made # << >>
    BY <1>3, <1>4, <1>6
  <2>3. made \in Seq(Regs(Events)) /\ made # << >>
    <3> DEFINE R == Regs(Events)
    <3> HIDE DEF R
    <3>1. k.made \in Seq(R) /\ k.made # << >>
      BY <2>2 DEF R
    <3>2. made \in Seq(R) /\ Len(made) = Len(k.made) - 1
      BY <3>1, HeadTailProperties
    <3>3. Len(k.made) \in Nat
      BY <3>1
    <3>5. Len(made) # 0
      BY <1>6, <3>2, <3>3
    <3>6. made # << >>
      BY <3>2, <3>5, Longer
    <3> QED
      BY <3>2, <3>6 DEF R
  <2>4. made \in Seq(Sigs(Events))
    <3>1. Regs(Events) \subseteq Sigs(Events)
      BY DEF Regs
    <3> QED
      BY <2>3, <3>1
  <2> HIDE DEF k, made
  <2>5. /\ d \in CallType(Events) /\ d.pc = "comment" /\ d.events = k.events /\ d.at = k.at
        /\ d.made = made
    BY <1>1, <2>4 DEF CallType
  <2> HIDE DEF d
  <2>6. k.at \in 1 .. Len(k.events) /\ \A n \in DOMAIN k.events : k.events[n].age = "hour"
    BY <1>1 DEF CallOK
  <2>7. d.events[d.at] = e
    BY <2>5 DEF Current, k
  <2> HIDE DEF e
  <2>8. CallOK(Events, d)
    BY <2>2, <2>3, <2>5, <2>6, <2>7 DEF CallOK
  <2>9. Remarks(c, d)
    BY <1>1, <1>2, <1>4, <2>2, <2>5 DEF Remarks, Stays, k, e
  <2> QED
    BY <2>1, <2>5, <2>8, <2>9 DEF CallMoves
<1> QED
  BY <1>5, <1>6

LEMMA FailMoves ==
  ASSUME NEW Events, CallInv(Events), NEW c \in Calls, emitSignalsFails(c)
  PROVE  \E d \in CallType(Events) :
           call' = [call EXCEPT ![c] = d] /\ CallOK(Events, d) /\ CallMoves(c, d)
<1> DEFINE k == call[c]
           d == [k EXCEPT !.pc = "failed"]
<1>1. k \in CallType(Events) /\ CallOK(Events, k) /\ DOMAIN call = Calls
  BY CallTyped
<1>2. call' = [call EXCEPT ![c] = d]
  BY <1>1 DEF emitSignalsFails
<1> HIDE DEF k
<1>3. d \in CallType(Events) /\ d.pc = "failed" /\ d.events = k.events /\ d.at = k.at
  BY <1>1 DEF CallType
<1> HIDE DEF d
<1>4. CallOK(Events, d)
  BY <1>1, <1>3 DEF CallOK
<1>5. Stops(c, d)
  BY <1>3 DEF Stops, Stays, emitSignalsFails, Tables, k
<1> QED
  BY <1>2, <1>3, <1>4, <1>5 DEF CallMoves

\* Every step is one call's.
LEMMA Step ==
  ASSUME NEW Events, Emits(Events), CallInv(Events), SignalsNext
  PROVE  \/ UNCHANGED signalVars
         \/ \E c \in Calls : \E d \in CallType(Events) :
              call' = [call EXCEPT ![c] = d] /\ CallOK(Events, d) /\ CallMoves(c, d)
BY InsertMoves, SynthesizeMoves, UpsertMoves, CommentMoves, FailMoves DEF SignalsNext

LEMMA CallInit ==
  ASSUME NEW Events, Emits(Events), SignalsInit PROVE CallInv(Events)
<1>1. PICK w \in Workloads :
        pipeline_events = w.history /\ call = [c \in Calls |-> Begin(w.emits[c])]
  BY DEF SignalsInit
<1>2. pipeline_events \in Seq(Events)
  BY <1>1 DEF Emits
<1>3. ASSUME NEW c \in Calls
      PROVE  Begin(w.emits[c]) \in CallType(Events) /\ CallOK(Events, Begin(w.emits[c]))
  <2> DEFINE events == w.emits[c]
             pc == IF events = << >> THEN "done" ELSE "emit"
             k == Begin(events)
  <2>1. events \in Seq(Events) /\ \A n \in DOMAIN events : events[n].age = "hour"
    BY DEF Emits
  <2>2. k = [pc |-> pc, events |-> events, at |-> 1, id |-> 0, due |-> << >>, made |-> << >>]
    BY DEF Begin
  <2> HIDE DEF events, k
  <2>3. /\ pc = "emit" => 1 \in 1 .. Len(events)
        /\ pc = "done" => Len(events) = 0
        /\ pc \in {"emit", "done"}
    BY <2>1, EmptySeq
  <2> HIDE DEF pc
  <2>4. k \in CallType(Events)
    BY <2>1, <2>2, <2>3 DEF CallType
  <2>5. /\ k.pc = pc /\ k.events = events /\ k.at = 1 /\ k.due = << >> /\ k.made = << >>
    BY <2>2
  <2>6. CallOK(Events, k)
    BY <2>1, <2>3, <2>5 DEF CallOK
  <2> QED
    BY <2>4, <2>6 DEF k, events
<1> QED
  BY <1>1, <1>2, <1>3 DEF CallInv

LEMMA CallStep ==
  ASSUME NEW Events, Emits(Events), CallInv(Events), [SignalsNext]_signalVars
  PROVE  CallInv(Events)'
<1>1. CASE UNCHANGED signalVars
  BY <1>1 DEF signalVars, CallInv
<1>2. ASSUME NEW c \in Calls, NEW d \in CallType(Events),
             call' = [call EXCEPT ![c] = d], CallOK(Events, d), CallMoves(c, d)
      PROVE  CallInv(Events)'
  <2>1. pipeline_events' \in Seq(Events)
    <3>1. CASE Inserts(c, d)
      <4>1. Current(c) \in Events
        BY <3>1, InHand DEF Inserts
      <4> QED
        BY <3>1, <4>1, AppendProperties DEF Inserts, CallInv
    <3>2. CASE ~ Inserts(c, d)
      BY <1>2, <3>2 DEF CallMoves, Finds, Passes, Upserts, Remarks, Stops, Tables, CallInv
    <3> QED
      BY <3>1, <3>2
  <2>2. call' \in [Calls -> CallType(Events)]
    BY <1>2 DEF CallInv
  <2>3. \A b \in Calls : CallOK(Events, call'[b])
    BY <1>2 DEF CallInv
  <2> QED
    BY <2>1, <2>2, <2>3 DEF CallInv
<1> QED
  BY <1>1, <1>2, Step

-----------------------------------------------------------------------------
(* Contention.  Whoever has inserted a contention counts afterwards: until *)
(* the signal is there somebody is about to count or to write it, or was   *)
(* stopped by an error.                                                    *)

SameContention(x, e) == x.kind = "lock_contention" /\ x.stage = e.stage /\ x.repo = e.repo
Contentions(e) ==
  {i \in DOMAIN pipeline_events :
     SameContention(pipeline_events[i], e) /\ pipeline_events[i].age = "hour"}

\* The n-th event of call c is in the table.
Inserted(c, n) == n < call[c].at \/ (n = call[c].at /\ call[c].pc # "emit")

HotspotRecorded(e) == \E f \in DOMAIN operational_signals :
  f.category = "pipeline_contention_hotspot" /\ f.stage = e.stage

HotspotDue(e) ==
  \/ HotspotRecorded(e)
  \/ \E c \in Calls : call[c].pc \in {"synthesize", "upsert"} /\ SameContention(Current(c), e)
  \/ \E c \in Calls : \E n \in DOMAIN call[c].events :
       SameContention(call[c].events[n], e) /\ call[c].pc = "failed"

HotInv(Events) == \A e \in Events :
  /\ Cardinality(Contentions(e)) >= 3
  /\ \E c \in Calls : \E n \in DOMAIN call[c].events :
       SameContention(call[c].events[n], e) /\ Inserted(c, n)
  => HotspotDue(e)

LEMMA HotInit ==
  ASSUME NEW Events, Emits(Events), SignalsInit PROVE HotInv(Events)
<1>1. PICK w \in Workloads : call = [c \in Calls |-> Begin(w.emits[c])]
  BY DEF SignalsInit
<1>2. ASSUME NEW c \in Calls, NEW n \in DOMAIN call[c].events PROVE ~ Inserted(c, n)
  <2> DEFINE events == w.emits[c]
             k == Begin(events)
  <2>1. events \in Seq(Events)
    BY DEF Emits
  <2>2. call[c] = k
    BY <1>1
  <2> HIDE DEF events
  <2>3. k.events = events /\ k.at = 1 /\ (events # << >> => k.pc = "emit")
    BY DEF Begin
  <2> HIDE DEF k
  <2>4. n \in 1 .. Len(events) /\ Len(events) \in Nat
    BY <1>2, <2>1, <2>2, <2>3
  <2>5. events # << >>
    <3>1. Len(<< >>) = 0
      OBVIOUS
    <3> QED
      BY <2>4, <3>1
  <2> QED
    BY <2>2, <2>3, <2>4, <2>5 DEF Inserted
<1> QED
  BY <1>2 DEF HotInv

LEMMA HotStep ==
  ASSUME NEW Events, Emits(Events), CallInv(Events), HotInv(Events), [SignalsNext]_signalVars
  PROVE  HotInv(Events)'
<1>1. CASE UNCHANGED signalVars
  BY <1>1 DEF signalVars, HotInv, HotspotDue, HotspotRecorded, Inserted, Contentions, Current
<1>2. ASSUME NEW c \in Calls, NEW d \in CallType(Events),
             call' = [call EXCEPT ![c] = d], CallOK(Events, d), CallMoves(c, d),
             NEW e \in Events,
             (Cardinality(Contentions(e)) >= 3)',
             NEW b \in Calls, NEW n \in DOMAIN call'[b].events,
             SameContention(call'[b].events[n], e), Inserted(b, n)'
      PROVE  HotspotDue(e)'
  <2>1. /\ DOMAIN call = Calls /\ call'[c] = d
        /\ \A a \in Calls : a # c => call'[a] = call[a]
    BY <1>2, CallTyped
  <2>2. /\ call[c].at \in Nat /\ d.at \in Nat /\ d.events = call[c].events
        /\ DOMAIN d.events \subseteq Nat
    <3>1. call[c] \in CallType(Events)
      BY CallTyped
    <3>2. d.events = call[c].events
      BY <1>2 DEF CallMoves, Inserts, Finds, Passes, Upserts, Remarks, Stops, Stays, Advances
    <3>3. d.events \in Seq(Events)
      BY DEF CallType
    <3> QED
      BY <3>1, <3>2, <3>3 DEF CallType
  <2>3. n \in DOMAIN call[b].events /\ SameContention(call[b].events[n], e)
    BY <1>2, <2>1, <2>2
  <2>4. CASE Inserts(c, d)
    <3>1. CASE SameContention(Current(c), e)
      <4>1. d.pc = "synthesize" /\ Current(c)' = Current(c)
        BY <2>1, <2>2, <2>4 DEF Inserts, Stays, Current
      <4> QED
        BY <2>1, <3>1, <4>1 DEF HotspotDue
    <3>2. CASE ~ SameContention(Current(c), e)
      <4>1. Contentions(e)' = Contentions(e)
        <5>1. pipeline_events \in Seq(Events) /\ Current(c) \in Events
          BY <2>4, InHand DEF Inserts, CallInv
        <5> DEFINE old == pipeline_events
                   new == Append(old, Current(c))
        <5>2. /\ Len(new) = Len(old) + 1 /\ new \in Seq(Events)
              /\ \A i \in 1 .. Len(old) : new[i] = old[i]
              /\ new[Len(old) + 1] = Current(c)
          BY <5>1, AppendProperties
        <5>3. DOMAIN new = DOMAIN old \cup {Len(old) + 1} /\ DOMAIN old = 1 .. Len(old)
          BY <5>1, <5>2
        <5>4. pipeline_events' = new
          BY <2>4 DEF Inserts
        <5> HIDE DEF new
        <5> QED
          BY <3>2, <5>2, <5>3, <5>4 DEF Contentions
      <4>2. Inserted(b, n)
        <5>1. CASE b # c
          BY <1>2, <2>1, <5>1 DEF Inserted
        <5>2. CASE b = c
          <6>1. n # call[c].at
            BY <2>3, <3>2, <5>2 DEF Current
          <6> QED
            BY <1>2, <2>1, <2>4, <5>2, <6>1 DEF Inserted, Inserts, Stays
        <5> QED
          BY <5>1, <5>2
      <4>3. HotspotDue(e)
        BY <1>2, <2>3, <4>1, <4>2 DEF HotInv
      <4>4. HotspotRecorded(e)' <=> HotspotRecorded(e)
        BY <2>4 DEF Inserts, HotspotRecorded
      <4>5. ASSUME NEW a \in Calls, call[a].pc \in {"synthesize", "upsert", "failed"}
            PROVE  call'[a] = call[a]
        BY <2>1, <2>4, <4>5 DEF Inserts
      <4> QED
        BY <4>3, <4>4, <4>5 DEF HotspotDue, Current
    <3> QED
      BY <3>1, <3>2
  <2>5. ASSUME ~ Inserts(c, d), ~ Stops(c, d) \/ b # c
        PROVE  HotspotDue(e)
    <3>1. pipeline_events' = pipeline_events
      BY <1>2, <2>5 DEF CallMoves, Finds, Passes, Upserts, Remarks, Stops, Tables
    <3>2. Cardinality(Contentions(e)) >= 3
      BY <1>2, <3>1 DEF Contentions
    <3>3. CASE b # c
      <4>1. Inserted(b, n)
        BY <1>2, <2>1, <3>3 DEF Inserted
      <4> QED
        BY <2>3, <3>2, <4>1 DEF HotInv
    <3>4. CASE b = c
      <4>1. /\ call[c].pc # "emit"
            /\ \/ d.at = call[c].at
               \/ d.at = call[c].at + 1 /\ d.pc \in {"emit", "done"}
        BY <1>2, <2>5, <3>4
           DEF CallMoves, Finds, Passes, Upserts, Remarks, Stays, Advances
      <4>2. n \in 1 .. Len(d.events) /\ Len(d.events) \in Nat
        <5>1. d.events \in Seq(Events)
          BY DEF CallType
        <5> QED
          BY <1>2, <2>1, <3>4, <5>1
      <4>3. d.pc = "done" => n < d.at
        BY <1>2, <2>2, <4>2 DEF CallOK
      <4>4. n < d.at \/ n = d.at
        BY <1>2, <2>1, <3>4 DEF Inserted
      <4>5. d.pc = "emit" => n < d.at
        BY <1>2, <2>1, <3>4 DEF Inserted
      <4>6. Inserted(b, n)
        BY <2>2, <3>4, <4>1, <4>2, <4>3, <4>4, <4>5 DEF Inserted
      <4> QED
        BY <2>3, <3>2, <4>6 DEF HotInv
    <3> QED
      BY <3>3, <3>4
  <2>6. CASE Stops(c, d)
    <3>1. CASE b = c
      BY <1>2, <2>1, <2>6, <3>1 DEF Stops, HotspotDue
    <3>2. CASE b # c
      <4>1. HotspotDue(e)
        BY <2>5, <2>6, <3>2 DEF Stops, Inserts
      <4>2. CASE HotspotRecorded(e)
        BY <2>6, <4>2 DEF HotspotDue, HotspotRecorded, Stops, Tables
      <4>3. ASSUME NEW a \in Calls, call[a].pc \in {"synthesize", "upsert"},
                   SameContention(Current(a), e)
            PROVE  HotspotDue(e)'
        <5>1. CASE a # c
          BY <2>1, <4>3, <5>1 DEF HotspotDue, Current
        <5>2. CASE a = c
          <6>1. call[c].at \in DOMAIN call[c].events
            BY <4>3, <5>2, InHand
          <6>2. d.pc = "failed" /\ SameContention(d.events[call[c].at], e)
            BY <2>2, <2>6, <4>3, <5>2 DEF Stops, Current
          <6> QED
            BY <2>1, <2>2, <6>1, <6>2 DEF HotspotDue
        <5> QED
          BY <5>1, <5>2
      <4>4. ASSUME NEW a \in Calls, NEW m \in DOMAIN call[a].events,
                   SameContention(call[a].events[m], e), call[a].pc = "failed"
            PROVE  HotspotDue(e)'
        <5>1. a # c
          BY <2>6, <4>4 DEF Stops
        <5> QED
          BY <2>1, <4>4, <5>1 DEF HotspotDue
      <4> QED
        BY <4>1, <4>2, <4>3, <4>4 DEF HotspotDue
    <3> QED
      BY <3>1, <3>2
  <2>7. ASSUME ~ Inserts(c, d), ~ Stops(c, d), ~ HotspotRecorded(e)'
        PROVE  HotspotDue(e)'
    <3>1. HotspotDue(e)
      BY <2>5, <2>7
    <3>2. ~ HotspotRecorded(e)
      <4>1. CASE Upserts(c, d)
        BY <2>7, <4>1 DEF HotspotRecorded, Upserts, Put
      <4>2. CASE ~ Upserts(c, d)
        BY <1>2, <2>7, <4>2 DEF CallMoves, Finds, Passes, Remarks, Tables, HotspotRecorded
      <4> QED
        BY <4>1, <4>2
    <3>3. ASSUME NEW a \in Calls, NEW m \in DOMAIN call[a].events,
                 SameContention(call[a].events[m], e), call[a].pc = "failed"
          PROVE  HotspotDue(e)'
      <4>1. a # c
        BY <1>2, <2>7, <3>3 DEF CallMoves, Finds, Passes, Upserts, Remarks
      <4> QED
        BY <2>1, <3>3, <4>1 DEF HotspotDue
    <3>4. ASSUME NEW a \in Calls, call[a].pc \in {"synthesize", "upsert"},
                 SameContention(Current(a), e)
          PROVE  HotspotDue(e)'
      <4>1. CASE a # c
        BY <2>1, <3>4, <4>1 DEF HotspotDue, Current
      <4>2. CASE a = c
        <5>1. ~ Succeeded(Current(c)) /\ TheSignal(Current(c)).stage = e.stage
              /\ TheSignal(Current(c)).category = "pipeline_contention_hotspot"
          BY <3>4, <4>2 DEF SameContention, Succeeded, TheSignal, Category, makeSignal
        <5>2. ~ Upserts(c, d)
          BY <2>7, <5>1 DEF Upserts, Put, HotspotRecorded
        <5>3. ~ Passes(c, d)
          <6>1. {i \in Of("lock_contention", Current(c)) : pipeline_events[i].age = "hour"}
                  = Contentions(e)
            BY <3>4, <4>2 DEF Of, Contentions, SameContention
          <6>2. CountEvents(Current(c), call[c].id) = Cardinality(Contentions(e))
            BY <6>1 DEF CountEvents
          <6>3. ASSUME Passes(c, d) PROVE Cardinality(Contentions(e)) >= 3
            BY <1>2, <6>3 DEF Passes, Tables, Contentions
          <6> QED
            BY <5>1, <6>2, <6>3 DEF Passes
        <5>4. Finds(c, d)
          BY <1>2, <2>7, <3>4, <4>2, <5>2, <5>3 DEF CallMoves, Remarks
        <5>5. d.pc = "upsert" /\ Current(c)' = Current(c)
          BY <2>1, <5>4 DEF Finds, Stays, Current
        <5> QED
          BY <2>1, <3>4, <4>2, <5>5 DEF HotspotDue
      <4> QED
        BY <4>1, <4>2
    <3> QED
      BY <3>1, <3>2, <3>3, <3>4 DEF HotspotDue
  <2> QED
    BY <2>4, <2>6, <2>7 DEF HotspotDue
<1> QED
  BY <1>1, <1>2, Step DEF HotInv

(***************************************************************************)
(* Contention that recurs is signalled: when the calls that met contention *)
(* on a stage and repository have returned without an error and there were *)
(* three within the hour, the hotspot signal is there.  Every call inserts *)
(* its event before it counts.                                             *)
(***************************************************************************)
THEOREM HotspotsAreSignalled ==
  ASSUME NEW CONSTANT Events, Emits(Events)
  PROVE  SignalsSpec => []HotspotSignalled
<1>1. SignalsInit => CallInv(Events) /\ HotInv(Events)
  BY CallInit, HotInit
<1>2. CallInv(Events) /\ HotInv(Events) /\ [SignalsNext]_signalVars
        => CallInv(Events)' /\ HotInv(Events)'
  BY CallStep, HotStep
<1>3. CallInv(Events) /\ HotInv(Events) => HotspotSignalled
  <2> SUFFICES ASSUME CallInv(Events), HotInv(Events), NEW c \in Calls,
                      NEW n \in DOMAIN call[c].events,
                      call[c].events[n].kind = "lock_contention",
                      Cardinality(Contentions(call[c].events[n])) >= 3,
                      \A b \in Calls :
                        (\E m \in DOMAIN call[b].events :
                           SameContention(call[b].events[m], call[c].events[n]))
                        => call[b].pc = "done"
               PROVE  HotspotRecorded(call[c].events[n])
    BY DEF HotspotSignalled, Emitted, EmittersDone, Contentions, SameContention, HotspotRecorded
  <2> DEFINE e == call[c].events[n]
  <2>1. call[c] \in CallType(Events) /\ CallOK(Events, call[c])
    BY CallTyped
  <2>2. e \in Events /\ n \in 1 .. Len(call[c].events) /\ Len(call[c].events) \in Nat
    BY <2>1 DEF CallType
  <2>3. SameContention(e, e)
    BY DEF SameContention
  <2>4. call[c].pc = "done" /\ call[c].at = Len(call[c].events) + 1
    BY <2>1, <2>3 DEF CallOK
  <2>5. Inserted(c, n)
    BY <2>2, <2>4 DEF Inserted
  <2>6. HotspotDue(e)
    BY <2>2, <2>3, <2>5 DEF HotInv
  <2>7. ASSUME NEW b \in Calls, call[b].pc \in {"synthesize", "upsert"},
               SameContention(Current(b), e)
        PROVE  FALSE
    <3>1. call[b].at \in DOMAIN call[b].events
      BY <2>7, InHand
    <3> QED
      BY <2>7, <3>1 DEF Current
  <2> QED
    BY <2>6, <2>7 DEF HotspotDue
<1> QED
  BY <1>1, <1>2, <1>3, PTL DEF SignalsSpec

-----------------------------------------------------------------------------
(* Counts.  Every event of this hour that gives a signal whatever else is  *)
(* in the table is counted, about to be counted, or its call was stopped;  *)
(* a comment follows what was counted.                                     *)

Countable(e) ==
  \/ e.kind = "stale_attempt_recovered"
  \/ e.kind = "stage_completed" /\ e.status \in {"failed", "blocked"}

\* x gives the same signal as e.
InClass(x, e) ==
  x.kind = e.kind /\ x.status = e.status /\ makeSignal(Category(e), x) = TheSignal(e)

New(e) == {i \in DOMAIN pipeline_events :
             InClass(pipeline_events[i], e) /\ pipeline_events[i].age = "hour"}
Pending(e) == {c \in Calls : call[c].pc \in {"synthesize", "upsert"} /\ InClass(Current(c), e)}
Commenting(e) == {c \in Calls : call[c].pc = "comment" /\ InClass(Current(c), e)}
NoneFailed(e) == \A c \in Calls :
  (\E n \in DOMAIN call[c].events : InClass(call[c].events[n], e)) => call[c].pc # "failed"

Counts(e) ==
  LET f == TheSignal(e) IN
  /\ IsFiniteSet(Pending(e)) /\ IsFiniteSet(Commenting(e))
  /\ Count(operational_signals, f) \in Nat /\ Count(comments, f) \in Nat
  /\ Count(operational_signals, f) + Cardinality(Pending(e)) <= Cardinality(New(e))
  /\ NoneFailed(e) =>
       Count(operational_signals, f) + Cardinality(Pending(e)) = Cardinality(New(e))
  /\ Count(comments, f) + Cardinality(Commenting(e)) <= Count(operational_signals, f)

CountInv(Events) == \A e \in Events : Countable(e) => Counts(e)

LEMMA ClassSignal ==
  ASSUME NEW x, NEW e, Shaped(x), Shaped(e), Countable(e)
  PROVE  /\ InClass(x, e) => ~ Succeeded(x) /\ x.kind # "lock_contention"
                             /\ TheSignal(x) = TheSignal(e)
         /\ ~ Succeeded(x) /\ TheSignal(x) = TheSignal(e) => InClass(x, e)
         /\ ~ IsRegression(TheSignal(e))
<1>1. TheSignal(e).category = Category(e) /\ TheSignal(x).category = Category(x)
  BY DEF TheSignal, makeSignal
<1>2. ~ IsRegression(TheSignal(e))
  BY <1>1 DEF IsRegression, RegressionCategories, Category
<1>3. ASSUME InClass(x, e)
      PROVE  ~ Succeeded(x) /\ x.kind # "lock_contention" /\ TheSignal(x) = TheSignal(e)
  <2>1. x.kind = e.kind /\ x.status = e.status /\ makeSignal(Category(e), x) = TheSignal(e)
    BY <1>3 DEF InClass
  <2>2. Category(x) = Category(e)
    BY <2>1 DEF Category
  <2>3. ~ Succeeded(x) /\ x.kind # "lock_contention"
    BY <2>1 DEF Succeeded, Countable
  <2> QED
    BY <2>1, <2>2, <2>3 DEF TheSignal
<1>4. ASSUME ~ Succeeded(x), TheSignal(x) = TheSignal(e) PROVE InClass(x, e)
  <2>1. Category(x) = Category(e)
    BY <1>1, <1>4
  <2>2. x.kind = e.kind /\ x.status = e.status
    BY <1>4, <2>1 DEF Category, Shaped, Countable, Succeeded
  <2> QED
    BY <1>4, <2>1, <2>2 DEF InClass, TheSignal
<1> QED
  BY <1>2, <1>3, <1>4

LEMMA PutCount ==
  ASSUME NEW table, NEW f, NEW g, NEW n
  PROVE  Count(Put(table, g, n), f) = IF f = g THEN n ELSE Count(table, f)
BY DEF Count, Put

LEMMA NewFinite ==
  ASSUME NEW Events, CallInv(Events), NEW e
  PROVE  IsFiniteSet(New(e)) /\ Cardinality(New(e)) \in Nat
<1>1. DOMAIN pipeline_events = 1 .. Len(pipeline_events) /\ Len(pipeline_events) \in Nat
  BY DEF CallInv
<1>2. IsFiniteSet(1 .. Len(pipeline_events))
  BY <1>1, FS_Interval
<1>3. New(e) \subseteq 1 .. Len(pipeline_events)
  BY <1>1 DEF New
<1>4. IsFiniteSet(New(e))
  BY <1>2, <1>3, FS_Subset
<1> QED
  BY <1>4, FS_CardinalityType

LEMMA CountInit ==
  ASSUME NEW Events, Emits(Events), EarlierHistory, SignalsInit PROVE CountInv(Events)
<1> SUFFICES ASSUME NEW e \in Events PROVE Counts(e)
  BY DEF CountInv
<1>1. PICK w \in Workloads :
        pipeline_events = w.history /\ call = [c \in Calls |-> Begin(w.emits[c])]
  BY DEF SignalsInit
<1>2. \A c \in Calls : call[c].pc \in {"emit", "done"}
  BY <1>1 DEF Begin
<1>3. Pending(e) = {} /\ Commenting(e) = {}
  BY <1>2 DEF Pending, Commenting
<1>4. New(e) = {}
  BY <1>1 DEF New, EarlierHistory
<1>5. \A f : Count(operational_signals, f) = 0 /\ Count(comments, f) = 0
  BY DEF SignalsInit, Count
<1>6. IsFiniteSet({}) /\ Cardinality({}) = 0
  BY FS_EmptySet
<1> QED
  BY <1>3, <1>4, <1>5, <1>6 DEF Counts

\* An element more or less.
LEMMA OneMore ==
  ASSUME NEW S, NEW x, IsFiniteSet(S), x \notin S
  PROVE  IsFiniteSet(S \cup {x}) /\ Cardinality(S \cup {x}) = Cardinality(S) + 1
BY FS_AddElement

LEMMA OneLess ==
  ASSUME NEW S, NEW x, IsFiniteSet(S), x \in S
  PROVE  IsFiniteSet(S \ {x}) /\ Cardinality(S \ {x}) = Cardinality(S) - 1
BY FS_RemoveElement

LEMMA NoMore ==
  ASSUME NEW S, NEW x, IsFiniteSet(S)
  PROVE  /\ IsFiniteSet(S \ {x}) /\ Cardinality(S \ {x}) \in Nat
         /\ Cardinality(S \ {x}) <= Cardinality(S)
<1>1. S \ {x} \in SUBSET S
  OBVIOUS
<1> QED
  BY <1>1, FS_Subset, FS_CardinalityType

LEMMA CountMove ==
  ASSUME NEW Events, Emits(Events), CallInv(Events), NEW e \in Events, Countable(e), Counts(e),
         NEW c \in Calls, NEW d \in CallType(Events),
         call' = [call EXCEPT ![c] = d], CallMoves(c, d)
  PROVE  Counts(e)'
<1> DEFINE f == TheSignal(e)
           x == Current(c)
           o == Count(operational_signals, f)
           m == Count(comments, f)
           p == Cardinality(Pending(e))
           q == Cardinality(Commenting(e))
           r == Cardinality(New(e))
<1>1. /\ DOMAIN call = Calls /\ call'[c] = d
      /\ \A a \in Calls : a # c => call'[a] = call[a]
  BY CallTyped
<1>2. d.events = call[c].events
  BY DEF CallMoves, Inserts, Finds, Passes, Upserts, Remarks, Stops, Stays, Advances
<1>3. Shaped(e)
  BY DEF Emits
<1>4. call[c].pc \in {"emit", "synthesize", "upsert", "comment"} =>
        /\ x \in Events /\ x.age = "hour" /\ Shaped(x)
        /\ InClass(x, e) => ~ Succeeded(x) /\ x.kind # "lock_contention" /\ TheSignal(x) = f
        /\ ~ InClass(x, e) /\ ~ Succeeded(x) => TheSignal(x) # f
        /\ ~ IsRegression(f)
  <2> SUFFICES ASSUME call[c].pc \in {"emit", "synthesize", "upsert", "comment"}
               PROVE  /\ x \in Events /\ x.age = "hour" /\ Shaped(x)
                      /\ InClass(x, e) => ~ Succeeded(x) /\ x.kind # "lock_contention"
                                          /\ TheSignal(x) = f
                      /\ ~ InClass(x, e) /\ ~ Succeeded(x) => TheSignal(x) # f
                      /\ ~ IsRegression(f)
    OBVIOUS
  <2>1. x \in Events /\ x.age = "hour"
    BY InHand
  <2>2. Shaped(x)
    BY <2>1 DEF Emits
  <2> HIDE DEF x
  <2> QED
    BY <1>3, <2>1, <2>2, ClassSignal
<1>5. /\ \A a \in Calls : a # c => (a \in Pending(e)' <=> a \in Pending(e))
      /\ \A a \in Calls : a # c => (a \in Commenting(e)' <=> a \in Commenting(e))
      /\ Pending(e)' \subseteq Calls /\ Commenting(e)' \subseteq Calls
      /\ Pending(e) \subseteq Calls /\ Commenting(e) \subseteq Calls
  BY <1>1 DEF Pending, Commenting, Current
<1>6. /\ c \in Pending(e) <=> call[c].pc \in {"synthesize", "upsert"} /\ InClass(x, e)
      /\ c \in Commenting(e) <=> call[c].pc = "comment" /\ InClass(x, e)
  BY DEF Pending, Commenting
<1>7. /\ c \in Pending(e)' <=> d.pc \in {"synthesize", "upsert"} /\ InClass(d.events[d.at], e)
      /\ c \in Commenting(e)' <=> d.pc = "comment" /\ InClass(d.events[d.at], e)
  BY <1>1 DEF Pending, Commenting, Current
<1>8. Stays(c, d) => d.events[d.at] = x
  BY DEF Stays, Current
<1>9. /\ IsFiniteSet(Pending(e)) /\ IsFiniteSet(Commenting(e)) /\ IsFiniteSet(New(e))
      /\ o \in Nat /\ m \in Nat /\ p \in Nat /\ q \in Nat /\ r \in Nat
      /\ o + p <= r /\ m + q <= o
      /\ NoneFailed(e) => o + p = r
  BY FS_CardinalityType, NewFinite DEF Counts
<1>10. d.pc # "failed" => (NoneFailed(e)' => NoneFailed(e))
  <2> SUFFICES ASSUME d.pc # "failed", NoneFailed(e)', NEW a \in Calls,
                      NEW n \in DOMAIN call[a].events, InClass(call[a].events[n], e)
               PROVE  call[a].pc # "failed"
    BY DEF NoneFailed
  <2>1. CASE a = c
    BY <2>1 DEF CallMoves, Inserts, Finds, Passes, Upserts, Remarks, Stops
  <2>2. CASE a # c
    BY <1>1, <2>2 DEF NoneFailed
  <2> QED
    BY <2>1, <2>2
<1>11. ASSUME pipeline_events' = pipeline_events PROVE New(e)' = New(e)
  BY <1>11 DEF New
<1>12. ASSUME operational_signals' = operational_signals
       PROVE  Count(operational_signals, f)' = o
  BY <1>12
<1>13. ASSUME comments' = comments PROVE Count(comments, f)' = m
  BY <1>13
<1>14. ASSUME Pending(e)' = Pending(e), Commenting(e)' = Commenting(e), New(e)' = New(e),
              Count(operational_signals, f)' = o, Count(comments, f)' = m,
              NoneFailed(e)' => NoneFailed(e)
       PROVE  Counts(e)'
  BY <1>9, <1>14 DEF Counts
<1>15. CASE Inserts(c, d)
  <2>1. /\ call[c].pc = "emit" /\ d.pc = "synthesize" /\ Stays(c, d)
        /\ UNCHANGED <<operational_signals, comments>>
    BY <1>15 DEF Inserts
  <2>2. Commenting(e)' = Commenting(e)
    BY <1>5, <1>6, <1>7, <2>1
  <2> DEFINE old == pipeline_events
             new == Append(old, x)
             i == Len(old) + 1
  <2>3. old \in Seq(Events) /\ x \in Events
    BY <1>4, <2>1 DEF CallInv
  <2>4. /\ Len(new) = i /\ new \in Seq(Events) /\ new[i] = x
        /\ \A j \in 1 .. Len(old) : new[j] = old[j]
    <3> HIDE DEF x
    <3> QED
      BY <2>3, AppendProperties
  <2>5. DOMAIN new = DOMAIN old \cup {i} /\ i \notin DOMAIN old /\ DOMAIN old = 1 .. Len(old)
    BY <2>3, <2>4
  <2>6. pipeline_events' = new
    BY <1>15 DEF Inserts
  <2> HIDE DEF new, i, x
  <2>7. New(e)' = New(e) \cup (IF InClass(x, e) THEN {i} ELSE {}) /\ i \notin New(e)
    BY <1>4, <2>1, <2>4, <2>5, <2>6 DEF New
  <2>8. CASE InClass(x, e)
    <3>1. Pending(e)' = Pending(e) \cup {c} /\ c \notin Pending(e)
      BY <1>5, <1>6, <1>7, <1>8, <2>1, <2>8
    <3>2. IsFiniteSet(Pending(e)') /\ Cardinality(Pending(e)') = p + 1
      BY <1>9, <3>1, OneMore
    <3>3. Cardinality(New(e)') = r + 1
      <4>1. New(e)' = New(e) \cup {i}
        BY <2>7, <2>8
      <4> QED
        BY <1>9, <2>7, <4>1, OneMore
    <3>4. Count(operational_signals, f)' = o /\ Count(comments, f)' = m
      BY <2>1
    <3>5. NoneFailed(e)' => NoneFailed(e)
      BY <1>10, <2>1
    <3> HIDE DEF o, m, p, q, r, f
    <3>6. /\ o + (p + 1) <= r + 1
          /\ NoneFailed(e) => o + (p + 1) = r + 1
      BY <1>9
    <3> QED
      BY <1>9, <2>2, <3>2, <3>3, <3>4, <3>5, <3>6 DEF Counts, f, q, o, m
  <2>9. CASE ~ InClass(x, e)
    <3>1. Pending(e)' = Pending(e)
      BY <1>5, <1>6, <1>7, <1>8, <2>1, <2>9
    <3>2. New(e)' = New(e)
      BY <2>7, <2>9
    <3> QED
      BY <1>10, <1>12, <1>13, <1>14, <2>1, <2>2, <3>1, <3>2
  <2> QED
    BY <2>8, <2>9
<1>16. CASE Finds(c, d)
  <2>1. call[c].pc = "synthesize" /\ d.pc = "upsert" /\ Stays(c, d) /\ UNCHANGED Tables
    BY <1>16 DEF Finds
  <2>2. Pending(e)' = Pending(e) /\ Commenting(e)' = Commenting(e)
    BY <1>5, <1>6, <1>7, <1>8, <2>1
  <2> QED
    BY <1>10, <1>11, <1>12, <1>13, <1>14, <2>1, <2>2 DEF Tables
<1>17. CASE Passes(c, d)
  <2>1. call[c].pc = "synthesize" /\ d.pc \in {"emit", "done"} /\ UNCHANGED Tables
    BY <1>17 DEF Passes, Advances
  <2>2. ~ InClass(x, e)
    BY <1>4, <1>17, <2>1 DEF Passes
  <2>3. Pending(e)' = Pending(e) /\ Commenting(e)' = Commenting(e)
    BY <1>5, <1>6, <1>7, <2>1, <2>2
  <2> QED
    BY <1>10, <1>11, <1>12, <1>13, <1>14, <2>1, <2>3 DEF Tables
<1>18. CASE Upserts(c, d)
  <2>1. /\ call[c].pc = "upsert" /\ d.pc \in {"upsert", "comment"} /\ Stays(c, d)
        /\ UNCHANGED <<pipeline_events, comments>>
    BY <1>18 DEF Upserts
  <2>2. PICK g : /\ operational_signals' = Put(operational_signals, g, EventCount(g))
                 /\ Succeeded(x) => IsRegression(g)
                 /\ ~ Succeeded(x) => g = TheSignal(x) /\ d.pc = "comment"
    BY <1>18 DEF Upserts
  <2>3. CASE InClass(x, e)
    <3>1. g = f /\ d.pc = "comment"
      BY <1>4, <2>1, <2>2, <2>3
    <3>2. Count(operational_signals, f)' = o + 1
      BY <2>2, <3>1, PutCount DEF EventCount
    <3>3. /\ Pending(e)' = Pending(e) \ {c} /\ c \in Pending(e)
          /\ Commenting(e)' = Commenting(e) \cup {c} /\ c \notin Commenting(e)
      BY <1>5, <1>6, <1>7, <1>8, <2>1, <2>3, <3>1
    <3>4. IsFiniteSet(Pending(e)') /\ Cardinality(Pending(e)') = p - 1
      BY <1>9, <3>3, OneLess
    <3>5. IsFiniteSet(Commenting(e)') /\ Cardinality(Commenting(e)') = q + 1
      BY <1>9, <3>3, OneMore
    <3>6. Count(comments, f)' = m /\ New(e)' = New(e) /\ (NoneFailed(e)' => NoneFailed(e))
      BY <1>10, <1>11, <1>13, <2>1
    <3> HIDE DEF o, m, p, q, r, f
    <3>7. /\ (o + 1) + (p - 1) <= r /\ m + (q + 1) <= o + 1 /\ o + 1 \in Nat
          /\ NoneFailed(e) => (o + 1) + (p - 1) = r
      BY <1>9
    <3> QED
      BY <1>9, <3>2, <3>4, <3>5, <3>6, <3>7 DEF Counts, f, r, m
  <2>4. CASE ~ InClass(x, e)
    <3>1. g # f
      BY <1>4, <2>1, <2>2, <2>4
    <3>2. Count(operational_signals, f)' = o
      BY <2>2, <3>1, PutCount
    <3>3. Pending(e)' = Pending(e) /\ Commenting(e)' = Commenting(e)
      BY <1>5, <1>6, <1>7, <1>8, <2>1, <2>4
    <3> QED
      BY <1>10, <1>11, <1>13, <1>14, <2>1, <3>2, <3>3
  <2> QED
    BY <2>3, <2>4
<1>19. CASE Remarks(c, d)
  <2>1. /\ call[c].pc = "comment" /\ d.pc \in {"comment", "emit", "done"}
        /\ d.pc = "comment" => Stays(c, d)
        /\ UNCHANGED <<pipeline_events, operational_signals>>
    BY <1>19 DEF Remarks, Advances
  <2>2. PICK g : /\ comments' = Put(comments, g, Count(comments, g) + 1)
                 /\ Succeeded(x) => IsRegression(g)
                 /\ ~ Succeeded(x) => g = TheSignal(x) /\ d.pc \in {"emit", "done"}
    BY <1>19 DEF Remarks, Advances
  <2>3. Pending(e)' = Pending(e)
    BY <1>5, <1>6, <1>7, <2>1
  <2>4. CASE InClass(x, e)
    <3>1. g = f /\ d.pc \in {"emit", "done"}
      BY <1>4, <2>1, <2>2, <2>4
    <3>2. Count(comments, f)' = m + 1
      BY <2>2, <3>1, PutCount
    <3>3. Commenting(e)' = Commenting(e) \ {c} /\ c \in Commenting(e)
      BY <1>5, <1>6, <1>7, <2>1, <2>4, <3>1
    <3>4. IsFiniteSet(Commenting(e)') /\ Cardinality(Commenting(e)') = q - 1
      BY <1>9, <3>3, OneLess
    <3>5. /\ Count(operational_signals, f)' = o /\ New(e)' = New(e)
          /\ NoneFailed(e)' => NoneFailed(e)
      BY <1>10, <1>11, <1>12, <2>1
    <3> HIDE DEF o, m, p, q, r, f
    <3>6. (m + 1) + (q - 1) <= o /\ m + 1 \in Nat
      BY <1>9
    <3> QED
      BY <1>9, <2>3, <3>2, <3>4, <3>5, <3>6 DEF Counts, f, r, p, o
  <2>5. CASE ~ InClass(x, e)
    <3>1. g # f
      BY <1>4, <2>1, <2>2, <2>5
    <3>2. Count(comments, f)' = m
      BY <2>2, <3>1, PutCount
    <3>3. Commenting(e)' = Commenting(e)
      BY <1>5, <1>6, <1>7, <1>8, <2>1, <2>5
    <3> QED
      BY <1>10, <1>11, <1>12, <1>14, <2>1, <2>3, <3>2, <3>3
  <2> QED
    BY <2>4, <2>5
<1>20. CASE Stops(c, d)
  <2>1. /\ call[c].pc \notin {"done", "failed"} /\ d.pc = "failed" /\ Stays(c, d)
        /\ UNCHANGED Tables
    BY <1>20 DEF Stops
  <2>2. Pending(e)' = Pending(e) \ {c} /\ Commenting(e)' = Commenting(e) \ {c}
    BY <1>5, <1>6, <1>7, <2>1
  <2>3. /\ IsFiniteSet(Pending(e)') /\ IsFiniteSet(Commenting(e)')
        /\ Cardinality(Pending(e)') \in Nat /\ Cardinality(Pending(e)') <= p
        /\ Cardinality(Commenting(e)') \in Nat /\ Cardinality(Commenting(e)') <= q
    BY <1>9, <2>2, NoMore
  <2>4. NoneFailed(e)' => NoneFailed(e) /\ Pending(e)' = Pending(e)
    <3> SUFFICES ASSUME NoneFailed(e)' PROVE NoneFailed(e) /\ Pending(e)' = Pending(e)
      OBVIOUS
    <3>1. \A n \in DOMAIN call[c].events : ~ InClass(call[c].events[n], e)
      BY <1>1, <1>2, <2>1 DEF NoneFailed
    <3>2. NoneFailed(e)
      BY <1>1, <3>1 DEF NoneFailed
    <3>3. c \notin Pending(e)
      <4>1. call[c].pc \in {"synthesize", "upsert"} => call[c].at \in DOMAIN call[c].events
        BY InHand
      <4> QED
        BY <1>6, <3>1, <4>1 DEF Current
    <3> QED
      BY <2>2, <3>2, <3>3
  <2>5. Count(operational_signals, f)' = o /\ Count(comments, f)' = m /\ New(e)' = New(e)
    BY <1>11, <2>1 DEF Tables
  <2> HIDE DEF o, m, p, q, r, f
  <2>6. /\ o + Cardinality(Pending(e)') <= r /\ m + Cardinality(Commenting(e)') <= o
        /\ NoneFailed(e)' => o + Cardinality(Pending(e)') = r
    BY <1>9, <2>3, <2>4 DEF p
  <2> QED
    BY <1>9, <2>3, <2>5, <2>6 DEF Counts, f, r, o, m
<1> QED
  BY <1>15, <1>16, <1>17, <1>18, <1>19, <1>20 DEF CallMoves

LEMMA CountStep ==
  ASSUME NEW Events, Emits(Events), CallInv(Events), CountInv(Events), [SignalsNext]_signalVars
  PROVE  CountInv(Events)'
<1> SUFFICES ASSUME NEW e \in Events, Countable(e) PROVE Counts(e)'
  BY DEF CountInv
<1>1. Counts(e)
  BY DEF CountInv
<1>2. CASE UNCHANGED signalVars
  BY <1>1, <1>2 DEF signalVars, Counts, Pending, Commenting, New, NoneFailed, Current
<1>3. CASE SignalsNext
  BY <1>1, <1>2, <1>3, Step, CountMove
<1> QED
  BY <1>2, <1>3

(***************************************************************************)
(* The event_count of a failure, block or recovery signal is never more    *)
(* than the number of events behind it, and exactly that when their calls  *)
(* returned without an error, however the statements of the calls are      *)
(* interleaved: the upsert is one statement that counts in the database.   *)
(* There are never more comments about a signal than it counts events.     *)
(***************************************************************************)
THEOREM SignalsCount ==
  ASSUME NEW CONSTANT Events, Emits(Events), EarlierHistory
  PROVE  SignalsSpec => []SignalsCountEvents
<1>1. SignalsInit => CallInv(Events) /\ CountInv(Events)
  BY CallInit, CountInit
<1>2. CallInv(Events) /\ CountInv(Events) /\ [SignalsNext]_signalVars
        => CallInv(Events)' /\ CountInv(Events)'
  BY CallStep, CountStep
<1>3. CallInv(Events) /\ CountInv(Events) => SignalsCountEvents
  <2> SUFFICES ASSUME CallInv(Events), CountInv(Events), NEW c \in Calls,
                      NEW n \in DOMAIN call[c].events,
                      \/ call[c].events[n].kind = "stale_attempt_recovered"
                      \/ call[c].events[n].status \in {"failed", "blocked"}
               PROVE  LET e == call[c].events[n]
                          f == TheSignal(e)
                      IN  /\ Count(operational_signals, f) <= Cardinality(New(e))
                          /\ (\A b \in Calls :
                                (\E k \in DOMAIN call[b].events : InClass(call[b].events[k], e))
                                => call[b].pc = "done")
                             => Count(operational_signals, f) = Cardinality(New(e))
                          /\ Count(comments, f) <= Count(operational_signals, f)
    <3>1. ASSUME NEW c \in Calls, NEW n \in DOMAIN call[c].events, CallInv(Events),
                 \/ call[c].events[n].kind = "stale_attempt_recovered"
                 \/ call[c].events[n].status \in {"failed", "blocked"}
          PROVE  (CASE call[c].events[n].status = "failed" -> "pipeline_failure"
                    [] call[c].events[n].status = "blocked" -> "pipeline_blocked"
                    [] OTHER -> "pipeline_stale_recovery") = Category(call[c].events[n])
      <4>1. call[c].events \in Seq(Events)
        BY <3>1, CallTyped DEF CallType
      <4>2. Shaped(call[c].events[n])
        BY <4>1 DEF Emits
      <4> QED
        BY <3>1, <4>2 DEF Shaped, Category
    <3> QED
      BY <3>1 DEF SignalsCountEvents, Emitted, EmittersDone, New, InClass, TheSignal
  <2> DEFINE e == call[c].events[n]
             f == TheSignal(e)
  <2>1. e \in Events /\ n \in 1 .. Len(call[c].events)
    <3>1. call[c].events \in Seq(Events)
      BY CallTyped DEF CallType
    <3> QED
      BY <3>1
  <2>2. Countable(e)
    BY <2>1 DEF Emits, Shaped, Countable
  <2>3. Counts(e)
    BY <2>1, <2>2 DEF CountInv
  <2>4. /\ Cardinality(Pending(e)) \in Nat /\ Cardinality(Commenting(e)) \in Nat
        /\ Cardinality(New(e)) \in Nat
    BY <2>3, FS_CardinalityType, NewFinite DEF Counts
  <2>5. ASSUME \A b \in Calls :
                 (\E k \in DOMAIN call[b].events : InClass(call[b].events[k], e))
                 => call[b].pc = "done"
        PROVE  Cardinality(Pending(e)) = 0 /\ NoneFailed(e)
    <3>1. NoneFailed(e)
      BY <2>5 DEF NoneFailed
    <3>2. ASSUME NEW b \in Pending(e) PROVE FALSE
      <4>1. b \in Calls /\ call[b].pc \in {"synthesize", "upsert"} /\ InClass(Current(b), e)
        BY DEF Pending
      <4>2. call[b].at \in DOMAIN call[b].events
        BY <4>1, InHand
      <4> QED
        BY <2>5, <4>1, <4>2 DEF Current
    <3>3. Pending(e) = {}
      BY <3>2
    <3> QED
      BY <3>1, <3>3, FS_EmptySet
  <2> QED
    BY <2>3, <2>4, <2>5 DEF Counts
<1> QED
  BY <1>1, <1>2, <1>3, PTL DEF SignalsSpec

-----------------------------------------------------------------------------
(* The baseline of a timing regression.  A signal is due, and later         *)
(* recorded, because of the event its call has just inserted; the events    *)
(* that made up the baseline stay in the table.                             *)

\* What is measured is a number of milliseconds.
Timed(Events) == \A e \in Events : e.duration \in Int

Others(e) == {j \in Successes(e) : pipeline_events[j].attempt # e.attempt}

Supports(i, stage) ==
  LET e == pipeline_events[i] IN
  /\ e.status = "succeeded" /\ e.stage = stage /\ e.age = "hour"
  /\ Cardinality(Others(e)) >= 3
  /\ \E j \in Others(e) : e.duration > 2 * pipeline_events[j].duration

Backed(s) ==
  s.category = "pipeline_timing_regression" =>
    \E i \in DOMAIN pipeline_events : Supports(i, s.stage)

\* A call knows where its event is, and its signals are backed.
BacksCall(k) ==
  /\ k.pc = "synthesize" => /\ k.id \in DOMAIN pipeline_events
                            /\ pipeline_events[k.id] = k.events[k.at]
  /\ k.pc = "upsert" => \A n \in DOMAIN k.due : Backed(k.due[n])

BackInv ==
  /\ \A f \in DOMAIN operational_signals : Backed(f)
  /\ \A c \in Calls : BacksCall(call[c])

LEMMA EventsFinite ==
  ASSUME NEW Events, CallInv(Events)
  PROVE  IsFiniteSet(DOMAIN pipeline_events)
<1>1. DOMAIN pipeline_events = 1 .. Len(pipeline_events) /\ Len(pipeline_events) \in Nat
  BY DEF CallInv
<1> QED
  BY <1>1, FS_Interval

\* Events are only added.
Grows ==
  \A i \in DOMAIN pipeline_events :
    i \in DOMAIN pipeline_events' /\ pipeline_events'[i] = pipeline_events[i]

LEMMA BackedStays ==
  ASSUME NEW Events, CallInv(Events)', Grows, NEW s, Backed(s)
  PROVE  Backed(s)'
<1> SUFFICES ASSUME NEW i \in DOMAIN pipeline_events, Supports(i, s.stage)
             PROVE  Supports(i, s.stage)' /\ i \in DOMAIN pipeline_events'
  BY DEF Backed
<1> DEFINE e == pipeline_events[i]
<1>1. i \in DOMAIN pipeline_events' /\ pipeline_events'[i] = e
  BY DEF Grows
<1>2. Others(e) \subseteq Others(pipeline_events[i])'
  BY <1>1 DEF Grows, Others, Successes, Of
<1>3. IsFiniteSet(Others(pipeline_events[i])')
  <2>1. IsFiniteSet(DOMAIN pipeline_events')
    <3>1. DOMAIN pipeline_events' = 1 .. Len(pipeline_events') /\ Len(pipeline_events') \in Nat
      BY DEF CallInv
    <3> QED
      BY <3>1, FS_Interval
  <2> QED
    BY <2>1, FS_Subset DEF Others, Successes, Of
<1>4. Cardinality(Others(e)) <= Cardinality(Others(pipeline_events[i])')
  BY <1>2, <1>3, FS_Subset
<1>5. Cardinality(Others(pipeline_events[i])') \in Nat /\ Cardinality(Others(e)) \in Nat
  BY <1>2, <1>3, FS_Subset, FS_CardinalityType
<1>6. \A j \in Others(e) : pipeline_events'[j] = pipeline_events[j]
  BY DEF Grows, Others, Successes, Of
<1> QED
  BY <1>1, <1>2, <1>4, <1>5, <1>6 DEF Supports

\* The event in the table supports the regression that its synthesis finds: an
\* event of the baseline is at most their average.
LEMMA RoseSupports ==
  ASSUME NEW Events, Timed(Events), CallInv(Events), NEW i \in DOMAIN pipeline_events,
         NEW e, e = pipeline_events[i], e.status = "succeeded", e.age = "hour",
         Cardinality(RecentEvents(e)) >= 3,
         Rose(e.duration, Average("duration", RecentEvents(e)), 500)
  PROVE  Supports(i, e.stage)
<1> DEFINE recent == RecentEvents(e)
           f == [j \in recent |-> pipeline_events[j].duration]
<1>1. recent \subseteq Others(e) /\ Others(e) \subseteq DOMAIN pipeline_events
  BY DEF RecentEvents, Latest, Others, Successes, Of
<1>2. IsFiniteSet(Others(e)) /\ IsFiniteSet(recent)
  BY <1>1, EventsFinite, FS_Subset
<1>3. \A j \in DOMAIN pipeline_events : pipeline_events[j].duration \in Int
  BY DEF CallInv, Timed
<1>4. Cardinality(recent) <= Cardinality(Others(e)) /\ Cardinality(Others(e)) \in Nat
      /\ Cardinality(recent) \in Nat
  BY <1>1, <1>2, FS_Subset, FS_CardinalityType
<1> HIDE DEF recent
<1>5. f \in [recent -> Int] /\ DOMAIN f = recent
  BY <1>1, <1>3
<1>6. Average("duration", recent) = SumFunctionOnSet(f, recent) \div Cardinality(recent)
  BY <1>5 DEF Average, SumFunction
<1>7. recent # {}
  BY FS_EmptySet DEF recent
<1> HIDE DEF f
<1>8. PICK j \in recent : f[j] <= SumFunctionOnSet(f, recent) \div Cardinality(recent)
  BY <1>2, <1>5, <1>7, SomeAtMostAverage
<1>9. Average("duration", recent) \in Int /\ e.duration > 2 * Average("duration", recent)
  <2>1. SumFunctionOnSet(f, recent) \in Int
    BY <1>2, <1>5, SumType
  <2>2. Cardinality(recent) > 0
    BY <1>4 DEF recent
  <2> QED
    BY <1>4, <1>6, <2>1, <2>2 DEF Rose, recent
<1>10. f[j] = pipeline_events[j].duration /\ f[j] \in Int /\ e.duration \in Int
  BY <1>3, <1>5, <1>8 DEF f
<1>11. e.duration > 2 * pipeline_events[j].duration
  BY <1>6, <1>8, <1>9, <1>10
<1> QED
  BY <1>1, <1>4, <1>8, <1>11 DEF Supports, recent

\* The signals of a synthesis are backed by the event the call has inserted.
LEMMA SynthesisBacked ==
  ASSUME NEW Events, Emits(Events), Timed(Events), CallInv(Events),
         NEW i \in DOMAIN pipeline_events, NEW e, e = pipeline_events[i], e.age = "hour"
  PROVE  \A n \in DOMAIN synthesize(e, i) : Backed(synthesize(e, i)[n])
<1> DEFINE s == synthesize(e, i)
<1>1. e \in Events /\ Shaped(e)
  BY DEF CallInv, Emits
<1>2. CASE ~ Succeeded(e)
  <2>1. s \in {<< >>, <<TheSignal(e)>>}
    BY <1>1, <1>2, Synthesized
  <2>2. TheSignal(e).category # "pipeline_timing_regression"
    BY DEF TheSignal, makeSignal, Category
  <2> HIDE DEF s
  <2>3. \A n \in DOMAIN s : s[n] = TheSignal(e)
    BY <2>1
  <2> QED
    BY <2>2, <2>3 DEF Backed, s
<1>3. CASE Succeeded(e)
  <2> DEFINE a == makeSignal("pipeline_timing_regression", e)
             b == makeSignal("pipeline_cost_anomaly", e)
             many == Cardinality(RecentEvents(e)) >= 3
             p == Rose(e.duration, Average("duration", RecentEvents(e)), 500)
             q == Rose(e.cost, Average("cost", RecentEvents(e)), 5000)
             x == IF p THEN <<a>> ELSE << >>
             y == IF q THEN <<b>> ELSE << >>
  <2>1. s = IF many THEN x \o y ELSE << >>
    <3>1. s = Regressions(e)
      BY <1>3 DEF Succeeded, synthesize
    <3>2. Cardinality(RecentEvents(e)) \in Nat
      <4>1. IsFiniteSet(RecentEvents(e))
        BY EventsFinite, FS_Subset DEF RecentEvents, Latest, Successes, Of
      <4> QED
        BY <4>1, FS_CardinalityType
    <3> QED
      BY <3>1, <3>2 DEF Regressions
  <2>2. many /\ p => Supports(i, e.stage)
    BY <1>3, RoseSupports DEF Succeeded
  <2>3. /\ a.category = "pipeline_timing_regression" /\ a.stage = e.stage
        /\ b.category # "pipeline_timing_regression"
    BY DEF makeSignal
  <2> HIDE DEF s, many, p, q, a, b
  <2>4. \A n \in DOMAIN s : (s[n] = a /\ many /\ p) \/ s[n] = b
    BY <2>1
  <2> QED
    BY <2>2, <2>3, <2>4 DEF Backed, s
<1> QED
  BY <1>2, <1>3

LEMMA BackInit ==
  ASSUME SignalsInit
  PROVE  BackInv
<1>1. operational_signals = << >> /\ \A c \in Calls : call[c].pc \in {"emit", "done"}
  BY DEF SignalsInit, Begin
<1> QED
  BY <1>1 DEF BackInv, BacksCall

\* What is left to show for a step of call c: its new value and the signals.
LEMMA BackMove ==
  ASSUME NEW Events, CallInv(Events), CallInv(Events)', BackInv, Grows,
         NEW c \in Calls, NEW d, call' = [call EXCEPT ![c] = d],
         BacksCall(d)',
         \A f \in DOMAIN operational_signals' : f \in DOMAIN operational_signals \/ Backed(f)'
  PROVE  BackInv'
<1>1. \A f \in DOMAIN operational_signals' : Backed(f)'
  BY BackedStays DEF BackInv
<1>2. ASSUME NEW b \in Calls, b # c
      PROVE  BacksCall(call[b])'
  <2>0. PICK k : k = call[b]
    OBVIOUS
  <2>1. call'[b] = k /\ BacksCall(k)
    BY <1>2, <2>0, CallTyped DEF BackInv
  <2>2. \A n \in DOMAIN k.due : Backed(k.due[n]) => Backed(k.due[n])'
    BY BackedStays
  <2>3. k.pc = "synthesize" => /\ k.id \in DOMAIN pipeline_events'
                               /\ pipeline_events'[k.id] = k.events[k.at]
    BY <2>1 DEF BacksCall, Grows
  <2>4. k.pc = "upsert" => \A n \in DOMAIN k.due : Backed(k.due[n])'
    BY <2>1, <2>2 DEF BacksCall
  <2> QED
    BY <2>1, <2>3, <2>4 DEF BacksCall
<1>3. call'[c] = d
  BY CallTyped
<1> QED
  BY <1>1, <1>2, <1>3 DEF BackInv

LEMMA BackInsert ==
  ASSUME NEW Events, CallInv(Events), CallInv(Events)', BackInv,
         NEW c \in Calls, InsertEvent(c)
  PROVE  BackInv'
<1>0. PICK k, id : k = call[c] /\ id = Len(pipeline_events) + 1
  OBVIOUS
<1> DEFINE d == [k EXCEPT !.pc = "synthesize", !.id = id]
<1>1. k \in CallType(Events) /\ call[c].pc = "emit"
  BY <1>0, CallTyped DEF InsertEvent
<1>2. Current(c) \in Events
  BY <1>1, InHand
<1>3. pipeline_events \in Seq(Events) /\ pipeline_events' = Append(pipeline_events, Current(c))
  BY DEF CallInv, InsertEvent
<1>4. Grows /\ id \in DOMAIN pipeline_events' /\ pipeline_events'[id] = Current(c)
  BY <1>0, <1>2, <1>3 DEF Grows
<1>5. call' = [call EXCEPT ![c] = d]
  BY <1>0, CallTyped DEF InsertEvent
<1>6. d.pc = "synthesize" /\ d.id = id /\ d.events[d.at] = Current(c)
  BY <1>0, <1>1 DEF CallType, Current
<1> HIDE DEF d
<1>7. BacksCall(d)'
  BY <1>4, <1>6 DEF BacksCall
<1>8. operational_signals' = operational_signals
  BY DEF InsertEvent
<1> QED
  BY <1>4, <1>5, <1>7, <1>8, BackMove

\* A call whose event is dealt with has nothing to show.
LEMMA NextBacks ==
  ASSUME NEW Events, CallInv(Events), NEW c \in Calls, call[c].pc \in {"synthesize", "comment"}
  PROVE  \E d : d = NextEvent(c) /\ BacksCall(d)'
<1>1. NextEvent(c).pc \in {"emit", "done"}
  BY NextInHand DEF Advances
<1>2. PICK d : d = NextEvent(c)
  OBVIOUS
<1>3. BacksCall(d)'
  BY <1>1, <1>2 DEF BacksCall
<1> QED
  BY <1>2, <1>3

LEMMA BackSynthesize ==
  ASSUME NEW Events, Emits(Events), Timed(Events), CallInv(Events), CallInv(Events)', BackInv,
         NEW c \in Calls, Synthesize(c)
  PROVE  BackInv'
<1>0. PICK k, due : k = call[c] /\ due = synthesize(Current(c), k.id)
  OBVIOUS
<1>1. k \in CallType(Events) /\ k.pc = "synthesize"
  BY <1>0, CallTyped DEF Synthesize
<1>2. /\ Current(c).age = "hour"
      /\ k.id \in DOMAIN pipeline_events /\ Current(c) = pipeline_events[k.id]
  BY <1>0, <1>1, InHand DEF BackInv, BacksCall, Current
<1>3. \A n \in DOMAIN due : Backed(due[n])
  BY <1>0, <1>2, SynthesisBacked
<1>4. Grows /\ operational_signals' = operational_signals
  BY DEF Synthesize, Grows
<1>5. CASE due = << >>
  <2>1. PICK d : d = NextEvent(c) /\ BacksCall(d)'
    BY <1>0, <1>1, NextBacks
  <2>2. call' = [call EXCEPT ![c] = d]
    BY <1>0, <1>5, <2>1 DEF Synthesize
  <2> QED
    BY <1>4, <2>1, <2>2, BackMove
<1>6. CASE due # << >>
  <2> DEFINE d == [k EXCEPT !.pc = "upsert", !.due = due]
  <2>1. call' = [call EXCEPT ![c] = d]
    BY <1>0, <1>1, <1>6, CallTyped DEF Synthesize
  <2>2. d.pc = "upsert" /\ d.due = due
    BY <1>1 DEF CallType
  <2>3. \A n \in DOMAIN due : Backed(due[n])'
    BY <1>3, <1>4, BackedStays
  <2> HIDE DEF d
  <2>4. BacksCall(d)'
    BY <2>2, <2>3 DEF BacksCall
  <2> QED
    BY <1>4, <2>1, <2>4, BackMove
<1> QED
  BY <1>5, <1>6

LEMMA BackUpsert ==
  ASSUME NEW Events, CallInv(Events), CallInv(Events)', BackInv,
         NEW c \in Calls, UpsertSignal(c)
  PROVE  BackInv'
<1>0. PICK k : k = call[c]
  OBVIOUS
<1> DEFINE f == Head(k.due)
           due == Tail(k.due)
           pc == IF Len(k.due) = 1 THEN "comment" ELSE "upsert"
           d == [k EXCEPT !.due = due, !.made = Append(k.made, f), !.pc = pc]
<1>1. k \in CallType(Events) /\ CallOK(Events, k) /\ k.pc = "upsert"
  BY <1>0, CallTyped DEF UpsertSignal
<1>2. k.due \in Seq(Sigs(Events)) /\ k.due # << >>
  <2>1. <<TheSignal(k.events[k.at])>> # << >>
    BY Single
  <2> QED
    BY <1>1, <2>1 DEF CallType, CallOK
<1>3. \A n \in DOMAIN k.due : Backed(k.due[n])
  BY <1>0, <1>1 DEF BackInv, BacksCall
<1>4. Grows
  BY DEF UpsertSignal, Grows
<1>5. \A n \in DOMAIN k.due : Backed(k.due[n])'
  BY <1>3, <1>4, BackedStays
<1>6. call' = [call EXCEPT ![c] = d]
  BY <1>0, <1>1, CallTyped DEF UpsertSignal, CallType
<1>7. d.due = due
  BY <1>1 DEF CallType
<1>8. DOMAIN operational_signals' = DOMAIN operational_signals \cup {f}
  BY <1>0 DEF UpsertSignal, Put
<1> HIDE DEF d
<1>9. f = k.due[1] /\ 1 \in DOMAIN k.due
  BY <1>2
<1>10. \A n \in DOMAIN due : n + 1 \in DOMAIN k.due /\ due[n] = k.due[n + 1]
  BY <1>2
<1> HIDE DEF f, due, pc
<1>11. BacksCall(d)' /\ Backed(f)'
  <2>1. \A n \in DOMAIN due : Backed(due[n])'
    BY <1>5, <1>10
  <2>2. d.pc # "synthesize"
    BY <1>1 DEF d, pc, CallType
  <2> QED
    BY <1>5, <1>7, <1>9, <2>1, <2>2 DEF BacksCall
<1> QED
  BY <1>4, <1>6, <1>8, <1>11, BackMove

LEMMA BackRest ==
  ASSUME NEW Events, CallInv(Events), CallInv(Events)', BackInv,
         NEW c \in Calls, commentIssue(c) \/ emitSignalsFails(c)
  PROVE  BackInv'
<1>0. PICK k : k = call[c]
  OBVIOUS
<1>1. k \in CallType(Events) /\ Grows /\ operational_signals' = operational_signals
  BY <1>0, CallTyped DEF commentIssue, emitSignalsFails, Grows
<1>2. CASE commentIssue(c) /\ Len(call[c].made) = 1
  <2>1. PICK d : d = NextEvent(c) /\ BacksCall(d)'
    BY <1>2, NextBacks DEF commentIssue
  <2>2. call' = [call EXCEPT ![c] = d]
    BY <1>2, <2>1 DEF commentIssue
  <2> QED
    BY <1>1, <2>1, <2>2, BackMove
<1>3. CASE commentIssue(c) /\ Len(call[c].made) # 1
  <2> DEFINE d == [k EXCEPT !.made = Tail(k.made)]
  <2>1. call' = [call EXCEPT ![c] = d]
    <3>1. call' = [call EXCEPT ![c] = IF Len(call[c].made) = 1 THEN NextEvent(c) ELSE d]
      BY <1>0, <1>3 DEF commentIssue
    <3> QED
      BY <1>3, <3>1
  <2>2. d.pc = "comment"
    BY <1>0, <1>1, <1>3 DEF CallType, commentIssue
  <2> HIDE DEF d
  <2>3. BacksCall(d)'
    BY <2>2 DEF BacksCall
  <2> QED
    BY <1>1, <2>1, <2>3, BackMove
<1>4. CASE emitSignalsFails(c)
  <2> DEFINE d == [k EXCEPT !.pc = "failed"]
  <2>1. call' = [call EXCEPT ![c] = d] /\ d.pc = "failed"
    BY <1>0, <1>1, <1>4 DEF emitSignalsFails, CallType
  <2> HIDE DEF d
  <2>2. BacksCall(d)'
    BY <2>1 DEF BacksCall
  <2> QED
    BY <1>1, <2>1, <2>2, BackMove
<1> QED
  BY <1>2, <1>3, <1>4

LEMMA BackStep ==
  ASSUME NEW Events, Emits(Events), Timed(Events), CallInv(Events), CallInv(Events)', BackInv,
         [SignalsNext]_signalVars
  PROVE  BackInv'
<1>1. CASE UNCHANGED signalVars
  <2>1. /\ pipeline_events' = pipeline_events /\ call' = call
        /\ operational_signals' = operational_signals
    BY <1>1 DEF signalVars
  <2>2. Grows
    BY <2>1 DEF Grows
  <2>3. \A f \in DOMAIN operational_signals' : Backed(f)'
    BY <2>1, <2>2, BackedStays DEF BackInv
  <2>4. ASSUME NEW c \in Calls
        PROVE  BacksCall(call[c])'
    <3>1. PICK k : k = call[c]
      OBVIOUS
    <3>2. \A n \in DOMAIN k.due : Backed(k.due[n]) => Backed(k.due[n])'
      BY <2>2, BackedStays
    <3>3. BacksCall(k)
      BY <3>1 DEF BackInv
    <3>4. BacksCall(k)'
      BY <2>1, <3>2, <3>3 DEF BacksCall
    <3> QED
      BY <2>1, <3>1, <3>4
  <2> QED
    BY <2>3, <2>4 DEF BackInv
<1>2. ASSUME NEW c \in Calls,
             \/ InsertEvent(c) \/ Synthesize(c) \/ UpsertSignal(c) \/ commentIssue(c)
             \/ emitSignalsFails(c)
      PROVE  BackInv'
  BY <1>2, BackInsert, BackSynthesize, BackUpsert, BackRest
<1> QED
  BY <1>1, <1>2 DEF SignalsNext

(***************************************************************************)
(* A timing regression is measured against others, for any number of calls *)
(* and any window: the event is in the table before the baseline is read,  *)
(* and whatever the other calls insert in between, the signal rests on     *)
(* three successes of other attempts, one of them less than half as long   *)
(* (Regressions, RecentEvents; internal/signals/service.go).               *)
(***************************************************************************)
THEOREM BaselinesAreOfOthers ==
  ASSUME NEW CONSTANT Events, Emits(Events), Timed(Events)
  PROVE  SignalsSpec => []BaselineOfOthers
<1>1. SignalsInit => CallInv(Events) /\ BackInv
  BY CallInit, BackInit
<1>2. CallInv(Events) /\ BackInv /\ [SignalsNext]_signalVars => CallInv(Events)' /\ BackInv'
  BY CallStep, BackStep
<1>3. BackInv => BaselineOfOthers
  BY DEF BackInv, Backed, Supports, Others, BaselineOfOthers
<1> QED
  BY <1>1, <1>2, <1>3, PTL DEF SignalsSpec
=============================================================================
