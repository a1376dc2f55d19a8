----------------------------- MODULE AtomicStore -----------------------------
(***************************************************************************)
(* What internal/store promises its callers, with no file, no mutex and no *)
(* process in sight: Save appends one update to a log, at most once, and   *)
(* is answered "ok" only when its update is in the log and "error" only    *)
(* when it is not; Load returns the log of one instant.                    *)
(***************************************************************************)
EXTENDS Naturals, Sequences

CONSTANTS Saves,   \* the calls of Save, each of which makes one update
          Loads    \* the calls of Load

VARIABLES log,     \* the updates in the order they took effect
          answer,  \* what each call was told: "none" until it returns
          seen     \* the log each Load returned

vars == <<log, answer, seen>>

Calls == Saves \cup Loads

Init ==
  /\ log = <<>>
  /\ answer = [c \in Calls |-> "none"]
  /\ seen = [c \in Loads |-> <<>>]

InLog(c) == \E i \in DOMAIN log : log[i] = c

\* The instant at which the update takes effect, before the caller is told.
Apply(c) ==
  /\ answer[c] = "none"
  /\ ~ InLog(c)
  /\ log' = Append(log, c)
  /\ UNCHANGED <<answer, seen>>

Confirm(c) ==
  /\ answer[c] = "none"
  /\ InLog(c)
  /\ answer' = [answer EXCEPT ![c] = "ok"]
  /\ UNCHANGED <<log, seen>>

Refuse(c) ==
  /\ answer[c] = "none"
  /\ c \in Saves => ~ InLog(c)
  /\ answer' = [answer EXCEPT ![c] = "error"]
  /\ UNCHANGED <<log, seen>>

Return(c) ==
  /\ answer[c] = "none"
  /\ answer' = [answer EXCEPT ![c] = "ok"]
  /\ seen' = [seen EXCEPT ![c] = log]
  /\ UNCHANGED log

Next ==
  \/ \E c \in Saves : Apply(c) \/ Confirm(c)
  \/ \E c \in Calls : Refuse(c)
  \/ \E c \in Loads : Return(c)

Spec == Init /\ [][Next]_vars
==============================================================================
