----------------------------- MODULE StageWork ------------------------------
(***************************************************************************)
(* What claims, leases and locks are for, with no lease, no lock table, no *)
(* clock and no state file in sight: an attempt is executed by one worker  *)
(* at a time, which has the attempt's locks to itself while it works, and  *)
(* gets one outcome, from a worker that executes it.                       *)
(***************************************************************************)
EXTENDS Naturals

CONSTANTS Workers,   \* the worker processes
          Keys,      \* the resource locks
          Results    \* the outcomes of stage execution

VARIABLES work,      \* the attempt each worker executes, and its locks
          outcome    \* the outcomes the attempts have got

workVars == <<work, outcome>>

Idle == [attempt |-> 0, keys |-> {}]

Init ==
    /\ work = [w \in Workers |-> Idle]
    /\ outcome = {}

\* A worker is given an attempt without outcome that no other executes, and
\* locks that no other has.
Start(w) ==
    LET new == work'[w]
    IN  /\ work[w] = Idle
        /\ new.attempt \in Nat \ {0} /\ new.keys \subseteq Keys
        /\ \A v \in Workers \ {w} : /\ work[v].attempt # new.attempt
                                    /\ work[v].keys \cap new.keys = {}
        /\ \A o \in outcome : o.attempt # new.attempt
        /\ work' = [work EXCEPT ![w] = new]
        /\ UNCHANGED outcome

Finish(w, result) ==
    /\ work[w] # Idle
    /\ outcome' = outcome \cup {[attempt |-> work[w].attempt, result |-> result]}
    /\ work' = [work EXCEPT ![w] = Idle]

\* The worker stops without an outcome; the attempt may be started again.
Stop(w) ==
    /\ work[w] # Idle
    /\ work' = [work EXCEPT ![w] = Idle]
    /\ UNCHANGED outcome

Next ==
    \E w \in Workers :
        \/ Start(w)
        \/ \E result \in Results : Finish(w, result)
        \/ Stop(w)

Spec == Init /\ [][Next]_workVars
=============================================================================
