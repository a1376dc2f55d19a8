----------------------------- MODULE SpecOrder ------------------------------
(***************************************************************************)
(* The loop of SpecsInOrder, internal/pipeline/graph.go: Kahn's algorithm  *)
(* over the stage specs of a plan, with a counter of open dependencies for *)
(* every stage and a list of ready stages that is sorted after every       *)
(* insertion.  A dependency may be listed more than once, may name a stage *)
(* the plan does not have, and may be part of a cycle.                     *)
(***************************************************************************)
EXTENDS PipelineEval

CONSTANT MaxRepeat      \* bound: how often a dependency is listed

ASSUME MaxRepeatAssumption == MaxRepeat \in Nat

VARIABLES
    listed,     \* how often each stage of the plan lists each dependency
    indegree,   \* the open dependencies of every stage
    ready,      \* the ready stages, sorted by name
    ordered,    \* the stages placed so far
    done        \* the result is returned

orderVars == <<listed, indegree, ready, ordered, done>>

names == DOMAIN listed

\* Mutant: a dependency listed twice is counted once.
OpenOnce(s, placed) == Cardinality({d \in names \ placed : listed[s][d] > 0})

\* The dependencies of s that are stages of the plan and not yet placed, each as
\* often as it is listed.
Open(s, placed) == SumFunctionOnSet(listed[s], names \ placed)

OrderInit ==
    /\ \E S \in SUBSET Stages : listed \in [S -> [Stages -> 0 .. MaxRepeat]]
    /\ indegree = [s \in names |-> Open(s, {})]
    /\ ready = ByName({s \in names : indegree[s] = 0})
    /\ ordered = << >>
    /\ done = FALSE

\* Mutant: the ready list is not sorted again.
PlaceUnsorted ==
    LET name  == Head(ready)
        left  == [s \in names |-> indegree[s] - listed[s][name]]
        fresh == {s \in names : indegree[s] > 0 /\ left[s] = 0}
    IN  /\ ready # << >>
        /\ ordered' = Append(ordered, name)
        /\ indegree' = left
        /\ ready' = Tail(ready) \o ByName(fresh)
        /\ UNCHANGED <<listed, done>>

\* One turn of the loop: the first ready stage is placed, and its dependents
\* lose as many open dependencies as they list it.
Place ==
    LET name  == Head(ready)
        left  == [s \in names |-> indegree[s] - listed[s][name]]
        fresh == {s \in names : indegree[s] > 0 /\ left[s] = 0}
    IN  /\ ready # << >>
        /\ ordered' = Append(ordered, name)
        /\ indegree' = left
        /\ ready' = ByName(ToSet(Tail(ready)) \cup fresh)
        /\ UNCHANGED <<listed, done>>

\* What is left lies on a cycle or behind one.
Return ==
    /\ ready = << >>
    /\ ~done
    /\ ordered' = ordered \o ByName(names \ ToSet(ordered))
    /\ done' = TRUE
    /\ UNCHANGED <<listed, indegree, ready>>

OrderNext == Place \/ Return

OrderSpec == OrderInit /\ [][OrderNext]_orderVars

-----------------------------------------------------------------------------

\* The plan with these dependencies, as PipelineEval has it.
AsPlan == [s \in names |-> [deps |-> {d \in Stages : listed[s][d] > 0}]]

\* The loop computes the order PipelineEval uses: repeated dependencies, names
\* of absent stages and cycles change nothing (SpecsInOrder).
OrderAgrees == done => ordered = SpecsInOrder(AsPlan)

\* The stage being placed comes after all its dependencies, and the counters
\* say how many of these are still open (the indegree bookkeeping).
DependenciesFirst ==
    ~done => /\ \A s \in names : indegree[s] = Open(s, ToSet(ordered))
             /\ \A n \in DOMAIN ordered : \A d \in names :
                   listed[ordered[n]][d] > 0 => \E m \in 1 .. n - 1 : ordered[m] = d
=============================================================================
