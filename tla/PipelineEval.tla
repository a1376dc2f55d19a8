---------------------------- MODULE PipelineEval ----------------------------
(***************************************************************************)
(* The scheduling decision of Autodev, internal/pipeline: which stages of  *)
(* a run may be queued and which status the run has, computed from the     *)
(* run's materialized execution plan, the status of the attempts made so   *)
(* far, and the approval of its issue.                                     *)
(*                                                                         *)
(* A plan is a function from the names of its stages to stage specs:       *)
(*   deps          the stages that must have succeeded before it           *)
(*   auto          queue_mode is not "triggered"                           *)
(*   approval      approval_required                                       *)
(*   checkpoint    the run status its success checkpoints, or "none"       *)
(*   rollbackStage the stage that reverts it, or NoStage                   *)
(*   policy        its rollback policy, "none" when the spec names none    *)
(*   autoRollback  the delivery target enables app_auto_rollback in the    *)
(*                 environment of the stage                                *)
(*   onFailure, onSuccess   the stages whose outcome triggers it           *)
(*   parallelism   max_parallelism                                         *)
(*   keys          the resource locks it takes, in the order it takes them *)
(***************************************************************************)
EXTENDS Integers, SequencesExt

CONSTANTS
    Alphabet,   \* the stage names as sort.Strings orders them
    Keys,       \* the resource lock keys of the delivery targets
    Plans,      \* the execution plans materialization may produce
    NoStage     \* the absent stage name

Stages == {Alphabet[n] : n \in DOMAIN Alphabet}

Checkpoints == {"none", "awaiting_approval", "completed", "failed"}

StageSpec ==
    [ deps : SUBSET Stages, auto : BOOLEAN, approval : BOOLEAN,
      checkpoint : Checkpoints, rollbackStage : Stages \cup {NoStage},
      policy : {"none", "app_auto_rollback", "other"}, autoRollback : BOOLEAN,
      onFailure : SUBSET Stages, onSuccess : SUBSET Stages,
      parallelism : Int, keys : Seq(Keys) ]

ASSUME AlphabetAssumption ==
    /\ Alphabet \in Seq(STRING)
    /\ \A m, n \in DOMAIN Alphabet : Alphabet[m] = Alphabet[n] => m = n
    /\ NoStage \notin Stages

ASSUME PlansAssumption ==
    \A plan \in Plans : /\ DOMAIN plan \subseteq Stages
                        /\ plan \in [DOMAIN plan -> StageSpec]

-----------------------------------------------------------------------------
(* The order in which Evaluate walks the stages.                           *)

NameLess(s, t) ==
    \E m, n \in DOMAIN Alphabet : m < n /\ Alphabet[m] = s /\ Alphabet[n] = t

FirstByName(S) == CHOOSE s \in S : \A t \in S \ {s} : NameLess(s, t)

Unblocked(plan, done) ==
    {s \in DOMAIN plan \ done : plan[s].deps \cap DOMAIN plan \subseteq done}

\* The sequence of the names in S, sorted: the n-th has n - 1 names before it.
ByName(S) ==
    [n \in 1 .. Cardinality(S) |->
        CHOOSE s \in S : Cardinality({t \in S : NameLess(t, s)}) = n - 1]

\* Kahn's algorithm with a ready list kept sorted by name: the stages placed
\* after each turn of the loop.
Kahn(plan) ==
    LET kahn[n \in 0 .. Cardinality(DOMAIN plan)] ==
            IF n = 0 THEN << >>
            ELSE LET ordered == kahn[n - 1]
                     ready   == Unblocked(plan, ToSet(ordered))
                 IN  IF ready = {} THEN ordered
                     ELSE Append(ordered, FirstByName(ready))
    IN  kahn

\* The stages of a dependency cycle come last, by name.
SpecsInOrder(plan) ==
    LET placed == Kahn(plan)[Cardinality(DOMAIN plan)]
    IN  placed \o ByName(DOMAIN plan \ ToSet(placed))

\* The place of every stage of every plan in that order.
Position ==
    [plan \in Plans |->
        LET ordered == SpecsInOrder(plan)
        IN  [s \in DOMAIN plan |-> CHOOSE n \in DOMAIN ordered : ordered[n] = s]]

-----------------------------------------------------------------------------
(* byStage maps every stage of the run that has an attempt to the status   *)
(* of its latest attempt.                                                  *)

Has(byStage, s, status) == s \in DOMAIN byStage /\ byStage[s] = status

rollbackPolicyEnabled(spec) ==
    spec.policy = "app_auto_rollback" /\ spec.autoRollback

rollbackEligible(spec, byStage) ==
    /\ spec.rollbackStage # NoStage
    /\ rollbackPolicyEnabled(spec)
    /\ ~Has(byStage, spec.rollbackStage, "succeeded")

\* Mutant: a blocked dependency does not hold a stage back.
isReadyPastBlocked(plan, s, byStage, approved) ==
    /\ plan[s].auto
    /\ plan[s].approval => approved
    /\ \A d \in plan[s].deps : Has(byStage, d, "succeeded") \/ Has(byStage, d, "blocked")
    /\ s \notin DOMAIN byStage

\* Mutant: one succeeded dependency is enough.
isReadyAfterAny(plan, s, byStage, approved) ==
    /\ plan[s].auto
    /\ plan[s].approval => approved
    /\ plan[s].deps = {} \/ \E d \in plan[s].deps : Has(byStage, d, "succeeded")
    /\ s \notin DOMAIN byStage

isReady(plan, s, byStage, approved) ==
    /\ plan[s].auto
    /\ plan[s].approval => approved
    /\ \A d \in plan[s].deps : Has(byStage, d, "succeeded")
    /\ s \notin DOMAIN byStage

triggeredByFailure(spec, byStage) ==
    /\ \E t \in spec.onFailure : Has(byStage, t, "failed")
    /\ spec.policy = "none" \/ rollbackPolicyEnabled(spec)

triggeredBySuccess(spec, byStage) ==
    \E t \in spec.onSuccess : Has(byStage, t, "succeeded")

\* The walk over the stages ends at the first one whose success decides the
\* status of the run.
EndsWalk(spec, approved) ==
    \/ spec.checkpoint \in {"completed", "failed"}
    \/ spec.checkpoint = "awaiting_approval" /\ ~approved

\* The stages to queue and the status of the run.  Stages placed after the
\* deciding checkpoint are not looked at.
Evaluate(plan, byStage, approved) ==
    LET pos       == Position[plan]
        deciding  == {s \in DOMAIN plan : /\ Has(byStage, s, "succeeded")
                                          /\ EndsWalk(plan[s], approved)}
        walked    == {s \in DOMAIN plan : \A t \in deciding : pos[s] < pos[t]}
        decides(status) ==
            \E s \in deciding : /\ plan[s].checkpoint = status
                                /\ \A t \in deciding : pos[s] <= pos[t]
        fresh     == walked \ DOMAIN byStage
        triggered == {s \in fresh : /\ ~plan[s].auto
                                    /\ \/ triggeredByFailure(plan[s], byStage)
                                       \/ triggeredBySuccess(plan[s], byStage)}
        runnable  == {s \in fresh : isReady(plan, s, byStage, approved)}
        failed    == {s \in DOMAIN plan : Has(byStage, s, "failed")}
        reverting == {s \in failed : rollbackEligible(plan[s], byStage)}
        attempted == DOMAIN plan \cap DOMAIN byStage
    IN  [ triggered |-> triggered,
          runnable  |-> runnable,
          status    |->
              IF decides("completed") THEN "completed"
              ELSE IF decides("failed") THEN "failed"
              ELSE IF decides("awaiting_approval") THEN "awaiting_approval"
              ELSE IF failed # {} /\ reverting = {} THEN "failed"
              ELSE IF attempted \cup runnable \cup triggered # {} THEN "active"
              ELSE "pending" ]
=============================================================================
