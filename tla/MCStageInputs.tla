---------------------------- MODULE MCStageInputs ----------------------------
(***************************************************************************)
(* What a stage is given before its container starts: its place among the  *)
(* stages of the plan (SpecOrder), the places it may write (StageAccess)   *)
(* and the checkout it shares with the other stages of its run (RunRepos). *)
(* The three do not touch each other's state, so a behaviour is one of one *)
(* of them, and the others stay where they start.                          *)
(***************************************************************************)
EXTENDS RunRepos, StageAccess, SpecOrder, TLC

VARIABLE part

------------------------------------------------------------------------------
(* Every plan of up to three stages, every dependency listed up to twice.   *)

MCAlphabet == <<"build", "plan", "test">>

------------------------------------------------------------------------------
(* Three stages of a run on one repository, two of them in parallel, and    *)
(* how often each is executed.                                              *)

MCNeeds == [implement |-> {}, test |-> {"implement"}, security |-> {"implement"}]

MCMaterializers == DOMAIN MCNeeds

MCStageOf == [i1 |-> "implement", i2 |-> "implement",
              t1 |-> "test", t2 |-> "test", s1 |-> "security"]

------------------------------------------------------------------------------
(* The contracts of stages and delivery targets.                            *)

MCSegments == {"src", "v1.2", "generated"}
MCDotted == {"v1.2"}

Patterns == UNION {[1 .. n -> {"src", "v1.2", "*", "**"}] : n \in 1 .. 3}

Repo(p, templated) == [project |-> p, templated |-> templated, complete |-> TRUE]

Rule(identity, mutable, paths) ==
  [identity |-> identity, mutable |-> mutable, paths |-> paths]

Component(p, ownership, repositories) ==
  [repo |-> Repo(p, TRUE), ownership |-> ownership, repositories |-> repositories]

Api(paths) ==
  Component("api", {Rule("generator", TRUE, paths), Rule("agent", FALSE, {<<"src", "**">>})}, {})

\* A component of two repositories; one of them has rules of its own.
Console ==
  Component("console", {Rule("agent", TRUE, {<<"src", "*">>})},
    {[repo |-> Repo("console", TRUE), ownership |-> {}],
     [repo |-> Repo("assets", TRUE),
      ownership |-> {Rule("generator", TRUE, {<<"src">>})}]})

Target(paths, journalPath, journalRepo, gitopsRepo) ==
  [components   |-> [api |-> Api(paths), console |-> Console],
   selected     |-> {"api"}, primary |-> "",
   journal      |-> [repo |-> journalRepo, path |-> journalPath],
   environments |-> [dev |-> [repo |-> gitopsRepo, path |-> <<"src">>]]]

Usual == Target({<<"src", "**">>}, <<"src">>, Repo("orders", TRUE), Repo("gitops", TRUE))

StageSpecs ==
  [writeAs : {"", "agent", "generator", "governed", "unknown"},
   writable : {{}, {"workspace"}, {"/workspace"}, {"components"}, {"gitops"},
               {"journal"}, {"components", "journal"}},
   repoControl : {{}, {"none"}, {"components", "journal", "gitops"}},
   materialize : SUBSET {"components", "journal", "gitops"},
   environment : {"", "dev"}]

\* Every stage contract, on delivery targets that differ in what they leave
\* out and in whether the checkouts are named after the run.
Targets ==
  {Usual,
   [Usual EXCEPT !.selected = {}],
   [Usual EXCEPT !.selected = {}, !.primary = "console",
                 !.journal.repo = [project |-> "", templated |-> FALSE, complete |-> FALSE]],
   [Usual EXCEPT !.selected = {"api", "mobile"}, !.environments = << >>,
                 !.journal.repo = Repo("orders", FALSE), !.journal.path = << >>],
   [Usual EXCEPT !.environments.dev.repo.templated = FALSE,
                 !.components.api.repo.complete = FALSE]}

ByStage == [spec : StageSpecs, target : Targets]

\* Every pair of patterns, for a stage that writes components and journal.
Generate ==
  [writeAs |-> "generator",
   writable |-> {"components", "journal"}, repoControl |-> {"components", "journal"},
   materialize |-> {"components", "journal"}, environment |-> ""]

ByPattern ==
  {[spec |-> Generate,
    target |-> [Usual EXCEPT !.components.api = Api({p, q}), !.journal.path = j]] :
     p \in Patterns, q \in {<<"v1.2">>, <<"src", "*">>},
     j \in {<< >>, <<"src">>, <<"v1.2">>, <<"src", "v1.2">>}}

MCContracts == ByStage \cup ByPattern

------------------------------------------------------------------------------
NoContract == [spec |-> Generate, target |-> Usual]

OrderIdle == listed = << >> /\ indegree = << >> /\ ready = << >> /\ ordered = << >> /\ done = TRUE
AccessIdle ==
  /\ contract = NoContract /\ step = "off"
  /\ scopes = {} /\ control = {} /\ repos = {} /\ context = << >>
  /\ mounts = {} /\ skipped = {}

MCInit ==
  \/ part = "order" /\ OrderInit /\ AccessIdle /\ Init
  \/ part = "access" /\ AccessInit /\ OrderIdle /\ Init
  \/ part = "checkout" /\ Init /\ OrderIdle /\ AccessIdle

MCNext ==
  \/ part = "order" /\ OrderNext /\ UNCHANGED <<part, accessVars, vars>>
  \/ part = "access" /\ AccessNext /\ UNCHANGED <<part, orderVars, vars>>
  \/ part = "checkout" /\ Next /\ UNCHANGED <<part, orderVars, accessVars>>

MCSpec == MCInit /\ [][MCNext]_<<part, orderVars, accessVars, vars>>
==============================================================================
