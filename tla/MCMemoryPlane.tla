--------------------------- MODULE MCMemoryPlane ---------------------------
(***************************************************************************)
(* The memory plane: the ratchet (Ratchet) and the signals (Signals).      *)
(* They keep separate databases and do not touch each other's state, so a  *)
(* behaviour is one of one of them, and the other stays where it starts.   *)
(***************************************************************************)
EXTENDS Ratchet, Signals, TLC

VARIABLE part

----------------------------------------------------------------------------
(* Three findings of a repository cluster in three runs, two critical ones, *)
(* of a global cluster and of the first, and two activations.  One of the   *)
(* critical findings is lost: its ingest has died in its transaction.       *)

MCIngests == 1 .. 5
Lost == {4, 5}
MCActivations == {"a1", "a2"}
MCClusters == {"repo-cluster", "global-cluster"}
MCScope == [c \in MCClusters |->
  IF c = "global-cluster" THEN [type |-> "global", key |-> ""]
                          ELSE [type |-> "repo", key |-> "repo"]]
MCFinding == [i \in MCIngests |->
  CASE i = 1 -> [cluster |-> "repo-cluster", run |-> 1, issue |-> 1, stage |-> "implement",
                 severity |-> "low", impact |-> "none"]
    [] i = 2 -> [cluster |-> "repo-cluster", run |-> 2, issue |-> 1, stage |-> "test",
                 severity |-> "medium", impact |-> "rollback"]
    [] i = 3 -> [cluster |-> "repo-cluster", run |-> 3, issue |-> 2, stage |-> "implement",
                 severity |-> "unranked", impact |-> "block"]
    [] i = 4 -> [cluster |-> "global-cluster", run |-> 1, issue |-> 1, stage |-> "test",
                 severity |-> "critical", impact |-> "none"]
    [] i = 5 -> [cluster |-> "repo-cluster", run |-> 1, issue |-> 2, stage |-> "test",
                 severity |-> "critical", impact |-> "none"]]

----------------------------------------------------------------------------
(* Claims that meet contention on one stage, three times between them; an   *)
(* attempt that is recovered beside others that fail; a slow and costly     *)
(* success after two or three successes of the week.                        *)

Event(kind, attempt, stage, status, duration, cost, age) ==
  [kind |-> kind, attempt |-> attempt, stage |-> stage, repo |-> "repo",
   environment |-> "", status |-> status, duration |-> duration, cost |-> cost,
   age |-> age]

Contention(attempt) == Event("lock_contention", attempt, "test", "", 0, 0, "hour")

Completed(attempt, status, duration, cost, age) ==
  Event("stage_completed", attempt, "implement", status, duration, cost, age)

Failed(attempt) == <<Completed(attempt, "failed", 100, 1000, "hour")>>
Blocked(attempt) == <<Completed(attempt, "blocked", 100, 1000, "hour")>>
Slow(attempt) == <<Completed(attempt, "succeeded", 9000, 40000, "hour")>>
Recovered(attempt) ==
  <<Event("stale_attempt_recovered", attempt, "implement", "", 0, 0, "hour")>>

\* Successes of the week, and one that is out of the window.
Before(n) ==
  <<Completed("a0", "succeeded", 90000, 900000, "old")>>
    \o [i \in 1 .. n |-> Completed("b", "succeeded", 1000, 10000, "week")]

Load(history, first, second, third) ==
  [history |-> history, emits |-> <<first, second, third>>]

MCWorkloads ==
  {Load(<< >>, <<Contention("a1"), Contention("a2")>>, <<Contention("a1")>>, Failed("a3")),
   Load(<< >>, Failed("a1"), Failed("a2"), Recovered("a3") \o Recovered("a1")),
   Load(<< >>, Blocked("a1"), Blocked("a2"), << >>),
   Load(Before(2), Slow("a1"), Slow("a2"), Failed("a3")),
   Load(Before(3), Slow("a1"), Slow("a2"), Failed("a3"))}

----------------------------------------------------------------------------
SignalsIdle ==
  /\ pipeline_events = << >> /\ operational_signals = << >> /\ comments = << >>
  /\ call = [c \in Calls |-> Begin(<< >>)]

MCInit ==
  \/ /\ part = "ratchet" /\ InitTables /\ SignalsIdle
     /\ \E i \in Lost : ingest = [j \in Ingests |-> At(IF j = i THEN "dead" ELSE "new")]
  \/ part = "signals" /\ Init /\ SignalsInit

MCNext ==
  \/ part = "ratchet" /\ Next /\ UNCHANGED <<part, signalVars>>
  \/ part = "signals" /\ SignalsNext /\ UNCHANGED <<part, vars>>

MCSpec == MCInit /\ [][MCNext]_<<part, vars, signalVars>>
=============================================================================
