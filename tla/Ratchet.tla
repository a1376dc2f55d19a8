------------------------------ MODULE Ratchet ------------------------------
(***************************************************************************)
(* The ratchet (internal/ratchet): findings are recorded in clusters, a    *)
(* cluster that recurs is proposed as an invariant, and a proposal that is *)
(* activated is handed to every later stage.  Each ratchet-ingest and each *)
(* ratchet-activate is a process of its own; they meet only in Postgres.   *)
(* A transaction reads what is committed when each statement runs (READ    *)
(* COMMITTED) and its writes appear when it commits; the upsert of a       *)
(* cluster locks that cluster's row until then.                            *)
(***************************************************************************)
EXTENDS Integers, Sequences, FiniteSets, FiniteSetsExt

CONSTANTS Ingests,       \* the ratchet-ingest processes
          Finding,       \* Finding[i]: the event ingest i was given
          Activations,   \* the ratchet-activate processes
          Clusters,      \* (scope_type, scope_key, category, fingerprint)
          Scope,         \* Scope[c]: the scope type and key of cluster c
          Stages, Runs, Issues,
          Modes,         \* the enforcement modes that are asked for
          AdvisoryLimit, \* advisories handed to a stage: 5 in the code
          MaxFaults,     \* bound on the processes that die or fail
          None

Severities == {"critical", "high", "medium", "low", "unranked"}

ASSUME FindingAssumption ==
  Finding \in [Ingests -> [cluster : Clusters, run : Runs, issue : Issues, stage : Stages,
                           severity : Severities, impact : {"rollback", "block", "none"}]]
ASSUME ScopeAssumption ==
  Scope \in [Clusters -> [type : {"global", "repo", "environment", "service"}, key : STRING]]
ASSUME ModesAssumption == Modes \subseteq {"block", "warn", "inform"}
ASSUME LimitAssumption == AdvisoryLimit \in Nat /\ MaxFaults \in Nat
ASSUME NoneAssumption ==
  None \notin [id : Nat, severity : Severities, mode : Modes, source : Nat]

VARIABLES
  finding_events,       \* the ingests whose event is committed
  finding_clusters,     \* the row of each cluster, occurrences 0 for none
  cluster_stage_stats,  \* per cluster and stage
  invariant_proposals,  \* a sequence: the ids are its indices
  active_invariants,    \* at most one per cluster: the key is unique
  invariant_stage_stats,
  ingest,               \* each ratchet-ingest process
  activation,           \* each ratchet-activate process
  raced                 \* history: clusters with an ingest and an activation at once

vars == <<finding_events, finding_clusters, cluster_stage_stats, invariant_proposals,
          active_invariants, invariant_stage_stats, ingest, activation, raced>>

NoStats == [seen |-> 0, rollback |-> 0, block |-> 0]

NoCluster == [occurrences |-> 0, runs |-> 0, issues |-> 0, severity |-> "unranked"]

At(pc) == [pc |-> pc, row |-> NoCluster, active |-> FALSE, seen |-> 0]
Idle(pc) == [pc |-> pc, proposal |-> 0, id |-> 0, mode |-> "warn", severity |-> "unranked",
             stats |-> [s \in Stages |-> NoStats]]

InitTables ==
  /\ finding_events = {}
  /\ finding_clusters = [c \in Clusters |-> NoCluster]
  /\ cluster_stage_stats = [c \in Clusters |-> [s \in Stages |-> NoStats]]
  /\ invariant_proposals = <<>>
  /\ active_invariants = [c \in Clusters |-> None]
  /\ invariant_stage_stats = [c \in Clusters |-> [s \in Stages |-> NoStats]]
  /\ activation = [a \in Activations |-> Idle("new")]
  /\ raced = {}

Init == InitTables /\ ingest = [i \in Ingests |-> At("new")]

-----------------------------------------------------------------------------
(* Clusters and their thresholds.                                          *)

Rank(severity) ==
  CASE severity = "critical" -> 4 [] severity = "high" -> 3 [] severity = "medium" -> 2
    [] severity = "low" -> 1 [] OTHER -> 0

\* A severity nobody ranks never replaces the recorded one.
highestSeverity(new, existing) == IF Rank(new) > Rank(existing) THEN new ELSE existing

shouldPropose(c, cluster) ==
  \/ cluster.severity = "critical"
  \/ cluster.occurrences >= 3 /\ cluster.runs >= 3
  \/ cluster.occurrences >= 2 /\ Scope[c].type = "global"

EventsOf(c, events) == {i \in events : Finding[i].cluster = c}
Distinct(field, events) == Cardinality({Finding[i][field] : i \in events})

\* The cluster row that ingest i writes: upserted, then its counts refreshed
\* from the events it can see, its own among them.
UpsertCluster(i) ==
  LET c == Finding[i].cluster
      visible == EventsOf(c, finding_events \cup {i}) IN
  [occurrences |-> finding_clusters[c].occurrences + 1,
   runs |-> Distinct("run", visible), issues |-> Distinct("issue", visible),
   severity |-> highestSeverity(Finding[i].severity, finding_clusters[c].severity)]

boolInt(b) == IF b THEN 1 ELSE 0

AddToStats(stats, i) ==
  [stats EXCEPT ![Finding[i].stage] =
     [seen |-> @.seen + 1,
      rollback |-> @.rollback + boolInt(Finding[i].impact = "rollback"),
      block |-> @.block + boolInt(Finding[i].impact = "block")]]

InTransaction(i) == ingest[i].pc \in {"upserted", "checked"}

\* mutant: the row is read and written back without a lock
RowNeverLocked(c) == TRUE

RowFree(c) == \A i \in Ingests : Finding[i].cluster = c => ~ InTransaction(i)

-----------------------------------------------------------------------------
(* IngestFinding.                                                          *)

ActivationOf(a, c) ==
  /\ activation[a].pc \in {"loaded", "upserted", "seeded"}
  /\ invariant_proposals[activation[a].proposal].cluster = c

\* A transaction of both kinds on one cluster is under way.
NoteRace(c, ingesting, activating) ==
  raced' = IF ingesting /\ activating THEN raced \cup {c} ELSE raced

(* RecordFinding inserts the event, upserts the cluster (here it waits for *)
(* the row), refreshes its counts and its stage statistics.                *)
RecordFinding(i) ==
  LET c == Finding[i].cluster IN
  /\ ingest[i].pc = "new"
  /\ RowFree(c)
  /\ ingest' = [ingest EXCEPT ![i].pc = "upserted", ![i].row = UpsertCluster(i)]
  /\ NoteRace(c, TRUE, \E a \in Activations : ActivationOf(a, c))
  /\ UNCHANGED <<finding_events, finding_clusters, cluster_stage_stats, invariant_proposals,
                 active_invariants, invariant_stage_stats, activation>>

readActiveInvariant(i) ==
  /\ ingest[i].pc = "upserted"
  /\ ingest' = [ingest EXCEPT ![i].pc = "checked",
                              ![i].active = active_invariants[Finding[i].cluster] # None]
  /\ UNCHANGED <<finding_events, finding_clusters, cluster_stage_stats, invariant_proposals,
                 active_invariants, invariant_stage_stats, activation, raced>>

CommitFinding(i) ==
  LET c == Finding[i].cluster IN
  /\ ingest[i].pc = "checked"
  /\ finding_events' = finding_events \cup {i}
  /\ finding_clusters' = [finding_clusters EXCEPT ![c] = ingest[i].row]
  /\ cluster_stage_stats' = [cluster_stage_stats EXCEPT ![c] = AddToStats(@, i)]
  /\ invariant_stage_stats' =
       IF ingest[i].active
         THEN [invariant_stage_stats EXCEPT ![c] = AddToStats(@, i)]
         ELSE invariant_stage_stats
  /\ ingest' = [ingest EXCEPT ![i].pc = "committed", ![i].row = NoCluster]
  /\ UNCHANGED <<invariant_proposals, active_invariants, activation, raced>>

\* mutant: the thresholds are applied to the row as it was before its counts
\* were refreshed
StaleCluster(i) ==
  [finding_clusters[Finding[i].cluster] EXCEPT !.runs = @ - 1]

\* The cluster is read again after the commit, outside the transaction.
readCluster(i) == finding_clusters[Finding[i].cluster]

Decide(i) ==
  /\ ingest[i].pc = "committed"
  /\ ingest' = [ingest EXCEPT ![i] = At(
       IF ~ ingest[i].active /\ shouldPropose(Finding[i].cluster, readCluster(i))
         THEN "propose" ELSE "done")]
  /\ UNCHANGED <<finding_events, finding_clusters, cluster_stage_stats, invariant_proposals,
                 active_invariants, invariant_stage_stats, activation, raced>>

OpenProposals(c) ==
  {p \in DOMAIN invariant_proposals :
     invariant_proposals[p].cluster = c /\ invariant_proposals[p].status = "proposed"}

\* mutant: one proposal too many is not noticed
HasOpenProposals(c) == Cardinality(OpenProposals(c)) > 1

HasOpenProposal(c) == OpenProposals(c) # {}

CheckProposal(i) ==
  /\ ingest[i].pc = "propose"
  /\ IF HasOpenProposal(Finding[i].cluster)
       THEN ingest' = [ingest EXCEPT ![i] = At("done")]
       ELSE ingest' = [ingest EXCEPT ![i].pc = "create", ![i].seen = Len(invariant_proposals)]
  /\ UNCHANGED <<finding_events, finding_clusters, cluster_stage_stats, invariant_proposals,
                 active_invariants, invariant_stage_stats, activation, raced>>

\* "seen" is a history of how many proposals there were when it was checked.
CreateProposal(i) ==
  /\ ingest[i].pc = "create"
  /\ invariant_proposals' = Append(invariant_proposals,
       [cluster |-> Finding[i].cluster, status |-> "proposed", seen |-> ingest[i].seen])
  /\ ingest' = [ingest EXCEPT ![i] = At("done")]
  /\ UNCHANGED <<finding_events, finding_clusters, cluster_stage_stats, active_invariants,
                 invariant_stage_stats, activation, raced>>

Fault ==
  Cardinality({i \in Ingests : ingest[i].pc = "dead"})
    + Cardinality({a \in Activations : activation[a].pc = "dead"}) < MaxFaults

\* The process dies or a statement fails: an open transaction is rolled back,
\* what is committed stays, and nobody ingests the finding again.
AbortIngest(i) ==
  /\ ingest[i].pc \in {"upserted", "checked", "committed", "propose", "create"}
  /\ Fault
  /\ ingest' = [ingest EXCEPT ![i] = At("dead")]
  /\ UNCHANGED <<finding_events, finding_clusters, cluster_stage_stats, invariant_proposals,
                 active_invariants, invariant_stage_stats, activation, raced>>

-----------------------------------------------------------------------------
(* ActivateProposal: one transaction.  Any proposal may be named, also one *)
(* that is approved already.                                               *)

LoadProposal(a, p, mode) ==
  LET c == invariant_proposals[p].cluster IN
  /\ activation[a].pc = "new"
  /\ activation' = [activation EXCEPT ![a].pc = "loaded", ![a].proposal = p, ![a].mode = mode,
                                      ![a].severity = finding_clusters[c].severity]
  /\ NoteRace(c, ~ RowFree(c), TRUE)
  /\ UNCHANGED <<finding_events, finding_clusters, cluster_stage_stats, invariant_proposals,
                 active_invariants, invariant_stage_stats, ingest>>

Ids == {active_invariants[c].id : c \in {d \in Clusters : active_invariants[d] # None}}
         \cup {activation[a].id : a \in Activations}

\* Inserts the invariant, or finds it, and locks its row: another activation of
\* the cluster waits here.
UpsertInvariant(a) ==
  LET c == invariant_proposals[activation[a].proposal].cluster IN
  /\ activation[a].pc = "loaded"
  /\ \A b \in Activations : ActivationOf(b, c) => activation[b].pc = "loaded"
  /\ activation' = [activation EXCEPT ![a].pc = "upserted",
       ![a].id = IF active_invariants[c] # None THEN active_invariants[c].id ELSE Max(Ids) + 1]
  /\ UNCHANGED <<finding_events, finding_clusters, cluster_stage_stats, invariant_proposals,
                 active_invariants, invariant_stage_stats, ingest, raced>>

\* What the seeding statement selects; it overwrites the rows it finds.
ReadClusterStats(a) ==
  LET c == invariant_proposals[activation[a].proposal].cluster IN
  /\ activation[a].pc = "upserted"
  /\ activation' = [activation EXCEPT ![a].pc = "seeded", ![a].stats = cluster_stage_stats[c]]
  /\ UNCHANGED <<finding_events, finding_clusters, cluster_stage_stats, invariant_proposals,
                 active_invariants, invariant_stage_stats, ingest, raced>>

\* mutant: the seed is added to what the invariant has
SeedAdded(old, seed) ==
  IF seed.seen = 0 THEN old
  ELSE [f \in DOMAIN seed |-> old[f] + seed[f]]

\* A stage without a row in the cluster's statistics is not touched.
Seed(old, seed) == IF seed.seen = 0 THEN old ELSE seed

\* mutant: the proposal is given the status of what it becomes
MarkActive(p) == [invariant_proposals EXCEPT ![p].status = "active"]

\* mutant: the proposal stays open
StillProposed(p) == invariant_proposals

MarkApproved(p) == [invariant_proposals EXCEPT ![p].status = "approved"]

CommitActivation(a) ==
  LET p == activation[a].proposal
      c == invariant_proposals[p].cluster IN
  /\ activation[a].pc = "seeded"
  /\ active_invariants' = [active_invariants EXCEPT ![c] =
       [id |-> activation[a].id, severity |-> activation[a].severity,
        mode |-> activation[a].mode, source |-> p]]
  /\ invariant_stage_stats' = [invariant_stage_stats EXCEPT
       ![c] = [s \in Stages |-> Seed(@[s], activation[a].stats[s])]]
  /\ invariant_proposals' = MarkApproved(p)
  /\ activation' = [activation EXCEPT ![a] = Idle("done")]
  /\ UNCHANGED <<finding_events, finding_clusters, cluster_stage_stats, ingest, raced>>

AbortActivation(a) ==
  /\ activation[a].pc \in {"loaded", "upserted", "seeded"}
  /\ Fault
  /\ activation' = [activation EXCEPT ![a] = Idle("dead")]
  /\ UNCHANGED <<finding_events, finding_clusters, cluster_stage_stats, invariant_proposals,
                 active_invariants, invariant_stage_stats, ingest, raced>>

-----------------------------------------------------------------------------
(* RankedInvariants, as a stage's executor asks for them: twice the score  *)
(* of the code, with every statistic of this day (the recency term is 10). *)

severityScore(severity) ==
  CASE severity = "critical" -> 60 [] severity = "high" -> 40 [] severity = "medium" -> 20
    [] severity = "low" -> 10 [] OTHER -> 2

enforcementScore(mode) ==
  CASE mode = "block" -> 50 [] mode = "warn" -> 20 [] mode = "inform" -> 6

Score(c, stage) ==
  LET inv == active_invariants[c]
      stat == invariant_stage_stats[c][stage] IN
  severityScore(inv.severity) + enforcementScore(inv.mode)
    + IF stat.seen = 0 THEN 0
      ELSE 3 * stat.seen + 12 * stat.rollback + 8 * stat.block + 20

scopeMatches(c, req) ==
  \/ Scope[c].type = "global"
  \/ Scope[c].type # "global" /\ Scope[c].key = req[Scope[c].type]

Ahead(c, d, stage) ==
  \/ Score(c, stage) > Score(d, stage)
  \/ Score(c, stage) = Score(d, stage) /\ active_invariants[c].id < active_invariants[d].id

FirstOf(candidates, stage, limit) ==
  {c \in candidates : Cardinality({d \in candidates : Ahead(d, c, stage)}) < limit}

Candidates(req) == {c \in Clusters : active_invariants[c] # None /\ scopeMatches(c, req)}

\* mutant: the retrieval is limited as the command ratchet-top limits it
RankForStageLimited(stage, req) == FirstOf(Candidates(req), stage, AdvisoryLimit)

RankForStage(stage, req) == Candidates(req)

loadInvariantContext(stage, req) ==
  LET ranked == RankForStage(stage, req)
      blocking == {c \in ranked : active_invariants[c].mode = "block"} IN
  [blocking |-> blocking, top_relevant |-> FirstOf(ranked \ blocking, stage, AdvisoryLimit)]

-----------------------------------------------------------------------------

Settled ==
  /\ \A i \in Ingests : ingest[i].pc \in {"done", "dead"}
  /\ \A a \in Activations : activation[a].pc \in {"done", "dead"} \/ invariant_proposals = <<>>

Next ==
  \/ \E i \in Ingests :
       \/ RecordFinding(i) \/ readActiveInvariant(i) \/ CommitFinding(i) \/ Decide(i)
       \/ CheckProposal(i) \/ CreateProposal(i) \/ AbortIngest(i)
  \/ \E a \in Activations :
       \/ \E p \in DOMAIN invariant_proposals, mode \in Modes : LoadProposal(a, p, mode)
       \/ UpsertInvariant(a) \/ ReadClusterStats(a) \/ CommitActivation(a) \/ AbortActivation(a)
  \/ Settled /\ UNCHANGED vars

Spec == Init /\ [][Next]_vars

-----------------------------------------------------------------------------

Stats == [seen : Nat, rollback : Nat, block : Nat]
Row == [occurrences : Nat, runs : Nat, issues : Nat, severity : Severities]

\* The tables hold rows of their types, and every process is at one of its steps.
TypeOK ==
  /\ finding_events \subseteq Ingests
  /\ finding_clusters \in [Clusters -> Row]
  /\ cluster_stage_stats \in [Clusters -> [Stages -> Stats]]
  /\ invariant_stage_stats \in [Clusters -> [Stages -> Stats]]
  /\ invariant_proposals \in
       Seq([cluster : Clusters, status : {"proposed", "approved"}, seen : Nat])
  /\ active_invariants \in
       [Clusters -> {None} \cup [id : Nat, severity : Severities, mode : Modes, source : Nat]]
  /\ ingest \in [Ingests ->
       [pc : {"new", "upserted", "checked", "committed", "propose", "create", "done", "dead"},
        row : Row, active : BOOLEAN, seen : Nat]]
  /\ activation \in [Activations ->
       [pc : {"new", "loaded", "upserted", "seeded", "done", "dead"}, proposal : Nat, id : Nat,
        mode : Modes \cup {"warn"}, severity : Severities, stats : [Stages -> Stats]]]
  /\ raced \subseteq Clusters

\* However the transactions of RecordFinding interleave or abort, a cluster's
\* row says what the committed events say: how many there are, of how many runs
\* and issues, and the highest of their severities; and so do its statistics.
ClusterCountsEvents ==
  \A c \in Clusters :
    LET events == EventsOf(c, finding_events)
        cluster == finding_clusters[c] IN
    /\ cluster.occurrences = Cardinality(events)
    /\ cluster.runs = Distinct("run", events)
    /\ cluster.issues = Distinct("issue", events)
    /\ Rank(cluster.severity) = Max({0} \cup {Rank(Finding[i].severity) : i \in events})
    /\ \A s \in Stages :
         cluster_stage_stats[c][s].seen = Cardinality({i \in events : Finding[i].stage = s})

\* The findings that recur by the thresholds of shouldPropose.
Recurring(c, events) ==
  \/ \E i \in events : Finding[i].severity = "critical"
  \/ Cardinality(events) >= 3 /\ Distinct("run", events) >= 3
  \/ Cardinality(events) >= 2 /\ Scope[c].type = "global"

Answered(c) == {i \in EventsOf(c, finding_events) : ingest[i].pc = "done"}

\* A cluster is proposed or an invariant as soon as the findings whose ingest
\* has returned recur by themselves, whatever other ingests are under way or
\* have died after their commit: whichever ingest crosses the threshold sees
\* that it does, and one that dies takes its own finding with it and no other.
RecurringIsProposed ==
  \A c \in Clusters :
    Recurring(c, Answered(c)) => active_invariants[c] # None \/ OpenProposals(c) # {}

\* IngestFinding looks for an open proposal and creates one in two statements:
\* a second open proposal of a cluster is only ever created by an ingest that
\* looked before the first was there.
DuplicatesOnlyByRace ==
  \A p, q \in DOMAIN invariant_proposals :
    (/\ p < q /\ invariant_proposals[p].cluster = invariant_proposals[q].cluster
     /\ invariant_proposals[p].status = "proposed")
      => p > invariant_proposals[q].seen

\* An active invariant comes from a proposal of its cluster that is approved,
\* its cluster is over a threshold, and it is never more severe than the
\* findings it stands for.
InvariantIsBacked ==
  \A c \in Clusters :
    LET inv == active_invariants[c] IN
    inv # None =>
      /\ invariant_proposals[inv.source].cluster = c
      /\ invariant_proposals[inv.source].status = "approved"
      /\ shouldPropose(c, finding_clusters[c])
      /\ Rank(inv.severity) <= Rank(finding_clusters[c].severity)

\* The statistics of an invariant are those of its cluster, unless a finding was
\* recorded while a proposal of the cluster was being activated; even then, and
\* whatever is activated again, they count no finding twice.
InvariantStatsFollow ==
  \A c \in Clusters : active_invariants[c] # None =>
    /\ c \notin raced => invariant_stage_stats[c] = cluster_stage_stats[c]
    /\ \A s \in Stages : invariant_stage_stats[c][s].seen <= cluster_stage_stats[c][s].seen

Requests ==
  [repo : {Scope[c].key : c \in Clusters}, environment : {""}, service : {""}]

\* Whatever was activated, a stage is given every blocking invariant of its
\* scope ("blocking_always_included"), and no advisory that was left out for the
\* limit has a higher score than one that was given.
BlockingAlwaysIncluded ==
  \A stage \in Stages, req \in Requests :
    LET context == loadInvariantContext(stage, req) IN
    /\ \A c \in Clusters :
         (active_invariants[c] # None /\ active_invariants[c].mode = "block"
            /\ scopeMatches(c, req))
           => c \in context.blocking
    /\ Cardinality(context.top_relevant) <= AdvisoryLimit
    /\ \A c \in context.top_relevant, d \in Candidates(req) \ (context.top_relevant \cup context.blocking) :
         Score(c, stage) >= Score(d, stage)
=============================================================================
