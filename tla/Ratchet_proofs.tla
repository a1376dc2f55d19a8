--------------------------- MODULE Ratchet_proofs ---------------------------
(***************************************************************************)
(* Proofs about the ratchet: its tables agree with the findings, a cluster *)
(* that recurs is not forgotten, and what a stage is given of the active   *)
(* invariants is what it should be, for any number of processes, clusters, *)
(* stages and faults.                                                      *)
(***************************************************************************)
EXTENDS Ratchet, FiniteSetTheorems, SequenceTheorems, WellFoundedInduction, TLAPS

-----------------------------------------------------------------------------
(* Facts about the operators.                                              *)

\* A bounded set of naturals has a greatest element, which Max is.
LEMMA MaxBounded ==
  ASSUME NEW n \in Nat, NEW S \in SUBSET (0 .. n), S # {}
  PROVE  Max(S) \in S /\ \A x \in S : x <= Max(S)
<1> DEFINE R == {p \in Nat \X Nat : p[1] < p[2]}
           T == {n - x : x \in S}
<1>1. IsWellFoundedOn(R, Nat)
  BY NatLessThanWellFounded, Zenon DEF OpToRel
<1>2. T \subseteq Nat
  OBVIOUS
<1>3. T # {}
  OBVIOUS
<1>4. \E y \in T : \A z \in T : ~ (<<z, y>> \in R)
  <2> HIDE DEF R, T
  <2> QED
    BY <1>1, <1>2, <1>3, WFMin
<1>5. PICK m \in S : \A x \in S : ~ (n - x < n - m)
  BY <1>2, <1>4
<1>6. \A x \in S : m >= x
  BY <1>5
<1> QED
  BY <1>6 DEF Max

\* An element that no other exceeds is the maximum.
LEMMA MaxIs ==
  ASSUME NEW S \in SUBSET Nat, NEW m \in S, \A x \in S : x <= m
  PROVE  Max(S) = m
<1>1. \E y \in S : \A x \in S : y >= x
  BY \A x \in S : m >= x
<1>2. Max(S) \in S /\ \A x \in S : Max(S) >= x
  BY <1>1 DEF Max
<1>3. Max(S) <= m /\ Max(S) >= m
  BY <1>2
<1>4. Max(S) \in Nat /\ m \in Nat
  BY <1>2
<1> QED
  BY <1>3, <1>4

\* The severities have ranks 0 to 4, and the higher of two is kept.
LEMMA Ranks ==
  ASSUME NEW new \in Severities, NEW old \in Severities
  PROVE  /\ Rank(new) \in 0 .. 4
         /\ highestSeverity(new, old) \in Severities
         /\ Rank(highestSeverity(new, old)) \in {Rank(new), Rank(old)}
         /\ Rank(highestSeverity(new, old)) >= Rank(new)
         /\ Rank(highestSeverity(new, old)) >= Rank(old)
         /\ old = "critical" => highestSeverity(new, old) = "critical"
BY DEF Severities, Rank, highestSeverity

\* Distinct counts a finite set, and no fewer values among more events.
LEMMA DistinctCounts ==
  ASSUME NEW field, NEW E, IsFiniteSet(E), NEW T \in SUBSET E
  PROVE  /\ Distinct(field, E) \in Nat
         /\ Distinct(field, T) \in Nat
         /\ Distinct(field, T) <= Distinct(field, E)
<1> DEFINE V == {Finding[i][field] : i \in E}
           W == {Finding[i][field] : i \in T}
           f == [i \in E |-> Finding[i][field]]
<1>1. f \in Surjection(E, V)
  BY DEF Surjection
<1>2. IsFiniteSet(V)
  <2> HIDE DEF f, V
  <2> QED
    BY <1>1, FS_Surjection
<1>3. W \in SUBSET V
  OBVIOUS
<1>4. /\ IsFiniteSet(W)
      /\ Cardinality(W) <= Cardinality(V)
  <2> HIDE DEF W, V
  <2> QED
    BY <1>2, <1>3, FS_Subset
<1>5. Cardinality(V) \in Nat /\ Cardinality(W) \in Nat
  <2> HIDE DEF W, V
  <2> QED
    BY <1>2, <1>4, FS_CardinalityType
<1> QED
  BY <1>4, <1>5 DEF Distinct

\* A threshold that was reached stays reached when the counts grow.
LEMMA ProposeMonotone ==
  ASSUME NEW c, NEW old \in Row, NEW new \in Row, shouldPropose(c, old),
         new.occurrences >= old.occurrences, new.runs >= old.runs,
         old.severity = "critical" => new.severity = "critical"
  PROVE  shouldPropose(c, new)
BY DEF shouldPropose, Row

-----------------------------------------------------------------------------
(* Types.  TypeOK is not inductive: that the thing an activation commits   *)
(* is well-typed needs what it has loaded, and new ids exist because only  *)
(* finitely many are in use.                                               *)

IngestType ==
  [pc : {"new", "upserted", "checked", "committed", "propose", "create", "done", "dead"},
   row : Row, active : BOOLEAN, seen : Nat]
ActivationType ==
  [pc : {"new", "loaded", "upserted", "seeded", "done", "dead"}, proposal : Nat, id : Nat,
   mode : Modes \cup {"warn"}, severity : Severities, stats : [Stages -> Stats]]
Proposal == [cluster : Clusters, status : {"proposed", "approved"}, seen : Nat]
Invariant == [id : Nat, severity : Severities, mode : Modes, source : Nat]

Busy(a) == activation[a].pc \in {"loaded", "upserted", "seeded"}

\* An activation under way has loaded a proposal that exists.
Working == \A a \in Activations :
  Busy(a) => activation[a].proposal \in DOMAIN invariant_proposals /\ activation[a].mode \in Modes

IdsUpTo(n) ==
  /\ \A a \in Activations : activation[a].id <= n
  /\ \A c \in Clusters : active_invariants[c] # None => active_invariants[c].id <= n
IdsBounded == \E n \in Nat : IdsUpTo(n)

TypeInv == TypeOK /\ Working /\ IdsBounded /\ IsFiniteSet(finding_events)

LEMMA TypeInit == Init => TypeInv
<1> SUFFICES ASSUME Init PROVE TypeInv
  OBVIOUS
<1>1. NoCluster \in Row /\ NoStats \in Stats
  BY DEF NoCluster, NoStats, Row, Stats, Severities
<1>2. At("new") \in IngestType
  BY <1>1 DEF At, IngestType
<1>3. Idle("new") \in ActivationType
  BY <1>1 DEF Idle, ActivationType, Severities
<1>4. TypeOK
  BY <1>1, <1>2, <1>3 DEF Init, InitTables, TypeOK, IngestType, ActivationType
<1>5. Working
  BY DEF Init, InitTables, Working, Busy, Idle
<1>6. IdsUpTo(0)
  BY DEF Init, InitTables, IdsUpTo, Idle
<1>7. IsFiniteSet(finding_events)
  BY FS_EmptySet DEF Init, InitTables
<1> QED
  BY <1>4, <1>5, <1>6, <1>7 DEF TypeInv, IdsBounded

\* The row an ingest writes is well-typed.
LEMMA UpsertType ==
  ASSUME TypeInv, NEW i \in Ingests
  PROVE  UpsertCluster(i) \in Row
<1> DEFINE c == Finding[i].cluster
           visible == EventsOf(c, finding_events \cup {i})
<1>1. /\ c \in Clusters
      /\ Finding[i].severity \in Severities
  BY FindingAssumption
<1>2. finding_clusters[c] \in Row
  BY <1>1 DEF TypeInv, TypeOK
<1>3. finding_clusters[c].occurrences \in Nat /\ finding_clusters[c].severity \in Severities
  BY <1>2 DEF Row
<1>4. IsFiniteSet(finding_events \cup {i})
  BY FS_AddElement DEF TypeInv
<1>5. visible \in SUBSET (finding_events \cup {i})
  BY DEF EventsOf
<1>6. Distinct("run", visible) \in Nat /\ Distinct("issue", visible) \in Nat
  BY <1>4, <1>5, DistinctCounts
<1>7. highestSeverity(Finding[i].severity, finding_clusters[c].severity) \in Severities
  BY <1>1, <1>3, Ranks
<1> QED
  BY <1>3, <1>6, <1>7 DEF UpsertCluster, Row

LEMMA AddToStatsType ==
  ASSUME NEW stats \in [Stages -> Stats], NEW i \in Ingests
  PROVE  AddToStats(stats, i) \in [Stages -> Stats]
BY FindingAssumption DEF AddToStats, boolInt, Stats

\* The steps of ratchet-ingest and of ratchet-activate.
IngestStep(i) ==
  \/ RecordFinding(i) \/ readActiveInvariant(i) \/ CommitFinding(i) \/ Decide(i)
  \/ CheckProposal(i) \/ CreateProposal(i) \/ AbortIngest(i)
ActivationStep(a) ==
  \/ \E p \in DOMAIN invariant_proposals, mode \in Modes : LoadProposal(a, p, mode)
  \/ UpsertInvariant(a) \/ ReadClusterStats(a) \/ CommitActivation(a) \/ AbortActivation(a)

LEMMA NextSteps ==
  ASSUME [Next]_vars
  PROVE  \/ \E i \in Ingests : IngestStep(i)
         \/ \E a \in Activations : ActivationStep(a)
         \/ UNCHANGED vars
BY DEF Next, IngestStep, ActivationStep

\* An ingest leaves the activations, the invariants and the proposals that are
\* there alone; it may add one proposal.
LEMMA IngestFrame ==
  ASSUME NEW i \in Ingests, IngestStep(i)
  PROVE  /\ UNCHANGED <<active_invariants, activation>>
         /\ \/ UNCHANGED invariant_proposals
            \/ CreateProposal(i)
BY DEF IngestStep, RecordFinding, readActiveInvariant, CommitFinding, Decide, CheckProposal,
       CreateProposal, AbortIngest

\* An activation leaves the findings, the clusters and the ingests alone.
LEMMA ActivationFrame ==
  ASSUME NEW a \in Activations, ActivationStep(a)
  PROVE  UNCHANGED <<finding_events, finding_clusters, cluster_stage_stats, ingest>>
BY DEF ActivationStep, LoadProposal, UpsertInvariant, ReadClusterStats, CommitActivation,
       AbortActivation

LEMMA TypeIngest ==
  ASSUME TypeInv, NEW i \in Ingests, IngestStep(i)
  PROVE  TypeInv'
<1> DEFINE c == Finding[i].cluster
<1>1. c \in Clusters
  BY FindingAssumption
<1>2. ingest[i] \in IngestType /\ \A j \in Ingests : ingest[j] \in IngestType
  BY DEF TypeInv, TypeOK, IngestType
<1>3. NoCluster \in Row
  BY DEF NoCluster, Row, Severities
<1>4. ingest' \in [Ingests -> IngestType]
  <2>1. CASE RecordFinding(i)
    BY <1>2, <2>1, UpsertType DEF RecordFinding, TypeInv, TypeOK, IngestType
  <2>2. CASE readActiveInvariant(i)
    BY <1>2, <2>2 DEF readActiveInvariant, TypeInv, TypeOK, IngestType
  <2>3. CASE CommitFinding(i)
    BY <1>2, <1>3, <2>3 DEF CommitFinding, TypeInv, TypeOK, IngestType
  <2>4. CASE Decide(i)
    BY <1>2, <1>3, <2>4 DEF Decide, At, TypeInv, TypeOK, IngestType
  <2>5. CASE CheckProposal(i)
    <3>1. Len(invariant_proposals) \in Nat
      BY LenProperties DEF TypeInv, TypeOK
    <3>2. CASE HasOpenProposal(c)
      <4>1. ingest' = [ingest EXCEPT ![i] = At("done")]
        BY <2>5, <3>2, Zenon DEF CheckProposal
      <4> QED
        BY <1>2, <1>3, <4>1 DEF At, TypeInv, TypeOK, IngestType
    <3>3. CASE ~ HasOpenProposal(c)
      <4>1. ingest' = [ingest EXCEPT ![i].pc = "create", ![i].seen = Len(invariant_proposals)]
        BY <2>5, <3>3, Zenon DEF CheckProposal
      <4> QED
        BY <1>2, <3>1, <4>1 DEF TypeInv, TypeOK, IngestType
    <3> QED
      BY <3>2, <3>3
  <2>6. CASE CreateProposal(i)
    BY <1>2, <1>3, <2>6 DEF CreateProposal, At, TypeInv, TypeOK, IngestType
  <2>7. CASE AbortIngest(i)
    BY <1>2, <1>3, <2>7 DEF AbortIngest, At, TypeInv, TypeOK, IngestType
  <2> QED
    BY <2>1, <2>2, <2>3, <2>4, <2>5, <2>6, <2>7 DEF IngestStep
<1>5. invariant_proposals' \in Seq(Proposal)
      /\ DOMAIN invariant_proposals \subseteq DOMAIN invariant_proposals'
  <2>1. invariant_proposals \in Seq(Proposal)
    BY DEF TypeInv, TypeOK, Proposal
  <2>2. CASE UNCHANGED invariant_proposals
    BY <2>1, <2>2
  <2>3. CASE CreateProposal(i)
    <3> DEFINE new == [cluster |-> c, status |-> "proposed", seen |-> ingest[i].seen]
    <3>1. new \in Proposal
      BY <1>1, <1>2 DEF IngestType, Proposal
    <3>2. invariant_proposals' = Append(invariant_proposals, new)
      BY <2>3 DEF CreateProposal
    <3> HIDE DEF new
    <3>3. /\ invariant_proposals' \in Seq(Proposal)
          /\ Len(invariant_proposals') = Len(invariant_proposals) + 1
      BY <2>1, <3>1, <3>2, AppendProperties
    <3>4. /\ DOMAIN invariant_proposals = 1 .. Len(invariant_proposals)
          /\ DOMAIN invariant_proposals' = 1 .. Len(invariant_proposals')
          /\ Len(invariant_proposals) \in Nat
      BY <2>1, <3>3, LenProperties
    <3> QED
      BY <3>3, <3>4
  <2> QED
    BY <2>2, <2>3, IngestFrame
<1>6. UNCHANGED <<active_invariants, activation>>
  BY IngestFrame
<1>7. /\ finding_events' \subseteq Ingests
      /\ IsFiniteSet(finding_events')
      /\ finding_clusters' \in [Clusters -> Row]
      /\ cluster_stage_stats' \in [Clusters -> [Stages -> Stats]]
      /\ invariant_stage_stats' \in [Clusters -> [Stages -> Stats]]
  <2>1. CASE UNCHANGED <<finding_events, finding_clusters, cluster_stage_stats,
                         invariant_stage_stats>>
    BY <2>1 DEF TypeInv, TypeOK
  <2>2. CASE CommitFinding(i)
    <3>1. finding_events' = finding_events \cup {i}
      BY <2>2 DEF CommitFinding
    <3>2. finding_events' \subseteq Ingests /\ IsFiniteSet(finding_events')
      BY <3>1, FS_AddElement DEF TypeInv, TypeOK
    <3>3. finding_clusters' \in [Clusters -> Row]
      BY <1>2, <2>2 DEF CommitFinding, TypeInv, TypeOK, IngestType
    <3>4. /\ cluster_stage_stats[c] \in [Stages -> Stats]
          /\ invariant_stage_stats[c] \in [Stages -> Stats]
      BY <1>1 DEF TypeInv, TypeOK
    <3>5. /\ AddToStats(cluster_stage_stats[c], i) \in [Stages -> Stats]
          /\ AddToStats(invariant_stage_stats[c], i) \in [Stages -> Stats]
      BY <3>4, AddToStatsType
    <3>6. cluster_stage_stats' \in [Clusters -> [Stages -> Stats]]
      BY <2>2, <3>5 DEF CommitFinding, TypeInv, TypeOK
    <3>7. invariant_stage_stats' \in [Clusters -> [Stages -> Stats]]
      BY <2>2, <3>5 DEF CommitFinding, TypeInv, TypeOK
    <3> QED
      BY <3>2, <3>3, <3>6, <3>7
  <2> QED
    BY <2>1, <2>2 DEF IngestStep, RecordFinding, readActiveInvariant, Decide, CheckProposal,
         CreateProposal, AbortIngest
<1>8. raced' \subseteq Clusters
  BY <1>1 DEF IngestStep, RecordFinding, readActiveInvariant, CommitFinding, Decide,
       CheckProposal, CreateProposal, AbortIngest, NoteRace, TypeInv, TypeOK
<1>9. TypeOK'
  BY <1>4, <1>5, <1>6, <1>7, <1>8 DEF TypeInv, TypeOK, IngestType, Proposal
<1>10. Working'
  BY <1>5, <1>6 DEF TypeInv, Working, Busy
<1>11. IdsBounded'
  BY <1>6 DEF TypeInv, IdsBounded, IdsUpTo
<1> QED
  BY <1>7, <1>9, <1>10, <1>11 DEF TypeInv

\* What is known of an activation under way, and of the cluster it is about.
LEMMA BusyFacts ==
  ASSUME TypeInv, NEW a \in Activations, Busy(a)
  PROVE  /\ activation[a] \in ActivationType
         /\ activation[a].proposal \in DOMAIN invariant_proposals
         /\ invariant_proposals[activation[a].proposal] \in Proposal
         /\ invariant_proposals[activation[a].proposal].cluster \in Clusters
         /\ activation[a].mode \in Modes
<1>1. activation[a] \in ActivationType
  BY DEF TypeInv, TypeOK, ActivationType
<1>2. activation[a].proposal \in DOMAIN invariant_proposals /\ activation[a].mode \in Modes
  BY DEF TypeInv, Working
<1>3. invariant_proposals \in Seq(Proposal)
  BY DEF TypeInv, TypeOK, Proposal
<1>4. invariant_proposals[activation[a].proposal] \in Proposal
  BY <1>2, <1>3, ElementOfSeq, LenProperties
<1> QED
  BY <1>1, <1>2, <1>4 DEF Proposal

\* An id is new when an invariant is inserted, and the ids stay bounded.
LEMMA NewId ==
  ASSUME TypeInv, NEW b \in Activations
  PROVE  /\ Max(Ids) \in Nat
         /\ \A x \in Ids : x <= Max(Ids)
         /\ IdsUpTo(Max(Ids))
<1>1. PICK n \in Nat : IdsUpTo(n)
  BY DEF TypeInv, IdsBounded
<1>2. \A c \in Clusters : active_invariants[c] # None => active_invariants[c] \in Invariant
  BY DEF TypeInv, TypeOK, Invariant
<1>3. \A c \in Clusters : active_invariants[c] # None => active_invariants[c].id \in 0 .. n
  BY <1>1, <1>2 DEF Invariant, IdsUpTo
<1>4. \A a \in Activations : activation[a].id \in 0 .. n
  <2>1. \A a \in Activations : activation[a] \in ActivationType
    BY DEF TypeInv, TypeOK, ActivationType
  <2> QED
    BY <1>1, <2>1 DEF ActivationType, IdsUpTo
<1>5. Ids \in SUBSET (0 .. n) /\ Ids # {}
  BY <1>3, <1>4 DEF Ids
<1>6. Max(Ids) \in Ids /\ \A x \in Ids : x <= Max(Ids)
  BY <1>5, MaxBounded
<1> QED
  BY <1>5, <1>6 DEF IdsUpTo, Ids

LEMMA TypeActivation ==
  ASSUME TypeInv, NEW a \in Activations, ActivationStep(a)
  PROVE  TypeInv'
<1> DEFINE p == activation[a].proposal
           c == invariant_proposals[p].cluster
<1>1. activation[a] \in ActivationType /\ activation \in [Activations -> ActivationType]
  BY DEF TypeInv, TypeOK, ActivationType
<1>2. invariant_proposals \in Seq(Proposal)
  BY DEF TypeInv, TypeOK, Proposal
<1>3. UNCHANGED <<finding_events, finding_clusters, cluster_stage_stats, ingest>>
  BY ActivationFrame
<1>4. PICK n \in Nat : IdsUpTo(n)
  BY DEF TypeInv, IdsBounded
<1>5. ASSUME NEW d \in DOMAIN invariant_proposals, NEW mode \in Modes, LoadProposal(a, d, mode)
      PROVE  TypeInv'
  <2>1. invariant_proposals[d] \in Proposal /\ d \in Nat
    BY <1>2, ElementOfSeq, LenProperties
  <2>2. invariant_proposals[d].cluster \in Clusters
    BY <2>1 DEF Proposal
  <2>3. finding_clusters[invariant_proposals[d].cluster] \in Row
    BY <2>2 DEF TypeInv, TypeOK
  <2>4. finding_clusters[invariant_proposals[d].cluster].severity \in Severities
    BY <2>3 DEF Row
  <2>5. activation' \in [Activations -> ActivationType]
    BY <1>1, <1>5, <2>1, <2>4 DEF LoadProposal, ActivationType
  <2>6. raced' \subseteq Clusters
    BY <1>5, <2>2 DEF LoadProposal, NoteRace, TypeInv, TypeOK
  <2>7. UNCHANGED <<invariant_proposals, active_invariants, invariant_stage_stats>>
    BY <1>5 DEF LoadProposal
  <2>8. TypeOK'
    BY <1>3, <2>5, <2>6, <2>7 DEF TypeInv, TypeOK, ActivationType
  <2>9. Working'
    BY <1>1, <1>5, <2>7 DEF LoadProposal, TypeInv, Working, Busy, ActivationType
  <2>10. IdsUpTo(n)'
    BY <1>1, <1>4, <1>5, <2>7 DEF LoadProposal, IdsUpTo, ActivationType
  <2> QED
    BY <1>3, <2>8, <2>9, <2>10 DEF TypeInv, IdsBounded
<1>6. CASE UpsertInvariant(a)
  <2> DEFINE id == IF active_invariants[c] # None THEN active_invariants[c].id ELSE Max(Ids) + 1
  <2>1. Busy(a)
    BY <1>6 DEF UpsertInvariant, Busy
  <2>2. c \in Clusters
    BY <2>1, BusyFacts
  <2>3. active_invariants[c] # None => active_invariants[c] \in Invariant
    BY <2>2 DEF TypeInv, TypeOK, Invariant
  <2>4. PICK m \in Nat : m = Max(Ids) /\ IdsUpTo(m)
    BY NewId
  <2>5. id \in Nat /\ id <= m + 1
    BY <2>2, <2>3, <2>4 DEF Invariant, IdsUpTo
  <2>6. activation' = [activation EXCEPT ![a].pc = "upserted", ![a].id = id]
    BY <1>6 DEF UpsertInvariant
  <2>7. UNCHANGED <<invariant_proposals, active_invariants, invariant_stage_stats, raced>>
    BY <1>6 DEF UpsertInvariant
  <2> HIDE DEF id
  <2>8. activation' \in [Activations -> ActivationType]
    BY <1>1, <2>5, <2>6 DEF ActivationType
  <2>9. TypeOK'
    BY <1>3, <2>7, <2>8 DEF TypeInv, TypeOK, ActivationType
  <2>10. Working'
    BY <1>1, <2>1, <2>6, <2>7 DEF TypeInv, Working, Busy, ActivationType
  <2>11. IdsUpTo(m + 1)'
    <3>1. \A b \in Activations : activation'[b].id <= m + 1
      BY <1>1, <2>4, <2>5, <2>6 DEF IdsUpTo, ActivationType
    <3>2. \A d \in Clusters : active_invariants[d] # None => active_invariants[d] \in Invariant
      BY DEF TypeInv, TypeOK, Invariant
    <3>3. \A d \in Clusters : active_invariants[d] # None => active_invariants[d].id <= m + 1
      BY <2>4, <3>2 DEF IdsUpTo, Invariant
    <3> QED
      BY <3>1, <3>3, <2>7 DEF IdsUpTo
  <2> QED
    BY <1>3, <2>4, <2>9, <2>10, <2>11 DEF TypeInv, IdsBounded
<1>7. CASE ReadClusterStats(a)
  <2>1. Busy(a)
    BY <1>7 DEF ReadClusterStats, Busy
  <2>2. c \in Clusters
    BY <2>1, BusyFacts
  <2>3. cluster_stage_stats[c] \in [Stages -> Stats]
    BY <2>2 DEF TypeInv, TypeOK
  <2>4. UNCHANGED <<invariant_proposals, active_invariants, invariant_stage_stats, raced>>
    BY <1>7 DEF ReadClusterStats
  <2>5. activation' \in [Activations -> ActivationType]
    BY <1>1, <1>7, <2>3 DEF ReadClusterStats, ActivationType
  <2>6. TypeOK'
    BY <1>3, <2>4, <2>5 DEF TypeInv, TypeOK, ActivationType
  <2>7. Working'
    BY <1>1, <1>7, <2>1, <2>4 DEF ReadClusterStats, TypeInv, Working, Busy, ActivationType
  <2>8. IdsUpTo(n)'
    BY <1>1, <1>4, <1>7, <2>4 DEF ReadClusterStats, IdsUpTo, ActivationType
  <2> QED
    BY <1>3, <2>6, <2>7, <2>8 DEF TypeInv, IdsBounded
<1>8. CASE CommitActivation(a)
  <2> DEFINE inv == [id |-> activation[a].id, severity |-> activation[a].severity,
                     mode |-> activation[a].mode, source |-> p]
  <2>1. Busy(a)
    BY <1>8 DEF CommitActivation, Busy
  <2>2. c \in Clusters /\ p \in DOMAIN invariant_proposals /\ activation[a].mode \in Modes
    BY <2>1, BusyFacts
  <2>3. inv \in Invariant
    BY <1>1, <2>2 DEF ActivationType, Invariant
  <2>4. active_invariants' = [active_invariants EXCEPT ![c] = inv]
    BY <1>8 DEF CommitActivation
  <2> HIDE DEF inv
  <2>5. active_invariants' \in [Clusters -> {None} \cup Invariant]
    BY <2>3, <2>4 DEF TypeInv, TypeOK, Invariant
  <2>6. invariant_stage_stats' \in [Clusters -> [Stages -> Stats]]
    <3>1. activation[a].stats \in [Stages -> Stats]
          /\ invariant_stage_stats[c] \in [Stages -> Stats]
      BY <1>1, <2>2 DEF TypeInv, TypeOK, ActivationType
    <3>2. [s \in Stages |-> Seed(invariant_stage_stats[c][s], activation[a].stats[s])]
            \in [Stages -> Stats]
      BY <3>1 DEF Seed
    <3> QED
      BY <1>8, <3>2 DEF CommitActivation, TypeInv, TypeOK
  <2>7. invariant_proposals' \in Seq(Proposal) /\ DOMAIN invariant_proposals' = DOMAIN invariant_proposals
    <3>1. invariant_proposals[p] \in Proposal
      BY <2>1, BusyFacts
    <3>2. [invariant_proposals[p] EXCEPT !.status = "approved"] \in Proposal
      BY <3>1 DEF Proposal
    <3>3. invariant_proposals' = [invariant_proposals EXCEPT ![p] =
            [invariant_proposals[p] EXCEPT !.status = "approved"]]
      BY <1>8 DEF CommitActivation, MarkApproved
    <3> QED
      BY <1>2, <2>2, <3>2, <3>3, ExceptSeq, LenProperties
  <2>8. activation' = [activation EXCEPT ![a] = Idle("done")] /\ raced' = raced
    BY <1>8 DEF CommitActivation
  <2>9. Idle("done") \in ActivationType
    BY DEF Idle, ActivationType, NoStats, Stats, Severities
  <2>10. activation' \in [Activations -> ActivationType]
    BY <1>1, <2>8, <2>9
  <2>11. TypeOK'
    BY <1>3, <2>5, <2>6, <2>7, <2>8, <2>10 DEF TypeInv, TypeOK, ActivationType, Proposal, Invariant
  <2>12. Working'
    BY <1>1, <2>7, <2>8 DEF TypeInv, Working, Busy, Idle
  <2>13. IdsUpTo(n)'
    <3>1. \A b \in Activations : activation'[b].id <= n
      BY <1>1, <1>4, <2>8 DEF IdsUpTo, Idle
    <3>2. inv.id <= n
      BY <1>4 DEF inv, IdsUpTo
    <3>3. \A d \in Clusters : active_invariants'[d] # None => active_invariants'[d].id <= n
      BY <1>4, <2>4, <3>2 DEF IdsUpTo, TypeInv, TypeOK
    <3> QED
      BY <3>1, <3>3 DEF IdsUpTo
  <2> QED
    BY <1>3, <2>11, <2>12, <2>13 DEF TypeInv, IdsBounded
<1>9. CASE AbortActivation(a)
  <2>1. Idle("dead") \in ActivationType
    BY DEF Idle, ActivationType, NoStats, Stats, Severities
  <2>2. activation' = [activation EXCEPT ![a] = Idle("dead")]
    BY <1>9 DEF AbortActivation
  <2>3. UNCHANGED <<invariant_proposals, active_invariants, invariant_stage_stats, raced>>
    BY <1>9 DEF AbortActivation
  <2>4. activation' \in [Activations -> ActivationType]
    BY <1>1, <2>1, <2>2
  <2>5. TypeOK'
    BY <1>3, <2>3, <2>4 DEF TypeInv, TypeOK, ActivationType
  <2>6. Working'
    BY <1>1, <2>2, <2>3 DEF TypeInv, Working, Busy, Idle
  <2>7. IdsUpTo(n)'
    BY <1>1, <1>4, <2>2, <2>3 DEF IdsUpTo, Idle
  <2> QED
    BY <1>3, <2>5, <2>6, <2>7 DEF TypeInv, IdsBounded
<1> QED
  BY <1>5, <1>6, <1>7, <1>8, <1>9 DEF ActivationStep

LEMMA TypeNext ==
  ASSUME TypeInv, [Next]_vars
  PROVE  TypeInv'
<1>1. CASE UNCHANGED vars
  BY <1>1 DEF vars, TypeInv, TypeOK, Working, Busy, IdsBounded, IdsUpTo
<1> QED
  BY <1>1, NextSteps, TypeIngest, TypeActivation

(***************************************************************************)
(* Every table holds rows of its type, whatever is ingested and activated: *)
(* the proposal that an activation has loaded stays there, and its mode is *)
(* one of those that were asked for.                                       *)
(***************************************************************************)
THEOREM RatchetTypeCorrect == Spec => []TypeOK
<1>1. TypeInv /\ [Next]_vars => TypeInv'
  BY TypeNext
<1>2. TypeInv => TypeOK
  BY DEF TypeInv
<1> QED
  BY <1>1, <1>2, TypeInit, PTL DEF Spec

-----------------------------------------------------------------------------
(* The clusters count the findings: the upsert locks the row until the     *)
(* transaction ends, so what an ingest has computed is still right when it *)
(* commits.                                                                *)

\* An event is there when its ingest has committed, not before.
Uncounted == \A i \in Ingests :
  ingest[i].pc \in {"new", "upserted", "checked"} => i \notin finding_events

\* One ingest of a cluster is in its transaction at a time.
Exclusive == \A i, j \in Ingests :
  InTransaction(i) /\ InTransaction(j) /\ Finding[i].cluster = Finding[j].cluster => i = j

\* The row that is to be committed is the one it would compute now.
Written == \A i \in Ingests : InTransaction(i) => ingest[i].row = UpsertCluster(i)

CountInv == Uncounted /\ Exclusive /\ Written /\ ClusterCountsEvents

\* How an ingest moves: it alone, and from step to step.
LEMMA IngestMoves ==
  ASSUME TypeInv, NEW i \in Ingests, IngestStep(i)
  PROVE  /\ \A j \in Ingests \ {i} : ingest'[j] = ingest[j]
         /\ \/ ingest[i].pc = "new" /\ ingest'[i].pc = "upserted" /\ RecordFinding(i)
            \/ ingest[i].pc = "upserted" /\ ingest'[i].pc = "checked" /\ readActiveInvariant(i)
            \/ ingest[i].pc = "checked" /\ ingest'[i].pc = "committed" /\ CommitFinding(i)
            \/ ingest[i].pc = "committed" /\ ingest'[i].pc \in {"propose", "done"} /\ Decide(i)
            \/ ingest[i].pc = "propose" /\ ingest'[i].pc \in {"create", "done"} /\ CheckProposal(i)
            \/ ingest[i].pc = "create" /\ ingest'[i].pc = "done" /\ CreateProposal(i)
            \/ ingest[i].pc \notin {"new", "done", "dead"} /\ ingest'[i].pc = "dead" /\ AbortIngest(i)
<1>1. ingest \in [Ingests -> IngestType] /\ ingest[i] \in IngestType
  BY DEF TypeInv, TypeOK, IngestType
<1>2. CASE RecordFinding(i)
  BY <1>1, <1>2 DEF RecordFinding, IngestType
<1>3. CASE readActiveInvariant(i)
  BY <1>1, <1>3 DEF readActiveInvariant, IngestType
<1>4. CASE CommitFinding(i)
  BY <1>1, <1>4 DEF CommitFinding, IngestType
<1>5. CASE Decide(i)
  BY <1>1, <1>5 DEF Decide, At
<1>6. CASE CheckProposal(i)
  <2>1. \/ ingest' = [ingest EXCEPT ![i] = At("done")]
        \/ ingest' = [ingest EXCEPT ![i].pc = "create", ![i].seen = Len(invariant_proposals)]
    BY <1>6, Zenon DEF CheckProposal
  <2>2. ingest[i].pc = "propose"
    BY <1>6 DEF CheckProposal
  <2> QED
    BY <1>1, <1>6, <2>1, <2>2 DEF At, IngestType
<1>7. CASE CreateProposal(i)
  BY <1>1, <1>7 DEF CreateProposal, At
<1>8. CASE AbortIngest(i)
  BY <1>1, <1>8 DEF AbortIngest, At
<1> QED
  BY <1>2, <1>3, <1>4, <1>5, <1>6, <1>7, <1>8 DEF IngestStep

\* Only a commit changes the tables of the findings.
LEMMA FindingsFrame ==
  ASSUME NEW i \in Ingests, IngestStep(i), ~ CommitFinding(i)
  PROVE  UNCHANGED <<finding_events, finding_clusters, cluster_stage_stats, invariant_stage_stats>>
BY DEF IngestStep, RecordFinding, readActiveInvariant, Decide, CheckProposal,
       CreateProposal, AbortIngest

\* A commit adds one event, which the other clusters do not see.
LEMMA EventsCommit ==
  ASSUME NEW i \in Ingests, NEW E, NEW c
  PROVE  EventsOf(c, E \cup {i}) =
           IF Finding[i].cluster = c THEN EventsOf(c, E) \cup {i} ELSE EventsOf(c, E)
BY DEF EventsOf

\* The cluster that is committed counts one event more.
LEMMA CommitCounts ==
  ASSUME TypeInv, CountInv, NEW i \in Ingests, CommitFinding(i)
  PROVE  ClusterCountsEvents'
<1> DEFINE c == Finding[i].cluster
           row == UpsertCluster(i)
           E == EventsOf(c, finding_events)
<1>1. /\ c \in Clusters
      /\ Finding[i].severity \in Severities
      /\ Finding[i].stage \in Stages
  BY FindingAssumption
<1>2. ingest[i].row = row /\ i \notin finding_events
  BY DEF CommitFinding, CountInv, Written, Uncounted, InTransaction
<1>3. /\ finding_events' = finding_events \cup {i}
      /\ finding_clusters' = [finding_clusters EXCEPT ![c] = row]
      /\ cluster_stage_stats' = [cluster_stage_stats EXCEPT ![c] = AddToStats(@, i)]
  BY <1>2 DEF CommitFinding
<1>4. finding_clusters[c] \in Row
  BY <1>1 DEF TypeInv, TypeOK
<1>5. IsFiniteSet(E) /\ i \notin E
  BY <1>2, FS_Subset DEF TypeInv, EventsOf
<1>6. /\ finding_clusters[c].occurrences = Cardinality(E)
      /\ Rank(finding_clusters[c].severity) = Max({0} \cup {Rank(Finding[k].severity) : k \in E})
      /\ \A s \in Stages :
           cluster_stage_stats[c][s].seen = Cardinality({k \in E : Finding[k].stage = s})
  BY <1>1 DEF CountInv, ClusterCountsEvents
<1>7. EventsOf(c, finding_events \cup {i}) = E \cup {i}
  BY EventsCommit
<1>8. /\ row.occurrences = Cardinality(E) + 1
      /\ row.runs = Distinct("run", E \cup {i})
      /\ row.issues = Distinct("issue", E \cup {i})
      /\ row.severity = highestSeverity(Finding[i].severity, finding_clusters[c].severity)
  BY <1>6, <1>7 DEF UpsertCluster
<1>9. row.occurrences = Cardinality(E \cup {i})
  BY <1>5, <1>8, FS_AddElement
<1>10. Rank(row.severity) = Max({0} \cup {Rank(Finding[k].severity) : k \in E \cup {i}})
  <2> DEFINE S == {0} \cup {Rank(Finding[k].severity) : k \in E}
             T == {0} \cup {Rank(Finding[k].severity) : k \in E \cup {i}}
             old == finding_clusters[c].severity
  <2>1. old \in Severities
    BY <1>4 DEF Row
  <2>2. \A k \in E \cup {i} : Finding[k].severity \in Severities
    BY FindingAssumption DEF EventsOf, TypeInv, TypeOK
  <2>3. S \in SUBSET (0 .. 4) /\ T \in SUBSET Nat
    BY <2>2, Ranks
  <2>4. Rank(old) \in S /\ \A x \in S : x <= Rank(old)
    BY <1>6, <2>3, MaxBounded
  <2>5. /\ Rank(row.severity) \in {Rank(Finding[i].severity), Rank(old)}
        /\ Rank(row.severity) >= Rank(Finding[i].severity)
        /\ Rank(row.severity) >= Rank(old)
        /\ Rank(Finding[i].severity) \in 0 .. 4 /\ Rank(old) \in 0 .. 4
    BY <1>1, <1>8, <2>1, Ranks
  <2>6. T = S \cup {Rank(Finding[i].severity)}
    OBVIOUS
  <2> HIDE DEF S, T, old, row
  <2>7. Rank(row.severity) \in T /\ \A x \in T : x <= Rank(row.severity)
    BY <2>3, <2>4, <2>5, <2>6
  <2>8. Max(T) = Rank(row.severity)
    BY <2>3, <2>7, MaxIs
  <2> QED
    BY <2>8 DEF T
<1>11. ASSUME NEW s \in Stages
       PROVE  cluster_stage_stats'[c][s].seen = Cardinality({k \in E \cup {i} : Finding[k].stage = s})
  <2> DEFINE X == {k \in E : Finding[k].stage = s}
             Y == {k \in E \cup {i} : Finding[k].stage = s}
  <2>1. IsFiniteSet(X) /\ i \notin X
    BY <1>5, FS_Subset
  <2>2. cluster_stage_stats[c] \in [Stages -> Stats]
    BY <1>1 DEF TypeInv, TypeOK
  <2>3. cluster_stage_stats'[c] = AddToStats(cluster_stage_stats[c], i)
    BY <1>1, <1>3 DEF TypeInv, TypeOK
  <2>4. cluster_stage_stats[c][s].seen = Cardinality(X)
    BY <1>6
  <2>5. CASE Finding[i].stage = s
    <3>1. Y = X \cup {i}
      BY <2>5
    <3>2. Cardinality(X \cup {i}) = Cardinality(X) + 1
      BY <2>1, FS_AddElement
    <3>3. cluster_stage_stats'[c][s].seen = cluster_stage_stats[c][s].seen + 1
      BY <2>2, <2>3, <2>5 DEF AddToStats
    <3> QED
      BY <2>4, <3>1, <3>2, <3>3
  <2>6. CASE Finding[i].stage # s
    <3>1. Y = X
      BY <2>6
    <3>2. cluster_stage_stats'[c][s].seen = cluster_stage_stats[c][s].seen
      BY <2>2, <2>3, <2>6 DEF AddToStats
    <3> QED
      BY <2>4, <3>1, <3>2
  <2> QED
    BY <2>5, <2>6
<1>12. finding_clusters'[c] = row
  BY <1>1, <1>3 DEF TypeInv, TypeOK
<1>13. ASSUME NEW d \in Clusters, d # c
       PROVE  /\ EventsOf(d, finding_events') = EventsOf(d, finding_events)
              /\ finding_clusters'[d] = finding_clusters[d]
              /\ cluster_stage_stats'[d] = cluster_stage_stats[d]
  <2>1. EventsOf(d, finding_events \cup {i}) = EventsOf(d, finding_events)
    BY <1>13, EventsCommit
  <2> QED
    BY <1>3, <1>13, <2>1 DEF TypeInv, TypeOK
<1>14. EventsOf(c, finding_events') = E \cup {i}
  BY <1>3, <1>7
<1>15. SUFFICES ASSUME NEW d \in Clusters
                PROVE  LET events == EventsOf(d, finding_events')
                           cluster == finding_clusters'[d] IN
                       /\ cluster.occurrences = Cardinality(events)
                       /\ cluster.runs = Distinct("run", events)
                       /\ cluster.issues = Distinct("issue", events)
                       /\ Rank(cluster.severity) =
                            Max({0} \cup {Rank(Finding[k].severity) : k \in events})
                       /\ \A s \in Stages : cluster_stage_stats'[d][s].seen =
                            Cardinality({k \in events : Finding[k].stage = s})
  BY DEF ClusterCountsEvents
<1>16. CASE d = c
  <2> HIDE DEF row, E, c
  <2> QED
    BY <1>8, <1>9, <1>10, <1>11, <1>12, <1>14, <1>16
<1>17. CASE d # c
  BY <1>13, <1>17 DEF CountInv, ClusterCountsEvents
<1> QED
  BY <1>16, <1>17

LEMMA CountInit == Init => CountInv
<1> SUFFICES ASSUME Init PROVE CountInv
  OBVIOUS
<1>1. \A i \in Ingests : ingest[i].pc = "new"
  BY DEF Init, InitTables, At
<1>2. Uncounted /\ Exclusive /\ Written
  BY <1>1 DEF Init, InitTables, Uncounted, Exclusive, Written, InTransaction
<1>3. ASSUME NEW c \in Clusters
      PROVE  LET events == EventsOf(c, finding_events)
                 cluster == finding_clusters[c] IN
             /\ cluster.occurrences = Cardinality(events)
             /\ cluster.runs = Distinct("run", events)
             /\ cluster.issues = Distinct("issue", events)
             /\ Rank(cluster.severity) =
                  Max({0} \cup {Rank(Finding[k].severity) : k \in events})
             /\ \A s \in Stages : cluster_stage_stats[c][s].seen =
                  Cardinality({k \in events : Finding[k].stage = s})
  <2>1. EventsOf(c, finding_events) = {}
    BY DEF Init, InitTables, EventsOf
  <2>2. finding_clusters[c] = NoCluster
        /\ \A s \in Stages : cluster_stage_stats[c][s] = NoStats
    BY DEF Init, InitTables
  <2>3. Distinct("run", {}) = 0 /\ Distinct("issue", {}) = 0
    <3>1. {Finding[i]["run"] : i \in {}} = {} /\ {Finding[i]["issue"] : i \in {}} = {}
      OBVIOUS
    <3> QED
      BY <3>1, FS_EmptySet DEF Distinct
  <2>4. {0} \cup {Rank(Finding[k].severity) : k \in {}} = {0}
    OBVIOUS
  <2>5. Max({0}) = 0
    BY MaxIs
  <2>6. \A s \in Stages : {k \in {} : Finding[k].stage = s} = {}
    OBVIOUS
  <2>7. Rank(NoCluster.severity) = 0 /\ NoCluster.occurrences = 0
        /\ NoCluster.runs = 0 /\ NoCluster.issues = 0 /\ NoStats.seen = 0
    BY DEF Rank, NoCluster, NoStats
  <2> QED
    BY <2>1, <2>2, <2>3, <2>4, <2>5, <2>6, <2>7, FS_EmptySet
<1>4. ClusterCountsEvents
  BY <1>3 DEF ClusterCountsEvents
<1> QED
  BY <1>2, <1>4 DEF CountInv

\* UpsertCluster depends on the events and the row of its cluster only.
LEMMA UpsertFrame ==
  ASSUME NEW j \in Ingests,
         finding_clusters'[Finding[j].cluster] = finding_clusters[Finding[j].cluster],
         EventsOf(Finding[j].cluster, finding_events')
           = EventsOf(Finding[j].cluster, finding_events)
  PROVE  UpsertCluster(j)' = UpsertCluster(j)
<1> DEFINE c == Finding[j].cluster
<1>1. EventsOf(c, finding_events' \cup {j}) = EventsOf(c, finding_events \cup {j})
  BY DEF EventsOf
<1> QED
  BY <1>1 DEF UpsertCluster

LEMMA CountIngest ==
  ASSUME TypeInv, CountInv, NEW i \in Ingests, IngestStep(i)
  PROVE  CountInv'
<1> DEFINE c == Finding[i].cluster
<1>1. c \in Clusters
  BY FindingAssumption
<1>2. \A j \in Ingests \ {i} : ingest'[j] = ingest[j]
  BY IngestMoves
<1>3. CASE CommitFinding(i)
  <2>1. /\ finding_events' = finding_events \cup {i}
        /\ finding_clusters' = [finding_clusters EXCEPT ![c] = ingest[i].row]
    BY <1>3 DEF CommitFinding
  <2>2. ingest[i].pc = "checked" /\ ingest'[i].pc = "committed"
    BY <1>3 DEF CommitFinding, TypeInv, TypeOK
  <2>3. Uncounted'
    BY <1>2, <2>1, <2>2 DEF CountInv, Uncounted
  <2>4. Exclusive'
    BY <1>2, <2>2 DEF CountInv, Exclusive, InTransaction
  <2>5. ASSUME NEW j \in Ingests, InTransaction(j)'
        PROVE  ingest'[j].row = UpsertCluster(j)'
    <3>1. j # i /\ InTransaction(j)
      BY <1>2, <2>2, <2>5 DEF InTransaction
    <3>2. Finding[j].cluster # c
      BY <2>2, <3>1 DEF CountInv, Exclusive, InTransaction
    <3>3. Finding[j].cluster \in Clusters
      BY FindingAssumption
    <3>4. finding_clusters'[Finding[j].cluster] = finding_clusters[Finding[j].cluster]
      BY <2>1, <3>2, <3>3 DEF TypeInv, TypeOK
    <3>5. EventsOf(Finding[j].cluster, finding_events')
            = EventsOf(Finding[j].cluster, finding_events)
      BY <2>1, <3>2 DEF EventsOf
    <3>6. UpsertCluster(j)' = UpsertCluster(j)
      BY <3>4, <3>5, UpsertFrame
    <3> QED
      BY <1>2, <3>1, <3>6 DEF CountInv, Written
  <2> QED
    BY <1>3, <2>3, <2>4, <2>5, CommitCounts DEF CountInv, Written
<1>4. CASE ~ CommitFinding(i)
  <2>1. UNCHANGED <<finding_events, finding_clusters, cluster_stage_stats>>
    BY <1>4, FindingsFrame
  <2>2. ClusterCountsEvents'
    BY <2>1 DEF CountInv, ClusterCountsEvents
  <2>3. \A j \in Ingests : UpsertCluster(j)' = UpsertCluster(j)
    BY <2>1 DEF UpsertCluster
  <2>4. CASE RecordFinding(i)
    <3>1. /\ ingest[i].pc = "new" /\ RowFree(c)
          /\ ingest' = [ingest EXCEPT ![i].pc = "upserted", ![i].row = UpsertCluster(i)]
      BY <2>4 DEF RecordFinding
    <3>2. ingest'[i].pc = "upserted" /\ ingest'[i].row = UpsertCluster(i)
      BY <3>1 DEF TypeInv, TypeOK
    <3>3. Uncounted'
      BY <1>2, <2>1, <3>1 DEF CountInv, Uncounted
    <3>4. Exclusive'
      BY <1>2, <3>1 DEF CountInv, Exclusive, InTransaction, RowFree
    <3>5. Written'
      BY <1>2, <2>3, <3>2 DEF CountInv, Written, InTransaction
    <3> QED
      BY <2>2, <3>3, <3>4, <3>5 DEF CountInv
  <2>5. CASE ~ RecordFinding(i)
    <3>1. ingest'[i].pc \in {"new", "upserted", "checked"}
            => ingest[i].pc = "upserted" /\ ingest'[i].pc = "checked" /\ readActiveInvariant(i)
      BY <1>4, <2>5, IngestMoves
    <3>2. ingest'[i].pc = "checked" => ingest'[i].row = ingest[i].row
      BY <3>1 DEF readActiveInvariant, TypeInv, TypeOK
    <3>3. Uncounted'
      BY <1>2, <2>1, <3>1 DEF CountInv, Uncounted
    <3>4. Exclusive'
      BY <1>2, <3>1 DEF CountInv, Exclusive, InTransaction
    <3>5. Written'
      BY <1>2, <2>3, <3>1, <3>2 DEF CountInv, Written, InTransaction
    <3> QED
      BY <2>2, <3>3, <3>4, <3>5 DEF CountInv
  <2> QED
    BY <2>4, <2>5
<1> QED
  BY <1>3, <1>4

LEMMA CountNext ==
  ASSUME TypeInv, CountInv, [Next]_vars
  PROVE  CountInv'
<1>1. ASSUME UNCHANGED <<finding_events, finding_clusters, cluster_stage_stats, ingest>>
      PROVE  CountInv'
  BY <1>1 DEF CountInv, Uncounted, Exclusive, Written, InTransaction, UpsertCluster,
       ClusterCountsEvents
<1> QED
  BY <1>1, NextSteps, CountIngest, ActivationFrame DEF vars

(***************************************************************************)
(* However RecordFinding's transactions interleave, fail or die, a cluster *)
(* says what the committed findings say.                                   *)
(***************************************************************************)
THEOREM ClustersCount == Spec => []ClusterCountsEvents
<1>1. TypeInv /\ CountInv /\ [Next]_vars => TypeInv' /\ CountInv'
  BY TypeNext, CountNext
<1>2. CountInv => ClusterCountsEvents
  BY DEF CountInv
<1> QED
  BY <1>1, <1>2, TypeInit, CountInit, PTL DEF Spec

-----------------------------------------------------------------------------
(* Invariants are backed: a cluster's counts and severity only grow, a     *)
(* proposal stays what it is except that it is approved, and an activation *)
(* carries the severity its cluster had when it began.                     *)

\* What a cluster is never less of after a step.
LEMMA RowsGrow ==
  ASSUME TypeInv, CountInv, [Next]_vars, NEW c \in Clusters
  PROVE  /\ Rank(finding_clusters'[c].severity) >= Rank(finding_clusters[c].severity)
         /\ shouldPropose(c, finding_clusters[c]) => shouldPropose(c, finding_clusters'[c])
         /\ Rank(finding_clusters[c].severity) \in 0 .. 4
         /\ Rank(finding_clusters'[c].severity) \in 0 .. 4
<1> DEFINE old == finding_clusters[c]
           new == finding_clusters'[c]
<1>1. old \in Row /\ old.severity \in Severities /\ Rank(old.severity) \in 0 .. 4
  <2>1. old \in Row
    BY DEF TypeInv, TypeOK
  <2> QED
    BY <2>1, Ranks DEF Row
<1>2. CASE new = old
  BY <1>1, <1>2
<1>3. ASSUME NEW i \in Ingests, CommitFinding(i), Finding[i].cluster = c
      PROVE  /\ Rank(new.severity) >= Rank(old.severity)
             /\ shouldPropose(c, old) => shouldPropose(c, new)
             /\ Rank(new.severity) \in 0 .. 4
  <2> DEFINE E == EventsOf(c, finding_events)
             F == EventsOf(c, finding_events \cup {i})
  <2>1. new = UpsertCluster(i)
    BY <1>3 DEF CommitFinding, CountInv, Written, InTransaction, TypeInv, TypeOK
  <2>2. new \in Row
    BY <2>1, UpsertType
  <2>3. Finding[i].severity \in Severities
    BY FindingAssumption
  <2>4. /\ new.occurrences = old.occurrences + 1
        /\ new.runs = Distinct("run", F)
        /\ new.severity = highestSeverity(Finding[i].severity, old.severity)
    BY <1>3, <2>1 DEF UpsertCluster
  <2>5. old.runs = Distinct("run", E)
    BY DEF CountInv, ClusterCountsEvents
  <2>6. IsFiniteSet(F) /\ E \in SUBSET F
    BY FS_AddElement, FS_Subset DEF TypeInv, EventsOf
  <2>7. new.runs >= old.runs
    BY <2>4, <2>5, <2>6, DistinctCounts
  <2>8. new.occurrences >= old.occurrences
    BY <1>1, <2>4 DEF Row
  <2>9. /\ Rank(new.severity) >= Rank(old.severity)
        /\ old.severity = "critical" => new.severity = "critical"
        /\ Rank(new.severity) \in 0 .. 4
    BY <1>1, <2>2, <2>3, <2>4, Ranks DEF Row
  <2> HIDE DEF old, new
  <2> QED
    BY <1>1, <2>2, <2>7, <2>8, <2>9, ProposeMonotone
<1>4. \/ new = old
      \/ \E i \in Ingests : CommitFinding(i) /\ Finding[i].cluster = c
  <2>1. ASSUME NEW i \in Ingests, IngestStep(i)
        PROVE  new = old \/ (CommitFinding(i) /\ Finding[i].cluster = c)
    <3>1. CASE CommitFinding(i)
      BY <3>1 DEF CommitFinding, TypeInv, TypeOK
    <3> QED
      BY <2>1, <3>1, FindingsFrame
  <2>2. ASSUME NEW a \in Activations, ActivationStep(a) PROVE new = old
    BY <2>2, ActivationFrame
  <2> QED
    BY <2>1, <2>2, NextSteps DEF vars
<1> QED
  BY <1>1, <1>2, <1>3, <1>4

\* What a new proposal is.
LEMMA NewProposal ==
  ASSUME TypeInv, NEW i \in Ingests, CreateProposal(i)
  PROVE  LET n == Len(invariant_proposals) IN
         /\ n \in Nat
         /\ DOMAIN invariant_proposals = 1 .. n
         /\ DOMAIN invariant_proposals' = 1 .. n + 1
         /\ \A p \in 1 .. n : invariant_proposals'[p] = invariant_proposals[p]
         /\ invariant_proposals'[n + 1].cluster = Finding[i].cluster
         /\ invariant_proposals'[n + 1].status = "proposed"
         /\ invariant_proposals'[n + 1].seen = ingest[i].seen
<1> DEFINE new == [cluster |-> Finding[i].cluster, status |-> "proposed", seen |-> ingest[i].seen]
<1>1. invariant_proposals \in Seq(Proposal)
  BY DEF TypeInv, TypeOK, Proposal
<1>2. new \in Proposal
  <2>1. ingest[i] \in IngestType
    BY DEF TypeInv, TypeOK, IngestType
  <2> QED
    BY <2>1, FindingAssumption DEF IngestType, Proposal
<1>3. invariant_proposals' = Append(invariant_proposals, new)
  BY DEF CreateProposal
<1>4. /\ new.cluster = Finding[i].cluster
      /\ new.status = "proposed"
      /\ new.seen = ingest[i].seen
  OBVIOUS
<1> HIDE DEF new
<1>5. /\ invariant_proposals' \in Seq(Proposal)
      /\ Len(invariant_proposals') = Len(invariant_proposals) + 1
      /\ \A p \in 1 .. Len(invariant_proposals) : invariant_proposals'[p] = invariant_proposals[p]
      /\ invariant_proposals'[Len(invariant_proposals) + 1] = new
  BY <1>1, <1>2, <1>3, AppendProperties
<1>6. /\ DOMAIN invariant_proposals = 1 .. Len(invariant_proposals)
      /\ DOMAIN invariant_proposals' = 1 .. Len(invariant_proposals')
      /\ Len(invariant_proposals) \in Nat
  BY <1>1, <1>5, LenProperties
<1> QED
  BY <1>4, <1>5, <1>6

\* A proposal is kept; its status can only become approved.
Kept(p) ==
  /\ p \in DOMAIN invariant_proposals'
  /\ invariant_proposals'[p].cluster = invariant_proposals[p].cluster
  /\ invariant_proposals'[p].seen = invariant_proposals[p].seen
  /\ invariant_proposals'[p].status \in {invariant_proposals[p].status, "approved"}

LEMMA ProposalsKept ==
  ASSUME TypeInv, [Next]_vars
  PROVE  /\ \A p \in DOMAIN invariant_proposals : Kept(p)
         /\ \/ DOMAIN invariant_proposals' = DOMAIN invariant_proposals
            \/ \E i \in Ingests : CreateProposal(i)
<1>1. invariant_proposals \in Seq(Proposal)
  BY DEF TypeInv, TypeOK, Proposal
<1>2. CASE UNCHANGED invariant_proposals
  BY <1>2 DEF Kept
<1>3. ASSUME NEW i \in Ingests, CreateProposal(i)
      PROVE  \A p \in DOMAIN invariant_proposals : Kept(p)
  BY <1>3, NewProposal DEF Kept
<1>4. ASSUME NEW a \in Activations, CommitActivation(a)
      PROVE  /\ \A p \in DOMAIN invariant_proposals : Kept(p)
             /\ DOMAIN invariant_proposals' = DOMAIN invariant_proposals
  <2> DEFINE q == activation[a].proposal
  <2>1. Busy(a)
    BY <1>4 DEF CommitActivation, Busy
  <2>2. q \in DOMAIN invariant_proposals /\ invariant_proposals[q] \in Proposal
    BY <2>1, BusyFacts
  <2>3. invariant_proposals' = [invariant_proposals EXCEPT ![q].status = "approved"]
    BY <1>4 DEF CommitActivation, MarkApproved
  <2>4. \A p \in DOMAIN invariant_proposals :
          invariant_proposals'[p] = IF p = q THEN [invariant_proposals[q] EXCEPT !.status = "approved"]
                                             ELSE invariant_proposals[p]
    BY <2>3
  <2> QED
    BY <2>2, <2>3, <2>4 DEF Kept, Proposal
<1>5. ASSUME NEW a \in Activations, ActivationStep(a), ~ CommitActivation(a)
      PROVE  UNCHANGED invariant_proposals
  BY <1>5 DEF ActivationStep, LoadProposal, UpsertInvariant, ReadClusterStats, AbortActivation
<1>6. \/ UNCHANGED invariant_proposals
      \/ \E i \in Ingests : CreateProposal(i)
      \/ \E a \in Activations : CommitActivation(a)
  BY <1>5, NextSteps, IngestFrame DEF vars
<1> QED
  BY <1>2, <1>3, <1>4, <1>6

\* What is proposed, or about to be, is over a threshold.
Eligible ==
  /\ \A p \in DOMAIN invariant_proposals :
       shouldPropose(invariant_proposals[p].cluster, finding_clusters[invariant_proposals[p].cluster])
  /\ \A i \in Ingests : ingest[i].pc \in {"propose", "create"} =>
       shouldPropose(Finding[i].cluster, finding_clusters[Finding[i].cluster])

\* An activation carries no more severity than its cluster has.
NotAhead == \A a \in Activations : Busy(a) =>
  Rank(activation[a].severity)
    <= Rank(finding_clusters[invariant_proposals[activation[a].proposal].cluster].severity)

\* An invariant comes from an approved proposal of its cluster.
Sourced == \A c \in Clusters :
  LET inv == active_invariants[c] IN
  inv # None =>
    /\ inv.source \in DOMAIN invariant_proposals
    /\ invariant_proposals[inv.source].cluster = c
    /\ invariant_proposals[inv.source].status = "approved"
    /\ Rank(inv.severity) <= Rank(finding_clusters[c].severity)

BackedInv == Eligible /\ NotAhead /\ Sourced

LEMMA BackedInit == Init => BackedInv
BY DEF Init, InitTables, BackedInv, Eligible, NotAhead, Sourced, Busy, At, Idle

LEMMA EligibleNext ==
  ASSUME TypeInv, CountInv, BackedInv, [Next]_vars
  PROVE  Eligible'
<1>1. invariant_proposals \in Seq(Proposal)
  BY DEF TypeInv, TypeOK, Proposal
<1>2. ASSUME NEW p \in DOMAIN invariant_proposals
      PROVE  LET c == invariant_proposals'[p].cluster IN shouldPropose(c, finding_clusters'[c])
  <2>1. invariant_proposals'[p].cluster = invariant_proposals[p].cluster
    BY ProposalsKept DEF Kept
  <2>2. invariant_proposals[p] \in Proposal
    BY <1>1, ElementOfSeq, LenProperties
  <2>3. invariant_proposals[p].cluster \in Clusters
    BY <2>2 DEF Proposal
  <2> QED
    BY <2>1, <2>3, RowsGrow DEF BackedInv, Eligible
<1>3. ASSUME NEW i \in Ingests, ingest[i].pc \in {"propose", "create"}
      PROVE  shouldPropose(Finding[i].cluster, finding_clusters'[Finding[i].cluster])
  BY <1>3, FindingAssumption, RowsGrow DEF BackedInv, Eligible
<1>4. ASSUME NEW p \in DOMAIN invariant_proposals'
      PROVE  LET c == invariant_proposals'[p].cluster IN shouldPropose(c, finding_clusters'[c])
  <2>1. CASE p \in DOMAIN invariant_proposals
    BY <1>2, <2>1
  <2>2. CASE p \notin DOMAIN invariant_proposals
    <3>1. PICK i \in Ingests : CreateProposal(i)
      BY <1>4, <2>2, ProposalsKept
    <3>2. invariant_proposals'[p].cluster = Finding[i].cluster
      BY <1>4, <2>2, <3>1, NewProposal
    <3> QED
      BY <1>3, <3>1, <3>2 DEF CreateProposal
  <2> QED
    BY <2>1, <2>2
<1>5. ASSUME NEW i \in Ingests, ingest'[i].pc \in {"propose", "create"}
      PROVE  shouldPropose(Finding[i].cluster, finding_clusters'[Finding[i].cluster])
  <2>1. CASE ingest[i].pc \in {"propose", "create"}
    BY <1>3, <2>1
  <2>2. CASE ingest[i].pc \notin {"propose", "create"}
    <3>1. PICK j \in Ingests : IngestStep(j)
      BY <1>5, <2>2, NextSteps, ActivationFrame DEF vars
    <3>2. j = i
      BY <1>5, <2>2, <3>1, IngestMoves
    <3>3. Decide(i)
      BY <1>5, <2>2, <3>1, <3>2, IngestMoves
    <3>4. shouldPropose(Finding[i].cluster, finding_clusters[Finding[i].cluster])
      BY <1>5, <3>3 DEF Decide, readCluster, At, TypeInv, TypeOK
    <3> QED
      BY <3>4, FindingAssumption, RowsGrow
  <2> QED
    BY <2>1, <2>2
<1> QED
  BY <1>4, <1>5 DEF Eligible

\* Which step makes an activation busy, and what it has then.
LEMMA ActivationMoves ==
  ASSUME TypeInv, NEW a \in Activations, ActivationStep(a)
  PROVE  /\ \A b \in Activations \ {a} : activation'[b] = activation[b]
         /\ \/ /\ activation[a].pc = "new" /\ activation'[a].pc = "loaded"
               /\ \E p \in DOMAIN invariant_proposals, mode \in Modes : LoadProposal(a, p, mode)
            \/ /\ activation[a].pc = "loaded" /\ activation'[a].pc = "upserted" /\ UpsertInvariant(a)
               /\ activation'[a].proposal = activation[a].proposal
               /\ activation'[a].severity = activation[a].severity
            \/ /\ activation[a].pc = "upserted" /\ activation'[a].pc = "seeded" /\ ReadClusterStats(a)
               /\ activation'[a].proposal = activation[a].proposal
               /\ activation'[a].severity = activation[a].severity
               /\ activation'[a].id = activation[a].id
            \/ activation[a].pc = "seeded" /\ activation'[a].pc = "done" /\ CommitActivation(a)
            \/ Busy(a) /\ activation'[a].pc = "dead" /\ AbortActivation(a)
<1>1. activation \in [Activations -> ActivationType] /\ activation[a] \in ActivationType
  BY DEF TypeInv, TypeOK, ActivationType
<1>2. ASSUME NEW p \in DOMAIN invariant_proposals, NEW mode \in Modes, LoadProposal(a, p, mode)
      PROVE  /\ \A b \in Activations \ {a} : activation'[b] = activation[b]
             /\ activation[a].pc = "new" /\ activation'[a].pc = "loaded"
  BY <1>1, <1>2 DEF LoadProposal, ActivationType
<1>3. CASE UpsertInvariant(a)
  BY <1>1, <1>3 DEF UpsertInvariant, ActivationType
<1>4. CASE ReadClusterStats(a)
  BY <1>1, <1>4 DEF ReadClusterStats, ActivationType
<1>5. CASE CommitActivation(a)
  BY <1>1, <1>5 DEF CommitActivation, Idle
<1>6. CASE AbortActivation(a)
  BY <1>1, <1>6 DEF AbortActivation, Idle, Busy
<1> QED
  BY <1>2, <1>3, <1>4, <1>5, <1>6 DEF ActivationStep

LEMMA NotAheadNext ==
  ASSUME TypeInv, CountInv, BackedInv, [Next]_vars
  PROVE  NotAhead'
<1> SUFFICES ASSUME NEW b \in Activations, Busy(b)'
             PROVE  Rank(activation'[b].severity)
                      <= Rank(finding_clusters'[invariant_proposals'[activation'[b].proposal].cluster].severity)
  BY DEF NotAhead
<1>1. ASSUME Busy(b), activation'[b].proposal = activation[b].proposal,
             activation'[b].severity = activation[b].severity
      PROVE  Rank(activation'[b].severity)
               <= Rank(finding_clusters'[invariant_proposals'[activation'[b].proposal].cluster].severity)
  <2> DEFINE p == activation[b].proposal
             c == invariant_proposals[p].cluster
  <2>1. p \in DOMAIN invariant_proposals /\ c \in Clusters /\ activation[b] \in ActivationType
    BY <1>1, BusyFacts
  <2>2. activation[b].severity \in Severities
    BY <2>1 DEF ActivationType
  <2>3. Rank(activation[b].severity) \in 0 .. 4
    BY <2>2, Ranks
  <2>4. invariant_proposals'[p].cluster = c
    BY <2>1, ProposalsKept DEF Kept
  <2>5. Rank(activation[b].severity) <= Rank(finding_clusters[c].severity)
    BY <1>1 DEF BackedInv, NotAhead
  <2>6. /\ Rank(finding_clusters'[c].severity) >= Rank(finding_clusters[c].severity)
        /\ Rank(finding_clusters[c].severity) \in 0 .. 4
        /\ Rank(finding_clusters'[c].severity) \in 0 .. 4
    BY <2>1, RowsGrow
  <2>7. Rank(activation[b].severity) <= Rank(finding_clusters'[c].severity)
    BY <2>3, <2>5, <2>6
  <2> QED
    BY <1>1, <2>4, <2>7
<1>2. CASE activation'[b] = activation[b]
  BY <1>1, <1>2 DEF Busy
<1>3. ASSUME ActivationStep(b)
      PROVE  Rank(activation'[b].severity)
               <= Rank(finding_clusters'[invariant_proposals'[activation'[b].proposal].cluster].severity)
  <2>1. ASSUME NEW p \in DOMAIN invariant_proposals, NEW mode \in Modes, LoadProposal(b, p, mode)
        PROVE  Rank(activation'[b].severity)
                 <= Rank(finding_clusters'[invariant_proposals'[activation'[b].proposal].cluster].severity)
    <3> DEFINE c == invariant_proposals[p].cluster
    <3>1. /\ activation'[b].severity = finding_clusters[c].severity
          /\ activation'[b].proposal = p
          /\ UNCHANGED <<invariant_proposals, finding_clusters>>
      BY <2>1 DEF LoadProposal, TypeInv, TypeOK
    <3>2. c \in Clusters
      <4>1. invariant_proposals \in Seq(Proposal)
        BY DEF TypeInv, TypeOK, Proposal
      <4>2. invariant_proposals[p] \in Proposal
        BY <4>1, ElementOfSeq, LenProperties
      <4> QED
        BY <4>2 DEF Proposal
    <3>3. Rank(finding_clusters[c].severity) \in 0 .. 4
      BY <3>2, RowsGrow
    <3> QED
      BY <3>1, <3>3
  <2>2. \/ \E p \in DOMAIN invariant_proposals, mode \in Modes : LoadProposal(b, p, mode)
        \/ /\ Busy(b) /\ activation'[b].proposal = activation[b].proposal
           /\ activation'[b].severity = activation[b].severity
    BY <1>3, ActivationMoves DEF Busy
  <2> QED
    BY <1>1, <2>1, <2>2
<1>4. activation'[b] = activation[b] \/ ActivationStep(b)
  BY NextSteps, IngestFrame, ActivationMoves DEF vars
<1> QED
  BY <1>2, <1>3, <1>4

\* The invariants change by a commit only, and only that of its cluster.
LEMMA InvariantsStep ==
  ASSUME TypeInv, [Next]_vars, NEW c \in Clusters
  PROVE  \/ active_invariants'[c] = active_invariants[c]
         \/ \E a \in Activations :
              /\ CommitActivation(a)
              /\ invariant_proposals[activation[a].proposal].cluster = c
              /\ active_invariants'[c] =
                   [id |-> activation[a].id, severity |-> activation[a].severity,
                    mode |-> activation[a].mode, source |-> activation[a].proposal]
<1>1. ASSUME NEW a \in Activations, CommitActivation(a)
      PROVE  \/ active_invariants'[c] = active_invariants[c]
             \/ /\ invariant_proposals[activation[a].proposal].cluster = c
                /\ active_invariants'[c] =
                     [id |-> activation[a].id, severity |-> activation[a].severity,
                      mode |-> activation[a].mode, source |-> activation[a].proposal]
  BY <1>1 DEF CommitActivation, TypeInv, TypeOK
<1>2. ASSUME NEW a \in Activations, ActivationStep(a), ~ CommitActivation(a)
      PROVE  UNCHANGED active_invariants
  BY <1>2 DEF ActivationStep, LoadProposal, UpsertInvariant, ReadClusterStats, AbortActivation
<1> QED
  BY <1>1, <1>2, NextSteps, IngestFrame DEF vars

LEMMA SourcedNext ==
  ASSUME TypeInv, CountInv, BackedInv, [Next]_vars
  PROVE  Sourced'
<1> SUFFICES ASSUME NEW c \in Clusters, active_invariants'[c] # None
             PROVE  LET inv == active_invariants'[c] IN
                    /\ inv.source \in DOMAIN invariant_proposals'
                    /\ invariant_proposals'[inv.source].cluster = c
                    /\ invariant_proposals'[inv.source].status = "approved"
                    /\ Rank(inv.severity) <= Rank(finding_clusters'[c].severity)
  BY DEF Sourced
<1> DEFINE inv == active_invariants'[c]
<1>1. /\ Rank(finding_clusters'[c].severity) >= Rank(finding_clusters[c].severity)
      /\ Rank(finding_clusters[c].severity) \in 0 .. 4
      /\ Rank(finding_clusters'[c].severity) \in 0 .. 4
  BY RowsGrow
<1>2. CASE active_invariants'[c] = active_invariants[c]
  <2>1. inv \in Invariant
    BY <1>2 DEF TypeInv, TypeOK, Invariant
  <2>2. Rank(inv.severity) \in 0 .. 4
    BY <2>1, Ranks DEF Invariant
  <2>3. /\ inv.source \in DOMAIN invariant_proposals
        /\ invariant_proposals[inv.source].cluster = c
        /\ invariant_proposals[inv.source].status = "approved"
        /\ Rank(inv.severity) <= Rank(finding_clusters[c].severity)
    BY <1>2 DEF BackedInv, Sourced
  <2>4. Kept(inv.source)
    BY <2>3, ProposalsKept
  <2>5. Rank(inv.severity) <= Rank(finding_clusters'[c].severity)
    BY <1>1, <2>2, <2>3
  <2> QED
    BY <2>3, <2>4, <2>5 DEF Kept
<1>3. ASSUME NEW a \in Activations, CommitActivation(a),
             invariant_proposals[activation[a].proposal].cluster = c,
             inv = [id |-> activation[a].id, severity |-> activation[a].severity,
                    mode |-> activation[a].mode, source |-> activation[a].proposal]
      PROVE  /\ inv.source \in DOMAIN invariant_proposals'
             /\ invariant_proposals'[inv.source].cluster = c
             /\ invariant_proposals'[inv.source].status = "approved"
             /\ Rank(inv.severity) <= Rank(finding_clusters'[c].severity)
  <2> DEFINE p == activation[a].proposal
  <2>1. inv.source = p /\ inv.severity = activation[a].severity
    BY <1>3
  <2>2. Busy(a)
    BY <1>3 DEF CommitActivation, Busy
  <2>3. p \in DOMAIN invariant_proposals /\ invariant_proposals[p] \in Proposal
        /\ activation[a] \in ActivationType
    BY <2>2, BusyFacts
  <2>4. invariant_proposals' = [invariant_proposals EXCEPT ![p].status = "approved"]
        /\ finding_clusters' = finding_clusters
    BY <1>3 DEF CommitActivation, MarkApproved
  <2>5. p \in DOMAIN invariant_proposals' /\ invariant_proposals'[p].cluster = c
    BY <1>3, <2>3, ProposalsKept DEF Kept
  <2>6. invariant_proposals'[p].status = "approved"
    BY <2>3, <2>4 DEF Proposal
  <2>7. Rank(activation[a].severity) <= Rank(finding_clusters[c].severity)
    BY <1>3, <2>2 DEF BackedInv, NotAhead
  <2> HIDE DEF inv
  <2> QED
    BY <2>1, <2>4, <2>5, <2>6, <2>7
<1> QED
  BY <1>2, <1>3, InvariantsStep

LEMMA BackedNext ==
  ASSUME TypeInv, CountInv, BackedInv, [Next]_vars
  PROVE  BackedInv'
BY EligibleNext, NotAheadNext, SourcedNext DEF BackedInv

(***************************************************************************)
(* An active invariant stands for a cluster over a threshold, comes from   *)
(* an approved proposal of it and claims no more severity than its         *)
(* findings have, although ActivateProposal reads the cluster before it    *)
(* writes the invariant, and ingests go on meanwhile.                      *)
(***************************************************************************)
THEOREM InvariantsAreBacked == Spec => []InvariantIsBacked
<1> DEFINE IInv == TypeInv /\ CountInv /\ BackedInv
<1>1. Init => IInv
  BY TypeInit, CountInit, BackedInit
<1>2. IInv /\ [Next]_vars => IInv'
  BY TypeNext, CountNext, BackedNext
<1>3. IInv => InvariantIsBacked
  BY DEF BackedInv, Sourced, Eligible, InvariantIsBacked
<1> QED
  BY <1>1, <1>2, <1>3, PTL DEF Spec

-----------------------------------------------------------------------------
(* Proposals.  Looking for an open proposal and creating one are two       *)
(* statements with anything in between.                                    *)

\* An ingest that is about to create a proposal has seen none: the open ones of
\* its cluster are younger than its look.
Looked == \A i \in Ingests : ingest[i].pc = "create" =>
  /\ ingest[i].seen <= Len(invariant_proposals)
  /\ \A p \in DOMAIN invariant_proposals :
       (/\ invariant_proposals[p].cluster = Finding[i].cluster
        /\ invariant_proposals[p].status = "proposed") => p > ingest[i].seen

LEMMA LookedNext ==
  ASSUME TypeInv, Looked, [Next]_vars
  PROVE  Looked'
<1> SUFFICES ASSUME NEW i \in Ingests, ingest'[i].pc = "create"
             PROVE  /\ ingest'[i].seen <= Len(invariant_proposals')
                    /\ \A p \in DOMAIN invariant_proposals' :
                         (/\ invariant_proposals'[p].cluster = Finding[i].cluster
                          /\ invariant_proposals'[p].status = "proposed") => p > ingest'[i].seen
  BY DEF Looked
<1> DEFINE n == Len(invariant_proposals)
<1>1. n \in Nat /\ DOMAIN invariant_proposals = 1 .. n
  BY LenProperties DEF TypeInv, TypeOK
<1>2. Len(invariant_proposals') \in Nat /\ DOMAIN invariant_proposals' = 1 .. Len(invariant_proposals')
  <2>1. TypeInv'
    BY TypeNext
  <2> QED
    BY <2>1, LenProperties DEF TypeInv, TypeOK
<1>3. CASE ingest'[i] = ingest[i]
  <2>1. ingest[i] \in IngestType
    BY DEF TypeInv, TypeOK, IngestType
  <2>2. ingest[i].seen \in Nat
    BY <2>1 DEF IngestType
  <2>3. /\ ingest[i].seen <= n
        /\ \A p \in DOMAIN invariant_proposals :
             (/\ invariant_proposals[p].cluster = Finding[i].cluster
              /\ invariant_proposals[p].status = "proposed") => p > ingest[i].seen
    BY <1>3 DEF Looked
  <2>4. n <= Len(invariant_proposals')
    <3>1. \A p \in 1 .. n : p \in 1 .. Len(invariant_proposals')
      BY <1>1, <1>2, ProposalsKept DEF Kept
    <3>2. n \in 1 .. n => n <= Len(invariant_proposals')
      BY <3>1
    <3> QED
      BY <1>1, <1>2, <3>2
  <2>5. ASSUME NEW p \in DOMAIN invariant_proposals',
               invariant_proposals'[p].cluster = Finding[i].cluster,
               invariant_proposals'[p].status = "proposed"
        PROVE  p > ingest[i].seen
    <3>1. CASE p \in DOMAIN invariant_proposals
      <4>1. Kept(p)
        BY <3>1, ProposalsKept
      <4> QED
        BY <2>3, <2>5, <3>1, <4>1 DEF Kept
    <3>2. CASE p \notin DOMAIN invariant_proposals
      BY <1>1, <1>2, <2>2, <2>3, <2>5, <3>2
    <3> QED
      BY <3>1, <3>2
  <2> QED
    BY <1>1, <1>2, <1>3, <2>2, <2>3, <2>4, <2>5
<1>4. CASE CheckProposal(i)
  <2>1. ~ HasOpenProposal(Finding[i].cluster)
    <3>1. SUFFICES ASSUME HasOpenProposal(Finding[i].cluster) PROVE FALSE
      OBVIOUS
    <3>2. ingest' = [ingest EXCEPT ![i] = At("done")]
      BY <1>4, <3>1, Zenon DEF CheckProposal
    <3> QED
      BY <3>2 DEF At, TypeInv, TypeOK
  <2>2. ingest' = [ingest EXCEPT ![i].pc = "create", ![i].seen = n]
    BY <1>4, <2>1, Zenon DEF CheckProposal
  <2>3. ingest'[i].seen = n
    BY <2>2 DEF TypeInv, TypeOK
  <2>4. UNCHANGED invariant_proposals
    BY <1>4 DEF CheckProposal
  <2> QED
    BY <1>1, <2>1, <2>3, <2>4 DEF HasOpenProposal, OpenProposals
<1>5. ingest'[i] = ingest[i] \/ CheckProposal(i)
  <2>1. ASSUME NEW j \in Ingests, IngestStep(j) PROVE ingest'[i] = ingest[i] \/ CheckProposal(i)
    BY <2>1, IngestMoves
  <2> QED
    BY <2>1, NextSteps, ActivationFrame DEF vars
<1> QED
  BY <1>3, <1>4, <1>5

LEMMA DuplicatesNext ==
  ASSUME TypeInv, Looked, DuplicatesOnlyByRace, [Next]_vars
  PROVE  DuplicatesOnlyByRace'
<1> SUFFICES ASSUME NEW p \in DOMAIN invariant_proposals', NEW q \in DOMAIN invariant_proposals',
                    p < q, invariant_proposals'[p].cluster = invariant_proposals'[q].cluster,
                    invariant_proposals'[p].status = "proposed"
             PROVE  p > invariant_proposals'[q].seen
  BY DEF DuplicatesOnlyByRace
<1>1. CASE p \in DOMAIN invariant_proposals /\ q \in DOMAIN invariant_proposals
  <2>1. Kept(p) /\ Kept(q)
    BY <1>1, ProposalsKept
  <2>2. /\ invariant_proposals[p].status = "proposed"
        /\ invariant_proposals[p].cluster = invariant_proposals[q].cluster
        /\ invariant_proposals'[q].seen = invariant_proposals[q].seen
    BY <2>1 DEF Kept
  <2> QED
    BY <1>1, <2>2 DEF DuplicatesOnlyByRace
<1>2. ASSUME NEW i \in Ingests, CreateProposal(i)
      PROVE  p > invariant_proposals'[q].seen
  <2> DEFINE n == Len(invariant_proposals)
  <2>1. /\ n \in Nat
        /\ DOMAIN invariant_proposals = 1 .. n
        /\ DOMAIN invariant_proposals' = 1 .. n + 1
        /\ \A r \in 1 .. n : invariant_proposals'[r] = invariant_proposals[r]
        /\ invariant_proposals'[n + 1].cluster = Finding[i].cluster
        /\ invariant_proposals'[n + 1].seen = ingest[i].seen
    BY <1>2, NewProposal
  <2> HIDE DEF n
  <2>2. p \in 1 .. n
    BY <2>1
  <2>3. CASE q \in 1 .. n
    BY <1>1, <2>1, <2>2, <2>3
  <2>4. CASE q = n + 1
    <3>1. ingest[i].pc = "create"
      BY <1>2 DEF CreateProposal
    <3>2. /\ invariant_proposals[p].cluster = Finding[i].cluster
          /\ invariant_proposals[p].status = "proposed"
      BY <2>1, <2>2, <2>4
    <3>3. p > ingest[i].seen
      BY <2>1, <2>2, <3>1, <3>2 DEF Looked
    <3> QED
      BY <2>1, <2>4, <3>3
  <2> QED
    BY <2>1, <2>3, <2>4
<1> QED
  BY <1>1, <1>2, ProposalsKept

(***************************************************************************)
(* IngestFinding makes a second open proposal of a cluster only in the     *)
(* race between its look and its insert: a proposal that was open when it  *)
(* looked is never duplicated, whoever approves or proposes meanwhile.     *)
(***************************************************************************)
THEOREM DuplicatesAreRaces == Spec => []DuplicatesOnlyByRace
<1> DEFINE IInv == TypeInv /\ Looked /\ DuplicatesOnlyByRace
<1>1. Init => IInv
  <2>1. Init => Looked /\ DuplicatesOnlyByRace
    BY DEF Init, InitTables, Looked, DuplicatesOnlyByRace, At
  <2> QED
    BY <2>1, TypeInit
<1>2. IInv /\ [Next]_vars => IInv'
  BY TypeNext, LookedNext, DuplicatesNext
<1> QED
  BY <1>1, <1>2, PTL DEF Spec

\* An ingest that found an active invariant is right about that.
FoundActive == \A i \in Ingests :
  ingest[i].pc \in {"checked", "committed"} /\ ingest[i].active
    => active_invariants[Finding[i].cluster] # None

\* What recurs among some of a cluster's findings is over a threshold in its
\* row, which counts them all.
LEMMA RecurringRow ==
  ASSUME TypeInv, CountInv, NEW c \in Clusters,
         NEW T \in SUBSET EventsOf(c, finding_events), Recurring(c, T)
  PROVE  shouldPropose(c, finding_clusters[c])
<1> DEFINE E == EventsOf(c, finding_events)
           cluster == finding_clusters[c]
<1>1. IsFiniteSet(E) /\ T \in SUBSET E
  BY FS_Subset DEF TypeInv, EventsOf
<1>2. /\ cluster.occurrences = Cardinality(E)
      /\ cluster.runs = Distinct("run", E)
      /\ Rank(cluster.severity) = Max({0} \cup {Rank(Finding[i].severity) : i \in E})
  BY DEF CountInv, ClusterCountsEvents
<1>3. cluster.severity \in Severities
  BY DEF TypeInv, TypeOK, Row
<1>4. /\ Distinct("run", T) \in Nat /\ Distinct("run", E) \in Nat
      /\ Distinct("run", T) <= Distinct("run", E)
  BY <1>1, DistinctCounts
<1>5. /\ Cardinality(T) \in Nat /\ Cardinality(E) \in Nat
      /\ Cardinality(T) <= Cardinality(E)
  <2> HIDE DEF E
  <2> QED
    BY <1>1, FS_Subset, FS_CardinalityType
<1>6. CASE \E i \in T : Finding[i].severity = "critical"
  <2> DEFINE R == {0} \cup {Rank(Finding[i].severity) : i \in E}
  <2>1. \A i \in E : Rank(Finding[i].severity) \in 0 .. 4
    BY Ranks, FindingAssumption DEF EventsOf, TypeInv, TypeOK
  <2>2. R \in SUBSET (0 .. 4) /\ R # {}
    BY <2>1
  <2>3. Rank("critical") \in R /\ Rank("critical") = 4
    BY <1>1, <1>6 DEF Rank
  <2>4. Max(R) >= 4
    <3> HIDE DEF R
    <3> QED
      BY <2>2, <2>3, MaxBounded
  <2>5. Rank(cluster.severity) >= 4
    BY <1>2, <2>4
  <2> HIDE DEF cluster
  <2> QED
    BY <1>3, <2>5 DEF Severities, Rank, shouldPropose, cluster
<1>7. CASE ~ \E i \in T : Finding[i].severity = "critical"
  BY <1>2, <1>4, <1>5, <1>7 DEF Recurring, shouldPropose
<1> QED
  BY <1>6, <1>7

RecurringInv == FoundActive /\ RecurringIsProposed

\* A cluster that has an invariant keeps one.
LEMMA ActiveStays ==
  ASSUME TypeInv, [Next]_vars, NEW c \in Clusters, active_invariants[c] # None
  PROVE  active_invariants'[c] # None
<1>1. ASSUME NEW a \in Activations, CommitActivation(a),
             active_invariants'[c] =
                   [id |-> activation[a].id, severity |-> activation[a].severity,
                    mode |-> activation[a].mode, source |-> activation[a].proposal]
      PROVE  active_invariants'[c] # None
  <2>1. Busy(a)
    BY <1>1 DEF CommitActivation, Busy
  <2>2. activation[a] \in ActivationType /\ activation[a].mode \in Modes
    BY <2>1, BusyFacts
  <2>3. active_invariants'[c] \in Invariant
    BY <1>1, <2>2 DEF ActivationType, Invariant
  <2> QED
    BY <2>3, NoneAssumption DEF Invariant
<1> QED
  BY <1>1, InvariantsStep

LEMMA FoundActiveNext ==
  ASSUME TypeInv, FoundActive, [Next]_vars
  PROVE  FoundActive'
<1> SUFFICES ASSUME NEW i \in Ingests, ingest'[i].pc \in {"checked", "committed"}, ingest'[i].active
             PROVE  active_invariants'[Finding[i].cluster] # None
  BY DEF FoundActive
<1>1. Finding[i].cluster \in Clusters
  BY FindingAssumption
<1>2. CASE ingest'[i] = ingest[i]
  BY <1>1, <1>2, ActiveStays DEF FoundActive
<1>3. CASE readActiveInvariant(i)
  BY <1>3 DEF readActiveInvariant, TypeInv, TypeOK
<1>4. CASE CommitFinding(i)
  <2>1. ingest[i].pc = "checked" /\ ingest'[i].active = ingest[i].active
    BY <1>4 DEF CommitFinding, TypeInv, TypeOK
  <2> QED
    BY <1>1, <2>1, ActiveStays DEF FoundActive
<1>5. ingest'[i] = ingest[i] \/ readActiveInvariant(i) \/ CommitFinding(i)
  <2>1. ASSUME NEW j \in Ingests, IngestStep(j)
        PROVE  ingest'[i] = ingest[i] \/ readActiveInvariant(i) \/ CommitFinding(i)
    BY <2>1, IngestMoves
  <2> QED
    BY <2>1, NextSteps, ActivationFrame DEF vars
<1> QED
  BY <1>2, <1>3, <1>4, <1>5

\* An ingest that returns leaves nothing that recurs behind.
LEMMA AnsweredIngest ==
  ASSUME TypeInv, CountInv, RecurringInv, NEW i \in Ingests, IngestStep(i), [Next]_vars,
         NEW c \in Clusters, active_invariants[c] = None, OpenProposals(c)' = {}
  PROVE  ~ Recurring(c, Answered(c)')
<1>1. OpenProposals(c) = {}
  <2>1. CASE UNCHANGED invariant_proposals
    BY <2>1 DEF OpenProposals
  <2>2. CASE CreateProposal(i)
    BY <2>2, NewProposal DEF OpenProposals
  <2> QED
    BY <2>1, <2>2, IngestFrame
<1>2. ~ Recurring(c, Answered(c))
  BY <1>1 DEF RecurringInv, RecurringIsProposed
<1>3. \/ UNCHANGED finding_events
      \/ finding_events' = finding_events \cup {i} /\ ingest'[i].pc = "committed"
  <2>1. CASE CommitFinding(i)
    BY <2>1 DEF CommitFinding, TypeInv, TypeOK
  <2>2. CASE ~ CommitFinding(i)
    BY <2>2, FindingsFrame
  <2> QED
    BY <2>1, <2>2
<1>4. CASE ~ (ingest'[i].pc = "done" /\ Finding[i].cluster = c)
  <2>1. ingest[i].pc # "done"
    BY IngestMoves
  <2>2. \A j \in Ingests :
          /\ j # i => ingest'[j] = ingest[j] /\ (j \in finding_events' <=> j \in finding_events)
          /\ (j \in Answered(c))' <=> j \in Answered(c)
    <3>1. \A j \in Ingests \ {i} : ingest'[j] = ingest[j]
      BY IngestMoves
    <3>2. (i \in Answered(c))' <=> i \in Answered(c)
      BY <1>4, <2>1 DEF Answered, EventsOf
    <3> QED
      BY <1>3, <3>1, <3>2 DEF Answered, EventsOf
  <2>3. finding_events \subseteq Ingests /\ finding_events' \subseteq Ingests
    BY <1>3 DEF TypeInv, TypeOK
  <2>4. Answered(c)' = Answered(c)
    BY <2>2, <2>3 DEF Answered, EventsOf
  <2> QED
    BY <1>2, <2>4
<1>5. CASE ingest'[i].pc = "done" /\ Finding[i].cluster = c
  <2>1. Decide(i) \/ CheckProposal(i) \/ CreateProposal(i)
    BY <1>5, IngestMoves
  <2>2. ~ CheckProposal(i)
    <3>1. SUFFICES ASSUME CheckProposal(i) PROVE FALSE
      OBVIOUS
    <3>2. ~ HasOpenProposal(Finding[i].cluster)
      BY <1>1, <1>5 DEF HasOpenProposal
    <3>3. ingest' = [ingest EXCEPT ![i].pc = "create", ![i].seen = Len(invariant_proposals)]
      BY <3>1, <3>2, Zenon DEF CheckProposal
    <3> QED
      BY <1>5, <3>3 DEF TypeInv, TypeOK
  <2>3. ~ CreateProposal(i)
    <3>1. SUFFICES ASSUME CreateProposal(i) PROVE FALSE
      OBVIOUS
    <3>2. Len(invariant_proposals) + 1 \in OpenProposals(c)'
      BY <1>5, <3>1, NewProposal DEF OpenProposals
    <3> QED
      BY <3>2
  <2>4. Decide(i)
    BY <2>1, <2>2, <2>3
  <2>5. ~ ingest[i].active
    BY <1>5, <2>4 DEF RecurringInv, FoundActive, Decide
  <2>6. ~ shouldPropose(c, finding_clusters[c])
    <3>1. SUFFICES ASSUME shouldPropose(c, finding_clusters[c]) PROVE FALSE
      OBVIOUS
    <3>2. ingest' = [ingest EXCEPT ![i] = At("propose")]
      BY <1>5, <2>4, <2>5, <3>1 DEF Decide, readCluster
    <3> QED
      BY <1>5, <3>2 DEF At, TypeInv, TypeOK
  <2>7. Answered(c)' \subseteq EventsOf(c, finding_events)
    BY <2>4 DEF Decide, Answered
  <2> QED
    BY <2>6, <2>7, RecurringRow
<1> QED
  BY <1>4, <1>5

LEMMA RecurringNext ==
  ASSUME TypeInv, CountInv, RecurringInv, [Next]_vars
  PROVE  RecurringIsProposed'
<1> SUFFICES ASSUME NEW c \in Clusters, active_invariants'[c] = None, OpenProposals(c)' = {}
             PROVE  ~ Recurring(c, Answered(c)')
  BY DEF RecurringIsProposed, Recurring
<1>1. active_invariants[c] = None
  BY ActiveStays
<1>2. ASSUME UNCHANGED <<finding_events, finding_clusters, ingest>>, OpenProposals(c) = {}
      PROVE  ~ Recurring(c, Answered(c)')
  <2>1. Answered(c)' = Answered(c)
    BY <1>2 DEF Answered
  <2> QED
    BY <1>1, <1>2, <2>1 DEF RecurringInv, RecurringIsProposed
<1>3. ASSUME NEW a \in Activations, ActivationStep(a)
      PROVE  OpenProposals(c) = {}
  <2>1. CASE CommitActivation(a)
    <3> DEFINE q == activation[a].proposal
               new == [id |-> activation[a].id, severity |-> activation[a].severity,
                       mode |-> activation[a].mode, source |-> q]
    <3>1. Busy(a)
      BY <2>1 DEF CommitActivation, Busy
    <3>2. activation[a] \in ActivationType /\ activation[a].mode \in Modes
          /\ q \in DOMAIN invariant_proposals
      BY <3>1, BusyFacts
    <3>3. new \in Invariant
      BY <3>2 DEF ActivationType, Invariant
    <3>4. new # None
      BY <3>3, NoneAssumption DEF Invariant
    <3>5. active_invariants' = [active_invariants EXCEPT ![invariant_proposals[q].cluster] = new]
      BY <2>1 DEF CommitActivation
    <3> HIDE DEF new
    <3>6. invariant_proposals[q].cluster # c
      BY <3>4, <3>5 DEF TypeInv, TypeOK
    <3>7. invariant_proposals' = [invariant_proposals EXCEPT ![q].status = "approved"]
      BY <2>1 DEF CommitActivation, MarkApproved
    <3>8. \A p \in DOMAIN invariant_proposals : p # q => invariant_proposals'[p] = invariant_proposals[p]
      BY <3>7
    <3> QED
      BY <3>6, <3>7, <3>8 DEF OpenProposals
  <2>2. CASE ~ CommitActivation(a)
    <3>1. UNCHANGED invariant_proposals
      BY <1>3, <2>2 DEF ActivationStep, LoadProposal, UpsertInvariant, ReadClusterStats,
           AbortActivation
    <3> QED
      BY <3>1 DEF OpenProposals
  <2> QED
    BY <2>1, <2>2
<1>4. CASE UNCHANGED vars
  BY <1>2, <1>4 DEF vars, OpenProposals
<1> QED
  BY <1>1, <1>2, <1>3, <1>4, NextSteps, AnsweredIngest, ActivationFrame

(***************************************************************************)
(* A finding that recurs is not forgotten: as soon as the findings whose   *)
(* ingest has returned recur by themselves, the cluster is proposed or an  *)
(* invariant, whatever ingests are under way or have died.  The cluster is *)
(* read outside the transaction and the proposal is looked for in a        *)
(* statement of its own, and still somebody proposes.                      *)
(***************************************************************************)
THEOREM RecurringGetsProposed == Spec => []RecurringIsProposed
<1> DEFINE IInv == TypeInv /\ CountInv /\ RecurringInv
<1>1. Init => IInv
  <2>1. ASSUME Init, NEW c \in Clusters PROVE ~ Recurring(c, Answered(c))
    <3>1. Answered(c) = {}
      BY <2>1 DEF Init, InitTables, Answered, EventsOf
    <3>2. Cardinality({}) = 0
      BY FS_EmptySet
    <3> QED
      BY <3>1, <3>2 DEF Recurring
  <2>2. Init => FoundActive
    BY DEF Init, InitTables, FoundActive, At
  <2> QED
    BY <2>1, <2>2, TypeInit, CountInit DEF RecurringInv, RecurringIsProposed
<1>2. IInv /\ [Next]_vars => IInv'
  BY TypeNext, CountNext, FoundActiveNext, RecurringNext DEF RecurringInv
<1>3. IInv => RecurringIsProposed
  BY DEF RecurringInv
<1> QED
  BY <1>1, <1>2, <1>3, PTL DEF Spec

-----------------------------------------------------------------------------
(* The statistics of the invariants.                                       *)

ClusterOf(a) == invariant_proposals[activation[a].proposal].cluster

\* An ingest and an activation of one cluster at once are noted.
RaceNoted == \A i \in Ingests, a \in Activations :
  InTransaction(i) /\ Busy(a) /\ ClusterOf(a) = Finding[i].cluster => Finding[i].cluster \in raced

\* An ingest that found no invariant where there is one was overtaken.
MissNoted == \A i \in Ingests :
  /\ ingest[i].pc = "checked" /\ ~ ingest[i].active
  /\ active_invariants[Finding[i].cluster] # None
  => Finding[i].cluster \in raced

\* What an activation has read is what the cluster has, or had.
SeedRead == \A a \in Activations : activation[a].pc = "seeded" =>
  /\ ClusterOf(a) \notin raced => activation[a].stats = cluster_stage_stats[ClusterOf(a)]
  /\ \A s \in Stages : activation[a].stats[s].seen <= cluster_stage_stats[ClusterOf(a)][s].seen

\* A row that has seen nothing is empty, in both tables, and an invariant has
\* never seen more than its cluster.
RowsEmpty == \A c \in Clusters, s \in Stages :
  /\ cluster_stage_stats[c][s].seen = 0 => cluster_stage_stats[c][s] = NoStats
  /\ invariant_stage_stats[c][s].seen = 0 => invariant_stage_stats[c][s] = NoStats
  /\ invariant_stage_stats[c][s].seen <= cluster_stage_stats[c][s].seen

Followed == \A c \in Clusters :
  active_invariants[c] # None /\ c \notin raced => invariant_stage_stats[c] = cluster_stage_stats[c]

StatsInv == RaceNoted /\ MissNoted /\ SeedRead /\ RowsEmpty /\ Followed

LEMMA StatsInit == Init => StatsInv
<1> SUFFICES ASSUME Init PROVE StatsInv
  OBVIOUS
<1>1. /\ \A i \in Ingests : ingest[i].pc = "new"
      /\ \A a \in Activations : activation[a].pc = "new"
  BY DEF Init, InitTables, At, Idle
<1>2. \A c \in Clusters, s \in Stages :
        cluster_stage_stats[c][s] = NoStats /\ invariant_stage_stats[c][s] = NoStats
  BY DEF Init, InitTables
<1>3. RaceNoted /\ MissNoted /\ SeedRead
  BY <1>1 DEF RaceNoted, MissNoted, SeedRead, InTransaction
<1>4. RowsEmpty
  BY <1>2 DEF RowsEmpty, NoStats
<1>5. Followed
  BY DEF Init, InitTables, Followed
<1> QED
  BY <1>3, <1>4, <1>5 DEF StatsInv

\* Races are noted for good.
LEMMA RacedGrows ==
  ASSUME [Next]_vars
  PROVE  raced \subseteq raced'
<1>1. ASSUME NEW i \in Ingests, IngestStep(i) PROVE raced \subseteq raced'
  BY <1>1 DEF IngestStep, RecordFinding, readActiveInvariant, CommitFinding, Decide,
       CheckProposal, CreateProposal, AbortIngest, NoteRace
<1>2. ASSUME NEW a \in Activations, ActivationStep(a) PROVE raced \subseteq raced'
  BY <1>2 DEF ActivationStep, LoadProposal, UpsertInvariant, ReadClusterStats, CommitActivation,
       AbortActivation, NoteRace
<1> QED
  BY <1>1, <1>2, NextSteps DEF vars

\* The cluster of an activation under way does not change.
LEMMA ClusterKept ==
  ASSUME TypeInv, [Next]_vars, NEW a \in Activations, Busy(a),
         activation'[a].proposal = activation[a].proposal
  PROVE  ClusterOf(a)' = ClusterOf(a) /\ ClusterOf(a) \in Clusters
BY BusyFacts, ProposalsKept DEF Kept, ClusterOf

LEMMA RaceNotedNext ==
  ASSUME TypeInv, StatsInv, [Next]_vars
  PROVE  RaceNoted'
<1> SUFFICES ASSUME NEW i \in Ingests, NEW a \in Activations, InTransaction(i)', Busy(a)',
                    ClusterOf(a)' = Finding[i].cluster
             PROVE  Finding[i].cluster \in raced'
  BY DEF RaceNoted
<1>1. \/ \E j \in Ingests : IngestStep(j)
      \/ \E b \in Activations : ActivationStep(b)
      \/ UNCHANGED vars
  BY NextSteps
<1>2. ASSUME InTransaction(i), Busy(a), activation'[a].proposal = activation[a].proposal
      PROVE  Finding[i].cluster \in raced'
  BY <1>2, ClusterKept, RacedGrows DEF StatsInv, RaceNoted
<1>3. ASSUME NEW j \in Ingests, IngestStep(j) PROVE Finding[i].cluster \in raced'
  <2>1. activation' = activation /\ Busy(a)
    BY <1>3, IngestFrame DEF Busy
  <2>2. CASE InTransaction(i)
    BY <1>2, <2>1, <2>2
  <2>3. CASE ~ InTransaction(i)
    <3>1. j = i /\ RecordFinding(i)
      BY <1>3, <2>3, IngestMoves DEF InTransaction
    <3>2. ClusterOf(a) = Finding[i].cluster
      BY <2>1, ClusterKept
    <3>3. ActivationOf(a, Finding[i].cluster)
      BY <2>1, <3>2 DEF ActivationOf, ClusterOf, Busy
    <3> QED
      BY <3>1, <3>3 DEF RecordFinding, NoteRace
  <2> QED
    BY <2>2, <2>3
<1>4. ASSUME NEW b \in Activations, ActivationStep(b) PROVE Finding[i].cluster \in raced'
  <2>1. ingest' = ingest /\ InTransaction(i)
    BY <1>4, ActivationFrame DEF InTransaction
  <2>2. CASE Busy(a) /\ activation'[a].proposal = activation[a].proposal
    BY <1>2, <2>1, <2>2
  <2>3. ASSUME NEW p \in DOMAIN invariant_proposals, NEW mode \in Modes, LoadProposal(a, p, mode)
        PROVE  Finding[i].cluster \in raced'
    <3>1. activation'[a].proposal = p /\ UNCHANGED invariant_proposals
      BY <2>3 DEF LoadProposal, TypeInv, TypeOK
    <3>2. invariant_proposals[p].cluster = Finding[i].cluster
      BY <3>1 DEF ClusterOf
    <3>3. ~ RowFree(Finding[i].cluster)
      BY <2>1 DEF RowFree
    <3> QED
      BY <2>3, <3>2, <3>3 DEF LoadProposal, NoteRace
  <2>4. \/ Busy(a) /\ activation'[a].proposal = activation[a].proposal
        \/ \E p \in DOMAIN invariant_proposals, mode \in Modes : LoadProposal(a, p, mode)
    BY <1>4, ActivationMoves DEF Busy
  <2> QED
    BY <2>2, <2>3, <2>4
<1>5. CASE UNCHANGED vars
  BY <1>2, <1>5 DEF vars, InTransaction, Busy
<1> QED
  BY <1>1, <1>3, <1>4, <1>5

LEMMA MissNotedNext ==
  ASSUME TypeInv, StatsInv, [Next]_vars
  PROVE  MissNoted'
<1> SUFFICES ASSUME NEW i \in Ingests, ingest'[i].pc = "checked", ~ ingest'[i].active,
                    active_invariants'[Finding[i].cluster] # None
             PROVE  Finding[i].cluster \in raced'
  BY DEF MissNoted
<1> DEFINE c == Finding[i].cluster
<1>1. c \in Clusters
  BY FindingAssumption
<1>2. CASE readActiveInvariant(i)
  BY <1>2 DEF readActiveInvariant, TypeInv, TypeOK
<1>3. CASE ingest'[i] = ingest[i]
  <2>1. CASE active_invariants[c] # None
    BY <1>3, <2>1, RacedGrows DEF StatsInv, MissNoted
  <2>2. CASE active_invariants[c] = None
    <3>1. PICK a \in Activations : CommitActivation(a) /\ ClusterOf(a) = c
      BY <1>1, <2>2, InvariantsStep DEF ClusterOf
    <3>2. Busy(a) /\ InTransaction(i)
      BY <1>3, <3>1 DEF CommitActivation, Busy, InTransaction
    <3> QED
      BY <3>1, <3>2, RacedGrows DEF StatsInv, RaceNoted
  <2> QED
    BY <2>1, <2>2
<1>4. ingest'[i] = ingest[i] \/ readActiveInvariant(i)
  <2>1. ASSUME NEW j \in Ingests, IngestStep(j)
        PROVE  ingest'[i] = ingest[i] \/ readActiveInvariant(i)
    BY <2>1, IngestMoves
  <2> QED
    BY <2>1, NextSteps, ActivationFrame DEF vars
<1> QED
  BY <1>2, <1>3, <1>4

\* A row of the statistics after a finding: it has seen one more, or is as before.
LEMMA AddedRow ==
  ASSUME NEW stats \in [Stages -> Stats], NEW i \in Ingests, NEW s \in Stages
  PROVE  /\ stats[s].seen \in Nat
         /\ AddToStats(stats, i)[s].seen =
              IF Finding[i].stage = s THEN stats[s].seen + 1 ELSE stats[s].seen
         /\ Finding[i].stage # s => AddToStats(stats, i)[s] = stats[s]
BY FindingAssumption DEF AddToStats, Stats

\* What a commit of a finding does to the statistics of its cluster.
LEMMA StatsCommitFinding ==
  ASSUME TypeInv, StatsInv, FoundActive, NEW i \in Ingests, CommitFinding(i)
  PROVE  RowsEmpty' /\ Followed' /\ SeedRead'
<1> DEFINE c == Finding[i].cluster
<1>1. c \in Clusters /\ InTransaction(i)
  BY FindingAssumption DEF CommitFinding, InTransaction
<1>2. /\ UNCHANGED <<active_invariants, raced, activation, invariant_proposals>>
      /\ \A d \in Clusters \ {c} : /\ cluster_stage_stats'[d] = cluster_stage_stats[d]
                                   /\ invariant_stage_stats'[d] = invariant_stage_stats[d]
      /\ cluster_stage_stats'[c] = AddToStats(cluster_stage_stats[c], i)
      /\ invariant_stage_stats'[c] =
           IF ingest[i].active THEN AddToStats(invariant_stage_stats[c], i)
                               ELSE invariant_stage_stats[c]
  BY <1>1 DEF CommitFinding, TypeInv, TypeOK
<1>3. /\ cluster_stage_stats[c] \in [Stages -> Stats]
      /\ invariant_stage_stats[c] \in [Stages -> Stats]
  BY <1>1 DEF TypeInv, TypeOK
<1>4. ASSUME NEW s \in Stages
      PROVE  /\ cluster_stage_stats'[c][s].seen = 0 => cluster_stage_stats'[c][s] = NoStats
             /\ invariant_stage_stats'[c][s].seen = 0 => invariant_stage_stats'[c][s] = NoStats
             /\ invariant_stage_stats'[c][s].seen <= cluster_stage_stats'[c][s].seen
             /\ cluster_stage_stats[c][s].seen <= cluster_stage_stats'[c][s].seen
             /\ cluster_stage_stats[c][s].seen \in Nat /\ cluster_stage_stats'[c][s].seen \in Nat
  <2>1. /\ cluster_stage_stats[c][s].seen = 0 => cluster_stage_stats[c][s] = NoStats
        /\ invariant_stage_stats[c][s].seen = 0 => invariant_stage_stats[c][s] = NoStats
        /\ invariant_stage_stats[c][s].seen <= cluster_stage_stats[c][s].seen
    BY <1>1 DEF StatsInv, RowsEmpty
  <2> DEFINE x == cluster_stage_stats[c]
             y == invariant_stage_stats[c]
  <2>2. /\ x[s].seen \in Nat /\ y[s].seen \in Nat
        /\ AddToStats(x, i)[s].seen = IF Finding[i].stage = s THEN x[s].seen + 1 ELSE x[s].seen
        /\ Finding[i].stage # s => AddToStats(x, i)[s] = x[s]
        /\ AddToStats(y, i)[s].seen = IF Finding[i].stage = s THEN y[s].seen + 1 ELSE y[s].seen
        /\ Finding[i].stage # s => AddToStats(y, i)[s] = y[s]
    BY <1>3, AddedRow
  <2> HIDE DEF x, y
  <2>3. /\ cluster_stage_stats'[c][s].seen = 0 => cluster_stage_stats'[c][s] = NoStats
        /\ cluster_stage_stats[c][s].seen <= cluster_stage_stats'[c][s].seen
        /\ cluster_stage_stats[c][s].seen \in Nat /\ cluster_stage_stats'[c][s].seen \in Nat
    BY <1>2, <2>1, <2>2 DEF x, y
  <2>4. CASE ingest[i].active
    BY <1>2, <2>1, <2>2, <2>3, <2>4 DEF x, y
  <2>5. CASE ~ ingest[i].active
    BY <1>2, <2>1, <2>2, <2>3, <2>5 DEF x, y
  <2> QED
    BY <2>3, <2>4, <2>5
<1>5. RowsEmpty'
  <2>1. ASSUME NEW d \in Clusters, NEW s \in Stages
        PROVE  /\ cluster_stage_stats'[d][s].seen = 0 => cluster_stage_stats'[d][s] = NoStats
               /\ invariant_stage_stats'[d][s].seen = 0 => invariant_stage_stats'[d][s] = NoStats
               /\ invariant_stage_stats'[d][s].seen <= cluster_stage_stats'[d][s].seen
    <3>1. CASE d = c
      BY <1>4, <3>1
    <3>2. CASE d # c
      BY <1>2, <3>2 DEF StatsInv, RowsEmpty
    <3> QED
      BY <3>1, <3>2
  <2> QED
    BY <2>1 DEF RowsEmpty
<1>6. ASSUME NEW d \in Clusters, active_invariants[d] # None, d \notin raced
      PROVE  invariant_stage_stats'[d] = cluster_stage_stats'[d]
  <2>1. invariant_stage_stats[d] = cluster_stage_stats[d]
    BY <1>6 DEF StatsInv, Followed
  <2>2. CASE d = c
    <3>1. ingest[i].active
      BY <1>6, <2>2 DEF StatsInv, MissNoted, CommitFinding
    <3> QED
      BY <1>2, <2>1, <2>2, <3>1
  <2>3. CASE d # c
    BY <1>2, <2>1, <2>3
  <2> QED
    BY <2>2, <2>3
<1>7. ASSUME NEW a \in Activations, activation[a].pc = "seeded"
      PROVE  /\ ClusterOf(a) \notin raced => activation[a].stats = cluster_stage_stats'[ClusterOf(a)]
             /\ \A s \in Stages :
                  activation[a].stats[s].seen <= cluster_stage_stats'[ClusterOf(a)][s].seen
  <2>1. Busy(a) /\ ClusterOf(a) \in Clusters /\ activation[a] \in ActivationType
    BY <1>7, BusyFacts DEF Busy, ClusterOf
  <2>2. /\ ClusterOf(a) \notin raced => activation[a].stats = cluster_stage_stats[ClusterOf(a)]
        /\ \A s \in Stages : activation[a].stats[s].seen <= cluster_stage_stats[ClusterOf(a)][s].seen
    BY <1>7 DEF StatsInv, SeedRead
  <2>3. CASE ClusterOf(a) = c
    <3>1. c \in raced
      BY <1>1, <2>1, <2>3 DEF StatsInv, RaceNoted
    <3>2. \A s \in Stages : activation[a].stats[s] \in Stats
      BY <2>1 DEF ActivationType
    <3>3. \A s \in Stages : activation[a].stats[s].seen \in Nat
      BY <3>2 DEF Stats
    <3>4. \A s \in Stages : activation[a].stats[s].seen <= cluster_stage_stats'[c][s].seen
      <4>1. SUFFICES ASSUME NEW s \in Stages
                     PROVE  activation[a].stats[s].seen <= cluster_stage_stats'[c][s].seen
        OBVIOUS
      <4>2. activation[a].stats[s].seen <= cluster_stage_stats[c][s].seen
        BY <2>2, <2>3
      <4> QED
        BY <1>4, <3>3, <4>2
    <3> QED
      BY <2>3, <3>1, <3>4
  <2>4. CASE ClusterOf(a) # c
    BY <1>2, <2>1, <2>2, <2>4
  <2> QED
    BY <2>3, <2>4
<1>8. \A a \in Activations : ClusterOf(a)' = ClusterOf(a)
  BY <1>2 DEF ClusterOf
<1> QED
  BY <1>2, <1>5, <1>6, <1>7, <1>8 DEF Followed, SeedRead

\* What the commit of an activation does: the seed replaces the rows it has.
LEMMA StatsCommitActivation ==
  ASSUME TypeInv, StatsInv, NEW a \in Activations, CommitActivation(a)
  PROVE  RowsEmpty' /\ Followed'
<1> DEFINE c == ClusterOf(a)
           seed == activation[a].stats
<1>1. Busy(a) /\ activation[a].pc = "seeded"
  BY DEF CommitActivation, Busy
<1>2. c \in Clusters /\ activation[a] \in ActivationType
  BY <1>1, BusyFacts DEF ClusterOf
<1>3. /\ raced' = raced /\ cluster_stage_stats' = cluster_stage_stats
      /\ \A d \in Clusters \ {c} : /\ invariant_stage_stats'[d] = invariant_stage_stats[d]
                                   /\ active_invariants'[d] = active_invariants[d]
      /\ invariant_stage_stats'[c] = [s \in Stages |-> Seed(invariant_stage_stats[c][s], seed[s])]
  BY <1>2 DEF CommitActivation, ClusterOf, TypeInv, TypeOK
<1>4. /\ c \notin raced => seed = cluster_stage_stats[c]
      /\ \A s \in Stages : seed[s].seen <= cluster_stage_stats[c][s].seen
  BY <1>1 DEF StatsInv, SeedRead
<1>5. cluster_stage_stats[c] \in [Stages -> Stats] /\ invariant_stage_stats[c] \in [Stages -> Stats]
  BY <1>2 DEF TypeInv, TypeOK
<1>6. ASSUME NEW s \in Stages
      PROVE  /\ cluster_stage_stats[c][s].seen = 0 => cluster_stage_stats[c][s] = NoStats
             /\ invariant_stage_stats[c][s].seen = 0 => invariant_stage_stats[c][s] = NoStats
             /\ invariant_stage_stats[c][s].seen <= cluster_stage_stats[c][s].seen
             /\ invariant_stage_stats[c][s].seen \in Nat /\ cluster_stage_stats[c][s].seen \in Nat
  BY <1>2, <1>5 DEF StatsInv, RowsEmpty, Stats
<1>7. RowsEmpty'
  <2>1. ASSUME NEW d \in Clusters, NEW s \in Stages
        PROVE  /\ cluster_stage_stats'[d][s].seen = 0 => cluster_stage_stats'[d][s] = NoStats
               /\ invariant_stage_stats'[d][s].seen = 0 => invariant_stage_stats'[d][s] = NoStats
               /\ invariant_stage_stats'[d][s].seen <= cluster_stage_stats'[d][s].seen
    <3>1. CASE d = c
      <4>1. invariant_stage_stats'[c][s] = IF seed[s].seen = 0 THEN invariant_stage_stats[c][s]
                                                               ELSE seed[s]
        BY <1>3 DEF Seed
      <4> QED
        BY <1>3, <1>4, <1>6, <3>1, <4>1
    <3>2. CASE d # c
      BY <1>3, <3>2 DEF StatsInv, RowsEmpty
    <3> QED
      BY <3>1, <3>2
  <2> QED
    BY <2>1 DEF RowsEmpty
<1>8. ASSUME NEW d \in Clusters, active_invariants'[d] # None, d \notin raced
      PROVE  invariant_stage_stats'[d] = cluster_stage_stats[d]
  <2>1. CASE d = c
    <3>1. seed = cluster_stage_stats[c]
      BY <1>4, <1>8, <2>1
    <3>2. ASSUME NEW s \in Stages
          PROVE  Seed(invariant_stage_stats[c][s], seed[s]) = cluster_stage_stats[c][s]
      <4>1. CASE seed[s].seen = 0
        <5>1. invariant_stage_stats[c][s].seen = 0
          BY <1>6, <3>1, <4>1
        <5> QED
          BY <1>6, <3>1, <4>1, <5>1 DEF Seed
      <4>2. CASE seed[s].seen # 0
        BY <3>1, <4>2 DEF Seed
      <4> QED
        BY <4>1, <4>2
    <3>3. invariant_stage_stats'[c] = [s \in Stages |-> cluster_stage_stats[c][s]]
      BY <1>3, <3>2
    <3> QED
      BY <1>5, <2>1, <3>3
  <2>2. CASE d # c
    BY <1>3, <1>8, <2>2 DEF StatsInv, Followed
  <2> QED
    BY <2>1, <2>2
<1> QED
  BY <1>3, <1>7, <1>8 DEF Followed

LEMMA SeedReadNext ==
  ASSUME TypeInv, StatsInv, FoundActive, [Next]_vars
  PROVE  SeedRead'
<1>1. ASSUME NEW i \in Ingests, CommitFinding(i) PROVE SeedRead'
  BY <1>1, StatsCommitFinding
<1>2. ASSUME UNCHANGED cluster_stage_stats PROVE SeedRead'
  <2> SUFFICES ASSUME NEW a \in Activations, activation'[a].pc = "seeded"
               PROVE  /\ ClusterOf(a)' \notin raced' =>
                           activation'[a].stats = cluster_stage_stats'[ClusterOf(a)']
                      /\ \A s \in Stages : activation'[a].stats[s].seen
                                             <= cluster_stage_stats'[ClusterOf(a)'][s].seen
    BY DEF SeedRead
  <2>1. CASE activation'[a] = activation[a]
    <3>1. ClusterOf(a)' = ClusterOf(a)
      BY <2>1, ClusterKept DEF Busy
    <3> QED
      BY <1>2, <2>1, <3>1, RacedGrows DEF StatsInv, SeedRead
  <2>2. CASE ReadClusterStats(a)
    <3>1. Busy(a) /\ activation'[a].proposal = activation[a].proposal
      BY <2>2 DEF ReadClusterStats, Busy, TypeInv, TypeOK
    <3>2. ClusterOf(a)' = ClusterOf(a) /\ ClusterOf(a) \in Clusters
      BY <3>1, ClusterKept
    <3>3. activation'[a].stats = cluster_stage_stats[ClusterOf(a)]
      BY <2>2 DEF ReadClusterStats, ClusterOf, TypeInv, TypeOK
    <3>4. cluster_stage_stats[ClusterOf(a)] \in [Stages -> Stats]
      BY <3>2 DEF TypeInv, TypeOK
    <3>5. \A s \in Stages : cluster_stage_stats[ClusterOf(a)][s].seen \in Nat
      BY <3>4 DEF Stats
    <3> QED
      BY <1>2, <3>2, <3>3, <3>5
  <2>3. activation'[a] = activation[a] \/ ReadClusterStats(a)
    <3>1. ASSUME NEW b \in Activations, ActivationStep(b)
          PROVE  activation'[a] = activation[a] \/ ReadClusterStats(a)
      BY <3>1, ActivationMoves
    <3> QED
      BY <3>1, NextSteps, IngestFrame DEF vars
  <2> QED
    BY <2>1, <2>2, <2>3
<1>3. UNCHANGED cluster_stage_stats \/ \E i \in Ingests : CommitFinding(i)
  BY NextSteps, FindingsFrame, ActivationFrame DEF vars
<1> QED
  BY <1>1, <1>2, <1>3

LEMMA StatsNext ==
  ASSUME TypeInv, StatsInv, FoundActive, [Next]_vars
  PROVE  StatsInv'
<1>1. RowsEmpty' /\ Followed'
  <2>1. ASSUME NEW i \in Ingests, CommitFinding(i) PROVE RowsEmpty' /\ Followed'
    BY <2>1, StatsCommitFinding
  <2>2. ASSUME NEW a \in Activations, CommitActivation(a) PROVE RowsEmpty' /\ Followed'
    BY <2>2, StatsCommitActivation
  <2>3. ASSUME UNCHANGED <<cluster_stage_stats, invariant_stage_stats, active_invariants>>
        PROVE  RowsEmpty' /\ Followed'
    BY <2>3, RacedGrows DEF StatsInv, RowsEmpty, Followed
  <2>4. \/ UNCHANGED <<cluster_stage_stats, invariant_stage_stats, active_invariants>>
        \/ \E i \in Ingests : CommitFinding(i)
        \/ \E a \in Activations : CommitActivation(a)
    <3>1. ASSUME NEW a \in Activations, ActivationStep(a), ~ CommitActivation(a)
          PROVE  UNCHANGED <<cluster_stage_stats, invariant_stage_stats, active_invariants>>
      BY <3>1 DEF ActivationStep, LoadProposal, UpsertInvariant, ReadClusterStats, AbortActivation
    <3> QED
      BY <3>1, NextSteps, FindingsFrame, IngestFrame DEF vars
  <2> QED
    BY <2>1, <2>2, <2>3, <2>4
<1> QED
  BY <1>1, RaceNotedNext, MissNotedNext, SeedReadNext DEF StatsInv

(***************************************************************************)
(* The statistics of an invariant are those of its cluster unless a        *)
(* finding and an activation of the cluster overlapped, and never count a  *)
(* finding twice: ActivateProposal overwrites the rows it seeds.           *)
(***************************************************************************)
THEOREM InvariantStatsAreRight == Spec => []InvariantStatsFollow
<1> DEFINE IInv == TypeInv /\ FoundActive /\ StatsInv
<1>1. Init => IInv
  <2>1. Init => FoundActive
    BY DEF Init, InitTables, FoundActive, At
  <2> QED
    BY <2>1, TypeInit, StatsInit
<1>2. IInv /\ [Next]_vars => IInv'
  BY TypeNext, FoundActiveNext, StatsNext
<1>3. IInv => InvariantStatsFollow
  BY DEF StatsInv, Followed, RowsEmpty, InvariantStatsFollow
<1> QED
  BY <1>1, <1>2, <1>3, PTL DEF Spec

-----------------------------------------------------------------------------
(* What a stage is given.  The order of RankedInvariants is by score and   *)
(* then by id, so that it is an order at all rests on the ids: no two      *)
(* invariants have the same, also while activations are under way.         *)

Holding(a) == activation[a].pc \in {"upserted", "seeded"}
Active == {c \in Clusters : active_invariants[c] # None}

IdsUnique ==
  /\ \A c, d \in Active : active_invariants[c].id = active_invariants[d].id => c = d
  /\ \A a \in Activations, d \in Active :
       Holding(a) /\ active_invariants[d].id = activation[a].id => d = ClusterOf(a)
  /\ \A a, b \in Activations :
       Holding(a) /\ Holding(b) /\ activation[a].id = activation[b].id
         => ClusterOf(a) = ClusterOf(b)

RankInv == IsFiniteSet(Active) /\ IdsUnique

LEMMA RankInit == Init => RankInv
<1> SUFFICES ASSUME Init PROVE RankInv
  OBVIOUS
<1>1. Active = {}
  BY DEF Init, InitTables, Active
<1>2. \A a \in Activations : activation[a].pc = "new"
  BY DEF Init, InitTables, Idle
<1> QED
  BY <1>1, <1>2, FS_EmptySet DEF RankInv, IdsUnique, Holding

\* The steps that neither write an invariant nor take an id.
LEMMA RankFrame ==
  ASSUME TypeInv, RankInv, [Next]_vars, UNCHANGED active_invariants,
         \A b \in Activations : Holding(b)' =>
           Holding(b) /\ activation'[b].id = activation[b].id
             /\ activation'[b].proposal = activation[b].proposal
  PROVE  RankInv'
<1>1. Active' = Active
  BY DEF Active
<1>2. \A b \in Activations : Holding(b)' => ClusterOf(b)' = ClusterOf(b)
  BY ClusterKept DEF Holding, Busy
<1> QED
  BY <1>1, <1>2 DEF RankInv, IdsUnique

LEMMA RankUpsert ==
  ASSUME TypeInv, RankInv, NEW a \in Activations, UpsertInvariant(a), [Next]_vars
  PROVE  RankInv'
<1> DEFINE c == ClusterOf(a)
<1>1. Busy(a) /\ c \in Clusters /\ activation[a] \in ActivationType
  BY BusyFacts DEF UpsertInvariant, Busy, ClusterOf
<1>2. UNCHANGED active_invariants /\ Active' = Active
  BY DEF UpsertInvariant, Active
<1>3. /\ \A b \in Activations \ {a} : activation'[b] = activation[b]
      /\ activation'[a].proposal = activation[a].proposal
      /\ activation'[a].id = IF c \in Active THEN active_invariants[c].id ELSE Max(Ids) + 1
  BY <1>1 DEF UpsertInvariant, ClusterOf, Active, TypeInv, TypeOK
<1>4. ClusterOf(a)' = c /\ \A b \in Activations : Busy(b) /\ b # a => ClusterOf(b)' = ClusterOf(b)
  BY <1>1, <1>3, ClusterKept
<1>5. Max(Ids) \in Nat /\ IdsUpTo(Max(Ids))
  BY NewId
<1>6. /\ \A d \in Active : active_invariants[d].id \in Nat
      /\ \A b \in Activations : activation[b].id \in Nat
  BY DEF TypeInv, TypeOK, Active
<1>7. ASSUME NEW d \in Active, active_invariants[d].id = activation'[a].id PROVE d = c
  <2>1. CASE c \in Active
    BY <1>3, <1>7, <2>1 DEF RankInv, IdsUnique
  <2>2. CASE c \notin Active
    <3>1. active_invariants[d].id <= Max(Ids)
      BY <1>5 DEF IdsUpTo, Active
    <3> QED
      BY <1>3, <1>5, <1>6, <1>7, <2>2, <3>1
  <2> QED
    BY <2>1, <2>2
<1>8. ASSUME NEW b \in Activations \ {a}, Holding(b), activation[b].id = activation'[a].id
      PROVE  ClusterOf(b) = c
  <2>1. CASE c \in Active
    BY <1>3, <1>8, <2>1 DEF RankInv, IdsUnique
  <2>2. CASE c \notin Active
    <3>1. activation[b].id <= Max(Ids)
      BY <1>5 DEF IdsUpTo
    <3> QED
      BY <1>3, <1>5, <1>6, <1>8, <2>2, <3>1
  <2> QED
    BY <2>1, <2>2
<1>9. \A b \in Activations \ {a} :
        Holding(b)' => Holding(b) /\ Busy(b) /\ ClusterOf(b)' = ClusterOf(b)
                         /\ activation'[b].id = activation[b].id
  BY <1>3, <1>4 DEF Holding, Busy
<1>10. ASSUME NEW b \in Activations, NEW d \in Active, Holding(b)',
              active_invariants[d].id = activation'[b].id
       PROVE  d = ClusterOf(b)'
  BY <1>4, <1>7, <1>9, <1>10 DEF RankInv, IdsUnique
<1>11. ASSUME NEW b \in Activations, NEW e \in Activations, Holding(b)', Holding(e)',
              activation'[b].id = activation'[e].id
       PROVE  ClusterOf(b)' = ClusterOf(e)'
  <2>1. CASE b = e
    BY <2>1
  <2>2. CASE b = a /\ e # a
    BY <1>4, <1>8, <1>9, <1>11, <2>2
  <2>3. CASE b # a /\ e = a
    BY <1>4, <1>8, <1>9, <1>11, <2>3
  <2>4. CASE b # a /\ e # a
    BY <1>9, <1>11, <2>4 DEF RankInv, IdsUnique
  <2> QED
    BY <2>1, <2>2, <2>3, <2>4
<1> QED
  BY <1>2, <1>10, <1>11 DEF RankInv, IdsUnique

LEMMA RankCommit ==
  ASSUME TypeInv, RankInv, NEW a \in Activations, CommitActivation(a), [Next]_vars
  PROVE  RankInv'
<1> DEFINE c == ClusterOf(a)
<1>1. Busy(a) /\ c \in Clusters /\ Holding(a)
  BY BusyFacts DEF CommitActivation, Busy, Holding, ClusterOf
<1>2. /\ \A d \in Clusters \ {c} : active_invariants'[d] = active_invariants[d]
      /\ active_invariants'[c].id = activation[a].id
      /\ \A b \in Activations \ {a} : activation'[b] = activation[b]
      /\ activation'[a].pc = "done"
  BY <1>1 DEF CommitActivation, ClusterOf, Idle, TypeInv, TypeOK
<1>3. Active' \subseteq Active \cup {c}
  BY <1>2 DEF Active
<1>4. IsFiniteSet(Active')
  <2>1. IsFiniteSet(Active \cup {c})
    BY FS_AddElement DEF RankInv
  <2> QED
    BY <1>3, <2>1, FS_Subset
<1>5. \A b \in Activations : Holding(b)' =>
        b # a /\ Holding(b) /\ ClusterOf(b)' = ClusterOf(b) /\ activation'[b] = activation[b]
  BY <1>2, ClusterKept DEF Holding, Busy
<1>6. \A d \in Active' : d # c => d \in Active /\ active_invariants'[d] = active_invariants[d]
  BY <1>2, <1>3 DEF Active
<1>7. ASSUME NEW d \in Active', NEW e \in Active', active_invariants'[d].id = active_invariants'[e].id
      PROVE  d = e
  BY <1>1, <1>2, <1>6, <1>7 DEF RankInv, IdsUnique
<1>8. ASSUME NEW b \in Activations, NEW d \in Active', Holding(b)',
             active_invariants'[d].id = activation'[b].id
      PROVE  d = ClusterOf(b)'
  BY <1>1, <1>2, <1>5, <1>6, <1>8 DEF RankInv, IdsUnique
<1>9. ASSUME NEW b \in Activations, NEW e \in Activations, Holding(b)', Holding(e)',
             activation'[b].id = activation'[e].id
      PROVE  ClusterOf(b)' = ClusterOf(e)'
  BY <1>5, <1>9 DEF RankInv, IdsUnique
<1> QED
  BY <1>4, <1>7, <1>8, <1>9 DEF RankInv, IdsUnique

LEMMA RankNext ==
  ASSUME TypeInv, RankInv, [Next]_vars
  PROVE  RankInv'
<1>1. ASSUME NEW a \in Activations, ActivationStep(a) PROVE RankInv'
  <2>1. CASE UpsertInvariant(a)
    BY <2>1, RankUpsert
  <2>2. CASE CommitActivation(a)
    BY <2>2, RankCommit
  <2>3. CASE ~ UpsertInvariant(a) /\ ~ CommitActivation(a)
    <3>1. UNCHANGED active_invariants
      BY <1>1, <2>3 DEF ActivationStep, LoadProposal, ReadClusterStats, AbortActivation
    <3>2. \A b \in Activations : Holding(b)' =>
            Holding(b) /\ activation'[b].id = activation[b].id
              /\ activation'[b].proposal = activation[b].proposal
      BY <1>1, <2>3, ActivationMoves DEF Holding
    <3> QED
      BY <3>1, <3>2, RankFrame
  <2> QED
    BY <2>1, <2>2, <2>3
<1>2. ASSUME UNCHANGED <<active_invariants, activation>> PROVE RankInv'
  BY <1>2, RankFrame DEF Holding
<1> QED
  BY <1>1, <1>2, NextSteps, IngestFrame DEF vars

LEMMA ScoreType ==
  ASSUME TypeInv, NEW c \in Active, NEW stage \in Stages
  PROVE  Score(c, stage) \in Nat /\ active_invariants[c].id \in Nat
<1>1. active_invariants[c] \in Invariant /\ c \in Clusters
  BY DEF TypeInv, TypeOK, Active, Invariant
<1>2. /\ active_invariants[c].id \in Nat
      /\ active_invariants[c].severity \in Severities
      /\ active_invariants[c].mode \in {"block", "warn", "inform"}
  BY <1>1, ModesAssumption DEF Invariant
<1>3. invariant_stage_stats[c][stage] \in Stats
  BY <1>1 DEF TypeInv, TypeOK
<1>4. /\ invariant_stage_stats[c][stage].seen \in Nat
      /\ invariant_stage_stats[c][stage].rollback \in Nat
      /\ invariant_stage_stats[c][stage].block \in Nat
  BY <1>3 DEF Stats
<1>5. severityScore(active_invariants[c].severity) \in Nat
  BY <1>2 DEF severityScore, Severities
<1>6. enforcementScore(active_invariants[c].mode) \in Nat
  BY <1>2 DEF enforcementScore
<1> QED
  BY <1>2, <1>4, <1>5, <1>6 DEF Score

\* Score and id order the invariants totally.
LEMMA AheadOrders ==
  ASSUME TypeInv, RankInv, NEW stage \in Stages, NEW c \in Active, NEW d \in Active, NEW e \in Active
  PROVE  /\ ~ Ahead(c, c, stage)
         /\ Ahead(c, d, stage) /\ Ahead(d, e, stage) => Ahead(c, e, stage)
         /\ c # d => Ahead(c, d, stage) \/ Ahead(d, c, stage)
<1>1. /\ Score(c, stage) \in Nat /\ active_invariants[c].id \in Nat
      /\ Score(d, stage) \in Nat /\ active_invariants[d].id \in Nat
      /\ Score(e, stage) \in Nat /\ active_invariants[e].id \in Nat
  BY ScoreType
<1>2. c # d => active_invariants[c].id # active_invariants[d].id
  BY DEF RankInv, IdsUnique
<1> QED
  BY <1>1, <1>2 DEF Ahead

\* Whoever is behind has more of them ahead.
LEMMA AheadCounts ==
  ASSUME TypeInv, RankInv, NEW stage \in Stages, NEW X \in SUBSET Active,
         NEW c \in X, NEW d \in X, Ahead(c, d, stage)
  PROVE  LET before(x) == Cardinality({y \in X : Ahead(y, x, stage)}) IN
         before(c) \in Nat /\ before(d) \in Nat /\ before(c) < before(d)
<1> DEFINE C == {y \in X : Ahead(y, c, stage)}
           D == {y \in X : Ahead(y, d, stage)}
<1>1. IsFiniteSet(X)
  BY FS_Subset DEF RankInv
<1>2. IsFiniteSet(C) /\ IsFiniteSet(D)
  BY <1>1, FS_Subset
<1>3. C \in SUBSET D
  BY AheadOrders
<1>4. c \in D /\ c \notin C
  BY AheadOrders
<1> HIDE DEF C, D
<1>5. Cardinality(C) \in Nat /\ Cardinality(D) \in Nat
  BY <1>2, FS_CardinalityType
<1>6. Cardinality(C) <= Cardinality(D) /\ (Cardinality(D) = Cardinality(C) => D = C)
  BY <1>2, <1>3, FS_Subset
<1>7. Cardinality(C) < Cardinality(D)
  BY <1>4, <1>5, <1>6
<1> QED
  BY <1>5, <1>7 DEF C, D

\* FirstOf gives at most as many as asked for, and nobody left out is ahead.
LEMMA FirstOfFirst ==
  ASSUME TypeInv, RankInv, NEW stage \in Stages, NEW X \in SUBSET Active, NEW limit \in Nat
  PROVE  /\ Cardinality(FirstOf(X, stage, limit)) <= limit
         /\ \A c \in FirstOf(X, stage, limit), d \in X \ FirstOf(X, stage, limit) :
              ~ Ahead(d, c, stage)
<1> DEFINE before(x) == Cardinality({y \in X : Ahead(y, x, stage)})
           F == FirstOf(X, stage, limit)
           T == 0 .. limit - 1
           f == [x \in F |-> before(x)]
<1>1. IsFiniteSet(X)
  BY FS_Subset DEF RankInv
<1>2. F \in SUBSET X /\ \A x \in F : before(x) < limit
  BY DEF FirstOf
<1>3. \A x \in X : before(x) \in Nat
  <2>1. ASSUME NEW x \in X PROVE IsFiniteSet({y \in X : Ahead(y, x, stage)})
    BY <1>1, FS_Subset
  <2> QED
    BY <2>1, FS_CardinalityType
<1>4. \A x, y \in X : x # y => before(x) # before(y)
  <2>1. SUFFICES ASSUME NEW x \in X, NEW y \in X, x # y PROVE before(x) # before(y)
    OBVIOUS
  <2>2. Ahead(x, y, stage) \/ Ahead(y, x, stage)
    BY <2>1, AheadOrders
  <2>3. before(x) < before(y) \/ before(y) < before(x)
    BY <2>2, AheadCounts
  <2> HIDE DEF before
  <2> QED
    BY <1>3, <2>3
<1>5. f \in Injection(F, T)
  <2> HIDE DEF before, F
  <2>1. f \in [F -> T]
    BY <1>2, <1>3
  <2>2. \A x, y \in F : f[x] = f[y] => x = y
    BY <1>2, <1>4
  <2> QED
    BY <2>1, <2>2 DEF Injection, IsInjective
<1>6. IsFiniteSet(T) /\ Cardinality(T) = limit
  BY FS_Interval
<1>7. Cardinality(F) <= limit
  <2> HIDE DEF f, F, T
  <2> QED
    BY <1>5, <1>6, FS_Injection
<1>8. ASSUME NEW c \in F, NEW d \in X \ F PROVE ~ Ahead(d, c, stage)
  <2>1. SUFFICES ASSUME Ahead(d, c, stage) PROVE FALSE
    OBVIOUS
  <2>2. before(d) < before(c)
    BY <1>2, <2>1, AheadCounts
  <2>3. before(c) < limit /\ before(c) \in Nat /\ before(d) \in Nat
    BY <1>2, <1>3
  <2>4. ~ (before(d) < limit)
    BY DEF FirstOf
  <2> HIDE DEF before
  <2> QED
    BY <2>2, <2>3, <2>4
<1> QED
  BY <1>7, <1>8

LEMMA BlockingIncluded ==
  ASSUME TypeInv, RankInv
  PROVE  BlockingAlwaysIncluded
<1> SUFFICES ASSUME NEW stage \in Stages, NEW req \in Requests
             PROVE  LET context == loadInvariantContext(stage, req) IN
                    /\ \A c \in Clusters :
                         (active_invariants[c] # None /\ active_invariants[c].mode = "block"
                            /\ scopeMatches(c, req))
                           => c \in context.blocking
                    /\ Cardinality(context.top_relevant) <= AdvisoryLimit
                    /\ \A c \in context.top_relevant,
                          d \in Candidates(req) \ (context.top_relevant \cup context.blocking) :
                         Score(c, stage) >= Score(d, stage)
  BY DEF BlockingAlwaysIncluded
<1> DEFINE ranked == Candidates(req)
           blocking == {c \in ranked : active_invariants[c].mode = "block"}
           X == ranked \ blocking
           F == FirstOf(X, stage, AdvisoryLimit)
<1>1. /\ loadInvariantContext(stage, req).blocking = blocking
      /\ loadInvariantContext(stage, req).top_relevant = F
  BY DEF loadInvariantContext, RankForStage
<1>2. \A c \in Clusters :
        (active_invariants[c] # None /\ active_invariants[c].mode = "block" /\ scopeMatches(c, req))
          => c \in blocking
  BY DEF Candidates
<1>3. X \in SUBSET Active
  BY DEF Candidates, Active
<1>4. F \in SUBSET X
  BY DEF FirstOf
<1> HIDE DEF X, F
<1>5. Cardinality(F) <= AdvisoryLimit /\ \A c \in F, d \in X \ F : ~ Ahead(d, c, stage)
  BY <1>3, FirstOfFirst, LimitAssumption DEF F
<1>6. ASSUME NEW c \in F, NEW d \in ranked \ (F \cup blocking)
      PROVE  Score(c, stage) >= Score(d, stage)
  <2>1. d \in X \ F
    BY DEF X
  <2>2. c \in Active /\ d \in Active
    BY <1>3, <1>4, <2>1
  <2>3. Score(c, stage) \in Nat /\ Score(d, stage) \in Nat
    BY <2>2, ScoreType
  <2>4. ~ (Score(d, stage) > Score(c, stage))
    BY <1>5, <2>1 DEF Ahead
  <2> QED
    BY <2>3, <2>4
<1> HIDE DEF ranked, blocking
<1> QED
  BY <1>1, <1>2, <1>5, <1>6 DEF ranked

(***************************************************************************)
(* A stage is given every blocking invariant of its scope, at most the     *)
(* limit of the others, and none of them when a better one is left out,    *)
(* in every state the ratchet can be in.                                   *)
(***************************************************************************)
THEOREM BlockingIsGiven == Spec => []BlockingAlwaysIncluded
<1>1. TypeInv /\ RankInv /\ [Next]_vars => TypeInv' /\ RankInv'
  BY TypeNext, RankNext
<1>2. TypeInv /\ RankInv => BlockingAlwaysIncluded
  BY BlockingIncluded
<1> QED
  BY <1>1, <1>2, TypeInit, RankInit, PTL DEF Spec
=============================================================================
