------------------------ MODULE ControlPlane_proofs -------------------------
(***************************************************************************)
(* Proofs about ControlPlane, for every number of issues, workers,         *)
(* requests, plans, locks and failures.                                    *)
(***************************************************************************)
EXTENDS ControlPlane, FiniteSetTheorems, SequenceTheorems, WellFoundedInduction, TLAPS

-----------------------------------------------------------------------------
(* The data the operations compute.                                        *)

\* A nonempty set of natural numbers with an upper bound has a greatest one.
LEMMA GreatestExists ==
    ASSUME NEW n \in Nat, NEW S \in SUBSET (0 .. n), S # {}
    PROVE  \E r \in S : \A q \in S : q <= r
<1> DEFINE R == {p \in Nat \X Nat : p[1] < p[2]}
           T == {n - r : r \in S}
<1>1. IsWellFoundedOn(R, Nat)
  BY NatLessThanWellFounded, Zenon DEF OpToRel
<1>2. /\ T \subseteq Nat
      /\ T # {}
  <2>1. T \subseteq Nat
    OBVIOUS
  <2>2. T # {}
    OBVIOUS
  <2> QED
    BY <2>1, <2>2
<1>3. \E x \in T : \A y \in T : ~(<<y, x>> \in R)
  <2> HIDE DEF R, T
  <2> QED
    BY <1>1, <1>2, WFMin
<1>4. \E x \in T : \A y \in T : ~(y < x)
  BY <1>2, <1>3
<1>5. PICK r \in S : \A q \in S : ~(n - q < n - r)
  BY <1>4
<1> QED
  BY <1>5

\* The two components of a pair.
LEMMA Pairs ==
    ASSUME NEW A, NEW B, NEW x \in A \X B
    PROVE  x = <<x[1], x[2]>> /\ x[1] \in A /\ x[2] \in B
  OBVIOUS

\* A function on 1 .. n is a sequence of length n.
LEMMA FunctionSeq ==
    ASSUME NEW R, NEW n \in Nat, NEW f \in [1 .. n -> R]
    PROVE  f \in Seq(R) /\ Len(f) = n /\ DOMAIN f = 1 .. n
<1>1. f \in Seq(R)
  BY SeqDef
<1> QED
  BY <1>1, LenProperties

\* There are finitely many stages.
LEMMA StagesFinite == IsFiniteSet(Stages)
<1>1. /\ Alphabet \in [1 .. Len(Alphabet) -> STRING] /\ Len(Alphabet) \in Nat
      /\ DOMAIN Alphabet = 1 .. Len(Alphabet)
  BY AlphabetAssumption DEF AlphabetAssumption
<1>2. Alphabet \in Surjection(1 .. Len(Alphabet), Stages)
  BY <1>1 DEF Surjection, Stages
<1> QED
  BY <1>1, <1>2, FS_Surjection, FS_Interval


\* latestRunForIssue returns the issue's last run, and none only if the issue
\* has no run.
LEMMA LatestRun ==
    ASSUME runs \in Seq([issue : Issues, status : RunStatuses]), NEW i \in Issues
    PROVE  /\ latestRun(i) = 0 => \A r \in DOMAIN runs : runs[r].issue # i
           /\ latestRun(i) # 0 =>
                 /\ latestRun(i) \in DOMAIN runs
                 /\ runs[latestRun(i)].issue = i
                 /\ \A r \in DOMAIN runs : runs[r].issue = i => r <= latestRun(i)
<1> DEFINE own == {r \in DOMAIN runs : runs[r].issue = i}
<1>1. DOMAIN runs = 1 .. Len(runs) /\ Len(runs) \in Nat
  BY LenProperties
<1>2. CASE own = {}
  BY <1>2 DEF latestRun
<1>3. CASE own # {}
  <2>1. own \in SUBSET (0 .. Len(runs))
    BY <1>1
  <2>2. \E r \in own : \A q \in own : q <= r
    BY <1>1, <1>3, <2>1, GreatestExists
  <2>3. latestRun(i) = CHOOSE r \in own : \A q \in own : q <= r
    BY <1>3 DEF latestRun
  <2>4. latestRun(i) \in own /\ \A q \in own : q <= latestRun(i)
    BY <2>2, <2>3
  <2> QED
    BY <1>1, <2>4
<1> QED
  BY <1>2, <1>3

\* Evaluate queues only stages of the plan without an attempt, and sets one of
\* the run statuses.
LEMMA EvaluateQueues ==
    ASSUME NEW plan, NEW byStage, NEW approved
    PROVE  /\ Evaluate(plan, byStage, approved).triggered
                  \subseteq DOMAIN plan \ DOMAIN byStage
           /\ Evaluate(plan, byStage, approved).runnable
                  \subseteq DOMAIN plan \ DOMAIN byStage
           /\ Evaluate(plan, byStage, approved).status \in RunStatuses
  BY DEF Evaluate, RunStatuses

\* A run that reconciliation looks at exists, and has a plan.
LEMMA ScheduledRuns ==
    ASSUME TypeOK, NEW i \in Issues, Scheduled(i), PlanOf(i) # NoPlan
    PROVE  /\ latestRun(i) \in DOMAIN runs
           /\ PlanOf(i) \in Plans
           /\ DOMAIN PlanOf(i) \subseteq Stages
<1>1. latestRun(i) \in DOMAIN runs
  BY LatestRun DEF TypeOK, Scheduled
<1>2. DOMAIN runs \subseteq 1 .. MaxRuns
  BY LenProperties, ConstantsAssumption DEF TypeOK, ConstantsAssumption
<1>3. PlanOf(i) \in Plans
  BY <1>1, <1>2 DEF TypeOK, PlanOf
<1> QED
  BY <1>1, <1>3, PlansAssumption DEF PlansAssumption

\* Reconciliation queues stages of existing runs that have no attempt yet.
LEMMA ToQueueFresh ==
    ASSUME TypeOK, NEW i \in Issues, Scheduled(i), PlanOf(i) # NoPlan
    PROVE  \A s \in ToQueue(i, AttemptsByStage(latestRun(i))) :
               s \in Stages /\ AttemptsOf(latestRun(i), s) = {}
<1> DEFINE byStage == AttemptsByStage(latestRun(i))
<1>1. ToQueue(i, byStage) \subseteq DOMAIN PlanOf(i) \ DOMAIN byStage
  BY EvaluateQueues DEF ToQueue
<1>2. DOMAIN byStage = {s \in Stages : AttemptsOf(latestRun(i), s) # {}}
  BY DEF AttemptsByStage
<1> QED
  BY <1>1, <1>2, ScheduledRuns

\* Stage s is one that reconciliation queues in run r.
Queued(r, s) ==
    \E i \in Issues : /\ Scheduled(i) /\ PlanOf(i) # NoPlan
                      /\ r = latestRun(i)
                      /\ s \in ToQueue(i, AttemptsByStage(latestRun(i)))

\* What the new attempts of a reconciliation look like.
Fresh(new) ==
    /\ \A n \in DOMAIN new :
          /\ new[n] = NewAttempt(<<new[n].run, new[n].stage>>)
          /\ new[n].run \in DOMAIN runs
          /\ AttemptsOf(new[n].run, new[n].stage) = {}
          /\ Queued(new[n].run, new[n].stage)
    /\ \A m, n \in DOMAIN new :
          new[m].run = new[n].run /\ new[m].stage = new[n].stage => m = n

\* Reconciliation appends new attempts, one for each stage it queues.
LEMMA ReconcileQueues ==
    ASSUME TypeOK, NEW scope \in SUBSET Issues, Reconcile(scope)
    PROVE  \E new \in Seq(Attempt) : attempts' = attempts \o new /\ Fresh(new)
<1> DEFINE S       == {i \in scope : Scheduled(i)}
           byStage == [i \in S |-> AttemptsByStage(latestRun(i))]
           queues  == [i \in S |-> ToQueue(i, byStage[i])]
           queued  == UNION {{latestRun(i)} \X queues[i] : i \in DOMAIN queues}
<1>1. \A i \in S : PlanOf(i) # NoPlan
  BY DEF Reconcile
<1>2. PICK q \in QueueOrders(queues) :
          attempts' = attempts \o [n \in DOMAIN q |-> NewAttempt(q[n])]
  <2> HIDE DEF QueueOrders, NewAttempt, AttemptsByStage, ToQueue
  <2> QED
    BY Zenon DEF Reconcile
<1>3. /\ q \in [1 .. Cardinality(queued) -> queued]
      /\ \A m, n \in DOMAIN q : q[m] = q[n] => m = n
  BY <1>2 DEF QueueOrders
<1>4. \A x \in queued : /\ x \in (DOMAIN runs) \X Stages /\ AttemptsOf(x[1], x[2]) = {}
                        /\ Queued(x[1], x[2])
  <2>1. \A i \in S : /\ latestRun(i) \in DOMAIN runs
                     /\ \A s \in queues[i] : s \in Stages /\ AttemptsOf(latestRun(i), s) = {}
    BY <1>1, ToQueueFresh, ScheduledRuns
  <2> SUFFICES ASSUME NEW x \in queued
               PROVE  /\ x \in (DOMAIN runs) \X Stages /\ AttemptsOf(x[1], x[2]) = {}
                      /\ Queued(x[1], x[2])
    OBVIOUS
  <2>2. PICK i \in S : x \in {latestRun(i)} \X queues[i]
    OBVIOUS
  <2>3. x = <<x[1], x[2]>> /\ x[1] = latestRun(i) /\ x[2] \in queues[i]
    BY <2>2, Pairs
  <2>4. /\ x[1] \in DOMAIN runs /\ x[2] \in Stages
        /\ AttemptsOf(x[1], x[2]) = {}
    BY <2>1, <2>3
  <2>5. <<x[1], x[2]>> \in (DOMAIN runs) \X Stages
    BY <2>4
  <2>6. Queued(x[1], x[2])
    BY <1>1, <2>3 DEF Queued
  <2> QED
    BY <2>3, <2>4, <2>5, <2>6, Zenon
<1>5. DOMAIN runs = 1 .. Len(runs) /\ Len(runs) \in Nat /\ DOMAIN runs \subseteq 1 .. MaxRuns
  BY LenProperties, ConstantsAssumption DEF TypeOK, ConstantsAssumption
<1> HIDE DEF queued
<1>6. Cardinality(queued) \in Nat
  <2>1. IsFiniteSet(DOMAIN runs)
    BY <1>5, FS_Interval
  <2>2. IsFiniteSet((DOMAIN runs) \X Stages)
    BY <2>1, StagesFinite, FS_Product, Zenon
  <2>3. IsFiniteSet(queued)
    BY <1>4, <2>2, FS_Subset
  <2> QED
    BY <2>3, FS_CardinalityType
<1> DEFINE new == [n \in 1 .. Cardinality(queued) |-> NewAttempt(q[n])]
<1>7. ASSUME NEW n \in 1 .. Cardinality(queued)
      PROVE  /\ new[n].run = q[n][1] /\ new[n].stage = q[n][2]
             /\ new[n] = NewAttempt(<<q[n][1], q[n][2]>>)
             /\ q[n] = <<q[n][1], q[n][2]>>
             /\ q[n][1] \in DOMAIN runs
             /\ AttemptsOf(q[n][1], q[n][2]) = {} /\ Queued(q[n][1], q[n][2])
             /\ new[n] \in Attempt
  <2>1. /\ q[n] \in (DOMAIN runs) \X Stages
        /\ AttemptsOf(q[n][1], q[n][2]) = {} /\ Queued(q[n][1], q[n][2])
    BY <1>3, <1>4
  <2>2. q[n] = <<q[n][1], q[n][2]>> /\ q[n][1] \in DOMAIN runs /\ q[n][2] \in Stages
    BY <2>1, Pairs
  <2>3. new[n] \in Attempt
    BY <1>5, <2>2, EmptySeq DEF NewAttempt, Attempt, AttemptStatuses, NoLease
  <2> QED
    BY <2>1, <2>2, <2>3 DEF NewAttempt
<1>8. new \in Seq(Attempt)
  <2>1. new \in [1 .. Cardinality(queued) -> Attempt]
    BY <1>7
  <2> QED
    BY <1>6, <2>1, SeqDef
<1>9. Fresh(new)
  <2>1. DOMAIN new = 1 .. Cardinality(queued) /\ DOMAIN q = 1 .. Cardinality(queued)
    BY <1>3
  <2>2. ASSUME NEW m \in DOMAIN new, NEW n \in DOMAIN new,
               new[m].run = new[n].run, new[m].stage = new[n].stage
        PROVE  m = n
    <3> HIDE DEF new
    <3>1. /\ q[m] = <<new[m].run, new[m].stage>>
          /\ q[n] = <<new[n].run, new[n].stage>>
      <4>1. \A l \in 1 .. Cardinality(queued) :
                q[l] = <<q[l][1], q[l][2]>> /\ new[l].run = q[l][1] /\ new[l].stage = q[l][2]
        BY <1>7
      <4> QED
        BY <2>1, <4>1
    <3>2. q[m] = q[n]
      BY <2>2, <3>1
    <3> QED
      BY <1>3, <2>1, <3>2
  <2> HIDE DEF new
  <2> QED
    BY <1>7, <2>1, <2>2 DEF Fresh
<1> QED
  BY <1>2, <1>3, <1>8, <1>9

-----------------------------------------------------------------------------
(* Type correctness.                                                       *)

\* The empty state file is well-typed.
LEMMA TypeInit == Init => TypeOK
  BY ConstantsAssumption, EmptySeq
  DEF ConstantsAssumption, Init, TypeOK, IdleClient, NoRow, Row,
      TrackedIssue, ClientState

\* People and requests.
LEMMA TypeRequests ==
    ASSUME TypeOK,
           \/ \E i \in Issues : Request(i) \/ Approve(i)
           \/ \E c \in Clients :
                 \/ \E i \in Issues \cup {NoIssue} : ListIssues(c, i)
                 \/ EnqueueFromGitLab(c)
                 \/ EnsureRunForIssue(c)
                 \/ \E plan \in Plans : PersistPipelineArtifacts(c, plan)
                 \/ MaterializeFails(c)
    PROVE  TypeOK'
<1>1. ASSUME NEW i \in Issues, Request(i) \/ Approve(i)
      PROVE  TypeOK'
  <2>1. gitlab[i] \in SUBSET Labels
    BY DEF TypeOK
  <2>2. /\ (gitlab[i] \cap {"approved"}) \cup {"requested"} \in SUBSET Labels
        /\ gitlab[i] \cup {"approved"} \in SUBSET Labels
    BY <2>1 DEF Labels
  <2>3. gitlab' \in [Issues -> SUBSET Labels]
    BY <1>1, <2>2 DEF TypeOK, Request, Approve
  <2> QED
    BY <1>1, <2>3 DEF TypeOK, Request, Approve
<1>2. ASSUME NEW c \in Clients, NEW i \in Issues \cup {NoIssue}, ListIssues(c, i)
      PROVE  TypeOK'
  BY <1>2 DEF TypeOK, ListIssues, ClientState
<1>3. ASSUME NEW c \in Clients, EnqueueFromGitLab(c)
      PROVE  TypeOK'
  <2>1. issues' \in [Issues -> TrackedIssue]
    <3> SUFFICES ASSUME NEW i \in Issues
                 PROVE  issues'[i] \in TrackedIssue
      BY <1>3 DEF EnqueueFromGitLab
    <3>1. client[c].list[i] \in SUBSET Labels /\ issues[i] \in TrackedIssue
      BY DEF TypeOK, ClientState
    <3>2. \/ issues'[i] = issues[i]
          \/ issues'[i] = [tracked |-> TRUE, labels |-> client[c].list[i],
                           approved |-> "approved" \in client[c].list[i]]
      BY <1>3 DEF EnqueueFromGitLab
    <3>3. ASSUME NEW L \in SUBSET Labels
          PROVE  [tracked |-> TRUE, labels |-> L, approved |-> "approved" \in L]
                     \in TrackedIssue
      BY DEF TrackedIssue
    <3> QED
      BY <3>1, <3>2, <3>3, Zenon
  <2>2. client[c] \in ClientState
    BY DEF TypeOK
  <2>3. /\ client' = [client EXCEPT ![c] = client'[c]]
        /\ \/ client'[c] = IdleClient
           \/ /\ client'[c] = [client[c] EXCEPT !.pc = "enqueued",
                                                !.list = [i \in Issues |-> {}]]
              /\ client[c].issue \in Issues
    BY <1>3, <2>2 DEF TypeOK, EnqueueFromGitLab, ClientState
  <2>4. /\ client'[c] \in ClientState
        /\ client'[c].pc = "enqueued" => client'[c].issue \in Issues
        /\ client'[c].pc # "ensured"
    <3>1. CASE client'[c] = IdleClient
      BY <3>1 DEF IdleClient, ClientState
    <3>2. CASE /\ client'[c] = [client[c] EXCEPT !.pc = "enqueued",
                                                !.list = [i \in Issues |-> {}]]
               /\ client[c].issue \in Issues
      <4>1. [i \in Issues |-> {}] \in [Issues -> SUBSET Labels]
        OBVIOUS
      <4> HIDE DEF Labels
      <4> QED
        BY <2>2, <3>2, <4>1 DEF ClientState
    <3> QED
      BY <2>3, <3>1, <3>2
  <2>5. /\ client' \in [Clients -> ClientState]
        /\ \A d \in Clients : client'[d].pc = "enqueued" => client'[d].issue \in Issues
        /\ \A d \in Clients : client'[d].pc = "ensured" => client'[d].run \in DOMAIN runs
    BY <2>3, <2>4 DEF TypeOK
  <2> QED
    BY <1>3, <2>1, <2>5 DEF TypeOK, EnqueueFromGitLab
<1>4. ASSUME NEW c \in Clients, EnsureRunForIssue(c)
      PROVE  TypeOK'
  <2> DEFINE i      == client[c].issue
             latest == latestRun(i)
             reuse  == latest # 0 /\ ~runStatusTerminal(runs[latest].status)
             run    == IF reuse THEN latest ELSE Len(runs) + 1
  <2>1. i \in Issues /\ run <= MaxRuns
    BY <1>4 DEF TypeOK, EnsureRunForIssue
  <2>2. /\ runs' \in Seq([issue : Issues, status : RunStatuses])
        /\ Len(runs') <= MaxRuns
        /\ DOMAIN runs \subseteq DOMAIN runs'
        /\ run \in DOMAIN runs' /\ run \in Nat
    <3>1. CASE reuse
      <4>1. runs' = runs /\ run = latest /\ latest \in DOMAIN runs
        BY <1>4, <2>1, <3>1, LatestRun DEF TypeOK, EnsureRunForIssue
      <4> QED
        BY <4>1 DEF TypeOK
    <3>2. CASE ~reuse
      <4>1. runs' = Append(runs, [issue |-> i, status |-> "pending"]) /\ run = Len(runs) + 1
        BY <1>4, <3>2 DEF EnsureRunForIssue
      <4> QED
        BY <2>1, <4>1 DEF TypeOK, RunStatuses
    <3> QED
      BY <3>1, <3>2
  <2>3. client' = [client EXCEPT ![c].pc = "ensured", ![c].run = run]
    BY <1>4 DEF EnsureRunForIssue
  <2> HIDE DEF run
  <2>4. /\ client' \in [Clients -> ClientState]
        /\ \A d \in Clients : client'[d].pc = "enqueued" => client'[d].issue \in Issues
        /\ \A d \in Clients : client'[d].pc = "ensured" => client'[d].run \in DOMAIN runs'
    <3>1. client[c] \in ClientState
      BY DEF TypeOK
    <3>2. /\ client'[c] = [client[c] EXCEPT !.pc = "ensured", !.run = run]
          /\ \A d \in Clients \ {c} : client'[d] = client[d]
          /\ client' \in [Clients -> ClientState]
      BY <2>2, <2>3, <3>1 DEF TypeOK, ClientState
    <3>3. client'[c].pc = "ensured" /\ client'[c].run = run
      BY <3>1, <3>2 DEF ClientState
    <3> QED
      BY <2>2, <3>2, <3>3 DEF TypeOK
  <2>5. \A a \in DOMAIN attempts : attempts[a].run \in DOMAIN runs'
    BY <2>2 DEF TypeOK
  <2> QED
    BY <1>4, <2>2, <2>4, <2>5 DEF TypeOK, EnsureRunForIssue
<1>5. ASSUME NEW c \in Clients, NEW plan \in Plans, PersistPipelineArtifacts(c, plan)
      PROVE  TypeOK'
  BY <1>5 DEF TypeOK, PersistPipelineArtifacts, IdleClient, ClientState
<1>6. ASSUME NEW c \in Clients, MaterializeFails(c)
      PROVE  TypeOK'
  BY <1>6 DEF TypeOK, MaterializeFails, IdleClient, ClientState
<1> QED
  BY <1>1, <1>2, <1>3, <1>4, <1>5, <1>6

\* Relabelling yields sets of labels.
LEMMA RelabelType ==
    ASSUME NEW labelled \in [Issues -> SUBSET Labels], NEW statuses,
           \A i \in DOMAIN statuses : statuses[i] \in RunStatuses
    PROVE  Relabel(labelled, statuses) \in [Issues -> SUBSET Labels]
<1>1. \A status \in RunStatuses : {LabelFor(status)} \in SUBSET Labels
  BY DEF RunStatuses, LabelFor, Labels
<1> QED
  BY <1>1 DEF Relabel

\* Relabelling sets no approval.
LEMMA RelabelDrops ==
    ASSUME NEW labelled, NEW statuses, NEW i \in Issues,
           \A j \in DOMAIN statuses : statuses[j] \in RunStatuses,
           "approved" \in Relabel(labelled, statuses)[i]
    PROVE  "approved" \in labelled[i]
<1>1. \A status \in RunStatuses : "approved" # LabelFor(status)
  BY DEF RunStatuses, LabelFor
<1> QED
  BY <1>1 DEF Relabel

\* Reconciliation evaluates the run of issue i to this status.
Reconciled(i, status) ==
    /\ Scheduled(i) /\ PlanOf(i) # NoPlan
    /\ status = ReconciledStatus(i, AttemptsByStage(latestRun(i)),
                                 ToQueue(i, AttemptsByStage(latestRun(i))))

\* What reconciliation does to everything but the attempts.
LEMMA ReconcileStatuses ==
    ASSUME TypeOK, NEW scope \in SUBSET Issues, Reconcile(scope)
    PROVE  /\ gitlab' \in [Issues -> SUBSET Labels]
           /\ issues' \in [Issues -> TrackedIssue]
           /\ runs' \in Seq([issue : Issues, status : RunStatuses])
           /\ Len(runs') = Len(runs) /\ DOMAIN runs' = DOMAIN runs
           /\ \A r \in DOMAIN runs :
                 /\ runs'[r].issue = runs[r].issue
                 /\ r # latestRun(runs[r].issue) => runs'[r] = runs[r]
                 /\ runs'[r] # runs[r] => Reconciled(runs[r].issue, runs'[r].status)
           /\ \A i \in Issues :
                 /\ issues'[i].approved = issues[i].approved
                 /\ "approved" \in issues'[i].labels => "approved" \in issues[i].labels
                 /\ "approved" \in gitlab'[i] => "approved" \in gitlab[i]
<1> DEFINE S        == {i \in scope : Scheduled(i)}
           byStage  == [i \in S |-> AttemptsByStage(latestRun(i))]
           queues   == [i \in S |-> ToQueue(i, byStage[i])]
           statuses == [i \in S |-> ReconciledStatus(i, byStage[i], queues[i])]
           relabelled == Relabel([j \in Issues |-> issues[j].labels], statuses)
<1>1. /\ runs' = [r \in DOMAIN runs |->
             IF runs[r].issue \in S /\ r = latestRun(runs[r].issue)
             THEN [runs[r] EXCEPT !.status = statuses[runs[r].issue]]
             ELSE runs[r]]
      /\ issues' = [i \in Issues |-> [issues[i] EXCEPT !.labels = relabelled[i]]]
      /\ gitlab' = Relabel(gitlab, statuses)
  BY Zenon DEF Reconcile
<1>2. DOMAIN statuses = S /\ \A i \in S : statuses[i] \in RunStatuses
  BY EvaluateQueues DEF ReconciledStatus
<1> HIDE DEF statuses
<1>3. gitlab' \in [Issues -> SUBSET Labels]
  BY <1>1, <1>2, RelabelType DEF TypeOK
<1>4. issues' \in [Issues -> TrackedIssue]
  <2>1. [j \in Issues |-> issues[j].labels] \in [Issues -> SUBSET Labels]
    BY DEF TypeOK, TrackedIssue
  <2>2. relabelled \in [Issues -> SUBSET Labels]
    BY <1>2, <2>1, RelabelType
  <2> HIDE DEF relabelled
  <2> QED
    BY <1>1, <2>2 DEF TypeOK, TrackedIssue
<1>5. DOMAIN runs = 1 .. Len(runs) /\ Len(runs) \in Nat
  BY LenProperties DEF TypeOK
<1>6. runs' \in [1 .. Len(runs) -> [issue : Issues, status : RunStatuses]]
  <2> SUFFICES ASSUME NEW r \in 1 .. Len(runs)
               PROVE  runs'[r] \in [issue : Issues, status : RunStatuses]
    BY <1>1, <1>5
  <2>1. runs[r] \in [issue : Issues, status : RunStatuses]
    BY <1>5, ElementOfSeq DEF TypeOK
  <2>2. CASE runs[r].issue \in S /\ r = latestRun(runs[r].issue)
    <3>1. runs'[r] = [runs[r] EXCEPT !.status = statuses[runs[r].issue]]
      BY <1>1, <1>5, <2>2
    <3> QED
      BY <1>2, <2>1, <2>2, <3>1
  <2>3. CASE ~(runs[r].issue \in S /\ r = latestRun(runs[r].issue))
    BY <1>1, <1>5, <2>1, <2>3
  <2> QED
    BY <2>2, <2>3
<1>7. /\ runs' \in Seq([issue : Issues, status : RunStatuses])
      /\ Len(runs') = Len(runs)
  BY <1>5, <1>6, FunctionSeq
<1>8. \A r \in DOMAIN runs : /\ runs'[r].issue = runs[r].issue
                             /\ r # latestRun(runs[r].issue) => runs'[r] = runs[r]
  BY <1>1 DEF TypeOK
<1>9. ASSUME NEW r \in DOMAIN runs, runs'[r] # runs[r]
      PROVE  Reconciled(runs[r].issue, runs'[r].status)
  <2>1. runs[r] \in [issue : Issues, status : RunStatuses]
    BY <1>5, ElementOfSeq DEF TypeOK
  <2>2. /\ runs[r].issue \in S
        /\ runs'[r] = [runs[r] EXCEPT !.status = statuses[runs[r].issue]]
    BY <1>1, <1>9
  <2>3. runs'[r].status = statuses[runs[r].issue]
    BY <2>1, <2>2
  <2>4. \A i \in S : PlanOf(i) # NoPlan
    BY DEF Reconcile
  <2>5. \A i \in S : statuses[i] = ReconciledStatus(i, AttemptsByStage(latestRun(i)),
                                     ToQueue(i, AttemptsByStage(latestRun(i))))
    BY DEF statuses
  <2> QED
    BY <2>2, <2>3, <2>4, <2>5 DEF Reconciled
<1>10. ASSUME NEW i \in Issues
       PROVE  /\ issues'[i].approved = issues[i].approved
              /\ "approved" \in issues'[i].labels => "approved" \in issues[i].labels
              /\ "approved" \in gitlab'[i] => "approved" \in gitlab[i]
  <2>1. "approved" \in gitlab'[i] => "approved" \in gitlab[i]
    BY <1>1, <1>2, RelabelDrops
  <2>2. "approved" \in relabelled[i] => "approved" \in issues[i].labels
    <3>1. "approved" \in relabelled[i] => "approved" \in [j \in Issues |-> issues[j].labels][i]
      BY <1>2, RelabelDrops
    <3> HIDE DEF relabelled
    <3> QED
      BY <3>1
  <2>3. issues[i] \in TrackedIssue
    BY DEF TypeOK
  <2> HIDE DEF relabelled
  <2>4. issues'[i].approved = issues[i].approved /\ issues'[i].labels = relabelled[i]
    BY <1>1, <2>3 DEF TrackedIssue
  <2> QED
    BY <2>1, <2>2, <2>4
<1> QED
  BY <1>1, <1>3, <1>4, <1>7, <1>8, <1>9, <1>10

\* A reconciliation that fails has relabelled some issues with run statuses.
LEMMA FailedRelabels ==
    ASSUME NEW scope, ReconcileFails(scope)
    PROVE  \E statuses : /\ \A i \in DOMAIN statuses : statuses[i] \in RunStatuses
                        /\ gitlab' = Relabel(gitlab, statuses)
<1>1. PICK handled \in SUBSET {i \in {i \in scope : Scheduled(i)} : PlanOf(i) # NoPlan} :
          \E byStage \in {[i \in handled |-> AttemptsByStage(latestRun(i))]} :
          \E queues \in {[i \in handled |-> ToQueue(i, byStage[i])]} :
             gitlab' = Relabel(gitlab,
                 [i \in handled |-> ReconciledStatus(i, byStage[i], queues[i])])
  BY Zenon DEF ReconcileFails
<1>2. PICK byStage \in {[i \in handled |-> AttemptsByStage(latestRun(i))]} :
          \E queues \in {[i \in handled |-> ToQueue(i, byStage[i])]} :
             gitlab' = Relabel(gitlab,
                 [i \in handled |-> ReconciledStatus(i, byStage[i], queues[i])])
  BY <1>1, Zenon
<1>3. PICK queues \in {[i \in handled |-> ToQueue(i, byStage[i])]} :
          gitlab' = Relabel(gitlab,
              [i \in handled |-> ReconciledStatus(i, byStage[i], queues[i])])
  BY <1>2, Zenon
<1>4. \A i \in handled : ReconciledStatus(i, byStage[i], queues[i]) \in RunStatuses
  BY EvaluateQueues DEF ReconciledStatus
<1> DEFINE statuses == [i \in handled |-> ReconciledStatus(i, byStage[i], queues[i])]
<1>5. \A i \in DOMAIN statuses : statuses[i] \in RunStatuses
  BY <1>4
<1>6. gitlab' = Relabel(gitlab, statuses)
  BY <1>3, Zenon
<1> HIDE DEF statuses
<1> QED
  BY <1>5, <1>6

\* Reconciliation, by an operator or by a worker.
LEMMA TypeReconcile ==
    ASSUME TypeOK, NEW scope \in SUBSET Issues,
           Reconcile(scope) \/ ReconcileFails(scope),
           worker' \in [Workers -> [pc : {"idle", "executing", "reconciling"},
                                    attempt : Nat]],
           \A w \in Workers : worker'[w].pc = "executing" => worker'[w] = worker[w]
    PROVE  TypeOK'
<1>1. CASE Reconcile(scope)
  <2>1. PICK new \in Seq(Attempt) : attempts' = attempts \o new /\ Fresh(new)
    BY <1>1, ReconcileQueues
  <2>2. /\ attempts' \in Seq(Attempt)
        /\ DOMAIN attempts \subseteq DOMAIN attempts'
        /\ \A a \in DOMAIN attempts' : attempts'[a].run \in DOMAIN runs
    <3>1. /\ attempts' \in Seq(Attempt)
          /\ DOMAIN attempts' = 1 .. Len(attempts) + Len(new)
          /\ DOMAIN attempts = 1 .. Len(attempts) /\ DOMAIN new = 1 .. Len(new)
          /\ Len(attempts) \in Nat /\ Len(new) \in Nat
          /\ \A a \in 1 .. Len(attempts) + Len(new) :
                attempts'[a] = IF a <= Len(attempts) THEN attempts[a]
                               ELSE new[a - Len(attempts)]
      BY <2>1, ConcatProperties, LenProperties DEF TypeOK
    <3>2. \A n \in DOMAIN new : new[n].run \in DOMAIN runs
      BY <2>1 DEF Fresh
    <3>3. ASSUME NEW a \in DOMAIN attempts'
          PROVE  attempts'[a].run \in DOMAIN runs
      <4>1. CASE a <= Len(attempts)
        BY <3>1, <3>3, <4>1 DEF TypeOK
      <4>2. CASE ~(a <= Len(attempts))
        <5>1. a - Len(attempts) \in DOMAIN new /\ attempts'[a] = new[a - Len(attempts)]
          BY <3>1, <3>3, <4>2
        <5> QED
          BY <3>2, <5>1
      <4> QED
        BY <4>1, <4>2
    <3> QED
      BY <3>1, <3>3
  <2>3. UNCHANGED <<journal, locks, client, now, granted>>
    BY <1>1 DEF Reconcile
  <2> QED
    BY <1>1, <2>2, <2>3, ReconcileStatuses DEF TypeOK
<1>2. CASE ReconcileFails(scope)
  <2>1. gitlab' \in [Issues -> SUBSET Labels]
    <3>1. PICK statuses : /\ \A i \in DOMAIN statuses : statuses[i] \in RunStatuses
                          /\ gitlab' = Relabel(gitlab, statuses)
      BY <1>2, FailedRelabels
    <3>2. gitlab \in [Issues -> SUBSET Labels]
      BY DEF TypeOK
    <3>3. Relabel(gitlab, statuses) \in [Issues -> SUBSET Labels]
      BY <3>1, <3>2, RelabelType
    <3> QED
      BY <3>1, <3>3
  <2>2. UNCHANGED <<issues, runs, attempts, journal, locks, client, now, granted>>
    BY <1>2 DEF ReconcileFails
  <2> QED
    BY <2>1, <2>2 DEF TypeOK
<1> QED
  BY <1>1, <1>2

\* The operations on the lock table keep its type.
LEMMA LockTableType ==
    ASSUME NEW table \in [Keys -> Row], NEW ks, NEW owner \in Nat, NEW expires \in Int
    PROVE  /\ Acquire(table, ks, owner, expires) \in [Keys -> Row]
           /\ Refresh(table, ks, owner, expires) \in [Keys -> Row]
  BY DEF Acquire, Refresh, Row

\* So does releasing rows.
LEMMA ReleaseType ==
    ASSUME NEW table \in [Keys -> Row], NEW ks, NEW owner
    PROVE  Release(table, ks, owner) \in [Keys -> Row]
  BY DEF Release, Row, NoRow

\* The run and the stage of an attempt never change.
AttemptsKept ==
    /\ DOMAIN attempts' = DOMAIN attempts
    /\ \A a \in DOMAIN attempts : /\ attempts'[a].run = attempts[a].run
                                  /\ attempts'[a].stage = attempts[a].stage

\* Attempts are numbered, and an attempt with a spec has a sequence of keys.
LEMMA AttemptFacts ==
    ASSUME TypeOK, NEW a \in DOMAIN attempts
    PROVE  /\ a \in Nat \ {0}
           /\ DOMAIN attempts = 1 .. Len(attempts) /\ Len(attempts) \in Nat
           /\ attempts[a] \in Attempt
           /\ HasSpec(a) => /\ KeysForStage(a) \in Seq(Keys)
                            /\ \E plan \in Plans :
                                  /\ attempts[a].stage \in DOMAIN plan
                                  /\ KeysForStage(a) = plan[attempts[a].stage].keys
<1>1. DOMAIN attempts = 1 .. Len(attempts) /\ Len(attempts) \in Nat /\ attempts[a] \in Attempt
  BY LenProperties, ElementOfSeq DEF TypeOK
<1>2. ASSUME HasSpec(a)
      PROVE  /\ KeysForStage(a) \in Seq(Keys)
             /\ \E plan \in Plans : /\ attempts[a].stage \in DOMAIN plan
                                    /\ KeysForStage(a) = plan[attempts[a].stage].keys
  <2>1. attempts[a].run \in 1 .. MaxRuns
    BY <1>1 DEF Attempt
  <2>2. journal[attempts[a].run] \in Plans
    BY <1>2, <2>1 DEF TypeOK, HasSpec
  <2>3. journal[attempts[a].run][attempts[a].stage] \in StageSpec
    BY <1>2, <2>2, PlansAssumption DEF PlansAssumption, HasSpec
  <2> QED
    BY <1>2, <2>2, <2>3 DEF HasSpec, KeysForStage, StageSpec
<1> QED
  BY <1>1, <1>2

\* One attempt is replaced.
LEMMA AttemptReplaced ==
    ASSUME TypeOK, NEW a \in DOMAIN attempts, NEW e \in Attempt,
           e.run = attempts[a].run, e.stage = attempts[a].stage,
           attempts' = [attempts EXCEPT ![a] = e]
    PROVE  attempts' \in Seq(Attempt) /\ AttemptsKept
<1>1. a \in 1 .. Len(attempts) /\ attempts \in Seq(Attempt)
  BY AttemptFacts DEF TypeOK
<1>2. attempts' \in Seq(Attempt)
  BY <1>1, ExceptSeq
<1> QED
  BY <1>2 DEF AttemptsKept

\* The parts of the state that name attempts follow from AttemptsKept.
LEMMA TypeStep ==
    ASSUME TypeOK, attempts' \in Seq(Attempt), AttemptsKept,
           locks' \in [Keys -> Row],
           journal' \in [1 .. MaxRuns -> Plans \cup {NoPlan}],
           worker' \in [Workers -> [pc : {"idle", "executing", "reconciling"},
                                    attempt : Nat]],
           \A w \in Workers :
               worker'[w].pc = "executing" => worker'[w].attempt \in DOMAIN attempts,
           UNCHANGED <<gitlab, issues, runs, client, now, granted>>
    PROVE  TypeOK'
  BY DEF TypeOK, AttemptsKept

\* A claim hands out one attempt and leaves the others alone.
LEMMA ClaimedAttempt ==
    ASSUME TypeOK, NEW w \in Workers, NEW a \in Candidates(w), NEW got,
           Selects(w, a, got), Claimed(w, a, got)
    PROVE  /\ attempts' \in Seq(Attempt) /\ AttemptsKept
           /\ a \in DOMAIN attempts
           /\ \A b \in DOMAIN attempts \ {a} : attempts'[b] = attempts[b]
           /\ attempts'[a].status = "running" /\ attempts'[a].worker = w
           /\ attempts'[a].lease = now + Lease
           /\ attempts'[a].keys = IF KeysForStage(a) = << >> THEN attempts[a].keys
                                  ELSE KeysForStage(a)
<1>1. a \in DOMAIN attempts /\ HasSpec(a)
  BY DEF Candidates, Selects
<1>2. attempts[a] \in Attempt /\ KeysForStage(a) \in Seq(Keys)
  BY <1>1, AttemptFacts
<1> DEFINE kept == IF KeysForStage(a) = << >> THEN attempts[a].keys ELSE KeysForStage(a)
           e == [attempts[a] EXCEPT !.status = "running", !.worker = w,
                                    !.lease = now + Lease, !.keys = kept]
<1>3. attempts' = [attempts EXCEPT ![a] = e]
  BY DEF Claimed
<1>4. /\ e \in Attempt /\ e.run = attempts[a].run /\ e.stage = attempts[a].stage
      /\ e.status = "running" /\ e.worker = w /\ e.lease = now + Lease
      /\ e.keys = kept
  <2>1. kept \in Seq(Keys) /\ now + Lease \in Int
    BY <1>2, ConstantsAssumption DEF TypeOK, Attempt, ConstantsAssumption
  <2> HIDE DEF kept
  <2> QED
    BY <1>2, <2>1 DEF Attempt, AttemptStatuses
<1> HIDE DEF e
<1>5. attempts' \in Seq(Attempt) /\ AttemptsKept
  BY <1>1, <1>3, <1>4, AttemptReplaced
<1> QED
  BY <1>1, <1>3, <1>4, <1>5 DEF AttemptsKept

\* So does giving back the locks of skipped candidates.
LEMMA GivenBackType ==
    ASSUME TypeOK, NEW got
    PROVE  GivenBack(got) \in [Keys -> Row]
  BY DEF TypeOK, GivenBack, Row, NoRow

\* Claims.
LEMMA TypeClaims ==
    ASSUME TypeOK, NEW w \in Workers,
           Claim(w) \/ ClaimLost(w) \/ ClaimUnsaved(w) \/ ClaimNothing(w)
    PROVE  TypeOK'
<1>1. ASSUME NEW a \in Candidates(w), NEW got, Selects(w, a, got), Claimed(w, a, got)
      PROVE  locks' \in [Keys -> Row]
  <2>1. a \in Nat /\ now + Lease \in Int
    BY AttemptFacts, ConstantsAssumption DEF Candidates, TypeOK, ConstantsAssumption
  <2> QED
    BY <1>1, <2>1, GivenBackType, LockTableType DEF Claimed
<1>2. CASE Claim(w)
  <2>1. PICK a, got :
            /\ a \in Candidates(w)
            /\ Selects(w, a, got) /\ Claimed(w, a, got)
            /\ worker' = [worker EXCEPT ![w] = [pc |-> "executing", attempt |-> a]]
            /\ UNCHANGED <<gitlab, issues, runs, journal, client, now, granted>>
    BY <1>2 DEF Claim
  <2>2. a \in Nat /\ a \in DOMAIN attempts
    BY <2>1, AttemptFacts DEF Candidates
  <2> QED
    BY <1>1, <2>1, <2>2, ClaimedAttempt, TypeStep DEF TypeOK
<1>3. CASE ClaimLost(w)
  <2>1. PICK a, got :
            a \in Candidates(w) /\ Selects(w, a, got) /\ Claimed(w, a, got)
    BY <1>3 DEF ClaimLost
  <2>2. UNCHANGED <<gitlab, issues, runs, journal, worker, client, now, granted>>
    BY <1>3 DEF ClaimLost
  <2> QED
    BY <1>1, <2>1, <2>2, ClaimedAttempt, TypeStep DEF TypeOK
<1>4. ASSUME locks' \in [Keys -> Row],
             UNCHANGED <<gitlab, issues, runs, attempts, journal, worker, client, now, granted>>
      PROVE  TypeOK'
  BY <1>4 DEF TypeOK
<1>5. CASE ClaimUnsaved(w)
  <2>1. ASSUME NEW a \in Candidates(w), NEW got, NEW taken, NEW kept
        PROVE  LeftBehind(got, a, taken, kept) \in [Keys -> Row]
    <3>1. a \in Nat /\ now + Lease \in Int
      BY AttemptFacts, ConstantsAssumption DEF Candidates, TypeOK, ConstantsAssumption
    <3> QED
      BY <3>1, GivenBackType DEF LeftBehind, Row, NoRow
  <2>2. locks' \in [Keys -> Row]
    BY <1>5, <2>1 DEF ClaimUnsaved
  <2> QED
    BY <1>4, <1>5, <2>2 DEF ClaimUnsaved
<1>6. CASE ClaimNothing(w)
  BY <1>4, <1>6, GivenBackType DEF ClaimNothing
<1> QED
  BY <1>2, <1>3, <1>5, <1>6

\* A heartbeat changes the lease of the worker's attempt.
LEMMA HeartbeatAttempt ==
    ASSUME TypeOK, NEW w \in Workers, Heartbeat(w)
    PROVE  /\ attempts' \in Seq(Attempt) /\ AttemptsKept
           /\ Held(w) \in DOMAIN attempts
           /\ attempts' = [attempts EXCEPT ![Held(w)] =
                             [attempts[Held(w)] EXCEPT !.lease = now + Lease]]
<1> DEFINE a == Held(w)
           e == [attempts[a] EXCEPT !.lease = now + Lease]
<1>1. a \in DOMAIN attempts
  BY DEF TypeOK, Heartbeat, Held
<1>2. attempts' = [attempts EXCEPT ![a] = e]
  BY DEF Heartbeat
<1>3. attempts[a] \in Attempt /\ now + Lease \in Int
  BY <1>1, AttemptFacts, ConstantsAssumption DEF TypeOK, ConstantsAssumption
<1>4. e \in Attempt /\ e.run = attempts[a].run /\ e.stage = attempts[a].stage
  BY <1>3 DEF Attempt
<1> QED
  BY <1>1, <1>2, <1>4, AttemptReplaced

\* A completion changes the worker's attempt, the journal and the lock table.
LEMMA CompletedAttempt ==
    ASSUME TypeOK, NEW w \in Workers, NEW result \in Results, Completed(w, result)
    PROVE  /\ attempts' \in Seq(Attempt) /\ AttemptsKept
           /\ Held(w) \in DOMAIN attempts
           /\ attempts' = [attempts EXCEPT ![Held(w)] =
                             [attempts[Held(w)] EXCEPT !.status = result, !.lease = NoLease]]
           /\ journal' \in [1 .. MaxRuns -> Plans \cup {NoPlan}]
           /\ locks' \in [Keys -> Row]
<1> DEFINE a == Held(w)
           e == [attempts[a] EXCEPT !.status = result, !.lease = NoLease]
<1>1. a \in DOMAIN attempts
  BY DEF TypeOK, Completed, Held
<1>2. attempts[a] \in Attempt /\ a \in Nat
  BY <1>1, AttemptFacts
<1>3. attempts' = [attempts EXCEPT ![a] = e]
  BY DEF Completed
<1>4. e \in Attempt /\ e.run = attempts[a].run /\ e.stage = attempts[a].stage
  <2>1. NoLease \in Int /\ result \in AttemptStatuses
    BY ConstantsAssumption DEF NoLease, AttemptStatuses, Finished, ConstantsAssumption
  <2> QED
    BY <1>2, <2>1 DEF Attempt
<1>5. journal' \in [1 .. MaxRuns -> Plans \cup {NoPlan}]
  <2>1. attempts[a].run \in 1 .. MaxRuns
    BY <1>2 DEF Attempt
  <2>2. ReportedPlans(a) \subseteq Plans \cup {NoPlan}
    BY <2>1 DEF TypeOK, ReportedPlans
  <2> QED
    BY <2>2 DEF TypeOK, Completed
<1>6. locks' \in [Keys -> Row]
  BY ReleaseType DEF TypeOK, Completed
<1> QED
  BY <1>1, <1>3, <1>4, <1>5, <1>6, AttemptReplaced

\* A recovery resets the stale attempts and no others.
LEMMA RecoveredAttempts ==
    ASSUME TypeOK, RecoverStuckRuns
    PROVE  /\ attempts' \in Seq(Attempt) /\ AttemptsKept
           /\ \A a \in DOMAIN attempts :
                 /\ attempts'[a].keys = attempts[a].keys
                 /\ a \notin Stale => attempts'[a] = attempts[a]
                 /\ a \in Stale => attempts'[a].lease = NoLease /\ attempts'[a].status = "pending"
<1>1. DOMAIN attempts = 1 .. Len(attempts) /\ Len(attempts) \in Nat
  BY LenProperties DEF TypeOK
<1>2. ASSUME NEW a \in DOMAIN attempts
      PROVE  /\ attempts'[a] \in Attempt
             /\ attempts'[a].run = attempts[a].run /\ attempts'[a].stage = attempts[a].stage
             /\ attempts'[a].keys = attempts[a].keys
             /\ a \notin Stale => attempts'[a] = attempts[a]
             /\ a \in Stale => attempts'[a].lease = NoLease /\ attempts'[a].status = "pending"
  <2>1. attempts[a] \in Attempt
    BY AttemptFacts
  <2>2. CASE a \in Stale
    <3>1. attempts'[a] = [attempts[a] EXCEPT !.status = "pending", !.worker = NoWorker,
                                             !.lease = NoLease]
      BY <2>2 DEF RecoverStuckRuns
    <3>2. NoLease \in Int /\ "pending" \in AttemptStatuses
      BY DEF NoLease, AttemptStatuses
    <3>3. attempts'[a] \in Attempt
      BY <2>1, <3>1, <3>2 DEF Attempt
    <3> QED
      BY <2>1, <2>2, <3>1, <3>3 DEF Attempt
  <2>3. CASE a \notin Stale
    BY <2>1, <2>3 DEF RecoverStuckRuns
  <2> QED
    BY <2>2, <2>3
<1>3. DOMAIN attempts' = DOMAIN attempts
  BY DEF RecoverStuckRuns
<1>4. attempts' \in [1 .. Len(attempts) -> Attempt]
  BY <1>1, <1>2 DEF RecoverStuckRuns
<1>5. attempts' \in Seq(Attempt)
  BY <1>1, <1>4, FunctionSeq
<1> QED
  BY <1>2, <1>3, <1>5 DEF AttemptsKept

\* Stages being executed, recovery, and time.
LEMMA TypeExecution ==
    ASSUME TypeOK, NEW w \in Workers,
           \/ Heartbeat(w) \/ HeartbeatFails(w)
           \/ \E result \in Results : Complete(w, result) \/ CompleteLost(w, result)
           \/ CompleteFails(w) \/ Crash(w)
    PROVE  TypeOK'
<1>1. worker[w].pc = "executing" =>
          /\ Held(w) \in DOMAIN attempts /\ Held(w) \in Nat
          /\ attempts[Held(w)] \in Attempt
  BY AttemptFacts DEF TypeOK, Held
<1>2. now + Lease \in Int
  BY ConstantsAssumption DEF TypeOK, ConstantsAssumption
<1>3. CASE Heartbeat(w)
  <2>1. locks' \in [Keys -> Row]
    BY <1>1, <1>2, <1>3, LockTableType DEF TypeOK, Heartbeat
  <2> QED
    BY <1>3, <2>1, HeartbeatAttempt, TypeStep DEF TypeOK, Heartbeat
<1>4. CASE HeartbeatFails(w)
  <2>1. locks' \in [Keys -> Row]
    <3>1. PICK n : locks' = Refresh(locks, KeyPrefix(attempts[Held(w)].keys, n), Held(w),
                                    now + Lease)
      BY <1>4 DEF HeartbeatFails
    <3> QED
      BY <1>1, <1>2, <1>4, <3>1, LockTableType DEF TypeOK, HeartbeatFails
  <2> QED
    BY <1>4, <2>1 DEF TypeOK, HeartbeatFails
<1>5. ASSUME NEW result \in Results, Complete(w, result) \/ CompleteLost(w, result)
      PROVE  TypeOK'
  <2>1. /\ Completed(w, result)
        /\ UNCHANGED <<gitlab, issues, runs, client, now, granted>>
        /\ \E pc \in {"idle", "reconciling"} :
              worker' = [worker EXCEPT ![w] = [pc |-> pc, attempt |-> 0]]
    BY <1>5 DEF Complete, CompleteLost
  <2>2. /\ worker' \in [Workers -> [pc : {"idle", "executing", "reconciling"},
                                    attempt : Nat]]
        /\ \A v \in Workers :
              worker'[v].pc = "executing" => worker'[v].attempt \in DOMAIN attempts
    BY <2>1 DEF TypeOK
  <2> QED
    BY <2>1, <2>2, CompletedAttempt, TypeStep
<1>6. CASE CompleteFails(w)
  <2>1. locks' \in [Keys -> Row]
    <3>1. PICK n : locks' = Release(locks, KeyPrefix(attempts[Held(w)].keys, n), Held(w))
      BY <1>6 DEF CompleteFails
    <3> QED
      BY <3>1, ReleaseType DEF TypeOK
  <2>2. journal' \in [1 .. MaxRuns -> Plans \cup {NoPlan}]
    <3>1. attempts[Held(w)].run \in 1 .. MaxRuns
      BY <1>1, <1>6 DEF Attempt, CompleteFails
    <3>2. ReportedPlans(Held(w)) \subseteq Plans \cup {NoPlan}
      BY <3>1 DEF TypeOK, ReportedPlans
    <3> QED
      BY <1>6, <3>2 DEF TypeOK, CompleteFails
  <2> QED
    BY <1>6, <2>1, <2>2 DEF TypeOK, CompleteFails
<1>7. CASE Crash(w)
  BY <1>7 DEF TypeOK, Crash
<1> QED
  BY <1>3, <1>4, <1>5, <1>6, <1>7

\* Recovery and the clock keep the state well-typed.
LEMMA TypeRecovery ==
    ASSUME TypeOK, RecoverStuckRuns \/ RecoverFails \/ Tick
    PROVE  TypeOK'
<1>1. CASE RecoverStuckRuns
  <2>1. locks' \in [Keys -> Row]
    <3>1. NoRow \in Row /\ locks \in [Keys -> Row]
      BY DEF TypeOK, Row, NoRow
    <3>2. \A k \in Keys : locks'[k] \in {NoRow, locks[k]}
      BY <1>1 DEF RecoverStuckRuns
    <3>3. DOMAIN locks' = Keys /\ locks' = [k \in Keys |-> locks'[k]]
      BY <1>1 DEF RecoverStuckRuns
    <3> QED
      BY <3>1, <3>2, <3>3
  <2> QED
    BY <1>1, <2>1, RecoveredAttempts, TypeStep DEF TypeOK, RecoverStuckRuns
<1>2. CASE RecoverFails
  <2>1. locks' \in [Keys -> Row]
    BY <1>2 DEF TypeOK, RecoverFails, Row, NoRow
  <2> QED
    BY <1>2, <2>1 DEF TypeOK, RecoverFails
<1>3. CASE Tick
  BY <1>3 DEF TypeOK, Tick
<1> QED
  BY <1>1, <1>2, <1>3

\* Every step does.
LEMMA TypeNext == TypeOK /\ [Next]_vars => TypeOK'
<1> SUFFICES ASSUME TypeOK, [Next]_vars
             PROVE  TypeOK'
  OBVIOUS
<1>1. CASE \E scope \in Scopes : OperatorReconcile(scope)
  <2>1. PICK scope \in Scopes : OperatorReconcile(scope)
    BY <1>1
  <2>2. scope \in SUBSET Issues
    BY DEF Scopes
  <2> QED
    BY <2>1, <2>2, TypeReconcile DEF OperatorReconcile, TypeOK
<1>2. ASSUME NEW w \in Workers, WorkerReconcile(w)
      PROVE  TypeOK'
  <2>1. /\ worker' \in [Workers -> [pc : {"idle", "executing", "reconciling"},
                                    attempt : Nat]]
        /\ \A v \in Workers : worker'[v].pc = "executing" => worker'[v] = worker[v]
    BY <1>2 DEF TypeOK, WorkerReconcile
  <2> QED
    BY <1>2, <2>1, TypeReconcile DEF WorkerReconcile
<1>3. CASE UNCHANGED vars
  BY <1>3 DEF TypeOK, vars
<1> QED
  BY <1>1, <1>2, <1>3, TypeRequests, TypeClaims, TypeExecution, TypeRecovery DEF Next

\* Every reachable state has the types of TypeOK: in particular attempts belong
\* to runs that exist, and workers hold attempts that exist, whatever
\* operations fail half-way.
THEOREM TypeCorrect == Spec => []TypeOK
<1>1. Init => TypeOK
  BY TypeInit
<1>2. TypeOK /\ [Next]_vars => TypeOK'
  BY TypeNext
<1> QED
  BY <1>1, <1>2, PTL DEF Spec

-----------------------------------------------------------------------------
(* One attempt per stage of a run.                                         *)

\* A step keeps the attempts, or is a reconciliation and appends fresh ones.
LEMMA AttemptsStep ==
    ASSUME TypeOK, [Next]_vars
    PROVE  \/ AttemptsKept
           \/ \E new \in Seq(Attempt) : attempts' = attempts \o new /\ Fresh(new)
<1>1. ASSUME UNCHANGED attempts PROVE AttemptsKept
  BY <1>1 DEF AttemptsKept
<1>2. ASSUME NEW scope \in SUBSET Issues, Reconcile(scope) \/ ReconcileFails(scope)
      PROVE  \/ AttemptsKept
             \/ \E new \in Seq(Attempt) : attempts' = attempts \o new /\ Fresh(new)
  BY <1>1, <1>2, ReconcileQueues DEF ReconcileFails
<1>3. ASSUME NEW scope \in Scopes, OperatorReconcile(scope)
      PROVE  \/ AttemptsKept
             \/ \E new \in Seq(Attempt) : attempts' = attempts \o new /\ Fresh(new)
  <2>1. scope \in SUBSET Issues
    BY DEF Scopes
  <2> QED
    BY <1>2, <1>3, <2>1 DEF OperatorReconcile
<1>4. ASSUME NEW w \in Workers, WorkerReconcile(w)
      PROVE  \/ AttemptsKept
             \/ \E new \in Seq(Attempt) : attempts' = attempts \o new /\ Fresh(new)
  BY <1>2, <1>4 DEF WorkerReconcile
<1>5. ASSUME NEW w \in Workers, Claim(w) \/ ClaimLost(w)
      PROVE  AttemptsKept
  <2>1. PICK a, got : a \in Candidates(w) /\ Selects(w, a, got) /\ Claimed(w, a, got)
    BY <1>5 DEF Claim, ClaimLost
  <2> QED
    BY <2>1, ClaimedAttempt
<1>6. ASSUME NEW w \in Workers, ClaimUnsaved(w) \/ ClaimNothing(w) \/ HeartbeatFails(w)
                                  \/ CompleteFails(w) \/ Crash(w)
      PROVE  AttemptsKept
  BY <1>1, <1>6 DEF ClaimUnsaved, ClaimNothing, HeartbeatFails, CompleteFails, Crash
<1>7. ASSUME NEW w \in Workers, NEW result \in Results,
             Complete(w, result) \/ CompleteLost(w, result)
      PROVE  AttemptsKept
  BY <1>7, CompletedAttempt DEF Complete, CompleteLost
<1>8. ASSUME \/ \E i \in Issues : Request(i) \/ Approve(i)
             \/ \E c \in Clients :
                   \/ \E i \in Issues \cup {NoIssue} : ListIssues(c, i)
                   \/ EnqueueFromGitLab(c)
                   \/ EnsureRunForIssue(c)
                   \/ \E plan \in Plans : PersistPipelineArtifacts(c, plan)
                   \/ MaterializeFails(c)
             \/ RecoverFails
             \/ Tick
      PROVE  AttemptsKept
  BY <1>1, <1>8 DEF Request, Approve, ListIssues, EnqueueFromGitLab, EnsureRunForIssue,
                    PersistPipelineArtifacts, MaterializeFails, RecoverFails, Tick
<1> QED
  BY <1>1, <1>3, <1>4, <1>5, <1>6, <1>7, <1>8, HeartbeatAttempt, RecoveredAttempts
  DEF Next, vars

\* The facts about an appended sequence of attempts.
LEMMA AppendedAttempts ==
    ASSUME TypeOK, NEW new \in Seq(Attempt), attempts' = attempts \o new
    PROVE  /\ DOMAIN attempts = 1 .. Len(attempts) /\ Len(attempts) \in Nat
           /\ DOMAIN new = 1 .. Len(new) /\ Len(new) \in Nat
           /\ DOMAIN attempts' = 1 .. Len(attempts) + Len(new)
           /\ \A a \in DOMAIN attempts : attempts'[a] = attempts[a]
           /\ \A a \in DOMAIN attempts' \ DOMAIN attempts :
                 a - Len(attempts) \in DOMAIN new /\ attempts'[a] = new[a - Len(attempts)]
  BY ConcatProperties, LenProperties DEF TypeOK

\* No step gives a stage of a run a second attempt.
LEMMA UniqueNext == TypeOK /\ UniqueAttempts /\ [Next]_vars => UniqueAttempts'
<1> SUFFICES ASSUME TypeOK, UniqueAttempts, [Next]_vars
             PROVE  UniqueAttempts'
  OBVIOUS
<1>1. CASE AttemptsKept
  BY <1>1 DEF AttemptsKept, UniqueAttempts
<1>2. CASE \E new \in Seq(Attempt) : attempts' = attempts \o new /\ Fresh(new)
  <2>1. PICK new \in Seq(Attempt) : attempts' = attempts \o new /\ Fresh(new)
    BY <1>2
  <2> SUFFICES ASSUME NEW a \in DOMAIN attempts', NEW b \in DOMAIN attempts',
                      attempts'[a].run = attempts'[b].run,
                      attempts'[a].stage = attempts'[b].stage
               PROVE  a = b
    BY DEF UniqueAttempts
  <2>2. ASSUME NEW c \in DOMAIN attempts, NEW d \in DOMAIN attempts' \ DOMAIN attempts,
               attempts'[c].run = attempts'[d].run,
               attempts'[c].stage = attempts'[d].stage
        PROVE  FALSE
    <3>1. /\ attempts'[c] = attempts[c]
          /\ AttemptsOf(attempts'[d].run, attempts'[d].stage) = {}
      BY <2>1, AppendedAttempts DEF Fresh
    <3> QED
      BY <2>2, <3>1 DEF AttemptsOf
  <2>3. CASE a \in DOMAIN attempts /\ b \in DOMAIN attempts
    BY <2>1, <2>3, AppendedAttempts DEF UniqueAttempts
  <2>4. CASE a \notin DOMAIN attempts /\ b \notin DOMAIN attempts
    <3>1. /\ a - Len(attempts) \in DOMAIN new /\ attempts'[a] = new[a - Len(attempts)]
          /\ b - Len(attempts) \in DOMAIN new /\ attempts'[b] = new[b - Len(attempts)]
          /\ a \in Nat /\ b \in Nat /\ Len(attempts) \in Nat
      BY <2>1, <2>4, AppendedAttempts
    <3>2. a - Len(attempts) = b - Len(attempts)
      BY <2>1, <3>1 DEF Fresh
    <3> QED
      BY <3>1, <3>2
  <2> QED
    BY <2>2, <2>3, <2>4
<1> QED
  BY <1>1, <1>2, AttemptsStep

\* Reconciliation, from wherever and however often it is called, and however it
\* interleaves with claims, completions, recoveries and replaced plans, queues
\* a stage of a run at most once.
THEOREM AttemptsAreUnique == Spec => []UniqueAttempts
<1>1. Init => UniqueAttempts
  BY DEF Init, UniqueAttempts
<1>2. TypeOK /\ UniqueAttempts /\ [Next]_vars => UniqueAttempts'
  BY UniqueNext
<1> QED
  BY <1>1, <1>2, TypeCorrect, PTL DEF Spec
=============================================================================
