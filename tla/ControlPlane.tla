---------------------------- MODULE ControlPlane ----------------------------
(***************************************************************************)
(* The control plane of Autodev and the parties it serves: the service of  *)
(* internal/controlplane (issue intake, run creation, scheduling, claims,  *)
(* heartbeats, completion, recovery), the lock table it shares with no one *)
(* else, the labels of the GitLab issues, the requests of operators, and   *)
(* the workers of cmd/stage-runner.                                        *)
(*                                                                         *)
(* Every operation of the service runs inside store.Save, which holds the  *)
(* store's mutex from loading the state to renaming the new state file     *)
(* into place, so an operation is one action.  When the operation returns  *)
(* an error the new state is dropped, but what it did outside the state    *)
(* file stays: labels set on GitLab, lock rows, files of the journal.      *)
(* These outcomes are the actions whose names end in Fails, Lost or        *)
(* Unsaved; the constant Faults says which of them a run admits.           *)
(***************************************************************************)
EXTENDS PipelineEval, ResourceLocks

CONSTANTS
    Issues,         \* the delivery issues
    Workers,        \* the worker processes
    Approvable,     \* bound: the issues that may get approved
    Clients,        \* the concurrent enqueue and materialize requests
    WorkerStages,   \* the allow list of stages of every worker
    Replanning,     \* the stages whose outputs carry an execution plan
    Results,        \* the outcomes of stage execution
    Faults,         \* the failures that may happen
    Lease,          \* the lease of a claim, in clock units
    MaxAge,         \* how long past its lease an attempt is left alone
    Timely,         \* every working worker renews its lease before it ends
    MaxRuns,        \* bound: the number of runs created
    MaxNow,         \* bound: the last clock value
    LastFault,      \* bound: the last time a failure may happen
    NoPlan, NoWorker, NoIssue

AllFaults ==
    {"claim", "heartbeat", "complete", "recover", "reconcile", "materialize", "crash"}

ASSUME ConstantsAssumption ==
    /\ Lease \in Nat \ {0} /\ MaxAge \in Nat \ {0}
    /\ MaxRuns \in Nat /\ MaxNow \in Nat /\ LastFault \in Int
    /\ Timely \in BOOLEAN
    /\ Faults \subseteq AllFaults
    /\ Results \subseteq {"succeeded", "blocked", "failed"}
    /\ Replanning \subseteq Stages
    /\ WorkerStages \in [Workers -> SUBSET Stages]
    /\ NoPlan \notin Plans /\ NoWorker \notin Workers /\ NoIssue \notin Issues

VARIABLES
    gitlab,     \* the delivery/ labels of every issue on GitLab
    issues,     \* the tracked issues of the state file
    runs,       \* the runs of the state file, by creation
    attempts,   \* the stage attempts of the state file, by id
    journal,    \* the execution plan in the work-order journal of every run
    locks,      \* the lock table
    worker,     \* what every worker does
    client,     \* what every enqueue or materialize request does
    now,        \* the clock
    granted     \* history: the issues somebody has ever approved

vars == <<gitlab, issues, runs, attempts, journal, locks, worker, client, now,
          granted>>

Labels == {"requested", "active", "awaiting_approval", "completed", "failed",
           "approved"}
RunStatuses == {"pending", "active", "awaiting_approval", "completed", "failed"}
Finished == {"succeeded", "blocked", "failed"}
AttemptStatuses == {"pending", "running"} \cup Finished
NoLease == -1

Attempt ==
    [ run : 1 .. MaxRuns, stage : Stages, attempt : Nat, status : AttemptStatuses,
      worker : Workers \cup {NoWorker}, lease : Int, keys : Seq(Keys) ]

TrackedIssue == [tracked : BOOLEAN, labels : SUBSET Labels, approved : BOOLEAN]

ClientState ==
    [ pc : {"idle", "listed", "enqueued", "ensured"}, issue : Issues \cup {NoIssue},
      list : [Issues -> SUBSET Labels], run : Nat ]

TypeOK ==
    /\ gitlab \in [Issues -> SUBSET Labels]
    /\ issues \in [Issues -> TrackedIssue]
    /\ runs \in Seq([issue : Issues, status : RunStatuses])
    /\ Len(runs) <= MaxRuns
    /\ attempts \in Seq(Attempt)
    /\ \A a \in DOMAIN attempts : attempts[a].run \in DOMAIN runs
    /\ journal \in [1 .. MaxRuns -> Plans \cup {NoPlan}]
    /\ locks \in [Keys -> Row]
    /\ worker \in [Workers -> [pc : {"idle", "executing", "reconciling"},
                               attempt : Nat]]
    /\ \A w \in Workers :
          worker[w].pc = "executing" => worker[w].attempt \in DOMAIN attempts
    /\ client \in [Clients -> ClientState]
    /\ \A c \in Clients : client[c].pc = "enqueued" => client[c].issue \in Issues
    /\ \A c \in Clients : client[c].pc = "ensured" => client[c].run \in DOMAIN runs
    /\ now \in Nat
    /\ granted \subseteq Issues

IdleClient == [pc |-> "idle", issue |-> NoIssue, list |-> [i \in Issues |-> {}],
               run |-> 0]

Init ==
    /\ gitlab = [i \in Issues |-> {}]
    /\ issues = [i \in Issues |-> [tracked |-> FALSE, labels |-> {},
                                   approved |-> FALSE]]
    /\ runs = << >>
    /\ attempts = << >>
    /\ journal = [r \in 1 .. MaxRuns |-> NoPlan]
    /\ locks = [k \in Keys |-> NoRow]
    /\ worker = [w \in Workers |-> [pc |-> "idle", attempt |-> 0]]
    /\ client = [c \in Clients |-> IdleClient]
    /\ now = 0
    /\ granted = {}

-----------------------------------------------------------------------------
(* Reading the state.                                                      *)

\* latestRunForIssue: creation times grow with the run number; 0 is no run.
latestRun(i) ==
    LET own == {r \in DOMAIN runs : runs[r].issue = i}
    IN  IF own = {} THEN 0 ELSE CHOOSE r \in own : \A q \in own : q <= r

\* Mutant: only an active run is taken up again.
runStatusNotActive(status) == status # "active"

runStatusTerminal(status) == status \in {"awaiting_approval", "completed", "failed"}

AttemptsOf(r, s) == {a \in DOMAIN attempts : attempts[a].run = r /\ attempts[a].stage = s}

\* Mutant: attempts that nobody has started are not seen.
AttemptsStarted(r) ==
    LET started(s) == {a \in AttemptsOf(r, s) : attempts[a].status # "pending"}
        highest(s) == CHOOSE a \in started(s) :
            \A b \in started(s) : attempts[b].attempt <= attempts[a].attempt
    IN  [s \in {s \in Stages : started(s) # {}} |-> attempts[highest(s)].status]

\* The status of the attempt of every stage with the highest number.  Among
\* attempts of the same number the code takes any (UniqueAttempts rules the
\* case out).
AttemptsByStage(r) ==
    LET highest(s) == CHOOSE a \in AttemptsOf(r, s) :
            \A b \in AttemptsOf(r, s) : attempts[b].attempt <= attempts[a].attempt
    IN  [s \in {s \in Stages : AttemptsOf(r, s) # {}} |-> attempts[highest(s)].status]

RunningCount(s) ==
    Cardinality({a \in DOMAIN attempts :
        /\ attempts[a].stage = s
        /\ attempts[a].status = "running"
        /\ attempts[a].lease = NoLease \/ attempts[a].lease >= now})

MayFail(operation) == operation \in Faults /\ now <= LastFault

AtLeastOne(n) == IF n < 1 THEN 1 ELSE n

KeySet(keys) == {keys[n] : n \in DOMAIN keys}
KeyPrefix(keys, n) == {keys[m] : m \in 1 .. n}

-----------------------------------------------------------------------------
(* People: an issue is requested, and its delivery approved, by labelling  *)
(* it on GitLab.                                                           *)

Request(i) ==
    /\ gitlab[i] \cap {"requested", "active", "awaiting_approval"} = {}
    /\ gitlab' = [gitlab EXCEPT ![i] = (@ \cap {"approved"}) \cup {"requested"}]
    /\ UNCHANGED <<issues, runs, attempts, journal, locks, worker, client, now, granted>>

Approve(i) ==
    /\ i \in Approvable
    /\ gitlab[i] # {}
    /\ gitlab' = [gitlab EXCEPT ![i] = @ \cup {"approved"}]
    /\ granted' = granted \cup {i}
    /\ UNCHANGED <<issues, runs, attempts, journal, locks, worker, client, now>>

-----------------------------------------------------------------------------
(* Intake and materialization.  An enqueue request lists the issues before *)
(* it takes the store's mutex; a materialize request enqueues, ensures a   *)
(* run, builds the plan outside the mutex and persists it.                 *)

ListIssues(c, i) ==
    /\ client[c].pc = "idle"
    /\ client' = [client EXCEPT ![c] = [pc |-> "listed", issue |-> i,
                                        list |-> gitlab, run |-> 0]]
    /\ UNCHANGED <<gitlab, issues, runs, attempts, journal, locks, worker, now, granted>>

EnqueueFromGitLab(c) ==
    /\ client[c].pc = "listed"
    /\ issues' = [i \in Issues |->
           LET labels == client[c].list[i]
           IN  IF labels = {} THEN issues[i]
               ELSE [tracked |-> TRUE, labels |-> labels,
                     approved |-> "approved" \in labels]]
    /\ client' = [client EXCEPT ![c] =
           IF @.issue = NoIssue THEN IdleClient
           ELSE [@ EXCEPT !.pc = "enqueued", !.list = [i \in Issues |-> {}]]]
    /\ UNCHANGED <<gitlab, runs, attempts, journal, locks, worker, now, granted>>

EnsureRunForIssue(c) ==
    LET i      == client[c].issue
        latest == latestRun(i)
        reuse  == latest # 0 /\ ~runStatusTerminal(runs[latest].status)
        run    == IF reuse THEN latest ELSE Len(runs) + 1
    IN  /\ client[c].pc = "enqueued"
        /\ issues[i].tracked
        /\ run <= MaxRuns
        /\ runs' = IF reuse THEN runs
                   ELSE Append(runs, [issue |-> i, status |-> "pending"])
        /\ client' = [client EXCEPT ![c].pc = "ensured", ![c].run = run]
        /\ UNCHANGED <<gitlab, issues, attempts, journal, locks, worker, now, granted>>

PersistPipelineArtifacts(c, plan) ==
    /\ client[c].pc = "ensured"
    /\ journal' = [journal EXCEPT ![client[c].run] = plan]
    /\ client' = [client EXCEPT ![c] = IdleClient]
    /\ UNCHANGED <<gitlab, issues, runs, attempts, locks, worker, now, granted>>

\* The issue is unknown, or a step of the request failed: no plan is written,
\* a run that was ensured stays.
MaterializeFails(c) ==
    /\ \/ client[c].pc = "enqueued" /\ ~issues[client[c].issue].tracked
       \/ client[c].pc \in {"enqueued", "ensured"} /\ MayFail("materialize")
    /\ client' = [client EXCEPT ![c] = IdleClient]
    /\ UNCHANGED <<gitlab, issues, runs, attempts, journal, locks, worker, now, granted>>

-----------------------------------------------------------------------------
(* Reconciliation.                                                         *)

Scheduled(i) ==
    /\ issues[i].tracked
    /\ issues[i].labels \cap {"requested", "active", "awaiting_approval"} # {}
    /\ latestRun(i) # 0

\* Mutant: an issue that no longer waits is taken for approved.
ApprovedUnlessWaiting(i) == issues[i].labels # {"awaiting_approval"}

Approved(i) == issues[i].approved \/ "approved" \in issues[i].labels

PlanOf(i) == journal[latestRun(i)]

\* The stages of the run of issue i that reconciliation queues: the triggered
\* ones, and the runnable ones below their parallelism.
ToQueue(i, byStage) ==
    LET eval == Evaluate(PlanOf(i), byStage, Approved(i))
    IN  eval.triggered \cup
        {s \in eval.runnable : RunningCount(s) < AtLeastOne(PlanOf(i)[s].parallelism)}

\* The status of the run once these are queued.
ReconciledStatus(i, byStage, queue) ==
    Evaluate(PlanOf(i),
             [s \in DOMAIN byStage \cup queue |->
                 IF s \in queue THEN "pending" ELSE byStage[s]],
             Approved(i)).status

\* transitionIssue: every delivery/ label is replaced, delivery/approved too.
LabelFor(status) == IF status = "pending" THEN "active" ELSE status

Relabel(labelled, statuses) ==
    [i \in Issues |-> IF i \in DOMAIN statuses THEN {LabelFor(statuses[i])}
                      ELSE labelled[i]]

\* The orders in which the new attempts may get their ids: issue by issue, the
\* issues in any order (a Go map), triggered stages first, then in plan order.
QueueOrders(queues) ==
    LET queued == UNION {{latestRun(i)} \X queues[i] : i \in DOMAIN queues}
        before(x, y) ==
            LET plan == journal[x[1]]
                rank(s) == IF plan[s].auto THEN 1 ELSE 0
            IN  \/ rank(x[2]) < rank(y[2])
                \/ rank(x[2]) = rank(y[2]) /\ Position[plan][x[2]] < Position[plan][y[2]]
    IN  {q \in [1 .. Cardinality(queued) -> queued] :
            /\ \A m, n \in DOMAIN q : q[m] = q[n] => m = n
            /\ \A m, n \in DOMAIN q :
                  m < n /\ q[m][1] = q[n][1] =>
                      /\ before(q[m], q[n])
                      /\ \A l \in m .. n : q[l][1] = q[m][1]}

NewAttempt(x) ==
    [ run |-> x[1], stage |-> x[2], attempt |-> 1, status |-> "pending",
      worker |-> NoWorker, lease |-> NoLease, keys |-> << >> ]

Reconcile(scope) ==
    LET S == {i \in scope : Scheduled(i)}
    IN  /\ \A i \in S : PlanOf(i) # NoPlan
        /\ \E byStage \in {[i \in S |-> AttemptsByStage(latestRun(i))]} :
           \E queues \in {[i \in S |-> ToQueue(i, byStage[i])]} :
           \E statuses \in {[i \in S |-> ReconciledStatus(i, byStage[i], queues[i])]} :
              /\ \E q \in QueueOrders(queues) :
                    attempts' = attempts \o [n \in DOMAIN q |-> NewAttempt(q[n])]
              /\ runs' = [r \in DOMAIN runs |->
                     IF runs[r].issue \in S /\ r = latestRun(runs[r].issue)
                     THEN [runs[r] EXCEPT !.status = statuses[runs[r].issue]]
                     ELSE runs[r]]
              /\ issues' = [i \in Issues |-> [issues[i] EXCEPT !.labels =
                                Relabel([j \in Issues |-> issues[j].labels], statuses)[i]]]
              /\ gitlab' = Relabel(gitlab, statuses)
        /\ UNCHANGED <<journal, locks, client, now, granted>>

\* The first issue without a plan, or the first failing call, ends the whole
\* operation.  The state is dropped; the issues handled before keep their new
\* labels on GitLab.
ReconcileFails(scope) ==
    LET S == {i \in scope : Scheduled(i)}
    IN  /\ MayFail("reconcile") \/ \E i \in S : PlanOf(i) = NoPlan
        /\ \E handled \in SUBSET {i \in S : PlanOf(i) # NoPlan} :
           \E byStage \in {[i \in handled |-> AttemptsByStage(latestRun(i))]} :
           \E queues \in {[i \in handled |-> ToQueue(i, byStage[i])]} :
              gitlab' = Relabel(gitlab,
                  [i \in handled |-> ReconciledStatus(i, byStage[i], queues[i])])
        /\ UNCHANGED <<issues, runs, attempts, journal, locks, client, now, granted>>

OperatorReconcile(scope) ==
    (Reconcile(scope) \/ ReconcileFails(scope)) /\ UNCHANGED worker

-----------------------------------------------------------------------------
(* Claiming.  Pending attempts are tried in the order of their ids.  A      *)
(* candidate that cannot get all its locks gives back those it got and is   *)
(* skipped; one without a stage spec ends the operation with an error.      *)

\* Mutant: a failed attempt is handed out again.
CandidatesWithFailed(w) ==
    {a \in DOMAIN attempts :
        /\ attempts[a].status \in {"pending", "failed"}
        /\ attempts[a].stage \in WorkerStages[w]
        /\ runs[attempts[a].run].status \notin {"completed", "failed"}}

\* What claimNext considers, in the order of the ids.  A worker asks for all
\* issues: the filter by issue is for the local command.
Candidates(w) ==
    {a \in DOMAIN attempts :
        /\ attempts[a].status = "pending"
        /\ attempts[a].stage \in WorkerStages[w]
        /\ runs[attempts[a].run].status \notin {"completed", "failed"}}

HasSpec(a) ==
    /\ journal[attempts[a].run] # NoPlan
    /\ attempts[a].stage \in DOMAIN journal[attempts[a].run]

KeysForStage(a) == journal[attempts[a].run][attempts[a].stage].keys

\* got says which locks each skipped candidate held before it gave up.  Besides
\* a free lock, candidate c can take one that an earlier candidate, its owner
\* left over from an unsaved claim, has just given back.
CanTake(c, k, got) ==
    \/ Acquirable(locks, k, c, now)
    \/ /\ locks[k].owner \in DOMAIN got
       /\ locks[k].owner < c
       /\ k \in got[locks[k].owner]

Takes(c, got) ==
    LET keys == KeysForStage(c)
    IN  {keys[n] : n \in {n \in DOMAIN keys : \A m \in 1 .. n : CanTake(c, keys[m], got)}}

\* Every candidate of S is skipped, for lack of a lock.
Skips(S, got) ==
    \A c \in S : /\ HasSpec(c)
                 /\ got[c] = Takes(c, got)
                 /\ \E k \in KeySet(KeysForStage(c)) : ~CanTake(c, k, got)

GivenBack(got) ==
    [k \in Keys |-> IF \E c \in DOMAIN got : k \in got[c] THEN NoRow ELSE locks[k]]

\* Worker w is given attempt a: the candidates before a are skipped and a can
\* take all its locks.
Selects(w, a, got) ==
    /\ worker[w].pc = "idle"
    /\ a \in Candidates(w)
    /\ Skips(DOMAIN got, got)
    /\ HasSpec(a)
    /\ \A k \in KeySet(KeysForStage(a)) : CanTake(a, k, got)

Selections(w, a) == [{c \in Candidates(w) : c < a} -> SUBSET Keys]

\* Mutant: the locks are owned by the worker instead of the attempt.
ClaimedForWorker(w, a, got) ==
    LET keys == KeysForStage(a)
        kept == IF keys = << >> THEN attempts[a].keys ELSE keys
    IN  /\ locks' = Acquire(GivenBack(got), KeySet(keys), w, now + Lease)
        /\ attempts' = [attempts EXCEPT ![a] =
               [@ EXCEPT !.status = "running", !.worker = w, !.lease = now + Lease,
                         !.keys = kept]]

Claimed(w, a, got) ==
    LET keys == KeysForStage(a)
        kept == IF keys = << >> THEN attempts[a].keys ELSE keys
    IN  /\ locks' = Acquire(GivenBack(got), KeySet(keys), a, now + Lease)
        /\ attempts' = [attempts EXCEPT ![a] =
               [@ EXCEPT !.status = "running", !.worker = w, !.lease = now + Lease,
                         !.keys = kept]]

Claim(w) ==
    \E a \in Candidates(w) : \E got \in Selections(w, a) :
        /\ Selects(w, a, got)
        /\ Claimed(w, a, got)
        /\ worker' = [worker EXCEPT ![w] = [pc |-> "executing", attempt |-> a]]
        /\ UNCHANGED <<gitlab, issues, runs, journal, client, now, granted>>

\* The claim is saved but its answer is an error (a signal could not be
\* emitted) or never arrives: the worker exits and is restarted.
ClaimLost(w) ==
    /\ MayFail("claim")
    /\ \E a \in Candidates(w) : \E got \in Selections(w, a) :
          Selects(w, a, got) /\ Claimed(w, a, got)
    /\ UNCHANGED <<gitlab, issues, runs, journal, worker, client, now, granted>>

\* The lock table when a has taken some locks and given back all but those kept.
LeftBehind(got, a, taken, kept) ==
    [k \in Keys |-> IF k \in kept THEN [owner |-> a, expires |-> now + Lease]
                   ELSE IF k \in taken THEN NoRow ELSE GivenBack(got)[k]]

\* The claim fails after it took the locks (the issue comment or the state
\* file) or while taking them (the lock table).  The locks are given back at
\* most in the second case, and an error of that is ignored.
ClaimUnsaved(w) ==
    /\ MayFail("claim")
    /\ worker[w].pc = "idle"
    /\ \E a \in Candidates(w) : \E got \in Selections(w, a) :
          /\ Skips(DOMAIN got, got)
          /\ HasSpec(a)
          /\ \E n \in 0 .. Len(KeysForStage(a)) :
                LET taken == KeyPrefix(KeysForStage(a), n)
                IN  /\ taken \subseteq Takes(a, got)
                    /\ \E kept \in SUBSET taken : locks' = LeftBehind(got, a, taken, kept)
    /\ UNCHANGED <<gitlab, issues, runs, attempts, journal, worker, client, now, granted>>

\* No candidate can be claimed, or the first that is not skipped has no spec.
ClaimNothing(w) ==
    /\ worker[w].pc = "idle"
    /\ \E S \in {Candidates(w)} \cup
                {{c \in Candidates(w) : c < a} : a \in {a \in Candidates(w) : ~HasSpec(a)}} :
          \E got \in [S -> SUBSET Keys] :
             /\ Skips(S, got)
             /\ locks' = GivenBack(got)
    /\ UNCHANGED <<gitlab, issues, runs, attempts, journal, worker, client, now, granted>>

-----------------------------------------------------------------------------
(* Executing a stage.  Heartbeat and Complete name an attempt; they look   *)
(* neither at its status nor at the worker it was given to.                *)

Held(w) == worker[w].attempt

Heartbeat(w) ==
    LET a == Held(w)
    IN  /\ worker[w].pc = "executing"
        /\ attempts' = [attempts EXCEPT ![a].lease = now + Lease]
        /\ locks' = Refresh(locks, KeySet(attempts[a].keys), a, now + Lease)
        /\ UNCHANGED <<gitlab, issues, runs, journal, worker, client, now, granted>>

\* The lock table fails after n rows; the worker ignores the error.
HeartbeatFails(w) ==
    LET a == Held(w)
    IN  /\ MayFail("heartbeat")
        /\ worker[w].pc = "executing"
        /\ \E n \in 0 .. Len(attempts[a].keys) :
              locks' = Refresh(locks, KeyPrefix(attempts[a].keys, n), a, now + Lease)
        /\ UNCHANGED <<gitlab, issues, runs, attempts, journal, worker, client, now, granted>>

\* The stage report of a stage that outputs a plan rewrites the plan's file.
ReportedPlans(a) ==
    {journal[attempts[a].run]} \cup (IF attempts[a].stage \in Replanning THEN Plans ELSE {})

\* Mutant: only a successful stage gives its locks back.
CompletedHoldingLocks(w, result) ==
    LET a == Held(w)
    IN  /\ worker[w].pc = "executing"
        /\ attempts' = [attempts EXCEPT ![a] = [@ EXCEPT !.status = result, !.lease = NoLease]]
        /\ locks' = IF result = "succeeded"
                    THEN Release(locks, KeySet(attempts[a].keys), a) ELSE locks
        /\ \E plan \in ReportedPlans(a) :
              journal' = [journal EXCEPT ![attempts[a].run] = plan]

Completed(w, result) ==
    LET a == Held(w)
    IN  /\ worker[w].pc = "executing"
        /\ attempts' = [attempts EXCEPT ![a] = [@ EXCEPT !.status = result, !.lease = NoLease]]
        /\ locks' = Release(locks, KeySet(attempts[a].keys), a)
        /\ \E plan \in ReportedPlans(a) :
              journal' = [journal EXCEPT ![attempts[a].run] = plan]

Complete(w, result) ==
    /\ Completed(w, result)
    /\ worker' = [worker EXCEPT ![w] = [pc |-> "reconciling", attempt |-> 0]]
    /\ UNCHANGED <<gitlab, issues, runs, client, now, granted>>

\* Saved, but the signal or the answer fails: the worker exits.
CompleteLost(w, result) ==
    /\ MayFail("complete")
    /\ Completed(w, result)
    /\ worker' = [worker EXCEPT ![w] = [pc |-> "idle", attempt |-> 0]]
    /\ UNCHANGED <<gitlab, issues, runs, client, now, granted>>

\* The locks are released before the report is written and the state saved; an
\* error after n of them drops the state and the worker exits.
CompleteFails(w) ==
    LET a == Held(w)
    IN  /\ MayFail("complete")
        /\ worker[w].pc = "executing"
        /\ \E n \in 0 .. Len(attempts[a].keys) :
              /\ locks' = Release(locks, KeyPrefix(attempts[a].keys, n), a)
              /\ \E plan \in ReportedPlans(a) :
                    /\ n < Len(attempts[a].keys) => plan = journal[attempts[a].run]
                    /\ journal' = [journal EXCEPT ![attempts[a].run] = plan]
        /\ worker' = [worker EXCEPT ![w] = [pc |-> "idle", attempt |-> 0]]
        /\ UNCHANGED <<gitlab, issues, runs, attempts, client, now, granted>>

\* After Complete the worker reconciles all issues; on an error it exits.
WorkerReconcile(w) ==
    /\ worker[w].pc = "reconciling"
    /\ Reconcile(Issues) \/ ReconcileFails(Issues)
    /\ worker' = [worker EXCEPT ![w] = [pc |-> "idle", attempt |-> 0]]

Crash(w) ==
    /\ MayFail("crash")
    /\ worker[w].pc # "idle"
    /\ worker' = [worker EXCEPT ![w] = [pc |-> "idle", attempt |-> 0]]
    /\ UNCHANGED <<gitlab, issues, runs, attempts, journal, locks, client, now, granted>>

-----------------------------------------------------------------------------
(* Recovery of the attempts whose lease ended MaxAge ago.                  *)

\* Mutant: an attempt is stale as soon as its lease ends.
StaleAtLeaseEnd == {a \in DOMAIN attempts : /\ attempts[a].status = "running"
                                            /\ attempts[a].lease # NoLease
                                            /\ attempts[a].lease <= now}

\* Mutant: only attempts with locks are recovered.
StaleWithLocks == {a \in DOMAIN attempts : /\ attempts[a].status = "running"
                                           /\ attempts[a].lease # NoLease
                                           /\ attempts[a].keys # << >>
                                           /\ attempts[a].lease + MaxAge <= now}

Stale == {a \in DOMAIN attempts : /\ attempts[a].status = "running"
                                  /\ attempts[a].lease # NoLease
                                  /\ attempts[a].lease + MaxAge <= now}

RecoverStuckRuns ==
    /\ Stale # {}
    /\ attempts' = [a \in DOMAIN attempts |->
           IF a \in Stale THEN [attempts[a] EXCEPT !.status = "pending",
                                    !.worker = NoWorker, !.lease = NoLease]
           ELSE attempts[a]]
    /\ locks' = [k \in Keys |->
           IF locks[k].owner \in Stale /\ k \in KeySet(attempts[locks[k].owner].keys)
           THEN NoRow ELSE locks[k]]
    /\ UNCHANGED <<gitlab, issues, runs, journal, worker, client, now, granted>>

\* An error at one of them drops the state; the locks released so far are gone.
RecoverFails ==
    /\ MayFail("recover")
    /\ \E last \in Stale : \E done \in SUBSET (Stale \ {last}) :
          \E n \in 0 .. Len(attempts[last].keys) :
             locks' = [k \in Keys |->
                 IF \/ /\ locks[k].owner \in done
                       /\ k \in KeySet(attempts[locks[k].owner].keys)
                    \/ locks[k].owner = last /\ k \in KeyPrefix(attempts[last].keys, n)
                 THEN NoRow ELSE locks[k]]
    /\ UNCHANGED <<gitlab, issues, runs, attempts, journal, worker, client, now, granted>>

Tick ==
    /\ now < MaxNow
    /\ Timely => \A w \in Workers :
           worker[w].pc = "executing" => now < attempts[Held(w)].lease
    /\ now' = now + 1
    /\ UNCHANGED <<gitlab, issues, runs, attempts, journal, locks, worker, client, granted>>

-----------------------------------------------------------------------------

Scopes == {Issues} \cup {{i} : i \in Issues}

Next ==
    \/ \E i \in Issues : Request(i) \/ Approve(i)
    \/ \E c \in Clients :
          \/ \E i \in Issues \cup {NoIssue} : ListIssues(c, i)
          \/ EnqueueFromGitLab(c)
          \/ EnsureRunForIssue(c)
          \/ \E plan \in Plans : PersistPipelineArtifacts(c, plan)
          \/ MaterializeFails(c)
    \/ \E scope \in Scopes : OperatorReconcile(scope)
    \/ \E w \in Workers :
          \/ Claim(w)
          \/ ClaimLost(w)
          \/ ClaimUnsaved(w)
          \/ ClaimNothing(w)
          \/ Heartbeat(w)
          \/ HeartbeatFails(w)
          \/ \E result \in Results : Complete(w, result) \/ CompleteLost(w, result)
          \/ CompleteFails(w)
          \/ WorkerReconcile(w)
          \/ Crash(w)
    \/ RecoverStuckRuns
    \/ RecoverFails
    \/ Tick

Spec == Init /\ [][Next]_vars

-----------------------------------------------------------------------------
(* Safety.                                                                 *)

\* Two workers never execute the same attempt, nor two stages that need the
\* same resource lock (claimNext, acquireLocks): the mutual exclusion on
\* application, GitOps and journal repositories the lock table is for.
MutualExclusion ==
    \A v, w \in Workers :
        v # w /\ worker[v].pc = "executing" /\ worker[w].pc = "executing" =>
            /\ Held(v) # Held(w)
            /\ KeySet(attempts[Held(v)].keys) \cap KeySet(attempts[Held(w)].keys) = {}

HoldsLease(w) ==
    LET a == Held(w)
    IN  /\ attempts[a].status = "running"
        /\ attempts[a].worker = w
        /\ attempts[a].lease >= now
        /\ \A k \in KeySet(attempts[a].keys) :
              locks[k].owner = a /\ locks[k].expires >= attempts[a].lease

\* The attempt a worker executes is still the worker's, its lease has not
\* ended, and its locks last at least as long (Heartbeat and RecoverStuckRuns
\* keep the lease of the state file and the rows of the lock table in step).
WorkerHoldsLease == \A w \in Workers : worker[w].pc = "executing" => HoldsLease(w)

\* A stage of a run has at most one attempt, however often and from wherever
\* the run is reconciled (reconcile, AttemptsByStage): AttemptsByStage could
\* not tell which of two attempts is current.
UniqueAttempts ==
    \A a, b \in DOMAIN attempts :
        attempts[a].run = attempts[b].run /\ attempts[a].stage = attempts[b].stage
            => a = b

\* No finished attempt owns a row of the lock table, whatever claims,
\* completions and recoveries failed half-way (Complete, releaseLocks): its
\* resources would stay blocked until the row expires.
FinishedOwnNoLocks ==
    \A k \in Keys : locks[k].owner # 0 =>
        /\ locks[k].owner \in DOMAIN attempts
        /\ attempts[locks[k].owner].status \notin Finished

\* The outcome of a finished attempt never changes: stages have been queued
\* and labels set because of it (Complete).
FinishedIsFinal ==
    [][\A a \in DOMAIN attempts : attempts[a].status \in Finished =>
           attempts'[a].status = attempts[a].status]_vars

\* What a worker executes, with which locks, and what has been reported.
WorkOf(w) ==
    IF worker[w].pc = "executing"
    THEN [attempt |-> Held(w), keys |-> KeySet(attempts[Held(w)].keys)]
    ELSE [attempt |-> 0, keys |-> {}]

Outcomes ==
    {[attempt |-> a, result |-> attempts[a].status] :
        a \in {b \in DOMAIN attempts : attempts[b].status \in Finished}}

Abstract == INSTANCE StageWork
                WITH work <- [w \in Workers |-> WorkOf(w)], outcome <- Outcomes

\* Claims, heartbeats, completions and recoveries, with their failures, are an
\* implementation of StageWork: a stage is handed out only when nobody works on
\* it or has its locks, its locks stay the same while it is worked on, and an
\* outcome is given once, by the worker that has it (claimNext, Complete).
ImplementsStageWork == Abstract!Spec

SpecOf(a) == journal[attempts[a].run][attempts[a].stage]

Succeeded(r, s) == \E b \in AttemptsOf(r, s) : attempts[b].status = "succeeded"

\* An issue has at most one run that is being worked on, however many requests
\* ensure a run for it and whatever reconciliation sets (EnsureRunForIssue,
\* latestRunForIssue).
OneOpenRun ==
    \A r, q \in DOMAIN runs :
        /\ runs[r].issue = runs[q].issue
        /\ runs[r].status \in {"pending", "active"}
        /\ runs[q].status \in {"pending", "active"}
        => r = q

\* A stage queued by itself starts only in a run in which all the stages it
\* depends on have succeeded, and still count as succeeded (isReady).
DependenciesSucceeded ==
    \A a \in DOMAIN attempts : HasSpec(a) /\ SpecOf(a).auto =>
        \A d \in SpecOf(a).deps : Succeeded(attempts[a].run, d)

\* A stage that requires approval is queued only for an issue that somebody
\* approved: the label travels from GitLab through a listing and the state
\* file to isReady.
ApprovalGiven ==
    \A a \in DOMAIN attempts : HasSpec(a) /\ SpecOf(a).auto /\ SpecOf(a).approval =>
        runs[attempts[a].run].issue \in granted

\* A run is completed only when a completion checkpoint has succeeded, and so
\* has everything it was built on, down to the first stages of the plan
\* (Evaluate and isReady together; Evaluate itself looks at one stage).
CompletedIsDelivered ==
    \A r \in DOMAIN runs : runs[r].status = "completed" =>
        \E U \in SUBSET DOMAIN journal[r] :
            /\ \E s \in U : journal[r][s].checkpoint = "completed"
            /\ \A s \in U : Succeeded(r, s) /\ journal[r][s].deps \subseteq U

-----------------------------------------------------------------------------
(* Liveness.  A worker is a loop (cmd/stage-runner, runWorker): it asks for *)
(* work again and again, and completion is followed by reconciliation; that *)
(* a stage ends is an assumption on the stage, since nothing enforces its   *)
(* timeout_seconds.  Nothing in the repository calls the other operations   *)
(* by itself; OperatorFairness is the assumption that an operator keeps     *)
(* issuing them, and that time passes.                                      *)

WorkerFairness ==
    \A w \in Workers :
        /\ WF_vars(Claim(w))
        /\ WF_vars(\E result \in Results : Complete(w, result))
        /\ WF_vars(WorkerReconcile(w))

OperatorFairness ==
    /\ WF_vars(OperatorReconcile(Issues))
    /\ WF_vars(RecoverStuckRuns)
    /\ WF_vars(Tick)
    /\ \A c \in Clients :
          /\ WF_vars(EnqueueFromGitLab(c))
          /\ WF_vars(\E plan \in Plans : PersistPipelineArtifacts(c, plan))

WorkerSpec == Spec /\ WorkerFairness
OperatedSpec == Spec /\ WorkerFairness /\ OperatorFairness

Settled(r) == runStatusTerminal(runs[r].status)

\* A run that has become active reaches an approval wait, completion or
\* failure (reconcile queues, claimNext hands out, Complete and the worker's
\* reconcile carry on): no stage is forgotten, no lock held for ever.
ActiveRunsSettle ==
    \A r \in 1 .. MaxRuns :
        (r \in DOMAIN runs /\ runs[r].status = "active") ~> (r \in DOMAIN runs /\ Settled(r))

\* The label of an issue on GitLab mirrors its run: a label that says that the
\* delivery is over is followed by the end of the active run, or is replaced
\* (transitionIssue).
OutcomeMirrored ==
    \A i \in Issues :
        (/\ gitlab[i] \cap {"completed", "failed"} # {}
         /\ latestRun(i) # 0 /\ runs[latestRun(i)].status = "active")
        ~> \/ gitlab[i] \cap {"completed", "failed"} = {}
           \/ latestRun(i) # 0 /\ Settled(latestRun(i))

\* Stage s of run r has failed, and has a rollback plan that is enabled and not
\* carried out.
AwaitsRollback(r, s) ==
    /\ r \in DOMAIN runs /\ journal[r] # NoPlan /\ s \in DOMAIN journal[r]
    /\ Has(AttemptsByStage(r), s, "failed")
    /\ rollbackEligible(journal[r][s], AttemptsByStage(r))

RollbackStarted(r, s) ==
    /\ journal[r] # NoPlan /\ s \in DOMAIN journal[r]
    /\ AttemptsOf(r, journal[r][s].rollbackStage) # {}

\* IMPLEMENTATION_STATUS.md: "rollback stage queueing after failed observation".
\* When a stage with an enabled rollback plan fails, its rollback stage is
\* queued (Evaluate: a run with an eligible rollback stays active for it).
RollbackQueued ==
    \A r \in 1 .. MaxRuns : \A s \in Stages :
        AwaitsRollback(r, s) ~> RollbackStarted(r, s)

\* A run waits for the approval of its promotion only while the promotion has
\* not been started ("Run is awaiting production GitOps promotion approval").
AwaitingIsUnpromoted ==
    \A a \in DOMAIN attempts :
        HasSpec(a) /\ SpecOf(a).approval =>
            runs[attempts[a].run].status # "awaiting_approval"

=============================================================================
