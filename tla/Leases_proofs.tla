--------------------------- MODULE Leases_proofs ----------------------------
(***************************************************************************)
(* Leases and locks exclude each other: the proof that no two workers      *)
(* execute stages that need the same resource, for every number of workers *)
(* and locks and every failure ControlPlane has, as long as every worker   *)
(* renews its lease in time.  Then what a run stands for: an issue has one *)
(* open run, a stage is queued only with the approval it requires and      *)
(* after the stages it depends on, and a completed run has been delivered, *)
(* for every number of issues, requests, workers and failures; the         *)
(* hypotheses say what replacing the plan of a run may not do.             *)
(***************************************************************************)
EXTENDS ControlPlane_proofs

\* A stage that needs locks in one plan needs some in every plan that has it.
\* (claimNext leaves the recorded lock keys of an attempt alone when its stage
\* needs none.)
LocksStable ==
    \A p, q \in Plans : \A s \in DOMAIN p \cap DOMAIN q :
        p[s].keys # << >> => q[s].keys # << >>

\* No lease ends later than one granted now.
LeasesBounded == \A a \in DOMAIN attempts : attempts[a].lease <= now + Lease

\* The recorded keys of an attempt are those of its stage in some plan.
KeysPlanned ==
    \A a \in DOMAIN attempts :
        \/ attempts[a].keys = << >>
        \/ \E plan \in Plans : /\ attempts[a].stage \in DOMAIN plan
                               /\ attempts[a].keys = plan[attempts[a].stage].keys

\* The inductive invariant.
LeaseInv == WorkerHoldsLease /\ LeasesBounded /\ KeysPlanned

-----------------------------------------------------------------------------

\* A worker keeps its lease when nothing it rests on changes.
LEMMA LeaseUntouched ==
    ASSUME TypeOK, NEW v \in Workers, HoldsLease(v),
           worker'[v] = worker[v], now' = now,
           attempts'[Held(v)] = attempts[Held(v)],
           \A k \in KeySet(attempts[Held(v)].keys) : locks'[k] = locks[k]
    PROVE  HoldsLease(v)'
  BY DEF HoldsLease, Held, KeySet

\* The facts about the attempt a worker executes.
LEMMA HeldFacts ==
    ASSUME TypeOK, WorkerHoldsLease, NEW v \in Workers, worker[v].pc = "executing"
    PROVE  /\ HoldsLease(v)
           /\ Held(v) \in DOMAIN attempts /\ Held(v) \in Nat \ {0}
           /\ attempts[Held(v)] \in Attempt
           /\ KeySet(attempts[Held(v)].keys) \subseteq Keys
           /\ \A k \in KeySet(attempts[Held(v)].keys) :
                 /\ locks[k].owner = Held(v)
                 /\ locks[k].expires \in Int /\ locks[k].expires >= now
           /\ Held(v) \notin Stale
<1>1. HoldsLease(v) /\ Held(v) \in DOMAIN attempts
  BY DEF WorkerHoldsLease, TypeOK, Held
<1>2. Held(v) \in Nat \ {0} /\ attempts[Held(v)] \in Attempt
  BY <1>1, AttemptFacts
<1>3. KeySet(attempts[Held(v)].keys) \subseteq Keys
  <2>1. attempts[Held(v)].keys \in Seq(Keys)
    BY <1>2 DEF Attempt
  <2> QED
    BY <2>1, ElementOfSeq, LenProperties DEF KeySet
<1>4. attempts[Held(v)].lease \in Int /\ now \in Nat
  BY <1>2 DEF Attempt, TypeOK
<1>5. \A k \in KeySet(attempts[Held(v)].keys) :
          /\ locks[k].owner = Held(v)
          /\ locks[k].expires \in Int /\ locks[k].expires >= now
  <2>1. \A k \in Keys : locks[k].expires \in Int
    BY DEF TypeOK, Row
  <2> QED
    BY <1>1, <1>3, <1>4, <2>1 DEF HoldsLease
<1>6. Held(v) \notin Stale
  BY <1>1, <1>4, ConstantsAssumption DEF HoldsLease, Stale, ConstantsAssumption
<1> QED
  BY <1>1, <1>2, <1>3, <1>5, <1>6

\* Neither the candidates a claim skips nor the one it hands out can take a lock
\* of a worker that executes.
LEMMA ClaimSparesLocks ==
    ASSUME TypeOK, WorkerHoldsLease, NEW v \in Workers, worker[v].pc = "executing",
           NEW w \in Workers, NEW got, DOMAIN got \subseteq Candidates(w),
           Skips(DOMAIN got, got),
           NEW k \in KeySet(attempts[Held(v)].keys)
    PROVE  /\ \A c \in Candidates(w) : c # Held(v) /\ ~CanTake(c, k, got)
           /\ GivenBack(got)[k] = locks[k]
<1>1. /\ locks[k].owner = Held(v) /\ Held(v) # 0 /\ k \in Keys
      /\ locks[k].expires \in Int /\ locks[k].expires >= now
  BY HeldFacts
<1>2. Held(v) \notin Candidates(w)
  BY HeldFacts DEF HoldsLease, Candidates
<1>3. \A c \in Candidates(w) : c # Held(v) /\ ~CanTake(c, k, got)
  BY <1>1, <1>2 DEF CanTake, Acquirable, TypeOK
<1>4. \A c \in DOMAIN got : k \notin got[c]
  <2> SUFFICES ASSUME NEW c \in DOMAIN got, k \in Takes(c, got)
               PROVE  FALSE
    BY DEF Skips
  <2>1. HasSpec(c) /\ c \in DOMAIN attempts
    BY DEF Skips, Candidates
  <2>2. KeysForStage(c) \in Seq(Keys)
    BY <2>1, AttemptFacts
  <2>3. PICK n \in DOMAIN KeysForStage(c) :
            /\ k = KeysForStage(c)[n]
            /\ \A m \in 1 .. n : CanTake(c, KeysForStage(c)[m], got)
    BY DEF Takes
  <2>4. n \in 1 .. n
    BY <2>2, <2>3, LenProperties
  <2> QED
    BY <1>3, <2>3, <2>4
<1> QED
  BY <1>1, <1>3, <1>4 DEF GivenBack

-----------------------------------------------------------------------------
(* The bounds on leases and the recorded keys.                             *)

\* They hold of the empty state file, and every step keeps them.
LEMMA RecordsInit == Init => LeasesBounded /\ KeysPlanned
  BY DEF Init, LeasesBounded, KeysPlanned

\* One attempt is replaced by one with a bounded lease and keys that are planned
\* or those it had.
LEMMA RecordsReplaced ==
    ASSUME TypeOK, LeasesBounded, KeysPlanned, now' = now, AttemptsKept,
           NEW a \in DOMAIN attempts,
           \A b \in DOMAIN attempts \ {a} : attempts'[b] = attempts[b],
           attempts'[a].lease \in {now + Lease, NoLease},
           \/ attempts'[a].keys = attempts[a].keys
           \/ \E plan \in Plans : /\ attempts[a].stage \in DOMAIN plan
                                  /\ attempts'[a].keys = plan[attempts[a].stage].keys
    PROVE  LeasesBounded' /\ KeysPlanned'
<1>1. LeasesBounded'
  <2>1. NoLease <= now + Lease /\ now + Lease <= now + Lease
    BY ConstantsAssumption DEF NoLease, TypeOK, ConstantsAssumption
  <2> QED
    BY <2>1 DEF LeasesBounded, AttemptsKept
<1>2. KeysPlanned'
  BY DEF KeysPlanned, AttemptsKept
<1> QED
  BY <1>1, <1>2

\* Every step bounds the leases it grants and records planned keys.
LEMMA RecordsNext ==
    ASSUME TypeOK, LeasesBounded, KeysPlanned, [Next]_vars
    PROVE  LeasesBounded' /\ KeysPlanned'
<1>1. ASSUME UNCHANGED <<attempts, now>>
      PROVE  LeasesBounded' /\ KeysPlanned'
  BY <1>1 DEF LeasesBounded, KeysPlanned
<1>2. ASSUME NEW scope \in SUBSET Issues, Reconcile(scope) \/ ReconcileFails(scope)
      PROVE  LeasesBounded' /\ KeysPlanned'
  <2>1. CASE Reconcile(scope)
    <3>1. PICK new \in Seq(Attempt) : attempts' = attempts \o new /\ Fresh(new)
      BY <2>1, ReconcileQueues
    <3>2. ASSUME NEW a \in DOMAIN attempts'
          PROVE  /\ attempts'[a].lease <= now + Lease
                 /\ \/ attempts'[a].keys = << >>
                    \/ \E plan \in Plans : /\ attempts'[a].stage \in DOMAIN plan
                                           /\ attempts'[a].keys = plan[attempts'[a].stage].keys
      <4>1. CASE a \in DOMAIN attempts
        BY <3>1, <4>1, AppendedAttempts DEF LeasesBounded, KeysPlanned
      <4>2. CASE a \notin DOMAIN attempts
        <5>1. attempts'[a].lease = NoLease /\ attempts'[a].keys = << >>
          BY <3>1, <3>2, <4>2, AppendedAttempts DEF Fresh, NewAttempt
        <5> QED
          BY <5>1, ConstantsAssumption DEF NoLease, TypeOK, ConstantsAssumption
      <4> QED
        BY <4>1, <4>2
    <3>3. now' = now
      BY <2>1 DEF Reconcile
    <3> QED
      BY <3>2, <3>3 DEF LeasesBounded, KeysPlanned
  <2>2. CASE ReconcileFails(scope)
    BY <1>1, <2>2 DEF ReconcileFails
  <2> QED
    BY <1>2, <2>1, <2>2
<1>3. ASSUME NEW scope \in Scopes, OperatorReconcile(scope)
      PROVE  LeasesBounded' /\ KeysPlanned'
  <2>1. scope \in SUBSET Issues
    BY DEF Scopes
  <2> QED
    BY <1>2, <1>3, <2>1 DEF OperatorReconcile
<1>4. ASSUME NEW w \in Workers, WorkerReconcile(w)
      PROVE  LeasesBounded' /\ KeysPlanned'
  BY <1>2, <1>4 DEF WorkerReconcile
<1>5. ASSUME NEW w \in Workers, Claim(w) \/ ClaimLost(w)
      PROVE  LeasesBounded' /\ KeysPlanned'
  <2>1. PICK a, got : a \in Candidates(w) /\ Selects(w, a, got) /\ Claimed(w, a, got)
    BY <1>5 DEF Claim, ClaimLost
  <2>2. now' = now
    BY <1>5 DEF Claim, ClaimLost
  <2>3. a \in DOMAIN attempts /\ HasSpec(a)
    BY <2>1 DEF Candidates, Selects
  <2> QED
    BY <2>1, <2>2, <2>3, ClaimedAttempt, AttemptFacts, RecordsReplaced
<1>6. ASSUME NEW w \in Workers, Heartbeat(w)
      PROVE  LeasesBounded' /\ KeysPlanned'
  <2>1. attempts[Held(w)] \in Attempt
    BY <1>6, HeartbeatAttempt, AttemptFacts
  <2>2. /\ attempts'[Held(w)].lease = now + Lease
        /\ attempts'[Held(w)].keys = attempts[Held(w)].keys
        /\ \A b \in DOMAIN attempts \ {Held(w)} : attempts'[b] = attempts[b]
        /\ now' = now
    BY <1>6, <2>1, HeartbeatAttempt DEF Attempt, Heartbeat
  <2> QED
    BY <1>6, <2>2, HeartbeatAttempt, RecordsReplaced
<1>7. ASSUME NEW w \in Workers, NEW result \in Results,
             Complete(w, result) \/ CompleteLost(w, result)
      PROVE  LeasesBounded' /\ KeysPlanned'
  <2>1. Completed(w, result) /\ now' = now
    BY <1>7 DEF Complete, CompleteLost
  <2>2. attempts[Held(w)] \in Attempt
    BY <2>1, CompletedAttempt, AttemptFacts
  <2>3. /\ attempts'[Held(w)] = [attempts[Held(w)] EXCEPT !.status = result, !.lease = NoLease]
        /\ \A b \in DOMAIN attempts \ {Held(w)} : attempts'[b] = attempts[b]
    BY <2>1, CompletedAttempt
  <2>4. /\ attempts'[Held(w)].lease = NoLease
        /\ attempts'[Held(w)].keys = attempts[Held(w)].keys
    BY <2>2, <2>3 DEF Attempt
  <2> QED
    BY <2>1, <2>3, <2>4, CompletedAttempt, RecordsReplaced
<1>8. ASSUME RecoverStuckRuns
      PROVE  LeasesBounded' /\ KeysPlanned'
  <2>1. now' = now
    BY <1>8 DEF RecoverStuckRuns
  <2>2. LeasesBounded'
    <3>1. NoLease <= now + Lease
      BY ConstantsAssumption DEF NoLease, TypeOK, ConstantsAssumption
    <3> QED
      BY <1>8, <2>1, <3>1, RecoveredAttempts DEF LeasesBounded, AttemptsKept
  <2>3. KeysPlanned'
    BY <1>8, RecoveredAttempts DEF KeysPlanned, AttemptsKept
  <2> QED
    BY <2>2, <2>3
<1>9. ASSUME Tick
      PROVE  LeasesBounded' /\ KeysPlanned'
  <2>1. attempts' = attempts /\ now' = now + 1
    BY <1>9 DEF Tick
  <2>2. \A a \in DOMAIN attempts : attempts[a].lease \in Int
    BY AttemptFacts DEF Attempt
  <2> QED
    BY <2>1, <2>2, ConstantsAssumption
    DEF LeasesBounded, KeysPlanned, TypeOK, ConstantsAssumption
<1>10. ASSUME \/ \E i \in Issues : Request(i) \/ Approve(i)
              \/ \E c \in Clients :
                    \/ \E i \in Issues \cup {NoIssue} : ListIssues(c, i)
                    \/ EnqueueFromGitLab(c)
                    \/ EnsureRunForIssue(c)
                    \/ \E plan \in Plans : PersistPipelineArtifacts(c, plan)
                    \/ MaterializeFails(c)
              \/ \E w \in Workers : \/ ClaimUnsaved(w) \/ ClaimNothing(w)
                                    \/ HeartbeatFails(w) \/ CompleteFails(w) \/ Crash(w)
              \/ RecoverFails
       PROVE  LeasesBounded' /\ KeysPlanned'
  BY <1>1, <1>10 DEF Request, Approve, ListIssues, EnqueueFromGitLab, EnsureRunForIssue,
                     PersistPipelineArtifacts, MaterializeFails, ClaimUnsaved,
                     ClaimNothing, HeartbeatFails, CompleteFails, Crash, RecoverFails
<1> QED
  BY <1>1, <1>3, <1>4, <1>5, <1>6, <1>7, <1>8, <1>9, <1>10 DEF Next, vars

-----------------------------------------------------------------------------
(* Leases, action by action.                                               *)

\* A claim, saved or not, spares the workers that execute; the one it serves
\* gets a lease and all its locks.
LEMMA LeaseClaims ==
    ASSUME TypeOK, LeaseInv, LocksStable, NEW w \in Workers,
           Claim(w) \/ ClaimLost(w) \/ ClaimUnsaved(w) \/ ClaimNothing(w),
           NEW v \in Workers, worker'[v].pc = "executing"
    PROVE  HoldsLease(v)'
<1>1. WorkerHoldsLease
  BY DEF LeaseInv
<1>2. now' = now
  BY DEF Claim, ClaimLost, ClaimUnsaved, ClaimNothing
<1>3. ASSUME NEW a, NEW got, a \in Candidates(w), DOMAIN got \subseteq Candidates(w),
             Selects(w, a, got), Claimed(w, a, got),
             worker[v].pc = "executing", worker'[v] = worker[v]
      PROVE  HoldsLease(v)'
  <2>1. a # Held(v) /\ Held(v) \in DOMAIN attempts
    BY <1>1, <1>3, HeldFacts DEF HoldsLease, Candidates
  <2>2. attempts'[Held(v)] = attempts[Held(v)]
    BY <1>3, <2>1, ClaimedAttempt
  <2>3. ASSUME NEW k \in KeySet(attempts[Held(v)].keys)
        PROVE  locks'[k] = locks[k]
    <3>1. k \in Keys /\ GivenBack(got)[k] = locks[k] /\ ~CanTake(a, k, got)
      BY <1>1, <1>3, HeldFacts, ClaimSparesLocks DEF Selects
    <3>2. k \notin KeySet(KeysForStage(a))
      BY <1>3, <3>1 DEF Selects
    <3>3. k \in DOMAIN GivenBack(got)
      BY <3>1 DEF GivenBack
    <3> QED
      BY <1>3, <3>1, <3>2, <3>3 DEF Claimed, Acquire
  <2> QED
    BY <1>1, <1>2, <1>3, <2>2, <2>3, HeldFacts, LeaseUntouched
<1>4. CASE Claim(w)
  <2>1. PICK a, got :
            /\ a \in Candidates(w) /\ DOMAIN got \subseteq Candidates(w)
            /\ Selects(w, a, got) /\ Claimed(w, a, got)
            /\ worker' = [worker EXCEPT ![w] = [pc |-> "executing", attempt |-> a]]
    BY <1>4 DEF Claim, Selections
  <2>2. CASE v # w
    <3>1. worker'[v] = worker[v]
      BY <2>1, <2>2 DEF TypeOK
    <3> QED
      BY <1>3, <2>1, <3>1
  <2>3. CASE v = w
    <3>1. Held(v)' = a
      BY <2>1, <2>3 DEF TypeOK, Held
    <3>2. a \in DOMAIN attempts /\ HasSpec(a)
      BY <2>1 DEF Candidates, Selects
    <3>3. attempts'[a].keys = KeysForStage(a)
      <4>1. CASE KeysForStage(a) = << >>
        <5>1. attempts[a].keys = << >>
          BY <3>2, <4>1, AttemptFacts DEF LeaseInv, KeysPlanned, LocksStable
        <5> QED
          BY <2>1, <4>1, <5>1, ClaimedAttempt
      <4>2. CASE KeysForStage(a) # << >>
        BY <2>1, <4>2, ClaimedAttempt
      <4> QED
        BY <4>1, <4>2
    <3>4. KeySet(KeysForStage(a)) \subseteq Keys
      <4>1. KeysForStage(a) \in Seq(Keys)
        BY <3>2, AttemptFacts
      <4> QED
        BY <4>1, ElementOfSeq, LenProperties DEF KeySet
    <3>5. \A k \in KeySet(KeysForStage(a)) :
              locks'[k] = [owner |-> a, expires |-> now + Lease]
      BY <2>1, <3>4 DEF Claimed, Acquire, GivenBack
    <3>6. /\ attempts'[a].status = "running" /\ attempts'[a].worker = v
          /\ attempts'[a].lease = now + Lease
      BY <2>1, <2>3, ClaimedAttempt
    <3>7. now + Lease >= now
      BY ConstantsAssumption DEF TypeOK, ConstantsAssumption
    <3>8. now + Lease >= now + Lease
      BY ConstantsAssumption DEF TypeOK, ConstantsAssumption
    <3> QED
      BY <1>2, <3>1, <3>3, <3>5, <3>6, <3>7, <3>8 DEF HoldsLease, KeySet
  <2> QED
    BY <2>2, <2>3
<1>5. CASE ClaimLost(w)
  <2>1. PICK a, got :
            /\ a \in Candidates(w) /\ DOMAIN got \subseteq Candidates(w)
            /\ Selects(w, a, got) /\ Claimed(w, a, got)
    BY <1>5 DEF ClaimLost, Selections
  <2>2. worker' = worker
    BY <1>5 DEF ClaimLost
  <2> QED
    BY <1>3, <2>1, <2>2
<1>6. ASSUME NEW got, DOMAIN got \subseteq Candidates(w), Skips(DOMAIN got, got),
             UNCHANGED <<attempts, worker>>,
             \A k \in Keys : (\A c \in Candidates(w) : ~CanTake(c, k, got)) =>
                 locks'[k] = GivenBack(got)[k]
      PROVE  HoldsLease(v)'
  BY <1>1, <1>2, <1>6, HeldFacts, ClaimSparesLocks, LeaseUntouched
<1>7. CASE ClaimUnsaved(w)
  <2>1. PICK a \in Candidates(w) : \E got \in Selections(w, a) :
          /\ Skips(DOMAIN got, got)
          /\ HasSpec(a)
          /\ \E n \in 0 .. Len(KeysForStage(a)) :
                LET taken == KeyPrefix(KeysForStage(a), n)
                IN  /\ taken \subseteq Takes(a, got)
                    /\ \E kept \in SUBSET taken : locks' = LeftBehind(got, a, taken, kept)
    BY <1>7 DEF ClaimUnsaved
  <2>2. PICK got \in Selections(w, a) :
          /\ Skips(DOMAIN got, got)
          /\ HasSpec(a)
          /\ \E n \in 0 .. Len(KeysForStage(a)) :
                LET taken == KeyPrefix(KeysForStage(a), n)
                IN  /\ taken \subseteq Takes(a, got)
                    /\ \E kept \in SUBSET taken : locks' = LeftBehind(got, a, taken, kept)
    BY <2>1
  <2>3. PICK taken, kept :
          /\ taken \subseteq Takes(a, got) /\ kept \subseteq taken
          /\ locks' = LeftBehind(got, a, taken, kept)
    BY <2>2
  <2>4. DOMAIN got \subseteq Candidates(w)
    BY DEF Selections
  <2>5. ASSUME NEW k \in Takes(a, got)
        PROVE  CanTake(a, k, got)
    <3>1. KeysForStage(a) \in Seq(Keys)
      BY <2>2, AttemptFacts DEF Candidates
    <3>2. PICK n \in DOMAIN KeysForStage(a) :
              /\ k = KeysForStage(a)[n]
              /\ \A m \in 1 .. n : CanTake(a, KeysForStage(a)[m], got)
      BY DEF Takes
    <3>3. n \in 1 .. n
      BY <3>1, <3>2, LenProperties
    <3> QED
      BY <3>2, <3>3
  <2>6. \A k \in Keys : (\A c \in Candidates(w) : ~CanTake(c, k, got)) =>
            locks'[k] = GivenBack(got)[k]
    BY <2>3, <2>5 DEF LeftBehind
  <2>7. UNCHANGED <<attempts, worker>>
    BY <1>7 DEF ClaimUnsaved
  <2> QED
    BY <1>6, <2>2, <2>4, <2>6, <2>7
<1>8. CASE ClaimNothing(w)
  <2>1. PICK S \in {Candidates(w)} \cup
                    {{c \in Candidates(w) : c < a} : a \in {a \in Candidates(w) : ~HasSpec(a)}} :
            \E got \in [S -> SUBSET Keys] : Skips(S, got) /\ locks' = GivenBack(got)
    BY <1>8 DEF ClaimNothing
  <2>2. PICK got \in [S -> SUBSET Keys] : Skips(S, got) /\ locks' = GivenBack(got)
    BY <2>1
  <2>3. DOMAIN got \subseteq Candidates(w) /\ DOMAIN got = S
    OBVIOUS
  <2>4. UNCHANGED <<attempts, worker>>
    BY <1>8 DEF ClaimNothing
  <2> QED
    BY <1>6, <2>2, <2>3, <2>4
<1> QED
  BY <1>4, <1>5, <1>7, <1>8

\* A step that changes attempts, rows and workers other than v's leaves the lease
\* of v alone; two workers that execute hold different attempts.
LEMMA LeaseOthers ==
    ASSUME TypeOK, WorkerHoldsLease, now' = now,
           NEW w \in Workers, worker[w].pc = "executing",
           NEW v \in Workers, v # w, worker[v].pc = "executing", worker'[v] = worker[v],
           \A b \in DOMAIN attempts \ {Held(w)} : attempts'[b] = attempts[b],
           \A k \in Keys : locks[k].owner # Held(w) => locks'[k] = locks[k]
    PROVE  HoldsLease(v)'
<1>1. Held(v) # Held(w)
  BY HeldFacts DEF HoldsLease
<1>2. attempts'[Held(v)] = attempts[Held(v)]
  BY <1>1, HeldFacts
<1>3. \A k \in KeySet(attempts[Held(v)].keys) : locks'[k] = locks[k]
  BY <1>1, HeldFacts
<1> QED
  BY <1>2, <1>3, HeldFacts, LeaseUntouched

\* A heartbeat, complete or cut short, extends the lease or at least shortens no
\* lock.
LEMMA LeaseHeartbeats ==
    ASSUME TypeOK, LeaseInv, NEW w \in Workers, Heartbeat(w) \/ HeartbeatFails(w),
           NEW v \in Workers, worker'[v].pc = "executing"
    PROVE  HoldsLease(v)'
<1>1. /\ WorkerHoldsLease /\ now' = now /\ worker' = worker
      /\ worker[v].pc = "executing" /\ worker[w].pc = "executing"
  BY DEF LeaseInv, Heartbeat, HeartbeatFails
<1>2. \A k \in Keys : locks[k].owner # Held(w) => locks'[k] = locks[k]
  BY DEF Heartbeat, HeartbeatFails, Refresh, TypeOK
<1>3. \A b \in DOMAIN attempts \ {Held(w)} : attempts'[b] = attempts[b]
  BY HeartbeatAttempt DEF HeartbeatFails
<1>4. CASE v # w
  BY <1>1, <1>2, <1>3, <1>4, LeaseOthers
<1>5. CASE v = w
  <2> DEFINE a == Held(v)
  <2>1. /\ HoldsLease(v) /\ a \in DOMAIN attempts /\ attempts[a] \in Attempt
        /\ KeySet(attempts[a].keys) \subseteq Keys
    BY <1>1, HeldFacts
  <2>2. Held(v)' = a
    BY <1>1 DEF Held
  <2>3. now + Lease \in Int /\ now + Lease >= now /\ now + Lease >= now + Lease
    BY ConstantsAssumption DEF TypeOK, ConstantsAssumption
  <2>4. CASE Heartbeat(w)
    <3>1. attempts'[a] = [attempts[a] EXCEPT !.lease = now + Lease]
      BY <1>5, <2>1, <2>4, HeartbeatAttempt
    <3>2. /\ attempts'[a].status = attempts[a].status
          /\ attempts'[a].worker = attempts[a].worker
          /\ attempts'[a].keys = attempts[a].keys
          /\ attempts'[a].lease = now + Lease
      BY <2>1, <3>1 DEF Attempt
    <3>3. \A k \in KeySet(attempts[a].keys) :
              locks'[k] = [owner |-> a, expires |-> now + Lease]
      BY <1>5, <2>1, <2>4 DEF Heartbeat, Refresh, HoldsLease, TypeOK
    <3> QED
      BY <1>1, <2>1, <2>2, <2>3, <3>2, <3>3 DEF HoldsLease, KeySet
  <2>5. CASE HeartbeatFails(w)
    <3>1. attempts' = attempts
      BY <2>5 DEF HeartbeatFails
    <3>2. \A k \in KeySet(attempts[a].keys) :
              locks'[k] \in {locks[k], [owner |-> a, expires |-> now + Lease]}
      BY <1>5, <2>1, <2>5 DEF HeartbeatFails, Refresh, HoldsLease, TypeOK
    <3>3. now + Lease >= attempts[a].lease
      BY <2>1, <2>3 DEF LeaseInv, LeasesBounded, Attempt
    <3>4. \A k \in KeySet(attempts[a].keys) :
              locks'[k].owner = a /\ locks'[k].expires >= attempts[a].lease
      BY <2>1, <3>2, <3>3 DEF HoldsLease
    <3> QED
      BY <1>1, <2>1, <2>2, <3>1, <3>4 DEF HoldsLease, KeySet
  <2> QED
    BY <2>4, <2>5
<1> QED
  BY <1>4, <1>5

\* A worker that is done, or fails to report that it is, leaves the others alone.
LEMMA LeaseCompletions ==
    ASSUME TypeOK, LeaseInv, NEW w \in Workers,
           \/ \E result \in Results : Complete(w, result) \/ CompleteLost(w, result)
           \/ CompleteFails(w),
           NEW v \in Workers, worker'[v].pc = "executing"
    PROVE  HoldsLease(v)'
<1>1. /\ WorkerHoldsLease /\ now' = now
      /\ worker[w].pc = "executing"
      /\ worker' \in {[worker EXCEPT ![w] = [pc |-> "reconciling", attempt |-> 0]],
                      [worker EXCEPT ![w] = [pc |-> "idle", attempt |-> 0]]}
  BY DEF LeaseInv, Complete, CompleteLost, CompleteFails, Completed
<1>2. v # w /\ worker'[v] = worker[v]
  BY <1>1 DEF TypeOK
<1>3. \A k \in Keys : locks[k].owner # Held(w) => locks'[k] = locks[k]
  BY DEF Complete, CompleteLost, CompleteFails, Completed, Release, TypeOK
<1>4. \A b \in DOMAIN attempts \ {Held(w)} : attempts'[b] = attempts[b]
  BY CompletedAttempt DEF Complete, CompleteLost, CompleteFails
<1> QED
  BY <1>1, <1>2, <1>3, <1>4, LeaseOthers

\* Recovery spares an attempt whose lease has not ended; so do a crash of another
\* worker, a reconciliation and every request.
LEMMA LeaseRecoveries ==
    ASSUME TypeOK, LeaseInv, RecoverStuckRuns \/ RecoverFails,
           NEW v \in Workers, worker'[v].pc = "executing"
    PROVE  HoldsLease(v)'
<1>1. /\ WorkerHoldsLease /\ now' = now /\ worker' = worker /\ worker[v].pc = "executing"
  BY DEF LeaseInv, RecoverStuckRuns, RecoverFails
<1>2. attempts'[Held(v)] = attempts[Held(v)]
  BY <1>1, HeldFacts, RecoveredAttempts DEF RecoverFails
<1>3. ASSUME NEW k \in KeySet(attempts[Held(v)].keys)
      PROVE  locks'[k] = locks[k]
  <2>1. k \in Keys /\ locks[k].owner = Held(v) /\ Held(v) \notin Stale
    BY <1>1, HeldFacts
  <2> QED
    BY <2>1 DEF RecoverStuckRuns, RecoverFails
<1> QED
  BY <1>1, <1>2, <1>3, HeldFacts, LeaseUntouched

\* Reconciliation appends attempts and touches no lock.
LEMMA LeaseReconciles ==
    ASSUME TypeOK, LeaseInv, NEW scope \in SUBSET Issues,
           Reconcile(scope) \/ ReconcileFails(scope),
           NEW v \in Workers, worker[v].pc = "executing", worker'[v] = worker[v]
    PROVE  HoldsLease(v)'
<1>1. WorkerHoldsLease /\ now' = now /\ locks' = locks
  BY DEF LeaseInv, Reconcile, ReconcileFails
<1>2. attempts'[Held(v)] = attempts[Held(v)]
  <2>1. Held(v) \in DOMAIN attempts
    BY <1>1, HeldFacts
  <2>2. CASE Reconcile(scope)
    BY <2>1, <2>2, ReconcileQueues, AppendedAttempts
  <2>3. CASE ReconcileFails(scope)
    BY <2>3 DEF ReconcileFails
  <2> QED
    BY <2>2, <2>3
<1> QED
  BY <1>1, <1>2, HeldFacts, LeaseUntouched

\* Every step keeps the leases, provided that time does not overtake one.
LEMMA LeaseNext ==
    ASSUME Timely, LocksStable, TypeOK, LeaseInv, [Next]_vars
    PROVE  LeaseInv'
<1> SUFFICES ASSUME NEW v \in Workers, worker'[v].pc = "executing"
             PROVE  HoldsLease(v)'
  BY RecordsNext DEF LeaseInv, WorkerHoldsLease
<1>1. ASSUME UNCHANGED <<attempts, locks, now>>, worker'[v] = worker[v]
      PROVE  HoldsLease(v)'
  BY <1>1 DEF LeaseInv, WorkerHoldsLease, HoldsLease, Held, KeySet
<1>2. ASSUME NEW scope \in Scopes, OperatorReconcile(scope)
      PROVE  HoldsLease(v)'
  <2>1. scope \in SUBSET Issues
    BY DEF Scopes
  <2> QED
    BY <1>2, <2>1, LeaseReconciles DEF OperatorReconcile
<1>3. ASSUME NEW w \in Workers, WorkerReconcile(w)
      PROVE  HoldsLease(v)'
  <2>1. v # w /\ worker'[v] = worker[v]
    BY <1>3 DEF WorkerReconcile, TypeOK
  <2> QED
    BY <1>3, <2>1, LeaseReconciles DEF WorkerReconcile
<1>4. ASSUME NEW w \in Workers, Crash(w)
      PROVE  HoldsLease(v)'
  <2>1. v # w /\ worker'[v] = worker[v] /\ UNCHANGED <<attempts, locks, now>>
    BY <1>4 DEF Crash, TypeOK
  <2> QED
    BY <1>1, <2>1
<1>5. ASSUME Tick
      PROVE  HoldsLease(v)'
  <2>1. UNCHANGED <<attempts, locks, worker>> /\ now' = now + 1 /\ now < attempts[Held(v)].lease
    BY <1>5 DEF Tick
  <2>2. HoldsLease(v) /\ attempts[Held(v)] \in Attempt
    BY <2>1, HeldFacts DEF LeaseInv
  <2>3. attempts[Held(v)].lease >= now + 1
    BY <2>1, <2>2 DEF Attempt, TypeOK
  <2> QED
    BY <2>1, <2>2, <2>3 DEF HoldsLease, Held, KeySet
<1>6. ASSUME \/ \E i \in Issues : Request(i) \/ Approve(i)
             \/ \E c \in Clients :
                   \/ \E i \in Issues \cup {NoIssue} : ListIssues(c, i)
                   \/ EnqueueFromGitLab(c)
                   \/ EnsureRunForIssue(c)
                   \/ \E plan \in Plans : PersistPipelineArtifacts(c, plan)
                   \/ MaterializeFails(c)
      PROVE  HoldsLease(v)'
  <2>1. UNCHANGED <<attempts, locks, now, worker>>
    BY <1>6 DEF Request, Approve, ListIssues, EnqueueFromGitLab, EnsureRunForIssue,
                PersistPipelineArtifacts, MaterializeFails
  <2> QED
    BY <1>1, <2>1
<1>7. CASE UNCHANGED vars
  BY <1>1, <1>7 DEF vars
<1> QED
  BY <1>2, <1>3, <1>4, <1>5, <1>6, <1>7, LeaseClaims, LeaseHeartbeats, LeaseCompletions,
     LeaseRecoveries
  DEF Next

-----------------------------------------------------------------------------

\* As long as every worker renews its lease before it ends, the attempt a worker
\* executes stays the worker's own and its locks last as long as its lease:
\* neither claims, recoveries and completions of others, nor any of the failures
\* of ControlPlane, for any number of workers, locks and runs, takes them away.
THEOREM LeasesHeld ==
    ASSUME Timely, LocksStable
    PROVE  Spec => []WorkerHoldsLease
<1>1. Init => LeaseInv
  BY RecordsInit DEF Init, LeaseInv, WorkerHoldsLease
<1>2. TypeOK /\ LeaseInv /\ [Next]_vars => LeaseInv'
  BY LeaseNext
<1>3. LeaseInv => WorkerHoldsLease
  BY DEF LeaseInv
<1> QED
  BY <1>1, <1>2, <1>3, TypeCorrect, PTL DEF Spec

\* Then no two workers execute one attempt, or stages that need the same lock:
\* the row of a lock names one owner (the primary key of stage_resource_locks).
THEOREM LocksExclude ==
    ASSUME Timely, LocksStable
    PROVE  Spec => []MutualExclusion
<1>1. TypeOK /\ WorkerHoldsLease => MutualExclusion
  <2> SUFFICES ASSUME TypeOK, WorkerHoldsLease, NEW v \in Workers, NEW w \in Workers,
                      v # w, worker[v].pc = "executing", worker[w].pc = "executing"
               PROVE  /\ Held(v) # Held(w)
                      /\ KeySet(attempts[Held(v)].keys)
                            \cap KeySet(attempts[Held(w)].keys) = {}
    BY DEF MutualExclusion
  <2>1. Held(v) # Held(w)
    BY HeldFacts DEF HoldsLease
  <2> QED
    BY <2>1, HeldFacts
<1> QED
  BY <1>1, LeasesHeld, TypeCorrect, PTL

-----------------------------------------------------------------------------
(* Outcomes.                                                               *)

\* A step moves attempts that are pending or running, and no others: only the
\* worker that holds the lease completes an attempt.
LEMMA FinishedStep ==
    ASSUME TypeOK, WorkerHoldsLease, [Next]_vars,
           NEW a \in DOMAIN attempts, attempts[a].status \in Finished
    PROVE  a \in DOMAIN attempts' /\ attempts'[a] = attempts[a]
<1>1. attempts[a].status # "pending" /\ attempts[a].status # "running"
  BY DEF Finished
<1>2. ASSUME NEW w \in Workers, worker[w].pc = "executing"
      PROVE  a # Held(w)
  BY <1>1, <1>2, HeldFacts DEF HoldsLease
<1>3. ASSUME NEW scope \in SUBSET Issues, Reconcile(scope) \/ ReconcileFails(scope)
      PROVE  a \in DOMAIN attempts' /\ attempts'[a] = attempts[a]
  <2>1. CASE Reconcile(scope)
    <3>1. PICK new \in Seq(Attempt) : attempts' = attempts \o new
      BY <2>1, ReconcileQueues
    <3> QED
      BY <3>1, AppendedAttempts
  <2>2. CASE ReconcileFails(scope)
    BY <2>2 DEF ReconcileFails
  <2> QED
    BY <1>3, <2>1, <2>2
<1>4. ASSUME NEW scope \in Scopes, OperatorReconcile(scope)
      PROVE  a \in DOMAIN attempts' /\ attempts'[a] = attempts[a]
  <2>1. scope \in SUBSET Issues
    BY DEF Scopes
  <2> QED
    BY <1>3, <1>4, <2>1 DEF OperatorReconcile
<1>5. ASSUME NEW w \in Workers, WorkerReconcile(w)
      PROVE  a \in DOMAIN attempts' /\ attempts'[a] = attempts[a]
  BY <1>3, <1>5 DEF WorkerReconcile
<1>6. ASSUME NEW w \in Workers, Claim(w) \/ ClaimLost(w)
      PROVE  a \in DOMAIN attempts' /\ attempts'[a] = attempts[a]
  <2>1. PICK b, got : b \in Candidates(w) /\ Selects(w, b, got) /\ Claimed(w, b, got)
    BY <1>6 DEF Claim, ClaimLost
  <2>2. a # b
    BY <1>1, <2>1 DEF Candidates
  <2> QED
    BY <2>1, <2>2, ClaimedAttempt DEF AttemptsKept
<1>7. ASSUME NEW w \in Workers, Heartbeat(w)
      PROVE  a \in DOMAIN attempts' /\ attempts'[a] = attempts[a]
  BY <1>2, <1>7, HeartbeatAttempt DEF AttemptsKept, Heartbeat
<1>8. ASSUME NEW w \in Workers, NEW result \in Results,
             Complete(w, result) \/ CompleteLost(w, result)
      PROVE  a \in DOMAIN attempts' /\ attempts'[a] = attempts[a]
  BY <1>2, <1>8, CompletedAttempt DEF AttemptsKept, Complete, CompleteLost, Completed
<1>9. ASSUME RecoverStuckRuns
      PROVE  a \in DOMAIN attempts' /\ attempts'[a] = attempts[a]
  BY <1>1, <1>9, RecoveredAttempts DEF AttemptsKept, Stale
<1>10. ASSUME \/ UNCHANGED vars
              \/ \E i \in Issues : Request(i) \/ Approve(i)
              \/ \E c \in Clients :
                    \/ \E i \in Issues \cup {NoIssue} : ListIssues(c, i)
                    \/ EnqueueFromGitLab(c)
                    \/ EnsureRunForIssue(c)
                    \/ \E plan \in Plans : PersistPipelineArtifacts(c, plan)
                    \/ MaterializeFails(c)
              \/ \E w \in Workers : \/ ClaimUnsaved(w) \/ ClaimNothing(w)
                                    \/ HeartbeatFails(w) \/ CompleteFails(w) \/ Crash(w)
              \/ RecoverFails
              \/ Tick
       PROVE  a \in DOMAIN attempts' /\ attempts'[a] = attempts[a]
  BY <1>10 DEF vars, Request, Approve, ListIssues, EnqueueFromGitLab, EnsureRunForIssue,
               PersistPipelineArtifacts, MaterializeFails, ClaimUnsaved, ClaimNothing,
               HeartbeatFails, CompleteFails, Crash, RecoverFails, Tick
<1> QED
  BY <1>4, <1>5, <1>6, <1>7, <1>8, <1>9, <1>10 DEF Next

\* As long as every worker renews its lease, the outcome of a finished attempt
\* never changes, although Complete looks neither at the attempt's status nor at
\* its worker: a late completion of a recovered attempt cannot happen.
THEOREM OutcomesAreFinal ==
    ASSUME Timely, LocksStable
    PROVE  Spec => FinishedIsFinal
<1>1. TypeOK /\ WorkerHoldsLease /\ [Next]_vars =>
          [\A a \in DOMAIN attempts : attempts[a].status \in Finished =>
               attempts'[a].status = attempts[a].status]_vars
  BY FinishedStep
<1> QED
  BY <1>1, LeasesHeld, TypeCorrect, PTL DEF Spec, FinishedIsFinal

-----------------------------------------------------------------------------
(* What leases and locks are for: ControlPlane implements StageWork.       *)

\* No outcome comes or goes when no attempt becomes finished, or changes after.
LEMMA OutcomesKept ==
    ASSUME \A a \in DOMAIN attempts : attempts[a].status \in Finished =>
               a \in DOMAIN attempts' /\ attempts'[a].status = attempts[a].status,
           \A a \in DOMAIN attempts' : attempts'[a].status \in Finished =>
               a \in DOMAIN attempts /\ attempts[a].status = attempts'[a].status
    PROVE  Outcomes' = Outcomes
  BY DEF Outcomes

\* The work of a worker stays when neither its state nor its attempt's keys change.
LEMMA WorkStays ==
    ASSUME NEW v \in Workers, worker'[v] = worker[v],
           worker[v].pc = "executing" => attempts'[Held(v)].keys = attempts[Held(v)].keys
    PROVE  WorkOf(v)' = WorkOf(v)
  BY DEF WorkOf, Held, KeySet

\* A step that StageWork does not see.
LEMMA WorkUnseen ==
    ASSUME Outcomes' = Outcomes, \A v \in Workers : WorkOf(v)' = WorkOf(v)
    PROVE  UNCHANGED Abstract!workVars
  BY DEF Abstract!workVars

\* Who executes is not idle, and who does not is.
LEMMA WorkFacts ==
    ASSUME TypeOK, NEW v \in Workers
    PROVE  /\ worker[v].pc # "executing" => WorkOf(v) = Abstract!Idle
           /\ worker[v].pc = "executing" =>
                 /\ WorkOf(v).attempt = Held(v) /\ Held(v) \in Nat \ {0}
                 /\ WorkOf(v).keys = KeySet(attempts[Held(v)].keys)
                 /\ WorkOf(v) # Abstract!Idle
<1>1. ASSUME worker[v].pc = "executing" PROVE Held(v) \in Nat \ {0}
  BY <1>1, AttemptFacts DEF TypeOK, Held
<1> QED
  BY <1>1 DEF WorkOf, Abstract!Idle

\* One worker's work ends, and the others go on.
LEMMA WorkEnds ==
    ASSUME TypeOK, NEW w \in Workers, worker[w].pc = "executing",
           worker' \in {[worker EXCEPT ![w] = [pc |-> "reconciling", attempt |-> 0]],
                        [worker EXCEPT ![w] = [pc |-> "idle", attempt |-> 0]]},
           \A b \in DOMAIN attempts : attempts'[b].keys = attempts[b].keys
    PROVE  /\ WorkOf(w) # Abstract!Idle
           /\ [v \in Workers |-> WorkOf(v)]' =
                 [[v \in Workers |-> WorkOf(v)] EXCEPT ![w] = Abstract!Idle]
<1>1. WorkOf(w)' = Abstract!Idle
  BY DEF WorkOf, Abstract!Idle, TypeOK
<1>2. ASSUME NEW v \in Workers, v # w PROVE WorkOf(v)' = WorkOf(v)
  <2>1. worker'[v] = worker[v]
    BY <1>2 DEF TypeOK
  <2>2. worker[v].pc = "executing" => Held(v) \in DOMAIN attempts
    BY DEF TypeOK, Held
  <2> QED
    BY <2>1, <2>2, WorkStays
<1> QED
  BY <1>1, <1>2, WorkFacts

\* A saved claim is a start: nobody works on the attempt, nobody has its locks.
LEMMA ClaimStarts ==
    ASSUME TypeOK, WorkerHoldsLease, TypeOK', MutualExclusion', NEW w \in Workers, Claim(w)
    PROVE  Abstract!Start(w)
<1>1. PICK a \in Candidates(w) : \E got \in Selections(w, a) :
          /\ Selects(w, a, got) /\ Claimed(w, a, got)
          /\ worker' = [worker EXCEPT ![w] = [pc |-> "executing", attempt |-> a]]
  BY DEF Claim
<1>2. PICK got \in Selections(w, a) : Selects(w, a, got) /\ Claimed(w, a, got)
  BY <1>1
<1>3. /\ worker[w].pc = "idle" /\ a \in DOMAIN attempts /\ attempts[a].status = "pending"
      /\ worker'[w].pc = "executing" /\ worker'[w].attempt = a
      /\ \A v \in Workers \ {w} : worker'[v] = worker[v]
  BY <1>1, <1>2 DEF Selects, Candidates, TypeOK
<1>4. /\ AttemptsKept /\ attempts'[a].status = "running"
      /\ \A b \in DOMAIN attempts \ {a} : attempts'[b] = attempts[b]
  BY <1>2, ClaimedAttempt
<1>5. /\ WorkOf(w)'.attempt = a /\ WorkOf(w)'.keys = KeySet(attempts'[a].keys)
      /\ a \in Nat \ {0}
  BY <1>3, AttemptFacts DEF WorkOf, Held, KeySet
<1>6. KeySet(attempts'[a].keys) \subseteq Keys
  <2>1. a \in DOMAIN attempts' /\ attempts' \in Seq(Attempt)
    BY <1>3, <1>4 DEF AttemptsKept, TypeOK
  <2>2. attempts'[a] \in Attempt
    BY <2>1, ElementOfSeq, LenProperties
  <2>3. attempts'[a].keys \in Seq(Keys)
    BY <2>2 DEF Attempt
  <2> QED
    BY <2>3 DEF KeySet
<1>7. ASSUME NEW v \in Workers \ {w}
      PROVE  WorkOf(v)' = WorkOf(v)
  <2>1. worker[v].pc = "executing" => Held(v) \in DOMAIN attempts \ {a}
    BY <1>3, HeldFacts DEF HoldsLease
  <2> QED
    BY <1>3, <1>4, <2>1, WorkStays
<1>8. ASSUME NEW v \in Workers \ {w}
      PROVE  WorkOf(v).attempt # a /\ WorkOf(v).keys \cap WorkOf(w)'.keys = {}
  <2>1. CASE worker[v].pc = "executing"
    <3>1. /\ Held(v)' = Held(v) /\ Held(w)' = a
          /\ worker'[v].pc = "executing" /\ worker'[w].pc = "executing"
      BY <1>3, <2>1 DEF Held
    <3>2. /\ Held(v)' # a
          /\ KeySet(attempts'[Held(v)'].keys) \cap KeySet(attempts'[a].keys) = {}
      BY <3>1 DEF MutualExclusion, KeySet
    <3>3. /\ WorkOf(v)'.attempt = Held(v)'
          /\ WorkOf(v)'.keys = KeySet(attempts'[Held(v)'].keys)
      BY <3>1 DEF WorkOf, Held, KeySet
    <3> QED
      BY <1>5, <1>7, <3>2, <3>3
  <2>2. CASE worker[v].pc # "executing"
    BY <1>5, <2>2, WorkFacts DEF Abstract!Idle
  <2> QED
    BY <2>1, <2>2
<1>9. Outcomes' = Outcomes
  BY <1>3, <1>4, OutcomesKept DEF AttemptsKept, Finished
<1>10. \A o \in Outcomes : o.attempt # a
  BY <1>3 DEF Outcomes, Finished
<1>11. WorkOf(w) = Abstract!Idle
  BY <1>3, WorkFacts
<1>12. [v \in Workers |-> WorkOf(v)]' =
           [[v \in Workers |-> WorkOf(v)] EXCEPT ![w] = WorkOf(w)']
  BY <1>7
<1> QED
  BY <1>5, <1>6, <1>8, <1>9, <1>10, <1>11, <1>12 DEF Abstract!Start

\* A saved completion gives the attempt of its worker an outcome, its first.
LEMMA CompleteFinishes ==
    ASSUME TypeOK, WorkerHoldsLease, NEW w \in Workers, NEW result \in Results,
           Complete(w, result) \/ CompleteLost(w, result)
    PROVE  Abstract!Finish(w, result)
<1> DEFINE a == Held(w)
<1>0. Completed(w, result)
  BY DEF Complete, CompleteLost
<1>1. /\ worker[w].pc = "executing"
      /\ worker' \in {[worker EXCEPT ![w] = [pc |-> "reconciling", attempt |-> 0]],
                      [worker EXCEPT ![w] = [pc |-> "idle", attempt |-> 0]]}
  BY DEF Complete, CompleteLost, Completed
<1>2. /\ AttemptsKept /\ a \in DOMAIN attempts
      /\ attempts' = [attempts EXCEPT ![a] =
                        [attempts[a] EXCEPT !.status = result, !.lease = NoLease]]
  BY <1>0, CompletedAttempt, Zenon
<1>3. attempts[a] \in Attempt /\ attempts[a].status = "running" /\ result \in Finished
  <2>1. attempts[a] \in Attempt /\ attempts[a].status = "running"
    BY <1>1, <1>2, AttemptFacts, HeldFacts DEF HoldsLease
  <2>2. result \in Finished
    BY ConstantsAssumption DEF ConstantsAssumption, Finished
  <2> QED
    BY <2>1, <2>2
<1> HIDE DEF a
<1>4. /\ attempts'[a].status = result /\ attempts'[a].keys = attempts[a].keys
      /\ \A b \in DOMAIN attempts \ {a} : attempts'[b] = attempts[b]
  BY <1>2, <1>3 DEF Attempt
<1>5. /\ WorkOf(w) # Abstract!Idle
      /\ [v \in Workers |-> WorkOf(v)]' =
            [[v \in Workers |-> WorkOf(v)] EXCEPT ![w] = Abstract!Idle]
  BY <1>1, <1>4, WorkEnds
<1>6. Outcomes' = Outcomes \cup {[attempt |-> a, result |-> result]}
  BY <1>2, <1>3, <1>4 DEF Outcomes, AttemptsKept, Finished
<1>7. WorkOf(w).attempt = a
  BY <1>1, WorkFacts DEF a
<1> QED
  BY <1>5, <1>6, <1>7 DEF Abstract!Finish

\* Every step is a step of StageWork or invisible to it.
LEMMA WorkNext ==
    ASSUME TypeOK, WorkerHoldsLease, TypeOK', MutualExclusion', [Next]_vars
    PROVE  [Abstract!Next]_(Abstract!workVars)
<1> DEFINE Same(v) == WorkOf(v)' = WorkOf(v)
<1>1. ASSUME UNCHANGED <<worker, attempts>> PROVE UNCHANGED Abstract!workVars
  BY <1>1, OutcomesKept, WorkStays, WorkUnseen
<1>2. ASSUME NEW scope \in SUBSET Issues, Reconcile(scope) \/ ReconcileFails(scope),
             \A v \in Workers : \/ worker'[v] = worker[v]
                                \/ /\ worker[v].pc # "executing"
                                   /\ worker'[v].pc # "executing"
      PROVE  UNCHANGED Abstract!workVars
  <2>1. /\ \A a \in DOMAIN attempts : a \in DOMAIN attempts' /\ attempts'[a] = attempts[a]
        /\ \A a \in DOMAIN attempts' \ DOMAIN attempts : attempts'[a].status = "pending"
    <3>1. CASE Reconcile(scope)
      <4>1. PICK new \in Seq(Attempt) : attempts' = attempts \o new /\ Fresh(new)
        BY <3>1, ReconcileQueues
      <4> QED
        BY <4>1, AppendedAttempts DEF Fresh, NewAttempt
    <3>2. CASE ReconcileFails(scope)
      BY <3>2 DEF ReconcileFails
    <3> QED
      BY <1>2, <3>1, <3>2
  <2>2. Outcomes' = Outcomes
    BY <2>1, OutcomesKept DEF Finished
  <2>3. ASSUME NEW v \in Workers PROVE Same(v)
    <3>1. worker[v].pc = "executing" => Held(v) \in DOMAIN attempts
      BY DEF TypeOK, Held
    <3>2. CASE worker'[v] = worker[v]
      BY <2>1, <3>1, <3>2, WorkStays
    <3>3. CASE worker[v].pc # "executing" /\ worker'[v].pc # "executing"
      BY <3>3 DEF WorkOf
    <3> QED
      BY <1>2, <3>2, <3>3
  <2> QED
    BY <2>2, <2>3, WorkUnseen
<1>3. ASSUME NEW scope \in Scopes, OperatorReconcile(scope)
      PROVE  UNCHANGED Abstract!workVars
  <2>1. scope \in SUBSET Issues
    BY DEF Scopes
  <2> QED
    BY <1>2, <1>3, <2>1 DEF OperatorReconcile
<1>4. ASSUME NEW w \in Workers, WorkerReconcile(w)
      PROVE  UNCHANGED Abstract!workVars
  <2>1. /\ worker[w].pc # "executing" /\ worker'[w].pc # "executing"
        /\ \A v \in Workers \ {w} : worker'[v] = worker[v]
    BY <1>4 DEF WorkerReconcile, TypeOK
  <2> QED
    BY <1>2, <1>4, <2>1 DEF WorkerReconcile
<1>5. ASSUME NEW w \in Workers, ClaimLost(w)
      PROVE  UNCHANGED Abstract!workVars
  <2>1. worker' = worker
    BY <1>5 DEF ClaimLost
  <2>2. PICK a, got : a \in Candidates(w) /\ Selects(w, a, got) /\ Claimed(w, a, got)
    BY <1>5 DEF ClaimLost
  <2>3. /\ a \in DOMAIN attempts /\ attempts[a].status = "pending"
        /\ AttemptsKept /\ attempts'[a].status = "running"
        /\ \A b \in DOMAIN attempts \ {a} : attempts'[b] = attempts[b]
    BY <2>2, ClaimedAttempt DEF Candidates
  <2>4. Outcomes' = Outcomes
    BY <2>3, OutcomesKept DEF AttemptsKept, Finished
  <2>5. ASSUME NEW v \in Workers PROVE Same(v)
    <3>1. worker[v].pc = "executing" => Held(v) \in DOMAIN attempts \ {a}
      BY <2>3, HeldFacts DEF HoldsLease
    <3> QED
      BY <2>1, <2>3, <3>1, WorkStays
  <2> QED
    BY <2>4, <2>5, WorkUnseen
<1>6. ASSUME NEW w \in Workers, Heartbeat(w)
      PROVE  UNCHANGED Abstract!workVars
  <2> DEFINE a == Held(w)
  <2>1. worker' = worker
    BY <1>6 DEF Heartbeat
  <2>2. /\ AttemptsKept /\ a \in DOMAIN attempts
        /\ attempts' = [attempts EXCEPT ![a] = [attempts[a] EXCEPT !.lease = now + Lease]]
    BY <1>6, HeartbeatAttempt, Zenon
  <2>3. attempts[a] \in Attempt
    BY <2>2, AttemptFacts
  <2> HIDE DEF a
  <2>4. \A b \in DOMAIN attempts : /\ attempts'[b].status = attempts[b].status
                                   /\ attempts'[b].keys = attempts[b].keys
    BY <2>2, <2>3 DEF Attempt
  <2>5. Outcomes' = Outcomes
    BY <2>2, <2>4, OutcomesKept DEF AttemptsKept
  <2>6. \A v \in Workers : worker[v].pc = "executing" => Held(v) \in DOMAIN attempts
    BY DEF TypeOK, Held
  <2> QED
    BY <2>1, <2>4, <2>5, <2>6, WorkStays, WorkUnseen
<1>7. ASSUME NEW w \in Workers, CompleteFails(w) \/ Crash(w)
      PROVE  Abstract!Stop(w) \/ UNCHANGED Abstract!workVars
  <2>1. /\ attempts' = attempts
        /\ worker' = [worker EXCEPT ![w] = [pc |-> "idle", attempt |-> 0]]
    BY <1>7 DEF CompleteFails, Crash
  <2>2. Outcomes' = Outcomes
    BY <2>1, OutcomesKept
  <2>3. CASE worker[w].pc = "executing"
    BY <2>1, <2>2, <2>3, WorkEnds DEF Abstract!Stop
  <2>4. CASE worker[w].pc # "executing"
    <3>1. worker'[w].pc # "executing" /\ \A v \in Workers \ {w} : worker'[v] = worker[v]
      BY <2>1 DEF TypeOK
    <3>2. Same(w)
      BY <2>4, <3>1 DEF WorkOf
    <3>3. \A v \in Workers \ {w} : Same(v)
      BY <2>1, <3>1, WorkStays
    <3> QED
      BY <2>2, <3>2, <3>3, WorkUnseen
  <2> QED
    BY <2>3, <2>4
<1>8. ASSUME RecoverStuckRuns
      PROVE  UNCHANGED Abstract!workVars
  <2>1. worker' = worker
    BY <1>8, Zenon DEF RecoverStuckRuns
  <2>2. /\ AttemptsKept
        /\ \A a \in DOMAIN attempts :
              /\ attempts'[a].keys = attempts[a].keys
              /\ \/ attempts'[a] = attempts[a]
                 \/ attempts[a].status = "running" /\ attempts'[a].status = "pending"
    <3>1. \A a \in Stale : attempts[a].status = "running"
      BY DEF Stale
    <3> QED
      BY <1>8, <3>1, RecoveredAttempts
  <2>3. Outcomes' = Outcomes
    BY <2>2, OutcomesKept DEF AttemptsKept, Finished
  <2>4. \A v \in Workers : worker[v].pc = "executing" => Held(v) \in DOMAIN attempts
    BY DEF TypeOK, Held
  <2> QED
    BY <2>1, <2>2, <2>3, <2>4, WorkStays, WorkUnseen
<1>9. ASSUME \/ UNCHANGED vars
             \/ \E i \in Issues : Request(i) \/ Approve(i)
             \/ \E c \in Clients :
                   \/ \E i \in Issues \cup {NoIssue} : ListIssues(c, i)
                   \/ EnqueueFromGitLab(c)
                   \/ EnsureRunForIssue(c)
                   \/ \E plan \in Plans : PersistPipelineArtifacts(c, plan)
                   \/ MaterializeFails(c)
             \/ \E w \in Workers : ClaimUnsaved(w) \/ ClaimNothing(w) \/ HeartbeatFails(w)
             \/ RecoverFails
             \/ Tick
      PROVE  UNCHANGED Abstract!workVars
  <2>1. UNCHANGED <<worker, attempts>>
    <3>1. CASE UNCHANGED vars \/ RecoverFails \/ Tick
      BY <3>1 DEF vars, RecoverFails, Tick
    <3>2. CASE \E w \in Workers : ClaimUnsaved(w) \/ ClaimNothing(w) \/ HeartbeatFails(w)
      BY <3>2 DEF ClaimUnsaved, ClaimNothing, HeartbeatFails
    <3>3. CASE \/ \E i \in Issues : Request(i) \/ Approve(i)
               \/ \E c \in Clients :
                     \/ \E i \in Issues \cup {NoIssue} : ListIssues(c, i)
                     \/ EnqueueFromGitLab(c)
                     \/ EnsureRunForIssue(c)
                     \/ \E plan \in Plans : PersistPipelineArtifacts(c, plan)
                     \/ MaterializeFails(c)
      BY <3>3, Zenon DEF Request, Approve, ListIssues, EnqueueFromGitLab,
                         EnsureRunForIssue, PersistPipelineArtifacts, MaterializeFails
    <3> QED
      BY <1>9, <3>1, <3>2, <3>3
  <2> QED
    BY <1>1, <2>1
<1>10. ASSUME NEW w \in Workers,
              \/ Claim(w) \/ CompleteFails(w) \/ Crash(w)
              \/ \E result \in Results : Complete(w, result) \/ CompleteLost(w, result)
       PROVE  [Abstract!Next]_(Abstract!workVars)
  BY <1>7, <1>10, ClaimStarts, CompleteFinishes DEF Abstract!Next
<1> QED
  BY <1>3, <1>4, <1>5, <1>6, <1>8, <1>9, <1>10 DEF Next

\* The control plane implements StageWork, as long as every worker renews its
\* lease in time: whatever fails between the state file, the lock table and the
\* workers, an attempt is executed by one worker at a time, with locks that are
\* its own and stay the same, and gets one outcome, from a worker that executes
\* it (claimNext, Complete, RecoverStuckRuns).
THEOREM WorkIsExclusive ==
    ASSUME Timely, LocksStable
    PROVE  Spec => ImplementsStageWork
<1>1. Init => Abstract!Init
  BY DEF Init, Abstract!Init, Abstract!Idle, WorkOf, Outcomes
<1>2. TypeOK /\ WorkerHoldsLease /\ TypeOK' /\ MutualExclusion' /\ [Next]_vars
          => [Abstract!Next]_(Abstract!workVars)
  BY WorkNext
<1> QED
  BY <1>1, <1>2, TypeCorrect, LeasesHeld, LocksExclude, PTL
  DEF Spec, ImplementsStageWork, Abstract!Spec

-----------------------------------------------------------------------------
(* The lock table at rest.                                                 *)

\* The locks of a stage of a run do not depend on which of its plans is in the
\* journal: K gives them (KeysForStage computes them from the run and the
\* stage's permissions).
RunLocks(K) ==
    \A r \in 1 .. MaxRuns : journal[r] # NoPlan =>
        \A s \in DOMAIN journal[r] : journal[r][s].keys = K[r][s]

LocksOf(K, a) == K[attempts[a].run][attempts[a].stage]

\* Every row belongs to an attempt that is not finished and needs the lock.
RowsOwned(K) ==
    \A k \in Keys : locks[k].owner # 0 =>
        /\ locks[k].owner \in DOMAIN attempts
        /\ attempts[locks[k].owner].status \notin Finished
        /\ k \in KeySet(LocksOf(K, locks[k].owner))

\* An attempt records no keys, or all those it needs; one that has been claimed
\* records them all, and so does one that a worker executes, even if it was
\* taken from the worker meanwhile.
KeysRecorded(K) ==
    /\ \A a \in DOMAIN attempts :
          /\ attempts[a].keys \in {<< >>, LocksOf(K, a)}
          /\ attempts[a].status # "pending" => attempts[a].keys = LocksOf(K, a)
    /\ \A w \in Workers : worker[w].pc = "executing" =>
          attempts[Held(w)].keys = LocksOf(K, Held(w))

RowsInv(K) == RowsOwned(K) /\ KeysRecorded(K)

\* Nothing is recorded in the empty state.
LEMMA RowsInit == ASSUME NEW K, Init PROVE RowsInv(K)
  BY DEF Init, RowsInv, RowsOwned, KeysRecorded, NoRow

\* The locks of an attempt with a spec are those of its plan.
LEMMA SpecLocks ==
    ASSUME TypeOK, NEW K, RunLocks(K), NEW a \in DOMAIN attempts, HasSpec(a)
    PROVE  KeysForStage(a) = LocksOf(K, a)
<1>1. attempts[a].run \in 1 .. MaxRuns
  BY AttemptFacts DEF Attempt
<1> QED
  BY <1>1 DEF HasSpec, RunLocks, KeysForStage, LocksOf

\* Rows that are dropped or keep their owner stay owned.
LEMMA RowsDropped ==
    ASSUME NEW K, RowsOwned(K), AttemptsKept,
           \A k \in Keys : locks'[k].owner \in {0, locks[k].owner},
           \A k \in Keys : locks'[k].owner # 0 =>
               attempts'[locks[k].owner].status \notin Finished
    PROVE  RowsOwned(K)'
  BY DEF RowsOwned, LocksOf, AttemptsKept

\* Claims: the locks taken are the attempt's own, whether the claim is saved,
\* lost or dropped, and what it records is what it took.
LEMMA RowsClaims ==
    ASSUME TypeOK, NEW K, RowsInv(K), RunLocks(K), NEW w \in Workers,
           Claim(w) \/ ClaimLost(w) \/ ClaimUnsaved(w) \/ ClaimNothing(w)
    PROVE  RowsInv(K)'
<1> USE DEF RowsInv
<1>1. ASSUME NEW got, NEW k \in Keys
      PROVE  GivenBack(got)[k] \in {NoRow, locks[k]}
  BY DEF GivenBack
<1>2. ASSUME NEW a, NEW got, a \in Candidates(w), Selects(w, a, got), Claimed(w, a, got),
             \/ worker' = worker
             \/ worker' = [worker EXCEPT ![w] = [pc |-> "executing", attempt |-> a]]
      PROVE  RowsInv(K)'
  <2>1. a \in DOMAIN attempts /\ HasSpec(a) /\ attempts[a].status = "pending"
    BY <1>2 DEF Candidates, Selects
  <2>2. KeysForStage(a) = LocksOf(K, a)
    BY <2>1, SpecLocks
  <2>3. attempts'[a].keys = LocksOf(K, a)
    BY <1>2, <2>1, <2>2, ClaimedAttempt DEF KeysRecorded
  <2>4. /\ AttemptsKept
        /\ \A b \in DOMAIN attempts \ {a} : attempts'[b] = attempts[b]
        /\ attempts'[a].status = "running"
    BY <1>2, ClaimedAttempt
  <2>5. \A b \in DOMAIN attempts : LocksOf(K, b)' = LocksOf(K, b)
    BY <2>4 DEF AttemptsKept, LocksOf
  <2>6. RowsOwned(K)'
    <3> SUFFICES ASSUME NEW k \in Keys, locks'[k].owner # 0
                 PROVE  /\ locks'[k].owner \in DOMAIN attempts
                        /\ attempts'[locks'[k].owner].status \notin Finished
                        /\ k \in KeySet(LocksOf(K, locks'[k].owner))
      BY <2>4, <2>5 DEF RowsOwned, AttemptsKept, KeySet
    <3>1. locks' = [j \in Keys |-> IF j \in KeySet(LocksOf(K, a))
                                   THEN [owner |-> a, expires |-> now + Lease]
                                   ELSE GivenBack(got)[j]]
      BY <1>2, <2>2 DEF Claimed, Acquire, GivenBack
    <3>2. CASE k \in KeySet(LocksOf(K, a))
      BY <2>1, <2>4, <3>1, <3>2 DEF Finished
    <3>3. CASE k \notin KeySet(LocksOf(K, a))
      <4>1. locks'[k] = locks[k]
        BY <1>1, <3>1, <3>3 DEF NoRow
      <4> QED
        BY <2>4, <4>1 DEF RowsOwned, Finished
    <3> QED
      BY <3>2, <3>3
  <2>7. KeysRecorded(K)'
    <3>1. \A b \in DOMAIN attempts :
              /\ attempts'[b].keys \in {<< >>, LocksOf(K, b)}
              /\ attempts'[b].status # "pending" => attempts'[b].keys = LocksOf(K, b)
      BY <2>3, <2>4 DEF KeysRecorded
    <3>2. ASSUME NEW v \in Workers, worker'[v].pc = "executing"
          PROVE  /\ Held(v)' \in DOMAIN attempts
                 /\ attempts'[Held(v)'].keys = LocksOf(K, Held(v)')
      <4>1. CASE worker'[v] = worker[v]
        BY <2>3, <2>4, <3>2, <4>1 DEF KeysRecorded, Held, TypeOK
      <4>2. CASE worker'[v] # worker[v]
        BY <1>2, <2>1, <2>3, <4>2 DEF Held, TypeOK
      <4> QED
        BY <4>1, <4>2
    <3>3. \A v \in Workers : worker'[v].pc = "executing" =>
              attempts'[Held(v)'].keys = LocksOf(K, Held(v))'
      BY <3>2, <2>4 DEF AttemptsKept, LocksOf
    <3> QED
      BY <2>4, <2>5, <3>1, <3>3 DEF KeysRecorded, AttemptsKept
  <2> QED
    BY <2>6, <2>7
<1>3. ASSUME Claim(w) \/ ClaimLost(w) PROVE RowsInv(K)'
  <2>1. PICK a, got :
            /\ a \in Candidates(w) /\ Selects(w, a, got) /\ Claimed(w, a, got)
            /\ \/ worker' = worker
               \/ worker' = [worker EXCEPT ![w] = [pc |-> "executing", attempt |-> a]]
    BY <1>3 DEF Claim, ClaimLost
  <2> QED
    BY <1>2, <2>1
<1>4. ASSUME UNCHANGED <<attempts, worker>>, RowsOwned(K)' PROVE RowsInv(K)'
  BY <1>4 DEF KeysRecorded, LocksOf, Held
<1>5. CASE ClaimUnsaved(w)
  <2>1. UNCHANGED <<attempts, worker>>
    BY <1>5 DEF ClaimUnsaved
  <2>2. PICK a \in Candidates(w) : \E got \in Selections(w, a) :
          /\ HasSpec(a)
          /\ \E n \in 0 .. Len(KeysForStage(a)) :
                LET taken == KeyPrefix(KeysForStage(a), n)
                IN  \E kept \in SUBSET taken : locks' = LeftBehind(got, a, taken, kept)
    BY <1>5 DEF ClaimUnsaved
  <2>3. PICK got \in Selections(w, a) :
          /\ HasSpec(a)
          /\ \E n \in 0 .. Len(KeysForStage(a)) :
                LET taken == KeyPrefix(KeysForStage(a), n)
                IN  \E kept \in SUBSET taken : locks' = LeftBehind(got, a, taken, kept)
    BY <2>2
  <2>4. PICK n \in 0 .. Len(KeysForStage(a)) :
            \E kept \in SUBSET KeyPrefix(KeysForStage(a), n) :
                locks' = LeftBehind(got, a, KeyPrefix(KeysForStage(a), n), kept)
    BY <2>3
  <2>5. PICK kept \in SUBSET KeyPrefix(KeysForStage(a), n) :
                locks' = LeftBehind(got, a, KeyPrefix(KeysForStage(a), n), kept)
    BY <2>4
  <2>6. /\ a \in DOMAIN attempts /\ HasSpec(a) /\ attempts[a].status = "pending"
        /\ KeysForStage(a) = LocksOf(K, a)
    BY <2>3, SpecLocks DEF Candidates
  <2>7. KeyPrefix(KeysForStage(a), n) \subseteq KeySet(LocksOf(K, a))
    <3>1. KeysForStage(a) \in Seq(Keys)
      BY <2>6, AttemptFacts
    <3>2. 1 .. n \subseteq DOMAIN KeysForStage(a)
      BY <3>1, LenProperties
    <3> QED
      BY <2>6, <3>2 DEF KeyPrefix, KeySet
  <2>8. RowsOwned(K)'
    <3> SUFFICES ASSUME NEW k \in Keys, locks'[k].owner # 0
                 PROVE  /\ locks'[k].owner \in DOMAIN attempts
                        /\ attempts[locks'[k].owner].status \notin Finished
                        /\ k \in KeySet(LocksOf(K, locks'[k].owner))
      BY <2>1 DEF RowsOwned, LocksOf, KeySet
    <3>1. locks'[k] \in {[owner |-> a, expires |-> now + Lease], NoRow, locks[k]}
      BY <1>1, <2>5 DEF LeftBehind
    <3>2. CASE k \in kept
      <4>1. locks'[k].owner = a
        BY <2>5, <3>2 DEF LeftBehind
      <4> QED
        BY <2>6, <2>7, <3>2, <4>1 DEF Finished
    <3>3. CASE k \notin kept
      <4>1. locks'[k] \in {NoRow, locks[k]}
        BY <1>1, <2>5, <3>3 DEF LeftBehind
      <4> QED
        BY <4>1 DEF RowsOwned, NoRow
    <3> QED
      BY <3>2, <3>3
  <2> QED
    BY <1>4, <2>1, <2>8
<1>6. CASE ClaimNothing(w)
  <2>1. UNCHANGED <<attempts, worker>>
    BY <1>6 DEF ClaimNothing
  <2>2. PICK got : locks' = GivenBack(got)
    BY <1>6 DEF ClaimNothing
  <2>3. \A k \in Keys : locks'[k] \in {NoRow, locks[k]}
    BY <1>1, <2>2
  <2>4. RowsOwned(K)'
    BY <2>1, <2>3 DEF RowsOwned, LocksOf, NoRow, KeySet
  <2> QED
    BY <1>4, <2>1, <2>4
<1> QED
  BY <1>3, <1>5, <1>6

\* Heartbeats move expiry times only.
LEMMA RowsHeartbeats ==
    ASSUME TypeOK, NEW K, RowsInv(K), NEW w \in Workers, Heartbeat(w) \/ HeartbeatFails(w)
    PROVE  RowsInv(K)'
<1> USE DEF RowsInv
<1>1. /\ AttemptsKept /\ worker' = worker
      /\ \A b \in DOMAIN attempts : /\ attempts'[b].keys = attempts[b].keys
                                    /\ attempts'[b].status = attempts[b].status
  <2>1. CASE Heartbeat(w)
    <3>1. /\ AttemptsKept /\ Held(w) \in DOMAIN attempts
          /\ attempts' = [attempts EXCEPT ![Held(w)] =
                             [attempts[Held(w)] EXCEPT !.lease = now + Lease]]
      BY <2>1, HeartbeatAttempt
    <3>2. attempts[Held(w)] \in Attempt
      BY <3>1, AttemptFacts
    <3> QED
      BY <2>1, <3>1, <3>2 DEF Attempt, Heartbeat
  <2>2. CASE HeartbeatFails(w)
    BY <2>2 DEF HeartbeatFails, AttemptsKept
  <2> QED
    BY <2>1, <2>2
<1>2. \A k \in Keys : locks'[k].owner = locks[k].owner
  <2>1. PICK ks : locks' = Refresh(locks, ks, Held(w), now + Lease)
    BY DEF Heartbeat, HeartbeatFails
  <2>2. DOMAIN locks = Keys
    BY DEF TypeOK
  <2> QED
    BY <2>1, <2>2 DEF Refresh
<1>3. RowsOwned(K)'
  BY <1>1, <1>2, RowsDropped DEF RowsOwned
<1>4. KeysRecorded(K)'
  BY <1>1 DEF KeysRecorded, LocksOf, AttemptsKept, Held, TypeOK
<1> QED
  BY <1>3, <1>4

\* A completion releases every row of its attempt; one that fails half-way
\* leaves the attempt unfinished.
LEMMA RowsCompletions ==
    ASSUME TypeOK, NEW K, RowsInv(K), NEW w \in Workers,
           \/ \E result \in Results : Complete(w, result) \/ CompleteLost(w, result)
           \/ CompleteFails(w)
    PROVE  RowsInv(K)'
<1> USE DEF RowsInv
<1> DEFINE a == Held(w)
<1>1. /\ worker[w].pc = "executing"
      /\ worker' \in {[worker EXCEPT ![w] = [pc |-> "reconciling", attempt |-> 0]],
                      [worker EXCEPT ![w] = [pc |-> "idle", attempt |-> 0]]}
  BY DEF Complete, CompleteLost, CompleteFails, Completed
<1>2. \A v \in Workers : worker'[v].pc = "executing" =>
          worker'[v] = worker[v] /\ worker[v].pc = "executing"
  BY <1>1 DEF TypeOK
<1>3. /\ a \in DOMAIN attempts /\ attempts[a] \in Attempt
      /\ attempts[a].keys = LocksOf(K, a)
  BY <1>1, AttemptFacts DEF KeysRecorded, TypeOK, Held
<1>4. ASSUME NEW result \in Results, Completed(w, result)
      PROVE  RowsInv(K)'
  <2>1. /\ AttemptsKept
        /\ attempts' = [attempts EXCEPT ![a] =
                          [attempts[a] EXCEPT !.status = result, !.lease = NoLease]]
        /\ locks' = Release(locks, KeySet(attempts[a].keys), a)
    BY <1>4, CompletedAttempt DEF Completed
  <2>2. /\ \A b \in DOMAIN attempts : attempts'[b].keys = attempts[b].keys
        /\ \A b \in DOMAIN attempts \ {a} : attempts'[b] = attempts[b]
    BY <1>3, <2>1 DEF Attempt
  <2>3. ASSUME NEW k \in Keys, locks'[k].owner # 0
        PROVE  locks'[k] = locks[k] /\ locks[k].owner # a
    BY <1>3, <2>1, <2>3 DEF RowsOwned, Release, NoRow, TypeOK
  <2>4. RowsOwned(K)'
    <3>1. \A k \in Keys : locks'[k].owner \in {0, locks[k].owner}
      BY <2>3
    <3>2. \A k \in Keys : locks'[k].owner # 0 =>
              attempts'[locks[k].owner].status \notin Finished
      BY <2>2, <2>3 DEF RowsOwned
    <3> QED
      BY <2>1, <3>1, <3>2, RowsDropped
  <2>5. KeysRecorded(K)'
    <3>1. attempts'[a].keys = LocksOf(K, a)
      BY <1>3, <2>2
    <3>2. \A b \in DOMAIN attempts : LocksOf(K, b)' = LocksOf(K, b)
      BY <2>1 DEF AttemptsKept, LocksOf
    <3>3. \A v \in Workers : worker'[v].pc = "executing" =>
              Held(v)' = Held(v) /\ Held(v) \in DOMAIN attempts
      BY <1>2 DEF Held, TypeOK
    <3>4. \A v \in Workers : worker'[v].pc = "executing" =>
              attempts'[Held(v)'].keys = LocksOf(K, Held(v))'
      BY <1>2, <2>1, <2>2, <3>3 DEF KeysRecorded, LocksOf, AttemptsKept
    <3> QED
      BY <2>1, <2>2, <3>1, <3>2, <3>4 DEF KeysRecorded, AttemptsKept
  <2> QED
    BY <2>4, <2>5
<1>5. CASE CompleteFails(w)
  <2>1. attempts' = attempts
    BY <1>5 DEF CompleteFails
  <2>2. \A k \in Keys : locks'[k].owner \in {0, locks[k].owner}
    BY <1>5 DEF CompleteFails, Release, NoRow, TypeOK
  <2>3. RowsOwned(K)'
    BY <2>1, <2>2, RowsDropped DEF RowsOwned, AttemptsKept
  <2>4. KeysRecorded(K)'
    BY <1>2, <2>1 DEF KeysRecorded, LocksOf, Held
  <2> QED
    BY <2>3, <2>4
<1> QED
  BY <1>4, <1>5 DEF Complete, CompleteLost

\* Recovery drops rows and makes attempts pending.
LEMMA RowsRecoveries ==
    ASSUME TypeOK, NEW K, RowsInv(K), RecoverStuckRuns \/ RecoverFails
    PROVE  RowsInv(K)'
<1> USE DEF RowsInv
<1>1. /\ AttemptsKept /\ worker' = worker
      /\ \A b \in DOMAIN attempts : /\ attempts'[b].keys = attempts[b].keys
                                    /\ attempts'[b].status \in {"pending", attempts[b].status}
  <2>1. CASE RecoverStuckRuns
    BY <2>1, RecoveredAttempts DEF RecoverStuckRuns
  <2>2. CASE RecoverFails
    BY <2>2 DEF RecoverFails, AttemptsKept
  <2> QED
    BY <2>1, <2>2
<1>2. \A k \in Keys : locks'[k].owner \in {0, locks[k].owner}
  <2>1. \A k \in Keys : locks'[k] \in {NoRow, locks[k]}
    BY DEF RecoverStuckRuns, RecoverFails
  <2> QED
    BY <2>1 DEF NoRow
<1>3. RowsOwned(K)'
  BY <1>1, <1>2, RowsDropped DEF RowsOwned, Finished
<1>4. KeysRecorded(K)'
  BY <1>1 DEF KeysRecorded, LocksOf, AttemptsKept, Held, TypeOK
<1> QED
  BY <1>3, <1>4

\* Reconciliation adds attempts that have recorded nothing.
LEMMA RowsReconciles ==
    ASSUME TypeOK, NEW K, RowsInv(K), NEW scope \in SUBSET Issues,
           Reconcile(scope) \/ ReconcileFails(scope),
           \A v \in Workers : worker'[v].pc = "executing" => worker'[v] = worker[v]
    PROVE  RowsInv(K)'
<1> USE DEF RowsInv
<1>1. locks' = locks
  BY DEF Reconcile, ReconcileFails
<1>2. /\ DOMAIN attempts \subseteq DOMAIN attempts'
      /\ \A a \in DOMAIN attempts : attempts'[a] = attempts[a]
      /\ \A a \in DOMAIN attempts' \ DOMAIN attempts :
            attempts'[a].keys = << >> /\ attempts'[a].status = "pending"
  <2>1. CASE Reconcile(scope)
    <3>1. PICK new \in Seq(Attempt) : attempts' = attempts \o new /\ Fresh(new)
      BY <2>1, ReconcileQueues
    <3>2. \A a \in DOMAIN attempts' \ DOMAIN attempts :
              attempts'[a].keys = << >> /\ attempts'[a].status = "pending"
      BY <3>1, AppendedAttempts DEF Fresh, NewAttempt
    <3> QED
      BY <3>1, <3>2, AppendedAttempts
  <2>2. CASE ReconcileFails(scope)
    BY <2>2 DEF ReconcileFails
  <2> QED
    BY <2>1, <2>2
<1>3. RowsOwned(K)'
  BY <1>1, <1>2 DEF RowsOwned, LocksOf
<1>4. KeysRecorded(K)'
  <2>1. \A v \in Workers : worker'[v].pc = "executing" =>
            Held(v)' \in DOMAIN attempts /\ Held(v)' = Held(v) /\ worker[v].pc = "executing"
    BY DEF Held, TypeOK
  <2> QED
    BY <1>2, <2>1 DEF KeysRecorded, LocksOf
<1> QED
  BY <1>3, <1>4

\* Every step keeps the rows in order.
LEMMA RowsNext ==
    ASSUME TypeOK, NEW K, RowsInv(K), RunLocks(K), [Next]_vars
    PROVE  RowsInv(K)'
<1>1. ASSUME NEW scope \in Scopes, OperatorReconcile(scope)
      PROVE  RowsInv(K)'
  <2>1. scope \in SUBSET Issues
    BY DEF Scopes
  <2> QED
    BY <1>1, <2>1, RowsReconciles DEF OperatorReconcile
<1>2. ASSUME NEW w \in Workers, WorkerReconcile(w)
      PROVE  RowsInv(K)'
  <2>1. \A v \in Workers : worker'[v].pc = "executing" => worker'[v] = worker[v]
    BY <1>2 DEF WorkerReconcile, TypeOK
  <2> QED
    BY <1>2, <2>1, RowsReconciles DEF WorkerReconcile
<1>3. ASSUME UNCHANGED <<attempts, locks>>,
             \A v \in Workers : worker'[v].pc = "executing" => worker'[v] = worker[v]
      PROVE  RowsInv(K)'
  BY <1>3 DEF RowsInv, RowsOwned, KeysRecorded, LocksOf, Held
<1>4. ASSUME NEW w \in Workers, Crash(w)
      PROVE  RowsInv(K)'
  <2>1. \A v \in Workers : worker'[v].pc = "executing" => worker'[v] = worker[v]
    BY <1>4 DEF Crash, TypeOK
  <2> QED
    BY <1>3, <1>4, <2>1 DEF Crash
<1>5. ASSUME \/ UNCHANGED vars
             \/ \E i \in Issues : Request(i) \/ Approve(i)
             \/ \E c \in Clients :
                   \/ \E i \in Issues \cup {NoIssue} : ListIssues(c, i)
                   \/ EnqueueFromGitLab(c)
                   \/ EnsureRunForIssue(c)
                   \/ \E plan \in Plans : PersistPipelineArtifacts(c, plan)
                   \/ MaterializeFails(c)
             \/ Tick
      PROVE  RowsInv(K)'
  BY <1>3, <1>5 DEF vars, Request, Approve, ListIssues, EnqueueFromGitLab,
                    EnsureRunForIssue, PersistPipelineArtifacts, MaterializeFails, Tick
<1> QED
  BY <1>1, <1>2, <1>4, <1>5, RowsClaims, RowsHeartbeats, RowsCompletions, RowsRecoveries
  DEF Next

\* If the locks a stage needs do not change during a run, no row of the lock
\* table belongs to a finished attempt, whichever claims, heartbeats, completions
\* and recoveries fail half-way, and even if workers outlive their leases: the
\* rows left by an unsaved claim are among those that completion releases.
THEOREM FinishedRelease ==
    ASSUME NEW K
    PROVE  Spec /\ []RunLocks(K) => []FinishedOwnNoLocks
<1>1. Init => RowsInv(K)
  BY RowsInit
<1>2. TypeOK /\ RunLocks(K) /\ RowsInv(K) /\ [Next]_vars => RowsInv(K)'
  BY RowsNext
<1>3. RowsInv(K) => FinishedOwnNoLocks
  BY DEF RowsInv, RowsOwned, FinishedOwnNoLocks
<1> QED
  BY <1>1, <1>2, <1>3, TypeCorrect, PTL DEF Spec

-----------------------------------------------------------------------------
(* One open run per issue.                                                 *)

\* All runs of an issue but the last are over.
EarlierRunsOver ==
    \A r, q \in DOMAIN runs :
        runs[r].issue = runs[q].issue /\ r < q => runStatusTerminal(runs[r].status)

\* Every step keeps the runs and their issues, what was granted, and that a run
\* has a plan.
LEMMA RunsStep ==
    ASSUME TypeOK, [Next]_vars
    PROVE  /\ DOMAIN runs \subseteq DOMAIN runs'
           /\ \A r \in DOMAIN runs : runs'[r].issue = runs[r].issue
           /\ granted \subseteq granted'
           /\ \A r \in 1 .. MaxRuns : journal[r] # NoPlan => journal'[r] # NoPlan
<1> DEFINE Kept == /\ DOMAIN runs \subseteq DOMAIN runs'
                   /\ \A r \in DOMAIN runs : runs'[r].issue = runs[r].issue
                   /\ granted \subseteq granted'
                   /\ \A r \in 1 .. MaxRuns : journal[r] # NoPlan => journal'[r] # NoPlan
<1>1. ASSUME UNCHANGED <<runs, granted, journal>> PROVE Kept
  BY <1>1
<1>2. ASSUME NEW scope \in SUBSET Issues, Reconcile(scope) \/ ReconcileFails(scope)
      PROVE  Kept
  <2>1. CASE Reconcile(scope)
    BY <2>1, ReconcileStatuses DEF Reconcile
  <2>2. CASE ReconcileFails(scope)
    BY <2>2 DEF ReconcileFails
  <2> QED
    BY <1>2, <2>1, <2>2
<1>3. ASSUME NEW scope \in Scopes, OperatorReconcile(scope)
      PROVE  Kept
  <2>1. scope \in SUBSET Issues
    BY DEF Scopes
  <2> QED
    BY <1>2, <1>3, <2>1 DEF OperatorReconcile
<1>4. ASSUME NEW w \in Workers, WorkerReconcile(w)
      PROVE  Kept
  BY <1>2, <1>4 DEF WorkerReconcile
<1>5. ASSUME NEW c \in Clients, EnsureRunForIssue(c)
      PROVE  Kept
  <2> DEFINE e == [issue |-> client[c].issue, status |-> "pending"]
  <2>1. UNCHANGED <<granted, journal>>
    BY <1>5 DEF EnsureRunForIssue
  <2>2. /\ runs' \in {runs, Append(runs, e)}
        /\ e \in [issue : Issues, status : RunStatuses]
    BY <1>5 DEF EnsureRunForIssue, TypeOK, RunStatuses
  <2> HIDE DEF e
  <2>3. DOMAIN runs = 1 .. Len(runs) /\ Len(runs) \in Nat
    BY LenProperties DEF TypeOK
  <2>4. CASE runs' = Append(runs, e)
    <3>1. /\ DOMAIN Append(runs, e) = 1 .. Len(runs) + 1
          /\ \A r \in 1 .. Len(runs) : Append(runs, e)[r] = runs[r]
      BY <2>2, <2>3 DEF TypeOK
    <3> QED
      BY <2>1, <2>3, <2>4, <3>1
  <2> QED
    BY <2>1, <2>2, <2>4
<1>6. ASSUME NEW a \in DOMAIN attempts, NEW plan \in ReportedPlans(a),
             journal' = [journal EXCEPT ![attempts[a].run] = plan],
             UNCHANGED <<runs, granted>>
      PROVE  Kept
  <2>1. plan = journal[attempts[a].run] \/ plan \in Plans
    BY DEF ReportedPlans
  <2> QED
    BY <1>6, <2>1, ConstantsAssumption DEF TypeOK, ConstantsAssumption
<1>7. ASSUME NEW w \in Workers,
             \/ \E result \in Results : Complete(w, result) \/ CompleteLost(w, result)
             \/ CompleteFails(w)
      PROVE  Kept
  <2>1. /\ UNCHANGED <<runs, granted>> /\ worker[w].pc = "executing"
        /\ \E plan \in ReportedPlans(Held(w)) :
              journal' = [journal EXCEPT ![attempts[Held(w)].run] = plan]
    BY <1>7 DEF Complete, CompleteLost, CompleteFails, Completed
  <2>2. Held(w) \in DOMAIN attempts
    BY <2>1 DEF TypeOK, Held
  <2> QED
    BY <1>6, <2>1, <2>2
<1>8. ASSUME NEW c \in Clients, NEW plan \in Plans, PersistPipelineArtifacts(c, plan)
      PROVE  Kept
  BY <1>8, ConstantsAssumption DEF PersistPipelineArtifacts, TypeOK, ConstantsAssumption
<1>9. ASSUME NEW i \in Issues, Request(i) \/ Approve(i)
      PROVE  Kept
  BY <1>9 DEF Request, Approve
<1>10. ASSUME \/ UNCHANGED vars
              \/ \E c \in Clients :
                    \/ \E i \in Issues \cup {NoIssue} : ListIssues(c, i)
                    \/ EnqueueFromGitLab(c)
                    \/ MaterializeFails(c)
              \/ \E w \in Workers : \/ Claim(w) \/ ClaimLost(w) \/ ClaimUnsaved(w)
                                    \/ ClaimNothing(w) \/ Heartbeat(w)
                                    \/ HeartbeatFails(w) \/ Crash(w)
              \/ RecoverStuckRuns \/ RecoverFails \/ Tick
       PROVE  Kept
  BY <1>1, <1>10 DEF vars, ListIssues, EnqueueFromGitLab, MaterializeFails, Claim, ClaimLost,
                     ClaimUnsaved, ClaimNothing, Heartbeat, HeartbeatFails, Crash,
                     RecoverStuckRuns, RecoverFails, Tick
<1> HIDE DEF Kept
<1>11. Kept
  BY <1>3, <1>4, <1>5, <1>7, <1>8, <1>9, <1>10 DEF Next
<1> QED
  BY <1>11 DEF Kept

\* A run is ensured only when the issue's last run is over, and reconciliation
\* changes the status of no other.
LEMMA EarlierRunsNext == TypeOK /\ EarlierRunsOver /\ [Next]_vars => EarlierRunsOver'
<1> SUFFICES ASSUME TypeOK, EarlierRunsOver, [Next]_vars
             PROVE  EarlierRunsOver'
  OBVIOUS
<1>1. DOMAIN runs = 1 .. Len(runs) /\ Len(runs) \in Nat
  BY LenProperties DEF TypeOK
<1>2. ASSUME UNCHANGED runs PROVE EarlierRunsOver'
  BY <1>2 DEF EarlierRunsOver, runStatusTerminal
<1>3. ASSUME NEW scope \in SUBSET Issues, Reconcile(scope) \/ ReconcileFails(scope)
      PROVE  EarlierRunsOver'
  <2>1. CASE Reconcile(scope)
    <3> SUFFICES ASSUME NEW r \in DOMAIN runs, NEW q \in DOMAIN runs,
                        runs[r].issue = runs[q].issue, r < q
                 PROVE  runs'[r] = runs[r]
      BY <2>1, ReconcileStatuses DEF EarlierRunsOver, runStatusTerminal
    <3>1. runs[r].issue \in Issues
      <4>1. runs[r] \in [issue : Issues, status : RunStatuses]
        BY <1>1, ElementOfSeq DEF TypeOK
      <4> QED
        BY <4>1
    <3>2. q <= latestRun(runs[r].issue) /\ latestRun(runs[r].issue) \in DOMAIN runs
      BY <3>1, LatestRun DEF TypeOK
    <3>3. r # latestRun(runs[r].issue)
      BY <1>1, <3>2
    <3> QED
      BY <2>1, <3>3, ReconcileStatuses
  <2>2. CASE ReconcileFails(scope)
    BY <1>2, <2>2 DEF ReconcileFails
  <2> QED
    BY <1>3, <2>1, <2>2
<1>4. ASSUME NEW scope \in Scopes, OperatorReconcile(scope)
      PROVE  EarlierRunsOver'
  <2>1. scope \in SUBSET Issues
    BY DEF Scopes
  <2> QED
    BY <1>3, <1>4, <2>1 DEF OperatorReconcile
<1>5. ASSUME NEW w \in Workers, WorkerReconcile(w)
      PROVE  EarlierRunsOver'
  BY <1>3, <1>5 DEF WorkerReconcile
<1>6. ASSUME NEW c \in Clients, EnsureRunForIssue(c)
      PROVE  EarlierRunsOver'
  <2> DEFINE i      == client[c].issue
             latest == latestRun(i)
             reuse  == latest # 0 /\ ~runStatusTerminal(runs[latest].status)
             e      == [issue |-> i, status |-> "pending"]
  <2>1. i \in Issues
    BY <1>6 DEF TypeOK, EnsureRunForIssue
  <2>2. CASE reuse
    BY <1>2, <1>6, <2>2 DEF EnsureRunForIssue
  <2>3. CASE ~reuse
    <3>1. runs' = Append(runs, e)
      BY <1>6, <2>3 DEF EnsureRunForIssue
    <3>2. /\ DOMAIN runs' = 1 .. Len(runs) + 1
          /\ \A r \in DOMAIN runs : runs'[r] = runs[r]
          /\ runs'[Len(runs) + 1] = e
      BY <1>1, <3>1 DEF TypeOK
    <3>3. ASSUME NEW r \in DOMAIN runs, runs[r].issue = i
          PROVE  runStatusTerminal(runs[r].status)
      <4>1. latest \in DOMAIN runs /\ runs[latest].issue = i /\ r <= latest
        BY <1>1, <2>1, <3>3, LatestRun DEF TypeOK
      <4>2. runStatusTerminal(runs[latest].status)
        BY <1>1, <2>3, <4>1
      <4> QED
        BY <1>1, <3>3, <4>1, <4>2 DEF EarlierRunsOver
    <3> SUFFICES ASSUME NEW r \in DOMAIN runs', NEW q \in DOMAIN runs',
                        runs'[r].issue = runs'[q].issue, r < q
                 PROVE  runStatusTerminal(runs'[r].status)
      BY DEF EarlierRunsOver, runStatusTerminal
    <3>4. r \in DOMAIN runs
      BY <1>1, <3>2
    <3>5. CASE q \in DOMAIN runs
      BY <3>2, <3>4, <3>5 DEF EarlierRunsOver
    <3>6. CASE q = Len(runs) + 1
      BY <3>2, <3>3, <3>4, <3>6
    <3> QED
      BY <1>1, <3>2, <3>5, <3>6
  <2> QED
    BY <2>2, <2>3
<1>7. ASSUME \/ UNCHANGED vars
             \/ \E i \in Issues : Request(i) \/ Approve(i)
             \/ \E c \in Clients :
                   \/ \E i \in Issues \cup {NoIssue} : ListIssues(c, i)
                   \/ EnqueueFromGitLab(c)
                   \/ \E plan \in Plans : PersistPipelineArtifacts(c, plan)
                   \/ MaterializeFails(c)
             \/ \E w \in Workers :
                   \/ Claim(w) \/ ClaimLost(w) \/ ClaimUnsaved(w) \/ ClaimNothing(w)
                   \/ Heartbeat(w) \/ HeartbeatFails(w)
                   \/ \E result \in Results : Complete(w, result) \/ CompleteLost(w, result)
                   \/ CompleteFails(w) \/ Crash(w)
             \/ RecoverStuckRuns \/ RecoverFails \/ Tick
      PROVE  EarlierRunsOver'
  BY <1>2, <1>7 DEF vars, Request, Approve, ListIssues, EnqueueFromGitLab,
                    PersistPipelineArtifacts, MaterializeFails, Claim, ClaimLost,
                    ClaimUnsaved, ClaimNothing, Heartbeat, HeartbeatFails, Complete,
                    CompleteLost, CompleteFails, Crash, RecoverStuckRuns, RecoverFails, Tick
<1> QED
  BY <1>4, <1>5, <1>6, <1>7 DEF Next

\* However many requests ensure a run for an issue, and whatever reconciliation,
\* failures included, does in between, at most one of its runs is pending or
\* active: all but the last are over, and stay so.
THEOREM RunsAreSerial == Spec => []OneOpenRun
<1>1. Init => EarlierRunsOver
  BY DEF Init, EarlierRunsOver
<1>2. TypeOK /\ EarlierRunsOver => OneOpenRun
  <2>1. ASSUME TypeOK PROVE DOMAIN runs = 1 .. Len(runs) /\ Len(runs) \in Nat
    BY <2>1, LenProperties DEF TypeOK
  <2> QED
    BY <2>1 DEF EarlierRunsOver, OneOpenRun, runStatusTerminal
<1> QED
  BY <1>1, <1>2, EarlierRunsNext, TypeCorrect, PTL DEF Spec

-----------------------------------------------------------------------------
(* What reconciliation queues.                                             *)

\* Evaluate queues a stage by itself only when isReady says so.
LEMMA EvaluateReady ==
    ASSUME NEW plan, NEW byStage, NEW approved, NEW s
    PROVE  /\ s \in Evaluate(plan, byStage, approved).triggered => ~plan[s].auto
           /\ s \in Evaluate(plan, byStage, approved).runnable =>
                 isReady(plan, s, byStage, approved)
  BY DEF Evaluate

\* Evaluate completes a run only on a completion checkpoint that has succeeded.
LEMMA EvaluateCompletes ==
    ASSUME NEW plan, NEW byStage, NEW approved,
           Evaluate(plan, byStage, approved).status = "completed"
    PROVE  \E s \in DOMAIN plan : /\ Has(byStage, s, "succeeded")
                                  /\ plan[s].checkpoint = "completed"
  BY DEF Evaluate

\* With one attempt per stage, AttemptsByStage shows that attempt's status.
LEMMA ByStageShows ==
    ASSUME TypeOK, UniqueAttempts, NEW r, NEW s, NEW status,
           Has(AttemptsByStage(r), s, status)
    PROVE  \E a \in AttemptsOf(r, s) : attempts[a].status = status
<1> DEFINE highest == CHOOSE a \in AttemptsOf(r, s) :
               \A b \in AttemptsOf(r, s) : attempts[b].attempt <= attempts[a].attempt
<1>1. /\ AttemptsOf(r, s) # {} /\ s \in Stages
      /\ AttemptsByStage(r)[s] = attempts[highest].status
      /\ AttemptsByStage(r)[s] = status
  BY DEF Has, AttemptsByStage
<1>2. PICK a : a \in AttemptsOf(r, s)
  BY <1>1
<1>3. \A b \in AttemptsOf(r, s) : b = a
  BY <1>2 DEF AttemptsOf, UniqueAttempts
<1>4. attempts[a].attempt <= attempts[a].attempt
  <2>1. attempts[a].attempt \in Nat
    BY <1>2, AttemptFacts DEF AttemptsOf, Attempt
  <2> QED
    BY <2>1
<1>5. highest \in AttemptsOf(r, s)
  <2>1. \E x \in AttemptsOf(r, s) :
            \A b \in AttemptsOf(r, s) : attempts[b].attempt <= attempts[x].attempt
    BY <1>2, <1>3, <1>4
  <2> QED
    BY <2>1
<1> QED
  BY <1>1, <1>5

\* The stages of a run keep their queue mode, their approval and their
\* dependencies, F, whichever plan of the run is in the journal.
RunStages(F) ==
    \A r \in 1 .. MaxRuns : journal[r] # NoPlan =>
        \A s \in DOMAIN journal[r] :
            /\ journal[r][s].auto = F[r][s].auto
            /\ journal[r][s].approval = F[r][s].approval
            /\ journal[r][s].deps = F[r][s].deps

\* A stage that is queued by itself has its approval and its dependencies.
LEMMA QueuedReady ==
    ASSUME TypeOK, NEW F, RunStages(F), NEW r, NEW s, Queued(r, s), F[r][s].auto
    PROVE  /\ r \in DOMAIN runs
           /\ F[r][s].approval => Approved(runs[r].issue) /\ runs[r].issue \in Issues
           /\ \A d \in F[r][s].deps : Has(AttemptsByStage(r), d, "succeeded")
<1>1. PICK i \in Issues : /\ Scheduled(i) /\ PlanOf(i) # NoPlan
                          /\ r = latestRun(i)
                          /\ s \in ToQueue(i, AttemptsByStage(r))
  BY DEF Queued
<1>2. r \in DOMAIN runs /\ runs[r].issue = i /\ r \in 1 .. MaxRuns
  <2>1. r \in DOMAIN runs /\ runs[r].issue = i
    BY <1>1, LatestRun DEF Scheduled, TypeOK
  <2> QED
    BY <2>1, LenProperties, ConstantsAssumption DEF TypeOK, ConstantsAssumption
<1> DEFINE plan    == journal[r]
           byStage == AttemptsByStage(r)
           eval    == Evaluate(plan, byStage, Approved(i))
<1>3. s \in eval.triggered \/ s \in eval.runnable
  BY <1>1 DEF ToQueue, PlanOf
<1>4. s \in DOMAIN plan
  BY <1>3, EvaluateQueues
<1>5. plan # NoPlan
  BY <1>1 DEF PlanOf
<1>6. /\ plan[s].auto = F[r][s].auto /\ plan[s].approval = F[r][s].approval
      /\ plan[s].deps = F[r][s].deps
  BY <1>2, <1>4, <1>5 DEF RunStages
<1>7. isReady(plan, s, byStage, Approved(i))
  BY <1>3, <1>6, EvaluateReady
<1> QED
  BY <1>2, <1>6, <1>7 DEF isReady

-----------------------------------------------------------------------------
(* Approval.                                                               *)

\* Wherever the approval of an issue is noted, somebody gave it.
ApprovalsGranted ==
    /\ \A i \in Issues : "approved" \in gitlab[i] => i \in granted
    /\ \A c \in Clients : \A i \in Issues : "approved" \in client[c].list[i] => i \in granted
    /\ \A i \in Issues : Approved(i) => i \in granted

\* Labels travel from GitLab through listings into the state file, and
\* reconciliation only removes them.
LEMMA ApprovalsNext == TypeOK /\ ApprovalsGranted /\ [Next]_vars => ApprovalsGranted'
<1> SUFFICES ASSUME TypeOK, ApprovalsGranted, [Next]_vars
             PROVE  ApprovalsGranted'
  OBVIOUS
<1>1. ASSUME UNCHANGED <<gitlab, issues, client, granted>> PROVE ApprovalsGranted'
  BY <1>1 DEF ApprovalsGranted, Approved
<1>2. ASSUME NEW scope \in SUBSET Issues, Reconcile(scope) \/ ReconcileFails(scope)
      PROVE  ApprovalsGranted'
  <2>1. CASE Reconcile(scope)
    <3>1. UNCHANGED <<client, granted>>
      BY <2>1 DEF Reconcile
    <3> QED
      BY <2>1, <3>1, ReconcileStatuses DEF ApprovalsGranted, Approved
  <2>2. CASE ReconcileFails(scope)
    <3>1. UNCHANGED <<issues, client, granted>>
      BY <2>2 DEF ReconcileFails
    <3>2. \A i \in Issues : "approved" \in gitlab'[i] => "approved" \in gitlab[i]
      BY <2>2, FailedRelabels, RelabelDrops
    <3> QED
      BY <3>1, <3>2 DEF ApprovalsGranted, Approved
  <2> QED
    BY <1>2, <2>1, <2>2
<1>3. ASSUME NEW scope \in Scopes, OperatorReconcile(scope)
      PROVE  ApprovalsGranted'
  <2>1. scope \in SUBSET Issues
    BY DEF Scopes
  <2> QED
    BY <1>2, <1>3, <2>1 DEF OperatorReconcile
<1>4. ASSUME NEW w \in Workers, WorkerReconcile(w)
      PROVE  ApprovalsGranted'
  BY <1>2, <1>4 DEF WorkerReconcile
<1>5. ASSUME NEW i \in Issues, Request(i)
      PROVE  ApprovalsGranted'
  <2>1. UNCHANGED <<issues, client, granted>>
    BY <1>5 DEF Request
  <2>2. \A j \in Issues : "approved" \in gitlab'[j] => "approved" \in gitlab[j]
    BY <1>5 DEF Request, TypeOK
  <2> QED
    BY <2>1, <2>2 DEF ApprovalsGranted, Approved
<1>6. ASSUME NEW i \in Issues, Approve(i)
      PROVE  ApprovalsGranted'
  <2>1. UNCHANGED <<issues, client>> /\ granted' = granted \cup {i}
    BY <1>6 DEF Approve
  <2>2. \A j \in Issues : "approved" \in gitlab'[j] => "approved" \in gitlab[j] \/ j = i
    BY <1>6 DEF Approve, TypeOK
  <2> QED
    BY <2>1, <2>2 DEF ApprovalsGranted, Approved
<1>7. ASSUME NEW c \in Clients, NEW i \in Issues \cup {NoIssue}, ListIssues(c, i)
      PROVE  ApprovalsGranted'
  <2>1. UNCHANGED <<gitlab, issues, granted>>
    BY <1>7 DEF ListIssues
  <2>2. \A d \in Clients : client'[d].list = client[d].list \/ client'[d].list = gitlab
    BY <1>7 DEF ListIssues, TypeOK
  <2> QED
    BY <2>1, <2>2 DEF ApprovalsGranted, Approved
<1>8. ASSUME NEW c \in Clients,
             UNCHANGED <<gitlab, issues, granted>>,
             \A d \in Clients : \/ client'[d].list = client[d].list
                                \/ client'[d].list = [i \in Issues |-> {}]
      PROVE  ApprovalsGranted'
  BY <1>8 DEF ApprovalsGranted, Approved
<1>9. ASSUME NEW c \in Clients, EnqueueFromGitLab(c)
      PROVE  ApprovalsGranted'
  <2>1. UNCHANGED <<gitlab, granted>>
    BY <1>9 DEF EnqueueFromGitLab
  <2>2. \A i \in Issues : Approved(i)' => Approved(i) \/ "approved" \in client[c].list[i]
    BY <1>9 DEF EnqueueFromGitLab, Approved
  <2>3. \A d \in Clients : \/ client'[d].list = client[d].list
                           \/ client'[d].list = [i \in Issues |-> {}]
    <3>1. client[c] \in ClientState
      BY DEF TypeOK
    <3> QED
      BY <1>9, <3>1 DEF EnqueueFromGitLab, TypeOK, IdleClient, ClientState
  <2> QED
    BY <2>1, <2>2, <2>3 DEF ApprovalsGranted
<1>10. ASSUME NEW c \in Clients,
              \/ EnsureRunForIssue(c)
              \/ \E plan \in Plans : PersistPipelineArtifacts(c, plan)
              \/ MaterializeFails(c)
       PROVE  ApprovalsGranted'
  <2>1. UNCHANGED <<gitlab, issues, granted>>
    BY <1>10 DEF EnsureRunForIssue, PersistPipelineArtifacts, MaterializeFails
  <2>2. \A d \in Clients : \/ client'[d].list = client[d].list
                           \/ client'[d].list = [i \in Issues |-> {}]
    <3>1. client[c] \in ClientState
      BY DEF TypeOK
    <3>2. CASE EnsureRunForIssue(c)
      <4>1. PICK run : client' = [client EXCEPT ![c].pc = "ensured", ![c].run = run]
        BY <3>2 DEF EnsureRunForIssue
      <4> QED
        BY <3>1, <4>1 DEF TypeOK, ClientState
    <3>3. CASE (\E plan \in Plans : PersistPipelineArtifacts(c, plan)) \/ MaterializeFails(c)
      <4>1. client' = [client EXCEPT ![c] = IdleClient]
        BY <3>3 DEF PersistPipelineArtifacts, MaterializeFails
      <4>2. IdleClient.list = [i \in Issues |-> {}]
        BY DEF IdleClient
      <4> QED
        BY <4>1, <4>2 DEF TypeOK
    <3> QED
      BY <1>10, <3>2, <3>3
  <2> QED
    BY <1>8, <2>1, <2>2
<1>11. ASSUME \/ UNCHANGED vars
              \/ \E w \in Workers :
                    \/ Claim(w) \/ ClaimLost(w) \/ ClaimUnsaved(w) \/ ClaimNothing(w)
                    \/ Heartbeat(w) \/ HeartbeatFails(w)
                    \/ \E result \in Results : Complete(w, result) \/ CompleteLost(w, result)
                    \/ CompleteFails(w) \/ Crash(w)
              \/ RecoverStuckRuns \/ RecoverFails \/ Tick
       PROVE  ApprovalsGranted'
  BY <1>1, <1>11 DEF vars, Claim, ClaimLost, ClaimUnsaved, ClaimNothing, Heartbeat,
                     HeartbeatFails, Complete, CompleteLost, CompleteFails, Crash,
                     RecoverStuckRuns, RecoverFails, Tick
<1> QED
  BY <1>3, <1>4, <1>5, <1>6, <1>7, <1>9, <1>10, <1>11 DEF Next

\* An attempt of a stage that requires approval belongs to an approved issue.
QueuedApproved(F) ==
    \A a \in DOMAIN attempts :
        LET spec == F[attempts[a].run][attempts[a].stage]
        IN  spec.auto /\ spec.approval => runs[attempts[a].run].issue \in granted

\* Reconciliation reads the approval that ApprovalsGranted is about.
LEMMA QueuedApprovedNext ==
    ASSUME TypeOK, ApprovalsGranted, NEW F, RunStages(F), QueuedApproved(F), [Next]_vars
    PROVE  QueuedApproved(F)'
<1>1. /\ \A r \in DOMAIN runs : runs'[r].issue = runs[r].issue
      /\ granted \subseteq granted'
  BY RunsStep
<1>2. CASE AttemptsKept
  BY <1>1, <1>2 DEF AttemptsKept, QueuedApproved, TypeOK
<1>3. CASE \E new \in Seq(Attempt) : attempts' = attempts \o new /\ Fresh(new)
  <2>1. PICK new \in Seq(Attempt) : attempts' = attempts \o new /\ Fresh(new)
    BY <1>3
  <2> SUFFICES ASSUME NEW a \in DOMAIN attempts',
                      F[attempts'[a].run][attempts'[a].stage].auto,
                      F[attempts'[a].run][attempts'[a].stage].approval
               PROVE  runs'[attempts'[a].run].issue \in granted'
    BY DEF QueuedApproved
  <2>2. CASE a \in DOMAIN attempts
    <3>1. attempts'[a] = attempts[a] /\ attempts[a].run \in DOMAIN runs
      BY <2>1, <2>2, AppendedAttempts DEF TypeOK
    <3> QED
      BY <1>1, <2>2, <3>1 DEF QueuedApproved
  <2>3. CASE a \notin DOMAIN attempts
    <3>1. Queued(attempts'[a].run, attempts'[a].stage)
      BY <2>1, <2>3, AppendedAttempts DEF Fresh
    <3>2. /\ attempts'[a].run \in DOMAIN runs
          /\ runs[attempts'[a].run].issue \in Issues
          /\ Approved(runs[attempts'[a].run].issue)
      BY <3>1, QueuedReady
    <3> QED
      BY <1>1, <3>2 DEF ApprovalsGranted
  <2> QED
    BY <2>2, <2>3
<1> QED
  BY <1>2, <1>3, AttemptsStep

\* A stage that requires approval is queued only for an issue that somebody
\* approved, however listings, enqueues, relabellings and reconciliations
\* interleave and fail.
THEOREM ApprovalsAreGiven ==
    ASSUME NEW F
    PROVE  Spec /\ []RunStages(F) => []ApprovalGiven
<1>1. Init => ApprovalsGranted /\ QueuedApproved(F)
  BY DEF Init, ApprovalsGranted, QueuedApproved, Approved, IdleClient
<1>2. TypeOK /\ RunStages(F) /\ ApprovalsGranted /\ QueuedApproved(F) /\ [Next]_vars
          => (ApprovalsGranted /\ QueuedApproved(F))'
  BY ApprovalsNext, QueuedApprovedNext
<1>3. TypeOK /\ RunStages(F) /\ QueuedApproved(F) => ApprovalGiven
  <2> SUFFICES ASSUME TypeOK, RunStages(F), QueuedApproved(F), NEW a \in DOMAIN attempts,
                      HasSpec(a), SpecOf(a).auto, SpecOf(a).approval
               PROVE  runs[attempts[a].run].issue \in granted
    BY DEF ApprovalGiven
  <2>1. attempts[a].run \in 1 .. MaxRuns
    BY AttemptFacts DEF Attempt
  <2> QED
    BY <2>1 DEF HasSpec, SpecOf, RunStages, QueuedApproved
<1> QED
  BY <1>1, <1>2, <1>3, TypeCorrect, PTL DEF Spec

-----------------------------------------------------------------------------
(* Dependencies.                                                           *)

\* The attempts of stages that are queued by themselves follow those they
\* depend on.
DependenciesDone(F) ==
    \A a \in DOMAIN attempts :
        LET spec == F[attempts[a].run][attempts[a].stage]
        IN  spec.auto => \A d \in spec.deps : Succeeded(attempts[a].run, d)

\* A stage that has succeeded stays so.
LEMMA SucceededStep ==
    ASSUME TypeOK, WorkerHoldsLease, [Next]_vars, NEW r, NEW s, Succeeded(r, s)
    PROVE  Succeeded(r, s)'
<1>1. PICK b \in AttemptsOf(r, s) : attempts[b].status = "succeeded"
  BY DEF Succeeded
<1>2. b \in DOMAIN attempts /\ attempts[b].status \in Finished
  BY <1>1 DEF AttemptsOf, Finished
<1>3. b \in DOMAIN attempts' /\ attempts'[b] = attempts[b]
  BY <1>2, FinishedStep
<1> QED
  BY <1>1, <1>3 DEF Succeeded, AttemptsOf

\* A stage is queued by itself only after its dependencies.
LEMMA DependenciesNext ==
    ASSUME TypeOK, WorkerHoldsLease, UniqueAttempts, NEW F, RunStages(F),
           DependenciesDone(F), [Next]_vars
    PROVE  DependenciesDone(F)'
<1>1. CASE AttemptsKept
  <2> SUFFICES ASSUME NEW a \in DOMAIN attempts, NEW r, NEW s,
                      r = attempts'[a].run, s = attempts'[a].stage,
                      F[r][s].auto, NEW d \in F[r][s].deps
               PROVE  Succeeded(r, d)'
    BY <1>1 DEF DependenciesDone, AttemptsKept
  <2>1. r = attempts[a].run /\ s = attempts[a].stage
    BY <1>1 DEF AttemptsKept
  <2>2. Succeeded(r, d)
    BY <2>1 DEF DependenciesDone
  <2> QED
    BY <2>2, SucceededStep
<1>2. CASE \E new \in Seq(Attempt) : attempts' = attempts \o new /\ Fresh(new)
  <2>1. PICK new \in Seq(Attempt) : attempts' = attempts \o new /\ Fresh(new)
    BY <1>2
  <2> SUFFICES ASSUME NEW a \in DOMAIN attempts', NEW r, NEW s,
                      r = attempts'[a].run, s = attempts'[a].stage,
                      F[r][s].auto, NEW d \in F[r][s].deps
               PROVE  Succeeded(r, d)'
    BY DEF DependenciesDone
  <2>2. CASE a \in DOMAIN attempts
    <3>1. r = attempts[a].run /\ s = attempts[a].stage
      BY <2>1, <2>2, AppendedAttempts
    <3>2. Succeeded(r, d)
      BY <2>2, <3>1 DEF DependenciesDone
    <3> QED
      BY <3>2, SucceededStep
  <2>3. CASE a \notin DOMAIN attempts
    <3>1. Queued(r, s)
      BY <2>1, <2>3, AppendedAttempts DEF Fresh
    <3>2. Has(AttemptsByStage(r), d, "succeeded")
      BY <3>1, QueuedReady
    <3>3. Succeeded(r, d)
      BY <3>2, ByStageShows DEF Succeeded
    <3> QED
      BY <3>3, SucceededStep
  <2> QED
    BY <2>2, <2>3
<1> QED
  BY <1>1, <1>2, AttemptsStep

\* The facts that the theorems on delivery share.
LEMMA DeliveryFacts ==
    ASSUME Timely, LocksStable
    PROVE  Spec => [](TypeOK /\ WorkerHoldsLease /\ UniqueAttempts)
  BY TypeCorrect, LeasesHeld, AttemptsAreUnique, PTL

\* As long as every worker renews its lease and a stage keeps its dependencies
\* during a run, every stage queued by itself comes after the stages it depends
\* on, and these stay succeeded.
THEOREM DependenciesComeFirst ==
    ASSUME Timely, LocksStable, NEW F
    PROVE  Spec /\ []RunStages(F) => []DependenciesSucceeded
<1>1. Init => DependenciesDone(F)
  BY DEF Init, DependenciesDone
<1>2. TypeOK /\ WorkerHoldsLease /\ UniqueAttempts /\ RunStages(F) /\ DependenciesDone(F)
          /\ [Next]_vars => DependenciesDone(F)'
  BY DependenciesNext
<1>3. TypeOK /\ RunStages(F) /\ DependenciesDone(F) => DependenciesSucceeded
  <2> SUFFICES ASSUME TypeOK, RunStages(F), DependenciesDone(F), NEW a \in DOMAIN attempts,
                      HasSpec(a), SpecOf(a).auto, NEW d \in SpecOf(a).deps
               PROVE  Succeeded(attempts[a].run, d)
    BY DEF DependenciesSucceeded
  <2>1. attempts[a].run \in 1 .. MaxRuns
    BY AttemptFacts DEF Attempt
  <2> QED
    BY <2>1 DEF HasSpec, SpecOf, RunStages, DependenciesDone
<1> QED
  BY <1>1, <1>2, <1>3, DeliveryFacts, PTL DEF Spec

-----------------------------------------------------------------------------
(* Completion.                                                             *)

\* A run has one plan, F[r], however often it is materialized.
RunPlan(F) == \A r \in 1 .. MaxRuns : journal[r] \in {NoPlan, F[r]}

\* Stages that are queued by themselves depend on stages of the plan that are
\* too; so is a stage whose success completes the run.  (The stages of a rollback
\* are triggered, and nothing else depends on them.)
WellBuilt(plan) ==
    \A s \in DOMAIN plan :
        /\ plan[s].auto => \A d \in plan[s].deps : d \in DOMAIN plan /\ plan[d].auto
        /\ plan[s].checkpoint = "completed" => plan[s].auto

\* A completed run has a plan, and a completion checkpoint that has succeeded.
CompletedChecked(F) ==
    \A r \in DOMAIN runs : runs[r].status = "completed" =>
        /\ journal[r] # NoPlan
        /\ \E s \in DOMAIN F[r] : F[r][s].checkpoint = "completed" /\ Succeeded(r, s)

\* Only reconciliation completes a run, on a checkpoint that it sees succeeded.
LEMMA ReconciledCompleted ==
    ASSUME TypeOK, UniqueAttempts, NEW F, RunPlan(F), NEW i \in Issues,
           Reconciled(i, "completed")
    PROVE  /\ journal[latestRun(i)] # NoPlan
           /\ \E s \in DOMAIN F[latestRun(i)] :
                 /\ F[latestRun(i)][s].checkpoint = "completed"
                 /\ Succeeded(latestRun(i), s)
<1> DEFINE r       == latestRun(i)
           byStage == AttemptsByStage(r)
           queue   == ToQueue(i, byStage)
           next    == [s \in DOMAIN byStage \cup queue |->
                         IF s \in queue THEN "pending" ELSE byStage[s]]
<1>1. /\ Scheduled(i) /\ PlanOf(i) # NoPlan
      /\ Evaluate(journal[r], next, Approved(i)).status = "completed"
  BY DEF Reconciled, ReconciledStatus, PlanOf
<1>2. r \in 1 .. MaxRuns
  <2>1. r \in DOMAIN runs
    BY <1>1, ScheduledRuns
  <2> QED
    BY <2>1, LenProperties, ConstantsAssumption DEF TypeOK, ConstantsAssumption
<1>3. journal[r] # NoPlan /\ journal[r] = F[r]
  BY <1>1, <1>2 DEF PlanOf, RunPlan
<1>4. PICK s \in DOMAIN journal[r] : /\ Has(next, s, "succeeded")
                                     /\ journal[r][s].checkpoint = "completed"
  <2> HIDE DEF next
  <2> QED
    BY <1>1, EvaluateCompletes
<1>5. Has(byStage, s, "succeeded")
  <2> HIDE DEF byStage, queue
  <2> QED
    BY <1>4 DEF Has
<1>6. Succeeded(r, s)
  BY <1>5, ByStageShows DEF Succeeded
<1> QED
  BY <1>3, <1>4, <1>6

\* A run that changes its status in a step is reconciled or new.
LEMMA StatusStep ==
    ASSUME TypeOK, [Next]_vars, NEW r \in DOMAIN runs', runs'[r].status = "completed"
    PROVE  /\ r \in DOMAIN runs
           /\ \/ runs[r].status = "completed"
              \/ /\ runs[r].issue \in Issues /\ r = latestRun(runs[r].issue)
                 /\ Reconciled(runs[r].issue, "completed")
<1> DEFINE Goal == /\ r \in DOMAIN runs
                   /\ \/ runs[r].status = "completed"
                      \/ /\ runs[r].issue \in Issues /\ r = latestRun(runs[r].issue)
                         /\ Reconciled(runs[r].issue, "completed")
<1>1. ASSUME UNCHANGED runs PROVE Goal
  BY <1>1
<1>2. ASSUME NEW scope \in SUBSET Issues, Reconcile(scope) \/ ReconcileFails(scope)
      PROVE  Goal
  <2>1. CASE Reconcile(scope)
    <3>1. r \in DOMAIN runs
      BY <2>1, ReconcileStatuses
    <3>2. runs[r].issue \in Issues
      <4>1. runs[r] \in [issue : Issues, status : RunStatuses]
        BY <3>1, LenProperties, ElementOfSeq DEF TypeOK
      <4> QED
        BY <4>1
    <3>3. \/ runs'[r] = runs[r]
          \/ /\ r = latestRun(runs[r].issue)
             /\ Reconciled(runs[r].issue, "completed")
      BY <2>1, <3>1, ReconcileStatuses
    <3> QED
      BY <3>1, <3>2, <3>3
  <2>2. CASE ReconcileFails(scope)
    BY <1>1, <2>2 DEF ReconcileFails
  <2> QED
    BY <1>2, <2>1, <2>2
<1>3. ASSUME NEW scope \in Scopes, OperatorReconcile(scope)
      PROVE  Goal
  <2>1. scope \in SUBSET Issues
    BY DEF Scopes
  <2> QED
    BY <1>2, <1>3, <2>1 DEF OperatorReconcile
<1>4. ASSUME NEW w \in Workers, WorkerReconcile(w)
      PROVE  Goal
  BY <1>2, <1>4 DEF WorkerReconcile
<1>5. ASSUME NEW c \in Clients, EnsureRunForIssue(c)
      PROVE  Goal
  <2> DEFINE e == [issue |-> client[c].issue, status |-> "pending"]
  <2>1. /\ runs' \in {runs, Append(runs, e)} /\ e.status = "pending"
        /\ e \in [issue : Issues, status : RunStatuses]
    BY <1>5 DEF EnsureRunForIssue, TypeOK, RunStatuses
  <2>2. DOMAIN runs = 1 .. Len(runs) /\ Len(runs) \in Nat
    BY LenProperties DEF TypeOK
  <2> HIDE DEF e
  <2>3. CASE runs' = Append(runs, e)
    <3>1. /\ DOMAIN Append(runs, e) = 1 .. Len(runs) + 1
          /\ \A q \in 1 .. Len(runs) : Append(runs, e)[q] = runs[q]
          /\ Append(runs, e)[Len(runs) + 1] = e
      BY <2>1, <2>2 DEF TypeOK
    <3>2. r # Len(runs) + 1
      BY <2>1, <2>3, <3>1
    <3> QED
      BY <2>2, <2>3, <3>1, <3>2
  <2> QED
    BY <1>1, <2>1, <2>3
<1>6. ASSUME \/ UNCHANGED vars
             \/ \E i \in Issues : Request(i) \/ Approve(i)
             \/ \E c \in Clients :
                   \/ \E i \in Issues \cup {NoIssue} : ListIssues(c, i)
                   \/ EnqueueFromGitLab(c)
                   \/ \E plan \in Plans : PersistPipelineArtifacts(c, plan)
                   \/ MaterializeFails(c)
             \/ \E w \in Workers :
                   \/ Claim(w) \/ ClaimLost(w) \/ ClaimUnsaved(w) \/ ClaimNothing(w)
                   \/ Heartbeat(w) \/ HeartbeatFails(w)
                   \/ \E result \in Results : Complete(w, result) \/ CompleteLost(w, result)
                   \/ CompleteFails(w) \/ Crash(w)
             \/ RecoverStuckRuns \/ RecoverFails \/ Tick
      PROVE  Goal
  BY <1>1, <1>6 DEF vars, Request, Approve, ListIssues, EnqueueFromGitLab,
                    PersistPipelineArtifacts, MaterializeFails, Claim, ClaimLost,
                    ClaimUnsaved, ClaimNothing, Heartbeat, HeartbeatFails, Complete,
                    CompleteLost, CompleteFails, Crash, RecoverStuckRuns, RecoverFails, Tick
<1> HIDE DEF Goal
<1>7. Goal
  BY <1>3, <1>4, <1>5, <1>6 DEF Next
<1> QED
  BY <1>7 DEF Goal

\* A run is completed with a checkpoint, and the checkpoint stays.
LEMMA CompletedNext ==
    ASSUME TypeOK, WorkerHoldsLease, UniqueAttempts, NEW F, RunPlan(F),
           CompletedChecked(F), [Next]_vars
    PROVE  CompletedChecked(F)'
<1> SUFFICES ASSUME NEW r \in DOMAIN runs', runs'[r].status = "completed"
             PROVE  /\ journal'[r] # NoPlan
                    /\ \E s \in DOMAIN F[r] : /\ F[r][s].checkpoint = "completed"
                                              /\ Succeeded(r, s)'
  BY DEF CompletedChecked
<1>1. /\ r \in DOMAIN runs /\ r \in 1 .. MaxRuns
      /\ \/ runs[r].status = "completed"
         \/ /\ runs[r].issue \in Issues /\ r = latestRun(runs[r].issue)
            /\ Reconciled(runs[r].issue, "completed")
  <2>1. DOMAIN runs \subseteq 1 .. MaxRuns
    BY LenProperties, ConstantsAssumption DEF TypeOK, ConstantsAssumption
  <2> QED
    BY <2>1, StatusStep
<1>2. /\ journal[r] # NoPlan
      /\ \E s \in DOMAIN F[r] : F[r][s].checkpoint = "completed" /\ Succeeded(r, s)
  BY <1>1, ReconciledCompleted DEF CompletedChecked
<1>3. PICK s \in DOMAIN F[r] : F[r][s].checkpoint = "completed" /\ Succeeded(r, s)
  BY <1>2
<1>4. Succeeded(r, s)'
  BY <1>3, SucceededStep
<1> QED
  BY <1>1, <1>2, <1>3, <1>4, RunsStep

\* As long as every worker renews its lease and the plan of a run is well built
\* and stays the same, a completed run has been delivered: a completion
\* checkpoint has succeeded, and everything it was built on, down to the first
\* stages of the plan, although Evaluate looks at the checkpoint alone.
THEOREM CompletedRunsAreDelivered ==
    ASSUME Timely, LocksStable, NEW F, \A r \in 1 .. MaxRuns : WellBuilt(F[r])
    PROVE  Spec /\ []RunPlan(F) => []CompletedIsDelivered
<1>1. Init => CompletedChecked(F)
  BY DEF Init, CompletedChecked
<1>2. TypeOK /\ WorkerHoldsLease /\ UniqueAttempts /\ RunPlan(F) /\ CompletedChecked(F)
          /\ [Next]_vars => CompletedChecked(F)'
  BY CompletedNext
<1>3. RunPlan(F) => RunStages(F)
  BY DEF RunPlan, RunStages
<1>4. Init => DependenciesDone(F)
  BY DEF Init, DependenciesDone
<1>5. TypeOK /\ WorkerHoldsLease /\ UniqueAttempts /\ RunStages(F) /\ DependenciesDone(F)
          /\ [Next]_vars => DependenciesDone(F)'
  BY DependenciesNext
<1>6. TypeOK /\ RunPlan(F) /\ DependenciesDone(F) /\ CompletedChecked(F)
          => CompletedIsDelivered
  <2> SUFFICES ASSUME TypeOK, RunPlan(F), DependenciesDone(F), CompletedChecked(F),
                      NEW r \in DOMAIN runs, runs[r].status = "completed"
               PROVE  \E U \in SUBSET DOMAIN journal[r] :
                          /\ \E s \in U : journal[r][s].checkpoint = "completed"
                          /\ \A s \in U : Succeeded(r, s) /\ journal[r][s].deps \subseteq U
    BY DEF CompletedIsDelivered
  <2>1. r \in 1 .. MaxRuns
    BY LenProperties, ConstantsAssumption DEF TypeOK, ConstantsAssumption
  <2>2. journal[r] = F[r]
    BY <2>1 DEF RunPlan, CompletedChecked
  <2> DEFINE U == {s \in DOMAIN F[r] : F[r][s].auto /\ Succeeded(r, s)}
  <2>3. WellBuilt(F[r])
    BY <2>1
  <2>4. \E s \in U : F[r][s].checkpoint = "completed"
    BY <2>3 DEF CompletedChecked, WellBuilt
  <2>5. ASSUME NEW s \in U
        PROVE  Succeeded(r, s) /\ F[r][s].deps \subseteq U
    <3>1. F[r][s].auto /\ Succeeded(r, s)
      OBVIOUS
    <3>2. PICK a \in DOMAIN attempts : attempts[a].run = r /\ attempts[a].stage = s
      BY <3>1 DEF Succeeded, AttemptsOf
    <3>3. \A d \in F[r][s].deps : Succeeded(r, d)
      BY <3>1, <3>2 DEF DependenciesDone
    <3> QED
      BY <2>3, <3>1, <3>3 DEF WellBuilt
  <2> HIDE DEF U
  <2>6. U \in SUBSET DOMAIN journal[r]
    BY <2>2 DEF U
  <2> QED
    BY <2>2, <2>4, <2>5, <2>6
<1> QED
  BY <1>1, <1>2, <1>3, <1>4, <1>5, <1>6, DeliveryFacts, PTL DEF Spec
=============================================================================
