-------------------------- MODULE StageInputs_proofs -------------------------
(***************************************************************************)
(* Proofs about what a stage is given before its container starts: the     *)
(* checkout the stages of a run share (RunRepos), the places it may write  *)
(* (StageAccess) and its place among the stages of the plan (SpecOrder).   *)
(***************************************************************************)
EXTENDS RunRepos, StageAccess, SpecOrder, SequenceTheorems, FiniteSums

------------------------------------------------------------------------------
(* The checkout.  EnsureRunRepo removes what it finds unless git answers    *)
(* for it, and nothing in it looks at who uses the directory: that no stage *)
(* loses its files, or its ref, rests on the dependencies of the stages and *)
(* on the leases.  The proofs say on which: one stage that materializes the *)
(* repository comes before all others, and while an execution of it is      *)
(* preparing the checkout no second one comes to it.                        *)

\* One stage is needed by every other stage that materializes the repository.
\* The shipped stage specifications are like that: implement for the
\* components, generate for the journal, promote_local for the environments.
Leads(first) ==
  first \in Materializers /\ \A s \in Materializers \ {first} : first \in Needs[s]

Stati == {"waiting", "pending", "running", "succeeded", "failed"}

Places == {"idle", "stamp"} \cup Preparing \cup {"resolved", "done", "error", "ended"}

Checkouts == {"absent", "partial", "head", "tip", "ref"}

NobodyPrepares == \A e \in Executions : at[e] \notin Preparing

\* Until an execution is given the checkout, the leading stage is alone.
Fresh(first) ==
  /\ work = {}
  /\ \A e \in Executions : at[e] \notin {"resolved", "done"}
  /\ \A s \in Materializers : status[s] # "succeeded"
  /\ \A s \in Materializers \ {first} : status[s] = "waiting"
  /\ \A e \in Executions : StageOf[e] # first => at[e] = "idle"

\* From then on it answers, so nobody resets it.
Settled == sourceStampFromPath /\ NobodyPrepares

OneAtATime ==
  \A e, x \in Executions : at[e] \in Preparing /\ at[x] \in Preparing => e = x

\* What is at the destination is told by how far the one that prepares it is.
PlacedAt(where) ==
  /\ where = "source" => dest \in {"absent", "partial"}
  /\ where = "clone" => dest = "absent"
  /\ where = "cloning" => dest \in {"partial", "head"}
  /\ where \in {"identity", "checkout"} => dest = "tip"

InPlace == \A e \in Executions : PlacedAt(at[e])

\* A checkout that nobody prepares is at the ref, or somebody was cut short.
Sound == NobodyPrepares /\ dest \in {"head", "tip"} => cut

Kept ==
  /\ \A s \in Materializers : status[s] = "succeeded" => s \in work
  /\ \A e \in Executions : at[e] = "done" => StageOf[e] \in work

Orderly(first) ==
  /\ Fresh(first) \/ Settled
  /\ OneAtATime
  /\ InPlace
  /\ Sound
  /\ Kept

ReposInv(first) ==
  /\ status \in [Materializers -> Stati]
  /\ at \in [Executions -> Places]
  /\ dest \in Checkouts
  /\ cut \in BOOLEAN
  /\ overlap \in BOOLEAN
  /\ overlap \/ Orderly(first)

------------------------------------------------------------------------------

\* At the start nothing is at the destination.
LEMMA ReposInit ==
  ASSUME NEW first, Leads(first), Init
  PROVE  ReposInv(first)
<1>1. Fresh(first) /\ OneAtATime /\ InPlace /\ Sound /\ Kept
  BY DEF Init, Fresh, OneAtATime, InPlace, PlacedAt, Sound, Kept, NobodyPrepares, Preparing
<1> QED
  BY <1>1 DEF Init, ReposInv, Orderly, Stati, Places, Checkouts

\* Whoever prepares the checkout is alone with it.
LEMMA PreparesAlone ==
  ASSUME NEW first, Orderly(first), NEW e \in Executions, at[e] \in Preparing
  PROVE  /\ Fresh(first)
         /\ StageOf[e] = first
         /\ \A x \in Executions \ {e} : at[x] \notin Preparing
         /\ PlacedAt(at[e])
<1>1. Fresh(first)
  BY DEF Orderly, Settled, NobodyPrepares
<1>2. StageOf[e] = first
  BY <1>1 DEF Fresh, Preparing
<1> QED
  BY <1>1, <1>2 DEF Orderly, OneAtATime, InPlace

\* It goes on, or gives up and is known to have been cut short if it leaves a
\* checkout that answers.
LEMMA PreparerSteps ==
  ASSUME NEW first, Leads(first), Orderly(first), NEW e \in Executions,
         at[e] \in Preparing, at'[e] \in Preparing \cup {"error", "ended"},
         \A x \in Executions \ {e} : at'[x] = at[x],
         status' = status, work' \in SUBSET work, PlacedAt(at[e])',
         at'[e] \notin Preparing /\ dest' \in {"head", "tip"} => cut'
  PROVE  Orderly(first)'
<1>1. /\ Fresh(first)
      /\ StageOf[e] = first
      /\ \A x \in Executions \ {e} : at[x] \notin Preparing
  BY PreparesAlone
<1>2. Fresh(first)'
  BY <1>1 DEF Fresh, Preparing
<1>3. OneAtATime'
  BY <1>1 DEF OneAtATime
<1>4. InPlace'
  <2>1. \A x \in Executions \ {e} : PlacedAt(at[x])'
    BY <1>1 DEF PlacedAt, Preparing
  <2> QED
    BY <2>1 DEF InPlace
<1>5. Sound'
  BY DEF Sound, NobodyPrepares
<1>6. Kept'
  BY <1>2 DEF Kept, Fresh
<1> QED
  BY <1>2, <1>3, <1>4, <1>5, <1>6 DEF Orderly

\* A step of an execution that neither prepares the checkout nor is about to,
\* and of the stages: what is at the destination stays.
LEMMA BystanderSteps ==
  ASSUME NEW first, Orderly(first),
         \A x \in Executions :
           \/ at'[x] = at[x]
           \/ at[x] \notin Preparing /\ at'[x] \notin Preparing,
         dest' = dest, cut => cut', Fresh(first)' \/ Settled, Kept'
  PROVE  Orderly(first)'
<1>1. NobodyPrepares' <=> NobodyPrepares
  BY DEF NobodyPrepares
<1>2. Fresh(first)' \/ Settled'
  BY <1>1 DEF Settled, sourceStampFromPath
<1>3. OneAtATime'
  BY DEF Orderly, OneAtATime
<1>4. InPlace'
  <2>1. SUFFICES ASSUME NEW x \in Executions PROVE PlacedAt(at[x])'
    BY DEF InPlace
  <2>2. CASE at'[x] = at[x]
    BY <2>2 DEF Orderly, InPlace, PlacedAt
  <2>3. CASE at'[x] \notin Preparing
    BY <2>3 DEF PlacedAt, Preparing
  <2> QED
    BY <2>2, <2>3
<1>5. Sound'
  BY <1>1 DEF Orderly, Sound
<1> QED
  BY <1>2, <1>3, <1>4, <1>5 DEF Orderly

\* The stages, as the control plane leads them.
LEMMA StageSteps ==
  ASSUME NEW first, Leads(first), ReposInv(first), ~overlap,
         \/ \E s \in Materializers : Queue(s) \/ LeaseEnds(s)
         \/ \E e \in Executions : Claim(e) \/ Complete(e)
  PROVE  Orderly(first)'
<1> USE DEF ReposInv
<1>1. ASSUME NEW s \in Materializers, Queue(s) \/ LeaseEnds(s) PROVE Orderly(first)'
  <2>1. /\ \A t \in Materializers : status'[t] = IF t = s THEN "pending" ELSE status[t]
        /\ UNCHANGED <<at, dest, work, cut>>
    BY <1>1 DEF Queue, LeaseEnds
  <2>2. Fresh(first) => s = first
    BY <1>1 DEF Fresh, Queue, LeaseEnds, Leads
  <2>3. Fresh(first)' \/ Settled
    BY <2>1, <2>2 DEF Orderly, Fresh
  <2>4. Kept'
    BY <2>1 DEF Orderly, Kept
  <2> QED
    BY <2>1, <2>3, <2>4, BystanderSteps
<1>2. ASSUME NEW e \in Executions, Claim(e) PROVE Orderly(first)'
  <2>1. /\ at[e] = "idle" /\ status[StageOf[e]] = "pending"
        /\ \A x \in Executions : at'[x] = IF x = e THEN "stamp" ELSE at[x]
        /\ \A t \in Materializers : status'[t] = IF t = StageOf[e] THEN "running" ELSE status[t]
        /\ UNCHANGED <<dest, work, cut>>
    BY <1>2, StagesAssumption DEF Claim, Go
  <2>2. Fresh(first) => StageOf[e] = first
    BY <2>1, StagesAssumption DEF Fresh
  <2>3. Fresh(first)' \/ Settled
    BY <2>1, <2>2 DEF Orderly, Fresh
  <2>4. Kept'
    BY <2>1 DEF Orderly, Kept
  <2> QED
    BY <2>1, <2>3, <2>4, BystanderSteps DEF Preparing
<1>3. ASSUME NEW e \in Executions, Complete(e) PROVE Orderly(first)'
  <2>1. PICK result \in {"succeeded", "failed"} :
          /\ result = "succeeded" => at[e] = "done"
          /\ status' = [status EXCEPT ![StageOf[e]] = result]
    BY <1>3 DEF Complete
  <2>2. /\ at[e] \in {"done", "error"}
        /\ \A x \in Executions : at'[x] = IF x = e THEN "ended" ELSE at[x]
        /\ \A t \in Materializers : status'[t] = IF t = StageOf[e] THEN result ELSE status[t]
        /\ UNCHANGED <<dest, work, cut>>
    BY <1>3, <2>1, StagesAssumption DEF Complete, Go
  <2>3. Fresh(first) => StageOf[e] = first /\ result = "failed"
    BY <2>1, <2>2 DEF Fresh
  <2>4. Fresh(first)' \/ Settled
    BY <2>2, <2>3 DEF Orderly, Fresh
  <2>5. Kept'
    BY <2>1, <2>2 DEF Orderly, Kept
  <2> QED
    BY <2>2, <2>4, <2>5, BystanderSteps DEF Preparing
<1> QED
  BY <1>1, <1>2, <1>3

\* An execution comes to the checkout.
LEMMA StampSteps ==
  ASSUME NEW first, ReposInv(first), ~overlap, NEW e \in Executions, Stamp(e), ~overlap'
  PROVE  Orderly(first)'
<1> USE DEF ReposInv
<1>1. /\ at[e] = "stamp"
      /\ \A x \in Executions : at'[x] =
           IF x = e THEN (IF sourceStampFromPath THEN "resolved" ELSE "source") ELSE at[x]
      /\ ~ InTheWay(e)
      /\ UNCHANGED <<status, dest, work, cut>>
  BY DEF Stamp, Go
<1>2. Fresh(first) => NobodyPrepares
  <2>1. SUFFICES ASSUME Fresh(first), NEW x \in Executions, at[x] \in Preparing PROVE FALSE
    BY DEF NobodyPrepares
  <2>2. StageOf[e] = first /\ StageOf[x] = first /\ x # e
    BY <1>1, <2>1 DEF Fresh, Preparing
  <2> QED
    BY <1>1, <2>1, <2>2 DEF InTheWay
<1>3. NobodyPrepares
  BY <1>2 DEF Orderly, Settled
<1>4. Kept'
  BY <1>1 DEF Orderly, Kept
<1>5. CASE sourceStampFromPath
  BY <1>1, <1>3, <1>4, <1>5, BystanderSteps DEF Settled, Preparing, NobodyPrepares
<1>6. CASE ~ sourceStampFromPath
  <2>1. Fresh(first)
    BY <1>6 DEF Orderly, Settled
  <2>2. at'[e] = "source" /\ dest' \in {"absent", "partial"}
    BY <1>1, <1>6 DEF sourceStampFromPath, Checkouts
  <2>3. Fresh(first)'
    BY <1>1, <1>6, <2>1 DEF Fresh
  <2>4. OneAtATime'
    BY <1>1, <1>3 DEF OneAtATime, NobodyPrepares
  <2>5. InPlace'
    BY <1>1, <1>3, <2>2 DEF InPlace, PlacedAt, NobodyPrepares, Preparing
  <2>6. Sound'
    BY <2>2 DEF Sound
  <2> QED
    BY <1>4, <2>3, <2>4, <2>5, <2>6 DEF Orderly
<1> QED
  BY <1>5, <1>6

\* The rest of EnsureRunRepo.
LEMMA RepoSteps ==
  ASSUME NEW first, Leads(first), ReposInv(first), ~overlap, NEW e \in Executions,
         EnsureRunRepo(e), ~ Stamp(e)
  PROVE  Orderly(first)'
<1> USE DEF ReposInv
<1>1. at[e] \in Preparing
  BY DEF EnsureRunRepo, Reset, ResetFails, CloneBegins, CloneHead, CloneEnds, CloneFails,
       configureCommitIdentity, checkoutResolvedRef, GitFails, Preparing
<1>2. /\ Fresh(first)
      /\ StageOf[e] = first
      /\ \A x \in Executions \ {e} : at[x] \notin Preparing
      /\ PlacedAt(at[e])
  BY <1>1, PreparesAlone
<1>3. work = {}
  BY <1>2 DEF Fresh
<1>4. CASE Reset(e)
  BY <1>1, <1>3, <1>4, PreparerSteps DEF Reset, Go, PlacedAt, Preparing
<1>5. CASE ResetFails(e)
  <2>1. dest' \in {"absent", "partial"}
    BY <1>2, <1>5 DEF ResetFails, PlacedAt
  <2> QED
    BY <1>1, <1>5, <2>1, PreparerSteps DEF ResetFails, Go, PlacedAt, Preparing
<1>6. CASE CloneBegins(e)
  BY <1>1, <1>6, PreparerSteps DEF CloneBegins, Go, PlacedAt, Preparing
<1>7. CASE CloneHead(e)
  BY <1>1, <1>7, PreparerSteps DEF CloneHead, PlacedAt, Preparing
<1>8. CASE CloneEnds(e)
  BY <1>1, <1>8, PreparerSteps DEF CloneEnds, Go, PlacedAt, Preparing
<1>9. CASE CloneFails(e)
  BY <1>1, <1>3, <1>9, PreparerSteps DEF CloneFails, Go, PlacedAt, Preparing
<1>10. CASE configureCommitIdentity(e)
  BY <1>1, <1>2, <1>10, PreparerSteps DEF configureCommitIdentity, Go, PlacedAt, Preparing
<1>11. CASE GitFails(e)
  BY <1>1, <1>2, <1>11, PreparerSteps DEF GitFails, Go, PlacedAt, Preparing
<1>12. CASE checkoutResolvedRef(e)
  <2>1. /\ \A x \in Executions : at'[x] = IF x = e THEN "resolved" ELSE at[x]
        /\ dest' = "ref"
        /\ UNCHANGED <<status, work, cut>>
    BY <1>12 DEF checkoutResolvedRef, Go
  <2>2. NobodyPrepares'
    BY <1>2, <2>1 DEF NobodyPrepares, Preparing
  <2>3. Settled'
    BY <2>1, <2>2 DEF Settled, sourceStampFromPath
  <2>4. OneAtATime' /\ InPlace' /\ Sound'
    BY <2>1, <2>2 DEF OneAtATime, InPlace, PlacedAt, Sound, NobodyPrepares, Preparing
  <2>5. Kept'
    BY <2>1 DEF Orderly, Kept
  <2> QED
    BY <2>3, <2>4, <2>5 DEF Orderly
<1> QED
  BY <1>4, <1>5, <1>6, <1>7, <1>8, <1>9, <1>10, <1>11, <1>12 DEF EnsureRunRepo

\* The container works on a checkout that answers.
LEMMA WorkSteps ==
  ASSUME NEW first, ReposInv(first), ~overlap, NEW e \in Executions, Work(e)
  PROVE  Orderly(first)'
<1> USE DEF ReposInv
<1>1. at[e] = "resolved" /\ Settled
  BY DEF Work, Orderly, Fresh
<1>2. /\ \A x \in Executions : at'[x] = IF x = e THEN "done" ELSE at[x]
      /\ work' = work \cup {StageOf[e]}
      /\ UNCHANGED <<status, dest, cut>>
  BY <1>1 DEF Work, Go, Settled, sourceStampFromPath
<1>3. Kept'
  BY <1>2 DEF Orderly, Kept
<1> QED
  BY <1>1, <1>2, <1>3, BystanderSteps DEF Preparing

\* A worker dies.
LEMMA CrashSteps ==
  ASSUME NEW first, Leads(first), ReposInv(first), ~overlap, NEW e \in Executions, Crash(e)
  PROVE  Orderly(first)'
<1> USE DEF ReposInv
<1>1. /\ at[e] # "idle"
      /\ \A x \in Executions : at'[x] = IF x = e THEN "ended" ELSE at[x]
      /\ cut' = (cut \/ at[e] \in {"cloning", "identity", "checkout"})
      /\ UNCHANGED <<status, dest, work>>
  BY DEF Crash, Go
<1>2. CASE at[e] \in Preparing
  <2>1. PlacedAt(at[e])
    BY <1>2, PreparesAlone
  <2>2. dest' \in {"head", "tip"} => cut'
    BY <1>1, <1>2, <2>1 DEF PlacedAt, Preparing
  <2> QED
    BY <1>1, <1>2, <2>2, PreparerSteps DEF PlacedAt, Preparing
<1>3. CASE at[e] \notin Preparing
  <2>1. Fresh(first)' \/ Settled
    BY <1>1 DEF Orderly, Fresh
  <2>2. Kept'
    BY <1>1 DEF Orderly, Kept
  <2> QED
    BY <1>1, <1>3, <2>1, <2>2, BystanderSteps DEF Preparing
<1> QED
  BY <1>2, <1>3

\* Every step keeps the kinds of the variables.
LEMMA ReposTypes ==
  ASSUME NEW first, ReposInv(first), Next
  PROVE  /\ status' \in [Materializers -> Stati]
         /\ at' \in [Executions -> Places]
         /\ dest' \in Checkouts
         /\ cut' \in BOOLEAN
         /\ overlap' \in BOOLEAN
         /\ overlap => overlap'
<1> USE DEF ReposInv
<1>1. ASSUME NEW s \in Materializers, Queue(s) \/ LeaseEnds(s)
      PROVE  status' \in [Materializers -> Stati] /\ UNCHANGED <<at, dest, cut, overlap>>
  BY <1>1 DEF Queue, LeaseEnds, Stati
<1>2. ASSUME NEW e \in Executions, Claim(e) \/ Complete(e)
      PROVE  /\ status' \in [Materializers -> Stati]
             /\ at' \in [Executions -> Places]
             /\ UNCHANGED <<dest, cut, overlap>>
  BY <1>2 DEF Claim, Complete, Go, Stati, Places
<1>3. ASSUME NEW e \in Executions, EnsureRunRepo(e) \/ Work(e) \/ Crash(e)
      PROVE  /\ UNCHANGED status
             /\ at' \in [Executions -> Places]
             /\ dest' \in Checkouts
             /\ cut' \in BOOLEAN
             /\ overlap' \in BOOLEAN
             /\ overlap => overlap'
  BY <1>3 DEF EnsureRunRepo, Stamp, Reset, ResetFails, CloneBegins, CloneHead, CloneEnds,
       CloneFails, configureCommitIdentity, checkoutResolvedRef, GitFails, Work, Crash, Go,
       Places, Preparing, Checkouts
<1> QED
  BY <1>1, <1>2, <1>3 DEF Next

LEMMA ReposNext ==
  ASSUME NEW first, Leads(first), ReposInv(first), [Next]_vars
  PROVE  ReposInv(first)'
<1>1. CASE UNCHANGED vars
  <2>1. Orderly(first) => Orderly(first)'
    BY <1>1 DEF vars, Orderly, Fresh, Settled, OneAtATime, InPlace, PlacedAt, Sound, Kept,
         NobodyPrepares, sourceStampFromPath
  <2> QED
    BY <1>1, <2>1 DEF vars, ReposInv
<1>2. CASE Next
  <2>1. SUFFICES ASSUME ~overlap' PROVE Orderly(first)'
    BY <1>2, ReposTypes DEF ReposInv
  <2>2. ~overlap
    BY <1>2, <2>1, ReposTypes
  <2>3. ASSUME NEW e \in Executions, EnsureRunRepo(e) PROVE Orderly(first)'
    BY <2>1, <2>2, <2>3, StampSteps, RepoSteps
  <2> QED
    BY <1>2, <2>2, <2>3, StageSteps, WorkSteps, CrashSteps DEF Next
<1> QED
  BY <1>1, <1>2

LEMMA ReposSafe ==
  ASSUME NEW first, ReposInv(first)
  PROVE  WorkKept /\ PinnedUnlessCut
<1>1. WorkKept
  BY DEF ReposInv, Orderly, Kept, WorkKept
<1>2. ASSUME ~overlap, NEW e \in Executions, at[e] = "resolved" PROVE dest = "ref" \/ cut
  <2>1. Settled /\ Sound
    BY <1>2 DEF ReposInv, Orderly, Fresh
  <2> QED
    BY <2>1 DEF Settled, Sound, sourceStampFromPath
<1> QED
  BY <1>1, <1>2 DEF PinnedUnlessCut

(***************************************************************************)
(* What a stage that succeeded left in the checkout stays there, however   *)
(* many stages run in parallel after the leading one, are killed, lose     *)
(* their leases and run again beside themselves: without two executions of *)
(* the leading stage on a checkout that one of them prepares, EnsureRunRepo *)
(* never resets one that holds files.                                      *)
(***************************************************************************)
THEOREM StagesKeepTheirWork ==
  ASSUME NEW CONSTANT first, Leads(first)
  PROVE  Spec => []WorkKept
<1>1. Init => ReposInv(first)
  BY ReposInit
<1>2. ReposInv(first) /\ [Next]_vars => ReposInv(first)'
  BY ReposNext
<1>3. ReposInv(first) => WorkKept
  BY ReposSafe
<1> QED
  BY <1>1, <1>2, <1>3, PTL DEF Spec

(***************************************************************************)
(* A stage is given the checkout at the ref of the work order, unless one  *)
(* was stopped between the start of its clone and its checkout, or met     *)
(* another execution of the same stage there.                              *)
(***************************************************************************)
THEOREM RefsArePinned ==
  ASSUME NEW CONSTANT first, Leads(first)
  PROVE  Spec => []PinnedUnlessCut
<1>1. Init => ReposInv(first)
  BY ReposInit
<1>2. ReposInv(first) /\ [Next]_vars => ReposInv(first)'
  BY ReposNext
<1>3. ReposInv(first) => PinnedUnlessCut
  BY ReposSafe
<1> QED
  BY <1>1, <1>2, <1>3, PTL DEF Spec

------------------------------------------------------------------------------
(* The places a stage may write.  A scope's patterns come from the          *)
(* contracts; the mounts are computed from the scopes as they were when     *)
(* context.json was written, and nothing is granted after that.             *)

\* The patterns of the scopes: those of the contracts, the directories of the
\* journal and the environments with everything below them, and the pattern
\* that an empty path gives.
PatternOK(q) ==
  \/ q = <<NoName, "**">>
  \/ /\ q \in Seq(Segments \cup Wild) /\ Len(q) >= 1
     /\ Len(q) <= MaxDepth \/ (Deep(q) /\ Len(q) = MaxDepth + 1)

ScopeOK(s) ==
  \/ s = Whole(s.root)
  \/ s.all = FALSE /\ \A q \in s.patterns : PatternOK(q)

Given == {[surface |-> r.surface, root |-> RunRepo(r.repo)] : r \in Requested}

Volumes(ctx) == {WorkspaceMount} \cup Planned(ctx)

AccessInv ==
  /\ contract \in Contracts
  /\ step \in {"claimed", "sandboxed", "materialized", "ready", "running", "failed"}
  /\ \A s \in scopes : ScopeOK(s)
  /\ step # "claimed" => Whole(Workspace) \in scopes
  /\ step \in {"materialized", "ready", "running"} =>
       repos = Given /\ UNION {Granted(r) : r \in Requested} \subseteq scopes
  /\ step \in {"ready", "running"} => context = Summary
  /\ IF step = "running"
     THEN /\ mounts \subseteq Volumes(context)
          /\ Volumes(context) \subseteq mounts \cup skipped
     ELSE mounts = {}

(* Prefixes and patterns.                                                   *)

\* The empty segment is none of the others.
LEMMA EmptySegment == NoName \notin Wild /\ NoName # "." /\ "**" # NoName
BY Zenon DEF NoName, Wild

\* A prefix, element by element.
LEMMA PrefixElements ==
  ASSUME NEW S, NEW s \in Seq(S), NEW T, NEW t \in Seq(T)
  PROVE  IsPrefix(s, t) <=> Len(s) <= Len(t) /\ \A i \in 1 .. Len(s) : s[i] = t[i]
<1>1. Len(s) \in Nat /\ Len(t) \in Nat
  OBVIOUS
<1>2. ASSUME Len(s) <= Len(t)
      PROVE  SubSeq(s, 1, Len(s)) = SubSeq(t, 1, Len(s)) <=> \A i \in 1 .. Len(s) : s[i] = t[i]
  <2> DEFINE a == SubSeq(s, 1, Len(s))
             b == SubSeq(t, 1, Len(s))
             U == S \cup T
  <2>1. /\ a \in Seq(U) /\ Len(a) = Len(s) /\ \A i \in 1 .. Len(s) : a[i] = s[i]
        /\ b \in Seq(U) /\ Len(b) = Len(s) /\ \A i \in 1 .. Len(s) : b[i] = t[i]
    <3>1. \A i \in 1 .. Len(s) : s[i] \in U /\ t[i] \in U
      BY <1>1, <1>2, ElementOfSeq
    <3> HIDE DEF U
    <3> QED BY <1>1, <1>2, <3>1, SubSeqProperties
  <2> HIDE DEF a, b, U
  <2>2. (\A i \in 1 .. Len(s) : s[i] = t[i]) => a = b
    BY <2>1, SeqEqual
  <2>3. a = b => \A i \in 1 .. Len(s) : s[i] = t[i]
    BY <2>1
  <2> QED BY <2>2, <2>3 DEF a, b
<1> QED BY <1>2 DEF IsPrefix

\* A beginning of a sequence.
LEMMA Beginning ==
  ASSUME NEW S, NEW s \in Seq(S), NEW n \in 0 .. Len(s)
  PROVE  /\ SubSeq(s, 1, n) \in Seq(S) /\ Len(SubSeq(s, 1, n)) = n
         /\ \A i \in 1 .. n : SubSeq(s, 1, n)[i] = s[i]
<1>1. n \in Int /\ 1 \in Int /\ \A i \in 1 .. n : s[i] \in S
  BY ElementOfSeq
<1> QED BY <1>1, SubSeqProperties

\* The static beginning of a pattern ends at its first wildcard.
LEMMA StaticEnds ==
  ASSUME NEW S, NEW q \in Seq(S)
  PROVE  \E k \in 0 .. Len(q) :
           /\ Static(q) = SubSeq(q, 1, k)
           /\ \A i \in 1 .. k : q[i] \notin Wild \cup {NoName}
           /\ k < Len(q) => q[k + 1] \in Wild \cup {NoName}
<1> DEFINE I == {i \in 1 .. Len(q) : q[i] \in Wild \cup {NoName}}
<1>1. Len(q) \in Nat /\ I \subseteq Nat
  OBVIOUS
<1>2. CASE I = {}
  <2>1. Static(q) = q
    BY <1>2 DEF Static, SelectInSeq
  <2>2. q = SubSeq(q, 1, Len(q))
    BY SubSeqFull
  <2>3. \A i \in 1 .. Len(q) : q[i] \notin Wild \cup {NoName}
    BY <1>2
  <2>4. Len(q) \in 0 .. Len(q) /\ ~ (Len(q) < Len(q))
    BY <1>1
  <2> HIDE DEF I
  <2>5. Static(q) = SubSeq(q, 1, Len(q))
    BY <2>1, <2>2
  <2> QED BY <2>3, <2>4, <2>5
<1>3. CASE I # {}
  <2> DEFINE m == CHOOSE x \in I : \A y \in I : x <= y
  <2>1. \E x \in I : \A y \in I : x <= y
    <3> HIDE DEF I
    <3> QED BY <1>1, <1>3, Least
  <2>2. m \in I /\ \A y \in I : m <= y
    BY <2>1
  <2>3. Static(q) = SubSeq(q, 1, m - 1)
    <3>1. Min(I) = m
      BY DEF Min
    <3>2. m # 0
      BY <2>2
    <3> HIDE DEF m
    <3> QED BY <1>3, <3>1, <3>2 DEF Static, SelectInSeq
  <2> HIDE DEF m
  <2>4. m - 1 \in 0 .. Len(q) /\ q[(m - 1) + 1] \in Wild \cup {NoName}
    BY <2>2
  <2>5. \A i \in 1 .. m - 1 : q[i] \notin Wild \cup {NoName}
    BY <2>2
  <2> QED BY <2>3, <2>4, <2>5
<1> QED BY <1>2, <1>3

\* What is mounted for a pattern: a beginning of it without wildcards, which is
\* empty exactly for a pattern at the root.
LEMMA PatternRoot ==
  ASSUME NEW q, PatternOK(q)
  PROVE  \E j \in 0 .. Len(q) :
           /\ writablePatternRoot(q) = SubSeq(q, 1, j)
           /\ \A i \in 1 .. j : q[i] \in Segments
           /\ j = 0 <=> AtRoot(q)
<1> DEFINE S == Segments \cup Wild \cup {NoName}
<1>1. q \in Seq(S) /\ Len(q) \in Nat /\ Len(q) >= 1
  <2>1. CASE q = <<NoName, "**">>
    <3>1. NoName \in S /\ "**" \in S
      BY DEF Wild
    <3> HIDE DEF S
    <3> QED BY <2>1, <3>1
  <2>2. CASE q \in Seq(Segments \cup Wild) /\ Len(q) >= 1
    <3>1. Segments \cup Wild \subseteq S
      OBVIOUS
    <3> HIDE DEF S
    <3> QED BY <2>2, <3>1, SeqMonotonic, LenProperties
  <2> QED BY <2>1, <2>2 DEF PatternOK
<1>2. PICK k \in 0 .. Len(q) : /\ Static(q) = SubSeq(q, 1, k)
                               /\ \A i \in 1 .. k : q[i] \notin Wild \cup {NoName}
                               /\ k < Len(q) => q[k + 1] \in Wild \cup {NoName}
  BY <1>1, StaticEnds
<1>3. \A i \in 1 .. Len(q) : q[i] \in S
  BY <1>1, ElementOfSeq
<1>4. \A i \in 1 .. k : q[i] \in Segments
  BY <1>1, <1>2, <1>3
<1> DEFINE t == SubSeq(q, 1, k)
<1>5. t \in Seq(S) /\ Len(t) = k /\ \A i \in 1 .. k : t[i] = q[i]
  <2> HIDE DEF S
  <2> QED BY <1>1, <1>2, Beginning
<1>6. t # << >> <=> k # 0
  <2> HIDE DEF t, S
  <2> QED BY <1>5, EmptySeq
<1>7. Head(q) = q[1]
  BY <1>1
<1>8. Len(q) > 1 /\ q[2] = NoName => Head(q) = NoName
  <2>1. q = <<NoName, "**">> => q[2] = "**" /\ q[1] = NoName
    OBVIOUS
  <2>2. q \in Seq(Segments \cup Wild) /\ Len(q) > 1 => q[2] # NoName
    BY SegmentsAssumption, EmptySegment, <1>1
  <2> QED BY <2>1, <2>2, <1>7 DEF PatternOK
<1> HIDE DEF S
<1>9. CASE k # 0 /\ q[k] \in Dotted
  <2>1. writablePatternRoot(q) = Front(t)
    BY <1>2, <1>5, <1>6, <1>9 DEF writablePatternRoot, Last
  <2>2. Front(t) = SubSeq(q, 1, k - 1)
    <3>1. Front(t) = SubSeq(t, 1, k - 1)
      BY <1>5 DEF Front
    <3> DEFINE a == SubSeq(t, 1, k - 1)
               b == SubSeq(q, 1, k - 1)
    <3>2. k - 1 \in 0 .. Len(t) /\ k - 1 \in 0 .. Len(q)
      BY <1>5, <1>9
    <3>3. a \in Seq(S) /\ Len(a) = k - 1 /\ \A i \in 1 .. k - 1 : a[i] = t[i]
      <4> HIDE DEF t
      <4> QED BY <1>5, <3>2, Beginning
    <3>4. b \in Seq(S) /\ Len(b) = k - 1 /\ \A i \in 1 .. k - 1 : b[i] = q[i]
      BY <1>1, <3>2, Beginning
    <3>5. \A i \in 1 .. k - 1 : t[i] = q[i]
      BY <1>5
    <3> HIDE DEF a, b, t
    <3>6. a = b
      BY <3>3, <3>4, <3>5, SeqEqual
    <3> QED BY <3>1, <3>6 DEF a, b
  <2>3. k - 1 = 0 <=> AtRoot(q)
    <3>1. q[1] \notin Wild \cup {NoName}
      BY <1>2, <1>9
    <3>2. CASE k = 1
      BY <1>1, <1>2, <1>7, <1>8, <1>9, <3>1, <3>2 DEF AtRoot
    <3>3. CASE k # 1
      <4>1. Len(q) # 1 /\ q[2] \notin Wild
        BY <1>2, <1>9, <3>3
      <4> QED BY <1>7, <1>9, <3>1, <3>3, <4>1 DEF AtRoot
    <3> QED BY <3>2, <3>3
  <2>4. k - 1 \in 0 .. Len(q) /\ \A i \in 1 .. k - 1 : q[i] \in Segments
    BY <1>4, <1>9
  <2> QED BY <2>1, <2>2, <2>3, <2>4
<1>10. CASE k = 0 \/ q[k] \notin Dotted
  <2>1. writablePatternRoot(q) = t
    BY <1>2, <1>5, <1>6, <1>10 DEF writablePatternRoot, Last
  <2>2. k = 0 <=> AtRoot(q)
    <3>1. CASE k = 0
      BY <1>1, <1>2, <1>7, <3>1 DEF AtRoot
    <3>2. CASE k # 0
      <4>1. q[1] \notin Wild \cup {NoName}
        BY <1>2, <3>2
      <4>2. q[1] \in Dotted => k # 1
        BY <1>10, <3>2
      <4>3. q[1] \in Dotted => Len(q) # 1 /\ q[2] \notin Wild
        BY <1>2, <3>2, <4>2
      <4> QED BY <1>7, <3>2, <4>1, <4>3 DEF AtRoot
    <3> QED BY <3>1, <3>2
  <2> QED BY <1>4, <2>1, <2>2
<1> QED BY <1>9, <1>10

\* A path is a sequence of segments, and the other way round.
LEMMA PathsAreSequences ==
  /\ \A p \in Paths : p \in Seq(Segments) /\ Len(p) <= MaxDepth
  /\ \A p \in Seq(Segments) : Len(p) <= MaxDepth => p \in Paths
<1>1. ASSUME NEW p \in Paths
      PROVE  p \in Seq(Segments) /\ Len(p) <= MaxDepth
  <2>1. PICK n \in 0 .. MaxDepth : p \in [1 .. n -> Segments]
    BY DEF Paths
  <2>2. n \in Nat /\ n <= MaxDepth
    BY SegmentsAssumption
  <2> QED BY <2>1, <2>2
<1>2. ASSUME NEW p \in Seq(Segments), Len(p) <= MaxDepth
      PROVE  p \in Paths
  <2>1. p \in [1 .. Len(p) -> Segments] /\ Len(p) \in 0 .. MaxDepth
    BY <1>2, LenProperties, SegmentsAssumption
  <2> QED BY <2>1 DEF Paths
<1> QED BY <1>1, <1>2

\* What PatternRoot says, with the elements of the mounted path.
LEMMA RootOfPattern ==
  ASSUME NEW q, PatternOK(q)
  PROVE  LET w == writablePatternRoot(q) IN
         /\ w \in Seq(Segments) /\ Len(w) <= Len(q)
         /\ \A i \in 1 .. Len(w) : w[i] = q[i]
         /\ w = << >> <=> AtRoot(q)
         /\ Len(q) \in Nat /\ Len(q) >= 1
<1> DEFINE w == writablePatternRoot(q)
<1>1. PICK j \in 0 .. Len(q) : /\ w = SubSeq(q, 1, j)
                               /\ \A i \in 1 .. j : q[i] \in Segments
                               /\ j = 0 <=> AtRoot(q)
  BY PatternRoot
<1>2. Len(q) \in Nat /\ Len(q) >= 1
  <2>1. Len(<<NoName, "**">>) = 2
    OBVIOUS
  <2> QED BY <2>1 DEF PatternOK
<1>3. w \in Seq(Segments) /\ Len(w) = j /\ \A i \in 1 .. j : w[i] = q[i]
  BY <1>1, <1>2, SubSeqProperties
<1> HIDE DEF w
<1>4. w = << >> <=> j = 0
  BY <1>3, EmptySeq
<1> QED BY <1>1, <1>2, <1>3, <1>4 DEF w

\* A path that a pattern matches lies below what is mounted for the pattern.
LEMMA MatchedIsBelow ==
  ASSUME NEW q, PatternOK(q), ~ AtRoot(q), NEW p \in Paths, matchPattern(q, p)
  PROVE  writablePatternRoot(q) # << >> /\ IsPrefix(writablePatternRoot(q), p)
<1> DEFINE w == writablePatternRoot(q)
           rel == IF p = << >> THEN <<".">> ELSE p
<1>1. /\ w \in Seq(Segments) /\ Len(w) <= Len(q) /\ \A i \in 1 .. Len(w) : w[i] = q[i]
      /\ w # << >> /\ Len(q) \in Nat
  BY RootOfPattern
<1>2. q \in Seq(Segments \cup Wild)
  <2>1. Head(<<NoName, "**">>) = NoName
    OBVIOUS
  <2> QED BY <2>1 DEF PatternOK, AtRoot
<1>3. \A i \in 1 .. Len(w) : w[i] \in Segments /\ w[i] \notin Wild /\ w[i] # "."
  BY <1>1, SegmentsAssumption
<1>4. p \in Seq(Segments)
  BY PathsAreSequences
<1>5. rel \in Seq(Segments \cup {"."})
  <2>1. Segments \subseteq Segments \cup {"."}
    OBVIOUS
  <2>2. p \in Seq(Segments \cup {"."})
    BY <1>4, <2>1, SeqMonotonic
  <2>3. \A x : <<x>> \in Seq({x} \cup Segments)
    OBVIOUS
  <2>4. <<".">> \in Seq(Segments \cup {"."})
    BY <2>3
  <2> QED BY <2>2, <2>4
<1>6. IF Deep(q) THEN IsPrefix(Front(q), rel) ELSE MatchSegments(q, rel)
  BY DEF matchPattern
<1> HIDE DEF w, rel
<1>7. Len(w) <= Len(rel) /\ \A i \in 1 .. Len(w) : w[i] = rel[i]
  <2>1. CASE Deep(q)
    <3>1. Len(q) - 1 \in 0 .. Len(q) /\ q[Len(q)] = "**"
      BY <1>1, <2>1 DEF Deep, Last
    <3>2. /\ Front(q) \in Seq(Segments \cup Wild) /\ Len(Front(q)) = Len(q) - 1
          /\ \A i \in 1 .. Len(q) - 1 : Front(q)[i] = q[i]
      BY <1>2, <3>1, Beginning DEF Front
    <3>3. Len(q) - 1 <= Len(rel) /\ \A i \in 1 .. Len(q) - 1 : q[i] = rel[i]
      BY <1>5, <1>6, <2>1, <3>2, PrefixElements
    <3>4. Len(w) # Len(q)
      <4>1. "**" \in Wild
        BY DEF Wild
      <4> QED BY <1>1, <1>3, <3>1, <4>1, EmptySeq
    <3>5. Len(w) \in Nat /\ Len(rel) \in Nat
      BY <1>1, <1>5
    <3>6. Len(w) <= Len(q) - 1
      BY <1>1, <3>4, <3>5
    <3>7. \A i \in 1 .. Len(w) : i \in 1 .. Len(q) - 1 /\ w[i] = q[i]
      BY <1>1, <3>5, <3>6
    <3> QED BY <1>1, <3>3, <3>5, <3>6, <3>7
  <2>2. CASE ~ Deep(q)
    BY <1>1, <1>3, <1>5, <1>6, <2>2 DEF MatchSegments
  <2> QED BY <2>1, <2>2
<1>8. p # << >>
  <2> SUFFICES ASSUME p = << >> PROVE FALSE
    OBVIOUS
  <2>1. rel = <<".">>
    BY DEF rel
  <2>2. rel[1] = "." /\ 1 \in 1 .. Len(w)
    BY <1>1, <2>1, EmptySeq
  <2> QED BY <1>3, <1>7, <2>2
<1>9. IsPrefix(w, p)
  <2>1. rel = p
    BY <1>8 DEF rel
  <2> QED BY <1>1, <1>4, <1>7, <2>1, PrefixElements
<1> QED BY <1>1, <1>9 DEF w

\* For a pattern that can match at all there is a path below its mount that it
\* matches: the directory of a deep pattern, or the pattern with a segment in
\* place of every wildcard.
LEMMA MountHasPath ==
  ASSUME NEW q, PatternOK(q), writablePatternRoot(q) # << >>, ~ Inert(q)
  PROVE  \E p \in Paths : IsPrefix(writablePatternRoot(q), p) /\ matchPattern(q, p)
<1> DEFINE w == writablePatternRoot(q)
<1>1. /\ w \in Seq(Segments) /\ Len(w) <= Len(q) /\ \A i \in 1 .. Len(w) : w[i] = q[i]
      /\ w # << >> /\ ~ AtRoot(q) /\ Len(q) \in Nat /\ Len(q) >= 1
  BY RootOfPattern
<1>2. /\ q \in Seq(Segments \cup Wild)
      /\ Len(q) <= MaxDepth \/ (Deep(q) /\ Len(q) = MaxDepth + 1)
  <2>1. Head(<<NoName, "**">>) = NoName
    OBVIOUS
  <2> QED BY <1>1, <2>1 DEF PatternOK, AtRoot
<1>3. \A i \in 1 .. Len(q) : q[i] \in Segments \cup Wild
  BY <1>2, ElementOfSeq
<1>4. \A i \in 1 .. Len(w) : w[i] \in Segments /\ w[i] \notin Wild
  BY <1>1, SegmentsAssumption
<1> HIDE DEF w
<1>5. CASE Deep(q)
  <2> DEFINE p == Front(q)
  <2>1. Len(q) - 1 \in 0 .. Len(q) /\ q[Len(q)] = "**" /\ Len(q) > 1
    BY <1>1, <1>5 DEF Deep, Last
  <2>2. \A i \in 1 .. Len(q) - 1 : q[i] \in Segments
    BY <1>3, <1>5, <2>1 DEF Inert
  <2>3. /\ p \in Seq(Segments) /\ Len(p) = Len(q) - 1
        /\ \A i \in 1 .. Len(q) - 1 : p[i] = q[i]
    <3>1. Len(q) - 1 \in Int /\ 1 \in Int
      BY <2>1
    <3> QED BY <2>1, <2>2, <3>1, SubSeqProperties DEF Front
  <2> HIDE DEF p
  <2>4. p \in Paths
    BY <1>1, <1>2, <2>3, PathsAreSequences, SegmentsAssumption
  <2>5. Len(w) # Len(q)
    <3>1. "**" \in Wild
      BY DEF Wild
    <3> QED BY <1>1, <1>4, <2>1, <3>1, EmptySeq
  <2>6. IsPrefix(w, p)
    <3>1. Len(w) <= Len(p) /\ \A i \in 1 .. Len(w) : w[i] = p[i]
      BY <1>1, <2>3, <2>5
    <3> QED BY <1>1, <2>3, <3>1, PrefixElements
  <2>7. matchPattern(q, p)
    <3>1. p # << >>
      BY <2>1, <2>3, EmptySeq
    <3>2. IsPrefix(p, p)
      BY <2>3, PrefixElements
    <3> QED BY <1>5, <3>1, <3>2 DEF matchPattern, p
  <2> QED BY <2>4, <2>6, <2>7 DEF w
<1>6. CASE ~ Deep(q)
  <2> DEFINE p == [i \in 1 .. Len(q) |-> IF q[i] \in Wild THEN "generated" ELSE q[i]]
  <2>1. p \in Seq(Segments) /\ Len(p) = Len(q) /\ DOMAIN p = 1 .. Len(q)
    BY <1>1, <1>3, SegmentsAssumption
  <2>2. \A i \in 1 .. Len(q) : p[i] = IF q[i] \in Wild THEN "generated" ELSE q[i]
    OBVIOUS
  <2> HIDE DEF p
  <2>3. p \in Paths
    BY <1>2, <1>6, <2>1, PathsAreSequences
  <2>4. IsPrefix(w, p)
    <3>1. Len(w) <= Len(p) /\ \A i \in 1 .. Len(w) : w[i] = p[i]
      BY <1>1, <1>4, <2>1, <2>2
    <3> QED BY <1>1, <2>1, <3>1, PrefixElements
  <2>5. matchPattern(q, p)
    <3>1. p # << >>
      BY <1>1, <2>1, EmptySeq
    <3>2. MatchSegments(q, p)
      BY <2>1, <2>2 DEF MatchSegments
    <3> QED BY <1>6, <3>1, <3>2 DEF matchPattern
  <2> QED BY <2>3, <2>4, <2>5 DEF w
<1> QED BY <1>5, <1>6

\* The mount of a pattern is a beginning of it, and is not the .git directory.
LEMMA MountBeginsPattern ==
  ASSUME NEW q, PatternOK(q), writablePatternRoot(q) # << >>
  PROVE  IsPrefix(writablePatternRoot(q), q) /\ writablePatternRoot(q) # <<".git">>
<1> DEFINE w == writablePatternRoot(q)
<1>1. /\ w \in Seq(Segments) /\ Len(w) <= Len(q) /\ \A i \in 1 .. Len(w) : w[i] = q[i]
      /\ w # << >> /\ ~ AtRoot(q)
  BY RootOfPattern
<1>2. q \in Seq(Segments \cup Wild)
  <2>1. Head(<<NoName, "**">>) = NoName
    OBVIOUS
  <2> QED BY <1>1, <2>1 DEF PatternOK, AtRoot
<1> HIDE DEF w
<1>3. IsPrefix(w, q)
  BY <1>1, <1>2, PrefixElements
<1>4. w # <<".git">>
  <2>1. w = <<".git">> => w[1] = ".git" /\ 1 \in 1 .. Len(w)
    OBVIOUS
  <2> QED BY <1>1, <2>1, SegmentsAssumption
<1> QED BY <1>3, <1>4 DEF w

(* The scopes.                                                              *)

LEMMA PatternsOK ==
  /\ \A q : IsPattern(q) => PatternOK(q)
  /\ \A d : IsDirectory(d) =>
       /\ PatternOK(Below(d)) /\ PatternOK(d \o <<"generated", "**">>)
       /\ PatternOK(<<"**">>)
<1>1. ASSUME NEW q, IsPattern(q)
      PROVE  PatternOK(q)
  <2>1. q \in Seq(Segments \cup Wild) /\ Len(q) >= 1 /\ Len(q) <= MaxDepth
    BY <1>1, SegmentsAssumption DEF IsPattern
  <2> QED BY <2>1 DEF PatternOK
<1>2. ASSUME NEW d, IsDirectory(d)
      PROVE  /\ PatternOK(Below(d)) /\ PatternOK(d \o <<"generated", "**">>)
             /\ PatternOK(<<"**">>)
  <2> DEFINE S == Segments \cup Wild
  <2>1. "**" \in S /\ "generated" \in S /\ Segments \subseteq S /\ MaxDepth \in Nat
    BY SegmentsAssumption DEF Wild
  <2>2. d \in Seq(Segments) /\ Len(d) < MaxDepth /\ Len(d) \in Nat
    BY <1>2 DEF IsDirectory
  <2> HIDE DEF S
  <2>3. d \in Seq(S)
    BY <2>1, <2>2, SeqMonotonic
  <2>4. /\ <<"**">> \in Seq(S) /\ Len(<<"**">>) = 1
        /\ <<"generated", "**">> \in Seq(S) /\ Len(<<"generated", "**">>) = 2
        /\ <<"generated", "**">>[2] = "**"
    BY <2>1
  <2>5. PatternOK(<<"**">>)
    BY <2>1, <2>2, <2>4 DEF PatternOK, S
  <2>6. PatternOK(Below(d))
    <3>1. CASE d = << >>
      <4>1. ASSUME NEW x, NEW y
            PROVE  <<x>> \o <<y>> = <<x, y>>
        <5> DEFINE T == {x, y}
        <5>1. <<x>> \in Seq(T) /\ <<y>> \in Seq(T) /\ <<x, y>> \in Seq(T)
          OBVIOUS
        <5> HIDE DEF T
        <5>2. /\ <<x>> \o <<y>> \in Seq(T) /\ Len(<<x>> \o <<y>>) = 2
              /\ (<<x>> \o <<y>>)[1] = x /\ (<<x>> \o <<y>>)[2] = y
          BY <5>1
        <5> DEFINE a == <<x>> \o <<y>>
                   b == <<x, y>>
        <5>3. /\ a \in Seq(T) /\ b \in Seq(T) /\ Len(a) = Len(b)
              /\ \A i \in 1 .. Len(a) : a[i] = b[i]
          BY <5>1, <5>2
        <5> HIDE DEF a, b
        <5>4. a = b
          BY <5>3, SeqEqual
        <5> QED BY <5>4 DEF a, b
      <4>2. Below(d) = <<NoName, "**">>
        BY <3>1, <4>1 DEF Below
      <4> QED BY <4>2 DEF PatternOK
    <3>2. CASE d # << >>
      <4> DEFINE q == d \o <<"**">>
      <4>1. q \in Seq(S) /\ Len(q) = Len(d) + 1
        BY <2>3, <2>4, ConcatProperties
      <4>2. Below(d) = q
        BY <3>2 DEF Below
      <4> HIDE DEF q
      <4> QED BY <2>1, <2>2, <4>1, <4>2 DEF PatternOK, S
    <3> QED BY <3>1, <3>2
  <2>7. PatternOK(d \o <<"generated", "**">>)
    <3> DEFINE q == d \o <<"generated", "**">>
    <3>1. q \in Seq(S) /\ Len(q) = Len(d) + 2
      BY <2>3, <2>4, ConcatProperties
    <3>2. q[Len(d) + 2] = "**"
      <4>1. Len(d) + 2 \in 1 .. Len(d) + Len(<<"generated", "**">>) /\ ~ (Len(d) + 2 <= Len(d))
        BY <2>2, <2>4
      <4>2. q[Len(d) + 2] = <<"generated", "**">>[Len(d) + 2 - Len(d)]
        BY <2>3, <2>4, <4>1, ConcatProperties
      <4>3. Len(d) + 2 - Len(d) = 2
        BY <2>2
      <4> QED BY <2>4, <4>2, <4>3
    <3> HIDE DEF q
    <3>3. Deep(q)
      BY <2>2, <3>1, <3>2 DEF Deep, Last
    <3>4. PatternOK(q)
      BY <2>1, <2>2, <3>1, <3>3 DEF PatternOK, S
    <3> QED BY <3>4 DEF q
  <2> QED BY <2>5, <2>6, <2>7
<1> QED BY <1>1, <1>2

\* The mutable patterns of a selected component are patterns of the contract.
LEMMA OwnedPatterns ==
  ASSUME contract \in Contracts, NEW c \in SelectedDeliveryComponents, NEW rules,
         rules \subseteq Rules(c)
  PROVE  \A q \in mutablePatterns(rules) : PatternOK(q)
<1>1. PICK n \in DOMAIN target.components : c = target.components[n]
  BY DEF SelectedDeliveryComponents
<1>2. \A r \in Rules(c) : \A q \in r.paths : IsPattern(q)
  BY <1>1, ContractsAssumption DEF target
<1>3. \A q \in mutablePatterns(rules) : IsPattern(q)
  BY <1>2 DEF mutablePatterns
<1> QED BY <1>3, PatternsOK

LEMMA OwnershipIsRules ==
  ASSUME NEW c, NEW identity
  PROVE  /\ OwnershipRulesFor(c, identity) \subseteq Rules(c)
         /\ \A r \in AllRepositories(c) : RulesFor(r.ownership, identity) \subseteq Rules(c)
<1>1. ASSUME NEW r \in AllRepositories(c)
      PROVE  RulesFor(r.ownership, identity) \subseteq Rules(c)
  <2>1. CASE c.repositories = {}
    <3>1. r.ownership = {}
      BY <2>1 DEF AllRepositories
    <3> QED BY <3>1 DEF RulesFor
  <2>2. CASE c.repositories # {}
    <3>1. r \in c.repositories
      BY <2>2 DEF AllRepositories
    <3> QED BY <3>1 DEF RulesFor, Rules
  <2> QED BY <2>1, <2>2
<1>2. RulesFor(c.ownership, identity) \subseteq Rules(c)
  BY DEF RulesFor, Rules
<1> QED BY <1>1, <1>2 DEF OwnershipRulesFor

\* A scope with patterns.
LEMMA AllowedScope ==
  ASSUME NEW root, NEW patterns, \A q \in patterns : PatternOK(q),
         NEW s \in allowPatterns(root, patterns)
  PROVE  ScopeOK(s) /\ s.root = root /\ s.all = FALSE /\ s.patterns = patterns
<1>1. s = [root |-> root, all |-> FALSE, patterns |-> patterns]
  BY DEF allowPatterns
<1> QED BY <1>1 DEF ScopeOK

LEMMA ComponentScopesOK ==
  ASSUME contract \in Contracts
  PROVE  \A s \in ComponentScopes \cup grantComponentRepoAccess : ScopeOK(s)
<1>1. ASSUME NEW s \in ComponentScopes
      PROVE  ScopeOK(s)
  <2> DEFINE RulesOf(c, r) == IF r.ownership = {} THEN OwnershipRulesFor(c, spec.writeAs)
                              ELSE RulesFor(r.ownership, spec.writeAs)
  <2>1. PICK c \in SelectedDeliveryComponents :
          \E r \in AllRepositories(c) : \E root \in RepoCandidates(r.repo.project) :
            s \in allowPatterns(root, mutablePatterns(RulesOf(c, r)))
    BY <1>1 DEF ComponentScopes
  <2>2. PICK r \in AllRepositories(c) : \E root \in RepoCandidates(r.repo.project) :
          s \in allowPatterns(root, mutablePatterns(RulesOf(c, r)))
    BY <2>1
  <2>3. PICK root \in RepoCandidates(r.repo.project) :
          s \in allowPatterns(root, mutablePatterns(RulesOf(c, r)))
    BY <2>2
  <2>4. RulesOf(c, r) \subseteq Rules(c)
    BY OwnershipIsRules
  <2> HIDE DEF RulesOf
  <2>5. \A q \in mutablePatterns(RulesOf(c, r)) : PatternOK(q)
    BY <2>4, OwnedPatterns
  <2> QED BY <2>3, <2>5, AllowedScope
<1>2. ASSUME NEW s \in grantComponentRepoAccess
      PROVE  ScopeOK(s)
  <2>1. PICK c \in SelectedDeliveryComponents :
          s \in allowPatterns(RunRepo(c.repo), mutablePatterns(OwnershipRulesFor(c, spec.writeAs)))
    BY <1>2 DEF grantComponentRepoAccess
  <2>2. \A q \in mutablePatterns(OwnershipRulesFor(c, spec.writeAs)) : PatternOK(q)
    BY OwnershipIsRules, OwnedPatterns
  <2> QED BY <2>1, <2>2, AllowedScope
<1> QED BY <1>1, <1>2

LEMMA WholeOK == ASSUME NEW root PROVE ScopeOK(Whole(root)) /\ Whole(root).root = root /\ Whole(root).all
BY DEF ScopeOK, Whole

\* The sandbox of isolation.New.
LEMMA NewScopesOK ==
  ASSUME contract \in Contracts
  PROVE  \A s \in addIdentityScopes : ScopeOK(s)
<1> SUFFICES ASSUME NEW s \in addIdentityScopes PROVE ScopeOK(s)
  OBVIOUS
<1>1. s \in ComponentScopes \/ \E root : s = Whole(root)
  <2>1. addIdentityScopes \subseteq ComponentScopes \cup
          UNION {{Whole(root) : root \in GovernedSurfaces[t]} : t \in {"journal", "gitops"}}
    BY Zenon DEF addIdentityScopes
  <2> QED BY <2>1
<1> QED BY <1>1, ComponentScopesOK, WholeOK

\* The directories of the contracts.
LEMMA DirectoriesOK ==
  ASSUME contract \in Contracts
  PROVE  /\ IsDirectory(target.journal.path)
         /\ IsDirectory(EnvironmentTarget(spec.environment).path)
<1>1. IsDirectory(target.journal.path) /\ IsDirectory(<< >>)
  <2>1. IsDirectory(target.journal.path)
    BY ContractsAssumption DEF target
  <2>2. 0 < MaxDepth
    BY <2>1, SegmentsAssumption DEF IsDirectory
  <2> QED BY <2>1, <2>2, EmptySeq DEF IsDirectory
<1>2. \A e \in DOMAIN target.environments : IsDirectory(target.environments[e].path)
  BY ContractsAssumption DEF target
<1>3. [repo |-> EmptyRepo, path |-> << >>].path = << >>
  OBVIOUS
<1> QED BY <1>1, <1>2, <1>3 DEF EnvironmentTarget

LEMMA JournalPatternsOK ==
  ASSUME contract \in Contracts
  PROVE  \A q \in JournalPatterns : PatternOK(q)
BY DirectoriesOK, PatternsOK DEF JournalPatterns

\* What the repositories are granted.
LEMMA GrantedOK ==
  ASSUME contract \in Contracts, NEW r \in Requested
  PROVE  /\ r.surface \in {"components", "journal", "gitops"}
         /\ \A s \in Granted(r) : ScopeOK(s)
<1>1. r.surface \in {"components", "journal", "gitops"}
  BY DEF Requested
<1>2. CASE r.surface = "components"
  BY <1>1, <1>2, ComponentScopesOK DEF Granted
<1>3. CASE r.surface = "journal"
  BY <1>1, <1>3, JournalPatternsOK, AllowedScope DEF Granted
<1>4. CASE r.surface = "gitops"
  <2> DEFINE q == Below(EnvironmentTarget(spec.environment).path)
  <2>1. PatternOK(q)
    BY DirectoriesOK, PatternsOK
  <2>2. Granted(r) = allowPatterns(RunRepo(r.repo), {q})
    BY <1>4 DEF Granted
  <2> DEFINE T == {q}
  <2>3. \A p \in T : PatternOK(p)
    BY <2>1
  <2> HIDE DEF T, q
  <2>4. \A s \in allowPatterns(RunRepo(r.repo), T) : ScopeOK(s)
    BY <2>3, AllowedScope
  <2> QED BY <1>1, <2>2, <2>4 DEF T
<1> QED BY <1>1, <1>2, <1>3, <1>4

(* The invariant.                                                           *)

LEMMA AccessStarts ==
  ASSUME AccessInit
  PROVE  AccessInv
BY DEF AccessInit, AccessInv

LEMMA AccessStep ==
  ASSUME AccessInv, [AccessNext]_accessVars
  PROVE  AccessInv'
<1>1. CASE New
  <2>1. /\ contract' = contract /\ mounts' = mounts /\ step = "claimed" /\ step' = "sandboxed"
        /\ scopes' = {Whole(Workspace)} \cup
                       (IF Valid(spec.writeAs) THEN addIdentityScopes ELSE {})
    BY <1>1 DEF New
  <2>2. contract \in Contracts /\ mounts = {}
    BY <2>1 DEF AccessInv
  <2>3. \A s \in scopes' : ScopeOK(s)
    BY <2>1, <2>2, NewScopesOK, WholeOK
  <2> QED BY <2>1, <2>2, <2>3 DEF AccessInv
<1>2. CASE initializeStageRepos
  <2>1. /\ contract' = contract /\ mounts' = mounts /\ step = "sandboxed" /\ step' = "materialized"
        /\ repos' = Given
        /\ scopes' = scopes \cup UNION {Granted(r) : r \in Requested}
    BY <1>2 DEF initializeStageRepos, Given
  <2>2. /\ contract \in Contracts /\ mounts = {} /\ \A s \in scopes : ScopeOK(s)
        /\ Whole(Workspace) \in scopes
    BY <2>1 DEF AccessInv
  <2>3. \A s \in scopes' : ScopeOK(s)
    BY <2>1, <2>2, GrantedOK
  <2>4. Given' = Given /\ UNION {Granted(r) : r \in Requested}' = UNION {Granted(r) : r \in Requested}
    BY <2>1 DEF Given, Requested, Granted, Materialized, SelectedDeliveryComponents,
                SelectedComponentNames, EnvironmentTarget, grantComponentRepoAccess, May,
                OwnershipRulesFor, JournalPatterns, spec, target, RunRepo
  <2> QED BY <2>1, <2>2, <2>3, <2>4 DEF AccessInv
<1> DEFINE Rest == \/ initializeStageReposFails \/ writeContext \/ writeContextFails
                   \/ runEntrypoint \/ runEntrypointBlind \/ UNCHANGED accessVars
<1>3. CASE UNCHANGED <<contract, scopes, repos>> /\ UNCHANGED Given
           /\ UNCHANGED UNION {Granted(r) : r \in Requested} /\ Rest
  <2>1. CASE initializeStageReposFails
    BY <1>3, <2>1 DEF initializeStageReposFails, AccessInv
  <2>2. CASE writeContext
    BY <1>3, <2>2 DEF writeContext, AccessInv, Summary
  <2>3. CASE writeContextFails
    BY <1>3, <2>3 DEF writeContextFails, AccessInv
  <2>4. ASSUME UNCHANGED context PROVE UNCHANGED Volumes(context)
    BY <2>4 DEF Volumes, Planned, Optional, RepoMounts, writableSubpathMounts,
                repoControlMounts, RepoRoots
  <2>5. CASE runEntrypoint \/ runEntrypointBlind
    <3>1. /\ UNCHANGED <<context, control>> /\ step = "ready" /\ step' = "running"
          /\ mounts' \subseteq Volumes(context)
          /\ Volumes(context) \subseteq mounts' \cup skipped'
      BY <2>5 DEF runEntrypoint, runEntrypointBlind, Volumes
    <3> QED BY <1>3, <2>4, <3>1 DEF AccessInv, Summary
  <2>6. CASE UNCHANGED accessVars
    <3>1. UNCHANGED <<context, control, step, mounts, skipped>>
      BY <2>6 DEF accessVars
    <3> QED BY <1>3, <2>4, <3>1 DEF AccessInv, Summary
  <2> QED BY <1>3, <2>1, <2>2, <2>3, <2>5, <2>6
<1>4. ASSUME Rest
      PROVE  UNCHANGED <<contract, scopes, repos>> /\ UNCHANGED Given
             /\ UNCHANGED UNION {Granted(r) : r \in Requested}
  <2>1. UNCHANGED <<contract, scopes, repos>>
    BY <1>4 DEF initializeStageReposFails, writeContext, writeContextFails, runEntrypoint,
                runEntrypointBlind, accessVars
  <2>2. UNCHANGED Given /\ UNCHANGED UNION {Granted(r) : r \in Requested}
    BY <2>1 DEF Given, Requested, Granted, Materialized, SelectedDeliveryComponents,
                SelectedComponentNames, EnvironmentTarget, grantComponentRepoAccess, May,
                OwnershipRulesFor, JournalPatterns, spec, target, RunRepo
  <2> QED BY <2>1, <2>2
<1> QED BY <1>1, <1>2, <1>3, <1>4 DEF AccessNext

(* What the mounts are, for the scopes at the time of the container.        *)

LEMMA Running ==
  ASSUME AccessInv, step = "running"
  PROVE  /\ context.scopes = scopes /\ context.control = control /\ context.repos = repos
         /\ mounts \subseteq Volumes(context) /\ Volumes(context) \subseteq mounts \cup skipped
         /\ RepoRoots(context) = {r.root : r \in repos}
         /\ contract \in Contracts /\ repos = Given
         /\ UNION {Granted(r) : r \in Requested} \subseteq scopes
         /\ \A s \in scopes : ScopeOK(s)
<1>1. context = Summary
  BY DEF AccessInv
<1>2. context.scopes = scopes /\ context.control = control /\ context.repos = repos
  BY <1>1 DEF Summary
<1> QED BY <1>2 DEF AccessInv, RepoRoots

\* A pattern that is not at the root of a materialized repository is mounted,
\* or passed over.
LEMMA PatternIsMounted ==
  ASSUME AccessInv, step = "running", NEW s \in scopes, s.all = FALSE, NEW r \in repos,
         s.root = r.root, NEW q \in s.patterns, ~ AtRoot(q)
  PROVE  [root |-> r.root, path |-> writablePatternRoot(q), rw |-> TRUE]
           \in mounts \cup skipped
<1>1. /\ context.scopes = scopes /\ Volumes(context) \subseteq mounts \cup skipped
      /\ RepoRoots(context) = {x.root : x \in repos} /\ ScopeOK(s)
  BY Running
<1>2. PatternOK(q)
  BY <1>1 DEF ScopeOK, Whole
<1>3. writablePatternRoot(q) # << >>
  BY <1>2, RootOfPattern
<1>4. [root |-> s.root, path |-> writablePatternRoot(q), rw |-> TRUE]
        \in writableSubpathMounts(context)
  <2>1. /\ s \in {t \in context.scopes : t.root \in RepoRoots(context) /\ ~ t.all}
        /\ q \in {p \in s.patterns : writablePatternRoot(p) # << >>}
    BY <1>1, <1>3
  <2> DEFINE Of(t) == {[root |-> t.root, path |-> writablePatternRoot(p), rw |-> TRUE] :
                         p \in {x \in t.patterns : writablePatternRoot(x) # << >>}}
  <2>2. [root |-> s.root, path |-> writablePatternRoot(q), rw |-> TRUE] \in Of(s)
    BY <2>1
  <2>3. Of(s) \subseteq writableSubpathMounts(context)
    BY <2>1 DEF writableSubpathMounts
  <2> QED BY <2>2, <2>3
<1> QED BY <1>1, <1>4 DEF Volumes, Planned, Optional

(***************************************************************************)
(* What RequireWrite lets a stage write in a materialized repository the   *)
(* container can write, for every contract and every path, or the launcher *)
(* has passed over exactly the mount for it: a pattern's match lies below  *)
(* the static beginning that the launcher mounts, and context.json is      *)
(* written when everything is granted (runner.go, sandbox.go, docker.go).  *)
(***************************************************************************)
THEOREM AllowedPathsAreMounted == AccessSpec => []AllowedIsMounted
<1>1. AccessInv => AllowedIsMounted
  <2> SUFFICES ASSUME AccessInv, step = "running", NEW r \in repos, NEW p \in Paths,
                      ~ AllowedAtRoot(r.root, p)
               PROVE  Covered(mounts, r.root, p) \/ Covered(skipped, r.root, p)
    BY DEF AllowedIsMounted
  <2>0. PICK s \in scopes : /\ s.root = r.root
                            /\ s.all \/ \E q \in s.patterns : ~ AtRoot(q) /\ matchPattern(q, p)
    BY DEF AllowedAtRoot, allows
  <2>1. /\ context.scopes = scopes /\ Volumes(context) \subseteq mounts \cup skipped
        /\ RepoRoots(context) = {x.root : x \in repos} /\ ScopeOK(s)
    BY Running
  <2>2. CASE s = Whole(s.root)
    <3> DEFINE m == [root |-> r.root, path |-> << >>, rw |-> Whole(r.root) \in context.scopes]
    <3>1. m \in mounts \cup skipped
      BY <2>1 DEF Volumes, Planned, RepoMounts
    <3>2. m.rw /\ m.root = r.root /\ m.path = << >>
      BY <2>0, <2>1, <2>2
    <3>3. IsPrefix(<< >>, p)
      <4>1. p \in Seq(Segments) /\ << >> \in Seq(Segments) /\ Len(<< >>) = 0
        BY PathsAreSequences, EmptySeq
      <4>2. Len(<< >>) <= Len(p) /\ \A i \in 1 .. Len(<< >>) : << >>[i] = p[i]
        BY <4>1
      <4> QED BY <4>1, <4>2, PrefixElements
    <3> QED BY <3>1, <3>2, <3>3 DEF Covered
  <2>3. CASE s.all = FALSE /\ \A q \in s.patterns : PatternOK(q)
    <3>1. PICK q \in s.patterns : ~ AtRoot(q) /\ matchPattern(q, p)
      BY <2>0, <2>3
    <3> DEFINE m == [root |-> r.root, path |-> writablePatternRoot(q), rw |-> TRUE]
    <3>2. m \in mounts \cup skipped
      BY <2>0, <2>3, <3>1, PatternIsMounted
    <3>3. IsPrefix(writablePatternRoot(q), p)
      BY <2>3, <3>1, MatchedIsBelow
    <3> QED BY <3>2, <3>3 DEF Covered
  <2> QED BY <2>1, <2>2, <2>3 DEF ScopeOK
<1> QED BY <1>1, AccessStarts, AccessStep, PTL DEF AccessSpec

\* What is mounted for a directory with everything below it is that directory.
LEMMA ExactMount ==
  ASSUME NEW q, PatternOK(q), writablePatternRoot(q) # << >>, Exact(q),
         NEW p \in Paths, IsPrefix(writablePatternRoot(q), p)
  PROVE  matchPattern(q, p)
<1> DEFINE w == writablePatternRoot(q)
<1>1. w \in Seq(Segments) /\ w # << >> /\ ~ AtRoot(q) /\ Len(q) \in Nat /\ Len(q) >= 1
  BY RootOfPattern
<1>2. q \in Seq(Segments \cup Wild)
  <2>1. Head(<<NoName, "**">>) = NoName
    OBVIOUS
  <2> QED BY <1>1, <2>1 DEF PatternOK, AtRoot
<1>3. PICK k \in 0 .. Len(q) :
        /\ Static(q) = SubSeq(q, 1, k)
        /\ \A i \in 1 .. k : q[i] \notin Wild \cup {NoName}
        /\ k < Len(q) => q[k + 1] \in Wild \cup {NoName}
  BY <1>2, StaticEnds
<1>4. Len(q) > 1 /\ q[Len(q)] \in Wild /\ \A i \in 1 .. Len(q) - 1 : q[i] \notin Wild
  BY <1>1 DEF Exact, Inert, Deep, Last, Wild
<1>5. \A i \in 1 .. Len(q) - 1 : q[i] \notin Wild \cup {NoName}
  BY <1>2, <1>4, SegmentsAssumption, ElementOfSeq
<1>6. k = Len(q) - 1
  <2>1. k < Len(q)
    BY <1>1, <1>3, <1>4
  <2>2. k + 1 \in 1 .. Len(q) /\ k + 1 \notin 1 .. Len(q) - 1
    BY <1>1, <1>3, <1>5, <2>1
  <2> QED BY <1>1, <2>2
<1>7. w = Front(q)
  BY <1>3, <1>6 DEF writablePatternRoot, Exact, Front
<1> HIDE DEF w
<1>8. p # << >>
  <2> SUFFICES ASSUME p = << >> PROVE FALSE
    OBVIOUS
  <2>1. p \in Seq(Segments) /\ Len(p) = 0
    BY PathsAreSequences, EmptySeq
  <2>2. Len(w) <= Len(p)
    BY <1>1, <2>1, PrefixElements DEF w
  <2> QED BY <1>1, <2>1, <2>2, EmptySeq
<1> QED BY <1>7, <1>8 DEF matchPattern, Exact, w

(***************************************************************************)
(* What is mounted read-write the sandbox allows down to the last path     *)
(* below it, for every contract, but for the patterns the launcher does    *)
(* not mount exactly: "repo roots are read-only by default"                *)
(* (OPERATIONS.md, docker.go).                                             *)
(***************************************************************************)
THEOREM MountsAreAllowed == AccessSpec => []MountedIsAllowed
<1>1. AccessInv => MountedIsAllowed
  <2> SUFFICES ASSUME AccessInv, NEW m \in mounts, m.rw, m.root \in {r.root : r \in repos}
               PROVE  \/ m.path = <<".git">> /\ m.root \in control
                      \/ \A p \in Paths : IsPrefix(m.path, p) =>
                           \E s \in scopes : allows(s, m.root, p)
                      \/ /\ m.path # << >>
                         /\ \E s \in scopes : s.root = m.root /\ \E q \in s.patterns :
                              ~ Exact(q) /\ Reaches(q, m.path)
    BY DEF MountedIsAllowed
  <2>0. step = "running"
    BY DEF AccessInv
  <2>1. /\ context.scopes = scopes /\ context.control = control /\ m \in Volumes(context)
        /\ \A s \in scopes : ScopeOK(s)
    BY <2>0, Running
  <2>a. ASSUME Whole(m.root) \in scopes, NEW p PROVE \E s \in scopes : allows(s, m.root, p)
    BY <2>a, WholeOK DEF allows
  <2>2. CASE m = WorkspaceMount
    <3>1. Whole(m.root) \in scopes
      BY <2>0, <2>2 DEF AccessInv, WorkspaceMount
    <3> QED BY <2>a, <3>1
  <2>3. CASE m \in RepoMounts(context)
    <3>1. Whole(m.root) \in scopes
      <4>1. PICK root : m = [root |-> root, path |-> << >>, rw |-> Whole(root) \in context.scopes]
        BY <2>3 DEF RepoMounts
      <4>2. m.root = root /\ m.rw = (Whole(root) \in context.scopes)
        BY <4>1, Zenon
      <4> QED BY <2>1, <4>2
    <3> QED BY <2>a, <3>1
  <2>4. CASE m \in writableSubpathMounts(context)
    <3>0. PICK s \in scopes : \E q \in s.patterns :
            /\ ~ s.all /\ writablePatternRoot(q) # << >>
            /\ m = [root |-> s.root, path |-> writablePatternRoot(q), rw |-> TRUE]
      BY <2>1, <2>4 DEF writableSubpathMounts
    <3>1. PICK q \in s.patterns :
            /\ ~ s.all /\ writablePatternRoot(q) # << >>
            /\ m = [root |-> s.root, path |-> writablePatternRoot(q), rw |-> TRUE]
      BY <3>0
    <3>2. m.path = writablePatternRoot(q) /\ m.root = s.root
      BY <3>1
    <3>3. PatternOK(q)
      BY <2>1, <3>1 DEF ScopeOK, Whole
    <3>4. CASE Exact(q)
      <4>1. ASSUME NEW p \in Paths, IsPrefix(m.path, p) PROVE allows(s, m.root, p)
        <5>1. matchPattern(q, p)
          BY <3>1, <3>2, <3>3, <3>4, <4>1, ExactMount
        <5> QED BY <3>2, <5>1 DEF allows
      <4> QED BY <4>1
    <3>5. CASE ~ Exact(q)
      <4>1. IsPrefix(m.path, q)
        BY <3>1, <3>2, <3>3, MountBeginsPattern
      <4>2. ~ Inert(q) => \E p \in Paths : IsPrefix(m.path, p) /\ matchPattern(q, p)
        BY <3>1, <3>2, <3>3, MountHasPath
      <4>3. Reaches(q, m.path)
        BY <4>1, <4>2 DEF Reaches
      <4> QED BY <3>1, <3>2, <3>5, <4>3
    <3> QED BY <3>4, <3>5
  <2>5. CASE m \in repoControlMounts(context)
    BY <2>1, <2>5 DEF repoControlMounts
  <2> QED BY <2>1, <2>2, <2>3, <2>4, <2>5 DEF Volumes, Planned, Optional
<1> QED BY <1>1, AccessStarts, AccessStep, PTL DEF AccessSpec

------------------------------------------------------------------------------
(* The order of the stages.  First, the sorted sequence of a set of names:  *)
(* the number of names before a name is its place.                          *)

Preceding(S, s) == {t \in S : NameLess(t, s)}

LEMMA StagesFinite == IsFiniteSet(Stages)
<1>1. Len(Alphabet) \in Nat /\ DOMAIN Alphabet = 1 .. Len(Alphabet)
  BY AlphabetAssumption
<1>2. IsFiniteSet(DOMAIN Alphabet)
  BY <1>1, FS_Interval
<1>3. [n \in DOMAIN Alphabet |-> Alphabet[n]] \in Surjection(DOMAIN Alphabet, Stages)
  BY DEF Surjection, Stages
<1> QED BY <1>2, <1>3, FS_Surjection

\* The names are ordered by their places in the alphabet.
LEMMA NameOrder ==
  /\ \A s \in Stages : ~ NameLess(s, s)
  /\ \A s, t \in Stages : s # t => NameLess(s, t) \/ NameLess(t, s)
  /\ \A s, t, u \in Stages : NameLess(s, t) /\ NameLess(t, u) => NameLess(s, u)
<1>1. DOMAIN Alphabet \subseteq Nat
  BY AlphabetAssumption
<1>2. \A m, n \in DOMAIN Alphabet : Alphabet[m] = Alphabet[n] => m = n
  BY AlphabetAssumption
<1>3. \A s \in Stages : ~ NameLess(s, s)
  BY <1>1, <1>2 DEF NameLess
<1>4. ASSUME NEW s \in Stages, NEW t \in Stages, s # t
      PROVE  NameLess(s, t) \/ NameLess(t, s)
  <2>1. PICK m \in DOMAIN Alphabet, n \in DOMAIN Alphabet : Alphabet[m] = s /\ Alphabet[n] = t
    BY DEF Stages
  <2>2. m < n \/ n < m
    BY <1>1, <1>4, <2>1
  <2> QED BY <2>1, <2>2 DEF NameLess
<1>5. ASSUME NEW s \in Stages, NEW t \in Stages, NEW u \in Stages, NameLess(s, t), NameLess(t, u)
      PROVE  NameLess(s, u)
  <2>1. PICK a \in DOMAIN Alphabet, b \in DOMAIN Alphabet : a < b /\ Alphabet[a] = s /\ Alphabet[b] = t
    BY <1>5 DEF NameLess
  <2>2. PICK c \in DOMAIN Alphabet, d \in DOMAIN Alphabet : c < d /\ Alphabet[c] = t /\ Alphabet[d] = u
    BY <1>5 DEF NameLess
  <2>3. b = c
    BY <1>2, <2>1, <2>2
  <2>4. a < d
    BY <1>1, <2>1, <2>2, <2>3
  <2> QED BY <2>1, <2>2, <2>4 DEF NameLess
<1> QED BY <1>3, <1>4, <1>5

\* The places of the names of S are 0 .. |S| - 1, each taken once.
LEMMA Ranks ==
  ASSUME NEW S \in SUBSET Stages
  PROVE  /\ IsFiniteSet(S) /\ Cardinality(S) \in Nat
         /\ \A s \in S : /\ IsFiniteSet(Preceding(S, s))
                         /\ Cardinality(Preceding(S, s)) \in 0 .. Cardinality(S) - 1
         /\ \A s, t \in S : NameLess(s, t) =>
              Cardinality(Preceding(S, s)) < Cardinality(Preceding(S, t))
         /\ \A s, t \in S : Cardinality(Preceding(S, s)) = Cardinality(Preceding(S, t)) => s = t
         /\ \A n \in 0 .. Cardinality(S) - 1 : \E s \in S : Cardinality(Preceding(S, s)) = n
<1> DEFINE rank(s) == Cardinality(Preceding(S, s))
<1>1. IsFiniteSet(S) /\ Cardinality(S) \in Nat
  BY StagesFinite, FS_Subset, FS_CardinalityType
<1>2. ASSUME NEW s \in S
      PROVE  IsFiniteSet(Preceding(S, s)) /\ rank(s) \in 0 .. Cardinality(S) - 1
  <2>1. Preceding(S, s) \subseteq S \ {s}
    BY NameOrder DEF Preceding
  <2>2. IsFiniteSet(S \ {s}) /\ Cardinality(S \ {s}) = Cardinality(S) - 1
    BY <1>1, FS_RemoveElement
  <2>3. IsFiniteSet(Preceding(S, s)) /\ rank(s) <= Cardinality(S \ {s})
    BY <2>1, <2>2, FS_Subset
  <2>4. rank(s) \in Nat
    BY <2>3, FS_CardinalityType
  <2> QED BY <1>1, <2>2, <2>3, <2>4
<1>3. ASSUME NEW s \in S, NEW t \in S, NameLess(s, t)
      PROVE  rank(s) < rank(t)
  <2>1. Preceding(S, s) \cup {s} \subseteq Preceding(S, t) /\ s \notin Preceding(S, s)
    BY <1>3, NameOrder DEF Preceding
  <2>2. Cardinality(Preceding(S, s) \cup {s}) = rank(s) + 1
    BY <1>2, <2>1, FS_AddElement
  <2>3. rank(s) + 1 <= rank(t)
    BY <1>2, <2>1, <2>2, FS_Subset
  <2> QED BY <1>2, <2>3
<1>4. ASSUME NEW s \in S, NEW t \in S, rank(s) = rank(t)
      PROVE  s = t
  <2>1. rank(s) \in Nat /\ rank(t) \in Nat
    BY <1>2
  <2> HIDE DEF rank
  <2> QED BY <1>3, <1>4, <2>1, NameOrder
<1>5. \A n \in 0 .. Cardinality(S) - 1 : \E s \in S : rank(s) = n
  <2> DEFINE T == 0 .. Cardinality(S) - 1
             f == [s \in S |-> rank(s)]
  <2>1. f \in Injection(S, T)
    BY <1>2, <1>4 DEF Injection, IsInjective
  <2>2. IsFiniteSet(T) /\ Cardinality(T) = Cardinality(S)
    BY <1>1, FS_Interval
  <2>3. f \in Surjection(S, T)
    <3> HIDE DEF f, T
    <3> QED BY <2>1, <2>2, FS_Injection
  <2> QED BY <2>3 DEF Surjection
<1> QED BY <1>1, <1>2, <1>3, <1>4, <1>5

\* The sorted sequence has every name once, and begins with the first.
LEMMA Sorted ==
  ASSUME NEW S \in SUBSET Stages
  PROVE  /\ ByName(S) \in Seq(S) /\ Len(ByName(S)) = Cardinality(S)
         /\ ToSet(ByName(S)) = S
         /\ S = {} <=> ByName(S) = << >>
         /\ S # {} => /\ Head(ByName(S)) = FirstByName(S)
                      /\ FirstByName(S) \in S
                      /\ ToSet(Tail(ByName(S))) = S \ {FirstByName(S)}
<1> DEFINE N == Cardinality(S)
           rank(s) == Cardinality(Preceding(S, s))
           b == ByName(S)
<1>1. /\ IsFiniteSet(S) /\ N \in Nat
      /\ \A s \in S : IsFiniteSet(Preceding(S, s)) /\ rank(s) \in 0 .. N - 1
      /\ \A s, t \in S : rank(s) = rank(t) => s = t
      /\ \A n \in 0 .. N - 1 : \E s \in S : rank(s) = n
  BY Ranks
<1>2. b = [n \in 1 .. N |-> CHOOSE s \in S : rank(s) = n - 1]
  BY DEF ByName, Preceding
<1>3. \A n \in 1 .. N : b[n] \in S /\ rank(b[n]) = n - 1
  <2> SUFFICES ASSUME NEW n \in 1 .. N
               PROVE  b[n] \in S /\ rank(b[n]) = n - 1
    OBVIOUS
  <2>1. n - 1 \in 0 .. N - 1
    BY <1>1
  <2>2. \E s \in S : rank(s) = n - 1
    BY <1>1, <2>1
  <2>3. b[n] = CHOOSE s \in S : rank(s) = n - 1
    BY <1>2
  <2> HIDE DEF b, rank
  <2> QED BY <2>2, <2>3
<1>4. DOMAIN b = 1 .. N
  BY <1>2
<1> HIDE DEF b
<1>5. b \in Seq(S) /\ Len(b) = N
  <2>1. b \in [1 .. N -> S]
    BY <1>2, <1>3, <1>4
  <2> QED BY <1>1, <2>1
<1>6. \A s \in S : rank(s) + 1 \in 1 .. N /\ b[rank(s) + 1] = s
  <2> SUFFICES ASSUME NEW s \in S
               PROVE  rank(s) + 1 \in 1 .. N /\ b[rank(s) + 1] = s
    OBVIOUS
  <2>1. rank(s) + 1 \in 1 .. N /\ (rank(s) + 1) - 1 = rank(s)
    BY <1>1
  <2> HIDE DEF rank
  <2> QED BY <1>1, <1>3, <2>1
<1>7. ToSet(b) = S
  BY <1>3, <1>4, <1>6 DEF ToSet
<1>8. S = {} <=> b = << >>
  BY <1>1, <1>5, FS_EmptySet, EmptySeq
<1>9. ASSUME S # {}
      PROVE  Head(b) = FirstByName(S) /\ FirstByName(S) \in S
  <2>1. 1 \in 1 .. N
    BY <1>1, <1>9, FS_EmptySet
  <2>2. b[1] \in S /\ rank(b[1]) = 0
    BY <1>3, <2>1
  <2>3. Preceding(S, b[1]) = {}
    BY <1>1, <2>2, FS_EmptySet
  <2>4. \A t \in S \ {b[1]} : NameLess(b[1], t)
    BY <2>2, <2>3, NameOrder DEF Preceding
  <2>5. ASSUME NEW s \in S, \A t \in S \ {s} : NameLess(s, t)
        PROVE  s = b[1]
    <3> SUFFICES ASSUME s # b[1] PROVE FALSE
      OBVIOUS
    <3>1. NameLess(s, b[1]) /\ NameLess(b[1], s)
      BY <2>2, <2>4, <2>5
    <3> QED BY <2>2, <3>1, NameOrder
  <2>6. FirstByName(S) = b[1]
    BY <2>2, <2>4, <2>5 DEF FirstByName
  <2>7. Head(b) = b[1]
    BY <1>5, <1>8, <1>9
  <2> QED BY <2>2, <2>6, <2>7
<1>10. ASSUME S # {}
       PROVE  ToSet(Tail(b)) = S \ {FirstByName(S)}
  <2>1. b # << >> /\ Head(b) = b[1] /\ 1 \in 1 .. N
    BY <1>1, <1>5, <1>8, <1>10, FS_EmptySet
  <2>2. /\ Len(Tail(b)) = N - 1 /\ DOMAIN Tail(b) = 1 .. N - 1
        /\ \A i \in 1 .. N - 1 : Tail(b)[i] = b[i + 1]
    BY <1>5, <2>1, HeadTailProperties
  <2>3. \A i \in 1 .. N - 1 : b[i + 1] \in S /\ b[i + 1] # b[1]
    <3> SUFFICES ASSUME NEW i \in 1 .. N - 1
                 PROVE  b[i + 1] \in S /\ b[i + 1] # b[1]
      OBVIOUS
    <3>1. i + 1 \in 1 .. N
      BY <1>1
    <3>2. rank(b[i + 1]) = (i + 1) - 1 /\ rank(b[1]) = 1 - 1 /\ b[i + 1] \in S
      BY <1>3, <2>1, <3>1
    <3>3. (i + 1) - 1 # 1 - 1
      OBVIOUS
    <3> HIDE DEF rank
    <3> QED BY <3>2, <3>3
  <2>4. ASSUME NEW s \in S, s # b[1]
        PROVE  \E i \in 1 .. N - 1 : b[i + 1] = s
    <3>1. rank(s) + 1 \in 1 .. N /\ b[rank(s) + 1] = s
      BY <1>6
    <3>2. rank(s) \in 0 .. N - 1
      BY <1>1
    <3> HIDE DEF rank
    <3>3. rank(s) # 0
      BY <2>4, <3>1
    <3> QED BY <1>1, <3>1, <3>2, <3>3
  <2>5. FirstByName(S) = b[1]
    BY <1>9, <1>10, <2>1
  <2> DEFINE t == Tail(b)
             M == 1 .. N - 1
  <2>6. DOMAIN t = M /\ \A i \in M : t[i] = b[i + 1]
    BY <2>2
  <2> HIDE DEF t, M
  <2>7. \A i \in M : t[i] \in S \ {b[1]}
    BY <2>3, <2>6 DEF M
  <2>8. \A x \in S \ {b[1]} : \E i \in M : t[i] = x
    BY <2>4, <2>6 DEF M
  <2>9. ToSet(t) = S \ {b[1]}
    BY <2>6, <2>7, <2>8 DEF ToSet
  <2> QED BY <2>5, <2>9 DEF t
<1> QED BY <1>5, <1>7, <1>8, <1>9, <1>10 DEF b

(* Kahn's algorithm.                                                        *)

\* One turn of the loop, on the stages placed so far.
Turn(plan, placed) ==
  IF Unblocked(plan, ToSet(placed)) = {} THEN placed
  ELSE Append(placed, FirstByName(Unblocked(plan, ToSet(placed))))

Turns(plan, last, k) ==
  k = [n \in 0 .. last |-> IF n = 0 THEN << >> ELSE Turn(plan, k[n - 1])]

LEMMA TurnsExist ==
  ASSUME NEW plan, NEW last \in Nat
  PROVE  \E k : Turns(plan, last, k)
<1> DEFINE P == {n \in Nat : \E k : Turns(plan, n, k)}
<1>1. 0 \in P
  <2>1. Turns(plan, 0, [n \in 0 .. 0 |-> << >>])
    BY DEF Turns
  <2> QED BY <2>1
<1>2. ASSUME NEW n \in Nat, n \in P
      PROVE  n + 1 \in P
  <2>1. PICK k : Turns(plan, n, k)
    BY <1>2
  <2> DEFINE h == [i \in 0 .. n + 1 |-> IF i = 0 THEN << >> ELSE Turn(plan, k[i - 1])]
  <2>2. \A i \in 0 .. n : k[i] = IF i = 0 THEN << >> ELSE Turn(plan, k[i - 1])
    BY <2>1, Zenon DEF Turns
  <2>3. \A i \in 0 .. n : i \in 0 .. n + 1 /\ h[i] = k[i]
    BY <2>2
  <2>4. \A i \in 0 .. n + 1 : i # 0 => i - 1 \in 0 .. n
    OBVIOUS
  <2>5. \A i \in 0 .. n + 1 : h[i] = IF i = 0 THEN << >> ELSE Turn(plan, h[i - 1])
    <3> SUFFICES ASSUME NEW i \in 0 .. n + 1
                 PROVE  h[i] = IF i = 0 THEN << >> ELSE Turn(plan, h[i - 1])
      OBVIOUS
    <3>1. h[i] = IF i = 0 THEN << >> ELSE Turn(plan, k[i - 1])
      OBVIOUS
    <3>2. i # 0 => h[i - 1] = k[i - 1]
      BY <2>3, <2>4
    <3> HIDE DEF h
    <3> QED BY <3>1, <3>2
  <2>6. h = [i \in 0 .. n + 1 |-> IF i = 0 THEN << >> ELSE Turn(plan, h[i - 1])]
    BY <2>5
  <2>7. Turns(plan, n + 1, h)
    BY <2>6, Zenon DEF Turns
  <2> QED BY <2>7
<1> HIDE DEF P
<1>3. last \in P
  BY <1>1, <1>2, Induction
<1> QED BY <1>3 DEF P

\* The function Kahn defines is the recursion's solution.
LEMMA KahnTurns ==
  ASSUME NEW plan, Cardinality(DOMAIN plan) \in Nat
  PROVE  /\ Kahn(plan)[0] = << >>
         /\ \A n \in 1 .. Cardinality(DOMAIN plan) :
              Kahn(plan)[n] = Turn(plan, Kahn(plan)[n - 1])
<1> DEFINE last == Cardinality(DOMAIN plan)
           k == CHOOSE kahn : kahn =
                  [n \in 0 .. Cardinality(DOMAIN plan) |->
                     IF n = 0 THEN << >>
                     ELSE IF Unblocked(plan, ToSet(kahn[n - 1])) = {} THEN kahn[n - 1]
                          ELSE Append(kahn[n - 1], FirstByName(Unblocked(plan, ToSet(kahn[n - 1]))))]
<1>1. Kahn(plan) = k
  BY Zenon DEF Kahn
<1>2. Turns(plan, last, k)
  <2>1. PICK g : Turns(plan, last, g)
    BY TurnsExist
  <2>2. g = [n \in 0 .. Cardinality(DOMAIN plan) |->
                     IF n = 0 THEN << >>
                     ELSE IF Unblocked(plan, ToSet(g[n - 1])) = {} THEN g[n - 1]
                          ELSE Append(g[n - 1], FirstByName(Unblocked(plan, ToSet(g[n - 1]))))]
    BY <2>1, Zenon DEF Turns, Turn
  <2>3. k = [n \in 0 .. Cardinality(DOMAIN plan) |->
                     IF n = 0 THEN << >>
                     ELSE IF Unblocked(plan, ToSet(k[n - 1])) = {} THEN k[n - 1]
                          ELSE Append(k[n - 1], FirstByName(Unblocked(plan, ToSet(k[n - 1]))))]
    BY <2>2, Zenon
  <2> QED BY <2>3, Zenon DEF Turns, Turn
<1> HIDE DEF k
<1>3. \A n \in 0 .. last : k[n] = IF n = 0 THEN << >> ELSE Turn(plan, k[n - 1])
  BY <1>2, Zenon DEF Turns
<1>4. 0 \in 0 .. last /\ \A n \in 1 .. last : n \in 0 .. last /\ n # 0
  OBVIOUS
<1> QED BY <1>1, <1>3, <1>4

\* Once no stage is unblocked, nothing is placed any more.
LEMMA KahnEnds ==
  ASSUME NEW plan, Cardinality(DOMAIN plan) \in Nat, NEW n \in 0 .. Cardinality(DOMAIN plan),
         Unblocked(plan, ToSet(Kahn(plan)[n])) = {}
  PROVE  Kahn(plan)[Cardinality(DOMAIN plan)] = Kahn(plan)[n]
<1> DEFINE last == Cardinality(DOMAIN plan)
           k == Kahn(plan)
           P == {i \in Nat : n + i <= last => k[n + i] = k[n]}
<1>1. 0 \in P
  OBVIOUS
<1>2. ASSUME NEW i \in Nat, i \in P
      PROVE  i + 1 \in P
  <2> SUFFICES ASSUME n + (i + 1) <= last
               PROVE  k[n + (i + 1)] = k[n]
    OBVIOUS
  <2>1. n + (i + 1) \in 1 .. last /\ (n + (i + 1)) - 1 = n + i /\ n + i <= last
    OBVIOUS
  <2>2. k[n + (i + 1)] = Turn(plan, k[n + i])
    BY <2>1, KahnTurns
  <2>3. k[n + i] = k[n]
    BY <1>2, <2>1
  <2> HIDE DEF k
  <2> QED BY <2>2, <2>3 DEF Turn, k
<1> HIDE DEF P
<1>3. last - n \in Nat /\ n + (last - n) = last
  OBVIOUS
<1>4. last - n \in P
  BY <1>1, <1>2, <1>3, Induction
<1> QED BY <1>3, <1>4 DEF P

(* The loop.                                                                *)

\* The stages placed are stages of the plan, each once, and each after those
\* of the plan that it depends on.
Placed ==
  /\ ordered \in Seq(names)
  /\ \A m, n \in DOMAIN ordered : ordered[m] = ordered[n] => m = n
  /\ \A n \in DOMAIN ordered : \A d \in names :
       listed[ordered[n]][d] > 0 => \E m \in 1 .. n - 1 : ordered[m] = d

OrderInv ==
  /\ names \subseteq Stages
  /\ listed \in [names -> [Stages -> Nat]]
  /\ done \in BOOLEAN
  /\ ~ done => /\ Placed
               /\ indegree = [s \in names |-> Open(s, ToSet(ordered))]
               /\ ready = ByName(Unblocked(AsPlan, ToSet(ordered)))
               /\ Len(ordered) <= Cardinality(names)
               /\ ordered = Kahn(AsPlan)[Len(ordered)]
  /\ done => ordered = SpecsInOrder(AsPlan)

\* What the counters say: a stage of the plan is unblocked when none of its
\* dependencies is open, and placing a stage closes what lists it.
LEMMA Counters ==
  ASSUME OrderInv, NEW P \in SUBSET names, NEW s \in names
  PROVE  /\ Open(s, P) \in Nat
         /\ Open(s, P) = 0 <=> \A d \in names \ P : ~ (listed[s][d] > 0)
         /\ \A x \in names \ P : Open(s, P \cup {x}) = Open(s, P) - listed[s][x]
<1> DEFINE f == listed[s]
           T == names \ P
<1>1. f \in [Stages -> Nat] /\ f \in [Stages -> Int] /\ names \subseteq Stages
  BY DEF OrderInv
<1>2. T \in SUBSET Stages /\ IsFiniteSet(T)
  BY <1>1, StagesFinite, FS_Subset
<1>3. \A d \in T : f[d] \in Nat
  BY <1>1, <1>2
<1> HIDE DEF f, T
<1>4. Open(s, P) = SumFunctionOnSet(f, T)
  BY DEF Open, f, T
<1>5. SumFunctionOnSet(f, T) \in Nat /\ (SumFunctionOnSet(f, T) = 0 <=> \A d \in T : f[d] = 0)
  BY <1>1, <1>2, SumOfNaturals
<1>6. \A d \in T : f[d] = 0 <=> ~ (f[d] > 0)
  BY <1>3
<1>7. ASSUME NEW x \in T
      PROVE  Open(s, P \cup {x}) = Open(s, P) - f[x]
  <2>1. SumFunctionOnSet(f, T) = f[x] + SumFunctionOnSet(f, T \ {x})
    BY <1>1, <1>2, SumPoint
  <2>2. T \ {x} = names \ (P \cup {x})
    BY DEF T
  <2>3. Open(s, P \cup {x}) = SumFunctionOnSet(f, T \ {x})
    BY <2>2 DEF Open, f
  <2>4. IsFiniteSet(T \ {x}) /\ T \ {x} \in SUBSET Stages
    BY <1>2, FS_Subset
  <2>5. SumFunctionOnSet(f, T \ {x}) \in Nat
    BY <1>1, <2>4, SumOfNaturals
  <2> QED BY <1>3, <1>4, <1>5, <2>1, <2>3, <2>5
<1> QED BY <1>4, <1>5, <1>6, <1>7 DEF f, T

LEMMA UnblockedIsClosed ==
  ASSUME OrderInv, NEW P \in SUBSET names
  PROVE  /\ Unblocked(AsPlan, P) = {s \in names \ P : Open(s, P) = 0}
         /\ Unblocked(AsPlan, P) \subseteq Stages
         /\ DOMAIN AsPlan = names
<1>1. DOMAIN AsPlan = names /\ names \subseteq Stages
  BY DEF AsPlan, OrderInv
<1>2. ASSUME NEW s \in names \ P
      PROVE  AsPlan[s].deps \cap names \subseteq P <=> Open(s, P) = 0
  <2>1. AsPlan[s].deps = {d \in Stages : listed[s][d] > 0}
    BY DEF AsPlan
  <2>2. AsPlan[s].deps \cap names \subseteq P <=> \A d \in names \ P : ~ (listed[s][d] > 0)
    BY <1>1, <2>1
  <2> QED BY <2>2, Counters
<1>3. Unblocked(AsPlan, P) = {s \in names \ P : AsPlan[s].deps \cap names \subseteq P}
  BY <1>1 DEF Unblocked
<1> QED BY <1>1, <1>2, <1>3

LEMMA OrderStarts ==
  ASSUME OrderInit
  PROVE  OrderInv
<1>1. PICK S \in SUBSET Stages : listed \in [S -> [Stages -> 0 .. MaxRepeat]]
  BY DEF OrderInit
<1>2. names = S /\ listed \in [names -> [Stages -> Nat]]
  BY <1>1, MaxRepeatAssumption DEF names
<1>3. /\ ordered = << >> /\ done = FALSE /\ indegree = [s \in names |-> Open(s, {})]
      /\ ready = ByName({s \in names : indegree[s] = 0})
  BY DEF OrderInit
<1>4. ToSet(ordered) = {} /\ Len(ordered) = 0 /\ ordered \in Seq(names)
  BY <1>3 DEF ToSet
<1>5. /\ Cardinality(names) \in Nat /\ DOMAIN AsPlan = names
  BY <1>2, StagesFinite, FS_Subset, FS_CardinalityType DEF AsPlan
<1>6. ordered = Kahn(AsPlan)[Len(ordered)]
  BY <1>3, <1>4, <1>5, KahnTurns
<1>7. Placed
  BY <1>3, <1>4 DEF Placed
<1>8. ASSUME NEW s \in names
      PROVE  Open(s, {}) = 0 <=> \A d \in names : ~ (listed[s][d] > 0)
  <2> DEFINE f == listed[s]
  <2>1. f \in [Stages -> Nat] /\ names \in SUBSET Stages /\ IsFiniteSet(names)
    BY <1>2, StagesFinite, FS_Subset
  <2> HIDE DEF f
  <2>2. SumFunctionOnSet(f, names) = 0 <=> \A d \in names : f[d] = 0
    BY <2>1, SumOfNaturals
  <2>3. \A d \in names : f[d] = 0 <=> ~ (f[d] > 0)
    BY <2>1
  <2>4. names \ {} = names
    OBVIOUS
  <2> QED BY <2>2, <2>3, <2>4 DEF Open, f
<1>9. {s \in names : indegree[s] = 0} = Unblocked(AsPlan, ToSet(ordered))
  <2>1. \A s \in names : AsPlan[s].deps = {d \in Stages : listed[s][d] > 0}
    BY DEF AsPlan
  <2>2. \A s \in names : indegree[s] = Open(s, {})
    BY <1>3
  <2>3. ASSUME NEW s \in names
        PROVE  indegree[s] = 0 <=> AsPlan[s].deps \cap names \subseteq {}
    BY <1>2, <1>8, <2>1, <2>2
  <2> QED BY <1>4, <1>5, <2>3 DEF Unblocked
<1>10. ready = ByName(Unblocked(AsPlan, ToSet(ordered)))
  BY <1>3, <1>9
<1>11. indegree = [s \in names |-> Open(s, ToSet(ordered))]
  BY <1>3, <1>4
<1>12. Len(ordered) <= Cardinality(names)
  BY <1>4, <1>5
<1> QED BY <1>1, <1>2, <1>3, <1>6, <1>7, <1>10, <1>11, <1>12 DEF OrderInv

\* As many stages are placed as the sequence is long, and at most all of them.
LEMMA RoomFor ==
  ASSUME OrderInv, Placed, NEW name \in names \ ToSet(ordered)
  PROVE  Len(ordered) + 1 <= Cardinality(names)
<1> DEFINE T == names \ {name}
           f == [n \in 1 .. Len(ordered) |-> ordered[n]]
<1>1. /\ ordered \in Seq(names) /\ Len(ordered) \in Nat /\ DOMAIN ordered = 1 .. Len(ordered)
      /\ \A m, n \in DOMAIN ordered : ordered[m] = ordered[n] => m = n
  BY DEF Placed
<1>2. IsFiniteSet(names) /\ Cardinality(names) \in Nat
  BY StagesFinite, FS_Subset, FS_CardinalityType DEF OrderInv
<1>3. IsFiniteSet(T) /\ Cardinality(T) = Cardinality(names) - 1
  BY <1>2, FS_RemoveElement
<1>4. f \in Injection(1 .. Len(ordered), T)
  <2>1. \A n \in 1 .. Len(ordered) : ordered[n] \in T
    BY <1>1 DEF ToSet
  <2> QED BY <1>1, <2>1 DEF Injection, IsInjective
<1>5. Cardinality(1 .. Len(ordered)) <= Cardinality(T)
  <2> HIDE DEF f, T
  <2> QED BY <1>3, <1>4, FS_Injection
<1>6. Cardinality(1 .. Len(ordered)) = Len(ordered)
  BY <1>1, FS_Interval
<1> QED BY <1>1, <1>2, <1>3, <1>5, <1>6

LEMMA PlacePlaces ==
  ASSUME OrderInv, Placed, NEW name \in Unblocked(AsPlan, ToSet(ordered)),
         ordered' = Append(ordered, name), listed' = listed
  PROVE  Placed' /\ Len(ordered') = Len(ordered) + 1 /\ ToSet(ordered') = ToSet(ordered) \cup {name}
<1> DEFINE P == ToSet(ordered)
<1>1. /\ ordered \in Seq(names) /\ Len(ordered) \in Nat /\ DOMAIN ordered = 1 .. Len(ordered)
      /\ \A m, n \in DOMAIN ordered : ordered[m] = ordered[n] => m = n
      /\ \A n \in DOMAIN ordered : \A d \in names :
           listed[ordered[n]][d] > 0 => \E m \in 1 .. n - 1 : ordered[m] = d
  BY DEF Placed
<1>2. P \in SUBSET names
  BY <1>1 DEF ToSet
<1>3. name \in names \ P /\ Open(name, P) = 0
  BY <1>2, UnblockedIsClosed
<1>4. \A d \in names : listed[name][d] > 0 => d \in P
  BY <1>2, <1>3, Counters
<1>5. /\ ordered' \in Seq(names) /\ Len(ordered') = Len(ordered) + 1
      /\ DOMAIN ordered' = 1 .. Len(ordered) + 1
      /\ ordered'[Len(ordered) + 1] = name
      /\ \A n \in 1 .. Len(ordered) : ordered'[n] = ordered[n]
  BY <1>1, <1>3
<1>6. ToSet(ordered') = P \cup {name}
  <2>1. \A n \in 1 .. Len(ordered) + 1 : n \in 1 .. Len(ordered) \/ n = Len(ordered) + 1
    BY <1>1
  <2>2. 1 .. Len(ordered) \subseteq 1 .. Len(ordered) + 1 /\ Len(ordered) + 1 \in 1 .. Len(ordered) + 1
    BY <1>1
  <2> QED BY <1>1, <1>5, <2>1, <2>2 DEF ToSet
<1>7. \A n \in 1 .. Len(ordered) : ordered[n] # name
  BY <1>1, <1>3 DEF ToSet
<1>8. names' = names
  BY DEF names
<1>9. ASSUME NEW m \in DOMAIN ordered', NEW n \in DOMAIN ordered', ordered'[m] = ordered'[n]
      PROVE  m = n
  <2>1. CASE m \in 1 .. Len(ordered) /\ n \in 1 .. Len(ordered)
    BY <1>1, <1>5, <1>9, <2>1
  <2>2. CASE m = Len(ordered) + 1 \/ n = Len(ordered) + 1
    <3>1. \A i \in DOMAIN ordered' : i = Len(ordered) + 1 \/ (i \in 1 .. Len(ordered) /\ ordered'[i] # name)
      BY <1>1, <1>5, <1>7
    <3> QED BY <1>5, <1>9, <2>2, <3>1
  <2> QED BY <1>1, <1>5, <2>1, <2>2
<1>10. ASSUME NEW n \in DOMAIN ordered', NEW d \in names, listed[ordered'[n]][d] > 0
       PROVE  \E m \in 1 .. n - 1 : ordered'[m] = d
  <2>1. CASE n \in 1 .. Len(ordered)
    <3>1. PICK m \in 1 .. n - 1 : ordered[m] = d
      BY <1>1, <1>5, <1>10, <2>1
    <3>2. m \in 1 .. Len(ordered)
      BY <1>1, <2>1
    <3> QED BY <1>5, <3>1, <3>2
  <2>2. CASE n = Len(ordered) + 1
    <3>1. d \in P
      BY <1>4, <1>5, <1>10, <2>2
    <3>2. PICK m \in 1 .. Len(ordered) : ordered[m] = d
      BY <1>1, <3>1 DEF ToSet
    <3>3. m \in 1 .. n - 1
      BY <1>1, <2>2
    <3> QED BY <1>5, <3>2, <3>3
  <2> QED BY <1>1, <1>5, <2>1, <2>2
<1>11. Placed'
  BY <1>5, <1>8, <1>9, <1>10 DEF Placed
<1> QED BY <1>5, <1>6, <1>11

LEMMA PlaceStep ==
  ASSUME OrderInv, ~ done, Place
  PROVE  OrderInv'
<1> DEFINE P == ToSet(ordered)
           U == Unblocked(AsPlan, P)
           name == Head(ready)
           Q == P \cup {name}
           left == [s \in names |-> indegree[s] - listed[s][name]]
           fresh == {s \in names : indegree[s] > 0 /\ left[s] = 0}
<1>1. /\ names \subseteq Stages /\ listed \in [names -> [Stages -> Nat]] /\ Placed
      /\ indegree = [s \in names |-> Open(s, P)] /\ ready = ByName(U)
      /\ Len(ordered) <= Cardinality(names) /\ ordered = Kahn(AsPlan)[Len(ordered)]
  BY DEF OrderInv
<1>2. /\ ready # << >> /\ ordered' = Append(ordered, name) /\ indegree' = left
      /\ ready' = ByName(ToSet(Tail(ready)) \cup fresh) /\ listed' = listed /\ done' = done
  BY DEF Place
<1>3. P \in SUBSET names /\ Len(ordered) \in Nat
  BY <1>1 DEF Placed, ToSet
<1>4. U = {s \in names \ P : Open(s, P) = 0} /\ U \subseteq Stages /\ DOMAIN AsPlan = names
  BY <1>3, UnblockedIsClosed
<1>5. /\ U # {} /\ name = FirstByName(U) /\ name \in U /\ ToSet(Tail(ready)) = U \ {name}
  <2>1. ready = ByName(U) /\ U \subseteq Stages /\ ready # << >>
    BY <1>1, <1>2, <1>4
  <2> HIDE DEF U
  <2>2. U # {}
    BY <2>1, Sorted
  <2> QED BY <2>1, <2>2, Sorted
<1>6. Placed' /\ Len(ordered') = Len(ordered) + 1 /\ ToSet(ordered') = Q
  BY <1>1, <1>2, <1>5, PlacePlaces
<1>7. names' = names /\ AsPlan' = AsPlan
  BY <1>2 DEF names, AsPlan
<1>8. name \in names \ P /\ Q \in SUBSET names
  BY <1>3, <1>4, <1>5
<1>9. \A s \in names : /\ Open(s, P) \in Nat /\ Open(s, Q) \in Nat
                       /\ Open(s, Q) = Open(s, P) - listed[s][name]
  <2> HIDE DEF P, name
  <2> QED BY <1>3, <1>8, Counters
<1>10. left = [s \in names |-> Open(s, Q)]
  <2>1. \A s \in names : left[s] = Open(s, Q)
    BY <1>1, <1>9
  <2> QED BY <2>1
<1>11. indegree' = [s \in names' |-> Open(s, ToSet(ordered))']
  <2>1. \A s \in names : Open(s, ToSet(ordered))' = Open(s, Q)
    BY <1>2, <1>6, <1>7 DEF Open
  <2> QED BY <1>2, <1>7, <1>10, <2>1
<1>12. Unblocked(AsPlan, Q) = {s \in names \ Q : Open(s, Q) = 0}
  BY <1>8, UnblockedIsClosed
<1>13. \A s \in P : Open(s, P) = 0
  <2> SUFFICES ASSUME NEW s \in P PROVE Open(s, P) = 0
    OBVIOUS
  <2>1. PICK n \in DOMAIN ordered : ordered[n] = s
    BY DEF ToSet
  <2>2. \A d \in names : listed[s][d] > 0 => \E m \in 1 .. n - 1 : ordered[m] = d
    BY <1>1, <2>1 DEF Placed
  <2>3. \A m \in 1 .. n - 1 : m \in DOMAIN ordered
    BY <1>1, <2>1 DEF Placed
  <2>4. \A d \in names : listed[s][d] > 0 => d \in P
    BY <2>2, <2>3 DEF ToSet
  <2> QED BY <1>3, <2>4, Counters
<1>14. (U \ {name}) \cup fresh = Unblocked(AsPlan, Q)
  <2>1. fresh = {s \in names : Open(s, P) > 0 /\ Open(s, Q) = 0}
    BY <1>1, <1>10
  <2>2. \A s \in names : Open(s, P) = 0 => Open(s, Q) = 0
    <3> SUFFICES ASSUME NEW s \in names, Open(s, P) = 0 PROVE Open(s, Q) = 0
      OBVIOUS
    <3>1. listed[s][name] \in Nat
      BY <1>1, <1>8
    <3> QED BY <1>9, <3>1
  <2>3. \A s \in names : Open(s, P) > 0 <=> Open(s, P) # 0
    BY <1>9
  <2>4. Open(name, P) = 0
    BY <1>4, <1>5
  <2> HIDE DEF fresh, U, P, name
  <2> QED BY <1>3, <1>4, <1>5, <1>8, <1>12, <1>13, <2>1, <2>2, <2>3, <2>4
<1>15. ready' = ByName(Unblocked(AsPlan, ToSet(ordered)))'
  <2>1. ready' = ByName(Unblocked(AsPlan, Q))
    BY <1>2, <1>5, <1>14
  <2> QED BY <1>6, <1>7, <2>1
<1>16. Len(ordered) + 1 <= Cardinality(names) /\ Cardinality(names) \in Nat
  <2>1. name \in names \ ToSet(ordered)
    BY <1>8
  <2>2. IsFiniteSet(names)
    BY <1>1, StagesFinite, FS_Subset
  <2> HIDE DEF name
  <2> QED BY <1>1, <2>1, <2>2, RoomFor, FS_CardinalityType
<1>17. ordered' = Kahn(AsPlan)[Len(ordered) + 1]
  <2>1. Len(ordered) + 1 \in 1 .. Cardinality(DOMAIN AsPlan) /\ (Len(ordered) + 1) - 1 = Len(ordered)
    BY <1>3, <1>4, <1>16
  <2>2. Kahn(AsPlan)[Len(ordered) + 1] = Turn(AsPlan, Kahn(AsPlan)[Len(ordered)])
    BY <1>4, <1>16, <2>1, KahnTurns
  <2>3. Turn(AsPlan, ordered) = Append(ordered, name)
    BY <1>5 DEF Turn
  <2> QED BY <1>1, <1>2, <2>2, <2>3
<1>18. (ordered = Kahn(AsPlan)[Len(ordered)])'
  <2>1. Kahn(AsPlan)' = Kahn(AsPlan)
    BY <1>7
  <2> QED BY <1>6, <1>17, <2>1
<1> HIDE DEF left, fresh, name, P, Q, U
<1>19. (~ done => /\ Placed
                  /\ indegree = [s \in names |-> Open(s, ToSet(ordered))]
                  /\ ready = ByName(Unblocked(AsPlan, ToSet(ordered)))
                  /\ Len(ordered) <= Cardinality(names)
                  /\ ordered = Kahn(AsPlan)[Len(ordered)])'
  BY <1>6, <1>7, <1>11, <1>15, <1>16, <1>18
<1>20. (names \subseteq Stages /\ listed \in [names -> [Stages -> Nat]] /\ done \in BOOLEAN)'
  <2>1. listed' \in [names -> [Stages -> Nat]]
    BY <1>1, <1>2
  <2>2. done' \in BOOLEAN
    BY <1>2 DEF OrderInv
  <2> QED BY <1>1, <1>7, <2>1, <2>2
<1>21. (done => ordered = SpecsInOrder(AsPlan))'
  BY <1>2
<1> QED BY <1>19, <1>20, <1>21 DEF OrderInv

LEMMA ReturnStep ==
  ASSUME OrderInv, Return
  PROVE  OrderInv'
<1> DEFINE P == ToSet(ordered)
           U == Unblocked(AsPlan, P)
           n == Len(ordered)
<1>1. /\ ~ done /\ done' = TRUE /\ listed' = listed /\ ready = << >>
      /\ ordered' = ordered \o ByName(names \ P)
  BY DEF Return
<1>2. /\ names \subseteq Stages /\ listed \in [names -> [Stages -> Nat]] /\ Placed
      /\ ready = ByName(U)
      /\ n <= Cardinality(names) /\ ordered = Kahn(AsPlan)[n]
  BY <1>1 DEF OrderInv
<1>3. P \in SUBSET names /\ n \in Nat
  BY <1>2 DEF Placed, ToSet
<1>4. U \subseteq Stages /\ DOMAIN AsPlan = names
  BY <1>3, UnblockedIsClosed
<1>5. U = {}
  <2> HIDE DEF U
  <2> QED BY <1>1, <1>2, <1>4, Sorted
<1>6. Cardinality(names) \in Nat
  BY <1>2, StagesFinite, FS_Subset, FS_CardinalityType
<1>7. Kahn(AsPlan)[Cardinality(DOMAIN AsPlan)] = ordered
  <2>1. n \in 0 .. Cardinality(DOMAIN AsPlan)
    BY <1>2, <1>3, <1>4, <1>6
  <2>2. Unblocked(AsPlan, ToSet(Kahn(AsPlan)[n])) = {}
    BY <1>2, <1>5
  <2> HIDE DEF n
  <2> QED BY <1>2, <1>4, <1>6, <2>1, <2>2, KahnEnds
<1>8. SpecsInOrder(AsPlan) = ordered'
  BY <1>1, <1>4, <1>7 DEF SpecsInOrder
<1>9. names' = names /\ AsPlan' = AsPlan
  BY <1>1 DEF names, AsPlan
<1>10. (ordered = SpecsInOrder(AsPlan))'
  <2>1. SpecsInOrder(AsPlan)' = SpecsInOrder(AsPlan)
    BY <1>9
  <2> QED BY <1>8, <2>1
<1>11. (names \subseteq Stages /\ listed \in [names -> [Stages -> Nat]] /\ done \in BOOLEAN)'
  BY <1>1, <1>2, <1>9
<1> QED BY <1>1, <1>10, <1>11 DEF OrderInv

\* A behaviour that has returned is at its end: nothing is ready then.
ReadyDone == done => ready = << >>

LEMMA ReadyDoneStep ==
  /\ OrderInit => ReadyDone
  /\ ReadyDone /\ [OrderNext]_orderVars => ReadyDone'
BY DEF ReadyDone, OrderInit, OrderNext, Place, Return, orderVars

LEMMA OrderStep ==
  ASSUME OrderInv, ReadyDone, [OrderNext]_orderVars
  PROVE  OrderInv'
<1>1. CASE Place
  <2>1. ~ done
    BY <1>1 DEF ReadyDone, Place, OrderInv
  <2> QED BY <1>1, <2>1, PlaceStep
<1>2. CASE Return
  BY <1>2, ReturnStep
<1>3. CASE UNCHANGED orderVars
  BY <1>3 DEF OrderInv, orderVars, names, AsPlan, Placed, Open
<1> QED BY <1>1, <1>2, <1>3 DEF OrderNext

(***************************************************************************)
(* The counters of SpecsInOrder (graph.go) are right at every turn of the  *)
(* loop, and no stage is placed before a stage it depends on: for any      *)
(* number of stages, however often a dependency is listed, with            *)
(* dependencies on absent stages and with cycles.                          *)
(***************************************************************************)
THEOREM PlacedAfterDependencies == OrderSpec => []DependenciesFirst
<1>1. OrderInv => DependenciesFirst
  <2> SUFFICES ASSUME OrderInv, ~ done
               PROVE  /\ \A s \in names : indegree[s] = Open(s, ToSet(ordered))
                      /\ \A n \in DOMAIN ordered : \A d \in names :
                           listed[ordered[n]][d] > 0 => \E m \in 1 .. n - 1 : ordered[m] = d
    BY DEF DependenciesFirst
  <2>1. Placed /\ indegree = [s \in names |-> Open(s, ToSet(ordered))]
    BY DEF OrderInv
  <2> QED BY <2>1 DEF Placed
<1> QED BY <1>1, OrderStarts, OrderStep, ReadyDoneStep, PTL DEF OrderSpec

(***************************************************************************)
(* The loop with its counters and its sorted ready list returns the order  *)
(* that the scheduler's model uses (SpecsInOrder of PipelineEval): for     *)
(* every plan, repeated dependencies, names of absent stages and cycles    *)
(* included (graph.go).                                                    *)
(***************************************************************************)
THEOREM OrdersAgree == OrderSpec => []OrderAgrees
<1>1. OrderInv => OrderAgrees
  BY DEF OrderInv, OrderAgrees
<1> QED BY <1>1, OrderStarts, OrderStep, ReadyDoneStep, PTL DEF OrderSpec
==============================================================================
