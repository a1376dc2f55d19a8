------------------------------ MODULE RunRepos -------------------------------
(***************************************************************************)
(* The checkout of one repository that the stages of a run share           *)
(* (internal/repos, EnsureRunRepo).  The first stage clones it and checks  *)
(* out the ref of the work order, the later ones find it there with the    *)
(* work of the earlier ones.  Each git command is a step: stages of one    *)
(* run execute in parallel on several workers, a command can fail, and a   *)
(* worker can be killed between two of them.                               *)
(*                                                                         *)
(* No heartbeat is sent while repositories are prepared.  A slow clone     *)
(* outlives its lease, recovery queues the stage again, and a second       *)
(* execution of it starts beside the first: hence executions and stages    *)
(* apart.  Nothing above the checkout is a git work tree of its own.       *)
(***************************************************************************)
EXTENDS Naturals, FiniteSets

CONSTANTS Materializers,  \* the stages that materialize the repository
          Needs,          \* stage -> the stages that must succeed before it
          StageOf         \* execution -> its stage; bounds how often each runs

Executions == DOMAIN StageOf

ASSUME StagesAssumption == \A e \in Executions : StageOf[e] \in Materializers

VARIABLES status,      \* of each stage: waiting, pending, running, succeeded or failed
          at,          \* what each execution is doing
          dest,        \* the checkout: absent, partial (git does not answer for
                       \* it), head (HEAD is set, the clone still writes the
                       \* files), tip or ref
          work,        \* the stages whose files lie in it
          cut,         \* history: since the last reset, an execution was stopped
                       \* between the start of its clone and its checkout
          overlap      \* history: an execution came to the checkout while
                       \* another one of its stage was preparing it

vars == <<status, at, dest, work, cut, overlap>>

Init ==
  /\ status = [s \in Materializers |-> "waiting"]
  /\ at = [e \in Executions |-> "idle"]
  /\ dest = "absent"
  /\ work = {}
  /\ cut = FALSE
  /\ overlap = FALSE

Go(e, where) == at' = [at EXCEPT ![e] = where]

\* An execution that found no checkout and has not got one yet.
Preparing == {"source", "clone", "cloning", "identity", "checkout"}

InTheWay(e) == \E x \in Executions \ {e} : StageOf[x] = StageOf[e] /\ at[x] \in Preparing

------------------------------------------------------------------------------
(* The stages of the run, as the control plane leads them.                  *)

Queue(s) ==
  /\ status[s] = "waiting"
  /\ \A d \in Needs[s] : status[d] = "succeeded"
  /\ status' = [status EXCEPT ![s] = "pending"]
  /\ UNCHANGED <<at, dest, work, cut, overlap>>

Claim(e) ==
  /\ at[e] = "idle"
  /\ status[StageOf[e]] = "pending"
  /\ status' = [status EXCEPT ![StageOf[e]] = "running"]
  /\ Go(e, "stamp")
  /\ UNCHANGED <<dest, work, cut, overlap>>

\* The stage is queued again; its execution is not told.
LeaseEnds(s) ==
  /\ status[s] = "running"
  /\ status' = [status EXCEPT ![s] = "pending"]
  /\ UNCHANGED <<at, dest, work, cut, overlap>>

\* Whoever reports decides, also after its lease has ended.
Complete(e) ==
  /\ at[e] \in {"done", "error"}
  /\ \E result \in {"succeeded", "failed"} :
        /\ result = "succeeded" => at[e] = "done"
        /\ status' = [status EXCEPT ![StageOf[e]] = result]
  /\ Go(e, "ended")
  /\ UNCHANGED <<dest, work, cut, overlap>>

\* The worker dies.  A git or a container it leaves behind goes on like those
\* of a worker that dies later.
Crash(e) ==
  /\ at[e] \notin {"idle", "ended"}
  /\ Go(e, "ended")
  /\ cut' = (cut \/ at[e] \in {"cloning", "identity", "checkout"})
  /\ UNCHANGED <<status, dest, work, overlap>>

------------------------------------------------------------------------------
(* EnsureRunRepo, and the container that runs on the checkout.              *)

\* A checkout with uncommitted files is not taken as it is.
CleanHead == dest \in {"head", "tip", "ref"} /\ work = {}

\* git rev-parse HEAD and git status answer once HEAD is set: whichever commit
\* it is, and whether or not the clone that set it has ended.
sourceStampFromPath == dest \in {"head", "tip", "ref"}

Stamp(e) ==
  /\ at[e] = "stamp"
  /\ Go(e, IF sourceStampFromPath THEN "resolved" ELSE "source")
  /\ overlap' = (overlap \/ InTheWay(e))
  /\ UNCHANGED <<status, dest, work, cut>>

\* The source resolves; what is at the destination is removed.
Reset(e) ==
  /\ at[e] = "source"
  /\ Go(e, "clone")
  /\ dest' = "absent"
  /\ work' = {}
  /\ cut' = FALSE
  /\ UNCHANGED <<status, overlap>>

\* No source, or a removal that stops half way.
ResetFails(e) ==
  /\ at[e] = "source"
  /\ Go(e, "error")
  /\ dest' \in {dest} \cup (IF dest = "absent" THEN {} ELSE {"partial"})
  /\ work' \in SUBSET work
  /\ UNCHANGED <<status, cut, overlap>>

\* git clone makes the directory, or refuses one that is there.
CloneBegins(e) ==
  /\ at[e] = "clone"
  /\ dest = "absent"
  /\ Go(e, "cloning")
  /\ dest' = "partial"
  /\ UNCHANGED <<status, work, cut, overlap>>

CloneHead(e) ==
  /\ at[e] = "cloning"
  /\ dest = "partial"
  /\ dest' = "head"
  /\ UNCHANGED <<status, at, work, cut, overlap>>

CloneEnds(e) ==
  /\ at[e] = "cloning"
  /\ dest = "head"
  /\ Go(e, "identity")
  /\ dest' = "tip"
  /\ UNCHANGED <<status, work, cut, overlap>>

\* A clone that fails removes the directory, whoever's it has become; one
\* that is killed leaves it.
CloneFails(e) ==
  /\ at[e] = "cloning"
  /\ Go(e, "error")
  /\ \/ dest' = "absent" /\ work' = {} /\ UNCHANGED cut
     \/ UNCHANGED <<dest, work>> /\ cut' = TRUE
  /\ UNCHANGED <<status, overlap>>

configureCommitIdentity(e) ==
  /\ at[e] = "identity"
  /\ sourceStampFromPath
  /\ Go(e, "checkout")
  /\ UNCHANGED <<status, dest, work, cut, overlap>>

\* The error of git checkout is not looked at.
checkoutUnchecked(e) ==
  /\ at[e] = "checkout"
  /\ Go(e, "resolved")
  /\ \/ dest \in {"tip", "ref"} /\ dest' = "ref"
     \/ UNCHANGED dest
  /\ UNCHANGED <<status, work, cut, overlap>>

checkoutResolvedRef(e) ==
  /\ at[e] = "checkout"
  /\ dest \in {"tip", "ref"}
  /\ Go(e, "resolved")
  /\ dest' = "ref"
  /\ UNCHANGED <<status, work, cut, overlap>>

\* Any other git command that fails.
GitFails(e) ==
  /\ at[e] \in {"clone", "identity", "checkout"}
  /\ Go(e, "error")
  /\ cut' = (cut \/ at[e] # "clone")
  /\ UNCHANGED <<status, dest, work, overlap>>

\* The container runs on the checkout and leaves its files there; Docker makes
\* a directory that is gone.
Work(e) ==
  /\ at[e] = "resolved"
  /\ Go(e, "done")
  /\ dest' = IF dest = "absent" THEN "partial" ELSE dest
  /\ work' = work \cup {StageOf[e]}
  /\ UNCHANGED <<status, cut, overlap>>

EnsureRunRepo(e) ==
  \/ Stamp(e) \/ Reset(e) \/ ResetFails(e)
  \/ CloneBegins(e) \/ CloneHead(e) \/ CloneEnds(e) \/ CloneFails(e)
  \/ configureCommitIdentity(e) \/ checkoutResolvedRef(e) \/ GitFails(e)

Next ==
  \/ \E s \in Materializers : Queue(s) \/ LeaseEnds(s)
  \/ \E e \in Executions :
        Claim(e) \/ EnsureRunRepo(e) \/ Work(e) \/ Complete(e) \/ Crash(e)

Spec == Init /\ [][Next]_vars

------------------------------------------------------------------------------
(***************************************************************************)
(* Stages hand their files on through the checkout: what a stage that      *)
(* succeeded has written is there for the stages after it, in spite of     *)
(* parallel stages, crashes, retries and executions that outlive their     *)
(* lease.  Excepted is a run in which an execution came to the checkout    *)
(* while another one of its stage was preparing it: EnsureRunRepo of the   *)
(* one removes what the other has got, however far it is.                  *)
(***************************************************************************)
WorkKept == overlap \/ \A s \in Materializers : status[s] = "succeeded" => s \in work

(***************************************************************************)
(* README.md on pinned refs: "the universal materializer checks out that   *)
(* exact ref in the run-scoped repo instead of following the default       *)
(* branch tip".  A stage is given the ref, except after one was stopped    *)
(* between the start of its clone and its checkout, or overlapped with     *)
(* another one that was there: EnsureRunRepo takes whichever commit it     *)
(* finds, here the tip, and nothing moves it later.                        *)
(***************************************************************************)
PinnedUnlessCut ==
  \A e \in Executions : at[e] = "resolved" => dest = "ref" \/ cut \/ overlap
==============================================================================
