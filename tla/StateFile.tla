------------------------------ MODULE StateFile ------------------------------
(***************************************************************************)
(* The state store (internal/store) and the file writer under it           *)
(* (contracts.WriteFile), one action per step another goroutine, another   *)
(* process or a crash can fall between.                                    *)
(*                                                                         *)
(* A call is one Save or one Load, made by a process: the server, or one   *)
(* of the commands of cmd/control-plane and cmd/stage-runner that open the *)
(* same state directory.  The mutex of a Store excludes the calls of its   *)
(* own process only.  The persisted state is the sequence of the updates   *)
(* made to it; every update creates one object, and NextID numbers it with *)
(* the counter kept in the same state, so position n of the sequence is    *)
(* the object with id n.                                                   *)
(*                                                                         *)
(* Lock is the code's: it excludes nobody in another process.  That no     *)
(* process starts a Save while another is inside one (WriterAlone) is an   *)
(* assumption on the environment, stated once, in Begin.                   *)
(***************************************************************************)
EXTENDS Naturals, Sequences

CONSTANTS Saves, Loads,   \* the calls
          Procs,          \* the processes
          Home,           \* the process that makes a call
          Absent,         \* no such file
          Torn,           \* a file truncated or partly written: not JSON
          None            \* an unlocked mutex

Calls == Saves \cup Loads

ASSUME CallsAssumption ==
  /\ Saves \cap Loads = {}
  /\ Home \in [Calls -> Procs]
  /\ None \notin Calls

ASSUME FileAssumption ==
  /\ Absent \notin Seq(Calls)
  /\ Torn \notin Seq(Calls)
  /\ Absent # Torn

VARIABLES pc,      \* where each call is
          mutex,   \* process -> the call that holds Store.mu, or None
          buf,     \* the PersistedState a call has in memory
          id,      \* the id NextID gave the object a Save creates
          answer,  \* what the call was told
          file,    \* state.json
          tmp      \* state.json.tmp

vars == <<pc, mutex, buf, id, answer, file, tmp>>

Inside == {"locked", "loaded", "updated", "open", "written", "renamed"}

Init ==
  /\ pc = [c \in Calls |-> "idle"]
  /\ mutex = [p \in Procs |-> None]
  /\ buf = [c \in Calls |-> <<>>]
  /\ id = [c \in Saves |-> 0]
  /\ answer = [c \in Calls |-> "none"]
  /\ file = Absent
  /\ tmp = Absent

DecodeAsIs(f) == f

\* The state a decoded file holds; a missing file is the empty state.
Decode(f) == IF f = Absent THEN <<>> ELSE f

UnlockKept(c) == mutex

\* defer s.mu.Unlock(), on every return of Save and Load.
Unlock(c) == [mutex EXCEPT ![Home[c]] = None]

Answer(c, a) ==
  /\ pc' = [pc EXCEPT ![c] = "done"]
  /\ answer' = [answer EXCEPT ![c] = a]
  /\ mutex' = Unlock(c)

LockUnguarded(c) ==
  /\ pc[c] = "idle"
  /\ mutex' = [mutex EXCEPT ![Home[c]] = c]
  /\ pc' = [pc EXCEPT ![c] = "locked"]
  /\ UNCHANGED <<buf, id, answer, file, tmp>>

Lock(c) ==
  /\ pc[c] = "idle"
  /\ mutex[Home[c]] = None
  /\ mutex' = [mutex EXCEPT ![Home[c]] = c]
  /\ pc' = [pc EXCEPT ![c] = "locked"]
  /\ UNCHANGED <<buf, id, answer, file, tmp>>

WriterAlone(c) ==
  c \in Saves => \A d \in Saves : pc[d] \in Inside => Home[d] = Home[c]

\* A call begins, in an environment that does not run two writers at once.
Begin(c) == WriterAlone(c) /\ Lock(c)

\* loadUnlocked, successful: a Save goes on, a Load returns the state.
loadUnlocked(c) ==
  /\ pc[c] = "locked"
  /\ file # Torn
  /\ buf' = [buf EXCEPT ![c] = Decode(file)]
  /\ \/ /\ c \in Saves
        /\ pc' = [pc EXCEPT ![c] = "loaded"]
        /\ UNCHANGED <<mutex, answer>>
     \/ /\ c \in Loads
        /\ Answer(c, "ok")
  /\ UNCHANGED <<id, file, tmp>>

\* os.ReadFile fails, or the bytes do not validate and decode.
loadFails(c) ==
  /\ pc[c] = "locked"
  /\ Answer(c, "error")
  /\ UNCHANGED <<buf, id, file, tmp>>

\* The id of the next object, off by one: what a counter that is read
\* before it is incremented would give.
LastID(state) == Len(state)

\* The counter is part of the state and is incremented before it is used.
NextID(state) == Len(state) + 1

\* The closure a service operation passes to Save creates its object.
update(c) ==
  /\ pc[c] = "loaded"
  /\ pc' = [pc EXCEPT ![c] = "updated"]
  /\ id' = [id EXCEPT ![c] = NextID(buf[c])]
  /\ buf' = [buf EXCEPT ![c] = Append(@, c)]
  /\ UNCHANGED <<mutex, answer, file, tmp>>

\* The closure returns an error, the directory cannot be made, or Marshal
\* refuses the document: nothing has been written.
updateFails(c) ==
  /\ pc[c] \in {"loaded", "updated"}
  /\ Answer(c, "error")
  /\ UNCHANGED <<buf, id, file, tmp>>

\* os.WriteFile(tmp): the open truncates whatever an earlier writer left.
OpenTemp(c) ==
  /\ pc[c] = "updated"
  /\ pc' = [pc EXCEPT ![c] = "open"]
  /\ tmp' = Torn
  /\ UNCHANGED <<mutex, buf, id, answer, file>>

WriteTemp(c) ==
  /\ pc[c] = "open"
  /\ pc' = [pc EXCEPT ![c] = "written"]
  /\ tmp' = buf[c]
  /\ UNCHANGED <<mutex, buf, id, answer, file>>

\* The write or the rename reports an error; the temporary file stays.
writeFails(c) ==
  /\ pc[c] \in {"updated", "open", "written"}
  /\ Answer(c, "error")
  /\ UNCHANGED <<buf, id, file, tmp>>

\* os.Rename replaces state.json in one step: the instant Save takes effect.
Rename(c) ==
  /\ pc[c] = "written"
  /\ tmp # Absent
  /\ file' = tmp
  /\ tmp' = Absent
  /\ pc' = [pc EXCEPT ![c] = "renamed"]
  /\ UNCHANGED <<mutex, buf, id, answer>>

Return(c) ==
  /\ pc[c] = "renamed"
  /\ Answer(c, "ok")
  /\ UNCHANGED <<buf, id, file, tmp>>

\* A process is killed, at any step of its calls, and started again: the
\* calls inside are never answered, the mutex is a new one, the files stay.
Crash(p) ==
  /\ \E c \in Calls : Home[c] = p /\ pc[c] \in Inside
  /\ pc' = [c \in Calls |->
              IF Home[c] = p /\ pc[c] \in Inside THEN "dead" ELSE pc[c]]
  /\ mutex' = [mutex EXCEPT ![p] = None]
  /\ UNCHANGED <<buf, id, answer, file, tmp>>

Step(c) ==
  \/ loadUnlocked(c)
  \/ loadFails(c)
  \/ c \in Saves /\ \/ update(c)
                    \/ updateFails(c)
                    \/ OpenTemp(c)
                    \/ WriteTemp(c)
                    \/ writeFails(c)
                    \/ Rename(c)
                    \/ Return(c)

Next ==
  \/ \E c \in Calls : Begin(c)
  \/ \E c \in Calls : Step(c)
  \/ \E p \in Procs : Crash(p)

Spec == Init /\ [][Next]_vars

\* A call that can go on does; a mutex that is free is taken.
Fairness ==
  /\ \A c \in Calls : WF_vars(Step(c))
  /\ \A c \in Calls : WF_vars(Begin(c))

FairSpec == Spec /\ Fairness

------------------------------------------------------------------------------
TypeOK ==
  /\ pc \in [Calls -> Inside \cup {"idle", "done", "dead"}]
  /\ mutex \in [Procs -> Calls \cup {None}]
  /\ buf \in [Calls -> Seq(Calls)]
  /\ id \in [Saves -> Nat]
  /\ answer \in [Calls -> {"none", "ok", "error"}]
  /\ file \in Seq(Calls) \cup {Absent, Torn}
  /\ tmp \in Seq(Calls) \cup {Absent, Torn}

(***************************************************************************)
(* The store is the atomic log its callers take it for, whatever crashes,  *)
(* failing writes and concurrent calls: an update is applied once and      *)
(* whole, an answered Save is in state.json, a refused one is not, and a   *)
(* Load, in any process, returns a state that was current while it ran.    *)
(***************************************************************************)
Committed == IF file = Absent THEN <<>> ELSE file

Seen(c) == IF answer[c] = "ok" THEN buf[c] ELSE <<>>

Abstract == INSTANCE AtomicStore
              WITH log <- Committed, seen <- [c \in Loads |-> Seen(c)]

ImplementsAtomicStore == Abstract!Spec

(***************************************************************************)
(* An id handed out by NextID in a Save that was answered names the object *)
(* of that Save for good: no later Save, restart or failure reuses or      *)
(* drops it.  (Run and attempt ids are used in branch names, journals and  *)
(* worker messages long after the Save.)                                   *)
(***************************************************************************)
IdsKept ==
  \A c \in Saves : answer[c] = "ok" =>
    /\ file # Torn
    /\ id[c] \in DOMAIN Committed
    /\ Committed[id[c]] = c

(***************************************************************************)
(* Every call returns, whoever fails before it, unless its process is      *)
(* killed: each way out of Save and Load unlocks the mutex, and a process  *)
(* that was killed holds nothing back.                                     *)
(***************************************************************************)
CallsReturn == \A c \in Calls : <>(pc[c] \in {"done", "dead"})
==============================================================================
