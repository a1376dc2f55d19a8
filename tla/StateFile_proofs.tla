--------------------------- MODULE StateFile_proofs ---------------------------
(***************************************************************************)
(* For any calls, processes and homes, with one writing process at a time: *)
(* the state store keeps the ids it handed out, and implements             *)
(* AtomicStore.  The argument is the inductive invariant IInv: a call that *)
(* is inside holds its process's mutex, so at most one Save is inside      *)
(* anywhere (WriterAlone), and what that Save has read is still what       *)
(* state.json holds when it renames.                                       *)
(***************************************************************************)
EXTENDS StateFile, TLAPS

Has(log, c) == \E i \in DOMAIN log : log[i] = c

MutexInv == \A c \in Calls : pc[c] \in Inside => mutex[Home[c]] = c

WriterInv ==
  \A c, d \in Saves : pc[c] \in Inside /\ pc[d] \in Inside => c = d

AnswerInv == \A c \in Calls : pc[c] # "done" => answer[c] = "none"

\* What a Save that is inside knows of the files, step by step.
DataInv ==
  \A c \in Saves :
    /\ pc[c] \in {"idle", "locked", "loaded", "updated", "open", "written"}
         => ~ Has(Committed, c)
    /\ pc[c] = "loaded" => buf[c] = Committed
    /\ pc[c] \in {"updated", "open", "written"} =>
         buf[c] = Append(Committed, c) /\ id[c] = Len(Committed) + 1
    /\ pc[c] = "written" => tmp = buf[c]
    /\ pc[c] = "renamed" => id[c] \in DOMAIN Committed /\ Committed[id[c]] = c

IInv ==
  /\ TypeOK
  /\ MutexInv
  /\ WriterInv
  /\ AnswerInv
  /\ file # Torn
  /\ DataInv
  /\ IdsKept

------------------------------------------------------------------------------
(* What Append does to a sequence (sequences are the persisted states).     *)
LEMMA AppendFacts ==
  ASSUME NEW S, NEW s \in Seq(S), NEW x \in S
  PROVE  /\ Append(s, x) \in Seq(S)
         /\ Len(Append(s, x)) = Len(s) + 1
         /\ DOMAIN s = 1 .. Len(s)
         /\ DOMAIN Append(s, x) = 1 .. Len(s) + 1
         /\ \A i \in 1 .. Len(s) : Append(s, x)[i] = s[i]
         /\ Append(s, x)[Len(s) + 1] = x
         /\ Len(s) \in Nat
  OBVIOUS

(* The state held by state.json, once it is known not to be torn.           *)
LEMMA CommittedType ==
  ASSUME TypeOK, file # Torn
  PROVE  Committed \in Seq(Calls)
  BY DEF TypeOK, Committed

(* loadUnlocked decodes what is committed.                                  *)
LEMMA DecodeCommitted == Decode(file) = Committed
  BY DEF Decode, Committed

(* A step that leaves state.json alone leaves the committed state alone.    *)
LEMMA SameFile == ASSUME UNCHANGED file PROVE Committed' = Committed
  BY DEF Committed

(* Init satisfies the invariant.                                            *)
LEMMA InitIInv == Init => IInv
<1> SUFFICES ASSUME Init PROVE IInv
  OBVIOUS
<1> USE CallsAssumption, FileAssumption
<1>1. TypeOK
  BY DEF Init, TypeOK, Inside, Calls
<1>2. MutexInv /\ WriterInv /\ AnswerInv
  BY DEF Init, MutexInv, WriterInv, AnswerInv, Inside, Calls
<1>3. file # Torn
  BY DEF Init
<1>4. DataInv
  <2>1. Committed = <<>>
    BY DEF Init, Committed
  <2>2. \A c \in Saves : ~ Has(Committed, c)
    BY <2>1 DEF Has
  <2>3. \A c \in Saves : pc[c] = "idle"
    BY DEF Init, Calls
  <2> QED
    BY <2>2, <2>3 DEF DataInv
<1>5. IdsKept
  BY DEF Init, IdsKept, Calls
<1> QED
  BY <1>1, <1>2, <1>3, <1>4, <1>5 DEF IInv

(* Taking the mutex.                                                        *)
LEMMA LockStep ==
  ASSUME IInv, NEW c \in Calls, Begin(c)
  PROVE  IInv'
<1> USE CallsAssumption, FileAssumption DEF IInv, Begin
<1>1. TypeOK'
  BY DEF Lock, TypeOK, Inside
<1>2. MutexInv'
  BY DEF Lock, MutexInv, TypeOK, Inside
<1>3. WriterInv'
  <2> SUFFICES ASSUME NEW a \in Saves, NEW b \in Saves,
                      pc'[a] \in Inside, pc'[b] \in Inside
               PROVE  a = b
    BY DEF WriterInv
  <2>1. a # c => pc[a] \in Inside
    BY DEF Lock, TypeOK, Calls
  <2>2. b # c => pc[b] \in Inside
    BY DEF Lock, TypeOK, Calls
  <2>3. \A d \in Saves : c \in Saves /\ pc[d] \in Inside => FALSE
    BY DEF Lock, WriterAlone, MutexInv, Calls
  <2> QED
    BY <2>1, <2>2, <2>3 DEF WriterInv
<1>4. AnswerInv'
  BY DEF Lock, AnswerInv, TypeOK
<1>5. file' # Torn
  BY DEF Lock
<1>6. DataInv'
  <2>1. Committed' = Committed
    BY SameFile DEF Lock
  <2> QED
    BY <2>1 DEF Lock, DataInv, TypeOK, Has, Calls
<1>7. IdsKept'
  BY SameFile DEF Lock, IdsKept
<1> QED
  BY <1>1, <1>2, <1>3, <1>4, <1>5, <1>6, <1>7

(* Every answer, other than that of a completed Save, keeps the files.      *)
LEMMA AnswerStep ==
  ASSUME IInv, NEW c \in Calls, NEW a \in {"ok", "error"}, Answer(c, a),
         UNCHANGED <<id, file, tmp>>, buf' \in [Calls -> Seq(Calls)],
         \A d \in Saves : d # c => buf'[d] = buf[d],
         pc[c] \in Inside,
         c \in Saves /\ a = "ok" => pc[c] = "renamed"
  PROVE  IInv'
<1> USE CallsAssumption, FileAssumption DEF IInv
<1>1. TypeOK'
  BY DEF Answer, Unlock, TypeOK
<1>2. MutexInv'
  BY DEF Answer, Unlock, MutexInv, TypeOK, Inside
<1>3. WriterInv'
  BY DEF Answer, WriterInv, TypeOK, Inside, Calls
<1>4. AnswerInv'
  BY DEF Answer, AnswerInv, TypeOK
<1>5. file' # Torn
  OBVIOUS
<1>a. Committed' = Committed
  BY SameFile
<1>6. DataInv'
  <2> SUFFICES ASSUME NEW d \in Saves
               PROVE  DataInv!(d)'
    BY DEF DataInv
  <2>1. CASE d = c
    BY <2>1 DEF Answer, TypeOK, Calls
  <2>2. CASE d # c
    BY <2>2, <1>a DEF Answer, DataInv, TypeOK, Calls, Has
  <2> QED
    BY <2>1, <2>2
<1>7. IdsKept'
  <2> SUFFICES ASSUME NEW d \in Saves, answer'[d] = "ok"
               PROVE  id[d] \in DOMAIN Committed /\ Committed[id[d]] = d
    BY <1>a, <1>5 DEF IdsKept
  <2>1. CASE d = c
    BY <2>1 DEF Answer, DataInv, TypeOK, Calls
  <2>2. CASE d # c
    BY <2>2 DEF Answer, IdsKept, TypeOK, Calls
  <2> QED
    BY <2>1, <2>2
<1> QED
  BY <1>1, <1>2, <1>3, <1>4, <1>5, <1>6, <1>7

(* The one step of a Save that changes state.json: it appends the update    *)
(* to the committed state, whatever the temporary file held before.         *)
LEMMA RenameAppends ==
  ASSUME IInv, NEW c \in Saves, Rename(c)
  PROVE  /\ Committed \in Seq(Calls)
         /\ Committed' = Append(Committed, c)
         /\ file' \in Seq(Calls)
         /\ id[c] = Len(Committed) + 1
         /\ ~ Has(Committed, c)
<1> USE CallsAssumption, FileAssumption DEF IInv
<1>1. Committed \in Seq(Calls)
  BY CommittedType
<1>2. file' = Append(Committed, c) /\ id[c] = Len(Committed) + 1
  BY DEF Rename, DataInv
<1>3. file' \in Seq(Calls)
  BY <1>1, <1>2, AppendFacts DEF Calls
<1>4. Committed' = file'
  BY <1>3 DEF Committed
<1> QED
  BY <1>1, <1>2, <1>3, <1>4 DEF Rename, DataInv

LEMMA RenameStep ==
  ASSUME IInv, NEW c \in Saves, Rename(c)
  PROVE  IInv'
<1> USE CallsAssumption, FileAssumption DEF IInv
<1> DEFINE L == Committed
<1>0. /\ L \in Seq(Calls) /\ Committed' = Append(L, c) /\ file' \in Seq(Calls)
      /\ id[c] = Len(L) + 1 /\ ~ Has(L, c) /\ c \in Calls
  BY RenameAppends DEF Calls
<1> HIDE DEF L
<1>a. /\ DOMAIN L = 1 .. Len(L) /\ DOMAIN Append(L, c) = 1 .. Len(L) + 1
      /\ \A i \in 1 .. Len(L) : Append(L, c)[i] = L[i]
      /\ Append(L, c)[Len(L) + 1] = c /\ Len(L) \in Nat
  BY <1>0, AppendFacts
<1>1. TypeOK'
  BY <1>0 DEF Rename, TypeOK, Inside
<1>2. MutexInv'
  BY <1>0 DEF Rename, MutexInv, TypeOK, Inside
<1>3. WriterInv'
  BY <1>0 DEF Rename, WriterInv, TypeOK, Inside, Calls
<1>4. AnswerInv'
  BY <1>0 DEF Rename, AnswerInv, TypeOK
<1>5. file' # Torn
  BY <1>0
<1>6. DataInv'
  <2> SUFFICES ASSUME NEW d \in Saves
               PROVE  DataInv!(d)'
    BY DEF DataInv
  <2>1. CASE d = c
    <3>1. pc'[d] = "renamed" /\ id'[d] = Len(L) + 1
      BY <2>1, <1>0 DEF Rename, TypeOK
    <3>2. id'[d] \in DOMAIN Committed' /\ Committed'[id'[d]] = d
      BY <2>1, <3>1, <1>0, <1>a
    <3> QED
      BY <3>1, <3>2
  <2>2. CASE d # c
    <3>1. pc'[d] = pc[d] /\ pc[d] \notin Inside
      BY <2>2, <1>0 DEF Rename, TypeOK, WriterInv, Inside, Calls
    <3>2. pc[d] = "idle" => ~ Has(L, d)
      BY DEF DataInv, L
    <3>3. ~ Has(L, d) => ~ Has(Append(L, c), d)
      BY <1>a, <2>2 DEF Has
    <3> QED
      BY <3>1, <3>2, <3>3, <1>0 DEF Inside
  <2> QED
    BY <2>1, <2>2
<1>7. IdsKept'
  <2> SUFFICES ASSUME NEW d \in Saves, answer'[d] = "ok"
               PROVE  id'[d] \in DOMAIN Committed' /\ Committed'[id'[d]] = d
    BY <1>5 DEF IdsKept
  <2>1. id'[d] = id[d] /\ answer[d] = "ok"
    BY DEF Rename
  <2>2. id[d] \in DOMAIN L /\ L[id[d]] = d
    BY <2>1 DEF IdsKept, L
  <2> QED
    BY <2>1, <2>2, <1>a, <1>0
<1> QED
  BY <1>1, <1>2, <1>3, <1>4, <1>5, <1>6, <1>7

(* The steps of a Save between its Load and its Rename: the temporary file  *)
(* and the memory of the call change, state.json does not.                  *)
LEMMA PrivateStep ==
  ASSUME IInv, NEW c \in Saves,
         \/ loadUnlocked(c) \/ update(c) \/ OpenTemp(c) \/ WriteTemp(c)
  PROVE  IInv'
<1> USE CallsAssumption, FileAssumption DEF IInv
<1>0. /\ c \in Calls /\ c \notin Loads /\ pc[c] \in Inside
      /\ pc' = [pc EXCEPT ![c] = pc'[c]] /\ pc'[c] \in Inside
      /\ UNCHANGED <<mutex, answer, file>>
  BY DEF loadUnlocked, update, OpenTemp, WriteTemp, Calls, Inside, TypeOK
<1>a. Committed' = Committed /\ Committed \in Seq(Calls)
  BY <1>0, SameFile, CommittedType
<1>b. Append(Committed, c) \in Seq(Calls) /\ Len(Committed) \in Nat
  BY <1>0, <1>a, AppendFacts
<1>1. TypeOK'
  <2>1. CASE loadUnlocked(c)
    BY <2>1, <1>0, <1>a, DecodeCommitted DEF loadUnlocked, TypeOK, Inside
  <2>2. CASE update(c)
    <3>1. buf[c] = Committed
      BY <2>2 DEF update, DataInv
    <3> QED
      BY <2>2, <3>1, <1>0, <1>a, <1>b DEF update, NextID, TypeOK, Inside
  <2>3. CASE OpenTemp(c)
    BY <2>3 DEF OpenTemp, TypeOK, Inside
  <2>4. CASE WriteTemp(c)
    BY <2>4, <1>0 DEF WriteTemp, TypeOK, Inside
  <2> QED
    BY <2>1, <2>2, <2>3, <2>4
<1>2. MutexInv'
  BY <1>0 DEF MutexInv, TypeOK
<1>3. WriterInv'
  BY <1>0 DEF WriterInv, TypeOK, Calls
<1>4. AnswerInv'
  BY <1>0 DEF AnswerInv, TypeOK, Inside
<1>5. file' # Torn
  BY <1>0
<1>6. DataInv'
  <2> SUFFICES ASSUME NEW d \in Saves
               PROVE  DataInv!(d)'
    BY DEF DataInv
  <2>1. CASE d = c
    <3>1. CASE loadUnlocked(c)
      BY <3>1, <2>1, <1>0, <1>a, DecodeCommitted
         DEF loadUnlocked, DataInv, TypeOK, Has
    <3>2. CASE update(c)
      BY <3>2, <2>1, <1>0, <1>a DEF update, NextID, DataInv, TypeOK, Has
    <3>3. CASE OpenTemp(c)
      BY <3>3, <2>1, <1>0, <1>a DEF OpenTemp, DataInv, TypeOK, Has
    <3>4. CASE WriteTemp(c)
      BY <3>4, <2>1, <1>0, <1>a DEF WriteTemp, DataInv, TypeOK, Has
    <3> QED
      BY <3>1, <3>2, <3>3, <3>4
  <2>2. CASE d # c
    <3>1. pc'[d] = pc[d] /\ pc[d] \notin Inside
      BY <2>2, <1>0 DEF TypeOK, WriterInv, Calls
    <3>2. pc[d] = "idle" => ~ Has(Committed, d)
      BY DEF DataInv
    <3> QED
      BY <3>1, <3>2, <1>a DEF Inside, Has
  <2> QED
    BY <2>1, <2>2
<1>7. IdsKept'
  <2>1. \A d \in Saves : answer[d] = "ok" => id'[d] = id[d]
    BY <1>0 DEF loadUnlocked, update, OpenTemp, WriteTemp, AnswerInv, TypeOK,
                Inside, Calls
  <2> QED
    BY <2>1, <1>0, <1>a DEF IdsKept
<1> QED
  BY <1>1, <1>2, <1>3, <1>4, <1>5, <1>6, <1>7

(* A killed process leaves the files as they are and no mutex locked.       *)
LEMMA CrashStep ==
  ASSUME IInv, NEW p \in Procs, Crash(p)
  PROVE  IInv'
<1> USE CallsAssumption, FileAssumption DEF IInv
<1>0. /\ \A c \in Calls : pc'[c] \in Inside => pc'[c] = pc[c] /\ Home[c] # p
      /\ \A c \in Calls : pc'[c] = pc[c] \/ (pc'[c] = "dead" /\ pc[c] \in Inside)
  BY DEF Crash, Inside
<1>a. Committed' = Committed
  BY SameFile DEF Crash
<1>1. TypeOK'
  BY DEF Crash, TypeOK
<1>2. MutexInv'
  BY <1>0 DEF Crash, MutexInv, TypeOK
<1>3. WriterInv'
  BY <1>0 DEF WriterInv, Calls
<1>4. AnswerInv'
  BY <1>0 DEF Crash, AnswerInv, Inside
<1>5. file' # Torn
  BY DEF Crash
<1>6. DataInv'
  BY <1>0, <1>a DEF Crash, DataInv, Has, Calls
<1>7. IdsKept'
  BY <1>a DEF Crash, IdsKept
<1> QED
  BY <1>1, <1>2, <1>3, <1>4, <1>5, <1>6, <1>7

(* The ways out of a call that leave the committed state alone: a Load's    *)
(* return, every failure, and the return after the rename.                  *)
LEMMA OutStep ==
  ASSUME IInv, NEW c \in Calls,
         \/ loadUnlocked(c) /\ c \in Loads
         \/ loadFails(c)
         \/ c \in Saves /\ (updateFails(c) \/ writeFails(c) \/ Return(c))
  PROVE  IInv'
<1> USE CallsAssumption, FileAssumption DEF IInv
<1>1. CASE loadUnlocked(c) /\ c \in Loads
  <2>1. Decode(file) \in Seq(Calls)
    BY CommittedType, DecodeCommitted
  <2>2. /\ buf' \in [Calls -> Seq(Calls)] /\ pc[c] \in Inside
        /\ \A d \in Saves : d # c => buf'[d] = buf[d]
        /\ Answer(c, "ok") /\ UNCHANGED <<id, file, tmp>> /\ c \notin Saves
    BY <1>1, <2>1 DEF loadUnlocked, TypeOK, Inside, Calls
  <2> QED
    BY <2>2, AnswerStep
<1>2. CASE loadFails(c)
  BY <1>2, AnswerStep DEF loadFails, TypeOK, Inside
<1>3. CASE c \in Saves /\ updateFails(c)
  BY <1>3, AnswerStep DEF updateFails, TypeOK, Inside
<1>4. CASE c \in Saves /\ writeFails(c)
  BY <1>4, AnswerStep DEF writeFails, TypeOK, Inside
<1>5. CASE c \in Saves /\ Return(c)
  BY <1>5, AnswerStep DEF Return, TypeOK, Inside
<1> QED
  BY <1>1, <1>2, <1>3, <1>4, <1>5

(* Every step keeps the invariant.                                          *)
LEMMA NextIInv == IInv /\ [Next]_vars => IInv'
<1> SUFFICES ASSUME IInv, [Next]_vars PROVE IInv'
  OBVIOUS
<1>1. CASE UNCHANGED vars
  BY <1>1 DEF vars, IInv, TypeOK, MutexInv, WriterInv, AnswerInv, DataInv,
              IdsKept, Committed, Has
<1>2. ASSUME NEW c \in Calls, Begin(c) PROVE IInv'
  BY <1>2, LockStep
<1>3. ASSUME NEW c \in Calls, Step(c) PROVE IInv'
  <2>1. CASE loadUnlocked(c)
    BY <2>1, OutStep, PrivateStep DEF Calls
  <2>2. CASE loadFails(c)
    BY <2>2, OutStep
  <2>3. CASE c \in Saves /\ (update(c) \/ OpenTemp(c) \/ WriteTemp(c))
    BY <2>3, PrivateStep
  <2>4. CASE c \in Saves /\ (updateFails(c) \/ writeFails(c) \/ Return(c))
    BY <2>4, OutStep
  <2>5. CASE c \in Saves /\ Rename(c)
    BY <2>5, RenameStep
  <2> QED
    BY <1>3, <2>1, <2>2, <2>3, <2>4, <2>5 DEF Step
<1>4. ASSUME NEW p \in Procs, Crash(p) PROVE IInv'
  BY <1>4, CrashStep
<1> QED
  BY <1>1, <1>2, <1>3, <1>4 DEF Next

(***************************************************************************)
(* Ids are kept: whatever crashes, failures and concurrent calls, the id a *)
(* Save was answered with names its object in every later state.json.      *)
(***************************************************************************)
THEOREM IdsAreKept == Spec => []IdsKept
<1>1. IInv => IdsKept
  BY DEF IInv
<1> QED
  BY <1>1, InitIInv, NextIInv, PTL DEF Spec

------------------------------------------------------------------------------
(* The mapping of the states is unchanged by a step that changes neither    *)
(* state.json nor an answer (a Load's memory is seen only once answered).   *)
LEMMA Invisible ==
  ASSUME IInv, UNCHANGED <<answer, file>>,
         \A c \in Loads : buf'[c] = buf[c]
  PROVE  UNCHANGED Abstract!vars
  BY SameFile DEF Abstract!vars, Seen

(* Every step is a step of AtomicStore or invisible to it.                  *)
LEMMA StepRefines ==
  ASSUME IInv, Next
  PROVE  [Abstract!Next]_(Abstract!vars)
<1> USE CallsAssumption, FileAssumption DEF IInv
<1>1. ASSUME NEW c \in Calls, Begin(c) PROVE UNCHANGED Abstract!vars
  BY <1>1, Invisible DEF Begin, Lock
<1>2. ASSUME NEW p \in Procs, Crash(p) PROVE UNCHANGED Abstract!vars
  BY <1>2, Invisible DEF Crash
<1>3. ASSUME NEW c \in Saves,
             loadUnlocked(c) \/ update(c) \/ OpenTemp(c) \/ WriteTemp(c)
      PROVE  UNCHANGED Abstract!vars
  <2>1. UNCHANGED <<answer, file>>
    BY <1>3 DEF loadUnlocked, update, OpenTemp, WriteTemp
  <2>2. \A d \in Loads : buf'[d] = buf[d]
    BY <1>3 DEF loadUnlocked, update, OpenTemp, WriteTemp, TypeOK, Calls
  <2> QED
    BY <2>1, <2>2, Invisible
<1>4. ASSUME NEW c \in Calls,
             \/ loadFails(c)
             \/ c \in Saves /\ (updateFails(c) \/ writeFails(c))
      PROVE  Abstract!Refuse(c)
  <2>1. /\ answer' = [answer EXCEPT ![c] = "error"] /\ answer[c] = "none"
        /\ UNCHANGED <<file, buf>>
        /\ pc[c] \in {"locked", "loaded", "updated", "open", "written"}
    BY <1>4 DEF loadFails, updateFails, writeFails, Answer, AnswerInv
  <2>2. c \in Saves => ~ Has(Committed, c)
    BY <2>1 DEF DataInv
  <2>3. Committed' = Committed
    BY <2>1, SameFile
  <2>4. \A d \in Loads : Seen(d)' = Seen(d)
    BY <2>1 DEF Seen, TypeOK, Calls
  <2> QED
    BY <2>1, <2>2, <2>3, <2>4 DEF Abstract!Refuse, Abstract!InLog, Has
<1>5. ASSUME NEW c \in Loads, loadUnlocked(c) PROVE Abstract!Return(c)
  <2>1. /\ answer' = [answer EXCEPT ![c] = "ok"] /\ answer[c] = "none"
        /\ buf' = [buf EXCEPT ![c] = Committed]
        /\ UNCHANGED file
    BY <1>5, DecodeCommitted DEF loadUnlocked, Answer, AnswerInv, Calls
  <2>2. Committed' = Committed
    BY <2>1, SameFile
  <2>3. [d \in Loads |-> Seen(d)]' = [[d \in Loads |-> Seen(d)] EXCEPT ![c] = Committed]
    BY <2>1 DEF Seen, TypeOK, Calls
  <2> QED
    BY <2>1, <2>2, <2>3 DEF Abstract!Return
<1>6. ASSUME NEW c \in Saves, Rename(c) PROVE Abstract!Apply(c)
  <2>1. Committed' = Append(Committed, c) /\ ~ Has(Committed, c)
    BY <1>6, RenameAppends
  <2>2. answer[c] = "none" /\ UNCHANGED <<answer, buf>>
    BY <1>6 DEF Rename, AnswerInv, Calls
  <2> QED
    BY <2>1, <2>2 DEF Abstract!Apply, Abstract!InLog, Has, Seen
<1>7. ASSUME NEW c \in Saves, Return(c) PROVE Abstract!Confirm(c)
  <2>1. /\ answer' = [answer EXCEPT ![c] = "ok"] /\ answer[c] = "none"
        /\ UNCHANGED <<file, buf>> /\ Has(Committed, c)
    BY <1>7 DEF Return, Answer, AnswerInv, DataInv, Has, Calls
  <2>2. Committed' = Committed
    BY <2>1, SameFile
  <2>3. \A d \in Loads : Seen(d)' = Seen(d)
    BY <2>1 DEF Seen, TypeOK, Calls
  <2> QED
    BY <2>1, <2>2, <2>3 DEF Abstract!Confirm, Abstract!InLog, Has
<1>8. ASSUME NEW c \in Calls, Step(c) PROVE [Abstract!Next]_(Abstract!vars)
  BY <1>8, <1>3, <1>4, <1>5, <1>6, <1>7
     DEF Step, Abstract!Next, Abstract!Calls, Calls
<1> QED
  BY <1>1, <1>2, <1>8 DEF Next

(***************************************************************************)
(* Every reachable state is well-typed, and state.json is never torn: a    *)
(* process that dies or runs out of disk between truncating, writing and   *)
(* renaming (WriteJSONFile) leaves at most a torn temporary file.          *)
(***************************************************************************)
THEOREM StateTypeCorrect == Spec => [](TypeOK /\ file # Torn)
<1>1. IInv => TypeOK /\ file # Torn
  BY DEF IInv
<1> QED
  BY <1>1, InitIInv, NextIInv, PTL DEF Spec

(***************************************************************************)
(* The state store implements AtomicStore: the rename is the instant at    *)
(* which a Save takes effect, everything before it is invisible, and no    *)
(* answer contradicts what state.json holds.                               *)
(***************************************************************************)
THEOREM StoreIsAtomic == Spec => ImplementsAtomicStore
<1>1. Init => Abstract!Init
  BY CallsAssumption DEF Init, Abstract!Init, Abstract!Calls, Calls, Committed, Seen
<1>2. IInv /\ [Next]_vars => [Abstract!Next]_(Abstract!vars)
  <2>1. ASSUME IInv, UNCHANGED vars PROVE UNCHANGED Abstract!vars
    BY <2>1, Invisible DEF vars
  <2> QED
    BY <2>1, StepRefines
<1> QED
  BY <1>1, <1>2, InitIInv, NextIInv, PTL
     DEF Spec, ImplementsAtomicStore, Abstract!Spec
==============================================================================
