----------------------------- MODULE EnvProofs -----------------------------
(***************************************************************************)
(* Proofs about modules EnvPosix and EnvFiles: EnvExact holds of EnvSpec   *)
(* for any threads, processes, limits, users and manifests.  The parts of  *)
(* the Env share no state, so each has an inductive invariant of its own.  *)
(***************************************************************************)
EXTENDS EnvPosix, SeqLemmas, FiniteSetTheorems

allEnvVars == <<envVars, envFileVars>>

-----------------------------------------------------------------------------
(* Background work *)

\* The queue of numbered items, what was run of it, and NoLostWork.
WorkInv ==
    /\ bgQueue \in Seq(Nat) /\ ran \in Seq(Nat) /\ scheduled \in Nat
    /\ bgThread \in {"none", "check", "waiting", "running"}
    /\ NoLostWork

\* One more item scheduled.
LEMMA NextNumber ==
    ASSUME NEW n \in Nat
    PROVE  /\ [i \in 1 .. n |-> i] \in Seq(Nat)
           /\ Append([i \in 1 .. n |-> i], n + 1) = [i \in 1 .. (n + 1) |-> i]
  <1> DEFINE s == [i \in 1 .. n |-> i]
             t == [i \in 1 .. (n + 1) |-> i]
  <1>1. s \in Seq(Nat) /\ t \in Seq(Nat)
    BY IsASeq
  <1>2. Len(s) = n /\ Len(t) = n + 1
    BY LenProperties, <1>1
  <1>3. /\ Append(s, n + 1) \in Seq(Nat)
        /\ Len(Append(s, n + 1)) = n + 1
        /\ \A i \in 1 .. n : Append(s, n + 1)[i] = s[i]
        /\ Append(s, n + 1)[n + 1] = n + 1
    BY <1>1, <1>2, AppendProperties
  <1>4. \A i \in 1 .. (n + 1) : Append(s, n + 1)[i] = t[i]
    BY <1>3
  <1> HIDE DEF s, t
  <1>5. Append(s, n + 1) = t
    BY <1>1, <1>2, <1>3, <1>4, SeqEqual
  <1> QED
    BY <1>1, <1>5 DEF s, t

\* Nothing of the work has begun.
LEMMA WorkInit == EnvInit => WorkInv
  <1>1. <<>> \in Seq(Nat) /\ <<>> \o <<>> = [i \in 1 .. 0 |-> i]
    BY EmptySeq, ConcatEmptySeq
  <1> QED
    BY <1>1 DEF EnvInit, WorkInv, NoLostWork

\* Schedule puts an item behind the others and wakes a thread that waits.
LEMMA ScheduleStep == WorkInv /\ Schedule => WorkInv'
  <1> SUFFICES ASSUME WorkInv, Schedule PROVE WorkInv'
    OBVIOUS
  <1>1. PICK n \in Nat : n = scheduled + 1
    BY DEF WorkInv
  <1>2. /\ scheduled' = n /\ bgQueue' = Append(bgQueue, n) /\ ran' = ran
        /\ bgQueue \in Seq(Nat) /\ ran \in Seq(Nat)
        /\ ran \o bgQueue = [i \in 1 .. scheduled |-> i]
        /\ scheduled \in Nat
    BY <1>1 DEF Schedule, WorkInv, NoLostWork
  <1>3. bgQueue' \in Seq(Nat) /\ bgQueue' # <<>>
    BY <1>2, AppendProperties
  <1>4. ran \o bgQueue' = Append(ran \o bgQueue, n)
    <2>1. bgQueue' = bgQueue \o <<n>> /\ <<n>> \in Seq(Nat)
      BY <1>2, AppendIsConcat
    <2>2. ran \o bgQueue \in Seq(Nat)
      BY <1>2, ConcatProperties
    <2>3. (ran \o bgQueue) \o <<n>> = ran \o (bgQueue \o <<n>>)
      <3>1. PICK u \in Seq(Nat) : u = <<n>>
        BY <2>1
      <3>2. ran \in Seq(Nat) /\ bgQueue \in Seq(Nat)
        BY <1>2
      <3>3. (ran \o bgQueue) \o u = ran \o (bgQueue \o u)
        BY <3>2, ConcatAssociative
      <3> QED
        BY <3>1, <3>3
    <2>4. Append(ran \o bgQueue, n) = (ran \o bgQueue) \o <<n>>
      BY <2>2, AppendIsConcat
    <2> QED
      BY <2>1, <2>3, <2>4
  <1>5. ran' \o bgQueue' = [i \in 1 .. scheduled' |-> i]
    BY <1>1, <1>2, <1>4, NextNumber
  <1>6. bgThread' \in {"check", "running"}
    BY DEF Schedule, WorkInv, NoLostWork
  <1> QED
    BY <1>2, <1>3, <1>5, <1>6 DEF WorkInv, NoLostWork

\* The thread takes the front item under the mutex, or waits beside none.
LEMMA CheckStep == WorkInv /\ BGCheck => WorkInv'
  <1> SUFFICES ASSUME WorkInv, BGCheck PROVE WorkInv'
    OBVIOUS
  <1>1. CASE bgQueue = <<>>
    BY <1>1 DEF BGCheck, WorkInv, NoLostWork
  <1>2. CASE bgQueue # <<>>
    <2>1. /\ bgThread' = "running" /\ bgQueue' = Tail(bgQueue) /\ ran' = Append(ran, Head(bgQueue))
          /\ scheduled' = scheduled
      BY <1>2 DEF BGCheck, Taken
    <2>2. PICK h \in Nat : h = Head(bgQueue)
      BY <1>2, HeadTailProperties DEF WorkInv
    <2>3. PICK q \in Seq(Nat) : q = Tail(bgQueue)
      BY <1>2, HeadTailProperties DEF WorkInv
    <2>4. ran \in Seq(Nat) /\ <<h>> \in Seq(Nat) /\ bgQueue = <<h>> \o q
      <3>1. Len(bgQueue) \in Nat /\ Len(q) = Len(bgQueue) - 1 /\ Len(bgQueue) # 0
            /\ bgQueue \in Seq(Nat) /\ \A i \in 1 .. Len(q) : q[i] = bgQueue[i + 1]
        BY <1>2, <2>3, HeadTailProperties, LenProperties, EmptySeq DEF WorkInv
      <3>2. <<h>> \in Seq(Nat) /\ Len(<<h>>) = 1 /\ <<h>>[1] = h
        OBVIOUS
      <3>3. /\ <<h>> \o q \in Seq(Nat) /\ Len(<<h>> \o q) = 1 + Len(q)
            /\ \A i \in 1 .. (1 + Len(q)) : (<<h>> \o q)[i] = IF i <= 1 THEN <<h>>[i] ELSE q[i - 1]
        BY <3>2, ConcatProperties
      <3>4. Len(<<h>> \o q) = Len(bgQueue)
        BY <3>1, <3>3
      <3>5. bgQueue[1] = h
        BY <1>2, <2>2, <3>1
      <3>6. \A i \in 1 .. Len(bgQueue) : (<<h>> \o q)[i] = bgQueue[i]
        <4> SUFFICES ASSUME NEW i \in 1 .. Len(bgQueue) PROVE (<<h>> \o q)[i] = bgQueue[i]
          OBVIOUS
        <4>1. CASE i = 1
          BY <4>1, <3>1, <3>2, <3>3, <3>5
        <4>2. CASE i # 1
          <5>1. PICK j \in 1 .. Len(q) : j = i - 1
            BY <4>2, <3>1
          <5> QED
            BY <5>1, <4>2, <3>1, <3>3
        <4> QED
          BY <4>1, <4>2
      <3> QED
        BY <3>1, <3>2, <3>3, <3>4, <3>6, SeqEqual DEF WorkInv
    <2>5. Append(ran, h) = ran \o <<h>> /\ Append(ran, h) \in Seq(Nat)
      BY <2>4, AppendIsConcat, AppendProperties
    <2>6. (ran \o <<h>>) \o q = ran \o (<<h>> \o q)
      BY <2>4, ConcatAssociative
    <2>7. ran' \o bgQueue' = ran \o bgQueue
      BY <2>1, <2>2, <2>3, <2>4, <2>5, <2>6
    <2> QED
      BY <2>1, <2>2, <2>3, <2>5, <2>7 DEF WorkInv, NoLostWork
  <1> QED
    BY <1>1, <1>2

\* Every step of the Env keeps the queue; those of its other parts do not touch it.
LEMMA WorkStep == WorkInv /\ [EnvNext]_allEnvVars => WorkInv'
  <1> SUFFICES ASSUME WorkInv, [EnvNext]_allEnvVars PROVE WorkInv'
    OBVIOUS
  <1>1. CASE UNCHANGED bgVars
    BY <1>1 DEF bgVars, WorkInv, NoLostWork
  <1>2. CASE BGNext
    <2>1. CASE BGRun \/ SpuriousWakeup
      BY <2>1 DEF BGRun, SpuriousWakeup, WorkInv, NoLostWork
    <2> QED
      BY <1>2, <2>1, ScheduleStep, CheckStep DEF BGNext
  <1>3. LockNext => UNCHANGED bgVars
    BY DEF LockNext, LockStep, LockOpen, LockInsert, LockRefused, LockFcntl, LockFailedClose,
           LockFailedRemove, UnlockFcntl, UnlockRemove, UnlockClose
  <1>4. FileNext => UNCHANGED bgVars
    BY DEF FileNext, FileStep, MmapLook, MmapAcquire, Mapped, MapFails, FdLook, FdAcquire, DeleteFile
  <1> QED
    BY <1>1, <1>2, <1>3, <1>4 DEF EnvNext, allEnvVars, envVars

-----------------------------------------------------------------------------
(* The limits *)

\* The threads whose NewRandomAccessFile, or whose file, is at one of S.
InState(S) == {t \in EnvThread : opener[t] \in S}
OpenerState == {"idle", "mmapAcquire", "mapping", "mmapped", "fdLook", "fdAcquire", "open", "temporary"}

\* Only threads that are not idle count, so EnvThread need not be finite.
LimitInv ==
    /\ opener \in [EnvThread -> OpenerState]
    /\ mmapAllowed \in Nat /\ fdAllowed \in Nat
    /\ IsFiniteSet(InState({"mapping", "mmapped"})) /\ IsFiniteSet(InState({"open"}))
    /\ LimitsHold

\* At first all of both limits is free.
LEMMA LimitInit == EnvInit => LimitInv
  <1> SUFFICES ASSUME EnvInit PROVE LimitInv
    OBVIOUS
  <1>1. InState({"mapping", "mmapped"}) = {} /\ InState({"open"}) = {}
    BY DEF EnvInit, InState
  <1>2. opener \in [EnvThread -> OpenerState]
    BY DEF EnvInit, OpenerState
  <1>3. MmapLimit \in Nat /\ FdLimit \in Nat
    BY EnvPosixAssumption
  <1>4. /\ IsFiniteSet(InState({"mapping", "mmapped"})) /\ Cardinality(InState({"mapping", "mmapped"})) = 0
        /\ IsFiniteSet(InState({"open"})) /\ Cardinality(InState({"open"})) = 0
    BY <1>1, FS_EmptySet
  <1>5. LimitsHold
    BY <1>3, <1>4 DEF EnvInit, LimitsHold, InState
  <1> QED
    BY <1>2, <1>3, <1>4, <1>5 DEF EnvInit, LimitInv

\* One thread's call moves on, into S or out of it.
LEMMA OpenerMoved ==
    ASSUME LimitInv, NEW t \in EnvThread, NEW pc, opener' = [opener EXCEPT ![t] = pc],
           NEW S, IsFiniteSet(InState(S))
    PROVE  /\ IsFiniteSet(InState(S)')
           /\ Cardinality(InState(S)) \in Nat
           /\ (pc \in S <=> opener[t] \in S) => Cardinality(InState(S)') = Cardinality(InState(S))
           /\ pc \in S /\ opener[t] \notin S => Cardinality(InState(S)') = Cardinality(InState(S)) + 1
           /\ pc \notin S /\ opener[t] \in S => Cardinality(InState(S)') = Cardinality(InState(S)) - 1
  <1>0. Cardinality(InState(S)) \in Nat
    BY FS_CardinalityType
  <1>1. CASE pc \in S
    <2>1. InState(S)' = InState(S) \cup {t}
      BY <1>1 DEF InState, LimitInv
    <2>2. t \in InState(S) <=> opener[t] \in S
      BY DEF InState
    <2> QED
      BY <1>0, <1>1, <2>1, <2>2, FS_AddElement
  <1>2. CASE pc \notin S
    <2>1. InState(S)' = InState(S) \ {t}
      BY <1>2 DEF InState, LimitInv
    <2>2. t \in InState(S) <=> opener[t] \in S
      BY DEF InState
    <2>3. /\ IsFiniteSet(InState(S)')
          /\ Cardinality(InState(S)') = IF t \in InState(S) THEN Cardinality(InState(S)) - 1
                                         ELSE Cardinality(InState(S))
      BY <2>1, FS_RemoveElement
    <2> QED
      BY <1>0, <1>2, <2>2, <2>3
  <1> QED
    BY <1>1, <1>2

\* A call takes from a limit when it goes where the file will be kept, and
\* gives back when it leaves there.
LEMMA LimitMove ==
    ASSUME LimitInv, NEW t \in EnvThread, NEW pc \in OpenerState, opener' = [opener EXCEPT ![t] = pc],
           \/ mmapAllowed' = mmapAllowed /\ (pc \in {"mapping", "mmapped"} <=> opener[t] \in {"mapping", "mmapped"})
           \/ /\ mmapAllowed > 0 /\ mmapAllowed' = mmapAllowed - 1
              /\ pc \in {"mapping", "mmapped"} /\ opener[t] \notin {"mapping", "mmapped"}
           \/ /\ mmapAllowed' = mmapAllowed + 1
              /\ pc \notin {"mapping", "mmapped"} /\ opener[t] \in {"mapping", "mmapped"},
           \/ fdAllowed' = fdAllowed /\ (pc = "open" <=> opener[t] = "open")
           \/ fdAllowed > 0 /\ fdAllowed' = fdAllowed - 1 /\ pc = "open" /\ opener[t] # "open"
           \/ fdAllowed' = fdAllowed + 1 /\ pc # "open" /\ opener[t] = "open"
    PROVE  LimitInv'
  <1> DEFINE M == {"mapping", "mmapped"}
             F == {"open"}
  <1>1. PICK m \in Nat : m = Cardinality(InState(M)) /\ mmapAllowed + m = MmapLimit
    BY OpenerMoved DEF LimitInv, LimitsHold, InState
  <1>2. PICK f \in Nat : f = Cardinality(InState(F)) /\ fdAllowed + f = FdLimit
    BY OpenerMoved DEF LimitInv, LimitsHold, InState
  <1>3. /\ IsFiniteSet(InState(M)')
        /\ (pc \in M <=> opener[t] \in M) => Cardinality(InState(M)') = m
        /\ pc \in M /\ opener[t] \notin M => Cardinality(InState(M)') = m + 1
        /\ pc \notin M /\ opener[t] \in M => Cardinality(InState(M)') = m - 1
    BY <1>1, OpenerMoved DEF LimitInv
  <1>4. /\ IsFiniteSet(InState(F)')
        /\ (pc \in F <=> opener[t] \in F) => Cardinality(InState(F)') = f
        /\ pc \in F /\ opener[t] \notin F => Cardinality(InState(F)') = f + 1
        /\ pc \notin F /\ opener[t] \in F => Cardinality(InState(F)') = f - 1
    BY <1>2, OpenerMoved DEF LimitInv
  <1>5. mmapAllowed \in Nat /\ fdAllowed \in Nat
    BY DEF LimitInv
  <1>6. mmapAllowed' \in Nat /\ mmapAllowed' + Cardinality(InState(M)') = MmapLimit
    BY <1>1, <1>3, <1>5
  <1>7. fdAllowed' \in Nat /\ fdAllowed' + Cardinality(InState(F)') = FdLimit
    BY <1>2, <1>4, <1>5
  <1>8. opener' \in [EnvThread -> OpenerState]
    BY DEF LimitInv
  <1> QED
    BY <1>3, <1>4, <1>6, <1>7, <1>8 DEF LimitInv, LimitsHold, InState

\* Each call of NewRandomAccessFile, and each file deleted, keeps the account of the limits.
LEMMA FileStepLimits ==
    ASSUME LimitInv, NEW t \in EnvThread, FileStep(t)
    PROVE  LimitInv'
  <1>0. mmapAllowed \in Nat /\ fdAllowed \in Nat /\ opener \in [EnvThread -> OpenerState]
    BY DEF LimitInv
  <1>1. CASE MmapLook(t)
    <2>1. PICK pc \in {"fdLook", "mmapAcquire"} : opener' = [opener EXCEPT ![t] = pc]
      BY <1>1 DEF MmapLook, Opener
    <2> QED
      BY <1>0, <1>1, <2>1, LimitMove DEF MmapLook, OpenerState
  <1>2. CASE MmapAcquire(t)
    <2>1. CASE mmapAllowed <= 0
      BY <1>0, <1>2, <2>1, LimitMove DEF MmapAcquire, OpenerState, Opener
    <2>2. CASE ~(mmapAllowed <= 0)
      BY <1>0, <1>2, <2>2, LimitMove DEF MmapAcquire, OpenerState, Opener
    <2> QED
      BY <2>1, <2>2
  <1>3. CASE Mapped(t)
    BY <1>0, <1>3, LimitMove DEF Mapped, OpenerState, Opener
  <1>4. CASE MapFails(t)
    BY <1>0, <1>4, LimitMove DEF MapFails, OpenerState, Opener
  <1>5. CASE FdLook(t)
    <2>1. PICK pc \in {"temporary", "fdAcquire"} : opener' = [opener EXCEPT ![t] = pc]
      BY <1>5 DEF FdLook, Opener
    <2> QED
      BY <1>0, <1>5, <2>1, LimitMove DEF FdLook, OpenerState
  <1>6. CASE FdAcquire(t)
    <2>1. CASE fdAllowed <= 0
      BY <1>0, <1>6, <2>1, LimitMove DEF FdAcquire, OpenerState, Opener
    <2>2. CASE ~(fdAllowed <= 0)
      BY <1>0, <1>6, <2>2, LimitMove DEF FdAcquire, OpenerState, Opener
    <2> QED
      BY <2>1, <2>2
  <1>7. CASE DeleteFile(t)
    BY <1>0, <1>7, LimitMove DEF DeleteFile, OpenerState, Opener
  <1> QED
    BY <1>1, <1>2, <1>3, <1>4, <1>5, <1>6, <1>7 DEF FileStep

\* Every step of the Env keeps the account of the limits.
LEMMA LimitStep == LimitInv /\ [EnvNext]_allEnvVars => LimitInv'
  <1> SUFFICES ASSUME LimitInv, [EnvNext]_allEnvVars PROVE LimitInv'
    OBVIOUS
  <1>1. CASE UNCHANGED fileVars
    BY <1>1 DEF fileVars, LimitInv, LimitsHold, InState
  <1>2. CASE FileNext
    BY <1>2, FileStepLimits DEF FileNext
  <1>3. LockNext => UNCHANGED fileVars
    BY DEF LockNext, LockStep, LockOpen, LockInsert, LockRefused, LockFcntl, LockFailedClose,
           LockFailedRemove, UnlockFcntl, UnlockRemove, UnlockClose
  <1>4. BGNext => UNCHANGED fileVars
    BY DEF BGNext, Schedule, BGCheck, BGRun, SpuriousWakeup
  <1> QED
    BY <1>1, <1>2, <1>3, <1>4 DEF EnvNext, allEnvVars, envVars

-----------------------------------------------------------------------------
(* The lock *)

\* A thread with the lock, on the way to it, or giving it up.
Having(t) == locker[t] \in {"fcntl", "held", "unlocked", "failed", "failedClosed"}
LockerState == {"idle", "insert", "refused", "fcntl", "held", "failed", "failedClosed", "unlocked", "removed"}

\* The table keeps the threads of a process apart; the kernel's lock, as long
\* as no close took it from its holder, the processes.
LockInv ==
    /\ locker \in [EnvThread -> LockerState]
    /\ \A t, u \in EnvThread : Having(t) /\ Having(u) /\ P(t) = P(u) => t = u
    /\ \A t \in EnvThread : Having(t) => P(t) \in lockTable
    /\ lockLost \in BOOLEAN
    /\ ~lockLost => \A t \in EnvThread : locker[t] = "held" => osLock = P(t)

\* One thread of a process at most has the lock; one process, unless a close gave it up.
LEMMA LockHolds == LockInv => OneHolder
  <1> SUFFICES ASSUME LockInv PROVE OneHolder
    OBVIOUS
  <1>1. ASSUME NEW p \in Procs, NEW having, having = {t \in EnvThread : P(t) = p /\ Having(t)}
        PROVE  Cardinality(having) <= 1 /\ (having # {} => p \in lockTable)
    <2>1. CASE having = {}
      BY <2>1, FS_EmptySet
    <2>2. CASE having # {}
      <3>1. PICK t : t \in having
        BY <2>2
      <3>2. having = {t} /\ p \in lockTable
        BY <1>1, <3>1 DEF LockInv
      <3> QED
        BY <3>2, FS_Singleton
    <2> QED
      BY <2>1, <2>2
  <1>2. ~lockLost => \A t, u \in EnvThread : locker[t] = "held" /\ locker[u] = "held" => t = u
    BY DEF LockInv, Having
  <1> QED
    BY <1>1, <1>2 DEF OneHolder, Having

\* At first no one has the lock.
LEMMA LockInit == EnvInit => LockInv
  BY DEF EnvInit, LockInv, LockerState, Having

\* Each step of LockFile and UnlockFile keeps the table and the kernel's lock together.
LEMMA LockStepLocks ==
    ASSUME LockInv, NEW t \in EnvThread, LockStep(t)
    PROVE  LockInv'
  <1>0. locker \in [EnvThread -> LockerState] /\ P(t) # NoProc /\ lockLost \in BOOLEAN
    BY EnvPosixAssumption DEF LockInv, P
  <1>1. CASE LockOpen(t)
    BY <1>0, <1>1 DEF LockOpen, Locker, LockInv, Having, LockerState, P
  <1>2. CASE LockInsert(t)
    <2>1. CASE P(t) \in lockTable
      BY <1>0, <1>2, <2>1 DEF LockInsert, Locker, LockInv, Having, LockerState, P
    <2>2. CASE P(t) \notin lockTable
      BY <1>0, <1>2, <2>2 DEF LockInsert, Locker, LockInv, Having, LockerState, P
    <2> QED
      BY <2>1, <2>2
  <1>3. CASE LockRefused(t)
    BY <1>0, <1>3 DEF LockRefused, Locker, LockInv, Having, LockerState, Closes, GivenUp, P
  <1>4. CASE LockFcntl(t)
    <2>1. CASE osLock \in {NoProc, P(t)}
      BY <1>0, <1>4, <2>1, EnvPosixAssumption DEF LockFcntl, Locker, LockInv, Having, LockerState, P
    <2>2. CASE osLock \notin {NoProc, P(t)}
      BY <1>0, <1>4, <2>2 DEF LockFcntl, Locker, LockInv, Having, LockerState, P
    <2> QED
      BY <2>1, <2>2
  <1>5. CASE LockFailedClose(t)
    BY <1>0, <1>5 DEF LockFailedClose, Locker, LockInv, Having, LockerState, Closes, GivenUp, P
  <1>6. CASE LockFailedRemove(t)
    BY <1>0, <1>6 DEF LockFailedRemove, Locker, LockInv, Having, LockerState, P
  <1>7. CASE UnlockFcntl(t)
    BY <1>0, <1>7 DEF UnlockFcntl, Locker, LockInv, Having, LockerState, GivenUp, P
  <1>8. CASE UnlockRemove(t)
    BY <1>0, <1>8 DEF UnlockRemove, Locker, LockInv, Having, LockerState, P
  <1>9. CASE UnlockClose(t)
    BY <1>0, <1>9 DEF UnlockClose, Locker, LockInv, Having, LockerState, Closes, GivenUp, P
  <1> QED
    BY <1>1, <1>2, <1>3, <1>4, <1>5, <1>6, <1>7, <1>8, <1>9 DEF LockStep

\* Every step of the Env keeps them together.
LEMMA LockKept == LockInv /\ [EnvNext]_allEnvVars => LockInv'
  <1> SUFFICES ASSUME LockInv, [EnvNext]_allEnvVars PROVE LockInv'
    OBVIOUS
  <1>1. CASE UNCHANGED lockVars
    BY <1>1 DEF lockVars, LockInv, Having, P
  <1>2. CASE LockNext
    BY <1>2, LockStepLocks DEF LockNext
  <1>3. FileNext => UNCHANGED lockVars
    BY DEF FileNext, FileStep, MmapLook, MmapAcquire, Mapped, MapFails, FdLook, FdAcquire, DeleteFile
  <1>4. BGNext => UNCHANGED lockVars
    BY DEF BGNext, Schedule, BGCheck, BGRun, SpuriousWakeup
  <1> QED
    BY <1>1, <1>2, <1>3, <1>4 DEF EnvNext, allEnvVars, envVars

-----------------------------------------------------------------------------
(* CURRENT *)

\* What the names and the contents of files are made of.
Char == {"MANIFEST", "newline"} \cup ManifestNumber
FileName == {CurrentName} \cup {TempName(d) : d \in ManifestNumber}
Inode == [of : ManifestNumber, bytes : Seq(Char), synced : Nat]
Directory == UNION {[N -> Nat] : N \in SUBSET FileName}
SetterState == {"idle", "create", "append", "sync", "close", "rename", "failed"}

\* A file with the whole name of a manifest, all of it on disk.
IsWhole(f) == f.bytes = ManifestName(f.of) /\ f.synced = Len(f.bytes)

\* SetCurrentFile has a file open, or is about to rename it.
HasFile(call) == call.at \in {"append", "sync", "close", "rename"}

\* A whole file that no SetCurrentFile writes to any more.
Settled(file) ==
    /\ file \in DOMAIN inodes
    /\ IsWhole(inodes[file])
    /\ HasFile(setter) => setter.file # file

\* The file of SetCurrentFile is whole by the time it is renamed.
SetterInv ==
    /\ inodes \in Seq(Inode)
    /\ setter \in [at : SetterState, d : ManifestNumber \cup {0}, file : Nat]
    /\ setter.at # "idle" => setter.d \in ManifestNumber
    /\ HasFile(setter) => setter.file \in DOMAIN inodes /\ inodes[setter.file].of = setter.d
    /\ setter.at \in {"close", "rename"} => IsWhole(inodes[setter.file])

\* The files CURRENT leads to, on any disk that may be left, are settled.
DirsInv ==
    /\ dirs \in Seq(Directory) /\ dirs # <<>>
    /\ \A i \in DOMAIN dirs : CurrentName \in DOMAIN dirs[i] => Settled(dirs[i][CurrentName])

\* So is the one a reader has open, who has read a beginning of it.
FetcherInv ==
    /\ fetcher \in [at : {"idle", "reading", "done"}, file : Nat, data : Seq(Char)]
    /\ fetcher.at # "idle" =>
          /\ Settled(fetcher.file)
          /\ Len(fetcher.data) <= Len(inodes[fetcher.file].bytes)
          /\ fetcher.data = SubSeq(inodes[fetcher.file].bytes, 1, Len(fetcher.data))
    /\ fetcher.at = "done" => fetcher.data = inodes[fetcher.file].bytes

CurrentInv == SetterInv /\ DirsInv /\ FetcherInv

\* Names are told apart, and a name has three characters here.
LEMMA Names ==
    ASSUME NEW d \in ManifestNumber
    PROVE  /\ TempName(d) # CurrentName
           /\ TempName(d) \in FileName /\ CurrentName \in FileName
           /\ ManifestName(d) \in Seq(Char) /\ Len(ManifestName(d)) = 3
  <1>1. TempName(d) # CurrentName
    BY DEF TempName, CurrentName
  <1>2. TempName(d) \in FileName /\ CurrentName \in FileName
    BY DEF FileName
  <1>3. ManifestName(d) \in Seq(Char) /\ Len(ManifestName(d)) = 3
    BY DEF ManifestName, Char
  <1> QED
    BY <1>1, <1>2, <1>3

\* At first there are no files.
LEMMA CurrentStart == CurrentInit => CurrentInv
  <1> SUFFICES ASSUME CurrentInit PROVE CurrentInv
    OBVIOUS
  <1>1. inodes = <<>> /\ setter = NoSetter /\ fetcher = NoFetcher /\ dirs = <<<<>>>>
    BY DEF CurrentInit
  <1>2. SetterInv
    BY <1>1 DEF SetterInv, NoSetter, SetterState, HasFile
  <1>3. FetcherInv
    BY <1>1 DEF FetcherInv, NoFetcher
  <1>4. <<>> \in [{} -> Nat] /\ DOMAIN <<>> = {}
    OBVIOUS
  <1>5. <<>> \in Directory
    BY <1>4 DEF Directory
  <1>6. dirs \in Seq(Directory) /\ dirs # <<>> /\ DOMAIN dirs = {1} /\ dirs[1] = <<>>
    BY <1>1, <1>5
  <1>7. DirsInv
    BY <1>4, <1>6 DEF DirsInv
  <1> QED
    BY <1>2, <1>3, <1>7 DEF CurrentInv

\* Naming a file in a directory.
LEMMA Named ==
    ASSUME NEW f \in Directory, NEW x \in FileName, NEW v \in Nat, NEW g, g = Assoc(f, x, v)
    PROVE  /\ g \in Directory /\ DOMAIN g = DOMAIN f \cup {x}
           /\ g[x] = v /\ \A i \in DOMAIN f : i # x => g[i] = f[i]
  <1>1. PICK N \in SUBSET FileName : f \in [N -> Nat]
    BY DEF Directory
  <1>2. g \in [N \cup {x} -> Nat] /\ N \cup {x} \in SUBSET FileName
    BY <1>1 DEF Assoc
  <1>3. g \in Directory
    BY <1>2 DEF Directory
  <1> QED
    BY <1>1, <1>3 DEF Assoc

\* Dropping a name.
LEMMA Unnamed ==
    ASSUME NEW f \in Directory, NEW x \in FileName, NEW g, g = Dropped(f, x)
    PROVE  /\ g \in Directory /\ DOMAIN g = DOMAIN f \ {x}
           /\ \A i \in DOMAIN f : i # x => g[i] = f[i]
  <1>1. PICK N \in SUBSET FileName : f \in [N -> Nat]
    BY DEF Directory
  <1>2. g \in [N \ {x} -> Nat] /\ N \ {x} \in SUBSET FileName
    BY <1>1 DEF Dropped, Restrict
  <1>3. g \in Directory
    BY <1>2 DEF Directory
  <1> QED
    BY <1>1, <1>3 DEF Dropped, Restrict

\* Files that nobody writes to stay settled.
Undisturbed == \A f : Settled(f) => Settled(f)' /\ inodes'[f] = inodes[f]

\* A step that only touches the file of SetCurrentFile leaves the settled ones alone.
LEMMA StaySettled ==
    ASSUME \A f \in DOMAIN inodes : (HasFile(setter) => setter.file # f) =>
              /\ f \in DOMAIN inodes' /\ inodes'[f] = inodes[f]
              /\ HasFile(setter') => setter'.file # f
    PROVE  Undisturbed
  BY DEF Undisturbed, Settled

\* An element of a sequence with one more is an old one or the new one.
LEMMA AppendCases ==
    ASSUME NEW S, NEW s \in Seq(S), NEW e \in S, NEW t, t = Append(s, e)
    PROVE  /\ t \in Seq(S) /\ t # <<>>
           /\ \A i \in DOMAIN t : (i \in DOMAIN s /\ t[i] = s[i]) \/ t[i] = e
  <1>1. /\ t \in Seq(S) /\ Len(s) \in Nat /\ DOMAIN s = 1 .. Len(s) /\ DOMAIN t = 1 .. (Len(s) + 1)
        /\ \A j \in DOMAIN s : t[j] = s[j]
        /\ t[Len(s) + 1] = e
    BY AppendSeq
  <1>2. \A i \in 1 .. (Len(s) + 1) : i \in 1 .. Len(s) \/ i = Len(s) + 1
    BY <1>1
  <1>3. t # <<>>
    BY <1>1
  <1> QED
    BY <1>1, <1>2, <1>3

\* The directory with one more change, or with none.
LEMMA DirsMoved ==
    ASSUME DirsInv, Undisturbed,
           \/ dirs' = dirs
           \/ \E dir \in Directory : /\ dirs' = Append(dirs, dir)
                                     /\ CurrentName \in DOMAIN dir => Settled(dir[CurrentName])'
    PROVE  DirsInv'
  <1>1. CASE dirs' = dirs
    BY <1>1 DEF DirsInv, Undisturbed
  <1>2. ASSUME NEW dir \in Directory, dirs' = Append(dirs, dir),
               CurrentName \in DOMAIN dir => Settled(dir[CurrentName])'
        PROVE  DirsInv'
    <2>0. PICK was : was = dirs
      OBVIOUS
    <2>1. PICK new : new = dirs'
      OBVIOUS
    <2>2. was \in Seq(Directory) /\ new = Append(was, dir)
      BY <1>2, <2>0, <2>1 DEF DirsInv
    <2>3. /\ new \in Seq(Directory) /\ new # <<>>
          /\ \A i \in DOMAIN new : (i \in DOMAIN was /\ new[i] = was[i]) \/ new[i] = dir
      BY <2>2, AppendCases
    <2>4. \A i \in DOMAIN was : CurrentName \in DOMAIN was[i] => Settled(was[i][CurrentName])
      BY <2>0 DEF DirsInv
    <2>5. \A i \in DOMAIN new : CurrentName \in DOMAIN new[i] => Settled(new[i][CurrentName])'
      <3> SUFFICES ASSUME NEW i \in DOMAIN new, CurrentName \in DOMAIN new[i]
                   PROVE  Settled(new[i][CurrentName])'
        OBVIOUS
      <3>1. CASE i \in DOMAIN was /\ new[i] = was[i]
        BY <2>4, <3>1 DEF Undisturbed
      <3>2. CASE new[i] = dir
        BY <1>2, <3>2
      <3> QED
        BY <2>3, <3>1, <3>2
    <2> QED
      BY <2>1, <2>3, <2>5 DEF DirsInv, Settled
  <1> QED
    BY <1>1, <1>2

\* A reader beside others' steps, or gone.
LEMMA FetcherMoved ==
    ASSUME FetcherInv, Undisturbed, fetcher' \in {fetcher, NoFetcher}
    PROVE  FetcherInv'
  <1>1. CASE fetcher' = NoFetcher
    BY <1>1 DEF FetcherInv, NoFetcher
  <1>2. CASE fetcher' = fetcher
    <2>1. PICK f : f = fetcher.file
      OBVIOUS
    <2>2. fetcher.at # "idle" => Settled(f) /\ Settled(f)' /\ inodes'[f] = inodes[f]
      BY <2>1 DEF FetcherInv, Undisturbed
    <2> QED
      BY <1>2, <2>1, <2>2 DEF FetcherInv, Settled
  <1> QED
    BY <1>1, <1>2

\* SetCurrentFile's file is written, synced or closed.
LEMMA Written ==
    ASSUME SetterInv, HasFile(setter), NEW node \in Inode, node.of = setter.d,
           inodes' = [inodes EXCEPT ![setter.file] = node],
           NEW pc \in SetterState \ {"idle", "create"}, setter' = [setter EXCEPT !.at = pc],
           pc \in {"close", "rename"} => IsWhole(node)
    PROVE  SetterInv' /\ Undisturbed
  <1>1. /\ inodes \in Seq(Inode) /\ setter.file \in DOMAIN inodes /\ setter.d \in ManifestNumber
        /\ setter \in [at : SetterState, d : ManifestNumber \cup {0}, file : Nat]
    BY DEF SetterInv, HasFile
  <1>2. PICK x : x = setter.file
    OBVIOUS
  <1>3. inodes' \in Seq(Inode) /\ DOMAIN inodes' = DOMAIN inodes
    BY <1>1, <1>2, ExceptSeq
  <1>4. inodes'[x] = node /\ \A f \in DOMAIN inodes : f # x => inodes'[f] = inodes[f]
    BY <1>1, <1>2
  <1>5. setter'.at = pc /\ setter'.d = setter.d /\ setter'.file = x
        /\ setter' \in [at : SetterState, d : ManifestNumber \cup {0}, file : Nat]
    BY <1>1, <1>2
  <1>6. SetterInv'
    BY <1>1, <1>2, <1>3, <1>4, <1>5 DEF SetterInv, HasFile
  <1>7. Undisturbed
    BY <1>2, <1>3, <1>4, <1>5, StaySettled
  <1> QED
    BY <1>6, <1>7

\* SetCurrentFile moves on where it has no file, or lets go of it.
LEMMA SetterMoved ==
    ASSUME SetterInv, UNCHANGED inodes,
           \/ setter' = NoSetter
           \/ setter.at # "idle" /\ setter' = [setter EXCEPT !.at = "failed"]
           \/ \E d \in ManifestNumber : setter' = [NoSetter EXCEPT !.at = "create", !.d = d]
    PROVE  SetterInv' /\ Undisturbed
  <1>1. /\ ~HasFile(setter') /\ setter'.at \notin {"close", "rename"}
        /\ setter' \in [at : SetterState, d : ManifestNumber \cup {0}, file : Nat]
        /\ setter'.at # "idle" => setter'.d \in ManifestNumber
    <2>1. CASE setter' = NoSetter
      BY <2>1 DEF HasFile, NoSetter, SetterState
    <2>2. CASE setter.at # "idle" /\ setter' = [setter EXCEPT !.at = "failed"]
      <3>1. /\ setter \in [at : SetterState, d : ManifestNumber \cup {0}, file : Nat]
            /\ setter.d \in ManifestNumber
        BY <2>2 DEF SetterInv
      <3> QED
        BY <2>2, <3>1 DEF HasFile, SetterState
    <2>3. ASSUME NEW d \in ManifestNumber, setter' = [NoSetter EXCEPT !.at = "create", !.d = d]
          PROVE  /\ ~HasFile(setter') /\ setter'.at \notin {"close", "rename"}
                 /\ setter' \in [at : SetterState, d : ManifestNumber \cup {0}, file : Nat]
                 /\ setter'.at # "idle" => setter'.d \in ManifestNumber
      <3>1. setter' = [at |-> "create", d |-> d, file |-> 0]
        BY <2>3 DEF NoSetter
      <3> QED
        BY <3>1 DEF HasFile, SetterState
    <2> QED
      BY <2>1, <2>2, <2>3
  <1> QED
    BY <1>1, StaySettled DEF SetterInv, HasFile

\* The files with another node for SetCurrentFile's, and with what reached it synced.
WithNode(node) == [inodes EXCEPT ![setter.file] = node]
Synced(n, k) == [Reached(n) EXCEPT ![setter.file].synced = k]

\* What WritableFile has let reach the file.
LEMMA ReachedNode ==
    ASSUME SetterInv, HasFile(setter), NEW n \in 0 .. Len(ManifestName(setter.d)), NEW k \in Nat
    PROVE  /\ \E node \in Inode : node.of = setter.d /\ Reached(n) = WithNode(node)
           /\ \E node \in Inode :
                /\ node.of = setter.d /\ node.synced = k
                /\ node.bytes = SubSeq(ManifestName(setter.d), 1, n)
                /\ Synced(n, k) = WithNode(node)
  <1>1. /\ inodes \in Seq(Inode) /\ setter.file \in DOMAIN inodes /\ setter.d \in ManifestNumber
        /\ inodes[setter.file] \in Inode /\ inodes[setter.file].of = setter.d
    BY ElementOfSeq, LenProperties DEF SetterInv, HasFile
  <1>2. PICK x : x = setter.file
    OBVIOUS
  <1>3. PICK name \in Seq(Char) : name = ManifestName(setter.d) /\ Len(name) = 3
    BY <1>1, Names
  <1>4. SubSeq(name, 1, n) \in Seq(Char)
    BY <1>3, SubSeqProperties, ElementOfSeq
  <1>5. PICK bytes \in Seq(Char) : bytes = SubSeq(ManifestName(setter.d), 1, n)
    BY <1>3, <1>4
  <1>6. PICK old \in Inode : old = inodes[x]
    BY <1>1, <1>2
  <1>7. PICK node \in Inode : node = [old EXCEPT !.bytes = bytes]
    BY DEF Inode
  <1>8. node.of = setter.d /\ node.bytes = bytes /\ node.synced = old.synced
    BY <1>1, <1>2, <1>6, <1>7 DEF Inode
  <1>9. Reached(n) = [inodes EXCEPT ![x] = node]
    BY <1>2, <1>5, <1>6, <1>7 DEF Reached
  <1>10. PICK synced \in Inode : synced = [node EXCEPT !.synced = k]
    BY DEF Inode
  <1>11. synced.of = setter.d /\ synced.bytes = bytes /\ synced.synced = k
    BY <1>8, <1>10 DEF Inode
  <1>12. Synced(n, k) = WithNode(synced)
    BY <1>1, <1>2, <1>9, <1>10 DEF Synced, WithNode
  <1>13. Reached(n) = WithNode(node)
    BY <1>2, <1>9 DEF WithNode
  <1> QED
    BY <1>5, <1>8, <1>11, <1>12, <1>13

\* fwrite lets any part of the name reach the temporary file.
LEMMA AppendDataStep == CurrentInv /\ AppendData => SetterInv' /\ Undisturbed
  <1> SUFFICES ASSUME CurrentInv, AppendData PROVE SetterInv' /\ Undisturbed
    OBVIOUS
  <1>1. PICK n \in 0 .. Len(ManifestName(setter.d)), ok \in BOOLEAN :
          inodes' = Reached(n) /\ setter' = [setter EXCEPT !.at = IF ok THEN "sync" ELSE "failed"]
    BY DEF AppendData
  <1>2. PICK pc \in {"sync", "failed"} : setter' = [setter EXCEPT !.at = pc]
    BY <1>1
  <1>3. SetterInv /\ HasFile(setter)
    BY DEF AppendData, CurrentInv, HasFile
  <1>4. PICK node \in Inode : node.of = setter.d /\ Reached(n) = WithNode(node)
    BY <1>3, ReachedNode
  <1> QED
    BY <1>1, <1>2, <1>3, <1>4, Written DEF SetterState, WithNode

\* After fdatasync the temporary file is whole, also on disk; if it fails, any part of it is.
LEMMA SyncFileStep == CurrentInv /\ SyncFile => SetterInv' /\ Undisturbed
  <1> SUFFICES ASSUME CurrentInv, SyncFile PROVE SetterInv' /\ Undisturbed
    OBVIOUS
  <1>1. SetterInv /\ HasFile(setter) /\ setter.d \in ManifestNumber
    BY DEF SyncFile, CurrentInv, SetterInv, HasFile
  <1>2. PICK name \in Seq(Char) : name = ManifestName(setter.d) /\ Len(name) = 3
    BY <1>1, Names
  <1>3. CASE /\ inodes' = [Reached(Len(name)) EXCEPT ![setter.file].synced = Len(name)]
             /\ setter' = [setter EXCEPT !.at = "close"]
    <2>0. PICK n \in 0 .. Len(ManifestName(setter.d)) : n = 3 /\ n = Len(name) /\ n \in Nat
      BY <1>2
    <2>1. PICK node \in Inode :
            /\ node.of = setter.d /\ node.synced = n
            /\ node.bytes = SubSeq(ManifestName(setter.d), 1, n)
            /\ Synced(n, n) = WithNode(node)
      BY <1>1, <2>0, ReachedNode
    <2>2. SubSeq(name, 1, Len(name)) = name
      BY <1>2, SubSeqFull
    <2>3. IsWhole(node)
      BY <1>2, <2>0, <2>1, <2>2 DEF IsWhole
    <2>4. inodes' = [inodes EXCEPT ![setter.file] = node]
      BY <1>3, <2>0, <2>1 DEF Synced, WithNode
    <2> QED
      BY <1>1, <1>3, <2>1, <2>3, <2>4, Written DEF SetterState
  <1>4. CASE \E n \in Len(inodes[setter.file].bytes) .. Len(name) :
               inodes' = Reached(n) /\ setter' = [setter EXCEPT !.at = "failed"]
    <2>1. PICK n \in Len(inodes[setter.file].bytes) .. Len(name) :
            inodes' = Reached(n) /\ setter' = [setter EXCEPT !.at = "failed"]
      BY <1>4
    <2>2. Len(inodes[setter.file].bytes) \in Nat
      BY <1>1, ElementOfSeq, LenProperties DEF SetterInv, Inode
    <2>3. n \in 0 .. Len(ManifestName(setter.d))
      BY <1>2, <2>1, <2>2
    <2>4. PICK node \in Inode : node.of = setter.d /\ Reached(n) = WithNode(node)
      BY <1>1, <2>3, ReachedNode
    <2> QED
      BY <1>1, <2>1, <2>4, Written DEF SetterState, WithNode
  <1> QED
    BY <1>2, <1>3, <1>4 DEF SyncFile, ShouldSync

\* fclose of a file that was synced adds nothing to it.
LEMMA CloseFileStep == CurrentInv /\ CloseFile => SetterInv' /\ Undisturbed
  <1> SUFFICES ASSUME CurrentInv, CloseFile PROVE SetterInv' /\ Undisturbed
    OBVIOUS
  <1>1. /\ SetterInv /\ HasFile(setter) /\ inodes \in Seq(Inode) /\ setter.file \in DOMAIN inodes
        /\ inodes[setter.file].of = setter.d /\ IsWhole(inodes[setter.file])
    BY DEF CloseFile, CurrentInv, SetterInv, HasFile
  <1>2. PICK node \in Inode : node = inodes[setter.file]
    BY <1>1, ElementOfSeq, LenProperties
  <1>3. PICK name : name = ManifestName(setter.d)
    OBVIOUS
  <1>4. node.bytes = name /\ node.of = setter.d /\ IsWhole(node)
    BY <1>1, <1>2, <1>3 DEF IsWhole
  <1>5. node = [node EXCEPT !.bytes = name]
    BY <1>4 DEF Inode
  <1>6. inodes' = [inodes EXCEPT ![setter.file] = node]
    BY <1>1, <1>2, <1>3, <1>5 DEF CloseFile
  <1>7. PICK pc \in {"rename", "failed"} : setter' = [setter EXCEPT !.at = pc]
    BY DEF CloseFile
  <1> QED
    BY <1>1, <1>4, <1>6, <1>7, Written DEF SetterState

\* fopen makes a new file under the temporary name.
LEMMA NewFileStep == CurrentInv /\ NewWritableFile => SetterInv' /\ DirsInv' /\ Undisturbed
  <1> SUFFICES ASSUME CurrentInv, NewWritableFile PROVE SetterInv' /\ DirsInv' /\ Undisturbed
    OBVIOUS
  <1>1. /\ SetterInv /\ DirsInv /\ inodes \in Seq(Inode) /\ setter.at = "create" /\ setter.d \in ManifestNumber
        /\ setter \in [at : SetterState, d : ManifestNumber \cup {0}, file : Nat]
    BY DEF NewWritableFile, CurrentInv, SetterInv
  <1>2. CASE setter' = [setter EXCEPT !.at = "failed"] /\ UNCHANGED <<dirs, inodes>>
    <2>1. SetterInv' /\ Undisturbed
      BY <1>1, <1>2, SetterMoved
    <2> QED
      BY <1>1, <1>2, <2>1, DirsMoved
  <1>3. CASE /\ inodes' = Append(inodes, [of |-> setter.d, bytes |-> <<>>, synced |-> 0])
             /\ dirs' = Append(dirs, Assoc(Dir, TempName(setter.d), Len(inodes')))
             /\ setter' = [setter EXCEPT !.at = "append", !.file = Len(inodes')]
    <2>0. <<>> \in Seq(Char)
      BY EmptySeq
    <2>1. PICK node \in Inode : node = [of |-> setter.d, bytes |-> <<>>, synced |-> 0]
      BY <1>1, <2>0 DEF Inode
    <2>2. /\ inodes' \in Seq(Inode) /\ Len(inodes) \in Nat /\ Len(inodes') = Len(inodes) + 1
          /\ DOMAIN inodes = 1 .. Len(inodes) /\ DOMAIN inodes' = 1 .. (Len(inodes) + 1)
          /\ \A f \in DOMAIN inodes : inodes'[f] = inodes[f]
          /\ inodes'[Len(inodes) + 1] = node
      BY <1>1, <1>3, <2>1, AppendSeq
    <2>3. PICK x \in Nat : x = Len(inodes) + 1 /\ x \notin DOMAIN inodes /\ x \in DOMAIN inodes'
      BY <2>2
    <2>4. /\ setter'.at = "append" /\ setter'.d = setter.d /\ setter'.file = x
          /\ setter' \in [at : SetterState, d : ManifestNumber \cup {0}, file : Nat]
      BY <1>1, <1>3, <2>2, <2>3 DEF SetterState
    <2>5. SetterInv'
      BY <1>1, <2>1, <2>2, <2>3, <2>4 DEF SetterInv, HasFile
    <2>6. Undisturbed
      BY <2>2, <2>3, <2>4, StaySettled
    <2>7. PICK was \in Directory : was = Dir
      BY <1>1, LastSeq DEF Dir, DirsInv
    <2>8. PICK temp \in FileName : temp = TempName(setter.d) /\ temp # CurrentName
      BY <1>1, Names
    <2>9. PICK dir : dir = Assoc(was, temp, x)
      OBVIOUS
    <2>13. /\ dir \in Directory /\ DOMAIN dir = DOMAIN was \cup {temp}
           /\ \A i \in DOMAIN was : i # temp => dir[i] = was[i]
      <3>1. was \in Directory /\ temp \in FileName /\ x \in Nat
        BY <2>3, <2>7, <2>8
      <3> QED
        BY <2>9, <3>1, Named
    <2>10. CurrentName \in DOMAIN was => Settled(was[CurrentName])
      BY <1>1, <2>7, LastSeq DEF Dir, DirsInv
    <2>11. CurrentName \in DOMAIN dir => Settled(dir[CurrentName])'
      BY <2>6, <2>8, <2>10, <2>13 DEF Undisturbed
    <2>12. dirs' = Append(dirs, dir)
      BY <1>3, <2>2, <2>3, <2>7, <2>8, <2>9
    <2> QED
      BY <1>1, <2>5, <2>6, <2>11, <2>12, <2>13, DirsMoved
  <1> QED
    BY <1>2, <1>3 DEF NewWritableFile

\* rename puts the whole file in CURRENT's place, and SetCurrentFile is done with it.
LEMMA RenameStep == CurrentInv /\ RenameFile => SetterInv' /\ DirsInv' /\ Undisturbed
  <1> SUFFICES ASSUME CurrentInv, RenameFile PROVE SetterInv' /\ DirsInv' /\ Undisturbed
    OBVIOUS
  <1>1. /\ SetterInv /\ DirsInv /\ setter.at = "rename" /\ setter.d \in ManifestNumber
        /\ setter.file \in DOMAIN inodes /\ IsWhole(inodes[setter.file]) /\ setter.file \in Nat
        /\ UNCHANGED inodes
    BY DEF RenameFile, CurrentInv, SetterInv, HasFile
  <1>2. CASE setter' = [setter EXCEPT !.at = "failed"] /\ UNCHANGED dirs
    <2>1. SetterInv' /\ Undisturbed
      BY <1>1, <1>2, SetterMoved
    <2> QED
      BY <1>1, <1>2, <2>1, DirsMoved
  <1>3. CASE /\ dirs' = Append(dirs, Assoc(Dropped(Dir, TempName(setter.d)), CurrentName, setter.file))
             /\ setter' = NoSetter
    <2>1. SetterInv' /\ Undisturbed
      BY <1>1, <1>3, SetterMoved
    <2>2. PICK was \in Directory : was = Dir
      BY <1>1, LastSeq DEF Dir, DirsInv
    <2>3. PICK temp \in FileName : temp = TempName(setter.d)
      BY <1>1, Names
    <2>4. PICK less \in Directory : less = Dropped(was, temp)
      BY <2>2, <2>3, Unnamed
    <2>5. PICK x \in Nat : x = setter.file
      BY <1>1
    <2>6. PICK name \in FileName : name = CurrentName
      BY DEF FileName
    <2>7. PICK dir : dir = Assoc(less, name, x)
      OBVIOUS
    <2>8. dir \in Directory /\ dir[name] = x
      <3>1. less \in Directory /\ name \in FileName /\ x \in Nat
        BY <2>4, <2>5, <2>6
      <3>2. dir \in Directory
        BY <2>7, <3>1, Named
      <3>3. dir[name] = x
        BY <2>7 DEF Assoc
      <3> QED
        BY <3>2, <3>3
    <2>9. Settled(x)'
      BY <1>1, <1>3, <2>5 DEF Settled, HasFile, NoSetter
    <2>10. Settled(dir[CurrentName])'
      BY <2>6, <2>8, <2>9
    <2>11. dirs' = Append(dirs, dir)
      BY <1>3, <2>2, <2>3, <2>4, <2>5, <2>6, <2>7
    <2> QED
      BY <1>1, <2>1, <2>8, <2>10, <2>11, DirsMoved
  <1> QED
    BY <1>2, <1>3 DEF RenameFile

\* unlink takes the temporary name away, and no other.
LEMMA DeleteTempStep == CurrentInv /\ DeleteTemp => SetterInv' /\ DirsInv' /\ Undisturbed
  <1> SUFFICES ASSUME CurrentInv, DeleteTemp PROVE SetterInv' /\ DirsInv' /\ Undisturbed
    OBVIOUS
  <1>1. SetterInv /\ DirsInv /\ setter.d \in ManifestNumber /\ setter' = NoSetter /\ UNCHANGED inodes
    BY DEF DeleteTemp, CurrentInv, SetterInv
  <1>2. SetterInv' /\ Undisturbed
    BY <1>1, SetterMoved
  <1>3. PICK was \in Directory : was = Dir
    BY <1>1, LastSeq DEF Dir, DirsInv
  <1>4. PICK temp \in FileName : temp = TempName(setter.d) /\ temp # CurrentName
    BY <1>1, Names
  <1>6. PICK less : less = Dropped(was, temp)
    OBVIOUS
  <1>10. /\ less \in Directory /\ DOMAIN less = DOMAIN was \ {temp}
         /\ \A i \in DOMAIN was : i # temp => less[i] = was[i]
    BY <1>3, <1>4, <1>6, Unnamed
  <1>7. CurrentName \in DOMAIN was => Settled(was[CurrentName])
    BY <1>1, <1>3, LastSeq DEF Dir, DirsInv
  <1>8. \A dir \in {was, less} : CurrentName \in DOMAIN dir => Settled(dir[CurrentName])'
    BY <1>2, <1>4, <1>10, <1>7 DEF Undisturbed
  <1>9. dirs' = dirs \/ \E dir \in {was, less} : dirs' = Append(dirs, dir)
    BY <1>3, <1>4, <1>6 DEF DeleteTemp, Unlinked
  <1> QED
    BY <1>1, <1>2, <1>8, <1>9, <1>10, DirsMoved

\* A file's node, and what is in it.
LEMMA NodeType ==
    ASSUME SetterInv, NEW f \in DOMAIN inodes
    PROVE  /\ inodes[f] \in Inode /\ inodes[f].bytes \in Seq(Char) /\ inodes[f].synced \in Nat
           /\ Len(inodes[f].bytes) \in Nat /\ f \in Nat
  <1>1. inodes \in Seq(Inode)
    BY DEF SetterInv
  <1>2. inodes[f] \in Inode /\ f \in Nat
    BY <1>1, ElementOfSeq, LenProperties
  <1>3. inodes[f].bytes \in Seq(Char) /\ inodes[f].synced \in Nat
    BY <1>2 DEF Inode
  <1> QED
    BY <1>2, <1>3, LenProperties

\* A reader's next fragment is behind what it has.
LEMMA NextFragment ==
    ASSUME NEW S, NEW bytes \in Seq(S), NEW l \in 0 .. Len(bytes), NEW e \in l .. Len(bytes)
    PROVE  /\ SubSeq(bytes, 1, l) \o SubSeq(bytes, l + 1, e) = SubSeq(bytes, 1, e)
           /\ SubSeq(bytes, 1, e) \in Seq(S) /\ Len(SubSeq(bytes, 1, e)) = e
           /\ l < e => SubSeq(bytes, l + 1, e) # <<>>
  <1> DEFINE data == SubSeq(bytes, 1, l)
             fragment == SubSeq(bytes, l + 1, e)
  <1>1. Len(bytes) \in Nat /\ l \in Nat /\ e \in Nat /\ l <= e /\ e <= Len(bytes)
    BY LenProperties
  <1>2. 1 \in 1 .. Len(bytes) + 1 /\ l \in (1 - 1) .. Len(bytes) /\ e \in l .. Len(bytes)
    BY <1>1
  <1>3. data \o fragment = SubSeq(bytes, 1, e)
    BY <1>2, ConcatAdjacentSubSeq
  <1>4. \A i \in 1 .. e : bytes[i] \in S
    BY <1>1, ElementOfSeq
  <1>5. SubSeq(bytes, 1, e) \in Seq(S) /\ Len(SubSeq(bytes, 1, e)) = IF 1 <= e THEN e - 1 + 1 ELSE 0
    BY <1>1, <1>4, SubSeqProperties
  <1>6. (IF 1 <= e THEN e - 1 + 1 ELSE 0) = e
    BY <1>1
  <1>7. PICK k \in Nat : k = l + 1
    BY <1>1
  <1>8. \A i \in k .. e : bytes[i] \in S
    BY <1>1, <1>4, <1>7
  <1>9. Len(fragment) = IF k <= e THEN e - k + 1 ELSE 0
    BY <1>1, <1>7, <1>8, SubSeqProperties
  <1>10. k <= e => Len(fragment) > 0
    BY <1>1, <1>7, <1>9
  <1>11. l < e => fragment # <<>>
    BY <1>1, <1>7, <1>10
  <1>12. Len(SubSeq(bytes, 1, e)) = e /\ SubSeq(bytes, 1, e) \in Seq(S)
    BY <1>5, <1>6
  <1> QED
    BY <1>3, <1>11, <1>12

\* fopen follows CURRENT to a settled file.
LEMMA OpenCurrentStep == CurrentInv /\ ReadFileToString => FetcherInv'
  <1> SUFFICES ASSUME CurrentInv, ReadFileToString PROVE FetcherInv'
    OBVIOUS
  <1>1. PICK file \in DOMAIN inodes :
          /\ NewSequentialFile(CurrentName, file)
          /\ fetcher' = [at |-> "reading", file |-> file, data |-> <<>>]
    BY DEF ReadFileToString
  <1>2. file \in Nat
    BY LenProperties DEF CurrentInv, SetterInv
  <1>3. Settled(file)
    <2>1. Len(dirs) \in DOMAIN dirs /\ Dir = dirs[Len(dirs)]
      BY LastSeq DEF CurrentInv, DirsInv, Dir
    <2> QED
      BY <1>1, <2>1 DEF NewSequentialFile, CurrentInv, DirsInv
  <1>4. UNCHANGED <<inodes, setter>>
    BY DEF ReadFileToString
  <1>5. PICK bytes \in Seq(Char) : bytes = inodes[file].bytes
    BY NodeType DEF CurrentInv
  <1>6. <<>> \in Seq(Char) /\ Len(<<>>) = 0 /\ Len(bytes) \in Nat /\ SubSeq(bytes, 1, 0) = <<>>
    BY <1>5, EmptySeq, LenProperties, SubSeqEmpty
  <1>7. /\ fetcher'.at = "reading" /\ fetcher'.file = file /\ fetcher'.data = <<>>
        /\ fetcher' \in [at : {"idle", "reading", "done"}, file : Nat, data : Seq(Char)]
    BY <1>1, <1>2, <1>6
  <1>8. Settled(file)' /\ inodes'[file].bytes = bytes
    BY <1>3, <1>4, <1>5 DEF Settled
  <1> QED
    BY <1>6, <1>7, <1>8 DEF FetcherInv, Settled

\* A fragment read extends what the reader has; an empty one is the end of the file.
LEMMA ReadStep == CurrentInv /\ ReadFragment => FetcherInv'
  <1> SUFFICES ASSUME CurrentInv, ReadFragment PROVE FetcherInv'
    OBVIOUS
  <1>1. UNCHANGED <<inodes, setter>> /\ fetcher.at = "reading" /\ FetcherInv
        /\ fetcher \in [at : {"idle", "reading", "done"}, file : Nat, data : Seq(Char)]
    BY DEF ReadFragment, CurrentInv, FetcherInv
  <1>2. CASE fetcher' = NoFetcher
    BY <1>2 DEF FetcherInv, NoFetcher
  <1>3. CASE fetcher' # NoFetcher
    <2>1. PICK file \in DOMAIN inodes : file = fetcher.file /\ Settled(file) /\ Settled(file)'
      BY <1>1 DEF FetcherInv, Settled
    <2>2. PICK bytes \in Seq(Char) : bytes = inodes[file].bytes /\ inodes'[file].bytes = bytes
      BY <1>1, NodeType DEF CurrentInv
    <2>3. PICK data \in Seq(Char) : data = fetcher.data
      BY <1>1
    <2>4. PICK l \in 0 .. Len(bytes) : l = Len(data) /\ l \in Nat /\ data = SubSeq(bytes, 1, l)
      BY <1>1, <2>1, <2>2, <2>3, LenProperties DEF FetcherInv
    <2>5. Len(bytes) \in Nat /\ ReadBuffer \in Nat /\ ReadBuffer > 0
      BY EnvFilesAssumption, LenProperties
    <2>6. PICK e \in l .. Len(bytes) : /\ e = IF l + ReadBuffer > Len(bytes) THEN Len(bytes) ELSE l + ReadBuffer
                                       /\ e = l => l = Len(bytes)
      BY <2>4, <2>5
    <2>7. PICK fragment : fragment = SubSeq(bytes, l + 1, e)
      OBVIOUS
    <2>8. PICK all \in Seq(Char) : /\ all = data \o fragment /\ all = SubSeq(bytes, 1, e) /\ Len(all) = e
                                   /\ fragment = <<>> => e = l
      <3>1. bytes \in Seq(Char) /\ l \in 0 .. Len(bytes) /\ e \in l .. Len(bytes)
        BY <2>2, <2>4, <2>6
      <3>2. /\ SubSeq(bytes, 1, l) \o SubSeq(bytes, l + 1, e) = SubSeq(bytes, 1, e)
            /\ SubSeq(bytes, 1, e) \in Seq(Char) /\ Len(SubSeq(bytes, 1, e)) = e
            /\ l < e => SubSeq(bytes, l + 1, e) # <<>>
        BY <3>1, NextFragment
      <3>3. data \o fragment = SubSeq(bytes, 1, e)
        BY <2>4, <2>7, <3>2
      <3>4. fragment = <<>> => e = l
        BY <2>6, <2>7, <3>2
      <3> QED
        BY <3>2, <3>3, <3>4
    <2>9. fragment = <<>> => all = bytes
      <3>1. fragment = <<>> => e = Len(bytes)
        BY <2>6, <2>8
      <3> QED
        BY <2>2, <2>8, <3>1, SubSeqFull
    <2>10. PICK at : at = IF fragment = <<>> THEN "done" ELSE "reading"
      OBVIOUS
    <2>11. fetcher' = [fetcher EXCEPT !.data = all, !.at = at]
      <3>1. inodes[fetcher.file].bytes = bytes /\ Len(fetcher.data) = l
        BY <2>1, <2>2, <2>3, <2>4
      <3>2. e = IF Len(fetcher.data) + ReadBuffer > Len(bytes) THEN Len(bytes) ELSE Len(fetcher.data) + ReadBuffer
        BY <2>6, <3>1
      <3>3. fragment = SubSeq(bytes, Len(fetcher.data) + 1, e)
        BY <2>7, <3>1
      <3>4. fetcher' = [fetcher EXCEPT !.data = @ \o fragment, !.at = IF fragment = <<>> THEN "done" ELSE @]
        BY <1>3, <3>1, <3>2, <3>3 DEF ReadFragment
      <3>5. fetcher.data \o fragment = all /\ at = IF fragment = <<>> THEN "done" ELSE fetcher.at
        BY <1>1, <2>3, <2>8, <2>10
      <3> QED
        BY <1>1, <3>4, <3>5
    <2>12. /\ fetcher'.at = at /\ fetcher'.file = file /\ fetcher'.data = all
           /\ fetcher' \in [at : {"idle", "reading", "done"}, file : Nat, data : Seq(Char)]
           /\ fetcher'.at = "done" => fetcher'.data = bytes
      BY <1>1, <2>1, <2>8, <2>9, <2>10, <2>11
    <2>13. Len(all) <= Len(bytes) /\ all = SubSeq(bytes, 1, Len(all))
      BY <2>4, <2>6, <2>8
    <2> QED
      BY <2>1, <2>2, <2>12, <2>13 DEF FetcherInv, Settled
  <1> QED
    BY <1>2, <1>3

\* The power fails: a settled file was on disk as a whole, the others may be cut.
LEMMA PowerStep == CurrentInv /\ PowerFails => CurrentInv'
  <1> SUFFICES ASSUME CurrentInv, PowerFails PROVE CurrentInv'
    OBVIOUS
  <1>1. /\ setter' = NoSetter /\ fetcher' = NoFetcher
        /\ inodes \in Seq(Inode) /\ dirs \in Seq(Directory)
    BY DEF PowerFails, CurrentInv, SetterInv, DirsInv
  <1>2. PICK i \in DOMAIN dirs : dirs' = <<dirs[i]>>
    BY DEF PowerFails
  <1>3. PICK keep \in [DOMAIN inodes -> 0 .. Len(ManifestName(0))] :
          /\ \A f \in DOMAIN inodes : keep[f] \in inodes[f].synced .. Len(inodes[f].bytes)
          /\ inodes' = [f \in DOMAIN inodes |-> [inodes[f] EXCEPT !.bytes = SubSeq(@, 1, keep[f]), !.synced = keep[f]]]
    BY DEF PowerFails
  <1>4. ASSUME NEW f \in DOMAIN inodes
        PROVE  inodes'[f] \in Inode /\ (IsWhole(inodes[f]) => inodes'[f] = inodes[f])
    <2>1. PICK node \in Inode : node = inodes[f]
      BY NodeType DEF CurrentInv
    <2>3. PICK bytes \in Seq(Char) : bytes = node.bytes /\ Len(bytes) \in Nat /\ node.synced \in Nat
      BY <2>1, NodeType DEF CurrentInv
    <2>9. keep[f] \in node.synced .. Len(bytes)
      BY <1>3, <2>1, <2>3
    <2>2. PICK k \in Nat : k = keep[f] /\ node.synced <= k /\ k <= Len(bytes)
      BY <2>3, <2>9
    <2>4. \A j \in 1 .. k : bytes[j] \in Char
      BY <2>2, <2>3, ElementOfSeq
    <2>10. SubSeq(bytes, 1, k) \in Seq(Char)
      BY <2>2, <2>4, SubSeqProperties
    <2>5. PICK part \in Seq(Char) : part = SubSeq(bytes, 1, k)
      BY <2>10
    <2>6. inodes'[f] = [node EXCEPT !.bytes = part, !.synced = k]
      BY <1>3, <2>1, <2>2, <2>3, <2>5
    <2>7. inodes'[f] \in Inode
      BY <2>6 DEF Inode
    <2>8. ASSUME IsWhole(node) PROVE inodes'[f] = node
      <3>1. k = Len(bytes) /\ k = node.synced
        BY <2>2, <2>3, <2>8 DEF IsWhole
      <3>2. part = node.bytes
        BY <2>3, <2>5, <3>1, SubSeqFull
      <3> QED
        BY <2>6, <3>1, <3>2 DEF Inode
    <2> QED
      BY <2>1, <2>7, <2>8
  <1>5. inodes' \in Seq(Inode)
    <2>1. PICK n \in Nat : DOMAIN inodes = 1 .. n
      BY <1>1, LenProperties
    <2>2. PICK nodes : nodes = inodes'
      OBVIOUS
    <2>3. nodes \in [1 .. n -> Inode]
      BY <1>3, <1>4, <2>1, <2>2
    <2> QED
      BY <2>2, <2>3, SeqDef
  <1>6. DOMAIN inodes' = DOMAIN inodes
    BY <1>3
  <1>7. SetterInv'
    BY <1>1, <1>5 DEF SetterInv, NoSetter, SetterState, HasFile
  <1>8. FetcherInv'
    BY <1>1 DEF FetcherInv, NoFetcher
  <1>9. \A f : Settled(f) => Settled(f)'
    BY <1>1, <1>4, <1>6 DEF Settled, HasFile, NoSetter
  <1>10. DirsInv'
    <2>1. PICK dir \in Directory : dir = dirs[i]
      BY <1>1, <1>2, ElementOfSeq, LenProperties
    <2>2. CurrentName \in DOMAIN dir => Settled(dir[CurrentName])
      BY <2>1 DEF CurrentInv, DirsInv
    <2>3. CurrentName \in DOMAIN dir => Settled(dir[CurrentName])'
      BY <1>9, <2>2
    <2>4. dirs' = <<dir>> /\ <<dir>> \in Seq(Directory) /\ DOMAIN <<dir>> = {1} /\ <<dir>>[1] = dir /\ <<dir>> # <<>>
      BY <1>2, <2>1
    <2> QED
      BY <2>3, <2>4 DEF DirsInv, Settled
  <1> QED
    BY <1>7, <1>8, <1>10 DEF CurrentInv

\* Every step of the Env keeps CURRENT and its reader right.
LEMMA CurrentStep == CurrentInv /\ [EnvNext]_allEnvVars => CurrentInv'
  <1> SUFFICES ASSUME CurrentInv, [EnvNext]_allEnvVars PROVE CurrentInv'
    OBVIOUS
  <1>1. SetterInv /\ DirsInv /\ FetcherInv
    BY DEF CurrentInv
  <1>2. ASSUME UNCHANGED <<inodes, setter, dirs>>, FetcherInv' PROVE CurrentInv'
    BY <1>1, <1>2 DEF CurrentInv, SetterInv, DirsInv, Settled
  <1>3. ASSUME SetterInv', Undisturbed, UNCHANGED <<dirs, fetcher>> PROVE CurrentInv'
    BY <1>1, <1>3, DirsMoved, FetcherMoved DEF CurrentInv
  <1>4. ASSUME SetterInv', DirsInv', Undisturbed, UNCHANGED fetcher PROVE CurrentInv'
    BY <1>1, <1>4, FetcherMoved DEF CurrentInv
  <1>5. CASE UNCHANGED currentVars
    BY <1>5 DEF currentVars, CurrentInv, SetterInv, DirsInv, FetcherInv, Settled
  <1>6. CASE CurrentNext
    <2>1. ASSUME NEW d \in ManifestNumber, SetCurrentFile(d) PROVE CurrentInv'
      <3>1. SetterInv' /\ Undisturbed
        BY <1>1, <2>1, SetterMoved DEF SetCurrentFile
      <3> QED
        BY <1>3, <2>1, <3>1 DEF SetCurrentFile
    <2>2. CASE NewWritableFile
      BY <1>4, <2>2, NewFileStep DEF NewWritableFile
    <2>3. CASE AppendData
      BY <1>3, <2>3, AppendDataStep DEF AppendData
    <2>4. CASE SyncFile
      BY <1>3, <2>4, SyncFileStep DEF SyncFile
    <2>5. CASE CloseFile
      BY <1>3, <2>5, CloseFileStep DEF CloseFile
    <2>6. CASE RenameFile
      BY <1>4, <2>6, RenameStep DEF RenameFile
    <2>7. CASE DeleteTemp
      BY <1>4, <2>7, DeleteTempStep DEF DeleteTemp
    <2>8. CASE ReadFileToString
      BY <1>2, <2>8, OpenCurrentStep DEF ReadFileToString
    <2>9. CASE ReadFragment
      BY <1>2, <2>9, ReadStep DEF ReadFragment
    <2>10. CASE ReadDone
      <3>1. fetcher' = NoFetcher /\ UNCHANGED <<inodes, setter, dirs>>
        BY <2>10 DEF ReadDone
      <3> QED
        BY <1>2, <3>1 DEF FetcherInv, NoFetcher
    <2>11. CASE ProcessEnds
      <3>1. setter' = NoSetter /\ fetcher' = NoFetcher /\ UNCHANGED <<inodes, dirs>>
        BY <2>11 DEF ProcessEnds
      <3>2. SetterInv' /\ Undisturbed
        BY <1>1, <3>1, SetterMoved
      <3> QED
        BY <1>1, <3>1, <3>2, DirsMoved, FetcherMoved DEF CurrentInv
    <2>12. CASE PowerFails
      BY <2>12, PowerStep
    <2> QED
      BY <1>6, <2>1, <2>2, <2>3, <2>4, <2>5, <2>6, <2>7, <2>8, <2>9, <2>10, <2>11, <2>12 DEF CurrentNext
  <1> QED
    BY <1>5, <1>6 DEF EnvNext, allEnvVars, envFileVars

\* So CURRENT and what is read of it are whole.
LEMMA CurrentHolds == CurrentInv => CurrentWhole /\ ReadWhole
  <1> SUFFICES ASSUME CurrentInv PROVE CurrentWhole /\ ReadWhole
    OBVIOUS
  <1>1. CurrentWhole
    BY DEF CurrentInv, DirsInv, Settled, IsWhole, CurrentWhole
  <1>2. ReadWhole
    <2> SUFFICES ASSUME fetcher.at = "done" PROVE \E d \in ManifestNumber : fetcher.data = ManifestName(d)
      BY DEF ReadWhole
    <2>1. PICK f \in DOMAIN inodes : f = fetcher.file /\ IsWhole(inodes[f]) /\ fetcher.data = inodes[f].bytes
      BY DEF CurrentInv, FetcherInv, Settled
    <2>2. inodes[f].of \in ManifestNumber
      BY NodeType DEF CurrentInv, Inode
    <2> QED
      BY <2>1, <2>2 DEF IsWhole
  <1> QED
    BY <1>1, <1>2

-----------------------------------------------------------------------------
(* DestroyDB beside users of the store *)

-----------------------------------------------------------------------------
(* DestroyDB beside users of the store *)

StoreFile == {"LOCK", "DATA", "CURRENT"}
Holder == StoreUser \cup {"destroyer", "nobody"}

\* p's lock is on the file with this inode.
Holds(p, inode) == inode \in DOMAIN holders /\ holders[inode] = p
\* Who has the store open, or is about to, and that its lock is its own.
Using(p) == user[p].at # "idle"
Locked(p) == Holds(p, user[p].lock)

\* The destroyer too holds a lock on the LOCK file that is there, until it
\* gives it up; only afterwards can it delete that file under someone.
DestroyerInv ==
    /\ DOMAIN shelf \subseteq StoreFile
    /\ holders \in [DOMAIN holders -> Holder]
    /\ destroyer \in [at : {"idle", "list", "delete", "unlocked", "done"}, files : SUBSET (StoreFile \ {"LOCK"}),
                      lock : DOMAIN holders \cup {0}, under : BOOLEAN]
    /\ destroyer.at # "done" => ~destroyer.under
    /\ destroyer.at = "delete" => /\ "LOCK" \in DOMAIN shelf /\ shelf["LOCK"] = destroyer.lock
                                  /\ Holds("destroyer", destroyer.lock)

\* Each user has a lock of its own; as long as no LOCK file was deleted under
\* one it is the lock on the LOCK file that is there, so there is one user.
\* The files of a store that runs are there.
UserInv ==
    /\ user \in [StoreUser -> [at : {"idle", "locked", "running"}, lock : DOMAIN holders \cup {0}]]
    /\ \A p \in StoreUser : Using(p) => Locked(p)
    /\ ~destroyer.under => \A p \in StoreUser : Using(p) => "LOCK" \in DOMAIN shelf /\ user[p].lock = shelf["LOCK"]
    /\ \A p \in StoreUser : user[p].at = "running" => {"DATA", "CURRENT"} \subseteq DOMAIN shelf

DestroyInv == DestroyerInv /\ UserInv

\* Two users would have the lock on the same LOCK file.
LEMMA DestroyHolds == DestroyInv => DestroyedUnused
  <1> SUFFICES ASSUME DestroyInv PROVE DestroyedUnused
    OBVIOUS
  <1>1. ASSUME ~destroyer.under, NEW p \in StoreUser, NEW q \in StoreUser, Using(p), Using(q)
        PROVE  p = q
    BY <1>1 DEF DestroyInv, UserInv, Holds, Locked
  <1> QED
    BY <1>1 DEF DestroyInv, UserInv, Using, DestroyedUnused

\* At first the store's directory is empty.
LEMMA DestroyStart == DestroyInit => DestroyInv
  <1> SUFFICES ASSUME DestroyInit PROVE DestroyInv
    OBVIOUS
  <1>1. DOMAIN shelf = {} /\ DOMAIN holders = {} /\ holders = <<>>
    BY DEF DestroyInit
  <1>2. holders \in [DOMAIN holders -> Holder]
    BY <1>1
  <1>3. DestroyerInv
    BY <1>1, <1>2 DEF DestroyInit, DestroyerInv
  <1>4. UserInv
    BY <1>1 DEF DestroyInit, UserInv, Using
  <1> QED
    BY <1>3, <1>4 DEF DestroyInv

\* Users and destroyer are told apart from each other and from nobody.
LEMMA Apart == ASSUME NEW p \in StoreUser PROVE p \in Holder /\ p # "destroyer" /\ p # "nobody"
  BY EnvFilesAssumption DEF Holder

\* LockFile on the LOCK file, which it makes when there is none.
LEMMA Taking ==
    ASSUME DestroyInv, NEW p \in Holder, TakeLock(p)
    PROVE  \E inode :
             /\ inode = LockInode /\ shelf' = LockedShelf
             /\ DOMAIN shelf' = DOMAIN shelf \cup {"LOCK"} /\ shelf'["LOCK"] = inode
             /\ \A f \in DOMAIN shelf : shelf'[f] = shelf[f]
             /\ holders' \in [DOMAIN holders' -> Holder] /\ DOMAIN holders' = DOMAIN holders \cup {inode}
             /\ Holds(p, inode)'
             /\ \A q, i : Holds(q, i) /\ q # "nobody" => i # inode /\ Holds(q, i)'
  <1>1. PICK inode : inode = LockInode
    OBVIOUS
  <1>2. shelf' = LockedShelf /\ LockFree(inode) /\ holders' = Assoc(holders, inode, p)
    BY <1>1 DEF TakeLock, LockOn
  <1>3. /\ DOMAIN shelf' = DOMAIN shelf \cup {"LOCK"} /\ shelf'["LOCK"] = inode
        /\ \A f \in DOMAIN shelf : shelf'[f] = shelf[f]
    <2>1. CASE "LOCK" \in DOMAIN shelf
      <3>1. shelf' = shelf
        BY <1>2, <2>1 DEF LockedShelf
      <3> QED
        BY <1>1, <1>2, <2>1, <3>1 DEF LockInode
    <2>2. CASE "LOCK" \notin DOMAIN shelf
      <3>1. shelf' = [i \in DOMAIN shelf \cup {"LOCK"} |-> IF i = "LOCK" THEN NewInode ELSE shelf[i]]
        BY <1>2, <2>2 DEF LockedShelf, Assoc
      <3>2. inode = shelf'["LOCK"]
        BY <1>1, <1>2 DEF LockInode
      <3> QED
        BY <2>2, <3>1, <3>2
    <2> QED
      BY <2>1, <2>2
  <1>4. holders \in [DOMAIN holders -> Holder]
    BY DEF DestroyInv, DestroyerInv
  <1>5. holders' = [i \in DOMAIN holders \cup {inode} |-> IF i = inode THEN p ELSE holders[i]]
    BY <1>2 DEF Assoc
  <1>6. holders' \in [DOMAIN holders' -> Holder] /\ DOMAIN holders' = DOMAIN holders \cup {inode}
    BY <1>4, <1>5
  <1>7. Holds(p, inode)'
    BY <1>5 DEF Holds
  <1>8. ASSUME NEW q, NEW i, Holds(q, i), q # "nobody" PROVE i # inode /\ Holds(q, i)'
    BY <1>2, <1>5, <1>8 DEF Holds, LockFree
  <1> QED
    BY <1>1, <1>2, <1>3, <1>6, <1>7, <1>8

\* UnlockFile of a lock held.
LEMMA Freeing ==
    ASSUME holders \in [DOMAIN holders -> Holder], NEW p, NEW inode, Holds(p, inode),
           holders' = [holders EXCEPT ![inode] = "nobody"]
    PROVE  /\ holders' \in [DOMAIN holders' -> Holder] /\ DOMAIN holders' = DOMAIN holders
           /\ \A q, i : Holds(q, i) /\ q # p => Holds(q, i)'
  <1>1. DOMAIN holders' = DOMAIN holders /\ "nobody" \in Holder
    BY DEF Holder
  <1>2. \A i \in DOMAIN holders : holders'[i] = IF i = inode THEN "nobody" ELSE holders[i]
    OBVIOUS
  <1>3. holders' \in [DOMAIN holders' -> Holder]
    BY <1>1, <1>2
  <1>4. ASSUME NEW q, NEW i, Holds(q, i), q # p PROVE Holds(q, i)'
    BY <1>1, <1>2, <1>4 DEF Holds
  <1> QED
    BY <1>1, <1>3, <1>4

\* DB::Open takes the lock on the LOCK file that is there, which no one has.
LEMMA OpenStep == ASSUME DestroyInv, NEW p \in StoreUser, OpenStore(p) PROVE DestroyInv'
  <1>1. PICK inode :
          /\ inode = LockInode
          /\ DOMAIN shelf' = DOMAIN shelf \cup {"LOCK"} /\ shelf'["LOCK"] = inode
          /\ \A f \in DOMAIN shelf : shelf'[f] = shelf[f]
          /\ holders' \in [DOMAIN holders' -> Holder] /\ DOMAIN holders' = DOMAIN holders \cup {inode}
          /\ Holds(p, inode)'
          /\ \A q, i : Holds(q, i) /\ q # "nobody" => i # inode /\ Holds(q, i)'
    BY Apart, Taking DEF OpenStore
  <1>2. user' = [user EXCEPT ![p] = [at |-> "locked", lock |-> inode]] /\ destroyer' = destroyer /\ ~Using(p)
    BY <1>1 DEF OpenStore, Using
  <1>3. user \in [StoreUser -> [at : {"idle", "locked", "running"}, lock : DOMAIN holders \cup {0}]]
    BY DEF DestroyInv, UserInv
  <1>4. user' \in [StoreUser -> [at : {"idle", "locked", "running"}, lock : DOMAIN holders' \cup {0}]]
    BY <1>1, <1>2, <1>3
  <1>5. DestroyerInv'
    BY <1>1, <1>2 DEF DestroyInv, DestroyerInv, StoreFile
  <1>6. /\ user'[p] = [at |-> "locked", lock |-> inode]
        /\ \A q \in StoreUser : q # p => user'[q] = user[q]
    BY <1>2, <1>3
  <1>7. ASSUME NEW q \in StoreUser, Using(q)' PROVE Locked(q)'
    <2>1. CASE q = p
      BY <1>1, <1>6, <2>1 DEF Locked, Holds
    <2>2. CASE q # p
      <3>1. PICK i : i = user[q].lock /\ i = user'[q].lock
        BY <1>6, <2>2
      <3>2. Holds(q, i) /\ q # "nobody"
        BY <1>6, <1>7, <2>2, <3>1, Apart DEF DestroyInv, UserInv, Using, Locked
      <3>3. Holds(q, i)'
        BY <1>1, <3>2
      <3> QED
        BY <3>1, <3>3 DEF Locked, Holds
    <2> QED
      BY <2>1, <2>2
  <1>8. ASSUME ~destroyer'.under, NEW q \in StoreUser, Using(q)'
        PROVE  "LOCK" \in DOMAIN shelf' /\ user'[q].lock = shelf'["LOCK"]
    <2>1. CASE q = p
      BY <1>1, <1>6, <2>1
    <2>2. CASE q # p
      BY <1>1, <1>2, <1>6, <1>8, <2>2 DEF DestroyInv, UserInv, Using
    <2> QED
      BY <2>1, <2>2
  <1>9. \A q \in StoreUser : user'[q].at = "running" => {"DATA", "CURRENT"} \subseteq DOMAIN shelf'
    BY <1>1, <1>6 DEF DestroyInv, UserInv
  <1>10. UserInv'
    BY <1>4, <1>7, <1>8, <1>9 DEF UserInv, Locked, Holds, Using
  <1> QED
    BY <1>5, <1>10 DEF DestroyInv

\* A user gives its lock back, after Recover failed or when it closes the store.
LEMMA LeaveStep ==
    ASSUME DestroyInv, NEW p \in StoreUser, Using(p), user' = [user EXCEPT ![p] = [at |-> "idle", lock |-> 0]],
           holders' = [holders EXCEPT ![user[p].lock] = "nobody"], UNCHANGED <<shelf, destroyer>>
    PROVE  DestroyInv'
  <1>1. PICK inode : inode = user[p].lock /\ Holds(p, inode)
    BY DEF DestroyInv, UserInv, Locked
  <1>2. /\ holders' \in [DOMAIN holders' -> Holder] /\ DOMAIN holders' = DOMAIN holders
        /\ \A q, i : Holds(q, i) /\ q # p => Holds(q, i)'
    <2>1. holders \in [DOMAIN holders -> Holder] /\ holders' = [holders EXCEPT ![inode] = "nobody"]
      BY <1>1 DEF DestroyInv, DestroyerInv
    <2> QED
      BY <1>1, <2>1, Freeing
  <1>3. user \in [StoreUser -> [at : {"idle", "locked", "running"}, lock : DOMAIN holders \cup {0}]]
    BY DEF DestroyInv, UserInv
  <1>4. user' \in [StoreUser -> [at : {"idle", "locked", "running"}, lock : DOMAIN holders' \cup {0}]]
    BY <1>2, <1>3
  <1>5. ~Using(p)' /\ \A q \in StoreUser : q # p => user'[q] = user[q]
    BY <1>3 DEF Using
  <1>6. DestroyerInv'
    BY <1>2, Apart DEF DestroyInv, DestroyerInv
  <1>7. ASSUME NEW q \in StoreUser, Using(q)'
        PROVE  /\ Locked(q)'
               /\ ~destroyer'.under => "LOCK" \in DOMAIN shelf' /\ user'[q].lock = shelf'["LOCK"]
               /\ user'[q].at = "running" => {"DATA", "CURRENT"} \subseteq DOMAIN shelf'
    <2>1. q # p /\ user'[q] = user[q] /\ Using(q)
      BY <1>5, <1>7 DEF Using
    <2>2. PICK i : i = user[q].lock /\ i = user'[q].lock /\ Holds(q, i)
      BY <2>1 DEF DestroyInv, UserInv, Locked
    <2>3. Locked(q)'
      BY <1>2, <2>1, <2>2 DEF Locked, Holds
    <2> QED
      BY <2>1, <2>3 DEF DestroyInv, UserInv
  <1>8. UserInv'
    BY <1>4, <1>7 DEF UserInv, Using, Locked, Holds
  <1> QED
    BY <1>6, <1>8 DEF DestroyInv

\* Recover makes the store's files, or finds them missing and gives the lock back.
LEMMA RecoverStep == ASSUME DestroyInv, NEW p \in StoreUser, Recover(p) PROVE DestroyInv'
  <1>1. CASE "CURRENT" \in DOMAIN shelf /\ "DATA" \notin DOMAIN shelf
    BY <1>1, LeaveStep DEF Recover, Using
  <1>2. CASE ~("CURRENT" \in DOMAIN shelf /\ "DATA" \notin DOMAIN shelf)
    <2>1. /\ shelf' = Assoc(Assoc(shelf, "DATA", 0), "CURRENT", 0)
          /\ user' = [user EXCEPT ![p].at = "running"] /\ UNCHANGED <<holders, destroyer>>
          /\ user[p].at = "locked"
      BY <1>2 DEF Recover
    <2>2. /\ DOMAIN shelf' = DOMAIN shelf \cup {"DATA", "CURRENT"}
          /\ "LOCK" \in DOMAIN shelf => shelf'["LOCK"] = shelf["LOCK"]
      BY <2>1 DEF Assoc
    <2>3. DestroyerInv'
      BY <2>1, <2>2 DEF DestroyInv, DestroyerInv, StoreFile, Holds
    <2>4. user \in [StoreUser -> [at : {"idle", "locked", "running"}, lock : DOMAIN holders \cup {0}]]
      BY DEF DestroyInv, UserInv
    <2>5. /\ user' \in [StoreUser -> [at : {"idle", "locked", "running"}, lock : DOMAIN holders' \cup {0}]]
          /\ \A q \in StoreUser : user'[q].lock = user[q].lock /\ (Using(q)' <=> Using(q))
      BY <2>1, <2>4 DEF Using
    <2>6. UserInv'
      BY <2>1, <2>2, <2>5 DEF DestroyInv, UserInv, Holds, Locked
    <2> QED
      BY <2>3, <2>6 DEF DestroyInv
  <1> QED
    BY <1>1, <1>2

\* The users, when files are only added, or taken from a store that no one uses.
LEMMA UsersKept ==
    ASSUME UserInv, UNCHANGED user,
           \A q, i : Holds(q, i) /\ q \in StoreUser => Holds(q, i)',
           DOMAIN holders \subseteq DOMAIN holders',
           ~destroyer'.under => ~destroyer.under,
           \A q \in StoreUser : Using(q) =>
              /\ {"DATA", "CURRENT"} \cap DOMAIN shelf \subseteq DOMAIN shelf'
              /\ ~destroyer'.under /\ "LOCK" \in DOMAIN shelf => "LOCK" \in DOMAIN shelf' /\ shelf'["LOCK"] = shelf["LOCK"]
    PROVE  UserInv'
  <1>1. user' \in [StoreUser -> [at : {"idle", "locked", "running"}, lock : DOMAIN holders' \cup {0}]]
    BY DEF UserInv
  <1>2. \A q \in StoreUser : (Using(q)' <=> Using(q)) /\ (user'[q].at = "running" => Using(q))
    BY DEF Using
  <1>3. ASSUME NEW q \in StoreUser, Using(q)'
        PROVE  /\ Locked(q)'
               /\ ~destroyer'.under => "LOCK" \in DOMAIN shelf' /\ user'[q].lock = shelf'["LOCK"]
               /\ user'[q].at = "running" => {"DATA", "CURRENT"} \subseteq DOMAIN shelf'
    <2>1. PICK i : i = user[q].lock /\ i = user'[q].lock
      OBVIOUS
    <2>2. Locked(q)'
      <3>1. Holds(q, i)'
        BY <1>2, <1>3, <2>1 DEF UserInv, Locked
      <3> QED
        BY <2>1, <3>1 DEF Locked, Holds
    <2>3. ~destroyer'.under => "LOCK" \in DOMAIN shelf' /\ user'[q].lock = shelf'["LOCK"]
      BY <1>2, <1>3 DEF UserInv
    <2>4. user'[q].at = "running" => {"DATA", "CURRENT"} \subseteq DOMAIN shelf'
      BY <1>2 DEF UserInv
    <2> QED
      BY <2>2, <2>3, <2>4
  <1> QED
    BY <1>1, <1>2, <1>3 DEF UserInv, Locked, Holds, Using

\* What the steps of DestroyDB find.
LEMMA DestroyerTyped ==
    ASSUME DestroyInv
    PROVE  /\ holders \in [DOMAIN holders -> Holder] /\ DOMAIN shelf \subseteq StoreFile
           /\ destroyer.files \subseteq StoreFile \ {"LOCK"} /\ destroyer.lock \in DOMAIN holders \cup {0}
           /\ destroyer.under \in BOOLEAN
           /\ destroyer = [at |-> destroyer.at, files |-> destroyer.files,
                           lock |-> destroyer.lock, under |-> destroyer.under]
           /\ UserInv
  BY DEF DestroyInv, DestroyerInv

\* DestroyDB lists the files before it has the lock.
LEMMA ListStep == DestroyInv /\ DestroyDB => DestroyInv'
  <1> SUFFICES ASSUME DestroyInv, DestroyDB PROVE DestroyInv'
    OBVIOUS
  <1>1. destroyer.at = "idle" /\ ~destroyer.under /\ UNCHANGED <<shelf, holders, user>>
    BY DEF DestroyDB, DestroyInv, DestroyerInv
  <1>2. PICK at \in {"list", "done"} :
          destroyer' = [at |-> at, files |-> DOMAIN shelf \ {"LOCK"}, lock |-> destroyer.lock, under |-> destroyer.under]
    BY DestroyerTyped DEF DestroyDB
  <1>3. DestroyerInv'
    BY <1>1, <1>2, DestroyerTyped DEF DestroyerInv
  <1>4. UserInv'
    BY <1>1, <1>2, DestroyerTyped, UsersKept DEF Holds
  <1> QED
    BY <1>3, <1>4 DEF DestroyInv

\* DestroyDB takes the lock only when no one has the store open, and gives up otherwise.
LEMMA DestroyLockStep == DestroyInv /\ DestroyLock => DestroyInv'
  <1> SUFFICES ASSUME DestroyInv, DestroyLock PROVE DestroyInv'
    OBVIOUS
  <1>1. destroyer.at = "list" /\ ~destroyer.under /\ UNCHANGED user
    BY DEF DestroyLock, DestroyInv, DestroyerInv
  <1>2. CASE TakeLock("destroyer") /\ destroyer' = [destroyer EXCEPT !.at = "delete", !.lock = LockInode]
    <2>1. "destroyer" \in Holder
      BY DEF Holder
    <2>2. PICK inode :
            /\ inode = LockInode
            /\ DOMAIN shelf' = DOMAIN shelf \cup {"LOCK"} /\ shelf'["LOCK"] = inode
            /\ \A f \in DOMAIN shelf : shelf'[f] = shelf[f]
            /\ holders' \in [DOMAIN holders' -> Holder] /\ DOMAIN holders' = DOMAIN holders \cup {inode}
            /\ Holds("destroyer", inode)'
            /\ \A q, i : Holds(q, i) /\ q # "nobody" => i # inode /\ Holds(q, i)'
      BY <1>2, <2>1, Taking
    <2>3. destroyer' = [at |-> "delete", files |-> destroyer.files, lock |-> inode, under |-> destroyer.under]
      BY <1>2, <2>2, DestroyerTyped
    <2>4. DestroyerInv'
      BY <1>1, <2>2, <2>3, DestroyerTyped DEF DestroyerInv, StoreFile, Holds
    <2>5. UserInv'
      BY <1>1, <2>2, <2>3, Apart, DestroyerTyped, UsersKept
    <2> QED
      BY <2>4, <2>5 DEF DestroyInv
  <1>3. CASE shelf' = LockedShelf /\ destroyer' = [destroyer EXCEPT !.at = "done"] /\ UNCHANGED holders
    <2>1. /\ DOMAIN shelf' = DOMAIN shelf \cup {"LOCK"}
          /\ \A f \in DOMAIN shelf : shelf'[f] = shelf[f]
      <3>1. CASE "LOCK" \in DOMAIN shelf
        BY <1>3, <3>1 DEF LockedShelf
      <3>2. CASE "LOCK" \notin DOMAIN shelf
        BY <1>3, <3>2 DEF LockedShelf, Assoc
      <3> QED
        BY <3>1, <3>2
    <2>2. destroyer' = [at |-> "done", files |-> destroyer.files, lock |-> destroyer.lock, under |-> destroyer.under]
      BY <1>3, DestroyerTyped
    <2>3. DestroyerInv'
      BY <1>3, <2>1, <2>2, DestroyerTyped DEF DestroyerInv, StoreFile
    <2>4. UserInv'
      BY <1>1, <1>3, <2>1, <2>2, DestroyerTyped, UsersKept DEF Holds
    <2> QED
      BY <2>3, <2>4 DEF DestroyInv
  <1> QED
    BY <1>2, <1>3 DEF DestroyLock

\* A file goes while the destroyer has the lock: no one uses the store.
LEMMA DestroyFileStep == DestroyInv /\ DestroyFile => DestroyInv'
  <1> SUFFICES ASSUME DestroyInv, DestroyFile PROVE DestroyInv'
    OBVIOUS
  <1>1. /\ destroyer.at = "delete" /\ ~destroyer.under /\ UNCHANGED <<user, holders>>
        /\ "LOCK" \in DOMAIN shelf /\ shelf["LOCK"] = destroyer.lock /\ Holds("destroyer", destroyer.lock)
    BY DEF DestroyFile, DestroyInv, DestroyerInv
  <1>2. PICK f \in destroyer.files : /\ shelf' \in Unlinked(shelf, f)
                                     /\ destroyer' = [destroyer EXCEPT !.files = @ \ {f}]
    BY DEF DestroyFile
  <1>3. f # "LOCK"
    BY DestroyerTyped
  <1>4. /\ DOMAIN shelf' \subseteq DOMAIN shelf /\ "LOCK" \in DOMAIN shelf' /\ shelf'["LOCK"] = shelf["LOCK"]
    BY <1>1, <1>2, <1>3 DEF Unlinked, Dropped, Restrict
  <1>5. destroyer' = [at |-> "delete", files |-> destroyer.files \ {f}, lock |-> destroyer.lock, under |-> destroyer.under]
    BY <1>1, <1>2, DestroyerTyped
  <1>6. DestroyerInv'
    BY <1>1, <1>4, <1>5, DestroyerTyped DEF DestroyerInv, Holds
  <1>7. ASSUME NEW q \in StoreUser PROVE ~Using(q)
    BY <1>1, Apart DEF DestroyInv, UserInv, Holds, Locked
  <1>8. UserInv'
    BY <1>1, <1>5, <1>7, DestroyerTyped, UsersKept DEF Holds
  <1> QED
    BY <1>6, <1>8 DEF DestroyInv

\* UnlockFile gives the destroyer's lock back, and no other.
LEMMA DestroyUnlockStep == DestroyInv /\ DestroyUnlock => DestroyInv'
  <1> SUFFICES ASSUME DestroyInv, DestroyUnlock PROVE DestroyInv'
    OBVIOUS
  <1>1. PICK inode : inode = destroyer.lock /\ Holds("destroyer", inode)
    BY DEF DestroyUnlock, DestroyInv, DestroyerInv
  <1>2. ~destroyer.under /\ UNCHANGED <<shelf, user>> /\ holders' = [holders EXCEPT ![inode] = "nobody"]
    BY <1>1 DEF DestroyUnlock, DestroyInv, DestroyerInv
  <1>3. /\ holders' \in [DOMAIN holders' -> Holder] /\ DOMAIN holders' = DOMAIN holders
        /\ \A q, i : Holds(q, i) /\ q # "destroyer" => Holds(q, i)'
    BY <1>1, <1>2, DestroyerTyped, Freeing
  <1>4. destroyer' = [at |-> "unlocked", files |-> destroyer.files, lock |-> destroyer.lock, under |-> destroyer.under]
    BY DestroyerTyped DEF DestroyUnlock
  <1>5. DestroyerInv'
    BY <1>2, <1>3, <1>4, DestroyerTyped DEF DestroyerInv
  <1>6. UserInv'
    BY <1>2, <1>3, <1>4, Apart, DestroyerTyped, UsersKept
  <1> QED
    BY <1>5, <1>6 DEF DestroyInv

\* Without the lock, the LOCK file is deleted: harmless if no one has locked it since.
LEMMA DeleteLockStep == DestroyInv /\ DestroyLockFile => DestroyInv'
  <1> SUFFICES ASSUME DestroyInv, DestroyLockFile PROVE DestroyInv'
    OBVIOUS
  <1>1. /\ destroyer.at = "unlocked" /\ ~destroyer.under /\ UNCHANGED <<holders, user>>
        /\ shelf' \in Unlinked(shelf, "LOCK")
    BY DEF DestroyLockFile, DestroyInv, DestroyerInv
  <1>2. PICK under \in BOOLEAN :
          /\ under = ("LOCK" \in DOMAIN shelf /\ ~LockFree(shelf["LOCK"]))
          /\ destroyer' = [at |-> "done", files |-> destroyer.files, lock |-> destroyer.lock, under |-> under]
    BY DestroyerTyped DEF DestroyLockFile
  <1>3. DOMAIN shelf' \subseteq DOMAIN shelf /\ DOMAIN shelf \ {"LOCK"} \subseteq DOMAIN shelf'
    BY <1>1 DEF Unlinked, Dropped, Restrict
  <1>4. DestroyerInv'
    BY <1>1, <1>2, <1>3, DestroyerTyped DEF DestroyerInv
  <1>5. ASSUME NEW q \in StoreUser, Using(q) PROVE under
    <2>1. "LOCK" \in DOMAIN shelf /\ user[q].lock = shelf["LOCK"] /\ Locked(q)
      BY <1>1, <1>5 DEF DestroyInv, UserInv
    <2>2. ~LockFree(shelf["LOCK"])
      BY <2>1, Apart DEF Locked, Holds, LockFree
    <2> QED
      BY <1>2, <2>1, <2>2
  <1>6. UserInv'
    BY <1>1, <1>2, <1>3, <1>5, DestroyerTyped, UsersKept DEF Holds
  <1> QED
    BY <1>4, <1>6 DEF DestroyInv

\* Every step of the Env keeps the users of a store apart.
LEMMA DestroyStep == DestroyInv /\ [EnvNext]_allEnvVars => DestroyInv'
  <1> SUFFICES ASSUME DestroyInv, [EnvNext]_allEnvVars PROVE DestroyInv'
    OBVIOUS
  <1>1. CASE UNCHANGED destroyVars
    BY <1>1 DEF destroyVars, DestroyInv, DestroyerInv, UserInv, Using, Locked, Holds
  <1>2. CASE DestroyNext
    <2>1. ASSUME NEW p \in StoreUser, OpenStore(p) \/ Recover(p) \/ CloseStore(p) PROVE DestroyInv'
      <3>1. CASE CloseStore(p)
        BY <3>1, LeaveStep DEF CloseStore, Using
      <3> QED
        BY <2>1, <3>1, OpenStep, RecoverStep
    <2> QED
      BY <1>2, <2>1, ListStep, DestroyLockStep, DestroyFileStep, DestroyUnlockStep, DeleteLockStep DEF DestroyNext
  <1> QED
    BY <1>1, <1>2 DEF EnvNext, allEnvVars, envFileVars

-----------------------------------------------------------------------------
(* The Env *)

EnvInvariant == WorkInv /\ LimitInv /\ LockInv /\ CurrentInv /\ DestroyInv

\* Every step of any part of the Env keeps the invariants of all of them.
THEOREM EnvInductive == EnvSpec => []EnvInvariant
  <1>1. EnvInit /\ CurrentInit /\ DestroyInit => EnvInvariant
    BY WorkInit, LimitInit, LockInit, CurrentStart, DestroyStart DEF EnvInvariant
  <1>2. EnvInvariant /\ [EnvNext]_allEnvVars => EnvInvariant'
    BY WorkStep, LimitStep, LockKept, CurrentStep, DestroyStep DEF EnvInvariant
  <1> QED
    BY <1>1, <1>2, PTL DEF EnvSpec, allEnvVars

\* The files on their own: CURRENT and what a reader gets of it are whole,
\* whatever fails and whenever the process or the power ends, and DestroyDB
\* takes no file from a store in use.
THEOREM FilesAreExact == EnvSpec => []FilesExact
  <1>1. EnvInvariant => FilesExact
    BY CurrentHolds, DestroyHolds DEF EnvInvariant, FilesExact
  <1> QED
    BY <1>1, EnvInductive, PTL

\* PosixEnv under any number of threads and processes: every scheduled item
\* runs once and in order and no wake-up is lost, the limits on mappings and
\* descriptors hold and are given back, the lock has one holder as long as no
\* close gives it up, and the files are exact.
THEOREM EnvCorrect == EnvSpec => []EnvExact
  <1>1. EnvInvariant => EnvExact
    <2>1. WorkInv => NoLostWork
      BY DEF WorkInv
    <2>2. LimitInv => LimitsHold
      BY DEF LimitInv
    <2> QED
      BY <2>1, <2>2, LockHolds, CurrentHolds, DestroyHolds DEF EnvInvariant, FilesExact, EnvExact
  <1> QED
    BY <1>1, EnvInductive, PTL
=============================================================================
