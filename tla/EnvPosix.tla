------------------------------ MODULE EnvPosix ------------------------------
(***************************************************************************)
(* LevelDB's PosixEnv where several threads meet in it: the background     *)
(* thread and its queue, the file lock that keeps a store to one user, and *)
(* the limits on mapped and open files.                                    *)
(*                                                                         *)
(* A step is one critical section or one system call.  The kernel is       *)
(* modelled as POSIX has it: a lock on a file belongs to the process, and  *)
(* any close of the file by the process gives it up.                       *)
(***************************************************************************)
EXTENDS EnvFiles

CONSTANTS
    EnvThread,             \* threads that call the Env
    ProcOf,                \* the process of each
    NoProc,
    MmapLimit, FdLimit,    \* MaxMmaps, MaxOpenFiles
    MaxScheduled,          \* bound on Schedule calls
    MaxLockCalls           \* bound on LockFile calls

ASSUME EnvPosixAssumption ==
    /\ {MmapLimit, FdLimit, MaxScheduled, MaxLockCalls} \subseteq Nat
    /\ \A t \in EnvThread : ProcOf[t] # NoProc

VARIABLES
    bgQueue,     \* queue_: items by number
    bgThread,    \* "none", "check" (its queue), "waiting", "running"
    ran,         \* items run, in order
    scheduled,   \* items scheduled
    osLock,      \* the process that holds the kernel's lock on the file
    lockTable,   \* processes whose locks_ holds the file's name
    locker,      \* by thread: its LockFile or UnlockFile call
    lockCalls,
    lockLost,    \* a close has given up a lock that a thread of the process relied on
    mmapAllowed, fdAllowed,   \* Limiter::allowed_
    opener       \* by thread: its NewRandomAccessFile, and the file it made

bgVars == <<bgQueue, bgThread, ran, scheduled>>
lockVars == <<osLock, lockTable, locker, lockCalls, lockLost>>
fileVars == <<mmapAllowed, fdAllowed, opener>>
envVars == <<bgVars, lockVars, fileVars>>

Procs == {ProcOf[t] : t \in EnvThread}

EnvInit ==
    /\ bgQueue = <<>> /\ bgThread = "none" /\ ran = <<>> /\ scheduled = 0
    /\ osLock = NoProc /\ lockTable = {} /\ locker = [t \in EnvThread |-> "idle"] /\ lockCalls = 0
    /\ lockLost = FALSE
    /\ mmapAllowed = MmapLimit /\ fdAllowed = FdLimit /\ opener = [t \in EnvThread |-> "idle"]

-----------------------------------------------------------------------------
(* Background work *)

\* Schedule starts the thread the first time and signals when the queue was
\* empty.
Schedule ==
    /\ scheduled < MaxScheduled
    /\ scheduled' = scheduled + 1 /\ bgQueue' = Append(bgQueue, scheduled')
    /\ bgThread' = CASE bgThread = "none" -> "check"
                     [] bgThread = "waiting" /\ bgQueue = <<>> -> "check"
                     [] OTHER -> bgThread
    /\ UNCHANGED <<ran, lockVars, fileVars>>

Taken == [item |-> Head(bgQueue), rest |-> Tail(bgQueue)]

\* Under mu_: wait while the queue is empty, else take the front item.
BGCheck ==
    /\ bgThread = "check"
    /\ IF bgQueue = <<>> THEN bgThread' = "waiting" /\ UNCHANGED <<bgQueue, ran>>
       ELSE bgThread' = "running" /\ bgQueue' = Taken.rest /\ ran' = Append(ran, Taken.item)
    /\ UNCHANGED <<scheduled, lockVars, fileVars>>
\* (*function)(arg), which may Schedule again
BGRun ==
    /\ bgThread = "running" /\ bgThread' = "check"
    /\ UNCHANGED <<bgQueue, ran, scheduled, lockVars, fileVars>>
\* pthread_cond_wait may return unsignalled.
SpuriousWakeup ==
    /\ bgThread = "waiting" /\ bgThread' = "check"
    /\ UNCHANGED <<bgQueue, ran, scheduled, lockVars, fileVars>>

-----------------------------------------------------------------------------
(* LockFile and UnlockFile of one file *)

P(t) == ProcOf[t]
Locker(t, pc) == locker' = [locker EXCEPT ![t] = pc]
\* fcntl(F_UNLCK), or close(fd) of any descriptor of the file
GivenUp(p) == IF osLock = p THEN NoProc ELSE osLock
Closes(t) ==
    /\ osLock' = GivenUp(P(t))
    /\ lockLost' = (lockLost \/ (osLock = P(t) /\ \E u \in EnvThread \ {t} : P(u) = P(t) /\ locker[u] = "held"))

LockOpen(t) ==
    /\ locker[t] = "idle" /\ lockCalls < MaxLockCalls /\ lockCalls' = lockCalls + 1
    /\ Locker(t, "insert") /\ UNCHANGED <<osLock, lockTable, lockLost, bgVars, fileVars>>
\* mutant: a name that is there already is taken for inserted
LockInsertAnyway(t) ==
    /\ locker[t] = "insert" /\ Locker(t, "fcntl") /\ lockTable' = lockTable \cup {P(t)}
    /\ UNCHANGED <<osLock, lockCalls, lockLost, bgVars, fileVars>>
LockInsert(t) ==
    /\ locker[t] = "insert"
    /\ Locker(t, IF P(t) \in lockTable THEN "refused" ELSE "fcntl")
    /\ lockTable' = lockTable \cup {P(t)}
    /\ UNCHANGED <<osLock, lockCalls, lockLost, bgVars, fileVars>>
\* "already held by process"
LockRefused(t) ==
    /\ locker[t] = "refused" /\ Locker(t, "idle")
    /\ Closes(t) /\ UNCHANGED <<lockTable, lockCalls, bgVars, fileVars>>
LockFcntl(t) ==
    /\ locker[t] = "fcntl"
    /\ IF osLock \in {NoProc, P(t)} THEN Locker(t, "held") /\ osLock' = P(t)
       ELSE Locker(t, "failed") /\ UNCHANGED osLock
    /\ UNCHANGED <<lockTable, lockCalls, lockLost, bgVars, fileVars>>
LockFailedClose(t) ==
    /\ locker[t] = "failed" /\ Locker(t, "failedClosed")
    /\ Closes(t) /\ UNCHANGED <<lockTable, lockCalls, bgVars, fileVars>>
LockFailedRemove(t) ==
    /\ locker[t] = "failedClosed" /\ Locker(t, "idle")
    /\ lockTable' = lockTable \ {P(t)} /\ UNCHANGED <<osLock, lockCalls, lockLost, bgVars, fileVars>>

\* UnlockFile: fcntl, then the table, then close
UnlockFcntl(t) ==
    /\ locker[t] = "held" /\ Locker(t, "unlocked")
    /\ osLock' = GivenUp(P(t)) /\ UNCHANGED <<lockTable, lockCalls, lockLost, bgVars, fileVars>>
UnlockRemove(t) ==
    /\ locker[t] = "unlocked" /\ Locker(t, "removed")
    /\ lockTable' = lockTable \ {P(t)} /\ UNCHANGED <<osLock, lockCalls, lockLost, bgVars, fileVars>>
UnlockClose(t) ==
    /\ locker[t] = "removed" /\ Locker(t, "idle")
    /\ Closes(t) /\ UNCHANGED <<lockTable, lockCalls, bgVars, fileVars>>

-----------------------------------------------------------------------------
(* NewRandomAccessFile and its Limiters (of one process) *)

Opener(t, pc) == opener' = [opener EXCEPT ![t] = pc]
\* Acquire: a look without the lock, then another with it
MmapLook(t) ==
    /\ opener[t] = "idle"
    /\ Opener(t, IF mmapAllowed <= 0 THEN "fdLook" ELSE "mmapAcquire")
    /\ UNCHANGED <<mmapAllowed, fdAllowed, bgVars, lockVars>>
MmapAcquire(t) ==
    /\ opener[t] = "mmapAcquire"
    /\ IF mmapAllowed <= 0 THEN Opener(t, "fdLook") /\ UNCHANGED mmapAllowed
       ELSE Opener(t, "mapping") /\ mmapAllowed' = mmapAllowed - 1
    /\ UNCHANGED <<fdAllowed, bgVars, lockVars>>
\* GetFileSize and mmap; on failure the limit is given back.
Mapped(t) ==
    /\ opener[t] = "mapping" /\ Opener(t, "mmapped") /\ UNCHANGED <<mmapAllowed, fdAllowed, bgVars, lockVars>>
MapFails(t) ==
    /\ opener[t] = "mapping" /\ Opener(t, "idle") /\ mmapAllowed' = mmapAllowed + 1
    /\ UNCHANGED <<fdAllowed, bgVars, lockVars>>
\* PosixRandomAccessFile keeps its descriptor only within the limit.
FdLook(t) ==
    /\ opener[t] = "fdLook" /\ Opener(t, IF fdAllowed <= 0 THEN "temporary" ELSE "fdAcquire")
    /\ UNCHANGED <<mmapAllowed, fdAllowed, bgVars, lockVars>>
FdAcquire(t) ==
    /\ opener[t] = "fdAcquire"
    /\ IF fdAllowed <= 0 THEN Opener(t, "temporary") /\ UNCHANGED fdAllowed
       ELSE Opener(t, "open") /\ fdAllowed' = fdAllowed - 1
    /\ UNCHANGED <<mmapAllowed, bgVars, lockVars>>
\* The destructors
DeleteFile(t) ==
    /\ opener[t] \in {"mmapped", "open", "temporary"} /\ Opener(t, "idle")
    /\ mmapAllowed' = IF opener[t] = "mmapped" THEN mmapAllowed + 1 ELSE mmapAllowed
    /\ fdAllowed' = IF opener[t] = "open" THEN fdAllowed + 1 ELSE fdAllowed
    /\ UNCHANGED <<bgVars, lockVars>>

LockStep(t) ==
    \/ LockOpen(t) \/ LockInsert(t) \/ LockRefused(t) \/ LockFcntl(t) \/ LockFailedClose(t) \/ LockFailedRemove(t)
    \/ UnlockFcntl(t) \/ UnlockRemove(t) \/ UnlockClose(t)
FileStep(t) ==
    \/ MmapLook(t) \/ MmapAcquire(t) \/ Mapped(t) \/ MapFails(t) \/ FdLook(t) \/ FdAcquire(t) \/ DeleteFile(t)

BGNext == Schedule \/ BGCheck \/ BGRun \/ SpuriousWakeup
LockNext == \E t \in EnvThread : LockStep(t)
FileNext == \E t \in EnvThread : FileStep(t)

\* The whole Env: its parts share no state, and any of them may step.
EnvNext ==
    \/ (BGNext \/ LockNext \/ FileNext) /\ UNCHANGED envFileVars
    \/ CurrentNext /\ UNCHANGED <<envVars, destroyVars>>
    \/ DestroyNext /\ UNCHANGED <<envVars, currentVars>>
EnvSpec == EnvInit /\ CurrentInit /\ DestroyInit /\ [][EnvNext]_<<envVars, envFileVars>>

-----------------------------------------------------------------------------
(* Properties *)

\* What was scheduled is run once each and in order, and the thread never
\* waits beside work: no wake-up is lost between its check and its wait.
NoLostWork ==
    /\ ran \o bgQueue = [i \in 1..scheduled |-> i]
    /\ bgThread \in {"none", "waiting"} => bgQueue = <<>>

\* The limits hold: never more mappings or descriptors kept than allowed, and
\* all of them are free again once the files are gone.
LimitsHold ==
    LET n(S) == Cardinality({t \in EnvThread : opener[t] \in S})
    IN  /\ mmapAllowed + n({"mapping", "mmapped"}) = MmapLimit /\ mmapAllowed >= 0
        /\ fdAllowed + n({"open"}) = FdLimit /\ fdAllowed >= 0

\* Env::LockFile is "used to prevent concurrent access to the same db by
\* multiple processes".  Within a process one thread at most has the lock, or
\* is giving it up.  Two processes both have it only after a close in the
\* first one, of a refused attempt or at the end of an UnlockFile, gave up the
\* kernel's lock under the thread that has it.
OneHolder ==
    /\ \A p \in Procs :
         LET having == {t \in EnvThread : P(t) = p /\ locker[t] \in {"fcntl", "held", "unlocked", "failed", "failedClosed"}}
         IN  Cardinality(having) <= 1 /\ (having # {} => p \in lockTable)
    /\ ~lockLost => \A t, u \in EnvThread : locker[t] = "held" /\ locker[u] = "held" => t = u

\* The Env under several threads: its queue, its lock, its limits, and the
\* files it replaces and deletes.
EnvExact == NoLostWork /\ LimitsHold /\ OneHolder /\ FilesExact
=============================================================================
