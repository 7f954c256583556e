------------------------------- MODULE DBImpl -------------------------------
(***************************************************************************)
(* LevelDB's DBImpl: the writer queue with group commit, the log and the   *)
(* memtables, the background thread that flushes and merges tables, the    *)
(* manifest (VersionSet::LogAndApply), readers that hold on to a version,  *)
(* and DB::Open, which recovers all of it from what a crash left on disk.  *)
(* The mutex is implicit: an action is the code between taking mutex_ and  *)
(* giving it up (or waiting), or a piece of work done without it.  A       *)
(* thread between two actions holds the mutex only where LockHeld says.    *)
(*                                                                         *)
(* A batch holds one Put, named by its number: the number is the value.    *)
(* Levels above 0 are one level here; which tables a compaction takes and  *)
(* deletions are the matter of module Compaction.                          *)
(***************************************************************************)
EXTENDS Integers, Sequences, FiniteSets, SequencesExt, FiniteSetsExt, Functions, TLC

CONSTANTS
    Thread, Reader, Key,
    MaxWrites,        \* bound on the batches written and, together with them, the stops
    MaxEvents,        \* bound on I/O errors, and before the first stop reads, snapshots, forced flushes
    MaxStops,         \* bound on closes and crashes
    Flusher,          \* threads that call TEST_CompactMemTable
    BufferSize,       \* options_.write_buffer_size, in entries
    MaxGroup,         \* size limit of a group of batches, in entries
    CompactionTrigger, SlowdownTrigger, StopTrigger,   \* config::kL0_...
    ReuseLogs         \* the values of options_.reuse_logs to open with

ASSUME DBAssumption ==
    /\ MaxWrites \in Nat /\ MaxEvents \in Nat /\ MaxStops \in Nat /\ Flusher \subseteq Thread /\ BufferSize \in Nat /\ MaxGroup \in Nat \ {0}
    /\ CompactionTrigger \in Nat \ {0} /\ SlowdownTrigger \in Nat /\ StopTrigger \in Nat
    /\ CompactionTrigger <= SlowdownTrigger /\ SlowdownTrigger <= StopTrigger
    /\ Key \subseteq Int /\ ReuseLogs \subseteq BOOLEAN /\ ReuseLogs # {}

VARIABLES
    disk,     \* the directory: logs, tables, manifests, CURRENT
    life,     \* where DB::Open or ~DBImpl is
    vs,       \* VersionSet
    mem, imm, \* numbers of the memtables (of the logs that back them); 0: NULL
    memtable, \* contents by number
    queue,    \* writers_
    writer,   \* the Writer of each thread and where its thread is
    bg,       \* the background thread
    apply,    \* the LogAndApply call under way
    reader,   \* Get calls under way
    snapshots,\* snapshots_
    hist, doubt, stable, power,   \* what clients were told (module KVStore)
    reused,   \* some DB::Open of this store went on in an old log or manifest
    issued    \* counters for the bounds

dbVars == <<disk, life, vs, mem, imm, memtable, queue, writer, bg, apply, reader,
            snapshots, hist, doubt, stable, power, reused, issued>>
ghostVars == <<hist, doubt, stable, power, reused>>
memVars == <<mem, imm, memtable>>
readVars == <<reader, snapshots>>
openVars == <<life, apply>>

Entry(n, w) == [seq |-> n, key |-> w.key, id |-> w.id]

NoBatch == [key |-> 0, id |-> 0]       \* WriteBatch* NULL
NoWriter == [at |-> "idle", batch |-> NoBatch, sync |-> FALSE, ok |-> TRUE,
             force |-> FALSE, delay |-> FALSE, group |-> 0]
NoGet == [at |-> "idle", key |-> 0, snap |-> 0, mem |-> 0, imm |-> 0, f0 |-> {}, f1 |-> {}]
NoApply == [who |-> "none", at |-> "none", edit |-> {}, new |-> FALSE]
IdleBg == [scheduled |-> FALSE, error |-> FALSE, shutting |-> FALSE, pending |-> {},
           flush |-> "none", num |-> 0, merge |-> "none", in0 |-> {}, in1 |-> {},
           small |-> 0, out |-> 0]
NoVersions == [f0 |-> {}, f1 |-> {}, log |-> 0, next |-> 2, last |-> 0, man |-> 0,
               open |-> FALSE, save |-> FALSE, add |-> {}]

-----------------------------------------------------------------------------
(* Files.  A log or manifest keeps its records and how many are synced.    *)

\* A record no reader can read.
Torn == [seq |-> 0, ops |-> <<>>, full |-> FALSE, del |-> {}, add0 |-> {}, add1 |-> {}]
HasTorn(f) == \E i \in DOMAIN f.recs : f.recs[i] = Torn

EmptyFile == [recs |-> <<>>, synced |-> 0]
Added(f, r) == [f EXCEPT !.recs = Append(@, r)]

\* log::Writer::AddRecord.  A failed one leaves the record or a part of it, or
\* nothing, but counts all of it in block_offset_: from then on the blocks of
\* the writer are not those of a reader, who drops the rest of a block behind a
\* torn record, so that each later record may be found or not.
FailedAppends(f, r) == {Added(f, Torn), Added(f, r)}
Appends(f, r) == {Added(f, r)} \cup IF HasTorn(f) THEN {Added(f, Torn)} ELSE {}
Synced(f) == [f EXCEPT !.synced = Len(f.recs)]

\* A version edit as the manifest stores it; full: it has the numbers too.
Edit(full, v, del, add0, add1) ==
    [full |-> full, log |-> v.log, next |-> v.next, last |-> v.last,
     del |-> del, add0 |-> add0, add1 |-> add1]

\* VersionSet::Builder on one edit.
ApplyEdit(v, e) ==
    [v EXCEPT !.f0 = (@ \ e.del) \cup e.add0, !.f1 = (@ \ e.del) \cup e.add1]

\* The entries of a batch group as the log holds it.
RecordEntries(r) == {Entry(r.seq + i - 1, r.ops[i]) : i \in DOMAIN r.ops}
LogEntries(f) == UNION {RecordEntries(f.recs[i]) : i \in DOMAIN f.recs}

\* VersionSet::Recover on the records of a manifest; unreadable without numbers.
Readable(d) ==
    /\ d.cur \in DOMAIN d.man
    /\ \E i \in DOMAIN d.man[d.cur].recs : d.man[d.cur].recs[i].full
RecoveredVersion(d) ==
    LET recs == d.man[d.cur].recs
        v == FoldLeft(ApplyEdit, [f0 |-> {}, f1 |-> {}], recs)
        e == Last(SelectSeq(recs, LAMBDA r : r.full))
    IN  [v EXCEPT !.f0 = @] @@ [log |-> e.log, next |-> e.next, last |-> e.last]

\* Behind a torn record the reader of the manifest may report a corruption.
TornManifest(d) == d.cur \in DOMAIN d.man /\ HasTorn([recs |-> Front(d.man[d.cur].recs)])

\* The logs DBImpl::Recover replays, and the tables that must be there.
LiveLogs(d, v) == {n \in DOMAIN d.log : n >= v.log}
Recoverable(d) == Readable(d) /\ LET v == RecoveredVersion(d) IN v.f0 \cup v.f1 \subseteq DOMAIN d.sst
TableEntries(d) == LET v == RecoveredVersion(d) IN UNION {d.sst[n] : n \in v.f0 \cup v.f1}
DiskEntries(d) == TableEntries(d) \cup UNION {LogEntries(d.log[n]) : n \in LiveLogs(d, RecoveredVersion(d))}

-----------------------------------------------------------------------------
(* Reading: the memtable, then the immutable one, then level 0 newest      *)
(* first, then the rest.                                                   *)

Hits(S, k, snap) == {e \in S : e.key = k /\ e.seq <= snap}
Newest(S) == (CHOOSE e \in S : \A d \in S : d.seq <= e.seq).id

GetFrom(m, i, f0, f1, k, snap) ==
    LET hits(n) == Hits(disk.sst[n], k, snap)
        t0 == {n \in f0 : hits(n) # {}}
        t1 == {n \in f1 : hits(n) # {}}
    IN  CASE Hits(m, k, snap) # {} -> Newest(Hits(m, k, snap))
          [] Hits(m, k, snap) = {} /\ Hits(i, k, snap) # {} -> Newest(Hits(i, k, snap))
          [] Hits(m \cup i, k, snap) = {} /\ t0 # {} -> Newest(hits(Max(t0)))
          [] Hits(m \cup i, k, snap) = {} /\ t0 = {} /\ t1 # {} -> Newest(UNION {hits(n) : n \in t1})
          [] OTHER -> 0

Contents(n) == IF n = 0 THEN {} ELSE memtable[n]

\* What the history says a read of k at snap returns.
HistGet(k, snap) ==
    LET S == {hist[i] : i \in DOMAIN hist}
    IN  IF Hits(S, k, snap) = {} THEN 0 ELSE Newest(Hits(S, k, snap))

-----------------------------------------------------------------------------
(* Mutex, condition variables, scheduling.                                 *)

LockHeld ==
    \/ \E t \in Thread : writer[t].at = "front"
    \/ apply.who = "open"
    \/ life \notin {"running", "closing", "closed"}

Running == life = "running" /\ ~LockHeld

\* bg_cv_.SignalAll()
SignalledNobody(w) == w   \* mutant: no SignalAll
Signalled(w) ==
    [t \in Thread |-> IF w[t].at = "bgcv" THEN [w[t] EXCEPT !.at = "bgwake"]
                      ELSE IF w[t].at = "immcv" THEN [w[t] EXCEPT !.at = "immwake"] ELSE w[t]]

NeedsCompaction(v) == Cardinality(v.f0) >= CompactionTrigger

\* MaybeScheduleCompaction
Scheduled(b, i, v) ==
    [b EXCEPT !.scheduled = @ \/ (~b.shutting /\ ~b.error /\ (i # 0 \/ NeedsCompaction(v)))]

\* DeleteObsoleteFiles
\* The tables of the versions that a Get has referenced; a version without
\* references is deleted.
ReferencedTables == UNION {reader[r].f0 \cup reader[r].f1 : r \in Reader}
LiveTablesCurrent(b, v) == b.pending \cup v.f0 \cup v.f1   \* mutant: only the current version
LiveTables(b, v) == b.pending \cup v.f0 \cup v.f1 \cup ReferencedTables
DeleteObsoleteFiles(d, b, v) ==
    IF b.error THEN d
    ELSE [d EXCEPT !.log = Restrict(@, {n \in DOMAIN @ : n >= v.log}),
                   !.man = Restrict(@, {n \in DOMAIN @ : n >= v.man}),
                   !.sst = Restrict(@, DOMAIN @ \cap LiveTables(b, v))]

\* A memtable is freed when neither DBImpl nor a Get refers to it.
Freed(mt, m, i, rd) ==
    Restrict(mt, DOMAIN mt \cap ({m, i} \cup {rd[r].mem : r \in Reader} \cup {rd[r].imm : r \in Reader}))

\* An injected I/O error.
Fault == issued.events < MaxEvents /\ issued' = [issued EXCEPT !.events = @ + 1]
NoFault == issued' = issued

\* The bounds on calls beside writes, and on closes and crashes.
MayCall == issued.events < MaxEvents /\ issued.stops = 0
Stop ==
    /\ issued.stops < MaxStops /\ issued.writes + issued.stops < MaxWrites
    /\ issued' = [issued EXCEPT !.stops = @ + 1]

-----------------------------------------------------------------------------
(* Writers.                                                                *)

\* DB::Put and DBImpl::Write up to the first wait; a NULL batch comes from
\* TEST_CompactMemTable.
Enqueue(t, batch, sync) ==
    /\ Running /\ writer[t].at = "idle"
    /\ queue' = Append(queue, t)
    /\ writer' = [writer EXCEPT ![t] =
         [NoWriter EXCEPT !.at = IF queue = <<>> THEN "front" ELSE "cv", !.batch = batch,
                          !.sync = sync, !.force = batch = NoBatch, !.delay = batch # NoBatch]]

Write(t, k, sync) ==
    /\ issued.writes + issued.stops < MaxWrites
    /\ LET w == [key |-> k, id |-> issued.writes + 1]
       IN  Enqueue(t, w, sync) /\ doubt' = doubt \cup {w.id}
    /\ issued' = [issued EXCEPT !.writes = @ + 1]
    /\ UNCHANGED <<disk, life, vs, memVars, bg, apply, readVars, hist, stable, power, reused>>

CompactMemTableCall(t) ==
    /\ t \in Flusher /\ MayCall
    /\ Enqueue(t, NoBatch, FALSE)
    /\ issued' = [issued EXCEPT !.events = @ + 1]
    /\ UNCHANGED <<disk, life, vs, memVars, bg, apply, readVars, ghostVars>>

\* The end of DBImpl::Write: n writers leave the queue with their status, the
\* next one is woken.
Returned(w, ok) ==
    IF ok /\ w.batch = NoBatch THEN [w EXCEPT !.at = "immwake"] ELSE NoWriter
Popped(t, n, ok, w) ==
    LET gone == {queue[i] : i \in 1..n}
        head == IF Len(queue) > n THEN {queue[n + 1]} ELSE {}
    IN  [u \in Thread |->
           CASE u = t -> Returned(w[u], ok)
             [] u \in gone \ {t} -> [w[u] EXCEPT !.at = "done", !.ok = ok]
             [] u \in head -> [w[u] EXCEPT !.at = "wake"]
             [] OTHER -> w[u]]

\* w.cv was signalled: another writer did the work, or it is this one's turn.
Wake(t) ==
    /\ ~LockHeld
    /\ \/ writer[t].at = "done" /\ writer' = [writer EXCEPT ![t] = Returned(@, @.ok)]
       \/ writer[t].at \in {"wake", "sleep", "bgwake"} /\ writer' = [writer EXCEPT ![t].at = "front"]
    /\ UNCHANGED <<disk, life, vs, memVars, queue, bg, apply, readVars, ghostVars, issued>>

\* MakeRoomForWrite, by the first writer of the queue.
RoomError(t) ==
    /\ writer[t].at = "front" /\ bg.error
    /\ writer' = Popped(t, 1, FALSE, writer)
    /\ queue' = Tail(queue)
    /\ UNCHANGED <<disk, life, vs, memVars, bg, apply, readVars, ghostVars, issued>>

MustDelay(t) == writer[t].delay /\ Cardinality(vs.f0) >= SlowdownTrigger
HasRoom(t) == ~writer[t].force /\ Cardinality(memtable[mem]) <= BufferSize

RoomDelay(t) ==
    /\ writer[t].at = "front" /\ ~bg.error /\ MustDelay(t)
    /\ writer' = [writer EXCEPT ![t].at = "sleep", ![t].delay = FALSE]
    /\ UNCHANGED <<disk, life, vs, memVars, queue, bg, apply, readVars, ghostVars, issued>>

RoomWait(t) ==
    /\ writer[t].at = "front" /\ ~bg.error /\ ~MustDelay(t) /\ ~HasRoom(t)
    /\ imm # 0 \/ Cardinality(vs.f0) >= StopTrigger
    /\ writer' = [writer EXCEPT ![t].at = "bgcv"]
    /\ UNCHANGED <<disk, life, vs, memVars, queue, bg, apply, readVars, ghostVars, issued>>

RoomSwitch(t) ==
    /\ writer[t].at = "front" /\ ~bg.error /\ ~MustDelay(t) /\ ~HasRoom(t)
    /\ imm = 0 /\ Cardinality(vs.f0) < StopTrigger
    /\ \/ /\ NoFault
          /\ disk' = [disk EXCEPT !.log = (vs.next :> EmptyFile) @@ @]
          /\ vs' = [vs EXCEPT !.next = @ + 1]
          /\ imm' = mem /\ mem' = vs.next
          /\ memtable' = (vs.next :> {}) @@ memtable
          /\ writer' = [writer EXCEPT ![t].force = FALSE]
          /\ bg' = Scheduled(bg, mem, vs)
          /\ UNCHANGED queue
       \/ /\ Fault
          /\ writer' = Popped(t, 1, FALSE, writer)
          /\ queue' = Tail(queue)
          /\ UNCHANGED <<disk, vs, memVars, bg>>
    /\ UNCHANGED <<life, apply, readVars, ghostVars>>

\* BuildBatchGroup: how many writers the first one takes along.  A sync write
\* is not handled by a writer that does not sync.
Batches(n) == SelectSeq([i \in 1..n |-> writer[queue[i]].batch], LAMBDA b : b # NoBatch)
MayGroup(n) ==
    /\ \A i \in 2..n : writer[queue[i]].sync => writer[queue[1]].sync
    /\ Len(Batches(n)) <= MaxGroup
BuildBatchGroup == Max({n \in 1..Len(queue) : \A m \in 1..n : MayGroup(m)})

RoomFound(t) ==
    /\ writer[t].at = "front" /\ ~bg.error /\ ~MustDelay(t) /\ HasRoom(t)
    /\ IF writer[t].batch = NoBatch
       THEN writer' = Popped(t, 1, TRUE, writer) /\ queue' = Tail(queue)
       ELSE /\ writer' = [writer EXCEPT ![t].at = "append", ![t].group = BuildBatchGroup]
            /\ queue' = queue
    /\ UNCHANGED <<disk, life, vs, memVars, bg, apply, readVars, ghostVars, issued>>

\* log_->AddRecord, without the mutex; only a failed sync will be remembered.
GroupRecord(t) == [seq |-> vs.last + 1, ops |-> Batches(writer[t].group)]
AddRecord(t) ==
    /\ writer[t].at = "append"
    /\ \/ /\ NoFault
          /\ \E f \in Appends(disk.log[mem], GroupRecord(t)) : disk' = [disk EXCEPT !.log[mem] = f]
          /\ writer' = [writer EXCEPT ![t].at = IF writer[t].sync THEN "sync" ELSE "insert"]
       \/ /\ Fault
          /\ \E f \in FailedAppends(disk.log[mem], GroupRecord(t)) : disk' = [disk EXCEPT !.log[mem] = f]
          /\ writer' = [writer EXCEPT ![t].at = "failed"]
    /\ UNCHANGED <<life, vs, memVars, queue, bg, apply, readVars, ghostVars>>

\* logfile_->Sync
SyncLog(t) ==
    /\ writer[t].at = "sync"
    /\ \/ /\ NoFault
          /\ disk' = [disk EXCEPT !.log[mem] = Synced(@)]
          /\ writer' = [writer EXCEPT ![t].at = "insert"]
       \/ /\ Fault
          /\ disk' = disk
          /\ writer' = [writer EXCEPT ![t].at = "syncfailed"]
    /\ UNCHANGED <<life, vs, memVars, queue, bg, apply, readVars, ghostVars>>

\* WriteBatchInternal::InsertInto
InsertInto(t) ==
    /\ writer[t].at = "insert"
    /\ memtable' = [memtable EXCEPT ![mem] = @ \cup RecordEntries(GroupRecord(t))]
    /\ writer' = [writer EXCEPT ![t].at = "inserted"]
    /\ UNCHANGED <<disk, life, vs, mem, imm, queue, bg, apply, readVars, ghostVars, issued>>

\* The mutex again: a failed sync becomes the background error, the sequence
\* number advances in any case, the group is answered.
FinishGroup(t) ==
    /\ ~LockHeld /\ writer[t].at \in {"inserted", "failed", "syncfailed"}
    /\ LET r == GroupRecord(t)
           ok == writer[t].at = "inserted"
           n == writer[t].group
           es == [i \in DOMAIN r.ops |-> Entry(r.seq + i - 1, r.ops[i])]
           ids == {r.ops[i].id : i \in DOMAIN r.ops}
           w == IF writer[t].at = "syncfailed" /\ ~bg.error THEN Signalled(writer) ELSE writer
       IN  /\ bg' = [bg EXCEPT !.error = @ \/ writer[t].at = "syncfailed"]
           /\ vs' = [vs EXCEPT !.last = @ + Len(r.ops)]
           /\ queue' = SubSeq(queue, n + 1, Len(queue))
           /\ writer' = Popped(t, n, ok, w)
           /\ hist' = IF ok THEN hist \o es ELSE hist
           /\ doubt' = IF ok THEN doubt \ ids ELSE doubt
           /\ stable' = IF ok THEN stable \cup {writer[queue[i]].batch.id :
                                        i \in {i \in 1..n : writer[queue[i]].sync}} ELSE stable
    /\ UNCHANGED <<disk, life, memVars, apply, readVars, power, reused, issued>>

\* TEST_CompactMemTable waits until the immutable memtable is gone.
ImmWait(t) ==
    /\ ~LockHeld /\ writer[t].at = "immwake"
    /\ writer' = [writer EXCEPT ![t] = IF imm # 0 /\ ~bg.error THEN [@ EXCEPT !.at = "immcv"] ELSE NoWriter]
    /\ UNCHANGED <<disk, life, vs, memVars, queue, bg, apply, readVars, ghostVars, issued>>

-----------------------------------------------------------------------------
(* Readers.                                                                *)

\* Get takes references under the mutex; snap is LastSequence or a snapshot.
Get(r, k, snap) ==
    /\ Running /\ reader[r].at = "idle" /\ MayCall
    /\ reader' = [reader EXCEPT ![r] = [at |-> "reading", key |-> k, snap |-> snap, mem |-> mem,
                                        imm |-> imm, f0 |-> vs.f0, f1 |-> vs.f1]]
    /\ issued' = [issued EXCEPT !.events = @ + 1]
    /\ UNCHANGED <<disk, openVars, vs, memVars, queue, writer, bg, snapshots, ghostVars>>

\* Get has read without the mutex and drops its references.
GetDone(r) ==
    /\ Running /\ reader[r].at = "reading"
    /\ reader' = [reader EXCEPT ![r] = NoGet]
    /\ memtable' = Freed(memtable, mem, imm, reader')
    /\ UNCHANGED <<disk, openVars, vs, mem, imm, queue, writer, bg, snapshots, ghostVars, issued>>

GetSnapshot ==
    /\ Running /\ snapshots = {} /\ MayCall
    /\ snapshots' = {vs.last}
    /\ issued' = [issued EXCEPT !.events = @ + 1]
    /\ UNCHANGED <<disk, openVars, vs, memVars, queue, writer, bg, reader, ghostVars>>

ReleaseSnapshot ==
    /\ Running /\ snapshots # {} /\ \A r \in Reader : reader[r].snap \notin snapshots
    /\ snapshots' = {}
    /\ UNCHANGED <<disk, openVars, vs, memVars, queue, writer, bg, reader, ghostVars, issued>>

-----------------------------------------------------------------------------
(* The background thread.                                                  *)

BgFree == life \in {"running", "closing"} /\ ~LockHeld

\* The end of BackgroundCall.
BgEnd(b, i, v, w) ==
    /\ bg' = Scheduled([b EXCEPT !.scheduled = FALSE, !.flush = "none", !.merge = "none",
                                 !.in0 = {}, !.in1 = {}, !.num = 0, !.out = 0, !.small = 0], i, v)
    /\ writer' = Signalled(w)

\* WriteLevel0Table takes a file number.
FlushBegin ==
    /\ bg' = [bg EXCEPT !.flush = "build", !.num = vs.next, !.pending = @ \cup {vs.next}]
    /\ vs' = [vs EXCEPT !.next = @ + 1]

KeysOf(S) == {e.key : e \in S}
Overlap(S, T) ==
    S # {} /\ T # {} /\ Min(KeysOf(S)) <= Max(KeysOf(T)) /\ Min(KeysOf(T)) <= Max(KeysOf(S))
OverlapInLevel(f, S) == \E n \in f : Overlap(disk.sst[n], S)

\* PickCompaction at level 0: a set of level-0 tables closed under overlap and
\* the tables of the next level that overlap it.
PickCompaction(in0, in1) ==
    /\ in0 # {}
    /\ \A n \in vs.f0 \ in0 : ~OverlapInLevel(in0, disk.sst[n])
    /\ in1 = {n \in vs.f1 : Overlap(disk.sst[n], UNION {disk.sst[m] : m \in in0})}

\* BackgroundCall, up to where BackgroundCompaction gives up the mutex.
BackgroundCall ==
    /\ BgFree /\ bg.scheduled /\ bg.flush = "none" /\ bg.merge = "none"
    /\ \/ /\ bg.shutting \/ bg.error \/ (imm = 0 /\ ~NeedsCompaction(vs))
          /\ BgEnd(bg, imm, vs, writer)
          /\ UNCHANGED <<vs, apply>>
       \/ /\ ~bg.shutting /\ ~bg.error /\ imm # 0
          /\ FlushBegin
          /\ UNCHANGED <<writer, apply>>
       \/ /\ ~bg.shutting /\ ~bg.error /\ imm = 0 /\ NeedsCompaction(vs)
          /\ \E in0 \in SUBSET vs.f0, in1 \in SUBSET vs.f1 :
               /\ PickCompaction(in0, in1)
               /\ IF Cardinality(in0) = 1 /\ in1 = {}
                  THEN /\ apply' = [who |-> "move", at |-> "append", new |-> FALSE,
                                    edit |-> Edit(TRUE, vs, in0, {}, in0)]
                       /\ bg' = [bg EXCEPT !.merge = "apply"]
                  ELSE /\ bg' = [bg EXCEPT !.merge = "work", !.in0 = in0, !.in1 = in1,
                                   !.small = IF snapshots = {} THEN vs.last ELSE Min(snapshots)]
                       /\ UNCHANGED apply
          /\ UNCHANGED <<vs, writer>>
    /\ UNCHANGED <<disk, life, memVars, queue, readVars, ghostVars, issued>>

\* BuildTable, without the mutex; an empty memtable makes no file.
BuildTable ==
    /\ bg.flush = "build"
    /\ \/ /\ NoFault
          /\ disk' = IF memtable[imm] = {} THEN disk
                     ELSE [disk EXCEPT !.sst = (bg.num :> memtable[imm]) @@ @]
          /\ bg' = [bg EXCEPT !.flush = "built"]
       \/ /\ Fault
          /\ disk' = [disk EXCEPT !.sst = Restrict(@, DOMAIN @ \ {bg.num})]
          /\ bg' = [bg EXCEPT !.flush = "failed"]
    /\ UNCHANGED <<openVars, vs, memVars, queue, writer, readVars, ghostVars>>

\* PickLevelForMemTableOutput, on the version the flush started from.
FlushEdit ==
    LET S == memtable[imm]
        new == IF S = {} THEN {} ELSE {bg.num}
        low == OverlapInLevel(vs.f0 \cup vs.f1, S)
        v == [vs EXCEPT !.log = mem]
    IN  Edit(TRUE, v, {}, IF low THEN new ELSE {}, IF low THEN {} ELSE new)

\* CompactMemTable between the table and the manifest, or giving up.
FlushEnd(b) ==
    IF b.merge = "none" THEN BgEnd(b, imm, vs, writer)
    ELSE bg' = [b EXCEPT !.flush = "none"] /\ writer' = Signalled(writer)
FlushLog ==
    /\ BgFree /\ bg.flush \in {"built", "failed"}
    /\ LET b == [bg EXCEPT !.pending = @ \ {bg.num}]
       IN  IF bg.flush = "failed" \/ bg.shutting
           THEN FlushEnd([b EXCEPT !.error = TRUE]) /\ UNCHANGED apply
           ELSE /\ bg' = [b EXCEPT !.flush = "apply"]
                /\ apply' = [who |-> "flush", at |-> "append", new |-> FALSE, edit |-> FlushEdit]
                /\ UNCHANGED writer
    /\ UNCHANGED <<disk, life, vs, memVars, queue, readVars, ghostVars, issued>>

\* DoCompactionWork: the immutable memtable goes first, then an output file.
MergeFlush ==
    /\ BgFree /\ bg.merge \in {"work", "out"} /\ bg.flush = "none" /\ ~bg.shutting /\ imm # 0
    /\ FlushBegin
    /\ UNCHANGED <<disk, openVars, memVars, queue, writer, readVars, ghostVars, issued>>

OpenCompactionOutputFile ==
    /\ BgFree /\ bg.merge = "work" /\ bg.flush = "none"
    /\ vs' = [vs EXCEPT !.next = @ + 1]
    /\ bg' = [bg EXCEPT !.merge = "out", !.out = vs.next, !.pending = @ \cup {vs.next}]
    /\ UNCHANGED <<disk, openVars, memVars, queue, writer, readVars, ghostVars, issued>>

\* What the merge keeps: not an entry with a newer one that every snapshot sees.
Inputs == UNION {disk.sst[n] : n \in bg.in0 \cup bg.in1}
Merged == {e \in Inputs : ~\E d \in Inputs : d.key = e.key /\ d.seq > e.seq /\ d.seq <= bg.small}

FinishCompactionOutputFile ==
    /\ bg.merge = "out" /\ bg.flush = "none"
    /\ \/ /\ NoFault
          /\ disk' = [disk EXCEPT !.sst = (bg.out :> Merged) @@ @]
          /\ bg' = [bg EXCEPT !.merge = "built"]
       \/ /\ Fault \/ (bg.shutting /\ NoFault)
          /\ disk' = [disk EXCEPT !.sst = (bg.out :> {}) @@ @]
          /\ bg' = [bg EXCEPT !.merge = "failed"]
    /\ UNCHANGED <<openVars, vs, memVars, queue, writer, readVars, ghostVars>>

\* InstallCompactionResults, or the end of a failed compaction.
InstallCompactionResults ==
    /\ BgFree
    /\ \/ /\ bg.merge = "built"
          /\ bg' = [bg EXCEPT !.merge = "apply"]
          /\ apply' = [who |-> "merge", at |-> "append", new |-> FALSE,
                       edit |-> Edit(TRUE, vs, bg.in0 \cup bg.in1, {}, {bg.out})]
          /\ UNCHANGED writer
       \/ /\ bg.merge = "failed" \/ (bg.merge = "work" /\ bg.flush = "none" /\ bg.shutting)
          /\ BgEnd([bg EXCEPT !.error = TRUE, !.pending = @ \ {bg.out}], imm, vs, writer)
          /\ UNCHANGED apply
    /\ UNCHANGED <<disk, life, vs, memVars, queue, readVars, ghostVars, issued>>

-----------------------------------------------------------------------------
(* VersionSet::LogAndApply: the manifest is written without the mutex.     *)

ApplyAddRecord ==
    /\ apply.at = "append"
    /\ \/ /\ NoFault
          /\ \E f \in Appends(disk.man[vs.man], apply.edit) : disk' = [disk EXCEPT !.man[vs.man] = f]
          /\ apply' = [apply EXCEPT !.at = "sync"]
       \/ /\ Fault
          /\ \E f \in FailedAppends(disk.man[vs.man], apply.edit) : disk' = [disk EXCEPT !.man[vs.man] = f]
          /\ apply' = [apply EXCEPT !.at = "failed"]
    /\ UNCHANGED <<life, vs, memVars, queue, writer, bg, readVars, ghostVars>>


ApplySync ==
    /\ apply.at = "sync"
    /\ \/ /\ NoFault
          /\ disk' = [disk EXCEPT !.man[vs.man] = Synced(@)]
          /\ apply' = [apply EXCEPT !.at = IF apply.new THEN "current" ELSE "install"]
       \/ Fault /\ disk' = disk /\ apply' = [apply EXCEPT !.at = "failed"]
    /\ UNCHANGED <<life, vs, memVars, queue, writer, bg, readVars, ghostVars>>

\* SetCurrentFile: a synced temporary file and a rename.
ApplySetCurrentFile ==
    /\ apply.at = "current"
    /\ \/ NoFault /\ disk' = [disk EXCEPT !.cur = vs.man] /\ apply' = [apply EXCEPT !.at = "install"]
       \/ Fault /\ disk' = disk /\ apply' = [apply EXCEPT !.at = "failed"]
    /\ UNCHANGED <<life, vs, memVars, queue, writer, bg, readVars, ghostVars>>

\* The version is installed and the caller goes on.
Installed == [ApplyEdit(vs, apply.edit) EXCEPT !.log = apply.edit.log, !.open = TRUE]
ApplyInstall ==
    /\ apply.at = "install"
    /\ vs' = Installed
    /\ apply' = NoApply
    /\ \/ /\ apply.who = "flush" /\ BgFree
          /\ imm' = 0
          /\ memtable' = Freed(memtable, mem, 0, reader)
          /\ disk' = DeleteObsoleteFiles(disk, bg, vs')
          /\ IF bg.merge = "none" THEN BgEnd(bg, 0, vs', writer)
             ELSE bg' = [bg EXCEPT !.flush = "none"] /\ writer' = Signalled(writer)
          /\ UNCHANGED life
       \/ /\ apply.who \in {"merge", "move"} /\ BgFree
          /\ LET b == [bg EXCEPT !.pending = @ \ {bg.out}]
             IN  /\ disk' = IF apply.who = "move" THEN disk ELSE DeleteObsoleteFiles(disk, b, vs')
                 /\ BgEnd(b, imm, vs', writer)
          /\ UNCHANGED <<life, imm, memtable>>
       \/ /\ apply.who = "open"
          /\ life' = "ready"
          /\ UNCHANGED <<disk, imm, memtable, bg, writer>>
    /\ UNCHANGED <<mem, queue, readVars, ghostVars, issued>>

\* ~DBImpl and a crash leave nothing of the process.
ForgetProcess ==
    /\ vs' = NoVersions /\ mem' = 0 /\ imm' = 0 /\ memtable' = << >>
    /\ queue' = <<>> /\ writer' = [t \in Thread |-> NoWriter]
    /\ bg' = IdleBg /\ apply' = NoApply
    /\ reader' = [r \in Reader |-> NoGet] /\ snapshots' = {}

\* The caller hears of the failure; a new manifest is deleted.
ApplyFailed ==
    /\ apply.at = "failed"
    /\ \/ /\ apply.who = "flush" /\ BgFree
          /\ FlushEnd([bg EXCEPT !.error = TRUE])
          /\ apply' = NoApply
          /\ UNCHANGED <<disk, life, vs, memVars, queue, readVars>>
       \/ /\ apply.who \in {"merge", "move"} /\ BgFree
          /\ BgEnd([bg EXCEPT !.error = TRUE, !.pending = @ \ {bg.out}], imm, vs, writer)
          /\ apply' = NoApply
          /\ UNCHANGED <<disk, life, vs, memVars, queue, readVars>>
       \/ /\ apply.who = "open"
          /\ disk' = IF apply.new THEN [disk EXCEPT !.man = Restrict(@, DOMAIN @ \ {vs.man})] ELSE disk
          /\ life' = "closed"
          /\ ForgetProcess
    /\ UNCHANGED <<ghostVars, issued>>

-----------------------------------------------------------------------------
(* DB::Open.                                                               *)

Open ==
    /\ life = "closed"
    /\ vs' = NoVersions
    /\ life' = IF disk.cur = 0 THEN "newdb" ELSE "recover"
    /\ UNCHANGED <<disk, memVars, queue, writer, bg, apply, readVars, ghostVars, issued>>

\* NewDB: the first manifest is written and closed, then CURRENT names it.
NewDBManifest ==
    /\ life = "newdb"
    /\ \/ /\ NoFault
          /\ disk' = [disk EXCEPT !.man = (1 :> Added(EmptyFile, Edit(TRUE, NoVersions, {}, {}, {}))) @@ @]
          /\ life' = "newcurrent"
       \/ Fault /\ disk' = [disk EXCEPT !.man = Restrict(@, DOMAIN @ \ {1})] /\ life' = "closed"
    /\ UNCHANGED <<vs, memVars, queue, writer, bg, apply, readVars, ghostVars>>

NewDBCurrent ==
    /\ life = "newcurrent"
    /\ \/ NoFault /\ disk' = [disk EXCEPT !.cur = 1] /\ life' = "recover"
       \/ Fault /\ disk' = disk /\ life' = "closed"
    /\ UNCHANGED <<vs, memVars, queue, writer, bg, apply, readVars, ghostVars>>

\* RecoverLogFile on one log: r carries the version set, the tables written
\* and the memtable that was kept.
Chunk(c, rec) ==
    LET S == c.mem \cup RecordEntries(rec)
    IN  IF Cardinality(S) > BufferSize THEN [mem |-> {}, tabs |-> Append(c.tabs, S)]
        ELSE [c EXCEPT !.mem = S]
WriteLevel0Table(r, S) ==
    [r EXCEPT !.vs.next = @ + 1, !.vs.save = TRUE, !.vs.add = @ \cup {r.vs.next},
              !.sst = (r.vs.next :> S) @@ @]
MarkFileNumberUsed(v, n) == IF v.next <= n THEN [v EXCEPT !.next = n + 1] ELSE v
RecoverLogFile(r, n, lastLog, append) ==
    LET f == disk.log[n]
        c == FoldLeft(Chunk, [mem |-> {}, tabs |-> <<>>], f.recs)
        keep == append /\ lastLog /\ c.tabs = <<>>
        tabs == IF keep \/ c.mem = {} THEN c.tabs ELSE Append(c.tabs, c.mem)
        seqs == {e.seq : e \in LogEntries(f)}
        r2 == FoldLeft(WriteLevel0Table, r, tabs)
    IN  [r2 EXCEPT !.vs = [MarkFileNumberUsed(@, n) EXCEPT !.last = Max(seqs \cup {@})],
                   !.mem = IF keep THEN n ELSE 0, !.kept = IF keep THEN c.mem ELSE {}]
RecoverLogs(v, append) ==
    LET logs == SetToSortSeq(LiveLogs(disk, v), LAMBDA m, n : m < n)
        step(r, i) == RecoverLogFile(r, logs[i], i = Len(logs), append)
    IN  FoldLeft(step, [vs |-> v, sst |-> disk.sst, mem |-> 0, kept |-> {}],
                 [i \in DOMAIN logs |-> i])

\* ReuseManifest: only if asked to, and not for a manifest that is too big or
\* that cannot be opened for appending.
ReuseManifest(asked) == IF asked THEN BOOLEAN ELSE {FALSE}
\* Opening the last log for appending, if asked to, may fail as well.
ReuseLog(asked, append) == IF append = asked THEN NoFault ELSE asked /\ Fault

\* DBImpl::Recover, the one reader of options_.reuse_logs (asked).
Recover ==
    /\ life = "recover"
    /\ \/ /\ Recoverable(disk)
          /\ \E asked \in ReuseLogs, append \in BOOLEAN : \E reuse \in ReuseManifest(asked) :
             LET v0 == RecoveredVersion(disk)
                 v == [vs EXCEPT !.f0 = v0.f0, !.f1 = v0.f1, !.log = v0.log, !.last = v0.last,
                                 !.next = v0.next + 1, !.open = reuse, !.save = ~reuse,
                                 !.man = IF reuse THEN disk.cur ELSE v0.next]
                 r == RecoverLogs(v, append)
             IN  /\ ReuseLog(asked, append)
                 /\ reused' = (reused \/ reuse \/ r.mem # 0)
                 /\ vs' = r.vs
                 /\ disk' = [disk EXCEPT !.sst = r.sst]
                 /\ mem' = r.mem
                 /\ memtable' = IF r.mem = 0 THEN << >> ELSE r.mem :> r.kept
                 /\ life' = CASE r.mem = 0 -> "newlog" [] r.mem # 0 /\ r.vs.save -> "save" [] OTHER -> "ready"
       \/ /\ Recoverable(disk) => TornManifest(disk)
          /\ life' = "closed" /\ vs' = NoVersions /\ NoFault
          /\ UNCHANGED <<disk, mem, memtable, reused>>
    /\ UNCHANGED <<imm, queue, writer, bg, apply, readVars, hist, doubt, stable, power>>

OpenNewLog ==
    /\ life = "newlog"
    /\ \/ /\ NoFault
          /\ disk' = [disk EXCEPT !.log = (vs.next :> EmptyFile) @@ @]
          /\ mem' = vs.next /\ memtable' = vs.next :> {}
          /\ vs' = [vs EXCEPT !.next = @ + 1]
          /\ life' = IF vs.save THEN "save" ELSE "ready"
          /\ UNCHANGED <<imm, queue, writer, bg, apply, readVars>>
       \/ Fault /\ disk' = disk /\ life' = "closed" /\ ForgetProcess
    /\ UNCHANGED ghostVars

\* LogAndApply for the recovered tables; without an open manifest it starts a
\* new one with a snapshot of the version (WriteSnapshot).
OpenSave ==
    /\ life = "save"
    /\ apply' = [who |-> "open", at |-> "append", new |-> ~vs.open,
                 edit |-> Edit(TRUE, [vs EXCEPT !.log = mem], {}, vs.add, {})]
    /\ disk' = IF vs.open THEN disk
               ELSE [disk EXCEPT !.man = (vs.man :> Added(EmptyFile, Edit(FALSE, vs, {}, vs.f0, vs.f1))) @@ @]
    /\ life' = "saving"
    /\ UNCHANGED <<vs, memVars, queue, writer, bg, readVars, ghostVars, issued>>

OpenReady ==
    /\ life = "ready"
    /\ disk' = DeleteObsoleteFiles(disk, bg, vs)
    /\ bg' = Scheduled(bg, imm, vs)
    /\ life' = "running"
    /\ UNCHANGED <<vs, memVars, queue, writer, apply, readVars, ghostVars, issued>>

-----------------------------------------------------------------------------
(* ~DBImpl and crashes.                                                    *)

\* What clients will find after the process is gone and d is on disk: a write
\* in doubt may be there, a committed one is lost if no log holds a readable
\* record of it and no table it or one that hides it.
Survivors(d) == IF Recoverable(d) THEN DiskEntries(d) ELSE {}
History == {hist[i] : i \in DOMAIN hist}
Covered(e, S) == \E d \in S : d.key = e.key /\ d.seq >= e.seq
Lost(d) == IF Recoverable(d) THEN {e \in History \ DiskEntries(d) : ~Covered(e, TableEntries(d))} ELSE {}
HistoryAfter(d) ==
    LET back == {e \in Survivors(d) : e.id \in doubt}
    IN  SetToSortSeq((History \ Lost(d)) \cup back, LAMBDA a, b : a.seq < b.seq)

CloseBegin ==
    /\ Running /\ Stop
    /\ queue = <<>> /\ \A t \in Thread : writer[t].at = "idle"
    /\ \A r \in Reader : reader[r].at = "idle"
    /\ bg' = [bg EXCEPT !.shutting = TRUE]
    /\ life' = "closing"
    /\ UNCHANGED <<disk, vs, memVars, queue, writer, apply, readVars, ghostVars>>

CloseEnd ==
    /\ life = "closing" /\ ~bg.scheduled
    /\ life' = "closed"
    /\ hist' = HistoryAfter(disk) /\ doubt' = {}
    /\ ForgetProcess
    /\ UNCHANGED <<disk, stable, power, reused, issued>>

\* The machine keeps of each file its synced records and some of the others;
\* what is there afterwards is on the medium.
Truncated(f, n) == [recs |-> SubSeq(f.recs, 1, n), synced |-> n]
Truncations(fs) ==
    {[n \in DOMAIN fs |-> Truncated(fs[n], c[n])] :
       c \in {c \in [DOMAIN fs -> 0..Max({0} \cup {Len(fs[n].recs) : n \in DOMAIN fs})] :
                \A n \in DOMAIN fs : c[n] >= fs[n].synced /\ c[n] <= Len(fs[n].recs)}}

Crash ==
    /\ Stop
    /\ \/ disk' = disk /\ power' = power
       \/ /\ \E l \in Truncations(disk.log), m \in Truncations(disk.man) :
               disk' = [disk EXCEPT !.log = l, !.man = m]
          /\ power' = power + 1
    /\ hist' = HistoryAfter(disk')
    /\ doubt' = {}
    /\ life' = "closed"
    /\ ForgetProcess
    /\ UNCHANGED <<stable, reused>>

-----------------------------------------------------------------------------
DBInit ==
    /\ disk = [log |-> << >>, sst |-> << >>, man |-> << >>, cur |-> 0]
    /\ life = "closed"
    /\ vs = NoVersions /\ mem = 0 /\ imm = 0 /\ memtable = << >>
    /\ queue = <<>> /\ writer = [t \in Thread |-> NoWriter]
    /\ bg = IdleBg /\ apply = NoApply
    /\ reader = [r \in Reader |-> NoGet] /\ snapshots = {}
    /\ hist = <<>> /\ doubt = {} /\ stable = {} /\ power = 0 /\ reused = FALSE
    /\ issued = [writes |-> 0, events |-> 0, stops |-> 0]

WriterStep(t) ==
    \/ Wake(t) \/ RoomError(t) \/ RoomDelay(t) \/ RoomWait(t) \/ RoomSwitch(t) \/ RoomFound(t)
    \/ AddRecord(t) \/ SyncLog(t) \/ InsertInto(t) \/ FinishGroup(t) \/ ImmWait(t)
BgStep ==
    \/ BackgroundCall \/ BuildTable \/ FlushLog \/ MergeFlush \/ OpenCompactionOutputFile
    \/ FinishCompactionOutputFile \/ InstallCompactionResults
ApplyStep == ApplyAddRecord \/ ApplySync \/ ApplySetCurrentFile \/ ApplyInstall \/ ApplyFailed
OpenStep ==
    \/ NewDBManifest \/ NewDBCurrent \/ Recover \/ OpenNewLog \/ OpenSave \/ OpenReady \/ CloseEnd

DBNext ==
    \/ \E t \in Thread : \/ \E k \in Key, sync \in BOOLEAN : Write(t, k, sync)
                         \/ CompactMemTableCall(t)
                         \/ WriterStep(t)
    \/ \E r \in Reader : \/ \E k \in Key, s \in {vs.last} \cup snapshots : Get(r, k, s)
                         \/ GetDone(r)
    \/ GetSnapshot \/ ReleaseSnapshot
    \/ BgStep \/ ApplyStep \/ Open \/ OpenStep \/ CloseBegin \/ Crash

DBSpec == DBInit /\ [][DBNext]_dbVars

\* When a step of each thread is enabled (ENABLED, written out).
WriterReady(t) ==
    \/ writer[t].at \in {"front", "append", "sync", "insert"}
    \/ ~LockHeld /\ writer[t].at \in {"wake", "done", "sleep", "bgwake", "inserted", "failed",
                                     "syncfailed", "immwake"}
BgReady ==
    \/ bg.flush = "build" \/ (bg.flush = "none" /\ bg.merge = "out")
    \/ /\ BgFree
       /\ \/ bg.flush \in {"built", "failed"}
          \/ bg.flush = "none" /\ bg.merge \in {"work", "built", "failed"}
          \/ bg.flush = "none" /\ bg.merge = "none" /\ bg.scheduled
    \/ apply.at \in {"append", "sync", "current"}
    \/ apply.at \in {"install", "failed"} /\ (apply.who = "open" \/ BgFree)

\* Fairness of the threads inside DBImpl: what is ready for ever moves again
\* and again.  Every step of a thread changes the thread's own state, so this
\* is no more than weak fairness of its steps; LogAndApply runs on the
\* background thread, or on the one that opens the store when there is none.
\* Nobody has to open, write, read or close, and nothing has to fail.
DBFairSpec ==
    /\ DBSpec
    /\ \A t \in Thread : []<>~WriterReady(t) \/ []<><<writer'[t] # writer[t]>>_dbVars
    /\ []<>~BgReady \/ []<><<bg' # bg \/ apply' # apply>>_dbVars

-----------------------------------------------------------------------------
\* A Get under way, whatever is flushed, merged or deleted meanwhile, still
\* finds every table it needs and answers what the history held at its
\* snapshot; so would one that starts now, which sees every committed write.
ReadsExact ==
    /\ \A r \in Reader : reader[r].at = "reading" =>
         LET g == reader[r]
         IN  /\ g.f0 \cup g.f1 \subseteq DOMAIN disk.sst
             /\ GetFrom(Contents(g.mem), Contents(g.imm), g.f0, g.f1, g.key, g.snap) = HistGet(g.key, g.snap)
    /\ life = "running" =>
         /\ vs.f0 \cup vs.f1 \subseteq DOMAIN disk.sst
         /\ \A k \in Key, s \in snapshots \cup {vs.last} :
              GetFrom(Contents(mem), Contents(imm), vs.f0, vs.f1, k, s) = HistGet(k, s)
         /\ \A i \in DOMAIN hist : hist[i].seq <= vs.last

\* What the machine keeps in any case, and the committed writes that would be
\* lost even if it kept all logs.
SyncedManifests(d) == [d EXCEPT !.man = [n \in DOMAIN @ |-> Truncated(@[n], @[n].synced)]]
SyncedDisk == [SyncedManifests(disk) EXCEPT !.log = [n \in DOMAIN @ |-> Truncated(@[n], @[n].synced)]]
Behind == Lost(IF reused THEN disk ELSE SyncedManifests(disk))
TornLog(d) == \E n \in DOMAIN d.log : HasTorn(d.log[n])
TornFiles ==
    {f \in {"log", "manifest"} : IF f = "log" THEN TornLog(disk) ELSE TornManifest(disk)}

\* If the machine stopped now and kept only what was synced, DB::Open would
\* find a manifest, all its tables, and every write that was answered after a
\* sync or one that hides it: no log is deleted and no manifest trusted before
\* what replaces it is synced.  There are two exceptions.  Stores an old log or
\* manifest of which was ever taken over (reuse_logs); and writes whose record
\* went behind a torn one, as nothing stops the log after a failed append; of a
\* manifest only one that was taken over is written on behind a torn record.
Answered(d) ==
    \A e \in History \ Behind : e.id \in stable => Covered(e, DiskEntries(d))

\* The store keeps the promises of KVStore; once reuse_logs took a file over,
\* those about sync are not made.
KV == INSTANCE KVStore WITH
        KVWrite <- 1..MaxWrites,
        kvHist <- [i \in DOMAIN hist |-> hist[i].id],
        kvDoubt <- doubt, kvStable <- (IF reused THEN {} ELSE stable), kvPower <- power,
        kvTorn <- TornFiles, kvBehind <- (IF TornFiles = {} THEN {} ELSE {e.id : e \in Behind})

\* Every call of Write returns: no wakeup is lost and nobody waits for ever.
WritesReturn == \A t \in Thread : writer[t].at # "idle" ~> writer[t].at = "idle"
=============================================================================
