----------------------------- MODULE Compaction -----------------------------
(***************************************************************************)
(* The levels of a LevelDB store: where a flushed memtable goes, which     *)
(* tables a size, seek or manual compaction takes, which entries it drops, *)
(* where it cuts its outputs, and how Version::Get searches the result.    *)
(*                                                                         *)
(* The background thread is one: a compaction is fixed when it starts      *)
(* (CompactionBegin) and installed when it ends (CompactionEnd); writes,   *)
(* reads, snapshots, cancellations and flushes of the memtable happen in   *)
(* between.  What it computes in between reads only what it fixed, so      *)
(* DoCompactionWork is one operator.  Logs, manifest and crashes are the   *)
(* matter of module DBImpl; sizes count entries.                           *)
(***************************************************************************)
EXTENDS DBFormat, Sequences, SequencesExt, FiniteSetsExt, TLC

CONSTANTS
    Key, NULL,
    WriteKey,                \* keys that clients write to the open store
    Recovered,               \* the keys put in each log, when a store is opened
    NumLevels, MaxMemCompactLevel, L0_CompactionTrigger,   \* config::
    MaxFileSize,             \* TargetFileSize
    MaxGrandParentOverlap, ExpandedLimit,
    MaxBytes,                \* MaxBytesForLevel, by level
    AllowedSeeks,            \* FileMetaData::allowed_seeks of a new file
    Deletes,                 \* {FALSE}: clients only put
    Ranges,                  \* arguments of CompactRange
    MaxWrites,
    MaxEvents                \* bound on snapshots, charged reads, CompactRange calls and errors

Level == 0..(NumLevels - 1)

ASSUME CompactionAssumption ==
    /\ Key \subseteq Int /\ NULL \notin Key /\ WriteKey \subseteq Key
    /\ \A logs \in Recovered : logs \in Seq(Key) /\ Len(logs) <= MaxWrites
    /\ NumLevels \in Nat /\ NumLevels >= 3 /\ MaxMemCompactLevel \in Level
    /\ L0_CompactionTrigger \in Nat \ {0} /\ MaxFileSize \in Nat \ {0} /\ AllowedSeeks \in Nat
    /\ MaxGrandParentOverlap \in Nat /\ ExpandedLimit \in Nat
    /\ \A l \in Level \ {0} : MaxBytes[l] \in Nat \ {0}
    /\ Deletes \subseteq BOOLEAN
    /\ Ranges \subseteq (Key \cup {NULL}) \X (Key \cup {NULL})
    /\ MaxWrites \in Nat /\ MaxEvents \in Nat

VARIABLES
    mem,        \* entries not yet flushed (memtable and immutable memtable)
    levels,     \* current_->files_
    pointer,    \* compact_pointer_
    seekFile,   \* file_to_compact_ of the current version, with its level
    last,       \* LastSequence
    view,       \* what a client expects of each key: the put's sequence number, 0 for none
    snapshots,  \* live snapshots with the view each was taken of
    comp,       \* the compaction under way
    call,       \* a CompactRange call: its ManualCompaction
    slot,       \* manual_compaction_ points to it
    bgError, crashed,
    straddled,  \* some level once held a user key in two of its files
    gapped,     \* a flush once went between the inputs of a manual compaction
    events      \* counts what MaxEvents bounds

cVars == <<mem, levels, pointer, seekFile, last, view, snapshots, comp, call, slot,
           bgError, crashed, straddled, gapped, events>>

MaxSeq == MaxWrites + 1      \* kMaxSequenceNumber
SeekKey(k, s) == [key |-> k, seq |-> s]

\* FileMetaData of a new table holding the entries S (not empty)
File(n, S) ==
    [num |-> n, ents |-> S, seeks |-> AllowedSeeks,
     smallest |-> CHOOSE e \in S : \A d \in S : ~Before(d, e),
     largest |-> CHOOSE e \in S : \A d \in S : ~Before(e, d)]
TotalFileSize(S) == Cardinality(UNION {f.ents : f \in S})
BySmallestKey(f, g) ==
    Before(f.smallest, g.smallest) \/ (f.smallest = g.smallest /\ f.num < g.num)
Files(S) == Sorted(S, BySmallestKey)      \* files_[level] as the vector it is

NoSeek == [level |-> 0, num |-> 0]
NoCompaction == [on |-> FALSE, manual |-> FALSE, level |-> 0, in0 |-> {}, in1 |-> {},
                 grandparents |-> {}, base |-> {}, snapshot |-> 0]
NoCall == [at |-> "idle", range |-> <<NULL, NULL>>, seq |-> 0, max |-> 0,
           level |-> 0, begin |-> NULL, done |-> FALSE]

-----------------------------------------------------------------------------
(* Searching a level.                                                      *)

FindFile(fs, k) ==
    LET search[l \in 0..Len(fs), r \in 0..Len(fs)] ==
          IF l >= r THEN r
          ELSE LET mid == (l + r) \div 2
               IN  IF Before(fs[mid + 1].largest, k) THEN search[mid + 1, r] ELSE search[l, mid]
    IN  search[0, Len(fs)]

AfterFile(k, f) == k # NULL /\ k > f.largest.key
BeforeFile(k, f) == k # NULL /\ k < f.smallest.key

\* SomeFileOverlapsRange
OverlapInLevel(v, l, lo, hi) ==
    IF l = 0 THEN \E f \in v[0] : ~AfterFile(lo, f) /\ ~BeforeFile(hi, f)
    ELSE LET fs == Files(v[l])
             index == IF lo = NULL THEN 0 ELSE FindFile(fs, SeekKey(lo, MaxSeq))
         IN  index < Len(fs) /\ ~BeforeFile(hi, fs[index + 1])

InRange(S, lo, hi) == {f \in S : ~(lo # NULL /\ f.largest.key < lo) /\ ~(hi # NULL /\ f.smallest.key > hi)}

\* At level 0 a file that reaches out of the range widens it and the search
\* starts again.
GetOverlappingInputs(v, l, lo, hi) ==
    LET widen[n \in 0..(2 * Cardinality(v[l]))] ==
          IF n = 0 THEN <<lo, hi>>
          ELSE LET r == widen[n - 1]
                   S == InRange(v[l], r[1], r[2])
               IN  << IF lo = NULL THEN NULL ELSE Min({r[1]} \cup {f.smallest.key : f \in S}),
                      IF hi = NULL THEN NULL ELSE Max({r[2]} \cup {f.largest.key : f \in S}) >>
        range == IF l = 0 THEN widen[2 * Cardinality(v[l])] ELSE <<lo, hi>>
    IN  InRange(v[l], range[1], range[2])

\* GetRange: user keys suffice, except for the largest key (compact_pointer_).
RangeStart(S) == Min({f.smallest.key : f \in S})
RangeEnd(S) == Max({f.largest.key : f \in S})
RangeLimit(S) == (CHOOSE f \in S : \A g \in S : ~Before(f.largest, g.largest)).largest

\* ForEachOverlapping and the search of Version::Get: the files that may hold
\* a key at a snapshot, in the order they are read.
SearchOrder(v, k, snap) ==
    LET l0 == Sorted({f \in v[0] : f.smallest.key <= k /\ k <= f.largest.key},
                     LAMBDA f, g : f.num > g.num)
        at(l) == LET fs == Files(v[l])
                     i == FindFile(fs, SeekKey(k, snap))
                 IN  IF i < Len(fs) /\ fs[i + 1].smallest.key <= k THEN <<fs[i + 1]>> ELSE <<>>
        hit(seq, l) == [i \in DOMAIN seq |-> [file |-> seq[i], level |-> l]]
        upTo[l \in Level] == IF l = 0 THEN hit(l0, 0) ELSE upTo[l - 1] \o hit(at(l), l)
    IN  upTo[NumLevels - 1]

\* Version::Get
VersionGet(v, k, snap) ==
    LET entries(order) == [i \in DOMAIN order |-> Found(order[i].file.ents, k, snap)]
        first(es) == SelectInSeq(es, LAMBDA S : S # {})
        value(es, i) == IF i = 0 THEN 0 ELSE Value(es[i])
        of(es) == value(es, first(es))
    IN  of(entries(SearchOrder(v, k, snap)))

\* DBImpl::Get
DBGet(k, snap) ==
    IF Found(mem, k, snap) # {} THEN Value(Found(mem, k, snap)) ELSE VersionGet(levels, k, snap)

\* NewInternalIterator: the memtable, each file of level 0, and of a deeper
\* level one iterator over its files (FindFile, then within the file); what a
\* Seek to k at a snapshot lands on, and what DBIter makes of it.
FirstFrom(S, target) ==
    {e \in S : ~Before(e, target) /\ \A d \in S : Before(d, e) => Before(d, target)}
LevelSeek(v, l, target) ==
    IF l = 0 THEN UNION {FirstFrom(f.ents, target) : f \in v[0]}
    ELSE LET fs == Files(v[l])
             i == FindFile(fs, target)
         IN  IF i < Len(fs) THEN FirstFrom(fs[i + 1].ents, target) ELSE {}
NewInternalIterator(target) ==
    FirstFrom(FirstFrom(mem, target) \cup UNION {LevelSeek(levels, l, target) : l \in Level}, target)
IteratorGet(k, snap) ==
    LET put(at) == IF \E e \in at : e.key = k /\ ~e.del THEN (CHOOSE e \in at : TRUE).seq ELSE 0
    IN  put(NewInternalIterator(SeekKey(k, snap)))

\* ApproximateOffsetOf: whole files before the key, and of a file around it
\* the part before (Table::ApproximateOffsetOf; a block is an entry).  Above
\* level 0 the first file behind the key ends the level.
FilePart(f, k) ==
    IF ~Before(k, f.largest) THEN Cardinality(f.ents) ELSE Cardinality({e \in f.ents : Before(e, k)})
SumOf(S, k) == FoldSet(LAMBDA f, n : n + FilePart(f, k), 0, S)
ApproximateOffsetOf(v, k) ==
    LET until(fs) == {i \in DOMAIN fs : \A j \in 1..i : ~Before(k, fs[j].smallest)}
        part(l) == LET fs == Files(v[l])
                   IN  IF l = 0 THEN SumOf(v[0], k) ELSE SumOf({fs[i] : i \in until(fs)}, k)
        upTo[l \in Level] == part(l) + IF l = 0 THEN 0 ELSE upTo[l - 1]
    IN  upTo[NumLevels - 1]
GetApproximateSizes(v, lo, hi) ==
    LET start == ApproximateOffsetOf(v, SeekKey(lo, MaxSeq))
        limit == ApproximateOffsetOf(v, SeekKey(hi, MaxSeq))
    IN  IF limit >= start THEN limit - start ELSE 0

-----------------------------------------------------------------------------
(* Choosing a compaction.                                                  *)

\* mutant: looks only at level 0
PickLevelForMemTableOutputDeep(v, lo, hi) ==
    IF OverlapInLevel(v, 0, lo, hi) THEN 0 ELSE MaxMemCompactLevel
PickLevelForMemTableOutput(v, lo, hi) ==
    LET Push(l) == /\ ~OverlapInLevel(v, l + 1, lo, hi)
                   /\ l + 2 < NumLevels =>
                        TotalFileSize(GetOverlappingInputs(v, l + 2, lo, hi)) <= MaxGrandParentOverlap
    IN  Max({l \in 0..MaxMemCompactLevel :
               l > 0 => ~OverlapInLevel(v, 0, lo, hi) /\ \A j \in 0..(l - 1) : Push(j)})

\* Finalize: the first level with the highest score, as a fraction.
Score(v, l) == IF l = 0 THEN <<Cardinality(v[0]), L0_CompactionTrigger>>
               ELSE <<TotalFileSize(v[l]), MaxBytes[l]>>
Higher(a, b) == a[1] * b[2] > b[1] * a[2]
CompactionLevel(v) ==
    CHOOSE l \in 0..(NumLevels - 2) :
      \A m \in 0..(NumLevels - 2) : /\ ~Higher(Score(v, m), Score(v, l))
                                    /\ m < l => Higher(Score(v, l), Score(v, m))
SizeCompaction(v) == LET s == Score(v, CompactionLevel(v)) IN s[1] >= s[2]
NeedsCompaction == SizeCompaction(levels) \/ seekFile # NoSeek

\* The files of level l in the range of the files S.
Covering(v, l, S) == GetOverlappingInputs(v, l, RangeStart(S), RangeEnd(S))

\* SetupOtherInputs: the next level's share, more of this level where that
\* takes no more of the next, and the grandparents.
WithGrandparents(v, l, in0, in1) ==
    [level |-> l, in0 |-> in0, in1 |-> in1,
     grandparents |-> IF l + 2 < NumLevels THEN Covering(v, l + 2, in0 \cup in1) ELSE {}]
Grow(v, l, in0, in1, more0, more1) ==
    IF /\ in1 # {} /\ Cardinality(more0) > Cardinality(in0)
       /\ TotalFileSize(in1) + TotalFileSize(more0) < ExpandedLimit
       /\ Cardinality(more1) = Cardinality(in1)
    THEN WithGrandparents(v, l, more0, more1) ELSE WithGrandparents(v, l, in0, in1)
TryGrow(v, l, in0, in1, more0) == Grow(v, l, in0, in1, more0, Covering(v, l + 1, more0))
WithNextLevel(v, l, in0, in1) == TryGrow(v, l, in0, in1, Covering(v, l, in0 \cup in1))
SetupOtherInputs(v, l, in0) == WithNextLevel(v, l, in0, Covering(v, l + 1, in0))

\* The file a size compaction starts from: the first one behind the pointer,
\* or the first.
BehindPointer(fs, p) ==
    LET i == SelectInSeq(fs, LAMBDA f : p = NULL \/ Before(p, f.largest))
    IN  fs[IF i = 0 THEN 1 ELSE i]
FromFile(v, l, f) ==
    SetupOtherInputs(v, l, IF l = 0 THEN GetOverlappingInputs(v, 0, f.smallest.key, f.largest.key)
                           ELSE {f})
FromLevel(v, l) == FromFile(v, l, BehindPointer(Files(v[l]), pointer[l]))
PickCompaction(v) ==
    IF SizeCompaction(v) THEN FromLevel(v, CompactionLevel(v))
    ELSE FromFile(v, seekFile.level, CHOOSE g \in v[seekFile.level] : g.num = seekFile.num)

\* CompactRange: above level 0 no more than a file's worth at a time.
ManualInputs(v, l, lo, hi) ==
    LET full(fs) == {i \in DOMAIN fs : TotalFileSize({fs[j] : j \in 1..i}) >= MaxFileSize}
        cut(fs) == {fs[j] : j \in 1..Min(full(fs) \cup {Len(fs)})}
        limited(S) == IF l = 0 THEN S ELSE cut(Files(S))
    IN  limited(GetOverlappingInputs(v, l, lo, hi))

IsTrivialMove(c) ==
    /\ Cardinality(c.in0) = 1 /\ c.in1 = {}
    /\ TotalFileSize(c.grandparents) <= MaxGrandParentOverlap

-----------------------------------------------------------------------------
(* DoCompactionWork: every input entry in order is kept or dropped, and    *)
(* outputs are cut at the size limit and where the grandparents say.       *)

\* IsBaseLevelForKey, on the version the compaction started from
IsBaseLevelForKey(c, k) == \A f \in c.base : k < f.smallest.key \/ f.largest.key < k

\* ShouldStopBefore: grandparents passed since the last cut
Passed(gps, st, e) ==
    {i \in (st.index + 1)..Len(gps) : \A j \in (st.index + 1)..i : Before(gps[j].largest, e)}
Overlapped(gps, st, e) ==
    st.overlapped + IF st.seen THEN TotalFileSize({gps[i] : i \in Passed(gps, st, e)}) ELSE 0

\* mutant: snapshots are ignored
DropsUnderSnapshots(c, lastSeq, e) ==
    lastSeq < MaxSeq \/ (e.del /\ e.seq <= c.snapshot /\ IsBaseLevelForKey(c, e.key))
Drops(c, lastSeq, e) ==
    \/ lastSeq <= c.snapshot                      \* hidden by a newer entry
    \/ e.del /\ e.seq <= c.snapshot /\ IsBaseLevelForKey(c, e.key)

WorkStep(c, gps, st, e) ==
    LET bytes == Overlapped(gps, st, e)
        stop == bytes > MaxGrandParentOverlap
        open == st.open /\ ~stop
        drop == Drops(c, IF st.key = e.key THEN st.seq ELSE MaxSeq, e)
        out == IF open THEN Last(st.outs) \cup {e} ELSE {e}
    IN  [key |-> e.key, seq |-> e.seq, seen |-> TRUE,
         index |-> st.index + Cardinality(Passed(gps, st, e)),
         overlapped |-> IF stop THEN 0 ELSE bytes,
         outs |-> IF drop THEN st.outs
                  ELSE Append(IF open THEN Front(st.outs) ELSE st.outs, out),
         open |-> IF drop THEN open ELSE Cardinality(out) < MaxFileSize]

\* MakeInputIterator and the loop over it
DoCompactionWork(c) ==
    LET input == Sorted(UNION {f.ents : f \in c.in0 \cup c.in1}, Before)
        gps == Files(c.grandparents)
    IN  FoldLeft(LAMBDA st, e : WorkStep(c, gps, st, e),
                 [key |-> NULL, seq |-> MaxSeq, seen |-> FALSE, index |-> 0, overlapped |-> 0,
                  outs |-> <<>>, open |-> FALSE], input).outs

-----------------------------------------------------------------------------
\* NewFileNumber; only the order of the live numbers matters
NewFileNumber(v) == 1 + Max({0} \cup {f.num : f \in UNION {v[l] : l \in Level}})

Straddles(v) ==
    \E l \in Level \ {0} : \E f, g \in v[l] : f # g /\ f.largest.key = g.smallest.key

\* LogAndApply: Builder, Finalize, and the new version becomes the current one.
\* mutant: the file chosen by seeks outlives its version
LogAndApplyKeepsSeek(v) ==
    levels' = v /\ straddled' = (straddled \/ Straddles(v)) /\ UNCHANGED seekFile
LogAndApply(v) ==
    /\ levels' = v
    /\ seekFile' = NoSeek
    /\ straddled' = (straddled \/ Straddles(v))

Event == events < MaxEvents /\ events' = events + 1

\* DBImpl::Write of one Put or Delete
Write(k, del) ==
    /\ last < MaxWrites /\ ~bgError /\ ~crashed
    /\ last' = last + 1
    /\ mem' = mem \cup {[key |-> k, seq |-> last + 1, del |-> del]}
    /\ view' = [view EXCEPT ![k] = IF del THEN 0 ELSE last + 1]
    /\ UNCHANGED <<levels, pointer, seekFile, snapshots, comp, call, slot, bgError, crashed,
                   straddled, events, gapped>>

GetSnapshot ==
    /\ Event /\ ~crashed
    /\ snapshots' = snapshots \cup {[seq |-> last, view |-> view]}
    /\ UNCHANGED <<mem, levels, pointer, seekFile, last, view, comp, call, slot, bgError, crashed, straddled, gapped>>

ReleaseSnapshot(s) ==
    /\ ~crashed
    /\ snapshots' = snapshots \ {s}
    /\ UNCHANGED <<mem, levels, pointer, seekFile, last, view, comp, call, slot, bgError, crashed,
                   straddled, events, gapped>>

\* UpdateStats with the first of the files a read had to look at
UpdateStats(hit) ==
    LET f == [hit.file EXCEPT !.seeks = @ - 1]
    IN  /\ levels' = [levels EXCEPT ![hit.level] = (@ \ {hit.file}) \cup {f}]
        /\ seekFile' = IF f.seeks <= 0 /\ seekFile = NoSeek
                       THEN [level |-> hit.level, num |-> f.num] ELSE seekFile

\* DBImpl::Get and its charge when it read two files
Get(k, snap) ==
    /\ Event /\ ~crashed
    /\ Found(mem, k, snap) = {}
    /\ \E order \in {SearchOrder(levels, k, snap)} :
          /\ Len(order) >= 2 /\ Found(order[1].file.ents, k, snap) = {}
          /\ UpdateStats(order[1])
    /\ UNCHANGED <<mem, pointer, last, view, snapshots, comp, call, slot, bgError, crashed, straddled, gapped>>

\* every entry an iterator may stand at
Entries == mem \cup UNION {f.ents : f \in UNION {levels[l] : l \in Level}}

\* RecordReadSample by an iterator that stands at an entry of k
RecordReadSample(k, seq) ==
    /\ Event /\ ~crashed
    /\ \E order \in {SearchOrder(levels, k, seq)} :
          Len(order) >= 2 /\ UpdateStats(order[1])
    /\ UNCHANGED <<mem, pointer, last, view, snapshots, comp, call, slot, bgError, crashed, straddled, gapped>>

\* A running manual compaction will write to level l, from before to behind
\* the file f.  The inputs of the others have no gap a file could fall in.
InGap(f, l) ==
    /\ comp.on /\ comp.manual /\ l = comp.level + 1
    /\ RangeStart(comp.in0 \cup comp.in1) <= f.largest.key
    /\ f.smallest.key <= RangeEnd(comp.in0 \cup comp.in1)

\* CompactMemTable, on its own or in the middle of a compaction
CompactMemTable ==
    /\ mem # {} /\ ~bgError /\ ~crashed
    /\ LET f == File(NewFileNumber(levels), mem)
           l == PickLevelForMemTableOutput(levels, f.smallest.key, f.largest.key)
       IN  /\ LogAndApply([levels EXCEPT ![l] = @ \cup {f}])
           /\ gapped' = (gapped \/ InGap(f, l))
    /\ mem' = {}
    /\ UNCHANGED <<pointer, last, view, snapshots, comp, call, slot, bgError, crashed, events>>

\* RecordBackgroundError by a flush or by a write whose sync failed
BackgroundError ==
    /\ Event /\ ~bgError /\ ~crashed
    /\ bgError' = TRUE
    /\ UNCHANGED <<mem, levels, pointer, seekFile, last, view, snapshots, comp, call, slot, crashed, straddled, gapped>>

-----------------------------------------------------------------------------
(* The background thread's compactions.                                    *)

BackgroundIdle == ~comp.on /\ ~bgError /\ ~crashed

\* The fixed part of a compaction: inputs, grandparents, deeper levels, and
\* the oldest snapshot.
Begin(c, manual) ==
    /\ comp' = c @@ [on |-> TRUE, manual |-> manual,
                     base |-> UNION {levels[l] : l \in {m \in Level : m >= c.level + 2}},
                     snapshot |-> IF snapshots = {} THEN last ELSE Min({s.seq : s \in snapshots})]
    /\ pointer' = [pointer EXCEPT ![c.level] = RangeLimit(c.in0)]

\* mutant: the edit adds the file to the level it is deleted from
MoveFileStays(v, c) == v
\* The edit of a trivial move
MoveFile(v, c) ==
    [v EXCEPT ![c.level] = @ \ c.in0,
              ![c.level + 1] = @ \cup {[f EXCEPT !.seeks = AllowedSeeks] : f \in c.in0}]

BackgroundCompaction ==
    /\ BackgroundIdle /\ ~slot /\ NeedsCompaction
    /\ \E c \in {PickCompaction(levels)} :
           \/ /\ IsTrivialMove(c)
              /\ LogAndApply(MoveFile(levels, c))
              /\ pointer' = [pointer EXCEPT ![c.level] = RangeLimit(c.in0)]
              /\ UNCHANGED comp
           \/ /\ ~IsTrivialMove(c)
              /\ Begin(c, FALSE)
              /\ UNCHANGED <<levels, seekFile, straddled>>
    /\ UNCHANGED <<mem, last, view, snapshots, call, slot, bgError, crashed, events, gapped>>

\* mutant: m->done is not set
NothingLeftForgotten(m) == m
\* m->done = (c == NULL)
NothingLeft(m) == [m EXCEPT !.done = TRUE]

ManualCompaction ==
    /\ BackgroundIdle /\ slot
    /\ \E S \in {ManualInputs(levels, call.level, call.begin, call.range[2])} :
           \/ /\ S = {}
              /\ call' = NothingLeft(call)
              /\ slot' = FALSE
              /\ UNCHANGED <<pointer, comp>>
           \/ /\ S # {}
              /\ \E c \in {SetupOtherInputs(levels, call.level, S)} : Begin(c, TRUE)
              /\ UNCHANGED <<call, slot>>
    /\ UNCHANGED <<mem, levels, seekFile, last, view, snapshots, bgError, crashed, straddled, events, gapped>>

\* The end of BackgroundCompaction: what is left of a manual request.  m is
\* manual_compaction_, which may have become NULL.
FinishManual(ok) ==
    /\ comp' = NoCompaction
    /\ slot' = (slot /\ ~comp.manual)
    /\ crashed' = (comp.manual /\ ~slot)
    /\ call' = IF ~comp.manual \/ ~slot THEN call
               ELSE IF ok THEN [call EXCEPT !.begin = Last(Files(comp.in0)).largest.key]
               ELSE [call EXCEPT !.done = TRUE]

\* InstallCompactionResults
CompactionEnd ==
    /\ comp.on /\ ~crashed
    /\ LET outs == DoCompactionWork(comp)
           n == NewFileNumber(levels)
           l == comp.level
       IN  LogAndApply([levels EXCEPT
             ![l] = {f \in @ : \A g \in comp.in0 : f.num # g.num},
             ![l + 1] = {f \in @ : \A g \in comp.in1 : f.num # g.num}
                          \cup {File(n + i, outs[i]) : i \in DOMAIN outs}])
    /\ FinishManual(TRUE)
    /\ UNCHANGED <<mem, pointer, last, view, snapshots, bgError, events, gapped>>

\* An error while writing an output, or shutting down
CompactionFails ==
    /\ comp.on /\ ~crashed /\ Event
    /\ bgError' = TRUE
    /\ FinishManual(FALSE)
    /\ UNCHANGED <<mem, levels, pointer, seekFile, last, view, snapshots, straddled, gapped>>

-----------------------------------------------------------------------------
(* DBImpl::CompactRange: the memtable, then level by level.                *)

CompactRange(r) ==
    /\ call.at = "idle" /\ Event /\ ~crashed
    /\ call' = [NoCall EXCEPT !.at = "mem", !.range = r, !.seq = last, !.begin = r[1],
                  !.max = Max({1} \cup {l \in Level \ {0} : OverlapInLevel(levels, l, r[1], r[2])})]
    /\ UNCHANGED <<mem, levels, pointer, seekFile, last, view, snapshots, comp, slot, bgError,
                   crashed, straddled, gapped>>

\* TEST_CompactMemTable returns, with or without an error
MemTableCompacted ==
    /\ call.at = "mem" /\ ~crashed
    /\ bgError \/ \A e \in mem : e.seq > call.seq
    /\ call' = [call EXCEPT !.at = "loop"]
    /\ UNCHANGED <<mem, levels, pointer, seekFile, last, view, snapshots, comp, slot, bgError,
                   crashed, straddled, events, gapped>>

\* The loop of TEST_CompactRange and its exits
CompactRangeLoop ==
    /\ call.at = "loop" /\ ~crashed
    /\ \/ /\ ~call.done /\ ~bgError /\ ~slot /\ ~(comp.on /\ comp.manual)
          /\ slot' = TRUE /\ UNCHANGED call
       \/ /\ call.done \/ bgError
          /\ slot' = FALSE
          /\ call' = IF call.level + 1 < call.max
                     THEN [call EXCEPT !.level = @ + 1, !.begin = call.range[1], !.done = FALSE]
                     ELSE NoCall
    /\ UNCHANGED <<mem, levels, pointer, seekFile, last, view, snapshots, comp, bgError, crashed,
                   straddled, events, gapped>>

-----------------------------------------------------------------------------
\* A store just opened: Recover has made each log a table of level 0
\* (RecoverLogFile, WriteLevel0Table without a base version).
RecoveredFiles(logs) ==
    {File(i, {[key |-> logs[i], seq |-> i, del |-> FALSE]}) : i \in DOMAIN logs}
CompactionInit ==
    /\ mem = {} /\ pointer = [l \in Level |-> NULL]
    /\ \E logs \in Recovered :
         /\ levels = [l \in Level |-> IF l = 0 THEN RecoveredFiles(logs) ELSE {}]
         /\ last = Len(logs)
         /\ view = [k \in Key |-> Max({0} \cup {i \in DOMAIN logs : logs[i] = k})]
    /\ seekFile = NoSeek /\ snapshots = {}
    /\ comp = NoCompaction /\ call = NoCall /\ slot = FALSE
    /\ bgError = FALSE /\ crashed = FALSE /\ straddled = FALSE /\ gapped = FALSE
    /\ events = 0

Background == CompactMemTable \/ BackgroundCompaction \/ ManualCompaction \/ CompactionEnd
Caller == MemTableCompacted \/ CompactRangeLoop

CompactionNext ==
    \/ \E k \in WriteKey, del \in Deletes : Write(k, del)
    \/ GetSnapshot
    \/ \E s \in snapshots : ReleaseSnapshot(s)
    \/ \E k \in Key : \/ \E s \in {last} \cup {t.seq : t \in snapshots} : Get(k, s)
                      \/ \E e \in Entries : e.key = k /\ RecordReadSample(k, e.seq)
    \/ BackgroundError \/ CompactionFails
    \/ \E r \in Ranges : CompactRange(r)
    \/ Background \/ Caller

CompactionSpec == CompactionInit /\ [][CompactionNext]_cVars

\* Fairness of the background thread (MaybeScheduleCompaction leaves no work
\* unscheduled), of the flush a caller waits for, and of the caller, whom
\* bg_cv_ wakes.  Each is weak fairness with its ENABLED written out.
BackgroundStep == BackgroundCompaction \/ ManualCompaction \/ CompactionEnd
BackgroundReady == ~crashed /\ (comp.on \/ (~bgError /\ (slot \/ NeedsCompaction)))
FlushReady == ~crashed /\ ~bgError /\ call.at = "mem" /\ mem # {}
CallerReady ==
    /\ ~crashed
    /\ \/ call.at = "mem" /\ (bgError \/ \A e \in mem : e.seq > call.seq)
       \/ call.at = "loop" /\ (call.done \/ bgError \/ (~slot /\ ~(comp.on /\ comp.manual)))
CompactionFairSpec ==
    /\ CompactionSpec
    /\ []<>~BackgroundReady \/ []<><<BackgroundStep>>_cVars
    /\ []<>~FlushReady \/ []<><<CompactMemTable>>_cVars
    /\ []<>~CallerReady \/ []<><<Caller>>_cVars

-----------------------------------------------------------------------------
\* Types, and what the pointers refer to: a file is in one level once, the
\* inputs of a running compaction are still in the current version, and the
\* file chosen by seeks is a file of the current version.
CompactionTypeOK ==
    /\ DOMAIN levels = Level /\ DOMAIN pointer = Level
    /\ \A l \in Level : \A f \in levels[l] :
         /\ f.num > 0 /\ f.ents # {} /\ f.smallest \in f.ents /\ f.largest \in f.ents
         /\ \A m \in Level : \A g \in levels[m] : f.num = g.num => l = m /\ f = g
    /\ \A e \in mem : e.key \in Key /\ e.seq \in 1..last
    /\ comp.on => \A f \in comp.in0 : \E g \in levels[comp.level] : g.num = f.num
    /\ seekFile = NoSeek \/ \E f \in levels[seekFile.level] : f.num = seekFile.num

\* Builder::SaveTo: "Make sure there is no overlap in levels > 0", which the
\* binary search of a level relies on.  It is false once a flush went into a
\* gap between the inputs of a manual compaction (gapped): the output covers
\* the gap.  Size and seek compactions have no such gap.
LevelsDisjoint ==
    ~gapped => \A l \in Level \ {0} : LET fs == Files(levels[l])
                           IN  \A i \in 1..(Len(fs) - 1) : Before(fs[i].largest, fs[i + 1].smallest)

\* Version::Get: "We can search level-by-level since entries never hop across
\* levels."  What is found in a level is newer than anything deeper.
EntriesNeverHop ==
    \A l, m \in Level : l < m =>
      \A f \in levels[l], g \in levels[m] : \A e \in f.ents, d \in g.ents : e.key = d.key => e.seq > d.seq

\* A Get at the current sequence number and at every live snapshot returns
\* what was last put there, whatever was flushed, merged, moved or dropped
\* since; no deleted key comes back; and an iterator sees the same.  As long
\* as no level held the entries of one user key in two files (straddled), nor
\* overlapping files (gapped).  The sizes told of a range count the entries of
\* the tables in it, each once.
ReadsExact == ~gapped =>
    /\ ~straddled => \A s \in snapshots \cup {[seq |-> last, view |-> view]} :
                       \A k \in Key : DBGet(k, s.seq) = s.view[k] /\ IteratorGet(k, s.seq) = s.view[k]
    /\ \A lo, hi \in Key : lo # hi =>
         GetApproximateSizes(levels, lo, hi) =
           FoldSet(LAMBDA f, n : n + Cardinality({e \in f.ents : lo <= e.key /\ e.key < hi}), 0, UNION {levels[l] : l \in Level})

\* Every CompactRange call returns, with compactions of its own and of others
\* in between (or the process is gone).
CallsReturn == [](call.at # "idle" => <>(call.at = "idle" \/ crashed))

\* Without new writes or reads compactions come to an end: none keeps making
\* the next one necessary.
CompactionsSettle == <>[](~NeedsCompaction \/ bgError \/ crashed)
=============================================================================
