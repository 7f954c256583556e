------------------------------- MODULE SSTable -------------------------------
(***************************************************************************)
(* LevelDB's table files.  TableBuilder cuts sorted entries into blocks    *)
(* (BlockBuilder: keys without the prefix they share with the one before,  *)
(* whole again at restart points), one index entry per block (a key        *)
(* shortened to any that separates it from the next block) and one filter  *)
(* per FilterBase bytes of file; Table finds a key through index, filter   *)
(* and block, whose Iter moves both ways over the compressed entries.      *)
(*                                                                         *)
(* A key is the sequence of its user key's bytes with the sequence number  *)
(* as last element (the eight bytes of the tag).  Sizes are scaled: a      *)
(* length, a value, a restart offset and a block's trailer take one byte.  *)
(***************************************************************************)
EXTENDS Integers, Sequences, SequencesExt, FiniteSetsExt

CONSTANTS
    TopByte,          \* 0xff
    UserKey,          \* the user keys in use, sequences of bytes
    MaxTag,           \* sequence numbers are 1..MaxTag; MaxTag + 1 is kMaxSequenceNumber
    MaxEntries,
    BlockLimit,       \* Options::block_size
    RestartInterval,  \* Options::block_restart_interval
    FilterBase,       \* kFilterBase
    BitsPerKey, MinBits, Probes,
    BloomHash(_)      \* a number below HashSize for every user key
HashSize == 32

ASSUME SSTableAssumption ==
    /\ UserKey \subseteq Seq(0..TopByte) /\ RestartInterval \in Nat \ {0}
    /\ {MaxTag, MaxEntries, BlockLimit} \subseteq Nat /\ FilterBase \in Nat \ {0}
    /\ {BitsPerKey, MinBits, Probes} \subseteq Nat \ {0}

VARIABLES
    sstBuilder,  \* TableBuilder::Rep
    sstFile,     \* the blocks written, with their offsets
    sstEntries,  \* the entries added, in order
    sstDamaged,  \* offsets of damaged blocks
    sstIter,     \* a Block::Iter and the offset of its block (none: -1)
    sstWant      \* the entry it should be at; 0: not valid
sstVars == <<sstBuilder, sstFile, sstEntries, sstDamaged, sstIter, sstWant>>

-----------------------------------------------------------------------------
(* Keys *)

UserOf(k) == Front(k)
TagOf(k) == Last(k)
CommonPrefix(a, b) == Max({n \in 0..Min({Len(a), Len(b)}) : SubSeq(a, 1, n) = SubSeq(b, 1, n)})

\* Comparator::Compare(a, b) < 0, and InternalKeyComparator's
UserLess(a, b) ==
    LET n == CommonPrefix(a, b) IN IF n = Len(a) THEN n < Len(b) ELSE n < Len(b) /\ a[n + 1] < b[n + 1]
KeyLess(a, b) ==
    UserLess(UserOf(a), UserOf(b)) \/ (UserOf(a) = UserOf(b) /\ TagOf(a) > TagOf(b))

\* mutant: the incremented byte may be the limit's
UserSeparatorLoose(start, limit) ==
    LET n == CommonPrefix(start, limit)
    IN  IF n >= Min({Len(start), Len(limit)}) THEN start
        ELSE IF start[n + 1] < TopByte THEN Append(SubSeq(start, 1, n), start[n + 1] + 1) ELSE start
\* BytewiseComparatorImpl::FindShortestSeparator and FindShortSuccessor
UserSeparator(start, limit) ==
    LET n == CommonPrefix(start, limit)
    IN  IF n >= Min({Len(start), Len(limit)}) THEN start
        ELSE IF start[n + 1] < TopByte /\ start[n + 1] + 1 < limit[n + 1]
        THEN Append(SubSeq(start, 1, n), start[n + 1] + 1) ELSE start
UserSuccessor(key) ==
    LET room == {i \in DOMAIN key : key[i] # TopByte}
    IN  IF room = {} THEN key ELSE Append(SubSeq(key, 1, Min(room) - 1), key[Min(room)] + 1)

\* InternalKeyComparator's: the shortened user key gets the number that sorts
\* first.
Shortened(key, user) ==
    IF Len(user) < Len(UserOf(key)) /\ UserLess(UserOf(key), user) THEN Append(user, MaxTag + 1) ELSE key
FindShortestSeparator(start, limit) == Shortened(start, UserSeparator(UserOf(start), UserOf(limit)))
FindShortSuccessor(key) == Shortened(key, UserSuccessor(UserOf(key)))

-----------------------------------------------------------------------------
(* BlockBuilder.  An entry knows where it starts and ends. *)

EmptyBlock == [ents |-> <<>>, restarts |-> <<0>>, counter |-> 0, last |-> <<>>, size |-> 0]
BlockReset == EmptyBlock
BlockAdd(b, interval, key, value) ==
    LET restart == b.counter >= interval
        shared == IF restart THEN 0 ELSE CommonPrefix(b.last, key)
        delta == SubSeq(key, shared + 1, Len(key))
        end == b.size + 4 + Len(delta)
    IN  [ents |-> Append(b.ents, [off |-> b.size, shared |-> shared, delta |-> delta, value |-> value, end |-> end]),
         restarts |-> IF restart THEN Append(b.restarts, b.size) ELSE b.restarts,
         counter |-> (IF restart THEN 0 ELSE b.counter) + 1,
         last |-> key, size |-> end]
CurrentSizeEstimate(b) == b.size + Len(b.restarts) + 1

-----------------------------------------------------------------------------
(* Block::Iter: offset of the current entry (the block's size: not valid), *)
(* restart_index_ (from 0), key_, and where value_ ends.                   *)

NumRestarts(b) == Len(b.restarts)
GetRestartPoint(b, i) == b.restarts[i + 1]
DecodeEntry(b, off) == CHOOSE e \in {b.ents[i] : i \in DOMAIN b.ents} : e.off = off

IterInvalid(b) == [cur |-> b.size, ridx |-> NumRestarts(b), key |-> <<>>, next |-> b.size, err |-> FALSE]
CorruptionError(b) == [IterInvalid(b) EXCEPT !.err = TRUE]
IterValid(b, it) == it.cur < b.size

SeekToRestartPoint(b, it, i) == [it EXCEPT !.key = <<>>, !.ridx = i, !.next = GetRestartPoint(b, i)]
ParseNextKey(b, it) ==
    LET e == DecodeEntry(b, it.next)
    IN  IF it.next >= b.size THEN [IterInvalid(b) EXCEPT !.err = it.err]
        ELSE IF Len(it.key) < e.shared THEN CorruptionError(b)
        ELSE [it EXCEPT !.cur = it.next, !.key = SubSeq(@, 1, e.shared) \o e.delta, !.next = e.end,
                        !.ridx = Max({@} \cup {i \in (@ + 1)..(NumRestarts(b) - 1) : GetRestartPoint(b, i) < it.next})]

\* ParseNextKey until the entry ends at limit, or there is none
RECURSIVE ParseTo(_, _, _)
ParseTo(b, it, limit) ==
    LET n == ParseNextKey(b, it) IN IF IterValid(b, n) /\ n.next < limit THEN ParseTo(b, n, limit) ELSE n

IterNext(b, it) == ParseNextKey(b, it)
IterPrev(b, it) ==
    LET before == {i \in 0..it.ridx : GetRestartPoint(b, i) < it.cur}
    IN  IF before = {} THEN [it EXCEPT !.cur = b.size, !.ridx = NumRestarts(b)]
        ELSE ParseTo(b, SeekToRestartPoint(b, it, Max(before)), it.cur)
\* Seek: binary search among the restart points, then from the one found on
RECURSIVE RestartBefore(_, _, _, _)
RestartBefore(b, target, left, right) ==
    LET mid == (left + right + 1) \div 2
        e == DecodeEntry(b, GetRestartPoint(b, mid))
    IN  IF left >= right THEN left
        ELSE IF e.shared # 0 THEN -1
        ELSE IF KeyLess(e.delta, target) THEN RestartBefore(b, target, mid, right)
        ELSE RestartBefore(b, target, left, mid - 1)
RECURSIVE ParseUntil(_, _, _)
ParseUntil(b, it, target) ==
    LET n == ParseNextKey(b, it)
    IN  IF IterValid(b, n) /\ KeyLess(n.key, target) THEN ParseUntil(b, n, target) ELSE n
IterSeek(b, it, target) ==
    LET r == RestartBefore(b, target, 0, NumRestarts(b) - 1)
    IN  IF r = -1 THEN CorruptionError(b) ELSE ParseUntil(b, SeekToRestartPoint(b, it, r), target)
IterSeekToFirst(b, it) == ParseNextKey(b, SeekToRestartPoint(b, it, 0))
IterSeekToLast(b, it) == ParseTo(b, SeekToRestartPoint(b, it, NumRestarts(b) - 1), b.size)
IterValue(b, it) == DecodeEntry(b, it.cur).value

-----------------------------------------------------------------------------
(* Filters: BloomFilterPolicy, and FilterBlockBuilder and Reader *)

EmptyFilterBlock == [filters |-> <<>>, keys |-> <<>>]
NoFilter == [bits |-> 0, set |-> {}]
Delta(h) == (h \div 4) + (h % 4) * 8
BloomBits(user, bits) == {((BloomHash(user) + j * Delta(BloomHash(user))) % HashSize) % bits : j \in 0..(Probes - 1)}
CreateFilter(users) ==
    LET bits == Max({MinBits, Len(users) * BitsPerKey})
    IN  [bits |-> bits, set |-> UNION {BloomBits(users[i], bits) : i \in DOMAIN users}]
KeyMayMatch(user, f) == f.bits # 0 /\ BloomBits(user, f.bits) \subseteq f.set

\* GenerateFilter and StartBlock: filters for the file up to offset
GenerateFilter(fb) ==
    [filters |-> Append(fb.filters, IF fb.keys = <<>> THEN NoFilter ELSE CreateFilter(fb.keys)), keys |-> <<>>]
StartBlock(fb, offset) ==
    LET missing == (offset \div FilterBase) - Len(fb.filters)
        g == GenerateFilter(fb)
    IN  IF missing <= 0 THEN fb ELSE [g EXCEPT !.filters = @ \o [i \in 1..(missing - 1) |-> NoFilter]]
FilterFinish(fb) == IF fb.keys = <<>> THEN fb.filters ELSE GenerateFilter(fb).filters
BlockMayMatch(filters, offset, user) ==
    LET i == offset \div FilterBase IN i >= Len(filters) \/ KeyMayMatch(user, filters[i + 1])

-----------------------------------------------------------------------------
(* TableBuilder *)

SSTInit ==
    /\ sstBuilder = [data |-> EmptyBlock, index |-> EmptyBlock, pending |-> FALSE, handle |-> 0, last |-> <<>>,
                     offset |-> 0, filter |-> EmptyFilterBlock, open |-> TRUE]
    /\ sstFile = <<>> /\ sstEntries = <<>> /\ sstDamaged = {} /\ sstIter = [off |-> -1] /\ sstWant = 0

\* WriteBlock and WriteRawBlock
Written(kind, contents, offset) == [kind |-> kind, off |-> offset, contents |-> contents]
BlockSizeOnDisk(b) == CurrentSizeEstimate(b) + 1

\* Flush: the builder with the data block written
Flushed(r) ==
    LET end == r.offset + BlockSizeOnDisk(r.data)
    IN  IF r.data.ents = <<>> THEN r
        ELSE [r EXCEPT !.data = BlockReset, !.pending = TRUE, !.handle = r.offset, !.offset = end,
                       !.filter = StartBlock(@, end)]
\* The entry of the last block, under a key at or after its last one
IndexEntryAdded(r, sep) ==
    IF r.pending THEN [r EXCEPT !.index = BlockAdd(@, 1, sep, r.handle), !.pending = FALSE] ELSE r

SSTAdd(key) ==
    LET r == IndexEntryAdded(sstBuilder, IF sstBuilder.pending THEN FindShortestSeparator(sstBuilder.last, key) ELSE key)
        added == [r EXCEPT !.filter.keys = Append(@, UserOf(key)), !.last = key,
                           !.data = BlockAdd(@, RestartInterval, key, Len(sstEntries) + 1)]
        full == CurrentSizeEstimate(added.data) >= BlockLimit
    IN  /\ sstBuilder.open /\ Len(sstEntries) < MaxEntries
        /\ sstEntries # <<>> => KeyLess(Last(sstEntries), key)
        /\ sstBuilder' = IF full THEN Flushed(added) ELSE added
        /\ sstFile' = IF full THEN Append(sstFile, Written("data", added.data, added.offset)) ELSE sstFile
        /\ sstEntries' = Append(sstEntries, key)
        /\ UNCHANGED <<sstDamaged, sstIter, sstWant>>

\* Finish: the last data block, the filters, the meta index, the index, the
\* footer
SSTFinish ==
    LET f == Flushed(sstBuilder)
        flushed == IF sstBuilder.data.ents = <<>> THEN sstFile
                   ELSE Append(sstFile, Written("data", sstBuilder.data, sstBuilder.offset))
        r == IndexEntryAdded(f, IF f.pending THEN FindShortSuccessor(f.last) ELSE <<>>)
        filters == FilterFinish(r.filter)
        at == r.offset + Len(filters) + 1
    IN  /\ sstBuilder.open
        /\ sstBuilder' = [r EXCEPT !.open = FALSE]
        /\ sstFile' = flushed \o <<Written("filter", filters, r.offset), Written("meta", r.offset, at),
                                   Written("index", r.index, at + 1), Written("footer", at + 1, at + 2)>>
        /\ UNCHANGED <<sstEntries, sstDamaged, sstIter, sstWant>>

\* The bytes of a block go bad on the disk.
SSTDamage(off) ==
    /\ ~sstBuilder.open /\ sstIter.off = -1 /\ sstDamaged = {}
    /\ sstDamaged' = {off}
    /\ UNCHANGED <<sstBuilder, sstFile, sstEntries, sstIter, sstWant>>

-----------------------------------------------------------------------------
(* Table, with paranoid_checks (checksums are verified) *)

ReadBlock(kind) == LET i == CHOOSE i \in DOMAIN sstFile : sstFile[i].kind = kind
                   IN  [ok |-> sstFile[i].off \notin sstDamaged, off |-> sstFile[i].off, contents |-> sstFile[i].contents]
ReadBlockAt(off) == LET i == CHOOSE i \in DOMAIN sstFile : sstFile[i].off = off
                    IN  [ok |-> off \notin sstDamaged, contents |-> sstFile[i].contents]

\* Open, with ReadMeta and ReadFilter: without them there is just no filter.
TableOpen ==
    [ok |-> ReadBlock("footer").ok /\ ReadBlock("index").ok,
     index |-> ReadBlock("index").contents,
     useFilter |-> ReadBlock("meta").ok /\ ReadBlock("filter").ok,
     filters |-> ReadBlock("filter").contents]

Miss == [ok |-> TRUE, found |-> 0]
GetInBlock(b, bi) ==
    IF bi.err THEN [Miss EXCEPT !.ok = FALSE]
    ELSE IF IterValid(b, bi) THEN [Miss EXCEPT !.found = IterValue(b, bi)] ELSE Miss
BlockGet(block, k) ==
    IF block.ok THEN GetInBlock(block.contents, IterSeek(block.contents, IterInvalid(block.contents), k))
    ELSE [Miss EXCEPT !.ok = FALSE]
GetAtHandle(t, handle, k) ==
    IF t.useFilter /\ ~BlockMayMatch(t.filters, handle, UserOf(k)) THEN Miss ELSE BlockGet(ReadBlockAt(handle), k)
GetByIndex(t, ii, k) ==
    IF IterValid(t.index, ii) THEN GetAtHandle(t, IterValue(t.index, ii), k) ELSE [Miss EXCEPT !.ok = ~ii.err]
InternalGet(t, k) ==
    IF t.index.ents = <<>> THEN Miss ELSE GetByIndex(t, IterSeek(t.index, IterInvalid(t.index), k), k)

OffsetAt(t, ii) == IF IterValid(t.index, ii) THEN IterValue(t.index, ii) ELSE ReadBlock("meta").off
ApproximateOffsetOf(t, k) ==
    IF t.index.ents = <<>> THEN ReadBlock("meta").off
    ELSE OffsetAt(t, IterSeek(t.index, IterInvalid(t.index), k))

\* DumpTable: a TwoLevelIterator from SeekToFirst on, Next by Next.
RECURSIVE BlockEntries(_, _), EntriesFrom(_, _)
BlockEntries(b, it) ==
    IF IterValid(b, it) THEN <<it.key>> \o BlockEntries(b, IterNext(b, it)) ELSE <<>>
EntriesFrom(t, ii) ==
    IF ~IterValid(t.index, ii) THEN <<>>
    ELSE LET b == ReadBlockAt(IterValue(t.index, ii)).contents
         IN  BlockEntries(b, IterSeekToFirst(b, IterInvalid(b))) \o EntriesFrom(t, IterNext(t.index, ii))
DumpTable == LET t == TableOpen IN EntriesFrom(t, IterSeekToFirst(t.index, IterInvalid(t.index)))

\* A Block::Iter over a data block, called in any order
IterOpen(i) ==
    /\ ~sstBuilder.open /\ sstIter.off = -1 /\ sstDamaged = {} /\ sstFile[i].kind = "data"
    /\ sstIter' = [off |-> sstFile[i].off, it |-> IterInvalid(sstFile[i].contents)]
    /\ sstWant' = 0
    /\ UNCHANGED <<sstBuilder, sstFile, sstEntries, sstDamaged>>
IterBlock == ReadBlockAt(sstIter.off).contents
InBlock == {IterBlock.ents[i].value : i \in DOMAIN IterBlock.ents}   \* numbers of its entries
IterCall(it, want) ==
    /\ sstIter' = [sstIter EXCEPT !.it = it]
    /\ sstWant' = IF want = {} THEN 0 ELSE Min(want)
    /\ UNCHANGED <<sstBuilder, sstFile, sstEntries, sstDamaged>>

AllKeys == {Append(u, n) : u \in UserKey, n \in 1..(MaxTag + 1)}
SSTNext ==
    \/ \E u \in UserKey, n \in 1..MaxTag : SSTAdd(Append(u, n))
    \/ SSTFinish
    \/ \E i \in DOMAIN sstFile : SSTDamage(sstFile[i].off) \/ IterOpen(i)
    \/ /\ sstIter.off # -1
       /\ \/ IterCall(IterSeekToFirst(IterBlock, sstIter.it), InBlock)
          \/ IterCall(IterSeekToLast(IterBlock, sstIter.it), {Max(InBlock)})
          \/ \E k \in AllKeys : IterCall(IterSeek(IterBlock, sstIter.it, k), {n \in InBlock : ~KeyLess(sstEntries[n], k)})
          \/ /\ IterValid(IterBlock, sstIter.it)
             /\ \/ IterCall(IterNext(IterBlock, sstIter.it), InBlock \cap {sstWant + 1})
                \/ IterCall(IterPrev(IterBlock, sstIter.it), InBlock \cap {sstWant - 1})

SSTSpec == SSTInit /\ [][SSTNext]_sstVars

-----------------------------------------------------------------------------
(* Properties *)

\* TableBuilder::Rep: "r->pending_index_entry is true only if data_block is
\* empty"; restart points are starts of entries with whole keys; the index
\* names each data block once, in order, under keys in order.
SSTTypeOK ==
    LET r == sstBuilder
    IN  /\ r.pending => r.data.ents = <<>>
        /\ \A b \in {r.data, r.index} : \A j \in 2..Len(b.restarts) : DecodeEntry(b, b.restarts[j]).shared = 0
        /\ ~r.open => [i \in DOMAIN r.index.ents |-> r.index.ents[i].value]
                      = [i \in DOMAIN SelectSeq(sstFile, LAMBDA x : x.kind = "data") |-> sstFile[i].off]

\* Table::InternalGet finds the first entry at or after a key whenever that
\* entry has the key's user key, wherever the blocks were cut, however the
\* index keys were shortened and whatever the filters merged; a damaged block
\* makes it fail, never answer wrongly, and a lost filter changes nothing.
RightGet(r, from, k) ==
    /\ (from # {} /\ UserOf(sstEntries[Min(from)]) = UserOf(k)) => r.found = Min(from) \/ ~r.ok
    /\ r.found # 0 => r.found \in from
    /\ ~r.ok => sstDamaged # {}
GetExact ==
    ~sstBuilder.open =>
        \A t \in {TableOpen}, k \in AllKeys :
          t.ok => RightGet(InternalGet(t, k), {n \in DOMAIN sstEntries : ~KeyLess(sstEntries[n], k)}, k)

\* Block::Iter shows the entry a plain cursor would be at, with its whole key,
\* after any calls: prefixes are rebuilt from the right restart point.
IterExact ==
    sstIter.off # -1 =>
        LET b == IterBlock
            it == sstIter.it
        IN  /\ ~it.err
            /\ sstWant = IF IterValid(b, it) THEN IterValue(b, it) ELSE 0
            /\ sstWant # 0 => it.key = sstEntries[sstWant]

\* Table::ApproximateOffsetOf never decreases from key to key, and is the
\* offset of the block of a key that is there.
OffsetsOrdered ==
    ~sstBuilder.open =>
        LET t == TableOpen
        IN  t.ok => \A j \in AllKeys, k \in AllKeys :
              /\ KeyLess(j, k) => ApproximateOffsetOf(t, j) <= ApproximateOffsetOf(t, k)
              /\ \A n \in DOMAIN sstEntries : sstEntries[n] = k =>
                    \E e \in Range(ReadBlockAt(ApproximateOffsetOf(t, k)).contents.ents) : e.value = n

\* DumpTable lists the entries as they were added, each once and with its whole
\* key.  (It verifies no checksum, so this says nothing of damaged blocks.)
DumpExact == ~sstBuilder.open /\ sstDamaged = {} => DumpTable = sstEntries

\* A table, for the version set: lookups, iterators, offsets and dumps are exact for
\* every cut into blocks, every shortened index key and every damaged block.
TableExact == SSTTypeOK /\ GetExact /\ IterExact /\ OffsetsOrdered /\ DumpExact
=============================================================================
