------------------------------- MODULE DBIter -------------------------------
(***************************************************************************)
(* LevelDB's iterator tower: DBIter hides sequence numbers, overwrites and *)
(* deletions; MergingIterator merges the memtable with the tables;         *)
(* TwoLevelIterator walks the blocks of a table (and the tables of a       *)
(* level).  A client moves the top in any order of calls while a writer    *)
(* keeps adding newer entries to the memtable underneath.                  *)
(***************************************************************************)
EXTENDS DBFormat, Sequences, FiniteSetsExt, SequencesExt

CONSTANTS Key, NULL,
          Loaded,      \* entries in the store when the iterator is made
          BlockSizes,  \* entries per block of a table
          MaxWrites    \* writes while the iterator lives

ASSUME DBIterAssumption ==
    Key \subseteq Int /\ Loaded \in Nat /\ MaxWrites \in Nat /\ BlockSizes \subseteq Nat \ {0}

VARIABLES
    mem,     \* entries of the memtable
    tables,  \* the tables below it, each a sequence of blocks with index keys
    snap,    \* sequence_
    iter,    \* the DBIter
    op,      \* the last call
    data     \* what the snapshot holds

iVars == <<mem, tables, snap, iter, op, data>>

MaxSeq == Loaded + MaxWrites + 1
SeekKey(k, s) == [key |-> k, seq |-> s]

-----------------------------------------------------------------------------
(* Iterators over one source.  A block's is a position, 0 when not valid;  *)
(* module SSTable has what it does underneath.                               *)

FirstAtOrAfter(ents, t) ==
    LET S == {i \in DOMAIN ents : ~Before(ents[i], t)} IN IF S = {} THEN 0 ELSE Min(S)

\* TwoLevelIterator: a position in the index, and in the block it opened;
\* status_ is an error saved (err).
Nowhere == [index |-> 0, block |-> 0, pos |-> 0, err |-> FALSE]

\* The index entry of a block is a key at or after its last one.
IndexSeek(bs, t) == FirstAtOrAfter([i \in DOMAIN bs |-> bs[i].sep], t)

\* NewErrorIterator: a block that cannot be read shows nothing but its error.
Ents(b) == IF b.bad THEN <<>> ELSE b.ents
DataError(bs, st) == st.block # 0 /\ bs[st.block].bad
Status(bs, st) == ~st.err /\ ~DataError(bs, st)

SetDataIterator(bs, st, b) == [st EXCEPT !.block = b, !.pos = 0, !.err = @ \/ DataError(bs, st)]
InitDataBlock(bs, st) ==
    IF st.block = st.index THEN st ELSE SetDataIterator(bs, st, st.index)

RECURSIVE SkipEmptyDataBlocksForward(_, _)
SkipEmptyDataBlocksForward(bs, st) ==
    LET s == InitDataBlock(bs, [st EXCEPT !.index = (@ + 1) % (Len(bs) + 1)])
    IN  IF st.block # 0 /\ st.pos # 0 THEN st
        ELSE IF st.index = 0 THEN SetDataIterator(bs, st, 0)
        ELSE SkipEmptyDataBlocksForward(bs,
               IF s.block = 0 \/ Ents(bs[s.block]) = <<>> THEN s ELSE [s EXCEPT !.pos = 1])

RECURSIVE SkipEmptyDataBlocksBackward(_, _)
SkipEmptyDataBlocksBackward(bs, st) ==
    LET s == InitDataBlock(bs, [st EXCEPT !.index = @ - 1])
    IN  IF st.block # 0 /\ st.pos # 0 THEN st
        ELSE IF st.index = 0 THEN SetDataIterator(bs, st, 0)
        ELSE SkipEmptyDataBlocksBackward(bs,
               IF s.block = 0 THEN s ELSE [s EXCEPT !.pos = Len(Ents(bs[s.block]))])

TwoLevelSeek(bs, st, t) ==
    LET s == InitDataBlock(bs, [st EXCEPT !.index = IndexSeek(bs, t)])
    IN  SkipEmptyDataBlocksForward(bs,
          IF s.block = 0 THEN s ELSE [s EXCEPT !.pos = FirstAtOrAfter(Ents(bs[s.block]), t)])
TwoLevelFirst(bs, st) ==
    LET s == InitDataBlock(bs, [st EXCEPT !.index = IF bs = <<>> THEN 0 ELSE 1])
    IN  SkipEmptyDataBlocksForward(bs,
          IF s.block = 0 \/ Ents(bs[s.block]) = <<>> THEN s ELSE [s EXCEPT !.pos = 1])
TwoLevelLast(bs, st) ==
    LET s == InitDataBlock(bs, [st EXCEPT !.index = Len(bs)])
    IN  SkipEmptyDataBlocksBackward(bs,
          IF s.block = 0 THEN s ELSE [s EXCEPT !.pos = Len(Ents(bs[s.block]))])
TwoLevelNext(bs, st) ==
    SkipEmptyDataBlocksForward(bs, [st EXCEPT !.pos = IF @ = Len(bs[st.block].ents) THEN 0 ELSE @ + 1])
TwoLevelPrev(bs, st) == SkipEmptyDataBlocksBackward(bs, [st EXCEPT !.pos = @ - 1])

\* MemTableIterator: a pointer to a node of the skip list, which only grows.
Least(S) == IF S = {} THEN NULL ELSE CHOOSE e \in S : \A d \in S : ~Before(d, e)
Greatest(S) == IF S = {} THEN NULL ELSE CHOOSE e \in S : \A d \in S : ~Before(e, d)

\* Children of the merge: 1 is the memtable, then the tables.
Kids == 1..(1 + Len(tables))
Bs(c) == tables[c - 1]
KidValid(c, st) == IF c = 1 THEN st # NULL ELSE st.block # 0 /\ st.pos # 0
KidKey(c, st) == IF c = 1 THEN st ELSE Bs(c)[st.block].ents[st.pos]
KidSeek(c, st, t) ==
    IF c = 1 THEN Least({e \in mem : ~Before(e, t)}) ELSE TwoLevelSeek(Bs(c), st, t)
KidFirst(c, st) == IF c = 1 THEN Least(mem) ELSE TwoLevelFirst(Bs(c), st)
KidLast(c, st) == IF c = 1 THEN Greatest(mem) ELSE TwoLevelLast(Bs(c), st)
KidNext(c, st) == IF c = 1 THEN Least({e \in mem : Before(st, e)}) ELSE TwoLevelNext(Bs(c), st)
KidPrev(c, st) == IF c = 1 THEN Greatest({e \in mem : Before(e, st)}) ELSE TwoLevelPrev(Bs(c), st)

-----------------------------------------------------------------------------
(* MergingIterator: the children, the current one (0: none), a direction.  *)

NewMergingIterator == [kids |-> <<NULL, Nowhere, Nowhere>>, cur |-> 0, dir |-> "forward"]
MStatus(m) == \A c \in Kids \ {1} : Status(Bs(c), m.kids[c])
KeyOf(m) == KidKey(m.cur, m.kids[m.cur])

\* Ties go to the first child forwards, to the last one backwards.
FindSmallest(kids) ==
    LET S == {c \in Kids : KidValid(c, kids[c])}
    IN  IF S = {} THEN 0
        ELSE Min({c \in S : \A d \in S : ~Before(KidKey(d, kids[d]), KidKey(c, kids[c]))})
FindLargest(kids) ==
    LET S == {c \in Kids : KidValid(c, kids[c])}
    IN  IF S = {} THEN 0
        ELSE Max({c \in S : \A d \in S : ~Before(KidKey(c, kids[c]), KidKey(d, kids[d]))})

Smallest(kids) == [kids |-> kids, cur |-> FindSmallest(kids), dir |-> "forward"]
Largest(kids) == [kids |-> kids, cur |-> FindLargest(kids), dir |-> "reverse"]

MSeekToFirst(m) == Smallest([c \in Kids |-> KidFirst(c, m.kids[c])])
MSeekToLast(m) == Largest([c \in Kids |-> KidLast(c, m.kids[c])])
MSeek(m, t) == Smallest([c \in Kids |-> KidSeek(c, m.kids[c], t)])

\* A child that is not the current one, moved to just after (before) key()
AfterKey(c, st, k) ==
    LET s == KidSeek(c, st, k) IN IF KidValid(c, s) /\ KidKey(c, s) = k THEN KidNext(c, s) ELSE s
BeforeKey(c, st, k) ==
    LET s == KidSeek(c, st, k) IN IF KidValid(c, s) THEN KidPrev(c, s) ELSE KidLast(c, s)

\* mutant: the other children are not repositioned when the direction turns
MNextNoSwitch(m) ==
    Smallest([c \in Kids |-> IF c = m.cur THEN KidNext(c, m.kids[c]) ELSE m.kids[c]])
MNext(m) ==
    Smallest([c \in Kids |->
                IF c = m.cur THEN KidNext(c, m.kids[c])
                ELSE IF m.dir = "forward" THEN m.kids[c] ELSE AfterKey(c, m.kids[c], KeyOf(m))])
MPrev(m) ==
    Largest([c \in Kids |->
               IF c = m.cur THEN KidPrev(c, m.kids[c])
               ELSE IF m.dir = "reverse" THEN m.kids[c] ELSE BeforeKey(c, m.kids[c], KeyOf(m))])

-----------------------------------------------------------------------------
(* DBIter: forwards the merge stands at the entry it shows; backwards it   *)
(* stands before all entries of the key it shows, which is saved.          *)

NewDBIterator == [m |-> NewMergingIterator, dir |-> "forward", valid |-> FALSE, key |-> NULL, value |-> NULL,
                  err |-> FALSE]
CurrentKey(it) == IF it.dir = "forward" THEN KeyOf(it.m).key ELSE it.key
CurrentValue(it) == IF it.dir = "forward" THEN KeyOf(it.m).seq ELSE it.value

Ended(it) == [it EXCEPT !.valid = FALSE, !.key = NULL]
Cleared(it) == [it EXCEPT !.key = NULL, !.value = NULL]

\* ParseKey: an internal key that does not parse is passed over, and leaves
\* status_ an error.
ParseKey(it, e) == [it EXCEPT !.err = @ \/ e.bad]
DBStatus(it) == ~it.err /\ MStatus(it.m)

\* FindNextUserEntry: to the first visible put that is neither the key to
\* skip nor hidden by a deletion.
RECURSIVE FindNextUserEntry(_, _)
FindNextUserEntry(it, skip) ==
    LET e == KeyOf(it.m)
        visible == ~e.bad /\ e.seq <= snap
        m == MNext(it.m)
        passed == [ParseKey(it, e) EXCEPT !.m = m]
    IN  IF visible /\ ~e.del /\ (skip = NULL \/ e.key > skip)
        THEN [it EXCEPT !.valid = TRUE, !.key = NULL]
        ELSE IF m.cur = 0 THEN Ended(passed)
        ELSE FindNextUserEntry(passed, IF visible /\ e.del THEN e.key ELSE skip)

\* FindPrevUserEntry: back over the entries of one key, remembering the last
\* one passed, until the key before it begins; put says it was not a deletion.
RECURSIVE FindPrevUserEntry(_, _)
FindPrevUserEntry(it, put) ==
    LET e == KeyOf(it.m)
        visible == it.m.cur # 0 /\ ~e.bad /\ e.seq <= snap
        saved == IF e.del THEN Cleared(it) ELSE [it EXCEPT !.key = e.key, !.value = e.seq]
        next == IF visible THEN saved ELSE ParseKey(it, e)
    IN  IF it.m.cur = 0 \/ (visible /\ put /\ e.key < it.key)
        THEN IF put THEN [it EXCEPT !.valid = TRUE]
             ELSE [Cleared(it) EXCEPT !.valid = FALSE, !.dir = "forward"]
        ELSE FindPrevUserEntry([next EXCEPT !.m = MPrev(it.m)], IF visible THEN ~e.del ELSE put)

\* The switch to reverse: back until the user key changes.
RECURSIVE BackOverKey(_)
BackOverKey(it) ==
    LET m == MPrev(it.m)
    IN  IF m.cur = 0 THEN [Ended(it) EXCEPT !.m = m, !.value = NULL]
        ELSE IF KeyOf(m).key < it.key THEN FindPrevUserEntry([it EXCEPT !.m = m, !.dir = "reverse"], FALSE)
        ELSE BackOverKey([it EXCEPT !.m = m])

DBNext(it) ==
    LET m == IF it.m.cur = 0 THEN MSeekToFirst(it.m) ELSE MNext(it.m)
        turned == [it EXCEPT !.dir = "forward", !.m = m]
        skip == CurrentKey(it)
    IN  IF it.dir = "forward" THEN FindNextUserEntry([it EXCEPT !.key = skip], skip)
        ELSE IF m.cur = 0 THEN Ended(turned)
        ELSE FindNextUserEntry(turned, skip)

DBPrev(it) ==
    IF it.dir = "reverse" THEN FindPrevUserEntry(it, FALSE)
    ELSE BackOverKey([it EXCEPT !.key = CurrentKey(it)])

Positioned(it) == IF it.m.cur = 0 THEN [it EXCEPT !.valid = FALSE] ELSE FindNextUserEntry(it, NULL)
DBSeek(it, t) ==
    Positioned([it EXCEPT !.dir = "forward", !.value = NULL, !.m = MSeek(@, SeekKey(t, snap))])
DBSeekToFirst(it) == Positioned([it EXCEPT !.dir = "forward", !.value = NULL, !.m = MSeekToFirst(@)])
DBSeekToLast(it) ==
    FindPrevUserEntry([it EXCEPT !.dir = "reverse", !.value = NULL, !.m = MSeekToLast(@)], FALSE)

-----------------------------------------------------------------------------
\* A table: blocks of n entries.  The index key of a block is its last key or
\* (FindShortestSeparator) one between it and the next block.
BlocksOf(S, n, short) ==
    LET ents == Sorted(S, Before)
        count == (Len(ents) + n - 1) \div n
        part(i) == SubSeq(ents, (i - 1) * n + 1, Min({i * n, Len(ents)}))
        sep(i) == LET l == Last(part(i))
                  IN  IF short /\ (i = count \/ ents[i * n + 1].key > l.key + 1)
                      THEN SeekKey(l.key + 1, MaxSeq) ELSE SeekKey(l.key, l.seq)
    IN  [i \in 1..count |-> [ents |-> part(i), sep |-> sep(i), bad |-> FALSE]]

\* At most one block is unreadable, or holds one key that does not parse, and
\* only (a bound) under the newest snapshot and short index keys.
Damages(ts) ==
    LET blocks == {x \in (DOMAIN ts) \X (1..Loaded) : x[2] \in DOMAIN ts[x[1]]}
    IN  {ts} \cup {[ts EXCEPT ![t][i].bad = TRUE] : <<t, i>> \in blocks}
          \cup {[ts EXCEPT ![t][i].ents = [@ EXCEPT ![1].bad = TRUE]] : <<t, i>> \in blocks}

\* The store when NewInternalIterator looks: older entries in a deeper table,
\* then a newer one, then the memtable.
DBIterInit ==
    \E ents \in [1..Loaded -> Key \X BOOLEAN], n \in BlockSizes, short \in BOOLEAN :
    \E a \in 0..Loaded : \E b \in a..Loaded :
      LET E(i) == [key |-> ents[i][1], seq |-> i, del |-> ents[i][2], bad |-> FALSE]
          all == {E(i) : i \in 1..Loaded}
          K(s) == {k \in Key : Found(all, k, s) # {} /\ Value(Found(all, k, s)) # 0}
      IN  /\ mem = {E(i) : i \in (b + 1)..Loaded}
          /\ snap \in 0..Loaded
          /\ LET ts == <<BlocksOf({E(i) : i \in (a + 1)..b}, n, short), BlocksOf({E(i) : i \in 1..a}, n, short)>>
             IN  tables \in IF snap = Loaded /\ short THEN Damages(ts) ELSE {ts}
          /\ data = [k \in K(snap) |-> Value(Found(all, k, snap))]
          /\ op = "new" /\ iter = NewDBIterator

Newest == Max({0} \cup {e.seq : e \in mem})

\* A write while the iterator lives: a newer entry of the same memtable.
Write(k, del) ==
    LET s == Max({Loaded, Newest}) + 1
    IN  /\ s <= Loaded + MaxWrites
        /\ mem' = mem \cup {[key |-> k, seq |-> s, del |-> del, bad |-> FALSE]}
        /\ UNCHANGED <<tables, snap, iter, op, data>>

Call(name, it) == op' = name /\ iter' = it /\ UNCHANGED <<mem, tables, snap, data>>

DBIterNext ==
    \/ Call("first", DBSeekToFirst(iter)) \/ Call("last", DBSeekToLast(iter))
    \/ \E t \in Key : Call("seek", DBSeek(iter, t))
    \/ iter.valid /\ (Call("next", DBNext(iter)) \/ Call("prev", DBPrev(iter)))
    \/ \E k \in Key, del \in BOOLEAN : Write(k, del)

DBIterSpec == DBIterInit /\ [][DBIterNext]_iVars

-----------------------------------------------------------------------------
\* The current child is valid, and an iterator that says Valid() has an entry
\* to show (the asserts of key() and value() in every layer).
DBIterTypeOK ==
    /\ iter.m.cur \in {0} \cup Kids
    /\ iter.m.cur # 0 => KidValid(iter.m.cur, iter.m.kids[iter.m.cur])
    /\ iter.valid /\ iter.dir = "forward" => iter.m.cur # 0
    /\ iter.valid /\ iter.dir = "reverse" => iter.key # NULL

At == IF iter.valid THEN <<CurrentKey(iter), CurrentValue(iter)>> ELSE NULL
Snapshot == INSTANCE Cursor WITH at <- At, ok <- DBStatus(iter)
\* The tower is a cursor over the snapshot it was made at: after any sequence
\* of calls, with turns of direction, deletions, overwrites, blocks without
\* the key sought, and writes that land under it, it shows what a cursor over
\* the snapshot's sorted map would; where an unreadable block or key makes it show
\* something else, status() is an error from that call on.
ImplementsCursor == Snapshot!CursorSpec
=============================================================================
