------------------------------ MODULE SkipList ------------------------------
(***************************************************************************)
(* LevelDB's memtable: a skip list that one writer grows while readers     *)
(* walk it without a lock.  The writer stores a new node level by level,   *)
(* its own pointer first and then the one that publishes it; a reader      *)
(* loads one pointer at a time.  max_height_ is read without a barrier, so *)
(* a reader starts from any height that was ever stored.                   *)
(*                                                                         *)
(* Entries are the nodes.  The writer is the front of the writers' queue   *)
(* (DBImpl::Write), which makes an entry's sequence number readable        *)
(* (SetLastSequence) only once the entry is in the list.                   *)
(***************************************************************************)
EXTENDS DBFormat

CONSTANTS
    SkipKey,        \* user keys
    SkipReader,     \* reading threads
    SkipMaxHeight,  \* kMaxHeight
    MaxInserts,
    HeadNode, Nil, Garbage   \* head_, NULL, a pointer never stored to

SkipEntry == [key : SkipKey, seq : 1..MaxInserts, del : BOOLEAN]

ASSUME SkipListAssumption ==
    /\ SkipKey \subseteq Int /\ SkipMaxHeight \in Nat \ {0} /\ MaxInserts \in Nat
    /\ SkipEntry \cap {HeadNode, Nil, Garbage} = {}
    /\ HeadNode # Nil /\ HeadNode # Garbage /\ Nil # Garbage

VARIABLES
    next,       \* next_ by level (from 1) and node
    heights,    \* every value max_height_ has had
    inserting,  \* the Insert under way: entry, height, prev, the level being linked, what it stored
    lastSeq,    \* LastSequence
    reading     \* by reader: its call, where it stands, and what the list held when it began
skipVars == <<next, heights, inserting, lastSeq, reading>>

SkipLevel == 1..SkipMaxHeight
MaxHeight == CHOOSE h \in heights : \A g \in heights : g <= h
Linked == {next[1][n] : n \in DOMAIN next[1]} \ {Nil, Garbage}   \* entries a reader can reach
IdleInsert == [pc |-> "idle"]
NoCall == [op |-> "none", busy |-> FALSE, node |-> Nil]

SkipInit ==
    /\ next = [l \in SkipLevel |-> [n \in {HeadNode} |-> Nil]]
    /\ heights = {1} /\ inserting = IdleInsert /\ lastSeq = 0
    /\ reading = [r \in SkipReader |-> NoCall]

-----------------------------------------------------------------------------
(* The writer *)

KeyIsAfterNode(e, n) == n # Nil /\ Before(n, e)

\* FindGreaterOrEqual's prev: at each level the last node before e (nothing
\* else changes the list meanwhile).
NodesBefore(e, l) == {n \in DOMAIN next[l] : n = HeadNode \/ Before(n, e)}
PrevAt(e, l) ==
    CHOOSE n \in NodesBefore(e, l) : \A p \in NodesBefore(e, l) : p = HeadNode \/ p = n \/ (n # HeadNode /\ Before(p, n))

\* RandomHeight: one more level as long as a draw of 1 in kBranching succeeds.
RandomHeight == 1..SkipMaxHeight

\* A new node at one level; its pointer is not stored yet.
NewNode(list, e) == [n \in DOMAIN list \cup {e} |-> IF n = e THEN Garbage ELSE list[n]]

\* Insert: find the predecessors, draw a height, raise max_height_, make the
\* node.
InsertBegin(e, height) ==
    /\ inserting.pc = "idle" /\ e.seq <= MaxInserts
    /\ inserting' = [pc |-> "own", entry |-> e, height |-> height, level |-> 1,
                     prev |-> [l \in 1..height |-> PrevAt(e, l)]]
    /\ heights' = IF height > MaxHeight THEN heights \cup {height} ELSE heights
    /\ next' = [l \in SkipLevel |-> IF l <= height THEN NewNode(next[l], e) ELSE next[l]]
    /\ UNCHANGED <<lastSeq, reading>>

\* mutant: the node is published before its own pointer is stored
SetOwnLate ==
    LET l == inserting.level
    IN  /\ inserting.pc = "own"
        /\ next' = [next EXCEPT ![l][inserting.prev[l]] = inserting.entry]
        /\ inserting' = [inserting EXCEPT !.pc = "publish"]
        /\ UNCHANGED <<heights, lastSeq, reading>>
\* x->NoBarrier_SetNext(i, prev[i]->NoBarrier_Next(i)); prev[i]->SetNext(i, x)
SetOwn ==
    LET l == inserting.level
    IN  /\ inserting.pc = "own"
        /\ next' = [next EXCEPT ![l][inserting.entry] = next[l][inserting.prev[l]]]
        /\ inserting' = [inserting EXCEPT !.pc = "publish"]
        /\ UNCHANGED <<heights, lastSeq, reading>>
Linking(l) == [inserting EXCEPT !.pc = IF l = inserting.height THEN "inserted" ELSE "own", !.level = l + 1]
Publish ==
    LET l == inserting.level
    IN  /\ inserting.pc = "publish"
        /\ next' = [next EXCEPT ![l][inserting.prev[l]] = inserting.entry]
        /\ inserting' = Linking(l)
        /\ UNCHANGED <<heights, lastSeq, reading>>

SetLastSequence ==
    /\ inserting.pc = "inserted"
    /\ lastSeq' = inserting.entry.seq /\ inserting' = IdleInsert
    /\ UNCHANGED <<next, heights, reading>>

-----------------------------------------------------------------------------
(* The readers: a call of the Iterator, or MemTable::Get at a snapshot *)

Started(r, op, target, at, level) ==
    /\ ~reading[r].busy
    /\ reading' = [reading EXCEPT ![r] = [op |-> op, busy |-> TRUE, node |-> reading[r].node, target |-> target,
                                          at |-> at, level |-> level, seen |-> Linked]]
    /\ UNCHANGED <<next, heights, inserting, lastSeq>>

\* GetMaxHeight may be stale.
Search(r, op, target) == \E h \in heights : Started(r, op, target, HeadNode, h)
SkipSeek(r, t) == Search(r, "seek", t)
SkipSeekToLast(r) == Search(r, "last", Nil)
SkipPrev(r) == reading[r].node # Nil /\ Search(r, "prev", reading[r].node)
MemTableGet(r, k) == lastSeq > 0 /\ Search(r, "get", [key |-> k, seq |-> lastSeq])
SkipSeekToFirst(r) == Started(r, "first", Nil, HeadNode, 1)
SkipNext(r) == reading[r].node # Nil /\ Started(r, "next", reading[r].node, reading[r].node, 1)

\* One round of the loop of FindGreaterOrEqual, FindLessThan or FindLast: one
\* load of a pointer.  FindLessThan and FindLast return the node it stands at,
\* head_ as NULL.
Advances(c, n) == CASE c.op = "last" -> n # Nil
                    [] c.op \in {"seek", "prev", "get"} -> KeyIsAfterNode(c.target, n)
                    [] OTHER -> FALSE
LoadStep(c, n) ==
    IF Advances(c, n) THEN [c EXCEPT !.at = n]
    ELSE IF c.level > 1 THEN [c EXCEPT !.level = @ - 1]
    ELSE [c EXCEPT !.busy = FALSE,
                   !.node = IF c.op \in {"prev", "last"} THEN (IF c.at = HeadNode THEN Nil ELSE c.at) ELSE n]
Load(r) ==
    LET c == reading[r]
    IN  /\ c.busy /\ next[c.level][c.at] # Garbage
        /\ reading' = [reading EXCEPT ![r] = LoadStep(c, next[c.level][c.at])]
        /\ UNCHANGED <<next, heights, inserting, lastSeq>>

SkipStep ==
    \/ \E k \in SkipKey, del \in BOOLEAN, h \in RandomHeight : InsertBegin([key |-> k, seq |-> lastSeq + 1, del |-> del], h)
    \/ SetOwn \/ Publish \/ SetLastSequence
    \/ \E r \in SkipReader :
         \/ \E k \in SkipKey : SkipSeek(r, [key |-> k, seq |-> MaxInserts]) \/ MemTableGet(r, k)
         \/ SkipSeekToFirst(r) \/ SkipSeekToLast(r) \/ SkipNext(r) \/ SkipPrev(r) \/ Load(r)

SkipSpec == SkipInit /\ [][SkipStep]_skipVars

-----------------------------------------------------------------------------
(* Properties *)

\* The bottom list holds every inserted entry once and in order, and each
\* level is a part of the one below, at every moment of an Insert; a reader
\* never loads a pointer that was not stored.
SkipTypeOK ==
    /\ \A l \in SkipLevel : \A n \in DOMAIN next[l] :
         LET m == next[l][n]
         IN  /\ m \in {Nil, Garbage} \/ (m \in Linked /\ m \in DOMAIN next[l] /\ (n = HeadNode \/ Before(n, m)))
             /\ m = Garbage => inserting.pc \in {"own", "publish"} /\ n = inserting.entry
    /\ \A r \in SkipReader : reading[r].busy => next[reading[r].level][reading[r].at] # Garbage

\* An entry that the search c should have found instead of what it found.
Between(c, e) ==
    LET after == c.node = Nil \/ Before(e, c.node)
        before == c.node = Nil \/ Before(c.node, e)
    IN  CASE c.op \in {"seek", "get"} -> ~Before(e, c.target) /\ after
          [] c.op = "next" -> Before(c.target, e) /\ after
          [] c.op = "first" -> after
          [] c.op = "prev" -> Before(e, c.target) /\ before
          [] c.op = "last" -> before

\* A finished search is exact about all that was in the list when it began,
\* however many entries were linked while it walked and from whatever height
\* it started: nothing of that lies between what was asked and what was found.
SearchExact ==
    \A r \in SkipReader :
      LET c == reading[r]
      IN  c.op # "none" /\ ~c.busy =>
            /\ c.node # Nil => c.node \in Linked
            /\ \A e \in c.seen : ~Between(c, e)

\* MemTable::Get, checking only the user key of the entry the search stops at,
\* returns what the snapshot holds of the key: nothing newer, nothing missed.
MemTableGetExact ==
    \A r \in SkipReader :
      LET c == reading[r]
          held == Found(Linked, c.target.key, c.target.seq)
          hit == c.node # Nil /\ c.node.key = c.target.key
      IN  c.op = "get" /\ ~c.busy =>
            IF held = {} THEN ~hit ELSE hit /\ Value({c.node}) = Value(held)

\* The memtable under one writer and readers without a lock: its lists are
\* sound at every step and every search and lookup is exact.
SkipListExact == SkipTypeOK /\ SearchExact /\ MemTableGetExact
=============================================================================
