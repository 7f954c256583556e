--------------------------- MODULE SkipListProofs ---------------------------
(***************************************************************************)
(* Proofs about a memtable.  SkipList: a search without a lock is exact,   *)
(* whatever the writer links meanwhile, for any keys, heights, readers and *)
(* inserts.  Arena: its objects never overlap, for any sizes and calls.    *)
(***************************************************************************)
EXTENDS SkipList, Arena, SeqLemmas, FiniteSetTheorems

-----------------------------------------------------------------------------
(* The order of the entries *)

\* What internal keys are compared by.
Point(p) == p.key \in Int /\ p.seq \in Int

\* Before is a strict order that leaves no gap, and it is total on entries of
\* different sequence numbers.
LEMMA BeforeOrder ==
    ASSUME NEW a, NEW b, NEW c, Point(a), Point(b), Point(c)
    PROVE  /\ ~Before(a, a)
           /\ Before(a, b) => ~Before(b, a)
           /\ Before(a, b) /\ Before(b, c) => Before(a, c)
           /\ Before(a, c) => Before(a, b) \/ Before(b, c)
           /\ a.seq # b.seq => Before(a, b) \/ Before(b, a)
  BY DEF Point, Before

\* A set of entries that Before puts in order.
Chain(E) ==
    /\ \A a \in E : Point(a) /\ a # HeadNode /\ a # Nil
    /\ \A a, b \in E : a = b \/ Before(a, b) \/ Before(b, a)

Follows(n, e) == n = HeadNode \/ Before(n, e)

\* m is the first of E after n, Nil if there is none.
FirstAfter(E, n, m) ==
    /\ m = Nil \/ (m \in E /\ Follows(n, m))
    /\ \A k \in E : Follows(n, k) => m # Nil /\ (k = m \/ Before(m, k))

\* n is head_ or the last of E before e.
LastBefore(E, n, e) ==
    /\ n \in E \cup {HeadNode} /\ Follows(n, e)
    /\ \A k \in E : Before(k, e) => k = n \/ (n # HeadNode /\ Before(k, n))

\* In a chain, as a relation.
LEMMA ChainOrder ==
    ASSUME NEW E, Chain(E)
    PROVE  /\ \A a \in E : ~Before(a, a)
           /\ \A a, b \in E : Before(a, b) => ~Before(b, a)
           /\ \A a, b, c \in E : Before(a, b) /\ Before(b, c) => Before(a, c)
           /\ \A a, b \in E : a = b \/ Before(a, b) \/ Before(b, a)
  BY BeforeOrder DEF Chain

\* A new entry leads to what its predecessor led to.
LEMMA NewLeads ==
    ASSUME NEW E, NEW e, Chain(E \cup {e}), e \notin E,
           NEW p, LastBefore(E, p, e), NEW m, FirstAfter(E, p, m)
    PROVE  FirstAfter(E \cup {e}, p, e) /\ FirstAfter(E \cup {e}, e, m)
  <1> DEFINE F == E \cup {e}
  <1>1. /\ \A a \in F : ~Before(a, a) /\ a # HeadNode /\ a # Nil
        /\ \A a, b \in F : Before(a, b) => ~Before(b, a)
        /\ \A a, b, c \in F : Before(a, b) /\ Before(b, c) => Before(a, c)
        /\ \A a, b \in F : a = b \/ Before(a, b) \/ Before(b, a)
    BY ChainOrder DEF Chain
  <1>2. \A k \in E : Follows(p, k) => Before(e, k)
    BY <1>1 DEF LastBefore, Follows
  <1>3. FirstAfter(F, p, e)
    BY <1>1, <1>2 DEF LastBefore, FirstAfter
  <1>4. \A k \in E : Before(e, k) => Follows(p, k)
    BY <1>1 DEF LastBefore, Follows
  <1>5. FirstAfter(F, e, m)
    BY <1>1, <1>2, <1>4 DEF FirstAfter, Follows
  <1> QED
    BY <1>3, <1>5

\* The other entries lead where they led.
LEMMA OthersLead ==
    ASSUME NEW E, NEW e, Chain(E \cup {e}), e \notin E,
           NEW p, LastBefore(E, p, e),
           NEW n \in E \cup {HeadNode}, n # p, NEW m, FirstAfter(E, n, m)
    PROVE  FirstAfter(E \cup {e}, n, m)
  <1> DEFINE F == E \cup {e}
  <1>1. /\ \A a \in F : ~Before(a, a) /\ a # HeadNode /\ a # Nil
        /\ \A a, b \in F : Before(a, b) => ~Before(b, a)
        /\ \A a, b, c \in F : Before(a, b) /\ Before(b, c) => Before(a, c)
        /\ \A a, b \in F : a = b \/ Before(a, b) \/ Before(b, a)
    BY ChainOrder DEF Chain
  <1>2. ASSUME Follows(n, e)
        PROVE  m # Nil /\ Before(m, e)
    <2>1. p \in E /\ Follows(n, p)
      BY <1>1, <1>2 DEF LastBefore, Follows
    <2>2. m # Nil /\ m \in E /\ (p = m \/ Before(m, p))
      BY <2>1 DEF FirstAfter
    <2>3. Before(p, e)
      BY <2>1, <1>1 DEF LastBefore, Follows
    <2> QED
      BY <1>1, <2>1, <2>2, <2>3
  <1> QED
    BY <1>2 DEF FirstAfter

\* A chain that is finite and not empty has a last entry.
LEMMA LastOfChain ==
    ASSUME NEW E, Chain(E), IsFiniteSet(E), E # {}
    PROVE  \E n \in E : \A k \in E : k = n \/ Before(k, n)
  <1> DEFINE After(n) == {k \in E : Before(n, k)}
             Sizes == {Cardinality(After(n)) : n \in E}
  <1>1. \A n \in E : IsFiniteSet(After(n)) /\ Cardinality(After(n)) \in Nat
    BY FS_Subset, FS_CardinalityType
  <1>2. PICK s \in Sizes : \A t \in Sizes : s <= t
    <2>1. Sizes \in SUBSET Nat /\ Sizes # {}
      BY <1>1
    <2> HIDE DEF Sizes
    <2> QED
      BY <2>1, LeastNumber
  <1>3. PICK n \in E : s = Cardinality(After(n))
    BY <1>2
  <1>4. ASSUME NEW k \in E, Before(n, k)
        PROVE  FALSE
    <2>1. After(k) \subseteq After(n) /\ k \in After(n) /\ k \notin After(k)
      BY <1>4, ChainOrder
    <2>2. Cardinality(After(k)) < Cardinality(After(n))
      <3> HIDE DEF After
      <3>1. Cardinality(After(k)) <= Cardinality(After(n))
        BY <1>1, <2>1, FS_Subset
      <3>2. Cardinality(After(k)) # Cardinality(After(n))
        BY <1>1, <2>1, FS_Subset
      <3> QED
        BY <1>1, <3>1, <3>2
    <2>3. Cardinality(After(k)) \in Sizes
      OBVIOUS
    <2> HIDE DEF Sizes, After
    <2>4. Cardinality(After(n)) <= Cardinality(After(k))
      BY <1>2, <1>3, <2>3
    <2> QED
      BY <1>1, <2>2, <2>4
  <1> QED
    BY <1>4, ChainOrder

-----------------------------------------------------------------------------
(* The inductive invariant *)

\* The node under way is not linked at this level yet.
Pending(l) == inserting.pc \in {"own", "publish"} /\ inserting.level <= l /\ l <= inserting.height

\* head_ and the entries that level l leads through.
Live(l) == {n \in DOMAIN next[l] : ~(Pending(l) /\ n = inserting.entry)}
Entries(l) == Live(l) \ {HeadNode}
Nodes == DOMAIN next[1] \ {HeadNode}

\* Sequence numbers tell the nodes apart; only the node under way has one that
\* is not readable yet.
NodesInv ==
    /\ DOMAIN next = SkipLevel
    /\ \A l \in SkipLevel : /\ HeadNode \in DOMAIN next[l] /\ IsFiniteSet(DOMAIN next[l])
                            /\ DOMAIN next[l] \subseteq DOMAIN next[1]
    /\ Nodes \subseteq SkipEntry
    /\ \A a, b \in Nodes : a.seq = b.seq => a = b
    /\ lastSeq \in Nat
    /\ \A a \in Nodes : a.seq <= lastSeq \/ (inserting.pc # "idle" /\ a = inserting.entry)

\* Each level is a sorted list and a part of the one below; the bottom one
\* leads to every entry.
ListInv ==
    /\ \A l \in SkipLevel : \A n \in Live(l) : FirstAfter(Entries(l), n, next[l][n])
    /\ \A i, j \in SkipLevel : i <= j => Live(j) \subseteq Live(i)
    /\ \A e \in Entries(1) : \E n \in Live(1) : next[1][n] = e

\* Where the node under way is linked, and where it will be.
PendingAt(l) ==
    /\ LastBefore(Entries(l), inserting.prev[l], inserting.entry)
    /\ next[l][inserting.entry] = IF l = inserting.level /\ inserting.pc = "publish"
                                  THEN next[l][inserting.prev[l]] ELSE Garbage
InsertInv ==
    \/ inserting = IdleInsert
    \/ /\ DOMAIN inserting = {"pc", "entry", "height", "level", "prev"}
       /\ inserting.pc \in {"own", "publish", "inserted"} /\ inserting.height \in SkipLevel
       /\ inserting.level \in Nat \ {0}
       /\ inserting.pc # "inserted" => inserting.level <= inserting.height
       /\ inserting.entry \in SkipEntry /\ inserting.entry.seq = lastSeq + 1
       /\ \A l \in 1 .. inserting.height : inserting.entry \in DOMAIN next[l]
       /\ \A l \in SkipLevel : Pending(l) => PendingAt(l)

HeightsInv == heights \subseteq SkipLevel /\ 1 \in heights

\* A call stands at a linked node before what it looks for, and every entry of
\* the list it began with is still linked.
CallInv(c) ==
    /\ DOMAIN c = {"op", "busy", "node", "target", "at", "level", "seen"}
    /\ c.op \in {"seek", "prev", "get", "last", "first", "next"}
    /\ c.busy \in BOOLEAN
    /\ c.seen \subseteq Entries(1)
    /\ c.node = Nil \/ c.node \in Entries(1)
    /\ c.level \in SkipLevel /\ c.at \in Live(c.level)
    /\ c.op \in {"seek", "prev", "get"} => Point(c.target) /\ Follows(c.at, c.target)
    /\ c.op = "next" => c.at = c.target /\ c.level = 1 /\ c.at # HeadNode
    /\ c.op = "first" => c.at = HeadNode /\ c.level = 1
    /\ c.op = "get" => /\ c.target.seq <= lastSeq
                       /\ \A e \in Nodes : e.seq <= c.target.seq => e \in c.seen
                       /\ ~c.busy => c.node = Nil \/ ~Before(c.node, c.target)
    /\ ~c.busy => \A e \in c.seen : ~Between(c, e)
ReadersInv == \A r \in SkipReader : reading[r] = NoCall \/ CallInv(reading[r])

SkipInv == NodesInv /\ ListInv /\ InsertInv /\ HeightsInv /\ ReadersInv /\ DOMAIN reading = SkipReader

\* Level 1 is the bottom one.
LEMMA Levels == SkipLevel \subseteq Nat \ {0} /\ 1 \in SkipLevel
  BY SkipListAssumption DEF SkipLevel

\* An entry is compared by its key and sequence number, and is no mark.
LEMMA EntryIsPoint ==
    ASSUME NEW e \in SkipEntry
    PROVE  Point(e) /\ e # HeadNode /\ e # Nil /\ e # Garbage
  <1>1. e.key \in Int /\ e.seq \in Int
    <2>1. e.key \in SkipKey /\ e.seq \in 1 .. MaxInserts
      BY DEF SkipEntry
    <2>2. SkipKey \subseteq Int
      BY SkipListAssumption
    <2>3. 1 .. MaxInserts \subseteq Int
      OBVIOUS
    <2> QED
      BY <2>1, <2>2, <2>3
  <1>2. e \notin {HeadNode, Nil, Garbage}
    BY SkipListAssumption
  <1> QED
    BY <1>1, <1>2 DEF Point

\* The nodes are a chain, and so are the entries of each level.
LEMMA NodesChain ==
    NodesInv => /\ Chain(Nodes)
                /\ \A l \in SkipLevel : Chain(Entries(l)) /\ Entries(l) \subseteq Nodes /\ IsFiniteSet(Entries(l))
  <1> SUFFICES ASSUME NodesInv
               PROVE  /\ Chain(Nodes)
                      /\ \A l \in SkipLevel : Chain(Entries(l)) /\ Entries(l) \subseteq Nodes /\ IsFiniteSet(Entries(l))
    OBVIOUS
  <1>1. \A a \in Nodes : Point(a) /\ a # HeadNode /\ a # Nil
    BY EntryIsPoint DEF NodesInv
  <1>2. \A a, b \in Nodes : a = b \/ Before(a, b) \/ Before(b, a)
    BY <1>1, BeforeOrder DEF NodesInv
  <1>3. Chain(Nodes)
    BY <1>1, <1>2 DEF Chain
  <1>4. ASSUME NEW l \in SkipLevel
        PROVE  Entries(l) \subseteq Nodes /\ Entries(l) \subseteq DOMAIN next[l]
    BY DEF NodesInv, Entries, Live, Nodes
  <1>5. ASSUME NEW l \in SkipLevel
        PROVE  IsFiniteSet(Entries(l))
    BY <1>4, FS_Subset DEF NodesInv
  <1>6. ASSUME NEW l \in SkipLevel
        PROVE  Chain(Entries(l))
    BY <1>3, <1>4 DEF Chain
  <1> QED
    BY <1>3, <1>4, <1>5, <1>6

\* Every level starts at head_, and its entries are nodes of the bottom list.
LEMMA LiveParts ==
    NodesInv /\ InsertInv => \A l \in SkipLevel : Live(l) = Entries(l) \cup {HeadNode}
  <1> SUFFICES ASSUME NodesInv, InsertInv, NEW l \in SkipLevel
               PROVE  HeadNode \in Live(l)
    BY DEF Entries
  <1>1. HeadNode \in DOMAIN next[l]
    BY DEF NodesInv
  <1>2. CASE inserting = IdleInsert
    BY <1>1, <1>2 DEF Live, Pending, IdleInsert
  <1>3. CASE inserting.entry \in SkipEntry
    BY <1>1, <1>3, SkipListAssumption DEF Live
  <1> QED
    BY <1>2, <1>3 DEF InsertInv

\* FindGreaterOrEqual's prev is the last node before the new entry.
LEMMA PrevIsLast ==
    ASSUME NodesInv, ListInv, inserting = IdleInsert, NEW l \in SkipLevel,
           NEW e, Point(e)
    PROVE  LastBefore(Entries(l), PrevAt(e, l), e)
  <1> DEFINE E == {n \in Entries(l) : Before(n, e)}
  <1>1. Live(l) = DOMAIN next[l] /\ Live(l) = Entries(l) \cup {HeadNode}
    BY LiveParts DEF InsertInv, Live, Pending, IdleInsert
  <1>2. NodesBefore(e, l) = E \cup {HeadNode}
    BY <1>1 DEF NodesBefore, Entries
  <1>3. Chain(E) /\ IsFiniteSet(E)
    BY NodesChain, FS_Subset DEF Chain
  <1>4. \A a \in E : a \in Entries(l) /\ Before(a, e)
    OBVIOUS
  <1>5. \A a \in Entries(l) : Before(a, e) => a \in E
    OBVIOUS
  <1> HIDE DEF E
  <1>6. \E n \in E \cup {HeadNode} : \A p \in E \cup {HeadNode} : p = HeadNode \/ p = n \/ (n # HeadNode /\ Before(p, n))
    <2>1. CASE E = {}
      BY <2>1
    <2>2. CASE E # {}
      <3>1. PICK n \in E : \A k \in E : k = n \/ Before(k, n)
        BY <1>3, <2>2, LastOfChain
      <3>2. n # HeadNode
        BY <1>3, <3>1 DEF Chain
      <3> QED
        BY <3>1, <3>2
    <2> QED
      BY <2>1, <2>2
  <1>7. /\ PrevAt(e, l) \in E \cup {HeadNode}
        /\ \A p \in E \cup {HeadNode} : p = HeadNode \/ p = PrevAt(e, l) \/ (PrevAt(e, l) # HeadNode /\ Before(p, PrevAt(e, l)))
    BY <1>2, <1>6 DEF PrevAt
  <1>8. \A a \in E : a # HeadNode
    BY <1>3 DEF Chain
  <1> QED
    BY <1>4, <1>5, <1>7, <1>8 DEF LastBefore, Follows

\* The lists do not move when what they lead through and where stays.
LEMMA ListUnmoved ==
    ASSUME ListInv,
           \A l \in SkipLevel : Live(l)' = Live(l) /\ \A n \in Live(l) : next'[l][n] = next[l][n]
    PROVE  ListInv'
  <1>1. \A l \in SkipLevel : Entries(l)' = Entries(l)
    BY DEF Entries
  <1>2. 1 \in SkipLevel
    BY Levels
  <1>3. ASSUME NEW l \in SkipLevel, NEW n \in Live(l)'
        PROVE  FirstAfter(Entries(l), n, next[l][n])'
    BY <1>1, <1>3 DEF ListInv, FirstAfter, Follows
  <1>4. \A i, j \in SkipLevel : i <= j => Live(j)' \subseteq Live(i)'
    BY DEF ListInv
  <1>5. \A e \in Entries(1)' : \E n \in Live(1)' : next'[1][n] = e
    BY <1>1, <1>2 DEF ListInv
  <1> QED
    BY <1>3, <1>4, <1>5 DEF ListInv

-----------------------------------------------------------------------------
(* The writer's steps *)

\* A new entry is on no list yet.
LEMMA FreshEntry ==
    ASSUME NodesInv, inserting = IdleInsert, NEW e \in SkipEntry, e.seq = lastSeq + 1
    PROVE  /\ \A l \in SkipLevel : e \notin DOMAIN next[l]
           /\ \A a \in Nodes : a.seq # e.seq
  <1>1. \A a \in Nodes : a.seq \in Int /\ a.seq <= lastSeq
    BY EntryIsPoint DEF NodesInv, IdleInsert, Point
  <1>2. \A a \in Nodes : a.seq # e.seq
    BY <1>1 DEF NodesInv
  <1>3. \A l \in SkipLevel : e \notin DOMAIN next[l]
    BY <1>2, EntryIsPoint DEF NodesInv, Nodes
  <1> QED
    BY <1>2, <1>3

\* A new node is not linked, and no list moves.
LEMMA BeginUnmoved ==
    ASSUME NodesInv, inserting = IdleInsert, NEW e \in SkipEntry, e.seq = lastSeq + 1,
           NEW h \in RandomHeight, InsertBegin(e, h)
    PROVE  /\ DOMAIN next' = SkipLevel
           /\ inserting'.pc = "own" /\ inserting'.entry = e /\ inserting'.height = h /\ inserting'.level = 1
           /\ \A l \in SkipLevel : DOMAIN next'[l] = IF l <= h THEN DOMAIN next[l] \cup {e} ELSE DOMAIN next[l]
           /\ \A l \in SkipLevel : Live(l)' = Live(l) /\ \A n \in Live(l) : next'[l][n] = next[l][n]
           /\ \A l \in 1 .. h : next'[l][e] = Garbage /\ inserting'.prev[l] = PrevAt(e, l)
           /\ \A l \in SkipLevel : Pending(l)' <=> l <= h
  <1>1. /\ DOMAIN next' = SkipLevel
        /\ \A l \in SkipLevel : next'[l] = IF l <= h THEN NewNode(next[l], e) ELSE next[l]
    BY DEF InsertBegin
  <1>2. inserting' = [pc |-> "own", entry |-> e, height |-> h, level |-> 1,
                      prev |-> [l \in 1 .. h |-> PrevAt(e, l)]]
    BY DEF InsertBegin
  <1>3. inserting'.pc = "own" /\ inserting'.entry = e /\ inserting'.height = h /\ inserting'.level = 1
    BY <1>2
  <1>4. \A l \in 1 .. h : inserting'.prev[l] = PrevAt(e, l)
    BY <1>2
  <1>5. \A l \in SkipLevel : DOMAIN next'[l] = IF l <= h THEN DOMAIN next[l] \cup {e} ELSE DOMAIN next[l]
    BY <1>1 DEF NewNode
  <1>6. \A l \in SkipLevel : Pending(l)' <=> l <= h
    BY <1>3, Levels DEF Pending
  <1>7. \A l \in SkipLevel : Live(l) = DOMAIN next[l]
    BY DEF Live, Pending, IdleInsert
  <1>8. \A l \in SkipLevel : e \notin DOMAIN next[l]
    BY FreshEntry
  <1>9. \A l \in SkipLevel : Live(l)' = Live(l)
    <2> SUFFICES ASSUME NEW l \in SkipLevel
                 PROVE  Live(l)' = Live(l)
      OBVIOUS
    <2>1. Live(l)' = {n \in DOMAIN next'[l] : ~(Pending(l)' /\ n = e)}
      BY <1>3 DEF Live
    <2>2. CASE l <= h
      <3>1. Pending(l)' /\ DOMAIN next'[l] = DOMAIN next[l] \cup {e}
        BY <2>2, <1>5, <1>6
      <3> QED
        BY <2>1, <3>1, <1>7, <1>8
    <2>3. CASE ~(l <= h)
      <3>1. ~Pending(l)' /\ DOMAIN next'[l] = DOMAIN next[l]
        BY <2>3, <1>5, <1>6
      <3> QED
        BY <2>1, <3>1, <1>7
    <2> QED
      BY <2>2, <2>3
  <1>10. \A l \in SkipLevel : \A n \in Live(l) : next'[l][n] = next[l][n]
    BY <1>1, <1>7, <1>8 DEF NewNode
  <1>11. 1 .. h \subseteq SkipLevel
    BY SkipListAssumption DEF RandomHeight, SkipLevel
  <1>12. \A l \in 1 .. h : next'[l][e] = Garbage
    <2> SUFFICES ASSUME NEW l \in 1 .. h
                 PROVE  next'[l][e] = Garbage
      OBVIOUS
    <2>1. l \in SkipLevel /\ l <= h
      BY <1>11
    <2> QED
      BY <1>1, <2>1 DEF NewNode
  <1> QED
    BY <1>1, <1>3, <1>4, <1>5, <1>6, <1>9, <1>10, <1>12

\* InsertBegin keeps the nodes apart.
LEMMA BeginNodes ==
    ASSUME NodesInv, inserting = IdleInsert, NEW e \in SkipEntry, e.seq = lastSeq + 1,
           NEW h \in RandomHeight, InsertBegin(e, h)
    PROVE  NodesInv' /\ Nodes' = Nodes \cup {e}
  <1>1. /\ DOMAIN next' = SkipLevel
        /\ \A l \in SkipLevel : DOMAIN next'[l] = IF l <= h THEN DOMAIN next[l] \cup {e} ELSE DOMAIN next[l]
        /\ inserting'.pc = "own" /\ inserting'.entry = e
    BY BeginUnmoved
  <1>2. 1 \in SkipLevel /\ 1 <= h
    BY Levels DEF RandomHeight
  <1>3. DOMAIN next'[1] = DOMAIN next[1] \cup {e}
    BY <1>1, <1>2
  <1>4. e # HeadNode
    BY EntryIsPoint
  <1>5. Nodes' = Nodes \cup {e}
    BY <1>3, <1>4 DEF Nodes
  <1>6. ASSUME NEW l \in SkipLevel
        PROVE  /\ HeadNode \in DOMAIN next'[l] /\ IsFiniteSet(DOMAIN next'[l])
               /\ DOMAIN next'[l] \subseteq DOMAIN next'[1]
    <2>1. /\ HeadNode \in DOMAIN next[l] /\ IsFiniteSet(DOMAIN next[l])
          /\ DOMAIN next[l] \subseteq DOMAIN next[1]
      BY DEF NodesInv
    <2>2. IsFiniteSet(DOMAIN next[l] \cup {e})
      BY <2>1, FS_AddElement
    <2> QED
      BY <1>1, <1>3, <2>1, <2>2
  <1>7. \A a, b \in Nodes' : a.seq = b.seq => a = b
    BY <1>5, FreshEntry DEF NodesInv
  <1>8. lastSeq' = lastSeq
    BY DEF InsertBegin
  <1>9. \A a \in Nodes' : a.seq <= lastSeq' \/ (inserting'.pc # "idle" /\ a = inserting'.entry)
    BY <1>1, <1>5, <1>8 DEF NodesInv, IdleInsert
  <1> QED
    BY <1>1, <1>5, <1>6, <1>7, <1>8, <1>9 DEF NodesInv

\* InsertBegin finds where the entry goes at every level of its height.
LEMMA BeginInsert ==
    ASSUME NodesInv, ListInv, inserting = IdleInsert, NEW e \in SkipEntry, e.seq = lastSeq + 1,
           NEW h \in RandomHeight, InsertBegin(e, h)
    PROVE  ListInv' /\ InsertInv'
  <1>1. /\ DOMAIN next' = SkipLevel
        /\ inserting'.pc = "own" /\ inserting'.entry = e /\ inserting'.height = h /\ inserting'.level = 1
        /\ \A l \in SkipLevel : DOMAIN next'[l] = IF l <= h THEN DOMAIN next[l] \cup {e} ELSE DOMAIN next[l]
        /\ \A l \in SkipLevel : Live(l)' = Live(l) /\ \A n \in Live(l) : next'[l][n] = next[l][n]
        /\ \A l \in 1 .. h : next'[l][e] = Garbage /\ inserting'.prev[l] = PrevAt(e, l)
        /\ \A l \in SkipLevel : Pending(l)' <=> l <= h
    BY BeginUnmoved
  <1>2. ListInv'
    BY <1>1, ListUnmoved
  <1>3. DOMAIN inserting' = {"pc", "entry", "height", "level", "prev"}
    BY DEF InsertBegin
  <1>4. Point(e)
    BY EntryIsPoint
  <1>5. \A l \in SkipLevel : Entries(l)' = Entries(l)
    BY <1>1 DEF Entries
  <1>6. ASSUME NEW l \in SkipLevel, Pending(l)'
        PROVE  PendingAt(l)'
    <2>1. l \in 1 .. h
      BY <1>1, <1>6, Levels
    <2>2. LastBefore(Entries(l), PrevAt(e, l), e)
      BY <1>4, PrevIsLast
    <2>3. LastBefore(Entries(l)', inserting'.prev[l], inserting'.entry)
      BY <1>1, <1>5, <2>1, <2>2
    <2>4. next'[l][inserting'.entry] = Garbage /\ inserting'.pc = "own"
      BY <1>1, <2>1
    <2> QED
      BY <2>3, <2>4 DEF PendingAt, LastBefore, Follows
  <1>7. h \in SkipLevel /\ 1 <= h /\ 1 .. h \subseteq SkipLevel
    BY SkipListAssumption DEF RandomHeight, SkipLevel
  <1>8. ASSUME NEW l \in 1 .. h
        PROVE  e \in DOMAIN next'[l]
    <2>1. l \in SkipLevel /\ l <= h
      BY <1>7
    <2> QED
      BY <1>1, <2>1
  <1>9. lastSeq' = lastSeq
    BY DEF InsertBegin
  <1>10. /\ inserting'.pc \in {"own", "publish", "inserted"} /\ inserting'.height \in SkipLevel
         /\ inserting'.level \in Nat \ {0}
         /\ inserting'.pc # "inserted" => inserting'.level <= inserting'.height
         /\ inserting'.entry \in SkipEntry /\ inserting'.entry.seq = lastSeq' + 1
    BY <1>1, <1>7, <1>9
  <1>11. \A l \in 1 .. inserting'.height : inserting'.entry \in DOMAIN next'[l]
    BY <1>1, <1>8
  <1> QED
    BY <1>2, <1>3, <1>6, <1>10, <1>11 DEF InsertInv

\* What is known while a level is being linked.
LEMMA UnderWay ==
    ASSUME InsertInv, inserting.pc \in {"own", "publish"}
    PROVE  /\ DOMAIN inserting = {"pc", "entry", "height", "level", "prev"}
           /\ inserting.level \in SkipLevel /\ inserting.height \in SkipLevel /\ inserting.level <= inserting.height
           /\ Pending(inserting.level) /\ PendingAt(inserting.level)
           /\ inserting.entry \in SkipEntry /\ inserting.entry.seq = lastSeq + 1
           /\ \A l \in 1 .. inserting.height : inserting.entry \in DOMAIN next[l]
           /\ inserting.entry \in DOMAIN next[inserting.level]
           /\ \A l \in SkipLevel : Pending(l) => PendingAt(l)
  <1>1. inserting # IdleInsert
    BY DEF IdleInsert
  <1>2. /\ DOMAIN inserting = {"pc", "entry", "height", "level", "prev"}
        /\ inserting.height \in SkipLevel /\ inserting.level \in Nat \ {0} /\ inserting.level <= inserting.height
        /\ inserting.entry \in SkipEntry /\ inserting.entry.seq = lastSeq + 1
        /\ \A l \in 1 .. inserting.height : inserting.entry \in DOMAIN next[l]
        /\ \A l \in SkipLevel : Pending(l) => PendingAt(l)
    BY <1>1 DEF InsertInv
  <1>3. inserting.level \in SkipLevel /\ inserting.level \in 1 .. inserting.height
    BY <1>2, SkipListAssumption DEF SkipLevel
  <1>4. Pending(inserting.level)
    BY <1>2, <1>3 DEF Pending, SkipLevel
  <1> QED
    BY <1>2, <1>3, <1>4

\* Storing a pointer makes no node.
LEMMA NodesKept ==
    ASSUME NodesInv, DOMAIN next' = SkipLevel, \A l \in SkipLevel : DOMAIN next'[l] = DOMAIN next[l],
           lastSeq' = lastSeq, inserting'.pc # "idle", inserting'.entry = inserting.entry
    PROVE  NodesInv' /\ Nodes' = Nodes
  <1>1. 1 \in SkipLevel
    BY Levels
  <1>2. Nodes' = Nodes
    BY <1>1 DEF Nodes
  <1>3. \A l \in SkipLevel : /\ HeadNode \in DOMAIN next'[l] /\ IsFiniteSet(DOMAIN next'[l])
                             /\ DOMAIN next'[l] \subseteq DOMAIN next'[1]
    BY <1>1 DEF NodesInv
  <1>4. \A a \in Nodes' : a.seq <= lastSeq' \/ (inserting'.pc # "idle" /\ a = inserting'.entry)
    BY <1>2 DEF NodesInv
  <1>5. Nodes' \subseteq SkipEntry /\ (\A a, b \in Nodes' : a.seq = b.seq => a = b) /\ lastSeq' \in Nat
    BY <1>2 DEF NodesInv
  <1> QED
    BY <1>2, <1>3, <1>4, <1>5 DEF NodesInv

\* The node's own pointer, at the level being linked.
LEMMA SetOwnStep ==
    ASSUME NodesInv, ListInv, InsertInv, SetOwn
    PROVE  /\ NodesInv' /\ ListInv' /\ InsertInv' /\ Nodes' = Nodes
           /\ \A l \in SkipLevel : Live(l)' = Live(l)
  <1> DEFINE L == inserting.level
             e == inserting.entry
             p == inserting.prev[L]
  <1>0. inserting.pc = "own"
    BY DEF SetOwn
  <1>1. /\ DOMAIN inserting = {"pc", "entry", "height", "level", "prev"}
        /\ L \in SkipLevel /\ inserting.height \in SkipLevel /\ L <= inserting.height
        /\ Pending(L) /\ PendingAt(L)
        /\ e \in SkipEntry /\ e.seq = lastSeq + 1
        /\ \A l \in 1 .. inserting.height : e \in DOMAIN next[l]
        /\ e \in DOMAIN next[L]
        /\ \A l \in SkipLevel : Pending(l) => PendingAt(l)
    BY <1>0, UnderWay
  <1>2. /\ inserting'.pc = "publish" /\ inserting'.entry = e /\ inserting'.height = inserting.height
        /\ inserting'.level = L /\ inserting'.prev = inserting.prev
        /\ DOMAIN inserting' = {"pc", "entry", "height", "level", "prev"}
    BY <1>1 DEF SetOwn
  <1>3. next' = [next EXCEPT ![L][e] = next[L][p]] /\ lastSeq' = lastSeq
    BY DEF SetOwn
  <1>4. DOMAIN next = SkipLevel
    BY DEF NodesInv
  <1> HIDE DEF L, e, p
  <1>5. DOMAIN next' = SkipLevel /\ (\A l \in SkipLevel : l # L => next'[l] = next[l])
        /\ next'[L] = [next[L] EXCEPT ![e] = next[L][p]]
    BY <1>1, <1>3, <1>4
  <1>6. \A l \in SkipLevel : DOMAIN next'[l] = DOMAIN next[l]
    BY <1>5
  <1>7. /\ next'[L][e] = next[L][p]
        /\ \A n \in DOMAIN next[L] : n # e => next'[L][n] = next[L][n]
    BY <1>1, <1>5
  <1>8. \A l \in SkipLevel : Pending(l)' <=> Pending(l)
    BY <1>0, <1>2 DEF Pending, L
  <1>9. NodesInv' /\ Nodes' = Nodes
    BY <1>2, <1>3, <1>5, <1>6, NodesKept DEF e
  <1>10. \A l \in SkipLevel : Live(l)' = Live(l)
    BY <1>2, <1>6, <1>8 DEF Live, e
  <1>11. e \notin Live(L)
    BY <1>1 DEF Live, e
  <1>12. \A l \in SkipLevel : \A n \in Live(l) : next'[l][n] = next[l][n]
    <2> SUFFICES ASSUME NEW l \in SkipLevel, NEW n \in Live(l)
                 PROVE  next'[l][n] = next[l][n]
      OBVIOUS
    <2>1. n \in DOMAIN next[l]
      BY DEF Live
    <2> QED
      BY <1>5, <1>7, <1>11, <2>1
  <1>13. ListInv'
    BY <1>10, <1>12, ListUnmoved
  <1>14. \A l \in SkipLevel : Entries(l)' = Entries(l)
    BY <1>10 DEF Entries
  <1>15. p \in Live(L)
    BY <1>1, LiveParts DEF PendingAt, LastBefore, p, L
  <1>16. ASSUME NEW l \in SkipLevel, Pending(l)'
         PROVE  PendingAt(l)'
    <2>1. Pending(l) /\ PendingAt(l)
      BY <1>1, <1>8, <1>16
    <2>2. LastBefore(Entries(l), inserting.prev[l], inserting.entry)'
      BY <1>2, <1>14, <2>1 DEF PendingAt, LastBefore, Follows, e
    <2>3. CASE l = L
      <3>1. next'[L][p] = next[L][p]
        BY <1>12, <1>15, <1>1
      <3>2. next'[l][inserting'.entry] = next'[l][inserting'.prev[l]]
        BY <1>2, <1>7, <2>3, <3>1 DEF p
      <3>3. l = inserting'.level /\ inserting'.pc = "publish"
        BY <1>2, <2>3
      <3> QED
        BY <2>2, <3>2, <3>3 DEF PendingAt
    <2>4. CASE l # L
      <3>1. next[l][e] = Garbage
        BY <2>1, <1>0 DEF PendingAt, e
      <3>2. next'[l][inserting'.entry] = Garbage /\ l # inserting'.level
        BY <1>2, <1>5, <2>4, <3>1
      <3> QED
        BY <2>2, <3>2 DEF PendingAt
    <2> QED
      BY <2>3, <2>4
  <1>17. \A l \in 1 .. inserting'.height : inserting'.entry \in DOMAIN next'[l]
    <2> SUFFICES ASSUME NEW l \in 1 .. inserting.height
                 PROVE  e \in DOMAIN next'[l]
      BY <1>2
    <2>1. l \in SkipLevel
      BY <1>1, SkipListAssumption DEF SkipLevel
    <2> QED
      BY <1>1, <1>6, <2>1
  <1>18. L \in Nat \ {0}
    BY <1>1, Levels
  <1>19. InsertInv'
    BY <1>1, <1>2, <1>3, <1>16, <1>17, <1>18 DEF InsertInv
  <1> QED
    BY <1>9, <1>10, <1>13, <1>19

\* The predecessor's pointer: from here the entry is on the list of the level.
LEMMA PublishMoved ==
    ASSUME NodesInv, InsertInv, Publish,
           NEW L, L = inserting.level, NEW e, e = inserting.entry, NEW p, p = inserting.prev[L]
    PROVE  /\ DOMAIN next' = SkipLevel /\ (\A l \in SkipLevel : l # L => next'[l] = next[l])
           /\ \A l \in SkipLevel : DOMAIN next'[l] = DOMAIN next[l]
           /\ next'[L][p] = e /\ \A n \in DOMAIN next[L] : n # p => next'[L][n] = next[L][n]
           /\ inserting'.entry = e /\ inserting'.height = inserting.height /\ inserting'.prev = inserting.prev
           /\ inserting'.level = L + 1 /\ inserting'.pc = IF L = inserting.height THEN "inserted" ELSE "own"
           /\ DOMAIN inserting' = {"pc", "entry", "height", "level", "prev"}
           /\ \A l \in SkipLevel : Pending(l)' <=> (Pending(l) /\ l # L)
           /\ Live(L)' = Live(L) \cup {e} /\ Live(L) = DOMAIN next[L] \ {e}
           /\ \A l \in SkipLevel : l # L => Live(l)' = Live(l)
           /\ p \in Live(L) /\ e \in DOMAIN next[L]
  <1>0. inserting.pc = "publish"
    BY DEF Publish
  <1>1. /\ DOMAIN inserting = {"pc", "entry", "height", "level", "prev"}
        /\ L \in SkipLevel /\ inserting.height \in SkipLevel /\ L <= inserting.height
        /\ Pending(L) /\ PendingAt(L) /\ e \in DOMAIN next[L]
    BY <1>0, UnderWay
  <1>2. inserting' = Linking(L) /\ next' = [next EXCEPT ![L][p] = e]
    BY DEF Publish
  <1>3. DOMAIN next = SkipLevel
    BY DEF NodesInv
  <1>4. /\ inserting'.entry = e /\ inserting'.height = inserting.height /\ inserting'.prev = inserting.prev
        /\ inserting'.level = L + 1 /\ inserting'.pc = IF L = inserting.height THEN "inserted" ELSE "own"
        /\ DOMAIN inserting' = {"pc", "entry", "height", "level", "prev"}
    BY <1>1, <1>2 DEF Linking
  <1>5. p \in Live(L)
    BY <1>1, LiveParts DEF PendingAt, LastBefore
  <1>6. p \in DOMAIN next[L]
    BY <1>5 DEF Live
  <1>7. L \in Nat /\ inserting.height \in Nat
    BY <1>1, Levels
  <1>8. \A l \in SkipLevel : Pending(l) <=> L <= l /\ l <= inserting.height
    BY <1>0 DEF Pending
  <1>9. \A l \in SkipLevel : Pending(l)' <=> (L < l /\ l <= inserting.height)
    <2>1. CASE L = inserting.height
      BY <1>4, <1>7, <2>1, Levels DEF Pending
    <2>2. CASE L # inserting.height
      <3>1. inserting'.pc = "own"
        BY <1>4, <2>2
      <3>2. \A l \in SkipLevel : Pending(l)' <=> (L + 1 <= l /\ l <= inserting.height)
        BY <1>4, <3>1 DEF Pending
      <3> QED
        BY <1>7, <3>2, Levels
    <2> QED
      BY <2>1, <2>2
  <1>10. DOMAIN next' = SkipLevel /\ (\A l \in SkipLevel : l # L => next'[l] = next[l])
         /\ next'[L] = [next[L] EXCEPT ![p] = e]
    BY <1>1, <1>2, <1>3
  <1>11. \A l \in SkipLevel : DOMAIN next'[l] = DOMAIN next[l]
    BY <1>10
  <1>12. next'[L][p] = e /\ \A n \in DOMAIN next[L] : n # p => next'[L][n] = next[L][n]
    BY <1>6, <1>10
  <1>13. \A l \in SkipLevel : Pending(l)' <=> (Pending(l) /\ l # L)
    BY <1>7, <1>8, <1>9, Levels
  <1>14. \A l \in SkipLevel : l # L => Live(l)' = Live(l)
    BY <1>4, <1>11, <1>13 DEF Live
  <1>15. Live(L) = DOMAIN next[L] \ {e}
    BY <1>1 DEF Live
  <1>16. Live(L)' = DOMAIN next[L]
    <2>1. ~(Pending(L)')
      BY <1>1, <1>13
    <2>2. {n \in DOMAIN next'[L] : ~(Pending(L)' /\ n = inserting'.entry)} = DOMAIN next[L]
      BY <1>1, <1>11, <2>1
    <2> QED
      BY <2>2 DEF Live
  <1>17. Live(L)' = Live(L) \cup {e}
    BY <1>1, <1>15, <1>16
  <1> QED
    BY <1>1, <1>4, <1>5, <1>10, <1>11, <1>12, <1>13, <1>14, <1>15, <1>17

\* A published entry is where the order has it, on a level and on those below.
LEMMA PublishList ==
    ASSUME NodesInv, ListInv, InsertInv, Publish
    PROVE  ListInv'
  <1>a. PICK L : L = inserting.level
    OBVIOUS
  <1>b. PICK e : e = inserting.entry
    OBVIOUS
  <1>c. PICK p : p = inserting.prev[L]
    OBVIOUS
  <1>0. inserting.pc = "publish"
    BY DEF Publish
  <1>1. /\ L \in SkipLevel /\ inserting.height \in SkipLevel /\ L <= inserting.height
        /\ Pending(L) /\ PendingAt(L)
        /\ \A l \in 1 .. inserting.height : e \in DOMAIN next[l]
    BY <1>0, <1>a, <1>b, UnderWay
  <1>2. /\ DOMAIN next' = SkipLevel /\ (\A l \in SkipLevel : l # L => next'[l] = next[l])
        /\ next'[L][p] = e /\ (\A n \in DOMAIN next[L] : n # p => next'[L][n] = next[L][n])
        /\ Live(L)' = Live(L) \cup {e} /\ Live(L) = DOMAIN next[L] \ {e}
        /\ (\A l \in SkipLevel : l # L => Live(l)' = Live(l))
        /\ p \in Live(L) /\ e \in DOMAIN next[L] /\ e # HeadNode
    BY <1>a, <1>b, <1>c, <1>0, PublishMoved, UnderWay, EntryIsPoint
  <1>3. e \in Nodes /\ e \notin Entries(L)
    BY <1>1, <1>2 DEF NodesInv, Nodes, Entries
  <1>4. Entries(L)' = Entries(L) \cup {e}
    BY <1>2 DEF Entries
  <1>5. \A l \in SkipLevel : l # L => Entries(l)' = Entries(l)
    BY <1>2 DEF Entries
  <1>6. Chain(Entries(L) \cup {e})
    BY <1>1, <1>3, NodesChain DEF Chain
  <1>7. LastBefore(Entries(L), p, e)
    BY <1>1, <1>a, <1>b, <1>c DEF PendingAt
  <1>8. next[L][e] = next[L][p]
    BY <1>0, <1>1, <1>a, <1>b, <1>c DEF PendingAt
  <1>9. FirstAfter(Entries(L), p, next[L][p])
    BY <1>1, <1>2 DEF ListInv
  <1>10. ASSUME NEW n \in Live(L) \cup {e}
         PROVE  FirstAfter(Entries(L) \cup {e}, n, next'[L][n])
    <2>1. CASE n = p
      BY <1>2, <1>3, <1>6, <1>7, <1>9, <2>1, NewLeads
    <2>2. CASE n = e
      <3>1. next'[L][e] = next[L][p]
        BY <1>2, <1>8
      <3>2. FirstAfter(Entries(L) \cup {e}, e, next[L][p])
        BY <1>3, <1>6, <1>7, <1>9, NewLeads
      <3> QED
        BY <2>2, <3>1, <3>2
    <2>3. CASE n # p /\ n # e
      <3>1. n \in Live(L) /\ n \in Entries(L) \cup {HeadNode}
        BY <2>3 DEF Entries
      <3>2. next'[L][n] = next[L][n]
        BY <1>2, <2>3, <3>1
      <3>3. FirstAfter(Entries(L), n, next[L][n])
        BY <1>1, <3>1 DEF ListInv
      <3>4. FirstAfter(Entries(L) \cup {e}, n, next[L][n])
        BY <1>3, <1>6, <1>7, <2>3, <3>1, <3>3, OthersLead
      <3> QED
        BY <3>2, <3>4
    <2> QED
      BY <2>1, <2>2, <2>3
  <1>11. ASSUME NEW l \in SkipLevel, NEW n \in Live(l)'
         PROVE  FirstAfter(Entries(l), n, next[l][n])'
    <2>1. CASE l = L
      <3>1. n \in Live(L) \cup {e}
        BY <1>2, <1>11, <2>1
      <3>2. FirstAfter(Entries(l)', n, next'[l][n])
        BY <1>4, <1>10, <2>1, <3>1
      <3> QED
        BY <3>2 DEF FirstAfter, Follows
    <2>2. CASE l # L
      <3>1. n \in Live(l) /\ FirstAfter(Entries(l), n, next[l][n])
        BY <1>2, <1>11, <2>2 DEF ListInv
      <3>2. FirstAfter(Entries(l)', n, next'[l][n])
        BY <1>2, <1>5, <2>2, <3>1
      <3> QED
        BY <3>2 DEF FirstAfter, Follows
    <2> QED
      BY <2>1, <2>2
  <1>12. ASSUME NEW i \in SkipLevel, NEW j \in SkipLevel, i <= j
         PROVE  Live(j)' \subseteq Live(i)'
    <2>1. Live(j) \subseteq Live(i)
      BY <1>12 DEF ListInv
    <2>2. Live(i) \subseteq Live(i)'
      BY <1>2
    <2>3. CASE j = L /\ i # L
      <3>1. i < L /\ i \in 1 .. inserting.height
        BY <1>1, <1>12, <2>3, SkipListAssumption DEF SkipLevel
      <3>2. ~Pending(i)
        <4>1. Pending(i) => L <= i
          BY <1>a DEF Pending
        <4>2. i \in Nat /\ L \in Nat
          BY <1>1, Levels
        <4> QED
          BY <3>1, <4>1, <4>2
      <3>3. e \in Live(i)
        BY <1>1, <3>1, <3>2 DEF Live
      <3> QED
        BY <1>2, <2>1, <2>2, <2>3, <3>3
    <2>4. CASE j # L
      BY <1>2, <2>1, <2>2, <2>4
    <2>5. CASE i = L /\ j = L
      BY <2>5
    <2> QED
      BY <2>3, <2>4, <2>5
  <1>13. ASSUME NEW a \in Entries(1)'
         PROVE  \E n \in Live(1)' : next'[1][n] = a
    <2>0. 1 \in SkipLevel
      BY Levels
    <2>1. CASE L # 1
      BY <1>2, <1>5, <1>13, <2>0, <2>1 DEF ListInv
    <2>2. CASE L = 1 /\ a = e
      BY <1>2, <2>2
    <2>3. CASE L = 1 /\ a # e
      <3>1. a \in Entries(1)
        BY <1>4, <1>13, <2>3
      <3>2. PICK n \in Live(1) : next[1][n] = a
        BY <3>1 DEF ListInv
      <3>3. CASE n = p
        <4>1. e # p
          BY <1>2
        <4>2. next'[1][e] = a /\ e \in Live(1)'
          BY <1>2, <1>8, <2>3, <3>2, <3>3, <4>1
        <4> QED
          BY <4>2
      <3>4. CASE n # p
        <4>1. n \in DOMAIN next[1] /\ n \in Live(1)'
          BY <1>2, <2>3, <3>2
        <4>2. next'[1][n] = a
          BY <1>2, <2>3, <3>2, <3>4, <4>1
        <4> QED
          BY <4>1, <4>2
      <3> QED
        BY <3>3, <3>4
    <2> QED
      BY <2>1, <2>2, <2>3
  <1> QED
    BY <1>11, <1>12, <1>13 DEF ListInv

\* What is left to link is as it was.
LEMMA PublishStep ==
    ASSUME NodesInv, ListInv, InsertInv, Publish
    PROVE  /\ NodesInv' /\ ListInv' /\ InsertInv' /\ Nodes' = Nodes
           /\ \A l \in SkipLevel : Live(l) \subseteq Live(l)'
  <1>a. PICK L : L = inserting.level
    OBVIOUS
  <1>b. PICK e : e = inserting.entry
    OBVIOUS
  <1>c. PICK p : p = inserting.prev[L]
    OBVIOUS
  <1>0. inserting.pc = "publish" /\ lastSeq' = lastSeq
    BY DEF Publish
  <1>1. /\ L \in SkipLevel /\ inserting.height \in SkipLevel /\ L <= inserting.height
        /\ e \in SkipEntry /\ e.seq = lastSeq + 1
        /\ \A l \in 1 .. inserting.height : e \in DOMAIN next[l]
        /\ \A l \in SkipLevel : Pending(l) => PendingAt(l)
    BY <1>0, <1>a, <1>b, UnderWay
  <1>2. /\ DOMAIN next' = SkipLevel /\ (\A l \in SkipLevel : l # L => next'[l] = next[l])
        /\ \A l \in SkipLevel : DOMAIN next'[l] = DOMAIN next[l]
        /\ inserting'.entry = e /\ inserting'.height = inserting.height /\ inserting'.prev = inserting.prev
        /\ inserting'.level = L + 1 /\ inserting'.pc = IF L = inserting.height THEN "inserted" ELSE "own"
        /\ DOMAIN inserting' = {"pc", "entry", "height", "level", "prev"}
        /\ \A l \in SkipLevel : Pending(l)' <=> (Pending(l) /\ l # L)
        /\ Live(L)' = Live(L) \cup {e}
        /\ \A l \in SkipLevel : l # L => Live(l)' = Live(l)
    BY <1>a, <1>b, <1>c, PublishMoved
  <1>3. inserting'.pc \in {"own", "inserted"}
    BY <1>2
  <1>4. NodesInv' /\ Nodes' = Nodes
    BY <1>0, <1>2, <1>3, <1>b, NodesKept
  <1>5. \A l \in SkipLevel : Live(l) \subseteq Live(l)'
    BY <1>2
  <1>6. ASSUME NEW l \in SkipLevel, Pending(l)'
        PROVE  PendingAt(l)'
    <2>1. PendingAt(l) /\ l # L
      BY <1>1, <1>2, <1>6
    <2>2. Entries(l)' = Entries(l)
      BY <1>2, <2>1 DEF Entries
    <2>3. LastBefore(Entries(l), inserting.prev[l], inserting.entry)'
      BY <1>2, <1>b, <2>1, <2>2 DEF PendingAt, LastBefore, Follows
    <2>4. next[l][e] = Garbage
      BY <2>1, <1>a, <1>b DEF PendingAt
    <2>5. next'[l][inserting'.entry] = Garbage
      BY <1>2, <2>1, <2>4
    <2>6. inserting'.pc # "publish"
      BY <1>3
    <2> QED
      BY <2>3, <2>5, <2>6 DEF PendingAt
  <1>7. ASSUME NEW l \in 1 .. inserting'.height
        PROVE  inserting'.entry \in DOMAIN next'[l]
    <2>1. l \in 1 .. inserting.height
      BY <1>2, <1>7
    <2>2. l \in SkipLevel
      BY <1>1, <2>1, SkipListAssumption DEF SkipLevel
    <2> QED
      BY <1>1, <1>2, <2>1, <2>2
  <1>8. L \in Nat \ {0} /\ inserting.height \in Nat \ {0}
    BY <1>1, Levels
  <1>9. /\ inserting'.level \in Nat \ {0} /\ inserting'.height \in SkipLevel
        /\ inserting'.pc # "inserted" => inserting'.level <= inserting'.height
        /\ inserting'.entry \in SkipEntry /\ inserting'.entry.seq = lastSeq' + 1
        /\ inserting'.pc \in {"own", "publish", "inserted"}
    BY <1>0, <1>1, <1>2, <1>3, <1>8
  <1>10. InsertInv'
    BY <1>2, <1>6, <1>7, <1>9 DEF InsertInv
  <1> QED
    BY <1>4, <1>5, <1>10, PublishList

\* The entry becomes readable.
LEMMA SetLastSequenceStep ==
    ASSUME NodesInv, ListInv, InsertInv, SetLastSequence
    PROVE  /\ NodesInv' /\ ListInv' /\ InsertInv' /\ Nodes' = Nodes /\ lastSeq' = lastSeq + 1
           /\ \A l \in SkipLevel : Live(l)' = Live(l)
  <1>1. inserting.pc = "inserted" /\ inserting' = IdleInsert /\ next' = next /\ lastSeq' = inserting.entry.seq
    BY DEF SetLastSequence
  <1>2. lastSeq' = lastSeq + 1
    BY <1>1 DEF InsertInv, IdleInsert
  <1>3. \A l \in SkipLevel : ~Pending(l)
    BY <1>1 DEF Pending
  <1>4. \A l \in SkipLevel : ~(Pending(l)')
    BY <1>1 DEF Pending, IdleInsert
  <1>5. \A l \in SkipLevel : Live(l)' = Live(l)
    BY <1>1, <1>3, <1>4 DEF Live
  <1>6. ListInv'
    BY <1>1, <1>5, ListUnmoved
  <1>7. Nodes' = Nodes
    BY <1>1 DEF Nodes
  <1>8. lastSeq \in Nat /\ \A a \in Nodes : a.seq \in Int
    BY EntryIsPoint DEF NodesInv, Point
  <1>9. \A a \in Nodes : a.seq <= lastSeq'
    <2> SUFFICES ASSUME NEW a \in Nodes
                 PROVE  a.seq <= lastSeq'
      OBVIOUS
    <2>1. a.seq <= lastSeq \/ a = inserting.entry
      BY DEF NodesInv
    <2>2. CASE a = inserting.entry
      <3>1. a.seq = lastSeq' /\ a.seq \in Int
        BY <1>1, <1>8, <2>2
      <3> QED
        BY <3>1
    <2>3. CASE a.seq <= lastSeq
      BY <1>2, <1>8, <2>3
    <2> QED
      BY <2>1, <2>2, <2>3
  <1>10. NodesInv'
    BY <1>1, <1>2, <1>7, <1>8, <1>9 DEF NodesInv
  <1>11. InsertInv'
    BY <1>1 DEF InsertInv
  <1> QED
    BY <1>2, <1>5, <1>6, <1>7, <1>10, <1>11

-----------------------------------------------------------------------------
(* The readers *)

\* What the writer adds disturbs no call: what it saw stays linked, and what is
\* new is newer than any snapshot.
LEMMA CallMoved ==
    ASSUME NEW c, CallInv(c), \A l \in SkipLevel : Live(l) \subseteq Live(l)',
           lastSeq \in Nat, lastSeq' \in Nat, lastSeq <= lastSeq',
           \A a \in Nodes' : a \in Nodes \/ (a.seq \in Int /\ lastSeq < a.seq)
    PROVE  CallInv(c)'
  <1>1. Entries(1) \subseteq Entries(1)'
    BY Levels DEF Entries
  <1>2. /\ c.seen \subseteq Entries(1)'
        /\ c.node = Nil \/ c.node \in Entries(1)'
        /\ c.level \in SkipLevel /\ c.at \in Live(c.level)'
    BY <1>1 DEF CallInv
  <1>3. ASSUME c.op = "get"
        PROVE  /\ c.target.seq <= lastSeq'
               /\ \A e \in Nodes' : e.seq <= c.target.seq => e \in c.seen
               /\ ~c.busy => c.node = Nil \/ ~Before(c.node, c.target)
    <2>1. /\ c.target.seq <= lastSeq /\ c.target.seq \in Int
          /\ \A e \in Nodes : e.seq <= c.target.seq => e \in c.seen
          /\ ~c.busy => c.node = Nil \/ ~Before(c.node, c.target)
      BY <1>3 DEF CallInv, Point
    <2>2. c.target.seq <= lastSeq'
      BY <2>1
    <2>3. \A e \in Nodes' : e.seq <= c.target.seq => e \in Nodes
      BY <2>1
    <2> QED
      BY <2>1, <2>2, <2>3
  <1>4. /\ DOMAIN c = {"op", "busy", "node", "target", "at", "level", "seen"}
        /\ c.op \in {"seek", "prev", "get", "last", "first", "next"}
        /\ c.busy \in BOOLEAN
        /\ c.op = "next" => c.at = c.target /\ c.level = 1 /\ c.at # HeadNode
        /\ c.op = "first" => c.at = HeadNode /\ c.level = 1
    BY DEF CallInv
  <1>5. c.op \in {"seek", "prev", "get"} => Point(c.target)' /\ Follows(c.at, c.target)'
    BY DEF CallInv, Point, Follows
  <1>6. ~c.busy => \A e \in c.seen : ~Between(c, e)'
    BY DEF CallInv, Between
  <1> QED
    BY <1>2, <1>3, <1>4, <1>5, <1>6 DEF CallInv

\* An entry of the list is a node before its sequence number is readable only
\* while it is being inserted; every other node is linked.
LEMMA LinkedEntries ==
    ASSUME NodesInv, ListInv, InsertInv
    PROVE  /\ Linked = Entries(1)
           /\ \A e \in Nodes : e.seq <= lastSeq => e \in Entries(1)
  <1>0. 1 \in SkipLevel
    BY Levels
  <1>1. \A e \in Entries(1) : e # Nil /\ e # Garbage
    BY <1>0, NodesChain, EntryIsPoint DEF NodesInv
  <1>2. ASSUME NEW n \in DOMAIN next[1]
        PROVE  next[1][n] \in Entries(1) \cup {Nil, Garbage}
    <2>1. \A k \in Live(1) : next[1][k] \in Entries(1) \cup {Nil}
      BY <1>0 DEF ListInv, FirstAfter
    <2>2. CASE n \in Live(1)
      BY <2>1, <2>2
    <2>3. CASE n \notin Live(1)
      <3>1. Pending(1) /\ n = inserting.entry
        BY <2>3 DEF Live
      <3>2. PendingAt(1)
        BY <1>0, <3>1, UnderWay DEF Pending
      <3>3. inserting.prev[1] \in Live(1)
        BY <1>0, <3>2, LiveParts DEF PendingAt, LastBefore
      <3> QED
        BY <2>1, <3>1, <3>2, <3>3 DEF PendingAt
    <2> QED
      BY <2>2, <2>3
  <1>3. Linked \subseteq Entries(1)
    BY <1>2 DEF Linked
  <1>4. ASSUME NEW e \in Entries(1)
        PROVE  e \in Linked
    <2>1. PICK n \in Live(1) : next[1][n] = e
      BY DEF ListInv
    <2>2. n \in DOMAIN next[1]
      BY <2>1 DEF Live
    <2> QED
      BY <1>1, <2>1, <2>2 DEF Linked
  <1>5. ASSUME NEW e \in Nodes, e.seq <= lastSeq
        PROVE  e \in Entries(1)
    <2>1. e \in DOMAIN next[1] /\ e # HeadNode
      BY DEF Nodes
    <2>2. ASSUME Pending(1), e = inserting.entry
          PROVE  FALSE
      <3>1. e.seq = lastSeq + 1 /\ lastSeq \in Nat
        BY <2>2, UnderWay DEF Pending, NodesInv
      <3> QED
        BY <1>5, <3>1
    <2> QED
      BY <2>1, <2>2 DEF Entries, Live
  <1> QED
    BY <1>3, <1>4, <1>5

\* A reader changes nothing that the writer or another reader stands on.
LEMMA ReaderKeeps ==
    ASSUME NodesInv, ListInv, InsertInv, HeightsInv,
           next' = next, heights' = heights, inserting' = inserting, lastSeq' = lastSeq
    PROVE  /\ NodesInv' /\ ListInv' /\ InsertInv' /\ HeightsInv'
           /\ \A c : CallInv(c) => CallInv(c)'
  <1>1. \A l : (Pending(l)' <=> Pending(l)) /\ Live(l)' = Live(l)
    BY DEF Pending, Live
  <1>2. Nodes' = Nodes /\ \A l : Entries(l)' = Entries(l)
    BY <1>1 DEF Nodes, Entries
  <1>3. NodesInv'
    BY <1>2 DEF NodesInv
  <1>4. ListInv'
    BY <1>1, ListUnmoved
  <1>5. \A l : PendingAt(l) => PendingAt(l)'
    BY <1>2 DEF PendingAt, LastBefore, Follows
  <1>6. InsertInv'
    BY <1>1, <1>5 DEF InsertInv
  <1>7. HeightsInv'
    BY DEF HeightsInv
  <1>8. lastSeq \in Nat
    BY DEF NodesInv
  <1>9. ASSUME NEW c, CallInv(c)
        PROVE  CallInv(c)'
    BY <1>1, <1>2, <1>8, <1>9, CallMoved
  <1> QED
    BY <1>3, <1>4, <1>6, <1>7, <1>9

\* The reader a step moves is at a sound place, and the others stay where they are.
LEMMA ReaderMoved ==
    ASSUME SkipInv, next' = next, heights' = heights, inserting' = inserting, lastSeq' = lastSeq,
           NEW r \in SkipReader, NEW c, CallInv(c), reading' = [reading EXCEPT ![r] = c]
    PROVE  SkipInv'
  <1>1. /\ NodesInv' /\ ListInv' /\ InsertInv' /\ HeightsInv'
        /\ \A d : CallInv(d) => CallInv(d)'
    BY ReaderKeeps DEF SkipInv
  <1>2. /\ DOMAIN reading' = SkipReader
        /\ \A q \in SkipReader : reading'[q] = IF q = r THEN c ELSE reading[q]
    BY DEF SkipInv
  <1>3. ASSUME NEW q \in SkipReader
        PROVE  (reading[q] = NoCall \/ CallInv(reading[q]))'
    <2>1. PICK d : d = reading'[q]
      OBVIOUS
    <2>2. d = NoCall \/ CallInv(d)
      BY <1>2, <2>1 DEF SkipInv, ReadersInv
    <2>3. d = NoCall \/ CallInv(d)'
      BY <1>1, <2>2
    <2> QED
      BY <2>1, <2>3
  <1> QED
    BY <1>1, <1>2, <1>3 DEF SkipInv, ReadersInv

\* A call that starts.
LEMMA StartedStep ==
    ASSUME SkipInv, NEW r \in SkipReader, NEW op, NEW target, NEW at, NEW level,
           Started(r, op, target, at, level),
           op \in {"seek", "prev", "get", "last", "first", "next"},
           level \in SkipLevel, at \in Live(level),
           op \in {"seek", "prev", "get"} => Point(target) /\ Follows(at, target),
           op = "next" => at = target /\ level = 1 /\ at # HeadNode,
           op = "first" => at = HeadNode /\ level = 1,
           op = "get" => target.seq <= lastSeq
    PROVE  SkipInv'
  <1> DEFINE c == [op |-> op, busy |-> TRUE, node |-> reading[r].node, target |-> target,
                   at |-> at, level |-> level, seen |-> Linked]
  <1>1. /\ next' = next /\ heights' = heights /\ inserting' = inserting /\ lastSeq' = lastSeq
        /\ reading' = [reading EXCEPT ![r] = c]
    BY DEF Started
  <1>2. Linked = Entries(1) /\ \A e \in Nodes : e.seq <= lastSeq => e \in Entries(1)
    BY LinkedEntries DEF SkipInv
  <1>3. reading[r].node = Nil \/ reading[r].node \in Entries(1)
    BY DEF SkipInv, ReadersInv, CallInv, NoCall
  <1>4. /\ DOMAIN c = {"op", "busy", "node", "target", "at", "level", "seen"}
        /\ c.op = op /\ c.busy = TRUE /\ c.node = reading[r].node /\ c.target = target
        /\ c.at = at /\ c.level = level /\ c.seen = Linked
    OBVIOUS
  <1> HIDE DEF c
  <1>5. ASSUME op = "get"
        PROVE  \A e \in Nodes : e.seq <= c.target.seq => e \in c.seen
    <2>1. target.seq \in Int /\ target.seq <= lastSeq /\ lastSeq \in Nat
      BY <1>5 DEF Point, SkipInv, NodesInv
    <2>2. \A e \in Nodes : e.seq \in Int
      BY EntryIsPoint DEF SkipInv, NodesInv, Point
    <2> QED
      BY <1>2, <1>4, <2>1, <2>2
  <1>6. /\ c.op \in {"seek", "prev", "get", "last", "first", "next"}
        /\ c.seen \subseteq Entries(1)
        /\ c.node = Nil \/ c.node \in Entries(1)
        /\ c.level \in SkipLevel /\ c.at \in Live(c.level)
    BY <1>2, <1>3, <1>4
  <1>7. /\ c.op \in {"seek", "prev", "get"} => Point(c.target) /\ Follows(c.at, c.target)
        /\ c.op = "next" => c.at = c.target /\ c.level = 1 /\ c.at # HeadNode
        /\ c.op = "first" => c.at = HeadNode /\ c.level = 1
        /\ c.op = "get" => c.target.seq <= lastSeq
    BY <1>4
  <1>8. c.busy
    BY <1>4
  <1>9. CallInv(c)
    BY <1>4, <1>5, <1>6, <1>7, <1>8 DEF CallInv
  <1> QED
    BY <1>1, <1>9, ReaderMoved

\* A search that ends finds the place in the bottom list: nothing that it began
\* with lies between what it was asked for and what it found.
LEMMA FoundIsExact ==
    ASSUME NodesInv, NEW c, CallInv(c), c.level = 1,
           NEW x, FirstAfter(Entries(1), c.at, x), ~Advances(c, x),
           NEW d, d.op = c.op, d.target = c.target,
           d.node = IF c.op \in {"prev", "last"} THEN (IF c.at = HeadNode THEN Nil ELSE c.at) ELSE x
    PROVE  /\ d.node = Nil \/ d.node \in Entries(1)
           /\ c.op = "get" => d.node = Nil \/ ~Before(d.node, d.target)
           /\ \A e \in c.seen : ~Between(d, e)
  <1>0. 1 \in SkipLevel /\ Chain(Entries(1))
    BY Levels, NodesChain
  <1>1. /\ \A a \in Entries(1) : Point(a) /\ a # HeadNode /\ a # Nil
        /\ \A a, b \in Entries(1) : Before(a, b) => ~Before(b, a)
        /\ \A a \in Entries(1) : ~Before(a, a)
    BY <1>0, ChainOrder DEF Chain
  <1>2. c.at = HeadNode \/ c.at \in Entries(1)
    BY DEF CallInv, Entries
  <1>3. \A e \in Entries(1) : Follows(c.at, e) => x # Nil /\ ~Before(e, x)
    BY <1>1 DEF FirstAfter
  <1>4. x = Nil \/ x \in Entries(1)
    BY DEF FirstAfter
  <1>5. d.node = Nil \/ d.node \in Entries(1)
    BY <1>2, <1>4
  <1>6. c.seen \subseteq Entries(1)
    BY DEF CallInv
  <1>7. ASSUME c.op \in {"seek", "get"}, NEW e \in c.seen, Between(d, e)
        PROVE  FALSE
    <2>1. d.node = x /\ ~Before(e, c.target) /\ (x = Nil \/ Before(e, x))
      BY <1>7 DEF Between
    <2>2. Point(c.target) /\ Follows(c.at, c.target)
      BY <1>7 DEF CallInv
    <2>3. c.at = HeadNode \/ Before(c.at, e)
      BY <1>1, <1>2, <1>6, <2>1, <2>2, BeforeOrder DEF Follows
    <2> QED
      BY <1>3, <1>6, <2>1, <2>3 DEF Follows
  <1>8. ASSUME c.op = "next", NEW e \in c.seen, Between(d, e)
        PROVE  FALSE
    <2>1. d.node = x /\ Before(c.at, e) /\ (x = Nil \/ Before(e, x))
      BY <1>8 DEF Between, CallInv
    <2> QED
      BY <1>3, <1>6, <2>1 DEF Follows
  <1>9. ASSUME c.op = "first", NEW e \in c.seen, Between(d, e)
        PROVE  FALSE
    <2>1. d.node = x /\ c.at = HeadNode /\ (x = Nil \/ Before(e, x))
      BY <1>9 DEF Between, CallInv
    <2> QED
      BY <1>3, <1>6, <2>1 DEF Follows
  <1>10. ASSUME c.op \in {"prev", "last"}, NEW e \in c.seen, Between(d, e)
         PROVE  Follows(c.at, e)
    <2>1. d.node = (IF c.at = HeadNode THEN Nil ELSE c.at)
      BY <1>10
    <2>2. d.node = Nil \/ Before(d.node, e)
      BY <1>10 DEF Between
    <2> QED
      BY <1>1, <1>2, <2>1, <2>2 DEF Follows
  <1>11. ASSUME c.op = "prev", NEW e \in c.seen, Between(d, e)
         PROVE  FALSE
    <2>1. Before(e, c.target)
      BY <1>11 DEF Between
    <2>2. x # Nil /\ x \in Entries(1) /\ (e = x \/ Before(x, e))
      BY <1>4, <1>6, <1>10, <1>11 DEF FirstAfter
    <2>3. Point(c.target) /\ Point(x) /\ Point(e)
      BY <1>1, <1>6, <1>11, <2>2 DEF CallInv
    <2>4. Before(x, c.target)
      BY <2>1, <2>2, <2>3, BeforeOrder
    <2> QED
      BY <1>11, <2>2, <2>4 DEF Advances, KeyIsAfterNode
  <1>12. ASSUME c.op = "last", NEW e \in c.seen, Between(d, e)
         PROVE  FALSE
    <2>1. x # Nil
      BY <1>3, <1>6, <1>10, <1>12
    <2> QED
      BY <1>12, <2>1 DEF Advances
  <1>13. c.op \in {"seek", "prev", "get", "last", "first", "next"}
    BY DEF CallInv
  <1>14. ASSUME c.op = "get"
         PROVE  d.node = Nil \/ ~Before(d.node, d.target)
    <2>1. d.node = x
      BY <1>14
    <2>2. x = Nil \/ ~Before(x, c.target)
      BY <1>14 DEF Advances, KeyIsAfterNode
    <2> QED
      BY <2>1, <2>2
  <1> QED
    BY <1>5, <1>7, <1>8, <1>9, <1>11, <1>12, <1>13, <1>14

\* One load of a pointer.
LEMMA LoadStepIsSound ==
    ASSUME NodesInv, ListInv, NEW c, CallInv(c), c.busy,
           NEW x, x = next[c.level][c.at], NEW d, d = LoadStep(c, x)
    PROVE  CallInv(d)
  <1>1. /\ DOMAIN c = {"op", "busy", "node", "target", "at", "level", "seen"}
        /\ c.level \in SkipLevel /\ c.at \in Live(c.level)
        /\ c.op \in {"seek", "prev", "get", "last", "first", "next"}
        /\ c.seen \subseteq Entries(1) /\ (c.node = Nil \/ c.node \in Entries(1))
    BY DEF CallInv
  <1>2. FirstAfter(Entries(c.level), c.at, x)
    BY <1>1 DEF ListInv
  <1>3. /\ c.op = "get" => /\ c.target.seq <= lastSeq
                           /\ \A e \in Nodes : e.seq <= c.target.seq => e \in c.seen
        /\ c.op \in {"seek", "prev", "get"} => Point(c.target) /\ Follows(c.at, c.target)
        /\ c.op = "next" => c.at = c.target /\ c.level = 1 /\ c.at # HeadNode
        /\ c.op = "first" => c.at = HeadNode /\ c.level = 1
    BY DEF CallInv
  <1>4. CASE Advances(c, x)
    <2>1. d = [c EXCEPT !.at = x]
      BY <1>4 DEF LoadStep
    <2>2. /\ DOMAIN d = {"op", "busy", "node", "target", "at", "level", "seen"}
          /\ d.op = c.op /\ d.busy = c.busy /\ d.node = c.node /\ d.target = c.target
          /\ d.at = x /\ d.level = c.level /\ d.seen = c.seen
      BY <1>1, <2>1
    <2>3. c.op \in {"seek", "prev", "get", "last"} /\ x # Nil
      BY <1>1, <1>4 DEF Advances, KeyIsAfterNode
    <2>4. x \in Live(c.level)
      BY <1>2, <2>3 DEF FirstAfter, Entries
    <2>5. c.op \in {"seek", "prev", "get"} => Follows(x, c.target)
      BY <1>4 DEF Advances, KeyIsAfterNode, Follows
    <2>6. d.busy
      BY <2>2
    <2>7. /\ d.op = "get" => /\ d.target.seq <= lastSeq
                             /\ \A e \in Nodes : e.seq <= d.target.seq => e \in d.seen
          /\ d.op \in {"seek", "prev", "get"} => Point(d.target) /\ Follows(d.at, d.target)
          /\ d.op # "next" /\ d.op # "first"
      BY <1>3, <2>2, <2>3, <2>5
    <2>8. /\ d.op \in {"seek", "prev", "get", "last", "first", "next"} /\ d.busy \in BOOLEAN
          /\ d.seen \subseteq Entries(1) /\ (d.node = Nil \/ d.node \in Entries(1))
          /\ d.level \in SkipLevel /\ d.at \in Live(d.level)
      BY <1>1, <2>2, <2>4 DEF CallInv
    <2> QED
      BY <2>2, <2>6, <2>7, <2>8 DEF CallInv
  <1>5. CASE ~Advances(c, x) /\ c.level > 1
    <2>1. d = [c EXCEPT !.level = c.level - 1]
      BY <1>5 DEF LoadStep
    <2>2. /\ DOMAIN d = {"op", "busy", "node", "target", "at", "level", "seen"}
          /\ d.op = c.op /\ d.busy = c.busy /\ d.node = c.node /\ d.target = c.target
          /\ d.at = c.at /\ d.level = c.level - 1 /\ d.seen = c.seen
      BY <1>1, <2>1
    <2>3. c.level - 1 \in SkipLevel /\ c.level - 1 <= c.level
      BY <1>1, <1>5, SkipListAssumption DEF SkipLevel
    <2>4. c.at \in Live(c.level - 1)
      BY <1>1, <2>3 DEF ListInv
    <2>5. c.op # "next" /\ c.op # "first"
      BY <1>3, <1>5
    <2>6. d.busy
      BY <2>2
    <2>7. /\ d.op = "get" => /\ d.target.seq <= lastSeq
                             /\ \A e \in Nodes : e.seq <= d.target.seq => e \in d.seen
          /\ d.op \in {"seek", "prev", "get"} => Point(d.target) /\ Follows(d.at, d.target)
          /\ d.op # "next" /\ d.op # "first"
      BY <1>3, <2>2, <2>5
    <2>8. /\ d.op \in {"seek", "prev", "get", "last", "first", "next"} /\ d.busy \in BOOLEAN
          /\ d.seen \subseteq Entries(1) /\ (d.node = Nil \/ d.node \in Entries(1))
          /\ d.level \in SkipLevel /\ d.at \in Live(d.level)
      BY <1>1, <2>2, <2>3, <2>4 DEF CallInv
    <2> QED
      BY <2>2, <2>6, <2>7, <2>8 DEF CallInv
  <1>6. CASE ~Advances(c, x) /\ ~(c.level > 1)
    <2>1. d = [c EXCEPT !.busy = FALSE,
                        !.node = IF c.op \in {"prev", "last"} THEN (IF c.at = HeadNode THEN Nil ELSE c.at) ELSE x]
      BY <1>6 DEF LoadStep
    <2>2. /\ DOMAIN d = {"op", "busy", "node", "target", "at", "level", "seen"}
          /\ d.op = c.op /\ d.busy = FALSE /\ d.target = c.target
          /\ d.node = IF c.op \in {"prev", "last"} THEN (IF c.at = HeadNode THEN Nil ELSE c.at) ELSE x
          /\ d.at = c.at /\ d.level = c.level /\ d.seen = c.seen
      BY <1>1, <2>1
    <2>3. c.level = 1
      BY <1>1, <1>6, SkipListAssumption DEF SkipLevel
    <2>4. /\ d.node = Nil \/ d.node \in Entries(1)
          /\ c.op = "get" => d.node = Nil \/ ~Before(d.node, d.target)
          /\ \A e \in c.seen : ~Between(d, e)
      BY <1>2, <1>6, <2>2, <2>3, FoundIsExact
    <2>5. /\ d.op = "get" => /\ d.target.seq <= lastSeq
                             /\ \A e \in Nodes : e.seq <= d.target.seq => e \in d.seen
          /\ d.op \in {"seek", "prev", "get"} => Point(d.target) /\ Follows(d.at, d.target)
          /\ d.op = "next" => d.at = d.target /\ d.level = 1 /\ d.at # HeadNode
          /\ d.op = "first" => d.at = HeadNode /\ d.level = 1
      BY <1>3, <2>2
    <2>6. /\ d.op \in {"seek", "prev", "get", "last", "first", "next"} /\ d.busy \in BOOLEAN
          /\ d.seen \subseteq Entries(1)
          /\ d.level \in SkipLevel /\ d.at \in Live(d.level)
      BY <1>1, <2>2
    <2>7. (d.op = "get" => d.node = Nil \/ ~Before(d.node, d.target)) /\ \A e \in d.seen : ~Between(d, e)
      BY <2>2, <2>4
    <2> QED
      BY <2>2, <2>4, <2>5, <2>6, <2>7 DEF CallInv
  <1> QED
    BY <1>4, <1>5, <1>6

-----------------------------------------------------------------------------
(* The invariant holds *)

\* What the writer's steps have in common.
LEMMA WriterMoved ==
    ASSUME SkipInv, NodesInv', ListInv', InsertInv', HeightsInv', reading' = reading,
           \A l \in SkipLevel : Live(l) \subseteq Live(l)', lastSeq <= lastSeq',
           \A a \in Nodes' : a \in Nodes \/ (a.seq \in Int /\ lastSeq < a.seq)
    PROVE  SkipInv'
  <1>1. lastSeq \in Nat /\ lastSeq' \in Nat
    BY DEF SkipInv, NodesInv
  <1>2. ASSUME NEW q \in SkipReader
        PROVE  (reading[q] = NoCall \/ CallInv(reading[q]))'
    <2>1. PICK d : d = reading[q]
      OBVIOUS
    <2>2. d = NoCall \/ CallInv(d)
      BY <2>1 DEF SkipInv, ReadersInv
    <2>3. d = NoCall \/ CallInv(d)'
      BY <1>1, <2>2, CallMoved
    <2>4. d = reading'[q]
      BY <2>1
    <2> QED
      BY <2>3, <2>4
  <1>3. DOMAIN reading' = SkipReader
    BY DEF SkipInv
  <1> QED
    BY <1>2, <1>3 DEF SkipInv, ReadersInv

\* Insert begins.
LEMMA InsertBeginStep ==
    ASSUME SkipInv, NEW e \in SkipEntry, e.seq = lastSeq + 1, NEW h \in RandomHeight, InsertBegin(e, h)
    PROVE  SkipInv'
  <1>1. NodesInv /\ ListInv /\ InsertInv /\ HeightsInv
    BY DEF SkipInv
  <1>2. inserting = IdleInsert
    <2>1. inserting.pc = "idle"
      BY DEF InsertBegin
    <2> QED
      BY <1>1, <2>1 DEF InsertInv
  <1>3. NodesInv' /\ Nodes' = Nodes \cup {e}
    BY <1>1, <1>2, BeginNodes
  <1>4. ListInv' /\ InsertInv'
    BY <1>1, <1>2, BeginInsert
  <1>5. \A l \in SkipLevel : Live(l) \subseteq Live(l)'
    BY <1>1, <1>2, BeginUnmoved
  <1>6. heights' = heights \cup {h} \/ heights' = heights
    BY DEF InsertBegin
  <1>7. HeightsInv'
    BY <1>1, <1>6 DEF HeightsInv, RandomHeight, SkipLevel
  <1>8. reading' = reading /\ lastSeq' = lastSeq
    BY DEF InsertBegin
  <1>9. lastSeq \in Nat
    BY <1>1 DEF NodesInv
  <1>10. lastSeq <= lastSeq' /\ e.seq \in Int /\ lastSeq < e.seq
    BY <1>8, <1>9
  <1>11. \A a \in Nodes' : a \in Nodes \/ (a.seq \in Int /\ lastSeq < a.seq)
    BY <1>3, <1>10
  <1> QED
    BY <1>3, <1>4, <1>5, <1>7, <1>8, <1>10, <1>11, WriterMoved

\* The rest of Insert, and SetLastSequence.
LEMMA WriterStep ==
    ASSUME SkipInv, SetOwn \/ Publish \/ SetLastSequence
    PROVE  SkipInv'
  <1>1. NodesInv /\ ListInv /\ InsertInv /\ HeightsInv /\ lastSeq \in Nat
    BY DEF SkipInv, NodesInv
  <1>2. CASE SetOwn
    <2>1. NodesInv' /\ ListInv' /\ InsertInv' /\ Nodes' = Nodes /\ \A l \in SkipLevel : Live(l)' = Live(l)
      BY <1>1, <1>2, SetOwnStep
    <2>2. heights' = heights /\ reading' = reading /\ lastSeq' = lastSeq
      BY <1>2 DEF SetOwn
    <2>3. HeightsInv' /\ lastSeq <= lastSeq'
      BY <1>1, <2>2 DEF HeightsInv
    <2> QED
      BY <2>1, <2>2, <2>3, WriterMoved
  <1>3. CASE Publish
    <2>1. /\ NodesInv' /\ ListInv' /\ InsertInv' /\ Nodes' = Nodes
          /\ \A l \in SkipLevel : Live(l) \subseteq Live(l)'
      BY <1>1, <1>3, PublishStep
    <2>2. heights' = heights /\ reading' = reading /\ lastSeq' = lastSeq
      BY <1>3 DEF Publish
    <2>3. HeightsInv' /\ lastSeq <= lastSeq'
      BY <1>1, <2>2 DEF HeightsInv
    <2> QED
      BY <2>1, <2>2, <2>3, WriterMoved
  <1>4. CASE SetLastSequence
    <2>1. /\ NodesInv' /\ ListInv' /\ InsertInv' /\ Nodes' = Nodes /\ lastSeq' = lastSeq + 1
          /\ \A l \in SkipLevel : Live(l)' = Live(l)
      BY <1>1, <1>4, SetLastSequenceStep
    <2>2. heights' = heights /\ reading' = reading
      BY <1>4 DEF SetLastSequence
    <2>3. HeightsInv' /\ lastSeq <= lastSeq'
      BY <1>1, <2>1, <2>2 DEF HeightsInv
    <2> QED
      BY <2>1, <2>2, <2>3, WriterMoved
  <1> QED
    BY <1>2, <1>3, <1>4

\* A search that starts at head_, from any height there ever was.
LEMMA SearchStep ==
    ASSUME SkipInv, NEW r \in SkipReader, NEW op \in {"seek", "prev", "get", "last"}, NEW target,
           Search(r, op, target), op # "last" => Point(target), op = "get" => target.seq <= lastSeq
    PROVE  SkipInv'
  <1>1. PICK h \in heights : Started(r, op, target, HeadNode, h)
    BY DEF Search
  <1>2. h \in SkipLevel
    BY <1>1 DEF SkipInv, HeightsInv
  <1>3. HeadNode \in Live(h)
    BY <1>2, LiveParts DEF SkipInv
  <1>4. op \in {"seek", "prev", "get"} => Point(target) /\ Follows(HeadNode, target)
    BY DEF Follows
  <1>5. op \in {"seek", "prev", "get", "last", "first", "next"} /\ op # "next" /\ op # "first"
    OBVIOUS
  <1> QED
    BY <1>1, <1>2, <1>3, <1>4, <1>5, StartedStep

\* A reader's steps.
LEMMA ReaderStep ==
    ASSUME SkipInv, NEW r \in SkipReader,
           \/ \E k \in SkipKey : SkipSeek(r, [key |-> k, seq |-> MaxInserts]) \/ MemTableGet(r, k)
           \/ SkipSeekToFirst(r) \/ SkipSeekToLast(r) \/ SkipNext(r) \/ SkipPrev(r) \/ Load(r)
    PROVE  SkipInv'
  <1>0. /\ lastSeq \in Nat /\ MaxInserts \in Nat /\ SkipKey \subseteq Int /\ 1 \in SkipLevel
        /\ reading[r].node = Nil \/ reading[r].node \in Entries(1)
    BY SkipListAssumption, Levels DEF SkipInv, NodesInv, ReadersInv, CallInv, NoCall
  <1>1. \A a \in Entries(1) : a \in Live(1) /\ a # HeadNode /\ Point(a)
    BY <1>0, NodesChain DEF SkipInv, Chain, Entries
  <1>2. CASE \E k \in SkipKey : SkipSeek(r, [key |-> k, seq |-> MaxInserts])
    <2>1. PICK k \in SkipKey : SkipSeek(r, [key |-> k, seq |-> MaxInserts])
      BY <1>2
    <2>2. PICK t : t = [key |-> k, seq |-> MaxInserts]
      OBVIOUS
    <2>3. Point(t)
      BY <1>0, <2>1, <2>2 DEF Point
    <2>4. Search(r, "seek", t)
      BY <2>1, <2>2 DEF SkipSeek
    <2> QED
      BY <2>3, <2>4, SearchStep
  <1>3. CASE \E k \in SkipKey : MemTableGet(r, k)
    <2>1. PICK k \in SkipKey : MemTableGet(r, k)
      BY <1>3
    <2>2. PICK t : t = [key |-> k, seq |-> lastSeq]
      OBVIOUS
    <2>3. Point(t) /\ t.seq <= lastSeq
      BY <1>0, <2>1, <2>2 DEF Point
    <2>4. Search(r, "get", t)
      BY <2>1, <2>2 DEF MemTableGet
    <2> QED
      BY <2>3, <2>4, SearchStep
  <1>4. CASE SkipSeekToFirst(r)
    <2>1. HeadNode \in Live(1)
      BY <1>0, LiveParts DEF SkipInv
    <2>2. Started(r, "first", Nil, HeadNode, 1)
      BY <1>4 DEF SkipSeekToFirst
    <2> QED
      BY <1>0, <2>1, <2>2, StartedStep
  <1>5. CASE SkipSeekToLast(r)
    BY <1>5, SearchStep DEF SkipSeekToLast
  <1>6. CASE SkipNext(r)
    <2>1. PICK n : n = reading[r].node
      OBVIOUS
    <2>2. n \in Live(1) /\ n # HeadNode /\ Started(r, "next", n, n, 1)
      BY <1>0, <1>1, <1>6, <2>1 DEF SkipNext
    <2> QED
      BY <1>0, <2>2, StartedStep
  <1>7. CASE SkipPrev(r)
    <2>1. PICK n : n = reading[r].node
      OBVIOUS
    <2>2. Point(n) /\ Search(r, "prev", n)
      BY <1>0, <1>1, <1>7, <2>1 DEF SkipPrev
    <2> QED
      BY <2>2, SearchStep
  <1>8. CASE Load(r)
    <2>1. PICK c : c = reading[r]
      OBVIOUS
    <2>2. PICK x : x = next[c.level][c.at]
      OBVIOUS
    <2>3. PICK d : d = LoadStep(c, x)
      OBVIOUS
    <2>4. c.busy /\ reading' = [reading EXCEPT ![r] = d]
          /\ next' = next /\ heights' = heights /\ inserting' = inserting /\ lastSeq' = lastSeq
      BY <1>8, <2>1, <2>2, <2>3 DEF Load
    <2>5. CallInv(c)
      BY <2>1, <2>4 DEF SkipInv, ReadersInv, NoCall
    <2>6. CallInv(d)
      BY <2>2, <2>3, <2>4, <2>5, LoadStepIsSound DEF SkipInv
    <2> QED
      BY <2>4, <2>6, ReaderMoved
  <1> QED
    BY <1>2, <1>3, <1>4, <1>5, <1>6, <1>7, <1>8

\* The empty list.
LEMMA InitSound == SkipInit => SkipInv
  <1> SUFFICES ASSUME SkipInit
               PROVE  SkipInv
    OBVIOUS
  <1>1. /\ DOMAIN next = SkipLevel /\ \A l \in SkipLevel : DOMAIN next[l] = {HeadNode} /\ next[l][HeadNode] = Nil
        /\ inserting = IdleInsert /\ lastSeq = 0 /\ heights = {1} /\ 1 \in SkipLevel
        /\ DOMAIN reading = SkipReader /\ \A r \in SkipReader : reading[r] = NoCall
    BY Levels DEF SkipInit
  <1>2. IsFiniteSet({HeadNode})
    BY FS_Singleton
  <1>3. Nodes = {}
    BY <1>1 DEF Nodes
  <1>4. NodesInv
    BY <1>1, <1>2, <1>3 DEF NodesInv
  <1>5. \A l \in SkipLevel : Live(l) = {HeadNode} /\ Entries(l) = {}
    BY <1>1 DEF Live, Entries, Pending, IdleInsert
  <1>6. ListInv
    BY <1>1, <1>5 DEF ListInv, FirstAfter
  <1>7. InsertInv /\ HeightsInv /\ ReadersInv
    BY <1>1 DEF InsertInv, HeightsInv, ReadersInv
  <1> QED
    BY <1>1, <1>4, <1>6, <1>7 DEF SkipInv

\* Every step of the writer and of the readers keeps the invariant.
LEMMA SkipInductive == SkipInv /\ [SkipStep]_skipVars => SkipInv'
  <1> SUFFICES ASSUME SkipInv, [SkipStep]_skipVars
               PROVE  SkipInv'
    OBVIOUS
  <1>1. CASE \E k \in SkipKey, del \in BOOLEAN, h \in RandomHeight : InsertBegin([key |-> k, seq |-> lastSeq + 1, del |-> del], h)
    <2>1. PICK k \in SkipKey, del \in BOOLEAN, h \in RandomHeight : InsertBegin([key |-> k, seq |-> lastSeq + 1, del |-> del], h)
      BY <1>1
    <2>2. PICK e : e = [key |-> k, seq |-> lastSeq + 1, del |-> del]
      OBVIOUS
    <2>3. InsertBegin(e, h)
      BY <2>1, <2>2
    <2>4. lastSeq \in Nat /\ MaxInserts \in Nat /\ e.seq = lastSeq + 1 /\ e.seq <= MaxInserts
      BY <2>2, <2>3, SkipListAssumption DEF SkipInv, NodesInv, InsertBegin
    <2>5. lastSeq + 1 \in 1 .. MaxInserts
      BY <2>4
    <2>6. e \in SkipEntry
      BY <2>1, <2>2, <2>5 DEF SkipEntry
    <2> QED
      BY <2>1, <2>3, <2>4, <2>6, InsertBeginStep
  <1>2. CASE SetOwn \/ Publish \/ SetLastSequence
    BY <1>2, WriterStep
  <1>3. CASE \E r \in SkipReader :
               \/ \E k \in SkipKey : SkipSeek(r, [key |-> k, seq |-> MaxInserts]) \/ MemTableGet(r, k)
               \/ SkipSeekToFirst(r) \/ SkipSeekToLast(r) \/ SkipNext(r) \/ SkipPrev(r) \/ Load(r)
    BY <1>3, ReaderStep
  <1>4. CASE UNCHANGED skipVars
    <2>1. next' = next /\ heights' = heights /\ inserting' = inserting /\ lastSeq' = lastSeq /\ reading' = reading
      BY <1>4 DEF skipVars
    <2>2. /\ NodesInv' /\ ListInv' /\ InsertInv' /\ HeightsInv'
      BY <2>1, ReaderKeeps DEF SkipInv
    <2>3. (\A l \in SkipLevel : Live(l) \subseteq Live(l)') /\ Nodes' = Nodes
      BY <2>1 DEF Live, Pending, Nodes
    <2>4. lastSeq <= lastSeq'
      BY <2>1 DEF SkipInv, NodesInv
    <2> QED
      BY <2>1, <2>2, <2>3, <2>4, WriterMoved
  <1> QED
    BY <1>1, <1>2, <1>3, <1>4 DEF SkipStep

-----------------------------------------------------------------------------
(* What it means for the readers *)

\* Every level is sorted and a part of the list, and no reader stands where a
\* pointer is still missing.
LEMMA ListsAreSound == SkipInv => SkipTypeOK
  <1> SUFFICES ASSUME SkipInv
               PROVE  SkipTypeOK
    OBVIOUS
  <1>0. NodesInv /\ ListInv /\ InsertInv /\ 1 \in SkipLevel /\ \A l \in SkipLevel : 1 <= l
    BY Levels DEF SkipInv
  <1>1. Linked = Entries(1)
    BY <1>0, LinkedEntries
  <1>2. ASSUME NEW l \in SkipLevel
        PROVE  Entries(l) \subseteq Linked /\ Entries(l) \subseteq DOMAIN next[l]
    BY <1>0, <1>1 DEF ListInv, Entries, Live
  <1>3. \A l \in SkipLevel : \A a \in Entries(l) : a # Garbage /\ a # HeadNode
    BY <1>0, NodesChain, EntryIsPoint DEF NodesInv
  <1>4. Nil # Garbage
    BY SkipListAssumption
  <1>5. ASSUME NEW l \in SkipLevel, NEW n \in Live(l)
        PROVE  /\ next[l][n] = Nil \/ (next[l][n] \in Entries(l) /\ (n = HeadNode \/ Before(n, next[l][n])))
               /\ next[l][n] # Garbage
    BY <1>0, <1>3, <1>4 DEF ListInv, FirstAfter, Follows
  <1>6. ASSUME NEW l \in SkipLevel, NEW n \in DOMAIN next[l], n \notin Live(l)
        PROVE  /\ inserting.pc \in {"own", "publish"} /\ n = inserting.entry
               /\ \/ next[l][n] \in {Nil, Garbage}
                  \/ next[l][n] \in Entries(l) /\ Before(n, next[l][n])
    <2>1. Pending(l) /\ n = inserting.entry /\ inserting.pc \in {"own", "publish"}
      BY <1>6 DEF Live, Pending
    <2>2. PendingAt(l)
      BY <1>0, <2>1, UnderWay
    <2>3. PICK p : p = inserting.prev[l]
      OBVIOUS
    <2>4. next[l][n] = Garbage \/ next[l][n] = next[l][p]
      BY <2>1, <2>2, <2>3 DEF PendingAt
    <2>5. LastBefore(Entries(l), p, n)
      BY <2>1, <2>2, <2>3 DEF PendingAt
    <2>6. p \in Live(l)
      BY <1>0, <2>5, LiveParts DEF LastBefore
    <2>7. FirstAfter(Entries(l), p, next[l][p])
      BY <1>0, <2>6 DEF ListInv
    <2>8. n \in Nodes /\ n \notin Entries(l)
      <3>1. n # HeadNode
        BY <1>0, <2>1, UnderWay, EntryIsPoint
      <3> QED
        BY <1>0, <1>6, <3>1 DEF NodesInv, Nodes, Entries
    <2>9. Chain(Entries(l) \cup {n})
      BY <1>0, <2>8, NodesChain DEF Chain
    <2>10. FirstAfter(Entries(l) \cup {n}, n, next[l][p])
      BY <2>5, <2>7, <2>8, <2>9, NewLeads
    <2>11. next[l][p] = Nil \/ (next[l][p] \in Entries(l) /\ Before(n, next[l][p]))
      BY <1>0, <2>1, <2>7, <2>10, UnderWay, EntryIsPoint DEF FirstAfter, Follows
    <2> QED
      BY <2>1, <2>4, <2>11
  <1>7. ASSUME NEW l \in SkipLevel, NEW n \in DOMAIN next[l]
        PROVE  /\ \/ next[l][n] \in {Nil, Garbage}
                  \/ (next[l][n] \in Linked /\ next[l][n] \in DOMAIN next[l] /\ (n = HeadNode \/ Before(n, next[l][n])))
               /\ next[l][n] = Garbage => inserting.pc \in {"own", "publish"} /\ n = inserting.entry
    <2>1. CASE n \in Live(l)
      BY <1>2, <1>5, <2>1
    <2>2. CASE n \notin Live(l)
      BY <1>2, <1>6, <2>2
    <2> QED
      BY <2>1, <2>2
  <1>8. ASSUME NEW r \in SkipReader, reading[r].busy
        PROVE  next[reading[r].level][reading[r].at] # Garbage
    <2>1. CallInv(reading[r])
      BY <1>8 DEF SkipInv, ReadersInv, NoCall
    <2>2. PICK c : c = reading[r]
      OBVIOUS
    <2>3. c.level \in SkipLevel /\ c.at \in Live(c.level)
      BY <2>1, <2>2 DEF CallInv
    <2> QED
      BY <1>5, <2>2, <2>3
  <1> QED
    BY <1>7, <1>8 DEF SkipTypeOK

\* A finished search is exact about all that was linked when it began.
LEMMA SearchesAreExact == SkipInv => SearchExact
  <1> SUFFICES ASSUME SkipInv, NEW r \in SkipReader, reading[r].op # "none", ~reading[r].busy
               PROVE  /\ reading[r].node # Nil => reading[r].node \in Linked
                      /\ \A e \in reading[r].seen : ~Between(reading[r], e)
    BY DEF SearchExact
  <1>1. CallInv(reading[r])
    BY DEF SkipInv, ReadersInv, NoCall
  <1>2. Linked = Entries(1)
    BY LinkedEntries DEF SkipInv
  <1> QED
    BY <1>1, <1>2 DEF CallInv

\* The value of a set of entries is that of its newest.
LEMMA ValueOf ==
    ASSUME NEW S, NEW n \in S, \A y \in S : y.seq <= n.seq,
           \A x \in S : (\A y \in S : y.seq <= x.seq) => x = n
    PROVE  Value(S) = IF n.del THEN 0 ELSE n.seq
  <1> DEFINE e == CHOOSE x \in S : \A y \in S : y.seq <= x.seq
  <1>1. e = n
    OBVIOUS
  <1>2. Value(S) = IF e.del THEN 0 ELSE e.seq
    BY Zenon DEF Value
  <1> HIDE DEF e
  <1> QED
    BY <1>1, <1>2

\* Stopping at n, a lookup of t in the entries E answers what E holds.
HitIsRight(E, t, n) ==
    LET held == Found(E, t.key, t.seq)
        hit == n # Nil /\ n.key = t.key
    IN  IF held = {} THEN ~hit ELSE hit /\ Value({n}) = Value(held)

\* What a lookup stops at is the newest entry of the key in its snapshot.
LEMMA GetFindsNewest ==
    ASSUME NEW E, NEW t, Point(t), NEW n, n = Nil \/ (n \in E /\ ~Before(n, t)),
           \A a \in E : Point(a) /\ a # Nil, \A a, b \in E : a.seq = b.seq => a = b,
           \A e \in E : e.seq <= t.seq => Before(e, t) \/ ~(n = Nil \/ Before(e, n))
    PROVE  HitIsRight(E, t, n)
  <1> DEFINE held == Found(E, t.key, t.seq)
  <1>1. \A e : e \in held <=> e \in E /\ e.key = t.key /\ e.seq <= t.seq
    BY DEF Found
  <1>2. ASSUME n # Nil, n.key = t.key
        PROVE  n \in held
    <2>1. n \in E /\ Point(n) /\ ~Before(n, t)
      BY <1>2
    <2>2. n.seq <= t.seq
      BY <1>2, <2>1 DEF Before, Point
    <2> QED
      BY <1>1, <1>2, <2>1, <2>2
  <1>3. ASSUME NEW e \in held
        PROVE  n # Nil /\ n.key = t.key /\ e.seq <= n.seq
    <2>1. e \in E /\ Point(e) /\ e.key = t.key /\ e.seq <= t.seq
      BY <1>1, <1>3
    <2>2. ~Before(e, t)
      BY <2>1 DEF Before, Point
    <2>3. n # Nil /\ ~Before(e, n)
      BY <2>1, <2>2
    <2>4. Point(n) /\ ~Before(n, t)
      BY <2>3
    <2> QED
      BY <2>1, <2>3, <2>4 DEF Before, Point
  <1> HIDE DEF held
  <1>4. CASE held = {}
    BY <1>2, <1>4 DEF held, HitIsRight
  <1>5. CASE held # {}
    <2>1. n # Nil /\ n.key = t.key /\ n \in held
      BY <1>2, <1>3, <1>5
    <2>2. \A y \in held : y.seq <= n.seq
      BY <1>3
    <2>3. \A x \in held : (\A y \in held : y.seq <= x.seq) => x = n
      <3> SUFFICES ASSUME NEW x \in held, \A y \in held : y.seq <= x.seq
                   PROVE  x = n
        OBVIOUS
      <3>1. x \in E /\ n \in E /\ n.seq <= x.seq /\ x.seq <= n.seq
        BY <1>1, <2>1, <2>2
      <3>2. x.seq \in Int /\ n.seq \in Int
        BY <3>1 DEF Point
      <3>3. x.seq = n.seq
        BY <3>1, <3>2
      <3> QED
        BY <3>1, <3>3
    <2>4. Value(held) = IF n.del THEN 0 ELSE n.seq
      BY <2>1, <2>2, <2>3, ValueOf
    <2>5. Value({n}) = IF n.del THEN 0 ELSE n.seq
      <3>1. PICK S : S = {n}
        OBVIOUS
      <3>2. n \in S /\ (\A y \in S : y.seq <= n.seq) /\ \A x \in S : x = n
        BY <2>1, <2>2, <3>1
      <3>3. Value(S) = IF n.del THEN 0 ELSE n.seq
        BY <3>2, ValueOf
      <3> QED
        BY <3>1, <3>3
    <2> QED
      BY <1>5, <2>1, <2>4, <2>5 DEF held, HitIsRight
  <1> QED
    BY <1>4, <1>5

\* MemTable::Get returns what its snapshot holds, whatever was added since.
LEMMA GetsAreExact == SkipInv => MemTableGetExact
  <1> SUFFICES ASSUME SkipInv, NEW r \in SkipReader, NEW c, c = reading[r], c.op = "get", ~c.busy
               PROVE  HitIsRight(Linked, c.target, c.node)
    BY DEF MemTableGetExact, HitIsRight
  <1>1. CallInv(c)
    BY DEF SkipInv, ReadersInv, NoCall
  <1>2. Linked = Entries(1) /\ Entries(1) \subseteq Nodes
    BY LinkedEntries, NodesChain, Levels DEF SkipInv
  <1>3. \A a \in Linked : Point(a) /\ a # Nil
    BY <1>2, NodesChain DEF SkipInv, Chain
  <1>4. \A a, b \in Linked : a.seq = b.seq => a = b
    BY <1>2 DEF SkipInv, NodesInv
  <1>5. Point(c.target) /\ (c.node = Nil \/ (c.node \in Linked /\ ~Before(c.node, c.target)))
    BY <1>1, <1>2 DEF CallInv
  <1>6. ASSUME NEW e \in Linked, e.seq <= c.target.seq
        PROVE  Before(e, c.target) \/ ~(c.node = Nil \/ Before(e, c.node))
    <2>1. e \in c.seen
      BY <1>1, <1>2, <1>6 DEF CallInv
    <2>2. ~Between(c, e)
      BY <1>1, <2>1 DEF CallInv
    <2> QED
      BY <2>2 DEF Between
  <1>7. PICK n : n = c.node
    OBVIOUS
  <1>8. PICK t : t = c.target
    OBVIOUS
  <1> QED
    BY <1>3, <1>4, <1>5, <1>6, <1>7, <1>8, GetFindsNewest

\* The memtable's lists are sound at every step of an Insert, and every search
\* and every lookup without a lock is exact, for any keys, readers, heights and
\* number of inserts.
THEOREM MemtableIsExact == SkipSpec => []SkipListExact
  <1>1. SkipInv => SkipListExact
    BY ListsAreSound, SearchesAreExact, GetsAreExact DEF SkipListExact
  <1> QED
    BY <1>1, InitSound, SkipInductive, PTL DEF SkipSpec

-----------------------------------------------------------------------------
(* Arena: the invariant *)

\* The types.
Span == [at : Nat, size : Nat \ {0}]
Object == [at : Nat, size : Nat \ {0}, aligned : BOOLEAN]
ArenaTypes ==
    arena \in [ptr : Nat, remaining : Nat, blocks : Seq(Span), usage : Nat, given : Seq(Object)]

\* new char[] gives memory above what it gave before, and the objects lie in
\* the blocks, apart.
Apart(r, s) == End(r) <= s.at \/ End(s) <= r.at
Members(blocks) == {blocks[i] : i \in DOMAIN blocks}
Rising(blocks) == \A i, j \in DOMAIN blocks : i < j => End(blocks[i]) <= blocks[j].at
Placed(given, all) ==
    \A i \in DOMAIN given :
        /\ \E b \in all : Inside(given[i], b)
        /\ given[i].aligned => given[i].at % ArenaAlign = 0
        /\ \A j \in 1..(i - 1) : Apart(given[i], given[j])

\* The current block is used from its front up to alloc_ptr_, with less than
\* the alignment lost before each aligned object; the others are full, but for
\* what a quarter of a block did not fit in.
InUse(b, ptr, remaining) == remaining > 0 /\ End(b) = ptr + remaining
UsedUpTo(b, ptr, given) ==
    /\ b.at <= ptr
    /\ \A i \in DOMAIN given : Inside(given[i], b) => End(given[i]) <= ptr
    /\ ptr - b.at - Cardinality(BytesUsed(given, b)) <= Slop(given, b)
Full(b, given) ==
    b.size - Cardinality(BytesUsed(given, b)) < (kBlockSize \div 4) + ArenaAlign + Slop(given, b)
Filled(ptr, remaining, all, given) ==
    /\ remaining > 0 => \E b \in all : InUse(b, ptr, remaining) /\ UsedUpTo(b, ptr, given)
    /\ \A b \in all : ~InUse(b, ptr, remaining) => Full(b, given)
Counted(blocks, usage) ==
    usage = Cardinality(UNION {Bytes(b) : b \in Members(blocks)}) + Len(blocks) * ArenaAlign

Sound(ptr, remaining, blocks, usage, given) ==
    /\ ptr \in Nat /\ remaining \in Nat /\ blocks \in Seq(Span) /\ usage \in Nat /\ given \in Seq(Object)
    /\ Rising(blocks) /\ Placed(given, Members(blocks))
    /\ Filled(ptr, remaining, Members(blocks), given) /\ Counted(blocks, usage)
ArenaInv ==
    /\ ArenaTypes
    /\ Sound(arena.ptr, arena.remaining, arena.blocks, arena.usage, arena.given)

-----------------------------------------------------------------------------
(* Arena: addresses and bytes *)

\* The next aligned address.
LEMMA RoundUpIs ==
    ASSUME NEW a \in Nat
    PROVE  /\ RoundUp(a) \in Nat /\ a <= RoundUp(a) /\ RoundUp(a) < a + ArenaAlign
           /\ RoundUp(a) % ArenaAlign = 0 /\ (RoundUp(a) + ArenaAlign) % ArenaAlign = 0
<1>1. ArenaAlign \in Nat \ {0}
  BY ArenaAssumption
<1> DEFINE q == (a + ArenaAlign - 1) \div ArenaAlign
<1>2. q \in Nat /\ q * ArenaAlign <= a + ArenaAlign - 1 /\ a + ArenaAlign - 1 < q * ArenaAlign + ArenaAlign
  BY <1>1
<1>3. RoundUp(a) = q * ArenaAlign /\ RoundUp(a) \in Nat
  BY <1>1, <1>2 DEF RoundUp
<1> HIDE DEF q
<1>4. \A n, m \in Nat : m # 0 => (n * m) % m = 0
  OBVIOUS
<1>5. RoundUp(a) % ArenaAlign = 0
  BY <1>1, <1>2, <1>3, <1>4
<1>6. RoundUp(a) + ArenaAlign = (q + 1) * ArenaAlign
  BY <1>1, <1>2, <1>3
<1> QED
  BY <1>1, <1>2, <1>3, <1>4, <1>5, <1>6

\* The bytes of a block or an object.
LEMMA BytesAre ==
    ASSUME NEW r, r.at \in Nat, r.size \in Nat \ {0}
    PROVE  IsFiniteSet(Bytes(r)) /\ Cardinality(Bytes(r)) = r.size /\ \A x \in Bytes(r) : x \in Nat
<1>1. r.at \in Int /\ End(r) - 1 \in Int /\ r.at <= End(r) - 1 /\ (End(r) - 1) - r.at + 1 = r.size
  BY DEF End
<1>2. IsFiniteSet(r.at .. (End(r) - 1)) /\ Cardinality(r.at .. (End(r) - 1)) = (End(r) - 1) - r.at + 1
  BY <1>1, FS_Interval
<1> QED
  BY <1>1, <1>2 DEF Bytes
LEMMA ApartBytes ==
    ASSUME NEW r, NEW s, r.at \in Nat, r.size \in Nat \ {0}, s.at \in Nat, s.size \in Nat \ {0}
    PROVE  /\ Apart(r, s) => Bytes(r) \cap Bytes(s) = {} /\ ~Inside(r, s) /\ Apart(s, r)
           /\ Inside(r, s) => Bytes(r) \subseteq Bytes(s)
BY DEF Apart, Bytes, End, Inside

\* One more object.
LEMMA OneMore ==
    ASSUME NEW g \in Seq(Object), NEW o \in Object, NEW h, h = Append(g, o)
    PROVE  /\ h \in Seq(Object) /\ DOMAIN h = DOMAIN g \cup {Len(g) + 1} /\ h[Len(g) + 1] = o
           /\ \A i \in DOMAIN g : h[i] = g[i] /\ g[i] \in Object /\ i \in Nat /\ i <= Len(g)
           /\ Len(g) + 1 \notin DOMAIN g /\ DOMAIN g = 1 .. Len(g) /\ Len(g) \in Nat
OBVIOUS

\* How the bytes used of a block grow: by those of an object inside it.
LEMMA UsedType ==
    ASSUME NEW g, NEW b \in Span
    PROVE  IsFiniteSet(BytesUsed(g, b)) /\ Cardinality(BytesUsed(g, b)) \in Nat
<1>1. IsFiniteSet(Bytes(b))
  BY BytesAre DEF Span
<1>2. BytesUsed(g, b) \in SUBSET Bytes(b)
  BY DEF BytesUsed
<1> QED
  BY <1>1, <1>2, FS_Subset, FS_CardinalityType
LEMMA UsedMore ==
    ASSUME NEW g \in Seq(Object), NEW o \in Object, NEW b \in Span, Inside(o, b),
           \A i \in DOMAIN g : Apart(g[i], o), NEW h, h = Append(g, o)
    PROVE  Cardinality(BytesUsed(h, b)) = Cardinality(BytesUsed(g, b)) + o.size
<1>1. /\ DOMAIN h = DOMAIN g \cup {Len(g) + 1} /\ h[Len(g) + 1] = o
      /\ \A i \in DOMAIN g : h[i] = g[i] /\ g[i] \in Object
  BY OneMore
<1>2. /\ o.at \in Nat /\ o.size \in Nat \ {0} /\ b.at \in Nat /\ b.size \in Nat \ {0}
      /\ \A i \in DOMAIN g : g[i].at \in Nat /\ g[i].size \in Nat \ {0}
  BY <1>1 DEF Object, Span
<1>3. Bytes(o) \subseteq Bytes(b) /\ \A i \in DOMAIN g : Bytes(g[i]) \cap Bytes(o) = {}
  BY <1>2, ApartBytes
<1>4. BytesUsed(h, b) = BytesUsed(g, b) \cup Bytes(o)
  BY <1>1, <1>3 DEF BytesUsed
<1>5. BytesUsed(g, b) \cap Bytes(o) = {}
  BY <1>3 DEF BytesUsed
<1>6. IsFiniteSet(BytesUsed(g, b)) /\ Cardinality(BytesUsed(g, b)) \in Nat /\ IsFiniteSet(Bytes(o)) /\ Cardinality(Bytes(o)) = o.size
  BY <1>2, UsedType, BytesAre
<1>7. Cardinality(BytesUsed(g, b) \cup Bytes(o))
        = Cardinality(BytesUsed(g, b)) + Cardinality(Bytes(o)) - Cardinality(BytesUsed(g, b) \cap Bytes(o))
  BY <1>6, FS_Union
<1>8. Cardinality(BytesUsed(g, b) \cap Bytes(o)) = 0
  BY <1>5, FS_EmptySet
<1> QED
  BY <1>2, <1>4, <1>6, <1>7, <1>8
LEMMA UsedSame ==
    ASSUME NEW g \in Seq(Object), NEW o \in Object, NEW b \in Span, Apart(o, b), NEW h, h = Append(g, o)
    PROVE  BytesUsed(h, b) = BytesUsed(g, b)
<1>1. /\ DOMAIN h = DOMAIN g \cup {Len(g) + 1} /\ h[Len(g) + 1] = o
      /\ \A i \in DOMAIN g : h[i] = g[i] /\ g[i] \in Object
  BY OneMore
<1>2. o.at \in Nat /\ o.size \in Nat \ {0} /\ b.at \in Nat /\ b.size \in Nat \ {0}
  BY DEF Object, Span
<1>3. Bytes(o) \cap Bytes(b) = {}
  BY <1>2, ApartBytes
<1> QED
  BY <1>1, <1>3 DEF BytesUsed

\* How the slop of a block grows: with an aligned object inside it.
LEMMA SlopIs ==
    ASSUME NEW g \in Seq(Object), NEW o \in Object, NEW b \in Span, NEW h, h = Append(g, o)
    PROVE  /\ Slop(g, b) \in Nat
           /\ Inside(o, b) /\ o.aligned => Slop(h, b) = Slop(g, b) + (ArenaAlign - 1)
           /\ ~Inside(o, b) \/ ~o.aligned => Slop(h, b) = Slop(g, b)
<1>1. /\ DOMAIN h = DOMAIN g \cup {Len(g) + 1} /\ h[Len(g) + 1] = o
      /\ \A i \in DOMAIN g : h[i] = g[i] /\ g[i] \in Object
      /\ Len(g) + 1 \notin DOMAIN g /\ DOMAIN g = 1 .. Len(g) /\ Len(g) \in Nat
  BY OneMore
<1>2. IsFiniteSet(AlignedIn(g, b)) /\ Cardinality(AlignedIn(g, b)) \in Nat
  <2>1. IsFiniteSet(1 .. Len(g))
    BY <1>1, FS_Interval
  <2>2. AlignedIn(g, b) \in SUBSET (1 .. Len(g))
    BY <1>1 DEF AlignedIn
  <2> QED
    BY <2>1, <2>2, FS_Subset, FS_CardinalityType
<1>3. ArenaAlign - 1 \in Nat
  BY ArenaAssumption
<1>4. \A n, m \in Nat : n * m \in Nat /\ (n + 1) * m = n * m + m
  OBVIOUS
<1>5. Slop(g, b) \in Nat
  BY <1>2, <1>3, <1>4 DEF Slop
<1>6. ASSUME Inside(o, b), o.aligned PROVE Slop(h, b) = Slop(g, b) + (ArenaAlign - 1)
  <2>1. AlignedIn(h, b) = AlignedIn(g, b) \cup {Len(g) + 1}
    BY <1>1, <1>6 DEF AlignedIn
  <2>2. Len(g) + 1 \notin AlignedIn(g, b)
    BY <1>1 DEF AlignedIn
  <2>3. Cardinality(AlignedIn(h, b)) = Cardinality(AlignedIn(g, b)) + 1
    BY <1>2, <2>1, <2>2, FS_AddElement
  <2> QED
    BY <1>2, <1>3, <1>4, <2>3 DEF Slop
<1>7. ASSUME ~Inside(o, b) \/ ~o.aligned PROVE Slop(h, b) = Slop(g, b)
  <2>1. AlignedIn(h, b) = AlignedIn(g, b)
    BY <1>1, <1>7 DEF AlignedIn
  <2> QED
    BY <2>1 DEF Slop
<1> QED
  BY <1>5, <1>6, <1>7

-----------------------------------------------------------------------------
(* Arena: a step *)

\* The blocks are apart from one another.
LEMMA BlocksAre ==
    ASSUME NEW bs \in Seq(Span), Rising(bs)
    PROVE  /\ \A b \in Members(bs) : b \in Span /\ b.at \in Nat /\ b.size \in Nat \ {0}
           /\ \A b, d \in Members(bs) : b # d => Apart(b, d) /\ End(b) # End(d)
<1>2. \A i \in DOMAIN bs : bs[i] \in Span /\ i \in Nat
  OBVIOUS
<1>3. \A b \in Members(bs) : b \in Span /\ b.at \in Nat /\ b.size \in Nat \ {0}
  BY <1>2 DEF Members, Span
<1>4. ASSUME NEW b \in Members(bs), NEW d \in Members(bs), b # d PROVE Apart(b, d) /\ End(b) # End(d)
  <2>1. PICK i \in DOMAIN bs : b = bs[i]
    BY DEF Members
  <2>2. PICK j \in DOMAIN bs : d = bs[j]
    BY DEF Members
  <2>3. i < j \/ j < i
    BY <1>2, <1>4, <2>1, <2>2
  <2>4. End(b) <= d.at \/ End(d) <= b.at
    BY <2>1, <2>2, <2>3 DEF Rising
  <2> QED
    BY <1>3, <2>4 DEF Apart, End
<1> QED
  BY <1>3, <1>4

\* A new object that lies in one of the blocks, apart from the others, keeps
\* all objects apart.
LEMMA PlacedMore ==
    ASSUME NEW g \in Seq(Object), NEW blocks, NEW more, Placed(g, blocks), blocks \subseteq more,
           NEW o \in Object, \E b \in more : Inside(o, b), o.aligned => o.at % ArenaAlign = 0,
           \A i \in DOMAIN g : Apart(g[i], o), NEW h, h = Append(g, o)
    PROVE  Placed(h, more)
<1>1. /\ DOMAIN h = DOMAIN g \cup {Len(g) + 1} /\ h[Len(g) + 1] = o
      /\ \A i \in DOMAIN g : h[i] = g[i] /\ i \in Nat
      /\ DOMAIN g = 1 .. Len(g) /\ Len(g) \in Nat
  BY OneMore
<1>2. ASSUME NEW i \in DOMAIN g
      PROVE  /\ \E b \in more : Inside(h[i], b)
             /\ h[i].aligned => h[i].at % ArenaAlign = 0
             /\ \A j \in 1..(i - 1) : Apart(h[i], h[j])
  <2>1. \A j \in 1..(i - 1) : j \in DOMAIN g
    BY <1>1
  <2> QED
    BY <1>1, <2>1 DEF Placed
<1>3. \A j \in 1..((Len(g) + 1) - 1) : Apart(o, h[j])
  BY <1>1 DEF Apart
<1> QED
  BY <1>1, <1>2, <1>3 DEF Placed

\* The bytes before a block's new object grow by what it takes.
LEMMA UsedUpToMore ==
    ASSUME NEW p \in Nat, NEW c \in Span, NEW g \in Seq(Object), UsedUpTo(c, p, g), NEW o \in Object, Inside(o, c),
           o.at - p \in Nat, o.at - p < ArenaAlign, ~o.aligned => o.at = p,
           \A i \in DOMAIN g : Apart(g[i], o), NEW h, h = Append(g, o)
    PROVE  UsedUpTo(c, End(o), h)
<1>1. /\ DOMAIN h = DOMAIN g \cup {Len(g) + 1} /\ h[Len(g) + 1] = o
      /\ \A i \in DOMAIN g : h[i] = g[i] /\ g[i] \in Object
  BY OneMore
<1>2. o.at \in Nat /\ o.size \in Nat \ {0} /\ End(o) = o.at + o.size /\ c.at \in Nat /\ o.aligned \in BOOLEAN
  BY DEF Object, Span, End
<1>3. /\ c.at <= p /\ p - c.at - Cardinality(BytesUsed(g, c)) <= Slop(g, c)
      /\ \A i \in DOMAIN g : Inside(g[i], c) => End(g[i]) <= p
  BY DEF UsedUpTo
<1>4. /\ Cardinality(BytesUsed(g, c)) \in Nat /\ Slop(g, c) \in Nat
      /\ Cardinality(BytesUsed(h, c)) = Cardinality(BytesUsed(g, c)) + o.size
  BY UsedType, UsedMore, SlopIs
<1>5. Slop(h, c) \in Nat /\ (o.at - p) + Slop(g, c) <= Slop(h, c)
  <2>1. CASE o.aligned
    <3>1. Slop(h, c) = Slop(g, c) + (ArenaAlign - 1) /\ ArenaAlign \in Nat \ {0}
      BY <2>1, SlopIs, ArenaAssumption
    <3> QED
      BY <1>2, <1>4, <3>1
  <2>2. CASE ~o.aligned
    <3>1. Slop(h, c) = Slop(g, c) /\ o.at = p
      BY <2>2, SlopIs
    <3> QED
      BY <1>2, <1>4, <3>1
  <2> QED
    BY <2>1, <2>2
<1>6. c.at <= End(o) /\ End(o) - c.at - Cardinality(BytesUsed(h, c)) <= Slop(h, c)
  <2>1. \A a, e, x, z, q, k, t, y \in Nat :
          /\ a <= p /\ p - a - x <= t /\ e - p \in Nat /\ (e - p) + t <= y /\ q = x + z /\ k = e + z
          => a <= k /\ k - a - q <= y
    OBVIOUS
  <2>2. Cardinality(BytesUsed(h, c)) \in Nat /\ End(o) \in Nat
    BY <1>2, <1>4
  <2> QED
    BY <1>2, <1>3, <1>4, <1>5, <2>1, <2>2
<1>7. ASSUME NEW i \in DOMAIN h, Inside(h[i], c) PROVE End(h[i]) <= End(o)
  <2>1. CASE i \in DOMAIN g
    <3>1. End(h[i]) \in Nat /\ End(h[i]) <= p
      BY <1>1, <1>3, <1>7, <2>1 DEF End, Object
    <3> QED
      BY <1>2, <3>1
  <2>2. CASE i = Len(g) + 1
    BY <1>1, <1>2, <2>2
  <2> QED
    BY <1>1, <2>1, <2>2
<1> QED
  BY <1>6, <1>7 DEF UsedUpTo

\* A block the new object is not in is as full as it was.
LEMMA OtherBlock ==
    ASSUME NEW g \in Seq(Object), NEW o \in Object, NEW b \in Span, Apart(o, b), NEW h, h = Append(g, o)
    PROVE  /\ Full(b, g) => Full(b, h)
           /\ \A p : UsedUpTo(b, p, g) => UsedUpTo(b, p, h)
<1>1. o.at \in Nat /\ o.size \in Nat \ {0} /\ b.at \in Nat /\ b.size \in Nat \ {0}
  BY DEF Object, Span
<1>2. ~Inside(o, b)
  BY <1>1, ApartBytes
<1>3. BytesUsed(h, b) = BytesUsed(g, b) /\ Slop(h, b) = Slop(g, b)
  BY <1>2, UsedSame, SlopIs
<1>4. /\ DOMAIN h = DOMAIN g \cup {Len(g) + 1} /\ h[Len(g) + 1] = o
      /\ \A i \in DOMAIN g : h[i] = g[i]
  BY OneMore
<1>5. \A i \in DOMAIN h : Inside(h[i], b) => i \in DOMAIN g /\ h[i] = g[i]
  BY <1>2, <1>4
<1> QED
  BY <1>3, <1>5 DEF Full, UsedUpTo

\* An object that lies after all of the block in use is apart from every object.
LEMMA ApartFromAll ==
    ASSUME NEW p \in Nat, NEW bs \in Seq(Span), NEW g \in Seq(Object), Rising(bs), Placed(g, Members(bs)),
           NEW c \in Members(bs), \A i \in DOMAIN g : Inside(g[i], c) => End(g[i]) <= p,
           NEW o \in Object, Inside(o, c), p <= o.at
    PROVE  /\ \A b \in Members(bs) : b # c => Apart(o, b)
           /\ \A i \in DOMAIN g : Apart(g[i], o)
<1>1. /\ \A b \in Members(bs) : b \in Span /\ b.at \in Nat /\ b.size \in Nat \ {0}
      /\ \A b, d \in Members(bs) : b # d => Apart(b, d)
  BY BlocksAre
<1>2. o.at \in Nat /\ o.size \in Nat \ {0}
  BY DEF Object
<1>3. ASSUME NEW b \in Members(bs), b # c PROVE Apart(o, b)
  <2>1. Apart(c, b)
    BY <1>1, <1>3
  <2> QED
    BY <1>1, <1>2, <2>1 DEF Apart, Inside, End
<1>4. ASSUME NEW i \in DOMAIN g PROVE Apart(g[i], o)
  <2>1. g[i] \in Object
    OBVIOUS
  <2>2. g[i].at \in Nat /\ g[i].size \in Nat \ {0}
    BY <2>1 DEF Object
  <2>3. PICK b \in Members(bs) : Inside(g[i], b)
    BY DEF Placed
  <2>4. CASE b = c
    <3>1. End(g[i]) <= p /\ End(g[i]) \in Nat
      BY <2>2, <2>3, <2>4 DEF End
    <3> QED
      BY <1>2, <3>1 DEF Apart
  <2>5. CASE b # c
    <3>1. Apart(o, b)
      BY <1>3, <2>5
    <3> QED
      BY <1>1, <1>2, <2>2, <2>3, <3>1 DEF Apart, Inside, End
  <2> QED
    BY <2>4, <2>5
<1> QED
  BY <1>3, <1>4

\* An object from the current block.
LEMMA FromBlockSound ==
    ASSUME NEW p, NEW m, NEW bs, NEW u, NEW g, Sound(p, m, bs, u, g),
           NEW bytes \in Nat \ {0}, NEW slop \in Nat, slop < ArenaAlign, NEW al \in BOOLEAN,
           ~al => slop = 0, al => (p + slop) % ArenaAlign = 0, bytes + slop <= m,
           NEW o, o = [at |-> p + slop, size |-> bytes, aligned |-> al], NEW h, h = Append(g, o)
    PROVE  Sound(p + slop + bytes, m - slop - bytes, bs, u, h)
<1>1. /\ p \in Nat /\ m \in Nat /\ bs \in Seq(Span) /\ u \in Nat /\ g \in Seq(Object)
      /\ Rising(bs) /\ Placed(g, Members(bs)) /\ Filled(p, m, Members(bs), g) /\ Counted(bs, u)
  BY DEF Sound
<1>2. o \in Object /\ o.at = p + slop /\ o.size = bytes /\ o.aligned = al /\ End(o) = p + slop + bytes
  BY <1>1 DEF Object, End
<1>3. PICK c \in Members(bs) : InUse(c, p, m) /\ UsedUpTo(c, p, g)
  BY <1>1 DEF Filled
<1>4. /\ \A b \in Members(bs) : b \in Span /\ b.at \in Nat /\ b.size \in Nat \ {0}
      /\ \A b, d \in Members(bs) : b # d => Apart(b, d) /\ End(b) # End(d)
  BY <1>1, BlocksAre
<1>5. /\ c.at <= p /\ End(c) = p + m
      /\ \A i \in DOMAIN g : Inside(g[i], c) => End(g[i]) <= p
  BY <1>3 DEF InUse, UsedUpTo
<1>6. Inside(o, c)
  BY <1>1, <1>2, <1>4, <1>5 DEF Inside
<1>7. /\ \A b \in Members(bs) : b # c => Apart(o, b)
      /\ \A i \in DOMAIN g : Apart(g[i], o)
  <2>1. p <= o.at
    BY <1>1, <1>2
  <2> QED
    BY ONLY <1>1, <1>2, <1>5, <1>6, <2>1, ApartFromAll
<1>8. h \in Seq(Object)
  BY <1>1, <1>2
<1>9. Placed(h, Members(bs))
  BY <1>1, <1>2, <1>6, <1>7, PlacedMore
<1>10. UsedUpTo(c, p + slop + bytes, h)
  <2>1. o.at - p \in Nat /\ o.at - p < ArenaAlign /\ (~o.aligned => o.at = p)
    BY <1>1, <1>2, ArenaAssumption
  <2>2. UsedUpTo(c, End(o), h)
    BY <1>1, <1>2, <1>3, <1>4, <1>6, <1>7, <2>1, UsedUpToMore
  <2> QED
    BY <1>2, <2>2
<1>11. \A b \in Members(bs) : InUse(b, p + slop + bytes, m - slop - bytes) <=> (m - slop - bytes > 0 /\ b = c)
  <2>1. (p + slop + bytes) + (m - slop - bytes) = p + m
    BY <1>1
  <2>2. \A b \in Members(bs) : End(b) = p + m <=> b = c
    BY <1>4, <1>5
  <2> QED
    BY <2>1, <2>2 DEF InUse
<1>12. ASSUME NEW b \in Members(bs), ~InUse(b, p + slop + bytes, m - slop - bytes) PROVE Full(b, h)
  <2>1. CASE b # c
    <3>1. ~InUse(b, p, m)
      BY <1>4, <1>5, <2>1 DEF InUse
    <3>2. Full(b, g)
      BY <1>1, <3>1 DEF Filled
    <3> QED
      BY <1>1, <1>2, <1>4, <1>7, <2>1, <3>2, OtherBlock
  <2>2. CASE b = c
    <3>1. m - slop - bytes = 0
      BY <1>1, <1>11, <1>12, <2>2
    <3>2. c.size = (p + slop + bytes) - c.at /\ c.at \in Nat /\ c.size \in Nat
      BY <1>1, <1>4, <1>5, <3>1 DEF End
    <3>3. (p + slop + bytes) - c.at - Cardinality(BytesUsed(h, c)) <= Slop(h, c)
      BY <1>10 DEF UsedUpTo
    <3>4. Cardinality(BytesUsed(h, c)) \in Nat /\ Slop(h, c) \in Nat
      <4>1. c \in Span
        BY <1>4
      <4>2. Cardinality(BytesUsed(h, c)) \in Nat
        BY <4>1, UsedType
      <4>3. Slop(h, c) \in Nat
        BY <1>2, <1>8, <4>1, SlopIs
      <4> QED
        BY <4>2, <4>3
    <3>5. kBlockSize \div 4 \in Nat /\ ArenaAlign \in Nat \ {0}
      BY ArenaAssumption
    <3>6. c.size - Cardinality(BytesUsed(h, c)) < (kBlockSize \div 4) + ArenaAlign + Slop(h, c)
      BY <3>2, <3>3, <3>4, <3>5
    <3> QED
      BY <2>2, <3>6 DEF Full
  <2> QED
    BY <2>1, <2>2
<1>13. Filled(p + slop + bytes, m - slop - bytes, Members(bs), h)
  BY <1>10, <1>11, <1>12 DEF Filled
<1>14. p + slop + bytes \in Nat /\ m - slop - bytes \in Nat
  BY <1>1
<1> QED
  BY <1>1, <1>8, <1>9, <1>13, <1>14 DEF Sound

\* A block after the others.
LEMMA OneMoreBlock ==
    ASSUME NEW bs \in Seq(Span), Rising(bs), NEW c \in Span, \A b \in Members(bs) : End(b) <= c.at,
           NEW cs, cs = Append(bs, c)
    PROVE  /\ cs \in Seq(Span) /\ Members(cs) = Members(bs) \cup {c} /\ Rising(cs) /\ c \notin Members(bs)
           /\ \A u \in Nat : Counted(bs, u) => Counted(cs, u + c.size + ArenaAlign)
           /\ \A b \in Members(bs) : Apart(c, b)
<1>1. /\ cs \in Seq(Span) /\ DOMAIN cs = DOMAIN bs \cup {Len(bs) + 1} /\ cs[Len(bs) + 1] = c
      /\ \A i \in DOMAIN bs : cs[i] = bs[i] /\ i \in Nat /\ i <= Len(bs)
      /\ Len(bs) \in Nat /\ Len(cs) = Len(bs) + 1
  OBVIOUS
<1>2. Members(cs) = Members(bs) \cup {c}
  BY <1>1 DEF Members
<1>3. \A i \in DOMAIN bs : bs[i] \in Members(bs)
  BY DEF Members
<1>4. Rising(cs)
  <2> SUFFICES ASSUME NEW i \in DOMAIN cs, NEW j \in DOMAIN cs, i < j PROVE End(cs[i]) <= cs[j].at
    BY DEF Rising
  <2>1. i \in DOMAIN bs
    BY <1>1
  <2>2. CASE j \in DOMAIN bs
    BY <1>1, <2>1, <2>2 DEF Rising
  <2>3. CASE j = Len(bs) + 1
    BY <1>1, <1>3, <2>1, <2>3
  <2> QED
    BY <1>1, <2>2, <2>3
<1>5. /\ \A b \in Members(bs) : b.at \in Nat /\ b.size \in Nat \ {0} /\ End(b) <= c.at
      /\ c.at \in Nat /\ c.size \in Nat \ {0}
  BY BlocksAre DEF Span
<1>6. c \notin Members(bs)
  BY <1>5 DEF End
<1>7. \A b \in Members(bs) : Apart(c, b)
  BY <1>5 DEF Apart
<1>8. ASSUME NEW u \in Nat, Counted(bs, u) PROVE Counted(cs, u + c.size + ArenaAlign)
  <2> DEFINE X == UNION {Bytes(b) : b \in Members(bs)}
  <2>1. UNION {Bytes(b) : b \in Members(cs)} = X \cup Bytes(c)
    BY <1>2
  <2>2. \A b \in Members(bs) : Bytes(b) \subseteq 0 .. c.at
    BY <1>5 DEF Bytes, End
  <2>3. X \in SUBSET (0 .. c.at)
    BY <2>2
  <2>4. IsFiniteSet(0 .. c.at)
    <3>1. 0 \in Int /\ c.at \in Int
      BY <1>5
    <3> QED
      BY ONLY <3>1, FS_Interval
  <2>5. IsFiniteSet(X) /\ Cardinality(X) \in Nat
    BY <2>3, <2>4, FS_Subset, FS_CardinalityType
  <2>6. IsFiniteSet(Bytes(c)) /\ Cardinality(Bytes(c)) = c.size
    BY <1>5, BytesAre
  <2>7. X \cap Bytes(c) = {}
    <3>1. \A b \in Members(bs) : Bytes(b) \cap Bytes(c) = {}
      BY <1>5 DEF Bytes, End
    <3> QED
      BY <3>1
  <2>8. u = Cardinality(X) + Len(bs) * ArenaAlign
    BY <1>8 DEF Counted
  <2> HIDE DEF X
  <2>9. Cardinality(X \cup Bytes(c)) = Cardinality(X) + Cardinality(Bytes(c)) - Cardinality(X \cap Bytes(c))
    BY <2>5, <2>6, FS_Union
  <2>10. Cardinality(X \cap Bytes(c)) = 0
    BY <2>7, FS_EmptySet
  <2>11. ArenaAlign \in Nat /\ \A n, k \in Nat : (n + 1) * k = n * k + k /\ n * k \in Nat
    BY ArenaAssumption
  <2>12. Len(cs) * ArenaAlign = Len(bs) * ArenaAlign + ArenaAlign /\ Len(bs) * ArenaAlign \in Nat
    BY <1>1, <2>11
  <2>13. Cardinality(X \cup Bytes(c)) = Cardinality(X) + c.size
    BY <1>5, <2>5, <2>6, <2>9, <2>10
  <2>14. u + c.size + ArenaAlign = Cardinality(X \cup Bytes(c)) + Len(cs) * ArenaAlign
    BY <1>5, <2>5, <2>8, <2>11, <2>12, <2>13
  <2> QED
    BY <2>1, <2>14 DEF Counted
<1> QED
  BY <1>1, <1>2, <1>4, <1>6, <1>7, <1>8

\* A block that is not in use any more, or never was, is full but for a quarter.
LEMMA FullIs ==
    ASSUME NEW p \in Nat, NEW m \in Nat, NEW b \in Span, NEW g \in Seq(Object),
           End(b) = p + m, UsedUpTo(b, p, g), m < (kBlockSize \div 4) + ArenaAlign
    PROVE  Full(b, g)
<1>1. b.at \in Nat /\ b.size \in Nat
  BY DEF Span
<1>2. Cardinality(BytesUsed(g, b)) \in Nat
  BY UsedType
<1>3. Slop(g, b) \in Nat
  <2>1. PICK o \in Object : TRUE
    <3>1. [at |-> 0, size |-> 1, aligned |-> FALSE] \in Object
      BY DEF Object
    <3> QED
      BY <3>1
  <2> QED
    BY <2>1, SlopIs
<1>4. kBlockSize \div 4 \in Nat /\ ArenaAlign \in Nat \ {0}
  BY ArenaAssumption
<1>5. b.at <= p /\ p - b.at - Cardinality(BytesUsed(g, b)) <= Slop(g, b) /\ b.size = (p + m) - b.at
  BY <1>1 DEF UsedUpTo, End
<1>6. b.size - Cardinality(BytesUsed(g, b)) < (kBlockSize \div 4) + ArenaAlign + Slop(g, b)
  BY <1>1, <1>2, <1>3, <1>4, <1>5
<1> QED
  BY <1>6 DEF Full

\* An object at the front of a block of its own: nothing was in it before.
LEMMA NewBlockUsed ==
    ASSUME NEW g \in Seq(Object), NEW c \in Span, NEW o \in Object, o.at = c.at, o.size <= c.size,
           \A i \in DOMAIN g : End(g[i]) <= c.at, NEW h, h = Append(g, o)
    PROVE  Inside(o, c) /\ (\A i \in DOMAIN g : Apart(g[i], o)) /\ UsedUpTo(c, End(o), h)
<1>0. \A i \in DOMAIN g : g[i] \in Object
  OBVIOUS
<1>1. /\ c.at \in Nat /\ c.size \in Nat \ {0} /\ o.size \in Nat \ {0}
      /\ \A i \in DOMAIN g : g[i] \in Object
  BY <1>0 DEF Span, Object
<1>2. Inside(o, c) /\ \A i \in DOMAIN g : Apart(g[i], o)
  BY <1>1 DEF Inside, Apart, End
<1>3. \A i \in DOMAIN g : g[i].at \in Nat /\ g[i].size \in Nat \ {0}
  BY <1>1 DEF Object
<1>4. BytesUsed(g, c) = {}
  BY <1>1, <1>3 DEF BytesUsed, Bytes, End
<1>5. Slop(g, c) \in Nat /\ Cardinality(BytesUsed(g, c)) = 0
  BY <1>4, FS_EmptySet, SlopIs
<1>6. UsedUpTo(c, c.at, g)
  <2>1. c.at - c.at - 0 <= Slop(g, c)
    BY <1>1, <1>5
  <2> QED
    BY <1>1, <1>5, <2>1 DEF UsedUpTo
<1>7. o.at - c.at \in Nat /\ o.at - c.at < ArenaAlign
  BY <1>1, ArenaAssumption
<1> QED
  BY <1>1, <1>2, <1>6, <1>7, UsedUpToMore

\* An object from a new block: a large one leaves the current block as it is,
\* a small one gives it up.
LEMMA NewBlockSound ==
    ASSUME NEW p, NEW m, NEW bs, NEW u, NEW g, Sound(p, m, bs, u, g),
           NEW c \in Span, c.at % ArenaAlign = 0, \A b \in Members(bs) : End(b) <= c.at,
           NEW o \in Object, o.at = c.at, NEW h, h = Append(g, o), NEW q, NEW k,
           \/ c.size = o.size /\ q = p /\ k = m
           \/ /\ o.size < c.size /\ q = c.at + o.size /\ k = c.size - o.size
              /\ m < (kBlockSize \div 4) + ArenaAlign
    PROVE  Sound(q, k, Append(bs, c), u + c.size + ArenaAlign, h)
<1> DEFINE cs == Append(bs, c)
<1>c. cs = Append(bs, c)
  OBVIOUS
<1> HIDE DEF cs
<1>1. /\ p \in Nat /\ m \in Nat /\ bs \in Seq(Span) /\ u \in Nat /\ g \in Seq(Object)
      /\ Rising(bs) /\ Placed(g, Members(bs)) /\ Filled(p, m, Members(bs), g) /\ Counted(bs, u)
  BY DEF Sound
<1>2. o.at \in Nat /\ o.size \in Nat \ {0} /\ o.size <= c.size /\ c.at \in Nat /\ c.size \in Nat \ {0} /\ End(o) = c.at + o.size
  BY DEF Object, Span, End
<1>3. /\ cs \in Seq(Span) /\ Members(cs) = Members(bs) \cup {c} /\ Rising(cs) /\ c \notin Members(bs)
      /\ Counted(cs, u + c.size + ArenaAlign)
      /\ \A b \in Members(bs) : Apart(c, b)
  BY <1>1, <1>c, OneMoreBlock
<1>4. \A b \in Members(bs) : b \in Span /\ b.at \in Nat /\ b.size \in Nat \ {0}
  BY <1>1, BlocksAre
<1>5. ASSUME NEW i \in DOMAIN g PROVE End(g[i]) <= c.at
  <2>1. g[i] \in Object
    BY <1>1
  <2>2. g[i].at \in Nat /\ g[i].size \in Nat \ {0}
    BY <2>1 DEF Object
  <2>3. PICK b \in Members(bs) : Inside(g[i], b)
    BY <1>1 DEF Placed
  <2> QED
    BY <1>2, <1>4, <2>2, <2>3 DEF Inside, End
<1>6. Inside(o, c) /\ (\A i \in DOMAIN g : Apart(g[i], o)) /\ UsedUpTo(c, End(o), h)
  BY <1>1, <1>2, <1>5, NewBlockUsed
<1>7. Placed(h, Members(cs))
  <2>1. \E b \in Members(cs) : Inside(o, b)
    BY <1>3, <1>6
  <2>2. Members(bs) \subseteq Members(cs) /\ o.at % ArenaAlign = 0
    BY <1>3
  <2> QED
    BY <1>1, <1>6, <2>1, <2>2, PlacedMore
<1>8. ASSUME NEW b \in Members(bs)
      PROVE  Apart(o, b) /\ (Full(b, g) => Full(b, h)) /\ \A e : UsedUpTo(b, e, g) => UsedUpTo(b, e, h)
  <2>1. Apart(c, b)
    BY <1>3
  <2>2. Apart(o, b)
    BY <1>2, <1>4, <1>6, <2>1 DEF Apart, Inside, End
  <2>3. b \in Span
    BY <1>4
  <2> QED
    BY <1>1, <2>2, <2>3, OtherBlock
<1>9. h \in Seq(Object)
  BY <1>1
<1>10. Filled(q, k, Members(cs), h) /\ q \in Nat /\ k \in Nat
  <2>1. CASE c.size = o.size /\ q = p /\ k = m
    <3>1. End(c) = End(o) + 0 /\ 0 < (kBlockSize \div 4) + ArenaAlign /\ End(o) \in Nat
      BY <1>2, <2>1, ArenaAssumption DEF End
    <3>2. Full(c, h)
      <4>1. End(o) \in Nat /\ 0 \in Nat /\ c \in Span /\ h \in Seq(Object) /\ UsedUpTo(c, End(o), h)
        BY <1>6, <1>9, <3>1
      <4> QED
        BY ONLY <3>1, <4>1, FullIs
    <3>3. k > 0 => \E b \in Members(cs) : InUse(b, q, k) /\ UsedUpTo(b, q, h)
      BY <1>1, <1>3, <1>8, <2>1 DEF Filled
    <3>4. \A b \in Members(cs) : ~InUse(b, q, k) => Full(b, h)
      BY <1>1, <1>3, <1>8, <2>1, <3>2 DEF Filled
    <3> QED
      BY <1>1, <2>1, <3>3, <3>4 DEF Filled
  <2>2. CASE /\ o.size < c.size /\ q = c.at + o.size /\ k = c.size - o.size
             /\ m < (kBlockSize \div 4) + ArenaAlign
    <3>1. q \in Nat /\ k \in Nat /\ k > 0 /\ q = End(o) /\ End(c) = q + k
      BY <1>2, <2>2 DEF End
    <3>2. InUse(c, q, k) /\ UsedUpTo(c, q, h)
      BY <1>6, <3>1 DEF InUse
    <3>3. ASSUME NEW b \in Members(bs) PROVE Full(b, g)
      <4>1. CASE InUse(b, p, m)
        <5>1. PICK d \in Members(bs) : InUse(d, p, m) /\ UsedUpTo(d, p, g)
          BY <1>1, <4>1 DEF Filled, InUse
        <5>2. d = b
          BY <1>1, <4>1, <5>1, BlocksAre DEF InUse
        <5> QED
          BY <1>1, <1>4, <2>2, <5>1, <5>2, FullIs DEF InUse
      <4>2. CASE ~InUse(b, p, m)
        BY <1>1, <4>2 DEF Filled
      <4> QED
        BY <4>1, <4>2
    <3>4. \A b \in Members(bs) : Full(b, h)
      BY <1>8, <3>3
    <3> QED
      BY <1>3, <3>1, <3>2, <3>4 DEF Filled
  <2> QED
    BY <2>1, <2>2
<1>11. u + c.size + ArenaAlign \in Nat
  <2>1. ArenaAlign \in Nat
    BY ArenaAssumption
  <2> QED
    BY ONLY <1>1, <1>2, <2>1
<1> QED
  BY <1>3, <1>7, <1>9, <1>10, <1>11, <1>c DEF Sound

-----------------------------------------------------------------------------
(* Arena: the state *)

\* The parts of the types.
LEMMA ArenaFields ==
    ASSUME ArenaTypes
    PROVE  /\ arena = [ptr |-> arena.ptr, remaining |-> arena.remaining, blocks |-> arena.blocks,
                       usage |-> arena.usage, given |-> arena.given]
           /\ arena.ptr \in Nat /\ arena.remaining \in Nat /\ arena.blocks \in Seq(Span) /\ arena.usage \in Nat
           /\ arena.given \in Seq(Object)
BY DEF ArenaTypes

\* The invariant of what a step leaves.
LEMMA ArenaIs ==
    ASSUME NEW p, NEW m, NEW bs, NEW u, NEW g, Sound(p, m, bs, u, g),
           arena' = [ptr |-> p, remaining |-> m, blocks |-> bs, usage |-> u, given |-> g]
    PROVE  ArenaInv'
<1>1. /\ (arena.ptr)' = p /\ (arena.remaining)' = m /\ (arena.blocks)' = bs /\ (arena.usage)' = u /\ (arena.given)' = g
  OBVIOUS
<1>2. p \in Nat /\ m \in Nat /\ bs \in Seq(Span) /\ u \in Nat /\ g \in Seq(Object)
  BY DEF Sound
<1>3. ArenaTypes'
  BY <1>2 DEF ArenaTypes
<1>4. Sound((arena.ptr)', (arena.remaining)', (arena.blocks)', (arena.usage)', (arena.given)')
  BY ONLY <1>1, Sound(p, m, bs, u, g)
<1>5. Sound(arena.ptr, arena.remaining, arena.blocks, arena.usage, arena.given)'
  BY ONLY <1>4 DEF Sound, Counted
<1> QED
  BY ONLY <1>3, <1>5 DEF ArenaInv

\* An object from the current block, aligned or not.
LEMMA FromBlockStep ==
    ASSUME ArenaInv, NEW bytes \in Nat \ {0}, NEW slop \in Nat, slop < ArenaAlign, NEW al \in BOOLEAN,
           ~al => slop = 0, al => (arena.ptr + slop) % ArenaAlign = 0, bytes + slop <= arena.remaining,
           arena' = FromBlock(bytes, slop, al)
    PROVE  ArenaInv'
<1> DEFINE o == [at |-> arena.ptr + slop, size |-> bytes, aligned |-> al]
           h == Append(arena.given, o)
<1>1. arena = [ptr |-> arena.ptr, remaining |-> arena.remaining, blocks |-> arena.blocks,
               usage |-> arena.usage, given |-> arena.given]
  BY ArenaFields DEF ArenaInv
<1>2. arena' = [ptr |-> arena.ptr + slop + bytes, remaining |-> arena.remaining - slop - bytes, blocks |-> arena.blocks,
                usage |-> arena.usage, given |-> h]
  BY <1>1 DEF FromBlock, Given
<1>3. Sound(arena.ptr, arena.remaining, arena.blocks, arena.usage, arena.given)
  BY DEF ArenaInv
<1>4. Sound(arena.ptr + slop + bytes, arena.remaining - slop - bytes, arena.blocks, arena.usage, h)
  BY <1>3, FromBlockSound
<1> HIDE DEF o, h
<1> QED
  BY ONLY <1>2, <1>4, ArenaIs

\* A new block lies above the others.
LEMMA NewBlocksAre ==
    ASSUME ArenaInv, NEW size \in Nat \ {0}, NEW c \in NewBlocks(size)
    PROVE  c \in Span /\ c.size = size /\ c.at % ArenaAlign = 0 /\ \A b \in Members(arena.blocks) : End(b) <= c.at
<1> DEFINE bs == arena.blocks
           last == IF bs = <<>> THEN ArenaAlign ELSE End(Last(bs))
<1>1. bs \in Seq(Span) /\ Rising(bs)
  BY DEF ArenaInv, Sound
<1>2. ArenaAlign \in Nat \ {0}
  BY ArenaAssumption
<1>3. PICK gap \in {0, ArenaAlign} : c = [at |-> RoundUp(last) + gap, size |-> size]
  BY DEF NewBlocks
<1> HIDE DEF bs
<1>4. /\ \A b \in Members(bs) : b.at \in Nat /\ b.size \in Nat \ {0}
      /\ bs # <<>> => Len(bs) \in DOMAIN bs /\ Last(bs) = bs[Len(bs)] /\ bs[Len(bs)] \in Members(bs)
  BY <1>1, BlocksAre DEF Members, Last
<1>5. last \in Nat /\ \A b \in Members(bs) : End(b) <= last
  <2>1. CASE bs = <<>>
    BY <1>2, <2>1 DEF Members
  <2>2. CASE bs # <<>>
    <3>1. last = End(bs[Len(bs)]) /\ last \in Nat
      BY <1>4, <2>2 DEF End
    <3>2. ASSUME NEW i \in DOMAIN bs PROVE End(bs[i]) <= last
      <4>1. bs[i] \in Members(bs) /\ bs[Len(bs)] \in Members(bs) /\ (i = Len(bs) \/ i < Len(bs))
        BY <1>1, <1>4, <2>2 DEF Members
      <4>2. i < Len(bs) => End(bs[i]) <= bs[Len(bs)].at
        BY <1>1, <1>4, <2>2 DEF Rising
      <4> QED
        BY <1>4, <3>1, <4>1, <4>2 DEF End
    <3> QED
      BY <3>1, <3>2 DEF Members
  <2> QED
    BY <2>1, <2>2
<1> HIDE DEF last
<1>6. /\ RoundUp(last) \in Nat /\ last <= RoundUp(last)
      /\ RoundUp(last) % ArenaAlign = 0 /\ (RoundUp(last) + ArenaAlign) % ArenaAlign = 0
  BY <1>5, RoundUpIs
<1>7. c.size = size /\ c.at = RoundUp(last) + gap /\ c.at \in Nat /\ RoundUp(last) <= c.at /\ c.at % ArenaAlign = 0
  BY <1>2, <1>3, <1>6
<1>8. c \in Span
  BY <1>3, <1>7 DEF Span
<1>9. \A b \in Members(bs) : End(b) <= c.at
  BY <1>4, <1>5, <1>6, <1>7 DEF End
<1> QED
  BY <1>7, <1>8, <1>9 DEF bs

\* An object from a new block.
LEMMA FallbackStep ==
    ASSUME ArenaInv, NEW bytes \in Nat \ {0}, NEW slop \in Nat, slop < ArenaAlign, NEW al \in BOOLEAN,
           arena.remaining < bytes + slop, arena' \in AllocateFallback(bytes, al)
    PROVE  ArenaInv'
<1>1. arena = [ptr |-> arena.ptr, remaining |-> arena.remaining, blocks |-> arena.blocks,
               usage |-> arena.usage, given |-> arena.given]
  BY ArenaFields DEF ArenaInv
<1>2. arena.ptr \in Nat /\ arena.remaining \in Nat
  BY ArenaFields DEF ArenaInv
<1>3. Sound(arena.ptr, arena.remaining, arena.blocks, arena.usage, arena.given)
  BY DEF ArenaInv
<1>4. kBlockSize \in Nat \ {0} /\ kBlockSize \div 4 \in Nat /\ 4 * (kBlockSize \div 4) <= kBlockSize /\ ArenaAlign \in Nat \ {0}
  BY ArenaAssumption
<1>5. CASE bytes > kBlockSize \div 4
  <2>1. PICK c \in NewBlocks(bytes) : arena' = Given(AllocateNewBlock(c), c.at, bytes, al)
    BY <1>5 DEF AllocateFallback
  <2>2. c \in Span /\ c.size = bytes /\ c.at % ArenaAlign = 0 /\ \A b \in Members(arena.blocks) : End(b) <= c.at
    BY NewBlocksAre
  <2> DEFINE o == [at |-> c.at, size |-> bytes, aligned |-> al]
             h == Append(arena.given, o)
  <2>3. arena' = [ptr |-> arena.ptr, remaining |-> arena.remaining, blocks |-> Append(arena.blocks, c),
                  usage |-> arena.usage + c.size + ArenaAlign, given |-> h]
    BY <1>1, <2>1 DEF Given, AllocateNewBlock
  <2>4. o \in Object /\ o.at = c.at /\ o.size = bytes /\ h = Append(arena.given, o)
    BY <2>2 DEF Object, Span
  <2> HIDE DEF o, h
  <2>5. Sound(arena.ptr, arena.remaining, Append(arena.blocks, c), arena.usage + c.size + ArenaAlign, h)
    BY ONLY <1>3, <2>2, <2>4, NewBlockSound
  <2> QED
    BY ONLY <2>3, <2>5, ArenaIs
<1>6. CASE ~(bytes > kBlockSize \div 4)
  <2>1. PICK c \in NewBlocks(kBlockSize) :
          arena' = Given([AllocateNewBlock(c) EXCEPT !.ptr = c.at + bytes, !.remaining = kBlockSize - bytes], c.at, bytes, al)
    BY <1>6 DEF AllocateFallback
  <2>2. c \in Span /\ c.size = kBlockSize /\ c.at % ArenaAlign = 0 /\ \A b \in Members(arena.blocks) : End(b) <= c.at
    BY <1>4, NewBlocksAre
  <2> DEFINE o == [at |-> c.at, size |-> bytes, aligned |-> al]
             h == Append(arena.given, o)
  <2>3. arena' = [ptr |-> c.at + bytes, remaining |-> kBlockSize - bytes, blocks |-> Append(arena.blocks, c),
                  usage |-> arena.usage + c.size + ArenaAlign, given |-> h]
    BY <1>1, <2>1 DEF Given, AllocateNewBlock
  <2>4. o \in Object /\ o.at = c.at /\ o.size = bytes /\ h = Append(arena.given, o)
    BY <2>2 DEF Object, Span
  <2>5. bytes < kBlockSize /\ arena.remaining < (kBlockSize \div 4) + ArenaAlign
    BY <1>2, <1>4, <1>6
  <2> HIDE DEF o, h
  <2>6. /\ o.size < c.size /\ c.at + bytes = c.at + o.size /\ kBlockSize - bytes = c.size - o.size
        /\ arena.remaining < (kBlockSize \div 4) + ArenaAlign
    BY ONLY <2>2, <2>4, <2>5
  <2>7. Sound(c.at + bytes, kBlockSize - bytes, Append(arena.blocks, c), arena.usage + c.size + ArenaAlign, h)
    BY ONLY <1>3, <2>2, <2>4, <2>6, NewBlockSound
  <2> QED
    BY ONLY <2>3, <2>7, ArenaIs
<1> QED
  BY <1>5, <1>6

\* What the invariant says of the arena is what the run checks.
LEMMA ArenaExactIs == ASSUME ArenaInv PROVE ArenaExact
<1>1. /\ Placed(arena.given, Blocks) /\ Filled(arena.ptr, arena.remaining, Blocks, arena.given)
      /\ arena.usage = Cardinality(UNION {Bytes(b) : b \in Blocks}) + Len(arena.blocks) * ArenaAlign
  BY DEF ArenaInv, Sound, Blocks, Members, Counted
<1>2. ArenaDisjoint
  BY <1>1 DEF ArenaDisjoint, Placed, Apart
<1>3. arena.remaining > 0 =>
        \E b \in Blocks : Current(b) /\ \A i \in DOMAIN arena.given : Inside(arena.given[i], b) => End(arena.given[i]) <= arena.ptr
  BY <1>1 DEF Filled, InUse, UsedUpTo, Current
<1>4. \A b \in Blocks :
        ~Current(b) => b.size - Cardinality(BytesUsed(arena.given, b)) < (kBlockSize \div 4) + ArenaAlign + Slop(arena.given, b)
  BY <1>1 DEF Filled, InUse, Full, Current
<1> QED
  BY <1>1, <1>2, <1>3, <1>4 DEF ArenaExact, ArenaWaste

\* Every step keeps the invariant: Allocate and AllocateAligned.
LEMMA ArenaStart == ASSUME ArenaInit PROVE ArenaInv
<1>1. /\ arena.ptr = 0 /\ arena.remaining = 0 /\ arena.blocks = <<>> /\ arena.usage = 0 /\ arena.given = <<>>
  BY DEF ArenaInit
<1>2. ArenaTypes
  BY DEF ArenaInit, ArenaTypes
<1>3. Members(<<>>) = {} /\ Rising(<<>>) /\ Placed(<<>>, {}) /\ Filled(0, 0, {}, <<>>)
  BY DEF Members, Rising, Placed, Filled
<1>4. Counted(<<>>, 0)
  <2>1. Cardinality(UNION {Bytes(b) : b \in Members(<<>>)}) = 0
    <3>1. UNION {Bytes(b) : b \in Members(<<>>)} = {}
      BY <1>3
    <3> QED
      BY <3>1, FS_EmptySet
  <2>2. Len(<<>>) = 0 /\ 0 * ArenaAlign = 0 /\ 0 = 0 + 0
    BY ArenaAssumption
  <2>3. 0 = Cardinality(UNION {Bytes(b) : b \in Members(<<>>)}) + Len(<<>>) * ArenaAlign
    BY ONLY <2>1, <2>2
  <2> QED
    BY ONLY <2>3 DEF Counted
<1>5. Sound(0, 0, <<>>, 0, <<>>)
  <2>1. 0 \in Nat /\ <<>> \in Seq(Span) /\ <<>> \in Seq(Object)
    OBVIOUS
  <2>2. Placed(<<>>, Members(<<>>)) /\ Filled(0, 0, Members(<<>>), <<>>)
    BY <1>3
  <2> QED
    BY <1>3, <1>4, <2>1, <2>2 DEF Sound
<1> QED
  BY ONLY <1>1, <1>2, <1>5 DEF ArenaInv
LEMMA ArenaStep == ASSUME ArenaInv, ArenaNext PROVE ArenaInv'
<1>1. PICK bytes \in ArenaBytes : Allocate(bytes) \/ AllocateAligned(bytes)
  BY DEF ArenaNext
<1>2. bytes \in Nat \ {0} /\ ArenaAlign \in Nat \ {0}
  BY ArenaAssumption
<1>3. arena.ptr \in Nat /\ arena.remaining \in Nat
  BY ArenaFields DEF ArenaInv
<1>4. CASE Allocate(bytes)
  <2> DEFINE slop == 0
  <2>1. slop \in Nat /\ slop < ArenaAlign /\ slop = 0 /\ bytes + slop = bytes
    BY <1>2
  <2>2. IF bytes <= arena.remaining THEN arena' = FromBlock(bytes, slop, FALSE)
        ELSE arena' \in AllocateFallback(bytes, FALSE)
    BY <1>4 DEF Allocate
  <2> HIDE DEF slop
  <2>3. CASE bytes <= arena.remaining
    BY <1>2, <2>1, <2>2, <2>3, FromBlockStep
  <2>4. CASE ~(bytes <= arena.remaining)
    <3>1. arena.remaining < bytes + slop
      BY <1>2, <1>3, <2>1, <2>4
    <3> QED
      BY <1>2, <2>1, <2>2, <2>4, <3>1, FallbackStep
  <2> QED
    BY <2>3, <2>4
<1>5. CASE AllocateAligned(bytes)
  <2> DEFINE slop == RoundUp(arena.ptr) - arena.ptr
  <2>1. slop \in Nat /\ slop < ArenaAlign /\ arena.ptr + slop = RoundUp(arena.ptr) /\ RoundUp(arena.ptr) % ArenaAlign = 0
    BY <1>2, <1>3, RoundUpIs
  <2>2. IF bytes + slop <= arena.remaining THEN arena' = FromBlock(bytes, slop, TRUE)
        ELSE arena' \in AllocateFallback(bytes, TRUE)
    BY <1>5 DEF AllocateAligned
  <2> HIDE DEF slop
  <2>3. CASE bytes + slop <= arena.remaining
    BY <1>2, <2>1, <2>2, <2>3, FromBlockStep
  <2>4. CASE ~(bytes + slop <= arena.remaining)
    <3>1. arena.remaining < bytes + slop
      BY <1>2, <1>3, <2>1, <2>4
    <3> QED
      BY <1>2, <2>1, <2>2, <2>4, <3>1, FallbackStep
  <2> QED
    BY <2>3, <2>4
<1> QED
  BY <1>1, <1>4, <1>5

\* Whatever sizes are asked for, by Allocate and AllocateAligned in any order
\* and wherever new char[] puts the blocks, no two objects of a memtable share a
\* byte, nodes are aligned, each object lies in a block, a block that is given up
\* wastes less than a quarter and the slop, and MemoryUsage counts every block.
THEOREM ObjectsNeverOverlap == ArenaSpec => []ArenaExact
<1>1. ArenaInv /\ [ArenaNext]_arena => ArenaInv'
  <2> SUFFICES ASSUME ArenaInv, [ArenaNext]_arena PROVE ArenaInv'
    OBVIOUS
  <2>1. CASE ArenaNext
    BY <2>1, ArenaStep
  <2>2. CASE UNCHANGED arena
    BY <2>2 DEF ArenaInv, ArenaTypes, Sound, Counted, Filled
  <2> QED
    BY <2>1, <2>2
<1> QED
  BY <1>1, ArenaStart, ArenaExactIs, PTL DEF ArenaSpec
=============================================================================
