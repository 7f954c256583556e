---------------------------- MODULE DiaryProofs ----------------------------
(***************************************************************************)
(* The safety invariants of module Diary, for every set of memories and    *)
(* contents, any number of screens, writes, restarts and other devices.    *)
(*                                                                         *)
(* First, what module Diary's operators on events compute: ChildAddedEvents*)
(* makes one childAdded block for each child that appeared and each        *)
(* registered list, and the main queue hands each block to its list once.  *)
(*                                                                         *)
(* Then what each step does, told part by part: to the stack of            *)
(* screens (StackKept), to the main queue (Queues), to the pending writes  *)
(* and their answers, to the database client inside (ClientStep).  The     *)
(* proofs argue about these parts and not about the nineteen actions one   *)
(* by one.                                                                 *)
(*                                                                         *)
(* DiaryCore is the inductive invariant the other proofs start from:       *)
(*   - the types;                                                          *)
(*   - RepoInv, since the diary's steps are the client's (ClientStep);     *)
(*   - StackShape: a show screen stands on the list it was opened from,    *)
(*     so that Back never dismisses a list, and only lists listen;         *)
(*   - EventsForLists: a waiting childAdded names a list that is still     *)
(*     presented, so that its closure finds the table it adds a row to.    *)
(* The types alone are not inductive: a childAdded for a screen that is    *)
(* gone, or Back from the first list, would leave them.                    *)
(*                                                                         *)
(* On top of it:                                                           *)
(*   - SavedMeansAccepted from AcceptedSaves, which follows the promise    *)
(*     back from the alert to the callback on the main queue and to the    *)
(*     answer on its way;                                                  *)
(*   - NoMemoryMissing by itself;                                          *)
(*   - VisibleListExact from ListsInReachExact: Back brings the list under *)
(*     a show screen to the front again, so that list must be exact, too;  *)
(*   - DeletedStaysDeleted from DeletedInv: the last word on the memory is *)
(*     its delete (DeletesPending), no new write can follow it since no    *)
(*     screen in use names the memory (DeletedOutOfReach) and random()     *)
(*     does not make its id (DataUsed, ScreensUsed), and the view shows    *)
(*     the pending writes over the server's data (ViewOfServer, RepoInv).  *)
(***************************************************************************)
EXTENDS Diary, RepoProofs, SeqLemmas, FiniteSetTheorems, FunctionTheorems, WellFoundedInduction

-----------------------------------------------------------------------------
(* Ascending *)

IsAscending(f, S) ==
    /\ f \in [1 .. Cardinality(S) -> S]
    /\ \A i, j \in DOMAIN f : i < j => f[i] < f[j]

\* The least element put in front of the others, in their order.
LEMMA AscendingFront ==
    ASSUME NEW S \in SUBSET Nat, IsFiniteSet(S), NEW m \in S, \A n \in S : m <= n,
           NEW f, IsAscending(f, S \ {m})
    PROVE  \E g : IsAscending(g, S)
  <1> DEFINE n == Cardinality(S)
             g == [i \in 1 .. n |-> IF i = 1 THEN m ELSE f[i - 1]]
  <1>1. n \in Nat /\ n # 0 /\ Cardinality(S \ {m}) = n - 1
    BY FS_CardinalityType, FS_RemoveElement, FS_EmptySet
  <1>2. f \in [1 .. (n - 1) -> S \ {m}] /\ \A i, j \in 1 .. (n - 1) : i < j => f[i] < f[j]
    BY <1>1 DEF IsAscending
  <1> HIDE DEF n
  <1>3. \A i \in 1 .. n : i # 1 => i - 1 \in 1 .. (n - 1)
    BY <1>1
  <1>4. \A x \in S \ {m} : x \in Nat /\ m < x
    OBVIOUS
  <1>5. g \in [1 .. n -> S]
    BY <1>2, <1>3
  <1>6. ASSUME NEW i \in 1 .. n, NEW j \in 1 .. n, i < j
        PROVE  g[i] < g[j]
    <2>1. j # 1 /\ j - 1 \in 1 .. (n - 1) /\ g[j] = f[j - 1] /\ f[j - 1] \in S \ {m}
      BY <1>1, <1>2, <1>3, <1>6
    <2>2. CASE i = 1
      BY <1>4, <2>1, <2>2
    <2>3. CASE i # 1
      <3>1. i - 1 \in 1 .. (n - 1) /\ g[i] = f[i - 1] /\ i - 1 < j - 1
        BY <1>1, <1>3, <1>6, <2>3
      <3> QED
        BY <1>2, <2>1, <3>1
    <2> QED
      BY <2>2, <2>3
  <1> QED
    BY <1>5, <1>6 DEF IsAscending, n

\* Every finite set of numbers can be put in order: were there sets that
\* cannot, one of the fewest elements would lose its least one.
LEMMA AscendingExists ==
    ASSUME NEW S \in SUBSET Nat, IsFiniteSet(S)
    PROVE  \E f : IsAscending(f, S)
  <1> DEFINE Bad == {T \in SUBSET Nat : IsFiniteSet(T) /\ ~ \E f : IsAscending(f, T)}
             Sizes == {Cardinality(T) : T \in Bad}
  <1>1. SUFFICES ASSUME S \in Bad PROVE FALSE
    OBVIOUS
  <1>2. Sizes \in SUBSET Nat /\ Sizes # {}
    BY <1>1, FS_CardinalityType
  <1>3. PICK T \in Bad : \A U \in Bad : Cardinality(T) <= Cardinality(U)
    <2> HIDE DEF Sizes
    <2>1. \E m \in Sizes : \A n \in Sizes : m <= n
      BY <1>2, LeastNumber
    <2> QED
      BY <2>1 DEF Sizes
  <1>4. T # {}
    <2>1. SUFFICES ASSUME T = {} PROVE \E f : IsAscending(f, T)
      BY <1>3
    <2>2. Cardinality(T) = 0
      BY <2>1, FS_EmptySet
    <2>3. IsAscending([i \in 1 .. 0 |-> 0], T)
      BY <2>1, <2>2 DEF IsAscending
    <2> QED
      BY <2>3
  <1>5. T \in SUBSET Nat /\ IsFiniteSet(T)
    BY <1>3
  <1>6. PICK m \in T : \A n \in T : m <= n
    BY <1>4, <1>5, LeastNumber
  <1>7. IsFiniteSet(T \ {m}) /\ Cardinality(T \ {m}) < Cardinality(T) /\ Cardinality(T) \in Nat
    <2>1. Cardinality(T) \in Nat
      BY <1>5, FS_CardinalityType
    <2>2. IsFiniteSet(T \ {m}) /\ Cardinality(T \ {m}) = Cardinality(T) - 1
      BY <1>5, <1>6, FS_RemoveElement
    <2> QED
      BY <2>1, <2>2
  <1>8. Cardinality(T \ {m}) \in Nat
    BY <1>7, FS_CardinalityType
  <1>9. T \ {m} \notin Bad
    BY <1>3, <1>7, <1>8
  <1>10. PICK f : IsAscending(f, T \ {m})
    BY <1>5, <1>7, <1>9
  <1>11. \E g : IsAscending(g, T)
    BY <1>5, <1>6, <1>10, AscendingFront
  <1> QED
    BY <1>3, <1>11

\* Ascending lists every element of the set, and none twice.
LEMMA AscendingLists ==
    ASSUME NEW S \in SUBSET Nat, IsFiniteSet(S)
    PROVE  /\ Cardinality(S) \in Nat
           /\ Ascending(S) \in Seq(S)
           /\ Len(Ascending(S)) = Cardinality(S)
           /\ DOMAIN Ascending(S) = 1 .. Cardinality(S)
           /\ \A i, j \in 1 .. Cardinality(S) : Ascending(S)[i] = Ascending(S)[j] => i = j
           /\ \A x \in S : \E i \in 1 .. Cardinality(S) : Ascending(S)[i] = x
  <1> DEFINE n == Cardinality(S)
             f == Ascending(S)
  <1>1. n \in Nat
    BY FS_CardinalityType
  <1>2. IsAscending(f, S)
    BY AscendingExists DEF Ascending, IsAscending
  <1>3. f \in [1 .. n -> S] /\ \A i, j \in 1 .. n : i < j => f[i] < f[j]
    BY <1>2 DEF IsAscending
  <1> HIDE DEF n, f
  <1>4. \A i \in 1 .. n : f[i] \in Nat
    BY <1>3
  <1>5. \A i, j \in 1 .. n : f[i] = f[j] => i = j
    BY <1>1, <1>3, <1>4
  <1>6. f \in Injection(1 .. n, S)
    BY <1>3, <1>5, Fun_IsInj
  <1>7. IsFiniteSet(1 .. n) /\ Cardinality(1 .. n) = n
    BY <1>1, FS_Interval
  <1>8. f \in Surjection(1 .. n, S)
    BY <1>6, <1>7, FS_Injection DEF n
  <1>9. \A x \in S : \E i \in 1 .. n : f[i] = x
    BY <1>8 DEF Surjection
  <1>10. f \in Seq(S) /\ Len(f) = n /\ DOMAIN f = 1 .. n
    BY <1>1, <1>3
  <1> QED
    BY <1>1, <1>5, <1>9, <1>10 DEF n, f

-----------------------------------------------------------------------------
(* ChildAddedEvents *)

\* The blocks of q that tell the list at p of child k, and the rows of rs for k.
Queued(q, p, k) ==
    {i \in DOMAIN q : q[i].type = "childAdded" /\ q[i].screen = p /\ q[i].key = k}
RowsOf(rs, k) == {i \in DOMAIN rs : rs[i].key = k}

\* The event at index i is for the child at index Group(m, i) and the list at
\* index Place(m, i), where m lists are registered.
Group(m, i) == ((i - 1) \div m) + 1
Place(m, i) == ((i - 1) % m) + 1

\* Group and place of an index, which they determine.
LEMMA GroupIndex ==
    ASSUME NEW n \in Nat, NEW m \in Nat, NEW i \in 1 .. (n * m)
    PROVE  /\ Place(m, i) \in 1 .. m
           /\ Group(m, i) \in 1 .. n
           /\ i = (Group(m, i) - 1) * m + Place(m, i)
  <1>1. m > 0
    <2>1. m = 0 => n * m = 0
      OBVIOUS
    <2> QED
      BY <2>1
  <1>2. PICK d \in Nat : d = i - 1
    OBVIOUS
  <1>3. /\ d \div m \in Nat /\ d % m \in 0 .. (m - 1)
        /\ d = (d \div m) * m + (d % m)
    BY <1>1
  <1>4. d \div m < n
    <2> DEFINE q == d \div m
    <2>1. q \in Nat /\ d >= q * m /\ d < n * m
      BY <1>2, <1>3
    <2> HIDE DEF q
    <2>2. SUFFICES ASSUME q >= n PROVE FALSE
      BY <2>1 DEF q
    <2>3. PICK c \in Nat : q = n + c
      BY <2>1, <2>2
    <2>4. (n + c) * m = n * m + c * m /\ c * m \in Nat /\ n * m \in Nat
      OBVIOUS
    <2> QED
      BY <1>2, <2>1, <2>3, <2>4
  <1>5. Group(m, i) = (d \div m) + 1 /\ Place(m, i) = (d % m) + 1
    BY <1>2 DEF Group, Place
  <1>6. Group(m, i) - 1 = d \div m
    BY <1>3, <1>5
  <1> QED
    BY <1>1, <1>2, <1>3, <1>4, <1>5, <1>6

\* Every group has every place.
LEMMA GroupPlace ==
    ASSUME NEW n \in Nat, NEW m \in Nat, NEW a \in 1 .. n, NEW b \in 1 .. m
    PROVE  \E i \in 1 .. (n * m) : Place(m, i) = b /\ Group(m, i) = a
  <1>1. PICK q \in Nat : q = a - 1
    OBVIOUS
  <1>2. PICK r \in Nat : r = b - 1
    OBVIOUS
  <1>3. (q * m + r) % m = r /\ (q * m + r) \div m = q
    BY <1>2
  <1>4. q * m \in Nat /\ q * m + b \in Nat /\ (q * m + b) - 1 = q * m + r
    BY <1>2
  <1>5. q * m + b <= n * m
    <2>1. PICK c \in Nat : n = q + 1 + c
      BY <1>1
    <2>2. n * m = q * m + m + c * m /\ c * m \in Nat
      BY <2>1
    <2> QED
      BY <1>4, <2>2
  <1>6. PICK i \in 1 .. (n * m) : i = q * m + b
    <2>1. n * m \in Nat /\ 1 <= q * m + b
      BY <1>2, <1>4
    <2> QED
      BY <1>4, <1>5, <2>1
  <1>7. i - 1 = q * m + r
    BY <1>4, <1>6
  <1>8. (i - 1) % m = r /\ (i - 1) \div m = q
    BY <1>3, <1>7
  <1> QED
    BY <1>1, <1>2, <1>8 DEF Group, Place

\* One childAdded block for each child that appeared and each registered list,
\* with the child's new contents, and no other (FEventRaiser, FEventGenerator).
LEMMA EventsRaised ==
    ASSUME NEW old \in [Key -> Node], NEW new \in [Key -> Node],
           NEW regs \in SUBSET ScreenIds
    PROVE  LET E == ChildAddedEvents(old, new, regs)
           IN  /\ E \in Seq(ChildAdded)
               /\ \A i \in DOMAIN E : /\ E[i].screen \in regs
                                      /\ E[i].key \in Appeared(old, new)
                                      /\ E[i].node = new[E[i].key]
               /\ \A p \in regs, k \in Appeared(old, new) :
                     \E j \in Queued(E, p, k) : Queued(E, p, k) = {j}
  <1> DEFINE ks == Ascending(Appeared(old, new))
             ps == Ascending(regs)
             n == Len(ks)
             m == Len(ps)
             E == ChildAddedEvents(old, new, regs)
             event(i) == [type |-> "childAdded", screen |-> ps[Place(m, i)],
                          key |-> ks[Group(m, i)], node |-> new[ks[Group(m, i)]]]
  <1>1. regs \in SUBSET Nat /\ IsFiniteSet(regs)
    <2>1. IsFiniteSet(ScreenIds) /\ ScreenIds \subseteq Nat
      BY DiaryAssumption, FS_Interval DEF ScreenIds
    <2> QED
      BY <2>1, FS_Subset
  <1>2. Appeared(old, new) \in SUBSET Nat /\ IsFiniteSet(Appeared(old, new))
    BY DiaryAssumption, FS_Subset DEF Appeared
  <1>3. /\ n \in Nat /\ ks \in [1 .. n -> Appeared(old, new)]
        /\ \A i, j \in 1 .. n : ks[i] = ks[j] => i = j
        /\ \A k \in Appeared(old, new) : \E i \in 1 .. n : ks[i] = k
    BY <1>2, AscendingLists
  <1>4. /\ m \in Nat /\ ps \in [1 .. m -> regs]
        /\ \A i, j \in 1 .. m : ps[i] = ps[j] => i = j
        /\ \A p \in regs : \E i \in 1 .. m : ps[i] = p
    BY <1>1, AscendingLists
  <1>5. E = [i \in 1 .. (n * m) |-> event(i)]
    BY DEF ChildAddedEvents, Group, Place
  <1>6. n * m \in Nat
    BY <1>3, <1>4
  <1> HIDE DEF ks, ps, n, m, E
  <1>7. ASSUME NEW i \in 1 .. (n * m)
        PROVE  /\ Place(m, i) \in 1 .. m /\ Group(m, i) \in 1 .. n
               /\ i = (Group(m, i) - 1) * m + Place(m, i)
    BY <1>3, <1>4, GroupIndex
  <1>8. ASSUME NEW i \in 1 .. (n * m)
        PROVE  /\ E[i] = event(i)
               /\ E[i].type = "childAdded"
               /\ E[i].screen = ps[Place(m, i)]
               /\ E[i].key = ks[Group(m, i)]
               /\ event(i) \in ChildAdded
               /\ event(i).screen \in regs
               /\ event(i).key \in Appeared(old, new)
               /\ event(i).node = new[event(i).key]
    <2>1. E[i] = event(i)
      BY <1>5
    <2>2. ps[Place(m, i)] \in regs /\ ks[Group(m, i)] \in Appeared(old, new)
      BY <1>3, <1>4, <1>7
    <2>3. ks[Group(m, i)] \in Key /\ new[ks[Group(m, i)]] \in Value
      BY <2>2 DEF Appeared, Node
    <2> QED
      BY <2>1, <2>2, <2>3 DEF ChildAdded
  <1>9. E \in Seq(ChildAdded) /\ DOMAIN E = 1 .. (n * m)
    <2>1. E \in [1 .. (n * m) -> ChildAdded]
      BY <1>5, <1>8
    <2> QED
      BY <1>6, <2>1
  <1>10. ASSUME NEW p \in regs, NEW k \in Appeared(old, new)
         PROVE  \E j \in Queued(E, p, k) : Queued(E, p, k) = {j}
    <2>1. PICK b \in 1 .. m : ps[b] = p
      BY <1>4
    <2>2. PICK a \in 1 .. n : ks[a] = k
      BY <1>3
    <2>3. PICK j \in 1 .. (n * m) : Place(m, j) = b /\ Group(m, j) = a
      <3>1. n \in Nat /\ m \in Nat
        BY <1>3, <1>4
      <3> QED
        BY <3>1, GroupPlace, Zenon
    <2>4. j \in Queued(E, p, k)
      BY <1>8, <1>9, <2>1, <2>2, <2>3 DEF Queued
    <2>5. ASSUME NEW i \in Queued(E, p, k)
          PROVE  i = j
      <3>1. i \in 1 .. (n * m) /\ ps[Place(m, i)] = p /\ ks[Group(m, i)] = k
        BY <1>8, <1>9 DEF Queued
      <3>2. Place(m, i) = b /\ Group(m, i) = a
        BY <1>3, <1>4, <1>7, <2>1, <2>2, <3>1
      <3> QED
        BY <1>7, <2>3, <3>1, <3>2
    <2> QED
      BY <2>4, <2>5
  <1> QED
    BY <1>8, <1>9, <1>10 DEF E

-----------------------------------------------------------------------------
(* The main queue and the rows of a list *)

Block == ChildAdded \cup Completion

\* The list at p, with the rows rs while q waits, is exact for child k with the
\* node n: one row or block with that node, or none if the child is absent.
Shown(rs, q, p, k, n) ==
    IF n = Absent
      THEN RowsOf(rs, k) \cup Queued(q, p, k) = {}
      ELSE \/ \E i \in RowsOf(rs, k) :
                 RowsOf(rs, k) = {i} /\ rs[i].node = n /\ Queued(q, p, k) = {}
           \/ \E i \in Queued(q, p, k) :
                 Queued(q, p, k) = {i} /\ q[i].node = n /\ RowsOf(rs, k) = {}

\* What waits for a list after blocks are queued.
LEMMA QueuedConcat ==
    ASSUME NEW q \in Seq(Block), NEW e \in Seq(Block), NEW p, NEW k
    PROVE  /\ q \o e \in Seq(Block)
           /\ \A i : i \in Queued(q \o e, p, k)
                       <=> \/ i \in Queued(q, p, k)
                           \/ \E j \in Queued(e, p, k) : i = Len(q) + j
           /\ \A i \in DOMAIN q : (q \o e)[i] = q[i]
           /\ \A j \in DOMAIN e : (q \o e)[Len(q) + j] = e[j]
  <1> DEFINE s == q \o e
             l == Len(q)
  <1>1. /\ l \in Nat /\ DOMAIN q = 1 .. l
        /\ Len(e) \in Nat /\ DOMAIN e = 1 .. Len(e)
    BY LenProperties
  <1>2. /\ s \in Seq(Block) /\ DOMAIN s = 1 .. (l + Len(e))
        /\ \A i \in 1 .. (l + Len(e)) : s[i] = IF i <= l THEN q[i] ELSE e[i - l]
    BY ConcatProperties, LenProperties
  <1> HIDE DEF s, l
  <1>3. \A i \in 1 .. l : i \in DOMAIN s /\ s[i] = q[i]
    BY <1>1, <1>2
  <1>4. \A j \in 1 .. Len(e) : l + j \in DOMAIN s /\ s[l + j] = e[j]
    BY <1>1, <1>2
  <1>5. \A i \in DOMAIN s : i \in 1 .. l \/ \E j \in 1 .. Len(e) : i = l + j
    <2> TAKE i \in DOMAIN s
    <2>1. i \in 1 .. (l + Len(e))
      BY <1>2
    <2>2. ~(i \in 1 .. l) => i - l \in 1 .. Len(e) /\ i = l + (i - l)
      BY <1>1, <2>1
    <2> QED
      BY <2>2
  <1>6. ASSUME NEW i
        PROVE  i \in Queued(s, p, k) <=> \/ i \in Queued(q, p, k)
                                         \/ \E j \in Queued(e, p, k) : i = l + j
    BY <1>1, <1>3, <1>4, <1>5 DEF Queued
  <1> QED
    BY <1>1, <1>2, <1>3, <1>4, <1>6 DEF s, l

\* What waits for a list after the first block was taken.
LEMMA QueuedTail ==
    ASSUME NEW q \in Seq(Block), q # <<>>, NEW p, NEW k
    PROVE  /\ \A i : i \in Queued(Tail(q), p, k)
                       <=> i \in DOMAIN Tail(q) /\ i + 1 \in Queued(q, p, k)
           /\ \A i \in DOMAIN Tail(q) : i \in Nat \ {0} /\ i + 1 \in DOMAIN q /\ Tail(q)[i] = q[i + 1]
           /\ \A i \in Queued(q, p, k) : i # 1 => i - 1 \in DOMAIN Tail(q) /\ (i - 1) + 1 = i
           /\ 1 \in Queued(q, p, k)
                <=> Head(q).type = "childAdded" /\ Head(q).screen = p /\ Head(q).key = k
  <1>1. Len(q) \in Nat /\ DOMAIN q = 1 .. Len(q)
    BY LenProperties
  <1>2. /\ 1 \in DOMAIN q /\ Head(q) = q[1]
        /\ DOMAIN Tail(q) = 1 .. (Len(q) - 1)
        /\ \A j \in 1 .. (Len(q) - 1) : j + 1 \in DOMAIN q /\ Tail(q)[j] = q[j + 1]
    BY TailSeq
  <1>3. \A i \in DOMAIN q : i # 1 => i - 1 \in 1 .. (Len(q) - 1) /\ (i - 1) + 1 = i
    BY <1>1
  <1>4. ASSUME NEW i
        PROVE  i \in Queued(Tail(q), p, k) <=> i \in DOMAIN Tail(q) /\ i + 1 \in Queued(q, p, k)
    BY <1>1, <1>2 DEF Queued
  <1>5. 1 \in Queued(q, p, k)
                <=> Head(q).type = "childAdded" /\ Head(q).screen = p /\ Head(q).key = k
    BY <1>2 DEF Queued
  <1>6. \A i \in Queued(q, p, k) : i # 1 => i - 1 \in DOMAIN Tail(q) /\ (i - 1) + 1 = i
    BY <1>2, <1>3 DEF Queued
  <1>7. \A i \in DOMAIN Tail(q) : i \in Nat \ {0} /\ i + 1 \in DOMAIN q /\ Tail(q)[i] = q[i + 1]
    BY <1>1, <1>2
  <1> QED
    BY <1>4, <1>5, <1>6, <1>7

\* The rows after one was appended (myMemoriesViewController retriveMemories).
LEMMA RowsAppend ==
    ASSUME NEW rs \in Seq(Row), NEW r \in Row, NEW k
    PROVE  /\ RowsOf(Append(rs, r), k) = RowsOf(rs, k) \cup (IF r.key = k THEN {Len(rs) + 1} ELSE {})
           /\ \A i \in DOMAIN rs : Append(rs, r)[i] = rs[i]
           /\ Append(rs, r)[Len(rs) + 1] = r
  <1>1. /\ DOMAIN Append(rs, r) = 1 .. (Len(rs) + 1)
        /\ DOMAIN rs = 1 .. Len(rs) /\ Len(rs) \in Nat
        /\ \A j \in DOMAIN rs : Append(rs, r)[j] = rs[j]
        /\ Append(rs, r)[Len(rs) + 1] = r
    BY AppendSeq
  <1> QED
    BY <1>1 DEF RowsOf

\* Blocks for other lists or children leave a list exact.
LEMMA ShownQuiet ==
    ASSUME NEW q \in Seq(Block), NEW e \in Seq(Block), NEW rs, NEW p, NEW k, NEW n,
           Queued(e, p, k) = {}, Shown(rs, q, p, k, n)
    PROVE  Shown(rs, q \o e, p, k, n)
  <1>1. Queued(q \o e, p, k) = Queued(q, p, k)
    <2>1. \A i : i \in Queued(q \o e, p, k) <=> i \in Queued(q, p, k)
      BY QueuedConcat
    <2> QED
      BY <2>1
  <1>2. \A i \in Queued(q, p, k) : (q \o e)[i] = q[i]
    BY QueuedConcat DEF Queued
  <1> QED
    BY <1>1, <1>2 DEF Shown

\* The one block for a child that appeared makes a list exact for it.
LEMMA ShownAppears ==
    ASSUME NEW q \in Seq(Block), NEW e \in Seq(Block), NEW rs, NEW p, NEW k, NEW n,
           NEW j \in Queued(e, p, k), Queued(e, p, k) = {j}, e[j].node = n, n # Absent,
           RowsOf(rs, k) = {}, Queued(q, p, k) = {}
    PROVE  Shown(rs, q \o e, p, k, n)
  <1>1. Queued(q \o e, p, k) = {Len(q) + j}
    BY QueuedConcat
  <1>2. (q \o e)[Len(q) + j] = e[j]
    BY QueuedConcat DEF Queued
  <1> QED
    BY <1>1, <1>2 DEF Shown

\* A list stays exact when the first block waiting is not for it.
LEMMA ShownSkipped ==
    ASSUME NEW q \in Seq(Block), q # <<>>, NEW rs, NEW p, NEW k, NEW n,
           ~ (Head(q).type = "childAdded" /\ Head(q).screen = p /\ Head(q).key = k),
           Shown(rs, q, p, k, n)
    PROVE  Shown(rs, Tail(q), p, k, n)
  <1> DEFINE t == Tail(q)
  <1>1. 1 \notin Queued(q, p, k)
    BY QueuedTail
  <1>2. \A i : i \in Queued(t, p, k) <=> i \in DOMAIN t /\ i + 1 \in Queued(q, p, k)
    BY QueuedTail
  <1>3. \A i \in Queued(q, p, k) : i - 1 \in DOMAIN t /\ (i - 1) + 1 = i /\ i \in Nat
    <2>1. \A i \in DOMAIN q : i \in Nat
      BY LenProperties
    <2> QED
      BY <1>1, <2>1, QueuedTail DEF Queued
  <1>4. \A i \in DOMAIN t : i \in Nat /\ t[i] = q[i + 1]
    BY QueuedTail
  <1> HIDE DEF t
  <1>5. CASE Queued(q, p, k) = {}
    <2>1. Queued(t, p, k) = {}
      BY <1>2, <1>5
    <2> QED
      BY <1>5, <2>1 DEF Shown, t
  <1>6. ASSUME NEW i \in Queued(q, p, k), Queued(q, p, k) = {i}
        PROVE  i - 1 \in Queued(t, p, k) /\ Queued(t, p, k) = {i - 1} /\ t[i - 1] = q[i]
    <2>1. i - 1 \in DOMAIN t /\ (i - 1) + 1 = i /\ i \in Nat
      BY <1>3
    <2>2. i - 1 \in Queued(t, p, k)
      BY <1>2, <2>1
    <2>3. \A j \in Queued(t, p, k) : j = i - 1
      BY <1>2, <1>4, <1>6, <2>1
    <2> QED
      BY <1>4, <2>1, <2>2, <2>3
  <1> QED
    BY <1>5, <1>6 DEF Shown, t

\* Handling its block turns the block into a row: the list stays exact.
LEMMA ShownHandled ==
    ASSUME NEW q \in Seq(Block), q # <<>>, NEW rs \in Seq(Row), NEW p, NEW k, NEW n,
           NEW r \in Row, r = [key |-> Head(q).key, node |-> Head(q).node],
           Head(q).type = "childAdded", Head(q).screen = p,
           Shown(rs, q, p, k, n)
    PROVE  Shown(Append(rs, r), Tail(q), p, k, n)
  <1> DEFINE t == Tail(q)
             ts == Append(rs, r)
  <1>1. r.key = Head(q).key /\ r.node = Head(q).node
    OBVIOUS
  <1>2. CASE Head(q).key # k
    <2>1. Shown(rs, t, p, k, n)
      BY <1>2, ShownSkipped
    <2>2. RowsOf(ts, k) = RowsOf(rs, k) /\ \A i \in RowsOf(rs, k) : ts[i] = rs[i]
      BY <1>1, <1>2, RowsAppend DEF RowsOf
    <2> QED
      BY <2>1, <2>2 DEF Shown
  <1>3. CASE Head(q).key = k
    <2>1. 1 \in Queued(q, p, k)
      BY <1>3, QueuedTail
    <2>2. n # Absent /\ Queued(q, p, k) = {1} /\ q[1].node = n /\ RowsOf(rs, k) = {}
      BY <2>1 DEF Shown
    <2>3. Queued(t, p, k) = {}
      <3>1. \A i \in DOMAIN t : i \in Nat \ {0}
        BY QueuedTail
      <3>2. \A i \in DOMAIN t : i + 1 # 1
        BY <3>1
      <3> QED
        BY <2>2, <3>2, QueuedTail
    <2>4. RowsOf(ts, k) = {Len(rs) + 1} /\ ts[Len(rs) + 1].node = n
      <3>1. Head(q) = q[1]
        BY TailSeq
      <3> QED
        BY <1>1, <1>3, <2>2, <3>1, RowsAppend
    <2> QED
      BY <2>2, <2>3, <2>4 DEF Shown
  <1> QED
    BY <1>2, <1>3

-----------------------------------------------------------------------------
(* The shape of the screens and of the queue *)

StackShape ==
    /\ stack[1].kind = "list"
    /\ \A p \in DOMAIN stack :
          /\ stack[p].kind = "show" => /\ p - 1 \in DOMAIN stack
                                       /\ stack[p - 1].kind = "list"
                                       /\ stack[p].memoryID \in Key
          /\ stack[p].alert = "delete" => stack[p].kind = "show"
          /\ stack[p].observing => stack[p].kind = "list" /\ listening

EventsForLists ==
    \A i \in DOMAIN mainQueue : mainQueue[i].type = "childAdded" =>
        /\ mainQueue[i].screen \in DOMAIN stack
        /\ stack[mainQueue[i].screen].kind = "list"

DiaryCore == DiaryTypeOK /\ RepoInv /\ StackShape /\ EventsForLists

-----------------------------------------------------------------------------
(* Screens and stacks *)

\* The fields of a screen.
LEMMA ScreenFields ==
    ASSUME NEW s \in Screen
    PROVE  /\ s.kind \in {"list", "add", "show"}
           /\ s.initator \in {"", "vc1", "vc2"}
           /\ s.memoryID \in Key \cup {NoKey}
           /\ s.text \in Node
           /\ s.rows \in Seq(Row)
           /\ s.observing \in BOOLEAN
           /\ s.alert \in {"none", "saved", "delete"}
  BY DEF Screen

\* The screens the app presents.
LEMMA NewScreens ==
    /\ NewList \in Screen /\ NewAdd \in Screen
    /\ \A s \in Screen : NewEdit(s) \in Screen
    /\ \A r \in Row : NewShow(r) \in Screen
  <1>1. Blank \in Screen
    <2>1. <<>> \in Seq(Row) /\ Absent \in Node /\ NoKey \in Key \cup {NoKey}
      BY DEF Node
    <2> QED
      BY <2>1 DEF Blank, Screen
  <1>2. NewList \in Screen
    BY <1>1 DEF NewList, Screen
  <1>3. NewAdd \in Screen
    BY <1>1 DEF NewAdd, Screen
  <1>4. ASSUME NEW s \in Screen PROVE NewEdit(s) \in Screen
    BY <1>1, <1>4 DEF NewEdit, Screen
  <1>5. ASSUME NEW r \in Row PROVE NewShow(r) \in Screen
    <2>1. r.key \in Key \cup {NoKey} /\ r.node \in Node
      BY DEF Row, Node
    <2> QED
      BY <1>1, <2>1 DEF NewShow, Screen
  <1> QED
    BY <1>2, <1>3, <1>4, <1>5

\* What they show.
LEMMA NewScreenFields ==
    /\ /\ NewList.kind = "list" /\ NewList.initator = "" /\ NewList.rows = <<>>
       /\ NewList.observing = TRUE /\ NewList.alert = "none"
    /\ /\ NewAdd.kind = "add" /\ NewAdd.initator = "vc1" /\ NewAdd.rows = <<>>
       /\ NewAdd.observing = FALSE /\ NewAdd.alert = "none"
    /\ \A s : /\ NewEdit(s).kind = "add" /\ NewEdit(s).memoryID = s.memoryID /\ NewEdit(s).rows = <<>>
              /\ NewEdit(s).observing = FALSE /\ NewEdit(s).alert = "none"
    /\ \A r : /\ NewShow(r).kind = "show" /\ NewShow(r).initator = "" /\ NewShow(r).rows = <<>>
              /\ NewShow(r).memoryID = r.key
              /\ NewShow(r).observing = FALSE /\ NewShow(r).alert = "none"
  BY DEF NewList, NewAdd, NewEdit, NewShow, Blank

\* The same screens, but for their alerts.
Alike(s, t) ==
    /\ t \in Seq(Screen) /\ Len(t) = Len(s) /\ DOMAIN t = DOMAIN s
    /\ \A p \in DOMAIN s : /\ t[p].kind = s[p].kind /\ t[p].initator = s[p].initator
                           /\ t[p].memoryID = s[p].memoryID /\ t[p].text = s[p].text
                           /\ t[p].rows = s[p].rows /\ t[p].observing = s[p].observing

\* An alert comes or goes.
LEMMA AlertSet ==
    ASSUME NEW s \in Seq(Screen), NEW p \in DOMAIN s,
           NEW a \in {"none", "saved", "delete"}
    PROVE  LET t == [s EXCEPT ![p].alert = a]
           IN  /\ Alike(s, t)
               /\ \A q \in DOMAIN s : t[q].alert = IF q = p THEN a ELSE s[q].alert
  <1> DEFINE n == [s[p] EXCEPT !.alert = a]
             t == [s EXCEPT ![p].alert = a]
  <1>1. s[p] \in Screen
    BY ElementOfSeq, LenProperties
  <1>2. n \in Screen
    BY <1>1 DEF Screen
  <1>3. /\ n.kind = s[p].kind /\ n.initator = s[p].initator /\ n.memoryID = s[p].memoryID
        /\ n.text = s[p].text /\ n.rows = s[p].rows /\ n.observing = s[p].observing
        /\ n.alert = a
    BY <1>1 DEF Screen
  <1>4. t = [s EXCEPT ![p] = n]
    OBVIOUS
  <1> HIDE DEF n
  <1>5. p \in 1 .. Len(s) /\ DOMAIN s = 1 .. Len(s)
    BY LenProperties
  <1>6. /\ t \in Seq(Screen) /\ Len(t) = Len(s)
        /\ \A q \in DOMAIN s : t[q] = IF q = p THEN n ELSE s[q]
    BY <1>2, <1>4, <1>5, ExceptSeq
  <1>7. DOMAIN t = DOMAIN s
    BY <1>4
  <1> QED
    BY <1>3, <1>6, <1>7 DEF Alike

\* A row is added to a list.
WithRow(s, r) == [s EXCEPT !.rows = Append(s.rows, r)]

LEMMA RowAdded ==
    ASSUME NEW s \in Screen, NEW r \in Row
    PROVE  /\ WithRow(s, r) \in Screen
           /\ WithRow(s, r).kind = s.kind /\ WithRow(s, r).initator = s.initator
           /\ WithRow(s, r).memoryID = s.memoryID /\ WithRow(s, r).text = s.text
           /\ WithRow(s, r).observing = s.observing /\ WithRow(s, r).alert = s.alert
           /\ WithRow(s, r).rows = Append(s.rows, r)
  <1>1. s.rows \in Seq(Row)
    BY ScreenFields
  <1>2. PICK rs \in Seq(Row) : rs = Append(s.rows, r)
    BY <1>1, AppendSeq
  <1>3. WithRow(s, r) = [s EXCEPT !.rows = rs]
    BY <1>2 DEF WithRow
  <1>4. [s EXCEPT !.rows = rs] \in Screen
    BY DEF Screen
  <1> QED
    BY <1>2, <1>3, <1>4 DEF Screen

\* The memory of an add screen is chosen and typed in.
WithMemory(s, k, v) == [s EXCEPT !.memoryID = k, !.text = v]

LEMMA MemorySet ==
    ASSUME NEW s \in Screen, NEW k \in Key, NEW v \in Value
    PROVE  /\ WithMemory(s, k, v) \in Screen
           /\ WithMemory(s, k, v).kind = s.kind /\ WithMemory(s, k, v).initator = s.initator
           /\ WithMemory(s, k, v).memoryID = k /\ WithMemory(s, k, v).text = v
           /\ WithMemory(s, k, v).observing = s.observing
           /\ WithMemory(s, k, v).alert = s.alert /\ WithMemory(s, k, v).rows = s.rows
  <1>1. v \in Node /\ k \in Key \cup {NoKey}
    BY DEF Node
  <1> QED
    BY <1>1 DEF Screen, WithMemory

\* The listener of a list is removed.
Silenced(s) == [s EXCEPT !.observing = FALSE]

LEMMA ListenerGone ==
    ASSUME NEW s \in Screen
    PROVE  /\ Silenced(s) \in Screen
           /\ Silenced(s).kind = s.kind /\ Silenced(s).initator = s.initator
           /\ Silenced(s).memoryID = s.memoryID /\ Silenced(s).text = s.text
           /\ Silenced(s).observing = FALSE /\ Silenced(s).alert = s.alert
           /\ Silenced(s).rows = s.rows
  BY DEF Silenced, Screen

-----------------------------------------------------------------------------
(* What a typed state offers *)

\* The visible screen, and the lists that listen.
LEMMA TopScreen ==
    ASSUME DiaryTypeOK
    PROVE  /\ stack \in Seq(Screen) /\ stack # <<>>
           /\ Top \in Nat /\ Top >= 1 /\ DOMAIN stack = 1 .. Top
           /\ Top \in DOMAIN stack /\ Top \in ScreenIds
           /\ DOMAIN stack \subseteq ScreenIds /\ ScreenIds \subseteq Nat
           /\ \A p \in DOMAIN stack : stack[p] \in Screen
           /\ Listeners(stack) \in SUBSET ScreenIds
  <1>1. stack \in Seq(Screen) /\ Top \in ScreenIds
    BY DEF DiaryTypeOK, Top
  <1>2. MaxScreens \in Nat
    BY DiaryAssumption
  <1>3. Top \in Nat /\ DOMAIN stack = 1 .. Top
    BY <1>1, LenProperties DEF Top
  <1>4. Top >= 1 /\ Top <= MaxScreens
    BY <1>1, <1>2, <1>3 DEF ScreenIds
  <1>5. stack # <<>>
    BY <1>4 DEF Top
  <1>6. DOMAIN stack \subseteq ScreenIds /\ ScreenIds \subseteq Nat
    BY <1>2, <1>3, <1>4 DEF ScreenIds
  <1>7. \A p \in DOMAIN stack : stack[p] \in Screen
    BY <1>1, <1>3, ElementOfSeq DEF Top
  <1> QED
    BY <1>1, <1>3, <1>4, <1>5, <1>6, <1>7 DEF Listeners

\* Blocks are childAdded or completion, told apart by their type.
LEMMA BlockFields ==
    ASSUME NEW b \in Block
    PROVE  /\ b.screen \in ScreenIds
           /\ b.type = "childAdded" => b \in ChildAdded /\ b.key \in Key /\ b.node \in Value
           /\ b.type = "completion" => b \in Completion /\ b.success \in BOOLEAN
           /\ b.type \in {"childAdded", "completion"}
  BY DEF Block, ChildAdded, Completion

\* The events of a step that changes the view.
LEMMA RaisedTyped ==
    ASSUME DiaryTypeOK, eventCache' \in [Key -> Node]
    PROVE  /\ RaisedEvents \in Seq(ChildAdded) /\ RaisedEvents \in Seq(Block)
           /\ \A i \in DOMAIN RaisedEvents :
                 /\ RaisedEvents[i].type = "childAdded"
                 /\ RaisedEvents[i].screen \in Listeners(stack)
                 /\ RaisedEvents[i].key \in Appeared(eventCache, eventCache')
                 /\ RaisedEvents[i].node = eventCache'[RaisedEvents[i].key]
           /\ \A p \in Listeners(stack), k \in Appeared(eventCache, eventCache') :
                 \E j \in Queued(RaisedEvents, p, k) : Queued(RaisedEvents, p, k) = {j}
  <1>1. eventCache \in [Key -> Node] /\ Listeners(stack) \in SUBSET ScreenIds
    BY TopScreen DEF DiaryTypeOK, RepoTypeOK
  <1>2. /\ RaisedEvents \in Seq(ChildAdded)
        /\ \A i \in DOMAIN RaisedEvents :
                 /\ RaisedEvents[i].screen \in Listeners(stack)
                 /\ RaisedEvents[i].key \in Appeared(eventCache, eventCache')
                 /\ RaisedEvents[i].node = eventCache'[RaisedEvents[i].key]
        /\ \A p \in Listeners(stack), k \in Appeared(eventCache, eventCache') :
                 \E j \in Queued(RaisedEvents, p, k) : Queued(RaisedEvents, p, k) = {j}
    BY <1>1, EventsRaised DEF RaisedEvents
  <1>3. RaisedEvents \in Seq(Block)
    BY <1>2, SeqMonotonic DEF Block
  <1>4. \A i \in DOMAIN RaisedEvents : RaisedEvents[i] \in ChildAdded
    BY <1>2, ElementOfSeq, LenProperties
  <1>5. \A i \in DOMAIN RaisedEvents : RaisedEvents[i].type = "childAdded"
    BY <1>4 DEF ChildAdded
  <1> QED
    BY <1>2, <1>3, <1>5

\* The events a new list replays from the view it joins.
Replay(view, p) == ChildAddedEvents(Empty, view, {p})

LEMMA ReplayTyped ==
    ASSUME NEW view \in [Key -> Node], NEW p \in ScreenIds
    PROVE  /\ Replay(view, p) \in Seq(ChildAdded) /\ Replay(view, p) \in Seq(Block)
           /\ \A i \in DOMAIN Replay(view, p) :
                 /\ Replay(view, p)[i].type = "childAdded"
                 /\ Replay(view, p)[i].screen = p
                 /\ Replay(view, p)[i].key \in Key
                 /\ view[Replay(view, p)[i].key] # Absent
                 /\ Replay(view, p)[i].node = view[Replay(view, p)[i].key]
           /\ \A k \in Key : view[k] # Absent =>
                 \E j \in Queued(Replay(view, p), p, k) : Queued(Replay(view, p), p, k) = {j}
  <1> DEFINE E == Replay(view, p)
  <1>1. Empty \in [Key -> Node] /\ {p} \in SUBSET ScreenIds
    BY DEF Empty, Node
  <1>2. Appeared(Empty, view) = {k \in Key : view[k] # Absent}
    BY DEF Appeared, Empty
  <1>3. /\ E \in Seq(ChildAdded)
        /\ \A i \in DOMAIN E :
                 /\ E[i].screen \in {p}
                 /\ E[i].key \in Appeared(Empty, view)
                 /\ E[i].node = view[E[i].key]
        /\ \A q \in {p}, k \in Appeared(Empty, view) :
                 \E j \in Queued(E, q, k) : Queued(E, q, k) = {j}
    <2>1. PICK regs \in SUBSET ScreenIds : regs = {p}
      BY <1>1
    <2>2. E = ChildAddedEvents(Empty, view, regs)
      BY <2>1 DEF Replay
    <2> HIDE DEF E
    <2>3. /\ E \in Seq(ChildAdded)
          /\ \A i \in DOMAIN E :
                 /\ E[i].screen \in regs
                 /\ E[i].key \in Appeared(Empty, view)
                 /\ E[i].node = view[E[i].key]
          /\ \A q \in regs, k \in Appeared(Empty, view) :
                 \E j \in Queued(E, q, k) : Queued(E, q, k) = {j}
      BY <1>1, <2>2, EventsRaised
    <2> QED
      BY <2>1, <2>3
  <1> HIDE DEF E
  <1>4. E \in Seq(Block)
    BY <1>3, SeqMonotonic DEF Block
  <1>5. \A i \in DOMAIN E : E[i] \in ChildAdded
    BY <1>3, ElementOfSeq, LenProperties
  <1>6. \A i \in DOMAIN E : E[i].type = "childAdded"
    BY <1>5 DEF ChildAdded
  <1> QED
    BY <1>2, <1>3, <1>4, <1>6 DEF E

-----------------------------------------------------------------------------
(* The database client inside the diary *)

\* A delete followed by a new list keeps the client's invariant
\* (showMemoryViewController deleteBtnPressed).
LEMMA RemoveAndObserveStep ==
    ASSUME RepoInv, NEW k \in Key, RemoveAndObserve(k)
    PROVE  RepoInv'
  <1>1. RepoTypeOK /\ VisibleWritesExact /\ EventCacheExact /\ WriteIdsIncrease
    BY DEF RepoInv
  <1>2. Absent \in Node /\ AddOverwrite(k, Absent)
    BY DEF RemoveAndObserve, Node
  <1>3. VisibleWritesExact' /\ WriteIdsIncrease'
    BY <1>1, <1>2, AddVisible, AddWriteIds
  <1>4. /\ writeIdCounter' \in Nat
        /\ allWrites' \in Seq(Write)
        /\ visibleWrites' \in [Key -> Node \cup {NoWrite}]
    BY <1>1, <1>2, AddTyped
  <1>5. CASE listening
    <2>1. Set(k, Absent)
      BY <1>5 DEF RemoveAndObserve, Set
    <2>2. [RepoNext]_repoVars
      BY <1>2, <2>1 DEF RepoNext
    <2> QED
      BY <1>1, <1>3, <2>2, TypeStep, EventStep DEF RepoInv
  <1>6. CASE ~listening
    <2>1. /\ listening' = TRUE /\ serverComplete' = FALSE /\ serverCache' = Empty
          /\ eventCache' = Layer(visibleWrites', Empty)
      BY <1>6 DEF RemoveAndObserve, NewView
    <2>2. RepoTypeOK'
      BY <1>4, <2>1 DEF RepoTypeOK, Layer, Empty, Node
    <2>3. EventCacheExact'
      BY <2>1 DEF EventCacheExact, Layer
    <2> QED
      BY <1>3, <2>2, <2>3 DEF RepoInv
  <1> QED
    BY <1>5, <1>6

\* The client starts afresh (Relaunch).
LEMMA RelaunchClient ==
    ASSUME Relaunch
    PROVE  RepoInv'
  <1>1. /\ writeIdCounter' = 0 /\ allWrites' = <<>> /\ visibleWrites' = [k \in Key |-> NoWrite]
        /\ listening' = TRUE /\ serverComplete' = FALSE /\ serverCache' = Empty
        /\ eventCache' = Layer(visibleWrites', Empty)
    BY DEF Relaunch, NewView
  <1>2. RepoTypeOK'
    <2>1. writeIdCounter' \in Nat /\ allWrites' \in Seq(Write)
      BY <1>1
    <2>2. /\ visibleWrites' \in [Key -> Node \cup {NoWrite}]
          /\ serverCache' \in [Key -> Node]
          /\ eventCache' \in [Key -> Node]
      BY <1>1 DEF Node, Empty, Layer
    <2> QED
      BY <1>1, <2>1, <2>2 DEF RepoTypeOK
  <1>3. VisibleWritesExact' /\ WriteIdsIncrease'
    BY <1>1 DEF VisibleWritesExact, WriteIdsIncrease, WritesTo
  <1>4. EventCacheExact'
    BY <1>1 DEF EventCacheExact, Layer
  <1> QED
    BY <1>2, <1>3, <1>4 DEF RepoInv

\* A data push is one of the client's steps, or none.
LEMMA PushIsClientStep ==
    ASSUME NEW k \in Key, server' \in [Key -> Node], PushChild(k)
    PROVE  [RepoNext]_repoVars
  <1>1. server'[k] \in Node
    OBVIOUS
  <1> QED
    BY <1>1 DEF PushChild, RepoNext

\* Every step of the diary takes a step of the client, or none.
LEMMA ClientStep ==
    ASSUME DiaryTypeOK, RepoInv, StackShape, [DiaryNext]_diaryVars
    PROVE  RepoInv'
  <1>1. ASSUME [RepoNext]_repoVars PROVE RepoInv'
    BY <1>1, TypeStep, VisibleStep, WriteIdsStep, EventStep DEF RepoInv
  <1>2. CASE UNCHANGED diaryVars
    BY <1>1, <1>2 DEF diaryVars
  <1>3. CASE UserStep
    <2>1. ASSUME NEW k \in Key, NEW v \in Value, DoneBtnPressed(k, v)
          PROVE  RepoNext
      BY <2>1 DEF DoneBtnPressed, RepoNext, Node
    <2>2. ASSUME CancelBtnPressed \/ SavedOk
          PROVE  RepoNext
      BY <2>2 DEF CancelBtnPressed, SavedOk, RepoNext
    <2>3. ASSUME DeleteOk
          PROVE  RepoInv'
      <3>1. stack[Top].memoryID \in Key
        BY <2>3, TopScreen DEF DeleteOk, StackShape
      <3> QED
        BY <2>3, <3>1, RemoveAndObserveStep DEF DeleteOk
    <2>4. ASSUME ~ DeleteOk
          PROVE  [RepoNext]_repoVars
      BY <1>3, <2>1, <2>2, <2>4
      DEF UserStep, AddMemoriesBtnPressed, DidSelectRow, BackBtnPressed, EditBtnPressed,
          DeleteBtnPressed, DeleteCancelled
    <2> QED
      BY <1>1, <2>3, <2>4
  <1>4. CASE MainQueueStep
    BY <1>1, <1>4 DEF MainQueueStep, HandleChildAdded, HandleCompletion
  <1>5. CASE ServerAccepts
    <2> DEFINE i == Len(answers) + 1
    <2>1. i \in 1 .. Len(allWrites) /\ allWrites \in Seq(Write)
      BY <1>5 DEF ServerAccepts, DiaryTypeOK, RepoTypeOK
    <2>2. allWrites[i].key \in Key /\ allWrites[i].node \in Node
      BY <2>1, QueuedWrite, LenProperties
    <2>3. server' \in [Key -> Node]
      BY <1>5, <2>2 DEF ServerAccepts, DiaryTypeOK
    <2> QED
      BY <1>1, <1>5, <2>2, <2>3, PushIsClientStep DEF ServerAccepts
  <1>6. CASE ServerRejects
    BY <1>1, <1>6 DEF ServerRejects
  <1>7. CASE AnswerArrives
    <2>1. Head(answers) \in BOOLEAN
      BY <1>7, TailSeq DEF AnswerArrives, DiaryTypeOK
    <2>2. 1 \in DOMAIN allWrites /\ MayAnswer(1) /\ AckWrite(1, Head(answers))
      BY <1>7 DEF AnswerArrives, MayAnswer
    <2> QED
      BY <1>1, <2>1, <2>2 DEF RepoNext
  <1>8. CASE FirstData
    BY <1>1, <1>8 DEF FirstData, RepoNext, DiaryTypeOK
  <1>9. ASSUME NEW k \in Key, NEW n \in Node, OtherDevice(k, n)
        PROVE  RepoInv'
    <2>1. server' \in [Key -> Node]
      BY <1>9 DEF OtherDevice, DiaryTypeOK
    <2> QED
      BY <1>1, <1>9, <2>1, PushIsClientStep DEF OtherDevice
  <1>10. CASE ListenRevoked
    BY <1>1, <1>10 DEF ListenRevoked, RepoNext
  <1>11. CASE Relaunch
    BY <1>11, RelaunchClient
  <1> QED
    BY <1>2, <1>3, <1>4, <1>5, <1>6, <1>7, <1>8, <1>9, <1>10, <1>11
    DEF DiaryNext, ServerStep, OutsideStep

-----------------------------------------------------------------------------
(* What a step does to the screens *)

\* A screen that stays keeps its kind and its memory (but for a new memory being
\* written), and stops to observe only with every other one.
ScreenKept(p) ==
    /\ stack'[p].kind = stack[p].kind
    /\ stack'[p].initator = stack[p].initator
    /\ \/ stack'[p].memoryID = stack[p].memoryID
       \/ stack[p].kind = "add" /\ stack[p].initator = "vc1"
    /\ stack'[p].observing => stack[p].observing /\ listening'
    /\ stack'[p].alert = "delete" => stack[p].kind = "show"
    /\ stack'[p].alert = "saved" =>
          \/ stack[p].alert = "saved"
          \/ /\ mainQueue # <<>> /\ Head(mainQueue).type = "completion"
             /\ Head(mainQueue).success /\ Head(mainQueue).screen = p
    /\ \/ stack'[p].rows = stack[p].rows
       \/ /\ HandleChildAdded /\ mainQueue # <<>> /\ Head(mainQueue).type = "childAdded"
          /\ Head(mainQueue).screen = p
          /\ stack'[p].rows = Append(stack[p].rows, [key |-> Head(mainQueue).key,
                                                     node |-> Head(mainQueue).node])

\* A screen the visible one presents.
Presented(n) ==
    /\ n.alert = "none" /\ n.rows = <<>>
    /\ \/ n.kind = "list" /\ n.initator = "" /\ n.observing /\ listening'
       \/ n.kind = "add" /\ n.initator = "vc1" /\ ~n.observing
       \/ /\ n.kind = "add" /\ ~n.observing
          /\ stack[Top].kind = "show" /\ n.memoryID = stack[Top].memoryID
       \/ /\ n.kind = "show" /\ n.initator = "" /\ ~n.observing /\ stack[Top].kind = "list"
          /\ \E i \in DOMAIN stack[Top].rows : n.memoryID = stack[Top].rows[i].key

StackKept ==
    /\ stack' \in Seq(Screen)
    /\ \/ Len(stack') = Top
       \/ Len(stack') = Top + 1 /\ Top + 1 \in ScreenIds /\ Presented(stack'[Top + 1])
       \/ Len(stack') = Top - 1 /\ stack[Top].kind = "show"
    /\ \A p \in DOMAIN stack : p \in DOMAIN stack' => ScreenKept(p)

\* A screen is put on top, and listens if it is a list.
LEMMA StackPushed ==
    ASSUME DiaryTypeOK, StackShape, Top < MaxScreens, NEW n \in Screen, Presented(n),
           listening => listening', stack' = Append(stack, n)
    PROVE  StackKept
  <1>1. /\ stack' \in Seq(Screen) /\ Len(stack') = Top + 1
        /\ \A p \in DOMAIN stack : stack'[p] = stack[p]
        /\ stack'[Top + 1] = n
    BY TopScreen, AppendSeq DEF Top
  <1>2. Top + 1 \in ScreenIds
    BY TopScreen, DiaryAssumption DEF ScreenIds
  <1>3. \A p \in DOMAIN stack : ScreenKept(p)
    BY <1>1 DEF ScreenKept, StackShape
  <1> QED
    BY <1>1, <1>2, <1>3 DEF StackKept

\* The stack stays.
LEMMA StackUnchanged ==
    ASSUME DiaryTypeOK, StackShape, listening => listening', UNCHANGED stack
    PROVE  StackKept
  <1>1. \A p \in DOMAIN stack : ScreenKept(p)
    BY DEF ScreenKept, StackShape
  <1> QED
    BY <1>1, TopScreen DEF StackKept, Top

\* An alert goes and a new list comes (retriveMemories).
LEMMA StackNewList ==
    ASSUME DiaryTypeOK, StackShape, Top < MaxScreens,
           NEW s, Alike(stack, s), \A p \in DOMAIN stack : s[p].alert \in {stack[p].alert, "none"},
           listening', RetriveMemories(s)
    PROVE  /\ StackKept
           /\ Len(stack') = Top + 1 /\ stack'[Top + 1] = NewList
           /\ mainQueue' = mainQueue \o Replay(eventCache', Top + 1)
  <1>1. s \in Seq(Screen) /\ Len(s) = Top /\ DOMAIN s = DOMAIN stack
    BY DEF Alike, Top
  <1>2. /\ stack' \in Seq(Screen) /\ Len(stack') = Top + 1
        /\ \A p \in DOMAIN stack : stack'[p] = s[p]
        /\ stack'[Top + 1] = NewList
    BY <1>1, NewScreens, AppendSeq DEF RetriveMemories
  <1>3. Top + 1 \in ScreenIds
    BY TopScreen, DiaryAssumption DEF ScreenIds
  <1>4. \A p \in DOMAIN stack : ScreenKept(p)
    BY <1>2 DEF ScreenKept, StackShape, Alike
  <1>5. Presented(stack'[Top + 1])
    BY <1>2, NewScreenFields DEF Presented
  <1>6. mainQueue' = mainQueue \o Replay(eventCache', Top + 1)
    BY <1>1 DEF RetriveMemories, Replay
  <1> QED
    BY <1>2, <1>3, <1>4, <1>5, <1>6 DEF StackKept

\* The steps of the user keep the screens.
LEMMA UserStepStack ==
    ASSUME DiaryTypeOK, StackShape, UserStep
    PROVE  StackKept
  <1>1. CASE AddMemoriesBtnPressed
    <2>1. listening' = listening
      BY <1>1 DEF AddMemoriesBtnPressed, repoVars, viewVars
    <2>2. NewAdd \in Screen /\ Presented(NewAdd)
      BY NewScreens, NewScreenFields DEF Presented
    <2> QED
      BY <1>1, <2>1, <2>2, StackPushed DEF AddMemoriesBtnPressed
  <1>2. ASSUME NEW i \in DOMAIN stack[Top].rows, DidSelectRow(i) PROVE StackKept
    <2> DEFINE r == stack[Top].rows[i]
    <2>1. listening' = listening
      BY <1>2 DEF DidSelectRow, repoVars, viewVars
    <2>2. r \in Row
      <3>1. stack[Top].rows \in Seq(Row)
        BY TopScreen, ScreenFields
      <3> QED
        BY <3>1, ElementOfSeq, LenProperties
    <2>3. NewShow(r) \in Screen /\ Presented(NewShow(r))
      BY <1>2, <2>2, NewScreens, NewScreenFields DEF Presented, DidSelectRow, Tappable
    <2> QED
      BY <1>2, <2>1, <2>3, StackPushed DEF DidSelectRow
  <1>3. ASSUME NEW k \in Key, NEW v \in Value, DoneBtnPressed(k, v) PROVE StackKept
    <2>1. listening' = listening /\ stack[Top].kind = "add" /\ stack[Top].alert = "none"
          /\ (stack[Top].initator = "vc1" \/ k = stack[Top].memoryID)
      BY <1>3 DEF DoneBtnPressed, Set, Tappable
    <2>2. stack' = [stack EXCEPT ![Top].memoryID = k, ![Top].text = v]
      BY <1>3 DEF DoneBtnPressed
    <2>3. /\ stack' \in Seq(Screen) /\ Len(stack') = Top /\ DOMAIN stack' = DOMAIN stack
          /\ \A q \in DOMAIN stack : q # Top => stack'[q] = stack[q]
          /\ stack'[Top].kind = stack[Top].kind /\ stack'[Top].initator = stack[Top].initator
          /\ stack'[Top].memoryID = k
          /\ stack'[Top].observing = stack[Top].observing /\ stack'[Top].alert = stack[Top].alert
          /\ stack'[Top].rows = stack[Top].rows
      <3>1. stack \in Seq(Screen) /\ Top \in DOMAIN stack
        BY TopScreen
      <3>2. Len(stack) = Top
        BY DEF Top
      <3> DEFINE n == WithMemory(stack[Top], k, v)
      <3>3. n \in Screen /\ n.kind = stack[Top].kind /\ n.initator = stack[Top].initator
            /\ n.memoryID = k /\ n.observing = stack[Top].observing
            /\ n.alert = stack[Top].alert /\ n.rows = stack[Top].rows
        BY TopScreen, MemorySet
      <3>4. stack' = [stack EXCEPT ![Top] = n]
        BY <2>2 DEF WithMemory
      <3> HIDE DEF n
      <3>5. Top \in 1 .. Len(stack) /\ DOMAIN stack = 1 .. Len(stack)
        BY <3>2, TopScreen
      <3>6. /\ stack' \in Seq(Screen) /\ Len(stack') = Len(stack)
            /\ \A q \in DOMAIN stack : stack'[q] = IF q = Top THEN n ELSE stack[q]
        BY <3>1, <3>3, <3>4, <3>5, ExceptSeq
      <3>7. DOMAIN stack' = DOMAIN stack
        BY <3>4
      <3> QED
        BY <3>1, <3>2, <3>3, <3>6, <3>7
    <2>4. \A p \in DOMAIN stack : ScreenKept(p)
      BY <2>1, <2>3, TopScreen DEF ScreenKept, StackShape
    <2> QED
      BY <2>3, <2>4 DEF StackKept
  <1>4. CASE CancelBtnPressed
    <2>1. Alike(stack, stack) /\ Top < MaxScreens /\ listening' /\ RetriveMemories(stack)
      BY <1>4, TopScreen DEF Alike, CancelBtnPressed, AddEventRegistration
    <2> QED
      BY <2>1, StackNewList
  <1>5. ASSUME SavedOk \/ DeleteOk PROVE StackKept
    <2> DEFINE s == [stack EXCEPT ![Top].alert = "none"]
    <2>1. Top < MaxScreens /\ listening' /\ RetriveMemories(s)
      BY <1>5 DEF SavedOk, DeleteOk, AddEventRegistration, RemoveAndObserve
    <2>2. Alike(stack, s) /\ \A p \in DOMAIN stack : s[p].alert \in {stack[p].alert, "none"}
      BY TopScreen, AlertSet
    <2> HIDE DEF s
    <2> QED
      BY <2>1, <2>2, StackNewList
  <1>6. CASE BackBtnPressed
    <2>1. listening' = listening /\ stack[Top].kind = "show" /\ stack' = Front(stack)
      BY <1>6 DEF BackBtnPressed, Tappable, repoVars, viewVars
    <2>2. /\ stack' \in Seq(Screen) /\ Len(stack') = Top - 1
          /\ \A p \in 1 .. (Top - 1) : stack'[p] = stack[p]
          /\ DOMAIN stack' = 1 .. (Top - 1)
      BY <2>1, TopScreen, FrontSeq DEF Top
    <2>3. \A p \in DOMAIN stack : p \in DOMAIN stack' => ScreenKept(p)
      BY <2>1, <2>2 DEF ScreenKept, StackShape
    <2> QED
      BY <2>1, <2>2, <2>3 DEF StackKept
  <1>7. CASE EditBtnPressed
    <2> DEFINE n == NewEdit(stack[Top])
    <2>1. listening' = listening /\ stack[Top].kind = "show" /\ Top < MaxScreens
          /\ stack' = Append(stack, n)
      BY <1>7 DEF EditBtnPressed, Tappable, repoVars, viewVars
    <2>2. n \in Screen /\ Presented(n)
      BY <2>1, TopScreen, NewScreens, NewScreenFields DEF Presented
    <2> HIDE DEF n
    <2> QED
      BY <2>1, <2>2, StackPushed
  <1>8. ASSUME DeleteBtnPressed \/ DeleteCancelled PROVE StackKept
    <2>1. listening' = listening
      BY <1>8 DEF DeleteBtnPressed, DeleteCancelled, repoVars, viewVars
    <2>2. PICK a \in {"none", "delete"} :
             stack' = [stack EXCEPT ![Top].alert = a] /\ (a = "delete" => stack[Top].kind = "show")
      BY <1>8 DEF DeleteBtnPressed, DeleteCancelled, Tappable
    <2>3. Alike(stack, stack') /\ \A p \in DOMAIN stack : stack'[p].alert = IF p = Top THEN a ELSE stack[p].alert
      BY <2>2, TopScreen, AlertSet
    <2>4. \A p \in DOMAIN stack : ScreenKept(p)
      BY <2>1, <2>2, <2>3 DEF ScreenKept, StackShape, Alike
    <2> QED
      BY <2>3, <2>4 DEF StackKept, Alike, Top
  <1> QED
    BY <1>1, <1>2, <1>3, <1>4, <1>5, <1>6, <1>7, <1>8 DEF UserStep

\* The block at the head of the main queue.
LEMMA HeadBlock ==
    ASSUME DiaryTypeOK, mainQueue # <<>>
    PROVE  /\ mainQueue \in Seq(Block) /\ Head(mainQueue) \in Block
           /\ 1 \in DOMAIN mainQueue /\ Head(mainQueue) = mainQueue[1]
           /\ Tail(mainQueue) \in Seq(Block)
           /\ \A j \in DOMAIN Tail(mainQueue) :
                 j + 1 \in DOMAIN mainQueue /\ Tail(mainQueue)[j] = mainQueue[j + 1]
  <1>1. mainQueue \in Seq(Block)
    BY DEF DiaryTypeOK, Block
  <1> QED
    BY <1>1, TailSeq

\* What the closure of observe(.childAdded) does to the lists.
LEMMA HandleChildAddedStack ==
    ASSUME DiaryTypeOK, EventsForLists, HandleChildAdded
    PROVE  LET p == Head(mainQueue).screen
               r == [key |-> Head(mainQueue).key, node |-> Head(mainQueue).node]
           IN  /\ r \in Row /\ p \in DOMAIN stack
               /\ stack' \in Seq(Screen) /\ Len(stack') = Len(stack) /\ DOMAIN stack' = DOMAIN stack
               /\ \A q \in DOMAIN stack :
                     stack'[q] = IF q = p THEN WithRow(stack[p], r) ELSE stack[q]
  <1> DEFINE p == Head(mainQueue).screen
             r == [key |-> Head(mainQueue).key, node |-> Head(mainQueue).node]
             n == WithRow(stack[p], r)
  <1>1. mainQueue # <<>> /\ Head(mainQueue).type = "childAdded"
    BY DEF HandleChildAdded
  <1>2. Head(mainQueue).key \in Key /\ Head(mainQueue).node \in Value
    BY <1>1, HeadBlock, BlockFields
  <1>3. r \in Row
    BY <1>2 DEF Row
  <1>4. p \in DOMAIN stack
    BY <1>1, HeadBlock DEF EventsForLists
  <1>5. stack' = [stack EXCEPT ![p] = n]
    BY DEF HandleChildAdded, WithRow
  <1> HIDE DEF p, r
  <1>6. n \in Screen
    BY <1>3, <1>4, TopScreen, RowAdded
  <1> HIDE DEF n
  <1>7. stack \in Seq(Screen) /\ p \in 1 .. Len(stack) /\ DOMAIN stack = 1 .. Len(stack)
    BY <1>4, TopScreen DEF Top
  <1>8. /\ stack' \in Seq(Screen) /\ Len(stack') = Len(stack)
        /\ \A q \in DOMAIN stack : stack'[q] = IF q = p THEN n ELSE stack[q]
    BY <1>5, <1>6, <1>7, ExceptSeq
  <1>9. DOMAIN stack' = DOMAIN stack
    BY <1>5
  <1> QED
    BY <1>3, <1>4, <1>8, <1>9 DEF n, p, r

\* Every step but a new start keeps the screens.
LEMMA StepStack ==
    ASSUME DiaryTypeOK, StackShape, EventsForLists, [DiaryNext]_diaryVars, ~Relaunch
    PROVE  StackKept
  <1>1. CASE UNCHANGED diaryVars
    <2>1. UNCHANGED stack /\ listening' = listening
      BY <1>1 DEF diaryVars, uiVars, repoVars, viewVars
    <2> QED
      BY <2>1, StackUnchanged
  <1>2. CASE UserStep
    BY <1>2, UserStepStack
  <1>3. CASE HandleChildAdded
    <2> DEFINE p == Head(mainQueue).screen
               r == [key |-> Head(mainQueue).key, node |-> Head(mainQueue).node]
    <2>1. /\ r \in Row /\ p \in DOMAIN stack
          /\ stack' \in Seq(Screen) /\ Len(stack') = Len(stack) /\ DOMAIN stack' = DOMAIN stack
          /\ \A q \in DOMAIN stack :
                     stack'[q] = IF q = p THEN WithRow(stack[p], r) ELSE stack[q]
      BY <1>3, HandleChildAddedStack
    <2>2. /\ mainQueue # <<>> /\ Head(mainQueue).type = "childAdded" /\ listening' = listening
      BY <1>3 DEF HandleChildAdded, repoVars, viewVars
    <2>3. ScreenKept(p)
      <3>1. stack[p] \in Screen
        BY <2>1, TopScreen
      <3> HIDE DEF p, r
      <3>2. /\ stack'[p].kind = stack[p].kind /\ stack'[p].initator = stack[p].initator
            /\ stack'[p].memoryID = stack[p].memoryID /\ stack'[p].observing = stack[p].observing
            /\ stack'[p].alert = stack[p].alert /\ stack'[p].rows = Append(stack[p].rows, r)
        BY <2>1, <3>1, RowAdded
      <3> QED
        BY <1>3, <2>1, <2>2, <3>2 DEF ScreenKept, StackShape, p, r
    <2>4. \A q \in DOMAIN stack : q # p => ScreenKept(q)
      <3> HIDE DEF p, r
      <3> QED
        BY <2>1, <2>2 DEF ScreenKept, StackShape
    <2> QED
      BY <2>1, <2>3, <2>4 DEF StackKept, Top
  <1>4. CASE HandleCompletion
    <2>1. listening' = listening /\ mainQueue # <<>> /\ Head(mainQueue).type = "completion"
      BY <1>4 DEF HandleCompletion, repoVars, viewVars
    <2>2. CASE SavedAlert(Head(mainQueue))
      <3>1. PICK p \in DOMAIN stack : p = Head(mainQueue).screen
        BY <2>2, TopScreen DEF SavedAlert, CanPresent
      <3>2. stack' = [stack EXCEPT ![p].alert = "saved"] /\ Head(mainQueue).success
        BY <1>4, <2>2, <3>1 DEF HandleCompletion, SavedAlert
      <3>3. Alike(stack, stack') /\ \A q \in DOMAIN stack : stack'[q].alert = IF q = p THEN "saved" ELSE stack[q].alert
        BY <3>2, TopScreen, AlertSet
      <3>4. \A q \in DOMAIN stack : ScreenKept(q)
        BY <2>1, <3>1, <3>2, <3>3 DEF ScreenKept, StackShape, Alike
      <3> QED
        BY <3>3, <3>4 DEF StackKept, Alike, Top
    <2>3. CASE ~SavedAlert(Head(mainQueue))
      <3>1. UNCHANGED stack
        BY <1>4, <2>3 DEF HandleCompletion
      <3> QED
        BY <2>1, <3>1, StackUnchanged
    <2> QED
      BY <2>2, <2>3
  <1>5. CASE ServerStep \/ \E k \in Key, n \in Node : OtherDevice(k, n)
    <2>1. UNCHANGED stack
      BY <1>5 DEF ServerStep, ServerAccepts, ServerRejects, AnswerArrives, FirstData, OtherDevice, uiVars
    <2>2. listening' = listening
      BY <1>5 DEF ServerStep, ServerAccepts, ServerRejects, AnswerArrives, FirstData, OtherDevice,
                  PushChild, ApplyServerOverwrite, ApplyServerSnapshot, AckWrite, repoVars, viewVars
    <2> QED
      BY <2>1, <2>2, StackUnchanged
  <1>6. CASE ListenRevoked
    <2>0. stack' = [p \in DOMAIN stack |-> Silenced(stack[p])]
      BY <1>6 DEF ListenRevoked, Silenced
    <2>1. /\ DOMAIN stack' = DOMAIN stack
          /\ \A p \in DOMAIN stack : stack'[p] = Silenced(stack[p]) /\ Silenced(stack[p]) \in Screen
      BY <2>0, TopScreen, ListenerGone
    <2>2. /\ stack' \in Seq(Screen) /\ Len(stack') = Len(stack) /\ DOMAIN stack' = DOMAIN stack
          /\ \A p \in DOMAIN stack :
                     /\ stack'[p].kind = stack[p].kind /\ stack'[p].initator = stack[p].initator
                     /\ stack'[p].memoryID = stack[p].memoryID /\ stack'[p].text = stack[p].text
                     /\ stack'[p].observing = FALSE /\ stack'[p].alert = stack[p].alert
                     /\ stack'[p].rows = stack[p].rows
      <3>1. stack' \in [1 .. Len(stack) -> Screen] /\ Len(stack) \in Nat
        BY <2>0, <2>1, TopScreen DEF Top
      <3>2. stack' \in Seq(Screen) /\ Len(stack') = Len(stack)
        BY <3>1
      <3>3. ASSUME NEW p \in DOMAIN stack
            PROVE  /\ stack'[p].kind = stack[p].kind /\ stack'[p].initator = stack[p].initator
                   /\ stack'[p].memoryID = stack[p].memoryID /\ stack'[p].text = stack[p].text
                   /\ stack'[p].observing = FALSE /\ stack'[p].alert = stack[p].alert
                   /\ stack'[p].rows = stack[p].rows
        <4>1. stack[p] \in Screen /\ stack'[p] = Silenced(stack[p])
          BY <2>1, TopScreen
        <4> QED
          BY <4>1, ListenerGone
      <3> QED
        BY <2>1, <3>2, <3>3
    <2>3. \A p \in DOMAIN stack : ScreenKept(p)
      BY <2>2 DEF ScreenKept, StackShape
    <2> QED
      BY <2>2, <2>3 DEF StackKept, Top
  <1> QED
    BY <1>1, <1>2, <1>3, <1>4, <1>5, <1>6 DEF DiaryNext, MainQueueStep, OutsideStep

-----------------------------------------------------------------------------
(* What a step puts on the main queue *)

\* A block a step puts on the queue: a child of the view for a list that listens,
\* or the callback of the write that was answered.
NewBlock(b) ==
    \/ /\ b.type = "childAdded" /\ b.key \in Key /\ b.screen \in Listeners(stack')
       /\ eventCache'[b.key] # Absent /\ b.node = eventCache'[b.key]
    \/ /\ b.type = "completion" /\ answers # <<>> /\ b.success = Head(answers)
       /\ b.screen = Head(onComplete) /\ Head(onComplete) # 0

\* Is child k new to the list at p: it appeared, or the list did.
NewTo(p, k) == eventCache'[k] # Absent /\ (p = Top + 1 \/ eventCache[k] = Absent)

\* A step queues the blocks e: one for each list that listens and each child new to it.
Queues(e) ==
    /\ e \in Seq(Block)
    /\ mainQueue' = mainQueue \o e
    /\ \A i \in DOMAIN e : NewBlock(e[i])
    /\ \A p \in Listeners(stack'), k \in Key :
          IF NewTo(p, k) THEN \E j \in Queued(e, p, k) : Queued(e, p, k) = {j}
                         ELSE Queued(e, p, k) = {}

\* Nothing is queued by a step that changes neither the view nor the lists.
LEMMA QueuesNothing ==
    ASSUME DiaryTypeOK, UNCHANGED mainQueue,
           \A p \in Listeners(stack') : p \in DOMAIN stack /\ eventCache' = eventCache
    PROVE  Queues(<<>>)
  <1>1. <<>> \in Seq(Block) /\ DOMAIN <<>> = {}
    OBVIOUS
  <1>2. mainQueue' = mainQueue \o <<>>
    BY ConcatEmptySeq DEF DiaryTypeOK
  <1>3. \A p, k : Queued(<<>>, p, k) = {}
    BY <1>1 DEF Queued
  <1>4. ASSUME NEW p \in Listeners(stack'), NEW k \in Key
        PROVE  ~ NewTo(p, k)
    <2>1. p \in 1 .. Top /\ Top \in Nat /\ eventCache' = eventCache
      BY TopScreen
    <2> QED
      BY <2>1 DEF NewTo
  <1> QED
    BY <1>1, <1>2, <1>3, <1>4 DEF Queues

\* A step that changes the view queues its events and, in the end, callbacks.
LEMMA QueuesRaised ==
    ASSUME DiaryTypeOK, eventCache' \in [Key -> Node], Listeners(stack') = Listeners(stack),
           NEW c \in Seq(Block), \A i \in DOMAIN c : c[i].type = "completion" /\ NewBlock(c[i]),
           mainQueue' = mainQueue \o RaisedEvents \o c
    PROVE  Queues(RaisedEvents \o c)
  <1> DEFINE r == RaisedEvents
             e == r \o c
  <1>1. /\ r \in Seq(Block)
        /\ \A i \in DOMAIN r :
                 /\ r[i].type = "childAdded"
                 /\ r[i].screen \in Listeners(stack)
                 /\ r[i].key \in Appeared(eventCache, eventCache')
                 /\ r[i].node = eventCache'[r[i].key]
        /\ \A p \in Listeners(stack), k \in Appeared(eventCache, eventCache') :
                 \E j \in Queued(r, p, k) : Queued(r, p, k) = {j}
    BY RaisedTyped
  <1>2. mainQueue' = mainQueue \o (r \o c)
    <2>1. mainQueue \in Seq(Block)
      BY DEF DiaryTypeOK, Block
    <2> HIDE DEF r
    <2> QED
      BY <1>1, <2>1, ConcatAssociative DEF r
  <1> HIDE DEF r, e
  <1>3. \A p, k : Queued(c, p, k) = {}
    BY DEF Queued
  <1>4. ASSUME NEW p, NEW k
        PROVE  Queued(e, p, k) = Queued(r, p, k)
    <2>1. \A i : i \in Queued(e, p, k) <=> i \in Queued(r, p, k)
      BY <1>1, <1>3, QueuedConcat DEF e
    <2> QED
      BY <2>1
  <1>5. e \in Seq(Block) /\ \A i \in DOMAIN e : NewBlock(e[i])
    <2>1. /\ e \in Seq(Block)
          /\ DOMAIN e = 1 .. (Len(r) + Len(c))
          /\ \A i \in 1 .. (Len(r) + Len(c)) : e[i] = IF i <= Len(r) THEN r[i] ELSE c[i - Len(r)]
      BY <1>1, ConcatProperties, LenProperties DEF e
    <2>2. /\ Len(r) \in Nat /\ DOMAIN r = 1 .. Len(r)
          /\ Len(c) \in Nat /\ DOMAIN c = 1 .. Len(c)
      BY <1>1, LenProperties
    <2>3. \A i \in DOMAIN r : NewBlock(r[i])
      BY <1>1 DEF NewBlock, Appeared
    <2>4. ASSUME NEW i \in DOMAIN e
          PROVE  NewBlock(e[i])
      <3>1. CASE i <= Len(r)
        <4>1. i \in DOMAIN r /\ e[i] = r[i]
          BY <2>1, <2>2, <3>1
        <4> QED
          BY <2>3, <4>1
      <3>2. CASE ~(i <= Len(r))
        <4>1. i - Len(r) \in DOMAIN c /\ e[i] = c[i - Len(r)]
          BY <2>1, <2>2, <3>2
        <4> QED
          BY <4>1
      <3> QED
        BY <3>1, <3>2
    <2> QED
      BY <2>1, <2>4
  <1>6. ASSUME NEW p \in Listeners(stack'), NEW k \in Key
        PROVE  IF NewTo(p, k) THEN \E j \in Queued(e, p, k) : Queued(e, p, k) = {j}
                              ELSE Queued(e, p, k) = {}
    <2>1. NewTo(p, k) <=> k \in Appeared(eventCache, eventCache')
      <3>1. p \in 1 .. Top /\ Top \in Nat
        BY TopScreen DEF Listeners
      <3> QED
        BY <3>1 DEF NewTo, Appeared
    <2>2. ~NewTo(p, k) => Queued(r, p, k) = {}
      BY <1>1, <2>1 DEF Queued
    <2> QED
      BY <1>1, <1>4, <2>1, <2>2
  <1>7. Queues(e)
    BY <1>2, <1>5, <1>6 DEF Queues, e
  <1> QED
    BY <1>7 DEF e, r

\* A new list queues the children of the view for itself.
LEMMA QueuesReplay ==
    ASSUME DiaryTypeOK, eventCache' \in [Key -> Node], Top + 1 \in ScreenIds,
           Top + 1 \in Listeners(stack'),
           mainQueue' = mainQueue \o Replay(eventCache', Top + 1),
           \A p \in Listeners(stack') : p = Top + 1 \/
              \A k \in Key : eventCache'[k] # Absent => eventCache[k] # Absent
    PROVE  Queues(Replay(eventCache', Top + 1))
  <1> DEFINE e == Replay(eventCache', Top + 1)
  <1>1. /\ e \in Seq(Block)
        /\ \A i \in DOMAIN e :
                 /\ e[i].type = "childAdded"
                 /\ e[i].screen = Top + 1
                 /\ e[i].key \in Key
                 /\ eventCache'[e[i].key] # Absent
                 /\ e[i].node = eventCache'[e[i].key]
        /\ \A k \in Key : eventCache'[k] # Absent =>
                 \E j \in Queued(e, Top + 1, k) : Queued(e, Top + 1, k) = {j}
    BY ReplayTyped
  <1> HIDE DEF e
  <1>2. \A i \in DOMAIN e : NewBlock(e[i])
    BY <1>1 DEF NewBlock
  <1>3. ASSUME NEW p \in Listeners(stack'), NEW k \in Key
        PROVE  IF NewTo(p, k) THEN \E j \in Queued(e, p, k) : Queued(e, p, k) = {j}
                              ELSE Queued(e, p, k) = {}
    <2>1. CASE p = Top + 1
      <3>1. NewTo(p, k) <=> eventCache'[k] # Absent
        BY <2>1 DEF NewTo
      <3>2. eventCache'[k] = Absent => Queued(e, p, k) = {}
        BY <1>1 DEF Queued
      <3> QED
        BY <1>1, <2>1, <3>1, <3>2
    <2>2. CASE p # Top + 1
      <3>1. ~NewTo(p, k)
        BY <2>2 DEF NewTo
      <3>2. Queued(e, p, k) = {}
        BY <1>1, <2>2 DEF Queued
      <3> QED
        BY <3>1, <3>2
    <2> QED
      BY <2>1, <2>2
  <1> QED
    BY <1>1, <1>2, <1>3 DEF Queues, e

\* A data push queues the events of the view it changes.
LEMMA PushQueues ==
    ASSUME DiaryTypeOK, StackShape, RepoTypeOK', NEW k \in Key, PushChild(k), UNCHANGED stack
    PROVE  \E e : Queues(e)
  <1>1. CASE listening /\ serverComplete
    <2>1. mainQueue' = mainQueue \o RaisedEvents
      BY <1>1 DEF PushChild
    <2>2. eventCache' \in [Key -> Node] /\ Listeners(stack') = Listeners(stack)
      BY DEF RepoTypeOK
    <2>3. mainQueue \o RaisedEvents \o <<>> = mainQueue \o RaisedEvents
      <3>1. mainQueue \in Seq(Block) /\ RaisedEvents \in Seq(Block)
        BY <2>2, RaisedTyped DEF DiaryTypeOK, Block
      <3> HIDE DEF RaisedEvents
      <3> QED
        BY <3>1, ConcatProperties, ConcatEmptySeq
    <2>4. <<>> \in Seq(Block) /\ DOMAIN <<>> = {}
      OBVIOUS
    <2> QED
      BY <2>1, <2>2, <2>3, <2>4, QueuesRaised
  <1>2. CASE ~(listening /\ serverComplete)
    <2>1. mainQueue' = mainQueue /\ eventCache' = eventCache
      BY <1>2 DEF PushChild, repoVars, viewVars
    <2> QED
      BY <2>1, QueuesNothing DEF Listeners
  <1> QED
    BY <1>1, <1>2

\* Every step queues blocks, but for a new start and those that take one.
LEMMA StepQueue ==
    ASSUME DiaryTypeOK, StackShape, EventsForLists, RepoTypeOK', [DiaryNext]_diaryVars,
           ~Relaunch, ~MainQueueStep
    PROVE  \E e : Queues(e)
  <1>0. eventCache' \in [Key -> Node] /\ eventCache \in [Key -> Node] /\ listening \in BOOLEAN
    BY DEF DiaryTypeOK, RepoTypeOK
  <1>k. StackKept
    BY StepStack
  <1>l. /\ Len(stack') = Top => Listeners(stack') \subseteq Listeners(stack)
        /\ stack' \in Seq(Screen) /\ DOMAIN stack' = 1 .. Len(stack') /\ DOMAIN stack = 1 .. Top
        /\ Top \in Nat
        /\ \A p \in Listeners(stack') : p \in 1 .. Top => p \in Listeners(stack)
    <2>1. stack' \in Seq(Screen) /\ DOMAIN stack' = 1 .. Len(stack') /\ DOMAIN stack = 1 .. Top /\ Top \in Nat
      BY <1>k, TopScreen, LenProperties DEF StackKept
    <2> QED
      BY <1>k, <2>1 DEF StackKept, ScreenKept, Listeners
  <1>q. ASSUME UNCHANGED mainQueue, UNCHANGED eventCache, Len(stack') = Top
        PROVE  \E e : Queues(e)
    BY <1>q, <1>l, QueuesNothing DEF Listeners
  <1>r. ASSUME mainQueue' = mainQueue \o RaisedEvents, Listeners(stack') = Listeners(stack)
        PROVE  \E e : Queues(e)
    <2>3. mainQueue \o RaisedEvents \o <<>> = mainQueue \o RaisedEvents
      <3>1. mainQueue \in Seq(Block) /\ RaisedEvents \in Seq(Block)
        BY <1>0, RaisedTyped DEF DiaryTypeOK, Block
      <3> HIDE DEF RaisedEvents
      <3> QED
        BY <3>1, ConcatProperties, ConcatEmptySeq
    <2>4. <<>> \in Seq(Block) /\ DOMAIN <<>> = {}
      OBVIOUS
    <2> QED
      BY <1>0, <1>r, <2>3, <2>4, QueuesRaised
  <1>n. ASSUME NEW s, Alike(stack, s), \A p \in DOMAIN stack : s[p].alert \in {stack[p].alert, "none"},
               Top < MaxScreens, listening', RetriveMemories(s),
               listening => \A c \in Key : eventCache'[c] # Absent => eventCache[c] # Absent
        PROVE  \E e : Queues(e)
    <2>1. /\ Len(stack') = Top + 1 /\ stack'[Top + 1] = NewList
          /\ mainQueue' = mainQueue \o Replay(eventCache', Top + 1)
      BY <1>n, StackNewList
    <2>2. Top + 1 \in ScreenIds
      BY <1>k, <1>l, <2>1 DEF StackKept
    <2>3. Top + 1 \in Listeners(stack')
      <3>1. stack'[Top + 1].observing = TRUE
        BY <2>1, NewScreenFields
      <3>2. Top + 1 \in DOMAIN stack'
        BY <1>l, <2>1
      <3> QED
        BY <3>1, <3>2 DEF Listeners
    <2>4. ASSUME NEW p \in Listeners(stack'), p # Top + 1
          PROVE  listening
      <3>1. p \in Listeners(stack)
        BY <1>l, <2>1, <2>4 DEF Listeners
      <3> QED
        BY <3>1 DEF Listeners, StackShape
    <2> QED
      BY <1>0, <1>n, <2>1, <2>2, <2>3, <2>4, QueuesReplay
  <1>1. CASE UNCHANGED diaryVars
    <2>1. UNCHANGED <<mainQueue, eventCache, stack>>
      BY <1>1 DEF diaryVars, uiVars, repoVars, viewVars
    <2> QED
      BY <1>q, <2>1 DEF Top
  <1>2. ASSUME \/ AddMemoriesBtnPressed \/ EditBtnPressed \/ BackBtnPressed
               \/ \E i \in DOMAIN stack[Top].rows : DidSelectRow(i)
        PROVE  \E e : Queues(e)
    <2>1. UNCHANGED <<mainQueue, eventCache>>
      BY <1>2 DEF AddMemoriesBtnPressed, EditBtnPressed, BackBtnPressed, DidSelectRow, repoVars, viewVars
    <2>2. \A p \in Listeners(stack') : p \in DOMAIN stack
      <3>1. CASE BackBtnPressed
        <4>1. DOMAIN stack' = 1 .. (Top - 1)
          BY <3>1, TopScreen, FrontSeq DEF BackBtnPressed, Top
        <4>2. DOMAIN stack' \subseteq DOMAIN stack
          <5>1. DOMAIN stack = 1 .. Top /\ Top \in Nat
            BY TopScreen
          <5> QED
            BY <4>1, <5>1
        <4> QED
          BY <4>2 DEF Listeners
      <3>2. CASE ~BackBtnPressed
        <4>1. PICK n : stack' = Append(stack, n) /\ n \in {NewAdd, NewEdit(stack[Top])} \cup {NewShow(stack[Top].rows[i]) : i \in DOMAIN stack[Top].rows}
          BY <1>2, <3>2 DEF AddMemoriesBtnPressed, EditBtnPressed, DidSelectRow
        <4>2. n.observing = FALSE /\ n \in Screen
          <5>1. n.observing = FALSE
            BY <4>1, NewScreenFields
          <5>2. \A i \in DOMAIN stack[Top].rows : stack[Top].rows[i] \in Row
            <6>1. stack[Top].rows \in Seq(Row)
              BY TopScreen, ScreenFields
            <6> QED
              BY <6>1, ElementOfSeq, LenProperties
          <5>3. n \in Screen
            BY <4>1, <5>2, NewScreens, TopScreen
          <5> QED
            BY <5>1, <5>3
        <4>3. DOMAIN stack' = 1 .. (Top + 1) /\ stack'[Top + 1] = n
          BY <4>1, <4>2, TopScreen, AppendSeq DEF Top
        <4>4. ASSUME NEW p \in DOMAIN stack', p # Top + 1
              PROVE  p \in DOMAIN stack
          <5>1. DOMAIN stack = 1 .. Top /\ Top \in Nat
            BY TopScreen
          <5> QED
            BY <4>3, <4>4, <5>1
        <4> QED
          BY <4>2, <4>3, <4>4 DEF Listeners
      <3> QED
        BY <3>1, <3>2
    <2> QED
      BY <2>1, <2>2, QueuesNothing
  <1>3. ASSUME DeleteBtnPressed \/ DeleteCancelled \/ ServerRejects
        PROVE  \E e : Queues(e)
    <2>1. UNCHANGED <<mainQueue, eventCache>>
      BY <1>3 DEF DeleteBtnPressed, DeleteCancelled, ServerRejects, repoVars, viewVars
    <2>2. Len(stack') = Top
      <3>1. PICK a : a \in {"none", "delete"} /\ stack' \in {stack, [stack EXCEPT ![Top].alert = a]}
        BY <1>3 DEF DeleteBtnPressed, DeleteCancelled, ServerRejects, uiVars
      <3> QED
        BY <3>1, TopScreen, AlertSet DEF Alike, Top
    <2> QED
      BY <1>q, <2>1, <2>2
  <1>4. ASSUME NEW k \in Key, NEW v \in Value, DoneBtnPressed(k, v)
        PROVE  \E e : Queues(e)
    <2>1. mainQueue' = mainQueue \o RaisedEvents
      BY <1>4 DEF DoneBtnPressed
    <2>2. Listeners(stack') = Listeners(stack)
      <3> DEFINE n == WithMemory(stack[Top], k, v)
      <3>1. stack' = [stack EXCEPT ![Top] = n]
        BY <1>4 DEF DoneBtnPressed, WithMemory
      <3>2. n.observing = stack[Top].observing
        BY TopScreen, MemorySet
      <3> HIDE DEF n
      <3> QED
        BY <3>1, <3>2 DEF Listeners
    <2> QED
      BY <1>r, <2>1, <2>2
  <1>5. ASSUME CancelBtnPressed
        PROVE  \E e : Queues(e)
    <2>1. /\ Alike(stack, stack) /\ Top < MaxScreens /\ listening' /\ RetriveMemories(stack)
          /\ listening => eventCache' = eventCache
      BY <1>5, TopScreen DEF Alike, CancelBtnPressed, AddEventRegistration
    <2> QED
      BY <2>1, <1>n
  <1>6. ASSUME SavedOk \/ DeleteOk
        PROVE  \E e : Queues(e)
    <2> DEFINE s == [stack EXCEPT ![Top].alert = "none"]
    <2>1. Top < MaxScreens /\ listening' /\ RetriveMemories(s)
      BY <1>6 DEF SavedOk, DeleteOk, AddEventRegistration, RemoveAndObserve
    <2>2. Alike(stack, s) /\ \A p \in DOMAIN stack : s[p].alert \in {stack[p].alert, "none"}
      BY TopScreen, AlertSet
    <2>3. listening => \A c \in Key : eventCache'[c] # Absent => eventCache[c] # Absent
      BY <1>0, <1>6 DEF SavedOk, DeleteOk, AddEventRegistration, RemoveAndObserve, ApplyUserOverwriteTo
    <2> HIDE DEF s
    <2> QED
      BY <1>n, <2>1, <2>2, <2>3
  <1>7. CASE ServerAccepts
    <2>1. PICK i : i = Len(answers) + 1
      OBVIOUS
    <2>2. i \in 1 .. Len(allWrites) /\ allWrites \in Seq(Write)
      BY <1>7, <2>1 DEF ServerAccepts, DiaryTypeOK, RepoTypeOK
    <2>3. allWrites[i].key \in Key
      BY <2>2, QueuedWrite, LenProperties
    <2>4. PushChild(allWrites[i].key) /\ UNCHANGED stack
      BY <1>7, <2>1 DEF ServerAccepts, uiVars
    <2> QED
      BY <2>3, <2>4, PushQueues
  <1>8. CASE AnswerArrives
    <2> DEFINE c == IF Head(onComplete) = 0 THEN <<>>
               ELSE <<[type |-> "completion", screen |-> Head(onComplete),
                       success |-> Head(answers)]>>
    <2>1. mainQueue' = mainQueue \o RaisedEvents \o c /\ answers # <<>> /\ UNCHANGED stack
      BY <1>8 DEF AnswerArrives, uiVars
    <2>2. Head(answers) \in BOOLEAN
      BY <2>1, TailSeq DEF DiaryTypeOK
    <2>3. Head(onComplete) \in ScreenIds \cup {0}
      <3>1. Len(onComplete) # 0
        BY <2>1, EmptySeq, LenProperties DEF DiaryTypeOK, RepoTypeOK
      <3>2. onComplete # <<>> /\ onComplete \in Seq(ScreenIds \cup {0})
        BY <3>1, EmptySeq DEF DiaryTypeOK
      <3> QED
        BY <3>2, TailSeq
    <2>4. c \in Seq(Block) /\ \A i \in DOMAIN c : c[i].type = "completion" /\ NewBlock(c[i])
      <3>1. CASE Head(onComplete) = 0
        BY <3>1
      <3>2. CASE Head(onComplete) # 0
        <4> DEFINE b == [type |-> "completion", screen |-> Head(onComplete), success |-> Head(answers)]
        <4>1. b \in Block /\ b.type = "completion" /\ NewBlock(b)
          BY <2>1, <2>2, <2>3, <3>2 DEF Block, Completion, NewBlock
        <4>2. c = <<b>>
          BY <3>2
        <4> HIDE DEF b, c
        <4> QED
          BY <4>1, <4>2
      <3> QED
        BY <3>1, <3>2
    <2> HIDE DEF c
    <2> QED
      BY <1>0, <2>1, <2>4, QueuesRaised DEF Listeners
  <1>9. CASE FirstData
    BY <1>9, <1>r DEF FirstData, uiVars, Listeners
  <1>10. ASSUME NEW k \in Key, NEW n \in Node, OtherDevice(k, n)
         PROVE  \E e : Queues(e)
    BY <1>10, PushQueues DEF OtherDevice, uiVars
  <1>11. CASE ListenRevoked
    <2>1. Listeners(stack') = {}
      <3>1. stack' = [p \in DOMAIN stack |-> Silenced(stack[p])]
        BY <1>11 DEF ListenRevoked, Silenced
      <3>2. \A p \in DOMAIN stack : Silenced(stack[p]).observing = FALSE
        BY TopScreen, ListenerGone
      <3> QED
        BY <3>1, <3>2 DEF Listeners
    <2>2. UNCHANGED mainQueue
      BY <1>11 DEF ListenRevoked
    <2> QED
      BY <2>1, <2>2, QueuesNothing
  <1> QED
    BY <1>1, <1>2, <1>3, <1>4, <1>5, <1>6, <1>7, <1>8, <1>9, <1>10, <1>11
    DEF DiaryNext, UserStep, ServerStep, OutsideStep

-----------------------------------------------------------------------------
(* The core invariant: types, the shape of the stack, events for lists *)

\* The writes, their callbacks and their answers: a write is made, one is
\* answered, an answer arrives, or nothing happens.
WriteMade ==
    \E k \in Key, n \in Node, p \in ScreenIds \cup {0} :
        /\ AddOverwrite(k, n)
        /\ onComplete' = Append(onComplete, p)
        /\ UNCHANGED answers

WriteAnswered ==
    /\ Len(answers) < Len(allWrites)
    /\ \/ answers' = Append(answers, TRUE) /\ ServerAccepts
       \/ answers' = Append(answers, FALSE)
    /\ UNCHANGED <<allWrites, onComplete>>

LEMMA StepWrites ==
    ASSUME DiaryTypeOK, StackShape, [DiaryNext]_diaryVars, ~Relaunch
    PROVE  \/ UNCHANGED <<allWrites, onComplete, answers>>
           \/ WriteMade
           \/ WriteAnswered
           \/ AnswerArrives
  <1>1. CASE UNCHANGED diaryVars
    BY <1>1 DEF diaryVars, repoVars, writeVars
  <1>2. ASSUME NEW k \in Key, NEW v \in Value, DoneBtnPressed(k, v) PROVE WriteMade
    <2>1. Top \in ScreenIds \cup {0} /\ v \in Node
      BY TopScreen DEF Node
    <2> QED
      BY <1>2, <2>1 DEF WriteMade, DoneBtnPressed, Set
  <1>3. CASE DeleteOk
    <2>1. stack[Top].memoryID \in Key /\ Absent \in Node
      BY <1>3, TopScreen DEF DeleteOk, StackShape, Node
    <2> QED
      BY <1>3, <2>1 DEF DeleteOk, RemoveAndObserve, WriteMade
  <1>4. CASE ServerRejects \/ ServerAccepts
    <2>1. UNCHANGED <<allWrites, onComplete>>
      BY <1>4 DEF ServerRejects, ServerAccepts, PushChild, ApplyServerOverwrite, repoVars, writeVars
    <2>2. Len(answers) < Len(allWrites)
      <3>1. Len(answers) \in Nat /\ Len(allWrites) \in Nat
        BY LenProperties DEF DiaryTypeOK, RepoTypeOK
      <3>2. ServerAccepts => Len(answers) + 1 <= Len(allWrites)
        BY DEF ServerAccepts
      <3>3. ServerRejects => Len(answers) < Len(allWrites)
        BY DEF ServerRejects
      <3> QED
        BY <1>4, <3>1, <3>2, <3>3
    <2>3. \/ answers' = Append(answers, TRUE) /\ ServerAccepts
          \/ answers' = Append(answers, FALSE)
      BY <1>4 DEF ServerRejects, ServerAccepts
    <2> QED
      BY <2>1, <2>2, <2>3 DEF WriteAnswered
  <1>5. ASSUME \/ AddMemoriesBtnPressed \/ EditBtnPressed \/ BackBtnPressed
               \/ \E i \in DOMAIN stack[Top].rows : DidSelectRow(i)
               \/ DeleteBtnPressed \/ DeleteCancelled \/ CancelBtnPressed \/ SavedOk
               \/ MainQueueStep
        PROVE  UNCHANGED <<allWrites, onComplete, answers>>
    BY <1>5 DEF AddMemoriesBtnPressed, EditBtnPressed, BackBtnPressed, DidSelectRow, DeleteBtnPressed,
       DeleteCancelled, CancelBtnPressed, SavedOk, MainQueueStep, HandleChildAdded, HandleCompletion,
       AddEventRegistration, repoVars, writeVars
  <1>6. ASSUME \/ FirstData \/ ListenRevoked \/ \E k \in Key, n \in Node : OtherDevice(k, n)
        PROVE  UNCHANGED <<allWrites, onComplete, answers>>
    BY <1>6 DEF FirstData, ListenRevoked, OtherDevice, PushChild, ApplyServerOverwrite,
       ApplyServerSnapshot, RemoveEventRegistrations, repoVars, writeVars
  <1> QED
    BY <1>1, <1>2, <1>3, <1>4, <1>5, <1>6 DEF DiaryNext, UserStep, ServerStep, OutsideStep

\* The queue of writes when the oldest answer arrives.
LEMMA ArrivedWrites ==
    ASSUME DiaryTypeOK, AnswerArrives
    PROVE  /\ answers # <<>> /\ onComplete # <<>> /\ allWrites # <<>>
           /\ Head(answers) \in BOOLEAN /\ Head(onComplete) \in ScreenIds \cup {0}
           /\ answers' = Tail(answers) /\ onComplete' = Tail(onComplete)
           /\ MayAnswer(1) /\ AckWrite(1, Head(answers))
           /\ allWrites' = RemoveIndex(allWrites, 1)
           /\ Len(allWrites') = Len(allWrites) - 1
  <1>1. answers # <<>> /\ MayAnswer(1) /\ AckWrite(1, Head(answers))
        /\ answers' = Tail(answers) /\ onComplete' = Tail(onComplete)
    BY DEF AnswerArrives
  <1>2. allWrites \in Seq(Write) /\ allWrites # <<>>
    BY <1>1 DEF MayAnswer, DiaryTypeOK, RepoTypeOK
  <1>3. onComplete \in Seq(ScreenIds \cup {0}) /\ onComplete # <<>>
    BY <1>2, EmptySeq DEF DiaryTypeOK
  <1>4. Head(answers) \in BOOLEAN /\ Head(onComplete) \in ScreenIds \cup {0}
    BY <1>1, <1>3, TailSeq DEF DiaryTypeOK
  <1>5. allWrites' = RemoveIndex(allWrites, 1) /\ Len(allWrites') = Len(allWrites) - 1
    BY <1>1, <1>2, RemoveOldest DEF AckWrite, RemoveWriteId
  <1> QED
    BY <1>1, <1>2, <1>3, <1>4, <1>5

\* Callbacks and answers stay in step with the writes.
LEMMA WritesTyped ==
    ASSUME DiaryTypeOK, StackShape, [DiaryNext]_diaryVars, ~Relaunch
    PROVE  /\ onComplete' \in Seq(ScreenIds \cup {0}) /\ Len(onComplete') = Len(allWrites')
           /\ answers' \in Seq(BOOLEAN) /\ Len(answers') <= Len(allWrites')
  <1>0. /\ allWrites \in Seq(Write) /\ Len(allWrites) \in Nat
        /\ onComplete \in Seq(ScreenIds \cup {0}) /\ Len(onComplete) = Len(allWrites)
        /\ answers \in Seq(BOOLEAN) /\ Len(answers) \in Nat /\ Len(answers) <= Len(allWrites)
    BY LenProperties DEF DiaryTypeOK, RepoTypeOK
  <1>1. CASE UNCHANGED <<allWrites, onComplete, answers>>
    BY <1>0, <1>1
  <1>2. CASE WriteMade
    <2>1. PICK k \in Key, n \in Node, p \in ScreenIds \cup {0} :
             AddOverwrite(k, n) /\ onComplete' = Append(onComplete, p) /\ UNCHANGED answers
      BY <1>2 DEF WriteMade
    <2>2. PICK w : w = [id |-> writeIdCounter, key |-> k, node |-> n]
      OBVIOUS
    <2>3. w \in Write /\ allWrites' = Append(allWrites, w)
      BY <2>1, <2>2 DEF AddOverwrite, Write, DiaryTypeOK, RepoTypeOK
    <2> QED
      BY <1>0, <2>1, <2>3, AppendSeq
  <1>3. CASE WriteAnswered
    <2>1. PICK b \in BOOLEAN : answers' = Append(answers, b)
      BY <1>3 DEF WriteAnswered
    <2>2. Len(answers) + 1 <= Len(allWrites) /\ UNCHANGED <<allWrites, onComplete>>
      BY <1>0, <1>3 DEF WriteAnswered
    <2> QED
      BY <1>0, <2>1, <2>2, AppendSeq
  <1>4. CASE AnswerArrives
    <2>1. /\ answers # <<>> /\ onComplete # <<>>
          /\ answers' = Tail(answers) /\ onComplete' = Tail(onComplete)
          /\ Len(allWrites') = Len(allWrites) - 1
      BY <1>4, ArrivedWrites
    <2>2. Tail(onComplete) \in Seq(ScreenIds \cup {0}) /\ Len(Tail(onComplete)) = Len(onComplete) - 1
      BY <1>0, <2>1, HeadTailProperties
    <2>3. Tail(answers) \in Seq(BOOLEAN) /\ Len(Tail(answers)) = Len(answers) - 1
      BY <1>0, <2>1, HeadTailProperties
    <2> QED
      BY <1>0, <2>1, <2>2, <2>3
  <1> QED
    BY <1>1, <1>2, <1>3, <1>4, StepWrites

\* The main queue holds blocks only, after every step.
LEMMA QueueTyped ==
    ASSUME DiaryTypeOK, StackShape, EventsForLists, RepoTypeOK', [DiaryNext]_diaryVars, ~Relaunch
    PROVE  mainQueue' \in Seq(Block)
  <1>1. CASE MainQueueStep
    <2>1. mainQueue # <<>> /\ mainQueue' = Tail(mainQueue)
      BY <1>1 DEF MainQueueStep, HandleChildAdded, HandleCompletion
    <2> QED
      BY <2>1, HeadBlock
  <1>2. CASE ~MainQueueStep
    <2>1. PICK e : Queues(e)
      BY <1>2, StepQueue
    <2>2. mainQueue \in Seq(Block)
      BY DEF DiaryTypeOK, Block
    <2> QED
      BY <2>1, <2>2, ConcatProperties DEF Queues
  <1> QED
    BY <1>1, <1>2

\* The rest of the state.
LEMMA RestTyped ==
    ASSUME DiaryTypeOK, StackShape, [DiaryNext]_diaryVars, ~Relaunch
    PROVE  /\ hud' \in BOOLEAN /\ server' \in [Key -> Node] /\ usedIds' \subseteq Key
           /\ remote' \in 0 .. MaxRemote /\ kills' \in 0 .. MaxKills
           /\ disturbed' \subseteq Key /\ deleted' \subseteq Key
           /\ acceptedScreens' \subseteq ScreenIds
  <1> USE DEF DiaryTypeOK
  <1>1. CASE UNCHANGED diaryVars
    BY <1>1 DEF diaryVars, uiVars, historyVars
  <1>2. CASE UserStep
    <2>1. UNCHANGED <<server, remote, kills, acceptedScreens>> /\ hud' \in BOOLEAN
          /\ disturbed' \in {disturbed, {}}
      BY <1>2 DEF UserStep, AddMemoriesBtnPressed, DidSelectRow, DoneBtnPressed, CancelBtnPressed,
         SavedOk, BackBtnPressed, EditBtnPressed, DeleteBtnPressed, DeleteCancelled, DeleteOk,
         historyVars, RetriveMemories
    <2>2. usedIds' \subseteq Key
      BY <1>2 DEF UserStep, AddMemoriesBtnPressed, DidSelectRow, DoneBtnPressed, CancelBtnPressed,
         SavedOk, BackBtnPressed, EditBtnPressed, DeleteBtnPressed, DeleteCancelled, DeleteOk
    <2>3. deleted' \subseteq Key
      <3>1. DeleteOk => stack[Top].memoryID \in Key
        BY TopScreen DEF DeleteOk, StackShape
      <3> QED
        BY <1>2, <3>1 DEF UserStep, AddMemoriesBtnPressed, DidSelectRow, DoneBtnPressed, CancelBtnPressed,
           SavedOk, BackBtnPressed, EditBtnPressed, DeleteBtnPressed, DeleteCancelled, DeleteOk, historyVars
    <2> QED
      BY <2>1, <2>2, <2>3
  <1>3. CASE MainQueueStep
    BY <1>3 DEF MainQueueStep, HandleChildAdded, HandleCompletion, historyVars
  <1>4. CASE ServerAccepts
    <2>1. PICK i : i = Len(answers) + 1
      OBVIOUS
    <2>2. i \in 1 .. Len(allWrites) /\ allWrites \in Seq(Write) /\ i \in 1 .. Len(onComplete)
      BY <1>4, <2>1, LenProperties DEF ServerAccepts, RepoTypeOK
    <2>3. allWrites[i].key \in Key /\ allWrites[i].node \in Node /\ onComplete[i] \in ScreenIds \cup {0}
      BY <2>2, QueuedWrite, LenProperties, ElementOfSeq
    <2>4. server' = [server EXCEPT ![allWrites[i].key] = allWrites[i].node]
          /\ acceptedScreens' = acceptedScreens \cup ({onComplete[i]} \ {0})
          /\ UNCHANGED <<hud, usedIds, remote, kills, deleted>>
      BY <1>4, <2>1 DEF ServerAccepts, uiVars
    <2>5. disturbed' \subseteq Key
      BY <1>4 DEF ServerAccepts, PushChild, Unobserved
    <2> QED
      BY <2>3, <2>4, <2>5
  <1>5. CASE ServerRejects
    BY <1>5 DEF ServerRejects, uiVars, historyVars
  <1>6. CASE AnswerArrives
    BY <1>6 DEF AnswerArrives, uiVars, Unobserved
  <1>7. CASE FirstData
    BY <1>7 DEF FirstData, uiVars, Unobserved
  <1>8. ASSUME NEW k \in Key, NEW n \in Node, OtherDevice(k, n)
        PROVE  /\ hud' \in BOOLEAN /\ server' \in [Key -> Node] /\ usedIds' \subseteq Key
               /\ remote' \in 0 .. MaxRemote /\ kills' \in 0 .. MaxKills
               /\ disturbed' \subseteq Key /\ deleted' \subseteq Key
               /\ acceptedScreens' \subseteq ScreenIds
    <2>1. server' \in [Key -> Node] /\ usedIds' \subseteq Key /\ deleted' \subseteq Key
      BY <1>8 DEF OtherDevice
    <2>2. UNCHANGED <<hud, kills, acceptedScreens>>
      BY <1>8 DEF OtherDevice, uiVars
    <2>3. remote' \in 0 .. MaxRemote
      BY <1>8, DiaryAssumption DEF OtherDevice
    <2>4. disturbed' \subseteq Key
      BY <1>8 DEF OtherDevice, PushChild, Unobserved
    <2> QED
      BY <2>1, <2>2, <2>3, <2>4
  <1>9. CASE ListenRevoked
    BY <1>9, DiaryAssumption DEF ListenRevoked, historyVars
  <1> QED
    BY <1>1, <1>2, <1>3, <1>4, <1>5, <1>6, <1>7, <1>8, <1>9 DEF DiaryNext, ServerStep, OutsideStep

\* Where a block on the queue comes from: it waited, or the step queued it.
LEMMA QueueOrigin ==
    ASSUME DiaryTypeOK, StackShape, EventsForLists, RepoTypeOK', [DiaryNext]_diaryVars, ~Relaunch,
           NEW i \in DOMAIN mainQueue'
    PROVE  \/ NewBlock(mainQueue'[i])
           \/ \E j \in DOMAIN mainQueue : mainQueue'[i] = mainQueue[j]
  <1>1. CASE MainQueueStep
    <2>1. mainQueue # <<>> /\ mainQueue' = Tail(mainQueue)
      BY <1>1 DEF MainQueueStep, HandleChildAdded, HandleCompletion
    <2> QED
      BY <2>1, HeadBlock
  <1>2. CASE ~MainQueueStep
    <2>1. PICK e : Queues(e)
      BY <1>2, StepQueue
    <2>2. mainQueue \in Seq(Block) /\ e \in Seq(Block) /\ mainQueue' = mainQueue \o e
      BY <2>1 DEF DiaryTypeOK, Block, Queues
    <2>3. /\ DOMAIN mainQueue' = 1 .. (Len(mainQueue) + Len(e))
          /\ \A l \in 1 .. (Len(mainQueue) + Len(e)) :
                mainQueue'[l] = IF l <= Len(mainQueue) THEN mainQueue[l] ELSE e[l - Len(mainQueue)]
      BY <2>2, ConcatProperties, LenProperties
    <2>4. /\ Len(mainQueue) \in Nat /\ DOMAIN mainQueue = 1 .. Len(mainQueue)
          /\ Len(e) \in Nat /\ DOMAIN e = 1 .. Len(e)
      BY <2>2, LenProperties
    <2>5. CASE i <= Len(mainQueue)
      <3>1. i \in DOMAIN mainQueue /\ mainQueue'[i] = mainQueue[i]
        BY <2>3, <2>4, <2>5
      <3> QED
        BY <3>1
    <2>6. CASE ~(i <= Len(mainQueue))
      <3>1. i - Len(mainQueue) \in DOMAIN e /\ mainQueue'[i] = e[i - Len(mainQueue)]
        BY <2>3, <2>4, <2>6
      <3> QED
        BY <2>1, <3>1 DEF Queues
    <2> QED
      BY <2>5, <2>6
  <1> QED
    BY <1>1, <1>2

\* How the stack's indices change: by at most one, and a list is never dismissed.
LEMMA StackIndices ==
    ASSUME DiaryTypeOK, StackShape, StackKept
    PROVE  /\ DOMAIN stack' = 1 .. Len(stack') /\ Len(stack') \in ScreenIds
           /\ 1 \in DOMAIN stack /\ 1 \in DOMAIN stack'
           /\ \A p \in DOMAIN stack : stack[p].kind = "list" => p \in DOMAIN stack'
           /\ \A p \in DOMAIN stack' : p \in DOMAIN stack \/ (p = Top + 1 /\ Presented(stack'[p]))
  <1>1. /\ Top \in Nat /\ Top >= 1 /\ DOMAIN stack = 1 .. Top /\ Top \in ScreenIds
        /\ MaxScreens \in Nat
    BY TopScreen, DiaryAssumption
  <1>2. stack' \in Seq(Screen) /\ DOMAIN stack' = 1 .. Len(stack')
    BY LenProperties DEF StackKept
  <1>3. CASE Len(stack') = Top
    BY <1>1, <1>2, <1>3
  <1>4. CASE Len(stack') = Top + 1 /\ Top + 1 \in ScreenIds /\ Presented(stack'[Top + 1])
    <2>1. \A p \in DOMAIN stack' : p \in DOMAIN stack \/ p = Top + 1
      BY <1>1, <1>2, <1>4
    <2>2. 1 \in DOMAIN stack /\ 1 \in DOMAIN stack' /\ DOMAIN stack \subseteq DOMAIN stack'
      BY <1>1, <1>2, <1>4
    <2> QED
      BY <1>2, <1>4, <2>1, <2>2
  <1>5. CASE Len(stack') = Top - 1 /\ stack[Top].kind = "show"
    <2>1. Top # 1
      BY <1>5 DEF StackShape
    <2>2. 1 \in DOMAIN stack /\ 1 \in DOMAIN stack' /\ Len(stack') \in ScreenIds
      BY <1>1, <1>2, <1>5, <2>1 DEF ScreenIds
    <2>3. \A p \in DOMAIN stack : p # Top => p \in DOMAIN stack'
      BY <1>1, <1>2, <1>5
    <2>4. \A p \in DOMAIN stack' : p \in DOMAIN stack
      BY <1>1, <1>2, <1>5
    <2> QED
      BY <1>2, <1>5, <2>2, <2>3, <2>4
  <1> QED
    BY <1>3, <1>4, <1>5 DEF StackKept

\* The shape of the stack: shows stand on lists, only lists listen.
LEMMA ShapeStep ==
    ASSUME DiaryTypeOK, StackShape, StackKept
    PROVE  StackShape'
  <1>1. stack'[1].kind = "list"
    BY StackIndices DEF StackKept, ScreenKept, StackShape
  <1>2. ASSUME NEW p \in DOMAIN stack'
        PROVE  /\ stack'[p].kind = "show" => /\ p - 1 \in DOMAIN stack'
                                             /\ stack'[p - 1].kind = "list"
                                             /\ stack'[p].memoryID \in Key
               /\ stack'[p].alert = "delete" => stack'[p].kind = "show"
               /\ stack'[p].observing => stack'[p].kind = "list" /\ listening'
    <2>1. CASE p \in DOMAIN stack
      <3>1. ScreenKept(p)
        BY <2>1 DEF StackKept
      <3>2. ASSUME stack[p].kind = "show"
            PROVE  p - 1 \in DOMAIN stack' /\ stack'[p - 1].kind = "list"
        <4>1. p - 1 \in DOMAIN stack /\ stack[p - 1].kind = "list"
          BY <2>1, <3>2 DEF StackShape
        <4>2. p - 1 \in DOMAIN stack'
          BY <4>1, StackIndices
        <4> QED
          BY <4>1, <4>2 DEF StackKept, ScreenKept
      <3> QED
        BY <2>1, <3>1, <3>2 DEF ScreenKept, StackShape
    <2>2. CASE p \notin DOMAIN stack
      <3>1. p = Top + 1 /\ Presented(stack'[p])
        BY <2>2, StackIndices
      <3>2. stack'[p].kind = "show" =>
               /\ stack[Top].kind = "list"
               /\ \E i \in DOMAIN stack[Top].rows : stack'[p].memoryID = stack[Top].rows[i].key
        BY <3>1 DEF Presented
      <3>3. \A i \in DOMAIN stack[Top].rows : stack[Top].rows[i].key \in Key
        <4>1. stack[Top].rows \in Seq(Row)
          BY TopScreen, ScreenFields
        <4>2. \A i \in DOMAIN stack[Top].rows : stack[Top].rows[i] \in Row
          BY <4>1, ElementOfSeq, LenProperties
        <4> QED
          BY <4>2 DEF Row
      <3>4. stack[Top].kind = "list" => p - 1 \in DOMAIN stack' /\ stack'[p - 1].kind = "list"
        <4>1. p - 1 = Top /\ Top \in DOMAIN stack
          BY <3>1, TopScreen
        <4> QED
          BY <4>1, StackIndices DEF StackKept, ScreenKept
      <3> QED
        BY <3>1, <3>2, <3>3, <3>4 DEF Presented
    <2> QED
      BY <2>1, <2>2
  <1> QED
    BY <1>1, <1>2 DEF StackShape

\* A new start: one list over an empty view.
LEMMA FreshState ==
    ASSUME stack' = <<NewList>>, mainQueue' = <<>>, listening'
    PROVE  /\ stack' \in Seq(Screen) /\ Len(stack') = 1 /\ DOMAIN stack' = {1} /\ stack'[1] = NewList
           /\ Len(stack') \in ScreenIds
           /\ StackShape' /\ EventsForLists'
  <1>1. stack' \in Seq(Screen) /\ Len(stack') = 1 /\ DOMAIN stack' = {1} /\ stack'[1] = NewList
    BY NewScreens
  <1>2. 1 \in ScreenIds
    BY DiaryAssumption DEF ScreenIds
  <1>3. EventsForLists'
    BY DEF EventsForLists
  <1> QED
    BY <1>1, <1>2, <1>3, NewScreenFields DEF StackShape

\* The core is kept by every step.
LEMMA CoreStep ==
    ASSUME DiaryCore, [DiaryNext]_diaryVars
    PROVE  DiaryCore'
  <1> USE DEF DiaryCore
  <1>1. RepoInv' /\ RepoTypeOK'
    BY ClientStep DEF RepoInv
  <1>2. CASE Relaunch
    <2>1. /\ StackShape' /\ EventsForLists' /\ stack' \in Seq(Screen) /\ Len(stack') \in ScreenIds
      BY <1>2, FreshState DEF Relaunch
    <2>2. /\ onComplete' \in Seq(ScreenIds \cup {0}) /\ Len(onComplete') = Len(allWrites')
          /\ answers' \in Seq(BOOLEAN) /\ Len(answers') <= Len(allWrites')
          /\ mainQueue' \in Seq(ChildAdded \cup Completion)
      BY <1>2 DEF Relaunch
    <2>3. /\ hud' \in BOOLEAN /\ server' \in [Key -> Node] /\ usedIds' \subseteq Key
          /\ remote' \in 0 .. MaxRemote /\ kills' \in 0 .. MaxKills
          /\ disturbed' \subseteq Key /\ deleted' \subseteq Key
          /\ acceptedScreens' \subseteq ScreenIds
      <3>1. kills' \in 0 .. MaxKills
        <4>1. kills' = kills + 1 /\ kills < MaxKills
          BY <1>2 DEF Relaunch
        <4> QED
          BY <4>1, DiaryAssumption DEF DiaryTypeOK
      <3>2. /\ hud' = FALSE /\ server' = server /\ usedIds' = usedIds /\ remote' = remote
            /\ disturbed' = {} /\ deleted' = {} /\ acceptedScreens' = {}
        BY <1>2 DEF Relaunch
      <3> QED
        BY <3>1, <3>2 DEF DiaryTypeOK
    <2> QED
      BY <1>1, <2>1, <2>2, <2>3 DEF DiaryTypeOK
  <1>3. CASE ~Relaunch
    <2>1. StackKept
      BY <1>3, StepStack
    <2>2. StackShape'
      BY <2>1, ShapeStep
    <2>3. DiaryTypeOK'
      <3>1. stack' \in Seq(Screen) /\ Len(stack') \in ScreenIds
        BY <2>1, StackIndices DEF StackKept
      <3>2. mainQueue' \in Seq(ChildAdded \cup Completion)
        BY <1>1, <1>3, QueueTyped DEF Block
      <3> QED
        BY <1>1, <1>3, <3>1, <3>2, WritesTyped, RestTyped DEF DiaryTypeOK
    <2>4. ASSUME NEW i \in DOMAIN mainQueue', mainQueue'[i].type = "childAdded"
          PROVE  /\ mainQueue'[i].screen \in DOMAIN stack'
                 /\ stack'[mainQueue'[i].screen].kind = "list"
      <3>1. CASE NewBlock(mainQueue'[i])
        <4>1. mainQueue'[i].screen \in Listeners(stack')
          BY <2>4, <3>1 DEF NewBlock
        <4> QED
          BY <2>2, <4>1 DEF Listeners, StackShape
      <3>2. CASE \E j \in DOMAIN mainQueue : mainQueue'[i] = mainQueue[j]
        <4>1. PICK p \in DOMAIN stack : p = mainQueue'[i].screen /\ stack[p].kind = "list"
          BY <2>4, <3>2 DEF EventsForLists
        <4>2. p \in DOMAIN stack'
          BY <2>1, <4>1, StackIndices
        <4> QED
          BY <2>1, <4>1, <4>2 DEF StackKept, ScreenKept
      <3> QED
        BY <1>1, <1>3, <3>1, <3>2, QueueOrigin
    <2> QED
      BY <1>1, <2>2, <2>3, <2>4 DEF EventsForLists
  <1> QED
    BY <1>2, <1>3

\* The core holds at the start.
LEMMA CoreInit ==
    ASSUME DiaryInit
    PROVE  DiaryCore
  <1>1. RepoInv
    <2>1. RepoTypeOK
      <3>1. writeIdCounter \in Nat /\ allWrites \in Seq(Write)
        BY DEF DiaryInit
      <3>2. /\ visibleWrites \in [Key -> Node \cup {NoWrite}]
            /\ serverCache \in [Key -> Node]
            /\ eventCache \in [Key -> Node]
        BY DEF DiaryInit, Node, Empty
      <3> QED
        BY <3>1, <3>2 DEF RepoTypeOK, DiaryInit
    <2>2. VisibleWritesExact /\ WriteIdsIncrease
      BY DEF DiaryInit, VisibleWritesExact, WriteIdsIncrease, WritesTo
    <2>3. EventCacheExact
      BY DEF DiaryInit, EventCacheExact, Layer, Empty
    <2> QED
      BY <2>1, <2>2, <2>3 DEF RepoInv
  <1>2. /\ stack \in Seq(Screen) /\ Len(stack) = 1 /\ DOMAIN stack = {1} /\ stack[1] = NewList
    BY NewScreens DEF DiaryInit
  <1>3. StackShape /\ EventsForLists
    <2>1. EventsForLists
      BY DEF EventsForLists, DiaryInit
    <2>2. listening
      BY DEF DiaryInit
    <2> QED
      BY <1>2, <2>1, <2>2, NewScreenFields DEF StackShape
  <1>4. DiaryTypeOK
    <2>1. 1 \in ScreenIds
      BY DiaryAssumption DEF ScreenIds
    <2>2. /\ onComplete \in Seq(ScreenIds \cup {0}) /\ Len(onComplete) = Len(allWrites)
          /\ answers \in Seq(BOOLEAN) /\ Len(answers) <= Len(allWrites)
          /\ mainQueue \in Seq(ChildAdded \cup Completion)
      BY DEF DiaryInit
    <2>3. /\ hud \in BOOLEAN /\ server \in [Key -> Node] /\ usedIds \subseteq Key
          /\ remote \in 0 .. MaxRemote /\ kills \in 0 .. MaxKills
          /\ disturbed \subseteq Key /\ deleted \subseteq Key
          /\ acceptedScreens \subseteq ScreenIds
      <3>1. hud \in BOOLEAN /\ server \in [Key -> Node] /\ usedIds \subseteq Key
        BY DEF DiaryInit
      <3>2. remote \in 0 .. MaxRemote /\ kills \in 0 .. MaxKills
        BY DiaryAssumption DEF DiaryInit
      <3> QED
        BY <3>1, <3>2 DEF DiaryInit
    <2> QED
      BY <1>1, <1>2, <2>1, <2>2, <2>3 DEF DiaryTypeOK, RepoInv
  <1> QED
    BY <1>1, <1>3, <1>4 DEF DiaryCore

-----------------------------------------------------------------------------
(* The theorems *)


\* Type correctness of the diary: screens, queues, callbacks and answers.
THEOREM DiaryTypeCorrect == DiarySpec => []DiaryTypeOK
  <1>1. DiaryInit => DiaryCore
    BY CoreInit
  <1>2. DiaryCore /\ [DiaryNext]_diaryVars => DiaryCore'
    BY CoreStep
  <1>3. DiaryCore => DiaryTypeOK
    BY DEF DiaryCore
  <1> QED
    BY <1>1, <1>2, <1>3, PTL DEF DiarySpec

-----------------------------------------------------------------------------
(* "Memory is saved" *)

\* Every promise of the alert on its way, shown, queued as a callback or still an
\* answer, is for a screen with a write the server accepted.
AcceptedSaves ==
    /\ SavedMeansAccepted
    /\ \A i \in DOMAIN mainQueue :
          mainQueue[i].type = "completion" /\ mainQueue[i].success
            => mainQueue[i].screen \in acceptedScreens
    /\ \A i \in DOMAIN answers :
          answers[i] /\ onComplete[i] # 0 => onComplete[i] \in acceptedScreens

\* An accepted write stays accepted until the app starts anew (ServerAccepts).
LEMMA AcceptedGrow ==
    ASSUME [DiaryNext]_diaryVars, ~Relaunch
    PROVE  acceptedScreens \subseteq acceptedScreens'
  <1>1. CASE UNCHANGED diaryVars
    BY <1>1 DEF diaryVars, historyVars
  <1>2. CASE UserStep
    BY <1>2 DEF UserStep, AddMemoriesBtnPressed, DidSelectRow, DoneBtnPressed, CancelBtnPressed,
       SavedOk, BackBtnPressed, EditBtnPressed, DeleteBtnPressed, DeleteCancelled, DeleteOk, historyVars
  <1>3. CASE MainQueueStep \/ ServerStep \/ ListenRevoked \/ \E k \in Key, n \in Node : OtherDevice(k, n)
    BY <1>3 DEF MainQueueStep, HandleChildAdded, HandleCompletion, ServerStep, ServerAccepts,
       ServerRejects, AnswerArrives, FirstData, ListenRevoked, OtherDevice, historyVars
  <1> QED
    BY <1>1, <1>2, <1>3 DEF DiaryNext, OutsideStep

\* The answers still on their way keep their promise.
LEMMA AcceptedAnswers ==
    ASSUME DiaryCore, AcceptedSaves, [DiaryNext]_diaryVars, ~Relaunch,
           NEW i \in DOMAIN answers', answers'[i], onComplete'[i] # 0
    PROVE  onComplete'[i] \in acceptedScreens'
  <1>0. /\ onComplete \in Seq(ScreenIds \cup {0}) /\ Len(onComplete) = Len(allWrites)
        /\ answers \in Seq(BOOLEAN) /\ Len(answers) <= Len(allWrites)
        /\ Len(answers) \in Nat /\ Len(onComplete) \in Nat
        /\ DOMAIN answers = 1 .. Len(answers) /\ DOMAIN onComplete = 1 .. Len(onComplete)
    BY LenProperties DEF DiaryCore, DiaryTypeOK
  <1>1. acceptedScreens \subseteq acceptedScreens'
    BY AcceptedGrow
  <1>2. \A j \in DOMAIN answers :
           answers[j] /\ onComplete[j] # 0 => onComplete[j] \in acceptedScreens'
    BY <1>1 DEF AcceptedSaves
  <1>3. CASE UNCHANGED <<allWrites, onComplete, answers>>
    BY <1>2, <1>3
  <1>4. CASE WriteMade
    <2>1. PICK p \in ScreenIds \cup {0} : onComplete' = Append(onComplete, p) /\ answers' = answers
      BY <1>4 DEF WriteMade
    <2>2. \A j \in DOMAIN onComplete : onComplete'[j] = onComplete[j]
      BY <1>0, <2>1, AppendSeq
    <2> QED
      BY <1>0, <1>2, <2>1, <2>2
  <1>5. CASE WriteAnswered
    <2>1. /\ \/ answers' = Append(answers, TRUE) /\ ServerAccepts
             \/ answers' = Append(answers, FALSE)
          /\ onComplete' = onComplete
      BY <1>5 DEF WriteAnswered
    <2>2. PICK b \in BOOLEAN : answers' = Append(answers, b) /\ (b => ServerAccepts)
      BY <2>1
    <2>3. /\ DOMAIN answers' = 1 .. (Len(answers) + 1)
          /\ \A j \in DOMAIN answers : answers'[j] = answers[j]
          /\ answers'[Len(answers) + 1] = b
      BY <1>0, <2>2, AppendSeq
    <2>4. CASE i \in DOMAIN answers
      BY <1>2, <2>1, <2>3, <2>4
    <2>5. CASE i \notin DOMAIN answers
      <3>1. i = Len(answers) + 1
        BY <1>0, <2>3, <2>5
      <3>2. ServerAccepts
        BY <2>2, <2>3, <3>1
      <3>3. acceptedScreens' = acceptedScreens \cup ({onComplete[i]} \ {0})
        BY <3>1, <3>2 DEF ServerAccepts
      <3> QED
        BY <2>1, <3>3
    <2> QED
      BY <2>4, <2>5
  <1>6. CASE AnswerArrives
    <2>1. /\ answers # <<>> /\ onComplete # <<>>
          /\ answers' = Tail(answers) /\ onComplete' = Tail(onComplete)
      BY <1>6, ArrivedWrites DEF DiaryCore
    <2>2. /\ DOMAIN answers' = 1 .. (Len(answers) - 1)
          /\ \A j \in 1 .. (Len(answers) - 1) : j + 1 \in DOMAIN answers /\ answers'[j] = answers[j + 1]
      BY <1>0, <2>1, TailSeq
    <2>3. \A j \in 1 .. (Len(onComplete) - 1) : onComplete'[j] = onComplete[j + 1]
      BY <1>0, <2>1, TailSeq
    <2>4. i \in 1 .. (Len(onComplete) - 1) /\ i + 1 \in DOMAIN answers
      BY <1>0, <2>2
    <2> QED
      BY <1>2, <2>2, <2>3, <2>4
  <1> QED
    BY <1>3, <1>4, <1>5, <1>6, StepWrites DEF DiaryCore

\* No step shows, queues or sends an undeserved "Memory is saved".
LEMMA AcceptedStep ==
    ASSUME DiaryCore, AcceptedSaves, [DiaryNext]_diaryVars
    PROVE  AcceptedSaves'
  <1>1. CASE Relaunch
    <2>1. mainQueue' = <<>> /\ answers' = <<>> /\ stack' = <<NewList>>
      BY <1>1 DEF Relaunch
    <2>2. DOMAIN stack' = {1} /\ stack'[1].alert = "none"
      BY <1>1, <2>1, FreshState, NewScreenFields DEF Relaunch
    <2> QED
      BY <2>1, <2>2 DEF AcceptedSaves, SavedMeansAccepted
  <1>2. CASE ~Relaunch
    <2>1. acceptedScreens \subseteq acceptedScreens'
      BY <1>2, AcceptedGrow
    <2>2. StackKept
      BY <1>2, StepStack DEF DiaryCore
    <2>3. RepoTypeOK'
      BY ClientStep DEF DiaryCore, RepoInv
    <2>4. ASSUME NEW p \in DOMAIN stack', stack'[p].alert = "saved"
          PROVE  p \in acceptedScreens'
      <3>1. CASE p \in DOMAIN stack
        <4>1. \/ stack[p].alert = "saved"
              \/ /\ mainQueue # <<>> /\ Head(mainQueue).type = "completion"
                 /\ Head(mainQueue).success /\ Head(mainQueue).screen = p
          BY <2>2, <2>4, <3>1 DEF StackKept, ScreenKept
        <4>2. mainQueue # <<>> => 1 \in DOMAIN mainQueue /\ Head(mainQueue) = mainQueue[1]
          BY HeadBlock DEF DiaryCore
        <4> QED
          BY <2>1, <3>1, <4>1, <4>2 DEF AcceptedSaves, SavedMeansAccepted
      <3>2. CASE p \notin DOMAIN stack
        BY <2>2, <2>4, <3>2, StackIndices DEF DiaryCore, Presented
      <3> QED
        BY <3>1, <3>2
    <2>5. ASSUME NEW i \in DOMAIN mainQueue', mainQueue'[i].type = "completion", mainQueue'[i].success
          PROVE  mainQueue'[i].screen \in acceptedScreens'
      <3>1. CASE NewBlock(mainQueue'[i])
        <4>1. answers # <<>> /\ Head(answers) /\ mainQueue'[i].screen = Head(onComplete)
              /\ Head(onComplete) # 0
          BY <2>5, <3>1 DEF NewBlock
        <4>2. 1 \in DOMAIN answers /\ answers[1] = Head(answers)
          BY <4>1, TailSeq DEF DiaryCore, DiaryTypeOK
        <4>3. onComplete # <<>> /\ onComplete \in Seq(ScreenIds \cup {0})
          <5>1. Len(answers) >= 1 /\ Len(answers) <= Len(onComplete) /\ Len(answers) \in Nat
            BY <4>2, LenProperties DEF DiaryCore, DiaryTypeOK
          <5> QED
            BY <5>1 DEF DiaryCore, DiaryTypeOK
        <4>4. onComplete[1] = Head(onComplete)
          BY <4>3, TailSeq
        <4> QED
          BY <2>1, <4>1, <4>2, <4>4 DEF AcceptedSaves
      <3>2. CASE \E j \in DOMAIN mainQueue : mainQueue'[i] = mainQueue[j]
        BY <2>1, <2>5, <3>2 DEF AcceptedSaves
      <3> QED
        BY <1>2, <2>3, <3>1, <3>2, QueueOrigin DEF DiaryCore
    <2>6. \A i \in DOMAIN answers' :
             answers'[i] /\ onComplete'[i] # 0 => onComplete'[i] \in acceptedScreens'
      BY <1>2, AcceptedAnswers
    <2> QED
      BY <2>4, <2>5, <2>6 DEF AcceptedSaves, SavedMeansAccepted
  <1> QED
    BY <1>1, <1>2

\* "Memory is saved" is only shown for a screen with an accepted write.
THEOREM SavedOnlyIfAccepted == DiarySpec => []SavedMeansAccepted
  <1>1. DiaryInit => DiaryCore /\ AcceptedSaves
    <2> SUFFICES ASSUME DiaryInit PROVE DiaryCore /\ AcceptedSaves
      OBVIOUS
    <2>1. stack[1].alert = "none" /\ DOMAIN stack = {1}
      <3>1. stack[1] = NewList /\ DOMAIN stack = {1}
        BY NewScreens DEF DiaryInit
      <3> QED
        BY <3>1, NewScreenFields
    <2>2. mainQueue = <<>> /\ answers = <<>>
      BY DEF DiaryInit
    <2> QED
      BY <2>1, <2>2, CoreInit DEF AcceptedSaves, SavedMeansAccepted
  <1>2. DiaryCore /\ AcceptedSaves /\ [DiaryNext]_diaryVars => DiaryCore' /\ AcceptedSaves'
    BY CoreStep, AcceptedStep
  <1>3. AcceptedSaves => SavedMeansAccepted
    BY DEF AcceptedSaves
  <1> QED
    BY <1>1, <1>2, <1>3, PTL DEF DiarySpec

-----------------------------------------------------------------------------
(* No list misses a memory *)

\* The rows and the waiting blocks of a list are Diary's Rows and Coming.
LEMMA RowsAndComing ==
    ASSUME NEW p, NEW k
    PROVE  Rows(p, k) = RowsOf(stack[p].rows, k) /\ Coming(p, k) = Queued(mainQueue, p, k)
  BY DEF Rows, RowsOf, Coming, Queued

\* Handling a block loses no memory: the block becomes the row.
LEMMA ShownOrComing ==
    ASSUME NEW q \in Seq(Block), q # <<>>, NEW rs \in Seq(Row), NEW p, NEW k,
           NEW ts \in Seq(Row),
           IF Head(q).type = "childAdded" /\ Head(q).screen = p
             THEN ts = Append(rs, [key |-> Head(q).key, node |-> Head(q).node])
             ELSE ts = rs,
           [key |-> Head(q).key, node |-> Head(q).node] \in Row
              \/ ~(Head(q).type = "childAdded" /\ Head(q).screen = p),
           RowsOf(rs, k) \cup Queued(q, p, k) # {}
    PROVE  RowsOf(ts, k) \cup Queued(Tail(q), p, k) # {}
  <1> DEFINE mine == Head(q).type = "childAdded" /\ Head(q).screen = p
  <1>1. PICK r : r = [key |-> Head(q).key, node |-> Head(q).node]
    OBVIOUS
  <1>2. CASE mine /\ Head(q).key = k
    <2>1. r \in Row /\ ts = Append(rs, r) /\ r.key = k
      BY <1>1, <1>2
    <2>2. Len(rs) + 1 \in RowsOf(ts, k)
      BY <2>1, RowsAppend
    <2> QED
      BY <2>2
  <1>3. CASE ~(mine /\ Head(q).key = k)
    <2>1. RowsOf(rs, k) \subseteq RowsOf(ts, k)
      <3>1. CASE mine
        <4>1. r \in Row /\ ts = Append(rs, r)
          BY <1>1, <3>1
        <4> QED
          BY <4>1, RowsAppend
      <3>2. CASE ~mine
        BY <3>2
      <3> QED
        BY <3>1, <3>2
    <2>2. ASSUME NEW i \in Queued(q, p, k) PROVE i - 1 \in Queued(Tail(q), p, k)
      <3>1. 1 \notin Queued(q, p, k)
        BY <1>3, QueuedTail
      <3>2. i - 1 \in DOMAIN Tail(q) /\ (i - 1) + 1 = i
        BY <3>1, QueuedTail
      <3>3. i - 1 \in Queued(Tail(q), p, k) <=> i - 1 \in DOMAIN Tail(q) /\ (i - 1) + 1 \in Queued(q, p, k)
        BY QueuedTail
      <3> QED
        BY <3>2, <3>3
    <2> QED
      BY <2>1, <2>2
  <1> QED
    BY <1>2, <1>3

\* A handled block leaves the rest of the diary alone.
LEMMA MainQueueSteps ==
    ASSUME DiaryCore, MainQueueStep
    PROVE  /\ mainQueue # <<>> /\ mainQueue \in Seq(Block) /\ mainQueue' = Tail(mainQueue)
           /\ UNCHANGED <<repoVars, onComplete, server, answers, usedIds, historyVars>>
           /\ DOMAIN stack' = DOMAIN stack
           /\ \A p \in DOMAIN stack :
                 /\ stack[p].rows \in Seq(Row) /\ stack'[p].rows \in Seq(Row)
                 /\ stack'[p].kind = stack[p].kind /\ stack'[p].observing = stack[p].observing
                 /\ IF Head(mainQueue).type = "childAdded" /\ Head(mainQueue).screen = p
                      THEN /\ stack'[p].rows = Append(stack[p].rows, [key |-> Head(mainQueue).key,
                                                                     node |-> Head(mainQueue).node])
                           /\ [key |-> Head(mainQueue).key, node |-> Head(mainQueue).node] \in Row
                      ELSE stack'[p].rows = stack[p].rows
  <1>1. /\ mainQueue # <<>> /\ mainQueue' = Tail(mainQueue)
        /\ UNCHANGED <<repoVars, onComplete, server, answers, usedIds, historyVars>>
    BY DEF MainQueueStep, HandleChildAdded, HandleCompletion
  <1>2. mainQueue \in Seq(Block)
    BY <1>1, HeadBlock DEF DiaryCore
  <1>3. \A p \in DOMAIN stack : stack[p] \in Screen /\ stack[p].rows \in Seq(Row)
    BY TopScreen, ScreenFields DEF DiaryCore
  <1>4. CASE HandleChildAdded
    <2>1. PICK q, r : /\ q = Head(mainQueue).screen
                      /\ r = [key |-> Head(mainQueue).key, node |-> Head(mainQueue).node]
      OBVIOUS
    <2>2. /\ r \in Row /\ DOMAIN stack' = DOMAIN stack
          /\ \A p \in DOMAIN stack : stack'[p] = IF p = q THEN WithRow(stack[p], r) ELSE stack[p]
      BY <1>4, <2>1, HandleChildAddedStack DEF DiaryCore
    <2>3. Head(mainQueue).type = "childAdded"
      BY <1>4 DEF HandleChildAdded
    <2>4. ASSUME NEW p \in DOMAIN stack
          PROVE  /\ stack'[p].rows \in Seq(Row)
                 /\ stack'[p].kind = stack[p].kind /\ stack'[p].observing = stack[p].observing
                 /\ stack'[p].rows = IF p = q THEN Append(stack[p].rows, r) ELSE stack[p].rows
      <3>1. CASE p = q
        <4>1. stack'[p] = WithRow(stack[p], r) /\ stack[p] \in Screen
          BY <1>3, <2>2, <3>1
        <4>2. Append(stack[p].rows, r) \in Seq(Row)
          BY <1>3, <2>2, AppendSeq
        <4>3. PICK s, t : s = stack[p] /\ t = stack'[p]
          OBVIOUS
        <4>4. t.kind = s.kind /\ t.observing = s.observing /\ t.rows = Append(s.rows, r)
          BY <2>2, <4>1, <4>3, RowAdded
        <4> QED
          BY <3>1, <4>2, <4>3, <4>4
      <3>2. CASE p # q
        BY <1>3, <2>2, <3>2
      <3> QED
        BY <3>1, <3>2
    <2> QED
      BY <1>1, <1>2, <1>3, <2>1, <2>2, <2>3, <2>4
  <1>5. CASE HandleCompletion
    <2>1. Head(mainQueue).type = "completion"
      BY <1>5 DEF HandleCompletion
    <2>2. PICK p \in ScreenIds : p = Head(mainQueue).screen
      BY <1>1, HeadBlock, BlockFields DEF DiaryCore
    <2>3. /\ DOMAIN stack' = DOMAIN stack
          /\ \A q \in DOMAIN stack : /\ stack'[q].rows = stack[q].rows
                                     /\ stack'[q].kind = stack[q].kind /\ stack'[q].observing = stack[q].observing
      <3>1. CASE stack' = stack
        BY <3>1
      <3>2. CASE stack' # stack
        <4>1. CanPresent(p) /\ stack' = [stack EXCEPT ![p].alert = "saved"]
          BY <1>5, <2>2, <3>2 DEF HandleCompletion, SavedAlert
        <4>2. p \in DOMAIN stack /\ stack \in Seq(Screen)
          BY <4>1, TopScreen DEF CanPresent, DiaryCore
        <4> QED
          BY <4>1, <4>2, AlertSet DEF Alike
      <3> QED
        BY <3>1, <3>2
    <2> QED
      BY <1>1, <1>2, <1>3, <2>1, <2>3
  <1> QED
    BY <1>4, <1>5 DEF MainQueueStep

\* Every listening list keeps, or is about to get, a row for each memory of the view.
LEMMA NoMemoryMissingStep ==
    ASSUME DiaryCore, NoMemoryMissing, [DiaryNext]_diaryVars
    PROVE  NoMemoryMissing'
  <1>0. RepoTypeOK'
    BY ClientStep DEF DiaryCore, RepoInv
  <1> SUFFICES ASSUME NEW p \in Listeners(stack'), NEW k \in Key, eventCache'[k] # Absent
               PROVE  RowsOf(stack'[p].rows, k) \cup Queued(mainQueue', p, k) # {}
    BY DEF NoMemoryMissing, Rows, RowsOf, Coming, Queued
  <1>1. p \in DOMAIN stack' /\ stack'[p].observing
    BY DEF Listeners
  <1>2. \A q \in DOMAIN stack : stack[q].observing /\ eventCache[k] # Absent =>
           RowsOf(stack[q].rows, k) \cup Queued(mainQueue, q, k) # {}
    BY DEF NoMemoryMissing, Rows, RowsOf, Coming, Queued, Listeners
  <1>3. CASE Relaunch
    <2>1. visibleWrites' = [c \in Key |-> NoWrite] /\ eventCache' = Layer(visibleWrites', Empty)
      BY <1>3 DEF Relaunch, NewView
    <2>2. eventCache'[k] = Absent
      BY <2>1 DEF Layer, Empty
    <2> QED
      BY <2>2
  <1>4. CASE MainQueueStep
    <2>1. p \in DOMAIN stack /\ stack[p].observing /\ eventCache[k] # Absent
      BY <1>1, <1>4, MainQueueSteps DEF repoVars, viewVars
    <2>2. RowsOf(stack[p].rows, k) \cup Queued(mainQueue, p, k) # {}
      BY <1>2, <2>1
    <2>3. PICK rs, ts, q : rs = stack[p].rows /\ ts = stack'[p].rows /\ q = mainQueue
      OBVIOUS
    <2>4. /\ q \in Seq(Block) /\ q # <<>> /\ mainQueue' = Tail(q)
          /\ rs \in Seq(Row) /\ ts \in Seq(Row)
          /\ IF Head(q).type = "childAdded" /\ Head(q).screen = p
               THEN /\ ts = Append(rs, [key |-> Head(q).key, node |-> Head(q).node])
                    /\ [key |-> Head(q).key, node |-> Head(q).node] \in Row
               ELSE ts = rs
      BY <1>4, <2>1, <2>3, MainQueueSteps
    <2>5. RowsOf(rs, k) \cup Queued(q, p, k) # {}
      BY <2>2, <2>3
    <2>6. RowsOf(ts, k) \cup Queued(Tail(q), p, k) # {}
      BY <2>4, <2>5, ShownOrComing
    <2> QED
      BY <2>3, <2>4, <2>6
  <1>5. CASE ~Relaunch /\ ~MainQueueStep
    <2>1. StackKept
      BY <1>5, StepStack DEF DiaryCore
    <2>2. PICK e : Queues(e)
      BY <1>0, <1>5, StepQueue DEF DiaryCore
    <2>3. e \in Seq(Block) /\ mainQueue \in Seq(Block) /\ mainQueue' = mainQueue \o e
      BY <2>2 DEF Queues, DiaryCore, DiaryTypeOK, Block
    <2>4. CASE NewTo(p, k)
      <3>1. PICK j \in Queued(e, p, k) : TRUE
        BY <2>2, <2>4 DEF Queues
      <3>2. Len(mainQueue) + j \in Queued(mainQueue', p, k)
        BY <2>3, <3>1, QueuedConcat
      <3> QED
        BY <3>2
    <2>5. CASE ~NewTo(p, k)
      <3>1. p # Top + 1 /\ eventCache[k] # Absent
        BY <2>5 DEF NewTo
      <3>2. p \in DOMAIN stack
        BY <1>1, <2>1, <3>1, StackIndices DEF DiaryCore
      <3>3. ScreenKept(p)
        BY <1>1, <2>1, <3>2 DEF StackKept
      <3>4. stack[p].observing /\ stack'[p].rows = stack[p].rows
        BY <1>1, <1>5, <3>3 DEF ScreenKept, MainQueueStep
      <3>5. Queued(mainQueue, p, k) \subseteq Queued(mainQueue', p, k)
        BY <2>3, QueuedConcat
      <3> QED
        BY <1>2, <3>1, <3>2, <3>4, <3>5
    <2> QED
      BY <2>4, <2>5
  <1> QED
    BY <1>3, <1>4, <1>5

\* No list that still listens misses a memory of the view.
THEOREM NothingMissing == DiarySpec => []NoMemoryMissing
  <1>1. DiaryInit => DiaryCore /\ NoMemoryMissing
    <2> SUFFICES ASSUME DiaryInit PROVE DiaryCore /\ NoMemoryMissing
      OBVIOUS
    <2>1. \A k \in Key : eventCache[k] = Absent
      BY DEF DiaryInit, Empty
    <2> QED
      BY <2>1, CoreInit DEF NoMemoryMissing
  <1>2. DiaryCore /\ NoMemoryMissing /\ [DiaryNext]_diaryVars => DiaryCore' /\ NoMemoryMissing'
    BY CoreStep, NoMemoryMissingStep
  <1> QED
    BY <1>1, <1>2, PTL DEF DiarySpec

-----------------------------------------------------------------------------
(* The visible list is exact *)

\* The list on display, or the one a memory's screen was opened from: the only
\* list that Back can bring to the front.
InReach(p) ==
    /\ p \in DOMAIN stack
    /\ p = Top \/ (p + 1 = Top /\ stack[Top].kind = "show")
    /\ stack[p].kind = "list" /\ stack[p].observing

\* Each list in reach is exact: what VisibleListExact says of the visible one.
ListsInReachExact ==
    \A p \in DOMAIN stack : InReach(p) =>
        \A k \in Key \ disturbed : Shown(stack[p].rows, mainQueue, p, k, eventCache[k])

\* A list in reach was so before: none comes back to the front from deeper down.
LEMMA WasInReach ==
    ASSUME DiaryCore, StackKept, NEW p \in DOMAIN stack, InReach(p)'
    PROVE  InReach(p) /\ p \in DOMAIN stack'
  <1>1. /\ p \in DOMAIN stack' /\ stack'[p].kind = "list" /\ stack'[p].observing
        /\ p = Len(stack') \/ (p + 1 = Len(stack') /\ stack'[Len(stack')].kind = "show")
    BY DEF InReach, Top
  <1>2. /\ stack[p].kind = "list" /\ stack[p].observing
    BY <1>1 DEF StackKept, ScreenKept
  <1>3. /\ DOMAIN stack = 1 .. Top /\ Top \in Nat /\ Top >= 1
        /\ DOMAIN stack' = 1 .. Len(stack')
    BY TopScreen, LenProperties DEF DiaryCore, StackKept
  <1>4. CASE Len(stack') = Top
    <2>1. stack'[Top].kind = stack[Top].kind
      BY <1>3, <1>4 DEF StackKept, ScreenKept
    <2> QED
      BY <1>1, <1>2, <1>4, <2>1 DEF InReach
  <1>5. CASE Len(stack') = Top + 1
    <2>1. p = Top
      BY <1>1, <1>3, <1>5
    <2> QED
      BY <1>1, <1>2, <2>1 DEF InReach
  <1>6. CASE Len(stack') = Top - 1 /\ stack[Top].kind = "show"
    <2>1. Top - 1 \in DOMAIN stack /\ stack[Top - 1].kind = "list"
      BY <1>3, <1>6 DEF DiaryCore, StackShape
    <2>2. Top - 1 \in DOMAIN stack' /\ Top - 1 \in Nat
      BY <1>3, <1>6, <2>1
    <2>3. stack'[Top - 1].kind = "list"
      BY <2>1, <2>2 DEF StackKept, ScreenKept
    <2>4. p + 1 = Top
      BY <1>1, <1>3, <1>6, <2>2, <2>3
    <2> QED
      BY <1>1, <1>2, <1>6, <2>4 DEF InReach
  <1> QED
    BY <1>4, <1>5, <1>6 DEF StackKept

\* Under a list that stays in reach, a child that is there is changed or removed
\* only by the server, and noted as disturbed.
LEMMA ChangesNoted ==
    ASSUME DiaryCore, [DiaryNext]_diaryVars, ~Relaunch, ~MainQueueStep,
           NEW p \in DOMAIN stack, InReach(p)', NEW k \in Key \ disturbed'
    PROVE  k \notin disturbed /\ (eventCache'[k] = eventCache[k] \/ eventCache[k] = Absent)
  <1>0. StackKept
    BY StepStack DEF DiaryCore
  <1>1. /\ InReach(p) /\ p \in DOMAIN stack' /\ stack'[p].kind = "list" /\ stack'[p].observing
        /\ p = Len(stack') \/ (p + 1 = Len(stack') /\ stack'[Len(stack')].kind = "show")
    BY <1>0, WasInReach DEF InReach, Top
  <1>2. listening
    BY <1>1 DEF InReach, DiaryCore, StackShape
  <1>3. /\ DOMAIN stack = 1 .. Top /\ Top \in Nat /\ Top >= 1 /\ stack \in Seq(Screen)
    BY TopScreen DEF DiaryCore
  <1>4. CASE UNCHANGED <<eventCache, disturbed>>
    BY <1>4
  <1>5. ASSUME NEW s, s \in Seq(Screen), Len(s) = Top, stack' = Append(s, NewList)
        PROVE  FALSE
    <2>1. Len(stack') = Top + 1 /\ stack'[Top + 1] = NewList
      BY <1>5, NewScreens, AppendSeq
    <2>2. stack'[Top + 1].kind = "list"
      BY <2>1, NewScreenFields
    <2> QED
      BY <1>1, <1>3, <2>1, <2>2
  <1>6. ASSUME NEW l \in Key, NEW v \in Value, DoneBtnPressed(l, v)
        PROVE  FALSE
    <2>1. stack[Top].kind = "add" /\ stack' = [stack EXCEPT ![Top].memoryID = l, ![Top].text = v]
      BY <1>6 DEF DoneBtnPressed, Tappable
    <2> QED
      BY <1>1, <2>1 DEF InReach
  <1>7. CASE CancelBtnPressed
    BY <1>3, <1>5, <1>7 DEF CancelBtnPressed, RetriveMemories, Top
  <1>8. CASE SavedOk \/ DeleteOk
    <2>1. PICK s : s = [stack EXCEPT ![Top].alert = "none"]
      OBVIOUS
    <2>2. s \in Seq(Screen) /\ Len(s) = Top
      <3>1. Top \in DOMAIN stack /\ Top = Len(stack)
        BY <1>3 DEF Top
      <3>2. Alike(stack, s)
        BY <1>3, <2>1, <3>1, AlertSet
      <3> QED
        BY <3>1, <3>2 DEF Alike
    <2>3. stack' = Append(s, NewList)
      BY <1>8, <2>1 DEF SavedOk, DeleteOk, RetriveMemories
    <2> QED
      BY <1>5, <2>2, <2>3
  <1>9. ASSUME \/ AddMemoriesBtnPressed \/ EditBtnPressed \/ BackBtnPressed
               \/ \E i \in DOMAIN stack[Top].rows : DidSelectRow(i)
               \/ DeleteBtnPressed \/ DeleteCancelled \/ ServerRejects
        PROVE  UNCHANGED <<eventCache, disturbed>>
    BY <1>9 DEF AddMemoriesBtnPressed, EditBtnPressed, BackBtnPressed, DidSelectRow, DeleteBtnPressed,
       DeleteCancelled, ServerRejects, repoVars, viewVars, historyVars
  <1>10. CASE disturbed' = disturbed \cup Unobserved
    <2>1. disturbed' = disturbed \cup {c \in Key : eventCache[c] # Absent /\ eventCache'[c] # eventCache[c]}
      BY <1>2, <1>10 DEF Unobserved
    <2> QED
      BY <2>1
  <1>11. ASSUME ServerAccepts \/ \E c \in Key, n \in Node : OtherDevice(c, n)
         PROVE  \/ UNCHANGED <<eventCache, disturbed>>
                \/ disturbed' = disturbed \cup Unobserved
    BY <1>11 DEF ServerAccepts, OtherDevice, PushChild, repoVars, viewVars
  <1>12. ASSUME AnswerArrives \/ FirstData
         PROVE  disturbed' = disturbed \cup Unobserved
    BY <1>12 DEF AnswerArrives, FirstData
  <1>13. CASE ListenRevoked
    <2>1. stack'[p] = [stack[p] EXCEPT !.observing = FALSE] /\ stack[p] \in Screen
      BY <1>3, <1>13, TopScreen DEF ListenRevoked, DiaryCore
    <2>2. stack'[p].observing = FALSE
      BY <2>1, ListenerGone DEF Silenced
    <2> QED
      BY <1>1, <2>2
  <1>14. CASE UNCHANGED diaryVars
    BY <1>4, <1>14 DEF diaryVars, repoVars, viewVars, historyVars
  <1> QED
    BY <1>4, <1>6, <1>7, <1>8, <1>9, <1>10, <1>11, <1>12, <1>13, <1>14
       DEF DiaryNext, UserStep, ServerStep, OutsideStep

\* The lists in reach stay exact through every step.
LEMMA ListsInReachStep ==
    ASSUME DiaryCore, ListsInReachExact, [DiaryNext]_diaryVars
    PROVE  ListsInReachExact'
  <1>0. RepoTypeOK'
    BY ClientStep DEF DiaryCore, RepoInv
  <1> SUFFICES ASSUME NEW p \in DOMAIN stack', InReach(p)', NEW k \in Key \ disturbed'
               PROVE  Shown(stack'[p].rows, mainQueue', p, k, eventCache'[k])
    BY DEF ListsInReachExact
  <1>1. CASE Relaunch
    <2>1. visibleWrites' = [c \in Key |-> NoWrite] /\ eventCache' = Layer(visibleWrites', Empty)
      BY <1>1 DEF Relaunch, NewView
    <2>2. eventCache'[k] = Absent
      BY <2>1 DEF Layer, Empty
    <2>3. mainQueue' = <<>> /\ DOMAIN stack' = {1} /\ stack'[1] = NewList
      BY <1>1, FreshState DEF Relaunch
    <2>4. stack'[p].rows = <<>>
      BY <2>3, NewScreenFields
    <2> QED
      BY <2>2, <2>3, <2>4 DEF Shown, RowsOf, Queued
  <1>2. CASE MainQueueStep /\ ~Relaunch
    <2>1. StackKept
      BY <1>2, StepStack DEF DiaryCore
    <2>2. p \in DOMAIN stack /\ eventCache' = eventCache /\ disturbed' = disturbed
      BY <1>2, MainQueueSteps DEF repoVars, viewVars, historyVars
    <2>3. InReach(p)
      BY <2>1, <2>2, WasInReach
    <2>4. PICK rs, ts, q, n : rs = stack[p].rows /\ ts = stack'[p].rows /\ q = mainQueue /\ n = eventCache[k]
      OBVIOUS
    <2>5. Shown(rs, q, p, k, n)
      BY <2>2, <2>3, <2>4 DEF ListsInReachExact
    <2>6. /\ q \in Seq(Block) /\ q # <<>> /\ mainQueue' = Tail(q)
          /\ rs \in Seq(Row) /\ ts \in Seq(Row)
          /\ IF Head(q).type = "childAdded" /\ Head(q).screen = p
               THEN /\ ts = Append(rs, [key |-> Head(q).key, node |-> Head(q).node])
                    /\ [key |-> Head(q).key, node |-> Head(q).node] \in Row
               ELSE ts = rs
      BY <1>2, <2>2, <2>4, MainQueueSteps
    <2>7. Shown(ts, Tail(q), p, k, n)
      <3>1. CASE Head(q).type = "childAdded" /\ Head(q).screen = p
        <4>1. PICK r : r = [key |-> Head(q).key, node |-> Head(q).node]
          OBVIOUS
        <4>2. r \in Row /\ ts = Append(rs, r)
          BY <2>6, <3>1, <4>1
        <4>3. Shown(Append(rs, r), Tail(q), p, k, n)
          BY <2>5, <2>6, <3>1, <4>1, <4>2, ShownHandled
        <4> QED
          BY <4>2, <4>3
      <3>2. CASE ~(Head(q).type = "childAdded" /\ Head(q).screen = p)
        <4>1. ts = rs
          BY <2>6, <3>2
        <4> QED
          BY <2>5, <2>6, <3>2, <4>1, ShownSkipped
      <3> QED
        BY <3>1, <3>2
    <2> QED
      BY <2>2, <2>4, <2>6, <2>7
  <1>3. CASE ~Relaunch /\ ~MainQueueStep
    <2>1. StackKept
      BY <1>3, StepStack DEF DiaryCore
    <2>2. PICK e : Queues(e)
      BY <1>0, <1>3, StepQueue DEF DiaryCore
    <2>3. e \in Seq(Block) /\ mainQueue \in Seq(Block) /\ mainQueue' = mainQueue \o e
      BY <2>2 DEF Queues, DiaryCore, DiaryTypeOK, Block
    <2>4. p \in Listeners(stack')
      BY DEF InReach, Listeners
    <2>5. PICK n : n = eventCache'[k]
      OBVIOUS
    <2>6. ASSUME NEW rs, RowsOf(rs, k) = {}, Queued(mainQueue, p, k) = {},
                 n # Absent => NewTo(p, k)
          PROVE  Shown(rs, mainQueue \o e, p, k, n)
      <3>1. CASE n = Absent
        <4>1. Queued(e, p, k) = {}
          BY <2>2, <2>4, <2>5, <3>1 DEF Queues, NewTo
        <4>2. Shown(rs, mainQueue, p, k, n)
          BY <2>6, <3>1 DEF Shown
        <4> QED
          BY <2>3, <4>1, <4>2, ShownQuiet
      <3>2. CASE n # Absent
        <4>1. PICK j \in Queued(e, p, k) : Queued(e, p, k) = {j}
          BY <2>2, <2>4, <2>6, <3>2 DEF Queues
        <4>2. e[j].node = n
          <5>1. j \in DOMAIN e /\ e[j].type = "childAdded" /\ e[j].key = k
            BY <4>1 DEF Queued
          <5> QED
            BY <2>2, <2>5, <5>1 DEF Queues, NewBlock
        <4> QED
          BY <2>3, <2>6, <3>2, <4>1, <4>2, ShownAppears
      <3> QED
        BY <3>1, <3>2
    <2>7. CASE p \in DOMAIN stack
      <3>1. InReach(p)
        BY <2>1, <2>7, WasInReach
      <3>2. k \notin disturbed /\ (eventCache'[k] = eventCache[k] \/ eventCache[k] = Absent)
        BY <1>3, <2>7, ChangesNoted
      <3>3. stack'[p].rows = stack[p].rows
        BY <1>3, <2>1, <2>7 DEF StackKept, ScreenKept, MainQueueStep
      <3>4. PICK rs : rs = stack[p].rows
        OBVIOUS
      <3>5. Shown(rs, mainQueue, p, k, eventCache[k])
        BY <2>7, <3>1, <3>2, <3>4 DEF ListsInReachExact
      <3>6. p # Top + 1
        BY <2>7, TopScreen DEF DiaryCore
      <3>7. CASE n = eventCache[k]
        <4>1. Queued(e, p, k) = {}
          BY <2>2, <2>4, <2>5, <3>6, <3>7 DEF Queues, NewTo
        <4> QED
          BY <2>3, <2>5, <3>3, <3>4, <3>5, <3>7, <4>1, ShownQuiet
      <3>8. CASE eventCache[k] = Absent
        <4>1. RowsOf(rs, k) = {} /\ Queued(mainQueue, p, k) = {}
          BY <3>5, <3>8 DEF Shown
        <4>2. n # Absent => NewTo(p, k)
          BY <2>5, <3>8 DEF NewTo
        <4>3. Shown(rs, mainQueue \o e, p, k, n)
          BY <2>6, <4>1, <4>2
        <4> QED
          BY <2>3, <2>5, <3>3, <3>4, <4>3
      <3> QED
        BY <2>5, <3>2, <3>7, <3>8
    <2>8. CASE p \notin DOMAIN stack
      <3>1. p = Top + 1 /\ Presented(stack'[p])
        BY <2>1, <2>8, StackIndices DEF DiaryCore
      <3>2. stack'[p].rows = <<>>
        BY <3>1 DEF Presented
      <3>3. PICK rs : rs = stack'[p].rows
        OBVIOUS
      <3>4. RowsOf(rs, k) = {}
        BY <3>2, <3>3 DEF RowsOf
      <3>5. Queued(mainQueue, p, k) = {}
        BY <2>8 DEF Queued, DiaryCore, EventsForLists
      <3>6. n # Absent => NewTo(p, k)
        BY <2>5, <3>1 DEF NewTo
      <3>7. Shown(rs, mainQueue \o e, p, k, n)
        BY <2>6, <3>4, <3>5, <3>6
      <3> QED
        BY <2>3, <2>5, <3>3, <3>7
    <2> QED
      BY <2>7, <2>8
  <1> QED
    BY <1>1, <1>2, <1>3

\* The list on display shows each memory once and nothing else, but for what was
\* changed or removed under it.
THEOREM VisibleListIsExact == DiarySpec => []VisibleListExact
  <1>1. DiaryInit => DiaryCore /\ ListsInReachExact
    <2> SUFFICES ASSUME DiaryInit PROVE DiaryCore /\ ListsInReachExact
      OBVIOUS
    <2>1. mainQueue = <<>> /\ \A k \in Key : eventCache[k] = Absent
      BY DEF DiaryInit, Empty
    <2>2. DOMAIN stack = {1} /\ stack[1].rows = <<>>
      <3>1. stack[1] = NewList /\ DOMAIN stack = {1}
        BY NewScreens DEF DiaryInit
      <3> QED
        BY <3>1, NewScreenFields
    <2>3. ListsInReachExact
      <3> SUFFICES ASSUME NEW p \in DOMAIN stack, NEW k \in Key
                   PROVE  Shown(stack[p].rows, mainQueue, p, k, eventCache[k])
        BY DEF ListsInReachExact
      <3>1. RowsOf(stack[p].rows, k) = {} /\ Queued(mainQueue, p, k) = {}
        BY <2>1, <2>2 DEF RowsOf, Queued
      <3>2. eventCache[k] = Absent
        BY <2>1
      <3> QED
        BY <3>1, <3>2 DEF Shown
    <2> QED
      BY <2>3, CoreInit
  <1>2. DiaryCore /\ ListsInReachExact /\ [DiaryNext]_diaryVars => DiaryCore' /\ ListsInReachExact'
    BY CoreStep, ListsInReachStep
  <1>3. DiaryCore /\ ListsInReachExact => VisibleListExact
    <2> SUFFICES ASSUME DiaryCore, ListsInReachExact,
                        stack[Top].kind = "list", stack[Top].observing, NEW k \in Key \ disturbed
                 PROVE  IF eventCache[k] = Absent THEN Rows(Top, k) \cup Coming(Top, k) = {}
                                                  ELSE ShownOnce(Top, k, eventCache[k])
      BY DEF VisibleListExact
    <2>1. PICK p : p = Top
      OBVIOUS
    <2>2. p \in DOMAIN stack /\ InReach(p)
      BY <2>1, TopScreen DEF DiaryCore, InReach
    <2>3. Shown(stack[p].rows, mainQueue, p, k, eventCache[k])
      BY <2>2 DEF ListsInReachExact
    <2> QED
      BY <2>1, <2>3, RowsAndComing DEF Shown, ShownOnce
  <1> QED
    BY <1>1, <1>2, <1>3, PTL DEF DiarySpec

-----------------------------------------------------------------------------
(* Deleted memories *)

\* The view holds the server's data once it came, and nothing without a listener.
ViewOfServer ==
    /\ listening => serverCache = IF serverComplete THEN server ELSE Empty
    /\ ~listening => eventCache = Empty

\* The ids of the writes and of the server's memories were given before.
DataUsed ==
    /\ \A i \in DOMAIN allWrites : allWrites[i].key \in usedIds
    /\ \A k \in Key : server[k] # Absent => k \in usedIds

\* So were those on the screens and on their way there: random() makes none of them.
ScreensUsed ==
    /\ \A i \in DOMAIN mainQueue : mainQueue[i].type = "childAdded" => mainQueue[i].key \in usedIds
    /\ \A p \in DOMAIN stack :
          /\ \A i \in DOMAIN stack[p].rows : stack[p].rows[i].key \in usedIds
          /\ stack[p].kind = "show" => stack[p].memoryID \in usedIds

\* The last word on a deleted memory is its delete: pending, or accepted.
LastWordIsDelete(k) ==
    /\ k \in usedIds
    /\ visibleWrites[k] \in {Absent, NoWrite}
    /\ WritesTo(allWrites, k) = {} => server[k] = Absent
    /\ \A i \in WritesTo(allWrites, k) :
          (/\ \A j \in WritesTo(allWrites, k) : j <= i
           /\ i \in DOMAIN answers /\ answers[i]) => server[k] = Absent

DeletesPending == \A k \in deleted : LastWordIsDelete(k)

\* No list was presented over the screen at p: it is on display or below screens
\* that only lead back to it.
Live(p) == \A q \in DOMAIN stack : q > p => stack[q].kind # "list"

\* A screen that shows or edits the memory k.
Names(s, k) == s.memoryID = k /\ (s.kind = "show" \/ (s.kind = "add" /\ s.initator # "vc1"))

\* No screen that can be worked on knows a deleted memory any more.
DeletedOutOfReach ==
    \A k \in deleted, p \in DOMAIN stack : Live(p) =>
        /\ RowsOf(stack[p].rows, k) = {} /\ Queued(mainQueue, p, k) = {}
        /\ ~Names(stack[p], k)

DeletedInv ==
    /\ DiaryCore
    /\ ViewOfServer
    /\ DataUsed /\ ScreensUsed
    /\ DeletesPending
    /\ DeletedOutOfReach

\* A deleted memory is not in the view: nothing covers or supplies it.
LEMMA DeletedAbsent == DiaryCore /\ ViewOfServer /\ DeletesPending => DeletedStaysDeleted
  <1> SUFFICES ASSUME DiaryCore, ViewOfServer, DeletesPending, NEW k \in deleted
               PROVE  eventCache[k] = Absent
    BY DEF DeletedStaysDeleted
  <1>0. k \in Key /\ LastWordIsDelete(k)
    BY DEF DeletesPending, DiaryCore, DiaryTypeOK
  <1>1. CASE ~listening
    BY <1>0, <1>1 DEF ViewOfServer, Empty
  <1>2. CASE listening
    <2>1. eventCache[k] = IF visibleWrites[k] = NoWrite THEN serverCache[k] ELSE visibleWrites[k]
      BY <1>0, <1>2 DEF DiaryCore, RepoInv, EventCacheExact, Layer
    <2>2. CASE visibleWrites[k] # NoWrite
      BY <1>0, <2>1, <2>2 DEF LastWordIsDelete
    <2>3. CASE visibleWrites[k] = NoWrite
      <3>1. WritesTo(allWrites, k) = {}
        BY <1>0, <2>3, CoveredIffPending DEF DiaryCore, RepoInv
      <3>2. server[k] = Absent
        BY <1>0, <3>1 DEF LastWordIsDelete
      <3>3. serverCache[k] = Absent
        BY <1>0, <1>2, <3>2 DEF ViewOfServer, Empty
      <3> QED
        BY <2>1, <2>3, <3>3
    <2> QED
      BY <2>2, <2>3
  <1> QED
    BY <1>1, <1>2

\* What the view shows was given an id before.
SeenUsed == \A k \in Key : eventCache[k] # Absent => k \in usedIds

LEMMA ViewUsed == DiaryCore /\ ViewOfServer /\ DataUsed => SeenUsed
  <1> SUFFICES ASSUME DiaryCore, ViewOfServer, DataUsed, NEW k \in Key, eventCache[k] # Absent
               PROVE  k \in usedIds
    BY DEF SeenUsed
  <1>1. listening
    BY DEF ViewOfServer, Empty
  <1>2. eventCache[k] = IF visibleWrites[k] = NoWrite THEN serverCache[k] ELSE visibleWrites[k]
    BY <1>1 DEF DiaryCore, RepoInv, EventCacheExact, Layer
  <1>3. CASE visibleWrites[k] # NoWrite
    <2>1. PICK i : i \in WritesTo(allWrites, k)
      BY <1>3 DEF DiaryCore, RepoInv, VisibleWritesExact
    <2> QED
      BY <2>1 DEF WritesTo, DataUsed
  <1>4. CASE visibleWrites[k] = NoWrite
    <2>1. serverCache[k] # Absent
      BY <1>2, <1>4
    <2>2. server[k] # Absent
      BY <1>1, <2>1 DEF ViewOfServer, Empty
    <2> QED
      BY <2>2 DEF DataUsed
  <1> QED
    BY <1>3, <1>4

\* Both hold of the next state too.
LEMMA Later ==
    /\ DiaryCore' /\ ViewOfServer' /\ DeletesPending' => DeletedStaysDeleted'
    /\ DiaryCore' /\ ViewOfServer' /\ DataUsed' => SeenUsed'
  BY DeletedAbsent, ViewUsed, PTL

\* The view follows the server through every step.
LEMMA ViewStep ==
    ASSUME DiaryCore, ViewOfServer, [DiaryNext]_diaryVars
    PROVE  ViewOfServer'
  <1>0. server \in [Key -> Node] /\ serverCache \in [Key -> Node]
    BY DEF DiaryCore, DiaryTypeOK, RepoTypeOK
  <1>1. CASE UNCHANGED viewVars /\ UNCHANGED server
    BY <1>1 DEF ViewOfServer, viewVars, Empty
  <1>2. ASSUME NEW k \in Key, NEW v \in Value, DoneBtnPressed(k, v)
        PROVE  ViewOfServer'
    <2>1. /\ UNCHANGED <<listening, serverComplete, serverCache, server>>
          /\ ~listening => eventCache' = eventCache
      BY <1>2 DEF DoneBtnPressed, Set, ApplyUserOverwriteTo
    <2> QED
      BY <2>1 DEF ViewOfServer, Empty
  <1>3. CASE CancelBtnPressed \/ SavedOk
    <2>1. UNCHANGED server /\ listening'
          /\ IF listening THEN UNCHANGED <<serverComplete, serverCache, eventCache>> ELSE NewView
      BY <1>3 DEF CancelBtnPressed, SavedOk, AddEventRegistration
    <2> QED
      BY <2>1 DEF ViewOfServer, Empty, NewView
  <1>4. CASE DeleteOk
    <2>1. UNCHANGED server /\ listening'
          /\ IF listening THEN UNCHANGED <<serverComplete, serverCache>> ELSE NewView
      BY <1>4 DEF DeleteOk, RemoveAndObserve
    <2> QED
      BY <2>1 DEF ViewOfServer, Empty, NewView
  <1>5. ASSUME NEW k \in Key, NEW n \in Node, server' = [server EXCEPT ![k] = n], PushChild(k)
        PROVE  ViewOfServer'
    <2>1. CASE listening /\ serverComplete
      <3>1. /\ serverCache' = [serverCache EXCEPT ![k] = server'[k]]
            /\ UNCHANGED <<listening, serverComplete>>
        BY <1>5, <2>1 DEF PushChild, ApplyServerOverwrite
      <3>2. serverCache = server
        BY <2>1 DEF ViewOfServer
      <3>3. serverCache' = server'
        BY <1>0, <1>5, <3>1, <3>2
      <3> QED
        BY <2>1, <3>1, <3>3 DEF ViewOfServer
    <2>2. CASE ~(listening /\ serverComplete)
      <3>1. UNCHANGED viewVars
        BY <1>5, <2>2 DEF PushChild, repoVars
      <3> QED
        BY <2>2, <3>1 DEF ViewOfServer, viewVars, Empty
    <2> QED
      BY <2>1, <2>2
  <1>6. CASE ServerAccepts
    <2>1. PICK i : i = Len(answers) + 1
      OBVIOUS
    <2>2. i \in 1 .. Len(allWrites) /\ allWrites \in Seq(Write)
      BY <1>6, <2>1, LenProperties DEF ServerAccepts, DiaryCore, DiaryTypeOK, RepoTypeOK
    <2>3. allWrites[i].key \in Key /\ allWrites[i].node \in Node
      BY <2>2, QueuedWrite, LenProperties
    <2>4. server' = [server EXCEPT ![allWrites[i].key] = allWrites[i].node] /\ PushChild(allWrites[i].key)
      BY <1>6, <2>1 DEF ServerAccepts
    <2> QED
      BY <1>5, <2>3, <2>4
  <1>7. CASE AnswerArrives
    <2>1. /\ UNCHANGED <<listening, serverComplete, serverCache, server>>
          /\ ~listening => eventCache' = eventCache
      BY <1>7 DEF AnswerArrives, AckWrite
    <2> QED
      BY <2>1 DEF ViewOfServer, Empty
  <1>8. CASE FirstData
    BY <1>8 DEF FirstData, ApplyServerSnapshot, ViewOfServer
  <1>9. ASSUME NEW k \in Key, NEW n \in Node, OtherDevice(k, n) PROVE ViewOfServer'
    BY <1>5, <1>9 DEF OtherDevice
  <1>10. CASE ListenRevoked
    BY <1>10 DEF ListenRevoked, RemoveEventRegistrations, ViewOfServer, Empty
  <1>11. CASE Relaunch
    BY <1>11 DEF Relaunch, NewView, ViewOfServer, Empty
  <1>12. CASE UNCHANGED diaryVars
    BY <1>1, <1>12 DEF diaryVars, repoVars
  <1>13. CASE \/ AddMemoriesBtnPressed \/ EditBtnPressed \/ BackBtnPressed
              \/ \E i \in DOMAIN stack[Top].rows : DidSelectRow(i)
              \/ DeleteBtnPressed \/ DeleteCancelled \/ ServerRejects \/ MainQueueStep
    BY <1>1, <1>13 DEF AddMemoriesBtnPressed, EditBtnPressed, BackBtnPressed, DidSelectRow, DeleteBtnPressed,
       DeleteCancelled, ServerRejects, MainQueueStep, HandleChildAdded, HandleCompletion, repoVars
  <1> QED
    BY <1>2, <1>3, <1>4, <1>6, <1>7, <1>8, <1>9, <1>10, <1>11, <1>12, <1>13
       DEF DiaryNext, UserStep, ServerStep, OutsideStep

\* Ids stay used for good, whatever happens to their memories.
LEMMA UsedGrow ==
    ASSUME [DiaryNext]_diaryVars
    PROVE  usedIds \subseteq usedIds'
  <1>1. CASE UNCHANGED diaryVars
    BY <1>1 DEF diaryVars
  <1>2. CASE UserStep
    BY <1>2 DEF UserStep, AddMemoriesBtnPressed, DidSelectRow, DoneBtnPressed, CancelBtnPressed,
       SavedOk, BackBtnPressed, EditBtnPressed, DeleteBtnPressed, DeleteCancelled, DeleteOk
  <1>3. CASE MainQueueStep \/ ServerStep \/ OutsideStep
    BY <1>3 DEF MainQueueStep, HandleChildAdded, HandleCompletion, ServerStep, ServerAccepts,
       ServerRejects, AnswerArrives, FirstData, OutsideStep, OtherDevice, ListenRevoked, Relaunch
  <1> QED
    BY <1>1, <1>2, <1>3 DEF DiaryNext

\* A step that leaves the writes and the server alone (MainQueueStep and the
\* screens that open and close).
QuietData == UNCHANGED <<allWrites, visibleWrites, answers, server>>

\* The steps, told apart by what they do to the writes and the server.
LEMMA DataSteps ==
    ASSUME [DiaryNext]_diaryVars
    PROVE  \/ QuietData /\ UNCHANGED deleted
           \/ \E k \in Key, v \in Value : DoneBtnPressed(k, v)
           \/ DeleteOk
           \/ ServerAccepts
           \/ ServerRejects
           \/ AnswerArrives
           \/ \E k \in Key, n \in Node : OtherDevice(k, n)
           \/ Relaunch
  <1>1. CASE UNCHANGED diaryVars
    BY <1>1 DEF QuietData, diaryVars, repoVars, writeVars, historyVars
  <1>2. ASSUME \/ AddMemoriesBtnPressed \/ EditBtnPressed \/ BackBtnPressed
               \/ \E i \in DOMAIN stack[Top].rows : DidSelectRow(i)
               \/ DeleteBtnPressed \/ DeleteCancelled \/ MainQueueStep
        PROVE  QuietData /\ UNCHANGED deleted
    BY <1>2 DEF AddMemoriesBtnPressed, EditBtnPressed, BackBtnPressed, DidSelectRow, DeleteBtnPressed,
       DeleteCancelled, MainQueueStep, HandleChildAdded, HandleCompletion, repoVars, writeVars,
       historyVars, QuietData
  <1>3. ASSUME CancelBtnPressed \/ SavedOk \/ FirstData \/ ListenRevoked
        PROVE  QuietData /\ UNCHANGED deleted
    BY <1>3 DEF CancelBtnPressed, SavedOk, FirstData, ListenRevoked, AddEventRegistration,
       ApplyServerSnapshot, RemoveEventRegistrations, writeVars, historyVars, QuietData
  <1> QED
    BY <1>1, <1>2, <1>3 DEF DiaryNext, UserStep, ServerStep, OutsideStep

\* The write the server accepts.
LEMMA AcceptedWrite ==
    ASSUME DiaryCore, ServerAccepts
    PROVE  LET i == Len(answers) + 1
           IN  /\ i \in DOMAIN allWrites /\ i \in Nat /\ i \notin DOMAIN answers
               /\ allWrites[i].key \in Key /\ allWrites[i].node \in Node
               /\ server' = [server EXCEPT ![allWrites[i].key] = allWrites[i].node]
               /\ answers' = Append(answers, TRUE)
               /\ UNCHANGED <<allWrites, visibleWrites, usedIds, deleted>>
  <1>1. PICK i : i = Len(answers) + 1
    OBVIOUS
  <1>2. i \in DOMAIN allWrites /\ i \in Nat /\ i \notin DOMAIN answers /\ allWrites \in Seq(Write)
    BY <1>1, LenProperties DEF ServerAccepts, DiaryCore, DiaryTypeOK, RepoTypeOK
  <1>3. allWrites[i].key \in Key /\ allWrites[i].node \in Node
    BY <1>2, QueuedWrite
  <1>4. /\ server' = [server EXCEPT ![allWrites[i].key] = allWrites[i].node]
        /\ answers' = Append(answers, TRUE)
        /\ UNCHANGED <<allWrites, visibleWrites, usedIds, deleted>>
    BY <1>1 DEF ServerAccepts, PushChild, ApplyServerOverwrite, repoVars, writeVars
  <1> QED
    BY <1>1, <1>2, <1>3, <1>4

\* Writes and server data keep to used ids.
LEMMA DataUsedStep ==
    ASSUME DiaryCore, ViewOfServer, DataUsed, ScreensUsed, [DiaryNext]_diaryVars
    PROVE  DataUsed'
  <1>0. usedIds \subseteq usedIds' /\ usedIds \subseteq Key
    BY UsedGrow DEF DiaryCore, DiaryTypeOK
  <1>1. CASE QuietData
    BY <1>0, <1>1 DEF QuietData, DataUsed
  <1>2. ASSUME NEW k \in Key, NEW n \in Node, AddOverwrite(k, n), k \in usedIds', UNCHANGED server
        PROVE  DataUsed'
    <2>1. PICK w : w = [id |-> writeIdCounter, key |-> k, node |-> n]
      OBVIOUS
    <2>2. w \in Write /\ w.key = k /\ allWrites' = Append(allWrites, w) /\ allWrites \in Seq(Write)
      BY <1>2, <2>1 DEF AddOverwrite, Write, DiaryCore, DiaryTypeOK, RepoTypeOK
    <2>3. \A i \in DOMAIN allWrites' : \/ i \in DOMAIN allWrites /\ allWrites'[i] = allWrites[i]
                                       \/ allWrites'[i] = w
      BY <2>2, AppendSeq
    <2> QED
      BY <1>0, <1>2, <2>2, <2>3 DEF DataUsed
  <1>3. ASSUME NEW k \in Key, NEW v \in Value, DoneBtnPressed(k, v) PROVE DataUsed'
    <2>1. AddOverwrite(k, v) /\ v \in Node /\ k \in usedIds' /\ UNCHANGED server
      BY <1>3 DEF DoneBtnPressed, Set, Node
    <2> QED
      BY <1>2, <2>1
  <1>4. CASE DeleteOk
    <2>1. stack[Top].kind = "show" /\ stack[Top].memoryID \in Key /\ stack[Top].memoryID \in usedIds
      BY <1>4, TopScreen DEF DeleteOk, DiaryCore, StackShape, ScreensUsed
    <2>2. AddOverwrite(stack[Top].memoryID, Absent) /\ Absent \in Node /\ UNCHANGED server
      BY <1>4 DEF DeleteOk, RemoveAndObserve, Node
    <2> QED
      BY <1>0, <1>2, <2>1, <2>2
  <1>5. CASE ServerAccepts
    BY <1>0, <1>5, AcceptedWrite DEF DataUsed, DiaryCore, DiaryTypeOK
  <1>6. CASE ServerRejects
    BY <1>0, <1>6 DEF ServerRejects, DataUsed, repoVars, writeVars
  <1>7. CASE AnswerArrives
    <2>1. allWrites' = RemoveIndex(allWrites, 1) /\ allWrites \in Seq(Write) /\ allWrites # <<>>
      BY <1>7, ArrivedWrites DEF DiaryCore, DiaryTypeOK, RepoTypeOK
    <2>2. \A i \in DOMAIN allWrites' : i + 1 \in DOMAIN allWrites /\ allWrites'[i] = allWrites[i + 1]
      <3>1. /\ DOMAIN allWrites' = 1 .. (Len(allWrites) - 1)
            /\ \A j \in 1 .. (Len(allWrites) - 1) : allWrites'[j] = allWrites[j + 1]
        BY <2>1, RemoveOldest
      <3>2. Len(allWrites) \in Nat /\ DOMAIN allWrites = 1 .. Len(allWrites)
        BY <2>1, LenProperties
      <3>3. \A j \in 1 .. (Len(allWrites) - 1) : j + 1 \in DOMAIN allWrites
        BY <3>2
      <3> QED
        BY <3>1, <3>3
    <2>3. UNCHANGED <<server, usedIds>>
      BY <1>7 DEF AnswerArrives
    <2> QED
      BY <2>2, <2>3 DEF DataUsed
  <1>8. ASSUME NEW k \in Key, NEW n \in Node, OtherDevice(k, n) PROVE DataUsed'
    <2>1. /\ UNCHANGED allWrites
          /\ server' = [server EXCEPT ![k] = n] /\ usedIds' = usedIds \cup {k}
      BY <1>8 DEF OtherDevice, PushChild, ApplyServerOverwrite, repoVars, writeVars
    <2> QED
      BY <2>1 DEF DataUsed, DiaryCore, DiaryTypeOK
  <1>9. CASE Relaunch
    BY <1>9 DEF Relaunch, DataUsed
  <1> QED
    BY <1>1, <1>3, <1>4, <1>5, <1>6, <1>7, <1>8, <1>9, DataSteps

\* Screens and waiting blocks keep to used ids.
LEMMA ScreensUsedStep ==
    ASSUME DiaryCore, ScreensUsed, SeenUsed', [DiaryNext]_diaryVars
    PROVE  ScreensUsed'
  <1>0. usedIds \subseteq usedIds'
    BY UsedGrow
  <1>1. CASE Relaunch
    <2>1. mainQueue' = <<>> /\ DOMAIN stack' = {1} /\ stack'[1] = NewList
      BY <1>1, FreshState DEF Relaunch
    <2>2. stack'[1].rows = <<>> /\ stack'[1].kind = "list"
      BY <2>1, NewScreenFields
    <2> QED
      BY <2>1, <2>2 DEF ScreensUsed
  <1>2. CASE ~Relaunch
    <2>1. StackKept
      BY <1>2, StepStack DEF DiaryCore
    <2>2. RepoTypeOK'
      BY ClientStep DEF DiaryCore, RepoInv
    <2>3. ASSUME NEW i \in DOMAIN mainQueue', mainQueue'[i].type = "childAdded"
          PROVE  mainQueue'[i].key \in usedIds'
      <3>1. CASE NewBlock(mainQueue'[i])
        BY <2>3, <3>1 DEF NewBlock, SeenUsed
      <3>2. CASE \E j \in DOMAIN mainQueue : mainQueue'[i] = mainQueue[j]
        BY <1>0, <2>3, <3>2 DEF ScreensUsed
      <3> QED
        BY <1>2, <2>2, <3>1, <3>2, QueueOrigin DEF DiaryCore
    <2>4. ASSUME NEW p \in DOMAIN stack', p \in DOMAIN stack
          PROVE  /\ \A i \in DOMAIN stack'[p].rows : stack'[p].rows[i].key \in usedIds'
                 /\ stack'[p].kind = "show" => stack'[p].memoryID \in usedIds'
      <3>1. ScreenKept(p) /\ stack[p] \in Screen
        BY <2>1, <2>4, TopScreen DEF StackKept, DiaryCore
      <3>2. stack'[p].kind = "show" => stack'[p].memoryID \in usedIds'
        BY <1>0, <2>4, <3>1 DEF ScreenKept, ScreensUsed
      <3>3. CASE stack'[p].rows = stack[p].rows
        BY <1>0, <2>4, <3>2, <3>3 DEF ScreensUsed
      <3>4. CASE stack'[p].rows # stack[p].rows
        <4>1. PICK r : r = [key |-> Head(mainQueue).key, node |-> Head(mainQueue).node]
          OBVIOUS
        <4>2. /\ mainQueue # <<>> /\ Head(mainQueue).type = "childAdded"
              /\ stack'[p].rows = Append(stack[p].rows, r)
          BY <3>1, <3>4, <4>1 DEF ScreenKept
        <4>3. 1 \in DOMAIN mainQueue /\ Head(mainQueue) = mainQueue[1] /\ Head(mainQueue) \in Block
          BY <4>2, HeadBlock DEF DiaryCore
        <4>4. r \in Row /\ r.key \in usedIds'
          BY <1>0, <4>1, <4>2, <4>3, BlockFields DEF Row, ScreensUsed
        <4>5. stack[p].rows \in Seq(Row)
          BY <3>1, ScreenFields
        <4>6. \A i \in DOMAIN stack'[p].rows :
                 \/ i \in DOMAIN stack[p].rows /\ stack'[p].rows[i] = stack[p].rows[i]
                 \/ stack'[p].rows[i] = r
          BY <4>2, <4>4, <4>5, AppendSeq
        <4> QED
          BY <1>0, <2>4, <3>2, <4>4, <4>6 DEF ScreensUsed
      <3> QED
        BY <3>3, <3>4
    <2>5. ASSUME NEW p \in DOMAIN stack', p \notin DOMAIN stack
          PROVE  /\ \A i \in DOMAIN stack'[p].rows : stack'[p].rows[i].key \in usedIds'
                 /\ stack'[p].kind = "show" => stack'[p].memoryID \in usedIds'
      <3>1. Presented(stack'[p]) /\ Top \in DOMAIN stack
        BY <2>1, <2>5, StackIndices, TopScreen DEF DiaryCore
      <3>2. stack'[p].rows = <<>>
        BY <3>1 DEF Presented
      <3>3. stack'[p].kind = "show" =>
               \E i \in DOMAIN stack[Top].rows : stack'[p].memoryID = stack[Top].rows[i].key
        BY <3>1 DEF Presented
      <3>4. \A i \in DOMAIN stack[Top].rows : stack[Top].rows[i].key \in usedIds'
        BY <1>0, <3>1 DEF ScreensUsed
      <3> QED
        BY <3>2, <3>3, <3>4
    <2> QED
      BY <2>3, <2>4, <2>5 DEF ScreensUsed
  <1> QED
    BY <1>1, <1>2

\* The last write to each child after one more is made.
LEMMA WritesAfterAdd ==
    ASSUME DiaryCore, NEW c \in Key, NEW n \in Node, AddOverwrite(c, n), NEW k \in Key
    PROVE  /\ WritesTo(allWrites', k) =
                 WritesTo(allWrites, k) \cup (IF c = k THEN {Len(allWrites) + 1} ELSE {})
           /\ \A i \in WritesTo(allWrites, k) : i < Len(allWrites) + 1
           /\ Len(allWrites) + 1 \notin DOMAIN answers
           /\ visibleWrites'[k] = IF c = k THEN n ELSE visibleWrites[k]
  <1>1. PICK w, l : w = [id |-> writeIdCounter, key |-> c, node |-> n] /\ l = Len(allWrites)
    OBVIOUS
  <1>2. /\ w \in Write /\ w.key = c
        /\ allWrites' = Append(allWrites, w) /\ allWrites \in Seq(Write)
        /\ visibleWrites \in [Key -> Node \cup {NoWrite}]
        /\ answers \in Seq(BOOLEAN) /\ Len(answers) <= Len(allWrites)
    BY <1>1 DEF AddOverwrite, Write, DiaryCore, DiaryTypeOK, RepoTypeOK
  <1>3. /\ l \in Nat /\ DOMAIN allWrites = 1 .. l /\ DOMAIN allWrites' = 1 .. (l + 1)
        /\ \A i \in DOMAIN allWrites : allWrites'[i] = allWrites[i]
        /\ allWrites'[l + 1] = w
    BY <1>1, <1>2, AppendSeq
  <1>4. \A i : i \in WritesTo(allWrites', k) <=> i \in WritesTo(allWrites, k) \/ (c = k /\ i = l + 1)
    <2>1. \A i : i \in DOMAIN allWrites' <=> i \in DOMAIN allWrites \/ i = l + 1
      BY <1>3
    <2> QED
      BY <1>2, <1>3, <2>1 DEF WritesTo
  <1>5. WritesTo(allWrites', k) = WritesTo(allWrites, k) \cup (IF c = k THEN {l + 1} ELSE {})
    BY <1>4
  <1>6. \A i \in WritesTo(allWrites, k) : i < l + 1
    BY <1>3 DEF WritesTo
  <1>7. l + 1 \notin DOMAIN answers
    <2>1. DOMAIN answers = 1 .. Len(answers) /\ Len(answers) \in Nat /\ Len(answers) <= l
      BY <1>1, <1>2, LenProperties
    <2> QED
      BY <1>3, <2>1
  <1>8. visibleWrites'[k] = IF c = k THEN n ELSE visibleWrites[k]
    BY <1>2 DEF AddOverwrite
  <1> QED
    BY <1>1, <1>5, <1>6, <1>7, <1>8

\* A write to another memory leaves the last word on this one.
LEMMA WriteToOther ==
    ASSUME DiaryCore, NEW k \in Key, NEW c \in Key, c # k, NEW n \in Node, AddOverwrite(c, n),
           UNCHANGED <<server, answers>>, usedIds \subseteq usedIds', LastWordIsDelete(k)
    PROVE  LastWordIsDelete(k)'
  <1>1. WritesTo(allWrites', k) = WritesTo(allWrites, k) /\ visibleWrites'[k] = visibleWrites[k]
    BY WritesAfterAdd
  <1> QED
    BY <1>1 DEF LastWordIsDelete

\* A delete is the last word on its memory (showMemoryViewController).
LEMMA DeleteWritten ==
    ASSUME DiaryCore, NEW k \in Key, AddOverwrite(k, Absent), UNCHANGED answers, k \in usedIds'
    PROVE  LastWordIsDelete(k)'
  <1>1. PICK l : l = Len(allWrites) + 1
    OBVIOUS
  <1>2. /\ WritesTo(allWrites', k) = WritesTo(allWrites, k) \cup {l}
        /\ \A i \in WritesTo(allWrites, k) : i < l
        /\ l \notin DOMAIN answers /\ visibleWrites'[k] = Absent
    BY <1>1, WritesAfterAdd DEF Node
  <1>3. l \in Nat /\ \A i \in WritesTo(allWrites, k) : i \in Nat
    BY <1>1, LenProperties DEF WritesTo, DiaryCore, DiaryTypeOK, RepoTypeOK
  <1>4. ASSUME NEW i \in WritesTo(allWrites', k), \A j \in WritesTo(allWrites', k) : j <= i
        PROVE  i = l
    BY <1>2, <1>3, <1>4
  <1> QED
    BY <1>2, <1>4 DEF LastWordIsDelete

\* The answer that arrives refuses the delete of k.
DeleteRefused(k) == ~Head(answers) /\ allWrites[1].key = k /\ allWrites[1].node = Absent

\* The answer to the oldest write leaves the last word, unless it refuses the delete.
LEMMA AnswerKeepsLastWord ==
    ASSUME DiaryCore, NEW k \in Key, LastWordIsDelete(k), AnswerArrives, ~DeleteRefused(k)
    PROVE  LastWordIsDelete(k)'
  <1>0. /\ allWrites \in Seq(Write) /\ allWrites # <<>> /\ answers \in Seq(BOOLEAN) /\ answers # <<>>
        /\ RepoTypeOK /\ VisibleWritesExact
        /\ MayAnswer(1) /\ Head(answers) \in BOOLEAN /\ AckWrite(1, Head(answers))
        /\ answers' = Tail(answers)
    BY ArrivedWrites DEF DiaryCore, DiaryTypeOK, RepoTypeOK, RepoInv
  <1>1. UNCHANGED <<server, usedIds>>
    BY DEF AnswerArrives
  <1>2. /\ 1 \in DOMAIN answers /\ answers[1] = Head(answers)
        /\ \A j \in DOMAIN answers' : j + 1 \in DOMAIN answers /\ answers'[j] = answers[j + 1]
    BY <1>0, TailSeq
  <1>3. \A j \in Nat : j \in WritesTo(allWrites', k) <=> j >= 1 /\ j + 1 \in WritesTo(allWrites, k)
    <2>1. PICK b \in BOOLEAN : b = Head(answers)
      BY <1>0
    <2> QED
      BY <1>0, <2>1, AckWrites
  <1>4. /\ \A j \in WritesTo(allWrites, k) : j \in Nat /\ j >= 1
        /\ \A j \in WritesTo(allWrites', k) : j \in Nat /\ j >= 1
    <2>1. allWrites' \in Seq(Write)
      BY ClientStep DEF DiaryCore, RepoInv, RepoTypeOK, DiaryNext, ServerStep
    <2>2. /\ DOMAIN allWrites = 1 .. Len(allWrites) /\ Len(allWrites) \in Nat
          /\ DOMAIN allWrites' = 1 .. Len(allWrites') /\ Len(allWrites') \in Nat
      BY <1>0, <2>1, LenProperties
    <2>3. \A j \in DOMAIN allWrites : j \in Nat /\ j >= 1
      BY <2>2
    <2>4. \A j \in DOMAIN allWrites' : j \in Nat /\ j >= 1
      BY <2>2
    <2> QED
      BY <2>3, <2>4 DEF WritesTo
  <1>5. visibleWrites'[k] \in {Absent, NoWrite}
    <2>1. visibleWrites' = VisibleAfterRemove(1) /\ ~OverlapsEarlier(1)
      BY <1>0, OldestHasNoEarlier DEF AckWrite, RemoveWriteId
    <2>2. visibleWrites'[k] \in {visibleWrites[k], NoWrite}
      BY <1>0, <2>1 DEF VisibleAfterRemove, RepoTypeOK
    <2> QED
      BY <2>2 DEF LastWordIsDelete
  <1>6. ASSUME WritesTo(allWrites', k) = {}
        PROVE  server[k] = Absent
    <2>1. CASE WritesTo(allWrites, k) = {}
      BY <2>1 DEF LastWordIsDelete
    <2>2. CASE WritesTo(allWrites, k) # {}
      <3>1. \A j \in WritesTo(allWrites, k) : j = 1
        <4> SUFFICES ASSUME NEW j \in WritesTo(allWrites, k), j # 1 PROVE FALSE
          OBVIOUS
        <4>1. j \in Nat /\ j >= 1
          BY <1>4
        <4>2. j - 1 \in Nat /\ j - 1 >= 1 /\ (j - 1) + 1 = j
          BY <4>1
        <4>3. j - 1 \in WritesTo(allWrites', k)
          BY <1>3, <4>2
        <4> QED
          BY <1>6, <4>3
      <3>2. 1 \in WritesTo(allWrites, k)
        BY <2>2, <3>1
      <3>3. answers[1] = TRUE
        <4>1. allWrites[1].key = k
          BY <3>2 DEF WritesTo
        <4>2. allWrites[1].node \in Node
          BY <1>0, <3>2, QueuedWrite DEF WritesTo
        <4>3. visibleWrites[k] = allWrites[1].node
          BY <1>0, <3>1, <3>2 DEF VisibleWritesExact
        <4>4. allWrites[1].node = Absent
          BY <4>2, <4>3, NodeAssumption DEF LastWordIsDelete, Node
        <4> QED
          BY <1>0, <1>2, <4>1, <4>4 DEF DeleteRefused
      <3>4. \A j \in WritesTo(allWrites, k) : j <= 1
        BY <3>1
      <3> QED
        BY <1>2, <3>2, <3>3, <3>4 DEF LastWordIsDelete
    <2> QED
      BY <2>1, <2>2
  <1>7. ASSUME NEW i \in WritesTo(allWrites', k), \A j \in WritesTo(allWrites', k) : j <= i,
               i \in DOMAIN answers', answers'[i] = TRUE
        PROVE  server[k] = Absent
    <2>1. i + 1 \in WritesTo(allWrites, k) /\ i + 1 \in DOMAIN answers /\ answers[i + 1] = TRUE /\ i \in Nat
      BY <1>2, <1>3, <1>4, <1>7
    <2>2. ASSUME NEW j \in WritesTo(allWrites, k) PROVE j <= i + 1
      <3>0. j \in Nat /\ j >= 1 /\ i \in Nat
        BY <1>4, <2>1
      <3>1. CASE j = 1
        BY <3>0, <3>1
      <3>2. CASE j # 1
        <4>1. j - 1 \in Nat /\ j - 1 >= 1 /\ (j - 1) + 1 = j
          BY <3>0, <3>2
        <4>2. j - 1 \in WritesTo(allWrites', k)
          BY <1>3, <4>1
        <4>3. j - 1 <= i
          BY <1>7, <4>2
        <4> QED
          BY <3>0, <4>3
      <3> QED
        BY <3>1, <3>2
    <2> QED
      BY <2>1, <2>2 DEF LastWordIsDelete
  <1> QED
    BY <1>1, <1>5, <1>6, <1>7 DEF LastWordIsDelete

\* The visible screen is live, and knows no deleted memory.
LEMMA TopIsLive ==
    ASSUME DiaryCore, DeletedOutOfReach, NEW k \in deleted
    PROVE  /\ Top \in DOMAIN stack /\ Live(Top)
           /\ RowsOf(stack[Top].rows, k) = {}
           /\ ~Names(stack[Top], k)
  <1>1. DOMAIN stack = 1 .. Top /\ Top \in Nat /\ Top \in DOMAIN stack
    BY TopScreen DEF DiaryCore
  <1>2. Live(Top)
    BY <1>1 DEF Live
  <1> QED
    BY <1>1, <1>2 DEF DeletedOutOfReach

\* The delete stays the last word on every deleted memory, through every step.
LEMMA DeletesPendingStep ==
    ASSUME DeletedInv, [DiaryNext]_diaryVars
    PROVE  DeletesPending'
  <1>0. /\ DiaryCore /\ ViewOfServer /\ DataUsed /\ ScreensUsed /\ DeletesPending /\ DeletedOutOfReach
        /\ usedIds \subseteq usedIds' /\ deleted \subseteq Key /\ server \in [Key -> Node]
    BY UsedGrow DEF DeletedInv, DiaryCore, DiaryTypeOK
  <1> SUFFICES ASSUME NEW k \in deleted' PROVE LastWordIsDelete(k)'
    BY DEF DeletesPending
  <1>1. CASE QuietData /\ UNCHANGED deleted
    BY <1>0, <1>1 DEF QuietData, DeletesPending, LastWordIsDelete
  <1>2. ASSUME NEW l \in Key, NEW v \in Value, DoneBtnPressed(l, v)
        PROVE  LastWordIsDelete(k)'
    <2>1. /\ stack[Top].kind = "add" /\ k \in deleted /\ v \in Node
          /\ IF stack[Top].initator = "vc1" THEN l \in Random ELSE l = stack[Top].memoryID
          /\ AddOverwrite(l, v) /\ UNCHANGED <<server, answers>>
      BY <1>2 DEF DoneBtnPressed, Tappable, Set, Node, historyVars
    <2>2. LastWordIsDelete(k)
      BY <1>0, <2>1 DEF DeletesPending
    <2>3. l # k
      BY <1>0, <2>1, <2>2, TopIsLive DEF Random, LastWordIsDelete, Names
    <2> QED
      BY <1>0, <2>1, <2>2, <2>3, WriteToOther
  <1>3. CASE DeleteOk
    <2>1. PICK l : l = stack[Top].memoryID
      OBVIOUS
    <2>2. l \in Key /\ l \in usedIds'
      BY <1>0, <1>3, <2>1, TopScreen DEF DeleteOk, DiaryCore, StackShape, ScreensUsed
    <2>3. /\ AddOverwrite(l, Absent) /\ UNCHANGED <<server, answers>> /\ Absent \in Node
          /\ deleted' = deleted \cup {l}
      BY <1>3, <2>1 DEF DeleteOk, RemoveAndObserve, Node
    <2>4. CASE l = k
      BY <1>0, <2>2, <2>3, <2>4, DeleteWritten
    <2>5. CASE l # k
      <3>1. k \in deleted /\ LastWordIsDelete(k)
        BY <1>0, <2>3, <2>5 DEF DeletesPending
      <3> QED
        BY <1>0, <2>2, <2>3, <2>5, <3>1, WriteToOther
    <2> QED
      BY <2>4, <2>5
  <1>4. CASE ServerAccepts
    <2>1. PICK i : i = Len(answers) + 1
      OBVIOUS
    <2>2. /\ i \in DOMAIN allWrites /\ i \in Nat /\ i \notin DOMAIN answers
          /\ allWrites[i].key \in Key /\ allWrites[i].node \in Node
          /\ server' = [server EXCEPT ![allWrites[i].key] = allWrites[i].node]
          /\ answers' = Append(answers, TRUE)
          /\ UNCHANGED <<allWrites, visibleWrites, usedIds, deleted>>
      BY <1>0, <1>4, <2>1, AcceptedWrite
    <2>3. k \in Key /\ LastWordIsDelete(k)
      BY <1>0, <2>2 DEF DeletesPending
    <2>4. /\ \A j \in DOMAIN answers : answers'[j] = answers[j]
          /\ \A j \in DOMAIN answers' : j \in DOMAIN answers \/ j = i
      <3>1. PICK b \in BOOLEAN : b = TRUE
        OBVIOUS
      <3>2. answers \in Seq(BOOLEAN) /\ answers' = Append(answers, b)
        BY <1>0, <2>2, <3>1 DEF DiaryCore, DiaryTypeOK
      <3>3. /\ \A j \in DOMAIN answers : answers'[j] = answers[j]
            /\ DOMAIN answers' = 1 .. (Len(answers) + 1) /\ DOMAIN answers = 1 .. Len(answers)
            /\ Len(answers) \in Nat /\ answers'[Len(answers) + 1] = b
        BY <3>2, AppendSeq
      <3>4. \A j \in DOMAIN answers' : j \in DOMAIN answers \/ j = Len(answers) + 1
        BY <3>3
      <3> QED
        BY <2>1, <3>1, <3>3, <3>4
    <2>5. CASE allWrites[i].key # k
      <3>1. server'[k] = server[k]
        BY <1>0, <2>2, <2>3, <2>5
      <3>2. i \notin WritesTo(allWrites, k)
        BY <2>5 DEF WritesTo
      <3> QED
        BY <2>2, <2>3, <2>4, <3>1, <3>2 DEF LastWordIsDelete
    <2>6. CASE allWrites[i].key = k
      <3>1. i \in WritesTo(allWrites, k) /\ server'[k] = allWrites[i].node
        BY <1>0, <2>2, <2>3, <2>6 DEF WritesTo
      <3>2. PICK m \in WritesTo(allWrites, k) :
               visibleWrites[k] = allWrites[m].node /\ \A j \in WritesTo(allWrites, k) : j <= m
        BY <1>0, <2>3, <3>1 DEF DiaryCore, RepoInv, VisibleWritesExact
      <3>3. CASE m = i
        <4>1. allWrites[i].node = Absent
          BY <2>2, <2>3, <3>2, <3>3, NodeAssumption DEF LastWordIsDelete, Node
        <4> QED
          BY <2>2, <2>3, <3>1, <4>1 DEF LastWordIsDelete
      <3>4. CASE m # i
        <4>1. m \notin DOMAIN answers'
          <5>1. DOMAIN answers = 1 .. Len(answers) /\ Len(answers) \in Nat
            BY <1>0, LenProperties DEF DiaryCore, DiaryTypeOK
          <5>2. i <= m /\ m \in Nat
            <6>1. m \in DOMAIN allWrites /\ DOMAIN allWrites = 1 .. Len(allWrites)
              BY <1>0, <3>2, LenProperties DEF WritesTo, DiaryCore, DiaryTypeOK, RepoTypeOK
            <6> QED
              BY <3>1, <3>2, <6>1
          <5>3. m \notin DOMAIN answers
            BY <2>1, <3>4, <5>1, <5>2
          <5> QED
            BY <2>4, <3>4, <5>3
        <4>2. ASSUME NEW j \in WritesTo(allWrites, k), \A h \in WritesTo(allWrites, k) : h <= j
              PROVE  j = m
          <5>1. j \in Nat /\ m \in Nat
            BY <1>0, LenProperties DEF WritesTo, DiaryCore, DiaryTypeOK, RepoTypeOK
          <5> QED
            BY <3>2, <4>2, <5>1
        <4>3. WritesTo(allWrites', k) = WritesTo(allWrites, k) /\ WritesTo(allWrites, k) # {}
          BY <2>2, <3>1
        <4> QED
          BY <2>2, <2>3, <4>1, <4>2, <4>3 DEF LastWordIsDelete
      <3> QED
        BY <3>3, <3>4
    <2> QED
      BY <2>5, <2>6
  <1>5. CASE ServerRejects
    <2>1. /\ answers' = Append(answers, FALSE)
          /\ UNCHANGED <<allWrites, visibleWrites, server, usedIds, deleted>>
      BY <1>5 DEF ServerRejects, repoVars, writeVars, historyVars
    <2>2. LastWordIsDelete(k)
      BY <1>0, <2>1 DEF DeletesPending
    <2>3. /\ \A j \in DOMAIN answers : answers'[j] = answers[j]
          /\ \A j \in DOMAIN answers' : j \in DOMAIN answers \/ answers'[j] = FALSE
      <3>1. PICK b \in BOOLEAN : b = FALSE
        OBVIOUS
      <3>2. answers \in Seq(BOOLEAN) /\ answers' = Append(answers, b)
        BY <1>0, <2>1, <3>1 DEF DiaryCore, DiaryTypeOK
      <3>3. /\ \A j \in DOMAIN answers : answers'[j] = answers[j]
            /\ DOMAIN answers' = 1 .. (Len(answers) + 1) /\ DOMAIN answers = 1 .. Len(answers)
            /\ Len(answers) \in Nat /\ answers'[Len(answers) + 1] = b
        BY <3>2, AppendSeq
      <3>4. \A j \in DOMAIN answers' : j \in DOMAIN answers \/ j = Len(answers) + 1
        BY <3>3
      <3> QED
        BY <3>1, <3>3, <3>4
    <2> QED
      BY <2>1, <2>2, <2>3 DEF LastWordIsDelete
  <1>6. CASE AnswerArrives
    <2>1. deleted' = IF ~Head(answers) /\ allWrites[1].node = Absent
                       THEN deleted \ {allWrites[1].key} ELSE deleted
      <3>1. Head(allWrites) = allWrites[1]
        BY <1>0, <1>6, ArrivedWrites, TailSeq DEF DiaryCore, DiaryTypeOK, RepoTypeOK
      <3> QED
        BY <1>6, <3>1 DEF AnswerArrives
    <2>2. k \in deleted /\ ~DeleteRefused(k)
      BY <2>1 DEF DeleteRefused
    <2>3. k \in Key /\ LastWordIsDelete(k)
      BY <1>0, <2>2 DEF DeletesPending
    <2> QED
      BY <1>0, <1>6, <2>2, <2>3, AnswerKeepsLastWord
  <1>7. ASSUME NEW c \in Key, NEW n \in Node, OtherDevice(c, n)
        PROVE  LastWordIsDelete(k)'
    <2>1. /\ UNCHANGED <<allWrites, visibleWrites, answers>>
          /\ server' = [server EXCEPT ![c] = n]
          /\ deleted' = IF n # Absent THEN deleted \ {c} ELSE deleted
      BY <1>7 DEF OtherDevice, PushChild, ApplyServerOverwrite, repoVars, writeVars
    <2>2. k \in deleted /\ k \in Key /\ LastWordIsDelete(k) /\ (c = k => n = Absent)
      BY <1>0, <2>1 DEF DeletesPending
    <2>3. server'[k] = server[k] \/ server'[k] = Absent
      BY <1>0, <2>1, <2>2
    <2> QED
      BY <1>0, <2>1, <2>2, <2>3 DEF LastWordIsDelete
  <1>8. CASE Relaunch
    BY <1>8 DEF Relaunch
  <1> QED
    BY <1>1, <1>2, <1>3, <1>4, <1>5, <1>6, <1>7, <1>8, DataSteps

\* Only DeleteOk deletes, and it presents a list over the memory's screen.
LEMMA DeletedGrow ==
    ASSUME DiaryCore, [DiaryNext]_diaryVars, NEW k \in deleted', k \notin deleted
    PROVE  Len(stack') = Top + 1 /\ Top + 1 \in DOMAIN stack' /\ stack'[Top + 1].kind = "list"
  <1>1. DeleteOk
    <2>1. QuietData /\ UNCHANGED deleted => FALSE
      OBVIOUS
    <2>2. ASSUME NEW l \in Key, NEW v \in Value, DoneBtnPressed(l, v) PROVE FALSE
      BY <2>2 DEF DoneBtnPressed, historyVars
    <2>3. ASSUME NEW c \in Key, NEW n \in Node, OtherDevice(c, n) PROVE FALSE
      BY <2>3 DEF OtherDevice
    <2>4. ServerAccepts \/ ServerRejects \/ AnswerArrives \/ Relaunch => FALSE
      BY DEF ServerAccepts, ServerRejects, AnswerArrives, Relaunch, historyVars
    <2> QED
      BY <2>1, <2>2, <2>3, <2>4, DataSteps
  <1>2. PICK s : s = [stack EXCEPT ![Top].alert = "none"]
    OBVIOUS
  <1>3. stack' = Append(s, NewList)
    BY <1>1, <1>2 DEF DeleteOk, RetriveMemories
  <1>4. stack \in Seq(Screen) /\ Top \in DOMAIN stack /\ Len(stack) = Top
    BY TopScreen DEF DiaryCore, Top
  <1>5. s \in Seq(Screen) /\ Len(s) = Top
    <2>1. Alike(stack, s)
      BY <1>2, <1>4, AlertSet
    <2> QED
      BY <1>4, <2>1 DEF Alike
  <1>6. NewList \in Screen /\ NewList.kind = "list"
    BY NewScreens, NewScreenFields
  <1>7. Len(stack') = Top + 1 /\ DOMAIN stack' = 1 .. (Top + 1) /\ Top \in Nat /\ stack'[Top + 1] = NewList
    BY <1>3, <1>5, <1>6, AppendSeq
  <1> QED
    BY <1>6, <1>7

\* No screen in use learns of a deleted memory again.
LEMMA OutOfReachStep ==
    ASSUME DeletedInv, DeletedStaysDeleted', [DiaryNext]_diaryVars
    PROVE  DeletedOutOfReach'
  <1>0. DiaryCore /\ DeletedOutOfReach /\ deleted \subseteq Key
    BY DEF DeletedInv, DiaryCore, DiaryTypeOK
  <1>1. CASE Relaunch
    BY <1>1 DEF Relaunch, DeletedOutOfReach
  <1>2. CASE ~Relaunch
    <2> SUFFICES ASSUME NEW k \in deleted', NEW p \in DOMAIN stack', Live(p)'
                 PROVE  /\ RowsOf(stack'[p].rows, k) = {} /\ Queued(mainQueue', p, k) = {}
                        /\ ~Names(stack'[p], k)
      BY DEF DeletedOutOfReach
    <2>1. StackKept /\ RepoTypeOK'
      BY <1>0, <1>2, StepStack, ClientStep DEF DiaryCore, RepoInv
    <2>2. eventCache'[k] = Absent
      BY DEF DeletedStaysDeleted
    <2>3. /\ DOMAIN stack = 1 .. Top /\ Top \in Nat /\ Top \in DOMAIN stack
          /\ \A q \in DOMAIN stack : stack[q] \in Screen
      BY <1>0, TopScreen DEF DiaryCore
    <2>4. \A q \in DOMAIN stack' : q > p => stack'[q].kind # "list"
      BY DEF Live
    <2>5. DOMAIN stack' = 1 .. Len(stack') /\ Len(stack') \in Nat
      BY <2>1, LenProperties DEF StackKept
    <2>6. Queued(mainQueue, p, k) = {} => Queued(mainQueue', p, k) = {}
      <3> SUFFICES ASSUME Queued(mainQueue, p, k) = {}, NEW i \in Queued(mainQueue', p, k)
                   PROVE  FALSE
        OBVIOUS
      <3>1. i \in DOMAIN mainQueue' /\ mainQueue'[i].type = "childAdded" /\ mainQueue'[i].screen = p
            /\ mainQueue'[i].key = k
        BY DEF Queued
      <3>2. ~NewBlock(mainQueue'[i])
        BY <2>2, <3>1 DEF NewBlock
      <3>3. PICK j \in DOMAIN mainQueue : mainQueue'[i] = mainQueue[j]
        BY <1>0, <1>2, <2>1, <3>1, <3>2, QueueOrigin DEF DiaryCore
      <3> QED
        BY <3>1, <3>3 DEF Queued
    <2>7. CASE p \in DOMAIN stack
      <3>1. Live(p)
        <4> SUFFICES ASSUME NEW q \in DOMAIN stack, q > p PROVE stack[q].kind # "list"
          BY DEF Live
        <4>1. CASE q \in DOMAIN stack'
          BY <2>1, <2>4, <4>1 DEF StackKept, ScreenKept
        <4>2. CASE q \notin DOMAIN stack'
          BY <1>0, <2>1, <4>2, StackIndices DEF DiaryCore
        <4> QED
          BY <4>1, <4>2
      <3>2. k \in deleted
        <4> SUFFICES ASSUME k \notin deleted PROVE FALSE
          OBVIOUS
        <4>1. Top + 1 \in DOMAIN stack' /\ stack'[Top + 1].kind = "list"
          BY <1>0, DeletedGrow
        <4>2. Top + 1 > p
          BY <2>3, <2>7
        <4> QED
          BY <2>4, <4>1, <4>2
      <3>3. /\ RowsOf(stack[p].rows, k) = {} /\ Queued(mainQueue, p, k) = {}
            /\ ~Names(stack[p], k)
        BY <1>0, <2>7, <3>1, <3>2 DEF DeletedOutOfReach
      <3>4. ScreenKept(p)
        BY <2>1, <2>7 DEF StackKept
      <3>5. ~Names(stack'[p], k)
        BY <3>3, <3>4 DEF ScreenKept, Names
      <3>6. RowsOf(stack'[p].rows, k) = {}
        <4>1. CASE stack'[p].rows = stack[p].rows
          BY <3>3, <4>1
        <4>2. CASE stack'[p].rows # stack[p].rows
          <5>1. PICK r : r = [key |-> Head(mainQueue).key, node |-> Head(mainQueue).node]
            OBVIOUS
          <5>2. /\ mainQueue # <<>> /\ Head(mainQueue).type = "childAdded" /\ Head(mainQueue).screen = p
                /\ stack'[p].rows = Append(stack[p].rows, r)
            BY <3>4, <4>2, <5>1 DEF ScreenKept
          <5>3. mainQueue \in Seq(Block) /\ Head(mainQueue) \in Block
            BY <1>0, <5>2, HeadBlock DEF DiaryCore
          <5>4. r \in Row /\ r.key # k
            <6>1. r \in Row
              BY <5>1, <5>2, <5>3, BlockFields DEF Row
            <6>2. Head(mainQueue).key # k
              <7>1. PICK q : q = mainQueue
                OBVIOUS
              <7>2. q \in Seq(Block) /\ q # <<>> /\ 1 \notin Queued(q, p, k)
                BY <3>3, <5>2, <5>3, <7>1
              <7>3. Head(q).type = "childAdded" /\ Head(q).screen = p
                BY <5>2, <7>1
              <7>4. Head(q).key # k
                BY <7>2, <7>3, QueuedTail
              <7> QED
                BY <7>1, <7>4
            <6> QED
              BY <5>1, <6>1, <6>2
          <5>5. stack[p].rows \in Seq(Row)
            BY <2>3, <2>7, ScreenFields
          <5> QED
            BY <3>3, <5>2, <5>4, <5>5, RowsAppend
        <4> QED
          BY <4>1, <4>2
      <3> QED
        BY <2>6, <3>3, <3>5, <3>6
    <2>8. CASE p \notin DOMAIN stack
      <3>1. p = Top + 1 /\ Presented(stack'[p])
        BY <1>0, <2>1, <2>8, StackIndices DEF DiaryCore
      <3>2. RowsOf(stack'[p].rows, k) = {}
        <4>1. PICK rs : rs = stack'[p].rows
          OBVIOUS
        <4>2. rs = <<>>
          BY <3>1, <4>1 DEF Presented
        <4>3. RowsOf(rs, k) = {}
          BY <4>2 DEF RowsOf
        <4> QED
          BY <4>1, <4>3
      <3>3. Queued(mainQueue, p, k) = {}
        BY <1>0, <2>8 DEF Queued, DiaryCore, EventsForLists
      <3>4. ~Names(stack'[p], k)
        <4> SUFFICES ASSUME Names(stack'[p], k) PROVE FALSE
          OBVIOUS
        <4>0. /\ stack'[p].memoryID = k
              /\ stack'[p].kind = "show" \/ (stack'[p].kind = "add" /\ stack'[p].initator # "vc1")
          BY DEF Names
        <4>1. k \in deleted
          BY <1>0, <3>1, <4>0, DeletedGrow
        <4>2. /\ RowsOf(stack[Top].rows, k) = {}
              /\ ~Names(stack[Top], k)
          BY <1>0, <4>1, TopIsLive
        <4>3. CASE stack[Top].kind = "show" /\ stack'[p].memoryID = stack[Top].memoryID
          BY <4>0, <4>2, <4>3 DEF Names
        <4>4. CASE \E i \in DOMAIN stack[Top].rows : stack'[p].memoryID = stack[Top].rows[i].key
          BY <4>0, <4>2, <4>4 DEF RowsOf
        <4> QED
          BY <3>1, <4>0, <4>3, <4>4 DEF Presented
      <3> QED
        BY <2>6, <3>2, <3>3, <3>4
    <2> QED
      BY <2>7, <2>8
  <1> QED
    BY <1>1, <1>2

\* A deleted memory stays out of the view until its delete is refused or another
\* device writes it again.
THEOREM DeletedIsGone == DiarySpec => []DeletedStaysDeleted
  <1>1. DiaryInit => DeletedInv
    <2> SUFFICES ASSUME DiaryInit PROVE DeletedInv
      OBVIOUS
    <2>1. deleted = {} /\ mainQueue = <<>> /\ allWrites = <<>>
          /\ usedIds = {k \in Key : server[k] # Absent}
          /\ listening /\ ~serverComplete /\ serverCache = Empty
      BY DEF DiaryInit
    <2>2. DOMAIN stack = {1} /\ stack[1].rows = <<>> /\ stack[1].kind = "list"
      <3>1. stack[1] = NewList /\ DOMAIN stack = {1}
        BY NewScreens DEF DiaryInit
      <3> QED
        BY <3>1, NewScreenFields
    <2>3. ViewOfServer
      BY <2>1 DEF ViewOfServer
    <2>4. DataUsed /\ ScreensUsed
      BY <2>1, <2>2 DEF DataUsed, ScreensUsed
    <2>5. DeletesPending /\ DeletedOutOfReach
      BY <2>1 DEF DeletesPending, DeletedOutOfReach
    <2> QED
      BY <2>3, <2>4, <2>5, CoreInit DEF DeletedInv
  <1>2. DeletedInv /\ [DiaryNext]_diaryVars => DeletedInv'
    <2> SUFFICES ASSUME DeletedInv, [DiaryNext]_diaryVars PROVE DeletedInv'
      OBVIOUS
    <2>1. DiaryCore' /\ ViewOfServer' /\ DataUsed'
      BY CoreStep, ViewStep, DataUsedStep DEF DeletedInv
    <2>2. DeletesPending'
      BY DeletesPendingStep
    <2>3. DeletedStaysDeleted' /\ SeenUsed'
      BY <2>1, <2>2, Later
    <2>4. ScreensUsed' /\ DeletedOutOfReach'
      BY <2>3, ScreensUsedStep, OutOfReachStep DEF DeletedInv
    <2> QED
      BY <2>1, <2>2, <2>4 DEF DeletedInv
  <1>3. DeletedInv => DeletedStaysDeleted
    BY DeletedAbsent DEF DeletedInv
  <1> QED
    BY <1>1, <1>2, <1>3, PTL DEF DiarySpec
=============================================================================
