-------------------------- MODULE ConnectionProofs --------------------------
(***************************************************************************)
(* Proofs about module Connection, for any number of writes, listens,      *)
(* broken sockets, other devices' writes and ended listens.                *)
(*                                                                         *)
(* ConnectionInv is inductive.  That an answer may be passed on at once    *)
(* when no listen is unanswered needs to know where every listen and every *)
(* put is: in one of the two directions of the socket (ListensCounted,     *)
(* PutsInFlight), in the order sent, or lost with the socket and to be     *)
(* sent again (PhaseInv).  With it each step is a step of Repo (RepoStep). *)
(***************************************************************************)
EXTENDS Connection, RepoProofs, FiniteSetTheorems, FunctionTheorems

-----------------------------------------------------------------------------
(* What is in flight *)

\* The listens of a channel, requests or answers, and how many there are.
Listens(s) == {i \in DOMAIN s : s[i].type = "listen"}
Count(s) == Cardinality(Listens(s))
HasListen(s, spec) == \E i \in Listens(s) : s[i].spec = spec

HasAuth(s) == \E i \in DOMAIN s : s[i].type = "auth"
AuthFirst(s) == /\ s # <<>> /\ s[1].type = "auth"
                /\ \A i \in DOMAIN s : s[i].type = "auth" => i = 1

\* The ids of the puts of a channel, requests or answers.
PutIds(s) == {s[i].id : i \in {j \in DOMAIN s : s[j].type = "put"}}
Before(s, t) == \A a \in PutIds(s), b \in PutIds(t) : a < b
PutsInOrder(s) == \A i, j \in DOMAIN s :
    (i < j /\ s[i].type = "put" /\ s[j].type = "put") => s[i].id < s[j].id

-----------------------------------------------------------------------------
(* The inductive invariant *)

\* The socket's phases: nothing travels before it is open, and while the
\* connection authenticates the one auth message is ahead of all others.
PhaseInv ==
    /\ connectionState \in {"disconnected", "connecting"}
          => toServer = <<>> /\ toClient = <<>> /\ ~serverListens
    /\ connectionState = "authenticating"
          => \/ AuthFirst(toServer) /\ toClient = <<>> /\ ~serverListens
             \/ AuthFirst(toClient) /\ ~HasAuth(toServer)
    /\ connectionState = "connected" => ~HasAuth(toServer) /\ ~HasAuth(toClient)

\* Every listen counted is in flight, one way or the other.
ListensCounted == unackedListens = Count(toServer) + Count(toClient)

\* The view is there for the outstanding query.  While it waits for its first
\* data on an open connection, the query's listen is in flight.
QueryInv ==
    /\ listening <=> listenSpec # 0
    /\ connectionState = "connected" /\ listening /\ ~serverComplete
          => HasListen(toServer, listenSpec) \/ HasListen(toClient, listenSpec)

\* Answers held back are passed on when no listen is unanswered; those left
\* behind by a disconnect belong to no view.
HeldBack ==
    /\ acking => /\ connectionState = "connected" /\ unackedListens = 0
                 /\ putsToAck # <<>> /\ (listening => serverComplete)
    /\ connectionState = "connected" /\ ~acking /\ unackedListens = 0 /\ putsToAck # <<>>
          => ~listening

\* On an open connection each outstanding put is in flight, in the order of the
\* writes, answers ahead of requests; none is in flight otherwise.
PutsInFlight ==
    /\ PutsInOrder(toServer) /\ PutsInOrder(toClient) /\ Before(toClient, toServer)
    /\ PutIds(toServer) \cup PutIds(toClient)
          = IF connectionState = "connected" THEN PutIds(outstandingPuts) ELSE {}

\* The inductive invariant of the connection over the client's own.
ConnectionInv ==
    /\ RepoInv /\ ConnectionTypeOK
    /\ PhaseInv
    /\ ListensCounted
    /\ QueryInv
    /\ HeldBack
    /\ PutsMatchWrites
    /\ PutsInFlight

-----------------------------------------------------------------------------
(* Channels: everything sent is put behind what is there, and taken in order *)

\* Two pieces of a channel, one behind the other.
LEMMA ConcatSeq ==
    ASSUME NEW M, NEW s \in Seq(M), NEW t \in Seq(M)
    PROVE  /\ s \o t \in Seq(M)
           /\ Len(s) \in Nat
           /\ DOMAIN s = 1 .. Len(s) /\ DOMAIN t = 1 .. Len(t)
           /\ DOMAIN (s \o t) = 1 .. (Len(s) + Len(t))
           /\ \A i \in DOMAIN s : i \in DOMAIN (s \o t) /\ (s \o t)[i] = s[i]
           /\ \A i \in DOMAIN t : Len(s) + i \in DOMAIN (s \o t) /\ (s \o t)[Len(s) + i] = t[i]
           /\ \A i \in DOMAIN (s \o t) : i \in DOMAIN s \/ \E j \in DOMAIN t : i = Len(s) + j
  <1>1. /\ Len(s) \in Nat /\ DOMAIN s = 1 .. Len(s)
        /\ Len(t) \in Nat /\ DOMAIN t = 1 .. Len(t)
    BY LenProperties
  <1>2. /\ s \o t \in Seq(M) /\ Len(s \o t) = Len(s) + Len(t)
        /\ \A i \in 1 .. (Len(s) + Len(t)) :
              (s \o t)[i] = IF i <= Len(s) THEN s[i] ELSE t[i - Len(s)]
    BY ConcatProperties
  <1>3. DOMAIN (s \o t) = 1 .. (Len(s) + Len(t))
    BY <1>1, <1>2, LenProperties
  <1>4. \A i \in DOMAIN s : i \in DOMAIN (s \o t) /\ (s \o t)[i] = s[i]
    BY <1>1, <1>2, <1>3
  <1>5. ASSUME NEW i \in DOMAIN t
        PROVE  Len(s) + i \in DOMAIN (s \o t) /\ (s \o t)[Len(s) + i] = t[i]
    <2>1. PICK n \in 1 .. (Len(s) + Len(t)) : n = Len(s) + i /\ ~(n <= Len(s)) /\ n - Len(s) = i
      BY <1>1
    <2> QED
      BY <1>2, <1>3, <2>1
  <1>6. ASSUME NEW i \in DOMAIN (s \o t), i \notin DOMAIN s
        PROVE  \E j \in DOMAIN t : i = Len(s) + j
    <2>1. i - Len(s) \in DOMAIN t /\ i = Len(s) + (i - Len(s))
      BY <1>1, <1>3, <1>6
    <2> QED
      BY <2>1
  <1> QED
    BY <1>1, <1>2, <1>3, <1>4, <1>5, <1>6

\* A channel is its first message and the rest of it.
LEMMA HeadAndTail ==
    ASSUME NEW M, NEW s \in Seq(M), s # <<>>
    PROVE  /\ Head(s) \in M /\ Tail(s) \in Seq(M)
           /\ s = <<Head(s)>> \o Tail(s)
           /\ 1 \in DOMAIN s /\ Head(s) = s[1]
  <1>1. Head(s) \in M /\ Tail(s) \in Seq(M) /\ 1 \in DOMAIN s /\ Head(s) = s[1]
    BY TailSeq
  <1>2. s = <<Head(s)>> \o Tail(s)
    OBVIOUS
  <1> QED
    BY <1>1, <1>2

\* The ids of the puts of two pieces.
LEMMA PutIdsConcat ==
    ASSUME NEW M, NEW s \in Seq(M), NEW t \in Seq(M)
    PROVE  PutIds(s \o t) = PutIds(s) \cup PutIds(t)
  <1>1. ASSUME NEW x \in PutIds(s \o t)
        PROVE  x \in PutIds(s) \cup PutIds(t)
    <2>1. PICK i \in DOMAIN (s \o t) : (s \o t)[i].type = "put" /\ x = (s \o t)[i].id
      BY DEF PutIds
    <2>2. CASE i \in DOMAIN s
      BY <2>1, <2>2, ConcatSeq DEF PutIds
    <2>3. CASE \E j \in DOMAIN t : i = Len(s) + j
      <3>1. PICK j \in DOMAIN t : i = Len(s) + j
        BY <2>3
      <3>2. (s \o t)[i] = t[j]
        BY <3>1, ConcatSeq
      <3> QED
        BY <2>1, <3>2 DEF PutIds
    <2> QED
      BY <2>2, <2>3, ConcatSeq
  <1>2. ASSUME NEW x \in PutIds(s)
        PROVE  x \in PutIds(s \o t)
    <2>1. PICK i \in DOMAIN s : s[i].type = "put" /\ x = s[i].id
      BY DEF PutIds
    <2>2. i \in DOMAIN (s \o t) /\ (s \o t)[i] = s[i]
      BY ConcatSeq
    <2> QED
      BY <2>1, <2>2 DEF PutIds
  <1>3. ASSUME NEW x \in PutIds(t)
        PROVE  x \in PutIds(s \o t)
    <2>1. PICK j \in DOMAIN t : t[j].type = "put" /\ x = t[j].id
      BY DEF PutIds
    <2>2. Len(s) + j \in DOMAIN (s \o t) /\ (s \o t)[Len(s) + j] = t[j]
      BY ConcatSeq
    <2> QED
      BY <2>1, <2>2 DEF PutIds
  <1> QED
    BY <1>1, <1>2, <1>3

\* Two pieces are in order if each is and the first is before the second.
LEMMA InOrderConcat ==
    ASSUME NEW M, NEW s \in Seq(M), NEW t \in Seq(M)
    PROVE  PutsInOrder(s \o t) <=> PutsInOrder(s) /\ PutsInOrder(t) /\ Before(s, t)
  <1> DEFINE c == s \o t
  <1>0. /\ Len(s) \in Nat
        /\ DOMAIN s = 1 .. Len(s) /\ DOMAIN t \in SUBSET Nat
        /\ DOMAIN c \in SUBSET Nat
        /\ \A i \in DOMAIN s : i \in DOMAIN c /\ c[i] = s[i]
        /\ \A i \in DOMAIN t : Len(s) + i \in DOMAIN c /\ c[Len(s) + i] = t[i]
        /\ \A i \in DOMAIN c : i \in DOMAIN s \/ \E j \in DOMAIN t : i = Len(s) + j
    <2>1. /\ DOMAIN s = 1 .. Len(s) /\ DOMAIN t = 1 .. Len(t)
          /\ DOMAIN c = 1 .. (Len(s) + Len(t)) /\ Len(s) \in Nat
      BY ConcatSeq
    <2>2. /\ DOMAIN t \in SUBSET Nat /\ DOMAIN c \in SUBSET Nat
      BY <2>1
    <2>3. /\ \A i \in DOMAIN s : i \in DOMAIN c /\ c[i] = s[i]
          /\ \A i \in DOMAIN c : i \in DOMAIN s \/ \E j \in DOMAIN t : i = Len(s) + j
      BY ConcatSeq
    <2>4. \A i \in DOMAIN t : Len(s) + i \in DOMAIN c /\ c[Len(s) + i] = t[i]
      BY ConcatSeq
    <2> HIDE DEF c
    <2> QED
      BY <2>1, <2>2, <2>3, <2>4
  <1> HIDE DEF c
  <1>1. ASSUME PutsInOrder(c), NEW i \in DOMAIN s, NEW j \in DOMAIN s,
               i < j, s[i].type = "put", s[j].type = "put"
        PROVE  s[i].id < s[j].id
    BY <1>0, <1>1 DEF PutsInOrder
  <1>2. ASSUME PutsInOrder(c), NEW i \in DOMAIN t, NEW j \in DOMAIN t,
               i < j, t[i].type = "put", t[j].type = "put"
        PROVE  t[i].id < t[j].id
    <2>1. Len(s) + i < Len(s) + j
      BY <1>0, <1>2
    <2> QED
      BY <1>0, <1>2, <2>1 DEF PutsInOrder
  <1>3. ASSUME PutsInOrder(c), NEW i \in DOMAIN s, NEW j \in DOMAIN t,
               s[i].type = "put", t[j].type = "put"
        PROVE  s[i].id < t[j].id
    <2>1. i < Len(s) + j
      <3>1. j \in Nat /\ j > 0
        <4>1. DOMAIN t = 1 .. Len(t)
          BY ConcatSeq
        <4> QED
          BY <4>1
      <3> QED
        BY <1>0, <3>1
    <2> QED
      BY <1>0, <1>3, <2>1 DEF PutsInOrder
  <1>4. ASSUME PutsInOrder(s), PutsInOrder(t), Before(s, t),
               NEW i \in DOMAIN c, NEW j \in DOMAIN c,
               i < j, c[i].type = "put", c[j].type = "put"
        PROVE  c[i].id < c[j].id
    <2>1. CASE j \in DOMAIN s
      <3>1. i \in DOMAIN s
        BY <1>0, <1>4, <2>1
      <3> QED
        BY <1>0, <1>4, <2>1, <3>1 DEF PutsInOrder
    <2>2. ASSUME NEW y \in DOMAIN t, j = Len(s) + y
          PROVE  c[i].id < c[j].id
      <3>1. CASE i \in DOMAIN s
        <4>1. c[i].id \in PutIds(s) /\ c[j].id \in PutIds(t)
          BY <1>0, <1>4, <2>2, <3>1 DEF PutIds
        <4> QED
          BY <1>4, <4>1 DEF Before
      <3>2. ASSUME NEW x \in DOMAIN t, i = Len(s) + x
            PROVE  c[i].id < c[j].id
        <4>1. x < y
          BY <1>0, <1>4, <2>2, <3>2
        <4>2. c[i] = t[x] /\ c[j] = t[y]
          BY <1>0, <2>2, <3>2
        <4> QED
          BY <1>4, <4>1, <4>2 DEF PutsInOrder
      <3> QED
        BY <1>0, <3>1, <3>2
    <2> QED
      BY <1>0, <2>1, <2>2
  <1>5. PutsInOrder(c) => PutsInOrder(s) /\ PutsInOrder(t)
    BY <1>1, <1>2 DEF PutsInOrder
  <1>6. PutsInOrder(c) => Before(s, t)
    BY <1>3 DEF Before, PutIds
  <1>7. PutsInOrder(s) /\ PutsInOrder(t) /\ Before(s, t) => PutsInOrder(c)
    BY <1>4 DEF PutsInOrder
  <1> QED
    BY <1>5, <1>6, <1>7 DEF c

\* Where the listens of two pieces are.
LEMMA ListensConcat ==
    ASSUME NEW M, NEW s \in Seq(M), NEW t \in Seq(M)
    PROVE  \A i \in Nat :
              /\ i \in DOMAIN s => (i \in Listens(s \o t) <=> i \in Listens(s))
              /\ i \in DOMAIN t => (Len(s) + i \in Listens(s \o t) <=> i \in Listens(t))
  <1>1. \A i \in DOMAIN s : i \in DOMAIN (s \o t) /\ (s \o t)[i] = s[i]
    BY ConcatSeq
  <1>2. \A i \in DOMAIN t : Len(s) + i \in DOMAIN (s \o t) /\ (s \o t)[Len(s) + i] = t[i]
    BY ConcatSeq
  <1> QED
    BY <1>1, <1>2 DEF Listens

\* The listens of a channel are finitely many.
LEMMA CountType ==
    ASSUME NEW M, NEW s \in Seq(M)
    PROVE  IsFiniteSet(Listens(s)) /\ Count(s) \in Nat
  <1>1. DOMAIN s = 1 .. Len(s) /\ Len(s) \in Nat
    BY LenProperties
  <1>2. IsFiniteSet(1 .. Len(s))
    BY <1>1, FS_Interval
  <1>3. Listens(s) \in SUBSET (1 .. Len(s))
    BY <1>1 DEF Listens
  <1> QED
    BY <1>2, <1>3, FS_Subset, FS_CardinalityType DEF Count

\* The listens of two pieces add up.
LEMMA CountConcat ==
    ASSUME NEW M, NEW s \in Seq(M), NEW t \in Seq(M)
    PROVE  Count(s \o t) = Count(s) + Count(t)
  <1> DEFINE n == Len(s)
             later == Listens(s \o t) \ Listens(s)
             f == [i \in Listens(t) |-> n + i]
  <1>1. /\ n \in Nat /\ DOMAIN s = 1 .. n /\ DOMAIN t = 1 .. Len(t)
        /\ DOMAIN (s \o t) = 1 .. (n + Len(t))
    BY ConcatSeq
  <1>2. /\ Listens(s) \in SUBSET (1 .. n) /\ Listens(t) \in SUBSET (1 .. Len(t))
        /\ Listens(s \o t) \in SUBSET (1 .. (n + Len(t)))
    BY <1>1 DEF Listens
  <1>3. \A i \in DOMAIN (s \o t) : i \in DOMAIN s \/ \E j \in DOMAIN t : i = n + j
    BY ConcatSeq
  <1>4. /\ \A i \in 1 .. n : i \in Listens(s \o t) <=> i \in Listens(s)
        /\ \A i \in 1 .. Len(t) : n + i \in Listens(s \o t) <=> i \in Listens(t)
    <2>1. \A i \in 1 .. n : i \in Nat
      OBVIOUS
    <2>2. \A i \in 1 .. Len(t) : i \in Nat
      OBVIOUS
    <2> QED
      BY <1>1, <2>1, <2>2, ListensConcat
  <1>5. /\ IsFiniteSet(Listens(s)) /\ Count(s) \in Nat
        /\ IsFiniteSet(Listens(t)) /\ Count(t) \in Nat
    BY CountType
  <1> HIDE DEF n
  <1>6. f \in [Listens(t) -> later]
    <2> SUFFICES ASSUME NEW i \in Listens(t) PROVE n + i \in later
      OBVIOUS
    <2>1. i \in 1 .. Len(t)
      BY <1>2
    <2>2. n + i \in Listens(s \o t)
      BY <1>4, <2>1
    <2>3. n + i \notin 1 .. n
      BY <1>1, <2>1
    <2> QED
      BY <1>2, <2>2, <2>3
  <1>7. \A i, j \in Listens(t) : f[i] = f[j] => i = j
    BY <1>1, <1>2
  <1>8. \A x \in later : \E i \in Listens(t) : f[i] = x
    <2> SUFFICES ASSUME NEW x \in later PROVE \E i \in Listens(t) : n + i = x
      OBVIOUS
    <2>1. x \in Listens(s \o t) /\ x \in DOMAIN (s \o t) /\ x \notin Listens(s)
      BY DEF Listens
    <2>2. x \notin DOMAIN s
      BY <1>1, <1>4, <2>1
    <2>3. PICK i \in DOMAIN t : x = n + i
      BY <1>3, <2>1, <2>2
    <2>4. i \in Listens(t)
      BY <1>1, <1>4, <2>1, <2>3
    <2> QED
      BY <2>3, <2>4
  <1>9. f \in Bijection(Listens(t), later)
    <2> HIDE DEF f, later
    <2> QED
      BY <1>6, <1>7, <1>8, Fun_IsBij
  <1>10. ExistsBijection(Listens(t), later)
    <2> HIDE DEF f, later
    <2> QED
      BY <1>9 DEF ExistsBijection
  <1>11. IsFiniteSet(later) /\ Cardinality(later) = Count(t)
    <2> HIDE DEF later
    <2> QED
      BY <1>5, <1>10, FS_Bijection DEF Count
  <1>12. Listens(s \o t) = Listens(s) \cup later
    <2>1. Listens(s) \subseteq Listens(s \o t)
      BY <1>2, <1>4
    <2> QED
      BY <2>1
  <1>13. Listens(s) \cap later = {} /\ Cardinality({}) = 0
    BY FS_EmptySet
  <1> HIDE DEF later
  <1>14. Cardinality(Listens(s \o t)) = Cardinality(Listens(s)) + Cardinality(later) - 0
    BY <1>5, <1>11, <1>12, <1>13, FS_Union
  <1> QED
    BY <1>5, <1>11, <1>14 DEF Count

\* A channel without listens counts none, and one with a listen at least one.
LEMMA CountZero ==
    ASSUME NEW M, NEW s \in Seq(M)
    PROVE  Count(s) = 0 <=> \A i \in DOMAIN s : s[i].type # "listen"
  <1>1. IsFiniteSet(Listens(s))
    BY CountType
  <1>2. Count(s) = 0 <=> Listens(s) = {}
    BY <1>1, FS_EmptySet DEF Count
  <1> QED
    BY <1>2 DEF Listens

\* A channel of one message.
LEMMA SingleMessage ==
    ASSUME NEW M, NEW m \in M
    PROVE  /\ <<m>> \in Seq(M)
           /\ Count(<<m>>) = IF m.type = "listen" THEN 1 ELSE 0
           /\ PutIds(<<m>>) = IF m.type = "put" THEN {m.id} ELSE {}
           /\ PutsInOrder(<<m>>)
  <1>1. DOMAIN <<m>> = {1} /\ <<m>>[1] = m /\ <<m>> \in Seq(M)
    OBVIOUS
  <1> DEFINE s == <<m>>
  <1> HIDE DEF s
  <1>2. Listens(s) = IF m.type = "listen" THEN {1} ELSE {}
    BY <1>1 DEF Listens, s
  <1>3. Count(s) = IF m.type = "listen" THEN 1 ELSE 0
    BY <1>2, FS_Singleton, FS_EmptySet DEF Count
  <1>4. PutIds(s) = IF m.type = "put" THEN {m.id} ELSE {}
    BY <1>1 DEF PutIds, s
  <1>5. PutsInOrder(s)
    <2>1. \A i, j \in DOMAIN s : ~(i < j)
      BY <1>1 DEF s
    <2> QED
      BY <2>1 DEF PutsInOrder
  <1> QED
    BY <1>1, <1>3, <1>4, <1>5 DEF s

\* An empty channel.
LEMMA NoMessage ==
    /\ Count(<<>>) = 0
    /\ PutIds(<<>>) = {}
    /\ PutsInOrder(<<>>)
    /\ ~HasAuth(<<>>)
    /\ \A spec : ~HasListen(<<>>, spec)
  <1>1. DOMAIN <<>> = {}
    OBVIOUS
  <1>2. Listens(<<>>) = {}
    BY <1>1 DEF Listens
  <1> QED
    BY <1>1, <1>2, FS_EmptySet DEF Count, PutIds, PutsInOrder, HasAuth, HasListen

\* The auth messages of two pieces.
LEMMA HasAuthConcat ==
    ASSUME NEW M, NEW s \in Seq(M), NEW t \in Seq(M)
    PROVE  /\ HasAuth(s \o t) <=> HasAuth(s) \/ HasAuth(t)
           /\ s # <<>> => (AuthFirst(s \o t) <=> AuthFirst(s) /\ ~HasAuth(t))
  <1>1. /\ \A i \in DOMAIN s : i \in DOMAIN (s \o t) /\ (s \o t)[i] = s[i]
        /\ \A i \in DOMAIN (s \o t) : i \in DOMAIN s \/ \E j \in DOMAIN t : i = Len(s) + j
    BY ConcatSeq
  <1>2. \A i \in DOMAIN t : Len(s) + i \in DOMAIN (s \o t) /\ (s \o t)[Len(s) + i] = t[i]
    BY ConcatSeq
  <1>3. HasAuth(s \o t) <=> HasAuth(s) \/ HasAuth(t)
    <2>1. ASSUME HasAuth(s) PROVE HasAuth(s \o t)
      BY <1>1, <2>1 DEF HasAuth
    <2>2. ASSUME HasAuth(t) PROVE HasAuth(s \o t)
      BY <1>2, <2>2 DEF HasAuth
    <2>3. ASSUME HasAuth(s \o t) PROVE HasAuth(s) \/ HasAuth(t)
      <3>1. PICK i \in DOMAIN (s \o t) : (s \o t)[i].type = "auth"
        BY <2>3 DEF HasAuth
      <3>2. CASE i \in DOMAIN s
        BY <1>1, <3>1, <3>2 DEF HasAuth
      <3>3. ASSUME NEW j \in DOMAIN t, i = Len(s) + j PROVE HasAuth(t)
        BY <1>2, <3>1, <3>3 DEF HasAuth
      <3> QED
        BY <1>1, <3>2, <3>3
    <2> QED
      BY <2>1, <2>2, <2>3
  <1>4. ASSUME s # <<>>
        PROVE  AuthFirst(s \o t) <=> AuthFirst(s) /\ ~HasAuth(t)
    <2>1. 1 \in DOMAIN s /\ (s \o t)[1] = s[1] /\ s \o t # <<>>
      <3>1. 1 \in DOMAIN s
        BY <1>4, TailSeq
      <3>2. DOMAIN <<>> = {}
        OBVIOUS
      <3> QED
        BY <1>1, <3>1, <3>2
    <2>2. \A j \in DOMAIN t : Len(s) + j # 1
      <3>1. DOMAIN s = 1 .. Len(s) /\ Len(s) \in Nat /\ DOMAIN t = 1 .. Len(t)
        BY ConcatSeq
      <3> QED
        BY <2>1, <3>1
    <2>3. ASSUME AuthFirst(s \o t) PROVE AuthFirst(s) /\ ~HasAuth(t)
      <3>1. AuthFirst(s)
        BY <1>1, <1>4, <2>1, <2>3 DEF AuthFirst
      <3>2. ~HasAuth(t)
        BY <1>2, <2>2, <2>3 DEF AuthFirst, HasAuth
      <3> QED
        BY <3>1, <3>2
    <2>4. ASSUME AuthFirst(s), ~HasAuth(t) PROVE AuthFirst(s \o t)
      <3>1. ASSUME NEW i \in DOMAIN (s \o t), (s \o t)[i].type = "auth" PROVE i = 1
        <4>1. CASE i \in DOMAIN s
          BY <1>1, <2>4, <3>1, <4>1 DEF AuthFirst
        <4>2. ASSUME NEW j \in DOMAIN t, i = Len(s) + j PROVE FALSE
          BY <1>2, <2>4, <3>1, <4>2 DEF HasAuth
        <4> QED
          BY <1>1, <4>1, <4>2
      <3> QED
        BY <2>1, <2>4, <3>1 DEF AuthFirst
    <2> QED
      BY <2>3, <2>4
  <1> QED
    BY <1>3, <1>4

\* The listens of a query in two pieces.
LEMMA HasListenConcat ==
    ASSUME NEW M, NEW s \in Seq(M), NEW t \in Seq(M), NEW spec
    PROVE  HasListen(s \o t, spec) <=> HasListen(s, spec) \/ HasListen(t, spec)
  <1>1. /\ \A i \in DOMAIN s : i \in DOMAIN (s \o t) /\ (s \o t)[i] = s[i]
        /\ \A i \in DOMAIN (s \o t) : i \in DOMAIN s \/ \E j \in DOMAIN t : i = Len(s) + j
    BY ConcatSeq
  <1>2. \A i \in DOMAIN t : Len(s) + i \in DOMAIN (s \o t) /\ (s \o t)[Len(s) + i] = t[i]
    BY ConcatSeq
  <1>3. ASSUME HasListen(s, spec) PROVE HasListen(s \o t, spec)
    BY <1>1, <1>3 DEF HasListen, Listens
  <1>4. ASSUME HasListen(t, spec) PROVE HasListen(s \o t, spec)
    BY <1>2, <1>4 DEF HasListen, Listens
  <1>5. ASSUME HasListen(s \o t, spec) PROVE HasListen(s, spec) \/ HasListen(t, spec)
    <2>1. PICK i \in DOMAIN (s \o t) : (s \o t)[i].type = "listen" /\ (s \o t)[i].spec = spec
      BY <1>5 DEF HasListen, Listens
    <2>2. CASE i \in DOMAIN s
      BY <1>1, <2>1, <2>2 DEF HasListen, Listens
    <2>3. ASSUME NEW j \in DOMAIN t, i = Len(s) + j PROVE HasListen(t, spec)
      BY <1>2, <2>1, <2>3 DEF HasListen, Listens
    <2> QED
      BY <1>1, <2>2, <2>3
  <1> QED
    BY <1>3, <1>4, <1>5

\* The one message of a channel.
LEMMA SingleAuthListen ==
    ASSUME NEW M, NEW m \in M
    PROVE  /\ HasAuth(<<m>>) <=> m.type = "auth"
           /\ AuthFirst(<<m>>) <=> m.type = "auth"
           /\ \A spec : HasListen(<<m>>, spec) <=> m.type = "listen" /\ m.spec = spec
  <1>1. DOMAIN <<m>> = {1} /\ <<m>>[1] = m /\ <<m>> # <<>>
    OBVIOUS
  <1> QED
    BY <1>1 DEF HasAuth, AuthFirst, HasListen, Listens

-----------------------------------------------------------------------------
(* What sending and receiving do to the traffic of a channel *)

\* A message sent (FPersistentConnection sendAction, or the server).
LEMMA Sent ==
    ASSUME NEW M, NEW s \in Seq(M), NEW m \in M
    PROVE  /\ Append(s, m) \in Seq(M)
           /\ Count(Append(s, m)) = Count(s) + (IF m.type = "listen" THEN 1 ELSE 0)
           /\ PutIds(Append(s, m)) = PutIds(s) \cup (IF m.type = "put" THEN {m.id} ELSE {})
           /\ PutsInOrder(Append(s, m))
                 <=> PutsInOrder(s) /\ (m.type = "put" => \A a \in PutIds(s) : a < m.id)
           /\ HasAuth(Append(s, m)) <=> HasAuth(s) \/ m.type = "auth"
           /\ s # <<>> => (AuthFirst(Append(s, m)) <=> AuthFirst(s) /\ m.type # "auth")
           /\ s = <<>> => (AuthFirst(Append(s, m)) <=> m.type = "auth")
           /\ \A spec : HasListen(Append(s, m), spec)
                 <=> HasListen(s, spec) \/ (m.type = "listen" /\ m.spec = spec)
  <1>1. Append(s, m) = s \o <<m>>
    OBVIOUS
  <1> DEFINE t == <<m>>
  <1>2. t \in Seq(M) /\ Append(s, m) = s \o t
    BY <1>1, SingleMessage
  <1>3. /\ Count(t) = IF m.type = "listen" THEN 1 ELSE 0
        /\ PutIds(t) = IF m.type = "put" THEN {m.id} ELSE {}
        /\ PutsInOrder(t)
    BY SingleMessage
  <1>4. /\ HasAuth(t) <=> m.type = "auth"
        /\ AuthFirst(t) <=> m.type = "auth"
        /\ \A spec : HasListen(t, spec) <=> m.type = "listen" /\ m.spec = spec
    BY SingleAuthListen
  <1>5. s = <<>> => s \o t = t
    OBVIOUS
  <1> HIDE DEF t
  <1>6. /\ s \o t \in Seq(M)
        /\ Count(s \o t) = Count(s) + Count(t)
        /\ PutIds(s \o t) = PutIds(s) \cup PutIds(t)
    BY <1>2, ConcatSeq, CountConcat, PutIdsConcat
  <1>7. PutsInOrder(s \o t) <=> PutsInOrder(s) /\ (m.type = "put" => \A a \in PutIds(s) : a < m.id)
    <2>1. PutsInOrder(s \o t) <=> PutsInOrder(s) /\ PutsInOrder(t) /\ Before(s, t)
      BY <1>2, InOrderConcat
    <2>2. Before(s, t) <=> (m.type = "put" => \A a \in PutIds(s) : a < m.id)
      BY <1>3 DEF Before
    <2> QED
      BY <1>3, <2>1, <2>2
  <1>8. /\ HasAuth(s \o t) <=> HasAuth(s) \/ m.type = "auth"
        /\ s # <<>> => (AuthFirst(s \o t) <=> AuthFirst(s) /\ m.type # "auth")
        /\ s = <<>> => (AuthFirst(s \o t) <=> m.type = "auth")
    BY <1>2, <1>4, <1>5, HasAuthConcat
  <1>9. \A spec : HasListen(s \o t, spec)
                 <=> HasListen(s, spec) \/ (m.type = "listen" /\ m.spec = spec)
    BY <1>2, <1>4, HasListenConcat
  <1> QED
    BY <1>2, <1>3, <1>6, <1>7, <1>8, <1>9

\* A message taken.
LEMMA Taken ==
    ASSUME NEW M, NEW s \in Seq(M), s # <<>>
    PROVE  /\ Head(s) \in M /\ Tail(s) \in Seq(M)
           /\ Count(s) = Count(Tail(s)) + (IF Head(s).type = "listen" THEN 1 ELSE 0)
           /\ PutIds(s) = PutIds(Tail(s)) \cup (IF Head(s).type = "put" THEN {Head(s).id} ELSE {})
           /\ PutsInOrder(s) <=> /\ PutsInOrder(Tail(s))
                                 /\ Head(s).type = "put" => \A b \in PutIds(Tail(s)) : Head(s).id < b
           /\ HasAuth(s) <=> HasAuth(Tail(s)) \/ Head(s).type = "auth"
           /\ AuthFirst(s) <=> Head(s).type = "auth" /\ ~HasAuth(Tail(s))
           /\ \A spec : HasListen(s, spec)
                 <=> HasListen(Tail(s), spec) \/ (Head(s).type = "listen" /\ Head(s).spec = spec)
  <1>1. PICK m \in M : m = Head(s)
    BY HeadAndTail
  <1>2. PICK r \in Seq(M) : r = Tail(s)
    BY HeadAndTail
  <1> DEFINE t == <<m>>
  <1>3. t \in Seq(M) /\ s = t \o r /\ t # <<>>
    BY <1>1, <1>2, HeadAndTail
  <1>4. /\ Count(t) = IF m.type = "listen" THEN 1 ELSE 0
        /\ PutIds(t) = IF m.type = "put" THEN {m.id} ELSE {}
        /\ PutsInOrder(t)
    BY SingleMessage
  <1>5. /\ HasAuth(t) <=> m.type = "auth"
        /\ AuthFirst(t) <=> m.type = "auth"
        /\ \A spec : HasListen(t, spec) <=> m.type = "listen" /\ m.spec = spec
    BY SingleAuthListen
  <1> HIDE DEF t
  <1>6. /\ Count(s) = Count(t) + Count(r)
        /\ PutIds(s) = PutIds(t) \cup PutIds(r)
    BY <1>3, CountConcat, PutIdsConcat
  <1>7. PutsInOrder(s) <=> PutsInOrder(r) /\ (m.type = "put" => \A b \in PutIds(r) : m.id < b)
    <2>1. PutsInOrder(s) <=> PutsInOrder(t) /\ PutsInOrder(r) /\ Before(t, r)
      BY <1>3, InOrderConcat
    <2>2. Before(t, r) <=> (m.type = "put" => \A b \in PutIds(r) : m.id < b)
      BY <1>4 DEF Before
    <2> QED
      BY <1>4, <2>1, <2>2
  <1>8. /\ HasAuth(s) <=> HasAuth(r) \/ m.type = "auth"
        /\ AuthFirst(s) <=> m.type = "auth" /\ ~HasAuth(r)
    BY <1>3, <1>5, HasAuthConcat
  <1>9. \A spec : HasListen(s, spec)
                 <=> HasListen(r, spec) \/ (m.type = "listen" /\ m.spec = spec)
    BY <1>3, <1>5, HasListenConcat
  <1>10. Count(s) = Count(r) + (IF m.type = "listen" THEN 1 ELSE 0)
    <2>1. Count(r) \in Nat
      BY CountType
    <2> QED
      BY <1>4, <1>6, <2>1
  <1>11. PutIds(s) = PutIds(r) \cup (IF m.type = "put" THEN {m.id} ELSE {})
    BY <1>4, <1>6
  <1> QED
    BY <1>1, <1>2, <1>7, <1>8, <1>9, <1>10, <1>11

-----------------------------------------------------------------------------
(* Messages *)

\* What a request holds, by its type.
LEMMA Request ==
    ASSUME NEW m \in ToServer
    PROVE  /\ m.type \in {"put", "auth", "listen"}
           /\ m.type = "put" => m \in Put /\ m.id \in Nat /\ m.key \in Key /\ m.node \in Node
           /\ m.type = "listen" => m.spec \in Nat /\ m.hash \in [Key -> Node]
  BY DEF ToServer, Put

\* What a message of the server holds, by its type.
LEMMA Message ==
    ASSUME NEW m \in ToClient
    PROVE  /\ m.type \in {"put", "auth", "listen", "snapshot", "child", "revoked"}
           /\ m.type = "put" => m \in PutAnswer /\ m.id \in Nat /\ m.ok \in BOOLEAN
           /\ m.type = "listen" => m.spec \in Nat /\ m.ok \in BOOLEAN
           /\ m.type = "auth" => m.ok \in BOOLEAN
           /\ m.type = "snapshot" => m.nodes \in [Key -> Node]
           /\ m.type = "child" => m.key \in Key /\ m.node \in Node
  BY DEF ToClient, PutAnswer

\* Ids are numbers, so that they are ordered.
LEMMA IdsAreNumbers ==
    /\ \A s \in Seq(ToServer) : PutIds(s) \subseteq Nat
    /\ \A s \in Seq(ToClient) : PutIds(s) \subseteq Nat
    /\ \A s \in Seq(Put) : PutIds(s) \subseteq Nat
  <1>1. ASSUME NEW s \in Seq(ToServer), NEW i \in DOMAIN s, s[i].type = "put"
        PROVE  s[i].id \in Nat
    <2>1. s[i] \in ToServer
      OBVIOUS
    <2> QED
      BY <1>1, <2>1, Request
  <1>2. ASSUME NEW s \in Seq(ToClient), NEW i \in DOMAIN s, s[i].type = "put"
        PROVE  s[i].id \in Nat
    <2>1. s[i] \in ToClient
      OBVIOUS
    <2> QED
      BY <1>2, <2>1, Message
  <1>3. ASSUME NEW s \in Seq(Put), NEW i \in DOMAIN s
        PROVE  s[i].id \in Nat
    <2>1. s[i] \in Put
      OBVIOUS
    <2> QED
      BY <2>1 DEF Put
  <1> QED
    BY <1>1, <1>2, <1>3 DEF PutIds

\* The outstanding puts are puts and nothing else, and all of them are requests.
LEMMA PutsOnly ==
    ASSUME NEW s \in Seq(Put)
    PROVE  /\ s \in Seq(ToServer)
           /\ Count(s) = 0 /\ ~HasAuth(s)
           /\ \A i \in DOMAIN s : s[i] \in Put /\ s[i].type = "put" /\ s[i].id \in Nat
           /\ PutIds(s) = {s[i].id : i \in DOMAIN s}
  <1>1. \A i \in DOMAIN s : s[i] \in Put /\ s[i].type = "put" /\ s[i].id \in Nat
    <2>1. \A i \in DOMAIN s : s[i] \in Put
      OBVIOUS
    <2> QED
      BY <2>1 DEF Put
  <1>2. s \in Seq(ToServer)
    <2>1. Put \subseteq ToServer
      BY DEF ToServer
    <2>2. /\ Len(s) \in Nat /\ DOMAIN s = 1 .. Len(s)
          /\ s \in [1 .. Len(s) -> Put]
      OBVIOUS
    <2>3. s \in [1 .. Len(s) -> ToServer]
      BY <2>1, <2>2
    <2> QED
      BY <2>2, <2>3
  <1>3. Count(s) = 0
    BY <1>1, CountZero
  <1>4. ~HasAuth(s)
    BY <1>1 DEF HasAuth
  <1>5. PutIds(s) = {s[i].id : i \in DOMAIN s}
    BY <1>1 DEF PutIds
  <1> QED
    BY <1>1, <1>2, <1>3, <1>4, <1>5

-----------------------------------------------------------------------------
(* The queues of writes and of puts, element by element *)

\* PutsMatchWrites, element by element.
Matched(ws, p, o) ==
    /\ Len(ws) = Len(p) + Len(o)
    /\ \A i \in 1 .. Len(p) : ws[i].id = p[i].id
    /\ \A i \in 1 .. Len(o) : ws[Len(p) + i].id = o[i].id

\* A function on 1 .. n is a sequence.
LEMMA FunctionSeq ==
    ASSUME NEW M, NEW n \in Nat, NEW f \in [1 .. n -> M]
    PROVE  f \in Seq(M) /\ Len(f) = n /\ DOMAIN f = 1 .. n
  OBVIOUS

\* Two sequences of ids put together.
LEMMA MatchedIds ==
    ASSUME NEW A, NEW ws \in Seq(A), NEW B, NEW p \in Seq(B), NEW C, NEW o \in Seq(C)
    PROVE  [i \in DOMAIN ws |-> ws[i].id]
               = [i \in DOMAIN p |-> p[i].id] \o [i \in DOMAIN o |-> o[i].id]
             <=> Matched(ws, p, o)
  <1> DEFINE f == [i \in DOMAIN ws |-> ws[i].id]
             g == [i \in DOMAIN p |-> p[i].id]
             h == [i \in DOMAIN o |-> o[i].id]
             M == {ws[i].id : i \in DOMAIN ws} \cup {p[i].id : i \in DOMAIN p}
                    \cup {o[i].id : i \in DOMAIN o}
  <1>1. /\ Len(ws) \in Nat /\ DOMAIN ws = 1 .. Len(ws)
        /\ Len(p) \in Nat /\ DOMAIN p = 1 .. Len(p)
        /\ Len(o) \in Nat /\ DOMAIN o = 1 .. Len(o)
    BY LenProperties
  <1>2. /\ f \in [1 .. Len(ws) -> M] /\ g \in [1 .. Len(p) -> M] /\ h \in [1 .. Len(o) -> M]
    BY <1>1
  <1>3. /\ \A i \in 1 .. Len(ws) : f[i] = ws[i].id
        /\ \A i \in 1 .. Len(p) : g[i] = p[i].id
        /\ \A i \in 1 .. Len(o) : h[i] = o[i].id
    BY <1>1
  <1> HIDE DEF f, g, h, M
  <1>4. /\ f \in Seq(M) /\ Len(f) = Len(ws) /\ DOMAIN f = 1 .. Len(ws)
        /\ g \in Seq(M) /\ Len(g) = Len(p) /\ DOMAIN g = 1 .. Len(p)
        /\ h \in Seq(M) /\ Len(h) = Len(o) /\ DOMAIN h = 1 .. Len(o)
    <2>1. f \in Seq(M) /\ Len(f) = Len(ws) /\ DOMAIN f = 1 .. Len(ws)
      BY <1>1, <1>2, FunctionSeq
    <2>2. g \in Seq(M) /\ Len(g) = Len(p) /\ DOMAIN g = 1 .. Len(p)
      BY <1>1, <1>2, FunctionSeq
    <2>3. h \in Seq(M) /\ Len(h) = Len(o) /\ DOMAIN h = 1 .. Len(o)
      BY <1>1, <1>2, FunctionSeq
    <2> QED
      BY <2>1, <2>2, <2>3
  <1>5. /\ g \o h \in Seq(M)
        /\ DOMAIN (g \o h) = 1 .. (Len(p) + Len(o))
        /\ Len(g \o h) = Len(p) + Len(o)
        /\ \A i \in 1 .. Len(p) : (g \o h)[i] = g[i]
        /\ \A i \in 1 .. Len(o) : (g \o h)[Len(p) + i] = h[i]
        /\ \A i \in 1 .. (Len(p) + Len(o)) : i \in 1 .. Len(p) \/ \E j \in 1 .. Len(o) : i = Len(p) + j
    <2>0. g \in Seq(M) /\ h \in Seq(M)
      BY <1>4
    <2>1. DOMAIN (g \o h) = 1 .. (Len(p) + Len(o)) /\ g \o h \in Seq(M)
      <3>1. DOMAIN (g \o h) = 1 .. (Len(g) + Len(h)) /\ g \o h \in Seq(M)
        BY <2>0, ConcatSeq
      <3> QED
        BY <1>4, <3>1
    <2>2. Len(g \o h) = Len(p) + Len(o)
      <3>1. Len(g \o h) = Len(g) + Len(h)
        BY <2>0, ConcatProperties
      <3> QED
        BY <1>4, <3>1
    <2>3. \A i \in 1 .. Len(p) : (g \o h)[i] = g[i]
      BY <1>4, ConcatSeq
    <2>4. \A i \in 1 .. Len(o) : (g \o h)[Len(p) + i] = h[i]
      BY <1>4, ConcatSeq
    <2>5. \A i \in 1 .. (Len(p) + Len(o)) : i \in 1 .. Len(p) \/ \E j \in 1 .. Len(o) : i = Len(p) + j
      <3>1. \A i \in DOMAIN (g \o h) : i \in DOMAIN g \/ \E j \in DOMAIN h : i = Len(g) + j
        BY <2>0, ConcatSeq
      <3> QED
        BY <1>4, <2>1, <3>1
    <2> QED
      BY <2>1, <2>2, <2>3, <2>4, <2>5
  <1>6. ASSUME f = g \o h PROVE Matched(ws, p, o)
    <2>1. Len(ws) = Len(p) + Len(o)
      BY <1>4, <1>5, <1>6
    <2>2. \A i \in 1 .. Len(p) : i \in 1 .. Len(ws)
      BY <1>1, <2>1
    <2>3. \A i \in 1 .. Len(o) : Len(p) + i \in 1 .. Len(ws)
      BY <1>1, <2>1
    <2>4. \A i \in 1 .. Len(p) : ws[i].id = p[i].id
      BY <1>3, <1>5, <1>6, <2>2
    <2>5. \A i \in 1 .. Len(o) : ws[Len(p) + i].id = o[i].id
      BY <1>3, <1>5, <1>6, <2>3
    <2> QED
      BY <2>1, <2>4, <2>5 DEF Matched
  <1>7. ASSUME Matched(ws, p, o) PROVE f = g \o h
    <2>1. Len(ws) = Len(p) + Len(o)
      BY <1>7 DEF Matched
    <2>2. ASSUME NEW i \in 1 .. Len(ws) PROVE f[i] = (g \o h)[i]
      <3>1. CASE i \in 1 .. Len(p)
        BY <1>3, <1>5, <1>7, <3>1 DEF Matched
      <3>2. ASSUME NEW j \in 1 .. Len(o), i = Len(p) + j PROVE f[i] = (g \o h)[i]
        BY <1>3, <1>5, <1>7, <3>2 DEF Matched
      <3> QED
        BY <1>5, <2>1, <3>1, <3>2
    <2>3. Len(g \o h) = Len(f) /\ Len(f) = Len(ws)
      BY <1>4, <1>5, <2>1
    <2> QED
      BY <1>4, <1>5, <2>2, <2>3, SeqEqual
  <1> QED
    BY <1>6, <1>7 DEF f, g, h

\* A write queued by the client, and its put (FPersistentConnection putInternal).
LEMMA MatchedAdd ==
    ASSUME NEW A, NEW ws \in Seq(A), NEW w \in A, NEW B, NEW p \in Seq(B),
           NEW C, NEW o \in Seq(C), NEW q \in C, Matched(ws, p, o), w.id = q.id
    PROVE  Matched(Append(ws, w), p, Append(o, q))
  <1>1. /\ Len(Append(ws, w)) = Len(ws) + 1 /\ Len(ws) \in Nat
        /\ \A i \in 1 .. Len(ws) : Append(ws, w)[i] = ws[i]
        /\ Append(ws, w)[Len(ws) + 1] = w
    BY AppendSeq
  <1>2. /\ Len(Append(o, q)) = Len(o) + 1 /\ Len(o) \in Nat
        /\ \A i \in 1 .. Len(o) : Append(o, q)[i] = o[i]
        /\ Append(o, q)[Len(o) + 1] = q
    BY AppendSeq
  <1>3. /\ Len(p) \in Nat /\ Len(ws) = Len(p) + Len(o)
        /\ \A i \in 1 .. Len(p) : ws[i].id = p[i].id
        /\ \A i \in 1 .. Len(o) : ws[Len(p) + i].id = o[i].id
    BY LenProperties DEF Matched
  <1>4. Len(Append(ws, w)) = Len(p) + Len(Append(o, q))
    BY <1>1, <1>2, <1>3
  <1>5. \A i \in 1 .. Len(p) : Append(ws, w)[i].id = p[i].id
    <2>1. \A i \in 1 .. Len(p) : i \in 1 .. Len(ws)
      BY <1>2, <1>3
    <2> QED
      BY <1>1, <1>3, <2>1
  <1>6. ASSUME NEW i \in 1 .. Len(Append(o, q))
        PROVE  Append(ws, w)[Len(p) + i].id = Append(o, q)[i].id
    <2>1. CASE i \in 1 .. Len(o)
      <3>1. Len(p) + i \in 1 .. Len(ws)
        BY <1>3, <2>1
      <3>2. Append(ws, w)[Len(p) + i] = ws[Len(p) + i]
        BY <1>1, <3>1
      <3> QED
        BY <1>2, <1>3, <2>1, <3>2
    <2>2. CASE i = Len(o) + 1
      <3>1. Len(p) + i = Len(ws) + 1
        BY <1>2, <1>3, <2>2
      <3> QED
        BY <1>1, <1>2, <2>2, <3>1
    <2>3. i \in 1 .. Len(o) \/ i = Len(o) + 1
      BY <1>2
    <2> QED
      BY <2>1, <2>2, <2>3
  <1> QED
    BY <1>4, <1>5, <1>6 DEF Matched

\* The answer to the first outstanding put is held back (onPutResponse).
LEMMA MatchedHold ==
    ASSUME NEW A, NEW ws \in Seq(A), NEW B, NEW p \in Seq(B), NEW a \in B,
           NEW C, NEW o \in Seq(C), o # <<>>, Matched(ws, p, o), a.id = o[1].id
    PROVE  Matched(ws, Append(p, a), Tail(o))
  <1>1. /\ Len(Append(p, a)) = Len(p) + 1 /\ Len(p) \in Nat
        /\ \A i \in 1 .. Len(p) : Append(p, a)[i] = p[i]
        /\ Append(p, a)[Len(p) + 1] = a
    BY AppendSeq
  <1>2. /\ Len(o) \in Nat /\ Len(o) >= 1 /\ Len(Tail(o)) = Len(o) - 1
        /\ \A i \in 1 .. (Len(o) - 1) : Tail(o)[i] = o[i + 1]
    <2>1. DOMAIN Tail(o) = 1 .. (Len(o) - 1) /\ 1 \in DOMAIN o
          /\ \A i \in 1 .. (Len(o) - 1) : Tail(o)[i] = o[i + 1]
      BY TailSeq
    <2>2. Len(o) \in Nat /\ DOMAIN o = 1 .. Len(o) /\ Len(Tail(o)) = Len(o) - 1
      BY HeadTailProperties, LenProperties
    <2> QED
      BY <2>1, <2>2
  <1>3. /\ Len(ws) = Len(p) + Len(o)
        /\ \A i \in 1 .. Len(p) : ws[i].id = p[i].id
        /\ \A i \in 1 .. Len(o) : ws[Len(p) + i].id = o[i].id
    BY DEF Matched
  <1>4. Len(ws) = Len(Append(p, a)) + Len(Tail(o))
    BY <1>1, <1>2, <1>3
  <1>5. ASSUME NEW i \in 1 .. Len(Append(p, a))
        PROVE  ws[i].id = Append(p, a)[i].id
    <2>1. CASE i \in 1 .. Len(p)
      BY <1>1, <1>3, <2>1
    <2>2. CASE i = Len(p) + 1
      <3>1. 1 \in 1 .. Len(o)
        BY <1>2
      <3> QED
        BY <1>1, <1>3, <2>2, <3>1
    <2> QED
      BY <1>1, <2>1, <2>2
  <1>6. ASSUME NEW i \in 1 .. Len(Tail(o))
        PROVE  ws[Len(Append(p, a)) + i].id = Tail(o)[i].id
    <2>1. PICK j \in 1 .. Len(o) : j = i + 1 /\ i \in 1 .. (Len(o) - 1)
      BY <1>2
    <2>2. Len(Append(p, a)) + i = Len(p) + j
      BY <1>1, <2>1
    <2> QED
      BY <1>2, <1>3, <2>1, <2>2
  <1> QED
    BY <1>4, <1>5, <1>6 DEF Matched

\* The first outstanding put is answered, and the client hears of it at once.
LEMMA MatchedAck ==
    ASSUME NEW ws \in Seq(Write), NEW B, NEW p \in Seq(B),
           NEW C, NEW o \in Seq(C), o # <<>>, Matched(ws, p, o)
    PROVE  /\ Len(p) + 1 \in DOMAIN ws
           /\ ws[Len(p) + 1].id = o[1].id
           /\ Matched(RemoveIndex(ws, Len(p) + 1), p, Tail(o))
  <1>1. /\ Len(o) \in Nat /\ Len(o) >= 1 /\ Len(Tail(o)) = Len(o) - 1
        /\ \A i \in 1 .. (Len(o) - 1) : Tail(o)[i] = o[i + 1]
    <2>1. DOMAIN Tail(o) = 1 .. (Len(o) - 1) /\ 1 \in DOMAIN o
          /\ \A i \in 1 .. (Len(o) - 1) : Tail(o)[i] = o[i + 1]
      BY TailSeq
    <2>2. Len(o) \in Nat /\ DOMAIN o = 1 .. Len(o) /\ Len(Tail(o)) = Len(o) - 1
      BY HeadTailProperties, LenProperties
    <2> QED
      BY <2>1, <2>2
  <1>2. /\ Len(p) \in Nat /\ Len(ws) = Len(p) + Len(o)
        /\ \A i \in 1 .. Len(p) : ws[i].id = p[i].id
        /\ \A i \in 1 .. Len(o) : ws[Len(p) + i].id = o[i].id
    BY LenProperties DEF Matched
  <1>3. PICK n \in Nat : n = Len(p) + 1
    BY <1>2
  <1>4. n \in DOMAIN ws /\ ws[n].id = o[1].id
    <2>1. n \in 1 .. Len(ws) /\ 1 \in 1 .. Len(o)
      BY <1>1, <1>2, <1>3
    <2> QED
      BY <1>2, <1>3, <2>1
  <1>5. /\ Len(RemoveIndex(ws, n)) = Len(ws) - 1
        /\ \A j \in 1 .. (Len(ws) - 1) :
              RemoveIndex(ws, n)[j] = IF j < n THEN ws[j] ELSE ws[j + 1]
    BY <1>4, RemoveIndexSeq
  <1>6. Len(RemoveIndex(ws, n)) = Len(p) + Len(Tail(o))
    BY <1>1, <1>2, <1>5
  <1>7. ASSUME NEW i \in 1 .. Len(p)
        PROVE  RemoveIndex(ws, n)[i].id = p[i].id
    <2>1. i \in 1 .. (Len(ws) - 1) /\ i < n
      BY <1>1, <1>2, <1>3
    <2> QED
      BY <1>2, <1>5, <2>1
  <1>8. ASSUME NEW i \in 1 .. Len(Tail(o))
        PROVE  RemoveIndex(ws, n)[Len(p) + i].id = Tail(o)[i].id
    <2>1. i \in 1 .. (Len(o) - 1) /\ i + 1 \in 1 .. Len(o)
      BY <1>1
    <2>2. PICK j \in 1 .. (Len(ws) - 1) : j = Len(p) + i
      BY <1>2, <2>1
    <2>3. ~(j < n) /\ j + 1 = Len(p) + (i + 1)
      BY <1>2, <1>3, <2>1, <2>2
    <2>4. RemoveIndex(ws, n)[j].id = ws[j + 1].id
      BY <1>5, <2>3
    <2> QED
      BY <1>1, <1>2, <2>1, <2>2, <2>3, <2>4
  <1>9. Matched(RemoveIndex(ws, n), p, Tail(o))
    BY <1>6, <1>7, <1>8 DEF Matched
  <1> QED
    BY <1>3, <1>4, <1>9

\* The first answer held back is passed on (ackPuts).
LEMMA MatchedNext ==
    ASSUME NEW ws \in Seq(Write), NEW B, NEW p \in Seq(B), p # <<>>,
           NEW C, NEW o \in Seq(C), Matched(ws, p, o)
    PROVE  /\ 1 \in DOMAIN ws
           /\ ws[1].id = p[1].id
           /\ Matched(RemoveIndex(ws, 1), Tail(p), o)
  <1>1. /\ Len(p) \in Nat /\ Len(p) >= 1 /\ Len(Tail(p)) = Len(p) - 1
        /\ \A i \in 1 .. (Len(p) - 1) : Tail(p)[i] = p[i + 1]
    <2>1. DOMAIN Tail(p) = 1 .. (Len(p) - 1) /\ 1 \in DOMAIN p
          /\ \A i \in 1 .. (Len(p) - 1) : Tail(p)[i] = p[i + 1]
      BY TailSeq
    <2>2. Len(p) \in Nat /\ DOMAIN p = 1 .. Len(p) /\ Len(Tail(p)) = Len(p) - 1
      BY HeadTailProperties, LenProperties
    <2> QED
      BY <2>1, <2>2
  <1>2. /\ Len(o) \in Nat /\ Len(ws) = Len(p) + Len(o)
        /\ \A i \in 1 .. Len(p) : ws[i].id = p[i].id
        /\ \A i \in 1 .. Len(o) : ws[Len(p) + i].id = o[i].id
    BY LenProperties DEF Matched
  <1>3. 1 \in DOMAIN ws /\ 1 \in 1 .. Len(p)
    BY <1>1, <1>2
  <1>4. /\ Len(RemoveIndex(ws, 1)) = Len(ws) - 1
        /\ \A j \in 1 .. (Len(ws) - 1) : RemoveIndex(ws, 1)[j] = ws[j + 1]
    <2>1. ws # <<>>
      BY <1>3
    <2> QED
      BY <2>1, RemoveOldest
  <1>5. Len(RemoveIndex(ws, 1)) = Len(Tail(p)) + Len(o)
    BY <1>1, <1>2, <1>4
  <1>6. ASSUME NEW i \in 1 .. Len(Tail(p))
        PROVE  RemoveIndex(ws, 1)[i].id = Tail(p)[i].id
    <2>1. i \in 1 .. (Len(p) - 1) /\ i \in 1 .. (Len(ws) - 1) /\ i + 1 \in 1 .. Len(p)
      BY <1>1, <1>2
    <2> QED
      BY <1>1, <1>2, <1>4, <2>1
  <1>7. ASSUME NEW i \in 1 .. Len(o)
        PROVE  RemoveIndex(ws, 1)[Len(Tail(p)) + i].id = o[i].id
    <2>1. PICK j \in Nat : j = Len(Tail(p)) + i
      <3>1. Len(Tail(p)) \in Nat /\ i \in Nat
        BY <1>1, <1>2
      <3>2. Len(Tail(p)) + i \in Nat
        BY <3>1
      <3> QED
        BY <3>2
    <2>2. j \in 1 .. (Len(ws) - 1) /\ j + 1 = Len(p) + i
      BY <1>1, <1>2, <2>1
    <2> QED
      BY <1>2, <1>4, <2>1, <2>2
  <1>8. Matched(RemoveIndex(ws, 1), Tail(p), o)
    BY <1>5, <1>6, <1>7 DEF Matched
  <1> QED
    BY <1>2, <1>3, <1>8

\* Removing the first element leaves the tail.
LEMMA RemoveAtFirst ==
    ASSUME NEW S, NEW s \in Seq(S), s # <<>>
    PROVE  RemoveAt(s, 1) = Tail(s)
  <1>0. Len(s) \in Nat /\ DOMAIN s = 1 .. Len(s) /\ 1 \in DOMAIN s
    BY LenProperties, TailSeq
  <1>1. PICK r \in Seq(S) :
           /\ r = RemoveAt(s, 1)
           /\ DOMAIN r = 1 .. (Len(s) - 1)
           /\ \A j \in 1 .. (Len(s) - 1) : r[j] = IF j < 1 THEN s[j] ELSE s[j + 1]
    BY <1>0, RemoveAtSeq
  <1>2. PICK t \in Seq(S) :
           /\ t = Tail(s)
           /\ DOMAIN t = 1 .. (Len(s) - 1)
           /\ \A j \in 1 .. (Len(s) - 1) : t[j] = s[j + 1]
    <2>1. /\ Tail(s) \in Seq(S)
          /\ DOMAIN Tail(s) = 1 .. (Len(s) - 1)
          /\ \A j \in 1 .. (Len(s) - 1) : Tail(s)[j] = s[j + 1]
      BY TailSeq
    <2> QED
      BY <2>1
  <1>3. PICK n \in Nat : n = Len(s) - 1
    <2>1. Len(s) - 1 \in Nat
      BY <1>0
    <2> QED
      BY <2>1
  <1>4. Len(r) = n /\ Len(t) = n
    <2>1. ASSUME NEW m \in Nat, 1 .. m = 1 .. n PROVE m = n
      <3>1. (m \in 1 .. m <=> m >= 1) /\ (n \in 1 .. n <=> n >= 1)
        OBVIOUS
      <3>2. (m \in 1 .. n <=> m >= 1 /\ m <= n) /\ (n \in 1 .. m <=> n >= 1 /\ n <= m)
        OBVIOUS
      <3> QED
        BY <2>1, <3>1, <3>2
    <2>2. Len(r) \in Nat /\ Len(t) \in Nat /\ 1 .. Len(r) = 1 .. n /\ 1 .. Len(t) = 1 .. n
      BY <1>1, <1>2, <1>3, LenProperties
    <2> QED
      BY <2>1, <2>2
  <1>5. \A j \in 1 .. n : r[j] = t[j]
    <2>1. \A j \in 1 .. n : ~(j < 1)
      OBVIOUS
    <2> QED
      BY <1>1, <1>2, <1>3, <2>1
  <1>6. r = t
    BY <1>4, <1>5, SeqEqual
  <1> QED
    BY <1>1, <1>2, <1>6

-----------------------------------------------------------------------------
(* What the invariant says of the write that is answered *)

\* PutsMatchWrites, element by element.
LEMMA WritesMatched ==
    ASSUME RepoTypeOK, ConnectionTypeOK
    PROVE  PutsMatchWrites <=> Matched(allWrites, putsToAck, outstandingPuts)
  <1>1. allWrites \in Seq(Write) /\ putsToAck \in Seq(PutAnswer) /\ outstandingPuts \in Seq(Put)
    BY DEF RepoTypeOK, ConnectionTypeOK
  <1> QED
    BY <1>1, MatchedIds DEF PutsMatchWrites

\* No two pending writes have one id.
LEMMA UniqueWrite ==
    ASSUME RepoTypeOK, WriteIdsIncrease, NEW i \in DOMAIN allWrites, NEW j \in DOMAIN allWrites,
           allWrites[i].id = allWrites[j].id
    PROVE  i = j
  <1>1. allWrites \in Seq(Write) /\ DOMAIN allWrites = 1 .. Len(allWrites) /\ Len(allWrites) \in Nat
    BY DEF RepoTypeOK
  <1>2. allWrites[i].id \in Nat /\ allWrites[j].id \in Nat
    BY <1>1, QueuedWrite
  <1>3. ~(i < j) /\ ~(j < i)
    BY <1>2 DEF WriteIdsIncrease
  <1> QED
    BY <1>1, <1>3

\* The outstanding puts are in the order of their ids, all older than the next.
LEMMA OutstandingOrder ==
    ASSUME ConnectionInv
    PROVE  /\ \A i, j \in DOMAIN outstandingPuts :
                 i < j => outstandingPuts[i].id < outstandingPuts[j].id
           /\ PutsInOrder(outstandingPuts)
           /\ \A a \in PutIds(outstandingPuts) : a < writeIdCounter
  <1>1. /\ allWrites \in Seq(Write) /\ WriteIdsIncrease
        /\ outstandingPuts \in Seq(Put) /\ putsToAck \in Seq(PutAnswer)
        /\ Matched(allWrites, putsToAck, outstandingPuts)
    BY WritesMatched DEF ConnectionInv, RepoInv, RepoTypeOK, ConnectionTypeOK
  <1>2. /\ Len(allWrites) = Len(putsToAck) + Len(outstandingPuts)
        /\ \A i \in 1 .. Len(outstandingPuts) :
              allWrites[Len(putsToAck) + i].id = outstandingPuts[i].id
        /\ Len(putsToAck) \in Nat /\ Len(outstandingPuts) \in Nat
        /\ DOMAIN outstandingPuts = 1 .. Len(outstandingPuts)
        /\ DOMAIN allWrites = 1 .. Len(allWrites)
    BY <1>1, LenProperties DEF Matched
  <1>3. \A i \in DOMAIN outstandingPuts : Len(putsToAck) + i \in DOMAIN allWrites
    BY <1>2
  <1>4. ASSUME NEW i \in DOMAIN outstandingPuts, NEW j \in DOMAIN outstandingPuts, i < j
        PROVE  outstandingPuts[i].id < outstandingPuts[j].id
    <2>1. Len(putsToAck) + i < Len(putsToAck) + j
      BY <1>2, <1>4
    <2>2. allWrites[Len(putsToAck) + i].id < allWrites[Len(putsToAck) + j].id
      BY <1>1, <1>3, <2>1 DEF WriteIdsIncrease
    <2> QED
      BY <1>2, <2>2
  <1>5. \A i \in DOMAIN outstandingPuts : outstandingPuts[i].id < writeIdCounter
    <2> TAKE i \in DOMAIN outstandingPuts
    <2>1. allWrites[Len(putsToAck) + i].id < writeIdCounter
      BY <1>1, <1>3 DEF WriteIdsIncrease
    <2> QED
      BY <1>2, <2>1
  <1>6. PutIds(outstandingPuts) = {outstandingPuts[i].id : i \in DOMAIN outstandingPuts}
    BY <1>1, PutsOnly
  <1> QED
    BY <1>4, <1>5, <1>6 DEF PutsInOrder

\* The first answer to a put is the answer to the first outstanding put.
LEMMA FirstAnswered ==
    ASSUME ConnectionInv, toClient # <<>>, Head(toClient).type = "put"
    PROVE  /\ connectionState = "connected"
           /\ outstandingPuts # <<>>
           /\ outstandingPuts[1].id = Head(toClient).id
           /\ \A i \in DOMAIN outstandingPuts : outstandingPuts[i].id = Head(toClient).id => i = 1
           /\ PutIds(toServer) \cup PutIds(Tail(toClient)) = PutIds(Tail(outstandingPuts))
  <1>1. toClient \in Seq(ToClient) /\ toServer \in Seq(ToServer) /\ outstandingPuts \in Seq(Put)
    BY DEF ConnectionInv, ConnectionTypeOK
  <1> DEFINE a == Head(toClient)
             rest == PutIds(toServer) \cup PutIds(Tail(toClient))
  <1>2. /\ PutIds(toClient) = PutIds(Tail(toClient)) \cup {a.id}
        /\ \A b \in PutIds(Tail(toClient)) : a.id < b
        /\ Tail(toClient) \in Seq(ToClient)
    BY <1>1, Taken DEF ConnectionInv, PutsInFlight
  <1>3. connectionState = "connected" /\ rest \cup {a.id} = PutIds(outstandingPuts)
    BY <1>2 DEF ConnectionInv, PutsInFlight
  <1>4. \A b \in rest : a.id < b
    BY <1>2 DEF ConnectionInv, PutsInFlight, Before
  <1>5. PutIds(outstandingPuts) = {outstandingPuts[i].id : i \in DOMAIN outstandingPuts}
    BY <1>1, PutsOnly
  <1>6. PICK n \in DOMAIN outstandingPuts : outstandingPuts[n].id = a.id
    BY <1>3, <1>5
  <1>7. /\ DOMAIN outstandingPuts = 1 .. Len(outstandingPuts) /\ Len(outstandingPuts) \in Nat
        /\ n \in Nat /\ 1 <= n /\ 1 \in DOMAIN outstandingPuts
    BY <1>1, <1>6, LenProperties
  <1>8. /\ \A i \in DOMAIN outstandingPuts : outstandingPuts[i].id \in Nat
        /\ \A i, j \in DOMAIN outstandingPuts : i < j => outstandingPuts[i].id < outstandingPuts[j].id
        /\ PutsInOrder(outstandingPuts)
    BY <1>1, PutsOnly, OutstandingOrder
  <1>9. n = 1
    <2> SUFFICES ASSUME 1 < n PROVE FALSE
      BY <1>7
    <2>1. outstandingPuts[1].id < a.id
      BY <1>6, <1>7, <1>8
    <2>2. outstandingPuts[1].id \in rest \cup {a.id}
      BY <1>3, <1>5, <1>7
    <2>3. outstandingPuts[1].id \in Nat /\ a.id \in Nat
      BY <1>6, <1>7, <1>8
    <2> HIDE DEF rest, a
    <2> QED
      BY <1>4, <2>1, <2>2, <2>3
  <1>10. ASSUME NEW i \in DOMAIN outstandingPuts, outstandingPuts[i].id = a.id
         PROVE  i = 1
    <2> SUFFICES ASSUME 1 < i PROVE FALSE
      BY <1>7
    <2>1. outstandingPuts[1].id < outstandingPuts[i].id
      BY <1>7, <1>8
    <2> QED
      BY <1>6, <1>8, <1>9, <1>10, <2>1
  <1>11. outstandingPuts # <<>> /\ outstandingPuts[1] = Head(outstandingPuts)
    BY <1>7
  <1>12. /\ PutIds(outstandingPuts) = PutIds(Tail(outstandingPuts)) \cup {a.id}
         /\ \A b \in PutIds(Tail(outstandingPuts)) : a.id < b
    <2>1. Head(outstandingPuts).type = "put" /\ Head(outstandingPuts).id = a.id
      BY <1>1, <1>6, <1>7, <1>9, <1>11, PutsOnly
    <2> QED
      BY <1>1, <1>8, <1>11, <2>1, Taken
  <1>13. rest = PutIds(Tail(outstandingPuts))
    <2>1. a.id \in Nat
      BY <1>6, <1>8
    <2>2. a.id \notin rest /\ a.id \notin PutIds(Tail(outstandingPuts))
      <3> HIDE DEF rest, a
      <3> QED
        BY <1>4, <1>12, <2>1
    <2> HIDE DEF rest, a
    <2>3. rest \cup {a.id} = PutIds(Tail(outstandingPuts)) \cup {a.id}
      BY <1>3, <1>12
    <2>4. \A b : b \in rest <=> b \in PutIds(Tail(outstandingPuts))
      BY <2>2, <2>3
    <2> QED
      BY <2>4
  <1> QED
    BY <1>3, <1>6, <1>9, <1>10, <1>11, <1>13

\* While no listen is unanswered on an open connection, a view has its data.
LEMMA AnsweredComplete ==
    ASSUME ConnectionInv, connectionState = "connected", unackedListens = 0, listening
    PROVE  serverComplete
  <1>1. toClient \in Seq(ToClient) /\ toServer \in Seq(ToServer)
    BY DEF ConnectionInv, ConnectionTypeOK
  <1>2. Count(toServer) \in Nat /\ Count(toClient) \in Nat
    BY <1>1, CountType
  <1>3. Count(toServer) = 0 /\ Count(toClient) = 0
    BY <1>2 DEF ConnectionInv, ListensCounted
  <1>4. ~HasListen(toServer, listenSpec) /\ ~HasListen(toClient, listenSpec)
    BY <1>1, <1>3, CountZero DEF HasListen, Listens
  <1> QED
    BY <1>4 DEF ConnectionInv, QueryInv

\* A query whose listen is in a channel is counted there.
LEMMA ListenCounts ==
    ASSUME NEW M, NEW s \in Seq(M), NEW spec, HasListen(s, spec)
    PROVE  Count(s) \in Nat /\ Count(s) > 0
  <1>1. Count(s) # 0
    BY CountZero DEF HasListen, Listens
  <1>2. Count(s) \in Nat
    BY CountType
  <1> QED
    BY <1>1, <1>2

\* Data the server sends ahead of an answer, or pushes.
LEMMA DataSent ==
    ASSUME NEW M, NEW s \in Seq(M), NEW d \in Seq(M),
           \A i \in DOMAIN d : d[i].type \in {"snapshot", "child"}
    PROVE  /\ s \o d \in Seq(M)
           /\ Count(s \o d) = Count(s)
           /\ PutIds(s \o d) = PutIds(s)
           /\ PutsInOrder(s \o d) <=> PutsInOrder(s)
           /\ HasAuth(s \o d) <=> HasAuth(s)
           /\ AuthFirst(s) => AuthFirst(s \o d)
           /\ \A spec : HasListen(s \o d, spec) <=> HasListen(s, spec)
  <1>1. /\ Count(d) = 0 /\ PutIds(d) = {} /\ ~HasAuth(d) /\ PutsInOrder(d)
        /\ \A spec : ~HasListen(d, spec)
    <2>1. \A i \in DOMAIN d : d[i].type # "listen" /\ d[i].type # "auth" /\ d[i].type # "put"
      OBVIOUS
    <2>2. Count(d) = 0
      BY <2>1, CountZero
    <2> QED
      BY <2>1, <2>2 DEF PutIds, HasAuth, PutsInOrder, HasListen, Listens
  <1>2. Count(s \o d) = Count(s)
    <2>1. Count(s \o d) = Count(s) + Count(d) /\ Count(s) \in Nat
      BY CountConcat, CountType
    <2> QED
      BY <1>1, <2>1
  <1>3. PutIds(s \o d) = PutIds(s)
    <2>1. PutIds(s \o d) = PutIds(s) \cup PutIds(d)
      BY PutIdsConcat
    <2> QED
      BY <1>1, <2>1
  <1>4. PutsInOrder(s \o d) <=> PutsInOrder(s)
    BY <1>1, InOrderConcat DEF Before
  <1>5. (HasAuth(s \o d) <=> HasAuth(s)) /\ (AuthFirst(s) => AuthFirst(s \o d))
    BY <1>1, HasAuthConcat DEF AuthFirst
  <1>6. \A spec : HasListen(s \o d, spec) <=> HasListen(s, spec)
    BY <1>1, HasListenConcat
  <1>7. s \o d \in Seq(M)
    BY ConcatSeq
  <1> QED
    BY <1>2, <1>3, <1>4, <1>5, <1>6, <1>7

\* The outstanding listen and puts sent again (FPersistentConnection

\* restoreState), on a socket on which none is.
LEMMA Restoring ==
    ASSUME ConnectionInv, RestoreState, PutIds(toServer) = {}, ~HasAuth(toServer)
    PROVE  /\ connectionState' = "connected"
           /\ toServer' \in Seq(ToServer)
           /\ unackedListens' \in Nat
           /\ unackedListens' = Count(toServer') + Count(toClient)
           /\ PutIds(toServer') = PutIds(outstandingPuts)
           /\ PutsInOrder(toServer') /\ ~HasAuth(toServer')
           /\ listenSpec # 0 => HasListen(toServer', listenSpec)
  <1> DEFINE m == ListenRequest(listenSpec, serverCache)
             l == IF listenSpec = 0 THEN <<>> ELSE <<m>>
             n == IF listenSpec = 0 THEN 0 ELSE 1
             r == Restored(l)
  <1>1. /\ toServer \in Seq(ToServer) /\ toClient \in Seq(ToClient) /\ outstandingPuts \in Seq(Put)
        /\ Count(toServer) \in Nat /\ Count(toClient) \in Nat
        /\ unackedListens = Count(toServer) + Count(toClient)
    BY CountType DEF ConnectionInv, ConnectionTypeOK, ListensCounted
  <1>2. /\ outstandingPuts \in Seq(ToServer) /\ Count(outstandingPuts) = 0
        /\ ~HasAuth(outstandingPuts) /\ PutsInOrder(outstandingPuts)
    BY <1>1, PutsOnly, OutstandingOrder
  <1>3. m \in ToServer /\ m.type = "listen" /\ m.spec = listenSpec
    <2>1. listenSpec \in Nat /\ serverCache \in [Key -> Node]
      BY DEF ConnectionInv, ConnectionTypeOK, RepoTypeOK
    <2> QED
      BY <2>1 DEF ListenRequest, ToServer
  <1>4. /\ l \in Seq(ToServer) /\ Count(l) = n /\ PutIds(l) = {} /\ PutsInOrder(l) /\ ~HasAuth(l)
        /\ listenSpec # 0 => HasListen(l, listenSpec)
    <2>1. CASE listenSpec = 0
      <3>1. l = <<>> /\ n = 0 /\ <<>> \in Seq(ToServer)
        BY <2>1
      <3> HIDE DEF l, n
      <3> QED
        BY <2>1, <3>1, NoMessage
    <2>2. CASE listenSpec # 0
      <3>1. l = <<m>> /\ n = 1
        BY <2>2
      <3> HIDE DEF l, n, m
      <3>2. <<m>> \in Seq(ToServer) /\ Count(<<m>>) = 1 /\ PutIds(<<m>>) = {} /\ PutsInOrder(<<m>>)
        BY <1>3, SingleMessage
      <3>3. ~HasAuth(<<m>>) /\ HasListen(<<m>>, listenSpec)
        BY <1>3, SingleAuthListen
      <3> QED
        BY <3>1, <3>2, <3>3
    <2> QED
      BY <2>1, <2>2
  <1>5. n \in Nat /\ n + 0 = n
    OBVIOUS
  <1>6. /\ connectionState' = "connected" /\ toServer' = toServer \o r
        /\ unackedListens' = unackedListens + n /\ r = l \o outstandingPuts
    BY DEF RestoreState, SentListens, Restored
  <1> HIDE DEF l, n, m, r
  <1>7. /\ r \in Seq(ToServer) /\ PutIds(r) = PutIds(outstandingPuts) /\ PutsInOrder(r) /\ ~HasAuth(r)
        /\ listenSpec # 0 => HasListen(r, listenSpec)
    <2>0. r \in Seq(ToServer)
      BY <1>2, <1>4, <1>6, ConcatSeq
    <2>1. PutIds(r) = PutIds(l) \cup PutIds(outstandingPuts)
      <3>1. l \in Seq(ToServer) /\ outstandingPuts \in Seq(ToServer)
        BY <1>2, <1>4
      <3>2. PutIds(l \o outstandingPuts) = PutIds(l) \cup PutIds(outstandingPuts)
        BY <3>1, PutIdsConcat
      <3> QED
        BY <1>6, <3>2
    <2>2. PutsInOrder(r)
      BY <1>2, <1>4, <1>6, InOrderConcat DEF Before
    <2>3. ~HasAuth(r) /\ (listenSpec # 0 => HasListen(r, listenSpec))
      BY <1>2, <1>4, <1>6, HasAuthConcat, HasListenConcat
    <2> QED
      BY <1>4, <2>0, <2>1, <2>2, <2>3
  <1>8. Count(r) = n
    <2>1. Count(r) = Count(l) + Count(outstandingPuts)
      BY <1>2, <1>4, <1>6, CountConcat
    <2> QED
      BY <1>2, <1>4, <1>5, <2>1
  <1>9. toServer' \in Seq(ToServer) /\ PutIds(toServer') = PutIds(outstandingPuts)
    <2>0. toServer \in Seq(ToServer) /\ r \in Seq(ToServer)
      BY <1>1, <1>7
    <2>1. PutIds(toServer \o r) = PutIds(toServer) \cup PutIds(r)
      <3>1. \A s, t \in Seq(ToServer) : PutIds(s \o t) = PutIds(s) \cup PutIds(t)
        BY PutIdsConcat
      <3> QED
        BY <2>0, <3>1
    <2>2. toServer \o r \in Seq(ToServer)
      BY <1>1, <1>7, ConcatSeq
    <2> QED
      BY <1>6, <1>7, <2>1, <2>2
  <1>10. PutsInOrder(toServer')
    <2>1. Before(toServer, r) /\ PutsInOrder(toServer)
      BY DEF Before, ConnectionInv, PutsInFlight
    <2> QED
      BY <1>1, <1>6, <1>7, <2>1, InOrderConcat
  <1>11. ~HasAuth(toServer') /\ (listenSpec # 0 => HasListen(toServer', listenSpec))
    BY <1>1, <1>6, <1>7, HasAuthConcat, HasListenConcat
  <1>12. unackedListens' \in Nat /\ unackedListens' = Count(toServer') + Count(toClient)
    <2>1. Count(toServer \o r) = Count(toServer) + Count(r)
      BY <1>1, <1>7, CountConcat
    <2>2. Count(toServer') = Count(toServer) + n
      BY <1>6, <1>8, <2>1
    <2> QED
      BY <1>1, <1>5, <1>6, <2>2
  <1> QED
    BY <1>6, <1>9, <1>10, <1>11, <1>12

-----------------------------------------------------------------------------
(* Answers reach the client in the order Repo assumes *)

\* A round of ackPuts passes on the answer to the oldest write.
LEMMA AckPutsAnswers ==
    ASSUME ConnectionInv, AckPuts
    PROVE  /\ MayAnswer(1)
           /\ \E success \in BOOLEAN : AckWrite(1, success)
           /\ Matched(allWrites', putsToAck', outstandingPuts')
  <1>1. /\ allWrites \in Seq(Write) /\ putsToAck \in Seq(PutAnswer) /\ outstandingPuts \in Seq(Put)
        /\ RepoTypeOK /\ WriteIdsIncrease
        /\ Matched(allWrites, putsToAck, outstandingPuts)
        /\ acking /\ putsToAck # <<>> /\ (listening => serverComplete)
    BY WritesMatched DEF ConnectionInv, RepoInv, RepoTypeOK, ConnectionTypeOK, HeldBack, AckPuts
  <1>2. putsToAck[1] = Head(putsToAck) /\ putsToAck[1] \in PutAnswer
    BY <1>1, TailSeq
  <1>3. /\ 1 \in DOMAIN allWrites /\ allWrites[1].id = putsToAck[1].id
        /\ Matched(RemoveIndex(allWrites, 1), Tail(putsToAck), outstandingPuts)
    BY <1>1, MatchedNext
  <1>4. PICK i \in DOMAIN allWrites :
           allWrites[i].id = putsToAck[1].id /\ AckWrite(i, putsToAck[1].ok)
    BY <1>2 DEF AckPuts, AckToClient
  <1>5. i = 1
    BY <1>1, <1>3, <1>4, UniqueWrite
  <1>6. putsToAck[1].ok \in BOOLEAN
    BY <1>2 DEF PutAnswer
  <1>7. AckWrite(1, putsToAck[1].ok)
    BY <1>4, <1>5
  <1>8. MayAnswer(1)
    BY <1>1, <1>3 DEF MayAnswer
  <1>9. /\ allWrites' = RemoveIndex(allWrites, 1)
        /\ putsToAck' = Tail(putsToAck) /\ outstandingPuts' = outstandingPuts
    BY <1>7 DEF AckWrite, RemoveWriteId, AckPuts
  <1> QED
    BY <1>3, <1>6, <1>7, <1>8, <1>9

\* The answer to a put is the one to the first outstanding put.  It is held

\* back, or is one the client may hear of.
LEMMA PutResponseAnswers ==
    ASSUME ConnectionInv, OnPutResponse
    PROVE  /\ outstandingPuts' = Tail(outstandingPuts)
           /\ Matched(allWrites', putsToAck', outstandingPuts')
           /\ unackedListens # 0 => /\ UNCHANGED repoVars
                                    /\ putsToAck' = Append(putsToAck, Head(toClient))
           /\ unackedListens = 0 => /\ putsToAck' = putsToAck
                                    /\ \E i \in DOMAIN allWrites, success \in BOOLEAN :
                                          MayAnswer(i) /\ AckWrite(i, success)
  <1> DEFINE a == Head(toClient)
             n == Len(putsToAck) + 1
  <1>1. /\ allWrites \in Seq(Write) /\ putsToAck \in Seq(PutAnswer) /\ outstandingPuts \in Seq(Put)
        /\ toClient \in Seq(ToClient) /\ toClient # <<>> /\ a.type = "put"
        /\ RepoTypeOK /\ WriteIdsIncrease /\ ~acking
        /\ Matched(allWrites, putsToAck, outstandingPuts)
    BY WritesMatched
    DEF ConnectionInv, RepoInv, RepoTypeOK, ConnectionTypeOK, OnPutResponse, Receive
  <1>2. a \in PutAnswer /\ a.ok \in BOOLEAN
    BY <1>1, Message, TailSeq
  <1>3. /\ connectionState = "connected"
        /\ outstandingPuts # <<>> /\ outstandingPuts[1].id = a.id
        /\ \A i \in DOMAIN outstandingPuts : outstandingPuts[i].id = a.id => i = 1
    BY <1>1, FirstAnswered
  <1>4. outstandingPuts' = Tail(outstandingPuts)
    <2>1. PICK i \in DOMAIN outstandingPuts :
             outstandingPuts[i].id = a.id /\ outstandingPuts' = RemoveAt(outstandingPuts, i)
      BY DEF OnPutResponse
    <2>2. i = 1
      BY <1>3, <2>1
    <2> QED
      BY <1>1, <1>3, <2>1, <2>2, RemoveAtFirst
  <1>5. CASE unackedListens # 0
    <2>1. UNCHANGED repoVars /\ putsToAck' = Append(putsToAck, a) /\ allWrites' = allWrites
      BY <1>5 DEF OnPutResponse, MustHold, repoVars, writeVars
    <2>2. Matched(allWrites, Append(putsToAck, a), Tail(outstandingPuts))
      BY <1>1, <1>2, <1>3, MatchedHold
    <2> QED
      BY <1>4, <1>5, <2>1, <2>2
  <1>6. CASE unackedListens = 0
    <2>1. AckToClient(a) /\ putsToAck' = putsToAck
      BY <1>6 DEF OnPutResponse, MustHold
    <2>2. /\ n \in DOMAIN allWrites /\ allWrites[n].id = a.id
          /\ Matched(RemoveIndex(allWrites, n), putsToAck, Tail(outstandingPuts))
      BY <1>1, <1>3, MatchedAck
    <2>3. PICK i \in DOMAIN allWrites : allWrites[i].id = a.id /\ AckWrite(i, a.ok)
      BY <2>1 DEF AckToClient
    <2>4. i = n
      BY <1>1, <2>2, <2>3, UniqueWrite
    <2>5. allWrites' = RemoveIndex(allWrites, n)
      BY <2>3, <2>4 DEF AckWrite, RemoveWriteId
    <2>6. ASSUME listening PROVE i = 1 /\ serverComplete
      <3>1. putsToAck = <<>>
        BY <1>1, <1>3, <1>6, <2>6 DEF ConnectionInv, HeldBack
      <3>2. n = 1
        BY <3>1
      <3> QED
        BY <1>3, <1>6, <2>4, <2>6, <3>2, AnsweredComplete
    <2>7. MayAnswer(i)
      BY <2>6 DEF MayAnswer
    <2> HIDE DEF n, a
    <2>8. Matched(allWrites', putsToAck', outstandingPuts')
      BY <1>4, <2>1, <2>2, <2>5
    <2>9. \E j \in DOMAIN allWrites, success \in BOOLEAN : MayAnswer(j) /\ AckWrite(j, success)
      BY <1>2, <2>3, <2>7
    <2> QED
      BY <1>4, <1>6, <2>1, <2>8, <2>9
  <1> QED
    BY <1>4, <1>5, <1>6

\* Every step of the connection is a step of the database client, or none.
LEMMA RepoStep ==
    ConnectionInv /\ [ConnectionNext]_connectionVars => [RepoNext]_repoVars
  <1> SUFFICES ASSUME ConnectionInv, [ConnectionNext]_connectionVars
               PROVE  [RepoNext]_repoVars
    OBVIOUS
  <1>1. ASSUME NEW k \in Key, NEW n \in Node, PutData(k, n)
        PROVE  [RepoNext]_repoVars
    BY <1>1 DEF PutData, RepoNext
  <1>2. CASE Listen
    BY <1>2 DEF Listen, RepoNext
  <1>3. CASE OnDataPush
    <2>1. Head(toClient) \in ToClient
      BY <1>3, TailSeq DEF OnDataPush, Receive, ConnectionInv, ConnectionTypeOK
    <2>2. /\ Head(toClient).type = "snapshot" => Head(toClient).nodes \in [Key -> Node]
          /\ Head(toClient).type = "child" => Head(toClient).key \in Key /\ Head(toClient).node \in Node
      BY <2>1, Message
    <2>3. \/ UNCHANGED repoVars
          \/ Head(toClient).type = "snapshot" /\ ApplyServerSnapshot(Head(toClient).nodes)
          \/ /\ Head(toClient).type = "child"
             /\ ApplyServerOverwrite(Head(toClient).key, Head(toClient).node)
      BY <1>3 DEF OnDataPush, Receive
    <2> QED
      BY <2>2, <2>3 DEF RepoNext
  <1>4. CASE OnListenRevoked
    BY <1>4 DEF OnListenRevoked, RepoNext
  <1>5. CASE OnListenResponse
    BY <1>5 DEF OnListenResponse, RepoNext
  <1>6. CASE AckPuts
    <2>1. MayAnswer(1) /\ \E success \in BOOLEAN : AckWrite(1, success)
      BY <1>6, AckPutsAnswers
    <2> QED
      BY <2>1 DEF RepoNext, MayAnswer
  <1>7. CASE OnPutResponse
    BY <1>7, PutResponseAnswers DEF RepoNext
  <1>8. CASE UNCHANGED repoVars
    BY <1>8
  <1>9. SocketStep \/ OnAuth \/ ServerStep \/ OutsideStep \/ UNCHANGED connectionVars
           => UNCHANGED repoVars
    BY DEF SocketStep, TryReconnect, OnReady, OnAuth, Drop, ServerStep, ServerAuth, ServerListen,
           ServerPut, OutsideStep, OnDisconnect, OtherDevice, ServerRevokes, connectionVars
  <1> QED
    BY <1>1, <1>2, <1>3, <1>4, <1>5, <1>6, <1>7, <1>8, <1>9
    DEF ConnectionNext, ClientStep, MessageStep

\* What holds of the database client goes on to hold of it.
LEMMA RepoInvStep ==
    ConnectionInv /\ [ConnectionNext]_connectionVars => RepoInv'
  <1>1. RepoInv /\ [RepoNext]_repoVars => RepoInv'
    BY TypeStep, VisibleStep, WriteIdsStep, EventStep DEF RepoInv
  <1> QED
    BY <1>1, RepoStep DEF ConnectionInv

-----------------------------------------------------------------------------
(* The steps, one by one *)

\* PutsMatchWrites from the queues after a step.
LEMMA WritesMatchedThen ==
    RepoTypeOK' /\ ConnectionTypeOK' /\ Matched(allWrites', putsToAck', outstandingPuts')
        => PutsMatchWrites'
  <1>1. RepoTypeOK /\ ConnectionTypeOK /\ Matched(allWrites, putsToAck, outstandingPuts)
           => PutsMatchWrites
    BY WritesMatched
  <1>2. (RepoTypeOK /\ ConnectionTypeOK /\ Matched(allWrites, putsToAck, outstandingPuts))'
           => PutsMatchWrites'
    BY <1>1, PTL
  <1> QED
    BY <1>2

\* The queues of writes and puts are not touched.
LEMMA WritesUnchanged ==
    ASSUME ConnectionInv, UNCHANGED <<allWrites, putsToAck, outstandingPuts>>
    PROVE  PutsMatchWrites'
  BY DEF ConnectionInv, PutsMatchWrites

\* What the step lemmas below need of the state they start from.
LEMMA Channels ==
    ASSUME ConnectionInv
    PROVE  /\ toServer \in Seq(ToServer) /\ toClient \in Seq(ToClient)
           /\ outstandingPuts \in Seq(Put) /\ putsToAck \in Seq(PutAnswer)
           /\ Count(toServer) \in Nat /\ Count(toClient) \in Nat
           /\ unackedListens = Count(toServer) + Count(toClient)
           /\ PutIds(toServer) \subseteq Nat /\ PutIds(toClient) \subseteq Nat
           /\ writeIdCounter \in Nat /\ allWrites \in Seq(Write)
           /\ Matched(allWrites, putsToAck, outstandingPuts)
  <1>1. /\ toServer \in Seq(ToServer) /\ toClient \in Seq(ToClient)
        /\ outstandingPuts \in Seq(Put) /\ putsToAck \in Seq(PutAnswer)
        /\ unackedListens = Count(toServer) + Count(toClient)
        /\ writeIdCounter \in Nat /\ allWrites \in Seq(Write)
        /\ RepoTypeOK /\ ConnectionTypeOK /\ PutsMatchWrites
    BY DEF ConnectionInv, ConnectionTypeOK, RepoTypeOK, ListensCounted
  <1> QED
    BY <1>1, CountType, IdsAreNumbers, WritesMatched

\* A put travels only on an open connection, where it is outstanding.
LEMMA PutTravels ==
    ASSUME ConnectionInv, NEW a \in PutIds(toServer) \cup PutIds(toClient)
    PROVE  connectionState = "connected" /\ a \in PutIds(outstandingPuts) /\ a < writeIdCounter
  BY OutstandingOrder DEF ConnectionInv, PutsInFlight

\* setValue or removeValue.
LEMMA PutDataStep ==
    ASSUME ConnectionInv, RepoInv', NEW k \in Key, NEW n \in Node, PutData(k, n)
    PROVE  ConnectionInv'
  <1> DEFINE put == [type |-> "put", id |-> writeIdCounter, key |-> k, node |-> n]
             w == [id |-> writeIdCounter, key |-> k, node |-> n]
  <1>1. /\ put \in Put /\ put \in ToServer /\ put.type = "put" /\ put.id = writeIdCounter
        /\ w \in Write /\ w.id = writeIdCounter
    BY Channels DEF Put, ToServer, Write
  <1>2. /\ allWrites' = Append(allWrites, w)
        /\ outstandingPuts' = Append(outstandingPuts, put)
        /\ toServer' = IF connectionState = "connected" THEN Append(toServer, put) ELSE toServer
        /\ UNCHANGED <<listening, serverComplete, connectionState, listenSpec, listenCounter,
                       putsToAck, unackedListens, acking, toClient, server, serverListens,
                       drops, remote, ended>>
    BY DEF PutData, Set, AddOverwrite, CanSendWrites
  <1> HIDE DEF put, w
  <1>3. /\ Append(toServer, put) \in Seq(ToServer)
        /\ Count(Append(toServer, put)) = Count(toServer)
        /\ PutIds(Append(toServer, put)) = PutIds(toServer) \cup {writeIdCounter}
        /\ PutsInOrder(Append(toServer, put))
              <=> PutsInOrder(toServer) /\ \A a \in PutIds(toServer) : a < writeIdCounter
        /\ HasAuth(Append(toServer, put)) <=> HasAuth(toServer)
        /\ \A spec : HasListen(Append(toServer, put), spec) <=> HasListen(toServer, spec)
    BY <1>1, Channels, Sent
  <1>4. /\ Append(outstandingPuts, put) \in Seq(Put)
        /\ PutIds(Append(outstandingPuts, put)) = PutIds(outstandingPuts) \cup {writeIdCounter}
    BY <1>1, Channels, Sent
  <1>5. ConnectionTypeOK'
    BY <1>2, <1>3, <1>4 DEF ConnectionInv, RepoInv, ConnectionTypeOK
  <1>6. PhaseInv'
    BY <1>2, <1>3 DEF ConnectionInv, PhaseInv
  <1>7. ListensCounted'
    BY <1>2, <1>3 DEF ConnectionInv, ListensCounted
  <1>8. QueryInv'
    BY <1>2, <1>3 DEF ConnectionInv, QueryInv
  <1>9. HeldBack'
    BY <1>2 DEF ConnectionInv, HeldBack
  <1>10. PutsMatchWrites'
    <2>1. Matched(Append(allWrites, w), putsToAck, Append(outstandingPuts, put))
      BY <1>1, Channels, MatchedAdd
    <2>2. Matched(allWrites', putsToAck', outstandingPuts')
      BY <1>2, <2>1
    <2> QED
      BY <1>5, <2>2, WritesMatchedThen DEF RepoInv
  <1>11. PutsInFlight'
    <2>1. CASE connectionState = "connected"
      <3>1. /\ toServer' = Append(toServer, put) /\ toClient' = toClient
            /\ connectionState' = "connected"
            /\ PutsInOrder(toServer) /\ PutsInOrder(toClient) /\ Before(toClient, toServer)
            /\ PutIds(toServer) \cup PutIds(toClient) = PutIds(outstandingPuts)
        BY <1>2, <2>1 DEF ConnectionInv, PutsInFlight
      <3>2. PutsInOrder(toServer')
        BY <1>3, <3>1, PutTravels
      <3>3. Before(toClient', toServer')
        BY <1>3, <3>1, PutTravels DEF Before
      <3>4. PutIds(toServer') \cup PutIds(toClient') = PutIds(outstandingPuts')
        BY <1>2, <1>3, <1>4, <3>1
      <3> QED
        BY <3>1, <3>2, <3>3, <3>4 DEF PutsInFlight
    <2>2. CASE connectionState # "connected"
      BY <1>2, <2>2 DEF ConnectionInv, PutsInFlight
    <2> QED
      BY <2>1, <2>2
  <1> QED
    BY <1>5, <1>6, <1>7, <1>8, <1>9, <1>10, <1>11 DEF ConnectionInv

\* observe where there is no view yet.
LEMMA ListenStep ==
    ASSUME ConnectionInv, RepoInv', Listen
    PROVE  ConnectionInv'
  <1> DEFINE m == ListenRequest(listenSpec', serverCache')
  <1>1. /\ ~acking /\ ~listening /\ listening' /\ listenSpec' = listenCounter + 1
        /\ listenCounter' = listenCounter + 1 /\ listenCounter < MaxListens
        /\ UNCHANGED <<allWrites, connectionState, outstandingPuts, putsToAck, acking, toClient,
                       server, serverListens, drops, remote, ended>>
        /\ IF connectionState \in {"authenticating", "connected"}
             THEN toServer' = Append(toServer, m) /\ unackedListens' = unackedListens + 1
             ELSE toServer' = toServer /\ unackedListens' = unackedListens
    BY DEF Listen, AddEventRegistration, Connected, SentListens, writeVars
  <1>2. /\ listenCounter \in Nat /\ MaxListens \in Nat /\ serverCache' \in [Key -> Node]
        /\ unackedListens \in Nat
    BY ConnectionAssumption DEF ConnectionInv, ConnectionTypeOK, RepoInv, RepoTypeOK
  <1>3. /\ listenSpec' \in 0 .. listenCounter' /\ listenCounter' \in 0 .. MaxListens
        /\ listenSpec' \in Nat /\ listenSpec' # 0
        /\ unackedListens + 1 \in Nat /\ unackedListens + 1 # 0
    BY <1>1, <1>2
  <1>4. m \in ToServer /\ m.type = "listen" /\ m.spec = listenSpec'
    BY <1>2, <1>3 DEF ListenRequest, ToServer
  <1> HIDE DEF m
  <1>5. /\ Append(toServer, m) \in Seq(ToServer)
        /\ Count(Append(toServer, m)) = Count(toServer) + 1
        /\ PutIds(Append(toServer, m)) = PutIds(toServer)
        /\ PutsInOrder(Append(toServer, m)) <=> PutsInOrder(toServer)
        /\ HasAuth(Append(toServer, m)) <=> HasAuth(toServer)
        /\ AuthFirst(toServer) => AuthFirst(Append(toServer, m))
        /\ HasListen(Append(toServer, m), listenSpec')
    <2>1. AuthFirst(toServer) => toServer # <<>>
      BY DEF AuthFirst
    <2>2. toServer \in Seq(ToServer) /\ Count(toServer) \in Nat
      BY Channels
    <2>3. AuthFirst(toServer) => AuthFirst(Append(toServer, m))
      BY <1>4, <2>1, <2>2, Sent
    <2>4. /\ Append(toServer, m) \in Seq(ToServer)
          /\ Count(Append(toServer, m)) = Count(toServer) + 1
          /\ PutIds(Append(toServer, m)) = PutIds(toServer)
      <3>1. Append(toServer, m) \in Seq(ToServer)
        BY <1>4, <2>2, Sent
      <3>2. Count(Append(toServer, m)) = Count(toServer) + 1
        BY <1>4, <2>2, Sent
      <3>3. PutIds(Append(toServer, m)) = PutIds(toServer) \cup {}
        BY <1>4, <2>2, Sent
      <3> QED
        BY <3>1, <3>2, <3>3
    <2>5. /\ PutsInOrder(Append(toServer, m)) <=> PutsInOrder(toServer)
          /\ HasAuth(Append(toServer, m)) <=> HasAuth(toServer)
          /\ HasListen(Append(toServer, m), listenSpec')
      BY <1>4, <2>2, Sent
    <2> QED
      BY <2>3, <2>4, <2>5
  <1>6. CASE connectionState \in {"authenticating", "connected"}
    <2>1. /\ toServer' = Append(toServer, m) /\ unackedListens' = unackedListens + 1
          /\ connectionState' = connectionState
          /\ connectionState # "disconnected" /\ connectionState # "connecting"
      BY <1>1, <1>6
    <2>2. ConnectionTypeOK'
      BY <1>1, <1>3, <1>5, <2>1 DEF ConnectionInv, RepoInv, ConnectionTypeOK
    <2>3. PhaseInv'
      BY <1>1, <1>5, <2>1 DEF ConnectionInv, PhaseInv
    <2>4. ListensCounted'
      BY <1>1, <1>5, <2>1, Channels DEF ListensCounted
    <2>5. QueryInv'
      BY <1>1, <1>3, <1>5, <2>1 DEF QueryInv
    <2>6. HeldBack'
      BY <1>1, <1>3, <2>1 DEF HeldBack
    <2>7. PutsMatchWrites'
      BY <1>1, WritesUnchanged
    <2>8. PutsInFlight'
      BY <1>1, <1>5, <2>1 DEF ConnectionInv, PutsInFlight, Before
    <2> QED
      BY <2>2, <2>3, <2>4, <2>5, <2>6, <2>7, <2>8 DEF ConnectionInv
  <1>7. CASE connectionState \notin {"authenticating", "connected"}
    <2>1. /\ toServer' = toServer /\ unackedListens' = unackedListens
          /\ connectionState' = connectionState /\ connectionState' # "connected"
      BY <1>1, <1>7
    <2>2. ConnectionTypeOK'
      BY <1>1, <1>3, <2>1 DEF ConnectionInv, RepoInv, ConnectionTypeOK
    <2>3. PhaseInv'
      BY <1>1, <2>1 DEF ConnectionInv, PhaseInv
    <2>4. ListensCounted'
      BY <1>1, <2>1 DEF ConnectionInv, ListensCounted
    <2>5. QueryInv'
      BY <1>1, <1>3, <2>1 DEF QueryInv
    <2>6. HeldBack'
      BY <1>1, <2>1 DEF HeldBack
    <2>7. PutsMatchWrites'
      BY <1>1, WritesUnchanged
    <2>8. PutsInFlight'
      BY <1>1, <2>1 DEF ConnectionInv, PutsInFlight
    <2> QED
      BY <2>2, <2>3, <2>4, <2>5, <2>6, <2>7, <2>8 DEF ConnectionInv
  <1> QED
    BY <1>6, <1>7

\* The retry helper starts another attempt.
LEMMA TryReconnectStep ==
    ASSUME ConnectionInv, RepoInv', TryReconnect
    PROVE  ConnectionInv'
  <1>1. /\ connectionState = "disconnected" /\ connectionState' = "connecting" /\ ~acking
        /\ UNCHANGED <<allWrites, listening, serverComplete, listenSpec, listenCounter,
                       outstandingPuts, putsToAck, unackedListens, acking, toServer, toClient,
                       server, serverListens, drops, remote, ended>>
    BY DEF TryReconnect, repoVars, writeVars, viewVars, netVars
  <1>2. ConnectionTypeOK'
    BY <1>1 DEF ConnectionInv, RepoInv, ConnectionTypeOK
  <1>3. PhaseInv' /\ ListensCounted'
    BY <1>1 DEF ConnectionInv, PhaseInv, ListensCounted
  <1>4. QueryInv' /\ HeldBack'
    BY <1>1 DEF ConnectionInv, QueryInv, HeldBack
  <1>5. PutsMatchWrites'
    BY <1>1, WritesUnchanged
  <1>6. PutsInFlight'
    BY <1>1 DEF ConnectionInv, PutsInFlight
  <1> QED
    BY <1>2, <1>3, <1>4, <1>5, <1>6 DEF ConnectionInv

\* The socket breaks: what is outstanding and the answers held back stay.
LEMMA DropStep ==
    ASSUME ConnectionInv, RepoInv', Drop, ~acking, drops' \in 0 .. MaxDrops
    PROVE  ConnectionInv'
  <1>1. /\ connectionState' = "disconnected" /\ unackedListens' = 0
        /\ toServer' = <<>> /\ toClient' = <<>> /\ serverListens' = FALSE
        /\ UNCHANGED <<allWrites, listening, serverComplete, listenSpec, listenCounter,
                       outstandingPuts, putsToAck, acking, server, remote, ended>>
    BY DEF Drop, PutsToAckKept, repoVars, writeVars, viewVars
  <1>2. ConnectionTypeOK'
    <2>1. toServer' \in Seq(ToServer) /\ toClient' \in Seq(ToClient)
      BY <1>1
    <2>2. unackedListens' \in Nat
      BY <1>1
    <2> QED
      BY <1>1, <2>1, <2>2 DEF ConnectionInv, RepoInv, ConnectionTypeOK
  <1>3. PhaseInv'
    BY <1>1 DEF PhaseInv
  <1>4. ListensCounted'
    BY <1>1, NoMessage DEF ListensCounted
  <1>5. QueryInv' /\ HeldBack'
    BY <1>1 DEF ConnectionInv, QueryInv, HeldBack
  <1>6. PutsMatchWrites'
    BY <1>1, WritesUnchanged
  <1>7. PutsInFlight'
    BY <1>1, NoMessage DEF PutsInFlight, Before
  <1> QED
    BY <1>2, <1>3, <1>4, <1>5, <1>6, <1>7 DEF ConnectionInv

\* What a message taken leaves behind.
LEMMA Rest ==
    ASSUME NEW M, NEW s \in Seq(M), s # <<>>
    PROVE  /\ Tail(s) \in Seq(M)
           /\ PutIds(Tail(s)) \subseteq PutIds(s)
           /\ PutsInOrder(s) => PutsInOrder(Tail(s))
           /\ HasAuth(Tail(s)) => HasAuth(s)
           /\ Head(s).type # "listen" => Count(Tail(s)) = Count(s)
           /\ Head(s).type # "listen" => \A spec : HasListen(Tail(s), spec) <=> HasListen(s, spec)
           /\ Head(s).type # "put" => PutIds(Tail(s)) = PutIds(s)
  <1>1. /\ Tail(s) \in Seq(M)
        /\ PutsInOrder(s) => PutsInOrder(Tail(s))
        /\ HasAuth(Tail(s)) => HasAuth(s)
        /\ Head(s).type # "listen" => \A spec : HasListen(Tail(s), spec) <=> HasListen(s, spec)
    BY Taken
  <1>2. PutIds(s) = PutIds(Tail(s)) \cup (IF Head(s).type = "put" THEN {Head(s).id} ELSE {})
    BY Taken
  <1>3. Count(s) = Count(Tail(s)) + (IF Head(s).type = "listen" THEN 1 ELSE 0)
    BY Taken
  <1>4. Count(Tail(s)) \in Nat
    BY <1>1, CountType
  <1>5. Head(s).type # "listen" => Count(Tail(s)) = Count(s)
    BY <1>3, <1>4
  <1>6. /\ PutIds(Tail(s)) \subseteq PutIds(s)
        /\ Head(s).type # "put" => PutIds(Tail(s)) = PutIds(s)
    BY <1>2
  <1> QED
    BY <1>1, <1>5, <1>6

\* Any message but the answer to auth finds the connection open.
LEMMA MessageConnected ==
    ASSUME ConnectionInv, toClient # <<>>, Head(toClient).type # "auth"
    PROVE  connectionState = "connected"
  <1>1. ~AuthFirst(toClient)
    BY Channels, Taken
  <1> QED
    BY <1>1 DEF ConnectionInv, ConnectionTypeOK, PhaseInv

\* A put is handled by the server on an open connection only, and another

\* request no earlier than when the answer to auth is on its way.
LEMMA RequestPhase ==
    ASSUME ConnectionInv, toServer # <<>>
    PROVE  /\ Head(toServer).type = "auth"
                 => connectionState = "authenticating" /\ AuthFirst(toServer) /\ toClient = <<>>
           /\ Head(toServer).type # "auth"
                 => \/ connectionState = "connected"
                    \/ connectionState = "authenticating" /\ AuthFirst(toClient)
  <1>1. /\ Head(toServer).type = "auth" => HasAuth(toServer)
        /\ Head(toServer).type # "auth" => ~AuthFirst(toServer)
    BY Channels, Taken
  <1> QED
    BY <1>1 DEF ConnectionInv, ConnectionTypeOK, PhaseInv

\* The socket is open.
LEMMA OnReadyStep ==
    ASSUME ConnectionInv, RepoInv', NEW token \in BOOLEAN, OnReady(token)
    PROVE  ConnectionInv'
  <1> DEFINE m == [type |-> "auth"]
  <1>1. /\ connectionState = "connecting" /\ ~acking
        /\ toServer = <<>> /\ toClient = <<>> /\ ~serverListens
        /\ UNCHANGED <<allWrites, listening, serverComplete, listenSpec, listenCounter,
                       outstandingPuts, putsToAck, acking, toClient, server, serverListens,
                       drops, remote, ended>>
    BY DEF OnReady, repoVars, writeVars, viewVars, ConnectionInv, PhaseInv
  <1>2. PutsMatchWrites'
    BY <1>1, WritesUnchanged
  <1>3. CASE token
    <2>1. /\ connectionState' = "authenticating" /\ toServer' = Append(toServer, m)
          /\ unackedListens' = unackedListens
      BY <1>3 DEF OnReady
    <2>2. m \in ToServer /\ m.type = "auth"
      BY DEF ToServer
    <2> HIDE DEF m
    <2>3. toServer' \in Seq(ToServer) /\ AuthFirst(toServer') /\ PutsInOrder(toServer')
      BY <1>1, <2>1, <2>2, Channels, Sent DEF ConnectionInv, PutsInFlight
    <2>4. PutIds(toServer') = PutIds(toServer) \cup {}
      BY <2>1, <2>2, Channels, Sent
    <2>5. Count(toServer') = Count(toServer) + 0
      BY <2>1, <2>2, Channels, Sent
    <2>6. ConnectionTypeOK'
      BY <1>1, <2>1, <2>3 DEF ConnectionInv, RepoInv, ConnectionTypeOK
    <2>7. PhaseInv'
      BY <1>1, <2>1, <2>3 DEF PhaseInv
    <2>8. ListensCounted'
      BY <1>1, <2>1, <2>5, Channels DEF ListensCounted
    <2>9. QueryInv' /\ HeldBack'
      BY <1>1, <2>1 DEF ConnectionInv, QueryInv, HeldBack
    <2>10. PutsInFlight'
      BY <1>1, <2>1, <2>3, <2>4 DEF ConnectionInv, PutsInFlight, Before
    <2> QED
      BY <1>2, <2>6, <2>7, <2>8, <2>9, <2>10 DEF ConnectionInv
  <1>4. CASE ~token
    <2>1. RestoreState
      BY <1>4 DEF OnReady
    <2>2. PutIds(toServer) = {} /\ ~HasAuth(toServer) /\ PutIds(toClient) = {} /\ ~HasAuth(toClient)
      BY <1>1, NoMessage
    <2>3. /\ connectionState' = "connected" /\ toServer' \in Seq(ToServer)
          /\ unackedListens' \in Nat /\ unackedListens' = Count(toServer') + Count(toClient)
          /\ PutIds(toServer') = PutIds(outstandingPuts)
          /\ PutsInOrder(toServer') /\ ~HasAuth(toServer')
          /\ listenSpec # 0 => HasListen(toServer', listenSpec)
      BY <2>1, <2>2, Restoring
    <2>4. ConnectionTypeOK'
      BY <1>1, <2>3 DEF ConnectionInv, RepoInv, ConnectionTypeOK
    <2>5. PhaseInv'
      BY <1>1, <2>2, <2>3 DEF PhaseInv
    <2>6. ListensCounted'
      BY <1>1, <2>3 DEF ListensCounted
    <2>7. QueryInv'
      BY <1>1, <2>3 DEF ConnectionInv, QueryInv
    <2>8. HeldBack'
      <3>1. ASSUME unackedListens' = 0 PROVE listenSpec = 0
        <4>1. Count(toServer') = 0
          <5>1. Count(toServer') \in Nat
            BY <2>3, CountType
          <5> QED
            BY <2>3, <3>1, <5>1, Channels
        <4> QED
          BY <2>3, <4>1, ListenCounts
      <3> QED
        BY <1>1, <3>1 DEF ConnectionInv, QueryInv, HeldBack
    <2>9. PutsInFlight'
      BY <1>1, <2>2, <2>3 DEF ConnectionInv, PutsInFlight, Before
    <2> QED
      BY <1>2, <2>4, <2>5, <2>6, <2>7, <2>8, <2>9 DEF ConnectionInv
  <1> QED
    BY <1>3, <1>4

\* The answer to auth.
LEMMA OnAuthStep ==
    ASSUME ConnectionInv, RepoInv', OnAuth
    PROVE  ConnectionInv'
  <1>1. toClient # <<>> /\ Head(toClient).type = "auth" /\ ~acking
    BY DEF OnAuth, Receive
  <1>2. CASE Drop /\ drops' = drops
    BY <1>1, <1>2, DropStep DEF ConnectionInv, ConnectionTypeOK
  <1>3. CASE /\ RestoreState /\ Received
             /\ UNCHANGED <<repoVars, listenSpec, listenCounter, outstandingPuts,
                            putsToAck, acking, server, serverListens, drops, remote, ended>>
    <2>1. /\ toClient' = Tail(toClient)
          /\ UNCHANGED <<allWrites, listening, serverComplete, listenSpec, listenCounter,
                         outstandingPuts, putsToAck, acking, server, serverListens,
                         drops, remote, ended>>
      BY <1>3 DEF Received, repoVars, writeVars, viewVars
    <2>2. /\ toClient' \in Seq(ToClient) /\ PutsInOrder(toClient')
          /\ Count(toClient') = Count(toClient) /\ PutIds(toClient') = PutIds(toClient)
      BY <1>1, <2>1, Channels, Rest DEF ConnectionInv, PutsInFlight
    <2>3. HasAuth(toClient)
      BY <1>1, Channels, Taken
    <2>4. connectionState = "authenticating" /\ AuthFirst(toClient) /\ ~HasAuth(toServer)
      BY <1>1, <2>3, NoMessage DEF ConnectionInv, ConnectionTypeOK, PhaseInv
    <2>5. ~HasAuth(toClient')
      BY <1>1, <2>1, <2>4, Channels, Taken
    <2>6. PutIds(toServer) = {} /\ PutIds(toClient) = {}
      BY <2>4 DEF ConnectionInv, PutsInFlight
    <2>7. /\ connectionState' = "connected" /\ toServer' \in Seq(ToServer)
          /\ unackedListens' \in Nat /\ unackedListens' = Count(toServer') + Count(toClient)
          /\ PutIds(toServer') = PutIds(outstandingPuts)
          /\ PutsInOrder(toServer') /\ ~HasAuth(toServer')
          /\ listenSpec # 0 => HasListen(toServer', listenSpec)
      BY <1>3, <2>4, <2>6, Restoring
    <2>8. ConnectionTypeOK'
      BY <2>1, <2>2, <2>7 DEF ConnectionInv, RepoInv, ConnectionTypeOK
    <2>9. PhaseInv'
      BY <2>5, <2>7 DEF PhaseInv
    <2>10. ListensCounted'
      BY <2>2, <2>7 DEF ListensCounted
    <2>11. QueryInv'
      BY <2>1, <2>7 DEF ConnectionInv, QueryInv
    <2>12. HeldBack'
      <3>1. ASSUME unackedListens' = 0 PROVE listenSpec = 0
        <4>1. Count(toServer') = 0
          <5>1. Count(toServer') \in Nat
            BY <2>7, CountType
          <5> QED
            BY <2>7, <3>1, <5>1, Channels
        <4> QED
          BY <2>7, <4>1, ListenCounts
      <3> QED
        BY <1>1, <2>1, <3>1 DEF ConnectionInv, QueryInv, HeldBack
    <2>13. PutsMatchWrites'
      BY <2>1, WritesUnchanged
    <2>14. PutsInFlight'
      BY <2>1, <2>2, <2>6, <2>7 DEF PutsInFlight, Before
    <2> QED
      BY <2>8, <2>9, <2>10, <2>11, <2>12, <2>13, <2>14 DEF ConnectionInv
  <1> QED
    BY <1>2, <1>3 DEF OnAuth

\* A data push.
LEMMA OnDataPushStep ==
    ASSUME ConnectionInv, RepoInv', OnDataPush
    PROVE  ConnectionInv'
  <1>1. /\ toClient # <<>> /\ Head(toClient).type \in {"snapshot", "child"} /\ ~acking
        /\ toClient' = Tail(toClient)
        /\ UNCHANGED <<connectionState, listenSpec, listenCounter, outstandingPuts, putsToAck,
                       unackedListens, acking, toServer, server, serverListens,
                       drops, remote, ended>>
    BY DEF OnDataPush, Receive, Received, connVars
  <1>2. allWrites' = allWrites /\ listening' = listening /\ (serverComplete => serverComplete')
    BY DEF OnDataPush, ApplyServerSnapshot, ApplyServerOverwrite, repoVars, writeVars, viewVars
  <1>3. connectionState = "connected"
    BY <1>1, MessageConnected
  <1>4. /\ toClient' \in Seq(ToClient) /\ PutsInOrder(toClient')
        /\ Count(toClient') = Count(toClient) /\ PutIds(toClient') = PutIds(toClient)
        /\ HasListen(toClient', listenSpec) <=> HasListen(toClient, listenSpec)
        /\ HasAuth(toClient') => HasAuth(toClient)
    BY <1>1, Channels, Rest DEF ConnectionInv, PutsInFlight
  <1>5. ConnectionTypeOK'
    BY <1>1, <1>4 DEF ConnectionInv, RepoInv, ConnectionTypeOK
  <1>6. PhaseInv' /\ ListensCounted'
    BY <1>1, <1>3, <1>4 DEF ConnectionInv, PhaseInv, ListensCounted
  <1>7. QueryInv' /\ HeldBack'
    BY <1>1, <1>2, <1>4 DEF ConnectionInv, QueryInv, HeldBack
  <1>8. PutsMatchWrites'
    BY <1>1, <1>2, WritesUnchanged
  <1>9. PutsInFlight'
    BY <1>1, <1>3, <1>4 DEF ConnectionInv, PutsInFlight, Before
  <1> QED
    BY <1>5, <1>6, <1>7, <1>8, <1>9 DEF ConnectionInv

\* The server ended the listen.
LEMMA OnListenRevokedStep ==
    ASSUME ConnectionInv, RepoInv', OnListenRevoked
    PROVE  ConnectionInv'
  <1>1. /\ toClient # <<>> /\ Head(toClient).type = "revoked" /\ ~acking
        /\ toClient' = Tail(toClient) /\ listenSpec' = 0
        /\ UNCHANGED <<connectionState, listenCounter, outstandingPuts, putsToAck,
                       unackedListens, acking, toServer, server, serverListens,
                       drops, remote, ended>>
    BY DEF OnListenRevoked, Receive, Received
  <1>2. allWrites' = allWrites /\ ~listening'
    BY DEF OnListenRevoked, RemoveEventRegistrations, repoVars, writeVars, viewVars,
           ConnectionInv, QueryInv, RepoInv, RepoTypeOK
  <1>3. connectionState = "connected"
    BY <1>1, MessageConnected
  <1>4. /\ toClient' \in Seq(ToClient) /\ PutsInOrder(toClient')
        /\ Count(toClient') = Count(toClient) /\ PutIds(toClient') = PutIds(toClient)
        /\ HasAuth(toClient') => HasAuth(toClient)
    BY <1>1, Channels, Rest DEF ConnectionInv, PutsInFlight
  <1>5. ConnectionTypeOK'
    BY <1>1, <1>4 DEF ConnectionInv, RepoInv, ConnectionTypeOK
  <1>6. PhaseInv' /\ ListensCounted'
    BY <1>1, <1>3, <1>4 DEF ConnectionInv, PhaseInv, ListensCounted
  <1>7. QueryInv' /\ HeldBack'
    BY <1>1, <1>2 DEF QueryInv, HeldBack
  <1>8. PutsMatchWrites'
    BY <1>1, <1>2, WritesUnchanged
  <1>9. PutsInFlight'
    BY <1>1, <1>3, <1>4 DEF ConnectionInv, PutsInFlight, Before
  <1> QED
    BY <1>5, <1>6, <1>7, <1>8, <1>9 DEF ConnectionInv

\* The answer to a listen.  The last one starts the loop of ackPuts, when the

\* view has its data.
LEMMA OnListenResponseStep ==
    ASSUME ConnectionInv, RepoInv', OnListenResponse
    PROVE  ConnectionInv'
  <1> DEFINE m == Head(toClient)
  <1>1. /\ toClient # <<>> /\ m.type = "listen" /\ ~acking
        /\ toClient' = Tail(toClient)
        /\ listenSpec' = IF listenSpec = m.spec /\ ~m.ok THEN 0 ELSE listenSpec
        /\ unackedListens' = unackedListens - 1
        /\ acking' = (unackedListens' = 0 /\ putsToAck # <<>>)
        /\ UNCHANGED <<connectionState, listenCounter, outstandingPuts, putsToAck,
                       toServer, server, serverListens, drops, remote, ended>>
    BY DEF OnListenResponse, Receive, Received
  <1>2. /\ allWrites' = allWrites
        /\ listenSpec # m.spec => listening' = listening /\ serverComplete' = serverComplete
        /\ listenSpec = m.spec /\ m.ok => listening' = listening /\ serverComplete'
        /\ listenSpec = m.spec /\ ~m.ok => ~listening'
    BY DEF OnListenResponse, ApplyListenComplete, RemoveEventRegistrations,
           repoVars, writeVars, viewVars
  <1>3. connectionState = "connected"
    BY <1>1, MessageConnected
  <1>4. /\ toClient' \in Seq(ToClient) /\ PutsInOrder(toClient')
        /\ PutIds(toClient') = PutIds(toClient)
        /\ HasAuth(toClient') => HasAuth(toClient)
    BY <1>1, Channels, Rest DEF ConnectionInv, PutsInFlight
  <1>5. Count(toClient) = Count(toClient') + 1
    BY <1>1, Channels, Taken
  <1>6. HasListen(toClient, listenSpec) => HasListen(toClient', listenSpec) \/ m.spec = listenSpec
    BY <1>1, Channels, Taken
  <1> HIDE DEF m
  <1>7. unackedListens' = Count(toServer) + Count(toClient') /\ unackedListens' \in Nat
    <2>1. Count(toClient') \in Nat
      BY <1>4, CountType
    <2> QED
      BY <1>1, <1>5, <2>1, Channels
  <1>8. ConnectionTypeOK'
    <2>1. listenSpec' \in 0 .. listenCounter' /\ acking' \in BOOLEAN
      BY <1>1 DEF ConnectionInv, ConnectionTypeOK
    <2> QED
      BY <1>1, <1>4, <1>7, <2>1 DEF ConnectionInv, RepoInv, ConnectionTypeOK
  <1>9. PhaseInv' /\ ListensCounted'
    BY <1>1, <1>3, <1>4, <1>7 DEF ConnectionInv, PhaseInv, ListensCounted
  <1>10. QueryInv'
    <2>1. listening' <=> listenSpec' # 0
      BY <1>1, <1>2 DEF ConnectionInv, QueryInv
    <2>2. ASSUME listening', ~serverComplete'
          PROVE  HasListen(toServer', listenSpec') \/ HasListen(toClient', listenSpec')
      <3>1. listenSpec # m.spec
        BY <1>2, <2>2
      <3>2. listening' = listening /\ serverComplete' = serverComplete
        BY <1>2, <3>1
      <3>3. listening /\ ~serverComplete
        BY <2>2, <3>2
      <3>4. listenSpec' = listenSpec
        BY <1>1, <3>1
      <3> QED
        BY <1>1, <1>3, <1>6, <3>1, <3>3, <3>4 DEF ConnectionInv, QueryInv
    <2> QED
      BY <1>1, <1>3, <2>1, <2>2 DEF QueryInv
  <1>11. HeldBack'
    <2>1. ASSUME unackedListens' = 0, listening' PROVE serverComplete'
      <3>1. Count(toServer') = 0 /\ Count(toClient') = 0
        <4>1. Count(toServer') \in Nat /\ Count(toClient') \in Nat
          BY <1>1, <1>4, Channels, CountType
        <4> QED
          BY <1>1, <1>7, <2>1, <4>1
      <3>2. toServer' \in Seq(ToServer)
        BY <1>1, Channels
      <3>3. ~HasListen(toServer', listenSpec')
        BY <3>1, <3>2, ListenCounts
      <3>4. ~HasListen(toClient', listenSpec')
        BY <1>4, <3>1, ListenCounts
      <3> QED
        BY <1>1, <1>3, <1>10, <2>1, <3>3, <3>4 DEF QueryInv
    <2> QED
      BY <1>1, <1>3, <2>1 DEF HeldBack
  <1>12. PutsMatchWrites'
    BY <1>1, <1>2, WritesUnchanged
  <1>13. PutsInFlight'
    BY <1>1, <1>3, <1>4 DEF ConnectionInv, PutsInFlight, Before
  <1> QED
    BY <1>8, <1>9, <1>10, <1>11, <1>12, <1>13 DEF ConnectionInv

\* A round of ackPuts.
LEMMA AckPutsStep ==
    ASSUME ConnectionInv, RepoInv', AckPuts
    PROVE  ConnectionInv'
  <1>1. /\ acking /\ putsToAck' = Tail(putsToAck) /\ acking' = (Len(putsToAck) > 1)
        /\ UNCHANGED <<connectionState, listenSpec, listenCounter, outstandingPuts,
                       unackedListens, toServer, toClient, server, serverListens,
                       drops, remote, ended>>
    BY DEF AckPuts, netVars
  <1>2. Matched(allWrites', putsToAck', outstandingPuts')
    BY AckPutsAnswers
  <1>3. listening' = listening /\ serverComplete' = serverComplete
    <2>1. PICK success \in BOOLEAN : AckWrite(1, success)
      BY AckPutsAnswers
    <2> QED
      BY <2>1 DEF AckWrite
  <1>4. /\ connectionState = "connected" /\ unackedListens = 0
        /\ putsToAck # <<>> /\ (listening => serverComplete)
    BY <1>1 DEF ConnectionInv, HeldBack
  <1>5. /\ Tail(putsToAck) \in Seq(PutAnswer)
        /\ Tail(putsToAck) # <<>> <=> Len(putsToAck) > 1
    <2>1. /\ Len(putsToAck) \in Nat /\ Tail(putsToAck) \in Seq(PutAnswer)
          /\ Len(Tail(putsToAck)) = Len(putsToAck) - 1
      BY <1>4, Channels, HeadTailProperties, LenProperties
    <2>2. Tail(putsToAck) = <<>> <=> Len(Tail(putsToAck)) = 0
      BY <2>1, EmptySeq
    <2>3. Len(putsToAck) > 1 <=> Len(Tail(putsToAck)) # 0
      <3>1. Len(Tail(putsToAck)) \in Nat
        BY <2>1, LenProperties
      <3> QED
        BY <2>1, <3>1
    <2> QED
      BY <2>1, <2>2, <2>3
  <1>6. ConnectionTypeOK'
    <2>1. acking' \in BOOLEAN /\ putsToAck' \in Seq(PutAnswer)
      BY <1>1, <1>5
    <2> QED
      BY <1>1, <2>1 DEF ConnectionInv, RepoInv, ConnectionTypeOK
  <1>7. PhaseInv' /\ ListensCounted'
    BY <1>1 DEF ConnectionInv, PhaseInv, ListensCounted
  <1>8. QueryInv'
    BY <1>1, <1>3 DEF ConnectionInv, QueryInv
  <1>9. HeldBack'
    BY <1>1, <1>3, <1>4, <1>5 DEF HeldBack
  <1>10. PutsMatchWrites'
    BY <1>2, <1>6, WritesMatchedThen DEF RepoInv
  <1>11. PutsInFlight'
    BY <1>1 DEF ConnectionInv, PutsInFlight
  <1> QED
    BY <1>6, <1>7, <1>8, <1>9, <1>10, <1>11 DEF ConnectionInv

\* The answer to a put.
LEMMA OnPutResponseStep ==
    ASSUME ConnectionInv, RepoInv', OnPutResponse
    PROVE  ConnectionInv'
  <1>1. /\ toClient # <<>> /\ Head(toClient).type = "put" /\ ~acking
        /\ toClient' = Tail(toClient)
        /\ UNCHANGED <<connectionState, listenSpec, listenCounter, unackedListens,
                       acking, toServer, server, serverListens, drops, remote, ended>>
    BY DEF OnPutResponse, Receive, Received
  <1>2. outstandingPuts' = Tail(outstandingPuts) /\ Matched(allWrites', putsToAck', outstandingPuts')
    BY PutResponseAnswers
  <1>3. listening' = listening /\ serverComplete' = serverComplete
    <2>1. CASE unackedListens # 0
      BY <2>1, PutResponseAnswers DEF repoVars, viewVars
    <2>2. CASE unackedListens = 0
      <3>1. PICK i \in DOMAIN allWrites, success \in BOOLEAN : AckWrite(i, success)
        BY <2>2, PutResponseAnswers
      <3> QED
        BY <3>1 DEF AckWrite
    <2> QED
      BY <2>1, <2>2
  <1>4. /\ connectionState = "connected" /\ outstandingPuts # <<>>
        /\ PutIds(toServer) \cup PutIds(Tail(toClient)) = PutIds(Tail(outstandingPuts))
    BY <1>1, FirstAnswered
  <1>5. /\ toClient' \in Seq(ToClient) /\ PutsInOrder(toClient')
        /\ PutIds(toClient') \subseteq PutIds(toClient)
        /\ Count(toClient') = Count(toClient)
        /\ HasListen(toClient', listenSpec) <=> HasListen(toClient, listenSpec)
        /\ HasAuth(toClient') => HasAuth(toClient)
    BY <1>1, Channels, Rest DEF ConnectionInv, PutsInFlight
  <1>6. /\ outstandingPuts' \in Seq(Put) /\ putsToAck' \in Seq(PutAnswer)
        /\ unackedListens = 0 => putsToAck' = putsToAck
    <2>1. outstandingPuts' \in Seq(Put)
      BY <1>2, <1>4, Channels, TailSeq
    <2>2. Head(toClient) \in PutAnswer
      BY <1>1, Channels, Message, TailSeq
    <2>3. unackedListens # 0 => putsToAck' = Append(putsToAck, Head(toClient))
      BY PutResponseAnswers
    <2>4. unackedListens = 0 => putsToAck' = putsToAck
      BY PutResponseAnswers
    <2>5. Append(putsToAck, Head(toClient)) \in Seq(PutAnswer)
      BY <2>2, Channels, AppendSeq
    <2>6. putsToAck \in Seq(PutAnswer)
      BY Channels
    <2> QED
      BY <2>1, <2>3, <2>4, <2>5, <2>6
  <1>7. ConnectionTypeOK'
    BY <1>1, <1>5, <1>6 DEF ConnectionInv, RepoInv, ConnectionTypeOK
  <1>8. PhaseInv' /\ ListensCounted'
    BY <1>1, <1>4, <1>5 DEF ConnectionInv, PhaseInv, ListensCounted
  <1>9. QueryInv'
    BY <1>1, <1>3, <1>5 DEF ConnectionInv, QueryInv
  <1>10. HeldBack'
    BY <1>1, <1>3, <1>6 DEF ConnectionInv, HeldBack
  <1>11. PutsMatchWrites'
    BY <1>2, <1>7, WritesMatchedThen DEF RepoInv
  <1>12. PutsInFlight'
    BY <1>1, <1>2, <1>4, <1>5 DEF ConnectionInv, PutsInFlight, Before
  <1> QED
    BY <1>7, <1>8, <1>9, <1>10, <1>11, <1>12 DEF ConnectionInv

-----------------------------------------------------------------------------
(* The steps of the server *)

\* The server answers auth.
LEMMA ServerAuthStep ==
    ASSUME ConnectionInv, RepoInv', NEW ok \in BOOLEAN, ServerAuth(ok)
    PROVE  ConnectionInv'
  <1> DEFINE m == [type |-> "auth", ok |-> ok]
  <1>1. /\ toServer # <<>> /\ Head(toServer).type = "auth"
        /\ toServer' = Tail(toServer) /\ toClient' = Append(toClient, m)
        /\ drops' \in 0 .. MaxDrops
        /\ UNCHANGED <<allWrites, listening, serverComplete, connectionState, listenSpec,
                       listenCounter, outstandingPuts, putsToAck, unackedListens, acking,
                       server, serverListens, remote, ended>>
    <2>1. drops \in 0 .. MaxDrops /\ MaxDrops \in Nat
      BY ConnectionAssumption DEF ConnectionInv, ConnectionTypeOK
    <2>2. drops' \in 0 .. MaxDrops
      BY <2>1 DEF ServerAuth
    <2> QED
      BY <2>2 DEF ServerAuth, repoVars, writeVars, viewVars, connVars
  <1>2. m \in ToClient /\ m.type = "auth"
    BY DEF ToClient
  <1> HIDE DEF m
  <1>3. connectionState = "authenticating" /\ AuthFirst(toServer) /\ toClient = <<>>
    BY <1>1, RequestPhase
  <1>4. /\ toServer' \in Seq(ToServer) /\ PutsInOrder(toServer')
        /\ Count(toServer') = Count(toServer) /\ PutIds(toServer') = PutIds(toServer)
    BY <1>1, Channels, Rest DEF ConnectionInv, PutsInFlight
  <1>5. ~HasAuth(toServer')
    BY <1>1, <1>3, Channels, Taken
  <1>6. toClient' \in Seq(ToClient) /\ AuthFirst(toClient') /\ PutsInOrder(toClient')
    BY <1>1, <1>2, <1>3, Channels, Sent DEF ConnectionInv, PutsInFlight
  <1>7. PutIds(toClient') = PutIds(toClient) \cup {}
    BY <1>1, <1>2, Channels, Sent
  <1>8. Count(toClient') = Count(toClient) + 0
    BY <1>1, <1>2, Channels, Sent
  <1>9. ConnectionTypeOK'
    BY <1>1, <1>4, <1>6 DEF ConnectionInv, RepoInv, ConnectionTypeOK
  <1>10. PhaseInv'
    BY <1>1, <1>3, <1>5, <1>6 DEF PhaseInv
  <1>11. ListensCounted'
    BY <1>1, <1>4, <1>8, Channels DEF ListensCounted
  <1>12. QueryInv' /\ HeldBack'
    BY <1>1, <1>3 DEF ConnectionInv, QueryInv, HeldBack
  <1>13. PutsMatchWrites'
    BY <1>1, WritesUnchanged
  <1>14. PutsInFlight'
    BY <1>1, <1>4, <1>6, <1>7 DEF ConnectionInv, PutsInFlight, Before
  <1> QED
    BY <1>9, <1>10, <1>11, <1>12, <1>13, <1>14 DEF ConnectionInv

\* The server answers a listen, behind the data.
LEMMA ServerListenStep ==
    ASSUME ConnectionInv, RepoInv', NEW ok \in BOOLEAN, ServerListen(ok)
    PROVE  ConnectionInv'
  <1> DEFINE m == Head(toServer)
             a == [type |-> "listen", spec |-> m.spec, ok |-> ok]
             push == [type |-> "snapshot", nodes |-> server]
             data == IF ok /\ m.hash # server THEN <<push>> ELSE <<>>
             c == toClient \o data
  <1>1. /\ toServer # <<>> /\ m.type = "listen"
        /\ toServer' = Tail(toServer) /\ serverListens' = ok
        /\ ended' \in 0 .. MaxEnded
        /\ UNCHANGED <<allWrites, listening, serverComplete, connectionState, listenSpec,
                       listenCounter, outstandingPuts, putsToAck, unackedListens, acking,
                       server, drops, remote>>
    <2>1. ended \in 0 .. MaxEnded /\ MaxEnded \in Nat
      BY ConnectionAssumption DEF ConnectionInv, ConnectionTypeOK
    <2>2. ended' \in 0 .. MaxEnded
      BY <2>1 DEF ServerListen
    <2> QED
      BY <2>2 DEF ServerListen, repoVars, writeVars, viewVars, connVars
  <1>2. a \in ToClient /\ a.type = "listen" /\ a.spec = m.spec
    <2>1. m \in ToServer
      BY <1>1, Channels, TailSeq
    <2>2. m.spec \in Nat
      BY <1>1, <2>1, Request
    <2> QED
      BY <2>2 DEF ToClient
  <1>3. data \in Seq(ToClient) /\ \A i \in DOMAIN data : data[i].type \in {"snapshot", "child"}
    <2>1. push \in ToClient /\ push.type = "snapshot"
      BY DEF ToClient, ConnectionInv, ConnectionTypeOK
    <2> HIDE DEF push
    <2>2. DOMAIN <<push>> = {1} /\ <<push>>[1] = push /\ <<push>> \in Seq(ToClient)
      BY <2>1
    <2>3. DOMAIN <<>> = {} /\ <<>> \in Seq(ToClient)
      OBVIOUS
    <2>4. data = <<push>> \/ data = <<>>
      OBVIOUS
    <2> HIDE DEF data
    <2> QED
      BY <2>1, <2>2, <2>3, <2>4
  <1>4. toClient' = c \o <<a>>
    BY DEF ServerListen
  <1> HIDE DEF data, push
  <1>5. /\ c \in Seq(ToClient) /\ Count(c) = Count(toClient) /\ PutIds(c) = PutIds(toClient)
        /\ PutsInOrder(c) /\ (HasAuth(c) <=> HasAuth(toClient))
        /\ AuthFirst(toClient) => AuthFirst(c)
        /\ \A spec : HasListen(c, spec) <=> HasListen(toClient, spec)
    BY <1>3, Channels, DataSent DEF ConnectionInv, PutsInFlight
  <1> HIDE DEF m, a, c
  <1>6. toClient' = Append(c, a)
    BY <1>4, <1>5
  <1>7. /\ toServer' \in Seq(ToServer) /\ PutsInOrder(toServer')
        /\ PutIds(toServer') = PutIds(toServer)
        /\ HasAuth(toServer') => HasAuth(toServer)
    BY <1>1, Channels, Rest DEF ConnectionInv, PutsInFlight, m
  <1>8. /\ Count(toServer) = Count(toServer') + 1
        /\ HasListen(toServer, listenSpec) => HasListen(toServer', listenSpec) \/ m.spec = listenSpec
    BY <1>1, Channels, Taken DEF m
  <1>9. toClient' \in Seq(ToClient) /\ PutsInOrder(toClient')
    BY <1>2, <1>5, <1>6, Sent
  <1>10. PutIds(toClient') = PutIds(c) \cup {}
    BY <1>2, <1>5, <1>6, Sent
  <1>11. Count(toClient') = Count(c) + 1
    BY <1>2, <1>5, <1>6, Sent
  <1>12. HasAuth(toClient') <=> HasAuth(toClient)
    BY <1>2, <1>5, <1>6, Sent
  <1>13. AuthFirst(toClient) => AuthFirst(toClient')
    <2>1. AuthFirst(c) => c # <<>>
      BY DEF AuthFirst
    <2> QED
      BY <1>2, <1>5, <1>6, <2>1, Sent
  <1>14. /\ HasListen(toClient, listenSpec) => HasListen(toClient', listenSpec)
         /\ m.spec = listenSpec => HasListen(toClient', listenSpec)
    BY <1>2, <1>5, <1>6, Sent
  <1>15. \/ connectionState = "connected"
         \/ connectionState = "authenticating" /\ AuthFirst(toClient)
    BY <1>1, RequestPhase DEF m
  <1>16. ConnectionTypeOK'
    BY <1>1, <1>7, <1>9 DEF ConnectionInv, RepoInv, ConnectionTypeOK
  <1>17. PhaseInv'
    <2>1. connectionState = "authenticating" => ~HasAuth(toServer)
      <3>1. toClient = <<>> => ~AuthFirst(toClient)
        BY DEF AuthFirst
      <3> QED
        BY <1>15, <3>1 DEF ConnectionInv, PhaseInv
    <2> QED
      BY <1>1, <1>7, <1>12, <1>13, <1>15, <2>1 DEF ConnectionInv, PhaseInv
  <1>18. ListensCounted'
    <2>1. Count(toServer') \in Nat
      BY <1>7, CountType
    <2>2. unackedListens' = Count(toServer) + Count(toClient) /\ Count(toClient) \in Nat
      BY <1>1, Channels
    <2>3. unackedListens' = Count(toServer') + Count(toClient')
      BY <1>5, <1>8, <1>11, <2>1, <2>2
    <2> QED
      BY <2>3 DEF ListensCounted
  <1>19. QueryInv'
    BY <1>1, <1>8, <1>14 DEF ConnectionInv, QueryInv
  <1>20. HeldBack'
    BY <1>1 DEF ConnectionInv, HeldBack
  <1>21. PutsMatchWrites'
    BY <1>1, WritesUnchanged
  <1>22. PutsInFlight'
    BY <1>1, <1>5, <1>7, <1>9, <1>10 DEF ConnectionInv, PutsInFlight, Before
  <1> QED
    BY <1>16, <1>17, <1>18, <1>19, <1>20, <1>21, <1>22 DEF ConnectionInv

\* What the server pushes is data, and it pushes on an open socket only.
LEMMA PushedData ==
    ASSUME ConnectionInv, NEW k \in Key, server' \in [Key -> Node]
    PROVE  /\ Pushed(k) \in Seq(ToClient)
           /\ \A i \in DOMAIN Pushed(k) : Pushed(k)[i].type \in {"snapshot", "child"}
           /\ ~serverListens => Pushed(k) = <<>>
  <1> DEFINE m == [type |-> "child", key |-> k, node |-> server'[k]]
  <1>1. m \in ToClient /\ m.type = "child"
    BY DEF ToClient
  <1>2. Pushed(k) = IF serverListens THEN <<m>> ELSE <<>>
    BY DEF Pushed
  <1> HIDE DEF m
  <1>3. DOMAIN <<m>> = {1} /\ <<m>>[1] = m /\ <<m>> \in Seq(ToClient)
    BY <1>1
  <1>4. DOMAIN <<>> = {} /\ <<>> \in Seq(ToClient)
    OBVIOUS
  <1> QED
    BY <1>1, <1>2, <1>3, <1>4

\* The server handles a put.
LEMMA ServerPutStep ==
    ASSUME ConnectionInv, RepoInv', NEW ok \in BOOLEAN, ServerPut(ok)
    PROVE  ConnectionInv'
  <1> DEFINE m == Head(toServer)
             a == [type |-> "put", id |-> m.id, ok |-> ok]
             data == IF ok THEN Pushed(m.key) ELSE <<>>
             c == toClient \o data
  <1>1. /\ toServer # <<>> /\ m.type = "put"
        /\ toServer' = Tail(toServer)
        /\ server' = IF ok THEN [server EXCEPT ![m.key] = m.node] ELSE server
        /\ toClient' = c \o <<a>>
        /\ UNCHANGED <<allWrites, listening, serverComplete, connectionState, listenSpec,
                       listenCounter, outstandingPuts, putsToAck, unackedListens, acking,
                       serverListens, drops, remote, ended>>
    BY DEF ServerPut, repoVars, writeVars, viewVars, connVars
  <1>2. m.id \in Nat /\ m.key \in Key /\ m.node \in Node
    <2>1. m \in ToServer
      BY <1>1, Channels, TailSeq
    <2> QED
      BY <1>1, <2>1, Request
  <1>3. server' \in [Key -> Node]
    BY <1>1, <1>2 DEF ConnectionInv, ConnectionTypeOK
  <1>4. a \in ToClient /\ a.type = "put" /\ a.id = m.id
    BY <1>2 DEF ToClient, PutAnswer
  <1>5. data \in Seq(ToClient) /\ \A i \in DOMAIN data : data[i].type \in {"snapshot", "child"}
    <2>1. DOMAIN <<>> = {} /\ <<>> \in Seq(ToClient)
      OBVIOUS
    <2>2. CASE ok
      BY <1>2, <1>3, <2>2, PushedData
    <2>3. CASE ~ok
      BY <2>1, <2>3
    <2> QED
      BY <2>2, <2>3
  <1> HIDE DEF data
  <1>6. /\ c \in Seq(ToClient) /\ Count(c) = Count(toClient) /\ PutIds(c) = PutIds(toClient)
        /\ PutsInOrder(c) /\ (HasAuth(c) <=> HasAuth(toClient))
        /\ \A spec : HasListen(c, spec) <=> HasListen(toClient, spec)
    BY <1>5, Channels, DataSent DEF ConnectionInv, PutsInFlight
  <1> HIDE DEF a, c
  <1>7. toClient' = Append(c, a)
    BY <1>1, <1>6
  <1>8. /\ PutIds(toServer) = PutIds(toServer') \cup {m.id}
        /\ \A b \in PutIds(toServer') : m.id < b
    BY <1>1, Channels, Taken DEF ConnectionInv, PutsInFlight
  <1>9. /\ toServer' \in Seq(ToServer) /\ PutsInOrder(toServer')
        /\ HasAuth(toServer') => HasAuth(toServer)
        /\ Count(toServer') = Count(toServer)
        /\ HasListen(toServer', listenSpec) <=> HasListen(toServer, listenSpec)
    BY <1>1, Channels, Rest DEF ConnectionInv, PutsInFlight
  <1> HIDE DEF m
  <1>10. connectionState = "connected"
    BY <1>8, PutTravels
  <1>11. /\ PutsInOrder(toServer) /\ PutsInOrder(toClient) /\ Before(toClient, toServer)
         /\ PutIds(toServer) \cup PutIds(toClient) = PutIds(outstandingPuts)
    BY <1>10 DEF ConnectionInv, PutsInFlight
  <1>12. toClient' \in Seq(ToClient) /\ PutsInOrder(toClient')
    <2>1. \A b \in PutIds(c) : b < m.id
      BY <1>6, <1>8, <1>11 DEF Before
    <2> QED
      BY <1>4, <1>6, <1>7, <2>1, Sent
  <1>13. PutIds(toClient') = PutIds(toClient) \cup {m.id}
    BY <1>4, <1>6, <1>7, Sent
  <1>14. Count(toClient') = Count(toClient) + 0
    BY <1>4, <1>6, <1>7, Sent
  <1>15. /\ HasAuth(toClient') <=> HasAuth(toClient)
         /\ HasListen(toClient', listenSpec) <=> HasListen(toClient, listenSpec)
    BY <1>4, <1>6, <1>7, Sent
  <1>16. ConnectionTypeOK'
    BY <1>1, <1>3, <1>9, <1>12 DEF ConnectionInv, RepoInv, ConnectionTypeOK
  <1>17. PhaseInv'
    BY <1>1, <1>9, <1>10, <1>15 DEF ConnectionInv, PhaseInv
  <1>18. ListensCounted'
    <2>1. Count(toClient') = Count(toClient) /\ Count(toServer') = Count(toServer)
      <3>1. Count(toClient) \in Nat
        BY Channels
      <3> QED
        BY <1>9, <1>14, <3>1
    <2>2. unackedListens' = Count(toServer') + Count(toClient')
      BY <1>1, <2>1, Channels
    <2> QED
      BY <2>2 DEF ListensCounted
  <1>19. QueryInv'
    BY <1>1, <1>9, <1>15 DEF ConnectionInv, QueryInv
  <1>20. HeldBack'
    BY <1>1 DEF ConnectionInv, HeldBack
  <1>21. PutsMatchWrites'
    BY <1>1, WritesUnchanged
  <1>22. PutsInFlight'
    <2>1. Before(toClient', toServer')
      BY <1>8, <1>11, <1>13 DEF Before
    <2>2. PutIds(toServer') \cup PutIds(toClient') = PutIds(outstandingPuts')
      BY <1>1, <1>8, <1>11, <1>13
    <2> QED
      BY <1>1, <1>9, <1>10, <1>12, <2>1, <2>2 DEF PutsInFlight
  <1> QED
    BY <1>16, <1>17, <1>18, <1>19, <1>20, <1>21, <1>22 DEF ConnectionInv

\* Another device writes.
LEMMA OtherDeviceStep ==
    ASSUME ConnectionInv, RepoInv', NEW k \in Key, NEW n \in Node, OtherDevice(k, n)
    PROVE  ConnectionInv'
  <1>1. /\ server' = [server EXCEPT ![k] = n]
        /\ toClient' = toClient \o Pushed(k)
        /\ remote' \in 0 .. MaxRemote
        /\ UNCHANGED <<allWrites, listening, serverComplete, connectionState, listenSpec,
                       listenCounter, outstandingPuts, putsToAck, unackedListens, acking,
                       toServer, serverListens, drops, ended>>
    <2>1. remote \in 0 .. MaxRemote /\ MaxRemote \in Nat
      BY ConnectionAssumption DEF ConnectionInv, ConnectionTypeOK
    <2>2. remote' \in 0 .. MaxRemote
      BY <2>1 DEF OtherDevice
    <2> QED
      BY <2>2 DEF OtherDevice, repoVars, writeVars, viewVars, connVars
  <1>2. server' \in [Key -> Node]
    BY <1>1 DEF ConnectionInv, ConnectionTypeOK
  <1>3. /\ toClient' \in Seq(ToClient) /\ PutsInOrder(toClient')
        /\ Count(toClient') = Count(toClient) /\ PutIds(toClient') = PutIds(toClient)
        /\ HasAuth(toClient') <=> HasAuth(toClient)
        /\ AuthFirst(toClient) => AuthFirst(toClient')
        /\ HasListen(toClient', listenSpec) <=> HasListen(toClient, listenSpec)
    <2>1. /\ Pushed(k) \in Seq(ToClient)
          /\ \A i \in DOMAIN Pushed(k) : Pushed(k)[i].type \in {"snapshot", "child"}
      BY <1>2, PushedData
    <2> QED
      BY <1>1, <2>1, Channels, DataSent DEF ConnectionInv, PutsInFlight
  <1>4. ~serverListens => toClient' = toClient
    BY <1>1, <1>2, PushedData, Channels
  <1>5. ConnectionTypeOK'
    BY <1>1, <1>2, <1>3 DEF ConnectionInv, RepoInv, ConnectionTypeOK
  <1>6. PhaseInv'
    BY <1>1, <1>3, <1>4 DEF ConnectionInv, PhaseInv
  <1>7. ListensCounted'
    BY <1>1, <1>3 DEF ConnectionInv, ListensCounted
  <1>8. QueryInv' /\ HeldBack'
    BY <1>1, <1>3 DEF ConnectionInv, QueryInv, HeldBack
  <1>9. PutsMatchWrites'
    BY <1>1, WritesUnchanged
  <1>10. PutsInFlight'
    BY <1>1, <1>3 DEF ConnectionInv, PutsInFlight, Before
  <1> QED
    BY <1>5, <1>6, <1>7, <1>8, <1>9, <1>10 DEF ConnectionInv

\* The server ends the listen.
LEMMA ServerRevokesStep ==
    ASSUME ConnectionInv, RepoInv', ServerRevokes
    PROVE  ConnectionInv'
  <1> DEFINE m == [type |-> "revoked"]
  <1>1. /\ serverListens /\ serverListens' = FALSE
        /\ toClient' = Append(toClient, m)
        /\ ended' \in 0 .. MaxEnded
        /\ UNCHANGED <<allWrites, listening, serverComplete, connectionState, listenSpec,
                       listenCounter, outstandingPuts, putsToAck, unackedListens, acking,
                       toServer, server, drops, remote>>
    <2>1. ended \in 0 .. MaxEnded /\ MaxEnded \in Nat
      BY ConnectionAssumption DEF ConnectionInv, ConnectionTypeOK
    <2>2. ended' \in 0 .. MaxEnded
      BY <2>1 DEF ServerRevokes
    <2> QED
      BY <2>2 DEF ServerRevokes, repoVars, writeVars, viewVars, connVars
  <1>2. m \in ToClient /\ m.type = "revoked"
    BY DEF ToClient
  <1> HIDE DEF m
  <1>3. /\ toClient' \in Seq(ToClient) /\ PutsInOrder(toClient')
        /\ HasAuth(toClient') <=> HasAuth(toClient)
        /\ HasListen(toClient', listenSpec) <=> HasListen(toClient, listenSpec)
    BY <1>1, <1>2, Channels, Sent DEF ConnectionInv, PutsInFlight
  <1>4. AuthFirst(toClient) => AuthFirst(toClient')
    <2>1. AuthFirst(toClient) => toClient # <<>>
      BY DEF AuthFirst
    <2> QED
      BY <1>1, <1>2, <2>1, Channels, Sent
  <1>5. PutIds(toClient') = PutIds(toClient) \cup {}
    BY <1>1, <1>2, Channels, Sent
  <1>6. Count(toClient') = Count(toClient) + 0
    BY <1>1, <1>2, Channels, Sent
  <1>7. ConnectionTypeOK'
    BY <1>1, <1>3 DEF ConnectionInv, RepoInv, ConnectionTypeOK
  <1>8. PhaseInv'
    BY <1>1, <1>3, <1>4 DEF ConnectionInv, PhaseInv
  <1>9. ListensCounted'
    BY <1>1, <1>6, Channels DEF ListensCounted
  <1>10. QueryInv' /\ HeldBack'
    BY <1>1, <1>3 DEF ConnectionInv, QueryInv, HeldBack
  <1>11. PutsMatchWrites'
    BY <1>1, WritesUnchanged
  <1>12. PutsInFlight'
    BY <1>1, <1>3, <1>5 DEF ConnectionInv, PutsInFlight, Before
  <1> QED
    BY <1>7, <1>8, <1>9, <1>10, <1>11, <1>12 DEF ConnectionInv

-----------------------------------------------------------------------------
(* The whole specification *)

\* It holds before the first attempt to connect.
LEMMA ConnectionInvInit ==
    ConnectionInit => ConnectionInv
  <1> SUFFICES ASSUME ConnectionInit PROVE ConnectionInv
    OBVIOUS
  <1>1. RepoInv
    <2>1. RepoInit => RepoInv
      <3> SUFFICES ASSUME RepoInit PROVE RepoInv
        OBVIOUS
      <3>1. VisibleWritesExact /\ WriteIdsIncrease
        BY DEF RepoInit, VisibleWritesExact, WriteIdsIncrease, WritesTo
      <3>2. EventCacheExact
        BY DEF RepoInit, EventCacheExact
      <3> QED
        BY <3>1, <3>2, InitTyped DEF RepoInv
    <2> QED
      BY <2>1 DEF ConnectionInit
  <1>2. /\ listening = FALSE /\ serverComplete = FALSE /\ allWrites = <<>>
        /\ connectionState = "disconnected" /\ listenSpec = 0 /\ listenCounter = 0
        /\ outstandingPuts = <<>> /\ putsToAck = <<>> /\ unackedListens = 0 /\ acking = FALSE
        /\ toServer = <<>> /\ toClient = <<>> /\ server \in [Key -> Node]
        /\ serverListens = FALSE /\ drops = 0 /\ remote = 0 /\ ended = 0
    BY DEF ConnectionInit, RepoInit
  <1>3. ConnectionTypeOK
    <2>1. MaxListens \in Nat /\ MaxDrops \in Nat /\ MaxRemote \in Nat /\ MaxEnded \in Nat
      BY ConnectionAssumption
    <2>2. /\ outstandingPuts \in Seq(Put) /\ putsToAck \in Seq(PutAnswer)
          /\ toServer \in Seq(ToServer) /\ toClient \in Seq(ToClient)
      BY <1>2
    <2>3. /\ listenSpec \in 0 .. listenCounter /\ listenCounter \in 0 .. MaxListens
          /\ drops \in 0 .. MaxDrops /\ remote \in 0 .. MaxRemote /\ ended \in 0 .. MaxEnded
          /\ unackedListens \in Nat
      BY <1>2, <2>1
    <2> QED
      BY <1>1, <1>2, <2>2, <2>3 DEF RepoInv, ConnectionTypeOK
  <1>4. PhaseInv
    BY <1>2 DEF PhaseInv
  <1>5. ListensCounted
    BY <1>2, NoMessage DEF ListensCounted
  <1>6. QueryInv /\ HeldBack
    BY <1>2 DEF QueryInv, HeldBack
  <1>7. PutsMatchWrites
    <2>1. Len(<<>>) = 0
      OBVIOUS
    <2>2. Matched(allWrites, putsToAck, outstandingPuts)
      BY <1>2, <2>1 DEF Matched
    <2> QED
      BY <1>1, <1>3, <2>2, WritesMatched DEF RepoInv
  <1>8. PutsInFlight
    BY <1>2, NoMessage DEF PutsInFlight, Before
  <1> QED
    BY <1>1, <1>3, <1>4, <1>5, <1>6, <1>7, <1>8 DEF ConnectionInv

\* Every handler, the server and what happens outside keep it.
LEMMA ConnectionInvStep ==
    ConnectionInv /\ [ConnectionNext]_connectionVars => ConnectionInv'
  <1> SUFFICES ASSUME ConnectionInv, [ConnectionNext]_connectionVars PROVE ConnectionInv'
    OBVIOUS
  <1>0. RepoInv'
    BY RepoInvStep
  <1>1. ASSUME NEW k \in Key, NEW n \in Node, PutData(k, n) PROVE ConnectionInv'
    BY <1>0, <1>1, PutDataStep
  <1>2. CASE Listen
    BY <1>0, <1>2, ListenStep
  <1>3. CASE TryReconnect
    BY <1>0, <1>3, TryReconnectStep
  <1>4. ASSUME NEW token \in BOOLEAN, OnReady(token) PROVE ConnectionInv'
    BY <1>0, <1>4, OnReadyStep
  <1>5. CASE OnAuth
    BY <1>0, <1>5, OnAuthStep
  <1>6. CASE OnDataPush
    BY <1>0, <1>6, OnDataPushStep
  <1>7. CASE OnListenRevoked
    BY <1>0, <1>7, OnListenRevokedStep
  <1>8. CASE OnListenResponse
    BY <1>0, <1>8, OnListenResponseStep
  <1>9. CASE AckPuts
    BY <1>0, <1>9, AckPutsStep
  <1>10. CASE OnPutResponse
    BY <1>0, <1>10, OnPutResponseStep
  <1>11. ASSUME NEW ok \in BOOLEAN, ServerAuth(ok) PROVE ConnectionInv'
    BY <1>0, <1>11, ServerAuthStep
  <1>12. ASSUME NEW ok \in BOOLEAN, ServerListen(ok) PROVE ConnectionInv'
    BY <1>0, <1>12, ServerListenStep
  <1>13. ASSUME NEW ok \in BOOLEAN, ServerPut(ok) PROVE ConnectionInv'
    BY <1>0, <1>13, ServerPutStep
  <1>14. CASE OnDisconnect
    <2>1. drops \in 0 .. MaxDrops /\ MaxDrops \in Nat
      BY ConnectionAssumption DEF ConnectionInv, ConnectionTypeOK
    <2>2. drops' \in 0 .. MaxDrops
      BY <1>14, <2>1 DEF OnDisconnect
    <2> QED
      BY <1>0, <1>14, <2>2, DropStep DEF OnDisconnect
  <1>15. ASSUME NEW k \in Key, NEW n \in Node, OtherDevice(k, n) PROVE ConnectionInv'
    BY <1>0, <1>15, OtherDeviceStep
  <1>16. CASE ServerRevokes
    BY <1>0, <1>16, ServerRevokesStep
  <1>17. CASE UNCHANGED connectionVars
    <2>1. UNCHANGED <<allWrites, listening, serverComplete, connectionState, listenSpec,
                      listenCounter, outstandingPuts, putsToAck, unackedListens, acking,
                      toServer, toClient, server, serverListens, drops, remote, ended>>
      BY <1>17 DEF connectionVars, repoVars, writeVars, viewVars, connVars, netVars
    <2>2. ConnectionTypeOK'
      BY <1>0, <2>1 DEF ConnectionInv, RepoInv, ConnectionTypeOK
    <2>3. PhaseInv' /\ ListensCounted' /\ QueryInv' /\ HeldBack'
      BY <2>1 DEF ConnectionInv, PhaseInv, ListensCounted, QueryInv, HeldBack
    <2>4. PutsMatchWrites'
      BY <2>1, WritesUnchanged
    <2>5. PutsInFlight'
      BY <2>1 DEF ConnectionInv, PutsInFlight
    <2> QED
      BY <1>0, <2>2, <2>3, <2>4, <2>5 DEF ConnectionInv
  <1> QED
    BY <1>1, <1>2, <1>3, <1>4, <1>5, <1>6, <1>7, <1>8, <1>9, <1>10, <1>11, <1>12, <1>13,
       <1>14, <1>15, <1>16, <1>17
    DEF ConnectionNext, ClientStep, SocketStep, MessageStep, ServerStep, OutsideStep

\* The whole inductive invariant.
THEOREM ConnectionInvariant == ConnectionSpec => []ConnectionInv
  BY ConnectionInvInit, ConnectionInvStep, PTL DEF ConnectionSpec

\* The assertion that unackedListens is never "decremented to be negative"
\* (FPersistentConnection sendListen) holds, and all else has its type.
THEOREM ConnectionTypeCorrect == ConnectionSpec => []ConnectionTypeOK
  <1>1. ConnectionInv => ConnectionTypeOK
    BY DEF ConnectionInv
  <1> QED
    BY <1>1, ConnectionInvariant, PTL

\* No write is lost, doubled or overtaken on its way, whenever sockets break:
\* the client's pending writes (FWriteTree) are the answers held back and the
\* outstanding puts (FPersistentConnection).
THEOREM NoPutIsLost == ConnectionSpec => []PutsMatchWrites
  <1>1. ConnectionInv => PutsMatchWrites
    BY DEF ConnectionInv
  <1> QED
    BY <1>1, ConnectionInvariant, PTL

\* The connection is the environment the database client is specified in:
\* while there is a view, answers reach it oldest first and after its first
\* server data (FPersistentConnection ackPuts).
THEOREM ConnectionImplementsRepo == ConnectionSpec => ImplementsRepo
  <1>1. ConnectionInit => RepoInit
    BY DEF ConnectionInit
  <1> QED
    BY <1>1, RepoStep, ConnectionInvariant, PTL DEF ConnectionSpec, ImplementsRepo, RepoSpec

\* So, over a connection that breaks and sends again, what listeners were told
\* is still the server's data under the pending writes (FViewProcessor).
THEOREM ShownOverConnection ==
    ConnectionSpec => []EventCacheExact /\ PendingWriteStays
  BY ConnectionImplementsRepo, EventCacheCorrect, PendingWriteIsStable DEF ImplementsRepo
=============================================================================
