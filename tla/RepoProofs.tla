----------------------------- MODULE RepoProofs -----------------------------
(***************************************************************************)
(* Invariance proofs for module Repo, for every set of children and        *)
(* contents and any number of writes.                                      *)
(*                                                                         *)
(* RepoInv is inductive.  EventCacheExact alone is not: an answered write  *)
(* uncovers the server's child exactly when no later write hides it, which *)
(* needs VisibleWritesExact, and that needs the queue's shape.             *)
(***************************************************************************)
EXTENDS Repo, SeqLemmas

RepoInv ==
    /\ RepoTypeOK
    /\ VisibleWritesExact
    /\ EventCacheExact
    /\ WriteIdsIncrease

\* Forgetting a write closes the gap in the queue (FWriteTree allWrites).
LEMMA RemoveIndexSeq ==
    ASSUME NEW ws \in Seq(Write), NEW i \in DOMAIN ws
    PROVE  /\ RemoveIndex(ws, i) \in Seq(Write)
           /\ Len(RemoveIndex(ws, i)) = Len(ws) - 1
           /\ DOMAIN RemoveIndex(ws, i) = 1 .. (Len(ws) - 1)
           /\ \A j \in 1 .. (Len(ws) - 1) :
                 RemoveIndex(ws, i)[j] = IF j < i THEN ws[j] ELSE ws[j + 1]
  <1> DEFINE rs == RemoveIndex(ws, i)
  <1>1. Len(ws) \in Nat /\ Len(ws) >= 1
    OBVIOUS
  <1>2. rs = [j \in 1 .. (Len(ws) - 1) |-> IF j < i THEN ws[j] ELSE ws[j + 1]]
    BY DEF RemoveIndex
  <1>3. \A j \in 1 .. (Len(ws) - 1) : ws[j] \in Write /\ ws[j + 1] \in Write
    BY <1>1
  <1>4. rs \in [1 .. (Len(ws) - 1) -> Write]
    BY <1>2, <1>3
  <1>5. Len(ws) - 1 \in Nat
    BY <1>1
  <1>6. rs \in Seq(Write) /\ Len(rs) = Len(ws) - 1
    BY <1>4, <1>5
  <1> QED
    BY <1>2, <1>4, <1>6

\* Forgetting the oldest write shifts the queue by one.
LEMMA RemoveOldest ==
    ASSUME NEW ws \in Seq(Write), ws # <<>>
    PROVE  /\ RemoveIndex(ws, 1) \in Seq(Write)
           /\ Len(RemoveIndex(ws, 1)) = Len(ws) - 1
           /\ DOMAIN RemoveIndex(ws, 1) = 1 .. (Len(ws) - 1)
           /\ \A j \in 1 .. (Len(ws) - 1) : RemoveIndex(ws, 1)[j] = ws[j + 1]
  <1>1. 1 \in DOMAIN ws /\ Len(ws) \in Nat
    OBVIOUS
  <1>2. \A j \in 1 .. (Len(ws) - 1) : ~(j < 1)
    BY <1>1
  <1> QED
    BY <1>1, <1>2, RemoveIndexSeq

\* The queue after a write is appended (FWriteTree addOverwriteAtPath).
LEMMA AppendWrite ==
    ASSUME NEW ws \in Seq(Write), NEW w \in Write
    PROVE  /\ Append(ws, w) \in Seq(Write)
           /\ DOMAIN Append(ws, w) = 1 .. (Len(ws) + 1)
           /\ \A j \in 1 .. Len(ws) : Append(ws, w)[j] = ws[j]
           /\ Append(ws, w)[Len(ws) + 1] = w
  OBVIOUS

\* The fields of a queued write (FWriteRecord).
LEMMA QueuedWrite ==
    ASSUME NEW ws \in Seq(Write), NEW i \in DOMAIN ws
    PROVE  ws[i].id \in Nat /\ ws[i].key \in Key /\ ws[i].node \in Node
  <1>1. ws[i] \in Write
    OBVIOUS
  <1> QED
    BY <1>1 DEF Write

\* No write is queued before the oldest one: removeWriteId of the oldest write
\* never needs to rebuild the tree (FWriteTree resetTree).
LEMMA OldestHasNoEarlier ==
    ASSUME allWrites \in Seq(Write), allWrites # <<>>
    PROVE  ~ OverlapsEarlier(1)
  <1>1. \A j \in DOMAIN allWrites : j \in Nat /\ j >= 1
    OBVIOUS
  <1> QED
    BY <1>1 DEF OverlapsEarlier, WritesTo

\* The tree computed from the queue holds the last write to each child
\* (FWriteTree layerTreeFromWrites).
LEMMA LayerTreeExact ==
    ASSUME NEW ws \in Seq(Write), NEW k \in Key
    PROVE  /\ LayerTreeFromWrites(ws)[k] \in Node \cup {NoWrite}
           /\ \/ LayerTreeFromWrites(ws)[k] = NoWrite /\ WritesTo(ws, k) = {}
              \/ \E i \in WritesTo(ws, k) :
                    /\ LayerTreeFromWrites(ws)[k] = ws[i].node
                    /\ \A j \in WritesTo(ws, k) : j <= i
  <1>1. CASE WritesTo(ws, k) = {}
    BY <1>1 DEF LayerTreeFromWrites
  <1>2. CASE WritesTo(ws, k) # {}
    <2>1. WritesTo(ws, k) \in SUBSET (1 .. Len(ws)) /\ Len(ws) \in Nat
      BY DEF WritesTo
    <2>2. \E i \in WritesTo(ws, k) : \A j \in WritesTo(ws, k) : j <= i
      BY <1>2, <2>1, GreatestNumber
    <2> DEFINE last == CHOOSE i \in WritesTo(ws, k) : \A j \in WritesTo(ws, k) : j <= i
    <2>3. last \in WritesTo(ws, k) /\ \A j \in WritesTo(ws, k) : j <= last
      BY <2>2
    <2>4. LayerTreeFromWrites(ws)[k] = ws[last].node
      BY <1>2 DEF LayerTreeFromWrites
    <2> HIDE DEF last
    <2>5. ws[last].node \in Node
      BY <2>3, QueuedWrite DEF WritesTo
    <2> QED
      BY <2>3, <2>4, <2>5
  <1> QED
    BY <1>1, <1>2

\* The tree after a write is forgotten is well typed (FWriteTree removeWriteId).
LEMMA RemovedTyped ==
    ASSUME RepoTypeOK, NEW i \in DOMAIN allWrites
    PROVE  /\ RemoveIndex(allWrites, i) \in Seq(Write)
           /\ VisibleAfterRemove(i) \in [Key -> Node \cup {NoWrite}]
  <1>1. RemoveIndex(allWrites, i) \in Seq(Write)
    BY RemoveIndexSeq DEF RepoTypeOK
  <1> DEFINE rs == RemoveIndex(allWrites, i)
  <1>2. LayerTreeFromWrites(rs) \in [Key -> Node \cup {NoWrite}]
    <2> HIDE DEF rs
    <2>1. \A k \in Key : LayerTreeFromWrites(rs)[k] \in Node \cup {NoWrite}
      BY <1>1, LayerTreeExact DEF rs
    <2>2. LayerTreeFromWrites(rs) = [k \in Key |-> LayerTreeFromWrites(rs)[k]]
      BY DEF LayerTreeFromWrites
    <2> HIDE DEF LayerTreeFromWrites
    <2> QED
      BY <2>1, <2>2
  <1> QED
    BY <1>1, <1>2 DEF VisibleAfterRemove, RepoTypeOK

\* A new write is well typed (FWriteTree addOverwriteAtPath).
LEMMA AddTyped ==
    ASSUME RepoTypeOK, NEW k \in Key, NEW n \in Node, AddOverwrite(k, n)
    PROVE  /\ writeIdCounter' \in Nat
           /\ allWrites' \in Seq(Write)
           /\ visibleWrites' \in [Key -> Node \cup {NoWrite}]
  <1>1. [id |-> writeIdCounter, key |-> k, node |-> n] \in Write
    BY DEF RepoTypeOK, Write
  <1> QED
    BY <1>1 DEF AddOverwrite, RepoTypeOK

\* Every step keeps the state well typed.
LEMMA TypeStep ==
    ASSUME RepoTypeOK, [RepoNext]_repoVars
    PROVE  RepoTypeOK'
  <1> USE DEF RepoTypeOK, Node
  <1>1. ASSUME NEW k \in Key, NEW n \in Node, Set(k, n)
        PROVE  RepoTypeOK'
    BY <1>1, AddTyped DEF Set, ApplyUserOverwriteTo
  <1>2. CASE AddEventRegistration
    BY <1>2 DEF AddEventRegistration, NewView, Layer, Empty, writeVars
  <1>3. ASSUME NEW i \in DOMAIN allWrites, NEW success \in BOOLEAN, AckWrite(i, success)
        PROVE  RepoTypeOK'
    <2>1. allWrites' \in Seq(Write)
      BY <1>3, RemovedTyped DEF AckWrite, RemoveWriteId
    <2>2. VisibleAfterRemove(i) \in [Key -> Node \cup {NoWrite}]
      BY <1>3, RemovedTyped
    <2>3. eventCache' \in [Key -> Node]
      BY <1>3 DEF AckWrite, AckUserWriteOn, RevertUserWriteOn, Uncover
    <2> QED
      BY <1>3, <2>1, <2>2, <2>3 DEF AckWrite, RemoveWriteId
  <1>4. ASSUME NEW k \in Key, NEW n \in Node, ApplyServerOverwrite(k, n)
        PROVE  RepoTypeOK'
    BY <1>4 DEF ApplyServerOverwrite, EventAfterServerOverwrite, writeVars
  <1>5. ASSUME NEW nodes \in [Key -> Node], ApplyServerSnapshot(nodes)
        PROVE  RepoTypeOK'
    BY <1>5 DEF ApplyServerSnapshot, Layer, writeVars
  <1>6. CASE ApplyListenComplete
    BY <1>6 DEF ApplyListenComplete, Layer, writeVars
  <1>7. CASE RemoveEventRegistrations
    BY <1>7 DEF RemoveEventRegistrations, Empty, writeVars
  <1>8. CASE UNCHANGED repoVars
    BY <1>8 DEF repoVars, writeVars, viewVars
  <1> QED
    BY <1>1, <1>2, <1>3, <1>4, <1>5, <1>6, <1>7, <1>8 DEF RepoNext

\* The initial state is well typed.
LEMMA InitTyped ==
    ASSUME RepoInit
    PROVE  RepoTypeOK
  <1>1. writeIdCounter \in Nat /\ allWrites \in Seq(Write)
    BY DEF RepoInit
  <1>2. listening \in BOOLEAN /\ serverComplete \in BOOLEAN
    BY DEF RepoInit
  <1>3. /\ visibleWrites \in [Key -> Node \cup {NoWrite}]
        /\ serverCache \in [Key -> Node]
        /\ eventCache \in [Key -> Node]
    BY DEF RepoInit, Node, Empty
  <1> QED
    BY <1>1, <1>2, <1>3 DEF RepoTypeOK

\* Type correctness of the client (Repo's variables in every behaviour).
THEOREM RepoTypeCorrect == RepoSpec => []RepoTypeOK
  <1>1. RepoInit => RepoTypeOK
    BY InitTyped
  <1>2. RepoTypeOK /\ [RepoNext]_repoVars => RepoTypeOK'
    BY TypeStep
  <1> QED
    BY <1>1, <1>2, PTL DEF RepoSpec

-----------------------------------------------------------------------------

\* A child is covered by visibleWrites exactly when a write to it is pending.
LEMMA CoveredIffPending ==
    ASSUME RepoTypeOK, VisibleWritesExact, NEW k \in Key
    PROVE  visibleWrites[k] = NoWrite <=> WritesTo(allWrites, k) = {}
  <1>1. \A i \in WritesTo(allWrites, k) : allWrites[i].node \in Node
    BY QueuedWrite DEF RepoTypeOK, WritesTo
  <1>2. NoWrite \notin Node
    BY NodeAssumption DEF Node
  <1> QED
    BY <1>1, <1>2 DEF VisibleWritesExact

\* A new write keeps visibleWrites equal to the last pending writes.
LEMMA AddVisible ==
    ASSUME RepoTypeOK, VisibleWritesExact,
           NEW k \in Key, NEW n \in Node, AddOverwrite(k, n)
    PROVE  VisibleWritesExact'
  <1> DEFINE w == [id |-> writeIdCounter, key |-> k, node |-> n]
             last == Len(allWrites) + 1
  <1>0. allWrites \in Seq(Write) /\ w \in Write /\ Len(allWrites) \in Nat
    BY DEF RepoTypeOK, Write
  <1>1. /\ DOMAIN allWrites' = 1 .. last
        /\ \A j \in 1 .. Len(allWrites) : allWrites'[j] = allWrites[j]
        /\ allWrites'[last] = w
    BY <1>0, AppendWrite DEF AddOverwrite
  <1>2. ASSUME NEW c \in Key, c # k
        PROVE  /\ WritesTo(allWrites', c) = WritesTo(allWrites, c)
               /\ visibleWrites'[c] = visibleWrites[c]
               /\ \A i \in WritesTo(allWrites, c) : allWrites'[i] = allWrites[i]
    BY <1>0, <1>1, <1>2 DEF WritesTo, AddOverwrite, RepoTypeOK
  <1>3. /\ last \in WritesTo(allWrites', k)
        /\ visibleWrites'[k] = allWrites'[last].node
        /\ \A j \in WritesTo(allWrites', k) : j <= last
    BY <1>0, <1>1 DEF WritesTo, AddOverwrite, RepoTypeOK
  <1>4. ASSUME NEW c \in Key
        PROVE  \/ visibleWrites'[c] = NoWrite /\ WritesTo(allWrites', c) = {}
               \/ \E i \in WritesTo(allWrites', c) :
                     /\ visibleWrites'[c] = allWrites'[i].node
                     /\ \A j \in WritesTo(allWrites', c) : j <= i
    <2>1. CASE c = k
      BY <1>3, <2>1
    <2>2. CASE c # k
      BY <1>2, <2>2 DEF VisibleWritesExact
    <2> QED
      BY <2>1, <2>2
  <1> QED
    BY <1>4 DEF VisibleWritesExact

\* Where the writes of each child are after the one at index i is forgotten.
LEMMA RemovedWrites ==
    ASSUME NEW ws \in Seq(Write), NEW i \in DOMAIN ws, NEW c \in Key
    PROVE  \A j \in Nat : j \in WritesTo(RemoveIndex(ws, i), c)
                            <=> IF j < i THEN j \in WritesTo(ws, c)
                                         ELSE j + 1 \in WritesTo(ws, c)
  <1> DEFINE rs == RemoveIndex(ws, i)
  <1>1. /\ DOMAIN rs = 1 .. (Len(ws) - 1)
        /\ \A j \in 1 .. (Len(ws) - 1) : rs[j] = IF j < i THEN ws[j] ELSE ws[j + 1]
    BY RemoveIndexSeq
  <1>2. DOMAIN ws = 1 .. Len(ws) /\ Len(ws) \in Nat /\ i \in 1 .. Len(ws)
    OBVIOUS
  <1> HIDE DEF rs
  <1>3. ASSUME NEW j \in Nat
        PROVE  j \in WritesTo(rs, c) <=> IF j < i THEN j \in WritesTo(ws, c)
                                                  ELSE j + 1 \in WritesTo(ws, c)
    <2>1. CASE j < i
      BY <1>1, <1>2, <2>1 DEF WritesTo
    <2>2. CASE ~(j < i)
      BY <1>1, <1>2, <2>2 DEF WritesTo
    <2> QED
      BY <2>1, <2>2
  <1> QED
    BY <1>3 DEF rs

\* What the answer to the oldest write does to the writes of each child.
LEMMA AckWrites ==
    ASSUME RepoTypeOK, MayAnswer(1), NEW success \in BOOLEAN, AckWrite(1, success),
           NEW c \in Key
    PROVE  \A j \in Nat : j \in WritesTo(allWrites', c)
                            <=> j >= 1 /\ j + 1 \in WritesTo(allWrites, c)
  <1>1. allWrites \in Seq(Write) /\ 1 \in DOMAIN allWrites
    BY DEF RepoTypeOK, MayAnswer
  <1>2. allWrites' = RemoveIndex(allWrites, 1)
    BY DEF AckWrite, RemoveWriteId
  <1>3. ASSUME NEW j \in Nat
        PROVE  j \in WritesTo(allWrites', c) <=> j >= 1 /\ j + 1 \in WritesTo(allWrites, c)
    <2>1. j \in WritesTo(allWrites', c)
             <=> IF j < 1 THEN j \in WritesTo(allWrites, c) ELSE j + 1 \in WritesTo(allWrites, c)
      BY <1>1, <1>2, RemovedWrites
    <2>2. 0 \notin WritesTo(allWrites, c)
      BY <1>1 DEF WritesTo
    <2>3. j < 1 => j = 0
      OBVIOUS
    <2> QED
      BY <2>1, <2>2, <2>3
  <1> QED
    BY <1>3

\* removeWriteId keeps visibleWrites exact, whichever write it forgets.
LEMMA AckVisible ==
    ASSUME RepoTypeOK, VisibleWritesExact, NEW i \in DOMAIN allWrites,
           NEW success \in BOOLEAN, AckWrite(i, success)
    PROVE  VisibleWritesExact'
  <1> DEFINE k == allWrites[i].key
  <1>1. /\ allWrites \in Seq(Write) /\ Len(allWrites) \in Nat
        /\ DOMAIN allWrites = 1 .. Len(allWrites)
        /\ k \in Key
    BY QueuedWrite DEF RepoTypeOK
  <1>2. /\ allWrites' = RemoveIndex(allWrites, i)
        /\ visibleWrites' = VisibleAfterRemove(i)
    BY DEF AckWrite, RemoveWriteId
  <1>3. /\ allWrites' \in Seq(Write)
        /\ \A j \in 1 .. (Len(allWrites) - 1) :
              allWrites'[j] = IF j < i THEN allWrites[j] ELSE allWrites[j + 1]
        /\ \A c \in Key : WritesTo(allWrites', c) \subseteq 1 .. (Len(allWrites) - 1)
    BY <1>1, <1>2, RemoveIndexSeq DEF WritesTo
  <1>4. ASSUME NEW c \in Key
        PROVE  \/ visibleWrites'[c] = NoWrite /\ WritesTo(allWrites', c) = {}
               \/ \E l \in WritesTo(allWrites', c) :
                     /\ visibleWrites'[c] = allWrites'[l].node
                     /\ \A j \in WritesTo(allWrites', c) : j <= l
    <2>0. /\ \A j \in WritesTo(allWrites', c) :
                /\ j \in Nat
                /\ j < i => j \in WritesTo(allWrites, c)
                /\ ~(j < i) => j + 1 \in WritesTo(allWrites, c)
          /\ \A j \in WritesTo(allWrites, c) :
                /\ j \in 1 .. Len(allWrites)
                /\ j < i => j \in WritesTo(allWrites', c)
                /\ j > i => j - 1 \in WritesTo(allWrites', c)
      <3>0. \A j \in Nat : j \in WritesTo(allWrites', c)
                              <=> IF j < i THEN j \in WritesTo(allWrites, c)
                                           ELSE j + 1 \in WritesTo(allWrites, c)
        BY <1>1, <1>2, RemovedWrites
      <3>1. \A j \in WritesTo(allWrites', c) : j \in Nat
        BY <1>1, <1>3
      <3>2. ASSUME NEW j \in WritesTo(allWrites, c)
            PROVE  /\ j \in 1 .. Len(allWrites)
                   /\ j < i => j \in WritesTo(allWrites', c)
                   /\ j > i => j - 1 \in WritesTo(allWrites', c)
        <4>1. j \in 1 .. Len(allWrites)
          BY <1>1 DEF WritesTo
        <4>2. j < i => j \in WritesTo(allWrites', c)
          BY <3>0, <4>1
        <4>3. ASSUME j > i PROVE j - 1 \in WritesTo(allWrites', c)
          <5>1. j - 1 \in Nat /\ ~(j - 1 < i) /\ (j - 1) + 1 = j
            BY <1>1, <4>1, <4>3
          <5> QED
            BY <3>0, <5>1
        <4> QED
          BY <4>1, <4>2, <4>3
      <3> QED
        BY <3>0, <3>1, <3>2
    <2>1. CASE ~IsShadowed(i) /\ OverlapsEarlier(i)
      <3>1. visibleWrites' = LayerTreeFromWrites(allWrites')
        BY <1>2, <2>1 DEF VisibleAfterRemove
      <3> QED
        BY <1>3, <3>1, LayerTreeExact
    <2>2. CASE c = k /\ ~IsShadowed(i) /\ ~OverlapsEarlier(i)
      <3>1. visibleWrites'[c] = NoWrite
        BY <1>1, <1>2, <2>2 DEF VisibleAfterRemove, RepoTypeOK
      <3>2. \A j \in WritesTo(allWrites, c) : j = i
        BY <1>1, <2>2 DEF IsShadowed, OverlapsEarlier, WritesTo
      <3>3. \A j \in WritesTo(allWrites', c) : FALSE
        BY <1>1, <2>0, <3>2
      <3> QED
        BY <3>1, <3>3
    <2>3. CASE IsShadowed(i) \/ (c # k /\ ~OverlapsEarlier(i))
      <3>1. visibleWrites'[c] = visibleWrites[c]
        BY <1>1, <1>2, <2>3 DEF VisibleAfterRemove, RepoTypeOK
      <3>2. CASE WritesTo(allWrites, c) = {}
        <4>1. visibleWrites[c] = NoWrite
          BY <3>2, CoveredIffPending
        <4>2. \A j \in WritesTo(allWrites', c) : FALSE
          BY <2>0, <3>2
        <4> QED
          BY <3>1, <4>1, <4>2
      <3>3. CASE WritesTo(allWrites, c) # {}
        <4>1. PICK l \in WritesTo(allWrites, c) :
                 /\ visibleWrites[c] = allWrites[l].node
                 /\ \A j \in WritesTo(allWrites, c) : j <= l
          BY <3>3 DEF VisibleWritesExact
        <4>2. l \in 1 .. Len(allWrites) /\ l # i
          <5>1. l \in 1 .. Len(allWrites)
            BY <1>1 DEF WritesTo
          <5>2. CASE c = k
            BY <1>1, <2>3, <4>1, <5>1, <5>2 DEF IsShadowed, WritesTo
          <5>3. CASE c # k
            BY <5>1, <5>3 DEF WritesTo
          <5> QED
            BY <5>1, <5>2, <5>3
        <4>3. CASE l < i
          <5>0. l \in 1 .. (Len(allWrites) - 1)
            BY <1>1, <4>2, <4>3
          <5>1. l \in WritesTo(allWrites', c) /\ allWrites'[l] = allWrites[l]
            BY <1>3, <2>0, <4>1, <4>3, <5>0
          <5>2. \A j \in WritesTo(allWrites', c) : j <= l
            BY <1>1, <2>0, <4>1, <4>2, <4>3
          <5> QED
            BY <3>1, <4>1, <5>1, <5>2
        <4>4. CASE l > i
          <5>1. PICK m \in 1 .. (Len(allWrites) - 1) : m = l - 1 /\ ~(m < i) /\ m + 1 = l
            BY <1>1, <4>2, <4>4
          <5>2. m \in WritesTo(allWrites', c) /\ allWrites'[m] = allWrites[l]
            BY <1>3, <2>0, <4>1, <4>4, <5>1
          <5>3. \A j \in WritesTo(allWrites', c) : j <= m
            BY <1>1, <2>0, <4>1, <4>2, <4>4, <5>1
          <5> QED
            BY <3>1, <4>1, <5>2, <5>3
        <4>5. l < i \/ l > i
          BY <1>1, <4>2
        <4> QED
          BY <4>3, <4>4, <4>5
      <3> QED
        BY <3>2, <3>3
    <2> QED
      BY <2>1, <2>2, <2>3
  <1> QED
    BY <1>4 DEF VisibleWritesExact

-----------------------------------------------------------------------------

\* visibleWrites stays exact through every step.
LEMMA VisibleStep ==
    ASSUME RepoTypeOK, VisibleWritesExact, [RepoNext]_repoVars
    PROVE  VisibleWritesExact'
  <1>1. ASSUME NEW k \in Key, NEW n \in Node, Set(k, n)
        PROVE  VisibleWritesExact'
    BY <1>1, AddVisible DEF Set
  <1>2. ASSUME NEW i \in DOMAIN allWrites, NEW success \in BOOLEAN, AckWrite(i, success)
        PROVE  VisibleWritesExact'
    BY <1>2, AckVisible
  <1>3. CASE UNCHANGED writeVars
    BY <1>3 DEF writeVars, VisibleWritesExact, WritesTo
  <1> QED
    BY <1>1, <1>2, <1>3
    DEF RepoNext, repoVars, AddEventRegistration, ApplyServerOverwrite,
        ApplyServerSnapshot, ApplyListenComplete, RemoveEventRegistrations

\* A new write has an id above all others.
LEMMA AddWriteIds ==
    ASSUME RepoTypeOK, WriteIdsIncrease,
           NEW k \in Key, NEW n \in Node, AddOverwrite(k, n)
    PROVE  WriteIdsIncrease'
  <1>0. allWrites \in Seq(Write) /\ Len(allWrites) \in Nat /\ writeIdCounter \in Nat
    BY DEF RepoTypeOK
  <1> DEFINE w == [id |-> writeIdCounter, key |-> k, node |-> n]
  <1>1. w \in Write /\ w.id = writeIdCounter
    BY <1>0 DEF Write
  <1>2. /\ DOMAIN allWrites' = 1 .. (Len(allWrites) + 1)
        /\ \A j \in 1 .. Len(allWrites) : allWrites'[j] = allWrites[j]
        /\ allWrites'[Len(allWrites) + 1] = w
        /\ writeIdCounter' = writeIdCounter + 1
    BY <1>0, <1>1, AppendWrite DEF AddOverwrite
  <1>3. \A i \in 1 .. Len(allWrites) : allWrites[i].id \in Nat
    BY <1>0, QueuedWrite
  <1>4. \A i \in DOMAIN allWrites' : allWrites'[i].id < writeIdCounter'
    BY <1>0, <1>1, <1>2, <1>3 DEF WriteIdsIncrease
  <1>5. ASSUME NEW i \in DOMAIN allWrites', NEW j \in DOMAIN allWrites', i < j
        PROVE  allWrites'[i].id < allWrites'[j].id
    <2>1. i \in 1 .. Len(allWrites) /\ i \in DOMAIN allWrites
      BY <1>0, <1>2, <1>5
    <2>2. CASE j = Len(allWrites) + 1
      BY <1>0, <1>1, <1>2, <2>1, <2>2 DEF WriteIdsIncrease
    <2>3. CASE j # Len(allWrites) + 1
      <3>1. j \in 1 .. Len(allWrites) /\ j \in DOMAIN allWrites
        BY <1>0, <1>2, <2>3
      <3> QED
        BY <1>2, <1>5, <2>1, <3>1 DEF WriteIdsIncrease
    <2> QED
      BY <2>2, <2>3
  <1> QED
    BY <1>4, <1>5 DEF WriteIdsIncrease

\* Ids stay increasing along the queue through every step.
LEMMA WriteIdsStep ==
    ASSUME RepoTypeOK, WriteIdsIncrease, [RepoNext]_repoVars
    PROVE  WriteIdsIncrease'
  <1>0. allWrites \in Seq(Write) /\ Len(allWrites) \in Nat /\ writeIdCounter \in Nat
    BY DEF RepoTypeOK
  <1>1. ASSUME NEW k \in Key, NEW n \in Node, Set(k, n)
        PROVE  WriteIdsIncrease'
    BY <1>1, AddWriteIds DEF Set
  <1>2. ASSUME NEW x \in DOMAIN allWrites, NEW success \in BOOLEAN, AckWrite(x, success)
        PROVE  WriteIdsIncrease'
    <2> DEFINE at(i) == IF i < x THEN i ELSE i + 1
    <2>1. /\ DOMAIN allWrites' = 1 .. (Len(allWrites) - 1)
          /\ \A j \in 1 .. (Len(allWrites) - 1) :
                allWrites'[j] = IF j < x THEN allWrites[j] ELSE allWrites[j + 1]
          /\ writeIdCounter' = writeIdCounter
      BY <1>0, <1>2, RemoveIndexSeq DEF AckWrite, RemoveWriteId
    <2>2. DOMAIN allWrites = 1 .. Len(allWrites)
      BY <1>0
    <2>3. ASSUME NEW i \in DOMAIN allWrites'
          PROVE  at(i) \in DOMAIN allWrites /\ allWrites'[i] = allWrites[at(i)] /\ i \in Nat
      BY <1>0, <2>1, <2>2
    <2>4. \A i \in DOMAIN allWrites' : allWrites'[i].id < writeIdCounter'
      <3> HIDE DEF at
      <3> QED
        BY <2>1, <2>3 DEF WriteIdsIncrease
    <2>5. ASSUME NEW i \in DOMAIN allWrites', NEW j \in DOMAIN allWrites', i < j
          PROVE  allWrites'[i].id < allWrites'[j].id
      <3>1. at(i) < at(j)
        BY <2>2, <2>3, <2>5
      <3> HIDE DEF at
      <3> QED
        BY <2>3, <3>1 DEF WriteIdsIncrease
    <2> QED
      BY <2>4, <2>5 DEF WriteIdsIncrease
  <1>3. CASE UNCHANGED writeVars
    BY <1>3 DEF writeVars, WriteIdsIncrease
  <1> QED
    BY <1>1, <1>2, <1>3
    DEF RepoNext, repoVars, AddEventRegistration, ApplyServerOverwrite,
        ApplyServerSnapshot, ApplyListenComplete, RemoveEventRegistrations

\* What the answer to the oldest write does to the event cache: nothing while
\* a later write hides it, the server's child otherwise.
LEMMA AckEvent ==
    ASSUME RepoTypeOK, VisibleWritesExact, MayAnswer(1), listening,
           NEW success \in BOOLEAN, AckWrite(1, success)
    PROVE  LET k == allWrites[1].key
           IN  /\ k \in Key
               /\ visibleWrites' = IF IsShadowed(1) THEN visibleWrites
                                   ELSE [visibleWrites EXCEPT ![k] = NoWrite]
               /\ eventCache' = IF IsShadowed(1) THEN eventCache
                                ELSE [eventCache EXCEPT ![k] = serverCache[k]]
  <1> DEFINE k == allWrites[1].key
  <1>1. /\ allWrites \in Seq(Write) /\ 1 \in DOMAIN allWrites
        /\ allWrites # <<>> /\ serverComplete
    BY DEF RepoTypeOK, MayAnswer
  <1>2. k \in Key
    BY <1>1, QueuedWrite
  <1>3. VisibleAfterRemove(1) = IF IsShadowed(1) THEN visibleWrites
                                ELSE [visibleWrites EXCEPT ![k] = NoWrite]
    BY <1>1, OldestHasNoEarlier DEF VisibleAfterRemove
  <1>4. ~IsShadowed(1) => VisibleAfterRemove(1)[k] = NoWrite
    BY <1>2, <1>3 DEF RepoTypeOK
  <1>5. eventCache' = IF IsShadowed(1) THEN eventCache
                      ELSE [eventCache EXCEPT ![k] = serverCache[k]]
    BY <1>1, <1>4 DEF AckWrite, AckUserWriteOn, RevertUserWriteOn, Uncover
  <1> QED
    BY <1>2, <1>3, <1>5 DEF AckWrite, RemoveWriteId

\* The event cache stays the pending writes over the server cache.
LEMMA EventStep ==
    ASSUME RepoTypeOK, VisibleWritesExact, EventCacheExact, [RepoNext]_repoVars
    PROVE  EventCacheExact'
  <1> SUFFICES ASSUME listening'
               PROVE  eventCache' = Layer(visibleWrites', serverCache')
    BY DEF EventCacheExact, Layer
  <1>0. NoWrite \notin Node
    BY NodeAssumption DEF Node
  <1>1. ASSUME NEW k \in Key, NEW n \in Node, Set(k, n)
        PROVE  eventCache' = Layer(visibleWrites', serverCache')
    BY <1>0, <1>1 DEF Set, AddOverwrite, ApplyUserOverwriteTo, RepoTypeOK, EventCacheExact, Layer
  <1>2. CASE AddEventRegistration
    BY <1>2 DEF AddEventRegistration, NewView, RepoTypeOK, EventCacheExact, Layer, writeVars
  <1>3. ASSUME NEW i \in DOMAIN allWrites, NEW success \in BOOLEAN,
               MayAnswer(i), AckWrite(i, success)
        PROVE  eventCache' = Layer(visibleWrites', serverCache')
    <2>1. listening /\ serverCache' = serverCache /\ i = 1
      BY <1>3 DEF AckWrite, MayAnswer
    <2>2. eventCache = Layer(visibleWrites, serverCache)
      BY <2>1 DEF EventCacheExact
    <2> QED
      BY <1>3, <2>1, <2>2, AckEvent DEF RepoTypeOK, Layer
  <1>4. ASSUME NEW k \in Key, NEW n \in Node, ApplyServerOverwrite(k, n)
        PROVE  eventCache' = Layer(visibleWrites', serverCache')
    BY <1>4 DEF ApplyServerOverwrite, EventAfterServerOverwrite, RepoTypeOK, EventCacheExact, Layer, writeVars
  <1>5. ASSUME NEW nodes \in [Key -> Node], ApplyServerSnapshot(nodes)
        PROVE  eventCache' = Layer(visibleWrites', serverCache')
    BY <1>5 DEF ApplyServerSnapshot, Layer, writeVars
  <1>6. CASE ApplyListenComplete
    BY <1>6 DEF ApplyListenComplete, Layer, writeVars
  <1>7. CASE RemoveEventRegistrations
    BY <1>7 DEF RemoveEventRegistrations
  <1>8. CASE UNCHANGED repoVars
    BY <1>8 DEF repoVars, writeVars, viewVars, EventCacheExact, Layer
  <1> QED
    BY <1>1, <1>2, <1>3, <1>4, <1>5, <1>6, <1>7, <1>8 DEF RepoNext

-----------------------------------------------------------------------------

\* The whole inductive invariant.
THEOREM RepoInvariant == RepoSpec => []RepoInv
  <1>1. RepoInit => RepoInv
    <2> SUFFICES ASSUME RepoInit PROVE RepoInv
      OBVIOUS
    <2>1. RepoTypeOK
      BY InitTyped
    <2>2. VisibleWritesExact /\ WriteIdsIncrease
      BY DEF RepoInit, VisibleWritesExact, WriteIdsIncrease, WritesTo
    <2>3. EventCacheExact
      BY DEF RepoInit, EventCacheExact
    <2> QED
      BY <2>1, <2>2, <2>3 DEF RepoInv
  <1>2. RepoInv /\ [RepoNext]_repoVars => RepoInv'
    BY TypeStep, VisibleStep, WriteIdsStep, EventStep DEF RepoInv
  <1> QED
    BY <1>1, <1>2, PTL DEF RepoSpec

\* visibleWrites is always the last pending write to each child, although
\* removeWriteId only looks for shadowing writes.
THEOREM VisibleWritesCorrect == RepoSpec => []VisibleWritesExact
  <1>1. RepoInv => VisibleWritesExact
    BY DEF RepoInv
  <1> QED
    BY <1>1, RepoInvariant, PTL

\* What the listeners were told is the server's data under the pending writes.
THEOREM EventCacheCorrect == RepoSpec => []EventCacheExact
  <1>1. RepoInv => EventCacheExact
    BY DEF RepoInv
  <1> QED
    BY <1>1, RepoInvariant, PTL

\* The assertions on write ids in FWriteTree never fail.
THEOREM WriteIdsCorrect == RepoSpec => []WriteIdsIncrease
  <1>1. RepoInv => WriteIdsIncrease
    BY DEF RepoInv
  <1> QED
    BY <1>1, RepoInvariant, PTL

\* A child under a pending write changes on screen only by a newer write.
THEOREM PendingWriteIsStable == RepoSpec => PendingWriteStays
  <1> DEFINE Stays == \A k \in Key :
                (/\ listening /\ listening'
                 /\ eventCache'[k] # eventCache[k]
                 /\ WritesTo(allWrites, k) # {}
                 /\ WritesTo(allWrites', k) # {})
                   => writeIdCounter' = writeIdCounter + 1
  <1>1. RepoInv /\ [RepoNext]_repoVars => [Stays]_repoVars
    <2> SUFFICES ASSUME RepoInv, RepoNext, NEW k \in Key,
                        listening, listening',
                        WritesTo(allWrites, k) # {}, WritesTo(allWrites', k) # {},
                        writeIdCounter' # writeIdCounter + 1
                 PROVE  eventCache'[k] = eventCache[k]
      BY DEF RepoNext
    <2>0. /\ RepoTypeOK /\ VisibleWritesExact
          /\ eventCache = Layer(visibleWrites, serverCache)
      BY DEF RepoInv, EventCacheExact
    <2>1. visibleWrites[k] # NoWrite
      BY <2>0, CoveredIffPending
    <2>2. eventCache[k] = visibleWrites[k]
      BY <2>0, <2>1 DEF Layer
    <2>3. ASSUME NEW c \in Key, NEW n \in Node, Set(c, n)
          PROVE  FALSE
      BY <2>3 DEF Set, AddOverwrite
    <2>4. CASE AddEventRegistration
      BY <2>4 DEF AddEventRegistration
    <2>5. ASSUME NEW i \in DOMAIN allWrites, NEW success \in BOOLEAN,
                 MayAnswer(i), AckWrite(i, success)
          PROVE  eventCache'[k] = eventCache[k]
      <3>0. MayAnswer(1) /\ AckWrite(1, success) /\ i = 1
        BY <2>5 DEF MayAnswer
      <3>1. CASE allWrites[1].key = k
        <4>1. \A j \in WritesTo(allWrites', k) : j \in Nat
          <5>1. allWrites' \in Seq(Write)
            BY <2>0, TypeStep DEF RepoTypeOK
          <5> QED
            BY <5>1 DEF WritesTo
        <4>2. IsShadowed(1)
          BY <2>0, <3>0, <3>1, <4>1, AckWrites DEF IsShadowed
        <4> QED
          BY <2>0, <3>0, <4>2, AckEvent
      <3>2. CASE allWrites[1].key # k
        BY <2>0, <3>0, <3>2, AckEvent DEF RepoTypeOK
      <3> QED
        BY <3>1, <3>2
    <2>6. ASSUME NEW c \in Key, NEW n \in Node, ApplyServerOverwrite(c, n)
          PROVE  eventCache'[k] = eventCache[k]
      BY <2>0, <2>1, <2>6 DEF ApplyServerOverwrite, EventAfterServerOverwrite, RepoTypeOK
    <2>7. ASSUME NEW nodes \in [Key -> Node], ApplyServerSnapshot(nodes)
          PROVE  eventCache'[k] = eventCache[k]
      BY <2>1, <2>2, <2>7 DEF ApplyServerSnapshot, Layer
    <2>8. CASE ApplyListenComplete
      BY <2>1, <2>2, <2>8 DEF ApplyListenComplete, Layer
    <2>9. CASE RemoveEventRegistrations
      BY <2>9 DEF RemoveEventRegistrations
    <2> QED
      BY <2>3, <2>4, <2>5, <2>6, <2>7, <2>8, <2>9 DEF RepoNext
  <1> QED
    BY <1>1, RepoInvariant, PTL DEF RepoSpec, PendingWriteStays
=============================================================================
