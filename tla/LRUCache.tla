------------------------------ MODULE LRUCache ------------------------------
(***************************************************************************)
(* LevelDB's cache in shards, and the TableCache over it.  An entry of a   *)
(* shard is in its hash table and in one of two lists (lru: only the cache *)
(* refers to it; in use: clients do too) or, erased but still held, in     *)
(* neither.  Lookup, Insert, Release and Erase hold the shard's mutex and  *)
(* are one step each, Prune is one per shard; FindTable opens the file     *)
(* between its Lookup and its Insert with no lock, so two threads may load *)
(* one table twice.                                                        *)
(***************************************************************************)
EXTENDS Integers, Sequences, SequencesExt, FiniteSetsExt, TLC

CONSTANTS
    CacheKey,       \* file numbers; a key is its own hash
    CacheThread,
    Charge,         \* the charge of each key's entry
    Capacities,     \* capacities of the whole cache
    HashBits,       \* bits of a hash; 32 in the code
    kNumShardBits,
    TableLength,    \* new_length of an empty HandleTable
    MaxHandles      \* bound on entries made

ASSUME LRUCacheAssumption ==
    /\ CacheKey \subseteq Nat /\ \A k \in CacheKey : Charge[k] \in Nat \ {0}
    /\ Capacities \subseteq Nat /\ TableLength \in Nat \ {0} /\ MaxHandles \in Nat
    /\ kNumShardBits \in 0..HashBits /\ \A k \in CacheKey : k < 2^HashBits

VARIABLES
    shard,      \* by shard: capacity, handles, buckets, lru (oldest first), inUse, usage
    pruning,    \* shards the Prune call under way has still to prune
    cacheCall,  \* by thread: idle, opening a key's table, or holding a handle
    made,       \* LRUHandles made
    newest      \* by key: the handle inserted last and not erased since; 0: none
cacheVars == <<shard, pruning, cacheCall, made, newest>>

IdleThread == [pc |-> "idle"]

-----------------------------------------------------------------------------
(* HandleTable: buckets of chained handles *)

Bucket(len, h) == (h % len) + 1
KeyAt(c, id) == c.handles[id].key
FindPointer(c, k) ==
    LET chain == c.buckets[Bucket(Len(c.buckets), k)]
    IN  CHOOSE i \in 1..(Len(chain) + 1) :
          /\ i = Len(chain) + 1 \/ KeyAt(c, chain[i]) = k
          /\ \A j \in 1..(i - 1) : KeyAt(c, chain[j]) # k
TableLookup(c, k) ==
    LET chain == c.buckets[Bucket(Len(c.buckets), k)]
    IN  IF FindPointer(c, k) > Len(chain) THEN 0 ELSE chain[FindPointer(c, k)]
Elems(c) == FoldSet(LAMBDA i, n : n + Len(c.buckets[i]), 0, DOMAIN c.buckets)

NewLength(n) == LET doubled == {TableLength * 2^i : i \in 0..n} IN Min({l \in doubled : l >= n})
\* Resize: every chain in turn is pushed on the front of the new ones.
Resize(c) ==
    LET len == NewLength(Elems(c))
        all == FoldLeft(LAMBDA s, chain : s \o chain, <<>>, c.buckets)
        into(b) == Reverse(SelectSeq(all, LAMBDA id : Bucket(len, KeyAt(c, id)) = b))
    IN  [c EXCEPT !.buckets = [b \in 1..len |-> into(b)]]

\* Insert puts the handle where an equal key's was, else at the chain's end.
TableInsert(c, id) ==
    LET b == Bucket(Len(c.buckets), KeyAt(c, id))
        old == TableLookup(c, KeyAt(c, id))
        in == [c EXCEPT !.buckets[b] = IF old = 0 THEN Append(@, id) ELSE [@ EXCEPT ![FindPointer(c, KeyAt(c, id))] = id]]
    IN  IF old = 0 /\ Elems(in) > Len(in.buckets) THEN Resize(in) ELSE in
TableRemove(c, k) ==
    LET b == Bucket(Len(c.buckets), k)
    IN  IF TableLookup(c, k) = 0 THEN c ELSE [c EXCEPT !.buckets[b] = RemoveAt(@, FindPointer(c, k))]

-----------------------------------------------------------------------------
(* LRUCache *)

Without(s, id) == SelectSeq(s, LAMBDA x : x # id)
LRU_Remove(c, id) == [c EXCEPT !.lru = Without(@, id), !.inUse = @ \ {id}]

\* mutant: an entry in use stays on the lru list
RefHandleStays(c, id) == [c EXCEPT !.handles[id].refs = @ + 1]
RefHandle(c, id) ==
    LET h == c.handles[id]
        moved == IF h.refs = 1 /\ h.inCache THEN [LRU_Remove(c, id) EXCEPT !.inUse = @ \cup {id}] ELSE c
    IN  [moved EXCEPT !.handles[id].refs = @ + 1]
\* Unref deletes the entry with its last reference.
UnrefHandle(c, id) ==
    LET d == [c EXCEPT !.handles[id].refs = @ - 1]
        h == d.handles[id]
    IN  IF h.refs = 0 THEN [d EXCEPT !.handles = [i \in DOMAIN @ \ {id} |-> @[i]]]
        ELSE IF h.inCache /\ h.refs = 1 THEN [LRU_Remove(d, id) EXCEPT !.lru = Append(@, id)]
        ELSE d
FinishErase(c, id) ==
    IF id = 0 THEN c
    ELSE UnrefHandle([LRU_Remove(c, id) EXCEPT !.handles[id].inCache = FALSE, !.usage = @ - Charge[KeyAt(c, id)]], id)
EraseKey(c, k) == LET id == TableLookup(c, k) IN FinishErase(TableRemove(c, k), id)

\* The oldest n of the lru list evicted; and as many as usage_ calls for
EvictOldest(c, n) == FoldLeft(LAMBDA d, id : EraseKey(d, KeyAt(d, id)), c, SubSeq(c.lru, 1, n))
Evicted(c) ==
    LET enough == {n \in 0..Len(c.lru) : n = Len(c.lru) \/ EvictOldest(c, n).usage <= c.capacity}
    IN  EvictOldest(c, Min(enough))

InsertHandle(c, id, k) ==
    LET add(refs, in) == [c EXCEPT !.handles = @ @@ (id :> [key |-> k, refs |-> refs, inCache |-> in])]
        kept == [add(2, TRUE) EXCEPT !.inUse = @ \cup {id}, !.usage = @ + Charge[k]]
        old == TableLookup(c, k)
    IN  Evicted(IF c.capacity > 0 THEN FinishErase(TableInsert(kept, id), old) ELSE add(1, FALSE))

-----------------------------------------------------------------------------
(* ShardedLRUCache *)

kNumShards == 2^kNumShardBits
Shard(hash) == hash \div 2^(HashBits - kNumShardBits)
PerShard(capacity) == (capacity + kNumShards - 1) \div kNumShards
EmptyShard(capacity) == [capacity |-> capacity, handles |-> <<>>, buckets |-> [b \in 1..TableLength |-> <<>>],
                         lru |-> <<>>, inUse |-> {}, usage |-> 0]
Sharded(capacity) == [n \in 0..(kNumShards - 1) |-> EmptyShard(PerShard(capacity))]
\* One shard changes, found by the hash of the key or of the handle's key.
InShard(k, c) == shard' = [shard EXCEPT ![Shard(k)] = c]

-----------------------------------------------------------------------------
(* TableCache, by any thread *)

CacheRest == /\ pruning = {} /\ cacheCall = [t \in CacheThread |-> IdleThread]
             /\ made = 0 /\ newest = [k \in CacheKey |-> 0]
CacheInit == CacheRest /\ \E cap \in Capacities : shard = Sharded(cap)

FindTable(t, k) ==
    LET id == TableLookup(shard[Shard(k)], k)
    IN  /\ cacheCall[t].pc = "idle" /\ UNCHANGED <<pruning, made, newest>>
        /\ IF id = 0
           THEN /\ cacheCall' = [cacheCall EXCEPT ![t] = [pc |-> "opening", key |-> k]]
                /\ UNCHANGED shard
           ELSE /\ cacheCall' = [cacheCall EXCEPT ![t] = [pc |-> "holding", id |-> id, key |-> k]]
                /\ InShard(k, RefHandle(shard[Shard(k)], id))
\* NewRandomAccessFile or Table::Open fails: errors are not cached.
OpenFails(t) ==
    /\ cacheCall[t].pc = "opening"
    /\ cacheCall' = [cacheCall EXCEPT ![t] = IdleThread]
    /\ UNCHANGED <<shard, pruning, made, newest>>
TableOpened(t) ==
    LET k == cacheCall[t].key
    IN  /\ cacheCall[t].pc = "opening" /\ made < MaxHandles /\ UNCHANGED pruning
        /\ made' = made + 1
        /\ cacheCall' = [cacheCall EXCEPT ![t] = [pc |-> "holding", id |-> made', key |-> k]]
        /\ InShard(k, InsertHandle(shard[Shard(k)], made', k))
        /\ newest' = [newest EXCEPT ![k] = IF shard[Shard(k)].capacity > 0 THEN made' ELSE 0]
\* The end of Get, or of the iterator that registered UnrefEntry
Release(t) ==
    /\ cacheCall[t].pc = "holding" /\ UNCHANGED <<pruning, made, newest>>
    /\ InShard(cacheCall[t].key, UnrefHandle(shard[Shard(cacheCall[t].key)], cacheCall[t].id))
    /\ cacheCall' = [cacheCall EXCEPT ![t] = IdleThread]
\* The table file was deleted.
Evict(k) ==
    /\ newest[k] # 0 /\ InShard(k, EraseKey(shard[Shard(k)], k))
    /\ newest' = [newest EXCEPT ![k] = 0] /\ UNCHANGED <<pruning, cacheCall, made>>
\* Prune of the cache, and of the next shard
Prune ==
    /\ pruning = {} /\ \E n \in DOMAIN shard : shard[n].lru # <<>>
    /\ pruning' = DOMAIN shard /\ UNCHANGED <<shard, cacheCall, made, newest>>
PruneShard ==
    /\ pruning # {} /\ UNCHANGED <<cacheCall, made, newest>>
    /\ LET n == Min(pruning)
       IN  /\ shard' = [shard EXCEPT ![n] = EvictOldest(@, Len(@.lru))]
           /\ pruning' = pruning \ {n}

CacheNext ==
    \/ \E t \in CacheThread : (\E k \in CacheKey : FindTable(t, k)) \/ OpenFails(t) \/ TableOpened(t) \/ Release(t)
    \/ \E k \in CacheKey : Evict(k)
    \/ Prune \/ PruneShard

CacheSpec == CacheInit /\ [][CacheNext]_cacheVars

-----------------------------------------------------------------------------
(* Properties *)

InCache(c) == {id \in DOMAIN c.handles : c.handles[id].inCache}
Holders(id) == {t \in CacheThread : cacheCall[t].pc = "holding" /\ cacheCall[t].id = id}

\* "All items in the cache are in one list or the other, and never both.
\* Items still referenced by clients but erased from the cache are in neither
\* list": and those in the cache are those in the hash table, usage_ is their
\* charge, only unused ones are on the lru list, and each shard has the
\* hashes of its own.
CacheTypeOK ==
    \A n \in DOMAIN shard :
      LET c == shard[n]
      IN  /\ ToSet(c.lru) \cap c.inUse = {} /\ ToSet(c.lru) \cup c.inUse = InCache(c)
          /\ Cardinality(ToSet(c.lru)) = Len(c.lru)
          /\ \A id \in ToSet(c.lru) : c.handles[id].refs = 1
          /\ \A id \in c.inUse : c.handles[id].refs >= 2
          /\ UNION {ToSet(c.buckets[b]) : b \in DOMAIN c.buckets} = InCache(c)
          /\ c.usage = FoldSet(LAMBDA id, sum : sum + Charge[KeyAt(c, id)], 0, InCache(c))
          /\ \A id \in DOMAIN c.handles : Shard(KeyAt(c, id)) = n

\* A table is closed exactly when the cache has dropped it and the last client
\* has released it: never under a client, never leaked.
NoUseAfterFree ==
    /\ \A n \in DOMAIN shard : \A id \in DOMAIN shard[n].handles :
         /\ shard[n].handles[id].refs = Cardinality(Holders(id)) + (IF id \in InCache(shard[n]) THEN 1 ELSE 0)
         /\ id \in InCache(shard[n]) \/ Holders(id) # {}
    /\ \A t \in CacheThread : cacheCall[t].pc = "holding" => \E n \in DOMAIN shard : cacheCall[t].id \in DOMAIN shard[n].handles

\* Lookup finds the entry inserted last under a key, or none after it was
\* evicted: through collisions, growth of the table, and two threads that
\* loaded the same table; never one that was replaced or erased.
LookupNewest ==
    \A k \in CacheKey : LET c == shard[Shard(k)]
                        IN  /\ TableLookup(c, k) \in {newest[k], 0}
                            /\ newest[k] \in InCache(c) => TableLookup(c, k) = newest[k]

\* The table cache under any threads: sound lists, no table closed under a
\* client or leaked, and no stale one found.
CacheExact == CacheTypeOK /\ NoUseAfterFree /\ LookupNewest
=============================================================================
