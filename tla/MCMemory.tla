------------------------------ MODULE MCMemory ------------------------------
(***************************************************************************)
(* The parts of LevelDB around the store, one at a time: the first state   *)
(* chooses the part whose steps are taken.  The parts of the Env share no  *)
(* state, so they are taken one at a time too.                             *)
(***************************************************************************)
EXTENDS SkipList, DBIter, LRUCache, EnvPosix, Repair, Arena, CApi

CONSTANTS t1, t2, t3

MCCharge == [k \in CacheKey |-> IF k = 3 THEN 2 ELSE 1]
MCProcOf == [t \in EnvThread |-> IF t = t3 THEN "p2" ELSE "p1"]

VARIABLE part
memoryVars == <<part, skipVars, iVars, cacheVars, envVars, currentVars, destroyVars, repairVars, arena, capiVars>>

\* Where a part has many initial states, the other parts take one of them.
OneStore ==
    /\ mem = {} /\ tables = <<<<>>, <<>>>> /\ snap = 0 /\ data = <<>> /\ op = "new" /\ iter = NewDBIterator
OneCache == CacheRest /\ shard = Sharded(2)
OneDirectory == dir = <<>> /\ safe = {} /\ manifest = [is |-> "none"] /\ rep = NotRunning /\ crashes = 0
OneClient == capi = CapiEmpty /\ cstore = [exists |-> FALSE, data |-> NoData] /\ apiCalls = 0

MemoryInit ==
    /\ SkipInit /\ EnvInit /\ CurrentInit /\ DestroyInit /\ ArenaInit
    /\ part \in {"list", "iterator", "cache", "work", "lock", "limits", "current", "destroy", "repair", "arena", "capi"}
    /\ IF part = "iterator" THEN DBIterInit ELSE OneStore
    /\ IF part = "cache" THEN CacheInit ELSE OneCache
    /\ IF part = "repair" THEN RepairInit ELSE OneDirectory
    /\ IF part = "capi" THEN CapiInit ELSE OneClient

MemoryNext ==
    /\ UNCHANGED part
    /\ \/ part = "list" /\ SkipStep
       \/ part # "list" /\ UNCHANGED skipVars
    /\ \/ part = "iterator" /\ DBIterNext
       \/ part # "iterator" /\ UNCHANGED iVars
    /\ \/ part = "cache" /\ CacheNext
       \/ part # "cache" /\ UNCHANGED cacheVars
    /\ \/ part = "work" /\ BGNext
       \/ part = "lock" /\ LockNext
       \/ part = "limits" /\ FileNext
       \/ part \notin {"work", "lock", "limits"} /\ UNCHANGED envVars
    /\ \/ part = "current" /\ CurrentNext
       \/ part # "current" /\ UNCHANGED currentVars
    /\ \/ part = "destroy" /\ DestroyNext
       \/ part # "destroy" /\ UNCHANGED destroyVars
    /\ \/ part = "repair" /\ RepairNext
       \/ part # "repair" /\ UNCHANGED repairVars
    /\ \/ part = "arena" /\ ArenaNext
       \/ part # "arena" /\ UNCHANGED arena
    /\ \/ part = "capi" /\ CapiNext
       \/ part # "capi" /\ UNCHANGED capiVars
MemorySpec == MemoryInit /\ [][MemoryNext]_memoryVars
=============================================================================
