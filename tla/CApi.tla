-------------------------------- MODULE CApi --------------------------------
(***************************************************************************)
(* The C bindings of LevelDB (db/c.cc): wrappers around C++ objects, and   *)
(* strings handed to the client.  The client keeps the rules of c.h: it    *)
(* destroys what it made, once and not while it is in use.  A value is its *)
(* length.  What the store itself answers is KVStore's matter: here it is  *)
(* a map that may fail at any call.                                        *)
(***************************************************************************)
EXTENDS Integers, Sequences, FiniteSets, Functions

CONSTANTS ApiKey,     \* keys, numbers in their order
          ApiValue,   \* values: their lengths, 0 among them
          MaxApiCalls \* calls in a behaviour

\* capi: the wrappers the client has (handles), the C++ objects alive (reps),
\* the malloc()ed strings alive, those the client holds as results, *errptr,
\* the states whose user destructor ran (how often), what the last call
\* returned.  cstore: the data of the store, and whether it exists.
VARIABLES capi, cstore, apiCalls
capiVars == <<capi, cstore, apiCalls>>

kNumLevels == 7
NoData == [k \in ApiKey |-> -1]
\* 0 is NULL; the Options constructor sets env to Env::Default, object -1.
NewOptions == [create |-> FALSE, comparator |-> 0, filter |-> 0, env |-> -1, cache |-> 0]
CapiEmpty == [handles |-> <<>>, reps |-> <<>>, strings |-> {}, held |-> {}, err |-> 0,
              ran |-> <<>>, next |-> 1, out |-> [op |-> "none"]]
Handle(kind, rep, fields) == [kind |-> kind, rep |-> rep, fields |-> fields]
\* A client that begins, or one that has a database and read options already.
CapiInit ==
    /\ apiCalls = 0
    /\ \/ /\ capi = CapiEmpty
          /\ cstore = [exists |-> FALSE, data |-> NoData]
       \/ /\ capi = [CapiEmpty EXCEPT
                       !.handles = [h \in {1, 2, 4} |->
                                      CASE h = 1 -> Handle("options", 0, NewOptions)
                                        [] h = 2 -> Handle("db", 3, [options |-> 1])
                                        [] h = 4 -> Handle("readoptions", 0, [snapshot |-> 0])],
                       !.reps = [r \in {3} |-> [kind |-> "DB"]], !.next = 5]
          /\ cstore = [exists |-> TRUE, data |-> NoData]

Put1(f, x, v) == [i \in DOMAIN f \cup {x} |-> IF i = x THEN v ELSE f[i]]
Removed(f, x) == Restrict(f, DOMAIN f \ {x})
Of(kind) == {h \in DOMAIN capi.handles : capi.handles[h].kind = kind}
H(h) == capi.handles[h]

\* A wrapper with a C++ object of its own inside: `rep` is its number.
WithRep(c, kind, fields, obj) ==
    [c EXCEPT !.handles = Put1(@, c.next, Handle(kind, c.next + 1, fields)),
              !.reps = Put1(@, c.next + 1, obj), !.next = @ + 2]
\* A wrapper that is the object (a struct with the value inside).
Plain(c, kind, fields) ==
    [c EXCEPT !.handles = Put1(@, c.next, Handle(kind, 0, fields)), !.next = @ + 1]
Deleted(c, h) ==
    [c EXCEPT !.handles = Removed(@, h), !.reps = Removed(@, c.handles[h].rep), !.out = [op |-> "delete"]]
\* ~leveldb_comparator_t, ~leveldb_filterpolicy_t: the user's destructor.
DestructorRun(c, state) ==
    [c EXCEPT !.ran = Put1(@, state, IF state \in DOMAIN @ THEN @[state] + 1 ELSE 1)]

SaveErrorKeeps(c, ok) ==
    IF ok THEN c ELSE [c EXCEPT !.strings = @ \cup {c.next}, !.err = c.next, !.next = @ + 1]
SaveError(c, ok) ==
    IF ok THEN c
    ELSE [c EXCEPT !.strings = (@ \ {c.err}) \cup {c.next}, !.err = c.next, !.next = @ + 1]
CopyString(c, len) ==
    [c EXCEPT !.strings = @ \cup {c.next}, !.held = @ \cup {c.next}, !.next = @ + 1]

\* A call whose Status may be an error.
Answer(op, c, ok) ==
    /\ capi' = SaveError([c EXCEPT !.out = [op |-> op, ok |-> ok, err |-> c.err]], ok)

-----------------------------------------------------------------------------
\* Databases
DBOpen == {h \in Of("db") : TRUE}
\* The three calls that use the env of the options need one.
leveldb_open(o) ==
    /\ DBOpen = {} /\ H(o).fields.env # 0
    /\ \E ok \in BOOLEAN :
         /\ ok => cstore.exists \/ H(o).fields.create
         /\ IF ok THEN /\ capi' = [WithRep(capi, "db", [options |-> o], [kind |-> "DB"]) EXCEPT
                                     !.out = [op |-> "open", ok |-> TRUE, err |-> capi.err]]
                       /\ cstore' = [cstore EXCEPT !.exists = TRUE]
            ELSE Answer("open", capi, FALSE) /\ UNCHANGED cstore
\* The client has destroyed the iterators and released the snapshots.
leveldb_close(d) ==
    /\ Of("iterator") \cup Of("snapshot") = {}
    /\ capi' = Deleted(capi, d) /\ UNCHANGED cstore

leveldb_put(d, k, v) ==
    \E ok \in BOOLEAN : /\ Answer("put", capi, ok)
                        /\ cstore' = IF ok THEN [cstore EXCEPT !.data[k] = v] ELSE cstore
leveldb_delete(d, k) ==
    \E ok \in BOOLEAN : /\ Answer("delete", capi, ok)
                        /\ cstore' = IF ok THEN [cstore EXCEPT !.data[k] = -1] ELSE cstore
Applied(data, ops) == [k \in ApiKey |-> LET mine == SelectSeq(ops, LAMBDA o : o.key = k)
                                        IN  IF mine = <<>> THEN data[k] ELSE mine[Len(mine)].val]
leveldb_write(d, b) ==
    \E ok \in BOOLEAN : /\ Answer("write", capi, ok)
                        /\ cstore' = IF ok THEN [cstore EXCEPT !.data = Applied(@, H(b).fields.ops)] ELSE cstore

\* What a read sees: the snapshot its options point to, or the data now.
Seen(r) == IF H(r).fields.snapshot = 0 THEN cstore.data ELSE capi.reps[H(r).fields.snapshot].view
\* NotFound is no error: NULL and length 0, *errptr as it was.
leveldb_get(d, r, k) ==
    /\ UNCHANGED cstore
    /\ LET v == Seen(r)[k]
           Out(ptr, len, status) == [op |-> "get", held |-> v, ptr |-> ptr, len |-> len,
                                     status |-> status, err |-> capi.err]
       IN  \/ v # -1 /\ capi' = CopyString([capi EXCEPT !.out = Out(capi.next, v, "ok")], v)
           \/ v = -1 /\ capi' = [capi EXCEPT !.out = Out(0, 0, "notfound")]
           \/ capi' = SaveError([capi EXCEPT !.out = Out(0, 0, "error")], FALSE)

leveldb_create_snapshot(d) ==
    /\ UNCHANGED cstore
    /\ capi' = [WithRep(capi, "snapshot", <<>>, [kind |-> "Snapshot", view |-> cstore.data]) EXCEPT !.out = [op |-> "new"]]
leveldb_release_snapshot(d, s) ==
    /\ \A r \in Of("readoptions") : H(r).fields.snapshot # H(s).rep
    /\ capi' = Deleted(capi, s) /\ UNCHANGED cstore
\* A property's name in its parts; number -1: no number, or one with more after it.
PropertyNames ==
    [prefix : {"leveldb."}, name : {"num-files-at-level"}, number : {-1, kNumLevels - 1, kNumLevels}]
        \cup [prefix : {"leveldb.", "other"}, name : {"stats"}, number : {-1}]
GetProperty(p) ==
    /\ p.prefix = "leveldb."
    /\ IF p.name = "num-files-at-level" THEN p.number \in 0..(kNumLevels - 1)
       ELSE p.number = -1 /\ p.name \in {"stats", "sstables", "approximate-memory-usage"}
\* A property that exists is a string for the client, any other is NULL.
leveldb_property_value(d, p) ==
    /\ UNCHANGED cstore
    /\ capi' = IF GetProperty(p) THEN CopyString([capi EXCEPT !.out = [op |-> "property", ptr |-> capi.next]], 1)
               ELSE [capi EXCEPT !.out = [op |-> "property", ptr |-> 0]]
\* Both hand their arguments on, keep nothing and report no error.
leveldb_approximate_sizes(d) == capi' = [capi EXCEPT !.out = [op |-> "sizes"]] /\ UNCHANGED cstore
leveldb_compact_range(d) == capi' = [capi EXCEPT !.out = [op |-> "compact"]] /\ UNCHANGED cstore
leveldb_destroy_db(o) ==
    /\ DBOpen = {} /\ H(o).fields.env # 0
    /\ \E ok \in BOOLEAN : /\ Answer("destroy", capi, ok)
                           /\ cstore' = IF ok THEN [exists |-> FALSE, data |-> NoData] ELSE cstore
leveldb_repair_db(o) ==
    /\ DBOpen = {} /\ H(o).fields.env # 0 /\ UNCHANGED cstore
    /\ \E ok \in BOOLEAN : Answer("repair", capi, ok)
leveldb_free(p) ==
    /\ p \in capi.held \cup ({capi.err} \ {0}) /\ UNCHANGED cstore
    /\ capi' = [capi EXCEPT !.strings = @ \ {p}, !.held = @ \ {p}, !.err = IF @ = p THEN 0 ELSE @,
                            !.out = [op |-> "free"]]

-----------------------------------------------------------------------------
\* Iterators: a cursor over what the options saw.
leveldb_create_iterator(d, r) ==
    /\ UNCHANGED cstore
    /\ capi' = [WithRep(capi, "iterator", <<>>, [kind |-> "Iterator", view |-> Seen(r), at |-> 0]) EXCEPT
                  !.out = [op |-> "new"]]
leveldb_iter_destroy(i) == capi' = Deleted(capi, i) /\ UNCHANGED cstore
Present(view) == {k \in ApiKey : view[k] # -1}
Lowest(S) == IF S = {} THEN 0 ELSE CHOOSE k \in S : \A j \in S : k <= j
Highest(S) == IF S = {} THEN 0 ELSE CHOOSE k \in S : \A j \in S : k >= j
leveldb_iter_move(i) ==
    LET it == capi.reps[H(i).rep]
    IN  /\ UNCHANGED cstore
        /\ \E to \in {Lowest(Present(it.view)), Highest(Present(it.view))}        \* first, last
                       \cup {Lowest({k \in Present(it.view) : k >= t}) : t \in ApiKey}      \* seek
                       \cup (IF it.at = 0 THEN {}                                          \* next, prev
                             ELSE {Lowest({k \in Present(it.view) : k > it.at}),
                                   Highest({k \in Present(it.view) : k < it.at})}) :
             capi' = [capi EXCEPT !.reps[H(i).rep].at = to, !.out = [op |-> "move"]]
\* Pointers into the iterator: nothing is copied.
leveldb_iter_value(i) ==
    LET it == capi.reps[H(i).rep]
    IN  /\ it.at # 0 /\ UNCHANGED cstore
        /\ capi' = [capi EXCEPT !.out = [op |-> "entry", len |-> it.view[it.at]]]
leveldb_iter_get_error(i) ==
    UNCHANGED cstore /\ \E ok \in BOOLEAN : Answer("iter", capi, ok)

-----------------------------------------------------------------------------
\* Batches
leveldb_writebatch_create == capi' = Plain(capi, "batch", [ops |-> <<>>]) /\ UNCHANGED cstore
leveldb_writebatch_destroy(b) == capi' = Deleted(capi, b) /\ UNCHANGED cstore
leveldb_writebatch_clear(b) == capi' = [capi EXCEPT !.handles[b].fields.ops = <<>>] /\ UNCHANGED cstore
leveldb_writebatch_put(b, k, v) ==
    /\ Len(H(b).fields.ops) < 2 /\ UNCHANGED cstore
    /\ capi' = [capi EXCEPT !.handles[b].fields.ops = Append(@, [key |-> k, val |-> v])]
leveldb_writebatch_delete(b, k) == leveldb_writebatch_put(b, k, -1)
\* H::Put and H::Delete are called in the order of the batch.
leveldb_writebatch_iterate(b) ==
    /\ UNCHANGED cstore
    /\ capi' = [capi EXCEPT !.out = [op |-> "iterate", seen |-> H(b).fields.ops]]

-----------------------------------------------------------------------------
\* Options: assignments of values and of pointers to objects that the client
\* keeps until no options hold them.
leveldb_options_create ==
    UNCHANGED cstore
    /\ capi' = Plain(capi, "options", NewOptions)
leveldb_options_destroy(o) ==
    /\ \A d \in DBOpen : H(d).fields.options # o
    /\ capi' = Deleted(capi, o) /\ UNCHANGED cstore
leveldb_options_set_bool(o, v) == capi' = [capi EXCEPT !.handles[o].fields.create = (v # 0)] /\ UNCHANGED cstore
leveldb_options_set_comparator(o, c) == capi' = [capi EXCEPT !.handles[o].fields.comparator = c] /\ UNCHANGED cstore
leveldb_options_set_filter_policy(o, f) == capi' = [capi EXCEPT !.handles[o].fields.filter = f] /\ UNCHANGED cstore
\* A NULL env is stored as it is.
leveldb_options_set_env(o, e) ==
    capi' = [capi EXCEPT !.handles[o].fields.env = IF e = 0 THEN 0 ELSE H(e).rep] /\ UNCHANGED cstore
leveldb_options_set_cache(o, c) == capi' = [capi EXCEPT !.handles[o].fields.cache = H(c).rep] /\ UNCHANGED cstore

leveldb_readoptions_create ==
    capi' = Plain(capi, "readoptions", [snapshot |-> 0]) /\ UNCHANGED cstore
leveldb_readoptions_set_snapshot(r, s) ==
    capi' = [capi EXCEPT !.handles[r].fields.snapshot = IF s = 0 THEN 0 ELSE H(s).rep] /\ UNCHANGED cstore
leveldb_readoptions_destroy(r) == capi' = Deleted(capi, r) /\ UNCHANGED cstore

\* User supplied comparators and filters have a state and its destructor.
leveldb_comparator_create == capi' = Plain(capi, "comparator", [state |-> TRUE]) /\ UNCHANGED cstore
leveldb_comparator_destroy(c) ==
    /\ \A o \in Of("options") : H(o).fields.comparator # c
    /\ capi' = DestructorRun(Deleted(capi, c), c) /\ UNCHANGED cstore
leveldb_filterpolicy_create == capi' = Plain(capi, "filter", [state |-> TRUE]) /\ UNCHANGED cstore
\* The wrapper overrides all methods; its destructor deletes the bloom policy
\* and the one it inherits calls DoNothing.
leveldb_filterpolicy_create_bloom ==
    UNCHANGED cstore
    /\ capi' = WithRep(capi, "filter", [state |-> FALSE], [kind |-> "BloomFilterPolicy"])
leveldb_filterpolicy_destroy(f) ==
    /\ \A o \in Of("options") : H(o).fields.filter # f
    /\ capi' = (IF H(f).fields.state THEN DestructorRun(Deleted(capi, f), f) ELSE Deleted(capi, f))
    /\ UNCHANGED cstore
\* CreateFilter calls the user's function, appends its string and frees it.
CreateFilter(f) ==
    /\ H(f).fields.state /\ UNCHANGED cstore
    /\ LET made == [capi EXCEPT !.strings = @ \cup {capi.next}, !.next = @ + 1, !.out = [op |-> "filter"]]
       IN  capi' = [made EXCEPT !.strings = @ \ {capi.next}]

leveldb_cache_create_lru ==
    capi' = WithRep(capi, "cache", <<>>, [kind |-> "Cache"]) /\ UNCHANGED cstore
leveldb_cache_destroy(c) ==
    /\ \A o \in Of("options") : H(o).fields.cache # H(c).rep
    /\ capi' = Deleted(capi, c) /\ UNCHANGED cstore
\* Env::Default is shared and never deleted: object -1, not among the reps.
leveldb_create_default_env ==
    UNCHANGED cstore
    /\ capi' = [Plain(capi, "env", [is_default |-> TRUE]) EXCEPT !.handles[capi.next].rep = -1]
leveldb_env_destroy(e) ==
    /\ UNCHANGED cstore
    /\ capi' = (IF H(e).fields.is_default THEN [capi EXCEPT !.handles = Removed(@, e)] ELSE Deleted(capi, e))

-----------------------------------------------------------------------------
DBCalls ==
    \/ \E o \in Of("options") : leveldb_open(o) \/ leveldb_destroy_db(o) \/ leveldb_repair_db(o)
    \/ \E d \in DBOpen :
         \/ leveldb_close(d) \/ leveldb_create_snapshot(d)
         \/ leveldb_approximate_sizes(d) \/ leveldb_compact_range(d)
         \/ \E p \in PropertyNames : leveldb_property_value(d, p)
         \/ \E k \in ApiKey : leveldb_delete(d, k) \/ \E v \in ApiValue : leveldb_put(d, k, v)
         \/ \E b \in Of("batch") : leveldb_write(d, b)
         \/ \E r \in Of("readoptions") : leveldb_create_iterator(d, r) \/ \E k \in ApiKey : leveldb_get(d, r, k)
         \/ \E s \in Of("snapshot") : leveldb_release_snapshot(d, s)
    \/ \E p \in capi.strings : leveldb_free(p)
IterCalls == \E i \in Of("iterator") :
    leveldb_iter_destroy(i) \/ leveldb_iter_move(i) \/ leveldb_iter_value(i) \/ leveldb_iter_get_error(i)
\* The client makes comparators, filters, caches and options before it opens
\* its database, batches and read options after.
BatchCalls ==
    \/ DBOpen # {} /\ Of("batch") = {} /\ leveldb_writebatch_create
    \/ \E b \in Of("batch") :
         \/ leveldb_writebatch_destroy(b) \/ leveldb_writebatch_clear(b) \/ leveldb_writebatch_iterate(b)
         \/ \E k \in ApiKey : leveldb_writebatch_delete(b, k) \/ \E v \in ApiValue : leveldb_writebatch_put(b, k, v)
OptionCalls ==
    \/ DBOpen = {} /\ leveldb_options_create
    \/ DBOpen # {} /\ Of("readoptions") = {} /\ leveldb_readoptions_create
    \/ \E o \in Of("options") :
         \/ leveldb_options_destroy(o) \/ \E v \in {0, 2} : leveldb_options_set_bool(o, v)
         \/ \E c \in Of("comparator") : leveldb_options_set_comparator(o, c)
         \/ \E f \in Of("filter") : leveldb_options_set_filter_policy(o, f)
         \/ \E e \in Of("env") \cup {0} : leveldb_options_set_env(o, e)
         \/ \E c \in Of("cache") : leveldb_options_set_cache(o, c)
    \/ \E r \in Of("readoptions") : leveldb_readoptions_destroy(r)
                                    \/ \E s \in Of("snapshot") \cup {0} : leveldb_readoptions_set_snapshot(r, s)
ObjectCalls ==
    \/ /\ DBOpen = {}
       /\ \/ leveldb_comparator_create \/ leveldb_filterpolicy_create \/ leveldb_filterpolicy_create_bloom
          \/ leveldb_cache_create_lru \/ leveldb_create_default_env
    \/ \E c \in Of("comparator") : leveldb_comparator_destroy(c)
    \/ \E f \in Of("filter") : leveldb_filterpolicy_destroy(f) \/ CreateFilter(f)
    \/ \E c \in Of("cache") : leveldb_cache_destroy(c)
    \/ \E e \in Of("env") : leveldb_env_destroy(e)
CapiNext ==
    /\ apiCalls < MaxApiCalls /\ apiCalls' = apiCalls + 1
    /\ (DBCalls \/ IterCalls \/ BatchCalls \/ OptionCalls \/ ObjectCalls)
CapiSpec == CapiInit /\ [][CapiNext]_capiVars

-----------------------------------------------------------------------------
\* c.h: "On success, a leveldb routine leaves *errptr unchanged.  On failure,
\* leveldb frees the old value of *errptr and set *errptr to a malloc()ed error
\* message."  So every string alive is the client's, as *errptr or as a result.
StringsOwned ==
    /\ capi.strings = capi.held \cup ({capi.err} \ {0})
    /\ capi.err \notin capi.held
    /\ "err" \in DOMAIN capi.out =>
         LET failed == IF capi.out.op = "get" THEN capi.out.status = "error" ELSE ~capi.out.ok
         IN  failed <=> capi.err # capi.out.err

\* Every C++ object alive is inside exactly one wrapper the client still has,
\* what options and read options point to is alive, and a user's destructor
\* runs once, for an object that is gone.
ObjectsOwned ==
    /\ DOMAIN capi.reps = {H(h).rep : h \in DOMAIN capi.handles} \ {0, -1}
    /\ \A g, h \in DOMAIN capi.handles : H(g).rep > 0 /\ H(g).rep = H(h).rep => g = h
    /\ \A r \in Of("readoptions") : H(r).fields.snapshot \in DOMAIN capi.reps \cup {0}
    /\ \A o \in Of("options") : /\ H(o).fields.cache \in DOMAIN capi.reps \cup {0}
                                /\ {H(o).fields.comparator, H(o).fields.filter} \subseteq DOMAIN capi.handles \cup {0}
    /\ \A s \in DOMAIN capi.ran : capi.ran[s] = 1 /\ s \notin DOMAIN capi.handles

\* A client tells a missing key from an empty value and from an error: NULL
\* for the first and the last only, a new message for the last only.
AnswersTold ==
    capi.out.op = "get" /\ capi.out.status # "error" =>
        /\ (capi.out.ptr = 0) = (capi.out.held = -1)
        /\ capi.out.ptr # 0 => capi.out.len = capi.out.held

\* The C bindings lose, leak and confuse nothing.
CApiExact == StringsOwned /\ ObjectsOwned /\ AnswersTold
=============================================================================
