------------------------------ MODULE KVStore ------------------------------
(***************************************************************************)
(* What LevelDB promises the code above it, without files, threads or      *)
(* logs: a history of writes in commit order.  A write is in doubt from    *)
(* the moment it is handed to DB::Write until it is committed; a write     *)
(* that failed stays in doubt, because the log may hold it.  The end of    *)
(* the process keeps every committed write, a crash of the machine keeps   *)
(* at least the ones written with sync (include/leveldb/options.h), and    *)
(* either may bring back a write in doubt.  No crash reorders writes.      *)
(* What is committed after a failed write has torn the log may be lost in  *)
(* either, sync or not, until it is in a table; and everything may, once   *)
(* the store goes on in a torn list of its tables (options.reuse_logs).    *)
(***************************************************************************)
EXTENDS Integers, Sequences

CONSTANT KVWrite    \* the writes a client can make

VARIABLES
    kvHist,     \* committed writes, oldest first
    kvDoubt,    \* writes handed over and not (successfully) answered
    kvStable,   \* writes that were answered after a sync
    kvPower,    \* how often the machine, not only the process, crashed
    kvTorn,     \* which of "log" and "manifest" go on behind a torn record
    kvBehind    \* committed writes that nobody could read behind it

kvVars == <<kvHist, kvDoubt, kvStable, kvPower, kvTorn, kvBehind>>

KVSet(h) == {h[i] : i \in DOMAIN h}

\* The writes of h that are still in g come in the order of h.
KVKeepsOrder(h, g) ==
    SelectSeq(g, LAMBDA w : w \in KVSet(h)) = SelectSeq(h, LAMBDA w : w \in KVSet(g))

KVInit == kvHist = <<>> /\ kvDoubt = {} /\ kvStable = {} /\ kvPower = 0 /\ kvTorn = {} /\ kvBehind = {}

\* DB::Write is called.
KVSubmit ==
    /\ \E w \in KVWrite \ (kvDoubt \cup KVSet(kvHist)) : kvDoubt' = kvDoubt \cup {w}
    /\ UNCHANGED <<kvHist, kvStable, kvPower, kvTorn, kvBehind>>

\* A group of writes is committed; those that asked for sync are stable.
KVCommit ==
    /\ Len(kvHist') > Len(kvHist)
    /\ SubSeq(kvHist', 1, Len(kvHist)) = kvHist
    /\ KVSet(kvHist') \ KVSet(kvHist) \subseteq kvDoubt
    /\ kvDoubt' = kvDoubt \ KVSet(kvHist')
    /\ kvStable \subseteq kvStable'
    /\ kvStable' \subseteq kvStable \cup (KVSet(kvHist') \ KVSet(kvHist))
    /\ kvBehind' \ kvBehind \subseteq IF "log" \in kvTorn THEN KVSet(kvHist') \ KVSet(kvHist) ELSE {}
    /\ UNCHANGED <<kvPower, kvTorn>>

\* A write fails in the middle of its record, or a torn file is given up
\* because others hold what was written to it.
KVTear ==
    /\ UNCHANGED <<kvHist, kvDoubt, kvStable, kvPower>>
    /\ kvBehind' \subseteq kvBehind \cup IF "manifest" \in kvTorn THEN KVSet(kvHist) ELSE {}

\* The process or the machine stops; kept are the writes that must survive.
KVCrash(kept) ==
    /\ kvDoubt' = {} /\ kvStable' = kvStable
    /\ kept \subseteq KVSet(kvHist')
    /\ KVSet(kvHist') \subseteq KVSet(kvHist) \cup kvDoubt
    /\ KVKeepsOrder(kvHist, kvHist')
    /\ kvBehind' \subseteq kvBehind

KVProcessCrash == KVCrash(KVSet(kvHist) \ kvBehind) /\ kvPower' = kvPower

KVPowerFailure == KVCrash(kvStable \ kvBehind) /\ kvPower' = kvPower + 1

\* The store is opened with an option that gives up the promise about sync.
KVForfeit ==
    /\ kvStable' = {} /\ kvBehind' \subseteq kvBehind
    /\ UNCHANGED <<kvHist, kvDoubt, kvPower, kvTorn>>

KVNext == KVSubmit \/ KVCommit \/ KVTear \/ KVProcessCrash \/ KVPowerFailure \/ KVForfeit

KVSpec == KVInit /\ [][KVNext]_kvVars
=============================================================================
