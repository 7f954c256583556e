------------------------------- MODULE Cursor -------------------------------
(***************************************************************************)
(* What include/leveldb/iterator.h promises: a cursor over a fixed sorted  *)
(* map, at an entry or at none (NULL), as long as status() is ok; an error *)
(* stays.                                                                  *)
(***************************************************************************)
EXTENDS Integers, FiniteSets

CONSTANTS Key, NULL
VARIABLES data,   \* the map: its keys and their values
          at,     \* <<key, value>> or NULL
          op,     \* the call that brought it there
          ok      \* status().ok()

At(S, Better(_, _)) ==
    IF S = {} THEN NULL
    ELSE LET k == CHOOSE x \in S : \A y \in S : ~Better(y, x) IN <<k, data[k]>>
Lowest(S) == At(S, LAMBDA x, y : x < y)
Highest(S) == At(S, LAMBDA x, y : x > y)

CursorInit == at = NULL /\ op = "new" /\ ok = TRUE

SeekToFirst == op' = "first" /\ at' = Lowest(DOMAIN data)
SeekToLast == op' = "last" /\ at' = Highest(DOMAIN data)
Seek(t) == op' = "seek" /\ at' = Lowest({k \in DOMAIN data : k >= t})
Next == at # NULL /\ op' = "next" /\ at' = Lowest({k \in DOMAIN data : k > at[1]})
Prev == at # NULL /\ op' = "prev" /\ at' = Highest({k \in DOMAIN data : k < at[1]})

CursorNext ==
    /\ UNCHANGED data
    /\ \/ ok /\ ok' /\ (SeekToFirst \/ SeekToLast \/ Next \/ Prev \/ \E t \in Key : Seek(t))
       \/ ~ok'

CursorSpec == CursorInit /\ [][CursorNext]_<<data, at, op, ok>>
=============================================================================
