------------------------------ MODULE DBFormat ------------------------------
(***************************************************************************)
(* Internal keys: a user key with the sequence number of the write and a   *)
(* deletion mark, ordered by user key and then newest first.               *)
(***************************************************************************)
EXTENDS Integers, FiniteSets

\* InternalKeyComparator::Compare(a, b) < 0
Before(a, b) == a.key < b.key \/ (a.key = b.key /\ a.seq > b.seq)

\* A finite set as the sequence a strict order makes of it.
Sorted(S, Less(_, _)) ==
    [i \in 1..Cardinality(S) |-> CHOOSE x \in S : Cardinality({y \in S : Less(y, x)}) = i - 1]

\* The entries of k a reader at a snapshot may see, and what it makes of the
\* newest: the put's sequence number stands for its value, 0 for none.
Found(S, k, snap) == {e \in S : e.key = k /\ e.seq <= snap}
Value(S) == LET e == CHOOSE x \in S : \A y \in S : y.seq <= x.seq IN IF e.del THEN 0 ELSE e.seq
=============================================================================
