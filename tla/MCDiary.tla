------------------------------- MODULE MCDiary -------------------------------
(***************************************************************************)
(* Diary for TLC.  Six screens are the fewest in which a memory is edited, *)
(* the edit left pending, and the memory deleted from the next list:       *)
(* list, show, edit, list, show, list.  Keys are numbers because events    *)
(* come in key order; contents are only compared, hence symmetric.  The    *)
(* events of both keys, or of one for two lists, wait together.            *)
(***************************************************************************)
EXTENDS Diary

\* Bound of the run about safety: what waits on the main queue.
MaxWaiting == 2
FewWaiting == Len(mainQueue) <= MaxWaiting

Symmetry == Permutations(Value)
=============================================================================
