---------------------------- MODULE MCCompaction ----------------------------
(***************************************************************************)
(* Compaction on small levels: sizes in entries, at most two per level.    *)
(* Three writes make level 0 full twice; the manual range has no start and *)
(* ends inside the keys, so it is compacted in steps and leaves files out. *)
(* A store opened on the logs of keys 1 and 3 has two tables that do not   *)
(* overlap, and a write of key 2 falls between them.                       *)
(***************************************************************************)
EXTENDS Compaction

MCMaxBytes == [l \in Level \ {0} |-> 2]
MCRanges == {<<NULL, 3>>}
MCRecovered == {<< >>, <<1, 3>>}
MCEmpty == {<< >>}
=============================================================================
