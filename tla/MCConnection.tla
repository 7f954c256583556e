---------------------------- MODULE MCConnection ----------------------------
(***************************************************************************)
(* Connection for TLC.  Three writes to one child can overtake and shadow  *)
(* each other; two listens and two broken sockets leave an answer held     *)
(* back over a reconnect, and two ended listens leave one held back with   *)
(* no listen to pass it on (Stranded).                                     *)
(***************************************************************************)
EXTENDS Connection
=============================================================================
