------------------------------ MODULE MCDBImpl ------------------------------
(***************************************************************************)
(* DBImpl for TLC.  Two writers form a group or meet in MakeRoomForWrite;  *)
(* BufferSize 0 makes the second write switch memtables, so a flush, and a *)
(* merge at the triggers of 1, run beside writers, a reader and a crash.   *)
(***************************************************************************)
EXTENDS DBImpl
=============================================================================
