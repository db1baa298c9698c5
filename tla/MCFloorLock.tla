---------------------------- MODULE MCFloorLock ----------------------------
(***************************************************************************)
(* Instance of FloorLock for TLC.                                          *)
(***************************************************************************)
EXTENDS FloorLock
=============================================================================
