---------------------------- MODULE MCShmRestart ----------------------------
(***************************************************************************)
(* Small instances of ShmRestart for TLC.                                  *)
(***************************************************************************)
EXTENDS ShmRestart
=============================================================================
