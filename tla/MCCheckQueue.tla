---------------------------- MODULE MCCheckQueue ----------------------------
(* CheckQueue for TLC: see CheckQueue.cfg. *)
EXTENDS CheckQueue
=============================================================================
