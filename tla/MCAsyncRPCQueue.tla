--------------------------- MODULE MCAsyncRPCQueue ---------------------------
(* AsyncRPCQueue with two workers and two operations: see AsyncRPCQueue.cfg. *)
EXTENDS AsyncRPCQueue
=============================================================================
