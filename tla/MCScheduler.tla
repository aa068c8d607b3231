----------------------------- MODULE MCScheduler -----------------------------
(* Scheduler with two threads, two tasks and three points in time: see      *)
(* Scheduler.cfg.                                                           *)
EXTENDS Scheduler
=============================================================================
