---------------------------- MODULE MCScheduler ----------------------------
(***************************************************************************)
(* Instances of Scheduler for TLC.  The threads and plugins are model      *)
(* values; each .cfg chooses who calls the API and how many timers there   *)
(* are.  No symmetry: the owner and the scheduler thread are special, and  *)
(* liveness is checked.                                                    *)
(***************************************************************************)
EXTENDS Scheduler

CONSTANTS main, worker, sched, p1, p2

=============================================================================
