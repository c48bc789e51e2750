------------------------------ MODULE MCScheduler ------------------------------
(* Small instances of the scheduler for TLC.                               *)
EXTENDS Scheduler

\* Levels 0, 1, 2 and STRIDE_LEV.
Quanta     == 0 :> 1 @@ 1 :> 2 @@ 2 :> 2 @@ 9 :> 2
Allotments == 0 :> 2 @@ 1 :> 2 @@ 2 :> 0 @@ 9 :> 2

=============================================================================
