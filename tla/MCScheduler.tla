----------------------------- MODULE MCScheduler -----------------------------
(* A two-core instance of Scheduler: the boot thread, one idle thread per   *)
(* core, and the workers each configuration names.                         *)
EXTENDS SchedulerRefinement, FiniteSets, TLC

CONSTANTS c1, c2, i1, i2,
          MAX_THREADS   \* the slots of the thread table

TwoCoreIdle == c1 :> i1 @@ c2 :> i2
MCTableHolds == {S \in SUBSET Thread : Cardinality(S) <= MAX_THREADS}
==============================================================================
