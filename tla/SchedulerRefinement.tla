------------------------- MODULE SchedulerRefinement -------------------------
(***************************************************************************)
(* The scheduler implements ThreadLifecycle.  The abstract threads are the *)
(* workers; a core that runs its idle thread holds nobody.  A thread whose *)
(* wake was deferred to the core it is leaving counts as ready from the    *)
(* moment of the wake.                                                     *)
(***************************************************************************)
EXTENDS Scheduler

LifeOf(t) ==
    IF t \notin threads THEN "absent"
    ELSE IF hs[t].state = "Embryo" THEN "embryo"
    ELSE IF hs[t].state = "Running" THEN "running"
    ELSE IF hs[t].state = "Ready" \/ hs[t].wake_pending THEN "ready"
    ELSE IF hs[t].state = "Blocked" THEN "blocked"
    ELSE "departed"

HolderOf(c) == IF current[c] \in Worker THEN current[c] ELSE NoTid

LifeMap   == [t \in Worker |-> LifeOf(t)]
HolderMap == [c \in Core |-> HolderOf(c)]

Lifecycle == INSTANCE ThreadLifecycle WITH
    Thread <- Worker,
    Nobody <- NoTid,
    life   <- LifeMap,
    holder <- HolderMap

\* Every step of the scheduler is a step of a thread's life or changes none:
\* a thread is dispatched only when ready and held by no core, no wake is lost
\* while its target is switching out, a core goes idle only when its thread
\* cannot go on, and a control block disappears only when no core holds it.
ImplementsLifecycle == Lifecycle!Spec
==============================================================================
