------------------------------ MODULE Scheduler ------------------------------
(***************************************************************************)
(* The SMP scheduler (src/kernel/src/sched.rs, src/kernel/src/cpu.rs).     *)
(* Every core owns a run queue nobody else touches, a locked inbox other   *)
(* cores push migrating threads into, and a one-word steal-request slot.   *)
(* One hold of the lock IPC_TABLES is one action.  The concurrency is in   *)
(* the gaps between holds, and phase[c] says in which gap core c is:       *)
(*                                                                         *)
(*   "run"     executing current[c], interrupts enabled                    *)
(*   "poke"    in an interrupt handler that still owes reschedule SGIs     *)
(*   "tail"    after the handler, before preempt_if_needed                 *)
(*   "switch"  schedule() has decided and unlocked; the outgoing context   *)
(*             is not saved yet                                            *)
(*   "landed"  switch_to is done; finish_switch has not run yet            *)
(*                                                                         *)
(* Interrupts are masked in every phase but "run".                         *)
(***************************************************************************)
EXTENDS Naturals, Sequences, Functions, Handshake

CONSTANTS
    Core,          \* the online cores
    BootCore,      \* the core sched::init runs on
    Thread,        \* thread names, the idle threads included
    Idle,          \* Idle[c] is the idle thread of core c
    Boot,          \* the thread sched::init adopts
    UserThread,    \* threads retyped from a region: killable, and their
                   \*   syscalls run with interrupts masked
    Supervised,    \* user threads started with a fault endpoint
    TableHolds,    \* the sets of threads the thread table has room for
    Thief,         \* the cores that steal: every core in the code, fewer as a
                   \*   bound on an instance
    NoTid,         \* cpu::NO_TID
    NoCore         \* an empty steal-request slot

IdleThread == {Idle[c] : c \in Core}
Worker     == Thread \ IdleThread

ASSUME CoreAssumption ==
    /\ BootCore \in Core
    /\ NoCore \notin Core
    /\ Thief \subseteq Core
ASSUME ThreadAssumption ==
    /\ Idle \in [Core -> Thread]
    /\ \A c, d \in Core : Idle[c] = Idle[d] => c = d
    /\ Boot \in Worker
    /\ Supervised \subseteq UserThread
    /\ UserThread \subseteq Worker \ {Boot}
    /\ NoTid \notin Thread
    /\ TableHolds \subseteq SUBSET Thread
ASSUME WaitAssumption == NoWait # "ipc"

VARIABLES
    threads,       \* the thread table: the names that resolve
    hs,            \* hs[t]: the thread's handshake record
    parked,        \* parked[t]: t is inside a blocking call, past its park()
    ctx,           \* ctx[t]: t.context holds a saved register context
    killed,        \* the threads whose kill flag is set
    owes,          \* owes[t]: the core t placed a thread on and has not poked yet
    current,       \* PerCpu::current
    switched_from, \* PerCpu::switched_from
    phase,         \* where in the switch or the interrupt path the core is
    runq,          \* PerCpu::runq
    inbox,         \* PerCpu::inbox
    steal_request, \* PerCpu::steal_request
    need_resched,  \* PerCpu::need_resched
    sgi,           \* a reschedule SGI is pending at the core
    irq_owes       \* the core an interrupt handler placed a thread on and has
                   \*   not poked yet

threadVars == <<threads, hs, parked, ctx, killed, owes>>
coreVars   == <<current, switched_from, phase, runq, inbox, steal_request,
                need_resched, sgi, irq_owes>>
vars       == <<threadVars, coreVars>>

Phase == {"run", "poke", "tail", "switch", "landed"}

TypeOK ==
    /\ threads \subseteq Thread
    /\ hs \in [Thread -> HandshakeOf({"ipc"})]
    /\ parked \in [Thread -> BOOLEAN]
    /\ ctx \in [Thread -> BOOLEAN]
    /\ killed \subseteq UserThread
    /\ owes \in [Thread -> Core \cup {NoCore}]
    /\ current \in [Core -> Thread]
    /\ switched_from \in [Core -> Thread \cup {NoTid}]
    /\ phase \in [Core -> Phase]
    /\ runq \in [Core -> Seq(Thread)]
    /\ inbox \in [Core -> Seq(Thread)]
    /\ steal_request \in [Core -> Core \cup {NoCore}]
    /\ need_resched \in [Core -> BOOLEAN]
    /\ sgi \in [Core -> BOOLEAN]
    /\ irq_owes \in [Core -> Core \cup {NoCore}]

\* sched::init on the boot core and adopt_secondary_idle on every other: the
\* boot thread and the secondaries' idle threads are adopted standing on their
\* core; the boot core's idle thread is made Ready and is put on no queue.
Init ==
    /\ threads = IdleThread \cup {Boot}
    /\ hs = [t \in Thread |->
               IF t = Boot \/ \E c \in Core \ {BootCore} : t = Idle[c] THEN on_cpu_now
               ELSE IF t = Idle[BootCore] THEN ready
               ELSE embryo]
    /\ parked = [t \in Thread |-> FALSE]
    /\ ctx = [t \in Thread |-> t = Idle[BootCore]]
    /\ killed = {}
    /\ owes = [t \in Thread |-> NoCore]
    /\ current = [c \in Core |-> IF c = BootCore THEN Boot ELSE Idle[c]]
    /\ switched_from = [c \in Core |-> NoTid]
    /\ phase = [c \in Core |-> "run"]
    /\ runq = [c \in Core |-> <<>>]
    /\ inbox = [c \in Core |-> <<>>]
    /\ steal_request = [c \in Core |-> NoCore]
    /\ need_resched = [c \in Core |-> FALSE]
    /\ sgi = [c \in Core |-> FALSE]
    /\ irq_owes = [c \in Core |-> NoCore]

------------------------------------------------------------------------------
(* Queues and placement.                                                    *)

\* PerCpu::runnable(): the two length mirrors added.
runnable(c) == Len(runq[c]) + Len(inbox[c])

\* pick_wake_target(): the least loaded core, this one on a tie.
pick_wake_target(c) ==
    IF \A d \in Core : runnable(c) <= runnable(d) THEN {c}
    ELSE {d \in Core : \A e \in Core : runnable(d) <= runnable(e)}

\* place_on(target, t) executed on core c: the local run queue, or the remote
\* inbox, and then the caller owes the SGI (what place_on returns).
place_on(c, target, t) ==
    IF target = c
    THEN runq' = [runq EXCEPT ![c] = Append(@, t)] /\ UNCHANGED inbox
    ELSE inbox' = [inbox EXCEPT ![target] = Append(@, t)] /\ UNCHANGED runq

\* Mutant: the placement decides the thread is local and nobody sends the SGI.
place_on_owes_nothing(c, target) == IF target = c THEN NoCore ELSE NoCore

place_on_owes(c, target) == IF target = c THEN NoCore ELSE target

\* Mutant: the waker queues a thread whose wake it has just deferred.
wake_queues_deferred(c, t, h) ==
    /\ hs' = [hs EXCEPT ![t] = try_wake(h)]
    /\ runq' = IF WakeVerdict(h) \in {"Queue", "Deferred"}
               THEN [runq EXCEPT ![c] = Append(@, t)] ELSE runq

\* wake(t) executed on core c after the handshake record of t became h.
wake(c, t, h) ==
    /\ hs' = [hs EXCEPT ![t] = try_wake(h)]
    /\ runq' = IF WakeVerdict(h) = "Queue" THEN [runq EXCEPT ![c] = Append(@, t)]
               ELSE runq

\* The thread on core c runs code of its own and owes nothing.
RunsWorker(c) ==
    /\ phase[c] = "run"
    /\ current[c] \in Worker
    /\ hs[current[c]].state = "Running"
    /\ ~parked[current[c]]
    /\ owes[current[c]] = NoCore

\* Core c can take an interrupt.  A user thread between a placement and its
\* SGI is inside a syscall, with interrupts masked.
Interruptible(c) ==
    /\ phase[c] = "run"
    /\ current[c] \in UserThread => owes[current[c]] = NoCore

------------------------------------------------------------------------------
(* What the running thread does.                                            *)

\* Threads::insert: a full table refuses, and the caller returns None.
HasRoom(t) == threads \cup {t} \in TableHolds

\* spawn(f): a kernel thread, Ready at once, on a core picked by two random
\* samples that may coincide, so on any core.
spawn(c, t) ==
    /\ RunsWorker(c)
    /\ t \in Worker \ (UserThread \cup threads)
    /\ HasRoom(t)
    /\ threads' = threads \cup {t}
    /\ hs' = [hs EXCEPT ![t] = ready]
    /\ ctx' = [ctx EXCEPT ![t] = TRUE]
    /\ \E target \in Core :
          /\ place_on(c, target, t)
          /\ owes' = [owes EXCEPT ![current[c]] = place_on_owes(c, target)]
    /\ UNCHANGED <<parked, killed, current, switched_from, phase, steal_request,
                   need_resched, sgi, irq_owes>>

\* create_thread_control_block: an embryo in the table, on no queue.
create_thread_control_block(c, t) ==
    /\ RunsWorker(c)
    /\ t \in UserThread \ threads
    /\ HasRoom(t)
    /\ threads' = threads \cup {t}
    /\ hs' = [hs EXCEPT ![t] = embryo]
    /\ UNCHANGED <<parked, ctx, killed, owes, coreVars>>

\* start_thread_control_block: the embryo gets a stack and a first context.
start_thread_control_block(c, t) ==
    /\ RunsWorker(c)
    /\ t \in UserThread \cap threads
    /\ hs[t].state = "Embryo"
    /\ hs' = [hs EXCEPT ![t].state = "Ready"]
    /\ ctx' = [ctx EXCEPT ![t] = TRUE]
    /\ \E target \in Core :
          /\ place_on(c, target, t)
          /\ owes' = [owes EXCEPT ![current[c]] = place_on_owes(c, target)]
    /\ UNCHANGED <<threads, parked, killed, current, switched_from, phase,
                   steal_request, need_resched, sgi, irq_owes>>

\* The SGI a placement owes, sent after IPC_TABLES is released.  A kernel
\* thread may have been preempted and stolen onto another core in between.
send_reschedule(c) ==
    LET t == current[c] IN
    /\ phase[c] = "run"
    /\ hs[t].state = "Running"
    /\ owes[t] # NoCore
    /\ sgi' = [sgi EXCEPT ![owes[t]] = TRUE]
    /\ owes' = [owes EXCEPT ![t] = NoCore]
    /\ UNCHANGED <<threads, hs, parked, ctx, killed, current, switched_from, phase,
                   runq, inbox, steal_request, need_resched, irq_owes>>

\* The blocking half of every IPC call: park() under IPC_TABLES.  The call goes
\* on to schedule() after it unlocks.
Block(c) ==
    LET t == current[c] IN
    /\ RunsWorker(c)
    /\ hs' = [hs EXCEPT ![t] = park(@, "ipc")]
    /\ parked' = [parked EXCEPT ![t] = TRUE]
    /\ UNCHANGED <<threads, ctx, killed, owes, coreVars>>

\* The blocking call returns: the code after schedule() asserts a delivery and
\* the syscall layer consumes the abort flag.
Unblock(c) ==
    LET t == current[c] IN
    /\ phase[c] = "run"
    /\ parked[t] /\ hs[t].state = "Running"
    /\ hs' = [hs EXCEPT ![t] = take_aborted(@)]
    /\ parked' = [parked EXCEPT ![t] = FALSE]
    /\ UNCHANGED <<threads, ctx, killed, owes, coreVars>>

\* A waiter is served, or its wait is aborted, and then woken.  t may have been
\* served already and still be switching out: a reply and a strand both reach
\* a caller by its wait_on, which a deferred wake leaves set.
Deliver(c, t) ==
    /\ RunsWorker(c)
    /\ t \in threads
    /\ hs[t].state = "Blocked"
    /\ \E h \in {serve(hs[t]), abort(hs[t])} : wake(c, t, h)
    /\ UNCHANGED <<threads, parked, ctx, killed, owes, current, switched_from, phase,
                   inbox, steal_request, need_resched, sgi, irq_owes>>

\* wake_without_delivery: a wake with nothing delivered.
WakeUndelivered(c, t) ==
    /\ RunsWorker(c)
    /\ t \in threads
    /\ wake(c, t, hs[t])
    /\ UNCHANGED <<threads, parked, ctx, killed, owes, current, switched_from, phase,
                   inbox, steal_request, need_resched, sgi, irq_owes>>

\* exit and fault: Dead for a supervised thread, Finished for any other.
depart(c) ==
    LET t == current[c] IN
    /\ RunsWorker(c)
    /\ t # Boot
    /\ hs' = [hs EXCEPT ![t].state = IF t \in Supervised THEN "Dead" ELSE "Finished"]
    /\ UNCHANGED <<threads, parked, ctx, killed, owes, coreVars>>

\* kill_thread
kill_thread(c, t) ==
    /\ RunsWorker(c)
    /\ t \in UserThread \cap threads
    /\ killed' = killed \cup {t}
    /\ UNCHANGED <<threads, hs, parked, ctx, owes, coreVars>>

\* Mutant: no check that the thread still stands on a core.
region_reap_verdict_no_standing(h) ==
    IF h.state \in {"Ready", "Running"} THEN "RefuseAndArm" ELSE "Reap"

\* region_reap_verdict
region_reap_verdict(h) ==
    IF h.state \in {"Ready", "Running"} THEN "RefuseAndArm"
    ELSE IF h.state = "Blocked" /\ ~h.on_cpu THEN "FinishInPlace"
    ELSE IF h.on_cpu THEN "RefuseStanding"
    ELSE "Reap"

\* The name of t stops resolving and its page is recycled.
Remove(t) ==
    /\ threads' = threads \ {t}
    /\ hs' = [hs EXCEPT ![t] = embryo]
    /\ parked' = [parked EXCEPT ![t] = FALSE]
    /\ ctx' = [ctx EXCEPT ![t] = FALSE]
    /\ killed' = killed \ {t}

\* reap_region_objects on a region that holds t's control block and no other: a
\* blocked t is finished in place and removed in the same hold of the lock.
reap_region_thread(c, t) ==
    /\ RunsWorker(c)
    /\ t \in UserThread \cap threads
    /\ CASE region_reap_verdict(hs[t]) = "RefuseAndArm" ->
              /\ killed' = killed \cup {t}
              /\ UNCHANGED <<threads, hs, parked, ctx>>
         [] region_reap_verdict(hs[t]) = "RefuseStanding" ->
              UNCHANGED <<threads, hs, parked, ctx, killed>>
         [] region_reap_verdict(hs[t]) \in {"FinishInPlace", "Reap"} -> Remove(t)
    /\ UNCHANGED <<owes, coreVars>>

------------------------------------------------------------------------------
(* schedule(), from its decision under the lock to finish_switch.           *)

\* finish_killed_current, at the head of the decision.
AfterKillCheck(t) ==
    IF t \in killed /\ hs[t].state = "Running" THEN [hs[t] EXCEPT !.state = "Finished"]
    ELSE hs[t]

\* The queue is empty and the current thread can go on: no switch.
KeepCurrent(c) ==
    /\ runq[c] = <<>>
    /\ AfterKillCheck(current[c]).state = "Running"
    /\ phase' = [phase EXCEPT ![c] = "run"]
    /\ UNCHANGED <<threadVars, current, switched_from, runq>>

\* The outgoing thread, its handshake now h, goes back on the run queue.
requeued(c, h) == h.state = "Running" /\ current[c] # Idle[c]

\* Commit to switching from current[c] to next, leaving q as the queue.
SwitchTo(c, next, q) ==
    LET prev == current[c]
        h    == AfterKillCheck(prev)
    IN  /\ hs' = [hs EXCEPT ![prev] = IF requeued(c, h) THEN preempt(h) ELSE h,
                            ![next] = switch_in(hs[next])]
        /\ runq' = [runq EXCEPT ![c] = IF requeued(c, h) THEN Append(q, prev) ELSE q]
        /\ current' = [current EXCEPT ![c] = next]
        /\ switched_from' = [switched_from EXCEPT ![c] = prev]
        /\ phase' = [phase EXCEPT ![c] = "switch"]
        /\ UNCHANGED <<threads, parked, ctx, killed, owes>>

\* The 'decide block of schedule(): the head of the run queue, or the idle
\* thread when the queue is empty and the current thread cannot go on.
decide(c) ==
    \/ KeepCurrent(c)
    \/ /\ runq[c] # <<>>
       /\ SwitchTo(c, Head(runq[c]), Tail(runq[c]))
    \/ /\ runq[c] = <<>>
       /\ AfterKillCheck(current[c]).state # "Running"
       /\ SwitchTo(c, Idle[c], <<>>)

\* schedule() called by the running code: a yield, or the end of a blocking or
\* departing call.
schedule(c) ==
    /\ phase[c] = "run"
    /\ owes[current[c]] = NoCore
    /\ decide(c)
    /\ UNCHANGED <<inbox, steal_request, need_resched, sgi, irq_owes>>

\* preempt_if_needed, on the way out of an interrupt.
preempt_if_needed(c) ==
    /\ phase[c] = "tail"
    /\ need_resched' = [need_resched EXCEPT ![c] = FALSE]
    /\ IF need_resched[c] THEN decide(c)
       ELSE /\ phase' = [phase EXCEPT ![c] = "run"]
            /\ UNCHANGED <<threadVars, current, switched_from, runq>>
    /\ UNCHANGED <<inbox, steal_request, sgi, irq_owes>>

\* switch_to: the outgoing context is saved, the incoming one is consumed.
switch_to(c) ==
    /\ phase[c] = "switch"
    /\ ctx' = [ctx EXCEPT ![switched_from[c]] = TRUE, ![current[c]] = FALSE]
    /\ phase' = [phase EXCEPT ![c] = "landed"]
    /\ UNCHANGED <<threads, hs, parked, killed, owes, current, switched_from, runq,
                   inbox, steal_request, need_resched, sgi, irq_owes>>

\* finish_switch, run by the successor: reap, complete a deferred wake, or
\* just say that prev no longer stands on a core.
FinishSwitch(c) ==
    LET prev == switched_from[c] IN
    /\ phase[c] = "landed"
    /\ switched_from' = [switched_from EXCEPT ![c] = NoTid]
    /\ phase' = [phase EXCEPT ![c] = "run"]
    /\ IF SwitchOutVerdict(hs[prev]) = "Reap" THEN Remove(prev) /\ UNCHANGED runq
       ELSE /\ hs' = [hs EXCEPT ![prev] = finish_switch(@)]
            /\ runq' = IF SwitchOutVerdict(hs[prev]) = "WakeCompleted"
                       THEN [runq EXCEPT ![c] = Append(@, prev)] ELSE runq
            /\ UNCHANGED <<threads, parked, ctx, killed>>
    /\ UNCHANGED <<owes, current, inbox, steal_request, need_resched, sgi, irq_owes>>

------------------------------------------------------------------------------
(* Interrupts and work stealing.                                            *)

\* on_tick
on_tick(c) ==
    /\ Interruptible(c)
    /\ need_resched' = [need_resched EXCEPT ![c] = TRUE]
    /\ phase' = [phase EXCEPT ![c] = "tail"]
    /\ UNCHANGED <<threadVars, current, switched_from, runq, inbox, steal_request,
                   sgi, irq_owes>>

\* irq_notify: a device interrupt serves a waiter and places it load-aware.
irq_notify(c, t) ==
    LET h == serve(hs[t]) IN
    /\ Interruptible(c)
    /\ t \in threads
    /\ hs[t].state = "Blocked" /\ ~is_delivered(hs[t])
    /\ hs' = [hs EXCEPT ![t] = try_wake(h)]
    /\ IF WakeVerdict(h) = "Queue"
       THEN \E target \in pick_wake_target(c) :
              /\ place_on(c, target, t)
              /\ irq_owes' = [irq_owes EXCEPT ![c] = place_on_owes(c, target)]
              /\ phase' = [phase EXCEPT ![c] = IF target = c THEN "tail" ELSE "poke"]
       ELSE /\ phase' = [phase EXCEPT ![c] = "tail"]
            /\ UNCHANGED <<runq, inbox, irq_owes>>
    /\ UNCHANGED <<threads, parked, ctx, killed, owes, current, switched_from,
                   steal_request, need_resched, sgi>>

\* The SGI irq_notify sends after it has released IPC_TABLES.
irq_send_reschedule(c) ==
    /\ phase[c] = "poke"
    /\ sgi' = [sgi EXCEPT ![irq_owes[c]] = TRUE]
    /\ irq_owes' = [irq_owes EXCEPT ![c] = NoCore]
    /\ phase' = [phase EXCEPT ![c] = "tail"]
    /\ UNCHANGED <<threadVars, current, switched_from, runq, inbox, steal_request,
                   need_resched>>

\* The SGI being handled is no longer pending; the thief, if any, is poked.
SgiAfterServe(c, thief) == [d \in Core |-> d # c /\ (sgi[d] \/ d = thief)]

\* The reschedule SGI's handler: drain_inbox(), then serve_steal_request(),
\* which hands the front of the run queue to the requester's inbox.
reschedule_interrupt(c) ==
    LET q == runq[c] \o inbox[c]
        r == steal_request[c]
        gives == r # NoCore /\ q # <<>>
        drained == [inbox EXCEPT ![c] = <<>>]
    IN  /\ Interruptible(c)
        /\ sgi[c]
        /\ need_resched' = [need_resched EXCEPT ![c] = @ \/ inbox[c] # <<>>]
        /\ steal_request' = [steal_request EXCEPT ![c] = NoCore]
        /\ runq' = [runq EXCEPT ![c] = IF gives THEN Tail(q) ELSE q]
        /\ inbox' = IF gives THEN [drained EXCEPT ![r] = Append(@, Head(q))]
                    ELSE drained
        /\ sgi' = SgiAfterServe(c, IF gives THEN r ELSE NoCore)
        /\ phase' = [phase EXCEPT ![c] = "tail"]
        /\ UNCHANGED <<threadVars, current, switched_from, irq_owes>>

\* try_initiate_steal, by the idle loop: claim the slot of the longest queue.
try_initiate_steal(c, v) ==
    /\ c \in Thief
    /\ phase[c] = "run"
    /\ current[c] = Idle[c]
    /\ owes[Idle[c]] = NoCore
    /\ runnable(c) = 0
    /\ v # c
    /\ Len(runq[v]) > 0
    /\ \A d \in Core \ {c} : Len(runq[d]) <= Len(runq[v])
    /\ steal_request[v] = NoCore
    /\ steal_request' = [steal_request EXCEPT ![v] = c]
    /\ owes' = [owes EXCEPT ![Idle[c]] = v]
    /\ UNCHANGED <<threads, hs, parked, ctx, killed, current, switched_from, phase,
                   runq, inbox, need_resched, sgi, irq_owes>>

------------------------------------------------------------------------------
CoreStep(c) ==
    \/ send_reschedule(c)
    \/ Block(c)
    \/ Unblock(c)
    \/ depart(c)
    \/ schedule(c)
    \/ preempt_if_needed(c)
    \/ switch_to(c)
    \/ FinishSwitch(c)
    \/ on_tick(c)
    \/ irq_send_reschedule(c)
    \/ reschedule_interrupt(c)
    \/ \E v \in Core : try_initiate_steal(c, v)

ThreadStep(c, t) ==
    \/ spawn(c, t)
    \/ create_thread_control_block(c, t)
    \/ start_thread_control_block(c, t)
    \/ Deliver(c, t)
    \/ WakeUndelivered(c, t)
    \/ kill_thread(c, t)
    \/ reap_region_thread(c, t)
    \/ irq_notify(c, t)

Next == \E c \in Core : CoreStep(c) \/ \E t \in Worker : ThreadStep(c, t)

Spec == Init /\ [][Next]_vars

------------------------------------------------------------------------------
(* Where a thread is.                                                       *)

Queued(t) == \E c \in Core : t \in Range(runq[c]) \cup Range(inbox[c])

\* t stands on core c: it runs there, or its context is not saved yet.
Stands(t, c) == current[c] = t \/ switched_from[c] = t

(* Safety.                                                                  *)

\* A thread runs on, or is still leaving, at most one core (schedule() on one
\* core never picks a thread another core has not finished switching out).
OneCorePerThread ==
    \A t \in Thread : \A c, d \in Core : Stands(t, c) /\ Stands(t, d) => c = d

\* The intrusive link of a thread is used once: no thread is twice on a run
\* queue or inbox, nor on two of them (push_back's contract, RunState::Ready's
\* "on exactly one run queue or migration inbox").
LinkedOnce ==
    \A c, d \in Core :
        /\ IsInjective(runq[c]) /\ IsInjective(inbox[c])
        /\ Range(runq[c]) \cap Range(inbox[d]) = {}
        /\ c # d => /\ Range(runq[c]) \cap Range(runq[d]) = {}
                    /\ Range(inbox[c]) \cap Range(inbox[d]) = {}

\* No wake, placement, steal, preemption or reap loses a thread or leaves a
\* stale link: a worker is Ready exactly when it is queued somewhere.
ReadyIffQueued ==
    \A t \in Worker : Queued(t) <=> t \in threads /\ hs[t].state = "Ready"

\* The thread schedule() commits to switching to has a saved context, and the
\* one it leaves has none until switch_to writes it.
SwitchesToSavedContext ==
    \A c \in Core : phase[c] = "switch" =>
        ctx[current[c]] /\ ~ctx[switched_from[c]]

\* What schedule(), switch_in and the idle branch assert or panic on: the
\* current thread is never on its own run queue (heal_self_pop), the head of
\* the queue is Ready and off every CPU, and the idle thread is always free to
\* run when the queue is empty.
ScheduleNeverPanics ==
    \A c \in Core : phase[c] \in {"run", "tail", "poke"} =>
        /\ current[c] \notin Range(runq[c])
        /\ runq[c] # <<>> => switch_in_asserts(hs[Head(runq[c])])
        /\ current[c] # Idle[c] => switch_in_asserts(hs[Idle[c]])
        /\ current[c] = Idle[c] => hs[Idle[c]].state = "Running"

\* Work left for another core always has an SGI coming: pending at the core, or
\* owed by somebody who still has the send ahead of them.  A thread in an inbox
\* would otherwise stay where nothing drains it (place_on's must_use), and a
\* claimed steal slot would lock every other core out (try_initiate_steal).
WorkIsPoked ==
    \A c \in Core :
        /\ inbox[c] # <<>> =>
              \/ sgi[c]
              \/ \E t \in threads : owes[t] = c /\ hs[t].state \in {"Ready", "Running"}
              \/ \E d \in Core : irq_owes[d] = c
        /\ steal_request[c] # NoCore =>
              sgi[c] \/ owes[Idle[steal_request[c]]] = c

\* A reaped control block is referenced from nowhere: no queue, no core, no
\* pending finish_switch (reap_region_objects against schedule()).
ReapedIsUnreferenced ==
    \A t \in Thread \ threads : ~Queued(t) /\ \A c \in Core : ~Stands(t, c)

\* What every blocking call asserts when schedule() returns to it: something
\* was delivered, whatever wakes raced its switch-out.
ResumedIsDelivered ==
    \A t \in threads : parked[t] /\ hs[t].state \in {"Ready", "Running"} =>
        is_delivered(hs[t])

\* A delivery to a thread that is still switching out is not lost: the wake is
\* recorded, and the core it stands on will complete it.
DeferredWakeIsRecorded ==
    \A t \in threads : hs[t].state = "Blocked" /\ is_delivered(hs[t]) =>
        hs[t].wake_pending /\ \E c \in Core : Stands(t, c)

(* The inductive invariant behind the safety properties.                    *)

\* switched_from is set from schedule()'s decision to finish_switch.
LeavingInv ==
    \A c \in Core : switched_from[c] # NoTid <=> phase[c] \in {"switch", "landed"}

\* on_cpu is exactly "runs on, or is leaving, some core".
StandingInv ==
    /\ \A t \in Thread : hs[t].on_cpu <=> \E c \in Core : Stands(t, c)
    /\ \A c \in Core :
          /\ switched_from[c] # current[c]
          /\ current[c] \in threads
          /\ hs[current[c]].state \notin {"Ready", "Embryo"}
          /\ switched_from[c] # NoTid =>
                /\ switched_from[c] \in threads
                /\ hs[switched_from[c]].state # "Embryo"

\* A queued thread is a live Ready worker, and off every core but the one whose
\* schedule() has just requeued it.
QueueInv ==
    \A c \in Core, t \in Thread :
        /\ t \in Range(runq[c]) =>
              /\ t \in Worker \cap threads
              /\ hs[t].state = "Ready"
              /\ hs[t].on_cpu => switched_from[c] = t
        /\ t \in Range(inbox[c]) =>
              t \in Worker \cap threads /\ hs[t].state = "Ready" /\ ~hs[t].on_cpu

\* A Ready worker is queued.
ReadyInv == \A t \in Worker \cap threads : hs[t].state = "Ready" => Queued(t)

\* An idle thread stands on its own core only and is always fit to run.
IdleInv ==
    \A c \in Core :
        /\ Idle[c] \in threads
        /\ hs[Idle[c]].state \in {"Ready", "Running"}
        /\ \A d \in Core : Stands(Idle[c], d) => d = c

\* Where a saved context is.
ContextInv ==
    /\ \A t \in threads : ~hs[t].on_cpu /\ hs[t].state # "Embryo" => ctx[t]
    /\ \A c \in Core :
          /\ phase[c] # "switch" => ~ctx[current[c]]
          /\ phase[c] = "landed" => ctx[switched_from[c]]

\* What a thread's flags say: h is its record, at whether it is parked in a
\* blocking call, live whether the table holds it.
FlagsOk(h, at, live) ==
    /\ h.wake_pending => h.state = "Blocked" /\ h.on_cpu /\ is_delivered(h)
    /\ h.state = "Blocked" => at /\ h.wait_on # NoWait
    /\ ~at => ~h.ipc_aborted
    /\ h.state = "Embryo" => ~at
    /\ ~live => h = embryo

DeliveryInv == \A t \in Thread : FlagsOk(hs[t], parked[t], t \in threads)

IInv ==
    /\ TypeOK /\ OneCorePerThread /\ LinkedOnce
    /\ LeavingInv /\ StandingInv /\ QueueInv /\ ReadyInv /\ IdleInv
    /\ ContextInv /\ SwitchesToSavedContext
    /\ DeliveryInv /\ ResumedIsDelivered /\ DeferredWakeIsRecorded

\* Whoever owes an SGI gets to send it: the thread is runnable, a user thread is
\* not interrupted before it, a handler goes on to it.  No core robs itself.
OwingInv ==
    /\ \A t \in Thread : owes[t] # NoCore =>
          t \in threads /\ hs[t].state \in {"Ready", "Running"}
    /\ \A c \in Core :
          /\ phase[c] \in {"poke", "tail"} /\ current[c] \in UserThread =>
                owes[current[c]] = NoCore
          /\ irq_owes[c] # NoCore => phase[c] = "poke"
          /\ steal_request[c] # c

(* Action properties.                                                       *)

\* Finished and Dead are final: a thread that exited, faulted or was killed is
\* never made Ready, Running or Blocked again before its name is removed.
DepartedNeverReturns ==
    [][\A t \in threads : hs[t].state \in {"Finished", "Dead"} =>
          t \notin threads' \/ hs'[t].state \in {hs[t].state, "Finished"}]_vars

(* Liveness.                                                                *)

\* The fairness of the hardware and of straight-line code: a core with
\* interrupts masked runs on to the end of its handler or switch; a pending
\* SGI and the periodic tick are level-triggered, so each is taken whenever
\* the core is interruptible again and again; and a thread that is dispatched
\* again and again gets to send the SGI it owes.
Fairness ==
    \A c \in Core :
        /\ WF_vars(preempt_if_needed(c))
        /\ WF_vars(switch_to(c))
        /\ WF_vars(FinishSwitch(c))
        /\ WF_vars(irq_send_reschedule(c))
        /\ SF_vars(on_tick(c))
        /\ SF_vars(reschedule_interrupt(c))
        /\ SF_vars(send_reschedule(c))

FairSpec == Spec /\ Fairness

\* No wake or placement strands a thread: a worker that is Ready, or parked with a
\* delivery, is eventually run, on whatever core its queue, its inbox or a thief
\* takes it to, and even when the wake lands while it is still switching out
\* (wake_pending, completed by finish_switch).
WokenThreadRuns ==
    \A t \in Worker :
        hs[t].state = "Ready" \/ (hs[t].state = "Blocked" /\ is_delivered(hs[t]))
            ~> hs[t].state = "Running" \/ t \notin threads

==============================================================================
