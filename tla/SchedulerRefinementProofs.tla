---------------------- MODULE SchedulerRefinementProofs ----------------------
(* What a step of the scheduler may do to one thread, for every number of   *)
(* cores and threads: a departed thread never comes back, and each action maps *)
(* to a step of one thread's life in ThreadLifecycle, to a dispatch, or to no *)
(* step at all.  The inductive invariant of the safety proofs says why a    *)
(* dispatched thread is held by no core and a removed one neither.  Last,   *)
(* what a step may do to an SGI that is owed: work placed on a core that may *)
(* be waiting for an interrupt is always followed by one (OwingInv).        *)
EXTENDS SchedulerSafetyProofs, SchedulerRefinement

------------------------------------------------------------------------------
(* Departure is final.                                                      *)

\* One step takes no departed thread back.
StaysDeparted(t) == t \notin threads' \/ hs'[t].state \in {hs[t].state, "Finished"}

\* No step of any core makes a Finished or Dead thread run, wait or wake again.
LEMMA NextDeparted ==
  ASSUME IInv, [Next]_vars, NEW t \in threads, hs[t].state \in {"Finished", "Dead"}
  PROVE  StaysDeparted(t)
<1> USE DEF StaysDeparted
<1>0. TypeOK /\ QueueInv /\ LinkedOnce /\ IdleInv /\ LeavingInv /\ DeliveryInv /\ StandingInv
  BY Zenon DEF IInv
<1>1. t \in Thread /\ hs[t] \in HandshakeOf({"ipc"})
  BY <1>0, Zenon DEF TypeOK
<1>2. ASSUME NEW c \in Core, CoreStep(c) PROVE StaysDeparted(t)
  <2>1. CASE Block(c) \/ Unblock(c) \/ depart(c)
    <3>1. current[c] # t /\ \E g : hs' = [hs EXCEPT ![current[c]] = g]
      BY <2>1, Zenon DEF Block, Unblock, depart, RunsWorker
    <3> QED BY <1>0, <1>1, <3>1, Zenon DEF TypeOK
  <2>2. ASSUME decide(c) PROVE StaysDeparted(t)
    <3>1. CASE KeepCurrent(c)
      BY <3>1, Zenon DEF KeepCurrent, threadVars
    <3>2. ASSUME NEW n \in Thread, NEW q, SwitchTo(c, n, q), n # t PROVE StaysDeparted(t)
      <4>1. hs' = [hs EXCEPT ![current[c]] = Outgoing(c), ![n] = switch_in(hs[n])]
        BY <3>2, Zenon DEF SwitchTo, Outgoing, Requeues
      <4>2. current[c] = t => Outgoing(c) = hs[t]
        BY Zenon DEF Outgoing, Requeues, requeued, AfterKillCheck
      <4> QED BY <1>0, <1>1, <3>2, <4>1, <4>2, Zenon DEF TypeOK
    <3>3. CASE runq[c] # <<>>
      <4>1. runq[c] \in Seq(Thread) /\ IsInjective(runq[c])
        BY <1>0, Zenon DEF TypeOK, LinkedOnce
      <4>2. Head(runq[c]) \in Range(runq[c]) /\ Head(runq[c]) \in Thread
        BY <3>3, <4>1, RangeTail
      <4>3. Head(runq[c]) # t
        BY <1>0, <1>1, <4>2, Zenon DEF QueueInv
      <4> QED BY <2>2, <3>1, <3>2, <3>3, <4>2, <4>3, Zenon DEF decide
    <3>4. CASE runq[c] = <<>>
      <4>1. Idle[c] \in Thread /\ Idle[c] # t
        BY <1>0, ThreadAssumption, Zenon DEF IdleInv
      <4> QED BY <2>2, <3>1, <3>2, <3>4, <4>1, Zenon DEF decide
    <3> QED BY <3>3, <3>4, Zenon
  <2>3. CASE schedule(c)
    BY <2>2, <2>3, Zenon DEF schedule
  <2>4. CASE preempt_if_needed(c)
    BY <2>2, <2>4, Zenon DEF preempt_if_needed, threadVars
  <2>5. CASE FinishSwitch(c)
    <3> DEFINE p == switched_from[c]
    <3>1. CASE SwitchOutVerdict(hs[p]) = "Reap"
      BY <1>0, <1>1, <2>5, <3>1, Zenon DEF FinishSwitch, Remove, TypeOK
    <3>2. CASE SwitchOutVerdict(hs[p]) # "Reap"
      <4>1. hs' = [hs EXCEPT ![p] = finish_switch(hs[p])]
        BY <2>5, <3>2, Zenon DEF FinishSwitch
      <4>2. p = t => finish_switch(hs[p]).state = hs[t].state
        BY <1>0, <1>1, Zenon DEF finish_switch, SwitchOutVerdict, DeliveryInv, FlagsOk, HandshakeOf
      <4> QED BY <1>0, <1>1, <4>1, <4>2, Zenon DEF TypeOK
    <3> QED BY <3>1, <3>2, Zenon
  <2>6. CASE \/ send_reschedule(c) \/ switch_to(c) \/ on_tick(c) \/ irq_send_reschedule(c)
             \/ reschedule_interrupt(c) \/ \E v \in Core : try_initiate_steal(c, v)
    BY <2>6, ZenonT(30) DEF send_reschedule, switch_to, on_tick, irq_send_reschedule,
                reschedule_interrupt, try_initiate_steal, threadVars
  <2> QED BY <1>2, <2>1, <2>3, <2>4, <2>5, <2>6, Zenon DEF CoreStep
<1>3. ASSUME NEW c \in Core, NEW u \in Worker, ThreadStep(c, u) PROVE StaysDeparted(t)
  <2>1. CASE spawn(c, u) \/ create_thread_control_block(c, u) \/ start_thread_control_block(c, u)
    <3>1. u # t /\ \E g : hs' = [hs EXCEPT ![u] = g]
      BY <2>1, Zenon DEF spawn, create_thread_control_block, start_thread_control_block
    <3> QED BY <1>0, <1>1, <3>1, Zenon DEF TypeOK
  <2>2. CASE Deliver(c, u) \/ irq_notify(c, u)
    <3>1. u # t /\ \E g : hs' = [hs EXCEPT ![u] = g]
      BY <2>2, Zenon DEF Deliver, irq_notify, wake
    <3> QED BY <1>0, <1>1, <3>1, Zenon DEF TypeOK
  <2>3. CASE WakeUndelivered(c, u)
    <3>1. hs' = [hs EXCEPT ![u] = try_wake(hs[u])]
      BY <2>3, Zenon DEF WakeUndelivered, wake
    <3>2. u = t => try_wake(hs[u]) = hs[t]
      BY Zenon DEF try_wake, WakeVerdict
    <3> QED BY <1>0, <1>1, <3>1, <3>2, Zenon DEF TypeOK
  <2>4. CASE kill_thread(c, u)
    BY <2>4, Zenon DEF kill_thread
  <2>5. CASE reap_region_thread(c, u)
    <3>1. hs' = hs \/ Remove(u)
      BY <2>5, ZenonT(30) DEF reap_region_thread, region_reap_verdict
    <3> QED BY <1>0, <1>1, <3>1, Zenon DEF Remove, TypeOK
  <2> QED BY <1>3, <2>1, <2>2, <2>3, <2>4, <2>5, Zenon DEF ThreadStep
<1>4. CASE UNCHANGED vars
  BY <1>4, Zenon DEF vars, threadVars
<1> QED BY <1>2, <1>3, <1>4, Zenon DEF Next

\* Finished and Dead are final until the name is removed.
THEOREM DepartedFinal == Spec => DepartedNeverReturns
<1>1. IInv /\ [Next]_vars =>
        [\A t \in threads : hs[t].state \in {"Finished", "Dead"} =>
            t \notin threads' \/ hs'[t].state \in {hs[t].state, "Finished"}]_vars
  BY NextDeparted, Zenon DEF StaysDeparted
<1> QED BY <1>1, Invariant, PTL DEF Spec, DepartedNeverReturns

------------------------------------------------------------------------------
(* The refinement of ThreadLifecycle.                                       *)

LifeStep == Lifecycle!Next \/ UNCHANGED <<LifeMap, HolderMap>>

------------------------------------------------------------------------------
(* The refinement mapping.                                                      *)

\* A thread's life depends on its name resolving and on two of its fields.
LEMMA SameLife ==
  ASSUME NEW t, t \in threads' <=> t \in threads,
         t \in threads => /\ hs'[t].state = hs[t].state
                          /\ hs'[t].wake_pending = hs[t].wake_pending
  PROVE  LifeOf(t)' = LifeOf(t)
  BY Zenon DEF LifeOf

\* A worker is held exactly by the core whose current thread it is.
LEMMA HeldIsCurrent ==
  ASSUME NEW t \in Worker
  PROVE  Lifecycle!Held(t) <=> \E c \in Core : current[c] = t
<1>1. \A c \in Core : HolderMap[c] = HolderOf(c)
  BY Zenon DEF HolderMap
<1>2. NoTid \notin Worker
  BY ThreadAssumption, Zenon DEF Worker
<1> QED BY <1>1, <1>2, Zenon DEF Lifecycle!Held, HolderOf

\* No life changes and no core turns to another thread.
LEMMA NoLifeChanges ==
  ASSUME \A t \in Worker : LifeOf(t)' = LifeOf(t),
         current' = current
  PROVE  UNCHANGED <<LifeMap, HolderMap>>
  BY Zenon DEF LifeMap, HolderMap, HolderOf

\* One worker's life changes.
LEMMA OneLifeChanges ==
  ASSUME NEW t \in Worker, NEW From, NEW To,
         \A u \in Worker : u # t => LifeOf(u)' = LifeOf(u),
         current' = current,
         LifeOf(t) \in From, LifeOf(t)' \in To
  PROVE  Lifecycle!Moves(t, From, To)
<1>1. UNCHANGED HolderMap
  BY Zenon DEF HolderMap, HolderOf
<1>2. LifeMap[t] = LifeOf(t)
  BY Zenon DEF LifeMap
<1>3. LifeMap' = [LifeMap EXCEPT ![t] = LifeOf(t)']
  BY ZenonT(30) DEF LifeMap
<1>4. LifeMap'[t] = LifeOf(t)'
  BY Zenon DEF LifeMap
<1> QED BY <1>1, <1>2, <1>3, <1>4, ZenonT(30) DEF Lifecycle!Moves

\* The initial state of the scheduler maps to the initial state of the lives.
LEMMA InitLifecycle == Init => Lifecycle!Init
<1> SUFFICES ASSUME Init PROVE Lifecycle!Init
  BY Zenon
<1>1. LifeMap = [t \in Worker |-> IF t = Boot THEN "running" ELSE "absent"]
  <2>1. ASSUME NEW t \in Worker
        PROVE  LifeOf(t) = IF t = Boot THEN "running" ELSE "absent"
    BY <2>1, ThreadAssumption, Zenon
    DEF Init, LifeOf, Worker, IdleThread, on_cpu_now, Fresh
  <2> QED BY <2>1, Zenon DEF LifeMap
<1>2. HolderMap = [c \in Core |-> IF c = BootCore THEN Boot ELSE NoTid]
  <2>1. ASSUME NEW c \in Core
        PROVE  HolderOf(c) = IF c = BootCore THEN Boot ELSE NoTid
    BY <2>1, ThreadAssumption, Zenon DEF Init, HolderOf, Worker, IdleThread
  <2> QED BY <2>1, Zenon DEF HolderMap
<1> QED BY <1>1, <1>2, Zenon DEF Lifecycle!Init

------------------------------------------------------------------------------
(* One lemma per kind of action.                                                *)

\* Queues, pokes, contexts and kill flags are no part of a life.
LEMMA QuietLives ==
  ASSUME UNCHANGED <<threads, hs, current>>
  PROVE  LifeStep
  BY SameLife, NoLifeChanges, Zenon DEF LifeStep

\* park, depart, and the return from a blocking call.
LEMMA CurrentLives ==
  ASSUME IInv, NEW c \in Core, Block(c) \/ Unblock(c) \/ depart(c)
  PROVE  LifeStep
<1>0. TypeOK /\ DeliveryInv /\ StandingInv
  BY Zenon DEF IInv
<1>t. PICK t \in Thread : t = current[c]
  BY <1>0, Zenon DEF TypeOK
<1>1. /\ t \in Thread /\ hs[t] \in HandshakeOf({"ipc"}) /\ t \in threads
      /\ hs[t].state = "Running"
  BY <1>0, <1>t DEF TypeOK, StandingInv, Block, Unblock, depart, RunsWorker
<1>2. ~hs[t].wake_pending
  BY <1>0, <1>1, Zenon DEF DeliveryInv, FlagsOk
<1>3. threads' = threads /\ current' = current
  BY Zenon DEF Block, Unblock, depart, coreVars
<1>4. LifeOf(t) = "running"
  BY <1>1, Zenon DEF LifeOf
<1>5. ASSUME NEW g, hs' = [hs EXCEPT ![t] = g]
      PROVE  /\ hs'[t] = g
             /\ \A u \in Worker : u # t => LifeOf(u)' = LifeOf(u)
  BY <1>0, <1>1, <1>3, <1>5, SameLife, Zenon DEF TypeOK, Worker
<1>6. CASE Block(c)
  <2>1. t \in Worker /\ hs' = [hs EXCEPT ![t] = park(hs[t], "ipc")]
    BY <1>6, <1>t, Zenon DEF Block, RunsWorker
  <2>2. LifeOf(t)' = "blocked"
    <3>1. hs'[t] = park(hs[t], "ipc")
      BY <1>5, <2>1, Zenon
    <3>2. /\ park(hs[t], "ipc").state = "Blocked"
          /\ park(hs[t], "ipc").wake_pending = hs[t].wake_pending
      BY <1>1, Zenon DEF park, HandshakeOf
    <3> QED BY <1>1, <1>2, <1>3, <3>1, <3>2, Zenon DEF LifeOf
  <2>3. Lifecycle!Moves(t, {"running"}, {"blocked"})
    BY <1>3, <1>4, <1>5, <2>1, <2>2, OneLifeChanges, ZenonT(30)
  <2>4. Lifecycle!Block(t)
    BY <1>t, <2>1, <2>3, HeldIsCurrent, Zenon DEF Lifecycle!Block
  <2> QED BY <2>1, <2>4, Zenon DEF LifeStep, Lifecycle!Next
<1>7. CASE Unblock(c)
  <2>1. hs' = [hs EXCEPT ![t] = take_aborted(hs[t])]
    BY <1>7, <1>t, Zenon DEF Unblock
  <2>2. hs'[t].state = hs[t].state /\ hs'[t].wake_pending = hs[t].wake_pending
    BY <1>1, <1>5, <2>1 DEF take_aborted, HandshakeOf
  <2>3. LifeOf(t)' = LifeOf(t)
    BY <1>3, <2>2, SameLife, Zenon
  <2> QED BY <1>3, <1>5, <2>1, <2>3, NoLifeChanges, ZenonT(30) DEF LifeStep
<1>8. CASE depart(c)
  <2> DEFINE s == IF t \in Supervised THEN "Dead" ELSE "Finished"
             g == [hs[t] EXCEPT !.state = s]
  <2>1. t \in Worker /\ t # Boot /\ hs' = [hs EXCEPT ![t] = g]
    BY <1>8, <1>t, Zenon DEF depart, RunsWorker
  <2>g. g.state \in {"Dead", "Finished"} /\ g.wake_pending = hs[t].wake_pending
    BY <1>1, Zenon DEF HandshakeOf
  <2> HIDE DEF g
  <2>2. LifeOf(t)' = "departed"
    <3>1. hs'[t] = g
      BY <1>5, <2>1, Zenon
    <3> QED BY <1>1, <1>2, <1>3, <2>g, <3>1, Zenon DEF LifeOf
  <2>3. Lifecycle!Moves(t, {"running"}, {"departed"})
    BY <1>3, <1>4, <1>5, <2>1, <2>2, OneLifeChanges, ZenonT(30)
  <2>4. Lifecycle!Depart(t)
    BY <1>t, <2>1, <2>3, HeldIsCurrent, Zenon DEF Lifecycle!Depart
  <2> QED BY <2>1, <2>4, Zenon DEF LifeStep, Lifecycle!Next
<1> QED BY <1>6, <1>7, <1>8, Zenon

\* One handshake record is replaced, and at most its thread enters or leaves the
\* table: every other life is as it was.
LEMMA OthersLive ==
  ASSUME TypeOK, NEW t \in Thread, NEW g, hs' = [hs EXCEPT ![t] = g],
         threads' \in {threads, threads \cup {t}, threads \ {t}}
  PROVE  hs'[t] = g /\ \A u \in Worker : u # t => LifeOf(u)' = LifeOf(u)
<1>1. hs'[t] = g /\ \A u \in Worker : u # t => hs'[u] = hs[u]
  BY Zenon DEF TypeOK, Worker
<1>2. \A u : u # t => (u \in threads' <=> u \in threads)
  BY Zenon
<1> QED BY <1>1, <1>2, SameLife, Zenon

\* A wake of t, whose record became h: blocked to ready, at once or deferred to
\* the core t is leaving, or nothing.
LEMMA WakeLife ==
  ASSUME IInv, NEW t \in Worker, t \in threads,
         NEW h \in HandshakeOf({"ipc"}), h.state = hs[t].state, h.on_cpu = hs[t].on_cpu,
         h.wake_pending = hs[t].wake_pending,
         hs' = [hs EXCEPT ![t] = try_wake(h)], UNCHANGED <<threads, current>>
  PROVE  LifeStep
<1>0. TypeOK /\ DeliveryInv
  BY Zenon DEF IInv
<1>1. hs'[t] = try_wake(h) /\ \A u \in Worker : u # t => LifeOf(u)' = LifeOf(u)
  BY <1>0, OthersLive, Zenon DEF Worker
<1>2. ASSUME LifeOf(t) = "blocked", LifeOf(t)' = "ready" PROVE LifeStep
  <2>1. Lifecycle!Wake(t)
    BY <1>1, <1>2, OneLifeChanges, Zenon DEF Lifecycle!Wake
  <2> QED BY <2>1, Zenon DEF LifeStep, Lifecycle!Next
<1>3. ASSUME LifeOf(t)' = LifeOf(t) PROVE LifeStep
  BY <1>1, <1>3, NoLifeChanges, Zenon DEF LifeStep
<1>4. CASE WakeVerdict(h) \in {"Queue", "Deferred"}
  <2>1. /\ hs[t].state = "Blocked" /\ hs'[t].state \in {"Ready", "Blocked"}
        /\ hs'[t].state = "Ready" \/ hs'[t].wake_pending
    BY <1>1, <1>4, TryWakeFields
  <2>2. LifeOf(t)' = "ready" /\ LifeOf(t) \in {"blocked", "ready"}
    BY <2>1, Zenon DEF LifeOf
  <2> QED BY <1>2, <1>3, <2>2, Zenon
<1>5. CASE WakeVerdict(h) \in {"NotBlocked", "Refused"}
  <2>1. hs'[t].state = hs[t].state /\ hs'[t].wake_pending = hs[t].wake_pending
    BY <1>1, <1>5, TryWakeFields
  <2> QED BY <1>3, <2>1, SameLife, Zenon
<1> QED BY <1>4, <1>5, TryWakeFields, Zenon

\* Each of the three wakers.
LEMMA WakeLives ==
  ASSUME IInv, NEW c \in Core, NEW t \in Worker,
         Deliver(c, t) \/ WakeUndelivered(c, t) \/ irq_notify(c, t)
  PROVE  LifeStep
<1>1. t \in threads /\ UNCHANGED <<threads, current>> /\ hs[t] \in HandshakeOf({"ipc"})
  BY Zenon DEF Deliver, WakeUndelivered, irq_notify, IInv, TypeOK, Worker
<1>2. PICK h \in {hs[t], serve(hs[t]), abort(hs[t])} : hs' = [hs EXCEPT ![t] = try_wake(h)]
  BY Zenon DEF Deliver, WakeUndelivered, irq_notify, wake
<1>3. /\ h \in HandshakeOf({"ipc"}) /\ h.state = hs[t].state /\ h.on_cpu = hs[t].on_cpu
      /\ h.wake_pending = hs[t].wake_pending
  BY <1>1, <1>2, ZenonT(30) DEF serve, abort, HandshakeOf
<1> QED BY <1>1, <1>2, <1>3, WakeLife, ZenonT(30)

\* Control blocks are created, started and removed by a region's reap.
LEMMA TableLives ==
  ASSUME IInv, NEW c \in Core, NEW t \in Worker,
         \/ spawn(c, t) \/ create_thread_control_block(c, t)
         \/ start_thread_control_block(c, t) \/ reap_region_thread(c, t)
  PROVE  LifeStep
<1>0. TypeOK /\ DeliveryInv /\ StandingInv /\ t \in Thread
  BY Zenon DEF IInv, Worker
<1>1. CASE spawn(c, t) \/ create_thread_control_block(c, t)
  <2>1. PICK g \in {ready, embryo} : hs' = [hs EXCEPT ![t] = g]
    BY <1>1, Zenon DEF spawn, create_thread_control_block
  <2>2. t \notin threads /\ threads' = threads \cup {t} /\ current' = current
    BY <1>1, Zenon DEF spawn, create_thread_control_block, coreVars
  <2>3. hs'[t] = g /\ \A u \in Worker : u # t => LifeOf(u)' = LifeOf(u)
    BY <1>0, <2>1, <2>2, OthersLive, ZenonT(30)
  <2>4. LifeOf(t) \in {"absent"} /\ LifeOf(t)' \in {"embryo", "ready"}
    BY <2>1, <2>2, <2>3 DEF LifeOf, ready, embryo, Fresh
  <2>5. Lifecycle!Create(t)
    BY <2>2, <2>3, <2>4, OneLifeChanges, Zenon DEF Lifecycle!Create
  <2> QED BY <2>5, Zenon DEF LifeStep, Lifecycle!Next
<1>2. CASE start_thread_control_block(c, t)
  <2> DEFINE g == [hs[t] EXCEPT !.state = "Ready"]
  <2>1. /\ t \in threads /\ hs[t].state = "Embryo" /\ hs' = [hs EXCEPT ![t] = g]
        /\ UNCHANGED <<threads, current>>
    BY <1>2, Zenon DEF start_thread_control_block
  <2>2. g.state = "Ready"
    BY <1>0 DEF TypeOK, HandshakeOf
  <2> HIDE DEF g
  <2>3. hs'[t] = g /\ \A u \in Worker : u # t => LifeOf(u)' = LifeOf(u)
    BY <1>0, <2>1, OthersLive, Zenon
  <2>4. LifeOf(t) \in {"embryo"} /\ LifeOf(t)' \in {"ready"}
    BY <2>1, <2>2, <2>3, Zenon DEF LifeOf
  <2>5. Lifecycle!Start(t)
    BY <2>1, <2>3, <2>4, OneLifeChanges, Zenon DEF Lifecycle!Start
  <2> QED BY <2>5, Zenon DEF LifeStep, Lifecycle!Next
<1>3. CASE reap_region_thread(c, t)
  <2> DEFINE v == region_reap_verdict(hs[t])
  <2>1. v \in {"RefuseAndArm", "RefuseStanding", "FinishInPlace", "Reap"}
    BY Zenon DEF region_reap_verdict
  <2>2. t \in threads /\ current' = current
    BY <1>3, Zenon DEF reap_region_thread, coreVars
  <2>3. CASE v \in {"RefuseAndArm", "RefuseStanding"}
    <3>1. UNCHANGED <<threads, hs>>
      BY <1>3, <2>3, ZenonT(30) DEF reap_region_thread
    <3> QED BY <2>2, <3>1, QuietLives, Zenon
  <2>4. CASE v \in {"FinishInPlace", "Reap"}
    <3>1. threads' = threads \ {t} /\ hs' = [hs EXCEPT ![t] = embryo]
      BY <1>3, <2>4, ZenonT(30) DEF reap_region_thread, Remove
    <3>2. hs[t].state \notin {"Ready", "Running"} /\ ~hs[t].on_cpu
      BY <2>4, Zenon DEF region_reap_verdict
    <3>3. ~hs[t].wake_pending /\ \A d \in Core : current[d] # t
      BY <1>0, <3>2, Zenon DEF DeliveryInv, FlagsOk, StandingInv, Stands
    <3>4. \A u \in Worker : u # t => LifeOf(u)' = LifeOf(u)
      BY <1>0, <3>1, OthersLive, ZenonT(30)
    <3>5. /\ LifeOf(t) \in {"embryo", "blocked", "departed"} /\ LifeOf(t)' \in {"absent"}
      BY <2>2, <3>1, <3>2, <3>3, Zenon DEF LifeOf
    <3>6. Lifecycle!Remove(t)
      BY <2>2, <3>3, <3>4, <3>5, OneLifeChanges, HeldIsCurrent, Zenon DEF Lifecycle!Remove
    <3> QED BY <3>6, Zenon DEF LifeStep, Lifecycle!Next
  <2> QED BY <2>1, <2>3, <2>4, Zenon
<1> QED BY <1>1, <1>2, <1>3, Zenon

\* finish_switch removes a finished thread, and a deferred wake it completes was
\* a wake already.
LEMMA FinishLives ==
  ASSUME IInv, NEW c \in Core, FinishSwitch(c)
  PROVE  LifeStep
<1>0. TypeOK /\ DeliveryInv /\ StandingInv /\ IdleInv
  BY Zenon DEF IInv
<1>p. PICK p \in threads : p = switched_from[c]
  BY LeftCore, Zenon
<1>1. /\ p \in Thread /\ current' = current /\ \A d \in Core : current[d] # p
      /\ hs[p] \in HandshakeOf({"ipc"})
  BY <1>0, <1>p, LeftCore DEF TypeOK
<1>2. CASE SwitchOutVerdict(hs[p]) = "Reap"
  <2>1. threads' = threads \ {p} /\ hs' = [hs EXCEPT ![p] = embryo]
    BY <1>2, <1>p, Zenon DEF FinishSwitch, Remove
  <2>2. hs[p].state = "Finished" /\ ~hs[p].wake_pending
    BY <1>0, <1>1, <1>2, Zenon DEF SwitchOutVerdict, DeliveryInv, FlagsOk
  <2>3. p \in Worker
    BY <1>0, <1>1, <2>2, Zenon DEF IdleInv, Worker, IdleThread
  <2>4. \A u \in Worker : u # p => LifeOf(u)' = LifeOf(u)
    BY <1>0, <1>1, <2>1, OthersLive, ZenonT(30)
  <2>5. LifeOf(p) \in {"embryo", "blocked", "departed"} /\ LifeOf(p)' \in {"absent"}
    BY <2>1, <2>2, Zenon DEF LifeOf
  <2>6. Lifecycle!Remove(p)
    BY <1>1, <2>3, <2>4, <2>5, OneLifeChanges, HeldIsCurrent, Zenon DEF Lifecycle!Remove
  <2> QED BY <2>3, <2>6, Zenon DEF LifeStep, Lifecycle!Next
<1>3. CASE SwitchOutVerdict(hs[p]) # "Reap"
  <2>1. threads' = threads /\ hs' = [hs EXCEPT ![p] = finish_switch(hs[p])]
    BY <1>3, <1>p, Zenon DEF FinishSwitch
  <2>2. hs'[p] = finish_switch(hs[p]) /\ \A u \in Worker : u # p => LifeOf(u)' = LifeOf(u)
    BY <1>0, <1>1, <2>1, OthersLive, Zenon
  <2>3. LifeOf(p)' = LifeOf(p)
    <3>1. CASE hs[p].wake_pending
      <4>1. hs[p].state = "Blocked" /\ finish_switch(hs[p]).state = "Ready"
        BY <1>0, <1>1, <1>3, <3>1, Zenon DEF DeliveryInv, FlagsOk, finish_switch, SwitchOutVerdict, HandshakeOf
      <4> QED BY <2>1, <2>2, <3>1, <4>1, Zenon DEF LifeOf
    <3>2. CASE ~hs[p].wake_pending
      <4>1. /\ finish_switch(hs[p]).state = hs[p].state
            /\ finish_switch(hs[p]).wake_pending = hs[p].wake_pending
        BY <1>1, <1>3, <3>2, Zenon DEF finish_switch, SwitchOutVerdict, HandshakeOf
      <4> QED BY <2>1, <2>2, <4>1, SameLife, Zenon
    <3> QED BY <3>1, <3>2, Zenon
  <2> QED BY <1>1, <2>2, <2>3, NoLifeChanges, Zenon DEF LifeStep
<1> QED BY <1>2, <1>3, Zenon

\* Where schedule() leaves the outgoing worker p: a running one is ready again
\* when it is requeued and departed when it was killed; any other stays.
LEMMA OutgoingLife ==
  ASSUME IInv, NEW c \in Core, NEW p \in Worker, p = current[c],
         threads' = threads, hs'[p] = Outgoing(c)
  PROVE  /\ LifeOf(p) # "running" => LifeOf(p)' = LifeOf(p)
         /\ LifeOf(p) = "running" => LifeOf(p)' \in {"ready", "departed"}
         /\ LifeOf(p) = "running" /\ AfterKillCheck(p).state # "Running"
              => LifeOf(p)' = "departed"
<1>0. TypeOK /\ DeliveryInv /\ StandingInv
  BY Zenon DEF IInv
<1>1. /\ p \in Thread /\ p \in threads /\ hs[p].state \notin {"Ready", "Embryo"}
      /\ hs[p] \in HandshakeOf({"ipc"}) /\ p # Idle[c]
  BY <1>0, ThreadAssumption, Zenon DEF TypeOK, StandingInv, Worker, IdleThread
<1>2. CASE hs[p].state # "Running"
  <2>1. hs'[p] = hs[p]
    BY <1>2, Zenon DEF Outgoing, Requeues, requeued, AfterKillCheck
  <2> QED BY <1>1, <1>2, <2>1, Zenon DEF LifeOf
<1>3. CASE hs[p].state = "Running"
  <2>1. ~hs[p].wake_pending /\ hs'[p].wake_pending = hs[p].wake_pending
    BY <1>0, <1>1, <1>3, OutgoingFields DEF DeliveryInv, FlagsOk
  <2>2. CASE p \in killed
    <3>1. hs'[p].state = "Finished"
      BY <1>1, <1>3, <2>2, Zenon DEF Outgoing, Requeues, requeued, AfterKillCheck, HandshakeOf
    <3> QED BY <1>1, <1>3, <2>1, <3>1, Zenon DEF LifeOf
  <2>3. CASE p \notin killed
    <3>1. AfterKillCheck(p) = hs[p] /\ hs'[p].state = "Ready"
      BY <1>1, <1>3, <2>3, Zenon
      DEF Outgoing, Requeues, requeued, AfterKillCheck, preempt, HandshakeOf
    <3> QED BY <1>1, <1>3, <2>1, <3>1, Zenon DEF LifeOf
  <2> QED BY <2>2, <2>3, Zenon
<1> QED BY <1>2, <1>3, Zenon

\* A switch is a dispatch of a ready thread that no core holds, or of nobody.
LEMMA SwitchLives ==
  ASSUME IInv, NEW c \in Core, NEW next \in threads, NEW q \in Seq(Thread),
         Commits(c, next, q)
  PROVE  LifeStep
<1>0. TypeOK /\ StandingInv /\ IdleInv
  BY Zenon DEF IInv
<1>p. PICK p \in Thread : p = current[c]
  BY <1>0, Zenon DEF TypeOK
<1> DEFINE to == IF next \in Worker THEN next ELSE NoTid
<1>1. /\ hs' = [hs EXCEPT ![p] = Outgoing(c), ![next] = switch_in(hs[next])]
      /\ current' = [current EXCEPT ![c] = next] /\ threads' = threads
  BY <1>p, Zenon DEF Commits, SwitchTo, Requeues, Outgoing
<1>2. /\ ~hs[next].on_cpu /\ next \in Thread
      /\ \/ next \in Worker /\ hs[next].state = "Ready"
         \/ next = Idle[c] /\ AfterKillCheck(p).state # "Running"
  BY <1>0, <1>p, Zenon DEF Commits, TypeOK
<1>3. /\ \A d \in Core : current[d] # next
      /\ p # next /\ (p \notin Worker => p = Idle[c])
  BY <1>0, <1>2, <1>p DEF StandingInv, Stands, IdleInv, Worker, IdleThread
<1>4. /\ hs'[p] = Outgoing(c) /\ hs'[next] = switch_in(hs[next])
      /\ \A u \in Worker : u # p /\ u # next => hs'[u] = hs[u]
  BY <1>0, <1>1, <1>2, <1>3, ZenonT(30) DEF TypeOK, Worker
<1>5. NoTid \notin Worker /\ Idle[c] \notin Worker
  BY ThreadAssumption, Zenon DEF Worker, IdleThread
<1>6. next \in Worker => /\ LifeMap[next] = "ready" /\ ~Lifecycle!Held(next)
                         /\ LifeOf(next)' = "running"
  <2>1. switch_in(hs[next]).state = "Running"
    BY <1>0, <1>2 DEF switch_in, TypeOK, HandshakeOf
  <2>2. next \in Worker => LifeOf(next) = "ready" /\ LifeOf(next)' = "running"
    BY <1>1, <1>2, <1>4, <1>5, <2>1, Zenon DEF LifeOf
  <2> QED BY <1>3, <2>2, HeldIsCurrent, Zenon DEF LifeMap
<1>7. HolderMap[c] = (IF p \in Worker THEN p ELSE NoTid) /\ HolderMap[c] # to
  <2>1. HolderMap[c] = IF p \in Worker THEN p ELSE NoTid
    BY <1>p, Zenon DEF HolderMap, HolderOf
  <2> QED BY <1>2, <1>3, <1>5, <2>1, Zenon
<1>8. HolderMap' = [HolderMap EXCEPT ![c] = to]
  <2>1. current'[c] = next /\ \A d \in Core : d # c => current'[d] = current[d]
    BY <1>0, <1>1, Zenon DEF TypeOK
  <2>2. HolderOf(c)' = to /\ \A d \in Core : d # c => HolderOf(d)' = HolderOf(d)
    BY <2>1, Zenon DEF HolderOf
  <2> QED BY <2>2, ZenonT(30) DEF HolderMap
<1>9. \A u \in Worker : u # p /\ u # next => LifeOf(u)' = LifeOf(u)
  BY <1>1, <1>4, SameLife, ZenonT(30)
<1>10. PICK s : /\ s \in IF HolderMap[c] = NoTid THEN {"ready"} ELSE Lifecycle!LeftIn(c, to)
                /\ p \in Worker => LifeOf(p)' = s
  <2>1. CASE p \notin Worker
    BY <1>7, <2>1, Zenon
  <2>2. CASE p \in Worker
    <3>1. HolderMap[c] = p /\ HolderMap[c] # NoTid /\ LifeMap[p] = LifeOf(p)
      BY <1>5, <1>7, <2>2, Zenon DEF LifeMap
    <3>2. to = NoTid => AfterKillCheck(p).state # "Running"
      BY <1>2, <1>5, Zenon
    <3> HIDE DEF to
    <3>3. LifeOf(p)' \in Lifecycle!LeftIn(c, to)
      BY <1>1, <1>4, <1>p, <2>2, <3>1, <3>2, OutgoingLife, ZenonT(30) DEF Lifecycle!LeftIn
    <3> QED BY <3>1, <3>3, Zenon
  <2> QED BY <2>1, <2>2, Zenon
<1>11. LifeMap' = [u \in Worker |-> IF u = to THEN "running"
                                   ELSE IF u = HolderMap[c] THEN s ELSE LifeMap[u]]
  <2>1. ASSUME NEW u \in Worker
        PROVE  LifeOf(u)' = IF u = to THEN "running"
                            ELSE IF u = HolderMap[c] THEN s ELSE LifeMap[u]
    <3>1. CASE u = next
      BY <1>6, <3>1, Zenon
    <3>2. CASE u = p
      BY <1>3, <1>5, <1>7, <1>10, <3>2, Zenon
    <3>3. CASE u # next /\ u # p
      <4>1. u # to /\ u # HolderMap[c]
        BY <1>5, <1>7, <3>3, Zenon
      <4> QED BY <1>9, <3>3, <4>1, Zenon DEF LifeMap
    <3> QED BY <3>1, <3>2, <3>3, Zenon
  <2> QED BY <2>1, Zenon DEF LifeMap
<1>12. to = NoTid \/ (to \in Worker /\ LifeMap[to] = "ready" /\ ~Lifecycle!Held(to))
  BY <1>6, Zenon
<1> HIDE DEF to
<1>13. HolderMap'[c] = to
  BY <1>8, Zenon DEF HolderMap
<1>14. Lifecycle!Dispatch(c)
  BY <1>7, <1>8, <1>10, <1>11, <1>12, <1>13, Zenon DEF Lifecycle!Dispatch
<1> QED BY <1>14, Zenon DEF LifeStep, Lifecycle!Next

\* The two callers of the decision.
LEMMA ScheduleLives ==
  ASSUME IInv, NEW c \in Core, schedule(c) \/ preempt_if_needed(c)
  PROVE  LifeStep
<1>1. ASSUME decide(c), phase[c] \in {"run", "tail"}, inbox' = inbox PROVE LifeStep
  <2>1. CASE KeepCurrent(c)
    BY <2>1, QuietLives, Zenon DEF KeepCurrent, threadVars
  <2>2. CASE \E next \in threads, q \in Seq(Thread) : Commits(c, next, q)
    BY <2>2, SwitchLives, Zenon
  <2> QED BY <1>1, <2>1, <2>2, DecideCommits, Zenon
<1>2. CASE schedule(c)
  BY <1>1, <1>2, Zenon DEF schedule
<1>3. CASE preempt_if_needed(c) /\ need_resched[c]
  BY <1>1, <1>3, Zenon DEF preempt_if_needed
<1>4. CASE preempt_if_needed(c) /\ ~need_resched[c]
  BY <1>4, QuietLives, Zenon DEF preempt_if_needed, threadVars
<1> QED BY <1>2, <1>3, <1>4, Zenon

------------------------------------------------------------------------------
\* Every step of the scheduler is a step of the lives or changes none of them.
LEMMA NextLifecycle == IInv /\ [Next]_vars => [Lifecycle!Next]_<<LifeMap, HolderMap>>
<1> SUFFICES ASSUME IInv, [Next]_vars PROVE LifeStep
  BY Zenon DEF LifeStep
<1>1. CASE UNCHANGED vars
  BY <1>1, QuietLives, Zenon DEF vars, threadVars, coreVars
<1>2. ASSUME NEW c \in Core, CoreStep(c) PROVE LifeStep
  <2>1. CASE \/ send_reschedule(c) \/ switch_to(c) \/ on_tick(c)
             \/ irq_send_reschedule(c) \/ reschedule_interrupt(c)
             \/ \E v \in Core : try_initiate_steal(c, v)
    BY <2>1, QuietLives, ZenonT(30)
    DEF send_reschedule, switch_to, on_tick, irq_send_reschedule, reschedule_interrupt,
        try_initiate_steal, threadVars
  <2> QED BY <1>2, <2>1, CurrentLives, ScheduleLives, FinishLives, Zenon DEF CoreStep
<1>3. ASSUME NEW c \in Core, NEW t \in Worker, ThreadStep(c, t) PROVE LifeStep
  <2>1. CASE kill_thread(c, t)
    BY <2>1, QuietLives, Zenon DEF kill_thread, coreVars
  <2> QED BY <1>3, <2>1, TableLives, WakeLives, Zenon DEF ThreadStep
<1> QED BY <1>1, <1>2, <1>3, Zenon DEF Next

\* Whatever the number of cores and threads, the scheduler's run queues,
\* inboxes, SGIs, deferred wakes and reaps implement the life of a thread:
\* dispatched only when ready and held by no core, woken once, removed only
\* when no core holds it (schedule, finish_switch, reap_region_objects).
THEOREM LifecycleImplemented == Spec => ImplementsLifecycle
<1>1. Spec => []IInv
  BY Invariant, Zenon
<1> QED BY <1>1, InitLifecycle, NextLifecycle, PTL
        DEF Spec, ImplementsLifecycle, Lifecycle!Spec

------------------------------------------------------------------------------
(* Every placement on another core is followed by its SGI.                  *)

\* A thread that owes an SGI and is in the table, Ready or Running.
Runnable(t) == t \in threads /\ hs[t].state \in {"Ready", "Running"}

\* No step of the running code, of schedule() or of a switch takes a thread that
\* owes an SGI off the run queues for good: it cannot park or depart before it has
\* sent it, and a kill finds it only where interrupts are enabled.
LEMMA OwerStaysOnCore ==
  ASSUME IInv, OwingInv, NEW c \in Core, CoreStep(c),
         NEW t \in Thread, owes[t] # NoCore
  PROVE  Runnable(t)'
<1> USE DEF Runnable
<1>0. TypeOK /\ QueueInv /\ LinkedOnce /\ IdleInv /\ StandingInv
  BY Zenon DEF IInv
<1>1. hs[t] \in HandshakeOf({"ipc"}) /\ Runnable(t)
  BY <1>0, Zenon DEF TypeOK, OwingInv
<1>2. CASE Block(c) \/ Unblock(c) \/ depart(c)
  <2>1. PICK g : hs' = [hs EXCEPT ![current[c]] = g]
    BY <1>2, Zenon DEF Block, Unblock, depart
  <2>2. threads' = threads
    BY <1>2, Zenon DEF Block, Unblock, depart
  <2>3. CASE current[c] # t
    BY <1>0, <1>1, <2>1, <2>2, <2>3, Zenon DEF TypeOK
  <2>4. CASE current[c] = t
    <3>1. Unblock(c)
      BY <1>2, <2>4, Zenon DEF Block, depart, RunsWorker
    <3>2. hs'[t] = take_aborted(hs[t])
      BY <1>0, <2>4, <3>1, Zenon DEF Unblock, TypeOK
    <3>3. take_aborted(hs[t]).state = hs[t].state
      BY <1>1, Zenon DEF take_aborted, HandshakeOf
    <3> QED BY <1>1, <2>2, <3>2, <3>3, Zenon
  <2> QED BY <2>3, <2>4, Zenon
<1>3. ASSUME decide(c), current[c] = t => t \notin killed PROVE Runnable(t)'
  <2>1. CASE KeepCurrent(c)
    BY <1>1, <2>1, Zenon DEF KeepCurrent, threadVars
  <2>2. ASSUME NEW n, NEW q, SwitchTo(c, n, q), hs[n] \in HandshakeOf({"ipc"})
        PROVE  Runnable(t)'
    <3>1. hs' = [hs EXCEPT ![current[c]] = Outgoing(c), ![n] = switch_in(hs[n])]
          /\ threads' = threads
      BY <2>2, Zenon DEF SwitchTo, Outgoing, Requeues
    <3>2. current[c] = t => Outgoing(c).state \in {"Ready", hs[t].state}
      BY <1>1, <1>3, Zenon DEF Outgoing, Requeues, requeued, AfterKillCheck, preempt, HandshakeOf
    <3>3. switch_in(hs[n]).state = "Running"
      BY <2>2, Zenon DEF switch_in, HandshakeOf
    <3> QED BY <1>0, <1>1, <3>1, <3>2, <3>3, Zenon DEF TypeOK
  <2>3. CASE runq[c] # <<>>
    <3>1. runq[c] \in Seq(Thread) /\ IsInjective(runq[c])
      BY <1>0, Zenon DEF TypeOK, LinkedOnce
    <3>2. Head(runq[c]) \in Thread
      BY <2>3, <3>1
    <3>3. hs[Head(runq[c])] \in HandshakeOf({"ipc"})
      BY <1>0, <3>2, Zenon DEF TypeOK
    <3> QED BY <1>3, <2>1, <2>2, <2>3, <3>3, Zenon DEF decide
  <2>4. CASE runq[c] = <<>>
    <3>1. hs[Idle[c]] \in HandshakeOf({"ipc"})
      BY <1>0, ThreadAssumption, Zenon DEF TypeOK
    <3> QED BY <1>3, <2>1, <2>2, <2>4, <3>1, Zenon DEF decide
  <2> QED BY <2>3, <2>4, Zenon
<1>4. CASE schedule(c)
  BY <1>3, <1>4, Zenon DEF schedule
<1>5. CASE preempt_if_needed(c)
  <2>1. current[c] = t => t \notin killed
    BY <1>0, <1>5, Zenon DEF preempt_if_needed, OwingInv, TypeOK
  <2> QED BY <1>1, <1>3, <1>5, <2>1, Zenon DEF preempt_if_needed, threadVars
<1>6. CASE FinishSwitch(c)
  <2> DEFINE p == switched_from[c]
  <2>1. CASE SwitchOutVerdict(hs[p]) = "Reap"
    <3>1. p # t
      BY <1>1, <2>1, Zenon DEF SwitchOutVerdict
    <3> QED BY <1>0, <1>1, <1>6, <2>1, <3>1, Zenon DEF FinishSwitch, Remove, TypeOK
  <2>2. CASE SwitchOutVerdict(hs[p]) # "Reap"
    <3>1. hs' = [hs EXCEPT ![p] = finish_switch(hs[p])] /\ threads' = threads
      BY <1>6, <2>2, Zenon DEF FinishSwitch
    <3>2. p = t => finish_switch(hs[p]).state \in {"Ready", hs[t].state}
      BY <1>1, Zenon DEF finish_switch, SwitchOutVerdict, HandshakeOf
    <3> QED BY <1>0, <1>1, <3>1, <3>2, Zenon DEF TypeOK
  <2> QED BY <2>1, <2>2, Zenon
<1>7. CASE \/ send_reschedule(c) \/ switch_to(c) \/ on_tick(c) \/ irq_send_reschedule(c)
           \/ reschedule_interrupt(c) \/ \E v \in Core : try_initiate_steal(c, v)
  BY <1>1, <1>7, ZenonT(30) DEF send_reschedule, switch_to, on_tick, irq_send_reschedule,
              reschedule_interrupt, try_initiate_steal, threadVars
<1> QED BY <1>2, <1>4, <1>5, <1>6, <1>7, Zenon DEF CoreStep

\* Nor does what one thread does to another: only a thread that is neither Ready
\* nor Running is reaped, and a wake makes a thread Ready.
LEMMA OwerStaysAlive ==
  ASSUME IInv, OwingInv, NEW c \in Core, NEW u \in Worker, ThreadStep(c, u),
         NEW t \in Thread, owes[t] # NoCore
  PROVE  Runnable(t)'
<1> USE DEF Runnable
<1>0. TypeOK
  BY Zenon DEF IInv
<1>1. hs[t] \in HandshakeOf({"ipc"}) /\ Runnable(t) /\ u \in Thread
  BY <1>0, Zenon DEF TypeOK, OwingInv, Worker
<1>2. CASE \/ spawn(c, u) \/ create_thread_control_block(c, u)
           \/ start_thread_control_block(c, u) \/ Deliver(c, u) \/ irq_notify(c, u)
  <2>1. u # t /\ threads \subseteq threads' /\ \E g : hs' = [hs EXCEPT ![u] = g]
    BY <1>1, <1>2, Zenon DEF spawn, create_thread_control_block, start_thread_control_block,
       Deliver, irq_notify, wake
  <2> QED BY <1>0, <1>1, <2>1, Zenon DEF TypeOK
<1>3. CASE WakeUndelivered(c, u)
  <2>1. hs' = [hs EXCEPT ![u] = try_wake(hs[u])] /\ threads' = threads
    BY <1>3, Zenon DEF WakeUndelivered, wake
  <2>2. u = t => try_wake(hs[u]) = hs[t]
    BY <1>1, Zenon DEF try_wake, WakeVerdict
  <2> QED BY <1>0, <1>1, <2>1, <2>2, Zenon DEF TypeOK
<1>4. CASE kill_thread(c, u)
  BY <1>1, <1>4, Zenon DEF kill_thread
<1>5. CASE reap_region_thread(c, u)
  <2>1. (threads' = threads /\ hs' = hs) \/ (Remove(u) /\ u # t)
    BY <1>1, <1>5, ZenonT(30) DEF reap_region_thread, region_reap_verdict
  <2> QED BY <1>0, <1>1, <2>1, Zenon DEF Remove, TypeOK
<1> QED BY <1>2, <1>3, <1>4, <1>5, Zenon DEF ThreadStep

\* Only the running thread of a core that owes nothing starts to owe: the thread
\* that spawns or starts another, or the idle thread that robs a core.
LEMMA NewOwer ==
  ASSUME IInv, NEW c \in Core,
         CoreStep(c) \/ \E u \in Worker : ThreadStep(c, u),
         NEW t \in Thread, owes[t] = NoCore, owes'[t] # NoCore
  PROVE  t = current[c] /\ phase[c] = "run" /\ phase' = phase /\ Runnable(t)'
<1>0. TypeOK /\ StandingInv /\ IdleInv
  BY Zenon DEF IInv
<1>1. ASSUME NEW u \in Worker, spawn(c, u) \/ start_thread_control_block(c, u)
      PROVE  t = current[c] /\ phase[c] = "run" /\ phase' = phase /\ Runnable(t)'
  <2>1. \E x : owes' = [owes EXCEPT ![current[c]] = x]
    BY <1>1, Zenon DEF spawn, start_thread_control_block
  <2>2. t = current[c]
    BY <1>0, <2>1, Zenon DEF TypeOK
  <2>3. /\ phase[c] = "run" /\ phase' = phase /\ hs[t].state = "Running" /\ t \in threads
        /\ u # t /\ threads \subseteq threads' /\ \E g : hs' = [hs EXCEPT ![u] = g]
    BY <1>0, <1>1, <2>2, ZenonT(30)
    DEF StandingInv, spawn, start_thread_control_block, RunsWorker
  <2> QED BY <1>0, <2>2, <2>3, Zenon DEF Runnable, TypeOK
<1>2. ASSUME NEW v \in Core, try_initiate_steal(c, v)
      PROVE  t = current[c] /\ phase[c] = "run" /\ phase' = phase /\ Runnable(t)'
  <2>1. t = Idle[c]
    BY <1>0, <1>2, Zenon DEF try_initiate_steal, TypeOK
  <2> QED BY <1>0, <1>2, <2>1, Zenon DEF try_initiate_steal, IdleInv, Runnable
<1>3. ASSUME send_reschedule(c) PROVE FALSE
  BY <1>0, <1>3, Zenon DEF send_reschedule, TypeOK
<1>4. \/ owes' = owes \/ send_reschedule(c) \/ \E v \in Core : try_initiate_steal(c, v)
      \/ \E u \in Worker : spawn(c, u) \/ start_thread_control_block(c, u)
  <2>1. CASE CoreStep(c)
    <3>1. CASE schedule(c) \/ preempt_if_needed(c)
      BY <3>1, Zenon DEF schedule, preempt_if_needed, decide, KeepCurrent, SwitchTo, threadVars
    <3>2. CASE Block(c) \/ Unblock(c) \/ depart(c) \/ switch_to(c) \/ FinishSwitch(c)
      BY <3>2, Zenon DEF Block, Unblock, depart, switch_to, FinishSwitch
    <3>3. CASE on_tick(c) \/ irq_send_reschedule(c) \/ reschedule_interrupt(c)
      BY <3>3, Zenon DEF on_tick, irq_send_reschedule, reschedule_interrupt, threadVars
    <3> QED BY <2>1, <3>1, <3>2, <3>3, Zenon DEF CoreStep
  <2>2. CASE \E u \in Worker : ThreadStep(c, u)
    BY <2>2, Zenon DEF ThreadStep, create_thread_control_block, Deliver, WakeUndelivered,
       kill_thread, reap_region_thread, irq_notify
  <2> QED BY <2>1, <2>2, Zenon
<1> QED BY <1>1, <1>2, <1>3, <1>4, Zenon

\* A step of core c leaves the phase, the thread and the debt of every other core
\* alone, and its own interrupt path starts with a user thread that owes nothing.
LEMMA OtherCores ==
  ASSUME IInv, NEW c \in Core,
         CoreStep(c) \/ \E u \in Worker : ThreadStep(c, u)
  PROVE  \A d \in Core : d # c =>
             phase'[d] = phase[d] /\ current'[d] = current[d] /\ irq_owes'[d] = irq_owes[d]
<1>0. TypeOK
  BY Zenon DEF IInv
<1>1. CASE schedule(c) \/ preempt_if_needed(c)
  BY <1>0, <1>1, ZenonT(30) DEF TypeOK, schedule, preempt_if_needed, decide, KeepCurrent, SwitchTo
<1>2. CASE \/ Block(c) \/ Unblock(c) \/ depart(c) \/ switch_to(c) \/ FinishSwitch(c)
           \/ send_reschedule(c) \/ \E v \in Core : try_initiate_steal(c, v)
  BY <1>0, <1>2, ZenonT(30) DEF TypeOK, Block, Unblock, depart, switch_to, FinishSwitch,
     send_reschedule, try_initiate_steal, coreVars
<1>3. CASE on_tick(c) \/ irq_send_reschedule(c) \/ reschedule_interrupt(c)
  BY <1>0, <1>3, ZenonT(30) DEF TypeOK, on_tick, irq_send_reschedule, reschedule_interrupt
<1>4. ASSUME NEW u \in Worker, ThreadStep(c, u)
      PROVE  \A d \in Core : d # c =>
             phase'[d] = phase[d] /\ current'[d] = current[d] /\ irq_owes'[d] = irq_owes[d]
  <2>1. CASE irq_notify(c, u)
    <3>1. /\ current' = current /\ \E x : phase' = [phase EXCEPT ![c] = x]
          /\ \E x : irq_owes' = irq_owes \/ irq_owes' = [irq_owes EXCEPT ![c] = x]
      BY <2>1, ZenonT(30) DEF irq_notify
    <3> QED BY <1>0, <3>1, Zenon DEF TypeOK
  <2>2. CASE \/ spawn(c, u) \/ start_thread_control_block(c, u)
             \/ create_thread_control_block(c, u) \/ Deliver(c, u) \/ WakeUndelivered(c, u)
             \/ kill_thread(c, u) \/ reap_region_thread(c, u)
    BY <2>2, Zenon DEF spawn, start_thread_control_block, create_thread_control_block, Deliver,
       WakeUndelivered, kill_thread, reap_region_thread, coreVars
  <2> QED BY <1>4, <2>1, <2>2, Zenon DEF ThreadStep
<1> QED BY <1>1, <1>2, <1>3, <1>4, Zenon DEF CoreStep

\* An interrupt is taken only where the thread it interrupts owes nothing or is a
\* kernel thread; a handler that owes an SGI is at its send; no core robs itself.
LEMMA OwnCore ==
  ASSUME IInv, OwingInv, NEW c \in Core,
         CoreStep(c) \/ \E u \in Worker : ThreadStep(c, u)
  PROVE  /\ phase'[c] \in {"poke", "tail"} =>
              /\ current'[c] = current[c] /\ owes' = owes
              /\ current[c] \in UserThread => owes[current[c]] = NoCore
         /\ irq_owes'[c] # NoCore => phase'[c] = "poke"
         /\ \A d \in Core : steal_request'[d] # d
<1>0. /\ TypeOK /\ (irq_owes[c] # NoCore => phase[c] = "poke")
      /\ \A d \in Core : steal_request[d] # d
      /\ phase[c] \in {"poke", "tail"} /\ current[c] \in UserThread => owes[current[c]] = NoCore
  BY Zenon DEF IInv, OwingInv
<1> DEFINE Aside == /\ phase[c] # "poke" /\ phase'[c] \notin {"poke", "tail"}
                    /\ irq_owes' = irq_owes /\ steal_request' = steal_request
<1>1. CASE Aside
  BY <1>0, <1>1, Zenon
<1>2. ASSUME schedule(c) \/ preempt_if_needed(c) PROVE Aside
  BY <1>0, <1>2, ZenonT(30) DEF TypeOK, schedule, preempt_if_needed, decide, KeepCurrent, SwitchTo
<1>3. ASSUME Block(c) \/ Unblock(c) \/ depart(c) \/ send_reschedule(c) PROVE Aside
  BY <1>0, <1>3, ZenonT(30) DEF TypeOK, Block, Unblock, depart, send_reschedule, RunsWorker,
     coreVars
<1>4. ASSUME switch_to(c) \/ FinishSwitch(c) PROVE Aside
  BY <1>0, <1>4, ZenonT(30) DEF TypeOK, switch_to, FinishSwitch
<1>5. ASSUME NEW u \in Worker,
             \/ spawn(c, u) \/ start_thread_control_block(c, u)
             \/ create_thread_control_block(c, u) \/ Deliver(c, u) \/ WakeUndelivered(c, u)
             \/ kill_thread(c, u) \/ reap_region_thread(c, u)
      PROVE  Aside
  BY <1>0, <1>5, ZenonT(30) DEF TypeOK, spawn, start_thread_control_block,
     create_thread_control_block, Deliver, WakeUndelivered, kill_thread, reap_region_thread,
     RunsWorker, coreVars
<1>6. CASE \E v \in Core : try_initiate_steal(c, v)
  <2>1. PICK v \in Core : try_initiate_steal(c, v)
    BY <1>6, Zenon
  <2>2. \A d \in Core : steal_request'[d] # d
    BY <1>0, <2>1, ZenonT(30) DEF TypeOK, try_initiate_steal
  <2> QED BY <1>0, <2>1, <2>2, Zenon DEF try_initiate_steal
<1>7. CASE on_tick(c) \/ irq_send_reschedule(c)
  BY <1>0, <1>7, ZenonT(30) DEF TypeOK, on_tick, irq_send_reschedule, Interruptible, threadVars
<1>8. CASE reschedule_interrupt(c)
  <2>1. /\ steal_request' = [steal_request EXCEPT ![c] = NoCore] /\ irq_owes' = irq_owes
        /\ phase' = [phase EXCEPT ![c] = "tail"] /\ Interruptible(c)
        /\ current' = current /\ owes' = owes
    BY <1>8, Zenon DEF reschedule_interrupt, threadVars
  <2>2. \A d \in Core : steal_request'[d] # d
    BY <1>0, <2>1, CoreAssumption, Zenon DEF TypeOK
  <2> QED BY <1>0, <2>1, <2>2, Zenon DEF Interruptible
<1>9. ASSUME NEW u \in Worker, irq_notify(c, u)
      PROVE  /\ phase'[c] \in {"poke", "tail"} =>
                  /\ current'[c] = current[c] /\ owes' = owes
                  /\ current[c] \in UserThread => owes[current[c]] = NoCore
             /\ irq_owes'[c] # NoCore => phase'[c] = "poke"
             /\ \A d \in Core : steal_request'[d] # d
  <2>1. /\ current' = current /\ owes' = owes /\ steal_request' = steal_request
        /\ Interruptible(c)
    BY <1>9, Zenon DEF irq_notify
  <2>2. irq_owes'[c] # NoCore => phase'[c] = "poke"
    BY <1>0, <1>9, ZenonT(30) DEF irq_notify, Interruptible, place_on_owes, TypeOK
  <2> QED BY <1>0, <2>1, <2>2, Zenon DEF Interruptible
<1> QED BY <1>1, <1>2, <1>3, <1>4, <1>5, <1>6, <1>7, <1>8, <1>9, Zenon DEF CoreStep, ThreadStep

\* Whatever a core does, whoever owes an SGI can still send it.
LEMMA NextOwing == IInv /\ OwingInv /\ [Next]_vars => OwingInv'
<1> SUFFICES ASSUME IInv, OwingInv, [Next]_vars PROVE OwingInv'
  BY Zenon
<1>1. CASE UNCHANGED vars
  BY <1>1, Zenon DEF OwingInv, vars, threadVars, coreVars
<1>2. ASSUME NEW c \in Core, CoreStep(c) \/ \E u \in Worker : ThreadStep(c, u)
      PROVE  OwingInv'
  <2>0. TypeOK /\ OneCorePerThread
    BY Zenon DEF IInv
  <2>1. ASSUME NEW t \in Thread, owes'[t] # NoCore PROVE Runnable(t)'
    <3>1. CASE owes[t] # NoCore
      BY <1>2, <2>1, <3>1, OwerStaysOnCore, OwerStaysAlive, Zenon
    <3>2. CASE owes[t] = NoCore
      BY <1>2, <2>1, <3>2, NewOwer, Zenon
    <3> QED BY <3>1, <3>2, Zenon
  <2>2. ASSUME NEW d \in Core, d # c
        PROVE  /\ phase'[d] \in {"poke", "tail"} /\ current'[d] \in UserThread =>
                    owes'[current'[d]] = NoCore
               /\ irq_owes'[d] # NoCore => phase'[d] = "poke"
    <3>1. phase'[d] = phase[d] /\ current'[d] = current[d] /\ irq_owes'[d] = irq_owes[d]
      BY <1>2, <2>2, OtherCores, Zenon
    <3>2. current[d] \in Thread /\ current[d] # current[c]
      BY <2>0, <2>2, Zenon DEF TypeOK, OneCorePerThread, Stands
    <3>3. owes[current[d]] = NoCore => owes'[current[d]] = NoCore
      BY <1>2, <3>2, NewOwer, Zenon
    <3> QED BY <3>1, <3>3, Zenon DEF OwingInv
  <2>3. /\ phase'[c] \in {"poke", "tail"} /\ current'[c] \in UserThread =>
              owes'[current'[c]] = NoCore
        /\ irq_owes'[c] # NoCore => phase'[c] = "poke"
        /\ \A d \in Core : steal_request'[d] # d
    BY <1>2, OwnCore, Zenon
  <2> QED BY <2>1, <2>2, <2>3, Zenon DEF OwingInv, Runnable
<1> QED BY <1>1, <1>2, Zenon DEF Next


\* An SGI for core c is pending or owed.
Due(c) == sgi[c] \/ (\E t \in Thread : owes[t] = c) \/ \E d \in Core : irq_owes[d] = c

\* Core c has an SGI coming for what is in its inbox, and for the thief, if any, in
\* its steal slot.
Poked(c) ==
  /\ inbox[c] # <<>> => Due(c)
  /\ steal_request[c] # NoCore => sgi[c] \/ owes[Idle[steal_request[c]]] = c

AllPoked == \A c \in Core : Poked(c)

\* The steps that place a thread, send an SGI or serve one.
LEMMA PokeSteps ==
  ASSUME IInv, OwingInv, \A d \in Core : Poked(d), NEW c \in Core,
         \/ send_reschedule(c) \/ irq_send_reschedule(c) \/ reschedule_interrupt(c)
         \/ \E v \in Core : try_initiate_steal(c, v)
         \/ \E u \in Worker :
               spawn(c, u) \/ start_thread_control_block(c, u) \/ irq_notify(c, u)
  PROVE  \A d \in Core : Poked(d)'
<1>0. TypeOK /\ \A t \in Thread : owes[t] \in Core \cup {NoCore}
  BY Zenon DEF IInv, TypeOK
<1> SUFFICES ASSUME NEW d \in Core PROVE Poked(d)'
  BY Zenon
<1>1. Poked(d) /\ (steal_request[d] # NoCore => Idle[steal_request[d]] \in IdleThread)
      /\ \A e \in Core : Idle[e] \in Thread
  BY <1>0, ThreadAssumption, Zenon DEF TypeOK, IdleThread
<1>2. CASE \E u \in Worker : spawn(c, u) \/ start_thread_control_block(c, u)
  <2>1. PICK u \in Worker : spawn(c, u) \/ start_thread_control_block(c, u)
    BY <1>2, Zenon
  <2>2. PICK target \in Core : /\ place_on(c, target, u)
                               /\ owes' = [owes EXCEPT ![current[c]] = place_on_owes(c, target)]
    BY <2>1, Zenon DEF spawn, start_thread_control_block
  <2>3. /\ UNCHANGED <<steal_request, sgi, irq_owes>> /\ owes[current[c]] = NoCore
        /\ current[c] \in Worker /\ current[c] \in Thread
    BY <1>0, <2>1, Zenon DEF spawn, start_thread_control_block, RunsWorker, TypeOK
  <2>4. \A t \in Thread : owes[t] # NoCore => owes'[t] = owes[t]
    BY <1>0, <2>2, <2>3, Zenon DEF TypeOK
  <2>5. Due(d) => Due(d)'
    BY <2>3, <2>4, CoreAssumption, Zenon DEF Due
  <2>6. inbox'[d] # <<>> => inbox[d] # <<>> \/ (d = target /\ target # c)
    BY <1>0, <2>2, Zenon DEF place_on, TypeOK
  <2>7. target # c => owes'[current[c]] = target
    BY <1>0, <2>2, <2>3, Zenon DEF place_on_owes, TypeOK
  <2>8. inbox'[d] # <<>> => Due(d)'
    BY <1>1, <2>3, <2>5, <2>6, <2>7, Zenon DEF Due, Poked
  <2>9. steal_request[d] # NoCore => owes'[Idle[steal_request[d]]] = owes[Idle[steal_request[d]]]
    BY <1>0, <1>1, <2>2, <2>3, Zenon DEF Worker, IdleThread, TypeOK
  <2> QED BY <1>1, <2>3, <2>8, <2>9, Zenon DEF Poked
<1>3. CASE send_reschedule(c)
  <2>1. PICK t, x : t = current[c] /\ x = owes[t]
    BY Zenon
  <2>2. /\ t \in Thread /\ x \in Core /\ sgi' = [sgi EXCEPT ![x] = TRUE]
        /\ owes' = [owes EXCEPT ![t] = NoCore] /\ UNCHANGED <<inbox, steal_request, irq_owes>>
    BY <1>0, <1>3, <2>1, Zenon DEF send_reschedule, TypeOK
  <2>3. /\ sgi'[x] /\ (sgi[d] => sgi'[d]) /\ \A u \in Thread : u # t => owes'[u] = owes[u]
    BY <1>0, <2>2, Zenon DEF TypeOK
  <2>4. Due(d) => Due(d)'
    BY <2>1, <2>2, <2>3, Zenon DEF Due
  <2>5. steal_request[d] # NoCore /\ owes[Idle[steal_request[d]]] = d =>
           sgi'[d] \/ owes'[Idle[steal_request[d]]] = d
    BY <1>1, <2>1, <2>3, Zenon DEF IdleThread
  <2> QED BY <1>1, <2>2, <2>3, <2>4, <2>5, Zenon DEF Poked
<1>4. CASE irq_send_reschedule(c)
  <2>1. PICK x : x = irq_owes[c]
    BY Zenon
  <2>2. /\ sgi' = [sgi EXCEPT ![x] = TRUE] /\ irq_owes' = [irq_owes EXCEPT ![c] = NoCore]
        /\ UNCHANGED <<inbox, steal_request, owes>>
    BY <1>4, <2>1, Zenon DEF irq_send_reschedule, threadVars
  <2>3. /\ (x = d => sgi'[d]) /\ (sgi[d] => sgi'[d])
        /\ \A e \in Core : e # c => irq_owes'[e] = irq_owes[e]
    BY <1>0, <2>2, Zenon DEF TypeOK
  <2>4. Due(d) => Due(d)'
    BY <2>1, <2>2, <2>3, Zenon DEF Due
  <2> QED BY <1>1, <2>2, <2>3, <2>4, Zenon DEF Poked
<1>5. CASE reschedule_interrupt(c)
  <2>1. PICK r, q : r = steal_request[c] /\ q = runq[c] \o inbox[c]
    BY Zenon
  <2>2. /\ steal_request' = [steal_request EXCEPT ![c] = NoCore]
        /\ inbox' = IF r # NoCore /\ q # <<>>
                    THEN [[inbox EXCEPT ![c] = <<>>] EXCEPT ![r] = Append(@, Head(q))]
                    ELSE [inbox EXCEPT ![c] = <<>>]
        /\ sgi' = SgiAfterServe(c, IF r # NoCore /\ q # <<>> THEN r ELSE NoCore)
        /\ UNCHANGED <<owes, irq_owes>>
    BY <1>5, <2>1, ZenonT(30) DEF reschedule_interrupt, threadVars
  <2>3. r # c
    BY <2>1, Zenon DEF OwingInv
  <2>4. CASE d = c
    <3>1. inbox'[d] = <<>> /\ steal_request'[d] = NoCore
      BY <1>0, <2>2, <2>3, <2>4, Zenon DEF TypeOK
    <3> QED BY <3>1, Zenon DEF Poked
  <2>5. CASE d # c
    <3>1. /\ sgi'[d] <=> sgi[d] \/ d = (IF r # NoCore /\ q # <<>> THEN r ELSE NoCore)
          /\ steal_request'[d] = steal_request[d]
      BY <1>0, <2>2, <2>5, Zenon DEF SgiAfterServe, TypeOK
    <3>2. inbox'[d] # <<>> => inbox[d] # <<>> \/ sgi'[d]
      BY <1>0, <2>2, <2>5, <3>1, Zenon DEF TypeOK
    <3>3. Due(d) => Due(d)'
      BY <2>2, <3>1, Zenon DEF Due
    <3>4. inbox'[d] # <<>> => Due(d)'
      BY <1>1, <3>2, <3>3, Zenon DEF Due, Poked
    <3> QED BY <1>1, <2>2, <3>1, <3>4, Zenon DEF Poked
  <2> QED BY <2>4, <2>5, Zenon
<1>6. CASE \E v \in Core : try_initiate_steal(c, v)
  <2>1. PICK v \in Core : try_initiate_steal(c, v)
    BY <1>6, Zenon
  <2>2. /\ steal_request' = [steal_request EXCEPT ![v] = c]
        /\ owes' = [owes EXCEPT ![Idle[c]] = v] /\ owes[Idle[c]] = NoCore
        /\ UNCHANGED <<inbox, sgi, irq_owes>>
    BY <2>1, Zenon DEF try_initiate_steal
  <2>3. owes'[Idle[c]] = v /\ \A t \in Thread : owes[t] # NoCore => owes'[t] = owes[t]
    BY <1>0, <1>1, <2>2, Zenon DEF TypeOK
  <2>4. Due(d) => Due(d)'
    BY <2>2, <2>3, CoreAssumption, Zenon DEF Due
  <2>5. CASE d = v
    <3>1. steal_request'[d] = c
      BY <1>0, <2>2, <2>5, Zenon DEF TypeOK
    <3> QED BY <1>1, <2>2, <2>3, <2>4, <2>5, <3>1, Zenon DEF Poked
  <2>6. CASE d # v
    <3>1. steal_request'[d] = steal_request[d]
      BY <1>0, <2>2, <2>6, Zenon DEF TypeOK
    <3>2. steal_request[d] # NoCore /\ owes[Idle[steal_request[d]]] = d =>
             owes'[Idle[steal_request[d]]] = d
      BY <1>0, <1>1, <2>3, CoreAssumption, Zenon DEF TypeOK
    <3> QED BY <1>1, <2>2, <2>4, <3>1, <3>2, Zenon DEF Poked
  <2> QED BY <2>5, <2>6, Zenon
<1>7. CASE \E u \in Worker : irq_notify(c, u)
  <2>1. PICK u \in Worker : irq_notify(c, u)
    BY <1>7, Zenon
  <2>2. UNCHANGED <<owes, sgi, steal_request>> /\ irq_owes[c] = NoCore
    BY <2>1, Zenon DEF irq_notify, Interruptible, OwingInv
  <2>3. \/ inbox' = inbox /\ irq_owes' = irq_owes
        \/ \E target \in Core : /\ place_on(c, target, u)
                                /\ irq_owes' = [irq_owes EXCEPT ![c] = place_on_owes(c, target)]
    BY <2>1, ZenonT(30) DEF irq_notify, pick_wake_target
  <2>4. \A e \in Core : irq_owes[e] # NoCore => irq_owes'[e] = irq_owes[e]
    BY <1>0, <2>2, <2>3, Zenon DEF TypeOK
  <2>5. Due(d) => Due(d)'
    BY <2>2, <2>4, CoreAssumption, Zenon DEF Due
  <2>6. inbox'[d] # <<>> => inbox[d] # <<>> \/ irq_owes'[c] = d
    BY <1>0, <2>3, Zenon DEF place_on, place_on_owes, TypeOK
  <2>7. inbox'[d] # <<>> => Due(d)'
    BY <1>1, <2>5, <2>6, Zenon DEF Due, Poked
  <2> QED BY <1>1, <2>2, <2>7, Zenon DEF Poked
<1> QED BY <1>2, <1>3, <1>4, <1>5, <1>6, <1>7, Zenon

\* What WorkIsPoked says, when whoever owes an SGI can still send it.
LEMMA PokedEnough == OwingInv /\ AllPoked => WorkIsPoked
<1> SUFFICES ASSUME OwingInv, AllPoked PROVE WorkIsPoked
  BY Zenon
<1>1. ASSUME NEW c \in Core, NEW t \in Thread, owes[t] = c
      PROVE  t \in threads /\ hs[t].state \in {"Ready", "Running"}
  BY <1>1, CoreAssumption, Zenon DEF OwingInv
<1> QED BY <1>1, Zenon DEF AllPoked, WorkIsPoked, Poked, Due

\* Every step leaves each inbox and each claimed steal slot with an SGI coming.
LEMMA NextPoked == IInv /\ OwingInv /\ AllPoked /\ [Next]_vars => AllPoked'
<1> SUFFICES ASSUME IInv, OwingInv, \A c \in Core : Poked(c), [Next]_vars
             PROVE  \A c \in Core : Poked(c)'
  BY Zenon DEF AllPoked
<1>1. CASE UNCHANGED <<owes, inbox, sgi, irq_owes, steal_request>>
  BY <1>1, Zenon DEF Poked, Due
<1>2. CASE UNCHANGED vars
  BY <1>1, <1>2, Zenon DEF vars, threadVars, coreVars
<1>3. ASSUME NEW c \in Core, CoreStep(c) PROVE \A d \in Core : Poked(d)'
  <2>1. CASE schedule(c) \/ preempt_if_needed(c)
    BY <1>1, <2>1, Zenon DEF schedule, preempt_if_needed, decide, KeepCurrent, SwitchTo,
       threadVars
  <2>2. CASE \/ Block(c) \/ Unblock(c) \/ depart(c) \/ switch_to(c) \/ FinishSwitch(c)
             \/ on_tick(c)
    BY <1>1, <2>2, Zenon DEF Block, Unblock, depart, switch_to, FinishSwitch, on_tick,
       threadVars, coreVars
  <2> QED BY <1>3, <2>1, <2>2, PokeSteps, Zenon DEF CoreStep
<1>4. ASSUME NEW c \in Core, NEW u \in Worker, ThreadStep(c, u) PROVE \A d \in Core : Poked(d)'
  <2>1. CASE \/ create_thread_control_block(c, u) \/ Deliver(c, u) \/ WakeUndelivered(c, u)
             \/ kill_thread(c, u) \/ reap_region_thread(c, u)
    BY <1>1, <2>1, Zenon DEF create_thread_control_block, Deliver, WakeUndelivered,
       kill_thread, reap_region_thread, coreVars
  <2> QED BY <1>4, <2>1, PokeSteps, Zenon DEF ThreadStep
<1> QED BY <1>2, <1>3, <1>4, Zenon DEF Next

\* No SGI is lost: a thread left in another core's inbox, or a claim on another
\* core's steal slot, always has one pending or owed by somebody who still gets to
\* send it (place_on's must_use and try_initiate_steal, against preemption, kills,
\* steals and interrupts between the placement and the send).
THEOREM WorkPoked == Spec => []WorkIsPoked
<1>1. Init => OwingInv /\ AllPoked
  <2> SUFFICES ASSUME Init PROVE OwingInv /\ AllPoked
    BY Zenon
  <2>1. TypeOK
    BY InitTypeOK, Zenon
  <2>2. OwingInv
    BY <2>1, CoreAssumption, Zenon DEF Init, OwingInv, TypeOK
  <2>3. AllPoked
    BY Zenon DEF Init, AllPoked, Poked
  <2> QED BY <2>2, <2>3, Zenon
<1>2. IInv /\ OwingInv /\ AllPoked /\ [Next]_vars => OwingInv' /\ AllPoked'
  BY NextOwing, NextPoked, Zenon
<1> QED BY <1>1, <1>2, PokedEnough, Invariant, PTL DEF Spec
==============================================================================
