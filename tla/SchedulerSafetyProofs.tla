------------------------ MODULE SchedulerSafetyProofs ------------------------
(* Preservation of the inductive invariant by finish_switch, the SGI handler *)
(* with the work stealing and schedule(), and the safety theorems of the    *)
(* scheduler.                                                               *)
EXTENDS SchedulerProofs

------------------------------------------------------------------------------
(* finish_switch.                                                           *)

\* finish_switch on core c: what holds of every verdict.
LEMMA LeftCore ==
  ASSUME IInv, NEW c \in Core, FinishSwitch(c)
  PROVE  /\ switched_from[c] \in threads
         /\ \A d \in Core : current'[d] # switched_from[c] /\ switched_from'[d] # switched_from[c]
         /\ \A u \in Thread, d \in Core :
               u # switched_from[c] =>
                 ((current'[d] = u \/ switched_from'[d] = u) <=> Stands(u, d))
         /\ \A d \in Core : /\ phase'[d] \in {phase[d], "run"}
                            /\ switched_from'[d] \in {switched_from[d], NoTid}
                            /\ d # c => phase'[d] = phase[d] /\ switched_from'[d] = switched_from[d]
                            /\ switched_from[d] = switched_from[c] => d = c
         /\ phase[c] = "landed" /\ phase'[c] = "run" /\ switched_from'[c] = NoTid
         /\ ctx[switched_from[c]] /\ current' = current /\ inbox' = inbox
<1>0. TypeOK /\ OneCorePerThread /\ LeavingInv /\ StandingInv /\ ContextInv
  BY Zenon DEF IInv
<1>1. /\ phase[c] = "landed"
      /\ switched_from' = [switched_from EXCEPT ![c] = NoTid]
      /\ phase' = [phase EXCEPT ![c] = "run"] /\ current' = current /\ inbox' = inbox
  BY Zenon DEF FinishSwitch
<1>2. /\ phase'[c] = "run" /\ switched_from'[c] = NoTid
      /\ \A d \in Core : d # c => phase'[d] = phase[d] /\ switched_from'[d] = switched_from[d]
  BY <1>0, <1>1, Zenon DEF TypeOK
<1>3. /\ switched_from[c] \in threads /\ switched_from[c] \in Thread
      /\ ctx[switched_from[c]] /\ switched_from[c] # NoTid
  BY <1>0, <1>1, Zenon DEF LeavingInv, StandingInv, ContextInv, TypeOK
<1>4. \A d \in Core : d # c =>
         current[d] # switched_from[c] /\ switched_from[d] # switched_from[c]
  BY <1>0, <1>3, Zenon DEF OneCorePerThread, Stands
<1>5. current[c] # switched_from[c]
  BY <1>0, Zenon DEF StandingInv
<1>6. \A d \in Core : current'[d] # switched_from[c] /\ switched_from'[d] # switched_from[c]
  BY <1>1, <1>2, <1>3, <1>4, <1>5, Zenon
<1>7. \A u \in Thread, d \in Core :
          u # switched_from[c] =>
            ((current'[d] = u \/ switched_from'[d] = u) <=> Stands(u, d))
  BY <1>1, <1>2, <1>3, ThreadAssumption, Zenon DEF Stands
<1> QED BY <1>1, <1>2, <1>3, <1>4, <1>6, <1>7, Zenon

\* finish_switch leaves the outgoing thread of core c with the handshake g, off
\* every core: it keeps its state, or is removed or made Ready by the caller.
LeftWith(c, g) ==
  LET p == switched_from[c] IN
  /\ FinishSwitch(c) /\ hs' = [hs EXCEPT ![p] = g]
  /\ ~g.on_cpu /\ ~g.wake_pending
  /\ p \in IdleThread => g.state = hs[p].state /\ p \in threads'
  /\ \A u \in Thread : u # p => /\ parked'[u] = parked[u] /\ ctx'[u] = ctx[u]
                                /\ u \in threads' <=> u \in threads
  /\ p \in threads' => /\ g.state # "Embryo" => ctx'[p]
                       /\ g.state = "Blocked" => ~is_delivered(g)

\* The facts about cores that follow in every case.
LEMMA FinishCommon ==
  ASSUME IInv, TypeInv', NEW c \in Core, NEW g, LeftWith(c, g)
  PROVE  /\ OneCorePerThread' /\ StandingInv' /\ IdleInv' /\ ContextInv'
         /\ SwitchesToSavedContext' /\ DeferredWakeIsRecorded'
<1> DEFINE p == switched_from[c]
<1>0. /\ TypeOK /\ OneCorePerThread /\ LeavingInv /\ StandingInv
      /\ IdleInv /\ ContextInv /\ SwitchesToSavedContext /\ DeferredWakeIsRecorded
  BY Zenon DEF IInv
<1>g. /\ FinishSwitch(c) /\ hs' = [hs EXCEPT ![p] = g] /\ ~g.on_cpu /\ ~g.wake_pending
      /\ p \in IdleThread => g.state = hs[p].state /\ p \in threads'
  BY Zenon DEF LeftWith
<1>h. \A u \in Thread : u # p => parked'[u] = parked[u] /\ ctx'[u] = ctx[u]
  BY Zenon DEF LeftWith
<1>i. \A u \in Thread : u # p => (u \in threads' <=> u \in threads)
  BY Zenon DEF LeftWith
<1>j. p \in threads' => /\ g.state # "Embryo" => ctx'[p]
                        /\ g.state = "Blocked" => ~is_delivered(g)
  BY Zenon DEF LeftWith
<1>1. /\ p \in threads /\ p \in Thread
      /\ \A d \in Core : current'[d] # p /\ switched_from'[d] # p
      /\ \A u \in Thread, d \in Core :
            u # p => ((current'[d] = u \/ switched_from'[d] = u) <=> Stands(u, d))
      /\ \A d \in Core : d # c => phase'[d] = phase[d] /\ switched_from'[d] = switched_from[d]
      /\ \A d \in Core : switched_from[d] = p => d = c
      /\ phase'[c] = "run" /\ switched_from'[c] = NoTid /\ current' = current
  BY <1>0, <1>g, LeftCore DEF TypeOK
<1>2. /\ hs'[p] = g /\ ~g.on_cpu /\ ~g.wake_pending
      /\ \A u \in Thread : u # p => hs'[u] = hs[u]
  BY <1>0, <1>1, <1>g, Zenon DEF TypeOK
<1>3. \A d \in Core : current[d] \in Thread /\ current[d] # p
  BY <1>0, <1>1, Zenon DEF TypeOK, Stands
<1>4. OneCorePerThread'
  <2> SUFFICES ASSUME NEW t \in Thread, NEW d \in Core, NEW e \in Core,
                      current'[d] = t \/ switched_from'[d] = t,
                      current'[e] = t \/ switched_from'[e] = t
               PROVE  d = e
    BY Zenon DEF OneCorePerThread, Stands
  <2>1. t # p
    BY <1>1, Zenon
  <2>2. Stands(t, d) /\ Stands(t, e)
    BY <1>1, <2>1, Zenon
  <2> QED BY <1>0, <2>2, Zenon DEF OneCorePerThread
<1>5. StandingInv'
  <2>1. \A t \in Thread :
           hs'[t].on_cpu <=> \E d \in Core : current'[d] = t \/ switched_from'[d] = t
    <3> SUFFICES ASSUME NEW t \in Thread
                 PROVE  hs'[t].on_cpu <=>
                          \E d \in Core : current'[d] = t \/ switched_from'[d] = t
      BY Zenon
    <3>1. CASE t = p
      BY <1>1, <1>2, <3>1, Zenon
    <3>2. CASE t # p
      <4>1. hs'[t].on_cpu <=> \E d \in Core : Stands(t, d)
        BY <1>0, <1>2, <3>2, Zenon DEF StandingInv
      <4> QED BY <1>1, <3>2, <4>1
    <3> QED BY <3>1, <3>2, Zenon
  <2>2. \A d \in Core : /\ switched_from'[d] # current'[d] /\ current'[d] \in threads'
                        /\ hs'[current'[d]].state \notin {"Ready", "Embryo"}
    BY <1>0, <1>1, <1>2, <1>3, <1>i, ThreadAssumption DEF StandingInv
  <2>3. \A d \in Core : switched_from'[d] # NoTid =>
           switched_from'[d] \in threads' /\ hs'[switched_from'[d]].state # "Embryo"
    <3> SUFFICES ASSUME NEW d \in Core, switched_from'[d] # NoTid
                 PROVE  /\ switched_from'[d] \in threads'
                        /\ hs'[switched_from'[d]].state # "Embryo"
      BY Zenon
    <3>1. switched_from'[d] = switched_from[d] /\ switched_from[d] # p
      BY <1>1, Zenon
    <3>2. switched_from[d] \in Thread
      BY <1>0, <3>1, Zenon DEF TypeOK
    <3> QED BY <1>0, <1>1, <1>2, <1>i, <3>1, <3>2 DEF StandingInv
  <2> QED BY <2>1, <2>2, <2>3, Zenon DEF StandingInv, Stands
<1>6. IdleInv'
  <2> SUFFICES ASSUME NEW d \in Core
               PROVE  /\ Idle[d] \in threads'
                      /\ hs'[Idle[d]].state \in {"Ready", "Running"}
                      /\ \A e \in Core :
                           current'[e] = Idle[d] \/ switched_from'[e] = Idle[d] => e = d
    BY Zenon DEF IdleInv, Stands
  <2>1. Idle[d] \in Thread /\ Idle[d] \in IdleThread
    BY ThreadAssumption, Zenon DEF IdleThread
  <2>2. CASE Idle[d] = p
    BY <1>0, <1>1, <1>2, <1>g, <2>1, <2>2 DEF IdleInv
  <2>3. CASE Idle[d] # p
    BY <1>0, <1>1, <1>2, <1>i, <2>1, <2>3, Zenon DEF IdleInv
  <2> QED BY <2>2, <2>3, Zenon
<1>7. ContextInv'
  <2>1. \A u \in threads' : ~hs'[u].on_cpu /\ hs'[u].state # "Embryo" => ctx'[u]
    <3> SUFFICES ASSUME NEW u \in threads', ~hs'[u].on_cpu, hs'[u].state # "Embryo"
                 PROVE  ctx'[u]
      BY Zenon
    <3>1. CASE u = p
      BY <1>2, <1>j, <3>1, Zenon
    <3>2. CASE u # p
      <4>1. u \in Thread
        BY Zenon DEF TypeInv, TypeOK
      <4>2. u \in threads /\ hs'[u] = hs[u] /\ ctx'[u] = ctx[u]
        BY <1>2, <1>h, <1>i, <3>2, <4>1, Zenon
      <4> QED BY <1>0, <4>2, Zenon DEF ContextInv
    <3> QED BY <3>1, <3>2, Zenon
  <2>2. \A d \in Core : phase'[d] # "switch" => ~ctx'[current'[d]]
    <3> SUFFICES ASSUME NEW d \in Core, phase'[d] # "switch" PROVE ~ctx'[current'[d]]
      BY Zenon
    <3>1. phase[d] # "switch"
      BY <1>1, <1>g, LeftCore, Zenon
    <3>2. current'[d] = current[d] /\ ctx'[current[d]] = ctx[current[d]]
      BY <1>1, <1>3, <1>h, Zenon
    <3> QED BY <1>0, <3>1, <3>2, Zenon DEF ContextInv
  <2>3. \A d \in Core : phase'[d] = "landed" => ctx'[switched_from'[d]]
    <3> SUFFICES ASSUME NEW d \in Core, phase'[d] = "landed" PROVE ctx'[switched_from'[d]]
      BY Zenon
    <3>1. d # c
      BY <1>1, Zenon
    <3>2. phase[d] = "landed" /\ switched_from'[d] = switched_from[d] /\ switched_from[d] # p
      BY <1>1, <3>1, Zenon
    <3>3. switched_from[d] \in Thread
      BY <1>0, <3>2, Zenon DEF LeavingInv, TypeOK
    <3> QED BY <1>0, <1>h, <3>2, <3>3, Zenon DEF ContextInv
  <2> QED BY <2>1, <2>2, <2>3, Zenon DEF ContextInv
<1>8. SwitchesToSavedContext'
  <2> SUFFICES ASSUME NEW d \in Core, phase'[d] = "switch"
               PROVE  ctx'[current'[d]] /\ ~ctx'[switched_from'[d]]
    BY Zenon DEF SwitchesToSavedContext
  <2>1. d # c
    BY <1>1, Zenon
  <2>2. phase[d] = "switch" /\ switched_from'[d] = switched_from[d] /\ switched_from[d] # p
    BY <1>1, <2>1, Zenon
  <2>3. switched_from[d] \in Thread
    BY <1>0, <2>2, Zenon DEF LeavingInv, TypeOK
  <2> QED BY <1>0, <1>1, <1>3, <1>h, <2>2, <2>3, Zenon DEF SwitchesToSavedContext
<1>9. DeferredWakeIsRecorded'
  <2> SUFFICES ASSUME NEW t \in threads', hs'[t].state = "Blocked", is_delivered(hs'[t])
               PROVE  /\ hs'[t].wake_pending
                      /\ \E d \in Core : current'[d] = t \/ switched_from'[d] = t
    BY Zenon DEF DeferredWakeIsRecorded, Stands
  <2>1. t # p /\ t \in Thread
    BY <1>2, <1>j, Zenon DEF TypeInv, TypeOK
  <2>2. hs[t].wake_pending /\ \E d \in Core : Stands(t, d)
    BY <1>0, <1>2, <1>i, <2>1, Zenon DEF DeferredWakeIsRecorded
  <2> QED BY <1>1, <1>2, <2>1, <2>2
<1> QED BY <1>4, <1>5, <1>6, <1>7, <1>8, <1>9, Zenon

\* finish_switch: reap, complete a deferred wake, or clear on_cpu.
LEMMA FinishAction ==
  ASSUME IInv, TypeInv', NEW c \in Core, FinishSwitch(c)
  PROVE  IInv'
<1> DEFINE p == switched_from[c]
           v == SwitchOutVerdict(hs[p])
<1>0. /\ TypeOK /\ LinkedOnce /\ StandingInv /\ QueueInv /\ ReadyInv /\ IdleInv
      /\ DeliveryInv /\ ResumedIsDelivered /\ DeferredWakeIsRecorded
  BY Zenon DEF IInv
<1>1. /\ p \in threads /\ p \in Thread /\ ctx[p] /\ inbox' = inbox
      /\ hs[p] \in HandshakeOf({"ipc"})
      /\ hs[p].state # "Embryo"
      /\ \A d \in Core : switched_from[d] = p => d = c
      /\ \A d \in Core : d # c => switched_from'[d] = switched_from[d]
      /\ p # NoTid
  BY <1>0, LeftCore, ThreadAssumption DEF TypeOK, StandingInv
<1>2. p \in IdleThread => hs[p].state \in {"Ready", "Running"}
  BY <1>0, Zenon DEF IdleInv, IdleThread
<1>3. CASE v = "Reap"
  <2>1. Remove(p) /\ runq' = runq
    BY <1>3, Zenon DEF FinishSwitch
  <2>2. /\ hs' = [hs EXCEPT ![p] = embryo] /\ threads' = threads \ {p}
        /\ ~parked'[p]
        /\ \A u \in Thread : u # p => /\ parked'[u] = parked[u] /\ ctx'[u] = ctx[u]
                                      /\ hs'[u] = hs[u] /\ (u \in threads' <=> u \in threads)
        /\ hs'[p] = embryo
    BY <1>0, <1>1, <2>1, Zenon DEF Remove, TypeOK
  <2>3. /\ embryo.state = "Embryo" /\ ~embryo.on_cpu /\ ~embryo.wake_pending
        /\ ~embryo.ipc_aborted
    BY Zenon DEF embryo, Fresh
  <2>4. hs[p].state = "Finished"
    BY <1>3, Zenon DEF SwitchOutVerdict
  <2>5. /\ OneCorePerThread' /\ StandingInv' /\ IdleInv' /\ ContextInv'
        /\ SwitchesToSavedContext' /\ DeferredWakeIsRecorded'
    <3>1. LeftWith(c, embryo)
      BY <1>2, <2>2, <2>3, <2>4, Zenon DEF LeftWith
    <3> QED BY <3>1, FinishCommon, Zenon
  <2>6. LinkedOnce'
    BY <1>0, <1>1, <2>1, Zenon DEF LinkedOnce
  <2>7. QueueInv'
    BY <1>0, <1>1, <2>1, <2>2, <2>4 DEF QueueInv
  <2>8. ReadyInv'
    BY <1>0, <1>1, <2>1, <2>2, <2>3 DEF ReadyInv, Queued, Worker
  <2>9. DeliveryInv'
    <3>1. FlagsOk(hs'[p], parked'[p], p \in threads')
      BY <2>2, <2>3, Zenon DEF FlagsOk
    <3> QED BY <1>0, <1>1, <2>2, <3>1, FlagsStep
  <2>10. ResumedIsDelivered'
    BY <1>0, <2>2, Zenon DEF ResumedIsDelivered, TypeOK
  <2> QED BY <2>5, <2>6, <2>7, <2>8, <2>9, <2>10, Zenon DEF IInv, TypeInv
<1>4. CASE v # "Reap"
  <2> DEFINE g == finish_switch(hs[p])
  <2>1. /\ hs' = [hs EXCEPT ![p] = g] /\ UNCHANGED <<threads, parked, ctx>>
        /\ runq' = IF v = "WakeCompleted" THEN [runq EXCEPT ![c] = Append(runq[c], p)]
                   ELSE runq
    BY <1>4, Zenon DEF FinishSwitch
  <2>2. hs'[p] = g /\ \A u \in Thread : u # p => hs'[u] = hs[u]
    BY <1>0, <1>1, <2>1, Zenon DEF TypeOK
  <2>3. /\ ~g.on_cpu /\ ~g.wake_pending /\ g.ipc_aborted = hs[p].ipc_aborted
        /\ g.wait_on \in {hs[p].wait_on, NoWait}
        /\ is_delivered(g) <=> is_delivered(hs[p])
        /\ IF v = "WakeCompleted" THEN hs[p].wake_pending /\ g.state = "Ready"
           ELSE /\ g.state = hs[p].state /\ g.wait_on = hs[p].wait_on
                /\ ~hs[p].wake_pending
    BY <1>1, <1>4, Zenon DEF HandshakeOf, finish_switch, SwitchOutVerdict, is_delivered
  <2> HIDE DEF g
  <2>4. v = "WakeCompleted" => hs[p].state = "Blocked" /\ is_delivered(hs[p])
    BY <1>0, <1>1, <2>3, Zenon DEF DeliveryInv, FlagsOk
  <2>5. g.state = "Blocked" => ~is_delivered(g)
    BY <1>0, <1>1, <2>3, Zenon DEF DeferredWakeIsRecorded
  <2>6. /\ OneCorePerThread' /\ StandingInv' /\ IdleInv' /\ ContextInv'
        /\ SwitchesToSavedContext' /\ DeferredWakeIsRecorded'
    <3>1. LeftWith(c, g)
      BY <1>1, <1>2, <2>1, <2>3, <2>4, <2>5, ZenonT(30) DEF LeftWith
    <3> QED BY <3>1, FinishCommon, Zenon
  <2>7. DeliveryInv'
    <3>1. FlagsOk(hs[p], parked[p], p \in threads)
      BY <1>0, <1>1, Zenon DEF DeliveryInv
    <3>2. FlagsOk(hs'[p], parked'[p], p \in threads')
      BY <1>1, <2>1, <2>2, <2>3, <2>4, <3>1 DEF FlagsOk
    <3> QED BY <1>0, <1>1, <2>1, <2>2, <3>2, FlagsStep, Zenon
  <2>8. ResumedIsDelivered'
    BY <1>0, <1>1, <2>1, <2>2, <2>3, <2>4 DEF ResumedIsDelivered, TypeOK
  <2>9. LinkedOnce' /\ QueueInv' /\ ReadyInv'
    <3>1. CASE v # "WakeCompleted"
      <4>1. runq' = runq /\ g.state = hs[p].state
        BY <2>1, <2>3, <3>1, Zenon
      <4>2. LinkedOnce'
        BY <1>0, <1>1, <4>1, Zenon DEF LinkedOnce
      <4>3. QueueInv'
        BY <1>0, <1>1, <2>1, <2>2, <2>3, <4>1 DEF QueueInv
      <4>4. ReadyInv'
        BY <1>0, <1>1, <2>1, <2>2, <4>1 DEF ReadyInv, Queued, Worker
      <4> QED BY <4>2, <4>3, <4>4, Zenon
    <3>2. CASE v = "WakeCompleted"
      <4>1. p \in Worker /\ ~Queued(p)
        BY <1>0, <1>1, <1>2, <2>4, <3>2, Zenon DEF Worker, QueueInv, Queued
      <4>2. place_on(c, c, p)
        BY <1>1, <2>1, <3>2, Zenon DEF place_on
      <4>3. LinkedOnce' /\ Placed(c, c, p)
        BY <1>0, <1>1, <4>1, <4>2, PlaceLinks, Zenon
      <4>4. \A d \in Core, u \in Thread :
               /\ u \in Range(runq'[d]) <=> u \in Range(runq[d]) \/ (u = p /\ d = c)
               /\ u \in Range(inbox'[d]) <=> u \in Range(inbox[d])
        BY <4>3, ZenonT(30) DEF Placed
      <4>5. QueueInv'
        <5> SUFFICES ASSUME NEW d \in Core, NEW u \in Thread
                     PROVE  /\ u \in Range(runq'[d]) =>
                                 /\ u \in Worker \cap threads'
                                 /\ hs'[u].state = "Ready"
                                 /\ hs'[u].on_cpu => switched_from'[d] = u
                            /\ u \in Range(inbox'[d]) =>
                                 /\ u \in Worker \cap threads'
                                 /\ hs'[u].state = "Ready" /\ ~hs'[u].on_cpu
          BY Zenon DEF QueueInv
        <5>1. CASE u = p
          BY <1>1, <2>1, <2>2, <2>3, <3>2, <4>1, <5>1
        <5>2. CASE u # p
          BY <1>0, <1>1, <2>1, <2>2, <4>4, <5>2 DEF QueueInv
        <5> QED BY <5>1, <5>2, Zenon
      <4>6. ReadyInv'
        <5> SUFFICES ASSUME NEW u \in Worker \cap threads', hs'[u].state = "Ready"
                     PROVE  \E d \in Core : u \in Range(runq'[d]) \cup Range(inbox'[d])
          BY Zenon DEF ReadyInv, Queued
        <5>1. CASE u = p
          BY <1>1, <4>4, <5>1, Zenon
        <5>2. CASE u # p
          BY <1>0, <2>1, <2>2, <4>4, <5>2, Zenon DEF ReadyInv, Queued, Worker
        <5> QED BY <5>1, <5>2, Zenon
      <4> QED BY <4>3, <4>5, <4>6, Zenon
    <3> QED BY <3>1, <3>2, Zenon
  <2> QED BY <2>6, <2>7, <2>8, <2>9, Zenon DEF IInv, TypeInv
<1> QED BY <1>3, <1>4, Zenon

------------------------------------------------------------------------------
(* The reschedule interrupt.                                                *)

\* Threads change queues and nothing else: what must hold of the new queues.
LEMMA ShuffleStep ==
  ASSUME IInv, TypeInv', LinkedOnce',
         UNCHANGED <<threads, hs, parked, ctx, current, switched_from>>,
         \A d \in Core : NoSwitch(d),
         \A u \in Thread : Queued(u) =>
            \E d \in Core : u \in Range(runq'[d]) \cup Range(inbox'[d]),
         \A d \in Core, u \in Thread :
            /\ u \in Range(runq'[d]) =>
                 u \in Range(runq[d]) \/ (Queued(u) /\ ~hs[u].on_cpu)
            /\ u \in Range(inbox'[d]) => Queued(u) /\ ~hs[u].on_cpu
  PROVE  IInv'
<1>0. /\ TypeOK /\ OneCorePerThread /\ StandingInv /\ QueueInv /\ ReadyInv /\ IdleInv
      /\ ContextInv /\ SwitchesToSavedContext
      /\ DeliveryInv /\ ResumedIsDelivered /\ DeferredWakeIsRecorded
  BY Zenon DEF IInv
<1>1. OneCorePerThread' /\ StandingInv' /\ IdleInv'
  <2>1. OneCorePerThread' /\ IdleInv'
    BY <1>0, Zenon DEF OneCorePerThread, IdleInv, Stands
  <2>2. StandingInv'
    BY <1>0, Zenon DEF StandingInv, Stands
  <2> QED BY <2>1, <2>2, Zenon
<1>2. QueueInv'
  <2>1. \A u \in Thread : Queued(u) => u \in Worker \cap threads /\ hs[u].state = "Ready"
    BY <1>0, Zenon DEF QueueInv, Queued
  <2> QED BY <1>0, <2>1, Zenon DEF QueueInv
<1>3. ReadyInv'
  <2> SUFFICES ASSUME NEW u \in Worker \cap threads', hs'[u].state = "Ready"
               PROVE  \E d \in Core : u \in Range(runq'[d]) \cup Range(inbox'[d])
    BY Zenon DEF ReadyInv, Queued
  <2> QED BY <1>0, Zenon DEF ReadyInv, Worker
<1>4. ContextInv' /\ SwitchesToSavedContext'
  BY <1>0, Zenon DEF ContextInv, SwitchesToSavedContext, NoSwitch
<1>5. DeliveryInv' /\ ResumedIsDelivered' /\ DeferredWakeIsRecorded'
  BY <1>0, Zenon DEF DeliveryInv, FlagsOk, ResumedIsDelivered, DeferredWakeIsRecorded, Stands
<1> QED BY <1>1, <1>2, <1>3, <1>4, <1>5, Zenon DEF IInv, TypeInv

\* The SGI handler moves threads from the inbox to the run queue and hands at
\* most one of them to a thief; every link stays used once.
LEMMA RescheduleAction ==
  ASSUME IInv, TypeInv', NEW c \in Core, reschedule_interrupt(c)
  PROVE  IInv'
<1> DEFINE q == runq[c] \o inbox[c]
           r == steal_request[c]
           gives == r # NoCore /\ q # <<>>
           x == Head(q)
<1>0. /\ TypeOK /\ LinkedOnce /\ OneCorePerThread /\ LeavingInv /\ StandingInv
      /\ QueueInv /\ ReadyInv /\ IdleInv /\ ContextInv /\ SwitchesToSavedContext
      /\ DeliveryInv /\ ResumedIsDelivered /\ DeferredWakeIsRecorded
  BY Zenon DEF IInv
<1>1. /\ runq' = [runq EXCEPT ![c] = IF gives THEN Tail(q) ELSE q]
      /\ inbox' = IF gives
                  THEN [[inbox EXCEPT ![c] = <<>>] EXCEPT
                          ![r] = Append([inbox EXCEPT ![c] = <<>>][r], x)]
                  ELSE [inbox EXCEPT ![c] = <<>>]
      /\ phase[c] = "run" /\ phase' = [phase EXCEPT ![c] = "tail"]
      /\ UNCHANGED <<threads, hs, parked, ctx, current, switched_from>>
  BY Zenon DEF reschedule_interrupt, Interruptible, threadVars
<1>2. /\ runq[c] \in Seq(Thread) /\ inbox[c] \in Seq(Thread) /\ q \in Seq(Thread)
      /\ \A d \in Core : runq[d] \in Seq(Thread) /\ inbox[d] \in Seq(Thread)
      /\ r \in Core \cup {NoCore}
  BY <1>0 DEF TypeOK
<1>3. Range(q) = Range(runq[c]) \cup Range(inbox[c]) /\ IsInjective(q)
  <2>1. /\ IsInjective(runq[c]) /\ IsInjective(inbox[c])
        /\ Range(runq[c]) \cap Range(inbox[c]) = {}
    BY <1>0, Zenon DEF LinkedOnce
  <2> HIDE DEF q
  <2>2. q = runq[c] \o inbox[c]
    BY Zenon DEF q
  <2> QED BY <1>2, <2>1, <2>2, RangeConcat
<1> HIDE DEF q, r, x
<1>4. \A d \in Core, u \in Thread :
         /\ u \in Range(runq[d]) => u \notin Range(inbox[c])
         /\ u \in Range(runq[d]) => u \notin Range(inbox[d])
         /\ d # c => /\ u \in Range(runq[d]) \cup Range(inbox[d]) => u \notin Range(q)
                     /\ u \in Range(inbox[d]) => u \notin Range(runq[c])
  BY <1>0, <1>3, Zenon DEF LinkedOnce
<1>5. /\ \A u \in Range(q) : u \in Thread /\ Queued(u) /\ ~hs[u].on_cpu
      /\ \A d \in Core : \A u \in Range(inbox[d]) : u \in Thread /\ Queued(u) /\ ~hs[u].on_cpu
  <2>1. switched_from[c] = NoTid
    BY <1>0, <1>1, Zenon DEF LeavingInv
  <2>2. \A d \in Core : Range(runq[d]) \subseteq Thread /\ Range(inbox[d]) \subseteq Thread
    <3>1. ASSUME NEW s \in Seq(Thread) PROVE Range(s) \subseteq Thread
      BY DEF Range
    <3> QED BY <1>2, <3>1, Zenon
  <2> QED BY <1>0, <1>3, <2>1, <2>2, ThreadAssumption DEF QueueInv, Queued
<1>6. \A d \in Core : NoSwitch(d)
  BY <1>0, <1>1, Zenon DEF NoSwitch, TypeOK
<1>7. \A d \in Core : d # c => runq'[d] = runq[d]
  BY <1>0, <1>1, Zenon DEF TypeOK
<1>8. CASE ~gives
  <2>1. runq'[c] = q /\ inbox'[c] = <<>> /\ \A d \in Core : d # c => inbox'[d] = inbox[d]
    BY <1>0, <1>1, <1>8, Zenon DEF TypeOK
  <2>2. Range(runq'[c]) = Range(q) /\ Range(inbox'[c]) = {}
    BY <2>1, RangeEmpty, Zenon
  <2>3. \A d \in Core : IsInjective(runq'[d]) /\ IsInjective(inbox'[d])
    BY <1>0, <1>3, <1>7, <2>1, RangeEmpty, Zenon DEF LinkedOnce
  <2>4. LinkedOnce'
    <3> SUFFICES ASSUME NEW d \in Core, NEW e \in Core
                 PROVE  /\ Range(runq'[d]) \cap Range(inbox'[e]) = {}
                        /\ d # e => /\ Range(runq'[d]) \cap Range(runq'[e]) = {}
                                    /\ Range(inbox'[d]) \cap Range(inbox'[e]) = {}
      BY <2>3, Zenon DEF LinkedOnce
    <3> USE <1>0, <1>3, <1>7, <2>1, <2>2 DEF LinkedOnce
    <3>1. CASE d = c
      BY <3>1
    <3>2. CASE d # c /\ e = c
      BY <3>2, Zenon
    <3>3. CASE d # c /\ e # c
      BY <3>3, ZenonT(30)
    <3> QED BY <3>1, <3>2, <3>3, Zenon
  <2>5. \A u \in Thread : Queued(u) =>
            \E d \in Core : u \in Range(runq'[d]) \cup Range(inbox'[d])
    BY <1>3, <1>7, <2>1, <2>2, Zenon DEF Queued
  <2>6. \A d \in Core, u \in Thread :
            /\ u \in Range(runq'[d]) =>
                 u \in Range(runq[d]) \/ (Queued(u) /\ ~hs[u].on_cpu)
            /\ u \in Range(inbox'[d]) => Queued(u) /\ ~hs[u].on_cpu
    BY <1>5, <1>7, <2>1, <2>2, Zenon
  <2> QED BY <1>1, <1>6, <2>4, <2>5, <2>6, ShuffleStep, ZenonT(30)
<1>9. CASE gives
  <2> DEFINE b == [inbox EXCEPT ![c] = <<>>]
  <2>1. /\ r \in Core /\ x \in Thread /\ x \in Range(q)
        /\ Range(Tail(q)) = Range(q) \ {x} /\ IsInjective(Tail(q))
    BY <1>2, <1>3, <1>5, <1>9, RangeTail, Zenon DEF x
  <2>2. /\ b \in [Core -> Seq(Thread)] /\ b[c] = <<>>
        /\ \A d \in Core : d # c => b[d] = inbox[d]
    BY <1>0 DEF TypeOK
  <2>3. inbox' = [b EXCEPT ![r] = Append(b[r], x)] /\ runq' = [runq EXCEPT ![c] = Tail(q)]
    BY <1>1, <1>9, Zenon
  <2> HIDE DEF b
  <2>4. runq'[c] = Tail(q) /\ Range(runq'[c]) = Range(q) \ {x}
    BY <1>0, <2>1, <2>3, Zenon DEF TypeOK
  <2>5. inbox'[r] = Append(b[r], x) /\ \A d \in Core : d # r => inbox'[d] = b[d]
    BY <2>1, <2>2, <2>3, Zenon
  <2>6. /\ \A d \in Core : IsInjective(b[d]) /\ x \notin Range(b[d])
        /\ Range(b[c]) = {}
    BY <1>0, <1>4, <2>1, <2>2, RangeEmpty, Zenon DEF LinkedOnce
  <2>7. Range(inbox'[r]) = Range(b[r]) \cup {x} /\ IsInjective(inbox'[r])
    BY <2>1, <2>2, <2>5, <2>6, RangeAppend
  <2>8. \A d \in Core : IsInjective(runq'[d]) /\ IsInjective(inbox'[d])
    BY <1>0, <1>7, <2>1, <2>4, <2>5, <2>6, <2>7, ZenonT(30) DEF LinkedOnce
  <2>9. \A d \in Core : \A u :
           /\ u \in Range(runq'[d]) =>
                u # x /\ (IF d = c THEN u \in Range(q) ELSE u \in Range(runq[d]))
           /\ u \in Range(inbox'[d]) =>
                \/ u = x /\ d = r
                \/ u # x /\ d # c /\ u \in Range(inbox[d])
    <3> SUFFICES ASSUME NEW d \in Core, NEW u
                 PROVE  /\ u \in Range(runq'[d]) =>
                             u # x /\ (IF d = c THEN u \in Range(q) ELSE u \in Range(runq[d]))
                        /\ u \in Range(inbox'[d]) =>
                             \/ u = x /\ d = r
                             \/ u # x /\ d # c /\ u \in Range(inbox[d])
      BY Zenon
    <3>1. u \in Range(runq'[d]) =>
             u # x /\ (IF d = c THEN u \in Range(q) ELSE u \in Range(runq[d]))
      BY <1>4, <1>7, <2>1, <2>4, ZenonT(30)
    <3>2. u \in Range(inbox'[d]) =>
             (u = x /\ d = r) \/ u \in Range(b[d])
      BY <2>5, <2>7, ZenonT(30)
    <3>3. u \in Range(b[d]) => u # x /\ d # c /\ u \in Range(inbox[d])
      BY <2>2, <2>6, Zenon
    <3> QED BY <3>1, <3>2, <3>3, Zenon
  <2>10. LinkedOnce'
    <3> SUFFICES ASSUME NEW d \in Core, NEW e \in Core
                 PROVE  /\ Range(runq'[d]) \cap Range(inbox'[e]) = {}
                        /\ d # e => /\ Range(runq'[d]) \cap Range(runq'[e]) = {}
                                    /\ Range(inbox'[d]) \cap Range(inbox'[e]) = {}
      BY <2>8, Zenon DEF LinkedOnce
    <3> USE <1>0, <1>3, <2>9 DEF LinkedOnce
    <3>1. Range(runq'[d]) \cap Range(inbox'[e]) = {}
      OBVIOUS
    <3>2. d # e => Range(runq'[d]) \cap Range(runq'[e]) = {}
      OBVIOUS
    <3>3. d # e => Range(inbox'[d]) \cap Range(inbox'[e]) = {}
      OBVIOUS
    <3> QED BY <3>1, <3>2, <3>3, Zenon
  <2>11. ASSUME NEW u \in Thread, Queued(u)
         PROVE  \E d \in Core : u \in Range(runq'[d]) \cup Range(inbox'[d])
    <3>1. PICK d \in Core : u \in Range(runq[d]) \cup Range(inbox[d])
      BY <2>11, Zenon DEF Queued
    <3>2. CASE u = x
      BY <2>1, <2>7, <3>2, Zenon
    <3>3. CASE u # x /\ d = c
      BY <1>3, <2>4, <3>1, <3>3, ZenonT(30)
    <3>4. CASE u # x /\ d # c
      BY <1>7, <2>2, <2>5, <2>7, <3>1, <3>4, ZenonT(30)
    <3> QED BY <3>2, <3>3, <3>4, Zenon
  <2>12. \A d \in Core, u \in Thread :
            /\ u \in Range(runq'[d]) =>
                 u \in Range(runq[d]) \/ (Queued(u) /\ ~hs[u].on_cpu)
            /\ u \in Range(inbox'[d]) => Queued(u) /\ ~hs[u].on_cpu
    BY <1>5, <2>1, <2>9, Zenon
  <2> QED BY <1>1, <1>6, <2>10, <2>11, <2>12, ShuffleStep, ZenonT(30)
<1> QED BY <1>8, <1>9, Zenon

------------------------------------------------------------------------------
(* schedule(): the decision, and the switch to a queued or to the idle thread. *)

\* Whether core c's schedule() requeues its outgoing thread, and what
\* finish_killed_current and preempt make of that thread's handshake.
Requeues(c) == requeued(c, AfterKillCheck(current[c]))
Outgoing(c) == IF Requeues(c) THEN preempt(AfterKillCheck(current[c]))
               ELSE AfterKillCheck(current[c])

\* Only the state of the outgoing thread changes: Running becomes Ready when it
\* is requeued and Finished when it was killed; the idle thread keeps its state.
LEMMA OutgoingFields ==
  ASSUME NEW c \in Core, hs[current[c]] \in HandshakeOf({"ipc"}),
         hs[current[c]].state \notin {"Ready", "Embryo"},
         current[c] = Idle[c] => current[c] \notin killed
  PROVE  /\ Outgoing(c).on_cpu = hs[current[c]].on_cpu
         /\ Outgoing(c).wake_pending = hs[current[c]].wake_pending
         /\ Outgoing(c).wait_on = hs[current[c]].wait_on
         /\ Outgoing(c).ipc_aborted = hs[current[c]].ipc_aborted
         /\ is_delivered(Outgoing(c)) <=> is_delivered(hs[current[c]])
         /\ Outgoing(c).state # "Embryo"
         /\ Outgoing(c).state = "Blocked" <=> hs[current[c]].state = "Blocked"
         /\ Outgoing(c).state \in {"Ready", "Running"} => hs[current[c]].state = "Running"
         /\ Requeues(c) <=> Outgoing(c).state = "Ready"
         /\ Requeues(c) => current[c] # Idle[c]
         /\ current[c] = Idle[c] => Outgoing(c).state = hs[current[c]].state
  BY Zenon DEF HandshakeOf, AfterKillCheck, requeued, preempt, is_delivered, Requeues, Outgoing

\* schedule() commits to next, which is off every core, fit to run and linked on
\* no other queue; q is what is left of the run queue.
Commits(c, next, q) ==
  /\ phase[c] \in {"run", "tail"} /\ SwitchTo(c, next, q) /\ inbox' = inbox
  /\ ~hs[next].on_cpu /\ hs[next].state \in {"Ready", "Running"}
  /\ \/ next \in Worker /\ hs[next].state = "Ready"
     \/ next = Idle[c] /\ AfterKillCheck(current[c]).state # "Running"
  /\ Range(q) = Range(runq[c]) \ {next} /\ IsInjective(q)
  /\ \A d \in Core : d # c => next \notin Range(runq[d])
  /\ \A d \in Core : next \notin Range(inbox[d])

\* schedule()'s switch from the outgoing thread to next keeps the invariant.
LEMMA SwitchStep ==
  ASSUME IInv, TypeInv', NEW c \in Core, NEW next \in threads, NEW q \in Seq(Thread),
         Commits(c, next, q)
  PROVE  IInv'
<1> DEFINE p == current[c]
           R == Requeues(c)
           g == Outgoing(c)
           n == switch_in(hs[next])
<1>0. /\ TypeOK /\ LinkedOnce /\ OneCorePerThread /\ LeavingInv /\ StandingInv
      /\ QueueInv /\ ReadyInv /\ IdleInv /\ ContextInv /\ SwitchesToSavedContext
      /\ DeliveryInv /\ ResumedIsDelivered /\ DeferredWakeIsRecorded
  BY Zenon DEF IInv
<1>r. /\ phase[c] \in {"run", "tail"} /\ SwitchTo(c, next, q) /\ inbox' = inbox
      /\ ~hs[next].on_cpu /\ hs[next].state \in {"Ready", "Running"}
      /\ next \in Worker \/ next = Idle[c]
  BY Zenon DEF Commits
<1>q. /\ Range(q) = Range(runq[c]) \ {next} /\ IsInjective(q)
      /\ \A d \in Core : d # c => next \notin Range(runq[d])
      /\ \A d \in Core : next \notin Range(inbox[d])
  BY Zenon DEF Commits
<1>1. /\ hs' = [hs EXCEPT ![p] = g, ![next] = n]
      /\ runq' = [runq EXCEPT ![c] = IF R THEN Append(q, p) ELSE q]
      /\ current' = [current EXCEPT ![c] = next]
      /\ switched_from' = [switched_from EXCEPT ![c] = p]
      /\ phase' = [phase EXCEPT ![c] = "switch"]
      /\ UNCHANGED <<threads, parked, ctx, killed>> /\ inbox' = inbox
  BY <1>r, Zenon DEF SwitchTo, Requeues, Outgoing
<1>2. /\ p \in Thread /\ p \in threads /\ hs[p].on_cpu /\ p # next /\ next \in Thread
      /\ hs[p] \in HandshakeOf({"ipc"}) /\ hs[next] \in HandshakeOf({"ipc"})
      /\ hs[p].state \notin {"Ready", "Embryo"}
      /\ switched_from[c] = NoTid
      /\ p = Idle[c] => p \notin killed
      /\ p \in IdleThread => p = Idle[c]
  <2>1. p \in Thread /\ next \in Thread
    BY <1>0, Zenon DEF TypeOK
  <2>2. hs[p].on_cpu /\ p \in threads /\ hs[p].state \notin {"Ready", "Embryo"}
    BY <1>0, <2>1, Zenon DEF StandingInv, Stands
  <2>3. hs[p] \in HandshakeOf({"ipc"}) /\ hs[next] \in HandshakeOf({"ipc"})
    BY <1>0, <2>1, Zenon DEF TypeOK
  <2>4. switched_from[c] = NoTid
    BY <1>0, <1>r, Zenon DEF LeavingInv
  <2>5. p = Idle[c] => p \notin killed
    BY <1>0, ThreadAssumption DEF TypeOK, Worker, IdleThread
  <2>6. p \in IdleThread => p = Idle[c]
    BY <1>0, Zenon DEF IdleInv, IdleThread, Stands
  <2> QED BY <1>r, <2>1, <2>2, <2>3, <2>4, <2>5, <2>6, Zenon
<1>3. /\ hs'[p] = g /\ hs'[next] = n
      /\ \A u \in Thread : u # p /\ u # next => hs'[u] = hs[u]
      /\ current'[c] = next /\ switched_from'[c] = p /\ phase'[c] = "switch"
      /\ runq'[c] = IF R THEN Append(q, p) ELSE q
      /\ \A d \in Core : d # c => /\ current'[d] = current[d] /\ phase'[d] = phase[d]
                                  /\ switched_from'[d] = switched_from[d]
                                  /\ runq'[d] = runq[d]
  BY <1>0, <1>1, <1>2 DEF TypeOK
<1>4. /\ g.on_cpu = hs[p].on_cpu /\ g.wake_pending = hs[p].wake_pending
      /\ g.wait_on = hs[p].wait_on /\ g.ipc_aborted = hs[p].ipc_aborted
      /\ is_delivered(g) <=> is_delivered(hs[p])
      /\ g.state # "Embryo"
      /\ g.state = "Blocked" <=> hs[p].state = "Blocked"
      /\ g.state \in {"Ready", "Running"} => hs[p].state = "Running"
      /\ R <=> g.state = "Ready"
      /\ R => p # Idle[c]
      /\ p = Idle[c] => g.state = hs[p].state
  BY <1>2, OutgoingFields, ZenonT(30)
<1>5. /\ n.state = "Running" /\ n.on_cpu /\ n.wake_pending = hs[next].wake_pending
      /\ n.ipc_aborted = hs[next].ipc_aborted /\ n.wait_on = hs[next].wait_on
      /\ is_delivered(n) <=> is_delivered(hs[next])
  BY <1>2, Zenon DEF switch_in, HandshakeOf, is_delivered
<1> HIDE DEF g, n, R
<1>6. \A d \in Core : /\ ~Stands(next, d)
                      /\ d # c => current[d] # p /\ switched_from[d] # p
  BY <1>0, <1>2, <1>r, Zenon DEF StandingInv, OneCorePerThread, Stands
<1>7. p \notin Range(runq[c]) /\ \A d \in Core : p \notin Range(runq[d]) \cup Range(inbox[d])
  BY <1>0, <1>2, Zenon DEF QueueInv
<1>8. /\ IsInjective(runq'[c])
      /\ Range(runq'[c]) = IF R THEN (Range(runq[c]) \ {next}) \cup {p}
                           ELSE Range(runq[c]) \ {next}
  <2>1. CASE R
    <3>1. p \notin Range(q)
      BY <1>7, <1>q, Zenon
    <3> QED BY <1>2, <1>3, <1>q, <2>1, <3>1, RangeAppend
  <2>2. CASE ~R
    BY <1>3, <1>q, <2>2, Zenon
  <2> QED BY <2>1, <2>2, Zenon
<1>9. \A u \in Thread, d \in Core :
         (current'[d] = u \/ switched_from'[d] = u) <=> Stands(u, d) \/ (u = next /\ d = c)
  BY <1>2, <1>3, ThreadAssumption DEF Stands
<1>10. LinkedOnce'
  <2> SUFFICES ASSUME NEW d \in Core, NEW e \in Core
               PROVE  /\ IsInjective(runq'[d]) /\ IsInjective(inbox'[d])
                      /\ Range(runq'[d]) \cap Range(inbox'[e]) = {}
                      /\ d # e => /\ Range(runq'[d]) \cap Range(runq'[e]) = {}
                                  /\ Range(inbox'[d]) \cap Range(inbox'[e]) = {}
    BY ZenonT(30) DEF LinkedOnce
  <2>1. \A f \in Core : /\ IsInjective(runq'[f]) /\ IsInjective(inbox'[f])
                        /\ Range(inbox'[f]) = Range(inbox[f])
                        /\ f # c => Range(runq'[f]) = Range(runq[f])
    BY <1>0, <1>1, <1>3, <1>8, Zenon DEF LinkedOnce
  <2>2. Range(runq'[c]) \subseteq Range(runq[c]) \cup {p}
    BY <1>8, Zenon
  <2>4. \A f \in Core : p \notin Range(runq[f]) /\ p \notin Range(inbox[f])
    BY <1>7, Zenon
  <2>5. Range(runq'[d]) \cap Range(inbox'[e]) = {}
    <3>1. Range(inbox'[e]) = Range(inbox[e]) /\ Range(runq[d]) \cap Range(inbox[e]) = {}
      BY <1>0, <2>1, Zenon DEF LinkedOnce
    <3>2. Range(runq'[d]) \subseteq Range(runq[d]) \cup {p}
      BY <2>1, <2>2, Zenon
    <3> QED BY <2>4, <3>1, <3>2, Zenon
  <2>6. ASSUME d # e PROVE Range(runq'[d]) \cap Range(runq'[e]) = {}
    <3>1. Range(runq[d]) \cap Range(runq[e]) = {}
      BY <1>0, <2>6, ZenonT(30) DEF LinkedOnce
    <3>2. CASE d = c
      <4>1. Range(runq'[e]) = Range(runq[e])
        BY <2>1, <2>6, <3>2, Zenon
      <4> QED BY <2>2, <2>4, <3>1, <3>2, <4>1, Zenon
    <3>3. CASE d # c
      <4>1. /\ Range(runq'[d]) = Range(runq[d])
            /\ Range(runq'[e]) \subseteq Range(runq[e]) \cup {p}
        BY <2>1, <2>2, <3>3, Zenon
      <4> QED BY <2>4, <3>1, <4>1, Zenon
    <3> QED BY <3>2, <3>3, Zenon
  <2>7. d # e => Range(inbox'[d]) \cap Range(inbox'[e]) = {}
    BY <1>0, <2>1, Zenon DEF LinkedOnce
  <2> QED BY <2>1, <2>5, <2>6, <2>7, Zenon
<1>11. OneCorePerThread'
  <2> SUFFICES ASSUME NEW t \in Thread, NEW d \in Core, NEW e \in Core,
                      current'[d] = t \/ switched_from'[d] = t,
                      current'[e] = t \/ switched_from'[e] = t
               PROVE  d = e
    BY Zenon DEF OneCorePerThread, Stands
  <2>1. (Stands(t, d) \/ (t = next /\ d = c)) /\ (Stands(t, e) \/ (t = next /\ e = c))
    BY <1>9, Zenon
  <2>2. CASE t = next
    BY <1>6, <2>1, <2>2, Zenon
  <2>3. CASE t # next
    BY <1>0, <2>1, <2>3, Zenon DEF OneCorePerThread
  <2> QED BY <2>2, <2>3, Zenon
<1>12. StandingInv'
  <2>1. ASSUME NEW t \in Thread
        PROVE  hs'[t].on_cpu <=> \E d \in Core : current'[d] = t \/ switched_from'[d] = t
    <3>1. hs[t].on_cpu <=> \E d \in Core : Stands(t, d)
      BY <1>0, Zenon DEF StandingInv
    <3>2. (\E d \in Core : current'[d] = t \/ switched_from'[d] = t)
             <=> hs[t].on_cpu \/ t = next
      BY <1>9, <3>1, Zenon
    <3> QED BY <1>2, <1>3, <1>4, <1>5, <3>2, ZenonT(30)
  <2>2. ASSUME NEW d \in Core
        PROVE  /\ switched_from'[d] # current'[d] /\ current'[d] \in threads'
               /\ hs'[current'[d]].state \notin {"Ready", "Embryo"}
               /\ switched_from'[d] # NoTid =>
                    /\ switched_from'[d] \in threads'
                    /\ hs'[switched_from'[d]].state # "Embryo"
    <3>1. CASE d = c
      <4>1. /\ current'[d] = next /\ switched_from'[d] = p /\ threads' = threads
            /\ hs'[next].state = "Running" /\ hs'[p].state # "Embryo"
        BY <1>1, <1>3, <1>4, <1>5, <3>1, ZenonT(30)
      <4> QED BY <1>2, <4>1, Zenon
    <3>2. CASE d # c
      <4>1. /\ current[d] \in Thread /\ current[d] # p /\ current[d] # next
            /\ switched_from[d] # p /\ switched_from[d] # next
            /\ switched_from[d] # NoTid => switched_from[d] \in Thread
        BY <1>0, <1>6, <3>2, Zenon DEF Stands, TypeOK
      <4>2. /\ current'[d] = current[d] /\ switched_from'[d] = switched_from[d]
            /\ threads' = threads /\ hs'[current[d]] = hs[current[d]]
            /\ switched_from[d] # NoTid => hs'[switched_from[d]] = hs[switched_from[d]]
        BY <1>1, <1>3, <3>2, <4>1, ZenonT(30)
      <4> QED BY <1>0, <4>2, Zenon DEF StandingInv
    <3> QED BY <3>1, <3>2, Zenon
  <2> QED BY <2>1, <2>2, Zenon DEF StandingInv, Stands
<1>13. QueueInv'
  <2> SUFFICES ASSUME NEW d \in Core, NEW u \in Thread
               PROVE  /\ u \in Range(runq'[d]) =>
                           /\ u \in Worker \cap threads'
                           /\ hs'[u].state = "Ready"
                           /\ hs'[u].on_cpu => switched_from'[d] = u
                      /\ u \in Range(inbox'[d]) =>
                           /\ u \in Worker \cap threads'
                           /\ hs'[u].state = "Ready" /\ ~hs'[u].on_cpu
    BY Zenon DEF QueueInv
  <2>1. CASE u = next
    <3>1. u \notin Range(runq'[d])
      BY <1>2, <1>3, <1>8, <1>q, <2>1
    <3>2. u \notin Range(inbox'[d])
      BY <1>1, <1>q, <2>1, Zenon
    <3> QED BY <3>1, <3>2, Zenon
  <2>2. CASE u = p
    <3>1. u \notin Range(inbox'[d]) /\ (u \in Range(runq'[d]) => d = c /\ R)
      BY <1>1, <1>3, <1>7, <1>8, <2>2
    <3>2. R => p \in Worker
      BY <1>2, <1>4, Zenon DEF Worker, IdleThread
    <3>3. threads' = threads /\ hs'[p] = g /\ switched_from'[c] = p
      BY <1>1, <1>3, ZenonT(30)
    <3> QED BY <1>2, <1>4, <2>2, <3>1, <3>2, <3>3, Zenon
  <2>3. CASE u # next /\ u # p
    <3>1. /\ u \in Range(runq'[d]) => u \in Range(runq[d])
          /\ u \in Range(inbox'[d]) => u \in Range(inbox[d])
          /\ hs'[u] = hs[u]
      <4>1. inbox' = inbox /\ hs'[u] = hs[u]
        BY <1>1, <1>3, <2>3, ZenonT(30)
      <4>2. CASE d = c
        BY <1>8, <2>3, <4>1, <4>2
      <4>3. CASE d # c
        BY <1>3, <4>1, <4>3, ZenonT(30)
      <4> QED BY <4>2, <4>3, Zenon
    <3>2. u \in Range(runq[d]) /\ hs[u].on_cpu => switched_from'[d] = u
      <4>1. u \in Range(runq[d]) /\ hs[u].on_cpu => switched_from[d] = u /\ u # NoTid
        BY <1>0, ThreadAssumption, Zenon DEF QueueInv
      <4> QED BY <1>2, <1>3, <4>1, Zenon
    <3> QED BY <1>0, <1>1, <3>1, <3>2, Zenon DEF QueueInv
  <2> QED BY <2>1, <2>2, <2>3, Zenon
<1>14. ReadyInv'
  <2> SUFFICES ASSUME NEW u \in Worker \cap threads', hs'[u].state = "Ready"
               PROVE  \E d \in Core : u \in Range(runq'[d]) \cup Range(inbox'[d])
    BY Zenon DEF ReadyInv, Queued
  <2>1. u # next /\ u \in Thread
    BY <1>3, <1>5, Zenon DEF Worker
  <2>2. CASE u = p
    BY <1>3, <1>4, <1>8, <2>2, Zenon
  <2>3. CASE u # p
    <3>1. PICK d \in Core : u \in Range(runq[d]) \cup Range(inbox[d])
      BY <1>0, <1>1, <1>3, <2>1, <2>3, ZenonT(30) DEF ReadyInv, Queued
    <3>2. u \in Range(runq'[d]) \cup Range(inbox'[d])
      BY <1>1, <1>3, <1>8, <2>1, <3>1
    <3> QED BY <3>2, Zenon
  <2> QED BY <2>2, <2>3, Zenon
<1>15. IdleInv'
  <2> SUFFICES ASSUME NEW d \in Core
               PROVE  /\ Idle[d] \in threads'
                      /\ hs'[Idle[d]].state \in {"Ready", "Running"}
                      /\ \A e \in Core :
                           current'[e] = Idle[d] \/ switched_from'[e] = Idle[d] => e = d
    BY Zenon DEF IdleInv, Stands
  <2>1. Idle[d] \in Thread /\ Idle[d] \in IdleThread
    BY ThreadAssumption, Zenon DEF IdleThread
  <2>2. Idle[d] = next => d = c
    BY <1>r, <2>1, ThreadAssumption, Zenon DEF Worker
  <2>3. Idle[d] = p => d = c
    BY <1>2, <2>1, ThreadAssumption, Zenon
  <2>4. Idle[d] \in threads /\ hs[Idle[d]].state \in {"Ready", "Running"}
        /\ \A e \in Core : Stands(Idle[d], e) => e = d
    BY <1>0, Zenon DEF IdleInv
  <2>5. hs'[Idle[d]].state \in {"Ready", "Running"}
    <3>1. CASE Idle[d] = p
      BY <1>3, <1>4, <2>3, <2>4, <3>1, Zenon
    <3>2. CASE Idle[d] = next
      BY <1>3, <1>5, <3>2, Zenon
    <3>3. CASE Idle[d] # p /\ Idle[d] # next
      BY <1>3, <2>1, <2>4, <3>3, Zenon
    <3> QED BY <3>1, <3>2, <3>3, Zenon
  <2> QED BY <1>1, <1>9, <2>1, <2>2, <2>4, <2>5, Zenon
<1>16. ContextInv' /\ SwitchesToSavedContext'
  <2>1. \A u \in threads' : ~hs'[u].on_cpu /\ hs'[u].state # "Embryo" => ctx'[u]
    BY <1>0, <1>1, <1>2, <1>3, <1>4, <1>5, ZenonT(30) DEF ContextInv, TypeOK
  <2>2. \A d \in Core : /\ phase'[d] # "switch" => ~ctx'[current'[d]]
                        /\ phase'[d] = "landed" => ctx'[switched_from'[d]]
    BY <1>0, <1>1, <1>3 DEF ContextInv
  <2>3. ctx[next] /\ ~ctx[p]
    BY <1>0, <1>2, <1>r, Zenon DEF ContextInv
  <2>4. \A d \in Core : phase'[d] = "switch" => ctx'[current'[d]] /\ ~ctx'[switched_from'[d]]
    BY <1>0, <1>1, <1>3, <2>3 DEF SwitchesToSavedContext
  <2> QED BY <2>1, <2>2, <2>4, Zenon DEF ContextInv, SwitchesToSavedContext
<1>17. DeliveryInv'
  <2> SUFFICES ASSUME NEW u \in Thread
               PROVE  /\ hs'[u].wake_pending =>
                            hs'[u].state = "Blocked" /\ hs'[u].on_cpu /\ is_delivered(hs'[u])
                      /\ hs'[u].state = "Blocked" => parked[u] /\ hs'[u].wait_on # NoWait
                      /\ ~parked[u] => ~hs'[u].ipc_aborted
                      /\ hs'[u].state = "Embryo" => ~parked[u]
                      /\ u \notin threads => hs'[u] = embryo
    BY <1>1, ZenonT(30) DEF DeliveryInv, FlagsOk
  <2>1. /\ hs[u].wake_pending => hs[u].state = "Blocked" /\ hs[u].on_cpu /\ is_delivered(hs[u])
        /\ hs[u].state = "Blocked" => parked[u] /\ hs[u].wait_on # NoWait
        /\ ~parked[u] => ~hs[u].ipc_aborted
        /\ hs[u].state = "Embryo" => ~parked[u]
        /\ u \notin threads => hs[u] = embryo
    BY <1>0, Zenon DEF DeliveryInv, FlagsOk
  <2>2. CASE u = p
    BY <1>2, <1>3, <1>4, <2>1, <2>2, ZenonT(30)
  <2>3. CASE u = next
    <3>1. hs'[u] = n /\ n.wake_pending = hs[u].wake_pending /\ n.ipc_aborted = hs[u].ipc_aborted
      BY <1>3, <1>5, <2>3, ZenonT(30)
    <3>2. ~hs[u].on_cpu /\ u \in threads
      BY <1>r, <2>3, Zenon
    <3> QED BY <1>5, <2>1, <3>1, <3>2, Zenon
  <2>4. CASE u # p /\ u # next
    BY <1>3, <2>1, <2>4, Zenon
  <2> QED BY <2>2, <2>3, <2>4, Zenon
<1>18. ResumedIsDelivered'
  <2>1. parked[p] /\ g.state \in {"Ready", "Running"} => is_delivered(g)
    BY <1>0, <1>2, <1>4, Zenon DEF ResumedIsDelivered
  <2>2. parked[next] => is_delivered(n)
    BY <1>0, <1>5, <1>r, Zenon DEF ResumedIsDelivered
  <2> QED BY <1>0, <1>1, <1>3, <2>1, <2>2, ZenonT(30) DEF ResumedIsDelivered, TypeOK
<1>19. DeferredWakeIsRecorded'
  <2> SUFFICES ASSUME NEW t \in threads', hs'[t].state = "Blocked", is_delivered(hs'[t])
               PROVE  /\ hs'[t].wake_pending
                      /\ \E d \in Core : current'[d] = t \/ switched_from'[d] = t
    BY Zenon DEF DeferredWakeIsRecorded, Stands
  <2>1. t # next /\ t \in Thread /\ t \in threads
    BY <1>0, <1>1, <1>3, <1>5, Zenon DEF TypeOK
  <2>2. /\ hs[t].state = "Blocked" /\ is_delivered(hs[t])
        /\ hs'[t].wake_pending = hs[t].wake_pending
    BY <1>3, <1>4, <2>1, Zenon
  <2>3. hs[t].wake_pending /\ \E d \in Core : Stands(t, d)
    BY <1>0, <2>1, <2>2, Zenon DEF DeferredWakeIsRecorded
  <2> QED BY <1>9, <2>1, <2>2, <2>3, Zenon
<1> QED BY <1>10, <1>11, <1>12, <1>13, <1>14, <1>15, <1>16, <1>17, <1>18, <1>19, Zenon
        DEF IInv, TypeInv

\* The decision of schedule(): no switch, the head of the queue, or idle.
LEMMA DecideCommits ==
  ASSUME IInv, NEW c \in Core, phase[c] \in {"run", "tail"}, decide(c), inbox' = inbox
  PROVE  KeepCurrent(c) \/ \E next \in threads, q \in Seq(Thread) : Commits(c, next, q)
<1>0. TypeOK /\ LinkedOnce /\ StandingInv /\ QueueInv /\ IdleInv /\ LeavingInv
  BY Zenon DEF IInv
<1>d. phase[c] \in {"run", "tail"} /\ inbox' = inbox
  BY Zenon
<1>2. CASE runq[c] # <<>> /\ SwitchTo(c, Head(runq[c]), Tail(runq[c]))
  <2> DEFINE n == Head(runq[c])
             q == Tail(runq[c])
  <2>1. runq[c] \in Seq(Thread) /\ q \in Seq(Thread) /\ n \in Thread
    BY <1>0, <1>2 DEF TypeOK
  <2>2. n \in Range(runq[c]) /\ Range(q) = Range(runq[c]) \ {n} /\ IsInjective(q)
    BY <1>0, <1>2, <2>1, RangeTail, Zenon DEF LinkedOnce
  <2>3. switched_from[c] = NoTid
    BY <1>0, Zenon DEF LeavingInv
  <2>4. n \in Worker /\ n \in threads /\ hs[n].state = "Ready" /\ ~hs[n].on_cpu
    BY <1>0, <2>1, <2>2, <2>3, ThreadAssumption, Zenon DEF QueueInv
  <2>5. /\ \A d \in Core : d # c => n \notin Range(runq[d])
        /\ \A d \in Core : n \notin Range(inbox[d])
    BY <1>0, <2>2, Zenon DEF LinkedOnce
  <2>6. SwitchTo(c, n, q)
    BY <1>2, Zenon
  <2> HIDE DEF n, q
  <2>7. Commits(c, n, q)
    BY <1>d, <2>2, <2>4, <2>5, <2>6, Zenon DEF Commits
  <2> QED BY <2>1, <2>4, <2>7, Zenon
<1>3. CASE /\ runq[c] = <<>> /\ AfterKillCheck(current[c]).state # "Running"
           /\ SwitchTo(c, Idle[c], <<>>)
  <2> DEFINE n == Idle[c]
  <2>1. n \in Thread /\ n \in threads /\ n \notin killed /\ n \notin Worker
    BY <1>0, ThreadAssumption DEF IdleInv, TypeOK, Worker, IdleThread
  <2>2. hs[n].state \in {"Ready", "Running"}
    BY <1>0, Zenon DEF IdleInv
  <2>3. current[c] # n
    BY <1>0, <1>3, <2>1, <2>2, Zenon DEF AfterKillCheck, StandingInv
  <2>4. switched_from[c] = NoTid
    BY <1>0, Zenon DEF LeavingInv
  <2>5. \A d \in Core : ~Stands(n, d)
    BY <1>0, <2>1, <2>3, <2>4, ThreadAssumption, Zenon DEF IdleInv, Stands
  <2>6. ~hs[n].on_cpu
    BY <1>0, <2>1, <2>5, Zenon DEF StandingInv
  <2>7. \A d \in Core : n \notin Range(runq[d]) /\ n \notin Range(inbox[d])
    BY <1>0, <2>1, Zenon DEF QueueInv
  <2>8. /\ <<>> \in Seq(Thread) /\ Range(<<>>) = Range(runq[c]) \ {n}
        /\ IsInjective(<<>>)
    BY <1>3, RangeEmpty
  <2>9. Commits(c, n, <<>>)
    BY <1>3, <1>d, <2>2, <2>6, <2>7, <2>8, Zenon DEF Commits
  <2> HIDE DEF n
  <2> QED BY <2>1, <2>8, <2>9, ZenonT(30)
<1> QED BY <1>2, <1>3, Zenon DEF decide

\* Whatever the decision of schedule(), the invariant is preserved.
LEMMA DecideStep ==
  ASSUME IInv, TypeInv', NEW c \in Core, phase[c] \in {"run", "tail"}, decide(c),
         inbox' = inbox
  PROVE  IInv'
<1>0. TypeOK
  BY Zenon DEF IInv
<1>1. CASE KeepCurrent(c)
  <2>1. UNCHANGED <<threads, hs, parked, ctx, current, switched_from, runq, inbox>>
    BY <1>1, Zenon DEF KeepCurrent, threadVars
  <2>2. \A d \in Core : NoSwitch(d)
    BY <1>0, <1>1, Zenon DEF KeepCurrent, NoSwitch, TypeOK
  <2> QED BY <2>1, <2>2, QuietStep, Zenon
<1>2. CASE \E next \in threads, q \in Seq(Thread) : Commits(c, next, q)
  BY <1>2, SwitchStep, Zenon
<1> QED BY <1>1, <1>2, DecideCommits, Zenon

\* The two callers of the decision.
LEMMA ScheduleActions ==
  ASSUME IInv, TypeInv', NEW c \in Core, schedule(c) \/ preempt_if_needed(c)
  PROVE  IInv'
<1>1. CASE schedule(c)
  BY <1>1, DecideStep, Zenon DEF schedule
<1>2. CASE preempt_if_needed(c) /\ need_resched[c]
  BY <1>2, DecideStep, Zenon DEF preempt_if_needed
<1>3. CASE preempt_if_needed(c) /\ ~need_resched[c]
  <2>1. UNCHANGED <<threads, hs, parked, ctx, current, switched_from, runq, inbox>>
    BY <1>3, Zenon DEF preempt_if_needed, threadVars
  <2>2. \A d \in Core : NoSwitch(d)
    BY <1>3, Zenon DEF preempt_if_needed, NoSwitch, IInv, TypeOK
  <2> QED BY <2>1, <2>2, QuietStep, Zenon
<1> QED BY <1>1, <1>2, <1>3, Zenon

------------------------------------------------------------------------------
(* The theorems.                                                            *)

\* Every step of the scheduler preserves the invariant.
LEMMA NextIInv == IInv /\ [Next]_vars => IInv'
<1> SUFFICES ASSUME IInv, [Next]_vars PROVE IInv'
  BY Zenon
<1>1. TypeInv'
  BY NextTypeInv, Zenon DEF IInv, TypeInv
<1>2. CASE UNCHANGED vars
  <2>1. UNCHANGED <<threads, hs, parked, ctx, current, switched_from, runq, inbox, phase>>
    BY <1>2, Zenon DEF vars, threadVars, coreVars
  <2>2. \A c \in Core : NoSwitch(c)
    BY <2>1, Zenon DEF NoSwitch
  <2> QED BY <1>1, <2>1, <2>2, QuietStep, Zenon
<1>3. ASSUME NEW c \in Core, CoreStep(c) PROVE IInv'
  BY <1>1, <1>3, QuietActions, CurrentActions, ScheduleActions, SwitchToAction,
     FinishAction, RescheduleAction, Zenon DEF CoreStep
<1>4. ASSUME NEW c \in Core, NEW t \in Worker, ThreadStep(c, t) PROVE IInv'
  BY <1>1, <1>4, QuietActions, StartActions, TableActions, WakeActions, Zenon DEF ThreadStep
<1> QED BY <1>2, <1>3, <1>4, Zenon DEF Next

\* What the invariant says of the properties the runs check.
LEMMA IInvImplies ==
  ASSUME IInv
  PROVE  /\ OneCorePerThread /\ LinkedOnce /\ ReadyIffQueued /\ SwitchesToSavedContext
         /\ ScheduleNeverPanics /\ ReapedIsUnreferenced /\ ResumedIsDelivered
         /\ DeferredWakeIsRecorded
<1>0. /\ TypeOK /\ LinkedOnce /\ OneCorePerThread /\ LeavingInv /\ StandingInv
      /\ QueueInv /\ ReadyInv /\ IdleInv /\ SwitchesToSavedContext
      /\ ResumedIsDelivered /\ DeferredWakeIsRecorded /\ DeliveryInv
  BY Zenon DEF IInv
<1>1. ReadyIffQueued
  BY <1>0, Zenon DEF ReadyIffQueued, QueueInv, ReadyInv, Queued, Worker
<1>2. ReapedIsUnreferenced
  BY <1>0, ThreadAssumption DEF ReapedIsUnreferenced, QueueInv, Queued, StandingInv, Stands, TypeOK
<1>3. ScheduleNeverPanics
  <2> SUFFICES ASSUME NEW c \in Core, phase[c] \in {"run", "tail", "poke"}
               PROVE  /\ current[c] \notin Range(runq[c])
                      /\ runq[c] # <<>> => switch_in_asserts(hs[Head(runq[c])])
                      /\ current[c] # Idle[c] => switch_in_asserts(hs[Idle[c]])
                      /\ current[c] = Idle[c] => hs[Idle[c]].state = "Running"
    BY Zenon DEF ScheduleNeverPanics
  <2>1. switched_from[c] = NoTid /\ current[c] \in Thread /\ Idle[c] \in Thread
    BY <1>0, ThreadAssumption, ZenonT(30) DEF LeavingInv, TypeOK
  <2>2. current[c] \notin Range(runq[c])
    BY <1>0, <2>1, Zenon DEF QueueInv, StandingInv
  <2>3. runq[c] # <<>> => switch_in_asserts(hs[Head(runq[c])])
    <3> SUFFICES ASSUME runq[c] # <<>> PROVE switch_in_asserts(hs[Head(runq[c])])
      BY Zenon
    <3>1. runq[c] \in Seq(Thread) /\ IsInjective(runq[c])
      BY <1>0, Zenon DEF TypeOK, LinkedOnce
    <3>2. Head(runq[c]) \in Range(runq[c]) /\ Head(runq[c]) \in Thread
      BY <3>1, RangeTail
    <3> QED BY <1>0, <2>1, <3>2, ThreadAssumption, Zenon DEF QueueInv, switch_in_asserts
  <2>4. current[c] # Idle[c] => switch_in_asserts(hs[Idle[c]])
    <3> SUFFICES ASSUME current[c] # Idle[c] PROVE switch_in_asserts(hs[Idle[c]])
      BY Zenon
    <3>1. \A d \in Core : ~Stands(Idle[c], d)
      BY <1>0, <2>1, ThreadAssumption, Zenon DEF IdleInv, Stands
    <3> QED BY <1>0, <2>1, <3>1, Zenon DEF StandingInv, IdleInv, switch_in_asserts
  <2>5. current[c] = Idle[c] => hs[Idle[c]].state = "Running"
    BY <1>0, Zenon DEF IdleInv, StandingInv
  <2> QED BY <2>2, <2>3, <2>4, <2>5, Zenon
<1> QED BY <1>0, <1>1, <1>2, <1>3, Zenon

\* The inductive invariant holds of every behaviour of the scheduler.
THEOREM Invariant == Spec => []IInv
  BY InitIInv, NextIInv, PTL DEF Spec

\* No thread runs on, or is leaving, two cores (schedule against a steal or a
\* wake on another core).
THEOREM OneCore == Spec => []OneCorePerThread
<1>1. IInv => OneCorePerThread
  BY IInvImplies, Zenon
<1> QED BY <1>1, Invariant, PTL

\* The intrusive link of a thread is on one queue at most (push_back's contract).
THEOREM LinkUsedOnce == Spec => []LinkedOnce
<1>1. IInv => LinkedOnce
  BY IInvImplies, Zenon
<1> QED BY <1>1, Invariant, PTL

\* Ready is exactly "on a queue": no wake, steal, preemption or reap loses a
\* thread or leaves a stale link.
THEOREM ReadyIsQueued == Spec => []ReadyIffQueued
<1>1. IInv => ReadyIffQueued
  BY IInvImplies, Zenon
<1> QED BY <1>1, Invariant, PTL

\* schedule() switches only to a saved context.
THEOREM SavedContext == Spec => []SwitchesToSavedContext
<1>1. IInv => SwitchesToSavedContext
  BY IInvImplies, Zenon
<1> QED BY <1>1, Invariant, PTL

\* The assertions and panics of schedule() and switch_in never fire.
THEOREM NeverPanics == Spec => []ScheduleNeverPanics
<1>1. IInv => ScheduleNeverPanics
  BY IInvImplies, Zenon
<1> QED BY <1>1, Invariant, PTL

\* A reaped control block is on no queue and on no core.
THEOREM ReapedUnreferenced == Spec => []ReapedIsUnreferenced
<1>1. IInv => ReapedIsUnreferenced
  BY IInvImplies, Zenon
<1> QED BY <1>1, Invariant, PTL

\* A blocking call returns only with something delivered.
THEOREM ResumedDelivered == Spec => []ResumedIsDelivered
<1>1. IInv => ResumedIsDelivered
  BY IInvImplies, Zenon
<1> QED BY <1>1, Invariant, PTL

\* A wake that meets a thread still switching out is recorded for finish_switch.
THEOREM DeferredWakeKept == Spec => []DeferredWakeIsRecorded
<1>1. IInv => DeferredWakeIsRecorded
  BY IInvImplies, Zenon
<1> QED BY <1>1, Invariant, PTL
==============================================================================
