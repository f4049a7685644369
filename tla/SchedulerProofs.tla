--------------------------- MODULE SchedulerProofs ---------------------------
(* Proofs about Scheduler, for every number of cores and threads: queues as *)
(* sets of members, the types, the inductive invariant, and the steps that  *)
(* place, wake, park, start, create, reap and switch to a thread.           *)
EXTENDS Scheduler, Integers, TLAPS

------------------------------------------------------------------------------
(* The intrusive FIFO is a sequence in the model; the proofs reason about   *)
(* its members.                                                             *)

\* push_back adds one member, and keeps the members distinct when it is new.
LEMMA RangeAppend ==
  ASSUME NEW S, NEW q \in Seq(S), NEW x \in S
  PROVE  /\ Range(Append(q, x)) = Range(q) \cup {x}
         /\ IsInjective(q) /\ x \notin Range(q) => IsInjective(Append(q, x))
  BY DEF Range, IsInjective

\* pop_front takes exactly the head out of a queue of distinct members.
LEMMA RangeTail ==
  ASSUME NEW S, NEW q \in Seq(S), q # <<>>, IsInjective(q)
  PROVE  /\ Head(q) \in Range(q)
         /\ Range(Tail(q)) = Range(q) \ {Head(q)}
         /\ IsInjective(Tail(q))
<1> USE DEF Range, IsInjective
<1>1. Len(q) > 0 /\ Head(q) = q[1]
  OBVIOUS
<1>2. Len(Tail(q)) = Len(q) - 1 /\ \A i \in 1..Len(q)-1 : Tail(q)[i] = q[i+1]
  OBVIOUS
<1>3. Head(q) \in Range(q)
  BY <1>1
<1>4. IsInjective(Tail(q))
  BY <1>2
<1>5. Range(Tail(q)) \subseteq Range(q) \ {Head(q)}
  BY <1>1, <1>2
<1>6. ASSUME NEW i \in 1..Len(q), q[i] # Head(q) PROVE q[i] \in Range(Tail(q))
  <2>1. i - 1 \in 1..Len(q)-1
    BY <1>1, <1>6
  <2>2. Tail(q)[i - 1] = q[i] /\ i - 1 \in DOMAIN Tail(q)
    BY <1>2, <2>1
  <2> QED BY <2>2, ZenonT(30)
<1> QED BY <1>3, <1>4, <1>5, <1>6

\* Draining one queue behind another joins their members.
LEMMA RangeConcat ==
  ASSUME NEW S, NEW q \in Seq(S), NEW r \in Seq(S)
  PROVE  /\ Range(q \o r) = Range(q) \cup Range(r)
         /\ IsInjective(q) /\ IsInjective(r) /\ Range(q) \cap Range(r) = {}
              => IsInjective(q \o r)
<1>1. Range(q \o r) = Range(q) \cup Range(r)
  <2>1. \A i \in 1..Len(q) : i \in DOMAIN (q \o r) /\ (q \o r)[i] = q[i]
    OBVIOUS
  <2>2. \A i \in 1..Len(r) : Len(q) + i \in DOMAIN (q \o r) /\ (q \o r)[Len(q) + i] = r[i]
    OBVIOUS
  <2>3. \A i \in DOMAIN (q \o r) :
           \/ i \in 1..Len(q) /\ (q \o r)[i] = q[i]
           \/ i - Len(q) \in 1..Len(r) /\ (q \o r)[i] = r[i - Len(q)]
    OBVIOUS
  <2>4. ASSUME NEW x \in Range(q \o r) PROVE x \in Range(q) \cup Range(r)
    BY <2>3, <2>4 DEF Range
  <2>5. ASSUME NEW x \in Range(q) PROVE x \in Range(q \o r)
    <3>1. PICK i \in 1..Len(q) : x = q[i]
      BY <2>5 DEF Range
    <3>2. i \in DOMAIN (q \o r) /\ (q \o r)[i] = x
      BY <2>1, <3>1, Zenon
    <3> QED BY <3>2, Zenon DEF Range
  <2>6. ASSUME NEW x \in Range(r) PROVE x \in Range(q \o r)
    <3>1. PICK i \in 1..Len(r) : x = r[i]
      BY <2>6 DEF Range
    <3>2. Len(q) + i \in DOMAIN (q \o r) /\ (q \o r)[Len(q) + i] = x
      BY <2>2, <3>1, Zenon
    <3> QED BY <3>2, ZenonT(30) DEF Range
  <2> QED BY <2>4, <2>5, <2>6, ZenonT(30)
<1>2. ASSUME IsInjective(q), IsInjective(r), Range(q) \cap Range(r) = {}
      PROVE  IsInjective(q \o r)
  <2>1. DOMAIN (q \o r) = 1..(Len(q) + Len(r))
    OBVIOUS
  <2>2. ASSUME NEW i \in 1..(Len(q) + Len(r))
        PROVE  \/ i \in 1..Len(q) /\ (q \o r)[i] = q[i] /\ q[i] \in Range(q)
               \/ /\ i - Len(q) \in 1..Len(r) /\ (q \o r)[i] = r[i - Len(q)]
                  /\ r[i - Len(q)] \in Range(r)
    BY DEF Range
  <2>3. ASSUME NEW i \in 1..(Len(q) + Len(r)), NEW j \in 1..(Len(q) + Len(r)),
               (q \o r)[i] = (q \o r)[j]
        PROVE  i = j
    <3>1. CASE i \in 1..Len(q) /\ j \in 1..Len(q)
      BY <1>2, <2>3, <3>1 DEF IsInjective
    <3>2. CASE i - Len(q) \in 1..Len(r) /\ j - Len(q) \in 1..Len(r)
      <4>1. r[i - Len(q)] = r[j - Len(q)]
        BY <2>3, <3>2
      <4>2. i - Len(q) = j - Len(q)
        BY <1>2, <3>2, <4>1 DEF IsInjective
      <4> QED BY <4>2
    <3>3. CASE i \in 1..Len(q) /\ j - Len(q) \in 1..Len(r)
      <4>1. (q \o r)[i] \in Range(q)
        BY <3>3 DEF Range
      <4>2. (q \o r)[j] \in Range(r)
        BY <3>3 DEF Range
      <4> QED BY <1>2, <2>3, <4>1, <4>2, Zenon
    <3>4. CASE i - Len(q) \in 1..Len(r) /\ j \in 1..Len(q)
      <4>1. (q \o r)[j] \in Range(q)
        BY <3>4 DEF Range
      <4>2. (q \o r)[i] \in Range(r)
        BY <3>4 DEF Range
      <4> QED BY <1>2, <2>3, <4>1, <4>2, Zenon
    <3> QED BY <2>2, <3>1, <3>2, <3>3, <3>4, Zenon
  <2> QED BY <2>1, <2>3, Zenon DEF IsInjective
<1> QED BY <1>1, <1>2, Zenon

\* An empty queue has no members.
LEMMA RangeEmpty == Range(<<>>) = {} /\ IsInjective(<<>>)
  BY DEF Range, IsInjective

------------------------------------------------------------------------------
(* Types.                                                                   *)

\* The initial state, left by sched::init and adopt_secondary_idle, is well
\* typed.
LEMMA InitTypeOK == Init => TypeOK
  BY CoreAssumption, ThreadAssumption
  DEF Init, TypeOK, IdleThread, Worker, HandshakeOf, RunState, Fresh, on_cpu_now,
      ready, embryo, Phase

\* The handshake transitions stay within the handshake's type.
LEMMA HandshakeTypes ==
  ASSUME NEW h \in HandshakeOf({"ipc"})
  PROVE  /\ park(h, "ipc") \in HandshakeOf({"ipc"})
         /\ serve(h) \in HandshakeOf({"ipc"})
         /\ abort(h) \in HandshakeOf({"ipc"})
         /\ take_aborted(h) \in HandshakeOf({"ipc"})
         /\ try_wake(h) \in HandshakeOf({"ipc"})
         /\ switch_in(h) \in HandshakeOf({"ipc"})
         /\ preempt(h) \in HandshakeOf({"ipc"})
         /\ finish_switch(h) \in HandshakeOf({"ipc"})
         /\ \A s \in RunState : [h EXCEPT !.state = s] \in HandshakeOf({"ipc"})
<1> USE DEF HandshakeOf, RunState
<1>1. park(h, "ipc") \in HandshakeOf({"ipc"}) /\ serve(h) \in HandshakeOf({"ipc"})
  BY ZenonT(30) DEF park, serve
<1>2. abort(h) \in HandshakeOf({"ipc"}) /\ take_aborted(h) \in HandshakeOf({"ipc"})
  BY ZenonT(30) DEF abort, take_aborted
<1>3. try_wake(h) \in HandshakeOf({"ipc"}) /\ switch_in(h) \in HandshakeOf({"ipc"})
  BY ZenonT(30) DEF try_wake, switch_in
<1>4. preempt(h) \in HandshakeOf({"ipc"}) /\ finish_switch(h) \in HandshakeOf({"ipc"})
  BY ZenonT(30) DEF preempt, finish_switch
<1>5. \A s \in RunState : [h EXCEPT !.state = s] \in HandshakeOf({"ipc"})
  BY Zenon
<1> QED BY <1>1, <1>2, <1>3, <1>4, <1>5, Zenon

\* The fresh handshakes are in it as well.
LEMMA FreshTypes == ready \in HandshakeOf({"ipc"}) /\ embryo \in HandshakeOf({"ipc"})
  BY Zenon DEF HandshakeOf, RunState, Fresh, ready, embryo

\* place_on keeps the queues sequences of threads.
LEMMA PlaceTypes ==
  ASSUME TypeOK, NEW c \in Core, NEW target \in Core, NEW t \in Thread,
         place_on(c, target, t)
  PROVE  /\ runq' \in [Core -> Seq(Thread)]
         /\ inbox' \in [Core -> Seq(Thread)]
<1> DEFINE A(q) == Append(q, t)
<1>1. \A q \in Seq(Thread) : A(q) \in Seq(Thread)
  OBVIOUS
<1>2. CASE target = c
  <2>1. runq' = [runq EXCEPT ![c] = A(runq[c])] /\ inbox' = inbox
    BY <1>2, Zenon DEF place_on
  <2> HIDE DEF A
  <2> QED BY <1>1, <2>1, Zenon DEF TypeOK
<1>3. CASE target # c
  <2>1. inbox' = [inbox EXCEPT ![target] = A(inbox[target])] /\ runq' = runq
    BY <1>3, Zenon DEF place_on
  <2> HIDE DEF A
  <2> QED BY <1>1, <2>1, Zenon DEF TypeOK
<1> QED BY <1>2, <1>3, Zenon

\* schedule()'s decision keeps what it changes in type.
LEMMA DecideTypes ==
  ASSUME TypeOK, NEW c \in Core, decide(c)
  PROVE  /\ hs' \in [Thread -> HandshakeOf({"ipc"})]
         /\ runq' \in [Core -> Seq(Thread)]
         /\ current' \in [Core -> Thread]
         /\ switched_from' \in [Core -> Thread \cup {NoTid}]
         /\ phase' \in [Core -> Phase]
         /\ UNCHANGED <<threads, parked, ctx, killed, owes>>
<1>1. AfterKillCheck(current[c]) \in HandshakeOf({"ipc"})
  BY HandshakeTypes, ZenonT(30) DEF TypeOK, AfterKillCheck, RunState
<1>2. CASE KeepCurrent(c)
  BY <1>2, Zenon DEF TypeOK, KeepCurrent, threadVars, Phase
<1>3. ASSUME NEW next \in Thread, NEW q \in Seq(Thread), SwitchTo(c, next, q)
      PROVE  /\ hs' \in [Thread -> HandshakeOf({"ipc"})]
             /\ runq' \in [Core -> Seq(Thread)]
             /\ current' \in [Core -> Thread]
             /\ switched_from' \in [Core -> Thread \cup {NoTid}]
             /\ phase' \in [Core -> Phase]
             /\ UNCHANGED <<threads, parked, ctx, killed, owes>>
  <2> DEFINE h == AfterKillCheck(current[c])
             p == IF requeued(c, h) THEN preempt(h) ELSE h
             r == IF requeued(c, h) THEN Append(q, current[c]) ELSE q
             hp == [hs EXCEPT ![current[c]] = p]
  <2>1. p \in HandshakeOf({"ipc"}) /\ r \in Seq(Thread)
    BY <1>1, HandshakeTypes DEF TypeOK
  <2>2. /\ hs' = [hp EXCEPT ![next] = switch_in(hs[next])]
        /\ runq' = [runq EXCEPT ![c] = r]
        /\ current' = [current EXCEPT ![c] = next]
        /\ switched_from' = [switched_from EXCEPT ![c] = current[c]]
        /\ phase' = [phase EXCEPT ![c] = "switch"]
        /\ UNCHANGED <<threads, parked, ctx, killed, owes>>
    BY <1>3, Zenon DEF SwitchTo
  <2>3. hp \in [Thread -> HandshakeOf({"ipc"})]
    <3> HIDE DEF p
    <3> QED BY <2>1, Zenon DEF TypeOK
  <2> HIDE DEF p, r, hp
  <2>4. switch_in(hs[next]) \in HandshakeOf({"ipc"})
    BY HandshakeTypes, Zenon DEF TypeOK
  <2> QED BY <2>1, <2>2, <2>3, <2>4, Zenon DEF TypeOK, Phase
<1>4. CASE runq[c] # <<>> /\ SwitchTo(c, Head(runq[c]), Tail(runq[c]))
  <2>1. Head(runq[c]) \in Thread /\ Tail(runq[c]) \in Seq(Thread)
    BY <1>4 DEF TypeOK
  <2> QED BY <1>3, <1>4, <2>1, ZenonT(30)
<1>5. CASE SwitchTo(c, Idle[c], <<>>)
  <2>1. Idle[c] \in Thread /\ <<>> \in Seq(Thread)
    BY ThreadAssumption
  <2> QED BY <1>3, <1>5, <2>1, ZenonT(30)
<1> QED BY <1>2, <1>4, <1>5, Zenon DEF decide

\* The type invariant needs LeavingInv beside it: finish_switch pushes the
\* thread switched_from names, so that slot has to hold a thread there.
TypeInv == TypeOK /\ LeavingInv

\* Every step keeps every variable in its type.
LEMMA NextTypeInv == TypeInv /\ [Next]_vars => TypeInv'
<1> SUFFICES ASSUME TypeOK, LeavingInv, [Next]_vars PROVE TypeOK' /\ LeavingInv'
  BY Zenon DEF TypeInv
<1> USE CoreAssumption, ThreadAssumption
<1>0. Idle \in [Core -> Thread] /\ Worker \subseteq Thread /\ UserThread \subseteq Thread
  BY Zenon DEF Worker
<1>1. ASSUME NEW c \in Core, send_reschedule(c) PROVE TypeOK' /\ LeavingInv'
  BY <1>1, Zenon DEF TypeOK, LeavingInv, send_reschedule
<1>2. ASSUME NEW c \in Core, Block(c) PROVE TypeOK' /\ LeavingInv'
  BY <1>2, HandshakeTypes, Zenon DEF TypeOK, LeavingInv, Block, coreVars
<1>3. ASSUME NEW c \in Core, Unblock(c) PROVE TypeOK' /\ LeavingInv'
  BY <1>3, HandshakeTypes, Zenon DEF TypeOK, LeavingInv, Unblock, coreVars
<1>4. ASSUME NEW c \in Core, depart(c) PROVE TypeOK' /\ LeavingInv'
  BY <1>4, HandshakeTypes, ZenonT(30) DEF TypeOK, LeavingInv, depart, coreVars, RunState
<1>5. ASSUME NEW c \in Core, decide(c), phase[c] \in {"run", "tail"} PROVE LeavingInv'
  <2>1. CASE KeepCurrent(c)
    BY <1>5, <2>1 DEF TypeOK, LeavingInv, KeepCurrent
  <2>2. ASSUME NEW next, NEW q, SwitchTo(c, next, q) PROVE LeavingInv'
    <3>1. /\ switched_from' = [switched_from EXCEPT ![c] = current[c]]
          /\ phase' = [phase EXCEPT ![c] = "switch"]
      BY <2>2, Zenon DEF SwitchTo
    <3> QED BY <3>1 DEF TypeOK, LeavingInv
  <2> QED BY <1>5, <2>1, <2>2, Zenon DEF decide
<1>6. ASSUME NEW c \in Core, schedule(c) PROVE TypeOK' /\ LeavingInv'
  BY <1>5, <1>6, DecideTypes DEF TypeOK, schedule
<1>7. ASSUME NEW c \in Core, preempt_if_needed(c) PROVE TypeOK' /\ LeavingInv'
  <2>1. CASE need_resched[c]
    BY <1>5, <1>7, <2>1, DecideTypes DEF TypeOK, preempt_if_needed
  <2>2. CASE ~need_resched[c]
    <3>1. /\ phase[c] = "tail" /\ phase' = [phase EXCEPT ![c] = "run"]
          /\ need_resched' = [need_resched EXCEPT ![c] = FALSE]
          /\ UNCHANGED <<threads, hs, parked, ctx, killed, owes, current, switched_from,
                         runq, inbox, steal_request, sgi, irq_owes>>
      BY <1>7, <2>2, Zenon DEF preempt_if_needed, threadVars
    <3> QED BY <3>1 DEF TypeOK, LeavingInv, Phase
  <2> QED BY <2>1, <2>2, Zenon
<1>8. ASSUME NEW c \in Core, switch_to(c) PROVE TypeOK' /\ LeavingInv'
  BY <1>8, ZenonT(30) DEF TypeOK, LeavingInv, switch_to, Phase
<1>9. ASSUME NEW c \in Core, FinishSwitch(c) PROVE TypeOK' /\ LeavingInv'
  <2> DEFINE prev == switched_from[c]
  <2>1. prev \in Thread
    BY <1>9, Zenon DEF TypeOK, LeavingInv, FinishSwitch
  <2>2. LeavingInv'
    BY <1>9 DEF TypeOK, LeavingInv, FinishSwitch
  <2>3. /\ switched_from' = [switched_from EXCEPT ![c] = NoTid]
        /\ phase' = [phase EXCEPT ![c] = "run"]
        /\ UNCHANGED <<owes, current, inbox, steal_request, need_resched, sgi, irq_owes>>
    BY <1>9, Zenon DEF FinishSwitch
  <2>4. CASE SwitchOutVerdict(hs[prev]) = "Reap"
    <3>1. Remove(prev) /\ UNCHANGED runq
      BY <1>9, <2>4, Zenon DEF FinishSwitch
    <3> QED BY <2>1, <2>2, <2>3, <3>1, FreshTypes, Zenon DEF TypeOK, Remove, Phase
  <2>5. CASE SwitchOutVerdict(hs[prev]) # "Reap"
    <3>1. /\ hs' = [hs EXCEPT ![prev] = finish_switch(hs[prev])]
          /\ \/ runq' = [runq EXCEPT ![c] = Append(@, prev)]
             \/ runq' = runq
          /\ UNCHANGED <<threads, parked, ctx, killed>>
      BY <1>9, <2>5, Zenon DEF FinishSwitch
    <3>2. Append(runq[c], prev) \in Seq(Thread)
      BY <2>1 DEF TypeOK
    <3>3. finish_switch(hs[prev]) \in HandshakeOf({"ipc"})
      BY <2>1, HandshakeTypes, Zenon DEF TypeOK
    <3>4. hs' \in [Thread -> HandshakeOf({"ipc"})]
      BY <2>1, <3>1, <3>3, Zenon DEF TypeOK
    <3>5. runq' \in [Core -> Seq(Thread)]
      <4>1. CASE runq' = runq
        BY <4>1, Zenon DEF TypeOK
      <4>2. CASE runq' = [runq EXCEPT ![c] = Append(@, prev)]
        <5> DEFINE a == Append(runq[c], prev)
        <5>1. runq' = [runq EXCEPT ![c] = a] /\ a \in Seq(Thread)
          BY <3>2, <4>2, Zenon
        <5> HIDE DEF a
        <5> QED BY <5>1, Zenon DEF TypeOK
      <4> QED BY <3>1, <4>1, <4>2, Zenon
    <3> QED BY <2>2, <2>3, <3>1, <3>4, <3>5, ZenonT(30) DEF TypeOK, Phase
  <2> QED BY <2>4, <2>5, Zenon
<1>10. ASSUME NEW c \in Core, on_tick(c) PROVE TypeOK' /\ LeavingInv'
  BY <1>10 DEF TypeOK, LeavingInv, on_tick, Interruptible, threadVars, Phase
<1>11. ASSUME NEW c \in Core, irq_send_reschedule(c) PROVE TypeOK' /\ LeavingInv'
  BY <1>11, ZenonT(30) DEF TypeOK, LeavingInv, irq_send_reschedule, threadVars, Phase
<1>12. ASSUME NEW c \in Core, reschedule_interrupt(c) PROVE TypeOK' /\ LeavingInv'
  <2> DEFINE q == runq[c] \o inbox[c]
             gives == steal_request[c] # NoCore /\ q # <<>>
             drained == [inbox EXCEPT ![c] = <<>>]
  <2>1. q \in Seq(Thread) /\ drained \in [Core -> Seq(Thread)]
    BY DEF TypeOK
  <2>2. q # <<>> => Head(q) \in Thread /\ Tail(q) \in Seq(Thread)
    BY <2>1
  <2>3. runq' = [runq EXCEPT ![c] = IF gives THEN Tail(q) ELSE q]
    BY <1>12, Zenon DEF reschedule_interrupt
  <2>4. inbox' = IF gives THEN [drained EXCEPT ![steal_request[c]] = Append(@, Head(q))]
                 ELSE drained
    BY <1>12, Zenon DEF reschedule_interrupt
  <2>5. runq' \in [Core -> Seq(Thread)] /\ inbox' \in [Core -> Seq(Thread)]
    <3> HIDE DEF q, drained
    <3>1. CASE gives
      <4>1. /\ runq' = [runq EXCEPT ![c] = Tail(q)]
            /\ inbox' = [drained EXCEPT ![steal_request[c]] = Append(@, Head(q))]
        BY <2>3, <2>4, <3>1, Zenon
      <4>2. steal_request[c] \in Core
        BY <3>1, Zenon DEF TypeOK
      <4>3. Append(drained[steal_request[c]], Head(q)) \in Seq(Thread)
        BY <2>1, <2>2, <3>1, <4>2
      <4> QED BY <2>1, <2>2, <3>1, <4>1, <4>3, Zenon DEF TypeOK
    <3>2. CASE ~gives
      BY <2>1, <2>3, <2>4, <3>2, Zenon DEF TypeOK
    <3> QED BY <3>1, <3>2, Zenon
  <2>6. /\ need_resched' \in [Core -> BOOLEAN] /\ sgi' \in [Core -> BOOLEAN]
        /\ steal_request' \in [Core -> Core \cup {NoCore}]
        /\ phase' \in [Core -> Phase] /\ LeavingInv'
        /\ UNCHANGED <<threadVars, current, switched_from, irq_owes>>
    BY <1>12 DEF TypeOK, LeavingInv, reschedule_interrupt, SgiAfterServe, Interruptible,
                 Phase
  <2> QED BY <2>5, <2>6, Zenon DEF TypeOK, threadVars
<1>13. ASSUME NEW c \in Core, NEW v \in Core, try_initiate_steal(c, v)
       PROVE  TypeOK' /\ LeavingInv'
  BY <1>0, <1>13, Zenon DEF TypeOK, LeavingInv, try_initiate_steal
<1>14. ASSUME NEW c \in Core, NEW t \in Worker, spawn(c, t)
       PROVE  TypeOK' /\ LeavingInv'
  <2>1. PICK target \in Core :
           /\ place_on(c, target, t)
           /\ owes' = [owes EXCEPT ![current[c]] = place_on_owes(c, target)]
    BY <1>14, ZenonT(30) DEF spawn
  <2>2. /\ t \in Thread /\ threads' = threads \cup {t}
        /\ hs' = [hs EXCEPT ![t] = ready] /\ ctx' = [ctx EXCEPT ![t] = TRUE]
        /\ UNCHANGED <<parked, killed, current, switched_from, phase, steal_request,
                       need_resched, sgi, irq_owes>>
    BY <1>0, <1>14, Zenon DEF spawn
  <2>3. /\ hs' \in [Thread -> HandshakeOf({"ipc"})] /\ ctx' \in [Thread -> BOOLEAN]
        /\ threads' \subseteq Thread
    BY <2>2, FreshTypes DEF TypeOK
  <2>4. owes' \in [Thread -> Core \cup {NoCore}]
    BY <2>1, Zenon DEF TypeOK, place_on_owes
  <2>5. runq' \in [Core -> Seq(Thread)] /\ inbox' \in [Core -> Seq(Thread)]
    BY <2>1, <2>2, PlaceTypes, Zenon
  <2> QED BY <2>2, <2>3, <2>4, <2>5, Zenon DEF TypeOK, LeavingInv
<1>15. ASSUME NEW c \in Core, NEW t \in Worker, create_thread_control_block(c, t)
       PROVE  TypeOK' /\ LeavingInv'
  BY <1>0, <1>15, FreshTypes DEF TypeOK, LeavingInv, create_thread_control_block, coreVars
<1>16. ASSUME NEW c \in Core, NEW t \in Worker, start_thread_control_block(c, t)
       PROVE  TypeOK' /\ LeavingInv'
  <2>1. PICK target \in Core :
           /\ place_on(c, target, t)
           /\ owes' = [owes EXCEPT ![current[c]] = place_on_owes(c, target)]
    BY <1>16, ZenonT(30) DEF start_thread_control_block
  <2>2. /\ t \in Thread /\ hs' = [hs EXCEPT ![t].state = "Ready"]
        /\ ctx' = [ctx EXCEPT ![t] = TRUE]
        /\ UNCHANGED <<threads, parked, killed, current, switched_from, phase,
                       steal_request, need_resched, sgi, irq_owes>>
    BY <1>0, <1>16, Zenon DEF start_thread_control_block
  <2>3. hs' \in [Thread -> HandshakeOf({"ipc"})] /\ ctx' \in [Thread -> BOOLEAN]
    <3>1. [hs[t] EXCEPT !.state = "Ready"] \in HandshakeOf({"ipc"})
      BY <2>2, HandshakeTypes, ZenonT(30) DEF TypeOK, RunState
    <3> QED BY <2>2, <3>1, Zenon DEF TypeOK
  <2>4. owes' \in [Thread -> Core \cup {NoCore}]
    BY <2>1, Zenon DEF TypeOK, place_on_owes
  <2>5. runq' \in [Core -> Seq(Thread)] /\ inbox' \in [Core -> Seq(Thread)]
    BY <2>1, <2>2, PlaceTypes, Zenon
  <2> QED BY <2>2, <2>3, <2>4, <2>5, Zenon DEF TypeOK, LeavingInv
<1>17. ASSUME NEW c \in Core, NEW t \in Worker, Deliver(c, t)
       PROVE  TypeOK' /\ LeavingInv'
  BY <1>0, <1>17, HandshakeTypes DEF TypeOK, LeavingInv, Deliver, wake
<1>18. ASSUME NEW c \in Core, NEW t \in Worker, WakeUndelivered(c, t)
       PROVE  TypeOK' /\ LeavingInv'
  BY <1>0, <1>18, HandshakeTypes DEF TypeOK, LeavingInv, WakeUndelivered, wake
<1>19. ASSUME NEW c \in Core, NEW t \in Worker, kill_thread(c, t)
       PROVE  TypeOK' /\ LeavingInv'
  BY <1>0, <1>19, Zenon DEF TypeOK, LeavingInv, kill_thread, coreVars
<1>20. ASSUME NEW c \in Core, NEW t \in Worker, reap_region_thread(c, t)
       PROVE  TypeOK' /\ LeavingInv'
  <2>1. UNCHANGED <<owes, coreVars>>
    BY <1>20, Zenon DEF reap_region_thread
  <2>2. CASE Remove(t)
    BY <1>0, <2>1, <2>2, FreshTypes, Zenon DEF TypeOK, LeavingInv, Remove, coreVars
  <2>3. CASE /\ killed' = killed \cup {t}
             /\ UNCHANGED <<threads, hs, parked, ctx>>
    BY <1>0, <1>20, <2>1, <2>3 DEF TypeOK, LeavingInv, coreVars, reap_region_thread
  <2>4. CASE UNCHANGED <<threads, hs, parked, ctx, killed>>
    BY <1>0, <2>1, <2>4, Zenon DEF TypeOK, LeavingInv, coreVars
  <2> QED BY <1>20, <2>2, <2>3, <2>4, ZenonT(30) DEF reap_region_thread, region_reap_verdict
<1>21. ASSUME NEW c \in Core, NEW t \in Worker, irq_notify(c, t)
       PROVE  TypeOK' /\ LeavingInv'
  <2>1. /\ hs' \in [Thread -> HandshakeOf({"ipc"})]
        /\ UNCHANGED <<threads, parked, ctx, killed, owes, current, switched_from,
                       steal_request, need_resched, sgi>>
    BY <1>0, <1>21, HandshakeTypes, Zenon DEF TypeOK, irq_notify
  <2>2. CASE WakeVerdict(serve(hs[t])) = "Queue"
    <3>1. PICK target \in Core :
             /\ place_on(c, target, t)
             /\ irq_owes' = [irq_owes EXCEPT ![c] = place_on_owes(c, target)]
             /\ phase' = [phase EXCEPT ![c] = IF target = c THEN "tail" ELSE "poke"]
      BY <1>21, <2>2, Zenon DEF irq_notify, pick_wake_target
    <3>2. phase[c] = "run" /\ t \in Thread
      BY <1>0, <1>21, Zenon DEF irq_notify, Interruptible
    <3>3. runq' \in [Core -> Seq(Thread)] /\ inbox' \in [Core -> Seq(Thread)]
      BY <3>1, <3>2, PlaceTypes, Zenon
    <3>4. irq_owes' \in [Core -> Core \cup {NoCore}]
      BY <3>1, Zenon DEF TypeOK, place_on_owes
    <3>5. phase' \in [Core -> Phase] /\ LeavingInv'
      <4> DEFINE f == IF target = c THEN "tail" ELSE "poke"
      <4>1. phase' = [phase EXCEPT ![c] = f] /\ f \in {"tail", "poke"}
        BY <3>1, Zenon
      <4> HIDE DEF f
      <4> QED BY <2>1, <3>2, <4>1 DEF TypeOK, LeavingInv, Phase
    <3> QED BY <2>1, <3>3, <3>4, <3>5, Zenon DEF TypeOK
  <2>3. CASE WakeVerdict(serve(hs[t])) # "Queue"
    <3>1. /\ phase' = [phase EXCEPT ![c] = "tail"]
          /\ UNCHANGED <<runq, inbox, irq_owes>>
      BY <1>21, <2>3, Zenon DEF irq_notify
    <3>2. phase[c] = "run"
      BY <1>21, Zenon DEF irq_notify, Interruptible
    <3> QED BY <2>1, <3>1, <3>2 DEF TypeOK, LeavingInv, Phase
  <2> QED BY <2>2, <2>3, Zenon
<1>22. CASE UNCHANGED vars
  BY <1>22, Zenon DEF TypeOK, LeavingInv, vars, threadVars, coreVars
<1> QED
  BY <1>1, <1>2, <1>3, <1>4, <1>6, <1>7, <1>8, <1>9, <1>10, <1>11, <1>12, <1>13,
     <1>14, <1>15, <1>16, <1>17, <1>18, <1>19, <1>20, <1>21, <1>22, Zenon
  DEF Next, CoreStep, ThreadStep

\* Type correctness: no run of the scheduler takes a variable out of its type.
THEOREM TypeCorrect == Spec => []TypeOK
<1>1. Init => TypeInv
  BY InitTypeOK DEF TypeInv, LeavingInv, Init
<1> QED BY <1>1, NextTypeInv, PTL DEF Spec, TypeInv

------------------------------------------------------------------------------
(* The inductive invariant.                                                 *)

\* The part of the invariant about cores and queues.
QInv ==
    /\ OneCorePerThread /\ LinkedOnce /\ StandingInv /\ QueueInv /\ ReadyInv /\ IdleInv

\* The part about contexts and deliveries.
DInv ==
    ContextInv /\ SwitchesToSavedContext /\ DeliveryInv /\ ResumedIsDelivered
      /\ DeferredWakeIsRecorded

\* Core c neither enters nor leaves the phases of a switch.
NoSwitch(c) ==
    \/ phase'[c] = phase[c]
    \/ phase[c] \in {"run", "poke", "tail"} /\ phase'[c] \in {"run", "poke", "tail"}

\* What a placement does to the members of the queues.
Placed(c, target, t) ==
    \A d \in Core :
        /\ Range(runq'[d]) = IF d = c /\ target = c THEN Range(runq[d]) \cup {t}
                             ELSE Range(runq[d])
        /\ Range(inbox'[d]) = IF d = target /\ target # c
                              THEN Range(inbox[d]) \cup {t} ELSE Range(inbox[d])

\* The state sched::init and adopt_secondary_idle leave satisfies it.
LEMMA InitIInv == Init => IInv
<1> SUFFICES ASSUME Init PROVE IInv
  BY Zenon
<1> USE CoreAssumption, ThreadAssumption, RangeEmpty
<1> USE DEF Init, IdleThread, Worker, Fresh, on_cpu_now, ready, embryo, Stands
<1>1. TypeOK /\ LeavingInv
  BY InitTypeOK, Zenon DEF LeavingInv
<1>2. OneCorePerThread
  BY Zenon DEF OneCorePerThread
<1>3. LinkedOnce
  BY Zenon DEF LinkedOnce
<1>4. StandingInv
  BY DEF StandingInv
<1>5. QueueInv /\ ReadyInv /\ IdleInv
  BY DEF QueueInv, ReadyInv, IdleInv
<1>6. ContextInv /\ SwitchesToSavedContext
  <2>1. \A c \in Core : current[c] # Idle[BootCore]
    BY Zenon
  <2>2. \A t \in threads : ~hs[t].on_cpu => t = Idle[BootCore]
    OBVIOUS
  <2>3. current \in [Core -> Thread] /\ threads \subseteq Thread
    BY <1>1, Zenon DEF TypeOK
  <2> QED BY <2>1, <2>2, <2>3, ZenonT(30) DEF ContextInv, SwitchesToSavedContext
<1>7. DeliveryInv /\ ResumedIsDelivered /\ DeferredWakeIsRecorded
  BY DEF DeliveryInv, FlagsOk, ResumedIsDelivered, DeferredWakeIsRecorded
<1> QED BY <1>1, <1>2, <1>3, <1>4, <1>5, <1>6, <1>7, Zenon DEF IInv

\* Steps that touch neither threads nor queues and leave no core's switch.
LEMMA QuietStep ==
  ASSUME IInv, TypeInv',
         UNCHANGED <<threads, hs, parked, ctx, current, switched_from, runq, inbox>>,
         \A c \in Core : NoSwitch(c)
  PROVE  IInv'
<1> USE DEF IInv, QInv, DInv, Stands, Queued, NoSwitch
<1>1. QInv'
  <2>1. OneCorePerThread' /\ LinkedOnce'
    BY Zenon DEF OneCorePerThread, LinkedOnce
  <2>2. StandingInv' /\ IdleInv'
    BY DEF StandingInv, IdleInv
  <2>3. QueueInv' /\ ReadyInv'
    BY Zenon DEF QueueInv, ReadyInv
  <2> QED BY <2>1, <2>2, <2>3, Zenon
<1>2. DInv'
  BY DEF ContextInv, SwitchesToSavedContext, DeliveryInv, FlagsOk, ResumedIsDelivered,
         DeferredWakeIsRecorded
<1> QED BY <1>1, <1>2, Zenon DEF TypeInv

\* A change to the handshake of the thread that runs on core c, which stays on
\* its core and is not made Ready.
LEMMA CurrentChanges ==
  ASSUME IInv, TypeInv', NEW c \in Core, NEW h,
         hs[current[c]].state = "Running",
         hs' = [hs EXCEPT ![current[c]] = h],
         h.on_cpu = hs[current[c]].on_cpu,
         h.state \notin {"Ready", "Embryo"},
         current[c] \in IdleThread => h.state = "Running",
         UNCHANGED <<threads, ctx, coreVars>>
  PROVE  QInv' /\ ContextInv' /\ SwitchesToSavedContext'
<1> USE DEF IInv, QInv, TypeOK, Stands, Queued, coreVars
<1> DEFINE t == current[c]
<1>1. t \in Thread /\ \A u \in Thread : u # t => hs'[u] = hs[u]
  BY Zenon
<1>2. hs'[t] = h
  BY Zenon
<1>3. t \notin Range(runq[c]) /\ \A d \in Core : t \notin Range(runq[d]) \cup Range(inbox[d])
  BY <1>1, Zenon DEF QueueInv
<1>4. OneCorePerThread' /\ LinkedOnce'
  BY Zenon DEF OneCorePerThread, LinkedOnce
<1>5. StandingInv'
  BY <1>1, <1>2 DEF StandingInv
<1>6. QueueInv' /\ ReadyInv'
  BY <1>1, <1>2, <1>3 DEF QueueInv, ReadyInv, Worker
<1>7. IdleInv'
  BY <1>1, <1>2, ThreadAssumption DEF IdleInv, IdleThread
<1>8. ContextInv' /\ SwitchesToSavedContext'
  BY <1>1, <1>2 DEF ContextInv, SwitchesToSavedContext, StandingInv
<1> QED BY <1>4, <1>5, <1>6, <1>7, <1>8, Zenon

\* What try_wake does to each field, by verdict.
LEMMA TryWakeFields ==
  ASSUME NEW h \in HandshakeOf({"ipc"})
  PROVE  /\ try_wake(h).on_cpu = h.on_cpu
         /\ try_wake(h).ipc_served = h.ipc_served
         /\ try_wake(h).ipc_aborted = h.ipc_aborted
         /\ WakeVerdict(h) = "Queue" =>
              /\ h.state = "Blocked" /\ ~h.on_cpu
              /\ h.wait_on # NoWait => is_delivered(h)
              /\ try_wake(h).state = "Ready"
              /\ try_wake(h).wake_pending = h.wake_pending
         /\ WakeVerdict(h) = "Deferred" =>
              /\ h.state = "Blocked" /\ h.on_cpu
              /\ h.wait_on # NoWait => is_delivered(h)
              /\ try_wake(h).state = "Blocked"
              /\ try_wake(h).wait_on = h.wait_on
              /\ try_wake(h).wake_pending
         /\ WakeVerdict(h) \in {"NotBlocked", "Refused"} =>
              /\ try_wake(h) = h
              /\ ~(h.state = "Blocked" /\ is_delivered(h))
         /\ WakeVerdict(h) \in {"Queue", "Deferred", "NotBlocked", "Refused"}
  BY Zenon DEF HandshakeOf, try_wake, WakeVerdict, is_delivered

\* A step that changes one thread's record, park or membership keeps what the
\* flags of the others say.
LEMMA FlagsStep ==
  ASSUME DeliveryInv, NEW t \in Thread,
         FlagsOk(hs'[t], parked'[t], t \in threads'),
         \A u \in Thread : u # t => /\ hs'[u] = hs[u] /\ parked'[u] = parked[u]
                                    /\ u \in threads' <=> u \in threads
  PROVE  DeliveryInv'
<1> SUFFICES ASSUME NEW u \in Thread
             PROVE  FlagsOk(hs'[u], parked'[u], u \in threads')
  BY Zenon DEF DeliveryInv
<1>1. CASE u = t
  BY <1>1, Zenon
<1>2. CASE u # t
  <2>1. hs'[u] = hs[u] /\ parked'[u] = parked[u] /\ (u \in threads' <=> u \in threads)
    BY <1>2, Zenon
  <2>2. FlagsOk(hs[u], parked[u], u \in threads)
    BY Zenon DEF DeliveryInv
  <2> QED BY <2>1, <2>2, Zenon DEF FlagsOk
<1> QED BY <1>1, <1>2, Zenon

------------------------------------------------------------------------------
(* Placements, wakes, deliveries and starts.                                *)

\* A placement adds one thread to one queue, and no link is used twice.
LEMMA PlaceLinks ==
  ASSUME TypeOK, LinkedOnce, NEW c \in Core, NEW target \in Core, NEW t \in Thread,
         ~Queued(t), place_on(c, target, t)
  PROVE  LinkedOnce' /\ Placed(c, target, t)
<1>1. \A d \in Core : t \notin Range(runq[d]) /\ t \notin Range(inbox[d])
  BY Zenon DEF Queued
<1>2. CASE target = c
  <2>1. runq' = [runq EXCEPT ![c] = Append(runq[c], t)] /\ inbox' = inbox
    BY <1>2, Zenon DEF place_on
  <2>2. runq[c] \in Seq(Thread)
    BY Zenon DEF TypeOK
  <2>3. /\ Range(Append(runq[c], t)) = Range(runq[c]) \cup {t}
        /\ IsInjective(Append(runq[c], t))
    BY <1>1, <2>2, RangeAppend DEF LinkedOnce
  <2>4. /\ runq'[c] = Append(runq[c], t)
        /\ \A d \in Core : d # c => runq'[d] = runq[d]
    BY <2>1, Zenon DEF TypeOK
  <2>5. /\ Range(runq'[c]) = Range(runq[c]) \cup {t} /\ IsInjective(runq'[c])
        /\ \A d \in Core : d # c => Range(runq'[d]) = Range(runq[d])
        /\ \A d \in Core : d # c => IsInjective(runq'[d])
        /\ \A d \in Core : Range(inbox'[d]) = Range(inbox[d]) /\ IsInjective(inbox'[d])
    BY <2>1, <2>3, <2>4, Zenon DEF LinkedOnce
  <2>6. LinkedOnce'
    <3> SUFFICES ASSUME NEW d \in Core, NEW e \in Core
                 PROVE  /\ IsInjective(runq'[d]) /\ IsInjective(inbox'[d])
                        /\ Range(runq'[d]) \cap Range(inbox'[e]) = {}
                        /\ d # e => /\ Range(runq'[d]) \cap Range(runq'[e]) = {}
                                    /\ Range(inbox'[d]) \cap Range(inbox'[e]) = {}
      BY Zenon DEF LinkedOnce
    <3> QED BY <1>1, <2>5 DEF LinkedOnce
  <2> QED BY <1>2, <2>5, <2>6, Zenon DEF Placed
<1>3. CASE target # c
  <2>1. inbox' = [inbox EXCEPT ![target] = Append(inbox[target], t)] /\ runq' = runq
    BY <1>3, Zenon DEF place_on
  <2>2. inbox[target] \in Seq(Thread)
    BY Zenon DEF TypeOK
  <2>3. /\ Range(Append(inbox[target], t)) = Range(inbox[target]) \cup {t}
        /\ IsInjective(Append(inbox[target], t))
    BY <1>1, <2>2, RangeAppend DEF LinkedOnce
  <2>4. /\ inbox'[target] = Append(inbox[target], t)
        /\ \A d \in Core : d # target => inbox'[d] = inbox[d]
    BY <2>1, Zenon DEF TypeOK
  <2>5. /\ Range(inbox'[target]) = Range(inbox[target]) \cup {t}
        /\ IsInjective(inbox'[target])
        /\ \A d \in Core : d # target => Range(inbox'[d]) = Range(inbox[d])
        /\ \A d \in Core : d # target => IsInjective(inbox'[d])
        /\ \A d \in Core : Range(runq'[d]) = Range(runq[d]) /\ IsInjective(runq'[d])
    BY <2>1, <2>3, <2>4, Zenon DEF LinkedOnce
  <2>6. LinkedOnce'
    <3> SUFFICES ASSUME NEW d \in Core, NEW e \in Core
                 PROVE  /\ IsInjective(runq'[d]) /\ IsInjective(inbox'[d])
                        /\ Range(runq'[d]) \cap Range(inbox'[e]) = {}
                        /\ d # e => /\ Range(runq'[d]) \cap Range(runq'[e]) = {}
                                    /\ Range(inbox'[d]) \cap Range(inbox'[e]) = {}
      BY Zenon DEF LinkedOnce
    <3> QED BY <1>1, <2>5 DEF LinkedOnce
  <2> QED BY <1>3, <2>5, <2>6, Zenon DEF Placed
<1> QED BY <1>2, <1>3, Zenon

\* A thread that stands on no core and is on no queue is made Ready and placed.
LEMMA Enqueue ==
  ASSUME IInv, TypeInv', NEW c \in Core, NEW target \in Core, NEW t \in Worker,
         NEW h, place_on(c, target, t),
         ~Queued(t), \A d \in Core : ~Stands(t, d),
         threads' = threads \cup {t},
         hs' = [hs EXCEPT ![t] = h], h.state = "Ready", ~h.on_cpu,
         ctx' = [ctx EXCEPT ![t] = TRUE],
         UNCHANGED <<current, switched_from>>,
         \A d \in Core : NoSwitch(d)
  PROVE  QInv' /\ ContextInv' /\ SwitchesToSavedContext'
<1>0. /\ TypeOK /\ LinkedOnce /\ OneCorePerThread /\ LeavingInv /\ StandingInv
      /\ QueueInv /\ ReadyInv /\ IdleInv /\ ContextInv /\ SwitchesToSavedContext
  BY Zenon DEF IInv
<1>1. /\ t \in Thread /\ hs'[t] = h /\ ctx'[t] = TRUE
      /\ \A u \in Thread : u # t => hs'[u] = hs[u] /\ ctx'[u] = ctx[u]
  BY <1>0, Zenon DEF Worker, TypeOK
<1>2. LinkedOnce' /\ Placed(c, target, t)
  BY <1>0, <1>1, PlaceLinks, Zenon
<1>3. OneCorePerThread'
  BY <1>0, Zenon DEF OneCorePerThread, Stands
<1>4. StandingInv'
  BY <1>0, <1>1 DEF StandingInv, TypeOK, Stands
<1>5. QueueInv'
  <2> SUFFICES ASSUME NEW d \in Core, NEW u \in Thread
               PROVE  /\ u \in Range(runq'[d]) =>
                           /\ u \in Worker \cap threads'
                           /\ hs'[u].state = "Ready"
                           /\ hs'[u].on_cpu => switched_from'[d] = u
                      /\ u \in Range(inbox'[d]) =>
                           /\ u \in Worker \cap threads'
                           /\ hs'[u].state = "Ready" /\ ~hs'[u].on_cpu
    BY Zenon DEF QueueInv
  <2>1. CASE u = t
    BY <1>1, <2>1, Zenon
  <2>2. CASE u # t
    <3>1. /\ u \in Range(runq'[d]) => u \in Range(runq[d])
          /\ u \in Range(inbox'[d]) => u \in Range(inbox[d])
      BY <1>2, <2>2, ZenonT(30) DEF Placed
    <3> QED BY <1>0, <1>1, <2>2, <3>1 DEF QueueInv
  <2> QED BY <2>1, <2>2, Zenon
<1>6. ReadyInv'
  <2> SUFFICES ASSUME NEW u \in Worker \cap threads', hs'[u].state = "Ready"
               PROVE  \E d \in Core : u \in Range(runq'[d]) \cup Range(inbox'[d])
    BY Zenon DEF ReadyInv, Queued
  <2>1. CASE u = t
    BY <1>2, <2>1, ZenonT(30) DEF Placed
  <2>2. CASE u # t
    <3>1. \E d \in Core : u \in Range(runq[d]) \cup Range(inbox[d])
      BY <1>0, <1>1, <2>2, Zenon DEF ReadyInv, Queued, Worker
    <3> QED BY <1>2, <3>1, ZenonT(30) DEF Placed
  <2> QED BY <2>1, <2>2, Zenon
<1>7. IdleInv'
  BY <1>0, <1>1, ThreadAssumption, Zenon DEF IdleInv, Worker, IdleThread, Stands
<1>8. ContextInv'
  <2>1. \A d \in Core : current[d] \in Thread /\ current[d] # t
    BY <1>0, Zenon DEF TypeOK, Stands
  <2>2. \A d \in Core : phase'[d] = "landed" => switched_from[d] \in Thread
    BY <1>0, ZenonT(30) DEF LeavingInv, TypeOK, NoSwitch
  <2>3. \A u \in threads' : ~hs'[u].on_cpu /\ hs'[u].state # "Embryo" => ctx'[u]
    BY <1>0, <1>1 DEF ContextInv, TypeOK
  <2>4. \A d \in Core : phase'[d] # "switch" => ~ctx'[current[d]]
    BY <1>0, <1>1, <2>1 DEF ContextInv, NoSwitch
  <2>5. \A d \in Core : phase'[d] = "landed" => ctx'[switched_from[d]]
    BY <1>0, <1>1, <2>2 DEF ContextInv, NoSwitch
  <2> QED BY <2>3, <2>4, <2>5, Zenon DEF ContextInv
<1>9. SwitchesToSavedContext'
  <2>1. \A d \in Core : current[d] \in Thread /\ current[d] # t
    BY <1>0, Zenon DEF TypeOK, Stands
  <2>2. \A d \in Core : phase'[d] = "switch" => switched_from[d] \in Thread /\ switched_from[d] # t
    BY <1>0, ZenonT(30) DEF LeavingInv, TypeOK, Stands, NoSwitch
  <2> QED BY <1>0, <1>1, <2>1, <2>2 DEF SwitchesToSavedContext, NoSwitch
<1> QED BY <1>2, <1>3, <1>4, <1>5, <1>6, <1>7, <1>8, <1>9, Zenon DEF QInv

\* A change of flags that leaves the thread in its state and where it stands.
LEMMA SameState ==
  ASSUME IInv, NEW t \in Thread, NEW h,
         hs' = [hs EXCEPT ![t] = h],
         h.on_cpu = hs[t].on_cpu, h.state = hs[t].state,
         UNCHANGED <<threads, ctx, current, switched_from, runq, inbox>>,
         \A d \in Core : NoSwitch(d)
  PROVE  QInv' /\ ContextInv' /\ SwitchesToSavedContext'
<1> USE DEF IInv, QInv, Stands, Queued
<1>1. \A u \in Thread : hs'[u].on_cpu = hs[u].on_cpu /\ hs'[u].state = hs[u].state
  BY Zenon DEF TypeOK
<1>2. OneCorePerThread' /\ LinkedOnce'
  BY Zenon DEF OneCorePerThread, LinkedOnce
<1>3. StandingInv'
  BY <1>1 DEF StandingInv, TypeOK
<1>4. QueueInv' /\ ReadyInv'
  BY <1>1 DEF QueueInv, ReadyInv, Worker
<1>5. IdleInv'
  BY <1>1, ThreadAssumption, Zenon DEF IdleInv
<1>6. ContextInv' /\ SwitchesToSavedContext'
  BY <1>1, ZenonT(30) DEF ContextInv, SwitchesToSavedContext, NoSwitch, TypeOK
<1> QED BY <1>2, <1>3, <1>4, <1>5, <1>6, Zenon

\* Any wake, from a thread or an interrupt: t's handshake has become h (flags
\* of a delivery, or nothing) and try_wake is applied to it.
LEMMA WakeStep ==
  ASSUME IInv, TypeInv', NEW c \in Core, NEW t \in Worker, t \in threads,
         NEW h \in {hs[t], serve(hs[t]), abort(hs[t])},
         h = hs[t] \/ hs[t].state = "Blocked",
         hs' = [hs EXCEPT ![t] = try_wake(h)],
         \/ /\ WakeVerdict(h) = "Queue"
            /\ \E target \in Core : place_on(c, target, t)
         \/ WakeVerdict(h) # "Queue" /\ UNCHANGED <<runq, inbox>>,
         UNCHANGED <<threads, parked, ctx, current, switched_from>>,
         \A d \in Core : NoSwitch(d)
  PROVE  IInv'
<1>0. /\ TypeOK /\ LeavingInv /\ StandingInv /\ QueueInv /\ ContextInv /\ DeliveryInv
      /\ ResumedIsDelivered /\ DeferredWakeIsRecorded
  BY Zenon DEF IInv
<1>1. t \in Thread /\ hs[t] \in HandshakeOf({"ipc"})
  BY <1>0, Zenon DEF Worker, TypeOK
<1>2. h \in HandshakeOf({"ipc"})
  BY <1>1, HandshakeTypes, Zenon
<1>3. /\ h.state = hs[t].state /\ h.on_cpu = hs[t].on_cpu
      /\ h.wait_on = hs[t].wait_on /\ h.wake_pending = hs[t].wake_pending
      /\ h.ipc_aborted => hs[t].ipc_aborted \/ hs[t].state = "Blocked"
      /\ is_delivered(hs[t]) => is_delivered(h)
  BY <1>1, Zenon DEF HandshakeOf, serve, abort, is_delivered
<1>4. /\ hs'[t] = try_wake(h)
      /\ \A u \in Thread : u # t => hs'[u] = hs[u]
  BY <1>0, <1>1, Zenon DEF TypeOK
<1>5. is_delivered(try_wake(h)) <=> is_delivered(h)
  BY <1>2, TryWakeFields, Zenon DEF is_delivered
<1>6. CASE WakeVerdict(h) = "Queue"
  <2>1. /\ h.state = "Blocked" /\ ~h.on_cpu /\ h.wait_on # NoWait /\ is_delivered(h)
        /\ try_wake(h).state = "Ready" /\ ~try_wake(h).on_cpu
        /\ ~try_wake(h).wake_pending
    BY <1>0, <1>1, <1>2, <1>3, <1>6, TryWakeFields DEF DeliveryInv, FlagsOk
  <2>2. PICK target \in Core : place_on(c, target, t)
    BY <1>6, Zenon
  <2>3. ~Queued(t) /\ \A d \in Core : ~Stands(t, d)
    BY <1>0, <1>1, <1>3, <2>1, ZenonT(30) DEF QueueInv, Queued, StandingInv
  <2>4. threads' = threads \cup {t}
    BY Zenon
  <2>5. ctx' = [ctx EXCEPT ![t] = TRUE]
    BY <1>0, <1>3, <2>1, ZenonT(30) DEF ContextInv, TypeOK
  <2>6. QInv' /\ ContextInv' /\ SwitchesToSavedContext'
    BY <1>0, <2>1, <2>2, <2>3, <2>4, <2>5, Enqueue, ZenonT(30)
  <2>7. DeliveryInv'
    <3>1. parked[t] /\ hs'[t].state = "Ready" /\ ~hs'[t].wake_pending
      BY <1>0, <1>1, <1>3, <1>4, <2>1, ZenonT(30) DEF DeliveryInv, FlagsOk
    <3>2. FlagsOk(hs[t], parked[t], t \in threads)
      BY <1>0, <1>1, Zenon DEF DeliveryInv
    <3>3. FlagsOk(hs'[t], parked'[t], t \in threads')
      BY <3>1, <3>2, Zenon DEF FlagsOk
    <3> QED BY <1>0, <1>1, <1>4, <3>3, FlagsStep, Zenon
  <2>9. ResumedIsDelivered'
    <3>1. is_delivered(hs'[t])
      BY <1>4, <1>5, <2>1, Zenon
    <3> QED BY <1>0, <1>4, <3>1, Zenon DEF ResumedIsDelivered, TypeOK
  <2>8. DeferredWakeIsRecorded'
    BY <1>0, <1>1, <1>4, <2>1 DEF DeferredWakeIsRecorded, Stands, TypeOK
  <2> QED BY <2>6, <2>7, <2>8, <2>9, Zenon DEF IInv, QInv, TypeInv
<1>7. CASE WakeVerdict(h) # "Queue"
  <2>1. try_wake(h).state = h.state /\ try_wake(h).on_cpu = h.on_cpu
    BY <1>2, <1>7, TryWakeFields, Zenon
  <2>2. UNCHANGED <<runq, inbox>>
    BY <1>7, Zenon
  <2>3. QInv' /\ ContextInv' /\ SwitchesToSavedContext'
    BY <1>1, <1>3, <2>1, <2>2, SameState, ZenonT(30)
  <2>4. DeliveryInv'
    <3>1. /\ hs'[t].state = hs[t].state /\ hs'[t].on_cpu = hs[t].on_cpu
          /\ hs'[t].wait_on = hs[t].wait_on
          /\ hs'[t].wake_pending =>
                hs[t].state = "Blocked" /\ hs[t].on_cpu /\ is_delivered(hs'[t])
          /\ hs'[t].ipc_aborted => hs[t].ipc_aborted \/ hs[t].state = "Blocked"
      BY <1>0, <1>1, <1>2, <1>3, <1>4, <1>5, <1>7, <2>1, TryWakeFields DEF DeliveryInv, FlagsOk
    <3>2. FlagsOk(hs[t], parked[t], t \in threads)
      BY <1>0, <1>1, Zenon DEF DeliveryInv
    <3>3. FlagsOk(hs'[t], parked'[t], t \in threads')
      BY <3>1, <3>2, Zenon DEF FlagsOk
    <3> QED BY <1>0, <1>1, <1>4, <3>3, FlagsStep, Zenon
  <2>6. ResumedIsDelivered'
    BY <1>0, <1>3, <1>4, <1>5, <2>1, Zenon DEF ResumedIsDelivered, TypeOK
  <2>5. DeferredWakeIsRecorded'
    <3>1. hs'[t].state = "Blocked" /\ is_delivered(hs'[t]) => hs'[t].wake_pending
      BY <1>2, <1>4, <1>5, <1>7, <2>1, TryWakeFields
    <3>2. hs'[t].state = "Blocked" /\ hs'[t].wake_pending => \E d \in Core : Stands(t, d)'
      BY <1>0, <1>1, <1>2, <1>3, <1>4, <1>7, TryWakeFields
      DEF DeliveryInv, FlagsOk, StandingInv, Stands
    <3> QED BY <1>0, <1>1, <1>4, <3>1, <3>2 DEF DeferredWakeIsRecorded, Stands, TypeOK
  <2> QED BY <2>3, <2>4, <2>5, <2>6, Zenon DEF IInv, QInv, TypeInv
<1> QED BY <1>6, <1>7, Zenon

\* SGIs, ticks, steal claims and kill flags move no thread.
LEMMA QuietActions ==
  ASSUME IInv, TypeInv', NEW c \in Core,
         \/ send_reschedule(c) \/ on_tick(c) \/ irq_send_reschedule(c)
         \/ \E v \in Core : try_initiate_steal(c, v)
         \/ \E t \in Worker : kill_thread(c, t)
  PROVE  IInv'
<1>1. UNCHANGED <<threads, hs, parked, ctx, current, switched_from, runq, inbox>>
  BY Zenon DEF send_reschedule, on_tick, irq_send_reschedule, try_initiate_steal,
         kill_thread, threadVars, coreVars
<1>2. \A d \in Core : NoSwitch(d)
  BY Zenon DEF send_reschedule, on_tick, irq_send_reschedule, try_initiate_steal,
         kill_thread, threadVars, coreVars, NoSwitch, Interruptible, IInv, TypeOK
<1> QED BY <1>1, <1>2, QuietStep, Zenon

\* A worker parks, returns from its blocking call, or departs.
LEMMA CurrentActions ==
  ASSUME IInv, TypeInv', NEW c \in Core, Block(c) \/ Unblock(c) \/ depart(c)
  PROVE  IInv'
<1> DEFINE t == current[c]
           h == hs[t]
<1>0. /\ TypeOK /\ StandingInv /\ DeliveryInv /\ ResumedIsDelivered
      /\ DeferredWakeIsRecorded
  BY Zenon DEF IInv
<1>1. /\ t \in Thread /\ h \in HandshakeOf({"ipc"}) /\ h.state = "Running"
      /\ t \in threads /\ h.on_cpu
  BY <1>0, Zenon DEF TypeOK, StandingInv, Stands, Block, Unblock, depart, RunsWorker
<1>2. UNCHANGED <<threads, ctx, coreVars>>
  BY Zenon DEF Block, Unblock, depart
<1>6. \A u \in Thread : (\E d \in Core : Stands(u, d)) => \E d \in Core : Stands(u, d)'
  BY <1>2, Zenon DEF Stands, coreVars
<1>3. CASE Block(c)
  <2> DEFINE g == park(h, "ipc")
  <2>1. hs' = [hs EXCEPT ![t] = g] /\ parked' = [parked EXCEPT ![t] = TRUE]
        /\ t \in Worker /\ ~parked[t]
    BY <1>3, Zenon DEF Block, RunsWorker
  <2>2. /\ g.state = "Blocked" /\ g.on_cpu = h.on_cpu /\ g.wait_on = "ipc" /\ ~g.ipc_served
        /\ g.ipc_aborted = h.ipc_aborted /\ g.wake_pending = h.wake_pending
    BY <1>1, ZenonT(30) DEF park, HandshakeOf
  <2>3. QInv' /\ ContextInv' /\ SwitchesToSavedContext'
    BY <1>1, <1>2, <2>1, <2>2, CurrentChanges, ZenonT(30) DEF Worker
  <2>4. /\ hs'[t] = g /\ parked'[t]
        /\ \A u \in Thread : u # t => hs'[u] = hs[u] /\ parked'[u] = parked[u]
    BY <1>0, <1>1, <2>1, Zenon DEF TypeOK
  <2>5. ~g.ipc_aborted /\ ~g.wake_pending
    BY <1>0, <1>1, <2>1, <2>2, Zenon DEF DeliveryInv, FlagsOk
  <2>6. DeliveryInv'
    <3>1. FlagsOk(hs'[t], parked'[t], t \in threads')
      BY <1>1, <1>2, <2>2, <2>4, <2>5, WaitAssumption, Zenon DEF FlagsOk
    <3> QED BY <1>0, <1>1, <1>2, <2>4, <3>1, FlagsStep, Zenon
  <2>7. ResumedIsDelivered'
    BY <1>0, <1>2, <2>2, <2>4, ZenonT(30) DEF ResumedIsDelivered, TypeOK
  <2>8. DeferredWakeIsRecorded'
    BY <1>0, <1>2, <1>6, <2>2, <2>4, <2>5, ZenonT(30)
    DEF DeferredWakeIsRecorded, TypeOK, is_delivered
  <2> QED BY <2>3, <2>6, <2>7, <2>8, Zenon DEF IInv, QInv, TypeInv
<1>4. CASE Unblock(c)
  <2> DEFINE g == take_aborted(h)
  <2>1. hs' = [hs EXCEPT ![t] = g] /\ parked' = [parked EXCEPT ![t] = FALSE]
    BY <1>4, Zenon DEF Unblock
  <2>2. /\ g.state = "Running" /\ g.on_cpu = h.on_cpu /\ ~g.ipc_aborted
        /\ g.wake_pending = h.wake_pending
    BY <1>1, ZenonT(30) DEF take_aborted, HandshakeOf
  <2>3. QInv' /\ ContextInv' /\ SwitchesToSavedContext'
    BY <1>1, <1>2, <2>1, <2>2, CurrentChanges, ZenonT(30)
  <2>4. /\ hs'[t] = g /\ ~parked'[t]
        /\ \A u \in Thread : u # t => hs'[u] = hs[u] /\ parked'[u] = parked[u]
    BY <1>0, <1>1, <2>1, Zenon DEF TypeOK
  <2>5. DeliveryInv'
    <3>1. ~h.wake_pending
      BY <1>0, <1>1, Zenon DEF DeliveryInv, FlagsOk
    <3>2. FlagsOk(hs'[t], parked'[t], t \in threads')
      BY <1>1, <1>2, <2>2, <2>4, <3>1, Zenon DEF FlagsOk
    <3> QED BY <1>0, <1>1, <1>2, <2>4, <3>2, FlagsStep, Zenon
  <2>6. ResumedIsDelivered'
    BY <1>0, <1>2, <2>4, ZenonT(30) DEF ResumedIsDelivered, TypeOK
  <2>7. DeferredWakeIsRecorded'
    BY <1>0, <1>2, <1>6, <2>2, <2>4, ZenonT(30) DEF DeferredWakeIsRecorded, TypeOK
  <2> QED BY <2>3, <2>5, <2>6, <2>7, Zenon DEF IInv, QInv, TypeInv
<1>5. CASE depart(c)
  <2> DEFINE g == [h EXCEPT !.state = IF t \in Supervised THEN "Dead" ELSE "Finished"]
  <2>1. hs' = [hs EXCEPT ![t] = g] /\ parked' = parked /\ t \in Worker
    BY <1>5, Zenon DEF depart, RunsWorker
  <2>2. /\ g.state \in {"Dead", "Finished"} /\ g.on_cpu = h.on_cpu
        /\ g.ipc_aborted = h.ipc_aborted /\ g.wake_pending = h.wake_pending
    BY <1>1, ZenonT(30) DEF HandshakeOf
  <2>3. QInv' /\ ContextInv' /\ SwitchesToSavedContext'
    BY <1>1, <1>2, <2>1, <2>2, CurrentChanges, ZenonT(30) DEF Worker
  <2>4. hs'[t] = g /\ \A u \in Thread : u # t => hs'[u] = hs[u]
    BY <1>0, <1>1, <2>1, Zenon DEF TypeOK
  <2>5. DeliveryInv'
    <3>1. FlagsOk(h, parked[t], t \in threads)
      BY <1>0, <1>1, Zenon DEF DeliveryInv
    <3>2. FlagsOk(hs'[t], parked'[t], t \in threads')
      BY <1>1, <1>2, <2>1, <2>2, <2>4, <3>1, Zenon DEF FlagsOk
    <3> QED BY <1>0, <1>1, <1>2, <2>1, <2>4, <3>2, FlagsStep, Zenon
  <2>6. ResumedIsDelivered'
    BY <1>0, <1>2, <2>1, <2>2, <2>4, Zenon DEF ResumedIsDelivered, TypeOK
  <2>7. DeferredWakeIsRecorded'
    BY <1>0, <1>2, <1>6, <2>2, <2>4, ZenonT(30) DEF DeferredWakeIsRecorded, TypeOK
  <2> QED BY <2>3, <2>5, <2>6, <2>7, Zenon DEF IInv, QInv, TypeInv
<1> QED BY <1>3, <1>4, <1>5, Zenon

\* Deliveries, bare wakes and device interrupts.
LEMMA WakeActions ==
  ASSUME IInv, TypeInv', NEW c \in Core, NEW t \in Worker,
         Deliver(c, t) \/ WakeUndelivered(c, t) \/ irq_notify(c, t)
  PROVE  IInv'
<1>0. TypeOK
  BY Zenon DEF IInv
<1>1. CASE Deliver(c, t) \/ WakeUndelivered(c, t)
  <2>1. PICK h \in {hs[t], serve(hs[t]), abort(hs[t])} :
           wake(c, t, h) /\ (h = hs[t] \/ hs[t].state = "Blocked")
    BY <1>1, Zenon DEF Deliver, WakeUndelivered
  <2>2. /\ t \in threads
        /\ UNCHANGED <<threads, parked, ctx, current, switched_from, inbox, phase>>
    BY <1>1, Zenon DEF Deliver, WakeUndelivered
  <2>3. WakeVerdict(h) = "Queue" => place_on(c, c, t)
    BY <2>1, <2>2, Zenon DEF wake, place_on
  <2>4. WakeVerdict(h) # "Queue" => UNCHANGED <<runq, inbox>>
    BY <2>1, <2>2, Zenon DEF wake
  <2>5. hs' = [hs EXCEPT ![t] = try_wake(h)]
    BY <2>1, Zenon DEF wake
  <2>6. \A d \in Core : NoSwitch(d)
    BY <2>2, Zenon DEF NoSwitch
  <2> QED BY <2>1, <2>2, <2>3, <2>4, <2>5, <2>6, WakeStep, ZenonT(30)
<1>2. CASE irq_notify(c, t)
  <2> DEFINE h == serve(hs[t])
  <2>1. /\ t \in threads /\ hs[t].state = "Blocked"
        /\ hs' = [hs EXCEPT ![t] = try_wake(h)]
        /\ UNCHANGED <<threads, parked, ctx, current, switched_from>>
    BY <1>2, Zenon DEF irq_notify
  <2>2. \/ WakeVerdict(h) = "Queue" /\ \E target \in Core : place_on(c, target, t)
        \/ WakeVerdict(h) # "Queue" /\ UNCHANGED <<runq, inbox>>
    BY <1>2, Zenon DEF irq_notify, pick_wake_target
  <2>3. \A d \in Core : NoSwitch(d)
    BY <1>0, <1>2, Zenon DEF irq_notify, NoSwitch, Interruptible, TypeOK
  <2> HIDE DEF h
  <2>4. h \in {hs[t], serve(hs[t]), abort(hs[t])}
    BY Zenon DEF h
  <2> QED BY <2>1, <2>2, <2>3, <2>4, WakeStep, ZenonT(30)
<1> QED BY <1>1, <1>2, Zenon

\* A kernel thread is spawned, or an embryo is started: Ready and placed.
LEMMA StartActions ==
  ASSUME IInv, TypeInv', NEW c \in Core, NEW t \in Worker,
         spawn(c, t) \/ start_thread_control_block(c, t)
  PROVE  IInv'
<1>0. /\ TypeOK /\ StandingInv /\ QueueInv /\ DeliveryInv /\ ResumedIsDelivered
      /\ DeferredWakeIsRecorded
  BY Zenon DEF IInv
<1>1. /\ t \in Thread /\ hs[t] \in HandshakeOf({"ipc"})
      /\ hs[t].state = "Embryo"
  BY <1>0, FreshTypes
  DEF Worker, TypeOK, spawn, start_thread_control_block, DeliveryInv, FlagsOk, embryo, Fresh
<1>2. /\ ~hs[t].on_cpu /\ ~hs[t].wake_pending /\ ~parked[t] /\ ~hs[t].ipc_aborted
      /\ ~Queued(t) /\ \A d \in Core : ~Stands(t, d)
  <2>1. \A d \in Core : ~Stands(t, d)
    BY <1>0, <1>1, ThreadAssumption DEF StandingInv, Stands, TypeOK
  <2>2. ~Queued(t)
    BY <1>0, <1>1, Zenon DEF QueueInv, Queued
  <2>3. ~hs[t].on_cpu
    BY <1>0, <1>1, <2>1, Zenon DEF StandingInv
  <2>4. ~hs[t].wake_pending /\ ~parked[t] /\ ~hs[t].ipc_aborted
    BY <1>0, <1>1, Zenon DEF DeliveryInv, FlagsOk
  <2> QED BY <2>1, <2>2, <2>3, <2>4, Zenon
<1>3. PICK h : /\ hs' = [hs EXCEPT ![t] = h]
               /\ h.state = "Ready" /\ ~h.on_cpu /\ ~h.wake_pending /\ ~h.ipc_aborted
  <2>1. CASE spawn(c, t)
    <3>1. hs' = [hs EXCEPT ![t] = ready]
      BY <2>1, Zenon DEF spawn
    <3>2. ready.state = "Ready" /\ ~ready.on_cpu /\ ~ready.wake_pending /\ ~ready.ipc_aborted
      BY Zenon DEF ready, Fresh
    <3> QED BY <3>1, <3>2, ZenonT(30)
  <2>2. CASE start_thread_control_block(c, t)
    <3> DEFINE h == [hs[t] EXCEPT !.state = "Ready"]
    <3>1. hs' = [hs EXCEPT ![t] = h]
      BY <2>2, Zenon DEF start_thread_control_block
    <3>2. h.state = "Ready" /\ ~h.on_cpu /\ ~h.wake_pending /\ ~h.ipc_aborted
      BY <1>1, <1>2, Zenon DEF HandshakeOf
    <3> QED BY <3>1, <3>2, ZenonT(30)
  <2> QED BY <2>1, <2>2, Zenon
<1>4. /\ threads' = threads \cup {t} /\ parked' = parked
      /\ ctx' = [ctx EXCEPT ![t] = TRUE]
      /\ UNCHANGED <<current, switched_from, phase>>
  BY Zenon DEF spawn, start_thread_control_block
<1>5. PICK target \in Core : place_on(c, target, t)
  BY Zenon DEF spawn, start_thread_control_block
<1>6. QInv' /\ ContextInv' /\ SwitchesToSavedContext'
  <2>1. \A d \in Core : NoSwitch(d)
    BY <1>4, Zenon DEF NoSwitch
  <2> QED BY <1>2, <1>3, <1>4, <1>5, <2>1, Enqueue, ZenonT(30)
<1>7. hs'[t] = h /\ \A u \in Thread : u # t => hs'[u] = hs[u]
  BY <1>0, <1>1, <1>3, Zenon DEF TypeOK
<1>8. DeliveryInv'
  <2>1. FlagsOk(hs'[t], parked'[t], t \in threads')
    BY <1>2, <1>3, <1>4, <1>7, Zenon DEF FlagsOk
  <2> QED BY <1>0, <1>1, <1>4, <1>7, <2>1, FlagsStep, Zenon
<1>9. ResumedIsDelivered'
  BY <1>0, <1>2, <1>4, <1>7, ZenonT(30) DEF ResumedIsDelivered, TypeOK
<1>10. DeferredWakeIsRecorded'
  <2>1. \A u \in threads' : hs'[u].state = "Blocked" => u \in threads /\ hs'[u] = hs[u]
    BY <1>0, <1>3, <1>4, <1>7, Zenon DEF TypeOK
  <2> QED BY <1>0, <1>4, <2>1, Zenon DEF DeferredWakeIsRecorded, Stands
<1> QED BY <1>6, <1>8, <1>9, <1>10, Zenon DEF IInv, QInv, TypeInv

------------------------------------------------------------------------------
(* Control blocks and the register switch.                                  *)

\* A name that is on no queue and stands on no core enters or leaves the table
\* as an embryo.
LEMMA EmbryoStep ==
  ASSUME IInv, TypeInv', NEW t \in Worker,
         ~Queued(t), \A d \in Core : ~Stands(t, d),
         threads' \in {threads \cup {t}, threads \ {t}},
         hs' = [hs EXCEPT ![t] = embryo],
         \A u \in Thread : u # t => parked'[u] = parked[u] /\ ctx'[u] = ctx[u],
         ~parked'[t],
         UNCHANGED coreVars
  PROVE  IInv'
<1> USE DEF coreVars
<1>0. /\ TypeOK /\ LinkedOnce /\ OneCorePerThread /\ LeavingInv /\ StandingInv
      /\ QueueInv /\ ReadyInv /\ IdleInv /\ ContextInv /\ SwitchesToSavedContext
      /\ DeliveryInv /\ ResumedIsDelivered /\ DeferredWakeIsRecorded
  BY Zenon DEF IInv
<1>1. /\ t \in Thread /\ hs'[t] = embryo
      /\ \A u \in Thread : u # t => hs'[u] = hs[u]
      /\ \A u \in Thread : u # t => (u \in threads' <=> u \in threads)
  BY <1>0, Zenon DEF Worker, TypeOK
<1>2. /\ embryo.state = "Embryo" /\ ~embryo.on_cpu /\ ~embryo.wake_pending
      /\ ~embryo.ipc_aborted
  BY Zenon DEF embryo, Fresh
<1>3. LinkedOnce' /\ OneCorePerThread'
  BY <1>0, Zenon DEF LinkedOnce, OneCorePerThread, Stands
<1>4. StandingInv'
  BY <1>0, <1>1, <1>2 DEF StandingInv, TypeOK, Stands
<1>5. QueueInv' /\ ReadyInv'
  BY <1>0, <1>1, <1>2 DEF QueueInv, ReadyInv, Queued, Worker
<1>6. IdleInv'
  BY <1>0, <1>1, ThreadAssumption, Zenon DEF IdleInv, Worker, IdleThread, Stands
<1>7. ContextInv' /\ SwitchesToSavedContext'
  <2>1. \A d \in Core : /\ current[d] \in Thread /\ current[d] # t
                        /\ switched_from[d] # t
                        /\ switched_from[d] # NoTid => switched_from[d] \in Thread
    BY <1>0, Zenon DEF TypeOK, Stands
  <2>2. \A u \in threads' : ~hs'[u].on_cpu /\ hs'[u].state # "Embryo" => ctx'[u]
    BY <1>0, <1>1, <1>2, Zenon DEF ContextInv, TypeInv, TypeOK
  <2> QED BY <1>0, <2>1, <2>2, Zenon DEF ContextInv, SwitchesToSavedContext, LeavingInv
<1>8. DeliveryInv'
  <2>1. FlagsOk(hs'[t], parked'[t], t \in threads')
    BY <1>1, <1>2, Zenon DEF FlagsOk
  <2> QED BY <1>0, <1>1, <2>1, FlagsStep, Zenon
<1>9. ResumedIsDelivered'
  BY <1>0, <1>1, <1>2, Zenon DEF ResumedIsDelivered, TypeInv, TypeOK
<1>10. DeferredWakeIsRecorded'
  <2>1. \A u \in threads' : hs'[u].state = "Blocked" => u \in threads /\ hs'[u] = hs[u]
    BY <1>0, <1>1, <1>2, Zenon DEF TypeInv, TypeOK
  <2> QED BY <1>0, <2>1, Zenon DEF DeferredWakeIsRecorded, Stands
<1> QED BY <1>3, <1>4, <1>5, <1>6, <1>7, <1>8, <1>9, <1>10, Zenon DEF IInv, TypeInv

\* A control block is created, and a region's reap refuses, arms or removes it.
LEMMA TableActions ==
  ASSUME IInv, TypeInv', NEW c \in Core, NEW t \in Worker,
         create_thread_control_block(c, t) \/ reap_region_thread(c, t)
  PROVE  IInv'
<1>0. TypeOK /\ StandingInv /\ QueueInv /\ DeliveryInv
  BY Zenon DEF IInv
<1>1. CASE create_thread_control_block(c, t)
  <2>1. /\ t \in Thread \ threads /\ threads' = threads \cup {t}
        /\ hs' = [hs EXCEPT ![t] = embryo]
        /\ UNCHANGED <<parked, ctx, coreVars>>
    BY <1>1, Zenon DEF create_thread_control_block, Worker
  <2>2. /\ ~parked[t] /\ ~Queued(t) /\ \A d \in Core : ~Stands(t, d)
    BY <1>0, <2>1, ThreadAssumption
    DEF DeliveryInv, FlagsOk, embryo, Fresh, QueueInv, Queued, StandingInv, Stands, TypeOK
  <2> QED BY <2>1, <2>2, EmbryoStep, ZenonT(30)
<1>2. CASE reap_region_thread(c, t)
  <2> DEFINE v == region_reap_verdict(hs[t])
  <2>1. v \in {"RefuseAndArm", "RefuseStanding", "FinishInPlace", "Reap"}
    BY Zenon DEF region_reap_verdict
  <2>2. UNCHANGED coreVars
    BY <1>2, Zenon DEF reap_region_thread
  <2>3. CASE v \in {"RefuseAndArm", "RefuseStanding"}
    <3>1. UNCHANGED <<threads, hs, parked, ctx>>
      BY <1>2, <2>3, ZenonT(30) DEF reap_region_thread
    <3>2. \A d \in Core : NoSwitch(d)
      BY <2>2, Zenon DEF NoSwitch, coreVars
    <3> QED BY <2>2, <3>1, <3>2, QuietStep, Zenon DEF coreVars
  <2>4. CASE v \in {"FinishInPlace", "Reap"}
    <3>1. Remove(t)
      BY <1>2, <2>4, ZenonT(30) DEF reap_region_thread
    <3>2. hs[t].state # "Ready" /\ ~hs[t].on_cpu /\ t \in Thread
      BY <2>4, Zenon DEF region_reap_verdict, Worker
    <3>3. ~Queued(t) /\ \A d \in Core : ~Stands(t, d)
      BY <1>0, <3>2, Zenon DEF QueueInv, Queued, StandingInv
    <3>4. /\ threads' \in {threads \cup {t}, threads \ {t}}
          /\ hs' = [hs EXCEPT ![t] = embryo]
          /\ \A u \in Thread : u # t => parked'[u] = parked[u] /\ ctx'[u] = ctx[u]
          /\ ~parked'[t]
      BY <1>0, <3>1, <3>2, Zenon DEF Remove, TypeOK
    <3> QED BY <2>2, <3>3, <3>4, EmbryoStep, ZenonT(30)
  <2> QED BY <2>1, <2>3, <2>4, Zenon
<1> QED BY <1>1, <1>2, Zenon

\* The register switch: one context is saved, the other is consumed.
LEMMA SwitchToAction ==
  ASSUME IInv, TypeInv', NEW c \in Core, switch_to(c)
  PROVE  IInv'
<1> DEFINE p == switched_from[c]
           n == current[c]
<1>0. /\ TypeOK /\ LinkedOnce /\ OneCorePerThread /\ LeavingInv /\ StandingInv
      /\ QueueInv /\ ReadyInv /\ IdleInv /\ ContextInv /\ SwitchesToSavedContext
      /\ DeliveryInv /\ ResumedIsDelivered /\ DeferredWakeIsRecorded
  BY Zenon DEF IInv
<1>1. /\ phase[c] = "switch" /\ phase' = [phase EXCEPT ![c] = "landed"]
      /\ ctx' = [ctx EXCEPT ![p] = TRUE, ![n] = FALSE]
      /\ UNCHANGED <<threads, hs, parked, current, switched_from, runq, inbox>>
  BY Zenon DEF switch_to
<1>2. /\ p \in Thread /\ n \in Thread /\ p # n
      /\ ctx'[p] /\ ~ctx'[n] /\ \A u \in Thread : u # p /\ u # n => ctx'[u] = ctx[u]
      /\ phase'[c] = "landed" /\ \A d \in Core : d # c => phase'[d] = phase[d]
  BY <1>0, <1>1, Zenon DEF TypeOK, LeavingInv, StandingInv
<1>3. \A d \in Core : d # c =>
         /\ current[d] # p /\ current[d] # n /\ current[d] \in Thread
         /\ switched_from[d] # p /\ switched_from[d] # n
         /\ phase[d] \in {"switch", "landed"} => switched_from[d] \in Thread
  BY <1>0, <1>2 DEF OneCorePerThread, Stands, TypeOK, LeavingInv
<1>4. hs[n].on_cpu
  BY <1>0, <1>2, Zenon DEF StandingInv, Stands
<1>5. LinkedOnce' /\ OneCorePerThread' /\ StandingInv' /\ QueueInv' /\ ReadyInv' /\ IdleInv'
  <2>1. LinkedOnce' /\ OneCorePerThread'
    BY <1>0, <1>1, Zenon DEF LinkedOnce, OneCorePerThread, Stands
  <2>2. StandingInv' /\ IdleInv'
    BY <1>0, <1>1, Zenon DEF StandingInv, IdleInv, Stands
  <2>3. QueueInv' /\ ReadyInv'
    BY <1>0, <1>1, Zenon DEF QueueInv, ReadyInv, Queued
  <2> QED BY <2>1, <2>2, <2>3, Zenon
<1>6. ContextInv'
  <2>1. \A u \in threads' : ~hs'[u].on_cpu /\ hs'[u].state # "Embryo" => ctx'[u]
    BY <1>0, <1>1, <1>2, <1>4, ZenonT(30) DEF ContextInv, TypeOK
  <2>2. \A d \in Core : phase'[d] # "switch" => ~ctx'[current'[d]]
    BY <1>0, <1>1, <1>2, <1>3, ZenonT(30) DEF ContextInv
  <2>3. \A d \in Core : phase'[d] = "landed" => ctx'[switched_from'[d]]
    BY <1>0, <1>1, <1>2, <1>3, ZenonT(30) DEF ContextInv
  <2> QED BY <2>1, <2>2, <2>3, Zenon DEF ContextInv
<1>7. SwitchesToSavedContext'
  BY <1>0, <1>1, <1>2, <1>3, ZenonT(30) DEF SwitchesToSavedContext
<1>8. DeliveryInv' /\ ResumedIsDelivered' /\ DeferredWakeIsRecorded'
  BY <1>0, <1>1, Zenon DEF DeliveryInv, FlagsOk, ResumedIsDelivered, DeferredWakeIsRecorded, Stands
<1> QED BY <1>5, <1>6, <1>7, <1>8, Zenon DEF IInv, TypeInv
==============================================================================
