------------------------ MODULE NotificationsInvariant ------------------------
(***************************************************************************)
(* The inductive invariant of module Notifications, and what the pieces of *)
(* its handlers do to it, for any threads, rendezvous, notifications,      *)
(* cores and regions, any finite set of timers and any bound on the clock. *)
(*                                                                         *)
(* IInv says how the four pieces of state that every handler of sched.rs   *)
(* keeps in step hang together: the queues hold exactly the threads asleep *)
(* where their wait_on says (Linked), a thread bound to a notification     *)
(* that holds a word is not receiving (Told), the two ends of a binding    *)
(* agree (Coupled), and whoever is asleep has an empty mailbox (Mailed).   *)
(* The signal path may run many times under one hold of the lock, so it is *)
(* treated as a function of those pieces of state, which is why the        *)
(* conjuncts have parameters.  NotificationsProofs shows that every        *)
(* handler keeps IInv, and what follows.                                   *)
(***************************************************************************)
EXTENDS Notifications, FiniteSetTheorems, WellFoundedInduction, TLAPS

\* Zenon is the prover of a leaf that names none: most are set reasoning.
USE Zenon

------------------------------------------------------------------------------
(* Numbers and queues.                                                      *)

\* A set of numbers that is not empty has a least one.
LEMMA Smallest ==
  ASSUME NEW S \in SUBSET Nat, S # {}
  PROVE  \E x \in S : \A y \in S : x <= y
<1>1. PICK x \in S : \A y \in S : ~(<<y, x>> \in OpToRel(<, Nat))
  BY NatLessThanWellFounded, WFMin
<1>2. \A y \in S : ~(y < x)
  BY <1>1 DEF OpToRel
<1> QED BY <1>2, SMT

\* A wait queue: an intrusive list is a sequence in which no thread is twice.
Queue(q) == q \in Seq(Thread) /\ IsInjective(q)

\* The new queue is empty.
LEMMA NoneQueued == Queue(<<>>) /\ Range(<<>>) = {}
  BY SMT DEF Queue, IsInjective, Range

\* push_back of a thread that is not in the queue.
LEMMA Push ==
  ASSUME NEW q, Queue(q), NEW t \in Thread, t \notin Range(q)
  PROVE  Queue(Append(q, t)) /\ Range(Append(q, t)) = Range(q) \cup {t}
<1>1. q \in Seq(Thread) /\ \A i, j \in 1..Len(q) : q[i] = q[j] => i = j
  BY SMT DEF Queue, IsInjective
<1>2. \A i \in 1..Len(q) : q[i] # t
  BY <1>1, SMT DEF Range
<1>3. /\ Append(q, t) \in Seq(Thread) /\ DOMAIN Append(q, t) = 1..(Len(q) + 1)
      /\ \A i \in 1..Len(q) : Append(q, t)[i] = q[i]
      /\ Append(q, t)[Len(q) + 1] = t
  BY <1>1, SMT
<1>4. IsInjective(Append(q, t))
  BY <1>1, <1>2, <1>3, SMT DEF IsInjective
<1>5. Range(Append(q, t)) = Range(q) \cup {t}
  BY <1>1, <1>3, SMT DEF Range
<1> QED BY <1>3, <1>4, <1>5 DEF Queue

\* pop_front of a queue that is not empty.
LEMMA Pop ==
  ASSUME NEW q, Queue(q), q # <<>>
  PROVE  /\ Head(q) \in Range(q) /\ Head(q) \in Thread
         /\ Queue(Tail(q)) /\ Range(Tail(q)) = Range(q) \ {Head(q)}
<1>1. q \in Seq(Thread) /\ \A i, j \in 1..Len(q) : q[i] = q[j] => i = j
  BY SMT DEF Queue, IsInjective
<1>2. Len(q) \in Nat \ {0} /\ Head(q) = q[1]
  BY <1>1, SMT
<1>3. /\ Tail(q) \in Seq(Thread) /\ DOMAIN Tail(q) = 1..(Len(q) - 1)
      /\ \A i \in 1..(Len(q) - 1) : Tail(q)[i] = q[i + 1]
  BY <1>1, <1>2, SMT
<1>4. IsInjective(Tail(q))
  BY <1>1, <1>2, <1>3, SMT DEF IsInjective
<1>5. Range(Tail(q)) = Range(q) \ {Head(q)}
  <2>1. \A x \in Range(Tail(q)) : x \in Range(q) /\ x # q[1]
    BY <1>1, <1>2, <1>3, SMT DEF Range
  <2>2. ASSUME NEW i \in 1..Len(q), q[i] # q[1] PROVE q[i] \in Range(Tail(q))
    <3>1. i - 1 \in 1..(Len(q) - 1) /\ Tail(q)[i - 1] = q[i]
      <4>1. i # 1
        BY <2>2
      <4> QED BY <4>1, <1>2, <1>3, SMT
    <3> QED BY <3>1, <1>3 DEF Range
  <2>3. \A x \in Range(q) : x # q[1] => x \in Range(Tail(q))
    <3>1. \A x \in Range(q) : \E i \in 1..Len(q) : x = q[i]
      BY <1>1, SMT DEF Range
    <3> QED BY <2>2, <3>1
  <2> QED BY <2>1, <2>3, <1>2
<1> QED BY <1>1, <1>2, <1>3, <1>4, <1>5, SMT DEF Queue, Range

\* The q of Without: what is kept, and the place of what is kept in the result.
Kept(q, S)     == {i \in DOMAIN q : q[i] \notin S}
Before(K, i)   == {j \in K : j <= i}

\* Every place up to the number of members of a set of numbers is one member's.
LEMMA Ranks ==
  ASSUME NEW n \in Nat, NEW K \in SUBSET (1..n)
  PROVE  /\ IsFiniteSet(K)
         /\ \A i, j \in K : Cardinality(Before(K, i)) = Cardinality(Before(K, j)) => i = j
         /\ \A p \in 1..Cardinality(K) : \E i \in K : Cardinality(Before(K, i)) = p
         /\ \A i \in K : Cardinality(Before(K, i)) \in 1..Cardinality(K)
<1>1. IsFiniteSet(K) /\ Cardinality(K) \in Nat
  <2>1. IsFiniteSet(1..n)
    BY FS_Interval, SMT
  <2> QED BY <2>1, FS_Subset, FS_CardinalityType
<1>2. \A i \in K : i \in Before(K, i) /\ Before(K, i) \in SUBSET K
  BY SMT DEF Before
<1>3. \A i \in K : IsFiniteSet(Before(K, i)) /\ Cardinality(Before(K, i)) \in Nat
                   /\ Cardinality(Before(K, i)) <= Cardinality(K)
  BY <1>1, <1>2, FS_Subset, FS_CardinalityType
<1>4. \A i \in K : Cardinality(Before(K, i)) # 0
  BY <1>2, <1>3, FS_EmptySet
<1>5. \A i \in K : Cardinality(Before(K, i)) \in 1..Cardinality(K)
  BY <1>1, <1>3, <1>4, SMT
<1>6. ASSUME NEW i \in K, NEW j \in K, i < j
      PROVE  Cardinality(Before(K, i)) # Cardinality(Before(K, j))
  <2>1. Before(K, i) \in SUBSET Before(K, j) /\ j \notin Before(K, i)
    <3>1. K \subseteq Int /\ i \in Int /\ j \in Int
      BY SMT
    <3>2. ~(j <= i) /\ \A x \in K : x <= i => x <= j
      BY <1>6, <3>1, SMT
    <3> QED BY <3>2 DEF Before
  <2> QED BY <1>2, <1>3, <2>1, FS_Subset
<1>7. \A i, j \in K : Cardinality(Before(K, i)) = Cardinality(Before(K, j)) => i = j
  BY <1>6, SMT
<1> DEFINE f == [i \in K |-> Cardinality(Before(K, i))]
<1>8. f \in Injection(K, 1..Cardinality(K))
  BY <1>5, <1>7 DEF Injection, IsInjective
<1>9. f \in Surjection(K, 1..Cardinality(K))
  <2>1. IsFiniteSet(1..Cardinality(K)) /\ Cardinality(1..Cardinality(K)) = Cardinality(K)
    <3>1. /\ IsFiniteSet(1..Cardinality(K))
          /\ Cardinality(1..Cardinality(K))
               = IF 1 > Cardinality(K) THEN 0 ELSE Cardinality(K) - 1 + 1
      BY <1>1, FS_Interval, SMT
    <3> QED BY <1>1, <3>1, SMT
  <2> QED BY <1>8, <2>1, FS_Injection
<1>10. \A p \in 1..Cardinality(K) : \E i \in K : f[i] = p
  BY <1>9 DEF Surjection
<1> QED BY <1>1, <1>5, <1>7, <1>10

\* Unlinking: the queue loses the members of S and nobody else.
LEMMA Unlink ==
  ASSUME NEW q, Queue(q), NEW S
  PROVE  Queue(Without(q, S)) /\ Range(Without(q, S)) = Range(q) \ S
<1> DEFINE K == Kept(q, S)
           c == Cardinality(K)
           At(p) == CHOOSE i \in K : Cardinality(Before(K, i)) = p
<1>1. q \in Seq(Thread) /\ Len(q) \in Nat /\ DOMAIN q = 1..Len(q)
  BY SMT DEF Queue
<1>2. \A i, j \in DOMAIN q : q[i] = q[j] => i = j
  BY DEF Queue, IsInjective
<1>3. K \in SUBSET (1..Len(q)) /\ K \subseteq DOMAIN q
  BY <1>1 DEF Kept
<1>4. /\ \A i, j \in K : Cardinality(Before(K, i)) = Cardinality(Before(K, j)) => i = j
      /\ \A p \in 1..c : \E i \in K : Cardinality(Before(K, i)) = p
      /\ \A i \in K : Cardinality(Before(K, i)) \in 1..c
      /\ c \in Nat
  BY <1>1, <1>3, Ranks, FS_CardinalityType
<1>5. Without(q, S) = [p \in 1..c |-> q[At(p)]]
  BY DEF Without, Kept, Before
<1>6. \A p \in 1..c : At(p) \in K /\ Cardinality(Before(K, At(p))) = p
  BY <1>4
<1>7. \A i \in K : At(Cardinality(Before(K, i))) = i
  BY <1>4, <1>6
<1> HIDE DEF K, c, At
<1>8. \A p \in 1..c : q[At(p)] \in Thread
  BY <1>1, <1>3, <1>6, SMT
<1>9. Without(q, S) \in Seq(Thread) /\ DOMAIN Without(q, S) = 1..c
  BY <1>4, <1>5, <1>8, SMT
<1>10. \A p, r \in 1..c : q[At(p)] = q[At(r)] => p = r
  BY <1>2, <1>3, <1>6
<1>11. IsInjective(Without(q, S))
  BY <1>5, <1>9, <1>10 DEF IsInjective
<1>12. Range(Without(q, S)) = {q[At(p)] : p \in 1..c}
  BY <1>5, <1>9 DEF Range
<1>13. {q[At(p)] : p \in 1..c} \subseteq Range(q) \ S
  BY <1>3, <1>6 DEF Range, K, Kept
<1>14. ASSUME NEW x \in Range(q) \ S PROVE x \in {q[At(p)] : p \in 1..c}
  <2>1. PICK i \in K : x = q[i]
    BY <1>14 DEF Range, K, Kept
  <2> QED BY <1>4, <1>7, <2>1
<1> QED BY <1>9, <1>11, <1>12, <1>13, <1>14 DEF Queue

------------------------------------------------------------------------------
(* The inductive invariant, of the thread table T, the notification table N,*)
(* the calls c, the bindings b, the handshakes h, the mailboxes m, the      *)
(* rendezvous r and the notification pages p.                               *)

\* Blocked, with nothing delivered.
Asleep(x) == x.state = "Blocked" /\ ~is_delivered(x)

\* A wake is deferred only for a thread that has been delivered something.
PendOk(x) == x.wake_pending => x.state = "Finished" \/ (x.state = "Blocked" /\ is_delivered(x))

WaitAt(o, role) == [on |-> o, role |-> role]

\* A mailbox without a notification holds no bits.
ProperMail == {x \in Mail : x.ntfn \in Ntfn \/ x.bits = {}}

HTyped(h) == h \in [Thread -> HandshakeOf(Wait)] /\ \A t \in Thread : PendOk(h[t])

RTyped(r) ==
    /\ r \in [Ep -> RendezvousOf(Thread, 0)]
    /\ \A e \in Ep : Queue(r[e].senders) /\ Queue(r[e].receivers)

PTyped(p) == p \in [Ntfn -> Page] /\ \A n \in Ntfn : Queue(p[n].waiters)

Typed(h, m, r, p) == HTyped(h) /\ m \in [Thread -> ProperMail] /\ RTyped(r) /\ PTyped(p)

Linked(T, h, r, p) ==
    /\ \A n \in Ntfn, t \in Thread :
          t \in Range(p[n].waiters)
            <=> t \in T /\ Asleep(h[t]) /\ h[t].wait_on = WaitAt(n, "Waiter")
    /\ \A e \in Ep, t \in Thread :
          t \in Range(r[e].receivers)
            <=> t \in T /\ Asleep(h[t]) /\ h[t].wait_on = WaitAt(e, "Receiver")
    /\ \A e \in Ep, t \in Thread :
          t \in Range(r[e].senders)
            <=> t \in T /\ Asleep(h[t]) /\ h[t].wait_on = WaitAt(e, "Sender")

Told(N, r, p) ==
    \A n \in N, e \in Ep : p[n].word # {} => p[n].bound \notin Range(r[e].receivers)

\* The two sides of a binding agree while both are in their tables.
Coupled(T, N, b, p) == \A n \in N : p[n].bound \in T => b[p[n].bound] = n

\* Who is asleep, or back in its program, has an empty mailbox, and an aborted call
\* was delivered nothing.
Mailed(T, c, h, m) ==
    \A t \in T :
        /\ Asleep(h[t]) => c[t] # "user"
        /\ Asleep(h[t]) \/ c[t] = "user" \/ h[t].ipc_aborted => m[t] = NoMail
        /\ c[t] = "user" => ~h[t].ipc_aborted

Good(T, N, c, b, h, m, r, p) ==
    /\ T \subseteq Thread /\ N \subseteq Ntfn
    /\ Typed(h, m, r, p) /\ Linked(T, h, r, p) /\ Told(N, r, p) /\ Coupled(T, N, b, p)
    /\ Mailed(T, c, h, m)

------------------------------------------------------------------------------
(* The handshake.                                                           *)

\* What a thread asleep is when something has been delivered to it.
LEMMA Woken ==
  ASSUME NEW x \in HandshakeOf(Wait), Asleep(x), PendOk(x)
  PROVE  LET y == try_wake(serve(x))
         IN  y \in HandshakeOf(Wait) /\ ~Asleep(y) /\ PendOk(y) /\ ~y.ipc_aborted
  BY DEF HandshakeOf, Asleep, PendOk, is_delivered, try_wake, serve, WakeVerdict, RunState

\* What it is when its wait was aborted.
LEMMA Aborted ==
  ASSUME NEW x \in HandshakeOf(Wait), Asleep(x), PendOk(x)
  PROVE  LET y == try_wake(abort(x))
         IN  y \in HandshakeOf(Wait) /\ ~Asleep(y) /\ PendOk(y) /\ y.ipc_aborted
  BY DEF HandshakeOf, Asleep, PendOk, is_delivered, try_wake, abort, WakeVerdict, RunState

\* What a running thread is when it has parked.
LEMMA ParkedIs ==
  ASSUME NEW x \in HandshakeOf(Wait), x.state = "Running", ~x.ipc_aborted, PendOk(x),
         NEW w \in Wait
  PROVE  LET y == park(x, w)
         IN  /\ y \in HandshakeOf(Wait) /\ Asleep(y) /\ PendOk(y)
             /\ y.wait_on = w /\ ~y.ipc_aborted
  BY DEF HandshakeOf, Asleep, PendOk, is_delivered, park, RunState

\* The other transitions of a thread put nobody to sleep and wake nobody asleep.
LEMMA Switched ==
  ASSUME NEW x \in HandshakeOf(Wait), PendOk(x)
  PROVE  /\ x.state = "Ready" =>
              LET y == switch_in(x)
              IN  y \in HandshakeOf(Wait) /\ ~Asleep(y) /\ PendOk(y)
                  /\ y.ipc_aborted = x.ipc_aborted /\ ~Asleep(x)
         /\ x.state # "Finished" =>
              LET y == finish_switch(x)
              IN  /\ y \in HandshakeOf(Wait) /\ PendOk(y) /\ y.ipc_aborted = x.ipc_aborted
                  /\ Asleep(y) = Asleep(x) /\ (Asleep(x) => y.wait_on = x.wait_on)
         /\ x.state = "Running" =>
              LET y == take_aborted(x)
              IN  y \in HandshakeOf(Wait) /\ ~Asleep(y) /\ PendOk(y) /\ ~y.ipc_aborted
                  /\ ~Asleep(x)
         /\ x.state = "Running" =>
              LET y == [x EXCEPT !.state = "Finished"]
              IN  y \in HandshakeOf(Wait) /\ ~Asleep(y) /\ PendOk(y)
                  /\ y.ipc_aborted = x.ipc_aborted /\ ~Asleep(x)
  BY DEF HandshakeOf, Asleep, PendOk, is_delivered, switch_in, finish_switch, take_aborted,
     SwitchOutVerdict, RunState

\* A slot without a thread, and a thread ended in place.
LEMMA Ended ==
  /\ embryo \in HandshakeOf(Wait) /\ ~Asleep(embryo) /\ PendOk(embryo)
  /\ ~embryo.ipc_aborted
  /\ \A x \in HandshakeOf(Wait) :
        LET y == [x EXCEPT !.state = "Finished", !.wait_on = NoWait]
        IN  y \in HandshakeOf(Wait) /\ ~Asleep(y) /\ PendOk(y)
            /\ y.ipc_aborted = x.ipc_aborted /\ y.state = "Finished" /\ y.on_cpu = x.on_cpu
  BY DEF HandshakeOf, Asleep, PendOk, is_delivered, embryo, Fresh, RunState

------------------------------------------------------------------------------
(* Queues and sleepers.                                                     *)

\* A thread asleep is in one queue, the one its wait_on names.
LEMMA OneQueue ==
  ASSUME NEW T, NEW h, NEW r, NEW p, Linked(T, h, r, p), NEW t \in Thread
  PROVE  /\ \A n \in Ntfn : h[t].wait_on # WaitAt(n, "Waiter") => t \notin Range(p[n].waiters)
         /\ \A e \in Ep : h[t].wait_on # WaitAt(e, "Receiver") => t \notin Range(r[e].receivers)
         /\ \A e \in Ep : h[t].wait_on # WaitAt(e, "Sender") => t \notin Range(r[e].senders)
         /\ \A n, k \in Ntfn :
              t \in Range(p[n].waiters) /\ t \in Range(p[k].waiters) => n = k
         /\ \A e, f \in Ep :
              t \in Range(r[e].receivers) /\ t \in Range(r[f].receivers) => e = f
         /\ \A e, f \in Ep :
              t \in Range(r[e].senders) /\ t \in Range(r[f].senders) => e = f
         /\ \A n \in Ntfn, e \in Ep : t \in Range(p[n].waiters)
              => t \notin Range(r[e].receivers) /\ t \notin Range(r[e].senders)
         /\ \A e, f \in Ep : t \in Range(r[e].receivers) => t \notin Range(r[f].senders)
<1>1. \A o, q : WaitAt(o, "Waiter") # WaitAt(q, "Receiver")
               /\ WaitAt(o, "Waiter") # WaitAt(q, "Sender")
               /\ WaitAt(o, "Receiver") # WaitAt(q, "Sender")
  BY DEF WaitAt
<1>2. \A o, q, y : WaitAt(o, y) = WaitAt(q, y) => o = q
  BY DEF WaitAt
<1>3. /\ \A n \in Ntfn : t \in Range(p[n].waiters) => h[t].wait_on = WaitAt(n, "Waiter")
      /\ \A e \in Ep : t \in Range(r[e].receivers) => h[t].wait_on = WaitAt(e, "Receiver")
      /\ \A e \in Ep : t \in Range(r[e].senders) => h[t].wait_on = WaitAt(e, "Sender")
  BY DEF Linked
<1>4. /\ \A n, k \in Ntfn :
           t \in Range(p[n].waiters) /\ t \in Range(p[k].waiters) => n = k
      /\ \A e, f \in Ep :
           t \in Range(r[e].receivers) /\ t \in Range(r[f].receivers) => e = f
      /\ \A e, f \in Ep :
           t \in Range(r[e].senders) /\ t \in Range(r[f].senders) => e = f
  BY <1>2, <1>3, SMT
<1>5. /\ \A n \in Ntfn, e \in Ep : t \in Range(p[n].waiters)
           => t \notin Range(r[e].receivers) /\ t \notin Range(r[e].senders)
      /\ \A e, f \in Ep : t \in Range(r[e].receivers) => t \notin Range(r[f].senders)
  BY <1>1, <1>3
<1> QED BY <1>3, <1>4, <1>5

\* The queues lose the members of S.
Lose(S, r, p, r2, p2) ==
    /\ \A n \in Ntfn : Range(p2[n].waiters) = Range(p[n].waiters) \ S
    /\ \A e \in Ep : Range(r2[e].receivers) = Range(r[e].receivers) \ S
    /\ \A e \in Ep : Range(r2[e].senders) = Range(r[e].senders) \ S

\* The members of S are no longer asleep, or no longer in the table; nobody else
\* changes.
Rouse(S, T, h, T2, h2) ==
    \A t \in Thread :
        /\ t \in S => ~(t \in T2 /\ Asleep(h2[t]))
        /\ t \notin S =>
              /\ (t \in T2 /\ Asleep(h2[t])) <=> (t \in T /\ Asleep(h[t]))
              /\ t \in T /\ Asleep(h[t]) => h2[t].wait_on = h[t].wait_on

\* Threads that are roused and leave their queues leave the others linked.
LEMMA Leave ==
  ASSUME NEW T, NEW h, NEW r, NEW p, Linked(T, h, r, p), NEW S,
         NEW T2, NEW h2, NEW r2, NEW p2, Rouse(S, T, h, T2, h2), Lose(S, r, p, r2, p2)
  PROVE  Linked(T2, h2, r2, p2)
<1>0. /\ \A t \in Thread : t \in S => ~(t \in T2 /\ Asleep(h2[t]))
      /\ \A t \in Thread : t \notin S =>
            /\ (t \in T2 /\ Asleep(h2[t])) <=> (t \in T /\ Asleep(h[t]))
            /\ t \in T /\ Asleep(h[t]) => h2[t].wait_on = h[t].wait_on
      /\ \A n \in Ntfn : Range(p2[n].waiters) = Range(p[n].waiters) \ S
      /\ \A e \in Ep : Range(r2[e].receivers) = Range(r[e].receivers) \ S
      /\ \A e \in Ep : Range(r2[e].senders) = Range(r[e].senders) \ S
  BY DEF Rouse, Lose
<1>1. ASSUME NEW n \in Ntfn, NEW t \in Thread
      PROVE  t \in Range(p2[n].waiters)
               <=> t \in T2 /\ Asleep(h2[t]) /\ h2[t].wait_on = WaitAt(n, "Waiter")
  <2>1. t \in Range(p[n].waiters)
          <=> t \in T /\ Asleep(h[t]) /\ h[t].wait_on = WaitAt(n, "Waiter")
    BY DEF Linked
  <2> QED BY <1>0, <2>1
<1>2. ASSUME NEW e \in Ep, NEW t \in Thread
      PROVE  t \in Range(r2[e].receivers)
               <=> t \in T2 /\ Asleep(h2[t]) /\ h2[t].wait_on = WaitAt(e, "Receiver")
  <2>1. t \in Range(r[e].receivers)
          <=> t \in T /\ Asleep(h[t]) /\ h[t].wait_on = WaitAt(e, "Receiver")
    BY DEF Linked
  <2> QED BY <1>0, <2>1
<1>3. ASSUME NEW e \in Ep, NEW t \in Thread
      PROVE  t \in Range(r2[e].senders)
               <=> t \in T2 /\ Asleep(h2[t]) /\ h2[t].wait_on = WaitAt(e, "Sender")
  <2>1. t \in Range(r[e].senders)
          <=> t \in T /\ Asleep(h[t]) /\ h[t].wait_on = WaitAt(e, "Sender")
    BY DEF Linked
  <2> QED BY <1>0, <2>1
<1> QED BY <1>1, <1>2, <1>3 DEF Linked

\* t goes to sleep at w and joins the queue w names; nobody else changes.
LEMMA Join ==
  ASSUME NEW T, NEW h, NEW r, NEW p, Linked(T, h, r, p), h \in [Thread -> HandshakeOf(Wait)],
         NEW t \in Thread, t \in T, NEW x, Asleep(x),
         NEW r2, NEW p2,
         \A n \in Ntfn, u \in Thread : u \in Range(p2[n].waiters)
            <=> u \in Range(p[n].waiters) \/ (u = t /\ x.wait_on = WaitAt(n, "Waiter")),
         \A e \in Ep, u \in Thread : u \in Range(r2[e].receivers)
            <=> u \in Range(r[e].receivers) \/ (u = t /\ x.wait_on = WaitAt(e, "Receiver")),
         \A e \in Ep, u \in Thread : u \in Range(r2[e].senders)
            <=> u \in Range(r[e].senders) \/ (u = t /\ x.wait_on = WaitAt(e, "Sender")),
         ~Asleep(h[t])
  PROVE  Linked(T, [h EXCEPT ![t] = x], r2, p2)
<1> DEFINE h2 == [h EXCEPT ![t] = x]
<1>0. h2[t] = x /\ \A u \in Thread : u # t => h2[u] = h[u]
  OBVIOUS
<1> HIDE DEF h2
<1>1. ASSUME NEW n \in Ntfn, NEW u \in Thread
      PROVE  u \in Range(p2[n].waiters)
               <=> u \in T /\ Asleep(h2[u]) /\ h2[u].wait_on = WaitAt(n, "Waiter")
  <2>1. u \in Range(p[n].waiters)
          <=> u \in T /\ Asleep(h[u]) /\ h[u].wait_on = WaitAt(n, "Waiter")
    BY DEF Linked
  <2>2. CASE u = t BY <2>1, <2>2, <1>0
  <2>3. CASE u # t BY <2>1, <2>3, <1>0
  <2> QED BY <2>2, <2>3
<1>2. ASSUME NEW e \in Ep, NEW u \in Thread
      PROVE  u \in Range(r2[e].receivers)
               <=> u \in T /\ Asleep(h2[u]) /\ h2[u].wait_on = WaitAt(e, "Receiver")
  <2>1. u \in Range(r[e].receivers)
          <=> u \in T /\ Asleep(h[u]) /\ h[u].wait_on = WaitAt(e, "Receiver")
    BY DEF Linked
  <2>2. CASE u = t BY <2>1, <2>2, <1>0
  <2>3. CASE u # t BY <2>1, <2>3, <1>0
  <2> QED BY <2>2, <2>3
<1>3. ASSUME NEW e \in Ep, NEW u \in Thread
      PROVE  u \in Range(r2[e].senders)
               <=> u \in T /\ Asleep(h2[u]) /\ h2[u].wait_on = WaitAt(e, "Sender")
  <2>1. u \in Range(r[e].senders)
          <=> u \in T /\ Asleep(h[u]) /\ h[u].wait_on = WaitAt(e, "Sender")
    BY DEF Linked
  <2>2. CASE u = t BY <2>1, <2>2, <1>0
  <2>3. CASE u # t BY <2>1, <2>3, <1>0
  <2> QED BY <2>2, <2>3
<1> QED BY <1>1, <1>2, <1>3 DEF Linked, h2

Update(f, t, x) == [f EXCEPT ![t] = x]

\* One handshake changes.
LEMMA OneChanges ==
  ASSUME NEW h, HTyped(h), NEW t \in Thread, NEW x \in HandshakeOf(Wait), PendOk(x)
  PROVE  /\ HTyped(Update(h, t, x)) /\ Update(h, t, x)[t] = x
         /\ \A u \in Thread : u # t => Update(h, t, x)[u] = h[u]
<1>1. h \in [Thread -> HandshakeOf(Wait)] /\ \A u \in Thread : PendOk(h[u])
  BY DEF HTyped
<1>2. /\ Update(h, t, x) \in [Thread -> HandshakeOf(Wait)] /\ Update(h, t, x)[t] = x
      /\ \A u \in Thread : u # t => Update(h, t, x)[u] = h[u]
  BY <1>1 DEF Update
<1> QED BY <1>1, <1>2 DEF HTyped

\* Whoever shares a queue's fate with nobody but t: after a delivery to t, who was
\* asleep, everything is as it should be if its queue has lost it.
LEMMA Delivered ==
  ASSUME NEW T, NEW N, NEW c, NEW b, NEW h, NEW m, NEW r, NEW p,
         Good(T, N, c, b, h, m, r, p),
         NEW t \in Thread, t \in T, Asleep(h[t]), NEW x \in ProperMail,
         NEW r2, RTyped(r2), NEW p2, PTyped(p2),
         Lose({t}, r, p, r2, p2), Told(N, r2, p2), Coupled(T, N, b, p2)
  PROVE  Good(T, N, c, b, Update(h, t, try_wake(serve(h[t]))), Update(m, t, x), r2, p2)
<1>1. /\ T \subseteq Thread /\ N \subseteq Ntfn /\ HTyped(h) /\ m \in [Thread -> ProperMail]
      /\ Linked(T, h, r, p) /\ Mailed(T, c, h, m)
  BY DEF Good, Typed
<1>2. h[t] \in HandshakeOf(Wait) /\ PendOk(h[t])
  BY <1>1 DEF HTyped
<1>3. PICK y : y = try_wake(serve(h[t]))
  OBVIOUS
<1>4. y \in HandshakeOf(Wait) /\ ~Asleep(y) /\ PendOk(y) /\ ~y.ipc_aborted
  BY <1>2, <1>3, Woken
<1>5. PICK h2 : h2 = Update(h, t, y)
  OBVIOUS
<1>6. HTyped(h2) /\ h2[t] = y /\ \A u \in Thread : u # t => h2[u] = h[u]
  <2>1. y \in HandshakeOf(Wait) /\ PendOk(y)
    BY <1>4
  <2>2. /\ HTyped(Update(h, t, y)) /\ Update(h, t, y)[t] = y
        /\ \A u \in Thread : u # t => Update(h, t, y)[u] = h[u]
    BY <1>1, <2>1, OneChanges
  <2> QED BY <1>5, <2>2
<1>7. Linked(T, h2, r2, p2)
  <2>1. Rouse({t}, T, h, T, h2)
    BY <1>4, <1>6 DEF Rouse
  <2> QED BY <1>1, <2>1, Leave
<1>8. PICK m2 : m2 = Update(m, t, x)
  OBVIOUS
<1>9. m2 \in [Thread -> ProperMail] /\ \A u \in Thread : u # t => m2[u] = m[u]
  BY <1>1, <1>8 DEF Update
<1>10. c[t] # "user"
  BY <1>1 DEF Mailed
<1>11. Mailed(T, c, h2, m2)
  <2> SUFFICES ASSUME NEW u \in T
               PROVE  /\ Asleep(h2[u]) => c[u] # "user"
                      /\ Asleep(h2[u]) \/ c[u] = "user" \/ h2[u].ipc_aborted => m2[u] = NoMail
                      /\ c[u] = "user" => ~h2[u].ipc_aborted
    BY DEF Mailed
  <2>1. CASE u = t BY <2>1, <1>4, <1>6, <1>10
  <2>2. CASE u # t
    <3>1. h2[u] = h[u] /\ m2[u] = m[u]
      BY <2>2, <1>1, <1>6, <1>9
    <3>2. /\ Asleep(h[u]) => c[u] # "user"
          /\ Asleep(h[u]) \/ c[u] = "user" \/ h[u].ipc_aborted => m[u] = NoMail
          /\ c[u] = "user" => ~h[u].ipc_aborted
      BY <1>1 DEF Mailed
    <3> QED BY <3>1, <3>2
  <2> QED BY <2>1, <2>2
<1>12. Good(T, N, c, b, h2, m2, r2, p2)
  BY <1>1, <1>6, <1>7, <1>9, <1>11 DEF Good, Typed
<1> QED BY <1>12, <1>3, <1>5, <1>8

------------------------------------------------------------------------------
(* The signal path.                                                         *)

Rec(h, m, r, p) == [hs |-> h, mailbox |-> m, rv |-> r, page |-> p]

Popped(p, n)        == Update(p, n, [p[n] EXCEPT !.waiters = Tail(@)])
Emptied(p, n)       == Update(p, n, [p[n] EXCEPT !.word = {}])
Counted(p, n, bits) == Update(p, n, [p[n] EXCEPT !.word = @ \cup bits])
Let(r, e, t)        == Update(r, e, remove_receiver(r[e], t))
Wake(h, t)          == Update(h, t, try_wake(serve(h[t])))

\* One field of the record is replaced.
LEMMA Field ==
  ASSUME NEW h, NEW m, NEW r, NEW p, NEW x
  PROVE  LET s == Rec(h, m, r, p)
         IN  /\ [s EXCEPT !.hs = x] = Rec(x, m, r, p)
             /\ [s EXCEPT !.mailbox = x] = Rec(h, x, r, p)
             /\ [s EXCEPT !.rv = x] = Rec(h, m, x, p)
             /\ [s EXCEPT !.page = x] = Rec(h, m, r, x)
             /\ s.hs = h /\ s.mailbox = m /\ s.rv = r /\ s.page = p
  BY SMT DEF Rec

\* What Deliver makes of each variable.
LEMMA DeliverIs ==
  ASSUME NEW h, NEW m, NEW r, NEW p, NEW t, NEW x
  PROVE  Deliver(Rec(h, m, r, p), t, x) = Rec(Wake(h, t), Update(m, t, x), r, p)
<1>1. PICK s : s = Rec(h, m, r, p)
  OBVIOUS
<1>2. Deliver(s, t, x) = [[s EXCEPT !.mailbox = Update(s.mailbox, t, x)]
                             EXCEPT !.hs = Wake(s.hs, t)]
  BY DEF Deliver, Update, Wake
<1>3. s.hs = h /\ s.mailbox = m
  BY <1>1, Field, SMT
<1>4. [s EXCEPT !.mailbox = Update(m, t, x)] = Rec(h, Update(m, t, x), r, p)
  BY <1>1, Field, SMT
<1>5. [Rec(h, Update(m, t, x), r, p) EXCEPT !.hs = Wake(h, t)]
        = Rec(Wake(h, t), Update(m, t, x), r, p)
  BY Field, SMT
<1> QED BY <1>1, <1>2, <1>3, <1>4, <1>5

\* What deliver_bound makes of each variable.
LEMMA DeliverBoundIs ==
  ASSUME NEW h, NEW m, NEW r, NEW p, NEW n, NEW t, NEW bits
  PROVE  deliver_bound(Rec(h, m, r, p), n, t, bits)
           = Rec(Wake(h, t), Update(m, t, WordOf(n, bits)), Let(r, h[t].wait_on.on, t), p)
<1>1. PICK s : s = Rec(h, m, r, p)
  OBVIOUS
<1>2. [s EXCEPT !.rv[s.hs[t].wait_on.on] = remove_receiver(@, t)]
        = [s EXCEPT !.rv = Let(s.rv, s.hs[t].wait_on.on, t)]
  BY DEF Update, Let
<1>3. s.hs = h /\ s.rv = r
  BY <1>1, Field, SMT
<1>4. [s EXCEPT !.rv = Let(r, h[t].wait_on.on, t)] = Rec(h, m, Let(r, h[t].wait_on.on, t), p)
  BY <1>1, Field, SMT
<1>5. deliver_bound(s, n, t, bits)
        = Deliver(Rec(h, m, Let(r, h[t].wait_on.on, t), p), t, WordOf(n, bits))
  BY <1>2, <1>3, <1>4 DEF deliver_bound
<1> QED BY <1>1, <1>5, DeliverIs, SMT

\* What signal_locked makes of each variable, case by case: t is what bound_receiver
\* found, w the first waiter.
SignalCase(h, m, r, p, n, bits, t, w) ==
    LET x == signal_locked(Rec(h, m, r, p), n, bits)
    IN  /\ n \notin ntfns \/ bits = {} => x = Rec(h, m, r, p)
        /\ n \in ntfns /\ bits # {} /\ p[n].waiters # <<>> =>
             x = Rec(Wake(h, w), Update(m, w, WordOf(n, bits)), r, Popped(p, n))
        /\ n \in ntfns /\ bits # {} /\ p[n].waiters = <<>> /\ t # NoTid =>
             x = Rec(Wake(h, t), Update(m, t, WordOf(n, p[n].word \cup bits)),
                     Let(r, h[t].wait_on.on, t), Emptied(p, n))
        /\ n \in ntfns /\ bits # {} /\ p[n].waiters = <<>> /\ t = NoTid =>
             x = Rec(h, m, r, Counted(p, n, bits))

\* These are the cases of signal_locked.
LEMMA SignalIs ==
  ASSUME NEW h, NEW m, NEW r, NEW p, NEW n, NEW bits
  PROVE  SignalCase(h, m, r, p, n, bits, bound_receiver(Rec(h, m, r, p), n), Head(p[n].waiters))
<1>t. PICK t : t = bound_receiver(Rec(h, m, r, p), n)
  OBVIOUS
<1> DEFINE s == Rec(h, m, r, p)
<1>0. t = bound_receiver(s, n)
  BY <1>t
<1>1. /\ s.page = p /\ s.hs = h /\ s.mailbox = m /\ s.rv = r
      /\ [s EXCEPT !.page[n].waiters = Tail(@)] = Rec(h, m, r, Popped(p, n))
      /\ [s EXCEPT !.page[n].word = {}] = Rec(h, m, r, Emptied(p, n))
      /\ [s EXCEPT !.page[n].word = @ \cup bits] = Rec(h, m, r, Counted(p, n, bits))
  <2>1. s.page = p /\ s.hs = h /\ s.mailbox = m /\ s.rv = r
    BY Field, SMT
  <2>2. \A x : [s EXCEPT !.page = x] = Rec(h, m, r, x)
    BY Field, SMT
  <2> HIDE DEF s
  <2>3. /\ [s EXCEPT !.page[n].waiters = Tail(@)] = [s EXCEPT !.page = Popped(s.page, n)]
        /\ [s EXCEPT !.page[n].word = {}] = [s EXCEPT !.page = Emptied(s.page, n)]
        /\ [s EXCEPT !.page[n].word = @ \cup bits]
              = [s EXCEPT !.page = Counted(s.page, n, bits)]
    BY DEF Popped, Emptied, Counted, Update
  <2> QED BY <2>1, <2>2, <2>3
<1>2. Deliver(Rec(h, m, r, Popped(p, n)), Head(p[n].waiters), WordOf(n, bits))
        = Rec(Wake(h, Head(p[n].waiters)), Update(m, Head(p[n].waiters), WordOf(n, bits)), r,
              Popped(p, n))
  BY DeliverIs, SMT
<1>3. deliver_bound(Rec(h, m, r, Emptied(p, n)), n, t, p[n].word \cup bits)
        = Rec(Wake(h, t), Update(m, t, WordOf(n, p[n].word \cup bits)),
              Let(r, h[t].wait_on.on, t), Emptied(p, n))
  BY DeliverBoundIs, SMT
<1>4. signal_locked(s, n, bits) =
        IF n \notin ntfns \/ bits = {} THEN s
        ELSE IF p[n].waiters # <<>> THEN
            Deliver(Rec(h, m, r, Popped(p, n)), Head(p[n].waiters), WordOf(n, bits))
        ELSE IF t # NoTid THEN
            deliver_bound(Rec(h, m, r, Emptied(p, n)), n, t, p[n].word \cup bits)
        ELSE Rec(h, m, r, Counted(p, n, bits))
  <2> HIDE DEF s
  <2> QED BY <1>0, <1>1 DEF signal_locked
<1> HIDE DEF s
<1>w. PICK w : w = Head(p[n].waiters)
  OBVIOUS
<1>9. SignalCase(h, m, r, p, n, bits, t, w)
  <2>5. CASE n \notin ntfns \/ bits = {}
    BY <1>4, <2>5 DEF s, SignalCase
  <2>6. CASE n \in ntfns /\ bits # {} /\ p[n].waiters # <<>>
    BY <1>w, <1>2, <1>4, <2>6 DEF s, SignalCase
  <2>7. CASE n \in ntfns /\ bits # {} /\ p[n].waiters = <<>> /\ t # NoTid
    BY <1>3, <1>4, <2>7 DEF s, SignalCase
  <2>8. CASE n \in ntfns /\ bits # {} /\ p[n].waiters = <<>> /\ t = NoTid
    BY <1>4, <2>8 DEF s, SignalCase
  <2> QED BY <2>5, <2>6, <2>7, <2>8
<1> QED BY <1>0, <1>w, <1>9 DEF s

\* One page changes.
LEMMA OnePage ==
  ASSUME NEW p, PTyped(p), NEW n \in Ntfn, NEW x \in Page, Queue(x.waiters)
  PROVE  /\ PTyped(Update(p, n, x)) /\ Update(p, n, x)[n] = x
         /\ \A k \in Ntfn : k # n => Update(p, n, x)[k] = p[k]
<1>1. p \in [Ntfn -> Page] /\ \A k \in Ntfn : Queue(p[k].waiters)
  BY DEF PTyped
<1>2. /\ Update(p, n, x) \in [Ntfn -> Page] /\ Update(p, n, x)[n] = x
      /\ \A k \in Ntfn : k # n => Update(p, n, x)[k] = p[k]
  BY <1>1 DEF Update
<1> QED BY <1>1, <1>2 DEF PTyped

\* One rendezvous changes.
LEMMA OneRv ==
  ASSUME NEW r, RTyped(r), NEW e \in Ep, NEW x \in RendezvousOf(Thread, 0),
         Queue(x.senders), Queue(x.receivers)
  PROVE  /\ RTyped(Update(r, e, x)) /\ Update(r, e, x)[e] = x
         /\ \A f \in Ep : f # e => Update(r, e, x)[f] = r[f]
<1>1. r \in [Ep -> RendezvousOf(Thread, 0)]
      /\ \A f \in Ep : Queue(r[f].senders) /\ Queue(r[f].receivers)
  BY DEF RTyped
<1>2. /\ Update(r, e, x) \in [Ep -> RendezvousOf(Thread, 0)] /\ Update(r, e, x)[e] = x
      /\ \A f \in Ep : f # e => Update(r, e, x)[f] = r[f]
  BY <1>1 DEF Update
<1> QED BY <1>1, <1>2 DEF RTyped

\* The fields of a page.
LEMMA PageFields ==
  ASSUME NEW x \in Page
  PROVE  /\ x.word \in SUBSET Bit /\ x.waiters \in Seq(Thread) /\ x.bound \in Thread \cup {NoTid}
         /\ \A q \in Seq(Thread) : LET y == [x EXCEPT !.waiters = q]
              IN  y \in Page /\ y.waiters = q /\ y.word = x.word /\ y.bound = x.bound
         /\ \A w \in SUBSET Bit : LET y == [x EXCEPT !.word = w]
              IN  y \in Page /\ y.waiters = x.waiters /\ y.word = w /\ y.bound = x.bound
         /\ \A t \in Thread : LET y == [x EXCEPT !.bound = t]
              IN  y \in Page /\ y.waiters = x.waiters /\ y.word = x.word /\ y.bound = t
  BY DEF Page

\* The fields of a rendezvous.
LEMMA RvFields ==
  ASSUME NEW x \in RendezvousOf(Thread, 0)
  PROVE  /\ x.senders \in Seq(Thread) /\ x.receivers \in Seq(Thread) /\ x.pending = 0
         /\ \A q \in Seq(Thread) : LET y == [x EXCEPT !.senders = q]
              IN  y \in RendezvousOf(Thread, 0) /\ y.senders = q /\ y.receivers = x.receivers
         /\ \A q \in Seq(Thread) : LET y == [x EXCEPT !.receivers = q]
              IN  y \in RendezvousOf(Thread, 0) /\ y.senders = x.senders /\ y.receivers = q
<1>1. x.senders \in Seq(Thread) /\ x.receivers \in Seq(Thread) /\ x.pending = 0
  BY SMT DEF RendezvousOf
<1>2. ASSUME NEW q \in Seq(Thread)
      PROVE  LET y == [x EXCEPT !.senders = q]
             IN  y \in RendezvousOf(Thread, 0) /\ y.senders = q /\ y.receivers = x.receivers
  BY DEF RendezvousOf
<1>3. ASSUME NEW q \in Seq(Thread)
      PROVE  LET y == [x EXCEPT !.receivers = q]
             IN  y \in RendezvousOf(Thread, 0) /\ y.senders = x.senders /\ y.receivers = q
  BY DEF RendezvousOf
<1> QED BY <1>1, <1>2, <1>3

\* The words and bindings of p2 are those of p, but for a word that was taken.
Milder(p, p2) ==
    \A n \in Ntfn : p2[n].bound = p[n].bound /\ (p2[n].word = p[n].word \/ p2[n].word = {})

\* Taking words and unlinking threads tells nobody less.
LEMMA StillTold ==
  ASSUME NEW T, NEW N, N \subseteq Ntfn, NEW b, NEW r, NEW p, NEW r2, NEW p2, NEW S,
         Told(N, r, p), Coupled(T, N, b, p), Lose(S, r, p, r2, p2), Milder(p, p2)
  PROVE  Told(N, r2, p2) /\ Coupled(T, N, b, p2)
<1>1. \A n \in N : p2[n].bound = p[n].bound /\ (p2[n].word # {} => p[n].word # {})
  BY DEF Milder
<1>2. \A e \in Ep : \A t \in Range(r2[e].receivers) : t \in Range(r[e].receivers)
  BY DEF Lose
<1>3. Told(N, r2, p2)
  BY <1>1, <1>2 DEF Told
<1>4. Coupled(T, N, b, p2)
  BY <1>1 DEF Coupled
<1> QED BY <1>3, <1>4

\* The first waiter leaves the queue of a notification.
LEMMA PoppedIs ==
  ASSUME NEW T, NEW h, NEW r, NEW p, Linked(T, h, r, p), PTyped(p), RTyped(r),
         NEW n \in Ntfn, p[n].waiters # <<>>
  PROVE  LET t == Head(p[n].waiters)
         IN  /\ t \in Thread /\ t \in T /\ Asleep(h[t])
             /\ PTyped(Popped(p, n)) /\ Lose({t}, r, p, r, Popped(p, n))
             /\ Milder(p, Popped(p, n))
<1> DEFINE t == Head(p[n].waiters)
           q == Tail(p[n].waiters)
<1>1. p[n] \in Page /\ Queue(p[n].waiters)
  BY DEF PTyped
<1>2. /\ t \in Range(p[n].waiters) /\ t \in Thread
      /\ Queue(q) /\ Range(q) = Range(p[n].waiters) \ {t}
  BY <1>1, Pop
<1>3. t \in T /\ Asleep(h[t])
  BY <1>2 DEF Linked
<1>4. PICK x : x = [p[n] EXCEPT !.waiters = q]
  OBVIOUS
<1>5. x \in Page /\ x.waiters = q /\ x.word = p[n].word /\ x.bound = p[n].bound
  <2>1. q \in Seq(Thread)
    BY <1>2 DEF Queue
  <2> HIDE DEF q
  <2> QED BY <1>1, <1>4, <2>1, PageFields
<1>6. PICK p2 : p2 = Update(p, n, x)
  OBVIOUS
<1>7. p2 = Popped(p, n)
  BY <1>4, <1>6 DEF Popped
<1>8. PTyped(p2) /\ p2[n] = x /\ \A k \in Ntfn : k # n => p2[k] = p[k]
  <2>1. Queue(x.waiters)
    BY <1>2, <1>5
  <2> QED BY <1>5, <1>6, <2>1, OnePage
<1> HIDE DEF t, q
<1>9. Milder(p, p2)
  BY <1>5, <1>8 DEF Milder
<1>10. Lose({t}, r, p, r, p2)
  <2>1. /\ \A e \in Ep : t \notin Range(r[e].receivers) /\ t \notin Range(r[e].senders)
        /\ \A k \in Ntfn : k # n => t \notin Range(p[k].waiters)
    BY <1>2, OneQueue
  <2>2. \A k \in Ntfn : Range(p2[k].waiters) = Range(p[k].waiters) \ {t}
    <3> SUFFICES ASSUME NEW k \in Ntfn PROVE Range(p2[k].waiters) = Range(p[k].waiters) \ {t}
      OBVIOUS
    <3>1. CASE k = n BY <3>1, <1>2, <1>5, <1>8
    <3>2. CASE k # n BY <3>2, <2>1, <1>8
    <3> QED BY <3>1, <3>2
  <2>3. \A e \in Ep : /\ Range(r[e].receivers) = Range(r[e].receivers) \ {t}
                      /\ Range(r[e].senders) = Range(r[e].senders) \ {t}
    BY <2>1
  <2> QED BY <2>2, <2>3 DEF Lose
<1> QED BY <1>2, <1>3, <1>7, <1>8, <1>9, <1>10 DEF t

\* The word of a notification is taken.
LEMMA EmptiedIs ==
  ASSUME NEW p, PTyped(p), NEW n \in Ntfn
  PROVE  /\ PTyped(Emptied(p, n)) /\ Milder(p, Emptied(p, n)) /\ Emptied(p, n)[n].word = {}
         /\ \A k \in Ntfn : Emptied(p, n)[k].waiters = p[k].waiters
         /\ \A k \in Ntfn : k # n => Emptied(p, n)[k] = p[k]
<1>1. p[n] \in Page /\ Queue(p[n].waiters)
  BY DEF PTyped
<1>2. PICK x : x = [p[n] EXCEPT !.word = {}]
  OBVIOUS
<1>3. x \in Page /\ x.waiters = p[n].waiters /\ x.word = {} /\ x.bound = p[n].bound
  BY <1>1, <1>2, PageFields
<1>4. PICK p2 : p2 = Update(p, n, x)
  OBVIOUS
<1>5. PTyped(p2) /\ p2[n] = x /\ \A k \in Ntfn : k # n => p2[k] = p[k]
  BY <1>1, <1>3, <1>4, OnePage, SMT
<1>6. \A k \in Ntfn : /\ p2[k].waiters = p[k].waiters /\ p2[k].bound = p[k].bound
                      /\ p2[k].word = p[k].word \/ p2[k].word = {}
  BY <1>3, <1>5
<1>7. p2 = Emptied(p, n)
  BY <1>2, <1>4 DEF Emptied
<1> QED BY <1>3, <1>5, <1>6, <1>7 DEF Milder

\* Bits are counted in the word of a notification.
LEMMA CountedIs ==
  ASSUME NEW p, PTyped(p), NEW n \in Ntfn, NEW bits \in SUBSET Bit
  PROVE  /\ PTyped(Counted(p, n, bits)) /\ Counted(p, n, bits)[n].word = p[n].word \cup bits
         /\ \A k \in Ntfn : /\ Counted(p, n, bits)[k].waiters = p[k].waiters
                            /\ Counted(p, n, bits)[k].bound = p[k].bound
         /\ \A k \in Ntfn : k # n => Counted(p, n, bits)[k] = p[k]
<1>1. p[n] \in Page /\ Queue(p[n].waiters)
  BY DEF PTyped
<1>2. PICK x, w : x = [p[n] EXCEPT !.word = p[n].word \cup bits] /\ w = p[n].word \cup bits
  OBVIOUS
<1>4. w \in SUBSET Bit
  BY <1>1, <1>2, PageFields
<1>5. x \in Page /\ x.waiters = p[n].waiters /\ x.word = w /\ x.bound = p[n].bound
  <2>1. x = [p[n] EXCEPT !.word = w]
    BY <1>2
  <2> QED BY <1>1, <1>4, <2>1, PageFields
<1>6. PICK p2 : p2 = Update(p, n, x)
  OBVIOUS
<1>7. PTyped(p2) /\ p2[n] = x /\ \A k \in Ntfn : k # n => p2[k] = p[k]
  BY <1>1, <1>5, <1>6, OnePage, SMT
<1>8. \A k \in Ntfn : p2[k].waiters = p[k].waiters /\ p2[k].bound = p[k].bound
  BY <1>5, <1>7
<1>9. p2 = Counted(p, n, bits)
  BY <1>2, <1>6 DEF Counted
<1> QED BY <1>2, <1>5, <1>7, <1>8, <1>9

\* A thread asleep in a receive is taken off the rendezvous its wait_on names.
LEMMA LetIs ==
  ASSUME NEW T, NEW h, NEW r, NEW p, Linked(T, h, r, p), RTyped(r), HTyped(h),
         NEW t \in Thread, h[t].wait_on # NoWait, h[t].wait_on.role = "Receiver"
  PROVE  /\ RTyped(Let(r, h[t].wait_on.on, t))
         /\ Lose({t}, r, p, Let(r, h[t].wait_on.on, t), p)
<1>1. PICK e : e = h[t].wait_on.on
  OBVIOUS
<1>2. h[t].wait_on = WaitAt(e, "Receiver")
  <2>1. h[t].wait_on \in Wait
    <3>1. h[t] \in HandshakeOf(Wait)
      BY DEF HTyped
    <3> QED BY <3>1 DEF HandshakeOf
  <2> QED BY <1>1, <2>1 DEF Wait, WaitAt
<1>3. PICK r2 : r2 = Let(r, e, t)
  OBVIOUS
<1>4. /\ \A n \in Ntfn : t \notin Range(p[n].waiters)
      /\ \A f \in Ep : t \notin Range(r[f].senders)
      /\ \A f \in Ep : f # e => t \notin Range(r[f].receivers)
  <2>1. /\ \A n \in Ntfn : h[t].wait_on # WaitAt(n, "Waiter")
        /\ \A f \in Ep : h[t].wait_on # WaitAt(f, "Sender")
        /\ \A f \in Ep : f # e => h[t].wait_on # WaitAt(f, "Receiver")
    BY <1>2, SMT DEF WaitAt
  <2> QED BY <2>1, OneQueue, SMT
<1>5. CASE e \in Ep
  <2>1. r[e] \in RendezvousOf(Thread, 0) /\ Queue(r[e].senders) /\ Queue(r[e].receivers)
    BY <1>5 DEF RTyped
  <2>2. PICK q : q = Without(r[e].receivers, {t})
    OBVIOUS
  <2>3. Queue(q) /\ Range(q) = Range(r[e].receivers) \ {t}
    BY <2>1, <2>2, Unlink
  <2>4. PICK x : x = [r[e] EXCEPT !.receivers = q]
    OBVIOUS
  <2>5. x \in RendezvousOf(Thread, 0) /\ x.senders = r[e].senders /\ x.receivers = q
    <3>1. q \in Seq(Thread)
      BY <2>3 DEF Queue
    <3> QED BY <2>1, <2>4, <3>1, RvFields
  <2>6. r2 = Update(r, e, x)
    BY <1>3, <2>2, <2>4 DEF Let, remove_receiver
  <2>7. RTyped(r2) /\ r2[e] = x /\ \A f \in Ep : f # e => r2[f] = r[f]
    <3>1. Queue(x.senders) /\ Queue(x.receivers)
      BY <2>1, <2>3, <2>5
    <3> QED BY <1>5, <2>5, <2>6, <3>1, OneRv, SMT
  <2>8. \A f \in Ep : Range(r2[f].receivers) = Range(r[f].receivers) \ {t}
    <3> SUFFICES ASSUME NEW f \in Ep
                 PROVE  Range(r2[f].receivers) = Range(r[f].receivers) \ {t}
      OBVIOUS
    <3>1. CASE f = e BY <3>1, <2>3, <2>5, <2>7
    <3>2. CASE f # e BY <3>2, <1>4, <2>7
    <3> QED BY <3>1, <3>2
  <2>9. \A f \in Ep : r2[f].senders = r[f].senders
    BY <2>5, <2>7
  <2>10. Lose({t}, r, p, r2, p)
    BY <1>4, <2>8, <2>9 DEF Lose
  <2> QED BY <1>1, <1>3, <2>7, <2>10
<1>6. CASE e \notin Ep
  <2>1. r2 = r
    BY <1>3, <1>6 DEF Let, Update, RTyped
  <2>2. Lose({t}, r, p, r, p)
    <3>1. \A f \in Ep : t \notin Range(r[f].receivers)
      BY <1>4, <1>6
    <3> QED BY <1>4, <3>1 DEF Lose
  <2> QED BY <1>1, <1>3, <2>1, <2>2
<1> QED BY <1>5, <1>6

\* What bound_receiver finds: the bound thread, asleep in a receive, or that the
\* bound thread is in no queue of receivers.
LEMMA BoundReceiverIs ==
  ASSUME NEW h, NEW m, NEW r, NEW p, NEW n \in Ntfn, PTyped(p), RTyped(r), HTyped(h),
         Linked(threads, h, r, p), threads \subseteq Thread
  PROVE  LET t == bound_receiver(Rec(h, m, r, p), n)
         IN  /\ t # NoTid => /\ t \in Thread /\ t \in threads /\ t = p[n].bound /\ Asleep(h[t])
                             /\ h[t].wait_on # NoWait /\ h[t].wait_on.role = "Receiver"
             /\ t = NoTid => \A e \in Ep : p[n].bound \notin Range(r[e].receivers)
<1>1. PICK t, u : t = bound_receiver(Rec(h, m, r, p), n) /\ u = p[n].bound
  OBVIOUS
<1>3. t = IF /\ u \in threads /\ h[u].state = "Blocked" /\ ~is_delivered(h[u])
             /\ h[u].wait_on # NoWait /\ h[u].wait_on.role = "Receiver"
          THEN u ELSE NoTid
  <2>1. Rec(h, m, r, p).hs = h /\ Rec(h, m, r, p).page = p
    BY DEF Rec
  <2> QED BY <1>1, <2>1 DEF bound_receiver
<1>4. u \in Thread \cup {NoTid} /\ NoTid \notin Thread
  <2>1. p[n] \in Page
    BY DEF PTyped
  <2> QED BY <1>1, <2>1, PageFields, NotificationsAssumption
<1>5. CASE /\ u \in threads /\ h[u].state = "Blocked" /\ ~is_delivered(h[u])
           /\ h[u].wait_on # NoWait /\ h[u].wait_on.role = "Receiver"
  <2>1. t = u /\ t # NoTid
    BY <1>3, <1>4, <1>5
  <2> QED BY <1>1, <1>5, <2>1 DEF Asleep
<1>6. CASE ~(/\ u \in threads /\ h[u].state = "Blocked" /\ ~is_delivered(h[u])
             /\ h[u].wait_on # NoWait /\ h[u].wait_on.role = "Receiver")
  <2>1. t = NoTid
    BY <1>3, <1>6
  <2>2. ASSUME NEW e \in Ep PROVE u \notin Range(r[e].receivers)
    <3>1. CASE u \in Thread
      <4>1. u \in Range(r[e].receivers)
              => u \in threads /\ Asleep(h[u]) /\ h[u].wait_on = WaitAt(e, "Receiver")
        BY <3>1 DEF Linked
      <4>2. h[u].wait_on = WaitAt(e, "Receiver")
              => h[u].wait_on # NoWait /\ h[u].wait_on.role = "Receiver"
        <5>1. WaitAt(e, "Receiver") \in Wait /\ WaitAt(e, "Receiver").role = "Receiver"
          BY DEF WaitAt, Wait
        <5> QED BY <5>1, NotificationsAssumption
      <4> QED BY <1>6, <4>1, <4>2 DEF Asleep
    <3>2. CASE u = NoTid
      \* no queue holds NoTid
      <4>1. r[e].receivers \in Seq(Thread)
        BY DEF RTyped, Queue
      <4>2. Range(r[e].receivers) \subseteq Thread
        BY <4>1, SMT DEF Range
      <4> QED BY <3>2, <4>2, <1>4
    <3> QED BY <3>1, <3>2, <1>4
  <2> QED BY <1>1, <2>1, <2>2
<1> QED BY <1>5, <1>6

\* The bits of n on their way to a program of T.
PendIn(T, m, p, n) == p[n].word \cup UNION {m[t].bits : t \in {u \in T : m[u].ntfn = n}}

\* No bit and no delivery of T is lost from m and p to m2 and p2.
Passed(T, m, p, m2, p2) ==
    /\ \A n \in Ntfn : PendIn(T, m, p, n) \subseteq PendIn(T, m2, p2, n)
    /\ \A t \in T : m[t].kind # "none" => m2[t] = m[t]

\* A delivery to an empty mailbox loses nothing, if what leaves the words is in it.
LEMMA Handed ==
  ASSUME NEW T, T \subseteq Thread, NEW m \in [Thread -> ProperMail], NEW p, NEW p2, NEW t \in T,
         m[t] = NoMail, NEW x \in ProperMail,
         \A n \in Ntfn : p[n].word \ p2[n].word # {} => x.ntfn = n /\ p[n].word \subseteq x.bits
  PROVE  /\ Passed(T, m, p, Update(m, t, x), p2)
         /\ \A n \in Ntfn : x.ntfn = n => x.bits \subseteq PendIn(T, Update(m, t, x), p2, n)
<1>1. PICK m2 : m2 = Update(m, t, x)
  OBVIOUS
<1>2. m2[t] = x /\ \A u \in T : u # t => m2[u] = m[u]
  BY <1>1 DEF Update
<1>3. m[t].bits = {} /\ m[t].kind = "none"
  BY SMT DEF NoMail
<1>4. \A u \in T : m[u].kind # "none" => m2[u] = m[u]
  BY <1>2, <1>3
<1>5. ASSUME NEW n \in Ntfn, x.ntfn = n PROVE x.bits \subseteq PendIn(T, m2, p2, n)
  <2> SUFFICES ASSUME NEW b \in x.bits PROVE b \in PendIn(T, m2, p2, n)
    OBVIOUS
  <2>1. m2[t].ntfn = n /\ b \in m2[t].bits
    BY <1>2, <1>5
  <2> QED BY <2>1 DEF PendIn
<1>6. ASSUME NEW n \in Ntfn, NEW b \in PendIn(T, m, p, n) PROVE b \in PendIn(T, m2, p2, n)
  <2>1. CASE b \in p[n].word /\ b \in p2[n].word
    BY <2>1 DEF PendIn
  <2>2. CASE b \in p[n].word /\ b \notin p2[n].word
    <3>1. x.ntfn = n /\ b \in x.bits
      BY <2>2
    <3> QED BY <3>1, <1>5
  <2>3. CASE b \notin p[n].word
    <3>1. PICK u \in T : m[u].ntfn = n /\ b \in m[u].bits
      BY <1>6, <2>3 DEF PendIn
    <3>2. m2[u] = m[u]
      BY <3>1, <1>2, <1>3
    <3> QED BY <3>1, <3>2 DEF PendIn
  <2> QED BY <2>1, <2>2, <2>3
<1> QED BY <1>1, <1>4, <1>5, <1>6 DEF Passed

\* A word is mail.
LEMMA WordIs ==
  ASSUME NEW n \in Ntfn, NEW bits \in SUBSET Bit
  PROVE  WordOf(n, bits) \in ProperMail /\ WordOf(n, bits).ntfn = n /\ WordOf(n, bits).bits = bits
  BY DEF WordOf, Mail, ProperMail

\* Whoever is asleep has an empty mailbox.
LEMMA SleeperIs ==
  ASSUME NEW T, NEW N, NEW c, NEW b, NEW h, NEW m, NEW r, NEW p,
         Good(T, N, c, b, h, m, r, p), NEW t \in T, Asleep(h[t])
  PROVE  m[t] = NoMail /\ c[t] # "user"
  BY DEF Good, Mailed

\* What a signal owes: everything is as it should be, nothing is lost, and the bits
\* are on their way.
Signalled(T, N, c, b, m, p, n, bits, h2, m2, r2, p2) ==
    /\ Good(T, N, c, b, h2, m2, r2, p2) /\ Passed(T, m, p, m2, p2)
    /\ n \in N => bits \subseteq PendIn(T, m2, p2, n)

\* The first waiter takes the bits.
LEMMA WaiterSignalled ==
  ASSUME NEW T, NEW N, NEW c, NEW b, NEW h, NEW m, NEW r, NEW p,
         Good(T, N, c, b, h, m, r, p), NEW n \in Ntfn, NEW bits \in SUBSET Bit,
         p[n].waiters # <<>>, NEW t, t = Head(p[n].waiters)
  PROVE  Signalled(T, N, c, b, m, p, n, bits,
                   Wake(h, t), Update(m, t, WordOf(n, bits)), r, Popped(p, n))
<1>1. /\ T \subseteq Thread /\ N \subseteq Ntfn /\ m \in [Thread -> ProperMail]
      /\ RTyped(r) /\ PTyped(p)
      /\ Linked(T, h, r, p) /\ Told(N, r, p) /\ Coupled(T, N, b, p)
  BY DEF Good, Typed
<1>2. /\ t \in Thread /\ t \in T /\ Asleep(h[t])
      /\ PTyped(Popped(p, n)) /\ Lose({t}, r, p, r, Popped(p, n)) /\ Milder(p, Popped(p, n))
  BY <1>1, PoppedIs
<1>3. PICK p2 : p2 = Popped(p, n)
  OBVIOUS
<1>4. Told(N, r, p2) /\ Coupled(T, N, b, p2)
  BY <1>1, <1>2, <1>3, StillTold
<1>5. PICK x : x = WordOf(n, bits)
  OBVIOUS
<1>6. x \in ProperMail /\ x.ntfn = n /\ x.bits = bits
  BY <1>5, WordIs
<1>7. Good(T, N, c, b, Wake(h, t), Update(m, t, x), r, p2)
  BY <1>1, <1>2, <1>3, <1>4, <1>6, Delivered DEF Wake
<1>8. \A k \in Ntfn : p2[k].word = p[k].word
  <2>1. p[n] \in Page /\ p \in [Ntfn -> Page]
    BY <1>1 DEF PTyped
  <2> QED BY <1>3, <2>1 DEF Popped, Update, Page
<1>9. m[t] = NoMail
  BY <1>2, SleeperIs, SMT
<1>10. /\ Passed(T, m, p, Update(m, t, x), p2)
       /\ \A k \in Ntfn : x.ntfn = k => x.bits \subseteq PendIn(T, Update(m, t, x), p2, k)
  BY <1>1, <1>2, <1>6, <1>8, <1>9, Handed
<1> QED BY <1>3, <1>5, <1>6, <1>7, <1>10 DEF Signalled

\* The bound receiver takes the whole word.
LEMMA BoundSignalled ==
  ASSUME NEW T, NEW N, NEW c, NEW b, NEW h, NEW m, NEW r, NEW p,
         Good(T, N, c, b, h, m, r, p), NEW n \in Ntfn, NEW bits \in SUBSET Bit,
         NEW t \in Thread, t \in T, Asleep(h[t]),
         h[t].wait_on # NoWait, h[t].wait_on.role = "Receiver"
  PROVE  Signalled(T, N, c, b, m, p, n, bits,
                   Wake(h, t), Update(m, t, WordOf(n, p[n].word \cup bits)),
                   Let(r, h[t].wait_on.on, t), Emptied(p, n))
<1>1. /\ T \subseteq Thread /\ N \subseteq Ntfn /\ m \in [Thread -> ProperMail]
      /\ RTyped(r) /\ PTyped(p)
      /\ Linked(T, h, r, p) /\ Told(N, r, p) /\ Coupled(T, N, b, p) /\ HTyped(h)
  BY DEF Good, Typed
<1>2. PICK r2 : r2 = Let(r, h[t].wait_on.on, t)
  OBVIOUS
<1>3. RTyped(r2) /\ Lose({t}, r, p, r2, p)
  BY <1>1, <1>2, LetIs
<1>4. PICK p2 : p2 = Emptied(p, n)
  OBVIOUS
<1>5. /\ PTyped(p2) /\ Milder(p, p2)
      /\ \A k \in Ntfn : p2[k].waiters = p[k].waiters
      /\ \A k \in Ntfn : k # n => p2[k] = p[k]
  BY <1>1, <1>4, EmptiedIs
<1>6. Lose({t}, r, p, r2, p2)
  BY <1>3, <1>5 DEF Lose
<1>7. Told(N, r2, p2) /\ Coupled(T, N, b, p2)
  BY <1>1, <1>5, <1>6, StillTold
<1>8. PICK x : x = WordOf(n, p[n].word \cup bits)
  OBVIOUS
<1>9. x \in ProperMail /\ x.ntfn = n /\ x.bits = p[n].word \cup bits
  <2>1. p[n].word \in SUBSET Bit
    BY <1>1, PageFields DEF PTyped
  <2> QED BY <1>8, <2>1, WordIs
<1>10. Good(T, N, c, b, Wake(h, t), Update(m, t, x), r2, p2)
  BY <1>1, <1>3, <1>5, <1>6, <1>7, <1>9, Delivered DEF Wake
<1>11. m[t] = NoMail
  BY SleeperIs, SMT
<1>12. \A k \in Ntfn : p[k].word \ p2[k].word # {} => x.ntfn = k /\ p[k].word \subseteq x.bits
  BY <1>5, <1>9
<1>13. /\ Passed(T, m, p, Update(m, t, x), p2)
       /\ \A k \in Ntfn : x.ntfn = k => x.bits \subseteq PendIn(T, Update(m, t, x), p2, k)
  BY <1>1, <1>9, <1>11, <1>12, Handed
<1> QED BY <1>2, <1>4, <1>8, <1>9, <1>10, <1>13 DEF Signalled

\* Nobody is waiting and nobody bound is receiving: the bits are counted.
LEMMA CountSignalled ==
  ASSUME NEW T, NEW N, NEW c, NEW b, NEW h, NEW m, NEW r, NEW p,
         Good(T, N, c, b, h, m, r, p), NEW n \in Ntfn, NEW bits \in SUBSET Bit,
         \A e \in Ep : p[n].bound \notin Range(r[e].receivers)
  PROVE  Signalled(T, N, c, b, m, p, n, bits, h, m, r, Counted(p, n, bits))
<1>1. /\ T \subseteq Thread /\ N \subseteq Ntfn /\ m \in [Thread -> ProperMail]
      /\ RTyped(r) /\ PTyped(p)
      /\ Linked(T, h, r, p) /\ Told(N, r, p) /\ Coupled(T, N, b, p) /\ HTyped(h)
      /\ Mailed(T, c, h, m)
  BY DEF Good, Typed
<1>2. PICK p2 : p2 = Counted(p, n, bits)
  OBVIOUS
<1>3. /\ PTyped(p2) /\ p2[n].word = p[n].word \cup bits
      /\ \A k \in Ntfn : p2[k].waiters = p[k].waiters /\ p2[k].bound = p[k].bound
      /\ \A k \in Ntfn : k # n => p2[k] = p[k]
  BY <1>1, <1>2, CountedIs, SMT
<1>4. Linked(T, h, r, p2)
  BY <1>1, <1>3 DEF Linked
<1>5. Told(N, r, p2)
  <2> SUFFICES ASSUME NEW k \in N, NEW e \in Ep, p2[k].word # {}
               PROVE  p2[k].bound \notin Range(r[e].receivers)
    BY DEF Told
  <2>1. CASE k = n BY <2>1, <1>1, <1>3
  <2>2. CASE k # n BY <2>2, <1>1, <1>3 DEF Told
  <2> QED BY <2>1, <2>2
<1>6. Coupled(T, N, b, p2)
  BY <1>1, <1>3 DEF Coupled
<1>7. Good(T, N, c, b, h, m, r, p2)
  BY <1>1, <1>3, <1>4, <1>5, <1>6 DEF Good, Typed
<1>8. \A k \in Ntfn : p[k].word \subseteq p2[k].word
  BY <1>3
<1>9. Passed(T, m, p, m, p2)
  BY <1>8 DEF Passed, PendIn
<1>10. bits \subseteq PendIn(T, m, p2, n)
  BY <1>3 DEF PendIn
<1> QED BY <1>2, <1>7, <1>9, <1>10 DEF Signalled

\* The invariant of the current tables, of the record the signal path works on.
GoodNow(h, m, r, p) == Good(threads, ntfns, pc, bound_notification, h, m, r, p)

\* Whatever signal_locked does, it signals.
LEMMA SignalLocked ==
  ASSUME NEW h, NEW m, NEW r, NEW p, GoodNow(h, m, r, p), NEW n \in Ntfn,
         NEW bits \in SUBSET Bit
  PROVE  \E h2, m2, r2, p2 :
            /\ signal_locked(Rec(h, m, r, p), n, bits) = Rec(h2, m2, r2, p2)
            /\ Signalled(threads, ntfns, pc, bound_notification, m, p, n, bits, h2, m2, r2, p2)
<1>1. Good(threads, ntfns, pc, bound_notification, h, m, r, p)
  BY DEF GoodNow
<1>2. PICK s : s = Rec(h, m, r, p)
  OBVIOUS
<1>3. PICK t, w : t = bound_receiver(s, n) /\ w = Head(p[n].waiters)
  OBVIOUS
<1>5. /\ n \notin ntfns \/ bits = {} => signal_locked(s, n, bits) = Rec(h, m, r, p)
      /\ n \in ntfns /\ bits # {} /\ p[n].waiters # <<>> => signal_locked(s, n, bits)
           = Rec(Wake(h, w), Update(m, w, WordOf(n, bits)), r, Popped(p, n))
      /\ n \in ntfns /\ bits # {} /\ p[n].waiters = <<>> /\ t # NoTid =>
           signal_locked(s, n, bits)
           = Rec(Wake(h, t), Update(m, t, WordOf(n, p[n].word \cup bits)),
                 Let(r, h[t].wait_on.on, t), Emptied(p, n))
      /\ n \in ntfns /\ bits # {} /\ p[n].waiters = <<>> /\ t = NoTid =>
           signal_locked(s, n, bits) = Rec(h, m, r, Counted(p, n, bits))
  <2>1. SignalCase(h, m, r, p, n, bits, t, w)
    BY <1>2, <1>3, SignalIs
  <2> QED BY <1>2, <2>1 DEF SignalCase
<1>6. CASE n \notin ntfns \/ bits = {}
  <2>1. Passed(threads, m, p, m, p)
    BY DEF Passed
  <2>2. Signalled(threads, ntfns, pc, bound_notification, m, p, n, bits, h, m, r, p)
    BY <1>1, <1>6, <2>1 DEF Signalled
  <2> QED BY <1>2, <1>5, <1>6, <2>2
<1>7. CASE n \in ntfns /\ bits # {} /\ p[n].waiters # <<>>
  <2>1. Signalled(threads, ntfns, pc, bound_notification, m, p, n, bits,
                  Wake(h, w), Update(m, w, WordOf(n, bits)), r, Popped(p, n))
    BY <1>1, <1>3, <1>7, WaiterSignalled
  <2> QED BY <1>2, <1>5, <1>7, <2>1
<1>8. CASE n \in ntfns /\ bits # {} /\ p[n].waiters = <<>>
  <2>1. /\ PTyped(p) /\ RTyped(r) /\ HTyped(h) /\ Linked(threads, h, r, p)
        /\ threads \subseteq Thread
    BY <1>1 DEF Good, Typed
  <2>2. /\ t # NoTid => /\ t \in Thread /\ t \in threads /\ t = p[n].bound /\ Asleep(h[t])
                        /\ h[t].wait_on # NoWait /\ h[t].wait_on.role = "Receiver"
        /\ t = NoTid => \A e \in Ep : p[n].bound \notin Range(r[e].receivers)
    BY <1>2, <1>3, <2>1, BoundReceiverIs, SMT
  <2>3. CASE t # NoTid
    <3>1. Signalled(threads, ntfns, pc, bound_notification, m, p, n, bits,
                    Wake(h, t), Update(m, t, WordOf(n, p[n].word \cup bits)),
                    Let(r, h[t].wait_on.on, t), Emptied(p, n))
      BY <1>1, <2>2, <2>3, BoundSignalled
    <3> QED BY <1>2, <1>5, <1>8, <2>3, <3>1
  <2>4. CASE t = NoTid
    <3>1. Signalled(threads, ntfns, pc, bound_notification, m, p, n, bits,
                    h, m, r, Counted(p, n, bits))
      BY <1>1, <2>2, <2>4, CountSignalled
    <3> QED BY <1>2, <1>5, <1>8, <2>4, <3>1
  <2> QED BY <2>3, <2>4
<1> QED BY <1>6, <1>7, <1>8

------------------------------------------------------------------------------
(* The walk over the due timers: its recursion is well founded.             *)

Pick(D) == CHOOSE k \in D : TRUE

\* One call of the walk, g being what the calls on fewer timers return.
Round(g, s, a, D) ==
    IF D = {} THEN s
    ELSE signal_locked(g[D \ {Pick(D)}], a[Pick(D)].ntfn, a[Pick(D)].bits)

Walk(s, a) == CHOOSE g : g = [D \in SUBSET timers |-> Round(g, s, a, D)]

\* expire_due is the walk.
LEMMA WalkIs ==
  ASSUME NEW s, NEW a
  PROVE  expire_due(s, a) = Walk(s, a)[{k \in timers : a[k].deadline <= now}]
  BY DEF expire_due, Walk, Round, Pick

\* The timer that is taken is one of the set.
LEMMA Picked ==
  ASSUME NEW D \in SUBSET timers, D # {}, IsFiniteSet(timers)
  PROVE  /\ Pick(D) \in D /\ D \ {Pick(D)} \in SUBSET timers
         /\ IsFiniteSet(D) /\ Cardinality(D) \in Nat
         /\ Cardinality(D \ {Pick(D)}) = Cardinality(D) - 1
         /\ Cardinality(D \ {Pick(D)}) \in Nat
<1>1. Pick(D) \in D
  BY DEF Pick
<1>2. IsFiniteSet(D) /\ Cardinality(D) \in Nat
  BY FS_Subset, FS_CardinalityType
<1>3. /\ IsFiniteSet(D \ {Pick(D)})
      /\ Cardinality(D \ {Pick(D)})
           = IF Pick(D) \in D THEN Cardinality(D) - 1 ELSE Cardinality(D)
  BY <1>2, FS_RemoveElement
<1>4. Cardinality(D \ {Pick(D)}) \in Nat
  BY <1>3, FS_CardinalityType
<1> QED BY <1>1, <1>2, <1>3, <1>4

\* g is a walk over every set of at most j timers.
Covers(g, s, a, j) ==
    /\ g = [D \in SUBSET timers |-> g[D]]
    /\ \A D \in SUBSET timers : Cardinality(D) <= j => g[D] = Round(g, s, a, D)

\* A walk over the sets of at most j timers gives one over the next larger ones.
LEMMA CoverMore ==
  ASSUME NEW g, NEW s, NEW a, NEW j \in Nat, Covers(g, s, a, j), IsFiniteSet(timers)
  PROVE  \E f : Covers(f, s, a, j + 1)
<1> DEFINE f == [D \in SUBSET timers |-> Round(g, s, a, D)]
<1>1. f = [D \in SUBSET timers |-> f[D]]
  OBVIOUS
<1>2. \A D \in SUBSET timers : Cardinality(D) <= j => f[D] = g[D]
  BY DEF Covers
<1>3. ASSUME NEW D \in SUBSET timers, Cardinality(D) <= j + 1
      PROVE  f[D] = Round(f, s, a, D)
  <2>1. f[D] = Round(g, s, a, D)
    OBVIOUS
  <2> HIDE DEF f
  <2>2. CASE D = {}
    BY <2>1, <2>2 DEF Round
  <2>3. CASE D # {}
    <3>1. PICK E : E = D \ {Pick(D)}
      OBVIOUS
    <3>2. E \in SUBSET timers /\ Cardinality(E) <= j
      <4>1. /\ E \in SUBSET timers /\ Cardinality(E) = Cardinality(D) - 1
            /\ Cardinality(D) \in Nat
        BY <2>3, <3>1, Picked
      <4> QED BY <1>3, <4>1, SMT
    <3>3. f[E] = g[E]
      BY <1>2, <3>2
    <3> QED BY <2>1, <2>3, <3>1, <3>3 DEF Round
  <2> QED BY <2>2, <2>3
<1>4. Covers(f, s, a, j + 1)
  <2> HIDE DEF f
  <2> QED BY <1>1, <1>3 DEF Covers
<1> QED BY <1>4

\* There is a walk over all sets of timers.
LEMMA WalkExists ==
  ASSUME NEW s, NEW a, IsFiniteSet(timers)
  PROVE  \A D \in SUBSET timers : Walk(s, a)[D] = Round(Walk(s, a), s, a, D)
<1> DEFINE Bad == {j \in Nat : ~\E g : Covers(g, s, a, j)}
<1>1. ASSUME Bad # {} PROVE FALSE
  <2>1. PICK j \in Bad : \A i \in Bad : j <= i
    BY <1>1, Smallest
  <2>2. CASE j = 0
    <3> DEFINE g == [D \in SUBSET timers |-> s]
    <3>1. \A D \in SUBSET timers : Cardinality(D) <= 0 => D = {}
      <4> SUFFICES ASSUME NEW D \in SUBSET timers, Cardinality(D) <= 0 PROVE D = {}
        OBVIOUS
      <4>1. IsFiniteSet(D) /\ Cardinality(D) \in Nat
        BY FS_Subset, FS_CardinalityType
      <4>2. Cardinality(D) = 0
        BY <4>1, SMT
      <4> QED BY <4>1, <4>2, FS_EmptySet
    <3>2. \A D \in SUBSET timers : Cardinality(D) <= 0 => g[D] = Round(g, s, a, D)
      BY <3>1 DEF Round
    <3>3. g = [D \in SUBSET timers |-> g[D]]
      OBVIOUS
    <3> HIDE DEF g
    <3>4. Covers(g, s, a, 0)
      BY <3>2, <3>3 DEF Covers
    <3> QED BY <2>1, <2>2, <3>4
  <2>3. CASE j # 0
    <3>1. j \in Nat /\ j - 1 \in Nat /\ j - 1 + 1 = j /\ ~(j <= j - 1)
      BY <2>1, <2>3, SMT
    <3>2. PICK g : Covers(g, s, a, j - 1)
      BY <2>1, <3>1
    <3>3. PICK f : Covers(f, s, a, j - 1 + 1)
      BY <3>1, <3>2, CoverMore
    <3> QED BY <2>1, <3>1, <3>3
  <2> QED BY <2>2, <2>3
<1>2. Cardinality(timers) \in Nat
  BY FS_CardinalityType
<1>3. PICK g : Covers(g, s, a, Cardinality(timers))
  BY <1>1, <1>2
<1>4. \A D \in SUBSET timers : g[D] = Round(g, s, a, D)
  <2>1. \A D \in SUBSET timers : Cardinality(D) <= Cardinality(timers)
    BY FS_Subset
  <2> QED BY <1>3, <2>1 DEF Covers
<1>5. g = [D \in SUBSET timers |-> Round(g, s, a, D)]
  <2>1. g = [D \in SUBSET timers |-> g[D]]
    BY <1>3 DEF Covers
  <2> QED BY <1>4, <2>1
<1>6. Walk(s, a) = [D \in SUBSET timers |-> Round(Walk(s, a), s, a, D)]
  BY <1>5 DEF Walk
<1> QED BY <1>6

\* What is passed on twice is passed on.
LEMMA PassedTwice ==
  ASSUME NEW T, NEW m, NEW p, NEW m1, NEW p1, NEW m2, NEW p2,
         Passed(T, m, p, m1, p1), Passed(T, m1, p1, m2, p2)
  PROVE  Passed(T, m, p, m2, p2)
  BY DEF Passed

\* What the walk over D owes.
Walked(m, p, a, D, h2, m2, r2, p2) ==
    /\ GoodNow(h2, m2, r2, p2) /\ Passed(threads, m, p, m2, p2)
    /\ \A k \in D : a[k].ntfn \in ntfns => a[k].bits \subseteq PendIn(threads, m2, p2, a[k].ntfn)

WalksTo(h, m, r, p, a, D) ==
    \E h2, m2, r2, p2 : /\ Walk(Rec(h, m, r, p), a)[D] = Rec(h2, m2, r2, p2)
                        /\ Walked(m, p, a, D, h2, m2, r2, p2)

\* The walk delivers every timer of a set of armed ones, and signals nothing else.
LEMMA WalkDelivers ==
  ASSUME NEW h, NEW m, NEW r, NEW p, GoodNow(h, m, r, p), NEW a, NEW due \in SUBSET timers,
         \A k \in due : a[k].ntfn \in Ntfn /\ a[k].bits \in SUBSET Bit, IsFiniteSet(timers)
  PROVE  WalksTo(h, m, r, p, a, due)
<1> DEFINE s == Rec(h, m, r, p)
           Bad == {D \in SUBSET due : ~WalksTo(h, m, r, p, a, D)}
           Sizes == {Cardinality(D) : D \in Bad}
<1>1. \A D \in SUBSET timers : Walk(s, a)[D] = Round(Walk(s, a), s, a, D)
  BY WalkExists
<1>2. ASSUME Bad # {} PROVE FALSE
  <2>1. Sizes \in SUBSET Nat /\ Sizes # {}
    <3>1. \A D \in SUBSET timers : Cardinality(D) \in Nat
      BY FS_Subset, FS_CardinalityType
    <3>2. \A D \in Bad : D \in SUBSET timers
      OBVIOUS
    <3> QED BY <1>2, <3>1, <3>2
  <2>2. PICK j \in Sizes : \A i \in Sizes : j <= i
    <3> HIDE DEF Sizes
    <3> QED BY <2>1, Smallest
  <2>3. PICK D \in Bad : j = Cardinality(D)
    BY <2>2
  <2>4. D \in SUBSET timers /\ D \in SUBSET due
    BY <2>3
  <2>5. CASE D = {}
    <3>1. Walk(s, a)[D] = s
      BY <1>1, <2>4, <2>5 DEF Round
    <3>2. Passed(threads, m, p, m, p)
      BY DEF Passed
    <3>3. Walked(m, p, a, D, h, m, r, p)
      BY <2>5, <3>2 DEF Walked
    <3>4. WalksTo(h, m, r, p, a, D)
      BY <3>1, <3>3 DEF WalksTo
    <3> QED BY <2>3, <3>4
  <2>6. CASE D # {}
    <3>1. PICK E, k : E = D \ {Pick(D)} /\ k = Pick(D)
      OBVIOUS
    <3>3. /\ k \in D /\ E \in SUBSET timers /\ Cardinality(D) \in Nat
          /\ Cardinality(E) = Cardinality(D) - 1
      BY <2>4, <2>6, <3>1, Picked
    <3>4. E \in SUBSET due /\ E \notin Bad
      <4>1. ~(Cardinality(D) <= Cardinality(E))
        BY <3>3, SMT
      <4> QED BY <2>2, <2>3, <2>4, <3>1, <4>1
    <3>5. WalksTo(h, m, r, p, a, E)
      BY <3>4
    <3>6. PICK h1, m1, r1, p1 : /\ Walk(s, a)[E] = Rec(h1, m1, r1, p1)
                                /\ Walked(m, p, a, E, h1, m1, r1, p1)
      BY <3>5 DEF WalksTo
    <3>7. Walk(s, a)[D] = signal_locked(Rec(h1, m1, r1, p1), a[k].ntfn, a[k].bits)
      BY <1>1, <2>4, <2>6, <3>1, <3>6 DEF Round
    <3>8. a[k].ntfn \in Ntfn /\ a[k].bits \in SUBSET Bit
      BY <2>4, <3>3
    <3>9. PICK n, bits : n = a[k].ntfn /\ bits = a[k].bits
      OBVIOUS
    <3>11. PICK h2, m2, r2, p2 :
            /\ signal_locked(Rec(h1, m1, r1, p1), n, bits) = Rec(h2, m2, r2, p2)
            /\ Signalled(threads, ntfns, pc, bound_notification, m1, p1, n, bits,
                         h2, m2, r2, p2)
      <4>1. GoodNow(h1, m1, r1, p1) /\ n \in Ntfn /\ bits \in SUBSET Bit
        BY <3>6, <3>8, <3>9 DEF Walked
      <4> QED BY <4>1, SignalLocked
    <3>12. Walk(s, a)[D] = Rec(h2, m2, r2, p2)
      BY <3>7, <3>9, <3>11
    <3>13. /\ GoodNow(h2, m2, r2, p2) /\ Passed(threads, m1, p1, m2, p2)
           /\ n \in ntfns => bits \subseteq PendIn(threads, m2, p2, n)
      BY <3>11 DEF Signalled, GoodNow
    <3>14. Passed(threads, m, p, m2, p2)
      BY <3>6, <3>13, PassedTwice DEF Walked
    <3>15. ASSUME NEW i \in D, a[i].ntfn \in ntfns
           PROVE  a[i].bits \subseteq PendIn(threads, m2, p2, a[i].ntfn)
      <4>1. CASE i = k
        BY <4>1, <3>9, <3>13, <3>15
      <4>2. CASE i # k
        <5>1. i \in E
          BY <4>2, <3>1
        <5>2. a[i].bits \subseteq PendIn(threads, m1, p1, a[i].ntfn)
          BY <3>6, <3>15, <5>1 DEF Walked
        <5>3. a[i].ntfn \in Ntfn
          BY <2>4
        <5> QED BY <3>13, <5>2, <5>3 DEF Passed
      <4> QED BY <4>1, <4>2
    <3>16. Walked(m, p, a, D, h2, m2, r2, p2)
      BY <3>13, <3>14, <3>15 DEF Walked
    <3>17. WalksTo(h, m, r, p, a, D)
      BY <3>12, <3>16 DEF WalksTo
    <3> QED BY <2>3, <3>17
  <2> QED BY <2>5, <2>6
<1> QED BY <1>2

------------------------------------------------------------------------------
(* One thread moves.                                                        *)

\* What Mailed asks of one thread in call c, with handshake x and mailbox y.
MailedOne(c, x, y) ==
    /\ Asleep(x) => c # "user"
    /\ Asleep(x) \/ c = "user" \/ x.ipc_aborted => y = NoMail
    /\ c = "user" => ~x.ipc_aborted

\* Nobody but t changes its call, its handshake or its mailbox.
Others(t, c, h, m, c2, h2, m2) ==
    \A u \in Thread : u # t => c2[u] = c[u] /\ h2[u] = h[u] /\ m2[u] = m[u]

\* A table in which everybody keeps to Mailed but t, who does so by itself.
LEMMA MailedBut ==
  ASSUME NEW T, T \subseteq Thread, NEW T2, T2 \subseteq T, NEW t, NEW c, NEW h, NEW m,
         NEW c2, NEW h2, NEW m2,
         Mailed(T, c, h, m), Others(t, c, h, m, c2, h2, m2),
         t \in T2 => MailedOne(c2[t], h2[t], m2[t])
  PROVE  Mailed(T2, c2, h2, m2)
<1> SUFFICES ASSUME NEW u \in T2 PROVE MailedOne(c2[u], h2[u], m2[u])
  BY DEF Mailed, MailedOne
<1>1. CASE u = t BY <1>1
<1>2. CASE u # t
  <2>1. c2[u] = c[u] /\ h2[u] = h[u] /\ m2[u] = m[u]
    BY <1>2 DEF Others
  <2>2. MailedOne(c[u], h[u], m[u])
    BY DEF Mailed, MailedOne
  <2> QED BY <2>1, <2>2
<1> QED BY <1>1, <1>2

\* A move of t that neither puts it to sleep nor wakes it; it may leave the table.
LEMMA Moves ==
  ASSUME NEW T, NEW N, NEW c, NEW b, NEW h, NEW m, NEW r, NEW p,
         Good(T, N, c, b, h, m, r, p),
         NEW t \in T, NEW T2, T2 = T \/ (T2 = T \ {t} /\ ~Asleep(h[t])),
         NEW c2, NEW h2, HTyped(h2), NEW m2 \in [Thread -> ProperMail],
         Others(t, c, h, m, c2, h2, m2),
         Asleep(h2[t]) <=> Asleep(h[t]), Asleep(h[t]) => h2[t].wait_on = h[t].wait_on,
         t \in T2 => MailedOne(c2[t], h2[t], m2[t])
  PROVE  Good(T2, N, c2, b, h2, m2, r, p)
<1>1. /\ T \subseteq Thread /\ N \subseteq Ntfn /\ RTyped(r) /\ PTyped(p)
      /\ Linked(T, h, r, p) /\ Told(N, r, p) /\ Coupled(T, N, b, p) /\ Mailed(T, c, h, m)
  BY DEF Good, Typed
<1>2. T2 \subseteq T
  OBVIOUS
<1>3. Mailed(T2, c2, h2, m2)
  BY <1>1, <1>2, MailedBut
<1>4. \A u \in Thread : u # t => h2[u] = h[u]
  BY DEF Others
<1>5. Rouse({}, T, h, T2, h2)
  <2> SUFFICES ASSUME NEW u \in Thread
               PROVE  /\ (u \in T2 /\ Asleep(h2[u])) <=> (u \in T /\ Asleep(h[u]))
                      /\ u \in T /\ Asleep(h[u]) => h2[u].wait_on = h[u].wait_on
    BY DEF Rouse
  <2>1. CASE u = t BY <2>1
  <2>2. CASE u # t
    <3>1. h2[u] = h[u] /\ (u \in T2 <=> u \in T)
      BY <2>2, <1>4
    <3> QED BY <3>1
  <2> QED BY <2>1, <2>2
<1>6. Lose({}, r, p, r, p)
  BY DEF Lose
<1>7. Linked(T2, h2, r, p)
  BY <1>1, <1>5, <1>6, Leave
<1>8. Coupled(T2, N, b, p)
  BY <1>1, <1>2 DEF Coupled
<1> QED BY <1>1, <1>2, <1>3, <1>7, <1>8 DEF Good, Typed

\* t has joined the queue that w names.
Joined(t, w, r, p, r2, p2) ==
    /\ \A n \in Ntfn, u \in Thread : u \in Range(p2[n].waiters)
          <=> u \in Range(p[n].waiters) \/ (u = t /\ w = WaitAt(n, "Waiter"))
    /\ \A e \in Ep, u \in Thread : u \in Range(r2[e].receivers)
          <=> u \in Range(r[e].receivers) \/ (u = t /\ w = WaitAt(e, "Receiver"))
    /\ \A e \in Ep, u \in Thread : u \in Range(r2[e].senders)
          <=> u \in Range(r[e].senders) \/ (u = t /\ w = WaitAt(e, "Sender"))

\* A running thread parks at w in call y.
LEMMA Parks ==
  ASSUME NEW T, NEW N, NEW c, NEW b, NEW h, NEW m, NEW r, NEW p,
         Good(T, N, c, b, h, m, r, p), NEW K, c \in [Thread -> K],
         NEW t \in T, h[t].state = "Running", c[t] = "user", NEW w \in Wait, NEW y, y # "user",
         NEW r2, RTyped(r2), NEW p2, PTyped(p2), Joined(t, w, r, p, r2, p2),
         Told(N, r2, p2), Coupled(T, N, b, p2)
  PROVE  Good(T, N, Update(c, t, y), b, Update(h, t, park(h[t], w)), m, r2, p2)
<1>1. /\ T \subseteq Thread /\ N \subseteq Ntfn /\ HTyped(h) /\ m \in [Thread -> ProperMail]
      /\ Linked(T, h, r, p) /\ Mailed(T, c, h, m)
  BY DEF Good, Typed
<1>2. h[t] \in HandshakeOf(Wait) /\ PendOk(h[t]) /\ t \in Thread
      /\ h \in [Thread -> HandshakeOf(Wait)]
  BY <1>1 DEF HTyped
<1>3. ~h[t].ipc_aborted /\ m[t] = NoMail
  BY <1>1 DEF Mailed
<1>4. PICK x : x = park(h[t], w)
  OBVIOUS
<1>5. x \in HandshakeOf(Wait) /\ Asleep(x) /\ PendOk(x) /\ x.wait_on = w /\ ~x.ipc_aborted
  BY <1>2, <1>3, <1>4, ParkedIs
<1>6. PICK h2 : h2 = Update(h, t, x)
  OBVIOUS
<1>7. HTyped(h2) /\ h2[t] = x /\ \A u \in Thread : u # t => h2[u] = h[u]
  <2>1. x \in HandshakeOf(Wait) /\ PendOk(x) /\ t \in Thread
    BY <1>2, <1>5
  <2>2. /\ HTyped(Update(h, t, x)) /\ Update(h, t, x)[t] = x
        /\ \A u \in Thread : u # t => Update(h, t, x)[u] = h[u]
    BY <1>1, <2>1, OneChanges
  <2> QED BY <1>6, <2>2
<1>8. ~Asleep(h[t])
  BY DEF Asleep
<1>9. Linked(T, h2, r2, p2)
  <2>1. /\ \A n \in Ntfn, u \in Thread : u \in Range(p2[n].waiters)
             <=> u \in Range(p[n].waiters) \/ (u = t /\ x.wait_on = WaitAt(n, "Waiter"))
        /\ \A e \in Ep, u \in Thread : u \in Range(r2[e].receivers)
             <=> u \in Range(r[e].receivers) \/ (u = t /\ x.wait_on = WaitAt(e, "Receiver"))
        /\ \A e \in Ep, u \in Thread : u \in Range(r2[e].senders)
             <=> u \in Range(r[e].senders) \/ (u = t /\ x.wait_on = WaitAt(e, "Sender"))
    BY <1>5 DEF Joined
  <2>2. Linked(T, [h EXCEPT ![t] = x], r2, p2)
    BY <1>1, <1>2, <1>5, <1>8, <2>1, Join
  <2> QED BY <1>6, <2>2 DEF Update
<1>10. PICK c2 : c2 = Update(c, t, y)
  OBVIOUS
<1>11. c2[t] = y /\ \A u \in Thread : u # t => c2[u] = c[u]
  BY <1>2, <1>10 DEF Update
<1>12. Mailed(T, c2, h2, m)
  <2>1. Others(t, c, h, m, c2, h2, m)
    BY <1>7, <1>11 DEF Others
  <2>2. MailedOne(c2[t], h2[t], m[t])
    BY <1>3, <1>5, <1>7, <1>11 DEF MailedOne
  <2>3. T \subseteq T
    OBVIOUS
  <2> QED BY <1>1, <2>1, <2>2, <2>3, MailedBut
<1>13. Good(T, N, c2, b, h2, m, r2, p2)
  BY <1>1, <1>7, <1>9, <1>12 DEF Good, Typed
<1> QED BY <1>13, <1>10, <1>6, <1>4

\* The word of n is taken by whoever asks for it.
LEMMA Takes ==
  ASSUME NEW T, NEW N, NEW c, NEW b, NEW h, NEW m, NEW r, NEW p,
         Good(T, N, c, b, h, m, r, p), NEW n \in Ntfn
  PROVE  /\ Good(T, N, c, b, h, m, r, Emptied(p, n))
         /\ \A k \in Ntfn : \A x \in PendIn(T, m, p, k) \ PendIn(T, m, Emptied(p, n), k) :
               k = n /\ x \in p[n].word
<1>1. /\ T \subseteq Thread /\ N \subseteq Ntfn /\ HTyped(h) /\ m \in [Thread -> ProperMail]
      /\ RTyped(r) /\ PTyped(p)
      /\ Linked(T, h, r, p) /\ Told(N, r, p) /\ Coupled(T, N, b, p) /\ Mailed(T, c, h, m)
  BY DEF Good, Typed
<1>2. PICK p2 : p2 = Emptied(p, n)
  OBVIOUS
<1>3. /\ PTyped(p2) /\ Milder(p, p2) /\ \A k \in Ntfn : p2[k].waiters = p[k].waiters
      /\ \A k \in Ntfn : k # n => p2[k] = p[k]
  BY <1>1, <1>2, EmptiedIs, SMT
<1>4. Lose({}, r, p, r, p2)
  BY <1>3 DEF Lose
<1>5. Told(N, r, p2) /\ Coupled(T, N, b, p2)
  BY <1>1, <1>3, <1>4, StillTold
<1>6. Linked(T, h, r, p2)
  BY <1>1, <1>3 DEF Linked
<1>7. Good(T, N, c, b, h, m, r, p2)
  BY <1>1, <1>3, <1>5, <1>6 DEF Good, Typed
<1>8. \A k \in Ntfn : \A x \in PendIn(T, m, p, k) \ PendIn(T, m, p2, k) :
         k = n /\ x \in p[n].word
  BY <1>3 DEF PendIn
<1> QED BY <1>2, <1>7, <1>8

FirstSent(r, e)     == Update(r, e, [r[e] EXCEPT !.senders = Tail(@)])
FirstReceived(r, e) == Update(r, e, [r[e] EXCEPT !.receivers = Tail(@)])

\* The first sender leaves the queue of a rendezvous.
LEMMA FirstSentIs ==
  ASSUME NEW T, NEW h, NEW r, NEW p, Linked(T, h, r, p), RTyped(r),
         NEW e \in Ep, r[e].senders # <<>>
  PROVE  LET t == Head(r[e].senders)
         IN  /\ t \in Thread /\ t \in T /\ Asleep(h[t])
             /\ RTyped(FirstSent(r, e)) /\ Lose({t}, r, p, FirstSent(r, e), p)
<1> DEFINE t == Head(r[e].senders)
           q == Tail(r[e].senders)
<1>1. r[e] \in RendezvousOf(Thread, 0) /\ Queue(r[e].senders) /\ Queue(r[e].receivers)
  BY DEF RTyped
<1>2. /\ t \in Range(r[e].senders) /\ t \in Thread
      /\ Queue(q) /\ Range(q) = Range(r[e].senders) \ {t}
  BY <1>1, Pop
<1>3. t \in T /\ Asleep(h[t])
  BY <1>2 DEF Linked
<1>4. PICK x : x = [r[e] EXCEPT !.senders = q]
  OBVIOUS
<1>5. x \in RendezvousOf(Thread, 0) /\ x.senders = q /\ x.receivers = r[e].receivers
  <2>1. q \in Seq(Thread)
    BY <1>2 DEF Queue
  <2> HIDE DEF q
  <2> QED BY <1>1, <1>4, <2>1, RvFields
<1>6. PICK r2 : r2 = Update(r, e, x)
  OBVIOUS
<1>7. r2 = FirstSent(r, e)
  BY <1>4, <1>6 DEF FirstSent
<1>8. RTyped(r2) /\ r2[e] = x /\ \A f \in Ep : f # e => r2[f] = r[f]
  <2>1. Queue(x.senders) /\ Queue(x.receivers)
    BY <1>1, <1>2, <1>5
  <2> QED BY <1>5, <1>6, <2>1, OneRv, SMT
<1> HIDE DEF t, q
<1>9. Lose({t}, r, p, r2, p)
  <2>1. /\ \A f \in Ep : f # e => t \notin Range(r[f].senders)
        /\ \A f \in Ep : t \notin Range(r[f].receivers)
        /\ \A n \in Ntfn : t \notin Range(p[n].waiters)
    BY <1>2, OneQueue
  <2>2. \A f \in Ep : Range(r2[f].senders) = Range(r[f].senders) \ {t}
    <3> SUFFICES ASSUME NEW f \in Ep PROVE Range(r2[f].senders) = Range(r[f].senders) \ {t}
      OBVIOUS
    <3>1. CASE f = e BY <3>1, <1>2, <1>5, <1>8
    <3>2. CASE f # e BY <3>2, <2>1, <1>8
    <3> QED BY <3>1, <3>2
  <2>3. \A f \in Ep : Range(r2[f].receivers) = Range(r[f].receivers) \ {t}
    <3>1. \A f \in Ep : r2[f].receivers = r[f].receivers
      BY <1>5, <1>8
    <3> QED BY <2>1, <3>1
  <2>4. \A n \in Ntfn : Range(p[n].waiters) = Range(p[n].waiters) \ {t}
    BY <2>1
  <2> QED BY <2>2, <2>3, <2>4 DEF Lose
<1> QED BY <1>2, <1>3, <1>7, <1>8, <1>9 DEF t

\* The first receiver leaves the queue of a rendezvous.
LEMMA FirstReceivedIs ==
  ASSUME NEW T, NEW h, NEW r, NEW p, Linked(T, h, r, p), RTyped(r),
         NEW e \in Ep, r[e].receivers # <<>>
  PROVE  LET t == Head(r[e].receivers)
         IN  /\ t \in Thread /\ t \in T /\ Asleep(h[t])
             /\ RTyped(FirstReceived(r, e)) /\ Lose({t}, r, p, FirstReceived(r, e), p)
<1> DEFINE t == Head(r[e].receivers)
           q == Tail(r[e].receivers)
<1>1. r[e] \in RendezvousOf(Thread, 0) /\ Queue(r[e].senders) /\ Queue(r[e].receivers)
  BY DEF RTyped
<1>2. /\ t \in Range(r[e].receivers) /\ t \in Thread
      /\ Queue(q) /\ Range(q) = Range(r[e].receivers) \ {t}
  BY <1>1, Pop
<1>3. t \in T /\ Asleep(h[t])
  BY <1>2 DEF Linked
<1>4. PICK x : x = [r[e] EXCEPT !.receivers = q]
  OBVIOUS
<1>5. x \in RendezvousOf(Thread, 0) /\ x.receivers = q /\ x.senders = r[e].senders
  <2>1. q \in Seq(Thread)
    BY <1>2 DEF Queue
  <2> HIDE DEF q
  <2> QED BY <1>1, <1>4, <2>1, RvFields
<1>6. PICK r2 : r2 = Update(r, e, x)
  OBVIOUS
<1>7. r2 = FirstReceived(r, e)
  BY <1>4, <1>6 DEF FirstReceived
<1>8. RTyped(r2) /\ r2[e] = x /\ \A f \in Ep : f # e => r2[f] = r[f]
  <2>1. Queue(x.senders) /\ Queue(x.receivers)
    BY <1>1, <1>2, <1>5
  <2> QED BY <1>5, <1>6, <2>1, OneRv, SMT
<1> HIDE DEF t, q
<1>9. Lose({t}, r, p, r2, p)
  <2>1. /\ \A f \in Ep : f # e => t \notin Range(r[f].receivers)
        /\ \A f \in Ep : t \notin Range(r[f].senders)
        /\ \A n \in Ntfn : t \notin Range(p[n].waiters)
    BY <1>2, OneQueue
  <2>2. \A f \in Ep : Range(r2[f].receivers) = Range(r[f].receivers) \ {t}
    <3> SUFFICES ASSUME NEW f \in Ep PROVE Range(r2[f].receivers) = Range(r[f].receivers) \ {t}
      OBVIOUS
    <3>1. CASE f = e BY <3>1, <1>2, <1>5, <1>8
    <3>2. CASE f # e BY <3>2, <2>1, <1>8
    <3> QED BY <3>1, <3>2
  <2>3. \A f \in Ep : Range(r2[f].senders) = Range(r[f].senders) \ {t}
    <3>1. \A f \in Ep : r2[f].senders = r[f].senders
      BY <1>5, <1>8
    <3> QED BY <2>1, <3>1
  <2>4. \A n \in Ntfn : Range(p[n].waiters) = Range(p[n].waiters) \ {t}
    BY <2>1
  <2> QED BY <2>2, <2>3, <2>4 DEF Lose
<1> QED BY <1>2, <1>3, <1>7, <1>8, <1>9 DEF t

\* The thread t goes to the end of a queue: push_back in wait, send and receive.
LastWaiting(p, n, t)   == Update(p, n, [p[n] EXCEPT !.waiters = Append(@, t)])
LastSent(r, e, t)      == Update(r, e, [r[e] EXCEPT !.senders = Append(@, t)])
LastReceived(r, e, t)  == Update(r, e, [r[e] EXCEPT !.receivers = Append(@, t)])

\* Places at different objects or in different roles are different.
LEMMA Places ==
  ASSUME NEW o, NEW q
  PROVE  /\ WaitAt(o, "Waiter") # WaitAt(q, "Receiver") /\ WaitAt(o, "Waiter") # WaitAt(q, "Sender")
         /\ WaitAt(o, "Receiver") # WaitAt(q, "Waiter") /\ WaitAt(o, "Receiver") # WaitAt(q, "Sender")
         /\ WaitAt(o, "Sender") # WaitAt(q, "Waiter") /\ WaitAt(o, "Sender") # WaitAt(q, "Receiver")
         /\ \A y : WaitAt(o, y) = WaitAt(q, y) => o = q
  BY DEF WaitAt

\* A thread that is awake is in no queue.
LEMMA Awake ==
  ASSUME NEW T, NEW h, NEW r, NEW p, Linked(T, h, r, p), NEW t \in Thread, ~Asleep(h[t])
  PROVE  /\ \A n \in Ntfn : t \notin Range(p[n].waiters)
         /\ \A e \in Ep : t \notin Range(r[e].receivers) /\ t \notin Range(r[e].senders)
  BY DEF Linked

\* t joins the waiters of n.
LEMMA LastWaitingIs ==
  ASSUME NEW r, NEW p, PTyped(p), NEW n \in Ntfn, NEW t \in Thread, t \notin Range(p[n].waiters)
  PROVE  /\ PTyped(LastWaiting(p, n, t))
         /\ Joined(t, WaitAt(n, "Waiter"), r, p, r, LastWaiting(p, n, t))
         /\ \A k \in Ntfn : /\ LastWaiting(p, n, t)[k].word = p[k].word
                            /\ LastWaiting(p, n, t)[k].bound = p[k].bound
<1>1. p[n] \in Page /\ Queue(p[n].waiters)
  BY DEF PTyped
<1>2. PICK q : q = Append(p[n].waiters, t)
  OBVIOUS
<1>3. Queue(q) /\ Range(q) = Range(p[n].waiters) \cup {t}
  BY <1>1, <1>2, Push
<1>4. PICK x : x = [p[n] EXCEPT !.waiters = q]
  OBVIOUS
<1>5. x \in Page /\ x.waiters = q /\ x.word = p[n].word /\ x.bound = p[n].bound
  <2>1. q \in Seq(Thread)
    BY <1>3 DEF Queue
  <2> QED BY <1>1, <1>4, <2>1, PageFields
<1>6. PICK p2 : p2 = Update(p, n, x)
  OBVIOUS
<1>7. PTyped(p2) /\ p2[n] = x /\ \A k \in Ntfn : k # n => p2[k] = p[k]
  <2>1. Queue(x.waiters)
    BY <1>3, <1>5
  <2> QED BY <1>5, <1>6, <2>1, OnePage, SMT
<1>8. Joined(t, WaitAt(n, "Waiter"), r, p, r, p2)
  <2>1. ASSUME NEW k \in Ntfn, NEW u \in Thread
        PROVE  u \in Range(p2[k].waiters) <=>
                 u \in Range(p[k].waiters) \/ (u = t /\ WaitAt(n, "Waiter") = WaitAt(k, "Waiter"))
    <3>1. CASE k = n BY <3>1, <1>3, <1>5, <1>7
    <3>2. CASE k # n
      <4>1. WaitAt(n, "Waiter") # WaitAt(k, "Waiter")
        BY <3>2, Places
      <4> QED BY <3>2, <4>1, <1>7
    <3> QED BY <3>1, <3>2
  <2> QED BY <2>1, Places DEF Joined
<1>9. p2 = LastWaiting(p, n, t)
  BY <1>2, <1>4, <1>6 DEF LastWaiting
<1>10. \A k \in Ntfn : p2[k].word = p[k].word /\ p2[k].bound = p[k].bound
  BY <1>5, <1>7
<1> QED BY <1>7, <1>8, <1>9, <1>10

\* t joins the senders of e.
LEMMA LastSentIs ==
  ASSUME NEW r, RTyped(r), NEW p, NEW e \in Ep, NEW t \in Thread, t \notin Range(r[e].senders)
  PROVE  /\ RTyped(LastSent(r, e, t))
         /\ Joined(t, WaitAt(e, "Sender"), r, p, LastSent(r, e, t), p)
         /\ \A f \in Ep : LastSent(r, e, t)[f].receivers = r[f].receivers
<1>1. r[e] \in RendezvousOf(Thread, 0) /\ Queue(r[e].senders) /\ Queue(r[e].receivers)
  BY DEF RTyped
<1>2. PICK q : q = Append(r[e].senders, t)
  OBVIOUS
<1>3. Queue(q) /\ Range(q) = Range(r[e].senders) \cup {t}
  BY <1>1, <1>2, Push
<1>4. PICK x : x = [r[e] EXCEPT !.senders = q]
  OBVIOUS
<1>5. x \in RendezvousOf(Thread, 0) /\ x.senders = q /\ x.receivers = r[e].receivers
  <2>1. q \in Seq(Thread)
    BY <1>3 DEF Queue
  <2> QED BY <1>1, <1>4, <2>1, RvFields
<1>6. PICK r2 : r2 = Update(r, e, x)
  OBVIOUS
<1>7. RTyped(r2) /\ r2[e] = x /\ \A f \in Ep : f # e => r2[f] = r[f]
  <2>1. Queue(x.senders) /\ Queue(x.receivers)
    BY <1>1, <1>3, <1>5
  <2> QED BY <1>5, <1>6, <2>1, OneRv, SMT
<1>8. \A f \in Ep : r2[f].receivers = r[f].receivers
  BY <1>5, <1>7
<1>9. Joined(t, WaitAt(e, "Sender"), r, p, r2, p)
  <2>1. ASSUME NEW f \in Ep, NEW u \in Thread
        PROVE  u \in Range(r2[f].senders) <=>
                 u \in Range(r[f].senders) \/ (u = t /\ WaitAt(e, "Sender") = WaitAt(f, "Sender"))
    <3>1. CASE f = e BY <3>1, <1>3, <1>5, <1>7
    <3>2. CASE f # e
      <4>1. WaitAt(e, "Sender") # WaitAt(f, "Sender")
        BY <3>2, Places
      <4> QED BY <3>2, <4>1, <1>7
    <3> QED BY <3>1, <3>2
  <2> QED BY <1>8, <2>1, Places DEF Joined
<1>10. r2 = LastSent(r, e, t)
  BY <1>2, <1>4, <1>6 DEF LastSent
<1> QED BY <1>7, <1>8, <1>9, <1>10

\* t joins the receivers of e.
LEMMA LastReceivedIs ==
  ASSUME NEW r, RTyped(r), NEW p, NEW e \in Ep, NEW t \in Thread, t \notin Range(r[e].receivers)
  PROVE  /\ RTyped(LastReceived(r, e, t))
         /\ Joined(t, WaitAt(e, "Receiver"), r, p, LastReceived(r, e, t), p)
         /\ \A f \in Ep : \A u \in Range(LastReceived(r, e, t)[f].receivers) :
               u \in Range(r[f].receivers) \/ u = t
<1>1. r[e] \in RendezvousOf(Thread, 0) /\ Queue(r[e].senders) /\ Queue(r[e].receivers)
  BY DEF RTyped
<1>2. PICK q : q = Append(r[e].receivers, t)
  OBVIOUS
<1>3. Queue(q) /\ Range(q) = Range(r[e].receivers) \cup {t}
  BY <1>1, <1>2, Push
<1>4. PICK x : x = [r[e] EXCEPT !.receivers = q]
  OBVIOUS
<1>5. x \in RendezvousOf(Thread, 0) /\ x.receivers = q /\ x.senders = r[e].senders
  <2>1. q \in Seq(Thread)
    BY <1>3 DEF Queue
  <2> QED BY <1>1, <1>4, <2>1, RvFields
<1>6. PICK r2 : r2 = Update(r, e, x)
  OBVIOUS
<1>7. RTyped(r2) /\ r2[e] = x /\ \A f \in Ep : f # e => r2[f] = r[f]
  <2>1. Queue(x.senders) /\ Queue(x.receivers)
    BY <1>1, <1>3, <1>5
  <2> QED BY <1>5, <1>6, <2>1, OneRv, SMT
<1>8. \A f \in Ep : r2[f].senders = r[f].senders
  BY <1>5, <1>7
<1>9. Joined(t, WaitAt(e, "Receiver"), r, p, r2, p)
  <2>1. ASSUME NEW f \in Ep, NEW u \in Thread
        PROVE  u \in Range(r2[f].receivers) <=>
                 \/ u \in Range(r[f].receivers)
                 \/ u = t /\ WaitAt(e, "Receiver") = WaitAt(f, "Receiver")
    <3>1. CASE f = e BY <3>1, <1>3, <1>5, <1>7
    <3>2. CASE f # e
      <4>1. WaitAt(e, "Receiver") # WaitAt(f, "Receiver")
        BY <3>2, Places
      <4> QED BY <3>2, <4>1, <1>7
    <3> QED BY <3>1, <3>2
  <2> QED BY <1>8, <2>1, Places DEF Joined
<1>10. r2 = LastReceived(r, e, t)
  BY <1>2, <1>4, <1>6 DEF LastReceived
<1>11. \A f \in Ep : \A u \in Range(r2[f].receivers) : u \in Range(r[f].receivers) \/ u = t
  BY <1>3, <1>5, <1>7
<1> QED BY <1>7, <1>9, <1>10, <1>11

------------------------------------------------------------------------------
(* The inductive invariant.                                                 *)

RestTyped ==
    /\ pc \in [Thread -> {"user", "wait", "receive", "send"}]
    /\ bound_notification \in [Thread -> Ntfn \cup {NoNtfn}]
    /\ killed \subseteq Thread
    /\ got \subseteq Ntfn \X Bit

TimeTyped ==
    /\ timers \subseteq Timer
    /\ armed \in [Timer -> Armed \cup {Disarmed}]
    /\ now \in Time /\ earliest \in Time \cup {NEVER}
    /\ seen \in [Cpu -> Time \cup {NEVER}]
    /\ tick \in [Cpu -> BOOLEAN]

IInv == GoodNow(hs, mailbox, rv, page) /\ RestTyped /\ TimeTyped /\ EarliestIsLowerBound

\* A letter is mail.
LEMMA LetterIs == Letter \in ProperMail /\ NoMail \in ProperMail
  BY DEF Letter, NoMail, Mail, ProperMail

BoundTo(p, n, u) == Update(p, n, [p[n] EXCEPT !.bound = u])

\* A notification is bound to u.
LEMMA BoundToIs ==
  ASSUME NEW p, PTyped(p), NEW n \in Ntfn, NEW u \in Thread
  PROVE  /\ PTyped(BoundTo(p, n, u)) /\ BoundTo(p, n, u)[n].bound = u
         /\ \A k \in Ntfn : /\ BoundTo(p, n, u)[k].waiters = p[k].waiters
                            /\ BoundTo(p, n, u)[k].word = p[k].word
         /\ \A k \in Ntfn : k # n => BoundTo(p, n, u)[k] = p[k]
<1>1. p[n] \in Page /\ Queue(p[n].waiters)
  BY DEF PTyped
<1>2. PICK x : x = [p[n] EXCEPT !.bound = u]
  OBVIOUS
<1>3. x \in Page /\ x.waiters = p[n].waiters /\ x.word = p[n].word /\ x.bound = u
  BY <1>1, <1>2, PageFields
<1>4. PICK p2 : p2 = Update(p, n, x)
  OBVIOUS
<1>5. PTyped(p2) /\ p2[n] = x /\ \A k \in Ntfn : k # n => p2[k] = p[k]
  BY <1>1, <1>3, <1>4, OnePage, SMT
<1>6. \A k \in Ntfn : p2[k].waiters = p[k].waiters /\ p2[k].word = p[k].word
  BY <1>3, <1>5
<1>7. p2 = BoundTo(p, n, u)
  BY <1>2, <1>4 DEF BoundTo
<1> QED BY <1>3, <1>5, <1>6, <1>7

\* A binding of two free sides leaves the invariant, if u is told or there is nothing
\* to tell.
LEMMA Binds ==
  ASSUME NEW T, NEW N, NEW c, NEW b, NEW h, NEW m, NEW r, NEW p,
         Good(T, N, c, b, h, m, r, p), b \in [Thread -> Ntfn \cup {NoNtfn}],
         NEW n \in N, NEW u \in T, b[u] \notin N,
         NEW p2, PTyped(p2), p2[n].bound = u,
         \A k \in Ntfn : p2[k].waiters = p[k].waiters,
         \A k \in Ntfn : k # n => p2[k] = p[k],
         p2[n].word # {} => \A e \in Ep : u \notin Range(r[e].receivers)
  PROVE  Good(T, N, c, Update(b, u, n), h, m, r, p2)
<1>1. /\ T \subseteq Thread /\ N \subseteq Ntfn /\ HTyped(h) /\ m \in [Thread -> ProperMail]
      /\ RTyped(r)
      /\ Linked(T, h, r, p) /\ Told(N, r, p) /\ Coupled(T, N, b, p) /\ Mailed(T, c, h, m)
  BY DEF Good, Typed
<1>2. Linked(T, h, r, p2)
  BY <1>1 DEF Linked
<1>3. Told(N, r, p2)
  <2> SUFFICES ASSUME NEW k \in N, NEW e \in Ep, p2[k].word # {}
               PROVE  p2[k].bound \notin Range(r[e].receivers)
    BY DEF Told
  <2>1. CASE k = n BY <2>1
  <2>2. CASE k # n BY <2>2, <1>1 DEF Told
  <2> QED BY <2>1, <2>2
<1>4. PICK b2 : b2 = Update(b, u, n)
  OBVIOUS
<1>5. b2[u] = n /\ \A t \in Thread : t # u => b2[t] = b[t]
  BY <1>1, <1>4 DEF Update
<1>6. Coupled(T, N, b2, p2)
  <2> SUFFICES ASSUME NEW k \in N, p2[k].bound \in T PROVE b2[p2[k].bound] = k
    BY DEF Coupled
  <2>1. CASE k = n BY <2>1, <1>5
  <2>2. CASE k # n
    <3>1. p2[k].bound = p[k].bound /\ b[p[k].bound] = k
      BY <2>2, <1>1 DEF Coupled
    <3>2. p[k].bound # u
      BY <3>1
    <3> QED BY <1>1, <1>5, <3>1, <3>2
  <2> QED BY <2>1, <2>2
<1>7. Good(T, N, c, b2, h, m, r, p2)
  BY <1>1, <1>2, <1>3, <1>6 DEF Good, Typed
<1> QED BY <1>4, <1>7

------------------------------------------------------------------------------
(* Reclaiming a region.                                                     *)

Blank == [word |-> {}, waiters |-> <<>>, bound |-> NoTid]

Waiting(p, D) == UNION {Range(p[n].waiters) : n \in D}
Roused(h, W)  == [t \in Thread |-> IF t \in W THEN try_wake(abort(h[t])) ELSE h[t]]
GivenUp(p, D) == [n \in Ntfn |-> IF n \in D THEN Blank ELSE p[n]]

\* The notifications of D are drained and given up.
LEMMA Drained ==
  ASSUME NEW T, NEW N, NEW c, NEW b, NEW h, NEW m, NEW r, NEW p,
         Good(T, N, c, b, h, m, r, p), NEW D \in SUBSET Ntfn, NEW W, W = Waiting(p, D)
  PROVE  Good(T, N \ D, c, b, Roused(h, W), m, r, GivenUp(p, D))
<1>1. /\ T \subseteq Thread /\ N \subseteq Ntfn /\ HTyped(h) /\ m \in [Thread -> ProperMail]
      /\ RTyped(r) /\ PTyped(p)
      /\ Linked(T, h, r, p) /\ Told(N, r, p) /\ Coupled(T, N, b, p) /\ Mailed(T, c, h, m)
  BY DEF Good, Typed
<1>2. PICK h2, p2 : h2 = Roused(h, W) /\ p2 = GivenUp(p, D)
  OBVIOUS
<1>4. /\ \A t \in Thread : t \in W => h2[t] = try_wake(abort(h[t]))
      /\ \A t \in Thread : t \notin W => h2[t] = h[t]
      /\ h2 = [t \in Thread |-> h2[t]]
  BY <1>2 DEF Roused
<1>5. /\ \A n \in D : p2[n] = Blank
      /\ \A n \in Ntfn : n \notin D => p2[n] = p[n]
      /\ p2 = [n \in Ntfn |-> p2[n]]
  BY <1>2 DEF GivenUp
<1>6. \A t \in Thread : t \in W => \E n \in D : t \in Range(p[n].waiters)
  BY DEF Waiting
<1>7. \A t \in Thread : t \in W => t \in T /\ Asleep(h[t])
  BY <1>1, <1>6 DEF Linked
<1>8. ASSUME NEW t \in Thread
      PROVE  /\ h2[t] \in HandshakeOf(Wait) /\ PendOk(h2[t])
             /\ t \in W => ~Asleep(h2[t]) /\ h2[t].ipc_aborted
  <2>1. h[t] \in HandshakeOf(Wait) /\ PendOk(h[t])
    BY <1>1 DEF HTyped
  <2>2. CASE t \in W
    <3>1. Asleep(h[t]) /\ h2[t] = try_wake(abort(h[t]))
      BY <1>4, <1>7, <2>2
    <3> QED BY <2>1, <3>1, Aborted
  <2>3. CASE t \notin W
    BY <1>4, <2>1, <2>3
  <2> QED BY <2>2, <2>3
<1>9. HTyped(h2)
  BY <1>4, <1>8 DEF HTyped
<1>10. PTyped(p2)
  <2>1. Blank \in Page /\ Blank.waiters = <<>>
    BY SMT DEF Blank, Page
  <2>2. Queue(<<>>)
    BY NoneQueued
  <2>3. ASSUME NEW n \in Ntfn PROVE p2[n] \in Page /\ Queue(p2[n].waiters)
    <3>1. CASE n \in D BY <3>1, <1>5, <2>1, <2>2
    <3>2. CASE n \notin D BY <3>2, <1>1, <1>5 DEF PTyped
    <3> QED BY <3>1, <3>2
  <2> QED BY <1>5, <2>3 DEF PTyped
<1>11. Rouse(W, T, h, T, h2)
  BY <1>4, <1>8 DEF Rouse
<1>12. Lose(W, r, p, r, p2)
  <2>0. \A e \in Ep : Range(r[e].receivers) \subseteq Thread /\ Range(r[e].senders) \subseteq Thread
    BY <1>1, SMT DEF RTyped, Queue, Range
  <2>1. \A e \in Ep : \A t \in Thread :
           t \in W => t \notin Range(r[e].receivers) /\ t \notin Range(r[e].senders)
    BY <1>1, <1>6, OneQueue
  <2>2. \A e \in Ep : /\ Range(r[e].receivers) = Range(r[e].receivers) \ W
                      /\ Range(r[e].senders) = Range(r[e].senders) \ W
    BY <2>0, <2>1
  <2>3. ASSUME NEW n \in Ntfn PROVE Range(p2[n].waiters) = Range(p[n].waiters) \ W
    <3>1. CASE n \in D
      <4>1. Range(p2[n].waiters) = {}
        <5>1. Blank.waiters = <<>>
          BY DEF Blank
        <5> QED BY <1>5, <3>1, <5>1, NoneQueued
      <4>2. Range(p[n].waiters) \subseteq W
        BY <3>1 DEF Waiting
      <4> QED BY <4>1, <4>2
    <3>2. CASE n \notin D
      <4>1. Range(p[n].waiters) \subseteq Thread
        BY <1>1, SMT DEF PTyped, Queue, Range
      <4>2. \A t \in Thread : t \in W => t \notin Range(p[n].waiters)
        <5> SUFFICES ASSUME NEW t \in Thread, t \in W, t \in Range(p[n].waiters) PROVE FALSE
          OBVIOUS
        <5>1. PICK k \in D : t \in Range(p[k].waiters)
          BY <1>6
        <5>2. k \in Ntfn
          OBVIOUS
        <5>3. n = k
          BY <1>1, <5>1, <5>2, OneQueue
        <5> QED BY <3>2, <5>3
      <4> QED BY <1>5, <3>2, <4>1, <4>2
    <3> QED BY <3>1, <3>2
  <2> QED BY <2>2, <2>3 DEF Lose
<1>13. Linked(T, h2, r, p2)
  BY <1>1, <1>11, <1>12, Leave
<1>14. Told(N \ D, r, p2) /\ Coupled(T, N \ D, b, p2)
  BY <1>1, <1>5 DEF Told, Coupled
<1>15. Mailed(T, c, h2, m)
  <2> SUFFICES ASSUME NEW t \in T PROVE MailedOne(c[t], h2[t], m[t])
    BY DEF Mailed, MailedOne
  <2>1. MailedOne(c[t], h[t], m[t])
    BY <1>1 DEF Mailed, MailedOne
  <2>2. CASE t \in W BY <2>1, <2>2, <1>1, <1>7, <1>8 DEF MailedOne
  <2>3. CASE t \notin W BY <2>1, <2>3, <1>1, <1>4
  <2> QED BY <2>2, <2>3
<1>16. N \ D \subseteq Ntfn
  BY <1>1
<1>17. Good(T, N \ D, c, b, h2, m, r, p2)
  BY <1>1, <1>9, <1>10, <1>13, <1>14, <1>15, <1>16 DEF Good, Typed
<1> QED BY <1>2, <1>17

Over(x)         == [x EXCEPT !.state = "Finished", !.wait_on = NoWait]
EndedAll(h, E)  == [t \in Thread |-> IF t \in E THEN Over(h[t]) ELSE h[t]]
RvWithout(r, E) == [e \in Ep |-> [r[e] EXCEPT !.senders   = Without(@, E),
                                              !.receivers = Without(@, E)]]
PgWithout(p, E) == [n \in Ntfn |-> [p[n] EXCEPT !.waiters = Without(@, E)]]

\* What unlinking the members of E leaves of the queues.
LEMMA Unlinks ==
  ASSUME NEW r, RTyped(r), NEW p, PTyped(p), NEW E
  PROVE  /\ RTyped(RvWithout(r, E)) /\ PTyped(PgWithout(p, E))
         /\ Lose(E, r, p, RvWithout(r, E), PgWithout(p, E))
         /\ \A n \in Ntfn : /\ PgWithout(p, E)[n].word = p[n].word
                            /\ PgWithout(p, E)[n].bound = p[n].bound
<1>1. PICK r2, p2 : r2 = RvWithout(r, E) /\ p2 = PgWithout(p, E)
  OBVIOUS
<1>3. ASSUME NEW e \in Ep
      PROVE  /\ r2[e] \in RendezvousOf(Thread, 0)
             /\ Queue(r2[e].senders) /\ Range(r2[e].senders) = Range(r[e].senders) \ E
             /\ Queue(r2[e].receivers) /\ Range(r2[e].receivers) = Range(r[e].receivers) \ E
  <2>1. r[e] \in RendezvousOf(Thread, 0) /\ Queue(r[e].senders) /\ Queue(r[e].receivers)
    BY DEF RTyped
  <2>2. PICK q1, q2 : q1 = Without(r[e].senders, E) /\ q2 = Without(r[e].receivers, E)
    OBVIOUS
  <2>4. /\ Queue(q1) /\ Range(q1) = Range(r[e].senders) \ E
        /\ Queue(q2) /\ Range(q2) = Range(r[e].receivers) \ E
    BY <2>1, <2>2, Unlink
  <2>5. r2[e] = [[r[e] EXCEPT !.senders = q1] EXCEPT !.receivers = q2]
    BY <1>1, <2>2 DEF RvWithout
  <2>6. q1 \in Seq(Thread) /\ q2 \in Seq(Thread)
    BY <2>4 DEF Queue
  <2>7. /\ r2[e] \in RendezvousOf(Thread, 0)
        /\ r2[e].senders = q1 /\ r2[e].receivers = q2
    BY <2>1, <2>5, <2>6 DEF RendezvousOf
  <2> QED BY <2>4, <2>7
<1>4. ASSUME NEW n \in Ntfn
      PROVE  /\ p2[n] \in Page /\ p2[n].word = p[n].word /\ p2[n].bound = p[n].bound
             /\ Queue(p2[n].waiters) /\ Range(p2[n].waiters) = Range(p[n].waiters) \ E
  <2>1. p[n] \in Page /\ Queue(p[n].waiters)
    BY DEF PTyped
  <2>2. PICK q : q = Without(p[n].waiters, E)
    OBVIOUS
  <2>3. Queue(q) /\ Range(q) = Range(p[n].waiters) \ E
    BY <2>1, <2>2, Unlink
  <2>4. p2[n] = [p[n] EXCEPT !.waiters = q]
    BY <1>1, <2>2 DEF PgWithout
  <2>5. q \in Seq(Thread)
    BY <2>3 DEF Queue
  <2>6. p2[n] \in Page /\ p2[n].word = p[n].word /\ p2[n].bound = p[n].bound /\ p2[n].waiters = q
    BY <2>1, <2>4, <2>5, PageFields, SMT
  <2> QED BY <2>3, <2>6
<1>5. r2 = [e \in Ep |-> r2[e]] /\ p2 = [n \in Ntfn |-> p2[n]]
  BY <1>1 DEF RvWithout, PgWithout
<1>6. RTyped(r2) /\ PTyped(p2)
  BY <1>3, <1>4, <1>5 DEF RTyped, PTyped
<1>7. Lose(E, r, p, r2, p2)
  BY <1>3, <1>4 DEF Lose
<1> QED BY <1>1, <1>4, <1>6, <1>7

\* Threads are ended in place and unlinked.
LEMMA EndsAll ==
  ASSUME NEW T, NEW N, NEW c, NEW b, NEW h, NEW m, NEW r, NEW p,
         Good(T, N, c, b, h, m, r, p), NEW E
  PROVE  Good(T, N, c, b, EndedAll(h, E), m, RvWithout(r, E), PgWithout(p, E))
<1>1. /\ T \subseteq Thread /\ N \subseteq Ntfn /\ HTyped(h) /\ m \in [Thread -> ProperMail]
      /\ RTyped(r) /\ PTyped(p)
      /\ Linked(T, h, r, p) /\ Told(N, r, p) /\ Coupled(T, N, b, p) /\ Mailed(T, c, h, m)
  BY DEF Good, Typed
<1>2. PICK h2, r2, p2 : h2 = EndedAll(h, E) /\ r2 = RvWithout(r, E) /\ p2 = PgWithout(p, E)
  OBVIOUS
<1>5. /\ RTyped(r2) /\ PTyped(p2) /\ Lose(E, r, p, r2, p2)
      /\ \A n \in Ntfn : p2[n].word = p[n].word /\ p2[n].bound = p[n].bound
  BY <1>1, <1>2, Unlinks, SMT
<1>6. /\ \A t \in Thread : t \in E => h2[t] = Over(h[t])
      /\ \A t \in Thread : t \notin E => h2[t] = h[t]
      /\ h2 = [t \in Thread |-> h2[t]]
  BY <1>2 DEF EndedAll
<1>7. ASSUME NEW t \in Thread
      PROVE  /\ h2[t] \in HandshakeOf(Wait) /\ PendOk(h2[t])
             /\ t \in E => ~Asleep(h2[t]) /\ h2[t].ipc_aborted = h[t].ipc_aborted
  <2>1. h[t] \in HandshakeOf(Wait) /\ PendOk(h[t])
    BY <1>1 DEF HTyped
  <2>2. CASE t \in E
    <3>1. h2[t] = Over(h[t])
      BY <1>6, <2>2
    <3> QED BY <2>1, <3>1, Ended DEF Over
  <2>3. CASE t \notin E
    BY <1>6, <2>1, <2>3
  <2> QED BY <2>2, <2>3
<1>8. HTyped(h2)
  BY <1>6, <1>7 DEF HTyped
<1>9. Rouse(E, T, h, T, h2)
  BY <1>6, <1>7 DEF Rouse
<1>10. Linked(T, h2, r2, p2)
  BY <1>1, <1>5, <1>9, Leave
<1>11. Told(N, r2, p2) /\ Coupled(T, N, b, p2)
  <2>1. Milder(p, p2)
    BY <1>5 DEF Milder
  <2> QED BY <1>1, <1>5, <2>1, StillTold
<1>12. Mailed(T, c, h2, m)
  <2> SUFFICES ASSUME NEW t \in T PROVE MailedOne(c[t], h2[t], m[t])
    BY DEF Mailed, MailedOne
  <2>1. MailedOne(c[t], h[t], m[t])
    BY <1>1 DEF Mailed, MailedOne
  <2>2. CASE t \in E BY <2>1, <2>2, <1>1, <1>7 DEF MailedOne
  <2>3. CASE t \notin E BY <2>1, <2>3, <1>1, <1>6
  <2> QED BY <2>2, <2>3
<1>13. Good(T, N, c, b, h2, m, r2, p2)
  BY <1>1, <1>5, <1>8, <1>10, <1>11, <1>12 DEF Good, Typed
<1> QED BY <1>2, <1>13

Cleared(f, M, x) == [t \in Thread |-> IF t \in M THEN x ELSE f[t]]

\* Threads that are awake leave the table.
LEMMA Reaps ==
  ASSUME NEW T, NEW N, NEW c, NEW b, NEW h, NEW m, NEW r, NEW p,
         Good(T, N, c, b, h, m, r, p), NEW M \in SUBSET T, \A t \in M : ~Asleep(h[t])
  PROVE  Good(T \ M, N, Cleared(c, M, "user"), b, Cleared(h, M, embryo),
              Cleared(m, M, NoMail), r, p)
<1>1. /\ T \subseteq Thread /\ N \subseteq Ntfn /\ HTyped(h) /\ m \in [Thread -> ProperMail]
      /\ RTyped(r) /\ PTyped(p)
      /\ Linked(T, h, r, p) /\ Told(N, r, p) /\ Coupled(T, N, b, p) /\ Mailed(T, c, h, m)
  BY DEF Good, Typed
<1>2. PICK h2, m2 : h2 = Cleared(h, M, embryo) /\ m2 = Cleared(m, M, NoMail)
  OBVIOUS
<1>4. PICK c2 : c2 = Cleared(c, M, "user")
  OBVIOUS
<1>5. /\ \A t \in Thread : t \in M => h2[t] = embryo /\ m2[t] = NoMail
      /\ \A t \in Thread : t \notin M => h2[t] = h[t] /\ m2[t] = m[t] /\ c2[t] = c[t]
      /\ h2 = [t \in Thread |-> h2[t]] /\ m2 = [t \in Thread |-> m2[t]]
  BY <1>2, <1>4 DEF Cleared
<1>6. HTyped(h2)
  <2>1. ASSUME NEW t \in Thread PROVE h2[t] \in HandshakeOf(Wait) /\ PendOk(h2[t])
    <3>1. CASE t \in M BY <3>1, <1>5, Ended
    <3>2. CASE t \notin M BY <3>2, <1>1, <1>5 DEF HTyped
    <3> QED BY <3>1, <3>2
  <2> QED BY <1>5, <2>1 DEF HTyped
<1>7. m2 \in [Thread -> ProperMail]
  <2>1. ASSUME NEW t \in Thread PROVE m2[t] \in ProperMail
    <3>1. CASE t \in M BY <3>1, <1>5, LetterIs
    <3>2. CASE t \notin M BY <3>2, <1>1, <1>5
    <3> QED BY <3>1, <3>2
  <2> QED BY <1>5, <2>1
<1>8. Rouse({}, T, h, T \ M, h2)
  <2> SUFFICES ASSUME NEW t \in Thread
               PROVE  /\ (t \in T \ M /\ Asleep(h2[t])) <=> (t \in T /\ Asleep(h[t]))
                      /\ t \in T /\ Asleep(h[t]) => h2[t].wait_on = h[t].wait_on
    BY DEF Rouse
  <2>1. CASE t \in M BY <2>1
  <2>2. CASE t \notin M BY <2>2, <1>5
  <2> QED BY <2>1, <2>2
<1>9. Lose({}, r, p, r, p)
  BY DEF Lose
<1>10. Linked(T \ M, h2, r, p)
  BY <1>1, <1>8, <1>9, Leave
<1>11. Coupled(T \ M, N, b, p)
  BY <1>1 DEF Coupled
<1>12. Mailed(T \ M, c2, h2, m2)
  <2> SUFFICES ASSUME NEW t \in T \ M PROVE MailedOne(c2[t], h2[t], m2[t])
    BY DEF Mailed, MailedOne
  <2>1. MailedOne(c[t], h[t], m[t])
    BY <1>1 DEF Mailed, MailedOne
  <2> QED BY <1>1, <1>5, <2>1
<1>13. Good(T \ M, N, c2, b, h2, m2, r, p)
  <2>1. T \ M \subseteq Thread
    BY <1>1
  <2> QED BY <1>1, <1>6, <1>7, <1>10, <1>11, <1>12, <2>1 DEF Good, Typed
<1> QED BY <1>2, <1>4, <1>13

====
