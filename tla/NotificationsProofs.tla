------------------------- MODULE NotificationsProofs -------------------------
(***************************************************************************)
(* Proofs about module Notifications: every handler keeps the invariant of *)
(* NotificationsInvariant, and the theorems that rest on it.               *)
(***************************************************************************)
EXTENDS NotificationsInvariant

\* Zenon is the prover of a leaf that names none: most are set reasoning.
USE Zenon

------------------------------------------------------------------------------
(* The steps.                                                               *)

\* What the step does with bits and deliveries: NoBitLost and DeliveryIsKept.
NothingLost ==
    /\ \A n \in ntfns \cap ntfns' : threads' = threads =>
          \A b \in Pending(n) \ Pending(n)' : <<n, b>> \in got'
    /\ \A t \in threads \cap threads' :
          mailbox[t].kind # "none" /\ mailbox'[t] # mailbox[t] => pc[t] # "user" /\ pc'[t] = "user"

\* Pending is PendIn of the current state.
LEMMA PendingIs ==
  \A n : /\ Pending(n) = PendIn(threads, mailbox, page, n)
         /\ Pending(n)' = PendIn(threads', mailbox', page', n)
  BY DEF Pending, PendIn

\* Where everything is passed on, nothing is lost.
LEMMA PassedLosesNothing ==
  ASSUME IInv, Passed(threads, mailbox, page, mailbox', page')
  PROVE  NothingLost
<1>1. ntfns \subseteq Ntfn
  BY DEF IInv, GoodNow, Good
<1>2. ASSUME NEW n \in ntfns \cap ntfns', threads' = threads, NEW b \in Pending(n) \ Pending(n)'
      PROVE  FALSE
  BY <1>1, <1>2, PendingIs DEF Passed
<1>3. \A t \in threads : mailbox[t].kind # "none" => mailbox'[t] = mailbox[t]
  BY DEF Passed
<1> QED BY <1>2, <1>3 DEF NothingLost

\* A step that changes neither mailboxes nor pages loses nothing.
LEMMA SameLosesNothing ==
  ASSUME IInv, mailbox' = mailbox, page' = page
  PROVE  NothingLost
<1>1. Passed(threads, mailbox, page, mailbox', page')
  BY DEF Passed
<1> QED BY <1>1, PassedLosesNothing

\* The tables' types, when no table but the threads' may have changed.
LEMMA RestSame ==
  ASSUME IInv, UNCHANGED <<pc, bound_notification, killed>>, got' \subseteq Ntfn \X Bit
  PROVE  RestTyped'
  BY DEF IInv, RestTyped

\* The clock and the timers, when the step leaves them alone.
LEMMA TimeSame ==
  ASSUME IInv, UNCHANGED timeVars
  PROVE  TimeTyped' /\ EarliestIsLowerBound'
  BY DEF IInv, TimeTyped, EarliestIsLowerBound, timeVars

\* The invariant of the next state, when the tables stay.
LEMMA GoodNext ==
  ASSUME UNCHANGED <<threads, ntfns, pc, bound_notification>>, GoodNow(hs', mailbox', rv', page')
  PROVE  GoodNow(hs, mailbox, rv, page)'
  BY DEF GoodNow

\* The variables the signal path works on, as the record it works on.
LEMMA ObjectsAre == Objects = Rec(hs, mailbox, rv, page)
  BY DEF Objects, Rec

\* The record's fields become the variables.
LEMMA BecomesIs ==
  ASSUME NEW h, NEW m, NEW r, NEW p, Becomes(Rec(h, m, r, p))
  PROVE  hs' = h /\ mailbox' = m /\ rv' = r /\ page' = p
  BY DEF Becomes, Rec

\* signal_locked as a step.
LEMMA SignalStep ==
  ASSUME IInv, NEW n \in Ntfn, NEW bits \in SUBSET Bit,
         Becomes(signal_locked(Objects, n, bits)),
         UNCHANGED <<threads, ntfns, pc, bound_notification>>
  PROVE  GoodNow(hs, mailbox, rv, page)' /\ NothingLost
<1>1. GoodNow(hs, mailbox, rv, page)
  BY DEF IInv
<1>2. PICK h2, m2, r2, p2 :
        /\ signal_locked(Rec(hs, mailbox, rv, page), n, bits) = Rec(h2, m2, r2, p2)
        /\ Signalled(threads, ntfns, pc, bound_notification, mailbox, page, n, bits,
                     h2, m2, r2, p2)
  BY <1>1, SignalLocked
<1>3. Becomes(Rec(h2, m2, r2, p2))
  BY <1>2, ObjectsAre
<1>4. hs' = h2 /\ mailbox' = m2 /\ rv' = r2 /\ page' = p2
  BY <1>3, BecomesIs
<1>5. GoodNow(hs', mailbox', rv', page') /\ Passed(threads, mailbox, page, mailbox', page')
  BY <1>2, <1>4 DEF Signalled, GoodNow
<1> QED BY <1>5, GoodNext, PassedLosesNothing

\* SIGNAL.
LEMMA SignalAction ==
  ASSUME IInv, NEW t \in Thread, NEW n \in Ntfn, NEW bits \in SUBSET Bit,
         notification_signal(t, n, bits)
  PROVE  IInv' /\ NothingLost
<1>1. /\ Becomes(signal_locked(Objects, n, bits)) /\ got' = {}
      /\ UNCHANGED <<threads, pc, bound_notification, killed, ntfns, timeVars>>
  BY DEF notification_signal
<1>2. GoodNow(hs, mailbox, rv, page)' /\ NothingLost
  BY <1>1, SignalStep
<1>3. RestTyped' /\ TimeTyped' /\ EarliestIsLowerBound'
  BY <1>1, RestSame, TimeSame
<1> QED BY <1>2, <1>3 DEF IInv

\* What the objects' part of the invariant needs from a step of the timers alone.
LEMMA ObjectsSame ==
  ASSUME IInv, UNCHANGED <<threads, pc, bound_notification, killed, ntfns, objVars>>, got' = {}
  PROVE  GoodNow(hs, mailbox, rv, page)' /\ RestTyped' /\ NothingLost
<1>1. UNCHANGED <<hs, mailbox, rv, page>>
  BY DEF objVars
<1>2. GoodNow(hs, mailbox, rv, page)' /\ RestTyped'
  BY <1>1, RestSame DEF IInv, GoodNow
<1>3. NothingLost
  BY <1>1, SameLosesNothing
<1> QED BY <1>2, <1>3

\* Disarming timers leaves the cache a lower bound.
LEMMA Disarms ==
  ASSUME IInv, NEW a \in [Timer -> Armed \cup {Disarmed}],
         \A k \in Timer : a[k] = armed[k] \/ a[k] = Disarmed
  PROVE  \A k \in timers : earliest <= a[k].deadline
<1>1. /\ timers \subseteq Timer /\ earliest \in Time \cup {NEVER}
      /\ \A k \in timers : earliest <= armed[k].deadline
  BY DEF IInv, TimeTyped, EarliestIsLowerBound
<1>2. earliest <= Disarmed.deadline
  BY <1>1, NotificationsAssumption, SMT DEF Disarmed, NEVER, Time
<1> QED BY <1>1, <1>2

\* TIMER ARM.
LEMMA ArmAction ==
  ASSUME IInv, NEW t \in Thread, NEW k \in Timer, NEW d \in Time, NEW n \in Ntfn,
         NEW bits \in SUBSET Bit, timer_arm(t, k, d, n, bits)
  PROVE  IInv' /\ NothingLost
<1>1. /\ UNCHANGED <<threads, pc, bound_notification, killed, ntfns>> /\ got' = {}
      /\ UNCHANGED <<timers, now, seen, tick>> /\ n \in ntfns
  BY DEF timer_arm
<1>2. /\ timers \subseteq Timer /\ earliest \in Time \cup {NEVER}
      /\ armed \in [Timer -> Armed \cup {Disarmed}]
      /\ now \in Time /\ seen \in [Cpu -> Time \cup {NEVER}] /\ tick \in [Cpu -> BOOLEAN]
      /\ \A i \in timers : earliest <= armed[i].deadline
  BY DEF IInv, TimeTyped, EarliestIsLowerBound
<1>3. RestTyped'
  BY <1>1, RestSame
<1>4. CASE /\ armed' = [armed EXCEPT ![k] = [deadline |-> d, ntfn |-> n, bits |-> bits]]
           /\ earliest' = lowered(earliest, d)
           /\ UNCHANGED objVars
  <2>1. PICK x : x = [deadline |-> d, ntfn |-> n, bits |-> bits]
    OBVIOUS
  <2>2. x \in Armed /\ x.deadline = d
    BY <2>1 DEF Armed
  <2>3. /\ armed' \in [Timer -> Armed \cup {Disarmed}] /\ armed'[k] = x
        /\ \A i \in Timer : i # k => armed'[i] = armed[i]
    BY <1>2, <1>4, <2>1, <2>2
  <2>4. earliest' \in Time \cup {NEVER} /\ earliest' <= d /\ earliest' <= earliest
    BY <1>2, <1>4, NotificationsAssumption, SMT DEF lowered, Time, NEVER
  <2>5. \A i \in timers : armed[i].deadline \in Int
    <3>1. \A y \in Armed \cup {Disarmed} : y.deadline \in Int
      BY NotificationsAssumption, SMT DEF Armed, Disarmed, Time, NEVER
    <3> QED BY <1>2, <3>1
  <2>6. ASSUME NEW i \in timers PROVE earliest' <= armed'[i].deadline
    <3>1. CASE i = k BY <3>1, <2>2, <2>3, <2>4
    <3>2. CASE i # k
      <4>1. armed'[i] = armed[i] /\ earliest <= armed[i].deadline
        BY <3>2, <2>3, <1>2
      <4>2. earliest \in Int /\ earliest' \in Int
        BY <1>2, <2>4, NotificationsAssumption, SMT DEF Time, NEVER
      <4> QED BY <4>1, <4>2, <2>4, <2>5, SMT
    <3> QED BY <3>1, <3>2
  <2>7. TimeTyped' /\ EarliestIsLowerBound'
    BY <1>1, <1>2, <2>3, <2>4, <2>6 DEF TimeTyped, EarliestIsLowerBound
  <2>8. GoodNow(hs, mailbox, rv, page)' /\ NothingLost
    BY <1>1, <1>4, ObjectsSame
  <2> QED BY <1>3, <2>7, <2>8 DEF IInv
<1>5. CASE /\ armed' = [armed EXCEPT ![k] = Disarmed]
           /\ Becomes(signal_locked(Objects, n, bits))
           /\ UNCHANGED earliest
  <2>1. /\ armed' \in [Timer -> Armed \cup {Disarmed}]
        /\ \A i \in Timer : armed'[i] = armed[i] \/ armed'[i] = Disarmed
    BY <1>2, <1>5
  <2>2. \A i \in timers : earliest <= armed'[i].deadline
    BY <2>1, Disarms
  <2>3. TimeTyped' /\ EarliestIsLowerBound'
    BY <1>1, <1>2, <1>5, <2>1, <2>2 DEF TimeTyped, EarliestIsLowerBound
  <2>4. GoodNow(hs, mailbox, rv, page)' /\ NothingLost
    BY <1>1, <1>5, SignalStep
  <2> QED BY <1>3, <2>3, <2>4 DEF IInv
<1> QED BY <1>4, <1>5 DEF timer_arm

\* TIMER CANCEL.
LEMMA CancelAction ==
  ASSUME IInv, NEW t \in Thread, NEW k \in Timer, timer_cancel(t, k)
  PROVE  IInv' /\ NothingLost
<1>1. /\ UNCHANGED <<threads, pc, bound_notification, killed, ntfns, objVars>> /\ got' = {}
      /\ UNCHANGED <<timers, now, earliest, seen, tick>>
      /\ armed' = [armed EXCEPT ![k] = Disarmed]
  BY DEF timer_cancel
<1>2. armed \in [Timer -> Armed \cup {Disarmed}]
  BY DEF IInv, TimeTyped
<1>3. /\ armed' \in [Timer -> Armed \cup {Disarmed}]
      /\ \A i \in Timer : armed'[i] = armed[i] \/ armed'[i] = Disarmed
  BY <1>1, <1>2
<1>4. \A i \in timers : earliest <= armed'[i].deadline
  BY <1>3, Disarms
<1>5. TimeTyped' /\ EarliestIsLowerBound'
  BY <1>1, <1>3, <1>4 DEF IInv, TimeTyped, EarliestIsLowerBound
<1>6. GoodNow(hs, mailbox, rv, page)' /\ RestTyped' /\ NothingLost
  BY <1>1, ObjectsSame
<1> QED BY <1>5, <1>6 DEF IInv

\* Time passes.
LEMMA ClockAction ==
  ASSUME IInv, Clock
  PROVE  IInv' /\ NothingLost
<1>1. /\ UNCHANGED <<threads, pc, bound_notification, killed, ntfns, objVars>> /\ got' = {}
      /\ UNCHANGED <<timers, armed, earliest, seen, tick>>
      /\ now < MaxTime /\ now' = now + 1
  BY DEF Clock
<1>2. now \in Time
  BY DEF IInv, TimeTyped
<1>3. now' \in Time
  BY <1>1, <1>2, NotificationsAssumption, SMT DEF Time
<1>4. TimeTyped' /\ EarliestIsLowerBound'
  BY <1>1, <1>3 DEF IInv, TimeTyped, EarliestIsLowerBound
<1>5. GoodNow(hs, mailbox, rv, page)' /\ RestTyped' /\ NothingLost
  BY <1>1, ObjectsSame
<1> QED BY <1>4, <1>5 DEF IInv

\* A core sees the cache, and takes a tick.
LEMMA TickActions ==
  ASSUME IInv, NEW c \in Cpu, Observe(c) \/ on_tick(c)
  PROVE  IInv' /\ NothingLost
<1>1. /\ UNCHANGED <<threads, pc, bound_notification, killed, ntfns, objVars>> /\ got' = {}
      /\ UNCHANGED <<timers, armed, earliest, now>>
      /\ \/ seen' = [seen EXCEPT ![c] = earliest] /\ tick' = tick
         \/ seen' = seen /\ tick' = [tick EXCEPT ![c] = TRUE]
  BY DEF Observe, on_tick
<1>2. /\ earliest \in Time \cup {NEVER} /\ seen \in [Cpu -> Time \cup {NEVER}]
      /\ tick \in [Cpu -> BOOLEAN]
  BY DEF IInv, TimeTyped
<1>3. seen' \in [Cpu -> Time \cup {NEVER}] /\ tick' \in [Cpu -> BOOLEAN]
  BY <1>1, <1>2
<1>4. TimeTyped' /\ EarliestIsLowerBound'
  BY <1>1, <1>3 DEF IInv, TimeTyped, EarliestIsLowerBound
<1>5. GoodNow(hs, mailbox, rv, page)' /\ RestTyped' /\ NothingLost
  BY <1>1, ObjectsSame
<1> QED BY <1>4, <1>5 DEF IInv

\* What the walk stores in the cache is a lower bound of what it leaves armed.
LEMMA EarliestOf ==
  ASSUME timers \subseteq Timer, NEW a \in [Timer -> Armed \cup {Disarmed}]
  PROVE  /\ earliest_of(a) \in Time \cup {NEVER}
         /\ \A k \in timers : earliest_of(a) <= a[k].deadline
<1> DEFINE S == {NEVER} \cup {a[k].deadline : k \in timers}
<1>1. \A y \in Armed \cup {Disarmed} : y.deadline \in Time \cup {NEVER}
  BY SMT DEF Armed, Disarmed
<1>2. S \subseteq Time \cup {NEVER}
  BY <1>1
<1>3. Time \cup {NEVER} \subseteq Nat
  BY NotificationsAssumption, SMT DEF Time, NEVER
<1>4. S \in SUBSET Nat /\ S # {}
  BY <1>2, <1>3
<1>5. \A k \in timers : a[k].deadline \in S
  OBVIOUS
<1> HIDE DEF S
<1>6. \E x \in S : \A y \in S : x <= y
  BY <1>4, Smallest
<1>7. PICK x : x = Min(S)
  OBVIOUS
<1>8. x \in S /\ \A y \in S : x <= y
  BY <1>6, <1>7 DEF Min
<1>9. earliest_of(a) = x
  BY <1>7 DEF S, earliest_of
<1> QED BY <1>2, <1>5, <1>8, <1>9

\* What a walk owes the timers that are due.
Expired ==
    \A k \in timers, n \in ntfns : armed[k].deadline <= now /\ armed[k].ntfn = n
        => armed[k].bits \subseteq Pending(n)'

\* The walk of expire_timers.
LEMMA ExpireAction ==
  ASSUME IInv, NEW c \in Cpu, expire_timers(c)
  PROVE  IInv' /\ NothingLost /\ Expired
<1> DEFINE due == {k \in timers : armed[k].deadline <= now}
           left == [k \in Timer |-> IF k \in timers /\ armed[k].deadline <= now
                                    THEN Disarmed ELSE armed[k]]
<1>1. /\ UNCHANGED <<threads, pc, bound_notification, killed, ntfns>> /\ got' = {}
      /\ UNCHANGED <<timers, now>>
      /\ Becomes(expire_due(Objects, armed))
      /\ armed' = left /\ earliest' = earliest_of(left)
      /\ seen' = [seen EXCEPT ![c] = earliest_of(left)]
      /\ tick' = [tick EXCEPT ![c] = FALSE]
  BY DEF expire_timers
<1>2. /\ timers \subseteq Timer /\ armed \in [Timer -> Armed \cup {Disarmed}]
      /\ now \in Time /\ seen \in [Cpu -> Time \cup {NEVER}] /\ tick \in [Cpu -> BOOLEAN]
      /\ GoodNow(hs, mailbox, rv, page)
  BY DEF IInv, TimeTyped
<1>3. left \in [Timer -> Armed \cup {Disarmed}]
  BY <1>2
<1>4. earliest' \in Time \cup {NEVER} /\ \A k \in timers : earliest' <= armed'[k].deadline
  <2> HIDE DEF left
  <2> QED BY <1>1, <1>2, <1>3, EarliestOf
<1>5. seen' \in [Cpu -> Time \cup {NEVER}] /\ tick' \in [Cpu -> BOOLEAN]
  <2>1. seen' = [seen EXCEPT ![c] = earliest']
    BY <1>1
  <2> QED BY <1>1, <1>2, <1>4, <2>1
<1>6. TimeTyped' /\ EarliestIsLowerBound'
  BY <1>1, <1>2, <1>3, <1>4, <1>5 DEF TimeTyped, EarliestIsLowerBound
<1>7. \A k \in due : armed[k].ntfn \in Ntfn /\ armed[k].bits \in SUBSET Bit
  <2>1. \A y \in Armed : y.ntfn \in Ntfn /\ y.bits \in SUBSET Bit
    BY DEF Armed
  <2>2. ~(Disarmed.deadline <= now)
    BY <1>2, NotificationsAssumption, SMT DEF Disarmed, NEVER, Time
  <2> QED BY <1>2, <2>1, <2>2
<1>8. IsFiniteSet(timers)
  BY <1>2, NotificationsAssumption, FS_Subset
<1>9. due \in SUBSET timers
  OBVIOUS
<1>10. expire_due(Objects, armed) = Walk(Rec(hs, mailbox, rv, page), armed)[due]
  BY WalkIs, ObjectsAre
<1> HIDE DEF due
<1>11. WalksTo(hs, mailbox, rv, page, armed, due)
  BY <1>2, <1>7, <1>8, <1>9, WalkDelivers
<1>12. PICK h2, m2, r2, p2 :
          /\ Walk(Rec(hs, mailbox, rv, page), armed)[due] = Rec(h2, m2, r2, p2)
          /\ Walked(mailbox, page, armed, due, h2, m2, r2, p2)
  BY <1>11 DEF WalksTo
<1>13. hs' = h2 /\ mailbox' = m2 /\ rv' = r2 /\ page' = p2
  <2>1. Becomes(Rec(h2, m2, r2, p2))
    BY <1>1, <1>10, <1>12
  <2> QED BY <2>1, BecomesIs
<1>14. /\ GoodNow(hs', mailbox', rv', page') /\ Passed(threads, mailbox, page, mailbox', page')
       /\ \A k \in due : armed[k].ntfn \in ntfns =>
             armed[k].bits \subseteq PendIn(threads, mailbox', page', armed[k].ntfn)
  BY <1>12, <1>13 DEF Walked
<1>15. GoodNow(hs, mailbox, rv, page)' /\ NothingLost
  BY <1>1, <1>14, GoodNext, PassedLosesNothing
<1>16. RestTyped'
  BY <1>1, RestSame
<1>17. Expired
  BY <1>1, <1>14, PendingIs DEF Expired, due
<1> QED BY <1>6, <1>15, <1>16, <1>17 DEF IInv

\* A program takes the word of n.
LEMMA TakeStep ==
  ASSUME IInv, NEW n \in Ntfn, page' = Emptied(page, n), got' = {n} \X page[n].word,
         UNCHANGED <<threads, hs, pc, mailbox, bound_notification, killed, rv, ntfns, timeVars>>
  PROVE  IInv' /\ NothingLost
<1>1. Good(threads, ntfns, pc, bound_notification, hs, mailbox, rv, page)
  BY DEF IInv, GoodNow
<1>2. /\ Good(threads, ntfns, pc, bound_notification, hs, mailbox, rv, page')
      /\ \A k \in Ntfn : \A x \in PendIn(threads, mailbox, page, k)
                                    \ PendIn(threads, mailbox, page', k) :
            k = n /\ x \in page[n].word
  BY <1>1, Takes
<1>3. GoodNow(hs, mailbox, rv, page)'
  BY <1>2 DEF GoodNow
<1>4. got' \subseteq Ntfn \X Bit
  <2>1. page[n].word \in SUBSET Bit
    BY <1>1, PageFields DEF Good, Typed, PTyped
  <2> QED BY <2>1
<1>5. RestTyped' /\ TimeTyped' /\ EarliestIsLowerBound'
  BY <1>4, RestSame, TimeSame
<1>6. NothingLost
  <2>1. ASSUME NEW k \in ntfns \cap ntfns', NEW b \in Pending(k) \ Pending(k)'
        PROVE  <<k, b>> \in got'
    <3>1. k \in Ntfn
      BY <1>1 DEF Good
    <3>2. /\ b \in PendIn(threads, mailbox, page, k)
          /\ b \notin PendIn(threads, mailbox, page', k)
      BY PendingIs
    <3>3. k = n /\ b \in page[n].word
      BY <1>2, <3>1, <3>2
    <3> QED BY <3>3
  <2> QED BY <2>1 DEF NothingLost
<1> QED BY <1>3, <1>5, <1>6 DEF IInv

\* A thread in user mode parks at w in call y.
LEMMA ParkStep ==
  ASSUME IInv, NEW t \in threads, hs[t].state = "Running", pc[t] = "user", NEW w \in Wait,
         NEW y \in {"wait", "receive", "send"},
         RTyped(rv'), PTyped(page'), Joined(t, w, rv, page, rv', page'),
         Told(ntfns, rv', page'), \A k \in Ntfn : /\ page'[k].word = page[k].word
                                                 /\ page'[k].bound = page[k].bound,
         hs' = Update(hs, t, park(hs[t], w)), pc' = Update(pc, t, y), got' = {},
         UNCHANGED <<threads, mailbox, bound_notification, killed, ntfns, timeVars>>
  PROVE  IInv' /\ NothingLost
<1>1. Good(threads, ntfns, pc, bound_notification, hs, mailbox, rv, page)
  BY DEF IInv, GoodNow
<1>2. /\ pc \in [Thread -> {"user", "wait", "receive", "send"}] /\ killed \subseteq Thread
      /\ bound_notification \in [Thread -> Ntfn \cup {NoNtfn}]
  BY DEF IInv, RestTyped
<1>3. Coupled(threads, ntfns, bound_notification, page')
  <2>1. ntfns \subseteq Ntfn /\ Coupled(threads, ntfns, bound_notification, page)
    BY <1>1 DEF Good
  <2> QED BY <2>1 DEF Coupled
<1>4. y # "user"
  OBVIOUS
<1>5. Good(threads, ntfns, pc', bound_notification, hs', mailbox, rv', page')
  BY <1>1, <1>2, <1>3, <1>4, Parks
<1>6. GoodNow(hs, mailbox, rv, page)'
  BY <1>5 DEF GoodNow
<1>7. t \in Thread
  BY <1>1 DEF Good
<1>8. RestTyped'
  <2>1. pc' \in [Thread -> {"user", "wait", "receive", "send"}]
    BY <1>2, <1>7 DEF Update
  <2> QED BY <1>2, <2>1 DEF RestTyped
<1>9. Passed(threads, mailbox, page, mailbox', page')
  BY DEF Passed, PendIn
<1> QED BY <1>6, <1>8, <1>9, TimeSame, PassedLosesNothing DEF IInv

\* WAIT.
LEMMA WaitAction ==
  ASSUME IInv, NEW t \in Thread, NEW n \in Ntfn, notification_wait(t, n)
  PROVE  IInv' /\ NothingLost
<1>1. /\ t \in threads /\ hs[t].state = "Running" /\ pc[t] = "user"
      /\ UNCHANGED <<threads, mailbox, bound_notification, killed, rv, ntfns, timeVars>>
  BY DEF notification_wait, InUser
<1>2. CASE /\ page' = [page EXCEPT ![n].word = {}] /\ Hand(n, page[n].word)
           /\ UNCHANGED <<hs, pc>>
  <2>1. page' = Emptied(page, n) /\ got' = {n} \X page[n].word
    BY <1>2 DEF Emptied, Update, Hand
  <2> QED BY <1>1, <1>2, <2>1, TakeStep
<1>3. CASE /\ page' = [page EXCEPT ![n].waiters = Append(@, t)]
           /\ hs' = [hs EXCEPT ![t] = park(@, [on |-> n, role |-> "Waiter"])]
           /\ pc' = [pc EXCEPT ![t] = "wait"]
           /\ got' = {}
  <2>1. /\ page' = LastWaiting(page, n, t) /\ pc' = Update(pc, t, "wait")
        /\ hs' = Update(hs, t, park(hs[t], WaitAt(n, "Waiter")))
    BY <1>3 DEF LastWaiting, Update, WaitAt
  <2>2. /\ RTyped(rv) /\ PTyped(page) /\ Linked(threads, hs, rv, page)
        /\ Told(ntfns, rv, page) /\ ntfns \subseteq Ntfn
    BY DEF IInv, GoodNow, Good, Typed
  <2>3. ~Asleep(hs[t])
    BY <1>1 DEF Asleep
  <2>4. t \notin Range(page[n].waiters)
    BY <2>2, <2>3, Awake
  <2>5. /\ PTyped(page') /\ Joined(t, WaitAt(n, "Waiter"), rv, page, rv, page')
        /\ \A k \in Ntfn : page'[k].word = page[k].word /\ page'[k].bound = page[k].bound
    BY <2>1, <2>2, <2>4, LastWaitingIs
  <2>6. Told(ntfns, rv', page')
    BY <1>1, <2>2, <2>5 DEF Told
  <2>7. WaitAt(n, "Waiter") \in Wait /\ "wait" \in {"wait", "receive", "send"}
    BY DEF WaitAt, Wait
  <2> QED BY <1>1, <1>3, <2>1, <2>2, <2>5, <2>6, <2>7, ParkStep
<1> QED BY <1>2, <1>3 DEF notification_wait

\* POLL.
LEMMA PollAction ==
  ASSUME IInv, NEW t \in Thread, NEW n \in Ntfn, notification_poll(t, n)
  PROVE  IInv' /\ NothingLost
<1>1. page' = Emptied(page, n) /\ got' = {n} \X page[n].word
  BY DEF notification_poll, Emptied, Update, Hand
<1>2. UNCHANGED <<threads, hs, pc, mailbox, bound_notification, killed, rv, ntfns, timeVars>>
  BY DEF notification_poll
<1> QED BY <1>1, <1>2, TakeStep

\* The first thread of a queue of e is delivered x; the queue has lost it.
LEMMA DeliverStep ==
  ASSUME IInv, NEW s \in Thread, s \in threads, Asleep(hs[s]), NEW x \in ProperMail,
         RTyped(rv'), Lose({s}, rv, page, rv', page),
         hs' = Wake(hs, s), mailbox' = Update(mailbox, s, x), got' = {},
         UNCHANGED <<threads, pc, bound_notification, killed, ntfns, page, timeVars>>
  PROVE  IInv' /\ NothingLost
<1>1. Good(threads, ntfns, pc, bound_notification, hs, mailbox, rv, page)
  BY DEF IInv, GoodNow
<1>2. /\ threads \subseteq Thread /\ ntfns \subseteq Ntfn /\ mailbox \in [Thread -> ProperMail]
      /\ PTyped(page) /\ Told(ntfns, rv, page)
      /\ Coupled(threads, ntfns, bound_notification, page)
  BY <1>1 DEF Good, Typed
<1>3. Milder(page, page)
  BY DEF Milder
<1>4. Told(ntfns, rv', page) /\ Coupled(threads, ntfns, bound_notification, page)
  BY <1>2, <1>3, StillTold
<1>5. Good(threads, ntfns, pc, bound_notification, hs', mailbox', rv', page)
  BY <1>1, <1>2, <1>4, Delivered DEF Wake
<1>6. GoodNow(hs, mailbox, rv, page)'
  BY <1>5 DEF GoodNow
<1>7. mailbox[s] = NoMail
  BY <1>1, SleeperIs, SMT
<1>8. \A n \in Ntfn : page[n].word \ page[n].word = {}
  OBVIOUS
<1>9. Passed(threads, mailbox, page, mailbox', page')
  BY <1>2, <1>7, <1>8, Handed
<1> QED BY <1>6, <1>9, RestSame, TimeSame, PassedLosesNothing DEF IInv

\* RECEIVE.
LEMMA ReceiveAction ==
  ASSUME IInv, NEW t \in Thread, NEW e \in Ep, ipc_receive(t, e)
  PROVE  IInv' /\ NothingLost
<1>1. /\ t \in threads /\ hs[t].state = "Running" /\ pc[t] = "user"
      /\ UNCHANGED <<threads, mailbox, bound_notification, killed, ntfns, timeVars>>
  BY DEF ipc_receive, InUser
<1>2. /\ RTyped(rv) /\ PTyped(page) /\ HTyped(hs) /\ mailbox \in [Thread -> ProperMail]
      /\ Linked(threads, hs, rv, page) /\ Told(ntfns, rv, page)
      /\ Coupled(threads, ntfns, bound_notification, page)
      /\ ntfns \subseteq Ntfn /\ threads \subseteq Thread
  BY DEF IInv, GoodNow, Good, Typed
<1>3. CASE /\ BoundWord(t) # {}
           /\ page' = [page EXCEPT ![bound_notification[t]].word = {}]
           /\ Hand(bound_notification[t], BoundWord(t))
           /\ UNCHANGED <<rv, hs, pc>>
  <2>1. PICK n : n = bound_notification[t]
    OBVIOUS
  <2>2. n \in ntfns /\ BoundWord(t) = page[n].word
    BY <1>3, <2>1 DEF BoundWord
  <2>3. page' = Emptied(page, n) /\ got' = {n} \X page[n].word
    BY <1>3, <2>1, <2>2 DEF Emptied, Update, Hand
  <2> QED BY <1>1, <1>2, <1>3, <2>2, <2>3, TakeStep
<1>4. rv[e] \in RendezvousOf(Thread, 0)
  BY <1>2 DEF RTyped
<1>5. CASE /\ BoundWord(t) = {} /\ rv' = [rv EXCEPT ![e] = receive(@, t)]
           /\ ReceiveVerdict(rv[e]) = "FromSender"
           /\ hs' = [hs EXCEPT ![Head(rv[e].senders)] = try_wake(serve(@))]
           /\ got' = {} /\ UNCHANGED <<page, pc>>
  <2>1. rv[e].senders # <<>> /\ receive(rv[e], t) = [rv[e] EXCEPT !.senders = Tail(@)]
    BY <1>5 DEF ReceiveVerdict, receive
  <2>2. rv' = FirstSent(rv, e)
    BY <1>5, <2>1 DEF FirstSent, Update
  <2>3. PICK s : s = Head(rv[e].senders)
    OBVIOUS
  <2>4. /\ s \in Thread /\ s \in threads /\ Asleep(hs[s])
        /\ RTyped(rv') /\ Lose({s}, rv, page, rv', page)
    BY <1>2, <2>1, <2>2, <2>3, FirstSentIs
  <2>5. hs' = Wake(hs, s)
    BY <1>5, <2>3 DEF Wake, Update
  <2>6. PICK x : x = mailbox[s]
    OBVIOUS
  <2>7. x \in ProperMail /\ mailbox' = Update(mailbox, s, x)
    BY <1>1, <1>2, <2>4, <2>6 DEF Update
  <2> QED BY <1>1, <1>5, <2>4, <2>5, <2>7, DeliverStep
<1>6. CASE /\ BoundWord(t) = {} /\ rv' = [rv EXCEPT ![e] = receive(@, t)]
           /\ ReceiveVerdict(rv[e]) = "Blocked"
           /\ hs' = [hs EXCEPT ![t] = park(@, [on |-> e, role |-> "Receiver"])]
           /\ pc' = [pc EXCEPT ![t] = "receive"]
           /\ got' = {} /\ UNCHANGED page
  <2>1. receive(rv[e], t) = [rv[e] EXCEPT !.receivers = Append(@, t)]
    BY <1>6 DEF receive
  <2>2. /\ rv' = LastReceived(rv, e, t) /\ pc' = Update(pc, t, "receive")
        /\ hs' = Update(hs, t, park(hs[t], WaitAt(e, "Receiver")))
    BY <1>6, <2>1 DEF LastReceived, Update, WaitAt
  <2>3. ~Asleep(hs[t])
    BY <1>1 DEF Asleep
  <2>4. t \notin Range(rv[e].receivers)
    BY <1>2, <2>3, Awake
  <2>5. /\ RTyped(rv') /\ Joined(t, WaitAt(e, "Receiver"), rv, page, rv', page)
        /\ \A f \in Ep : \A u \in Range(rv'[f].receivers) : u \in Range(rv[f].receivers) \/ u = t
    BY <1>2, <2>2, <2>4, LastReceivedIs
  <2>6. Told(ntfns, rv', page)
    <3> SUFFICES ASSUME NEW n \in ntfns, NEW f \in Ep, page[n].word # {},
                        page[n].bound \in Range(rv'[f].receivers)
                 PROVE  FALSE
      BY DEF Told
    <3>1. page[n].bound \notin Range(rv[f].receivers)
      BY <1>2 DEF Told
    <3>2. page[n].bound = t
      BY <2>5, <3>1
    <3>3. bound_notification[t] = n
      BY <1>1, <1>2, <3>2 DEF Coupled
    <3> QED BY <1>6, <3>3 DEF BoundWord
  <2>7. WaitAt(e, "Receiver") \in Wait /\ "receive" \in {"wait", "receive", "send"}
    BY DEF WaitAt, Wait
  <2>8. page' = page
    BY <1>6
  <2> QED BY <1>1, <1>2, <1>6, <2>2, <2>5, <2>6, <2>7, <2>8, ParkStep
<1> QED BY <1>3, <1>5, <1>6 DEF ipc_receive

\* SEND.
LEMMA SendAction ==
  ASSUME IInv, NEW t \in Thread, NEW e \in Ep, ipc_send(t, e)
  PROVE  IInv' /\ NothingLost
<1>1. /\ t \in threads /\ hs[t].state = "Running" /\ pc[t] = "user" /\ got' = {}
      /\ UNCHANGED <<threads, bound_notification, killed, ntfns, timeVars>>
  BY DEF ipc_send, InUser
<1>2. /\ RTyped(rv) /\ PTyped(page) /\ Linked(threads, hs, rv, page) /\ Told(ntfns, rv, page)
      /\ ntfns \subseteq Ntfn
  BY DEF IInv, GoodNow, Good, Typed
<1>3. CASE /\ SendVerdict(rv[e]) = "Rendezvous"
           /\ Becomes(Deliver([Objects EXCEPT !.rv[e] = send(@, t)],
                              Head(rv[e].receivers), Letter))
           /\ UNCHANGED pc
  <2>1. rv[e].receivers # <<>> /\ send(rv[e], t) = [rv[e] EXCEPT !.receivers = Tail(@)]
    BY <1>3 DEF SendVerdict, send
  <2>2. PICK s : s = Head(rv[e].receivers)
    OBVIOUS
  <2>3. [Objects EXCEPT !.rv[e] = send(@, t)] = Rec(hs, mailbox, FirstReceived(rv, e), page)
    <3>1. PICK o : o = Rec(hs, mailbox, rv, page)
      OBVIOUS
    <3>2. o.rv = rv
      BY <3>1, Field, SMT
    <3>3. [o EXCEPT !.rv[e] = send(@, t)] = [o EXCEPT !.rv = FirstReceived(rv, e)]
      BY <2>1, <3>2 DEF FirstReceived, Update
    <3>4. [o EXCEPT !.rv = FirstReceived(rv, e)] = Rec(hs, mailbox, FirstReceived(rv, e), page)
      BY <3>1, Field, SMT
    <3> QED BY <3>1, <3>3, <3>4, ObjectsAre
  <2>4. Becomes(Rec(Wake(hs, s), Update(mailbox, s, Letter), FirstReceived(rv, e), page))
    <3>1. Deliver(Rec(hs, mailbox, FirstReceived(rv, e), page), s, Letter)
            = Rec(Wake(hs, s), Update(mailbox, s, Letter), FirstReceived(rv, e), page)
      BY DeliverIs, SMT
    <3> QED BY <1>3, <2>2, <2>3, <3>1
  <2>5. /\ hs' = Wake(hs, s) /\ mailbox' = Update(mailbox, s, Letter)
        /\ rv' = FirstReceived(rv, e) /\ page' = page
    BY <2>4, BecomesIs
  <2>6. /\ s \in Thread /\ s \in threads /\ Asleep(hs[s])
        /\ RTyped(rv') /\ Lose({s}, rv, page, rv', page)
    BY <1>2, <2>1, <2>2, <2>5, FirstReceivedIs
  <2> QED BY <1>1, <1>3, <2>5, <2>6, LetterIs, DeliverStep
<1>4. CASE /\ SendVerdict(rv[e]) = "Blocked"
           /\ rv' = [rv EXCEPT ![e] = send(@, t)]
           /\ hs' = [hs EXCEPT ![t] = park(@, [on |-> e, role |-> "Sender"])]
           /\ pc' = [pc EXCEPT ![t] = "send"]
           /\ UNCHANGED <<mailbox, page>>
  <2>1. send(rv[e], t) = [rv[e] EXCEPT !.senders = Append(@, t)]
    BY <1>4 DEF send
  <2>2. /\ rv' = LastSent(rv, e, t) /\ pc' = Update(pc, t, "send")
        /\ hs' = Update(hs, t, park(hs[t], WaitAt(e, "Sender")))
    BY <1>4, <2>1 DEF LastSent, Update, WaitAt
  <2>3. ~Asleep(hs[t])
    BY <1>1 DEF Asleep
  <2>4. t \notin Range(rv[e].senders)
    BY <1>2, <2>3, Awake
  <2>5. /\ RTyped(rv') /\ Joined(t, WaitAt(e, "Sender"), rv, page, rv', page)
        /\ \A f \in Ep : rv'[f].receivers = rv[f].receivers
    BY <1>2, <2>2, <2>4, LastSentIs
  <2>6. Told(ntfns, rv', page)
    BY <1>2, <2>5 DEF Told
  <2>7. WaitAt(e, "Sender") \in Wait /\ "send" \in {"wait", "receive", "send"}
    BY DEF WaitAt, Wait
  <2>8. page' = page /\ mailbox' = mailbox
    BY <1>4
  <2> QED BY <1>1, <1>2, <1>4, <2>2, <2>5, <2>6, <2>7, <2>8, ParkStep
<1> QED BY <1>3, <1>4 DEF ipc_send

\* A blocked call returns.
LEMMA ReturnAction ==
  ASSUME IInv, NEW t \in Thread, Return(t)
  PROVE  IInv' /\ NothingLost
<1>1. /\ t \in threads /\ hs[t].state = "Running" /\ pc[t] # "user"
      /\ pc' = Update(pc, t, "user") /\ hs' = Update(hs, t, take_aborted(hs[t]))
      /\ mailbox' = Update(mailbox, t, NoMail)
      /\ got' = IF hs[t].ipc_aborted THEN {} ELSE {mailbox[t].ntfn} \X mailbox[t].bits
      /\ UNCHANGED <<threads, bound_notification, killed, rv, ntfns, page, timeVars>>
  BY DEF Return, Update
<1>2. Good(threads, ntfns, pc, bound_notification, hs, mailbox, rv, page)
  BY DEF IInv, GoodNow
<1>3. /\ HTyped(hs) /\ mailbox \in [Thread -> ProperMail] /\ threads \subseteq Thread
      /\ Mailed(threads, pc, hs, mailbox) /\ ntfns \subseteq Ntfn
  BY <1>2 DEF Good, Typed
<1>4. hs[t] \in HandshakeOf(Wait) /\ PendOk(hs[t])
  BY <1>3 DEF HTyped
<1>5. PICK x : x = take_aborted(hs[t])
  OBVIOUS
<1>6. /\ x \in HandshakeOf(Wait) /\ ~Asleep(x) /\ PendOk(x) /\ ~x.ipc_aborted
      /\ ~Asleep(hs[t])
  BY <1>1, <1>4, <1>5, Switched
<1>7. HTyped(hs') /\ hs'[t] = x /\ \A u \in Thread : u # t => hs'[u] = hs[u]
  <2>1. x \in HandshakeOf(Wait) /\ PendOk(x)
    BY <1>6
  <2>2. /\ HTyped(Update(hs, t, x)) /\ Update(hs, t, x)[t] = x
        /\ \A u \in Thread : u # t => Update(hs, t, x)[u] = hs[u]
    BY <1>3, <2>1, OneChanges
  <2> QED BY <1>1, <1>5, <2>2
<1>8. pc \in [Thread -> {"user", "wait", "receive", "send"}]
  BY DEF IInv, RestTyped
<1>9. /\ pc' \in [Thread -> {"user", "wait", "receive", "send"}] /\ pc'[t] = "user"
      /\ \A u \in Thread : u # t => pc'[u] = pc[u]
  BY <1>1, <1>8 DEF Update
<1>10. /\ mailbox' \in [Thread -> ProperMail] /\ mailbox'[t] = NoMail
       /\ \A u \in Thread : u # t => mailbox'[u] = mailbox[u]
  BY <1>1, <1>3, LetterIs DEF Update
<1>11. Others(t, pc, hs, mailbox, pc', hs', mailbox')
  BY <1>7, <1>9, <1>10 DEF Others
<1>12. MailedOne(pc'[t], hs'[t], mailbox'[t])
  BY <1>6, <1>7, <1>10 DEF MailedOne
<1>13. Good(threads, ntfns, pc', bound_notification, hs', mailbox', rv, page)
  BY <1>1, <1>2, <1>6, <1>7, <1>10, <1>11, <1>12, Moves
<1>14. GoodNow(hs, mailbox, rv, page)'
  BY <1>1, <1>13 DEF GoodNow
<1>15. got' \subseteq Ntfn \X Bit
  <2>1. mailbox[t] \in ProperMail
    BY <1>3
  <2>2. /\ mailbox[t].ntfn \in Ntfn \/ mailbox[t].bits = {}
        /\ mailbox[t].bits \in SUBSET Bit
    BY <2>1 DEF ProperMail, Mail
  <2> QED BY <1>1, <2>2
<1>16. RestTyped' /\ TimeTyped' /\ EarliestIsLowerBound'
  <2>1. UNCHANGED timeVars
    BY <1>1
  <2> QED BY <1>1, <1>9, <1>15, <2>1, TimeSame DEF IInv, RestTyped
<1>17. NothingLost
  <2>1. ASSUME NEW n \in ntfns \cap ntfns', NEW b \in Pending(n) \ Pending(n)'
        PROVE  <<n, b>> \in got'
    <3>1. /\ b \in PendIn(threads, mailbox, page, n)
          /\ b \notin PendIn(threads, mailbox', page, n)
      BY <1>1, PendingIs
    <3>2. b \notin page[n].word
      BY <3>1 DEF PendIn
    <3>3. PICK u \in threads : mailbox[u].ntfn = n /\ b \in mailbox[u].bits
      BY <3>1, <3>2 DEF PendIn
    <3>4. u = t
      <4>1. ASSUME u # t PROVE FALSE
        <5>1. mailbox'[u] = mailbox[u]
          BY <1>3, <1>10, <4>1
        <5> QED BY <3>1, <3>3, <5>1 DEF PendIn
      <4> QED BY <4>1
    <3>5. ~hs[t].ipc_aborted
      <4>1. mailbox[t] # NoMail
        BY <3>3, <3>4, SMT DEF NoMail
      <4> QED BY <1>1, <1>3, <4>1 DEF Mailed
    <3> QED BY <1>1, <3>3, <3>4, <3>5
  <2>2. ASSUME NEW u \in threads, mailbox'[u] # mailbox[u] PROVE u = t
    BY <1>3, <1>10, <2>2
  <2>3. \A u \in threads : mailbox'[u] # mailbox[u] => pc[u] # "user" /\ pc'[u] = "user"
    BY <1>1, <1>9, <2>2
  <2> QED BY <2>1, <2>3 DEF NothingLost
<1> QED BY <1>14, <1>16, <1>17 DEF IInv

\* A thread is switched in or out, or ended: its handshake becomes x.
LEMMA SwitchStep ==
  ASSUME IInv, NEW t \in Thread, t \in threads, NEW x \in HandshakeOf(Wait), PendOk(x),
         Asleep(x) <=> Asleep(hs[t]), Asleep(hs[t]) => x.wait_on = hs[t].wait_on,
         threads' = threads \/ (threads' = threads \ {t} /\ ~Asleep(hs[t])),
         threads' = threads => x.ipc_aborted = hs[t].ipc_aborted,
         hs' = Update(hs, t, x), got' = {},
         UNCHANGED <<pc, mailbox, bound_notification, killed, rv, ntfns, page, timeVars>>
  PROVE  IInv' /\ NothingLost
<1>1. Good(threads, ntfns, pc, bound_notification, hs, mailbox, rv, page)
  BY DEF IInv, GoodNow
<1>2. /\ HTyped(hs) /\ mailbox \in [Thread -> ProperMail] /\ threads \subseteq Thread
      /\ Mailed(threads, pc, hs, mailbox)
  BY <1>1 DEF Good, Typed
<1>3. HTyped(hs') /\ hs'[t] = x /\ \A u \in Thread : u # t => hs'[u] = hs[u]
  <2>1. /\ HTyped(Update(hs, t, x)) /\ Update(hs, t, x)[t] = x
        /\ \A u \in Thread : u # t => Update(hs, t, x)[u] = hs[u]
    BY <1>2, OneChanges
  <2> QED BY <2>1
<1>4. Others(t, pc, hs, mailbox, pc, hs', mailbox)
  BY <1>3 DEF Others
<1>5. t \in threads' => MailedOne(pc[t], hs'[t], mailbox[t])
  <2>1. ASSUME t \in threads' PROVE threads' = threads
    BY <2>1
  <2>2. MailedOne(pc[t], hs[t], mailbox[t])
    BY <1>2 DEF Mailed, MailedOne
  <2> QED BY <1>3, <2>1, <2>2 DEF MailedOne
<1>6. /\ Asleep(hs'[t]) <=> Asleep(hs[t])
      /\ Asleep(hs[t]) => hs'[t].wait_on = hs[t].wait_on
  BY <1>3
<1>7. Good(threads', ntfns, pc, bound_notification, hs', mailbox, rv, page)
  BY <1>1, <1>2, <1>3, <1>4, <1>5, <1>6, Moves
<1>8. GoodNow(hs, mailbox, rv, page)'
  BY <1>7 DEF GoodNow
<1> QED BY <1>8, RestSame, TimeSame, SameLosesNothing DEF IInv

\* schedule() ends a killed thread; finish_switch; dispatch.
LEMMA SwitchActions ==
  ASSUME IInv, NEW t \in Thread, finish_killed_current(t) \/ FinishSwitch(t) \/ Dispatch(t)
  PROVE  IInv' /\ NothingLost
<1>1. /\ t \in threads /\ got' = {}
      /\ UNCHANGED <<pc, mailbox, bound_notification, killed, rv, ntfns, page, timeVars>>
  BY DEF finish_killed_current, FinishSwitch, Dispatch
<1>2. hs[t] \in HandshakeOf(Wait) /\ PendOk(hs[t])
  BY DEF IInv, GoodNow, Good, Typed, HTyped
<1>3. CASE finish_killed_current(t)
  <2>1. /\ hs[t].state = "Running" /\ hs' = Update(hs, t, [hs[t] EXCEPT !.state = "Finished"])
        /\ threads' = threads
    BY <1>3 DEF finish_killed_current, Update
  <2>2. PICK x : x = [hs[t] EXCEPT !.state = "Finished"]
    OBVIOUS
  <2>3. /\ x \in HandshakeOf(Wait) /\ ~Asleep(x) /\ PendOk(x)
        /\ x.ipc_aborted = hs[t].ipc_aborted /\ ~Asleep(hs[t])
    BY <1>2, <2>1, <2>2, Switched
  <2>4. hs' = Update(hs, t, x)
    BY <2>1, <2>2
  <2> QED BY <1>1, <2>1, <2>3, <2>4, SwitchStep
<1>4. CASE Dispatch(t)
  <2>1. /\ hs[t].state = "Ready" /\ hs' = Update(hs, t, switch_in(hs[t]))
        /\ threads' = threads
    BY <1>4 DEF Dispatch, Update
  <2>2. PICK x : x = switch_in(hs[t])
    OBVIOUS
  <2>3. /\ x \in HandshakeOf(Wait) /\ ~Asleep(x) /\ PendOk(x)
        /\ x.ipc_aborted = hs[t].ipc_aborted /\ ~Asleep(hs[t])
    BY <1>2, <2>1, <2>2, Switched
  <2>4. hs' = Update(hs, t, x)
    BY <2>1, <2>2
  <2> QED BY <1>1, <2>1, <2>3, <2>4, SwitchStep
<1>5. CASE FinishSwitch(t)
  <2>1. CASE SwitchOutVerdict(hs[t]) = "Reap"
    <3>1. threads' = threads \ {t} /\ hs' = Update(hs, t, embryo)
      BY <1>5, <2>1 DEF FinishSwitch, Update
    <3>2. ~Asleep(hs[t])
      BY <2>1 DEF SwitchOutVerdict, Asleep
    <3>3. embryo \in HandshakeOf(Wait) /\ ~Asleep(embryo) /\ PendOk(embryo)
      BY Ended
    <3>4. threads' # threads
      BY <1>1, <3>1
    <3> QED BY <1>1, <3>1, <3>2, <3>3, <3>4, SwitchStep
  <2>2. CASE SwitchOutVerdict(hs[t]) # "Reap"
    <3>1. threads' = threads /\ hs' = Update(hs, t, finish_switch(hs[t]))
      BY <1>5, <2>2 DEF FinishSwitch, Update
    <3>2. hs[t].state # "Finished"
      BY <2>2 DEF SwitchOutVerdict
    <3>3. PICK x : x = finish_switch(hs[t])
      OBVIOUS
    <3>4. /\ x \in HandshakeOf(Wait) /\ PendOk(x) /\ x.ipc_aborted = hs[t].ipc_aborted
          /\ (Asleep(x) <=> Asleep(hs[t])) /\ (Asleep(hs[t]) => x.wait_on = hs[t].wait_on)
      BY <1>2, <3>2, <3>3, Switched
    <3>5. hs' = Update(hs, t, x)
      BY <3>1, <3>3
    <3> QED BY <1>1, <3>1, <3>4, <3>5, SwitchStep
  <2> QED BY <2>1, <2>2
<1> QED BY <1>3, <1>4, <1>5

\* BIND.
LEMMA BindAction ==
  ASSUME IInv, NEW t \in Thread, NEW n \in Ntfn, NEW u \in Thread, notification_bind(t, n, u)
  PROVE  IInv' /\ NothingLost
<1>1. PICK p1 : p1 = BoundTo(page, n, u)
  OBVIOUS
<1>2. PICK s : s = Rec(hs, mailbox, rv, p1)
  OBVIOUS
<1>3. [Objects EXCEPT !.page[n].bound = u] = s
  <2>1. PICK o : o = Rec(hs, mailbox, rv, page)
    OBVIOUS
  <2>2. o.page = page
    BY <2>1, Field, SMT
  <2>3. [o EXCEPT !.page[n].bound = u] = [o EXCEPT !.page = p1]
    BY <1>1, <2>2 DEF BoundTo, Update
  <2>4. [o EXCEPT !.page = p1] = Rec(hs, mailbox, rv, p1)
    BY <2>1, Field, SMT
  <2> QED BY <1>2, <2>1, <2>3, <2>4, ObjectsAre
<1>4. PICK p2 : p2 = Emptied(p1, n)
  OBVIOUS
<1>5. [s EXCEPT !.page[n].word = {}] = Rec(hs, mailbox, rv, p2)
  <2>1. s.page = p1
    BY <1>2, Field, SMT
  <2>2. [s EXCEPT !.page[n].word = {}] = [s EXCEPT !.page = p2]
    BY <1>4, <2>1 DEF Emptied, Update
  <2>3. [s EXCEPT !.page = p2] = Rec(hs, mailbox, rv, p2)
    BY <1>2, Field, SMT
  <2> QED BY <2>2, <2>3
<1>6. /\ n \in ntfns /\ u \in threads /\ bound_notification[u] \notin ntfns
      /\ bound_notification' = Update(bound_notification, u, n)
      /\ got' = {} /\ UNCHANGED <<threads, pc, killed, ntfns, timeVars>>
  BY DEF notification_bind, MayBind, Update
<1>7. Becomes(IF page[n].word # {} /\ bound_receiver(s, n) # NoTid
              THEN deliver_bound(Rec(hs, mailbox, rv, p2), n, u, page[n].word)
              ELSE s)
  BY <1>3, <1>5 DEF notification_bind
<1>8. Good(threads, ntfns, pc, bound_notification, hs, mailbox, rv, page)
  BY DEF IInv, GoodNow
<1>9. /\ RTyped(rv) /\ PTyped(page) /\ HTyped(hs) /\ mailbox \in [Thread -> ProperMail]
      /\ Linked(threads, hs, rv, page) /\ ntfns \subseteq Ntfn /\ threads \subseteq Thread
  BY <1>8 DEF Good, Typed
<1>10. bound_notification \in [Thread -> Ntfn \cup {NoNtfn}]
  BY DEF IInv, RestTyped
<1>11. RestTyped' /\ TimeTyped' /\ EarliestIsLowerBound'
  <2>1. bound_notification' \in [Thread -> Ntfn \cup {NoNtfn}]
    BY <1>6, <1>10 DEF Update
  <2>2. UNCHANGED timeVars
    BY <1>6
  <2> QED BY <1>6, <2>1, <2>2, TimeSame DEF IInv, RestTyped
<1>12. /\ PTyped(p1) /\ p1[n].bound = u
       /\ \A k \in Ntfn : p1[k].waiters = page[k].waiters /\ p1[k].word = page[k].word
       /\ \A k \in Ntfn : k # n => p1[k] = page[k]
  BY <1>1, <1>9, BoundToIs, SMT
<1>13. Linked(threads, hs, rv, p1)
  BY <1>9, <1>12 DEF Linked
<1>14. PICK v : v = bound_receiver(s, n)
  OBVIOUS
<1>15. /\ v # NoTid => /\ v \in Thread /\ v \in threads /\ v = p1[n].bound /\ Asleep(hs[v])
                       /\ hs[v].wait_on # NoWait /\ hs[v].wait_on.role = "Receiver"
       /\ v = NoTid => \A e \in Ep : p1[n].bound \notin Range(rv[e].receivers)
  BY <1>2, <1>9, <1>12, <1>13, <1>14, BoundReceiverIs, SMT
<1>16. CASE ~(page[n].word # {} /\ v # NoTid)
  <2>1. Becomes(Rec(hs, mailbox, rv, p1))
    BY <1>2, <1>7, <1>14, <1>16
  <2>2. hs' = hs /\ mailbox' = mailbox /\ rv' = rv /\ page' = p1
    BY <2>1, BecomesIs
  <2>3. p1[n].word # {} => \A e \in Ep : u \notin Range(rv[e].receivers)
    BY <1>12, <1>15, <1>16
  <2>4. \A k \in Ntfn : p1[k].waiters = page[k].waiters
    BY <1>12
  <2>5. Good(threads, ntfns, pc, bound_notification', hs, mailbox, rv, p1)
    BY <1>6, <1>8, <1>10, <1>12, <2>3, <2>4, Binds, SMT
  <2>6. GoodNow(hs, mailbox, rv, page)'
    BY <1>6, <2>2, <2>5 DEF GoodNow
  <2>7. Passed(threads, mailbox, page, mailbox', page')
    <3>1. \A k \in Ntfn : PendIn(threads, mailbox, p1, k) = PendIn(threads, mailbox, page, k)
      BY <1>12 DEF PendIn
    <3> QED BY <2>2, <3>1 DEF Passed
  <2> QED BY <1>11, <2>6, <2>7, PassedLosesNothing DEF IInv
<1>17. CASE page[n].word # {} /\ v # NoTid
  <2>1. v = u
    BY <1>12, <1>15, <1>17
  <2>2. /\ PTyped(p2) /\ Milder(p1, p2) /\ p2[n].word = {}
        /\ \A k \in Ntfn : p2[k].waiters = p1[k].waiters
        /\ \A k \in Ntfn : k # n => p2[k] = p1[k]
    BY <1>4, <1>12, EmptiedIs, SMT
  <2>3. p2[n].bound = u
    BY <1>12, <2>2 DEF Milder
  <2>4. PICK b2 : b2 = bound_notification'
    OBVIOUS
  <2>5. Good(threads, ntfns, pc, b2, hs, mailbox, rv, p2)
    <3>1. /\ \A k \in Ntfn : p2[k].waiters = page[k].waiters
          /\ \A k \in Ntfn : k # n => p2[k] = page[k]
      BY <1>12, <2>2
    <3> QED BY <1>6, <1>8, <1>10, <2>2, <2>3, <2>4, <3>1, Binds, SMT
  <2>6. PICK bits : bits = page[n].word
    OBVIOUS
  <2>7. bits \in SUBSET Bit
    BY <1>9, <2>6, PageFields DEF PTyped
  <2>8. PICK r2 : r2 = Let(rv, hs[u].wait_on.on, u)
    OBVIOUS
  <2>9. /\ hs' = Wake(hs, u) /\ mailbox' = Update(mailbox, u, WordOf(n, bits))
        /\ rv' = r2 /\ page' = p2
    <3>1. deliver_bound(Rec(hs, mailbox, rv, p2), n, u, bits)
            = Rec(Wake(hs, u), Update(mailbox, u, WordOf(n, bits)), r2, p2)
      BY <2>8, DeliverBoundIs, SMT
    <3>2. Becomes(Rec(Wake(hs, u), Update(mailbox, u, WordOf(n, bits)), r2, p2))
      BY <1>7, <1>14, <1>17, <2>6, <3>1
    <3> QED BY <3>2, BecomesIs
  <2>10. p2[n].word \cup bits = bits /\ Emptied(p2, n) = p2
    <3>1. p2[n] \in Page /\ p2 \in [Ntfn -> Page]
      BY <2>2 DEF PTyped
    <3>2. [p2[n] EXCEPT !.word = {}] = p2[n]
      BY <2>2, <3>1 DEF Page
    <3>3. Update(p2, n, p2[n]) = p2
      BY <3>1 DEF Update
    <3> QED BY <2>2, <3>2, <3>3 DEF Emptied
  <2>11. Signalled(threads, ntfns, pc, b2, mailbox, p2, n, bits,
                   Wake(hs, u), Update(mailbox, u, WordOf(n, p2[n].word \cup bits)),
                   Let(rv, hs[u].wait_on.on, u), Emptied(p2, n))
    BY <1>15, <1>17, <2>1, <2>5, <2>7, BoundSignalled
  <2>12. Signalled(threads, ntfns, pc, b2, mailbox, p2, n, bits, hs', mailbox', rv', page')
    BY <2>8, <2>9, <2>10, <2>11
  <2>13. GoodNow(hs, mailbox, rv, page)'
    BY <1>6, <2>4, <2>12 DEF Signalled, GoodNow
  <2>14. Passed(threads, mailbox, page, mailbox', page')
    <3>1. /\ Passed(threads, mailbox, p2, mailbox', page')
          /\ bits \subseteq PendIn(threads, mailbox', page', n)
      BY <1>6, <2>12 DEF Signalled
    <3>2. ASSUME NEW k \in Ntfn, NEW x \in PendIn(threads, mailbox, page, k)
          PROVE  x \in PendIn(threads, mailbox', page', k)
      <4>1. x \in PendIn(threads, mailbox, p2, k) \/ (k = n /\ x \in bits)
        BY <1>12, <2>2, <2>6 DEF PendIn
      <4> QED BY <3>1, <4>1 DEF Passed
    <3> QED BY <3>1, <3>2 DEF Passed
  <2> QED BY <1>11, <2>13, <2>14, PassedLosesNothing DEF IInv
<1> QED BY <1>16, <1>17

\* drain_notifications and unlink, of each variable.
LEMMA DrainIs ==
  ASSUME NEW h, NEW m, NEW r, NEW p, NEW D, NEW W, W = Waiting(p, D)
  PROVE  drain_notifications(Rec(h, m, r, p), D) = Rec(Roused(h, W), m, r, GivenUp(p, D))
<1>1. PICK s : s = Rec(h, m, r, p)
  OBVIOUS
<1>2. s.hs = h /\ s.page = p
  BY <1>1, Field, SMT
<1>3. drain_notifications(s, D)
        = [[s EXCEPT !.hs = Roused(h, W)] EXCEPT !.page = GivenUp(p, D)]
  BY <1>2 DEF drain_notifications, Waiting, Roused, GivenUp, Blank
<1>4. [s EXCEPT !.hs = Roused(h, W)] = Rec(Roused(h, W), m, r, p)
  BY <1>1, Field, SMT
<1>5. [Rec(Roused(h, W), m, r, p) EXCEPT !.page = GivenUp(p, D)]
        = Rec(Roused(h, W), m, r, GivenUp(p, D))
  BY Field, SMT
<1> QED BY <1>1, <1>3, <1>4, <1>5

\* The unlinking and ending of the members of E, of each variable.
LEMMA EndIs ==
  ASSUME NEW h, NEW m, NEW r, NEW p, NEW E, NEW x
  PROVE  [unlink(Rec(h, m, r, p), E) EXCEPT !.hs = x]
           = Rec(x, m, RvWithout(r, E), PgWithout(p, E))
<1>1. PICK s : s = Rec(h, m, r, p)
  OBVIOUS
<1>2. s.rv = r /\ s.page = p
  BY <1>1, Field, SMT
<1>3. unlink(s, E) = [[s EXCEPT !.rv = RvWithout(r, E)] EXCEPT !.page = PgWithout(p, E)]
  BY <1>2 DEF unlink, RvWithout, PgWithout
<1>4. [s EXCEPT !.rv = RvWithout(r, E)] = Rec(h, m, RvWithout(r, E), p)
  BY <1>1, Field, SMT
<1>5. [Rec(h, m, RvWithout(r, E), p) EXCEPT !.page = PgWithout(p, E)]
        = Rec(h, m, RvWithout(r, E), PgWithout(p, E))
  BY Field, SMT
<1>6. [Rec(h, m, RvWithout(r, E), PgWithout(p, E)) EXCEPT !.hs = x]
        = Rec(x, m, RvWithout(r, E), PgWithout(p, E))
  BY Field, SMT
<1> QED BY <1>1, <1>3, <1>4, <1>5, <1>6

\* Nobody asleep is reaped.
LEMMA ReapIs ==
  ASSUME NEW x, RegionReap(x) = "Reap"
  PROVE  ~Asleep(x)
  BY DEF RegionReap, Asleep

\* reap_region_objects.
LEMMA ReapAction ==
  ASSUME IInv, NEW r \in Region, reap_region_objects(r)
  PROVE  IInv' /\ NothingLost
<1> DEFINE s1    == drain_notifications(Objects, ntfns \cap In[r])
           mine  == threads \cap In[r]
           ended == {t \in mine : RegionReap(s1.hs[t]) = "FinishInPlace"}
           s2    == [unlink(s1, ended) EXCEPT
                       !.hs = [t \in Thread |-> IF t \in ended
                                 THEN [s1.hs[t] EXCEPT !.state = "Finished", !.wait_on = NoWait]
                                 ELSE s1.hs[t]]]
           busy  == {t \in mine : RegionReap(s2.hs[t]) # "Reap"}
<1>1. /\ ntfns' = ntfns \ In[r]
      /\ timers' = timers \ In[r]
      /\ armed' = [k \in Timer |-> IF k \in In[r] THEN Disarmed ELSE armed[k]]
      /\ killed' = killed \cup ended \cup {t \in mine : RegionReap(s2.hs[t]) = "RefuseAndArm"}
      /\ got' = {} /\ UNCHANGED <<bound_notification, now, earliest, seen, tick>>
  BY DEF reap_region_objects
<1>2. \/ threads' = threads /\ Becomes(s2) /\ pc' = pc
      \/ /\ busy = {} /\ threads' = threads \ mine
         /\ Becomes([s2 EXCEPT
              !.hs = [t \in Thread |-> IF t \in mine THEN embryo ELSE s2.hs[t]],
              !.mailbox = [t \in Thread |-> IF t \in mine THEN NoMail ELSE mailbox[t]]])
         /\ pc' = [t \in Thread |-> IF t \in mine THEN "user" ELSE pc[t]]
  BY DEF reap_region_objects
<1>3. Good(threads, ntfns, pc, bound_notification, hs, mailbox, rv, page)
  BY DEF IInv, GoodNow
<1>4. threads \subseteq Thread /\ ntfns \subseteq Ntfn /\ PTyped(page)
  BY <1>3 DEF Good, Typed
<1>5. PICK D : D = ntfns \cap In[r]
  OBVIOUS
<1>6. D \in SUBSET Ntfn /\ ntfns \ D = ntfns'
  BY <1>1, <1>4, <1>5
<1>7. PICK W : W = Waiting(page, D)
  OBVIOUS
<1>8. PICK h1, p1 : h1 = Roused(hs, W) /\ p1 = GivenUp(page, D)
  OBVIOUS
<1>10. s1 = Rec(h1, mailbox, rv, p1)
  <2>1. drain_notifications(Rec(hs, mailbox, rv, page), D)
          = Rec(Roused(hs, W), mailbox, rv, GivenUp(page, D))
    BY <1>7, DrainIs, SMT
  <2> QED BY <1>5, <1>8, <2>1, ObjectsAre
<1>11. Good(threads, ntfns', pc, bound_notification, h1, mailbox, rv, p1)
  <2>1. Good(threads, ntfns \ D, pc, bound_notification, h1, mailbox, rv, p1)
    BY <1>3, <1>6, <1>7, <1>8, Drained
  <2> QED BY <1>6, <2>1
<1>12. s1.hs = h1
  BY <1>10, Field, SMT
<1>13. PICK E : E = ended
  OBVIOUS
<1>14. E \subseteq mine
  BY <1>13
<1>15. PICK h2, r2, p2 : h2 = EndedAll(h1, E) /\ r2 = RvWithout(rv, E) /\ p2 = PgWithout(p1, E)
  OBVIOUS
<1>18. s2 = Rec(h2, mailbox, r2, p2)
  <2> HIDE DEF s1, ended
  <2>1. s2 = [unlink(s1, E) EXCEPT !.hs = h2]
    BY <1>12, <1>13, <1>15 DEF EndedAll, Over
  <2>2. [unlink(Rec(h1, mailbox, rv, p1), E) EXCEPT !.hs = h2]
          = Rec(h2, mailbox, RvWithout(rv, E), PgWithout(p1, E))
    BY EndIs, SMT
  <2> QED BY <1>10, <1>15, <2>1, <2>2
<1>19. Good(threads, ntfns', pc, bound_notification, h2, mailbox, r2, p2)
  BY <1>11, <1>15, EndsAll
<1>20. s2.hs = h2
  <2> HIDE DEF s2
  <2> QED BY <1>18, Field, SMT
<1>21. \A n \in ntfns' : p2[n].word = page[n].word
  <2>1. RTyped(rv) /\ PTyped(p1)
    BY <1>11 DEF Good, Typed
  <2>2. \A n \in Ntfn : p2[n].word = p1[n].word
    BY <1>15, <2>1, Unlinks, SMT
  <2>3. \A n \in Ntfn : n \notin D => p1[n] = page[n]
    BY <1>8 DEF GivenUp
  <2> QED BY <1>4, <1>6, <2>2, <2>3
<1>22. PICK M : M = mine
  OBVIOUS
<1>23. M \in SUBSET threads
  BY <1>22
<1> HIDE DEF s2
<1>24. \/ /\ threads' = threads /\ pc' = pc
          /\ hs' = h2 /\ mailbox' = mailbox /\ rv' = r2 /\ page' = p2
       \/ /\ busy = {} /\ threads' = threads \ M /\ pc' = Cleared(pc, M, "user")
          /\ hs' = Cleared(h2, M, embryo) /\ mailbox' = Cleared(mailbox, M, NoMail)
          /\ rv' = r2 /\ page' = p2
  <2>1. CASE threads' = threads /\ Becomes(s2) /\ pc' = pc
    <3>1. Becomes(Rec(h2, mailbox, r2, p2))
      BY <1>18, <2>1
    <3> QED BY <2>1, <3>1, BecomesIs
  <2>2. CASE /\ busy = {} /\ threads' = threads \ mine
             /\ Becomes([s2 EXCEPT
                  !.hs = [t \in Thread |-> IF t \in mine THEN embryo ELSE s2.hs[t]],
                  !.mailbox = [t \in Thread |-> IF t \in mine THEN NoMail ELSE mailbox[t]]])
             /\ pc' = [t \in Thread |-> IF t \in mine THEN "user" ELSE pc[t]]
    <3>1. Becomes([[s2 EXCEPT !.hs = Cleared(h2, M, embryo)]
                      EXCEPT !.mailbox = Cleared(mailbox, M, NoMail)])
      BY <1>20, <1>22, <2>2 DEF Cleared
    <3>2. [s2 EXCEPT !.hs = Cleared(h2, M, embryo)]
            = Rec(Cleared(h2, M, embryo), mailbox, r2, p2)
      BY <1>18, Field, SMT
    <3>3. [Rec(Cleared(h2, M, embryo), mailbox, r2, p2)
             EXCEPT !.mailbox = Cleared(mailbox, M, NoMail)]
            = Rec(Cleared(h2, M, embryo), Cleared(mailbox, M, NoMail), r2, p2)
      BY Field, SMT
    <3>4. Becomes(Rec(Cleared(h2, M, embryo), Cleared(mailbox, M, NoMail), r2, p2))
      BY <3>1, <3>2, <3>3
    <3>5. pc' = Cleared(pc, M, "user") /\ threads' = threads \ M
      BY <1>22, <2>2 DEF Cleared
    <3> QED BY <2>2, <3>4, <3>5, BecomesIs
  <2> QED BY <1>2, <2>1, <2>2
<1>25. Good(threads', ntfns', pc', bound_notification, hs', mailbox', rv', page')
  <2>1. CASE busy = {}
    <3>1. \A t \in M : ~Asleep(h2[t])
      <4>1. \A t \in M : RegionReap(h2[t]) = "Reap"
        BY <1>20, <1>22, <2>1
      <4> QED BY <4>1, ReapIs
    <3>2. Good(threads \ M, ntfns', Cleared(pc, M, "user"), bound_notification,
               Cleared(h2, M, embryo), Cleared(mailbox, M, NoMail), r2, p2)
      BY <1>19, <1>23, <3>1, Reaps
    <3> QED BY <1>19, <1>24, <3>2
  <2>2. CASE busy # {}
    BY <1>19, <1>24, <2>2
  <2> QED BY <2>1, <2>2
<1>26. GoodNow(hs, mailbox, rv, page)'
  BY <1>1, <1>25 DEF GoodNow
<1>27. RestTyped'
  <2>1. /\ pc \in [Thread -> {"user", "wait", "receive", "send"}] /\ killed \subseteq Thread
        /\ bound_notification \in [Thread -> Ntfn \cup {NoNtfn}]
    BY DEF IInv, RestTyped
  <2>2. pc' \in [Thread -> {"user", "wait", "receive", "send"}]
    <3>1. Cleared(pc, M, "user") \in [Thread -> {"user", "wait", "receive", "send"}]
      BY <2>1 DEF Cleared
    <3> QED BY <1>24, <2>1, <3>1
  <2>3. killed' \subseteq Thread
    BY <1>1, <1>4, <2>1
  <2>4. got' \subseteq Ntfn \X Bit /\ bound_notification' = bound_notification
    BY <1>1
  <2> QED BY <2>1, <2>2, <2>3, <2>4 DEF RestTyped
<1>28. TimeTyped' /\ EarliestIsLowerBound'
  <2>1. /\ timers \subseteq Timer /\ earliest \in Time \cup {NEVER}
        /\ armed \in [Timer -> Armed \cup {Disarmed}]
        /\ now \in Time /\ seen \in [Cpu -> Time \cup {NEVER}] /\ tick \in [Cpu -> BOOLEAN]
    BY DEF IInv, TimeTyped
  <2>2. /\ armed' \in [Timer -> Armed \cup {Disarmed}]
        /\ \A k \in Timer : armed'[k] = armed[k] \/ armed'[k] = Disarmed
    BY <1>1, <2>1
  <2>3. \A k \in timers : earliest <= armed'[k].deadline
    BY <2>2, Disarms
  <2>4. timers' \subseteq timers /\ UNCHANGED <<now, earliest, seen, tick>>
    BY <1>1
  <2> QED BY <2>1, <2>2, <2>3, <2>4 DEF TimeTyped, EarliestIsLowerBound
<1>29. NothingLost
  <2>1. \A t \in threads \cap threads' : mailbox'[t] = mailbox[t]
    BY <1>4, <1>24 DEF Cleared
  <2>2. \A n \in ntfns' : page'[n].word = page[n].word
    BY <1>21, <1>24
  <2>3. ASSUME NEW n \in ntfns \cap ntfns', threads' = threads,
               NEW b \in Pending(n) \ Pending(n)'
        PROVE  FALSE
    <3>1. /\ b \in PendIn(threads, mailbox, page, n)
          /\ b \notin PendIn(threads', mailbox', page', n)
      BY PendingIs
    <3>2. b \notin page[n].word
      BY <2>2, <3>1 DEF PendIn
    <3>3. PICK u \in threads : mailbox[u].ntfn = n /\ b \in mailbox[u].bits
      BY <3>1, <3>2 DEF PendIn
    <3>4. mailbox'[u] = mailbox[u] /\ u \in threads'
      BY <2>1, <2>3
    <3> QED BY <3>1, <3>3, <3>4 DEF PendIn
  <2> QED BY <2>1, <2>3 DEF NothingLost
<1> QED BY <1>26, <1>27, <1>28, <1>29 DEF IInv

------------------------------------------------------------------------------
(* The theorems.                                                            *)

\* The invariant holds at boot.
LEMMA InitIInv ==
  ASSUME Init
  PROVE  IInv
<1>1. /\ threads = Thread /\ ntfns = Ntfn /\ timers = Timer
      /\ hs = [t \in Thread |-> on_cpu_now]
      /\ pc = [t \in Thread |-> "user"]
      /\ mailbox = [t \in Thread |-> NoMail]
      /\ bound_notification = [t \in Thread |-> NoNtfn]
      /\ killed = {}
      /\ rv = [e \in Ep |-> new_rendezvous(FALSE)]
      /\ page = [n \in Ntfn |-> Blank]
      /\ armed = [k \in Timer |-> Disarmed]
      /\ now = 0 /\ earliest = NEVER
      /\ seen = [c \in Cpu |-> NEVER]
      /\ tick = [c \in Cpu |-> FALSE]
      /\ got = {}
  BY DEF Init, Blank
<1>2. /\ on_cpu_now \in HandshakeOf(Wait) /\ PendOk(on_cpu_now) /\ ~Asleep(on_cpu_now)
      /\ ~on_cpu_now.ipc_aborted
  BY DEF on_cpu_now, Fresh, HandshakeOf, PendOk, Asleep, RunState
<1>3. HTyped(hs) /\ \A t \in Thread : hs[t] = on_cpu_now
  BY <1>1, <1>2 DEF HTyped
<1>4. mailbox \in [Thread -> ProperMail]
  BY <1>1, LetterIs
<1>5. /\ new_rendezvous(FALSE) \in RendezvousOf(Thread, 0)
      /\ new_rendezvous(FALSE).senders = <<>> /\ new_rendezvous(FALSE).receivers = <<>>
  BY SMT DEF new_rendezvous, RendezvousOf
<1>6. /\ rv \in [Ep -> RendezvousOf(Thread, 0)]
      /\ \A e \in Ep : rv[e].senders = <<>> /\ rv[e].receivers = <<>>
  BY <1>1, <1>5
<1>7. Blank \in Page /\ Blank.waiters = <<>> /\ Blank.word = {} /\ Blank.bound = NoTid
  BY SMT DEF Blank, Page
<1>8. /\ page \in [Ntfn -> Page]
      /\ \A n \in Ntfn : page[n].waiters = <<>> /\ page[n].word = {} /\ page[n].bound = NoTid
  BY <1>1, <1>7
<1>9. RTyped(rv) /\ PTyped(page)
  BY <1>6, <1>8, NoneQueued DEF RTyped, PTyped
<1>10. Linked(threads, hs, rv, page)
  <2>1. /\ \A n \in Ntfn : Range(page[n].waiters) = {}
        /\ \A e \in Ep : Range(rv[e].senders) = {} /\ Range(rv[e].receivers) = {}
    BY <1>6, <1>8, NoneQueued
  <2>2. \A t \in Thread : ~Asleep(hs[t])
    BY <1>2, <1>3
  <2> QED BY <2>1, <2>2 DEF Linked
<1>11. Told(ntfns, rv, page)
  BY <1>1, <1>8 DEF Told
<1>12. Coupled(threads, ntfns, bound_notification, page)
  BY <1>1, <1>8, NotificationsAssumption DEF Coupled
<1>13. Mailed(threads, pc, hs, mailbox)
  BY <1>1, <1>2, <1>3 DEF Mailed
<1>14. GoodNow(hs, mailbox, rv, page)
  <2>1. threads \subseteq Thread /\ ntfns \subseteq Ntfn
    BY <1>1
  <2> QED BY <1>3, <1>4, <1>9, <1>10, <1>11, <1>12, <1>13, <2>1 DEF GoodNow, Good, Typed
<1>15. RestTyped
  BY <1>1 DEF RestTyped
<1>16. TimeTyped
  <2>1. 0 \in Time
    BY NotificationsAssumption, SMT DEF Time
  <2> QED BY <1>1, <2>1 DEF TimeTyped
<1>17. EarliestIsLowerBound
  <2>1. NEVER <= Disarmed.deadline
    BY NotificationsAssumption, SMT DEF NEVER, Disarmed
  <2> QED BY <1>1, <2>1 DEF EarliestIsLowerBound
<1> QED BY <1>14, <1>15, <1>16, <1>17 DEF IInv

\* Every step keeps the invariant and loses nothing, and a core that stops walking
\* has walked.
LEMMA NextIInv ==
  ASSUME IInv, Next
  PROVE  /\ IInv' /\ NothingLost
         /\ \A c \in Cpu : tick[c] /\ ~tick'[c] => Expired
<1>1. CASE \E c \in Cpu : expire_timers(c)
  BY <1>1, ExpireAction
<1>2. CASE ~\E c \in Cpu : expire_timers(c)
  <2>1. IInv' /\ NothingLost
    BY <1>2, SignalAction, ArmAction, WaitAction, PollAction, BindAction, ReceiveAction,
       SendAction, CancelAction, ReturnAction, SwitchActions, TickActions, ReapAction,
       ClockAction DEF Next
  <2>2. tick' = tick \/ \E d \in Cpu : tick' = [tick EXCEPT ![d] = TRUE]
    <3>1. ASSUME NEW t \in Thread, NEW n \in Ntfn, NEW bits \in SUBSET Bit,
                 \/ notification_signal(t, n, bits)
                 \/ \E k \in Timer, d \in Time : timer_arm(t, k, d, n, bits)
          PROVE  tick' = tick
      BY <3>1 DEF notification_signal, timer_arm, timeVars
    <3>2. ASSUME NEW t \in Thread, NEW n \in Ntfn,
                 \/ notification_wait(t, n) \/ notification_poll(t, n)
                 \/ \E u \in Thread : notification_bind(t, n, u)
          PROVE  tick' = tick
      BY <3>2 DEF notification_wait, notification_poll, notification_bind, timeVars
    <3>3. ASSUME NEW t \in Thread,
                 \/ \E e \in Ep : ipc_receive(t, e) \/ ipc_send(t, e)
                 \/ \E k \in Timer : timer_cancel(t, k)
                 \/ Return(t) \/ finish_killed_current(t) \/ FinishSwitch(t) \/ Dispatch(t)
          PROVE  tick' = tick
      BY <3>3 DEF ipc_receive, ipc_send, timer_cancel, Return, finish_killed_current,
         FinishSwitch, Dispatch, timeVars
    <3>4. ASSUME NEW c \in Cpu, Observe(c) \/ on_tick(c)
          PROVE  tick' = tick \/ tick' = [tick EXCEPT ![c] = TRUE]
      BY <3>4 DEF Observe, on_tick
    <3>5. ASSUME Clock \/ \E r \in Region : reap_region_objects(r) PROVE tick' = tick
      BY <3>5 DEF Clock, reap_region_objects
    <3> QED BY <1>2, <3>1, <3>2, <3>3, <3>4, <3>5 DEF Next
  <2>3. tick \in [Cpu -> BOOLEAN]
    BY DEF IInv, TimeTyped
  <2>4. \A c \in Cpu : tick[c] => tick'[c]
    BY <2>2, <2>3
  <2> QED BY <2>1, <2>4
<1> QED BY <1>1, <1>2

\* A step that changes nothing keeps the invariant.
LEMMA StutterIInv ==
  ASSUME IInv, UNCHANGED vars
  PROVE  IInv'
  BY DEF IInv, GoodNow, RestTyped, TimeTyped, EarliestIsLowerBound, vars, objVars, timeVars

\* The inductive invariant: queues, handshakes, mailboxes and bindings agree, and the
\* cache is a lower bound (the handlers of sched.rs around notification.rs and timer.rs).
THEOREM AlwaysIInv == Spec => []IInv
<1>1. Init => IInv
  BY InitIInv
<1>2. IInv /\ [Next]_vars => IInv'
  BY NextIInv, StutterIInv
<1> QED BY <1>1, <1>2, PTL DEF Spec

\* Every variable keeps its type, and no queue holds a thread twice: a thread has one
\* intrusive link (Rendezvous::send, receive and Notification::wait push it).
THEOREM TypeCorrect == Spec => []TypeOK
<1>1. ASSUME IInv PROVE TypeOK
  <2>1. /\ threads \subseteq Thread /\ ntfns \subseteq Ntfn /\ HTyped(hs) /\ RTyped(rv)
        /\ mailbox \in [Thread -> ProperMail] /\ PTyped(page)
    BY <1>1 DEF IInv, GoodNow, Good, Typed
  <2>2. ProperMail \subseteq Mail
    BY DEF ProperMail
  <2>3. mailbox \in [Thread -> Mail]
    BY <2>1, <2>2
  <2> QED BY <1>1, <2>1, <2>3 DEF IInv, RestTyped, TimeTyped, TypeOK, HTyped, RTyped, PTyped, Queue
<1>2. IInv => TypeOK
  BY <1>1
<1> QED BY <1>2, AlwaysIInv, PTL

\* A thread is linked on the queue its wait_on names exactly while it is parked with
\* nothing delivered, whoever signals, binds, sends or destroys (bound_receiver,
\* deliver_bound, finish_blocked_resident).
THEOREM LinkedExactly == Spec => []LinkedIffParked
<1>1. IInv => LinkedIffParked
  <2> SUFFICES ASSUME IInv PROVE LinkedIffParked
    OBVIOUS
  <2>1. /\ threads \subseteq Thread /\ ntfns \subseteq Ntfn /\ HTyped(hs) /\ RTyped(rv)
        /\ PTyped(page) /\ mailbox \in [Thread -> ProperMail]
        /\ Linked(threads, hs, rv, page) /\ RestTyped /\ TimeTyped
    BY DEF IInv, GoodNow, Good, Typed
  <2>2. mailbox \in [Thread -> Mail]
    BY <2>1 DEF ProperMail
  <2>3. /\ hs \in [Thread -> HandshakeOf(Wait)] /\ rv \in [Ep -> RendezvousOf(Thread, 0)]
        /\ page \in [Ntfn -> Page]
        /\ \A e \in Ep : IsInjective(rv[e].receivers)
        /\ \A n \in Ntfn : IsInjective(page[n].waiters)
    BY <2>1 DEF HTyped, RTyped, PTyped, Queue
  <2>4. TypeOK
    BY <2>1, <2>2, <2>3 DEF TypeOK, RestTyped, TimeTyped
  <2>5. \A t \in Thread : Parked(t) <=> t \in threads /\ Asleep(hs[t])
    BY DEF Parked, Asleep
  <2> QED BY <2>1, <2>4, <2>5 DEF LinkedIffParked, Linked, WaitAt
<1> QED BY <1>1, AlwaysIInv, PTL

\* A bound thread never sleeps in a receive while its notification holds a word
\* (take_bound_signal, signal_locked, notification_bind).
THEOREM BoundIsTold == Spec => []BoundThreadIsTold
<1>1. IInv => BoundThreadIsTold
  BY DEF IInv, GoodNow, Good, Told, BoundThreadIsTold
<1> QED BY <1>1, AlwaysIInv, PTL

\* The cached earliest deadline is never later than a pending one (EARLIEST_DEADLINE).
THEOREM EarliestBounds == Spec => []EarliestIsLowerBound
<1>1. IInv => EarliestIsLowerBound
  BY DEF IInv
<1> QED BY <1>1, AlwaysIInv, PTL

\* No bit leaves a word or a mailbox but into the hands of a program, or with the
\* notification or the thread (signal_locked, notification_wait, ipc_receive).
THEOREM BitsAreKept == Spec => NoBitLost
<1>1. IInv /\ [Next]_vars
        => [\A n \in ntfns \cap ntfns' : threads' = threads =>
              \A b \in Pending(n) \ Pending(n)' : <<n, b>> \in got']_vars
  BY NextIInv DEF NothingLost
<1> QED BY <1>1, AlwaysIInv, PTL DEF Spec, NoBitLost

\* What has been delivered to a thread is not overwritten before its call returns
\* (bound_receiver, signal_locked, ipc_send).
THEOREM DeliveriesAreKept == Spec => DeliveryIsKept
<1>1. IInv /\ [Next]_vars
        => [\A t \in threads \cap threads' :
              mailbox[t].kind # "none" /\ mailbox'[t] # mailbox[t]
                => pc[t] # "user" /\ pc'[t] = "user"]_vars
  BY NextIInv DEF NothingLost
<1> QED BY <1>1, AlwaysIInv, PTL DEF Spec, DeliveryIsKept

\* A walk delivers every timer that is due, however many there are and whatever order
\* it takes them in (expire_timers, next_due).
THEOREM WalksDeliver == Spec => ExpiryDelivers
<1>1. IInv /\ [Next]_vars
        => [\A c \in Cpu : tick[c] /\ ~tick'[c] =>
              \A k \in timers, n \in ntfns : armed[k].deadline <= now /\ armed[k].ntfn = n
                => armed[k].bits \subseteq Pending(n)']_vars
  BY NextIInv DEF Expired
<1> QED BY <1>1, AlwaysIInv, PTL DEF Spec, ExpiryDelivers
==============================================================================
