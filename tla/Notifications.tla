---------------------------- MODULE Notifications ----------------------------
(***************************************************************************)
(* Notifications, their binding to a receiving thread, and timers          *)
(* (src/crates/inter_process_communication/src/notification.rs and         *)
(* timer.rs, and the handlers of src/kernel/src/sched.rs around them).     *)
(*                                                                         *)
(* One hold of the lock IPC_TABLES is one action.  The tick reads the      *)
(* cached earliest deadline without the lock, as a relaxed load: seen[c]   *)
(* is the value core c reads, which may be an old one.  As in module Ipc,  *)
(* there is a core for every thread and a parked thread stands on it until *)
(* finish_switch.                                                          *)
(***************************************************************************)
EXTENDS Handshake, Rendezvous, FiniteSetsExt

CONSTANTS
    Thread,        \* user threads
    NoTid,         \* no thread
    Ep,            \* rendezvous
    Ntfn,          \* notifications
    NoNtfn,        \* no notification
    Bit,           \* the bits of a notification's word
    Timer,         \* timers
    Cpu,           \* cores that tick
    MaxTime,       \* bound: the last instant of the clock
    Region,        \* the memory regions that may be reclaimed
    In,            \* In[r]: the notifications, timers and threads in region r
    Uses           \* Uses[t]: the operations t performs

Op   == {"signal", "wait", "poll", "bind", "receive", "send", "arm", "cancel"}
Time == 0..MaxTime
NEVER == MaxTime + 1

\* wait_on: the object and the part the thread plays there.
Wait == [on : Ep \cup Ntfn, role : {"Sender", "Receiver", "Waiter"}]

ASSUME NotificationsAssumption ==
    /\ NoTid \notin Thread /\ NoNtfn \notin Ntfn /\ NoWait \notin Wait
    /\ MaxTime \in Nat /\ IsFiniteSet(Timer)
    /\ In \in [Region -> SUBSET (Ntfn \cup Timer \cup Thread)]
    /\ Uses \in [Thread -> SUBSET Op]

\* struct NotificationPage, and what a timer is armed with.
Page     == [word : SUBSET Bit, waiters : Seq(Thread), bound : Thread \cup {NoTid}]
Armed    == [deadline : Time, ntfn : Ntfn, bits : SUBSET Bit]
Disarmed == [deadline |-> NEVER, ntfn |-> NoNtfn, bits |-> {}]

\* A mailbox: a word from notification n, or an ordinary message.
Mail   == [kind : {"word", "message", "none"}, ntfn : Ntfn \cup {NoNtfn}, bits : SUBSET Bit]
NoMail == [kind |-> "none", ntfn |-> NoNtfn, bits |-> {}]
Letter == [kind |-> "message", ntfn |-> NoNtfn, bits |-> {}]
WordOf(n, bits) == [kind |-> "word", ntfn |-> n, bits |-> bits]

VARIABLES
    threads,       \* the thread table: the names that resolve
    hs,            \* hs[t]: Thread::handshake
    pc,            \* the call t is blocked in, or "user"
    mailbox,       \* mailbox[t]: what was delivered to t
    bound_notification,  \* Thread::bound_notification
    killed,        \* the threads whose kill flag is set
    rv,            \* rv[e]: a rendezvous
    ntfns,         \* the notification table
    page,          \* page[n]: NotificationPage
    timers,        \* the timer table
    armed,         \* armed[k]: what timer k is armed with
    now,           \* the counter
    earliest,      \* EARLIEST_DEADLINE
    seen,          \* seen[c]: the value of it core c reads
    tick,          \* tick[c]: core c is about to walk the timers
    got            \* history: <<n, b>> that a program was handed in the last step

objVars   == <<hs, mailbox, rv, page>>
timeVars  == <<timers, armed, now, earliest, seen, tick>>
vars      == <<threads, pc, bound_notification, killed, ntfns, got, objVars, timeVars>>

TypeOK ==
    /\ threads \subseteq Thread /\ ntfns \subseteq Ntfn /\ timers \subseteq Timer
    /\ hs \in [Thread -> HandshakeOf(Wait)]
    /\ pc \in [Thread -> {"user", "wait", "receive", "send"}]
    /\ mailbox \in [Thread -> Mail]
    /\ bound_notification \in [Thread -> Ntfn \cup {NoNtfn}]
    /\ killed \subseteq Thread
    /\ rv \in [Ep -> RendezvousOf(Thread, 0)]
    /\ page \in [Ntfn -> Page]
    /\ \A e \in Ep : IsInjective(rv[e].receivers)   \* a thread has one link
    /\ \A n \in Ntfn : IsInjective(page[n].waiters)
    /\ armed \in [Timer -> Armed \cup {Disarmed}]
    /\ now \in Time /\ earliest \in Time \cup {NEVER}
    /\ seen \in [Cpu -> Time \cup {NEVER}]
    /\ tick \in [Cpu -> BOOLEAN]
    /\ got \subseteq Ntfn \X Bit

Init ==
    /\ threads = Thread /\ ntfns = Ntfn /\ timers = Timer
    /\ hs = [t \in Thread |-> on_cpu_now]
    /\ pc = [t \in Thread |-> "user"]
    /\ mailbox = [t \in Thread |-> NoMail]
    /\ bound_notification = [t \in Thread |-> NoNtfn]
    /\ killed = {}
    /\ rv = [e \in Ep |-> new_rendezvous(FALSE)]
    /\ page = [n \in Ntfn |-> [word |-> {}, waiters |-> <<>>, bound |-> NoTid]]
    /\ armed = [k \in Timer |-> Disarmed]
    /\ now = 0 /\ earliest = NEVER
    /\ seen = [c \in Cpu |-> NEVER]
    /\ tick = [c \in Cpu |-> FALSE]
    /\ got = {}

------------------------------------------------------------------------------
(* The signal path.  It may run several times under one hold of the lock,   *)
(* so it maps the variables it changes, as a record s, to their new values. *)

Objects == [hs |-> hs, mailbox |-> mailbox, rv |-> rv, page |-> page]

Becomes(s) ==
    /\ hs' = s.hs /\ mailbox' = s.mailbox /\ rv' = s.rv /\ page' = s.page

\* Deliver m to t and wake it (serve, then wake).
Deliver(s, t, m) == [s EXCEPT !.mailbox[t] = m, !.hs[t] = try_wake(serve(@))]

\* Mutant: a receiver that already has its message counts as receiving.
bound_receiver_served(s, n) ==
    LET t == s.page[n].bound
    IN  IF /\ t \in threads /\ s.hs[t].state = "Blocked"
           /\ s.hs[t].wait_on # NoWait /\ s.hs[t].wait_on.role = "Receiver"
        THEN t ELSE NoTid

\* bound_receiver: the bound thread, if it is parked in a receive with nothing
\* delivered yet.
bound_receiver(s, n) ==
    LET t == s.page[n].bound
    IN  IF /\ t \in threads /\ s.hs[t].state = "Blocked" /\ ~is_delivered(s.hs[t])
           /\ s.hs[t].wait_on # NoWait /\ s.hs[t].wait_on.role = "Receiver"
        THEN t ELSE NoTid

deliver_bound(s, n, t, bits) ==
    Deliver([s EXCEPT !.rv[s.hs[t].wait_on.on] = remove_receiver(@, t)], t, WordOf(n, bits))

\* Mutant: a counted signal replaces the word.
signal_locked_overwrites(s, n, bits) ==
    LET p == s.page[n]
        t == bound_receiver(s, n)
    IN  IF n \notin ntfns \/ bits = {} THEN s
        ELSE IF p.waiters # <<>> THEN
            Deliver([s EXCEPT !.page[n].waiters = Tail(@)], Head(p.waiters), WordOf(n, bits))
        ELSE IF t # NoTid THEN
            deliver_bound([s EXCEPT !.page[n].word = {}], n, t, p.word \cup bits)
        ELSE [s EXCEPT !.page[n].word = bits]

\* signal_locked: a waiter takes the bits, else the bound receiver takes the
\* whole word, else the bits are counted.  A stale name drops them.
signal_locked(s, n, bits) ==
    LET p == s.page[n]
        t == bound_receiver(s, n)
    IN  IF n \notin ntfns \/ bits = {} THEN s
        ELSE IF p.waiters # <<>> THEN
            Deliver([s EXCEPT !.page[n].waiters = Tail(@)], Head(p.waiters), WordOf(n, bits))
        ELSE IF t # NoTid THEN
            deliver_bound([s EXCEPT !.page[n].word = {}], n, t, p.word \cup bits)
        ELSE [s EXCEPT !.page[n].word = @ \cup bits]

InUser(t, op) ==
    t \in threads /\ hs[t].state = "Running" /\ pc[t] = "user" /\ op \in Uses[t]

\* The program is handed the bits of n.
Hand(n, bits) == got' = {n} \X bits

notification_signal(t, n, bits) ==
    /\ InUser(t, "signal")
    /\ Becomes(signal_locked(Objects, n, bits))
    /\ got' = {}
    /\ UNCHANGED <<threads, pc, bound_notification, killed, ntfns, timeVars>>

------------------------------------------------------------------------------
(* WAIT, POLL, BIND.                                                        *)

notification_wait(t, n) ==
    /\ InUser(t, "wait") /\ n \in ntfns
    /\ \/ /\ page[n].word # {}
          /\ page' = [page EXCEPT ![n].word = {}]
          /\ Hand(n, page[n].word)
          /\ UNCHANGED <<hs, pc>>
       \/ /\ page[n].word = {}
          /\ page' = [page EXCEPT ![n].waiters = Append(@, t)]
          /\ hs' = [hs EXCEPT ![t] = park(@, [on |-> n, role |-> "Waiter"])]
          /\ pc' = [pc EXCEPT ![t] = "wait"]
          /\ got' = {}
    /\ UNCHANGED <<threads, mailbox, bound_notification, killed, rv, ntfns, timeVars>>

notification_poll(t, n) ==
    /\ InUser(t, "poll") /\ n \in ntfns
    /\ page' = [page EXCEPT ![n].word = {}]
    /\ Hand(n, page[n].word)
    /\ UNCHANGED <<threads, hs, pc, mailbox, bound_notification, killed, rv, ntfns,
                   timeVars>>

\* Both sides are free: bound to nothing, or to something that is gone.
MayBind(n, u) ==
    /\ n \in ntfns /\ page[n].bound \notin threads
    /\ u \in threads /\ hs[u].state \notin {"Finished", "Dead"}
    /\ bound_notification[u] \notin ntfns

\* Mutant: a word that is already there waits for the next receive.
notification_bind_only(t, n, u) ==
    /\ InUser(t, "bind") /\ MayBind(n, u)
    /\ page' = [page EXCEPT ![n].bound = u]
    /\ bound_notification' = [bound_notification EXCEPT ![u] = n]
    /\ got' = {}
    /\ UNCHANGED <<threads, hs, pc, mailbox, killed, rv, ntfns, timeVars>>

\* A word already there goes to u at once if u is already receiving.
notification_bind(t, n, u) ==
    LET s == [Objects EXCEPT !.page[n].bound = u]
    IN  /\ InUser(t, "bind") /\ MayBind(n, u)
        /\ bound_notification' = [bound_notification EXCEPT ![u] = n]
        /\ Becomes(IF page[n].word # {} /\ bound_receiver(s, n) # NoTid
                   THEN deliver_bound([s EXCEPT !.page[n].word = {}], n, u, page[n].word)
                   ELSE s)
        /\ got' = {}
        /\ UNCHANGED <<threads, pc, killed, ntfns, timeVars>>

------------------------------------------------------------------------------
(* RECEIVE and SEND, as far as a binding meets them.                        *)

\* take_bound_signal: the word counted while t was elsewhere.
BoundWord(t) ==
    IF bound_notification[t] \in ntfns THEN page[bound_notification[t]].word ELSE {}

ipc_receive(t, e) ==
    /\ InUser(t, "receive")
    /\ \/ /\ BoundWord(t) # {}
          /\ page' = [page EXCEPT ![bound_notification[t]].word = {}]
          /\ Hand(bound_notification[t], BoundWord(t))
          /\ UNCHANGED <<rv, hs, pc>>
       \/ /\ BoundWord(t) = {}
          /\ rv' = [rv EXCEPT ![e] = receive(@, t)]
          /\ \/ /\ ReceiveVerdict(rv[e]) = "FromSender"
                /\ hs' = [hs EXCEPT ![Head(rv[e].senders)] = try_wake(serve(@))]
                /\ UNCHANGED pc
             \/ /\ ReceiveVerdict(rv[e]) = "Blocked"
                /\ hs' = [hs EXCEPT ![t] = park(@, [on |-> e, role |-> "Receiver"])]
                /\ pc' = [pc EXCEPT ![t] = "receive"]
          /\ got' = {}
          /\ UNCHANGED page
    /\ UNCHANGED <<threads, mailbox, bound_notification, killed, ntfns, timeVars>>

ipc_send(t, e) ==
    /\ InUser(t, "send")
    /\ \/ /\ SendVerdict(rv[e]) = "Rendezvous"
          /\ Becomes(Deliver([Objects EXCEPT !.rv[e] = send(@, t)],
                             Head(rv[e].receivers), Letter))
          /\ UNCHANGED pc
       \/ /\ SendVerdict(rv[e]) = "Blocked"
          /\ rv' = [rv EXCEPT ![e] = send(@, t)]
          /\ hs' = [hs EXCEPT ![t] = park(@, [on |-> e, role |-> "Sender"])]
          /\ pc' = [pc EXCEPT ![t] = "send"]
          /\ UNCHANGED <<mailbox, page>>
    /\ got' = {}
    /\ UNCHANGED <<threads, bound_notification, killed, ntfns, timeVars>>

\* A blocked call ends: an aborted one returns Gone, the others the mailbox.
Return(t) ==
    /\ t \in threads /\ hs[t].state = "Running" /\ pc[t] # "user"
    /\ pc' = [pc EXCEPT ![t] = "user"]
    /\ hs' = [hs EXCEPT ![t] = take_aborted(@)]
    /\ mailbox' = [mailbox EXCEPT ![t] = NoMail]
    /\ got' = IF hs[t].ipc_aborted THEN {} ELSE {mailbox[t].ntfn} \X mailbox[t].bits
    /\ UNCHANGED <<threads, bound_notification, killed, rv, ntfns, page, timeVars>>

------------------------------------------------------------------------------
(* Timers.                                                                  *)

\* Mutant: arming a timer stores its deadline as the earliest one.
lowered_replaces(cached, deadline) == IF cached = NEVER THEN deadline ELSE deadline

lowered(cached, deadline) == IF deadline < cached THEN deadline ELSE cached

\* A deadline already reached disarms the timer and signals from here.
timer_arm(t, k, deadline, n, bits) ==
    /\ InUser(t, "arm") /\ n \in ntfns /\ k \in timers
    /\ \/ /\ deadline > now
          /\ armed' = [armed EXCEPT ![k] =
                         [deadline |-> deadline, ntfn |-> n, bits |-> bits]]
          /\ earliest' = lowered(earliest, deadline)
          /\ UNCHANGED objVars
       \/ /\ deadline <= now
          /\ armed' = [armed EXCEPT ![k] = Disarmed]
          /\ Becomes(signal_locked(Objects, n, bits))
          /\ UNCHANGED earliest
    /\ got' = {}
    /\ UNCHANGED <<threads, pc, bound_notification, killed, ntfns, timers, now, seen, tick>>

\* The cache stays where it is.
timer_cancel(t, k) ==
    /\ InUser(t, "cancel") /\ k \in timers
    /\ armed' = [armed EXCEPT ![k] = Disarmed]
    /\ got' = {}
    /\ UNCHANGED <<threads, pc, bound_notification, killed, ntfns, objVars, timers, now,
                   earliest, seen, tick>>

Clock ==
    /\ now < MaxTime /\ now' = now + 1
    /\ got' = {}
    /\ UNCHANGED <<threads, pc, bound_notification, killed, ntfns, objVars, timers, armed,
                   earliest, seen, tick>>

\* The latest store of EARLIEST_DEADLINE becomes visible to core c.
Observe(c) ==
    /\ seen[c] # earliest /\ seen' = [seen EXCEPT ![c] = earliest]
    /\ got' = {}
    /\ UNCHANGED <<threads, pc, bound_notification, killed, ntfns, objVars, timers, armed,
                   now, earliest, tick>>

is_due(cached) == now >= cached

on_tick(c) ==
    /\ ~tick[c] /\ is_due(seen[c])
    /\ tick' = [tick EXCEPT ![c] = TRUE]
    /\ got' = {}
    /\ UNCHANGED <<threads, pc, bound_notification, killed, ntfns, objVars, timers, armed,
                   now, earliest, seen>>

\* Mutant: the walk fires the first due timer only.
expire_due_one(s, a) ==
    LET due == {k \in timers : a[k].deadline <= now}
    IN  IF due = {} THEN s
        ELSE LET k == CHOOSE x \in due : TRUE IN signal_locked(s, a[k].ntfn, a[k].bits)

\* next_due and signal_locked until nothing is due.
expire_due(s, a) ==
    LET walk[D \in SUBSET timers] ==
          IF D = {} THEN s
          ELSE LET k == CHOOSE k \in D : TRUE
               IN  signal_locked(walk[D \ {k}], a[k].ntfn, a[k].bits)
    IN  walk[{k \in timers : a[k].deadline <= now}]

\* Mutant: the walk leaves nothing armed in the cache.
earliest_of_none(a) == IF a = armed THEN earliest ELSE NEVER

earliest_of(a) == Min({NEVER} \cup {a[k].deadline : k \in timers})

expire_timers(c) ==
    LET left == [k \in Timer |-> IF k \in timers /\ armed[k].deadline <= now
                                 THEN Disarmed ELSE armed[k]]
    IN  /\ tick[c]
        /\ tick' = [tick EXCEPT ![c] = FALSE]
        /\ Becomes(expire_due(Objects, armed))
        /\ armed' = left
        /\ earliest' = earliest_of(left)
        /\ seen' = [seen EXCEPT ![c] = earliest_of(left)]
        /\ got' = {}
        /\ UNCHANGED <<threads, pc, bound_notification, killed, ntfns, timers, now>>

------------------------------------------------------------------------------
(* Teardown and switching.                                                  *)

\* region_reap_verdict.
RegionReap(h) ==
    IF h.state \in {"Ready", "Running"} THEN "RefuseAndArm"
    ELSE IF h.state = "Blocked" /\ ~h.on_cpu THEN "FinishInPlace"
    ELSE IF h.on_cpu THEN "RefuseStanding"
    ELSE "Reap"

\* Mutant: a thread ended in WAIT stays linked on the notification.
unlink_forgets_waiters(s, S) ==
    [s EXCEPT !.rv = [e \in Ep |-> [s.rv[e] EXCEPT
        !.senders   = Without(@, S),
        !.receivers = Without(@, S)]]]

\* The unlinking of finish_blocked_resident, for each thread of S.
unlink(s, S) ==
    [s EXCEPT
       !.rv = [e \in Ep |-> [s.rv[e] EXCEPT
                 !.senders   = Without(@, S),
                 !.receivers = Without(@, S)]],
       !.page = [n \in Ntfn |-> [s.page[n] EXCEPT
                 !.waiters = Without(@, S)]]]

\* reap_region_notifications: the waiters of each notification in D are aborted
\* and woken, and its page is given up.
drain_notifications(s, D) ==
    LET W == UNION {Range(s.page[n].waiters) : n \in D}
    IN  [s EXCEPT
           !.hs   = [t \in Thread |-> IF t \in W THEN try_wake(abort(s.hs[t])) ELSE s.hs[t]],
           !.page = [n \in Ntfn |-> IF n \in D
                                    THEN [word |-> {}, waiters |-> <<>>, bound |-> NoTid]
                                    ELSE s.page[n]]]

\* reap_region_objects: notifications and timers go first, refused or not; then
\* blocked residents are ended; a resident that can run is killed and refuses.
reap_region_objects(r) ==
    LET s1    == drain_notifications(Objects, ntfns \cap In[r])
        mine  == threads \cap In[r]
        ended == {t \in mine : RegionReap(s1.hs[t]) = "FinishInPlace"}
        s2    == [unlink(s1, ended) EXCEPT
                    !.hs = [t \in Thread |-> IF t \in ended
                              THEN [s1.hs[t] EXCEPT !.state = "Finished", !.wait_on = NoWait]
                              ELSE s1.hs[t]]]
        busy  == {t \in mine : RegionReap(s2.hs[t]) # "Reap"}
    IN  /\ ntfns' = ntfns \ In[r]
        /\ timers' = timers \ In[r]
        /\ armed' = [k \in Timer |-> IF k \in In[r] THEN Disarmed ELSE armed[k]]
        /\ killed' = killed \cup ended \cup
                     {t \in mine : RegionReap(s2.hs[t]) = "RefuseAndArm"}
        /\ IF busy # {} THEN threads' = threads /\ Becomes(s2) /\ UNCHANGED pc
           ELSE /\ threads' = threads \ mine
                /\ Becomes([s2 EXCEPT
                     !.hs = [t \in Thread |-> IF t \in mine THEN embryo ELSE s2.hs[t]],
                     !.mailbox = [t \in Thread |-> IF t \in mine THEN NoMail ELSE mailbox[t]]])
                /\ pc' = [t \in Thread |-> IF t \in mine THEN "user" ELSE pc[t]]
        /\ got' = {}
        /\ UNCHANGED <<bound_notification, now, earliest, seen, tick>>

\* schedule() ends a killed thread at its next tick in user mode.
finish_killed_current(t) ==
    /\ t \in killed \cap threads /\ hs[t].state = "Running" /\ pc[t] = "user"
    /\ hs' = [hs EXCEPT ![t].state = "Finished"]
    /\ got' = {}
    /\ UNCHANGED <<threads, pc, mailbox, bound_notification, killed, rv, ntfns, page, timeVars>>

FinishSwitch(t) ==
    /\ t \in threads /\ hs[t].on_cpu /\ hs[t].state # "Running"
    /\ IF SwitchOutVerdict(hs[t]) = "Reap"
       THEN threads' = threads \ {t} /\ hs' = [hs EXCEPT ![t] = embryo]
       ELSE hs' = [hs EXCEPT ![t] = finish_switch(@)] /\ UNCHANGED threads
    /\ got' = {}
    /\ UNCHANGED <<pc, mailbox, bound_notification, killed, rv, ntfns, page, timeVars>>

Dispatch(t) ==
    /\ t \in threads /\ hs[t].state = "Ready" /\ ~hs[t].on_cpu
    /\ hs' = [hs EXCEPT ![t] = switch_in(@)]
    /\ got' = {}
    /\ UNCHANGED <<threads, pc, mailbox, bound_notification, killed, rv, ntfns, page, timeVars>>

Next ==
    \/ \E t \in Thread :
         \/ \E n \in Ntfn :
              \/ \E bits \in SUBSET Bit :
                   \/ notification_signal(t, n, bits)
                   \/ \E k \in Timer, d \in Time : timer_arm(t, k, d, n, bits)
              \/ notification_wait(t, n) \/ notification_poll(t, n)
              \/ \E u \in Thread : notification_bind(t, n, u)
         \/ \E e \in Ep : ipc_receive(t, e) \/ ipc_send(t, e)
         \/ \E k \in Timer : timer_cancel(t, k)
         \/ Return(t) \/ finish_killed_current(t) \/ FinishSwitch(t) \/ Dispatch(t)
    \/ \E c \in Cpu : Observe(c) \/ on_tick(c) \/ expire_timers(c)
    \/ \E r \in Region : reap_region_objects(r)
    \/ Clock

Spec == Init /\ [][Next]_vars

------------------------------------------------------------------------------
(* Safety.                                                                  *)

Parked(t) == t \in threads /\ hs[t].state = "Blocked" /\ ~is_delivered(hs[t])

\* A thread is linked on the queue its wait_on names exactly while it is parked
\* with nothing delivered: what bound_receiver trusts when it reads wait_on, what
\* deliver_bound asserts, and what makes popping a waiter safe after a teardown.
LinkedIffParked ==
    /\ TypeOK
    /\ \A n \in Ntfn : \A t \in Thread :
          t \in Range(page[n].waiters)
            <=> Parked(t) /\ hs[t].wait_on = [on |-> n, role |-> "Waiter"]
    /\ \A e \in Ep : \A t \in Thread :
          /\ t \in Range(rv[e].receivers)
               <=> Parked(t) /\ hs[t].wait_on = [on |-> e, role |-> "Receiver"]
          /\ t \in Range(rv[e].senders)
               <=> Parked(t) /\ hs[t].wait_on = [on |-> e, role |-> "Sender"]

\* A bound thread never sleeps in a receive while its notification holds a word,
\* whichever of the signal, the receive and the bind came last
\* (take_bound_signal, signal_locked, notification_bind).
BoundThreadIsTold ==
    \A n \in ntfns : page[n].word # {} =>
        \A e \in Ep : page[n].bound \notin Range(rv[e].receivers)

\* The cache is never later than a pending deadline, so a tick that skips the walk
\* misses nothing once it sees the cache (EARLIEST_DEADLINE).
EarliestIsLowerBound == \A k \in timers : earliest <= armed[k].deadline

\* The bits of n that are on their way to a program.
Pending(n) ==
    page[n].word \cup UNION {mailbox[t].bits : t \in {u \in threads : mailbox[u].ntfn = n}}

\* No bit is lost: a bit leaves the word or the mailbox it was delivered to only
\* when a program is handed it, or with the notification or the thread.
NoBitLost ==
    [][\A n \in ntfns \cap ntfns' : threads' = threads =>
          \A b \in Pending(n) \ Pending(n)' : <<n, b>> \in got']_vars

\* A walk delivers every timer that is due: its bits are in a mailbox or in the word
\* of its notification afterwards, if that still exists (expire_timers, next_due).
ExpiryDelivers ==
    [][\A c \in Cpu : tick[c] /\ ~tick'[c] =>
          \A k \in timers, n \in ntfns : armed[k].deadline <= now /\ armed[k].ntfn = n
            => armed[k].bits \subseteq Pending(n)']_vars

\* What has been delivered to a thread is not overwritten before its call returns:
\* neither a message by a notification nor the reverse (bound_receiver).
DeliveryIsKept ==
    [][\A t \in threads \cap threads' :
          mailbox[t].kind # "none" /\ mailbox'[t] # mailbox[t]
            => pc[t] # "user" /\ pc'[t] = "user"]_vars

------------------------------------------------------------------------------
(* Liveness.  The kernel's steps are fair, ticks recur on every core, and a *)
(* store becomes visible.  User programs owe nothing.                       *)
Fairness ==
    /\ \A t \in Thread : WF_vars(FinishSwitch(t) \/ Dispatch(t) \/ Return(t))
    /\ \A c \in Cpu : WF_vars(Observe(c)) /\ WF_vars(on_tick(c) \/ expire_timers(c))
    /\ WF_vars(Clock)

FairSpec == Spec /\ Fairness

\* An armed timer fires or is taken back (expire_timers, EARLIEST_DEADLINE), and one
\* that fires delivers.
ArmedTimerFires ==
    /\ ExpiryDelivers
    /\ \A k \in Timer : k \in timers /\ armed[k] # Disarmed ~> armed[k] = Disarmed

\* Nobody can take timer k back: everyone who could cancel or re-arm it is asleep,
\* and it is in no region that may be reclaimed.
Unattended(k) ==
    /\ \A u \in threads : Uses[u] \cap {"arm", "cancel"} # {} => Parked(u)
    /\ \A r \in Region : k \notin In[r]

\* The first thread asleep on a notification that a timer is going to signal wakes
\* up, when nobody can take that timer back (timer_arm, expire_timers, signal_locked).
SleeperWakes ==
    \A t \in Thread, n \in Ntfn, k \in Timer :
        (/\ page[n].waiters # <<>> /\ t = Head(page[n].waiters)
         /\ armed[k].ntfn = n /\ armed[k].bits # {} /\ Unattended(k))
          ~> pc[t] = "user"
==============================================================================
