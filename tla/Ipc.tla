--------------------------------- MODULE Ipc ---------------------------------
(***************************************************************************)
(* Synchronous IPC of user threads (src/kernel/src/sched.rs and the invoke *)
(* arms of src/kernel/src/syscall.rs): SEND, RECEIVE, SEND_CAP,            *)
(* RECEIVE_CAP, CALL and REPLY on rendezvous, a supervised thread's death  *)
(* message, and the teardown of a region that holds rendezvous or threads. *)
(*                                                                         *)
(* One hold of the lock IPC_TABLES is one action.  A system call that      *)
(* takes the lock several times is several actions, and pc[t] says between *)
(* which of them thread t is.  System calls run with interrupts masked, so *)
(* a kill lands on a thread only at pc "user".  There is a core for every  *)
(* thread; what schedule() contributes is that a thread which has parked   *)
(* stands on its core until finish_switch, and a wake that comes before    *)
(* that is deferred.  Module Scheduler models the cores.                   *)
(***************************************************************************)
EXTENDS Handshake, Rendezvous, FiniteSets

CONSTANTS
    Thread,        \* user threads
    NoTid,         \* no thread
    Ep,            \* rendezvous
    NoEp,          \* no rendezvous: an unsupervised thread's fault_ep
    IrqEp,         \* the rendezvous bound to an interrupt
    Region,        \* the memory regions reclaim_region may be called on
    EpIn,          \* EpIn[r]: the rendezvous retyped from region r
    ThreadIn,      \* ThreadIn[r]: the threads retyped from region r
    FaultEp,       \* FaultEp[t]: where t's death is reported
    Reader,        \* <<t, e>>: t holds a READ capability to e
    Writer,        \* <<t, e>>: t holds a WRITE capability to e
    Uses,          \* Uses[t]: the operations t's program performs
    Slots,         \* free slots of a thread's capability table
    MaxOps,        \* bound: messages a thread sends
    MaxPending     \* bound: signals a rendezvous counts

SendOp == {"send", "send_cap", "call"}
Op     == SendOp \cup {"receive", "receive_cap", "reply", "cap_delete", "depart"}
PC     == {"user", "received", "replying", "replied", "receive", "receive_cap"} \cup SendOp

Role == {"Sender", "Receiver", "Reply"}
Wait == [ep : Ep, role : Role]

ASSUME IpcAssumption ==
    /\ NoTid \notin Thread /\ NoEp \notin Ep /\ NoWait \notin Wait
    /\ IrqEp \subseteq Ep
    /\ EpIn \in [Region -> SUBSET Ep] /\ ThreadIn \in [Region -> SUBSET Thread]
    /\ FaultEp \in [Thread -> Ep \cup {NoEp}]
    /\ Reader \subseteq Thread \X Ep /\ Writer \subseteq Thread \X Ep
    /\ Uses \in [Thread -> SUBSET Op]
    /\ Slots \in Nat /\ MaxOps \in Nat /\ MaxPending \in Nat

\* A capability that travels by IPC: the one-shot Reply a CALL mints, naming the
\* caller, or the copy a SEND_CAP delegates.  n numbers the operation it was made
\* for; the kernel's capability has no such field and no guard reads it.
Cap   == [kind : {"Reply", "Delegated"}, from : Thread, n : 0..MaxOps]
NoCap == [kind |-> "None", from |-> NoTid, n |-> 0]

\* What a mailbox holds: who wrote it, with which operation, and its number.
Msg   == [kind : SendOp \cup {"reply", "death", "signal"},
          from : Thread \cup {NoTid}, n : 0..MaxOps]
NoMsg == [kind |-> "none", from |-> NoTid, n |-> 0]

VARIABLES
    threads,       \* the thread table: the names that resolve
    hs,            \* hs[t]: Thread::handshake
    pc,            \* where in its system call t is
    caps,          \* caps[t]: the travelling capabilities in t's table
    outgoing_cap,  \* Thread::outgoing_cap
    cap_delivered, \* Thread::cap_delivered
    mailbox,       \* Thread::mailbox
    refused,       \* Thread::ipc_refused
    killed,        \* the threads whose kill flag is set
    held,          \* the capability REPLY has looked up and is using
    eps,           \* the rendezvous table: the names that resolve
    rv,            \* rv[e]: the rendezvous itself
    seq,           \* seq[t]: how many messages t has sent (numbers them)
    taken,         \* history: t's last message has reached a receiver
    lost           \* history: callers whose Reply was dropped unanswered

ipcVars == <<hs, pc, caps, outgoing_cap, cap_delivered, mailbox, refused, killed, held>>
vars    == <<threads, eps, rv, seq, taken, lost, ipcVars>>

TypeOK ==
    /\ threads \subseteq Thread /\ eps \subseteq Ep
    /\ hs \in [Thread -> HandshakeOf(Wait)]
    /\ pc \in [Thread -> PC]
    /\ caps \in [Thread -> SUBSET Cap]
    /\ outgoing_cap \in [Thread -> Cap \cup {NoCap}]
    /\ cap_delivered \in [Thread -> BOOLEAN]
    /\ mailbox \in [Thread -> Msg \cup {NoMsg}]
    /\ refused \in [Thread -> BOOLEAN]
    /\ killed \subseteq Thread
    /\ held \in [Thread -> Cap \cup {NoCap}]
    /\ rv \in [Ep -> RendezvousOf(Thread, MaxPending)]
    /\ seq \in [Thread -> 0..MaxOps]
    /\ taken \in [Thread -> BOOLEAN]
    /\ lost \subseteq Thread

Init ==
    /\ threads = Thread /\ eps = Ep
    /\ hs = [t \in Thread |-> on_cpu_now]
    /\ pc = [t \in Thread |-> "user"]
    /\ caps = [t \in Thread |-> {}]
    /\ outgoing_cap = [t \in Thread |-> NoCap]
    /\ cap_delivered = [t \in Thread |-> FALSE]
    /\ mailbox = [t \in Thread |-> NoMsg]
    /\ refused = [t \in Thread |-> FALSE]
    /\ killed = {}
    /\ held = [t \in Thread |-> NoCap]
    /\ rv = [e \in Ep |-> new_rendezvous(e \in IrqEp)]
    /\ seq = [t \in Thread |-> 0]
    /\ taken = [t \in Thread |-> FALSE]
    /\ lost = {}

------------------------------------------------------------------------------
(* Helpers.                                                                 *)

\* wake(): the waiter becomes Ready, or its wake is deferred or refused.
Woken(h) == try_wake(serve(h))

\* set_ipc_aborted and wake, as teardown does to every member of S.
Aborted(h, S) == [t \in Thread |-> IF t \in S THEN try_wake(abort(h[t])) ELSE h[t]]

awaits_reply(h) == h.wait_on # NoWait /\ h.wait_on.role = "Reply"

Names(cap, S) == cap.kind = "Reply" /\ cap.from \in S

\* delete_reply_caps_naming, for every caller in S: the tables, and the
\* hand-off slots.
delete_reply_caps_naming(cs, S) == [t \in Thread |-> {k \in cs[t] : ~Names(k, S)}]
delete_outgoing_naming(out, S) ==
    [t \in Thread |-> IF Names(out[t], S) THEN NoCap ELSE out[t]]

\* set_ipc_aborted drops what the thread was about to hand over.
drop_outgoing(out, S) == [t \in Thread |-> IF t \in S THEN NoCap ELSE out[t]]

\* Mutant: a thread that leaves forgets the callers it has not answered.
CallersOf_nobody(cs, h, t) == {u \in {} : awaits_reply(h[u]) /\ cs[t] # {}}

\* strand_callers_of(t): the callers t holds a Reply for and that await one.
CallersOf(cs, h, t) == {u \in threads : awaits_reply(h[u]) /\ \E k \in cs[t] : Names(k, {u})}

\* CapabilityTable::insert: a full table takes nothing and the slot is NO_CAP.
HasRoom(t)   == Cardinality(caps[t]) < Slots
insert(t, k) == IF HasRoom(t) THEN [caps EXCEPT ![t] = @ \cup {k}] ELSE caps

\* t is about to make system call op.
InUser(t, op) ==
    t \in threads /\ hs[t].state = "Running" /\ pc[t] = "user" /\ op \in Uses[t]

------------------------------------------------------------------------------
(* SEND, SEND_CAP and CALL.                                                 *)

\* The capability that travels with t's next message.
CapOf(t, op) ==
    CASE op = "send_cap" -> [kind |-> "Delegated", from |-> t, n |-> seq[t] + 1]
      [] op = "call"     -> [kind |-> "Reply", from |-> t, n |-> seq[t] + 1]
      [] OTHER           -> NoCap

\* The handshake of a sender that has met a receiver: only a CALL parks.
AfterMeeting(t, e, op) ==
    IF op = "call" THEN park(hs[t], [ep |-> e, role |-> "Reply"]) ELSE hs[t]

\* A receiver is waiting: it gets the message, the capability if there is one
\* and if its table has room, and is woken.
Meet(t, e, op, msg) ==
    LET r == Head(rv[e].receivers)
        k == CapOf(t, op)
    IN  /\ mailbox' = [mailbox EXCEPT ![r] = msg]
        /\ caps' = IF k = NoCap THEN caps ELSE insert(r, k)
        /\ cap_delivered' = [cap_delivered EXCEPT ![r] = @ \/ k # NoCap]
        /\ hs' = [hs EXCEPT ![r] = Woken(@), ![t] = AfterMeeting(t, e, op)]
        /\ taken' = [taken EXCEPT ![t] = TRUE]
        /\ lost' = IF op = "call" /\ ~HasRoom(r) THEN lost \cup {t} ELSE lost
        /\ UNCHANGED <<outgoing_cap, refused>>

\* Nobody is waiting: the sender is queued, leaves message and capability with
\* itself, and parks.
Queue(t, e, op, msg) ==
    /\ mailbox' = [mailbox EXCEPT ![t] = msg]
    /\ outgoing_cap' = IF op = "send" THEN outgoing_cap
                       ELSE [outgoing_cap EXCEPT ![t] = CapOf(t, op)]
    /\ hs' = [hs EXCEPT ![t] = park(@, [ep |-> e,
                              role |-> IF op = "call" THEN "Reply" ELSE "Sender"])]
    /\ taken' = [taken EXCEPT ![t] = FALSE]
    /\ UNCHANGED <<caps, cap_delivered, refused, lost>>

\* The name is stale, or the rendezvous carries an interrupt.
Reject(t, is_refused) ==
    /\ hs' = [hs EXCEPT ![t] = abort(@)]
    /\ outgoing_cap' = IF is_refused THEN outgoing_cap
                       ELSE drop_outgoing(outgoing_cap, {t})
    /\ refused' = [refused EXCEPT ![t] = @ \/ is_refused]
    /\ taken' = [taken EXCEPT ![t] = FALSE]
    /\ UNCHANGED <<mailbox, caps, cap_delivered, lost>>

\* ipc_send_badged, ipc_send_cap and ipc_call_badged.
ipc_send(t, e, op) ==
    LET msg == [kind |-> op, from |-> t, n |-> seq[t] + 1]
    IN  /\ InUser(t, op) /\ <<t, e>> \in Writer /\ seq[t] < MaxOps
        /\ seq' = [seq EXCEPT ![t] = @ + 1]
        /\ pc' = [pc EXCEPT ![t] = op]
        /\ \/ e \notin eps /\ Reject(t, FALSE) /\ UNCHANGED rv
           \/ /\ e \in eps
              /\ rv' = [rv EXCEPT ![e] = send(@, t)]
              /\ \/ SendVerdict(rv[e]) = "Rendezvous" /\ Meet(t, e, op, msg)
                 \/ SendVerdict(rv[e]) = "Blocked" /\ Queue(t, e, op, msg)
                 \/ SendVerdict(rv[e]) = "Refused" /\ Reject(t, TRUE)
        /\ UNCHANGED <<threads, eps, killed, held>>

------------------------------------------------------------------------------
(* RECEIVE and RECEIVE_CAP.                                                 *)

\* Mutant: a plain RECEIVE leaves the sender's capability where it is.
Collect_keeps_cap(s) ==
    /\ IF outgoing_cap[s].kind = "Reply"
       THEN lost' = lost \cup {s} /\ UNCHANGED hs
       ELSE hs' = [hs EXCEPT ![s] = Woken(@)] /\ UNCHANGED lost
    /\ UNCHANGED <<caps, outgoing_cap>>

\* What a plain RECEIVE does to the sender it has popped: a CALLer stays parked
\* with its Reply in hand, a corpse stays dead and waits for nothing, and any
\* other sender goes on, without the capability it offered.
Collect(s) ==
    /\ IF outgoing_cap[s].kind = "Reply"
       THEN lost' = lost \cup {s} /\ UNCHANGED <<hs, outgoing_cap>>
       ELSE IF hs[s].state = "Dead"
       THEN hs' = [hs EXCEPT ![s].wait_on = NoWait] /\ UNCHANGED <<outgoing_cap, lost>>
       ELSE /\ hs' = [hs EXCEPT ![s] = Woken(@)]
            /\ outgoing_cap' = [outgoing_cap EXCEPT ![s] = NoCap]
            /\ UNCHANGED lost
    /\ UNCHANGED caps

\* What RECEIVE_CAP by t does to it: the capability moves, and a CALLer is left
\* parked for its reply.
CollectCap(t, s) ==
    LET k == outgoing_cap[s]
    IN  /\ outgoing_cap' = [outgoing_cap EXCEPT ![s] = NoCap]
        /\ caps' = IF k = NoCap THEN caps ELSE insert(t, k)
        /\ hs' = IF k.kind = "Reply" THEN hs ELSE [hs EXCEPT ![s] = Woken(@)]
        /\ lost' = IF k.kind = "Reply" /\ ~HasRoom(t) THEN lost \cup {s} ELSE lost

\* RECEIVE_CAP parks with nothing delivered yet.
no_cap_yet(t, op) ==
    IF op = "receive" THEN cap_delivered ELSE [cap_delivered EXCEPT ![t] = FALSE]

\* ipc_receive and ipc_receive_cap.  The words of a message that was already
\* there are returned at once and pass through nobody's mailbox.
ipc_receive(t, e, op) ==
    /\ InUser(t, op) /\ <<t, e>> \in Reader
    /\ \/ /\ e \notin eps
          /\ Reject(t, FALSE)
          /\ pc' = [pc EXCEPT ![t] = "received"]
          /\ UNCHANGED rv
       \/ /\ e \in eps
          /\ rv' = [rv EXCEPT ![e] = receive(@, t)]
          /\ \/ /\ ReceiveVerdict(rv[e]) = "Signal"
                /\ pc' = [pc EXCEPT ![t] = "received"]
                /\ UNCHANGED <<hs, caps, outgoing_cap, cap_delivered, taken, lost>>
             \/ /\ ReceiveVerdict(rv[e]) = "FromSender"
                /\ pc' = [pc EXCEPT ![t] = "received"]
                /\ LET s == Head(rv[e].senders)
                   IN  /\ IF op = "receive" THEN Collect(s) ELSE CollectCap(t, s)
                       /\ taken' = [taken EXCEPT ![s] = TRUE]
                /\ UNCHANGED cap_delivered
             \/ /\ ReceiveVerdict(rv[e]) = "Blocked"
                /\ pc' = [pc EXCEPT ![t] = op]
                /\ hs' = [hs EXCEPT ![t] = park(@, [ep |-> e, role |-> "Receiver"])]
                /\ cap_delivered' = no_cap_yet(t, op)
                /\ UNCHANGED <<caps, outgoing_cap, taken, lost>>
          /\ UNCHANGED <<mailbox, refused>>
    /\ UNCHANGED <<threads, eps, seq, killed, held>>

------------------------------------------------------------------------------
(* The end of a call: t has been switched in again, or never blocked; it    *)
(* reads its mailbox and take_ipc_aborted decides between Ok and an error.  *)

\* Mutant: the abort flag is read and left set.
Return_keeps_flag(t) ==
    /\ t \in threads /\ hs[t].state = "Running"
    /\ pc[t] \in SendOp \cup {"receive", "receive_cap", "received"}
    /\ pc' = [pc EXCEPT ![t] = "user"]
    /\ lost' = lost \ {t}
    /\ UNCHANGED <<hs, refused, threads, eps, rv, seq, taken, caps, outgoing_cap,
                   cap_delivered, mailbox, killed, held>>

Return(t) ==
    /\ t \in threads /\ hs[t].state = "Running"
    /\ pc[t] \in SendOp \cup {"receive", "receive_cap", "received"}
    /\ pc' = [pc EXCEPT ![t] = "user"]
    /\ hs' = [hs EXCEPT ![t] = take_aborted(@)]
    /\ refused' = [refused EXCEPT ![t] = @ /\ ~(pc[t] \in SendOp /\ hs[t].ipc_aborted)]
    /\ lost' = lost \ {t}
    /\ UNCHANGED <<threads, eps, rv, seq, taken, caps, outgoing_cap, cap_delivered,
                   mailbox, killed, held>>

------------------------------------------------------------------------------
(* REPLY takes the lock three times: it copies the capability out of the    *)
(* table, answers the thread it names, and deletes the slot.                *)

current_cap(t) ==
    /\ InUser(t, "reply")
    /\ \E k \in caps[t] : k.kind = "Reply" /\ held' = [held EXCEPT ![t] = k]
    /\ pc' = [pc EXCEPT ![t] = "replying"]
    /\ UNCHANGED <<threads, eps, rv, seq, taken, lost, hs, caps, outgoing_cap,
                   cap_delivered, mailbox, refused, killed>>

ipc_reply(t) ==
    LET u == held[t].from
    IN  /\ pc[t] = "replying"
        /\ pc' = [pc EXCEPT ![t] = "replied"]
        /\ IF u \in threads /\ awaits_reply(hs[u])
           THEN /\ mailbox' = [mailbox EXCEPT ![u] =
                                 [kind |-> "reply", from |-> t, n |-> held[t].n]]
                /\ hs' = [hs EXCEPT ![u] = Woken(@)]
           ELSE UNCHANGED <<mailbox, hs>>
        /\ UNCHANGED <<threads, eps, rv, seq, taken, lost, caps, outgoing_cap,
                       cap_delivered, refused, killed, held>>

\* Mutant: the reply capability is not consumed.
delete_current_cap_forgotten(t) ==
    /\ pc[t] = "replied"
    /\ pc' = [pc EXCEPT ![t] = "user"]
    /\ held' = [held EXCEPT ![t] = NoCap]
    /\ UNCHANGED <<threads, eps, rv, seq, taken, lost, hs, caps, outgoing_cap,
                   cap_delivered, mailbox, refused, killed>>

delete_current_cap(t) ==
    /\ pc[t] = "replied"
    /\ pc' = [pc EXCEPT ![t] = "user"]
    /\ caps' = [caps EXCEPT ![t] = @ \ {held[t]}]
    /\ held' = [held EXCEPT ![t] = NoCap]
    /\ UNCHANGED <<threads, eps, rv, seq, taken, lost, hs, outgoing_cap,
                   cap_delivered, mailbox, refused, killed>>

\* SYS_CAP_DELETE: the thread drops a capability of its own.
cap_delete(t) ==
    /\ InUser(t, "cap_delete")
    /\ \E k \in caps[t] :
          /\ caps' = [caps EXCEPT ![t] = @ \ {k}]
          /\ lost' = IF k.kind = "Reply" THEN lost \cup {k.from} ELSE lost
    /\ UNCHANGED <<threads, eps, rv, seq, taken, hs, pc, outgoing_cap,
                   cap_delivered, mailbox, refused, killed, held>>

------------------------------------------------------------------------------
(* Leaving.                                                                 *)

\* The sweep half of strand_reply_caller for every caller in S.
Strand(S) ==
    /\ caps' = delete_reply_caps_naming(caps, S)
    /\ outgoing_cap' = drop_outgoing(delete_outgoing_naming(outgoing_cap, S), S)

\* exit and fault: the callers t owes a reply are freed, and a supervised thread
\* becomes a corpse that delivers its own death message (deliver_death).
depart(t) ==
    LET e     == FaultEp[t]
        S     == CallersOf(caps, hs, t)
        h     == Aborted(hs, S)
        death == [kind |-> "death", from |-> t, n |-> 0]
        r     == Head(rv[e].receivers)
    IN  /\ InUser(t, "depart")
        /\ Strand(S)
        /\ \/ /\ e = NoEp
              /\ hs' = [h EXCEPT ![t].state = "Finished"]
              /\ UNCHANGED <<rv, mailbox>>
           \/ /\ e # NoEp /\ (e \in eps => SendVerdict(rv[e]) = "Refused")
              /\ hs' = [h EXCEPT ![t].state = "Dead"]
              /\ mailbox' = [mailbox EXCEPT ![t] = death]
              /\ UNCHANGED rv
           \/ /\ e \in eps /\ SendVerdict(rv[e]) = "Rendezvous"
              /\ rv' = [rv EXCEPT ![e] = send(@, t)]
              /\ hs' = [h EXCEPT ![t].state = "Dead", ![r] = Woken(@)]
              /\ mailbox' = [mailbox EXCEPT ![t] = death, ![r] = death]
           \/ /\ e \in eps /\ SendVerdict(rv[e]) = "Blocked"
              /\ rv' = [rv EXCEPT ![e] = send(@, t)]
              /\ hs' = [h EXCEPT ![t].state = "Dead",
                                 ![t].wait_on = [ep |-> e, role |-> "Sender"]]
              /\ mailbox' = [mailbox EXCEPT ![t] = death]
        /\ UNCHANGED <<threads, eps, seq, taken, lost, pc, cap_delivered, refused,
                       killed, held>>

\* finish_killed_current, from the schedule() of a killed thread's next tick.
finish_killed_current(t) ==
    LET S == CallersOf(caps, hs, t)
    IN  /\ t \in killed \cap threads /\ hs[t].state = "Running" /\ pc[t] = "user"
        /\ hs' = [Aborted(hs, S) EXCEPT ![t].state = "Finished"]
        /\ Strand(S)
        /\ UNCHANGED <<threads, eps, rv, seq, taken, lost, pc, cap_delivered, mailbox,
                       refused, killed, held>>

\* What is left of the threads in S once they are out of the table.
Forget(S) ==
    /\ threads' = threads \ S
    /\ pc' = [t \in Thread |-> IF t \in S THEN "user" ELSE pc[t]]
    /\ lost' = lost \ S

------------------------------------------------------------------------------
(* The switch away from a thread that parked or left, and the switch back.  *)

FinishSwitch(t) ==
    /\ t \in threads /\ hs[t].on_cpu /\ hs[t].state # "Running"
    /\ IF SwitchOutVerdict(hs[t]) = "Reap"
       THEN /\ Forget({t})
            /\ hs' = [hs EXCEPT ![t] = embryo]
            /\ caps' = [caps EXCEPT ![t] = {}]
       ELSE /\ hs' = [hs EXCEPT ![t] = finish_switch(@)]
            /\ UNCHANGED <<threads, pc, lost, caps>>
    /\ UNCHANGED <<eps, rv, seq, taken, outgoing_cap, cap_delivered, mailbox,
                   refused, killed, held>>

Dispatch(t) ==
    /\ t \in threads /\ hs[t].state = "Ready" /\ ~hs[t].on_cpu
    /\ hs' = [hs EXCEPT ![t] = switch_in(@)]
    /\ UNCHANGED <<threads, eps, rv, seq, taken, lost, pc, caps, outgoing_cap,
                   cap_delivered, mailbox, refused, killed, held>>

\* irq_notify(): the interrupt of rendezvous e fires.
irq_notify(e) ==
    /\ e \in eps \cap IrqEp
    /\ rv[e].pending < MaxPending
    /\ rv' = [rv EXCEPT ![e] = signal(@, MaxPending)]
    /\ IF rv[e].receivers # <<>>
       THEN LET r == Head(rv[e].receivers)
            IN  /\ hs' = [hs EXCEPT ![r] = Woken(@)]
                /\ mailbox' = [mailbox EXCEPT ![r] =
                                 [kind |-> "signal", from |-> NoTid, n |-> 0]]
       ELSE UNCHANGED <<hs, mailbox>>
    /\ UNCHANGED <<threads, eps, seq, taken, lost, pc, caps, outgoing_cap,
                   cap_delivered, refused, killed, held>>

------------------------------------------------------------------------------
(* reap_region_objects(): one hold of the lock tears region r down.  Its    *)
(* rendezvous go first, whether or not the rest is refused.                 *)

\* Mutant: only the queues are drained.
CallersAwaiting_nobody(E) == {t \in {} : hs[t].wait_on.ep \in E}

\* strand_callers_awaiting, for every rendezvous in E.
CallersAwaiting(E) ==
    {t \in threads : awaits_reply(hs[t]) /\ hs[t].wait_on.ep \in E /\ ~hs[t].ipc_aborted}

\* The rendezvous of the region are drained and removed, their callers freed.
Doomed(r) == eps \cap EpIn[r]
Freed(r)  == CallersAwaiting(Doomed(r)) \cup UNION {Waiters(rv[e]) : e \in Doomed(r)}

\* Mutant: a corpse is freed while it is linked on its supervisor's queue.
Unlinked_but_corpses(S, D) ==
    [e \in Ep |->
       LET waiting == {t \in S : hs[t].wait_on.ep = e}
       IN  [rv[e] EXCEPT
              !.senders   = SelectSeq(@, LAMBDA t : t \notin waiting),
              !.receivers = SelectSeq(@, LAMBDA t : t \notin waiting)]]

\* finish_blocked_resident takes each of the threads in S off both queues of the
\* rendezvous it waits on, and the removal phase takes each corpse in D off the
\* sender queue of its fault_ep.
Unlinked(S, D) ==
    [e \in Ep |->
       LET waiting == {t \in S : hs[t].wait_on.ep = e}
           corpse  == {t \in D : FaultEp[t] = e}
       IN  [rv[e] EXCEPT
              !.senders   = SelectSeq(@, LAMBDA t : t \notin waiting \cup corpse),
              !.receivers = SelectSeq(@, LAMBDA t : t \notin waiting)]]

\* Mutant: a blocked resident is armed like a running one and waited for.
RegionReap_waits(h) ==
    IF h.state \in {"Ready", "Running", "Blocked"} THEN "RefuseAndArm"
    ELSE IF h.on_cpu THEN "RefuseStanding"
    ELSE "Reap"

\* region_reap_verdict.
RegionReap(h) ==
    IF h.state \in {"Ready", "Running"} THEN "RefuseAndArm"
    ELSE IF h.state = "Blocked" /\ ~h.on_cpu THEN "FinishInPlace"
    ELSE IF h.on_cpu THEN "RefuseStanding"
    ELSE "Reap"

reap_region_objects(r) ==
    LET gone  == Doomed(r)
        freed == Freed(r)
        h1    == Aborted(hs, freed)
        k1    == delete_reply_caps_naming(caps, CallersAwaiting(gone))
        o1    == drop_outgoing(outgoing_cap, freed)
        mine  == threads \cap ThreadIn[r]
        ended == {t \in mine : RegionReap(h1[t]) = "FinishInPlace"}
        h2    == [t \in Thread |-> IF t \in ended
                                   THEN [h1[t] EXCEPT !.state = "Finished", !.wait_on = NoWait]
                                   ELSE h1[t]]
        k2    == delete_reply_caps_naming(k1, ended)
        o2    == delete_outgoing_naming(o1, ended)
        live  == {t \in mine : RegionReap(h2[t]) = "RefuseAndArm"}
        busy  == \E t \in mine : RegionReap(h2[t]) # "Reap"
        orphans == UNION {CallersOf(k2, h2, t) : t \in mine}
        corpses == {t \in mine : h2[t].state = "Dead" /\ ~busy}
    IN  /\ eps' = eps \ gone
        /\ rv' = [e \in Ep |-> IF e \in gone THEN drain_waiters(rv[e])
                               ELSE Unlinked(ended, corpses)[e]]
        /\ killed' = killed \cup ended \cup live
        /\ IF busy
           THEN /\ hs' = h2 /\ caps' = k2 /\ outgoing_cap' = o2
                /\ UNCHANGED <<threads, pc, lost>>
           ELSE /\ hs' = [t \in Thread |-> IF t \in mine THEN embryo
                                           ELSE Aborted(h2, orphans)[t]]
                /\ caps' = [t \in Thread |-> IF t \in mine THEN {}
                              ELSE delete_reply_caps_naming(k2, orphans)[t]]
                /\ outgoing_cap' = drop_outgoing(o2, orphans \cup mine)
                /\ Forget(mine)
        /\ UNCHANGED <<seq, taken, cap_delivered, mailbox, refused, held>>

Next ==
    \/ \E t \in Thread :
         \/ \E e \in Ep : \/ \E op \in SendOp : ipc_send(t, e, op)
                          \/ \E op \in {"receive", "receive_cap"} : ipc_receive(t, e, op)
         \/ Return(t) \/ current_cap(t) \/ ipc_reply(t) \/ delete_current_cap(t)
         \/ cap_delete(t) \/ depart(t) \/ finish_killed_current(t)
         \/ FinishSwitch(t) \/ Dispatch(t)
    \/ \E e \in Ep : irq_notify(e)
    \/ \E r \in Region : reap_region_objects(r)

Spec == Init /\ [][Next]_vars

------------------------------------------------------------------------------
(* Safety.                                                                  *)

Parked(t) == t \in threads /\ hs[t].state = "Blocked" /\ ~is_delivered(hs[t])

\* Every thread linked on a wait queue is in the thread table, is parked on that
\* rendezvous (or is a corpse that left its death message there) and nothing has
\* been delivered to it: popping it and dereferencing it is safe.  The one
\* intrusive link of a thread is used once.
QueuedIsWaiting ==
    /\ \A e \in Ep : \A t \in Waiters(rv[e]) :
          /\ e \in eps /\ t \in threads
          /\ hs[t].wait_on # NoWait /\ hs[t].wait_on.ep = e
          /\ hs[t].wait_on.role = "Receiver" <=> t \in Range(rv[e].receivers)
          /\ Parked(t) \/ hs[t].state = "Dead"
    /\ \A e \in Ep : IsInjective(rv[e].senders) /\ IsInjective(rv[e].receivers)

\* A parked thread waits on a rendezvous that exists, and unless it has been
\* collected and awaits its reply it is on that rendezvous's queue: no teardown
\* leaves a thread blocked where nothing will ever find it.
ParkedIsFindable ==
    \A t \in Thread : Parked(t) =>
        /\ hs[t].wait_on.ep \in eps
        /\ hs[t].wait_on.role # "Reply" => t \in Waiters(rv[hs[t].wait_on.ep])

\* The two, with the types: the wait queues and the parked threads agree.
QueuesMatchParks == TypeOK /\ QueuedIsWaiting /\ ParkedIsFindable

\* A caller that awaits a reply can still be answered: it is queued with its Reply
\* capability in its hand-off slot, or a thread that has not departed holds the
\* capability.  The exceptions are the ones the code documents: the capability
\* was dropped by a full table, by a plain RECEIVE or by its holder.
ReplyHasAnswerer ==
    \A t \in Thread : Parked(t) /\ awaits_reply(hs[t]) =>
        \/ t \in lost
        \/ t \in Range(rv[hs[t].wait_on.ep].senders) /\ Names(outgoing_cap[t], {t})
        \/ \E s \in threads : hs[s].state # "Dead" /\ \E k \in caps[s] : Names(k, {t})

\* No unconsumed reply capability names a thread that has left its park
\* (delete_reply_caps_naming).  A capability is being consumed from ipc_reply to
\* delete_current_cap.
ReplyCapNamesParkedCaller ==
    \A s \in threads : \A k \in caps[s] :
        k.kind = "Reply" /\ ~(pc[s] = "replied" /\ held[s] = k)
            => Parked(k.from) /\ awaits_reply(hs[k.from])

\* t's system call op returns in this step.
Returns(t, op) == pc[t] = op /\ pc'[t] = "user" /\ t \in threads'

\* A CALL that reports success returns the reply to that very call (ipc_reply).
CallGetsItsOwnReply ==
    [][\A t \in Thread : Returns(t, "call") /\ ~hs[t].ipc_aborted
          => mailbox[t].kind = "reply" /\ mailbox[t].n = seq[t]]_vars

\* A SEND or SEND_CAP reports success exactly when its message reached a receiver:
\* the abort flag it reads is never a stale one (take_ipc_aborted).
SendReportsTruth ==
    [][\A t \in Thread : Returns(t, "send") \/ Returns(t, "send_cap")
          => (~hs[t].ipc_aborted <=> taken[t])]_vars

\* A capability travels with the message it was sent with and with no other: one
\* is in a thread's hand-off slot only while that thread is parked in the operation
\* it was put there for, and a woken RECEIVE_CAP reports a slot exactly when the
\* message it was woken with brought one (outgoing_cap, cap_delivered).
CapTravelsWithItsMessage ==
    [][/\ \A t \in threads' : outgoing_cap'[t] # NoCap =>
             /\ Parked(t)' /\ pc'[t] \in {"send_cap", "call"}
             /\ outgoing_cap'[t].n = seq'[t]
       /\ \A t \in Thread : Returns(t, "receive_cap") /\ ~hs[t].ipc_aborted
             => (cap_delivered[t] <=> mailbox[t].kind \in {"send_cap", "call"})]_vars

------------------------------------------------------------------------------
(* Liveness.  The kernel's own steps are fair: the one step a thread has    *)
(* ahead of it in a system call (a deferred wake completes, a Ready thread  *)
(* is switched in, the call goes on and ends) is taken; a tick that finds a *)
(* killed thread in user mode is taken as soon as interrupts are enabled    *)
(* (hence strong fairness); and the owner of a region retries DESTROY.      *)
(* User programs owe nothing.                                               *)
KernelStep(t) ==
    FinishSwitch(t) \/ Dispatch(t) \/ Return(t) \/ ipc_reply(t) \/ delete_current_cap(t)

Fairness ==
    /\ \A t \in Thread : WF_vars(KernelStep(t)) /\ SF_vars(finish_killed_current(t))
    /\ \A r \in Region : WF_vars(reap_region_objects(r))

FairSpec == Spec /\ Fairness

\* Retried DESTROY ends: every thread of the region leaves the thread table, even
\* one that blocks for ever on a rendezvous of somebody else (FinishInPlace).
RegionEmpties == <>(\A r \in Region : threads \cap ThreadIn[r] = {})

\* Nobody stays in an operation on a rendezvous of a region that is destroyed: the
\* waiters and the callers awaiting a reply return (drain_waiters,
\* strand_callers_awaiting).
TeardownFreesWaiters ==
    \A t \in Thread :
        (Parked(t) /\ \E r \in Region : hs[t].wait_on.ep \in EpIn[r])
            ~> (t \notin threads \/ pc[t] = "user")
==============================================================================
