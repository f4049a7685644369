------------------------------ MODULE Rendezvous ------------------------------
(***************************************************************************)
(* One rendezvous: two wait queues and a count of undelivered interrupt    *)
(* signals, as pure transitions on a record                                *)
(* (src/crates/inter_process_communication/src/lib.rs).  The queues are    *)
(* intrusive lists of thread control blocks; an entry here is the thread's *)
(* name.  The kernel calls each operation with the lock IPC_TABLES held.   *)
(***************************************************************************)
EXTENDS Naturals, Sequences, Functions, FiniteSets

\* All values of struct Rendezvous over threads T and at most n signals.
RendezvousOf(T, n) ==
    [senders : Seq(T), receivers : Seq(T), pending : 0..n,
     bound_to_interrupt : BOOLEAN]

new_rendezvous(bound) ==
    [senders |-> <<>>, receivers |-> <<>>, pending |-> 0,
     bound_to_interrupt |-> bound]

\* The threads blocked on r: what drain_waiters hands back, and what is_idle
\* says there is none of.
Waiters(r) == Range(r.senders) \cup Range(r.receivers)

\* drain_waiters: both queues are emptied, the signals stay.
drain_waiters(r) == [r EXCEPT !.senders = <<>>, !.receivers = <<>>]

\* The queue q without the members of S; the order of the others is kept: the p-th
\* is the one that p places up to its own are kept.
Without(q, S) ==
    LET kept     == {i \in DOMAIN q : q[i] \notin S}
        Place(i) == Cardinality({j \in kept : j <= i})
    IN  [p \in 1..Cardinality(kept) |-> q[CHOOSE i \in kept : Place(i) = p]]

\* remove_sender and remove_receiver: one waiter leaves its queue and the order
\* of the others is kept.
remove_sender(r, t) ==
    [r EXCEPT !.senders = Without(@, {t})]

remove_receiver(r, t) ==
    [r EXCEPT !.receivers = Without(@, {t})]

------------------------------------------------------------------------------
\* Which arm of enum Send a send takes.
SendVerdict(r) ==
    IF r.bound_to_interrupt THEN "Refused"
    ELSE IF r.receivers # <<>> THEN "Rendezvous"
    ELSE "Blocked"

send(r, t) ==
    CASE SendVerdict(r) = "Rendezvous" -> [r EXCEPT !.receivers = Tail(@)]
      [] SendVerdict(r) = "Blocked"    -> [r EXCEPT !.senders = Append(@, t)]
      [] OTHER                         -> r

\* Which arm of enum Receive a receive takes: a pending signal comes before a
\* queued sender.
ReceiveVerdict(r) ==
    IF r.pending > 0 THEN "Signal"
    ELSE IF r.senders # <<>> THEN "FromSender"
    ELSE "Blocked"

receive(r, t) ==
    CASE ReceiveVerdict(r) = "Signal"     -> [r EXCEPT !.pending = @ - 1]
      [] ReceiveVerdict(r) = "FromSender" -> [r EXCEPT !.senders = Tail(@)]
      [] OTHER                            -> [r EXCEPT !.receivers = Append(@, t)]

\* signal: wake a waiting receiver or count the interrupt, up to the limit of
\* the counter (saturating_add).
signal(r, limit) ==
    IF r.receivers # <<>> THEN [r EXCEPT !.receivers = Tail(@)]
    ELSE [r EXCEPT !.pending = IF @ < limit THEN @ + 1 ELSE @]
==============================================================================
