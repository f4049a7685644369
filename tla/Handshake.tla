------------------------------ MODULE Handshake ------------------------------
(***************************************************************************)
(* The block/wake/switch-out handshake of one thread, as pure transitions  *)
(* on a record (src/crates/thread_wake_handshake/src/lib.rs).  The kernel  *)
(* calls each of these with the lock IPC_TABLES held, so a module that     *)
(* uses them makes one call, together with what else happens under that    *)
(* hold of the lock, one atomic action.                                    *)
(***************************************************************************)

CONSTANT NoWait        \* wait_on = None

\* The states of RunState.
RunState == {"Embryo", "Ready", "Running", "Blocked", "Dead", "Finished"}

\* All values of struct Handshake whose wait_on is NoWait or in W.
HandshakeOf(W) ==
    [state : RunState, on_cpu : BOOLEAN, wake_pending : BOOLEAN,
     wait_on : W \cup {NoWait}, ipc_served : BOOLEAN, ipc_aborted : BOOLEAN]

\* A handshake in state s with every flag clear but on_cpu.
Fresh(s, standing) ==
    [state |-> s, on_cpu |-> standing, wake_pending |-> FALSE,
     wait_on |-> NoWait, ipc_served |-> FALSE, ipc_aborted |-> FALSE]

on_cpu_now == Fresh("Running", TRUE)
ready      == Fresh("Ready", FALSE)
embryo     == Fresh("Embryo", FALSE)

------------------------------------------------------------------------------
\* park leaves ipc_aborted as it is: the resumed thread consumes it itself.
park(h, w) ==
    [h EXCEPT !.state = "Blocked", !.wait_on = w, !.ipc_served = FALSE]

serve(h) == [h EXCEPT !.ipc_served = TRUE]

abort(h) == [h EXCEPT !.ipc_aborted = TRUE]

is_delivered(h) == h.ipc_served \/ h.ipc_aborted

\* The clearing half of take_aborted; the value it returns is h.ipc_aborted.
take_aborted(h) == [h EXCEPT !.ipc_aborted = FALSE]

\* Mutant: no check that the thread's context is saved.
WakeVerdict_ignores_on_cpu(h) ==
    IF h.state # "Blocked" THEN "NotBlocked"
    ELSE IF h.wait_on # NoWait /\ ~is_delivered(h) THEN "Refused"
    ELSE "Queue"

\* Mutant: no check that anything was delivered.
WakeVerdict_ungated(h) ==
    IF h.state # "Blocked" THEN "NotBlocked"
    ELSE IF h.on_cpu THEN "Deferred"
    ELSE "Queue"

WakeVerdict(h) ==
    IF h.state # "Blocked" THEN "NotBlocked"
    ELSE IF h.wait_on # NoWait /\ ~is_delivered(h) THEN "Refused"
    ELSE IF h.on_cpu THEN "Deferred"
    ELSE "Queue"

\* Mutant: a wake that finds the thread on its CPU is dropped.
try_wake_drops_deferred(h) ==
    IF WakeVerdict(h) = "Queue" THEN [h EXCEPT !.state = "Ready", !.wait_on = NoWait]
    ELSE h

try_wake(h) ==
    CASE WakeVerdict(h) = "Deferred" -> [h EXCEPT !.wake_pending = TRUE]
      [] WakeVerdict(h) = "Queue"    -> [h EXCEPT !.state = "Ready",
                                                  !.wait_on = NoWait]
      [] OTHER                       -> h

------------------------------------------------------------------------------
\* What switch_in asserts of the thread it is given.
switch_in_asserts(h) == ~h.on_cpu /\ h.state \in {"Ready", "Running"}

switch_in(h) == [h EXCEPT !.state = "Running", !.on_cpu = TRUE]

\* A preempted thread is Ready at once but stands on its CPU until finish_switch.
preempt(h) == [h EXCEPT !.state = "Ready"]

\* Mutant: switching out never looks at wake_pending.
SwitchOutVerdict_no_wake(h) == IF h.state = "Finished" THEN "Reap" ELSE "Cleared"

SwitchOutVerdict(h) ==
    IF h.state = "Finished" THEN "Reap"
    ELSE IF h.wake_pending THEN "WakeCompleted"
    ELSE "Cleared"

finish_switch(h) ==
    CASE SwitchOutVerdict(h) = "Reap"          -> h
      [] SwitchOutVerdict(h) = "WakeCompleted" ->
            [h EXCEPT !.on_cpu = FALSE, !.wake_pending = FALSE,
                      !.state = "Ready", !.wait_on = NoWait]
      [] OTHER                                 -> [h EXCEPT !.on_cpu = FALSE]
==============================================================================
