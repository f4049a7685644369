------------------------------ MODULE LiveSwap ------------------------------
(***************************************************************************)
(* Live replacement of a component: the operator (components/src/swapper), *)
(* the component's serving loops (crates/swap_protocol), the queue broker  *)
(* (components/src/broker) and the client (fixtures/src/chatty).           *)
(*                                                                         *)
(* The processes share nothing but synchronous endpoints, one witness page *)
(* (log), one handoff page (blob), one warning page and one bound signal.  *)
(* A SEND blocks its sender until the message is received, a CALL until it *)
(* is answered.  A process runs on from one blocking call to the next in   *)
(* one step, except where another process can see a step in between.       *)
(*                                                                         *)
(* role says which of the operator's programs runs:                        *)
(*   "direct"    quiesce, take the device back, start the replacement      *)
(*   "hung"      the same against an incumbent that stopped answering      *)
(*   "handoff"   the component's state is carried over, on the second try  *)
(*   "on_time", "never", "late"                                            *)
(*               a broker stands between client and component; it is       *)
(*               warned before the swap, not at all, or after it           *)
(***************************************************************************)
EXTENDS Naturals, Sequences, SequencesExt, FiniteSets

CONSTANTS
    Role,           \* the programs to run, a subset of those above
    REQUESTS,       \* the requests of one conversation
    SWAP_TRIGGER,   \* requests served before the incumbent asks to be swapped
    WEDGE_SEQ,      \* the request the hung incumbent never answers
    CAPACITY        \* the depth of the broker's backlog

ASSUME SwapAssumption ==
    /\ Role \subseteq {"direct", "hung", "handoff", "on_time", "never", "late"}
    /\ SWAP_TRIGGER \in Nat \ {0} /\ CAPACITY \in Nat \ {0}
    /\ WEDGE_SEQ \in SWAP_TRIGGER .. REQUESTS - 1
    /\ REQUESTS > 2 * SWAP_TRIGGER

V1 == 1
V2 == 2
Instance == {"v1", "refuser", "v2"}
Proc     == Instance \cup {"operator", "client", "usurper", "broker"}
Endpoint == {"svc", "front", "note", "poke", "replacement_control"}
NOBODY   == "nobody"

VARIABLES
    role,
    pc,         \* pc[p]: where process p goes on
    blocked,    \* the processes inside a SEND or a CALL
    queue,      \* queue[e]: the sender queue of endpoint e
    answer,     \* answer[p]: what the last CALL of p returned
    slot,       \* slot[p]: the caller whose Reply capability p holds, or NOBODY
    seq,        \* the client: the request it is at
    full,       \* the client: the requests answered QUEUE_FULL
    served,     \* served[i]: requests served since i (re)started
    tally,      \* tally[i]: the state of a stateful instance
    log,        \* the witness page: <<request, version>> in the order served
    blob,       \* the handoff page: <<layout, tally>>, or <<>> when zeroed
    device,     \* the instances that map the device registers
    warning,    \* the warning page: WANT_UP or WANT_DOWN
    signal,     \* the broker's bound notification counts a signal
    up,         \* the broker passes requests through
    backlog,    \* the broker's Queue
    got,        \* the request the broker is at: a message, or <<>>
    step,       \* the operator: the index of the step it is at
    corpses,    \* the deaths reported on the supervision endpoint: <<process, event>>
    standing,   \* the dead whose core has not switched off their stack yet
    collected   \* the corpses the operator has reaped

ipcVars    == <<pc, blocked, queue, answer, slot>>
clientVars == <<seq, full>>
instVars   == <<served, tally, log, blob>>
brokerVars == <<up, backlog, got>>
opVars     == <<step, device, warning>>
deathVars  == <<corpses, standing, collected>>
vars == <<role, ipcVars, clientVars, instVars, brokerVars, opVars, signal, deathVars>>

Queued == role \in {"on_time", "never", "late"}

-----------------------------------------------------------------------------
(* The operator's programs, step by step.  Building a process that is not  *)
(* started, the reports to the record and the read-only survey of a hung   *)
(* component change nothing here and are left out.                         *)

\* drain() and the first half of retire(): quiesce whoever serves svc.
Drain == <<<<"call", "svc">>, <<"quiesced">>>>

\* retire(): quiesce the replacement, let it go, and collect it.
Retire(control, corpse) == Drain \o <<<<"send", control, "QUIT">>, <<"reap", corpse>>>>

\* warn_broker(): the page first, the signal after it.
WarnBroker(want) == <<<<"warn", want>>, <<"signal">>>>

\* The replacement gets the registers and is started.
Replace == <<<<"map_device", "v2">>, <<"start", "v2">>>>

\* Mutant: the replacement is started before the incumbent is quiesced.
DirectProgram_starts_first ==
    <<<<"start", "v1">>, <<"start", "client">>, <<"expect", "SWAP_NOW">>>>
    \o Replace \o Drain \o <<<<"revoke">>, <<"expect", "CLIENT_DONE">>>>

DirectProgram ==
    <<<<"start", "v1">>, <<"start", "client">>, <<"expect", "SWAP_NOW">>>>
    \o Drain \o <<<<"revoke">>>> \o Replace
    \o <<<<"send", "poke", "PROBE">>, <<"fault">>, <<"expect", "CLIENT_DONE">>,
         <<"reap", 2>>, <<"start", "usurper">>, <<"expect", "ATTACK_DONE">>,
         <<"reap", 3>>>>
    \o Retire("poke", 4)

\* Mutant: the operator waits for the client before it answers the incumbent.
HungProgram_waits_first ==
    <<<<"start", "v1">>, <<"start", "client">>, <<"expect", "SWAP_NOW">>,
      <<"wedged">>, <<"revoke">>>> \o Replace
    \o <<<<"expect", "CLIENT_DONE">>, <<"release">>, <<"fault">>, <<"reap", 2>>>>
    \o Retire("poke", 3)

HungProgram ==
    <<<<"start", "v1">>, <<"start", "client">>, <<"expect", "SWAP_NOW">>,
      <<"wedged">>, <<"revoke">>>> \o Replace
    \o <<<<"release">>, <<"fault">>, <<"expect", "CLIENT_DONE">>, <<"reap", 2>>>>
    \o Retire("poke", 3)

HandoffProgram ==
    <<<<"start", "v1">>, <<"start", "client">>, <<"expect", "SWAP_NOW">>>>
    \o Drain \o <<<<"start", "refuser">>, <<"expect", "REFUSED">>, <<"exited">>,
                  <<"send", "poke", "RESUME">>, <<"expect", "SWAP_NOW">>>>
    \o Drain \o <<<<"start", "v2">>, <<"expect", "ABSORBED">>,
                  <<"send", "poke", "QUIT">>, <<"expect", "CLIENT_DONE">>,
                  <<"reap", 3>>>>
    \o Retire("replacement_control", 4)

QueuedProgram(warn) ==
    <<<<"start", "v1">>, <<"start", "broker">>, <<"start", "client">>,
      <<"expect", "SWAP_NOW">>>>
    \o (IF warn = "on_time" THEN WarnBroker("DOWN") ELSE <<>>)
    \o Drain \o <<<<"send", "poke", "QUIT">>, <<"reap", 1>>, <<"start", "v2">>>>
    \o (IF warn = "on_time" THEN WarnBroker("UP")
        ELSE IF warn = "late" THEN WarnBroker("DOWN") \o WarnBroker("UP")
        ELSE <<>>)
    \o <<<<"expect", "CLIENT_DONE">>, <<"reap", 2>>, <<"call", "front">>,
         <<"expect", "BROKER_DONE">>, <<"reap", 3>>>>
    \o Retire("poke", 4)

Program ==
    CASE role = "direct"  -> DirectProgram
      [] role = "hung"    -> HungProgram
      [] role = "handoff" -> HandoffProgram
      [] OTHER            -> QueuedProgram(role)

-----------------------------------------------------------------------------
(* Synchronous rendezvous, as the kernel gives it.                         *)

Message(p, op, arg) == [from |-> p, op |-> op, arg |-> arg]

\* SEND and CALL: onto the endpoint's sender queue, blocked.
Send(p, e, op, arg) ==
    /\ queue' = [queue EXCEPT ![e] = Append(@, Message(p, op, arg))]
    /\ blocked' = blocked \cup {p}

\* RECEIVE of a SEND: the sender goes on.
Receive(e) ==
    /\ queue' = [queue EXCEPT ![e] = Tail(@)]
    /\ blocked' = blocked \ {Head(queue[e]).from}

\* The one-shot Reply capability of a caller is used.
Answer(p, value) == answer' = [answer EXCEPT ![p] = value]

Goto(p, where) == pc' = [pc EXCEPT ![p] = where]

\* exit and fault: the kernel answers the caller whose Reply capability p still
\* holds with Error::Gone, and reports the death on the supervision endpoint.
\* The core that ran p is still on its stack.
Die(p, event) ==
    LET stranded == {slot[p]} \ {NOBODY} IN
    /\ Goto(p, "dead")
    /\ answer' = [q \in Proc |-> IF q \in stranded THEN <<"Gone">> ELSE answer[q]]
    /\ blocked' = blocked \ stranded
    /\ slot' = [slot EXCEPT ![p] = NOBODY]
    /\ corpses' = Append(corpses, <<p, event>>)
    /\ standing' = standing \cup {p}

\* finish_switch() on the core that ran p.
SwitchOff(p) ==
    /\ p \in standing
    /\ standing' = standing \ {p}
    /\ UNCHANGED <<role, ipcVars, clientVars, instVars, brokerVars, opVars, signal,
                   corpses, collected>>

At(p, where) == pc[p] = where /\ p \notin blocked

-----------------------------------------------------------------------------
Init ==
    /\ role \in Role
    /\ pc = [p \in Proc |-> IF p = "operator" THEN "run" ELSE "unstarted"]
    /\ blocked = {}
    /\ queue = [e \in Endpoint |-> <<>>]
    /\ answer = [p \in Proc |-> <<"none">>]
    /\ slot = [p \in Proc |-> NOBODY]
    /\ seq = 0 /\ full = {}
    /\ served = [i \in Instance |-> 0] /\ tally = [i \in Instance |-> 0]
    /\ log = <<>> /\ blob = <<>>
    /\ device = IF role \in {"direct", "hung"} THEN {"v1"} ELSE {}
    /\ warning = "UP" /\ signal = FALSE
    /\ up = TRUE /\ backlog = <<>> /\ got = <<>>
    /\ step = 1 /\ corpses = <<>> /\ standing = {} /\ collected = 0

-----------------------------------------------------------------------------
(* The operator.                                                           *)

OpAt(kind) ==
    /\ At("operator", "run")
    /\ step \in DOMAIN Program
    /\ Program[step][1] = kind

Op(i) == Program[step][i]

StepDone == step' = step + 1

\* bail(): the operator traps.
Bail == pc' = [pc EXCEPT !["operator"] = "bailed"] /\ UNCHANGED step

\* start_child, start_bound and launch.
OpStart ==
    /\ OpAt("start")
    /\ Goto(Op(2), "start")
    /\ StepDone
    /\ UNCHANGED <<role, blocked, queue, answer, slot, clientVars, instVars, brokerVars,
                   device, warning, signal, deathVars>>

\* A CALL of OPERATION_QUIESCE.
OpCall ==
    /\ OpAt("call")
    /\ Send("operator", Op(2), "QUIESCE", 0)
    /\ StepDone
    /\ UNCHANGED <<role, pc, answer, slot, clientVars, instVars, brokerVars, device,
                   warning, signal, deathVars>>

\* The verdict of the QUIESCE call.
OpQuiesced ==
    /\ OpAt("quiesced")
    /\ IF answer["operator"] = <<"QUIESCED">> THEN StepDone /\ UNCHANGED pc ELSE Bail
    /\ UNCHANGED <<role, blocked, queue, answer, slot, clientVars, instVars, brokerVars,
                   device, warning, signal, deathVars>>

\* A SEND on a control endpoint.
OpSend ==
    /\ OpAt("send")
    /\ Send("operator", Op(2), Op(3), 0)
    /\ StepDone
    /\ UNCHANGED <<role, pc, answer, slot, clientVars, instVars, brokerVars, device,
                   warning, signal, deathVars>>

\* expect_note, and the RECEIVEs of NOTE_REFUSED and NOTE_ABSORBED.
OpExpect ==
    /\ OpAt("expect")
    /\ queue["note"] # <<>>
    /\ Receive("note")
    /\ IF Head(queue["note"]).op = Op(2) THEN StepDone /\ UNCHANGED pc ELSE Bail
    /\ UNCHANGED <<role, answer, slot, clientVars, instVars, brokerVars, device, warning,
                   signal, deathVars>>

\* The RECEIVE_CAP that takes NOTE_WEDGED and keeps its Reply capability.
OpWedged ==
    /\ OpAt("wedged")
    /\ queue["note"] # <<>>
    /\ IF Head(queue["note"]).op = "WEDGED"
       THEN /\ queue' = [queue EXCEPT !["note"] = Tail(@)]
            /\ slot' = [slot EXCEPT !["operator"] = Head(queue["note"]).from]
            /\ StepDone /\ UNCHANGED <<blocked, pc>>
       ELSE Receive("note") /\ Bail /\ UNCHANGED slot
    /\ UNCHANGED <<role, answer, clientVars, instVars, brokerVars, device,
                   warning, signal, deathVars>>

\* The reply NOTE_RELEASE, which lets the hung incumbent go.
OpRelease ==
    /\ OpAt("release")
    /\ Answer(slot["operator"], <<"RELEASE">>)
    /\ blocked' = blocked \ {slot["operator"]}
    /\ slot' = [slot EXCEPT !["operator"] = NOBODY]
    /\ StepDone
    /\ UNCHANGED <<role, pc, queue, clientVars, instVars, brokerVars, device,
                   warning, signal, deathVars>>

\* revoke_frame(DEVICE): every other holder loses the mapping.
OpRevoke ==
    /\ OpAt("revoke")
    /\ device' = {}
    /\ StepDone
    /\ UNCHANGED <<role, ipcVars, clientVars, instVars, brokerVars, warning, signal,
                   deathVars>>

\* map_into: the replacement gets the registers.
OpMapDevice ==
    /\ OpAt("map_device")
    /\ device' = device \cup {Op(2)}
    /\ StepDone
    /\ UNCHANGED <<role, ipcVars, clientVars, instVars, brokerVars, warning, signal,
                   deathVars>>

\* warn_broker, the write of the warning page.
OpWarn ==
    /\ OpAt("warn")
    /\ warning' = Op(2)
    /\ StepDone
    /\ UNCHANGED <<role, ipcVars, clientVars, instVars, brokerVars, device, signal,
                   deathVars>>

\* warn_broker, the signal.
OpSignal ==
    /\ OpAt("signal")
    /\ signal' = TRUE
    /\ StepDone
    /\ UNCHANGED <<role, ipcVars, clientVars, instVars, brokerVars, device, warning,
                   deathVars>>

\* collect_corpse has the next death, in the loops of reap_to and wait_for_fault
\* and once in handoff().
OpHasDeath ==
    /\ OpAt("reap") \/ OpAt("fault") \/ OpAt("exited")
    /\ ~(Op(1) = "reap" /\ collected >= Op(2))
    /\ corpses # <<>>

\* collect_corpse, granted; handoff() bails if the refuser faulted.
OpCollect ==
    /\ OpHasDeath
    /\ Head(corpses)[1] \notin standing
    /\ corpses' = Tail(corpses)
    /\ collected' = collected + 1
    /\ LET fault == Head(corpses)[2] = "fault" IN
       CASE Op(1) = "reap" -> UNCHANGED <<step, pc>>
         [] Op(1) = "fault" -> step' = (IF fault THEN step + 1 ELSE step) /\ UNCHANGED pc
         [] Op(1) = "exited" -> IF fault THEN Bail ELSE StepDone /\ UNCHANGED pc
    /\ UNCHANGED <<role, blocked, queue, answer, slot, clientVars, instVars, brokerVars,
                   device, warning, signal, standing>>

\* collect_corpse, refused: the dead thread's core still stands on its stack, REAP
\* says "not yet", and the operator takes that for a failure: bail(27).
OpReapRefused ==
    /\ OpHasDeath
    /\ Head(corpses)[1] \in standing
    /\ corpses' = Tail(corpses)
    /\ Goto("operator", "reap_refused")
    /\ UNCHANGED <<role, blocked, queue, answer, slot, clientVars, instVars, brokerVars,
                   opVars, signal, standing, collected>>

\* reap_to returns.
OpReaped ==
    /\ OpAt("reap")
    /\ collected >= Op(2)
    /\ StepDone
    /\ UNCHANGED <<role, ipcVars, clientVars, instVars, brokerVars, device, warning,
                   signal, deathVars>>

Operator ==
    \/ OpStart \/ OpCall \/ OpQuiesced \/ OpSend \/ OpExpect \/ OpWedged \/ OpRelease
    \/ OpRevoke \/ OpMapDevice \/ OpWarn \/ OpSignal \/ OpCollect \/ OpReapRefused
    \/ OpReaped

-----------------------------------------------------------------------------
(* The client: converse() and produce() differ in the endpoint they hold.  *)

ServiceEndpoint == IF Queued THEN "front" ELSE "svc"

ClientUnchanged == UNCHANGED <<role, instVars, brokerVars, opVars, signal>>

\* The next request, or the end of the conversation.
ClientAsk ==
    /\ pc["client"] \in {"start", "ask"} /\ "client" \notin blocked
    /\ IF seq < REQUESTS
       THEN Send("client", ServiceEndpoint, "PUT", seq) /\ Goto("client", "answered")
       ELSE Send("client", "note", "CLIENT_DONE", 0) /\ Goto("client", "exit")
    /\ ClientUnchanged /\ UNCHANGED <<answer, slot, clientVars, deathVars>>

\* The answer.  A released caller asks again.
ClientAnswered ==
    /\ At("client", "answered")
    /\ IF answer["client"] = <<"RELEASED">>
       THEN /\ Send("client", ServiceEndpoint, "PUT", seq)
            /\ UNCHANGED <<pc, clientVars>>
       ELSE /\ seq' = seq + 1
            /\ full' = IF answer["client"] = <<"QUEUE_FULL">> THEN full \cup {seq} ELSE full
            /\ Goto("client", "ask")
            /\ UNCHANGED <<queue, blocked>>
    /\ ClientUnchanged /\ UNCHANGED <<answer, slot, deathVars>>

\* usurp(): the receive is refused for want of the right, and it says so.
UsurperTries ==
    /\ At("usurper", "start")
    /\ Send("usurper", "note", "ATTACK_DONE", 0)
    /\ Goto("usurper", "exit")
    /\ ClientUnchanged /\ UNCHANGED <<answer, slot, clientVars, deathVars>>

\* exit(), after the last blocking call of a process.
Exit(p) ==
    /\ At(p, "exit")
    /\ Die(p, "exit")
    /\ ClientUnchanged
    /\ UNCHANGED <<queue, clientVars, collected>>

-----------------------------------------------------------------------------
(* The component: serve() and serve_with_state().                          *)

Stateful == role = "handoff"
HasDevice == role \in {"direct", "hung"}
Version(i) == IF i = "v1" THEN V1 ELSE V2

\* The handoff layout an instance was started to understand.
Layout(i) == IF i = "refuser" THEN 2 ELSE 1

Control(i) == IF Stateful /\ i # "v1" THEN "replacement_control" ELSE "poke"

InstUnchanged == UNCHANGED <<role, clientVars, brokerVars, opVars, signal, collected>>

\* absorb(): whether the blob is one this instance reads, and the tally in it.
absorb(i) == <<blob # <<>> /\ blob[1] = Layout(i), blob[2]>>

\* The start of an instance: the first probe of the device, or the absorption
\* of the handoff page, which ends a refuser.
InstStart(i) ==
    /\ At(i, "start")
    /\ IF HasDevice /\ i \notin device
       THEN Die(i, "fault") /\ UNCHANGED <<queue, tally>>
       ELSE /\ IF Stateful /\ i # "v1"
               THEN IF absorb(i)[1]
                    THEN /\ tally' = [tally EXCEPT ![i] = absorb(i)[2]]
                         /\ Send(i, "note", "ABSORBED", 0)
                         /\ Goto(i, "receive")
                    ELSE /\ Send(i, "note", "REFUSED", 0)
                         /\ Goto(i, "exit")
                         /\ UNCHANGED tally
               ELSE Goto(i, "receive") /\ UNCHANGED <<queue, blocked, tally>>
            /\ UNCHANGED <<answer, slot, corpses, standing>>
    /\ InstUnchanged /\ UNCHANGED <<served, log, blob>>

\* The second word of an answer: the request's number, or the tally so far.
Echo(i, m) == IF Stateful THEN tally[i] ELSE m.arg

\* OPERATION_PUT: log, answer, count.
Serve(i, m) ==
    /\ log' = Append(log, <<m.arg, Version(i)>>)
    /\ Answer(m.from, <<"served", Version(i), Echo(i, m)>>)
    /\ blocked' = blocked \ {m.from}
    /\ queue' = [queue EXCEPT !["svc"] = Tail(@)]
    /\ served' = [served EXCEPT ![i] = @ + 1]
    /\ tally' = [tally EXCEPT ![i] = @ + 1]
    /\ Goto(i, IF served[i] + 1 = SWAP_TRIGGER /\ Version(i) = V1 THEN "tell" ELSE "receive")
    /\ UNCHANGED <<slot, blob>>

\* NOTE_SWAP_NOW, sent after the reply.
InstTell(i) ==
    /\ At(i, "tell")
    /\ Send(i, "note", "SWAP_NOW", 0)
    /\ Goto(i, "receive")
    /\ InstUnchanged /\ UNCHANGED <<answer, slot, instVars, corpses, standing>>

\* The request the hung incumbent takes and does not answer: a CALL to the
\* operator, with the caller's Reply capability kept.
Wedge(i, m) ==
    /\ slot' = [slot EXCEPT ![i] = m.from]
    /\ queue' = [queue EXCEPT !["svc"] = Tail(@),
                              !["note"] = Append(@, Message(i, "WEDGED", 0))]
    /\ blocked' = blocked \cup {i}
    /\ Goto(i, "wedged")
    /\ UNCHANGED <<answer, served, tally, log, blob>>

\* OPERATION_QUIESCE: the blob first, so that the answer is its receipt.
Quiesce(i, m) ==
    /\ blob' = IF Stateful THEN <<Layout(i), tally[i]>> ELSE blob
    /\ Answer(m.from, <<"QUIESCED">>)
    /\ blocked' = blocked \ {m.from}
    /\ queue' = [queue EXCEPT !["svc"] = Tail(@)]
    /\ Goto(i, "quiesced")
    /\ UNCHANGED <<slot, served, tally, log>>

InstReceive(i) ==
    /\ At(i, "receive")
    /\ queue["svc"] # <<>>
    /\ LET m == Head(queue["svc"]) IN
          \/ m.op = "QUIESCE" /\ Quiesce(i, m)
          \/ /\ m.op = "PUT"
             /\ IF role = "hung" /\ i = "v1" /\ m.arg = WEDGE_SEQ THEN Wedge(i, m)
                ELSE Serve(i, m)
    /\ InstUnchanged /\ UNCHANGED <<corpses, standing>>

\* The operator answered: the caller first, then the device.
InstReleased(i) ==
    /\ At(i, "wedged")
    /\ Answer(slot[i], <<"RELEASED">>)
    /\ blocked' = blocked \ {slot[i]}
    /\ slot' = [slot EXCEPT ![i] = NOBODY]
    /\ Goto(i, "probe")
    /\ InstUnchanged /\ UNCHANGED <<queue, instVars, corpses, standing>>

\* A quiesced instance hears what to do next.
InstPoked(i) ==
    /\ At(i, "quiesced")
    /\ queue[Control(i)] # <<>>
    /\ Receive(Control(i))
    /\ LET what == Head(queue[Control(i)]).op IN
          /\ Goto(i, IF what = "RESUME" /\ Stateful THEN "receive"
                     ELSE IF what = "PROBE" /\ HasDevice THEN "probe" ELSE "exit")
          /\ served' = IF what = "RESUME" THEN [served EXCEPT ![i] = 0] ELSE served
    /\ InstUnchanged /\ UNCHANGED <<answer, slot, tally, log, blob, corpses, standing>>

\* The last touch of the device: a fault when it has been revoked.
InstProbe(i) ==
    /\ At(i, "probe")
    /\ Die(i, IF i \in device THEN "exit" ELSE "fault")
    /\ InstUnchanged /\ UNCHANGED <<queue, instVars>>

InstanceStep(i) ==
    \/ InstStart(i) \/ InstReceive(i) \/ InstTell(i)
    \/ InstReleased(i) \/ InstPoked(i) \/ InstProbe(i)

-----------------------------------------------------------------------------
(* The broker.                                                             *)

BrokerUnchanged == UNCHANGED <<role, slot, clientVars, instVars, opVars, deathVars>>

\* receive_request_bound: a counted signal is taken before a queued sender.
BrokerReceive ==
    /\ pc["broker"] \in {"start", "receive"} /\ "broker" \notin blocked
    /\ \/ /\ signal
          /\ signal' = FALSE
          /\ got' = <<>>
          /\ UNCHANGED queue
       \/ /\ ~signal /\ queue["front"] # <<>>
          /\ got' = <<Head(queue["front"])>>
          /\ queue' = [queue EXCEPT !["front"] = Tail(@)]
          /\ UNCHANGED signal
    /\ Goto("broker", "look")
    /\ BrokerUnchanged /\ UNCHANGED <<blocked, answer, up, backlog>>

\* broker_wants_down(), read on every wakeup.
BrokerLook ==
    /\ At("broker", "look")
    /\ up' = (up /\ warning # "DOWN")
    /\ Goto("broker", IF warning = "UP" /\ ~up THEN "drain" ELSE "handle")
    /\ BrokerUnchanged /\ UNCHANGED <<blocked, queue, answer, backlog, got, signal>>

\* Mutant: the newest item of the backlog first.
BrokerDrain_newest_first ==
    /\ At("broker", "drain")
    /\ IF backlog = <<>>
       THEN up' = TRUE /\ Goto("broker", "handle") /\ UNCHANGED <<queue, blocked, backlog>>
       ELSE /\ Send("broker", "svc", "PUT", Last(backlog))
            /\ backlog' = Front(backlog)
            /\ UNCHANGED <<up, pc>>
    /\ BrokerUnchanged /\ UNCHANGED <<answer, got, signal>>

\* The backlog goes to the backend in arrival order, one CALL at a time.
BrokerDrain ==
    /\ At("broker", "drain")
    /\ IF backlog = <<>>
       THEN up' = TRUE /\ Goto("broker", "handle") /\ UNCHANGED <<queue, blocked, backlog>>
       ELSE /\ Send("broker", "svc", "PUT", Head(backlog))
            /\ backlog' = Tail(backlog)
            /\ UNCHANGED <<up, pc>>
    /\ BrokerUnchanged /\ UNCHANGED <<answer, got, signal>>

\* Mutant: a full queue still says that it took the request.
BrokerTakes_when_full(m) ==
    /\ backlog' = IF Len(backlog) < CAPACITY THEN Append(backlog, m.arg) ELSE backlog
    /\ Answer(m.from, <<"ACCEPTED">>)

\* Queue::push, and the answer that says whether the request was taken.
BrokerTakes(m) ==
    IF Len(backlog) < CAPACITY
    THEN backlog' = Append(backlog, m.arg) /\ Answer(m.from, <<"ACCEPTED">>)
    ELSE Answer(m.from, <<"QUEUE_FULL">>) /\ UNCHANGED backlog

\* The request, once the warning has been looked at.
BrokerHandle ==
    /\ At("broker", "handle")
    /\ \/ /\ got = <<>>
          /\ Goto("broker", "receive")
          /\ UNCHANGED <<blocked, queue, answer, backlog>>
       \/ /\ got # <<>> /\ got[1].op = "PUT" /\ up
          /\ Send("broker", "svc", "PUT", got[1].arg)
          /\ Goto("broker", "forward")
          /\ UNCHANGED <<answer, backlog>>
       \/ /\ got # <<>> /\ got[1].op = "PUT" /\ ~up
          /\ BrokerTakes(got[1])
          /\ blocked' = blocked \ {got[1].from}
          /\ Goto("broker", "receive")
          /\ UNCHANGED queue
       \/ /\ got # <<>> /\ got[1].op = "QUIESCE"
          /\ Answer(got[1].from, <<"QUIESCED">>)
          /\ queue' = [queue EXCEPT !["note"] = Append(@, Message("broker", "BROKER_DONE", 0))]
          /\ blocked' = (blocked \ {got[1].from}) \cup {"broker"}
          /\ Goto("broker", "exit")
          /\ UNCHANGED backlog
    /\ BrokerUnchanged /\ UNCHANGED <<up, got, signal>>

\* The backend's own answer goes back to the producer.
BrokerForward ==
    /\ At("broker", "forward")
    /\ Answer(got[1].from, answer["broker"])
    /\ blocked' = blocked \ {got[1].from}
    /\ Goto("broker", "receive")
    /\ BrokerUnchanged /\ UNCHANGED <<queue, up, backlog, got, signal>>

Broker == BrokerReceive \/ BrokerLook \/ BrokerDrain \/ BrokerHandle \/ BrokerForward

-----------------------------------------------------------------------------
Finished == step > Len(Program)

Next ==
    \/ Operator
    \/ ClientAsk \/ ClientAnswered \/ UsurperTries
    \/ \E i \in Instance : InstanceStep(i)
    \/ Broker
    \/ \E p \in Proc \ {"operator"} : Exit(p) \/ SwitchOff(p)

Spec == Init /\ [][Next]_vars

\* Every process is a thread the scheduler runs again and again, and a core
\* finishes the switch it began.
Fairness ==
    /\ WF_vars(Operator)
    /\ WF_vars(ClientAsk \/ ClientAnswered)
    /\ WF_vars(UsurperTries)
    /\ \A i \in Instance : WF_vars(InstanceStep(i))
    /\ WF_vars(Broker)
    /\ \A p \in Proc \ {"operator"} : WF_vars(Exit(p)) /\ WF_vars(SwitchOff(p))

FairSpec == Spec /\ Fairness

-----------------------------------------------------------------------------
(* Properties.                                                             *)

Logged == {log[k][1] : k \in DOMAIN log}

\* What the client of the stable endpoint cannot tell apart from a component
\* that was never swapped: requests are served in order, none twice, across
\* quiesce, replacement, roll-back and backlog (verdict_from_log's MONOTONE and
\* the client's ONE_TRANSITION).
Service == INSTANCE SwappableService WITH
    last    <- IF log = <<>> THEN 0 ELSE Last(log)[1] + 1,
    version <- IF log = <<>> THEN V1 ELSE Last(log)[2]

SwapIsInvisible == Service!Spec

\* No request falls into the down window: one the client has an answer to was
\* served, or is in the broker's custody, or was refused to its face; and the
\* run does not end with a request still in custody (NO_GAP).  And an answer is to
\* the request just made (SEQ_ECHOED): for the stateful component the echoed word
\* is the tally, so no state is lost either, whether the swap commits or is
\* rolled back.
EveryRequestKept ==
    /\ \A n \in 0 .. seq - 1 :
          \/ n \in Logged \cup Range(backlog) \cup full
          \/ \E m \in Range(queue["svc"]) : m.from = "broker" /\ m.arg = n
    /\ Finished => Logged = 0 .. REQUESTS - 1 \ full
    /\ At("client", "answered") /\ answer["client"][1] = "served" =>
          answer["client"][3] = seq

\* Never two owners: one instance at most serves the stable endpoint, and when
\* the component has a device, that instance alone maps it.
OneServer ==
    \A i, j \in Instance : At(i, "receive") /\ At(j, "receive") =>
        i = j /\ (HasDevice => device = {i})

\* The conversation ended before the operator got to its QUIESCE: nothing was
\* swapped, and handoff() meets NOTE_CLIENT_DONE where it expects another note.
Outrun ==
    /\ role = "handoff" /\ pc["operator"] = "bailed"
    /\ Logged = 0 .. REQUESTS - 1 /\ \A k \in DOMAIN log : log[k][2] = V1

\* Every swap finishes, whatever the broker has heard of the warning: the
\* operator reaches the end of its program, so no process waits for ever on
\* another.  Two ends are excepted, each a bail of the operator: the client has
\* outrun it, or it reaped a child before the child's core had left its stack.
SwapCompletes == <>(Finished \/ Outrun \/ pc["operator"] = "reap_refused")
=============================================================================
