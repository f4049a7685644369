-------------------------------- MODULE MCIpc --------------------------------
(* Instances of Ipc: a client of endpoint e1, a server that reads it, and a  *)
(* third thread that reads endpoint e2, where the client can call as well    *)
(* and the server's death is reported.                                       *)
EXTENDS Ipc, TLC

CONSTANTS client, server, other, e1, e2, e3, r1

Readers == {<<server, e1>>, <<other, e2>>}
Writers == {<<client, e1>>, <<client, e2>>}
Faults  == client :> NoEp @@ server :> e2 @@ other :> NoEp

\* Every operation.
AllUses == client :> {"send", "send_cap", "call"} @@
           server :> {"receive", "receive_cap", "reply", "cap_delete", "depart"} @@
           other  :> {"receive_cap", "reply"}

\* Calls, all of them answered.
CallUses == client :> {"call"} @@
            server :> {"receive_cap", "reply"} @@
            other  :> {"receive_cap", "reply"}

NoEps      == [r \in Region |-> {}]
ServerEp   == [r \in Region |-> {e1}]
ServerOnly == [r \in Region |-> {server}]

\* An interrupt endpoint e3 that the third thread reads, that the client writes
\* to by mistake, and where the server's death would be reported.
IrqReaders == Readers \cup {<<other, e3>>}
IrqWriters == Writers \cup {<<client, e3>>}
IrqFaults  == client :> NoEp @@ server :> e3 @@ other :> NoEp

\* A server that takes requests and never answers one, its endpoint e1, and a
\* thread that blocks on endpoint e2, which nobody reads or destroys, are in one
\* region, which is destroyed under the server and its client.  The server's
\* death is reported on e2.
HungUses    == client :> {"send_cap", "call"} @@ server :> {"receive_cap", "depart"} @@
               other :> {"call"}
HungFaults  == client :> NoEp @@ server :> e2 @@ other :> NoEp
HungReaders == {<<server, e1>>}
HungWriters == {<<client, e1>>, <<other, e2>>}
HungEps     == r1 :> {e1}
HungThreads == r1 :> {server, other}
==============================================================================
