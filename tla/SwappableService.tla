-------------------------- MODULE SwappableService --------------------------
(***************************************************************************)
(* What a live swap promises the client of a component: one service.  It  *)
(* serves the client's requests in the order they were made, none twice,   *)
(* and it moves to the newer version at most once and never back.          *)
(***************************************************************************)
EXTENDS Naturals

VARIABLES
    last,     \* the number of requests up to and with the last one served
    version   \* the version that served it, 1 or 2

Init == last = 0 /\ version = 1

\* Serve a later request, by this version or by a newer one.
Serve(n, v) ==
    /\ n > last
    /\ v >= version
    /\ last' = n
    /\ version' = v

Next == \E n \in last + 1 .. last' : \E v \in {1, 2} : Serve(n, v)

Spec == Init /\ [][Next]_<<last, version>>
=============================================================================
