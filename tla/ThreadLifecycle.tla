--------------------------- MODULE ThreadLifecycle ---------------------------
(***************************************************************************)
(* What the scheduler promises about threads, with no queues, inboxes,     *)
(* interrupts or contexts: a thread is created, becomes ready, is run by   *)
(* one core at a time, blocks and is woken, departs, and is removed only   *)
(* when no core holds it.                                                  *)
(***************************************************************************)
CONSTANTS Core, BootCore, Thread, Boot, Nobody

VARIABLES
    life,      \* life[t]: where thread t is in its life
    holder     \* holder[c]: the thread core c executes, or Nobody

Life == {"absent", "embryo", "ready", "running", "blocked", "departed"}

Init ==
    /\ life = [t \in Thread |-> IF t = Boot THEN "running" ELSE "absent"]
    /\ holder = [c \in Core |-> IF c = BootCore THEN Boot ELSE Nobody]

Held(t) == \E c \in Core : holder[c] = t

\* Thread t goes from a life in From to one in To, and stays where it is.
Moves(t, From, To) ==
    /\ life[t] \in From
    /\ life'[t] \in To
    /\ life' = [life EXCEPT ![t] = life'[t]]
    /\ UNCHANGED holder

Create(t) == Moves(t, {"absent"}, {"embryo", "ready"})

Start(t) == Moves(t, {"embryo"}, {"ready"})

Wake(t) == Moves(t, {"blocked"}, {"ready"})

Block(t) == Held(t) /\ Moves(t, {"running"}, {"blocked"})

Depart(t) == Held(t) /\ t # Boot /\ Moves(t, {"running"}, {"departed"})

Remove(t) == ~Held(t) /\ Moves(t, {"embryo", "blocked", "departed"}, {"absent"})

\* Where core c leaves the thread it held when it turns to thread t: one that
\* was running is ready again, or killed; with nothing else to run (t is
\* Nobody) it is not put aside.
LeftIn(c, t) ==
    IF life[holder[c]] # "running" THEN {life[holder[c]]}
    ELSE IF t = Nobody THEN {"departed"} ELSE {"ready", "departed"}

\* Core c turns to a ready thread that no core holds, or to none.
Dispatch(c) ==
    LET t == holder'[c]
    IN  /\ t # holder[c]
        /\ holder' = [holder EXCEPT ![c] = t]
        /\ t = Nobody \/ (t \in Thread /\ life[t] = "ready" /\ ~Held(t))
        /\ \E s \in IF holder[c] = Nobody THEN {"ready"} ELSE LeftIn(c, t) :
              life' = [u \in Thread |-> IF u = t THEN "running"
                                        ELSE IF u = holder[c] THEN s ELSE life[u]]

Next ==
    \/ \E t \in Thread : \/ Create(t) \/ Start(t) \/ Wake(t) \/ Block(t)
                         \/ Depart(t) \/ Remove(t)
    \/ \E c \in Core : Dispatch(c)

Spec == Init /\ [][Next]_<<life, holder>>
==============================================================================
