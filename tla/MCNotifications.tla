--------------------------- MODULE MCNotifications ---------------------------
(* Instances of Notifications.                                               *)
EXTENDS Notifications, TLC

CONSTANTS t1, t2, t3, e1, n1, n2, k1, k2, r1, b1, b2

\* A server that receives and waits, a thread that binds it and signals, and a
\* client that sends and waits.  The region holds the client and a notification.
BindUses == t1 :> {"receive", "poll", "wait"} @@ t2 :> {"signal", "bind"} @@
            t3 :> {"send", "wait"}
BindIn   == r1 :> {t3, n1}

\* A thread that arms, re-arms and cancels two timers and sleeps on them, while the
\* region of the second is destroyed.
SleepUses == t1 :> {"arm", "cancel", "wait"}
TimerIn   == r1 :> {k2}
==============================================================================
