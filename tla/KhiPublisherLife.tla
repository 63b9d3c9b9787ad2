-------------------------- MODULE KhiPublisherLife --------------------------
(***************************************************************************)
(* What the publisher promises to the rest of the component: its two       *)
(* threads call the driver while it runs only, and it is stopped once both *)
(* calls have ended.  KhiPublisher implements it statement by statement;   *)
(* KhiHardware uses it in the lifecycle.                                   *)
(***************************************************************************)
CONSTANT Threads  \* the threads that call the driver

VARIABLES
    state,  \* "stopped", "running" or "stopping"
    calls   \* the threads that are inside a driver call

vars == <<state, calls>>

Init == state = "stopped" /\ calls = {}

Start == state = "stopped" /\ state' = "running" /\ UNCHANGED calls

Tell == state = "running" /\ state' = "stopping" /\ UNCHANGED calls

\* A thread begins a call only when it has not been told to stop.
Begin(t) == state = "running" /\ t \notin calls /\ calls' = calls \cup {t} /\ UNCHANGED state

End(t) == t \in calls /\ calls' = calls \ {t} /\ UNCHANGED state

Join == state = "stopping" /\ calls = {} /\ state' = "stopped" /\ UNCHANGED calls

Next == Start \/ Tell \/ Join \/ \E t \in Threads : Begin(t) \/ End(t)

Spec == Init /\ [][Next]_vars
=============================================================================
