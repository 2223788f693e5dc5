----------------------------- MODULE MonitorMap -----------------------------
(***************************************************************************)
(* What the monitor table of thread.c promises, whatever its layout: every *)
(* object has a monitor, held by one thread a number of times or free.     *)
(***************************************************************************)
EXTENDS Integers

CONSTANTS Thread, Ref, NoThread

VARIABLE mon    \* for each object, who holds its monitor and how many times

Free == [owner |-> NoThread, count |-> 0]

Init == mon = [r \in Ref |-> Free]

\* monitor_enter() succeeds on a free monitor and on one's own.
Enter(t, r) ==
    /\ mon[r].owner \in {NoThread, t}
    /\ mon' = [mon EXCEPT ![r] = [owner |-> t, count |-> @.count + 1]]

\* monitor_exit(), and thread_wait() on a monitor held once.
Exit(t, r) ==
    /\ mon[r].owner = t
    /\ mon' = [mon EXCEPT ![r] = IF @.count = 1 THEN Free ELSE [owner |-> t, count |-> @.count - 1]]

Next == \E t \in Thread, r \in Ref : Enter(t, r) \/ Exit(t, r)

Spec == Init /\ [][Next]_mon
=============================================================================
