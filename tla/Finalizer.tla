----------------------------- MODULE Finalizer -----------------------------
(***************************************************************************)
(* Finalization: gc_register_finalizable() lists the objects whose class   *)
(* has a finalizer, gc_mark_finalizable() moves those a collection finds   *)
(* dead to heap.finalizing and wakes the finalizer thread, which takes     *)
(* them off with gc_get_finalizable() and runs their finalizers.           *)
(*                                                                         *)
(* The finalizer thread is stopped for a collection wherever it waits for  *)
(* the VM lock, so each of its steps below ends just before a tm_lock().   *)
(* A collection runs with the world stopped and is one step.               *)
(***************************************************************************)
EXTENDS Naturals, Chains

CONSTANTS
    Obj,            \* objects of classes with a finalizer
    None

\* What the constants are; the modules that give them values assume it.
FinalizerAssumption == None \notin Obj

VARIABLES
    env,            \* what may happen: a condition wait returns for no reason, a
                    \* finalizer interrupts its thread, allocating the condition of
                    \* the monitor collects
    fresh,          \* the objects not created yet
    live,           \* the objects that have not been swept
    rooted,         \* the objects the program can reach
    finalizable,    \* heap.finalizable
    finalizing,     \* heap.finalizing
    pc, cur,        \* the finalizer thread, and the object it took off the list
    owned,          \* whether it owns the monitor of heap.finalizer
    signalled,      \* it has been woken
    interrupted,    \* its thread_t.interrupted
    hasCond,        \* whether the monitor has its condition
    stuck,          \* a collector spins for the monitor with tm.lock held
    trap,           \* an assertion failed
    finalized       \* bookkeeping: the objects whose finalizer was called

vars == <<env, fresh, live, rooted, finalizable, finalizing, pc, cur, owned, signalled,
          interrupted, hasCond, stuck, trap, finalized>>

Environment == [spurious : BOOLEAN, selfInterrupt : BOOLEAN, condCollects : BOOLEAN]

TypeOK ==
    /\ env \in Environment
    /\ fresh \subseteq Obj /\ live \subseteq Obj \ fresh /\ rooted \subseteq Obj \ fresh
    /\ finalizable \in Seq(Obj) /\ finalizing \in Seq(Obj)
    /\ pc \in {"enter", "check", "wait", "blocked", "reenter", "pop", "exit", "free", "run"}
    /\ cur \in Obj \cup {None}
    /\ {owned, signalled, interrupted, hasCond, stuck, trap} \subseteq BOOLEAN
    /\ finalized \subseteq Obj

----------------------------------------------------------------------------
(* The collector                                                           *)

\* What the mark phase reaches: the object handed over is on the finalizer
\* thread's Java stack only once its native has returned.
Marked == rooted \cup (IF pc = "run" THEN {cur} ELSE {})

\* Mutant: what is waiting for its finalizer is not marked.
MutResurrected(queue) == {}

\* The second half of gc_mark_finalizable().
Resurrected(queue) == ToSet(queue)

\* The first half, on the list of finalizable objects: the dead ones are pushed
\* on heap.finalizing one by one.
MoveDead(marked) ==
    /\ finalizable' = Kept(finalizable, marked)
    /\ finalizing' = Reverse(Kept(finalizable, Obj \ marked)) \o finalizing

\* The first object pushed on an empty list makes the collector enter the monitor.
Notifies(marked) == finalizing = <<>> /\ \E o \in ToSet(finalizable) : o \notin marked

\* A collection that gets that monitor, or does not need it.
CollectWith(marked) ==
    /\ MoveDead(marked)
    /\ live' = marked \cup Resurrected(finalizing')

\* gc_collect() by a thread of the program.  If the finalizer thread owns the
\* monitor, monitor_enter() spins: its tm_unlock() undoes one of the collector's
\* several tm_lock()s, so the owner never gets the lock to leave.
Collect ==
    /\ IF Notifies(Marked) /\ owned
       THEN /\ stuck' = TRUE
            /\ UNCHANGED <<live, finalizable, finalizing, signalled>>
       ELSE /\ CollectWith(Marked)
            /\ signalled' = (signalled \/ (Notifies(Marked) /\ pc = "blocked"))
            /\ UNCHANGED stuck
    /\ UNCHANGED <<fresh, rooted, pc, cur, owned, interrupted, hasCond, trap, finalized>>

----------------------------------------------------------------------------
(* The program                                                             *)

\* gc_new() and gc_register_finalizable().
New(o) ==
    /\ o \in fresh
    /\ fresh' = fresh \ {o}
    /\ live' = live \cup {o} /\ rooted' = rooted \cup {o}
    /\ finalizable' = <<o>> \o finalizable
    /\ UNCHANGED <<finalizing, pc, cur, owned, signalled, interrupted, hasCond, stuck,
                   trap, finalized>>

Drop(o) ==
    /\ o \in rooted
    /\ rooted' = rooted \ {o}
    /\ UNCHANGED <<fresh, live, finalizable, finalizing, pc, cur, owned, signalled,
                   interrupted, hasCond, stuck, trap, finalized>>

----------------------------------------------------------------------------
(* The finalizer thread: gc_get_finalizable()                              *)

Goto(l) == pc' = l

\* monitor_enter().
Enter ==
    /\ pc \in {"enter", "reenter"}
    /\ owned' = TRUE
    /\ Goto(IF pc = "enter" THEN "check" ELSE "pop")
    /\ UNCHANGED <<fresh, live, rooted, finalizable, finalizing, cur, signalled, interrupted,
                   hasCond, stuck, trap, finalized>>

\* Take the first object off the list, which is asserted not to be empty.
TakeFirst ==
    IF finalizing = <<>>
    THEN trap' = TRUE /\ UNCHANGED <<pc, cur, finalizing>>
    ELSE /\ cur' = Head(finalizing) /\ finalizing' = Tail(finalizing)
         /\ Goto("exit")
         /\ UNCHANGED trap

\* Mutant: the thread waits whatever is on the list.
MutCheck ==
    /\ pc = "check"
    /\ Goto("wait") /\ UNCHANGED <<cur, finalizing, trap>>
    /\ UNCHANGED <<fresh, live, rooted, finalizable, owned, signalled, interrupted, hasCond,
                   stuck, finalized>>

\* The list is looked at with the monitor held: if it is empty, thread_wait().
Check ==
    /\ pc = "check"
    /\ IF finalizing = <<>>
       THEN Goto("wait") /\ UNCHANGED <<cur, finalizing, trap>>
       ELSE TakeFirst
    /\ UNCHANGED <<fresh, live, rooted, finalizable, owned, signalled, interrupted, hasCond,
                   stuck, finalized>>

Pop ==
    /\ pc = "pop"
    /\ TakeFirst
    /\ UNCHANGED <<fresh, live, rooted, finalizable, owned, signalled, interrupted, hasCond,
                   stuck, finalized>>

\* thread_wait() of an interrupted thread returns with an exception pending.
WaitInterrupted ==
    /\ pc = "wait" /\ interrupted
    /\ interrupted' = FALSE
    /\ Goto("pop")
    /\ UNCHANGED <<fresh, live, rooted, finalizable, finalizing, cur, owned, signalled,
                   hasCond, stuck, trap, finalized>>

\* thread_wait(): the monitor is released, its condition made if there is none,
\* and the thread blocks.  The allocation may collect, on this thread, which
\* then enters the monitor and notifies nobody.
Wait ==
    /\ pc = "wait" /\ ~ interrupted
    /\ owned' = FALSE /\ hasCond' = TRUE
    /\ \/ UNCHANGED <<live, finalizable, finalizing>>
       \/ env.condCollects /\ ~ hasCond /\ CollectWith(Marked)
    /\ Goto("blocked")
    /\ UNCHANGED <<fresh, rooted, cur, signalled, interrupted, stuck, trap, finalized>>

Woken ==
    /\ pc = "blocked"
    /\ signalled \/ env.spurious
    /\ signalled' = FALSE
    /\ Goto("reenter")
    /\ UNCHANGED <<fresh, live, rooted, finalizable, finalizing, cur, owned, interrupted,
                   hasCond, stuck, trap, finalized>>

\* monitor_exit(), and then gc_free() of the list element.
Exit ==
    /\ pc = "exit"
    /\ owned' = FALSE
    /\ Goto("free")
    /\ UNCHANGED <<fresh, live, rooted, finalizable, finalizing, cur, signalled, interrupted,
                   hasCond, stuck, trap, finalized>>

Free ==
    /\ pc = "free"
    /\ Goto("run")
    /\ UNCHANGED <<fresh, live, rooted, finalizable, finalizing, cur, owned, signalled,
                   interrupted, hasCond, stuck, trap, finalized>>

\* VMFinalizer.run() calls finalize(), which may store this somewhere.
Run ==
    /\ pc = "run"
    /\ finalized' = finalized \cup {cur}
    /\ rooted' \in {rooted, rooted \cup {cur}}
    /\ interrupted' \in {interrupted} \cup (IF env.selfInterrupt THEN {TRUE} ELSE {})
    /\ cur' = None
    /\ Goto("enter")
    /\ UNCHANGED <<fresh, live, finalizable, finalizing, owned, signalled, hasCond, stuck, trap>>

FinalizerThread ==
    Enter \/ Check \/ Pop \/ WaitInterrupted \/ Wait \/ Woken \/ Exit \/ Free \/ Run

Init ==
    /\ env \in Environment
    /\ fresh = Obj /\ live = {} /\ rooted = {}
    /\ finalizable = <<>> /\ finalizing = <<>>
    /\ pc = "enter" /\ cur = None /\ owned = FALSE
    /\ signalled = FALSE /\ interrupted = FALSE /\ hasCond = FALSE
    /\ stuck = FALSE /\ trap = FALSE
    /\ finalized = {}

Next ==
    /\ ~ stuck /\ ~ trap
    /\ \/ \E o \in Obj : New(o) \/ Drop(o)
       \/ Collect
       \/ FinalizerThread
    /\ UNCHANGED env

Spec == Init /\ [][Next]_vars

\* The finalizer thread is a native thread that is always given the processor.
Served == ~ stuck /\ ~ trap /\ FinalizerThread /\ UNCHANGED env
FairSpec == Spec /\ WF_vars(Served)
----------------------------------------------------------------------------
\* An object that was registered and whose finalizer has not been taken up is on
\* exactly one of the two lists, once, and has not been swept.
Registered ==
    LET both == finalizable \o finalizing
    IN  /\ ToSet(both) = (Obj \ fresh) \ (finalized \cup {cur})
        /\ IsInjective(both)
        /\ ToSet(both) \subseteq live

\* The list is not empty when the thread takes an object off it, unless a wait
\* returned for no reason or because of an interruption.
NoTrap == trap => env.spurious \/ env.selfInterrupt

\* An object that waits for its finalizer gets it, whatever is collected, unless a
\* collection waits for a monitor whose owner waits for the collection, the
\* assertion fails, or making the condition may collect.
FinalizersRun ==
    \A o \in Obj : o \in ToSet(finalizing) ~>
        (o \in finalized \/ stuck \/ trap \/ env.condCollects)
=============================================================================
