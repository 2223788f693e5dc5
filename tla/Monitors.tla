------------------------------ MODULE Monitors ------------------------------
(***************************************************************************)
(* Java synchronisation as thread.c implements it on the global VM lock:   *)
(* monitor_enter() and monitor_exit(), thread_wait() and thread_notify(),  *)
(* thread_sleep(), thread_join(), thread_interrupt() and the end of a      *)
(* thread.  Monitors are taken as the map MonitorTable implements.         *)
(*                                                                         *)
(* An operation runs under tm.lock, so it is one step up to the point      *)
(* where it blocks on a condition variable; the thread that wakes up takes *)
(* the lock again and goes on in a later step.  A wait takes the monitor   *)
(* again with monitor_enter(), which spins without the lock.  The first    *)
(* wait on a monitor allocates its condition variable, and the collection  *)
(* that may cost can move the monitor to another bucket of the table       *)
(* before the condition is stored.                                         *)
(***************************************************************************)
EXTENDS Integers, FiniteSets

CONSTANTS
    Thread,     \* the Java threads
    Object,     \* the objects they synchronise on
    None,       \* NULL: no thread, no object, no condition
    Condition,  \* the condition variables gc_malloc() returns
    Calls,      \* what the program calls besides enter, exit, wait and notify
    MaxCount    \* bound: entries of one monitor by one thread

ASSUME NoneAssumption == None \notin Thread \cup Object \cup Condition
ASSUME ConditionAssumption ==
    \A t \in Thread : <<"thread", t>> \notin Condition /\ <<"sleep", t>> \notin Condition
ASSUME CallsAssumption ==
    /\ Calls \subseteq {"notifyAll", "interrupt", "sleep", "sleep0", "join", "exit", "misuse"}
    /\ MaxCount \in Nat \ {0}

VARIABLES
    vmlock,         \* who still holds tm.lock between two operations, or None
    owner, count,   \* monitor_t: the owner and recursion count of each object's monitor
    known,          \* the objects that have a monitor_t in the table
    cond,           \* monitor_t.cond: the condition variable of the monitor, or None
    stray,          \* a condition left in an empty bucket (bound: the last one), or None
    astray,         \* history: the objects whose condition is not where it belongs
    pc,             \* what each thread is doing
    arg,            \* the object or thread its call is about
    waitsOn,        \* the condition variable a blocked thread waits on
    signalled,      \* the blocked threads that have been woken
    condInt,        \* thread_t.cond_int
    interrupted,    \* thread_t.interrupted
    result,         \* how the call that has just ended did end
    refused,        \* history: the threads whose misused wait() has kept the VM lock
    missed,         \* history: the threads whose interruption woke another waiter
    holds           \* what the program has entered and not exited

conditions == <<cond, stray, astray>>
monitors == <<owner, count, known, conditions>>
history == <<refused, missed>>

vars == <<vmlock, monitors, pc, arg, waitsOn, signalled, condInt, interrupted, result,
          holds, history>>

\* The condition embedded in a thread_t that joiners use, and the local one of
\* thread_sleep().
ThreadCond(t) == <<"thread", t>>
SleepCond(t) == <<"sleep", t>>

\* The time thread_sleep() is called with: zero, or some time.
Millis == (IF "sleep" \in Calls THEN {1} ELSE {}) \cup (IF "sleep0" \in Calls THEN {0} ELSE {})

Cond == Condition \cup {ThreadCond(t) : t \in Thread}
            \cup {SleepCond(t) : t \in Thread}

TypeOK ==
    /\ vmlock \in Thread \cup {None}
    /\ owner \in [Object -> Thread \cup {None}]
    /\ count \in [Object -> 0 .. MaxCount]
    /\ known \subseteq Object
    /\ cond \in [Object -> Condition \cup {None}]
    /\ stray \in Condition \cup {None}
    /\ astray \subseteq Object
    /\ pc \in [Thread -> {"run", "wait", "reenter", "sleep", "join", "dying", "dead"}]
    /\ arg \in [Thread -> Object \cup Thread \cup {None} \cup Millis]
    /\ waitsOn \in [Thread -> Cond \cup {None}]
    /\ signalled \subseteq Thread
    /\ condInt \in [Thread -> Cond \cup {None}]
    /\ interrupted \in [Thread -> BOOLEAN]
    /\ result \in {"ok", "interrupted", "illegal"}
    /\ holds \in [Thread -> [Object -> 0 .. MaxCount]]
    /\ refused \subseteq Thread
    /\ missed \subseteq Thread

----------------------------------------------------------------------------
CanLock(t) == vmlock \in {None, t}

Running(t) == pc[t] = "run" /\ CanLock(t)

Waiters(c) == {t \in Thread : waitsOn[t] = c /\ t \notin signalled}

\* pthread_cond_signal() wakes one of the waiters, pthread_cond_broadcast() all.
Signal(c) ==
    IF Waiters(c) = {} THEN signalled' = signalled
    ELSE \E t \in Waiters(c) : signalled' = signalled \cup {t}

Broadcast(c) == signalled' = signalled \cup Waiters(c)

\* Mutant: cond_int is not set.
MutForgetCondInt(t, l, a, c) ==
    /\ pc' = [pc EXCEPT ![t] = l]
    /\ arg' = [arg EXCEPT ![t] = a]
    /\ waitsOn' = [waitsOn EXCEPT ![t] = c]
    /\ UNCHANGED condInt

\* Block on condition c, giving the VM lock up.
Block(t, l, a, c) ==
    /\ pc' = [pc EXCEPT ![t] = l]
    /\ arg' = [arg EXCEPT ![t] = a]
    /\ waitsOn' = [waitsOn EXCEPT ![t] = c]
    /\ condInt' = [condInt EXCEPT ![t] = c]

\* Return from the condition wait, signalled or for no reason, with the lock
\* held, and forget the condition.
Unblock(t, l) ==
    /\ CanLock(t)
    /\ pc' = [pc EXCEPT ![t] = l]
    /\ waitsOn' = [waitsOn EXCEPT ![t] = None]
    /\ condInt' = [condInt EXCEPT ![t] = None]
    /\ signalled' = signalled \ {t}
    /\ missed' = missed \ {t}

\* Mutant: the interruption is reported and not cleared.
MutKeepInterrupt(t) ==
    /\ result' = (IF interrupted[t] THEN "interrupted" ELSE "ok")
    /\ UNCHANGED interrupted

\* The last lines of wait, sleep and join: throw if interrupted.
Finish(t) ==
    /\ result' = (IF interrupted[t] THEN "interrupted" ELSE "ok")
    /\ interrupted' = [interrupted EXCEPT ![t] = FALSE]

----------------------------------------------------------------------------
(* Monitors                                                                *)

\* Mutant: a waiter that has been woken takes its monitor back from its owner.
MutTakeBack(t, o) ==
    /\ owner[o] \in {None, t} \/ pc[t] = "reenter"
    /\ owner' = [owner EXCEPT ![o] = t]
    /\ count' = [count EXCEPT ![o] = IF owner[o] = t THEN @ + 1 ELSE 1]
    /\ holds' = [holds EXCEPT ![t][o] = @ + 1]
    /\ known' = known \cup {o}
    /\ UNCHANGED conditions

\* A new monitor takes the bucket as it is, with the condition it may hold.
Insert(o) ==
    /\ known' = known \cup {o}
    /\ \/ o \in known /\ UNCHANGED conditions
       \/ o \notin known /\ UNCHANGED conditions
       \/ /\ o \notin known /\ stray # None
          /\ cond' = [cond EXCEPT ![o] = stray]
          /\ stray' = None
          /\ astray' = astray \cup {o}

\* The monitor changes of a successful monitor_enter().
TakeMonitor(t, o) ==
    /\ owner[o] \in {None, t}
    /\ owner' = [owner EXCEPT ![o] = t]
    /\ count' = [count EXCEPT ![o] = IF owner[o] = t THEN @ + 1 ELSE 1]
    /\ holds' = [holds EXCEPT ![t][o] = @ + 1]
    /\ Insert(o)

\* monitor_enter(): a monitor owned by another thread is tried again.
Enter(t, o) ==
    /\ Running(t)
    /\ holds[t][o] < MaxCount
    /\ TakeMonitor(t, o)
    /\ result' = "ok"
    /\ UNCHANGED <<vmlock, pc, arg, waitsOn, signalled, condInt, interrupted, history>>

MutExitKeeps(t, o) ==
    /\ Running(t)
    /\ holds[t][o] > 0 /\ owner[o] = t
    /\ count' = [count EXCEPT ![o] = @ - 1]
    /\ holds' = [holds EXCEPT ![t][o] = @ - 1]
    /\ result' = "ok"
    /\ UNCHANGED <<vmlock, owner, known, conditions, pc, arg, waitsOn, signalled, condInt,
                   interrupted, history>>

\* monitor_exit() of a monitor the thread has entered.
Exit(t, o) ==
    /\ Running(t)
    /\ holds[t][o] > 0 /\ owner[o] = t
    /\ owner' = [owner EXCEPT ![o] = IF count[o] = 1 THEN None ELSE t]
    /\ count' = [count EXCEPT ![o] = @ - 1]
    /\ holds' = [holds EXCEPT ![t][o] = @ - 1]
    /\ result' = "ok"
    /\ UNCHANGED <<vmlock, known, conditions, pc, arg, waitsOn, signalled, condInt,
                   interrupted, history>>

----------------------------------------------------------------------------
(* thread_wait() and thread_notify()                                       *)

\* A condition nothing refers to.
Fresh == {c \in Condition : /\ \A o \in Object : cond[o] # c
                            /\ \A t \in Thread : waitsOn[t] # c
                            /\ stray # c}

\* The bucket the condition is stored in holds the monitor o, nothing, or
\* another monitor, whose condition is overwritten: the collection under
\* gc_malloc() has purged and rearranged the table.
StoreCondition(o, c) ==
    \/ cond' = [cond EXCEPT ![o] = c] /\ UNCHANGED <<stray, astray>>
    \/ /\ stray' = IF Object \subseteq known THEN None ELSE c  \* no monitor to come takes it
       /\ astray' = astray \cup {o}
       /\ UNCHANGED cond
    \/ \E p \in known \ {o} :
          /\ cond' = [cond EXCEPT ![p] = c]
          /\ astray' = astray \cup {o, p}
          /\ UNCHANGED stray

\* Mutant: every wait allocates a condition.
MutAlwaysNew(t, o) ==
    LET c == CHOOSE f \in Fresh : TRUE IN
    /\ Running(t)
    /\ ~ interrupted[t]
    /\ owner[o] = t /\ count[o] = 1
    /\ owner' = [owner EXCEPT ![o] = None]
    /\ count' = [count EXCEPT ![o] = 0]
    /\ holds' = [holds EXCEPT ![t][o] = 0]
    /\ Fresh # {} /\ StoreCondition(o, c) /\ Block(t, "wait", o, c)
    /\ result' = "ok"
    /\ UNCHANGED <<vmlock, known, signalled, interrupted, history>>

\* The monitor is held once: release it, make sure it has a condition, and
\* block on that.
WaitBegin(t, o) ==
    LET c == IF cond[o] = None THEN CHOOSE f \in Fresh : TRUE ELSE cond[o] IN
    /\ Running(t)
    /\ ~ interrupted[t]
    /\ owner[o] = t /\ count[o] = 1
    /\ owner' = [owner EXCEPT ![o] = None]
    /\ count' = [count EXCEPT ![o] = 0]
    /\ holds' = [holds EXCEPT ![t][o] = 0]
    /\ \/ cond[o] # None /\ UNCHANGED conditions
       \/ cond[o] = None /\ Fresh # {} /\ StoreCondition(o, c)
    /\ Block(t, "wait", o, c)
    /\ result' = "ok"
    /\ UNCHANGED <<vmlock, known, signalled, interrupted, history>>

\* An interrupted thread does not block; whether it owns the monitor is not
\* looked at.
WaitInterrupted(t, o) ==
    /\ Running(t)
    /\ interrupted[t]
    /\ owner[o] = t \/ ("misuse" \in Calls /\ o \in known)
    /\ Finish(t)
    /\ UNCHANGED <<vmlock, monitors, pc, arg, waitsOn, signalled, condInt, holds, history>>

\* The monitor is owned by another thread or held more than once: no wait, no
\* exception, and no tm_unlock().
WaitRefused(t, o) ==
    /\ Running(t)
    /\ "misuse" \in Calls
    /\ ~ interrupted[t]
    /\ o \in known /\ (owner[o] # t \/ count[o] # 1)
    /\ vmlock' = t /\ refused' = refused \cup {t}
    /\ result' = "ok"
    /\ UNCHANGED <<monitors, pc, arg, waitsOn, signalled, condInt, interrupted, holds, missed>>

\* Nobody ever entered the object's monitor, so it is not found: wait() throws
\* IllegalMonitorStateException, which an interruption does not survive.
WaitUnknown(t, o) ==
    /\ Running(t)
    /\ "misuse" \in Calls /\ o \notin known
    /\ interrupted' = [interrupted EXCEPT ![t] = FALSE]
    /\ result' = "illegal"
    /\ UNCHANGED <<vmlock, monitors, pc, arg, waitsOn, signalled, condInt, holds, history>>

WaitWoken(t) ==
    /\ pc[t] = "wait"
    /\ Unblock(t, "reenter")
    /\ result' = "ok"
    /\ UNCHANGED <<vmlock, monitors, arg, interrupted, holds, refused>>

\* monitor_enter() succeeds, and the wait is over.
WaitEnd(t) ==
    /\ pc[t] = "reenter" /\ CanLock(t)
    /\ TakeMonitor(t, arg[t])
    /\ pc' = [pc EXCEPT ![t] = "run"]
    /\ arg' = [arg EXCEPT ![t] = None]
    /\ Finish(t)
    /\ UNCHANGED <<vmlock, waitsOn, signalled, condInt, history>>

\* Object.notify(), and Object.notifyAll(), whose native passes broadcast ==
\* false just the same.
Notify(t, o) ==
    /\ Running(t)
    /\ owner[o] = t
    /\ IF cond[o] # None THEN Signal(cond[o]) ELSE UNCHANGED signalled
    /\ result' = "ok"
    /\ UNCHANGED <<vmlock, monitors, pc, arg, waitsOn, condInt, interrupted, holds, history>>

NotifyAll(t, o) == "notifyAll" \in Calls /\ Notify(t, o)

----------------------------------------------------------------------------
(* thread_sleep(), thread_join() and thread_interrupt()                    *)

SleepBegin(t, ms) ==
    /\ Running(t)
    /\ IF interrupted[t]
       THEN Finish(t) /\ UNCHANGED <<pc, arg, waitsOn, condInt>>
       ELSE Block(t, "sleep", ms, SleepCond(t)) /\ result' = "ok" /\ UNCHANGED interrupted
    /\ UNCHANGED <<vmlock, monitors, signalled, holds, history>>

\* The time is over.  native_cond_timed_wait() takes zero milliseconds to mean
\* that there is no timeout.
SleepTimeout(t) ==
    /\ pc[t] = "sleep" /\ arg[t] > 0
    /\ t \notin signalled
    /\ signalled' = signalled \cup {t}
    /\ result' = "ok"
    /\ UNCHANGED <<vmlock, monitors, pc, arg, waitsOn, condInt, interrupted, holds, history>>

\* Mutant: a thread that is dead already is joined without tm_unlock().
MutJoinLeaks(t, u) ==
    /\ "join" \in Calls
    /\ Running(t) /\ u # t
    /\ IF interrupted[t] \/ pc[u] \in {"dying", "dead"}
       THEN Finish(t) /\ vmlock' = t /\ UNCHANGED <<pc, arg, waitsOn, condInt>>
       ELSE /\ Block(t, "join", u, ThreadCond(u)) /\ result' = "ok"
            /\ UNCHANGED <<vmlock, interrupted>>
    /\ UNCHANGED <<monitors, signalled, holds, history>>

JoinBegin(t, u) ==
    /\ "join" \in Calls
    /\ Running(t) /\ u # t
    /\ IF interrupted[t] \/ pc[u] \in {"dying", "dead"}
       THEN Finish(t) /\ UNCHANGED <<pc, arg, waitsOn, condInt>>
       ELSE Block(t, "join", u, ThreadCond(u)) /\ result' = "ok" /\ UNCHANGED interrupted
    /\ UNCHANGED <<vmlock, monitors, signalled, holds, history>>

SleepOrJoinEnd(t) ==
    /\ pc[t] \in {"sleep", "join"}
    /\ Unblock(t, "run")
    /\ arg' = [arg EXCEPT ![t] = None]
    /\ Finish(t)
    /\ UNCHANGED <<vmlock, monitors, holds, refused>>

\* thread_interrupt() on a thread that is alive: the condition it signals may
\* have other waiters.
Interrupt(t, u) ==
    /\ "interrupt" \in Calls
    /\ Running(t)
    /\ u # t /\ pc[u] \notin {"dying", "dead"}
    /\ interrupted' = [interrupted EXCEPT ![u] = TRUE]
    /\ IF condInt[u] = None THEN UNCHANGED signalled ELSE Signal(condInt[u])
    /\ missed' = IF u \in Waiters(condInt[u]) \ signalled' THEN missed \cup {u} ELSE missed
    /\ result' = "ok"
    /\ UNCHANGED <<vmlock, monitors, pc, arg, waitsOn, condInt, holds, refused>>

----------------------------------------------------------------------------
(* The end of thread_start()                                               *)

\* Wake the joiners, unregister.
Die(t) ==
    /\ "exit" \in Calls
    /\ Running(t)
    /\ \A o \in Object : holds[t][o] = 0
    /\ pc' = [pc EXCEPT ![t] = "dying"]
    /\ Broadcast(ThreadCond(t))
    /\ result' = "ok"
    /\ UNCHANGED <<vmlock, monitors, arg, waitsOn, condInt, interrupted, holds, history>>

\* native_cond_dispose(&thread.cond) returns once every joiner has left the
\* condition, with or without the lock; then the stack that holds it is gone.
Dispose(t) ==
    /\ pc[t] = "dying"
    /\ Waiters(ThreadCond(t)) = {}
    /\ pc' = [pc EXCEPT ![t] = "dead"]
    /\ result' = "ok"
    /\ UNCHANGED <<vmlock, monitors, arg, waitsOn, signalled, condInt, interrupted, holds,
                   history>>

----------------------------------------------------------------------------
Init ==
    /\ vmlock = None
    /\ owner = [o \in Object |-> None]
    /\ count = [o \in Object |-> 0]
    /\ known = {}
    /\ cond = [o \in Object |-> None]
    /\ stray = None
    /\ astray = {}
    /\ pc = [t \in Thread |-> "run"]
    /\ arg = [t \in Thread |-> None]
    /\ waitsOn = [t \in Thread |-> None]
    /\ signalled = {}
    /\ condInt = [t \in Thread |-> None]
    /\ interrupted = [t \in Thread |-> FALSE]
    /\ result = "ok"
    /\ holds = [t \in Thread |-> [o \in Object |-> 0]]
    /\ refused = {}
    /\ missed = {}

Step(t) ==
    \/ \E o \in Object :
          \/ Enter(t, o) \/ Exit(t, o)
          \/ WaitBegin(t, o) \/ WaitInterrupted(t, o) \/ WaitRefused(t, o)
          \/ WaitUnknown(t, o)
          \/ Notify(t, o) \/ NotifyAll(t, o)
    \/ WaitWoken(t) \/ WaitEnd(t)
    \/ \E ms \in Millis : SleepBegin(t, ms)
    \/ SleepTimeout(t) \/ SleepOrJoinEnd(t)
    \/ \E u \in Thread : JoinBegin(t, u) \/ Interrupt(t, u)
    \/ Die(t) \/ Dispose(t)

Next == \E t \in Thread : Step(t)

Spec == Init /\ [][Next]_vars

(* Time passes, and a thread that has been woken gets to run: the mutex and *)
(* the scheduler starve nobody.  Nothing is assumed of the program, nor of  *)
(* the threads that spin in monitor_enter() beyond that each goes on.       *)
Fairness ==
    \A t \in Thread :
        /\ WF_vars(t \in signalled /\ WaitWoken(t))
        /\ WF_vars(SleepTimeout(t))
        /\ WF_vars(t \in signalled /\ SleepOrJoinEnd(t))
        /\ WF_vars(Dispose(t))
        /\ WF_vars(WaitEnd(t))

FairSpec == Spec /\ Fairness
----------------------------------------------------------------------------
(* What an operation relies on: a monitor without an owner is not entered,  *)
(* and a thread that waits, or is on its way back, is not the owner.       *)
FreeInv ==
    \A o \in Object :
        /\ owner[o] = None <=> count[o] = 0
        /\ owner[o] # None => o \in known

WaiterInv ==
    \A t \in Thread :
        pc[t] \in {"wait", "reenter"} => arg[t] \in Object /\ owner[arg[t]] # t

\* No two threads are inside the same monitor: a thread that waits has given it
\* up and is inside again only when nobody else is.
MutualExclusion ==
    \A o \in Object, t, u \in Thread : holds[t][o] > 0 /\ holds[u][o] > 0 => t = u

\* The program's view of a monitor and the VM's agree, so every exit succeeds.
MonitorsAgree ==
    \A o \in Object, t \in Thread :
        holds[t][o] = IF owner[o] = t THEN count[o] ELSE 0

Waiting(t, o) == pc[t] = "wait" /\ arg[t] = o

\* The condition of a monitor is its own and the one its waiters are on, but
\* where one was stored into the bucket of another.
CondInv ==
    \A o \in Object \ astray :
        /\ cond[o] # None => stray # cond[o] /\ \A p \in Object \ {o} : cond[p] # cond[o]
        /\ \A t \in Thread : Waiting(t, o) <=> cond[o] # None /\ waitsOn[t] = cond[o]

\* The inductive invariant: every exit the program makes succeeds, every wait
\* gives its monitor up, and waiters are where notify() looks for them.
IInv == TypeOK /\ FreeInv /\ WaiterInv /\ MonitorsAgree /\ CondInv

\* A notify() wakes a thread that waits for its very object whenever there is
\* one that has not been woken, unless a purge moved the monitor while its
\* condition was allocated.
NotifyWakes ==
    [][\A t \in Thread, o \in Object \ astray :
          Notify(t, o) /\ (\E w \in Thread : Waiting(w, o) /\ w \notin signalled) =>
              \E w \in signalled' \ signalled : Waiting(w, o)]_vars

\* The condition thread_interrupt() signals is never that of a thread that is
\* gone: the condition lives on the stack of thread_start().
InterruptSignalsLive ==
    [][\A t, u, w \in Thread :
          Interrupt(t, u) /\ condInt[u] = ThreadCond(w) => pc[w] # "dead"]_vars

\* wait() gives back exactly the monitor it released, held once, and clears the
\* interruption it reports.
WaitRestores ==
    [][\A t \in Thread :
          pc[t] = "reenter" /\ pc'[t] = "run" =>
              /\ holds'[t][arg[t]] = 1 /\ owner'[arg[t]] = t /\ count'[arg[t]] = 1
              /\ interrupted[t] <=> result' = "interrupted"
              /\ ~ interrupted'[t]]_vars

\* A waiter that has been woken returns from wait() with its monitor, or finds
\* another thread inside it; a joiner whose thread has died returns.  Only a
\* misused wait(), which keeps the VM lock, can keep them from it.
WokenReturns ==
    \A t \in Thread :
        t \in signalled ~>
            \/ pc[t] = "run" \/ refused # {}
            \/ pc[t] = "reenter" /\ owner[arg[t]] \notin {None, t}

\* A thread interrupted while it blocks in wait(), sleep() or join() leaves the
\* condition, unless the signal woke another waiter of the same condition.
InterruptReturns ==
    \A t \in Thread :
        (pc[t] \in {"wait", "sleep", "join"} /\ interrupted[t])
            ~> (pc[t] \notin {"wait", "sleep", "join"} \/ t \in missed \/ refused # {})
=============================================================================
