----------------------------- MODULE SafePoint -----------------------------
(***************************************************************************)
(* Safe points of the Jelatine virtual machine (thread.c): the global      *)
(* recursive VM lock, the two flags every thread carries, `blocked' and    *)
(* `stopped', and the protocol by which gc_collect() brings every thread   *)
(* to a safe point before it marks and sweeps the heap.                    *)
(*                                                                         *)
(* A thread that may block (on the lock, on a condition variable, in a     *)
(* socket call) declares itself `blocked'.  tm_stop_the_world() raises     *)
(* `stopped' on every registered thread and then polls their `blocked'     *)
(* flags until all are up; a thread that comes back from a blocking call   *)
(* lowers `blocked' and, when `stopped' is up, parks on the VM lock.       *)
(*                                                                         *)
(* Every read and every write of a flag another thread uses is a step of   *)
(* its own.  What a Java program does between two calls into the VM is     *)
(* the single label "java".                                                *)
(***************************************************************************)
EXTENDS Integers, FiniteSets

CONSTANTS
    Thread,         \* the native threads the machine may ever have
    Main,           \* the thread that runs vm_run(): registered from the start
    Nobody,         \* the owner of the free VM lock
    Natives,        \* the threads whose program calls blocking natives (sockets)
    MaxDepth,       \* bound: nesting of tm_lock() by one thread
    MaxCollections  \* bound: collections in one behaviour

ASSUME ThreadAssumption ==
    Main \in Thread /\ Nobody \notin Thread /\ Natives \subseteq Thread
ASSUME BoundAssumption ==
    MaxDepth \in Nat \ {0} /\ MaxCollections \in Nat

VARIABLES
    owner,      \* the thread that holds tm.lock, or Nobody
    depth,      \* how many times it holds it (the mutex is recursive)
    queue,      \* the threads linked in tm.queue
    blocked,    \* thread_t.blocked
    stopped,    \* thread_t.stopped
    life,       \* unborn, fresh (created), live (registered), dying (unregistered)
    pc,         \* where each thread is
    todo,       \* what is left of the list the loop of tm_stop_the_world() walks
    quiet,      \* its local variable `stopped'
    collections, \* collections begun so far
    raced       \* history: the threads that took back a flag the collection
                \* under way had already raised or counted

vars == <<owner, depth, queue, blocked, stopped, life, pc, todo, quiet, collections, raced>>

Label == {"idle",                   \* not created yet
          "fresh", "java",          \* outside the VM: before, after registration
          "lock", "wait", "native", \* in native_mutex_lock, cond_wait, recv/send..
          "resume", "check", "late", "relock", "reunlock",
          "clearStopped", "clearBlocked",  \* the steps of thread_resumes()
          "vm",                     \* running with the VM lock held
          "flag", "scan",           \* in tm_stop_the_world()
          "collect",                \* marking and sweeping
          "dead"}

TypeOK ==
    /\ owner \in Thread \cup {Nobody}
    /\ depth \in 0 .. MaxDepth + 1
    /\ queue \subseteq Thread
    /\ blocked \in [Thread -> BOOLEAN]
    /\ stopped \in [Thread -> BOOLEAN]
    /\ life \in [Thread -> {"unborn", "fresh", "live", "dying"}]
    /\ pc \in [Thread -> Label]
    /\ todo \subseteq Thread
    /\ quiet \in BOOLEAN
    /\ collections \in Nat
    /\ raced \subseteq queue

Goto(t, l) == pc' = [pc EXCEPT ![t] = l]

\* Where a thread continues once it is outside the VM lock.
Home(t) == CASE life[t] = "live"  -> "java"
             [] life[t] = "dying" -> "dead"
             [] OTHER             -> "fresh"

\* Where it continues when thread_resumes() returns.
Resumed(t) == IF owner = t THEN "vm" ELSE Home(t)

----------------------------------------------------------------------------
(* The recursive mutex tm.lock. *)

Acquire(t) ==
    /\ owner \in {t, Nobody}
    /\ owner' = t
    /\ depth' = depth + 1

Release(t) ==
    /\ owner = t
    /\ depth' = depth - 1
    /\ owner' = IF depth = 1 THEN Nobody ELSE t

----------------------------------------------------------------------------
(* Wrong variants of some actions below, with which the properties are     *)
(* shown to depend on what the code does.                                  *)

\* thread_resumes() parks without raising `blocked' again.
MutForgetBlockAgain(t) ==
    /\ pc[t] = "check"
    /\ Goto(t, IF stopped[t] THEN "relock" ELSE Resumed(t))
    /\ UNCHANGED <<owner, depth, queue, blocked, stopped, life, todo, quiet, collections, raced>>

\* stopped = thread->blocked instead of stopped &= thread->blocked.
MutLastFlagOnly(t) ==
    /\ pc[t] = "scan"
    /\ \E u \in todo :
          /\ quiet' = blocked[u]
          /\ todo' = todo \ {u}
    /\ UNCHANGED <<owner, depth, queue, blocked, stopped, life, pc, collections, raced>>

\* A condition wait that is not announced with thread_may_block().
MutWaitUnblocked(t) ==
    /\ pc[t] = "vm" /\ life[t] = "live"
    /\ Release(t)
    /\ Goto(t, "wait")
    /\ UNCHANGED <<queue, blocked, stopped, life, todo, quiet, collections, raced>>

----------------------------------------------------------------------------
(* thread_may_block(), then the call that blocks.                          *)

\* tm_lock(): from Java (any allocation, monitor or linking operation), from
\* thread_start() before registration, or again while the lock is held.
EnterVM(t) ==
    /\ \/ pc[t] \in {"java", "fresh"}
       \/ pc[t] = "vm" /\ depth < MaxDepth
    /\ blocked' = [blocked EXCEPT ![t] = TRUE]
    /\ Goto(t, "lock")
    /\ UNCHANGED <<owner, depth, queue, stopped, life, todo, quiet, collections, raced>>

TakeLock(t) ==
    /\ pc[t] = "lock"
    /\ Acquire(t)
    /\ Goto(t, "resume")
    /\ UNCHANGED <<queue, blocked, stopped, life, todo, quiet, collections, raced>>

\* thread_wait(), thread_sleep(), thread_join(): the condition wait gives up
\* one level of the lock.
WaitBegin(t) ==
    /\ pc[t] = "vm" /\ life[t] = "live"
    /\ Release(t)
    /\ blocked' = [blocked EXCEPT ![t] = TRUE]
    /\ Goto(t, "wait")
    /\ UNCHANGED <<queue, stopped, life, todo, quiet, collections, raced>>

\* Signalled, timed out or woken for no reason, it takes the lock again.
WaitEnd(t) ==
    /\ pc[t] = "wait"
    /\ Acquire(t)
    /\ Goto(t, "resume")
    /\ UNCHANGED <<queue, blocked, stopped, life, todo, quiet, collections, raced>>

\* The socket natives block without the VM lock (or with it, when called by
\* a class initializer).
NativeBegin(t) ==
    /\ t \in Natives
    /\ pc[t] \in {"java", "vm"} /\ life[t] = "live"
    /\ blocked' = [blocked EXCEPT ![t] = TRUE]
    /\ Goto(t, "native")
    /\ UNCHANGED <<owner, depth, queue, stopped, life, todo, quiet, collections, raced>>

NativeEnd(t) ==
    /\ pc[t] = "native"
    /\ Goto(t, "resume")
    /\ UNCHANGED <<owner, depth, queue, blocked, stopped, life, todo, quiet, collections, raced>>

----------------------------------------------------------------------------
(* thread_resumes()                                                        *)

\* A collection under way has raised t's `stopped' flag.
Flagged(t) ==
    /\ t \in queue
    /\ \E c \in Thread : \/ pc[c] \in {"scan", "collect"}
                         \/ pc[c] = "flag" /\ t \notin todo

\* It has seen t's `blocked' flag up, in a pass that may be its last.
Counted(t) ==
    /\ t \in queue
    /\ \E c \in Thread : \/ pc[c] = "collect"
                         \/ pc[c] = "scan" /\ quiet /\ t \notin todo

\* The two stores at the end of thread_resumes() are made without the lock and
\* can take back what the collection relies on: `raced' remembers for whom.
RacesIf(t, lost) == raced' = IF lost THEN raced \cup {t} ELSE raced

\* self->blocked = false
Unblock(t) ==
    /\ pc[t] = "resume"
    /\ blocked' = [blocked EXCEPT ![t] = FALSE]
    /\ Goto(t, "check")
    /\ UNCHANGED <<owner, depth, queue, stopped, life, todo, quiet, collections, raced>>

\* if (self->stopped) self->blocked = true
CheckStopped(t) ==
    /\ pc[t] = "check"
    /\ blocked' = [blocked EXCEPT ![t] = stopped[t]]
    /\ Goto(t, IF stopped[t] THEN "relock" ELSE Resumed(t))
    /\ UNCHANGED <<owner, depth, queue, stopped, life, todo, quiet, collections, raced>>

\* The same two accesses in the order a store buffer or the compiler may give
\* them, both being plain fields: `stopped' is read FALSE first, the store to
\* `blocked' lands later.
CheckEarly(t) ==
    /\ pc[t] = "resume" /\ ~stopped[t]
    /\ Goto(t, "late")
    /\ UNCHANGED <<owner, depth, queue, blocked, stopped, life, todo, quiet, collections, raced>>

UnblockLate(t) ==
    /\ pc[t] = "late"
    /\ blocked' = [blocked EXCEPT ![t] = FALSE]
    /\ RacesIf(t, Counted(t))
    /\ Goto(t, Resumed(t))
    /\ UNCHANGED <<owner, depth, queue, stopped, life, todo, quiet, collections>>

\* Park on the lock the collector holds.
Relock(t) ==
    /\ pc[t] = "relock"
    /\ Acquire(t)
    /\ Goto(t, "reunlock")
    /\ UNCHANGED <<queue, blocked, stopped, life, todo, quiet, collections, raced>>

Reunlock(t) ==
    /\ pc[t] = "reunlock"
    /\ Release(t)
    /\ Goto(t, "clearStopped")
    /\ UNCHANGED <<queue, blocked, stopped, life, todo, quiet, collections, raced>>

ClearStopped(t) ==
    /\ pc[t] = "clearStopped"
    /\ stopped' = [stopped EXCEPT ![t] = FALSE]
    /\ RacesIf(t, Flagged(t))
    /\ Goto(t, "clearBlocked")
    /\ UNCHANGED <<owner, depth, queue, blocked, life, todo, quiet, collections>>

ClearBlocked(t) ==
    /\ pc[t] = "clearBlocked"
    /\ blocked' = [blocked EXCEPT ![t] = FALSE]
    /\ RacesIf(t, Counted(t))
    /\ Goto(t, Resumed(t))
    /\ UNCHANGED <<owner, depth, queue, stopped, life, todo, quiet, collections>>

----------------------------------------------------------------------------
(* gc_collect() and tm_stop_the_world(), with the lock held.               *)

StopBegin(t) ==
    /\ pc[t] = "vm" /\ life[t] \in {"fresh", "live"}
    /\ collections < MaxCollections
    /\ collections' = collections + 1
    /\ blocked' = [blocked EXCEPT ![t] = TRUE]
    /\ todo' = queue
    /\ Goto(t, "flag")
    /\ UNCHANGED <<owner, depth, queue, stopped, life, quiet, raced>>

FlagOne(t) ==
    /\ pc[t] = "flag"
    /\ \E u \in todo :
          /\ stopped' = [stopped EXCEPT ![u] = TRUE]
          /\ todo' = todo \ {u}
    /\ UNCHANGED <<owner, depth, queue, blocked, life, pc, quiet, collections, raced>>

\* Start a pass over the list: the first one, or another when some thread
\* was seen running.
ScanBegin(t) ==
    /\ todo = {}
    /\ \/ pc[t] = "flag"
       \/ pc[t] = "scan" /\ ~quiet
    /\ todo' = queue
    /\ quiet' = TRUE
    /\ raced' = {u \in raced : ~ stopped[u]}  \* the others are looked at again
    /\ Goto(t, "scan")
    /\ UNCHANGED <<owner, depth, queue, blocked, stopped, life, collections>>

ScanOne(t) ==
    /\ pc[t] = "scan"
    /\ \E u \in todo :
          /\ quiet' = (quiet /\ blocked[u])
          /\ todo' = todo \ {u}
    /\ UNCHANGED <<owner, depth, queue, blocked, stopped, life, pc, collections, raced>>

WorldStopped(t) ==
    /\ pc[t] = "scan" /\ todo = {} /\ quiet
    /\ blocked' = [blocked EXCEPT ![t] = FALSE]
    /\ Goto(t, "collect")
    /\ UNCHANGED <<owner, depth, queue, stopped, life, todo, quiet, collections, raced>>

\* Mark, purge and sweep are done; the world restarts at the last tm_unlock().
CollectEnd(t) ==
    /\ pc[t] = "collect"
    /\ raced' = {}
    /\ Goto(t, "vm")
    /\ UNCHANGED <<owner, depth, queue, blocked, stopped, life, todo, quiet, collections>>

----------------------------------------------------------------------------
(* Leaving the VM, and the life of a thread.                               *)

\* tm_unlock()
ExitVM(t) ==
    /\ pc[t] = "vm"
    /\ Release(t)
    /\ Goto(t, IF depth = 1 THEN Home(t) ELSE "vm")
    /\ UNCHANGED <<queue, blocked, stopped, life, todo, quiet, collections, raced>>

\* thread_launch(): create the native thread and wait for it to register.
Launch(t, u) ==
    /\ pc[t] = "vm" /\ life[t] = "live"
    /\ life[u] = "unborn"
    /\ life' = [life EXCEPT ![u] = "fresh"]
    /\ Release(t)
    /\ blocked' = [blocked EXCEPT ![t] = TRUE]
    /\ pc' = [pc EXCEPT ![t] = "wait", ![u] = "fresh"]
    /\ UNCHANGED <<queue, stopped, todo, quiet, collections, raced>>

\* thread_start(): tm_register() under the lock.
Register(t) ==
    /\ pc[t] = "vm" /\ life[t] = "fresh" /\ depth = 1
    /\ life' = [life EXCEPT ![t] = "live"]
    /\ queue' = queue \cup {t}
    /\ UNCHANGED <<owner, depth, blocked, stopped, pc, todo, quiet, collections, raced>>

\* The end of thread_start() and of thread_create_main(): tm_unregister().
Unregister(t) ==
    /\ pc[t] = "vm" /\ life[t] = "live" /\ depth = 1
    /\ life' = [life EXCEPT ![t] = "dying"]
    /\ queue' = queue \ {t}
    /\ UNCHANGED <<owner, depth, blocked, stopped, pc, todo, quiet, collections, raced>>

----------------------------------------------------------------------------
Init ==
    /\ owner = Nobody
    /\ depth = 0
    /\ queue = {Main}
    /\ blocked = [t \in Thread |-> FALSE]
    /\ stopped = [t \in Thread |-> FALSE]
    /\ life = [t \in Thread |-> IF t = Main THEN "live" ELSE "unborn"]
    /\ pc = [t \in Thread |-> IF t = Main THEN "java" ELSE "idle"]
    /\ todo = {}
    /\ quiet = FALSE
    /\ collections = 0
    /\ raced = {}

Resumes(t) ==
    \/ Unblock(t) \/ CheckStopped(t) \/ CheckEarly(t) \/ UnblockLate(t)
    \/ Relock(t) \/ Reunlock(t) \/ ClearStopped(t) \/ ClearBlocked(t)

StopTheWorld(t) ==
    \/ FlagOne(t) \/ ScanBegin(t) \/ ScanOne(t) \/ WorldStopped(t) \/ CollectEnd(t)

\* Every thread is over: the process ends.
Finished ==
    /\ \A t \in Thread : pc[t] \in {"dead", "idle"}
    /\ UNCHANGED vars

Step(t) ==
    \/ EnterVM(t) \/ TakeLock(t) \/ WaitBegin(t) \/ WaitEnd(t)
    \/ NativeBegin(t) \/ NativeEnd(t)
    \/ Resumes(t)
    \/ StopBegin(t) \/ StopTheWorld(t)
    \/ ExitVM(t)
    \/ \E u \in Thread : Launch(t, u)
    \/ Register(t) \/ Unregister(t)

Next == (\E t \in Thread : Step(t)) \/ Finished

Spec == Init /\ [][Next]_vars

(* The host scheduler runs every thread that can run, so a thread inside   *)
(* tm_stop_the_world() or thread_resumes() keeps going.  EnterVM is fair   *)
(* only because a Java program that neither allocates, synchronises nor    *)
(* blocks for ever is excluded: the interpreter has no other safe point.   *)
Fairness ==
    \A t \in Thread :
        /\ WF_vars(StopTheWorld(t))
        /\ WF_vars(Resumes(t))
        /\ WF_vars(pc[t] = "java" /\ EnterVM(t))

FairSpec == Spec /\ Fairness
----------------------------------------------------------------------------
Stopping == {t \in Thread : pc[t] \in {"flag", "scan", "collect"}}

\* While gc_collect() marks and sweeps, no other registered thread runs Java
\* code or VM code that reads the heap: tm_stop_the_world() has waited for
\* every thread to be blocked and none has come back since.  The exceptions
\* are the threads that took a flag back under this very collection.
SafeCollection ==
    \A c, t \in Thread :
        (pc[c] = "collect" /\ t \in queue \ raced /\ t # c) => pc[t] \notin {"java", "vm"}

\* Only a thread coming back from a blocking native can take a flag back: every
\* other way through thread_resumes() holds the VM lock.
OnlyNativesRace == raced \subseteq Natives

\* At most one thread stops the world, and it holds the lock all along, so
\* that what it walks without further protection cannot change: the thread
\* list is never modified between the first flag raised and the end of sweep.
ListFrozen == [][Stopping # {} => queue' = queue]_vars

\* Every request to stop the world is eventually granted, but where a thread
\* lost it and goes from one native to the next between two looks at its flag.
StopGranted == \A t \in Thread : pc[t] = "flag" ~> (pc[t] = "collect" \/ raced # {})
----------------------------------------------------------------------------
(***************************************************************************)
(* Why SafeCollection holds: the inductive invariant.                      *)
(***************************************************************************)

\* The owner of the lock is the thread that says so.
LockInv ==
    /\ owner = Nobody <=> depth = 0
    /\ \A t \in Thread :
          /\ pc[t] \in {"vm", "flag", "scan", "collect", "reunlock"} => owner = t
          /\ pc[t] \in {"idle", "fresh", "java", "dead"} => owner # t
          /\ owner = t =>
               \/ depth < MaxDepth
               \/ depth = MaxDepth /\ pc[t] \notin {"lock", "wait"}
               \/ depth = MaxDepth + 1 /\ pc[t] = "reunlock"

\* A thread that has not been created is nowhere.
LifeInv == \A t \in Thread : life[t] = "unborn" => pc[t] = "idle"

\* A thread's flag is up exactly between thread_may_block() and the end of
\* thread_resumes(), and while it stops the world itself.
BlockedInv ==
    \A t \in Thread :
        blocked[t] <=> pc[t] \in {"lock", "wait", "native", "resume", "late", "relock",
                                 "reunlock", "clearStopped", "clearBlocked", "flag", "scan"}

\* `stopped' is raised by a collection only, and lowered by its thread only
\* after it has parked.
StoppedInv ==
    \A t \in Thread :
        /\ pc[t] \in {"relock", "reunlock", "clearStopped"} => stopped[t]
        /\ \/ stopped[t]
           \/ pc[t] \in {"clearBlocked", "flag", "scan", "collect"}
           => collections >= 1

\* A thread resumes with the lock unless it comes back from a native.
ResumeInv ==
    \A t \in Thread :
        /\ t \notin Natives =>
             /\ pc[t] # "native"
             /\ pc[t] \in {"resume", "check", "late", "relock", "reunlock",
                           "clearStopped", "clearBlocked"} => owner = t
             /\ pc[t] = "reunlock" => depth >= 2

\* Without the lock, a thread at one of these labels gets no further, or takes
\* a flag back.
Parked(t) == pc[t] \in {"lock", "wait", "native", "resume", "check", "relock",
                        "late", "clearStopped", "clearBlocked"}

StopInv ==
    \A c \in Thread :
        /\ pc[c] = "flag" => \A u \in (queue \ todo) \ raced : stopped[u]
        /\ pc[c] \in {"scan", "collect"} => \A u \in queue \ raced : stopped[u]
        /\ pc[c] = "scan" /\ quiet => \A u \in ((queue \ todo) \ raced) \ {c} : Parked(u)
        /\ pc[c] = "collect" => \A u \in (queue \ raced) \ {c} : Parked(u)

\* A thread has raced under a collection that is still under way.
RaceInv ==
    /\ OnlyNativesRace
    /\ raced # {} => Stopping # {}

IInv == TypeOK /\ LockInv /\ LifeInv /\ BlockedInv /\ StoppedInv /\ ResumeInv /\ StopInv
        /\ RaceInv
=============================================================================
