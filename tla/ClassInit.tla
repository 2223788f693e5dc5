------------------------------ MODULE ClassInit ------------------------------
(***************************************************************************)
(* Class initialization: initialize_class() and the linking of bytecode    *)
(* that calls it, bcl_link_opcode() and bcl_link_method().                 *)
(*                                                                         *)
(* A *_PRELINK opcode (a site) is linked under tm.lock, and the lock stays *)
(* held while the class it names is initialized, static initializers       *)
(* included: they run in a nested interpreter().  The lock is recursive,   *)
(* so an initializer links sites of its own; it is free again when the     *)
(* outermost link returns.                                                 *)
(*                                                                         *)
(* Each thread has the stack of its calls of initialize_class(), the       *)
(* innermost last.  It runs Java code when the stack is empty or its       *)
(* innermost call is running a static initializer.                         *)
(***************************************************************************)
EXTENDS Naturals, Sequences

CONSTANTS
    Thread,     \* the Java threads
    Class,      \* the classes, java.lang.Object among them
    Super,      \* the superclass of each class, None for java.lang.Object
    Site,       \* the opcodes whose linking initializes a class, and the methods
                \* named main
    Tested,     \* those that look for an exception once they are linked
    Target,     \* the class each site initializes
    Entry,      \* the constant-pool entry of a field or method that a site
                \* resolves, None when it names a class (NEW)
    Main,       \* the site that stands for the linking of the method main, or None
    Sync,       \* the classes the program synchronizes on
    Calls,      \* whether initializers throw exceptions, and call main
    None        \* NULL

ASSUME SuperAssumption ==
    /\ None \notin Thread \cup Class \cup Site
    /\ Super \in [Class -> Class \cup {None}] /\ \A c \in Class : Super[c] # c
    /\ Target \in [Site -> Class] /\ Tested \subseteq Site
    /\ Main \in Site \cup {None} /\ "main" \notin Class
    /\ DOMAIN Entry = Site
    /\ \A s1, s2 \in Site : Entry[s1] = Entry[s2] /\ Entry[s1] # None => Target[s1] = Target[s2]
    /\ Sync \subseteq Class
    /\ Calls \subseteq {"throw", "main"}

VARIABLES
    lock,       \* the thread that holds tm.lock between two steps, or None
    state,      \* class_t.state from CS_LINKED on
    initThread, \* class_t.init_thread
    purged,     \* the classes whose <clinit> has been freed
    site,       \* whether a site is linked; a main method is "begun" in between
    resolved,   \* the constant-pool entries tagged as resolved
    owner,      \* the owner of the monitor of each class object
    stack,      \* the calls of initialize_class() of each thread
    wants,      \* what a thread spins for: the monitor of a class, the code of main
    exception,  \* whether thread_t.exception is set
    unseen      \* the threads that run on with one, which no opcode has looked at

vars == <<lock, state, initThread, purged, site, resolved, owner, stack, wants, exception, unseen>>

\* A call of initialize_class(cl), made for a site or, when that is None, for the
\* subclass below it, and how far it is.
Frame == [cl : Class, site : Site \cup {None}, at : {"enter", "parent", "clinit"}]

TypeOK ==
    /\ lock \in Thread \cup {None}
    /\ state \in [Class -> {"linked", "initializing", "initialized", "erroneous"}]
    /\ initThread \in [Class -> Thread \cup {None}]
    /\ purged \subseteq Class
    /\ site \in [Site -> {"prelink", "begun", "linked"}]
    /\ resolved \subseteq {Entry[s] : s \in Site}
    /\ owner \in [Class -> Thread \cup {None}]
    /\ stack \in [Thread -> Seq(Frame)]
    /\ wants \in [Thread -> Class \cup {"main", None}]
    /\ exception \in [Thread -> BOOLEAN]
    /\ unseen \subseteq Thread

----------------------------------------------------------------------------
\* Mutant: every thread gets the lock.
MutCanLock(t) == t \in Thread

CanLock(t) == lock \in {t, None}

Top(t) == stack[t][Len(stack[t])]

At(t, l) == stack[t] # <<>> /\ Top(t).at = l

\* The thread runs Java code: its own, or that of a static initializer.
InJava(t) == (stack[t] = <<>> \/ At(t, "clinit")) /\ wants[t] = None

\* It executes opcodes and is not on its way to a handler.
Runs(t) == InJava(t) /\ (~ exception[t] \/ t \in unseen)

\* A site has been linked: an exception that is pending goes to a handler, or the
\* opcode is replayed as if there were none.
Replay(t, s) ==
    unseen' = IF ~ exception[t] THEN unseen
              ELSE IF s \in Tested THEN unseen \ {t} ELSE unseen \cup {t}

\* monitor_enter() on the class object does not spin.
MonitorFree(t, c) == owner[c] \in {t, None}

Call(c, s) == [cl |-> c, site |-> s, at |-> "enter"]

Goto(t, l) == [stack[t] EXCEPT ![Len(stack[t])].at = l]

\* initialize_class() returns: to the call for the subclass, or to the linker, which
\* links its site whether an exception is pending or not and unlocks.
Return(t) ==
    LET s == Top(t).site IN
    /\ stack' = [stack EXCEPT ![t] = SubSeq(@, 1, Len(@) - 1)]
    /\ lock' = IF Len(stack[t]) = 1 THEN None ELSE t
    /\ IF s = None THEN UNCHANGED <<site, resolved, unseen>>
       ELSE /\ Replay(t, s)
            /\ site' = [site EXCEPT ![s] = "linked"]
            /\ resolved' = IF Entry[s] = None THEN resolved ELSE resolved \cup {Entry[s]}

\* The last state of a class: set with its monitor held, before the return.
Settle(t, st) ==
    /\ MonitorFree(t, Top(t).cl)
    /\ state' = [state EXCEPT ![Top(t).cl] = st]
    /\ Return(t)

----------------------------------------------------------------------------
(* The linker                                                              *)

\* A site that has to initialize its class.
LinkBegin(t, s) ==
    /\ Runs(t) /\ CanLock(t)
    /\ site[s] = "prelink" /\ Entry[s] \notin resolved
    /\ lock' = t
    /\ stack' = [stack EXCEPT ![t] = Append(@, Call(Target[s], s))]
    /\ site' = IF s = Main THEN [site EXCEPT ![s] = "begun"] ELSE site
    /\ UNCHANGED <<state, initThread, purged, resolved, owner, wants, exception, unseen>>

\* A site whose constant-pool entry another site has resolved.
LinkResolved(t, s) ==
    /\ Runs(t) /\ CanLock(t)
    /\ site[s] = "prelink" /\ Entry[s] \in resolved
    /\ Replay(t, s)
    /\ site' = [site EXCEPT ![s] = "linked"]
    /\ UNCHANGED <<lock, state, initThread, purged, resolved, owner, stack, wants, exception>>

\* main is called while it is being linked: bcl_link_method() returns at once, the
\* code is still the stub that calls it, and the interpreter runs the stub again.
MainLoops(t) ==
    /\ "main" \in Calls
    /\ InJava(t) /\ ~ exception[t] /\ CanLock(t)
    /\ Main # None /\ site[Main] = "begun"
    /\ wants' = [wants EXCEPT ![t] = "main"]
    /\ UNCHANGED <<lock, state, initThread, purged, site, resolved, owner, stack, exception, unseen>>

----------------------------------------------------------------------------
(* initialize_class()                                                      *)

\* Mutant: a recursive call waits for the class as another thread would.
MutInitDone(t) ==
    /\ At(t, "enter")
    /\ LET c == Top(t).cl IN
       /\ MonitorFree(t, c)
       /\ state[c] = "initialized"
    /\ Return(t)
    /\ UNCHANGED <<state, initThread, purged, owner, wants, exception>>

\* The class is initialized, or this is a recursive call.
InitDone(t) ==
    /\ At(t, "enter")
    /\ LET c == Top(t).cl IN
       /\ MonitorFree(t, c)
       /\ state[c] = "initialized" \/ (state[c] = "initializing" /\ initThread[c] = t)
    /\ Return(t)
    /\ UNCHANGED <<state, initThread, purged, owner, wants, exception>>

\* Register as the initializer of a class that is linked or erroneous, and go on
\* with its superclass or with its own static fields and initializer.  That another
\* thread is initializing it, and is waited for, does not happen: see SoleInitializer.
InitBegin(t) ==
    /\ At(t, "enter")
    /\ LET c == Top(t).cl IN
       /\ MonitorFree(t, c)
       /\ Super[c] # None /\ state[c] \in {"linked", "erroneous"}
       /\ state' = [state EXCEPT ![c] = "initializing"]
       /\ initThread' = [initThread EXCEPT ![c] = t]
       /\ stack' = [stack EXCEPT ![t] =
             IF state[Super[c]] # "initialized"
             THEN Append(Goto(t, "parent"), Call(Super[c], None))
             ELSE Goto(t, "clinit")]
    /\ UNCHANGED <<lock, purged, site, resolved, owner, wants, exception, unseen>>

\* java.lang.Object has neither a superclass nor static fields and an initializer.
InitObject(t) ==
    /\ At(t, "enter")
    /\ LET c == Top(t).cl IN
       /\ Super[c] = None /\ state[c] = "linked"
       /\ initThread' = [initThread EXCEPT ![c] = t]
    /\ Settle(t, "initialized")
    /\ UNCHANGED <<purged, owner, wants, exception>>

\* Mutant: the exception of the superclass is not looked at.
MutParentDone(t) ==
    /\ At(t, "parent")
    /\ stack' = [stack EXCEPT ![t] = Goto(t, "clinit")]
    /\ UNCHANGED <<lock, state, initThread, purged, site, resolved, owner, wants, exception, unseen>>

\* The superclass has been dealt with.
ParentDone(t) ==
    /\ At(t, "parent") /\ ~ exception[t]
    /\ stack' = [stack EXCEPT ![t] = Goto(t, "clinit")]
    /\ UNCHANGED <<lock, state, initThread, purged, site, resolved, owner, wants, exception, unseen>>

\* Mutant: a failed initializer is freed as well.
MutInitFailed(t) ==
    /\ At(t, "parent") \/ (At(t, "clinit") /\ wants[t] = None)
    /\ exception[t]
    /\ purged' = purged \cup {Top(t).cl}
    /\ Settle(t, "erroneous")
    /\ UNCHANGED <<initThread, owner, wants, exception>>

\* The superclass, or the static initializer, has left an exception.
InitFailed(t) ==
    /\ At(t, "parent") \/ (At(t, "clinit") /\ wants[t] = None)
    /\ exception[t]
    /\ Settle(t, "erroneous")
    /\ UNCHANGED <<initThread, purged, owner, wants, exception>>

\* The static initializer has returned: free it.
InitEnd(t) ==
    /\ At(t, "clinit") /\ wants[t] = None /\ ~ exception[t]
    /\ purged' = purged \cup {Top(t).cl}
    /\ Settle(t, "initialized")
    /\ UNCHANGED <<initThread, owner, wants, exception>>

----------------------------------------------------------------------------
(* The program                                                             *)

\* A static initializer throws an exception.
Throw(t) ==
    /\ "throw" \in Calls
    /\ Runs(t)
    /\ stack[t] # <<>>
    /\ exception' = [exception EXCEPT ![t] = TRUE]
    /\ unseen' = unseen \ {t}
    /\ UNCHANGED <<lock, state, initThread, purged, site, resolved, owner, stack, wants>>

\* Java code has a handler for what it, or the initialization of a class, has thrown.
Catch(t) ==
    /\ InJava(t) /\ exception[t]
    /\ exception' = [exception EXCEPT ![t] = FALSE]
    /\ unseen' = unseen \ {t}
    /\ UNCHANGED <<lock, state, initThread, purged, site, resolved, owner, stack, wants>>

\* synchronized (C.class): monitor_enter() tries until the monitor is free.
EnterCall(t, c) ==
    /\ Runs(t)
    /\ owner[c] # t
    /\ wants' = [wants EXCEPT ![t] = c]
    /\ UNCHANGED <<lock, state, initThread, purged, site, resolved, owner, stack, exception, unseen>>

Enter(t, c) ==
    /\ wants[t] = c
    /\ CanLock(t) /\ owner[c] = None
    /\ owner' = [owner EXCEPT ![c] = t]
    /\ wants' = [wants EXCEPT ![t] = None]
    /\ UNCHANGED <<lock, state, initThread, purged, site, resolved, stack, exception, unseen>>

Exit(t, c) ==
    /\ InJava(t) /\ CanLock(t) /\ owner[c] = t
    /\ owner' = [owner EXCEPT ![c] = None]
    /\ UNCHANGED <<lock, state, initThread, purged, site, resolved, stack, wants, exception, unseen>>

----------------------------------------------------------------------------
Init ==
    /\ lock = None
    /\ state = [c \in Class |-> "linked"]
    /\ initThread = [c \in Class |-> None]
    /\ purged = {}
    /\ site = [s \in Site |-> "prelink"]
    /\ resolved = {}
    /\ owner = [c \in Class |-> None]
    /\ stack = [t \in Thread |-> <<>>]
    /\ wants = [t \in Thread |-> None]
    /\ exception = [t \in Thread |-> FALSE]
    /\ unseen = {}

Step(t) ==
    \/ \E s \in Site : LinkBegin(t, s) \/ LinkResolved(t, s)
    \/ InitDone(t) \/ InitBegin(t) \/ InitObject(t) \/ ParentDone(t)
    \/ InitFailed(t) \/ InitEnd(t)
    \/ Throw(t) \/ Catch(t) \/ MainLoops(t)
    \/ \E c \in Sync : EnterCall(t, c) \/ Enter(t, c) \/ Exit(t, c)

Next == \E t \in Thread : Step(t)

Spec == Init /\ [][Next]_vars

(* Threads run, and the program ends its static initializers.              *)
Fairness ==
    \A t \in Thread :
        /\ WF_vars(InitDone(t) \/ InitBegin(t) \/ InitObject(t) \/ ParentDone(t)
                   \/ \E c \in Sync : Enter(t, c))
        /\ SF_vars(InitFailed(t) \/ InitEnd(t))

FairSpec == Spec /\ Fairness
----------------------------------------------------------------------------
\* The calls of initialize_class() by a thread that have begun the initialization.
Begun(t) == {i \in 1 .. Len(stack[t]) : stack[t][i].at # "enter"}

\* The VM lock is held by the one thread that has calls of initialize_class(), all
\* but the innermost of which have begun.
LockInv ==
    /\ \A t \in Thread : stack[t] # <<>> <=> lock = t
    /\ \A t \in Thread : \A i \in 1 .. Len(stack[t]) :
          stack[t][i].at = "enter" => i = Len(stack[t])

\* A class that is being initialized has one call that does it, by its
\* init_thread; so nobody waits in initialize_class(), which would keep the lock.
SoleInitializer ==
    /\ \A t \in Thread : \A i \in Begun(t) :
          /\ state[stack[t][i].cl] = "initializing" /\ initThread[stack[t][i].cl] = t
          /\ \A j \in Begun(t) : stack[t][i].cl = stack[t][j].cl => i = j
    /\ \A c \in Class : state[c] = "initializing" =>
          \E t \in Thread : initThread[c] = t /\ \E i \in Begun(t) : stack[t][i].cl = c

\* The initializer of a class is freed only when the class is initialized, and a
\* site that is linked, or whose entry is resolved, has had its class initialized,
\* successfully or not, or its initialization begun.
SettledInv ==
    /\ \A c \in purged : state[c] = "initialized"
    /\ \A s \in Site : site[s] = "linked" \/ Entry[s] \in resolved => state[Target[s]] # "linked"

\* A call is for the class of its site, or for the superclass of the call below it.
FrameInv ==
    \A t \in Thread : \A i \in 1 .. Len(stack[t]) :
        LET f == stack[t][i] IN
        /\ f.site # None => f.cl = Target[f.site]
        /\ f.at # "enter" => Super[f.cl] # None
        /\ f.at = "parent" /\ i < Len(stack[t]) => stack[t][i + 1].cl = Super[f.cl]

\* The superclass is initialized, or a call further out is initializing it.
SuperKnown(t, i) ==
    LET c == Super[stack[t][i].cl] IN
    state[c] = "initialized" \/ \E j \in Begun(t) : j < i /\ stack[t][j].cl = c

\* What the return of the superclass's call has left, without an exception.
ParentInv ==
    \A t \in Thread : stack[t] # <<>> /\ Top(t).at = "parent" /\ ~ exception[t] =>
        SuperKnown(t, Len(stack[t]))

\* The initializer of a class runs after that of its superclass, or inside it.
SuperFirst ==
    \A t \in Thread : \A i \in Begun(t) : stack[t][i].at = "clinit" => SuperKnown(t, i)

\* The inductive invariant.
IInv == TypeOK /\ LockInv /\ SoleInitializer /\ SettledInv /\ FrameInv /\ ParentInv /\ SuperFirst

\* No thread runs the code of an initializer that has been freed, also when the
\* initialization of a class is tried again after an error.
InitializerLive ==
    \A t \in Thread : \A i \in Begun(t) : stack[t][i].cl \notin purged

\* class_set_state() asserts that the state of a class only increases (class.h:322).
\* Not run: it fails when a class is initialized again after an error.
Rank == [linked |-> 3, initializing |-> 4, initialized |-> 5, erroneous |-> 6]

StateIncreases ==
    [][\A c \in Class : state'[c] = state[c] \/ Rank[state[c]] < Rank[state'[c]]]_vars

\* The thread spins for a monitor somebody else holds, or in the stub of main.
Spins(t) ==
    \/ wants[t] = "main"
    \/ wants[t] \in Class /\ owner[wants[t]] # None
    \/ stack[t] # <<>> /\ ~ MonitorFree(t, Top(t).cl)

\* The initialization of a class, its superclasses and all their initializers use
\* ends, cycles and errors included, unless the thread spins while it holds the lock.
InitReturns ==
    \A t \in Thread : stack[t] # <<>> ~> (stack[t] = <<>> \/ Spins(t))
=============================================================================
