------------------------------- MODULE Memory -------------------------------
(***************************************************************************)
(* The collector, one side of it at a time: the heap it sweeps, and the    *)
(* weak references, interned strings and finalizers it serves on the way.  *)
(* The four modules share no state, so a behaviour is one of one of them   *)
(* and leaves the variables of the others as they were at first.           *)
(***************************************************************************)
EXTENDS Integers

CONSTANTS
    None,
    Ref, Obj, CanClear, MaxCollections,             \* WeakRefs
    Str, Content, Hash, InitCapacity, Load,         \* InternTable
    FObj,                                           \* Finalizer
    Words, InitWords, BinEntries, MaxRefs, MaxData  \* Heap

VARIABLES
    side,                                               \* which side
    wLive, wRooted, list, referent, wTrap, collections, \* WeakRefs
    iLive, iRooted, content, buckets, entries, litBuckets, litEntries, interned, split,
    env, fresh, fLive, fRooted, finalizable, finalizing, pc, cur, owned, signalled,
    interrupted, hasCond, stuck, fTrap, finalized,      \* Finalizer
    heap, blocks, hRooted, oom                          \* Heap

wVars == <<wLive, wRooted, list, referent, wTrap, collections>>
iVars == <<iLive, iRooted, content, buckets, entries, litBuckets, litEntries, interned, split>>
fVars == <<env, fresh, fLive, fRooted, finalizable, finalizing, pc, cur, owned, signalled,
           interrupted, hasCond, stuck, fTrap, finalized>>
hVars == <<heap, blocks, hRooted, oom>>
vars == <<side, wVars, iVars, fVars, hVars>>

WeakSide == INSTANCE WeakRefs WITH live <- wLive, rooted <- wRooted, trap <- wTrap
InternSide == INSTANCE InternTable WITH live <- iLive, rooted <- iRooted
FinalSide == INSTANCE Finalizer WITH
    Obj <- FObj, live <- fLive, rooted <- fRooted, trap <- fTrap
HeapSide == INSTANCE Heap WITH rooted <- hRooted

ASSUME MemoryAssumption ==
    /\ WeakSide!WeakRefsAssumption /\ InternSide!InternAssumption
    /\ FinalSide!FinalizerAssumption /\ HeapSide!HeapAssumption

Init ==
    /\ side \in {"weak", "intern", "final", "heap"}
    /\ WeakSide!Init /\ InternSide!Init /\ HeapSide!Init
    /\ FinalSide!Init
    /\ side # "final" => env = [spurious |-> FALSE, selfInterrupt |-> FALSE, condCollects |-> FALSE]

Next ==
    /\ UNCHANGED side
    /\ \/ /\ side = "weak" /\ WeakSide!Next
          /\ UNCHANGED <<iVars, fVars, hVars>>
       \/ /\ side = "intern" /\ InternSide!Next
          /\ UNCHANGED <<wVars, fVars, hVars>>
       \/ /\ side = "final" /\ FinalSide!Next
          /\ UNCHANGED <<wVars, iVars, hVars>>
       \/ /\ side = "heap" /\ HeapSide!Next
          /\ UNCHANGED <<wVars, iVars, fVars>>

Spec == Init /\ [][Next]_vars

\* The finalizer thread is a native thread that is always given the processor.
FinalizerStep ==
    /\ side = "final" /\ FinalSide!Served
    /\ UNCHANGED <<side, wVars, iVars, hVars>>
FairSpec == Spec /\ WF_vars(FinalizerStep)
-----------------------------------------------------------------------------
\* Weak references: no address in the chain, and none in a reference of the
\* chain, is one that was swept.
ChainedSound == WeakSide!TypeOK /\ WeakSide!ChainAlive /\ WeakSide!ChainedSound

\* Interned strings: what the tables hold is alive and where a lookup finds it.
Placed == InternSide!TypeOK /\ InternSide!TableAlive /\ InternSide!Placed

\* Interned strings: equal ones have one representative (see InternTable).
Canonical == InternSide!Canonical

\* Finalizers: an object that waits for its own is on one list, once, unswept; the
\* list is not empty when the thread takes an object off it.
Registered == FinalSide!TypeOK /\ FinalSide!Registered /\ FinalSide!NoTrap

\* Finalizers: an object that waits for its own gets it (see Finalizer).
FinalizersRun == FinalSide!FinalizersRun

\* The heap: chunks and blocks tile it, and it is full when an allocation fails.
Tiled == HeapSide!TypeOK /\ HeapSide!Tiled /\ HeapSide!FailsWhenFull

\* The heap: a sweep never takes data for a header.
SweepFindsHeaders == HeapSide!SweepFindsHeaders

\* The heap: the bitmap says which words are headers of objects.
BitmapExact == HeapSide!BitmapExact
=============================================================================
