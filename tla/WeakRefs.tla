------------------------------ MODULE WeakRefs ------------------------------
(***************************************************************************)
(* Weak references: gc_register_weak_ref() chains every WeakReference in   *)
(* heap.weakref_list, and gc_purge_weakref_list() walks the chain in each  *)
(* collection, between the mark and the sweep.                             *)
(*                                                                         *)
(* Objects are addresses, so an address that was swept may be given to     *)
(* another object.  An operation runs under the VM lock and a collection   *)
(* with the world stopped: each is one step.                               *)
(***************************************************************************)
EXTENDS Naturals, Chains

CONSTANTS
    Ref,            \* addresses of WeakReference objects
    Obj,            \* addresses of other objects
    None,           \* JNULL
    CanClear,       \* whether the program calls Reference.clear()
    MaxCollections  \* bound: collections

\* What the constants are; the modules that give them values assume it.
WeakRefsAssumption ==
    /\ Ref \cap Obj = {} /\ None \notin Ref \cup Obj
    /\ CanClear \in BOOLEAN /\ MaxCollections \in Nat

VARIABLES
    live,       \* the addresses that hold an object
    rooted,     \* the objects the program can still reach
    list,       \* heap.weakref_list, followed through next
    referent,   \* the referent field of each reference
    trap,       \* the collector read through a null pointer
    collections \* bookkeeping: how many collections there have been

vars == <<live, rooted, list, referent, trap, collections>>

Address == Ref \cup Obj

TypeOK ==
    /\ live \subseteq Address
    /\ rooted \subseteq live
    /\ list \in Seq(Ref)
    /\ referent \in [Ref -> Address \cup {None}]
    /\ trap \in BOOLEAN
    /\ collections \in 0 .. MaxCollections

----------------------------------------------------------------------------
(* gc_purge_weakref_list()                                                 *)

(* The walk keeps prev, the element whose next field a dead element is     *)
(* unlinked from.  It begins at the local variable list, whose own next    *)
(* field is NULL and is set only by unlinking: the chain that is left      *)
(* begins where the dead elements in front of the first live one end, and  *)
(* when there are none it is empty.                                        *)
Purged(chain, marked) ==
    IF chain # <<>> /\ Head(chain) \in marked THEN <<>> ELSE Kept(chain, marked)

\* Mutant: nothing is cleared.
MutNoClear(chain, marked) == {}

\* header_is_marked() is called on the referent whatever it is.
ReadsNull(chain, marked) ==
    \E w \in ToSet(chain) \cap marked : referent[w] = None

\* A marked reference in the chain is cleared when its referent is not marked.
Cleared(chain, marked) ==
    {w \in ToSet(chain) \cap marked : referent[w] # None /\ referent[w] \notin marked}

----------------------------------------------------------------------------
\* gc_new() of an ordinary object.
New(o) ==
    /\ o \in Obj \ live
    /\ live' = live \cup {o} /\ rooted' = rooted \cup {o}
    /\ UNCHANGED <<list, referent, trap, collections>>

\* new WeakReference(o): the constructor sets referent and registers the object.
NewRef(w, o) ==
    /\ w \in Ref \ live
    /\ o \in rooted \cup (IF CanClear THEN {None} ELSE {})
    /\ live' = live \cup {w} /\ rooted' = rooted \cup {w}
    /\ referent' = [referent EXCEPT ![w] = o]
    /\ list' = <<w>> \o list
    /\ UNCHANGED <<trap, collections>>

\* The program loses its last way to reach x.
Drop(x) ==
    /\ x \in rooted
    /\ rooted' = rooted \ {x}
    /\ UNCHANGED <<live, list, referent, trap, collections>>

\* Reference.get(): the program holds the referent again.
Get(w) ==
    /\ w \in rooted /\ referent[w] \in live
    /\ rooted' = rooted \cup {referent[w]}
    /\ UNCHANGED <<live, list, referent, trap, collections>>

\* Reference.clear().
Clear(w) ==
    /\ CanClear /\ w \in rooted
    /\ referent' = [referent EXCEPT ![w] = None]
    /\ UNCHANGED <<live, rooted, list, trap, collections>>

\* gc_collect(): mark, purge the list, sweep what is not marked.
Collect ==
    /\ collections < MaxCollections
    /\ list' = Purged(list, rooted)
    /\ referent' = [w \in Ref |-> IF w \in Cleared(list, rooted) THEN None ELSE referent[w]]
    /\ trap' = ReadsNull(list, rooted)
    /\ live' = rooted
    /\ collections' = collections + 1
    /\ UNCHANGED rooted

Init ==
    /\ live = {} /\ rooted = {}
    /\ list = <<>>
    /\ referent = [w \in Ref |-> None]
    /\ trap = FALSE
    /\ collections = 0

Next ==
    /\ ~ trap
    /\ \/ \E o \in Obj : New(o)
       \/ \E w \in Ref : Get(w) \/ Clear(w) \/ \E o \in Address \cup {None} : NewRef(w, o)
       \/ \E x \in Address : Drop(x)
       \/ Collect

Spec == Init /\ [][Next]_vars
----------------------------------------------------------------------------
\* The chain never holds the address of an object that was swept, or the same
\* reference twice: the next walk would read a dead object's next field.
ChainAlive ==
    /\ ToSet(list) \subseteq live
    /\ IsInjective(list)

\* A reference that is still chained refers to nothing or to an object that has
\* not been swept: walking the chain before every sweep keeps get() sound.
ChainedSound == \A w \in ToSet(list) : referent[w] = None \/ referent[w] \in live

\* What get() returns is null or an object that has not been swept since, whether
\* the reference is chained or not.
NoDangling == \A w \in rooted \cap Ref : referent[w] = None \/ referent[w] \in live

=============================================================================
