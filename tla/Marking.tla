------------------------------- MODULE Marking -------------------------------
(***************************************************************************)
(* The mark phase of a collection: gc_mark() hands the roots, one by one,  *)
(* to gc_mark_reference(), in both of its versions.  The recursive one     *)
(* keeps its place in the C stack.  The other one, the default, keeps it   *)
(* in the objects: it counts in the header (in a word of its own for an    *)
(* array of references) how many references it has followed, and the       *)
(* reference being followed holds the object it came from.                 *)
(*                                                                         *)
(* The world is stopped, so nobody else sees the heap meanwhile.           *)
(***************************************************************************)
EXTENDS Naturals, Sequences, FiniteSets

CONSTANTS
    Objects,    \* the Java objects in the heap
    Others,     \* words of the stacks that are no object: misaligned, out of
                \* bounds, in the middle of a block, or the header of a C block
    Null,       \* JNULL
    Starts,     \* the sets of words the phase may begin with
    MaxRefs     \* bound: references of each object

ASSUME MarkingAssumption ==
    /\ Null \notin Objects \union Others /\ Objects \intersect Others = {}
    /\ Starts \subseteq SUBSET (Objects \union Others \union {Null})
    /\ MaxRefs \in [Objects -> Nat]

VARIABLES
    reversal,   \* JEL_POINTER_REVERSAL
    refs,       \* per object, its references
    graph,      \* bookkeeping: what they were when the phase began
    start,      \* bookkeeping: the words of the stacks, the classes, ...
    roots,      \* those of them gc_mark() has still to look at
    marked,     \* the objects with the mark bit
    count,      \* header_get_count()
    curr, prev, \* the variables of gc_mark_reference()
    path,       \* bookkeeping: the objects from the root to curr
    calls       \* the calls of the recursive version, innermost first: the
                \* object and how many of its references have been followed

vars == <<reversal, refs, graph, start, roots, marked, count, curr, prev, path, calls>>

Word == Objects \union Others \union {Null}

TypeOK ==
    /\ reversal \in BOOLEAN
    /\ refs \in [Objects -> Seq(Objects \union {Null})]
    /\ graph \in [Objects -> Seq(Objects \union {Null})]
    /\ \A o \in Objects : Len(refs[o]) = Len(graph[o])
    /\ roots \subseteq start /\ start \subseteq Word /\ marked \subseteq Objects
    /\ count \in [Objects -> Nat]
    /\ {curr, prev} \subseteq Objects \union {Null}
    /\ path \in Seq(Objects) /\ calls \in Seq(Objects \X Nat)

Idle == curr = Null /\ calls = <<>>

(* gc_mark_potential() refuses what the bitmap and the bounds rule out, and *)
(* gc_mark_reference() what is no Java object or is marked already.        *)
Markable(word) == word \in Objects /\ word \notin marked

(* header_create_gc_counter() *)
CreateCounter(o) ==
    /\ marked' = marked \union {o}
    /\ count' = [count EXCEPT ![o] = 0]

NextRoot ==
    /\ Idle
    /\ \E word \in roots :
         /\ roots' = roots \ {word}
         /\ IF ~Markable(word)
            THEN UNCHANGED <<marked, count, curr, prev, path, calls>>
            ELSE IF reversal
            THEN /\ curr' = word /\ prev' = Null /\ path' = <<word>>
                 /\ CreateCounter(word)
                 /\ UNCHANGED calls
            ELSE /\ calls' = << <<word, 0>> >>
                 /\ marked' = marked \union {word}
                 /\ UNCHANGED <<count, curr, prev, path>>
    /\ UNCHANGED <<reversal, refs, graph, start>>

-----------------------------------------------------------------------------
(* Pointer reversal.                                                       *)
Slot == count[curr] + 1
(* Mutant. *)
MutFollowing == curr # Null /\ count[curr] + 1 < Len(refs[curr])
Following == curr # Null /\ count[curr] < Len(refs[curr])

(* A null reference, or one to an object that is marked.                   *)
Skip ==
    /\ Following
    /\ refs[curr][Slot] = Null \/ refs[curr][Slot] \in marked
    /\ count' = [count EXCEPT ![curr] = @ + 1]
    /\ UNCHANGED <<reversal, refs, graph, start, roots, marked, curr, prev, path, calls>>

(* Mutant. *)
MutDescend ==
    /\ Following
    /\ refs[curr][Slot] \in Objects \ marked
    /\ refs' = [refs EXCEPT ![curr][Slot] = prev]
    /\ prev' = curr
    /\ path' = Append(path, refs[curr][Slot])
    /\ curr' = refs[curr][Slot]
    /\ marked' = marked \union {refs[curr][Slot]}
    /\ count' = [count EXCEPT ![curr] = @ + 1]
    /\ UNCHANGED <<reversal, graph, start, roots, calls>>
Descend ==
    /\ Following
    /\ refs[curr][Slot] \in Objects \ marked
    /\ refs' = [refs EXCEPT ![curr][Slot] = prev]
    /\ prev' = curr
    /\ path' = Append(path, refs[curr][Slot])
    /\ curr' = refs[curr][Slot]
    /\ CreateCounter(refs[curr][Slot])
    /\ UNCHANGED <<reversal, graph, start, roots, calls>>

(* Mutant. *)
MutAscend ==
    /\ curr # Null /\ ~Following
    /\ curr' = prev
    /\ path' = SubSeq(path, 1, Len(path) - 1)
    /\ IF prev = Null
       THEN UNCHANGED <<refs, prev, count>>
       ELSE /\ prev' = refs[prev][count[prev] + 1]
            /\ count' = [count EXCEPT ![prev] = @ + 1]
            /\ UNCHANGED refs
    /\ UNCHANGED <<reversal, graph, start, roots, marked, calls>>
(* The object is done; the one before it gets its reference back.          *)
Ascend ==
    /\ curr # Null /\ ~Following
    /\ curr' = prev
    /\ path' = SubSeq(path, 1, Len(path) - 1)
    /\ IF prev = Null
       THEN UNCHANGED <<refs, prev, count>>
       ELSE LET slot == count[prev] + 1
            IN  /\ prev' = refs[prev][slot]
                /\ refs' = [refs EXCEPT ![prev][slot] = curr]
                /\ count' = [count EXCEPT ![prev] = slot]
    /\ UNCHANGED <<reversal, graph, start, roots, marked, calls>>

-----------------------------------------------------------------------------
(* Recursion.                                                              *)
Caller == calls[1]
Reference == refs[Caller[1]][Caller[2] + 1]
Loop ==
    /\ calls # <<>> /\ Caller[2] < Len(refs[Caller[1]])
    /\ LET rest == << <<Caller[1], Caller[2] + 1>> >> \o Tail(calls)
       IN  IF Markable(Reference)
           THEN /\ calls' = << <<Reference, 0>> >> \o rest
                /\ marked' = marked \union {Reference}
           ELSE calls' = rest /\ UNCHANGED marked
    /\ UNCHANGED <<reversal, refs, graph, start, roots, count, curr, prev, path>>
Return ==
    /\ calls # <<>> /\ Caller[2] = Len(refs[Caller[1]])
    /\ calls' = Tail(calls)
    /\ UNCHANGED <<reversal, refs, graph, start, roots, marked, count, curr, prev, path>>

-----------------------------------------------------------------------------
(* Every heap, and the words that bcl_mark(), jsm_mark() and tm_mark() find. *)
RefSeqs(max) == UNION {[1 .. n -> Objects \union {Null}] : n \in 0 .. max}
Graphs == {g \in [Objects -> UNION {RefSeqs(MaxRefs[o]) : o \in Objects}] :
             \A o \in Objects : g[o] \in RefSeqs(MaxRefs[o])}
Init ==
    /\ reversal \in BOOLEAN
    /\ graph \in Graphs
    /\ refs = graph
    /\ start \in Starts /\ roots = start
    /\ marked = {} /\ count = [o \in Objects |-> 0]
    /\ curr = Null /\ prev = Null /\ path = <<>> /\ calls = <<>>

Next == NextRoot \/ Skip \/ Descend \/ Ascend \/ Loop \/ Return
Spec == Init /\ [][Next]_vars

-----------------------------------------------------------------------------
(* A set of objects that holds all its members lead to.                    *)
Closed(S) == \A o \in S : \A k \in DOMAIN graph[o] : graph[o][k] \in S \union {Null}
Found == Idle /\ roots = {}
OnlyReachable ==
    \A S \in SUBSET Objects :
        start \intersect Objects \subseteq S /\ Closed(S) => marked \subseteq S

(* At the end the marked objects are the ones the roots lead to: the least *)
(* closed set with the roots.  No object in use is swept, and no garbage   *)
(* survives because the marking came across it.                            *)
MarkedExactly ==
    Found => start \intersect Objects \subseteq marked /\ Closed(marked) /\ OnlyReachable

(* Between two calls of gc_mark_reference() every reference that has been  *)
(* reversed is what the program left there.                                *)
Restored == Idle => refs = graph

-----------------------------------------------------------------------------
(* The references that are still to be followed.                           *)
OnPath(o) == \E i \in DOMAIN path : path[i] = o
Pending(o, k) ==
    \/ OnPath(o) /\ k > (IF o = curr THEN count[o] ELSE count[o] + 1)
    \/ \E i \in DOMAIN calls : calls[i][1] = o /\ k > calls[i][2]
Traced ==
    /\ \A o \in marked : \A k \in DOMAIN graph[o] :
         Pending(o, k) \/ graph[o][k] \in marked \union {Null}
    /\ \A word \in start : Markable(word) => word \in roots

(* The path is a simple one from a root to curr; each object on it but the *)
(* last holds its predecessor in place of its successor, all other         *)
(* references are those of the program.                                    *)
Before(i) == IF i = 1 THEN Null ELSE path[i - 1]
PathOk ==
    /\ \A i \in DOMAIN path : path[i] \in marked
    /\ \A i, j \in DOMAIN path : path[i] = path[j] => i = j
    /\ (path = <<>>) <=> (curr = Null)
    /\ path # <<>> => curr = path[Len(path)] /\ prev = Before(Len(path))
                      /\ count[curr] =< Len(graph[curr])
Slots ==
    \A i \in 1 .. Len(path) - 1 :
        /\ count[path[i]] + 1 =< Len(graph[path[i]])
        /\ refs[path[i]][count[path[i]] + 1] = Before(i)
        /\ graph[path[i]][count[path[i]] + 1] = path[i + 1]
Intact ==
    \A o \in Objects : \A k \in DOMAIN graph[o] :
        (OnPath(o) /\ o # curr /\ k = count[o] + 1) \/ refs[o][k] = graph[o][k]
CallsOk == \A i \in DOMAIN calls : calls[i][1] \in marked /\ calls[i][2] =< Len(graph[calls[i][1]])
OneBuild == (reversal => calls = <<>>) /\ (~reversal => path = <<>>)

IInv ==
    /\ TypeOK /\ OneBuild /\ PathOk /\ Slots /\ Intact /\ CallsOk
    /\ Traced /\ OnlyReachable
=============================================================================
