---------------------------- MODULE MonitorTable ----------------------------
(***************************************************************************)
(* The hash table of Java monitors (thread.c): tm.buckets, tm.capacity and *)
(* tm.entries.  A monitor lives in the bucket of its hash or, when that is *)
(* taken, in the next free one, chained from its home bucket.  The table   *)
(* doubles when it is full, halves when it is a quarter full, and every    *)
(* collection purges the monitors of dead objects from it.                 *)
(*                                                                         *)
(* Every operation runs under the VM lock, so each is one step.  The only  *)
(* thing that can happen inside one is a collection: the gc_malloc() of    *)
(* tm_rehash() and of thread_wait() may start one, which purges the table. *)
(*                                                                         *)
(* `holds' is what the Java program has entered and not exited.            *)
(***************************************************************************)
EXTENDS Integers, SequencesExt

CONSTANTS
    Thread,         \* the Java threads
    Ref,            \* the addresses objects may have
    NoThread, NoRef,\* NULL as a thread_t pointer and JNULL
    HashValues,     \* bound: the hash values the addresses may have
    Capacities,     \* what TM_CAPACITY, a power of two, may be
    MaxCapacity,    \* bound: the capacity the table may grow to
    MaxCount        \* bound: entries of a monitor by its owner

Nil == -1           \* NULL as a monitor_t pointer

ASSUME NullAssumption == NoThread \notin Thread /\ NoRef \notin Ref
ASSUME CapacityAssumption ==
    /\ MaxCapacity \in Nat /\ Capacities \subseteq 1 .. MaxCapacity /\ MaxCount \in Nat
    /\ HashValues \subseteq Nat

VARIABLES
    hash,       \* tm_hash() of each address
    table,      \* [capacity, entries, buckets]; bookkeeping: a collection has met
                \* a coalesced table
    holds,      \* what each thread has entered: its entries of each monitor
    parked      \* the object each thread is waiting on, or NoRef

vars == <<hash, table, holds, parked>>

EmptyBucket == [ref |-> NoRef, next |-> Nil, owner |-> NoThread, count |-> 0, cond |-> NoRef]

\* A bucket's condition variable is named by the object it was created for.
Bucket == [ref : Ref \cup {NoRef}, next : Int, owner : Thread \cup {NoThread},
           count : Nat, cond : Ref \cup {NoRef}]

EmptyBuckets(cap) == [i \in 0 .. cap - 1 |-> EmptyBucket]

Occupied(tab) == {i \in 0 .. tab.capacity - 1 : tab.buckets[i].ref # NoRef}

TypeOK ==
    /\ hash \in [Ref -> HashValues]
    /\ table.capacity \in 1 .. MaxCapacity
    /\ table.buckets \in [0 .. table.capacity - 1 -> Bucket]
    /\ table.entries \in 0 .. table.capacity
    /\ table.coalesced \in BOOLEAN
    /\ \A i \in 0 .. table.capacity - 1 :
          table.buckets[i].next \in {Nil} \cup (0 .. table.capacity - 1)
    /\ holds \in [Thread -> [Ref -> 0 .. MaxCount]]
    /\ parked \in [Thread -> Ref \cup {NoRef}]

\* for (i = 0; i < n; i++): what n turns make of `start'.
Loop(Op(_, _), start, n) ==
    LET turn[i \in 0 .. n] == IF i = 0 THEN start ELSE Op(turn[i - 1], i - 1)
    IN turn[n]

----------------------------------------------------------------------------
(* Looking up and inserting.                                               *)

Home(tab, r) == hash[r] % tab.capacity

\* while (entry && entry->ref != ref) entry = entry->next;
\* from bucket h, for the objects of `stop'; after[n] says where n steps lead from
\* a bucket.  A lookup that takes more of them than there are buckets is going
\* round in circles.
Walk(tab, h, stop) ==
    LET after[n \in 0 .. tab.capacity] ==
            [i \in Nil .. tab.capacity - 1 |->
                IF i = Nil \/ n = 0 THEN i
                ELSE IF tab.buckets[i].ref \in stop THEN i
                ELSE after[n - 1][tab.buckets[i].next]]
    IN after[tab.capacity][h]

\* The bucket a lookup finds, NULL when it ends without.
Find(tab, r) ==
    LET i == Walk(tab, Home(tab, r), {r})
    IN IF i # Nil /\ tab.buckets[i].ref = r THEN i ELSE Nil

\* The lookup of an absent object reaches the end of the chain of bucket h.
Ends(tab, h) == Walk(tab, h, {}) = Nil

\* The first free bucket at or after bucket h, going round.
FreeBucket(tab, h) ==
    LET free == {o \in 0 .. tab.capacity - 1 :
                    tab.buckets[(h + o) % tab.capacity].ref = NoRef}
    IN (h + Min(free)) % tab.capacity

\* Put bucket contents m at the first free place and chain it from its home.
\* A free bucket keeps the condition it has unless m brings one.
Insert(tab, m) ==
    LET h == Home(tab, m.ref)
        i == FreeBucket(tab, h)
        link == IF i = h THEN Nil ELSE tab.buckets[h].next
        b == [tab.buckets EXCEPT ![i] = [m EXCEPT !.next = link]]
    IN [tab EXCEPT !.buckets = IF i = h THEN b ELSE [b EXCEPT ![h].next = i]]

----------------------------------------------------------------------------
(* tm_purge(), run by gc_collect() when the world is stopped.              *)

\* First loop: drop the monitors of dead objects, count the others.
DropDead(tab, dead) ==
    LET b == [i \in DOMAIN tab.buckets |->
                IF tab.buckets[i].ref \in dead THEN EmptyBucket ELSE tab.buckets[i]]
    IN [tab EXCEPT !.buckets = b, !.entries = Cardinality(Occupied([tab EXCEPT !.buckets = b]))]

\* Wrong: the stale `next' of a monitor survives.
MutRehomeKeepsNext(tab, i) ==
    LET b == tab.buckets
        h == Home(tab, b[i].ref)
    IN IF b[i].ref = NoRef \/ i = h THEN tab
       ELSE IF b[h].ref = NoRef
            THEN [tab EXCEPT !.buckets[h] = b[i], !.buckets[i] = EmptyBucket]
       ELSE IF Home(tab, b[h].ref) # h
            THEN [tab EXCEPT !.buckets[h] = b[i], !.buckets[i] = b[h]]
       ELSE tab

\* One turn of the second loop: move bucket i home when its home is free, or
\* swap it with a monitor that is not at home there.
Rehome(tab, i) ==
    LET b == tab.buckets
        h == Home(tab, b[i].ref)
        e == [b[i] EXCEPT !.next = Nil]
    IN IF b[i].ref = NoRef THEN tab
       ELSE IF i = h THEN [tab EXCEPT !.buckets[i] = e]
       ELSE IF b[h].ref = NoRef
            THEN [tab EXCEPT !.buckets[h] = e, !.buckets[i] = EmptyBucket]
       ELSE IF Home(tab, b[h].ref) # h
            THEN [tab EXCEPT !.buckets[h] = e, !.buckets[i] = b[h]]
       ELSE [tab EXCEPT !.buckets[i] = e]

\* One turn of the third: chain a monitor that is not at home from its home.
Rechain(tab, i) ==
    LET b == tab.buckets
        h == Home(tab, b[i].ref)
    IN IF b[i].ref = NoRef \/ h = i THEN tab
       ELSE [tab EXCEPT !.buckets[i].next = b[h].next, !.buckets[h].next = i]

\* A monitor that is not at home sits in the home of another one.
Coalesced(tab) ==
    \E i, j \in Occupied(tab) :
        Home(tab, tab.buckets[i].ref) # i /\ Home(tab, tab.buckets[j].ref) = i

Purge(tab, dead) ==
    LET left == DropDead([tab EXCEPT !.coalesced = @ \/ Coalesced(tab)], dead)
    IN Loop(Rechain, Loop(Rehome, left, tab.capacity), tab.capacity)

\* The objects that may be dead in a collection during which `used' are
\* referenced by the running operation.
Dead(used) == {r \in Ref \ used : \A t \in Thread : holds[t][r] = 0 /\ parked[t] # r}

\* gc_malloc() called with the table tab: it may collect first.
Allocating(tab, used) ==
    {tab} \cup {Purge(tab, d) : d \in SUBSET Dead(used)}

----------------------------------------------------------------------------
(* tm_rehash() and its callers.                                            *)

\* Wrong: the copy loses the recursion count.
MutRehashNoCount(tab, cap) ==
    LET new == [tab EXCEPT !.capacity = cap, !.buckets = EmptyBuckets(cap)]
        Copy(acc, i) ==
            IF tab.buckets[i].ref = NoRef THEN acc
            ELSE Insert(acc, [tab.buckets[i] EXCEPT !.count = 0])
    IN Loop(Copy, new, tab.capacity)

\* Wrong: the copy loses the owner.
MutRehashNoOwner(tab, cap) ==
    LET new == [tab EXCEPT !.capacity = cap, !.buckets = EmptyBuckets(cap)]
        Copy(acc, i) ==
            IF tab.buckets[i].ref = NoRef THEN acc
            ELSE Insert(acc, [tab.buckets[i] EXCEPT !.owner = NoThread])
    IN Loop(Copy, new, tab.capacity)

\* Copy every monitor into a new array of buckets, in bucket order.
Rehash(tab, cap) ==
    LET new == [tab EXCEPT !.capacity = cap, !.buckets = EmptyBuckets(cap)]
        Copy(acc, i) ==
            IF tab.buckets[i].ref = NoRef THEN acc ELSE Insert(acc, tab.buckets[i])
    IN Loop(Copy, new, tab.capacity)

\* What monitor_enter() makes of a table that lacks r: add it, then grow a
\* full table and halve a nearly empty one.
Added(tab, t, r) ==
    LET h == Home(tab, r)
        slot == tab.buckets[FreeBucket(tab, h)]
        more == [Insert(tab, [slot EXCEPT !.ref = r, !.owner = t, !.count = 1])
                    EXCEPT !.entries = @ + 1]
    IN IF more.entries = more.capacity
       THEN {Rehash(p, 2 * p.capacity) : p \in Allocating(more, {r})}
       ELSE IF more.entries < more.capacity \div 4
       THEN {Rehash(p, p.capacity \div 2) : p \in Allocating(more, {r})}
       ELSE {more}

\* monitor_enter(); a monitor another thread owns makes it spin.
Enter(t, r) ==
    /\ parked[t] = NoRef /\ holds[t][r] < MaxCount
    /\ LET i == Find(table, r) IN
          \/ /\ i # Nil /\ table.buckets[i].owner = NoThread
             /\ table' = [table EXCEPT !.buckets[i].owner = t, !.buckets[i].count = 1]
          \/ /\ i # Nil /\ table.buckets[i].owner = t
             /\ table' = [table EXCEPT !.buckets[i].count = @ + 1]
          \/ /\ i = Nil /\ Ends(table, Home(table, r))
             /\ table' \in {p \in Added(table, t, r) : p.capacity <= MaxCapacity}
    /\ holds' = [holds EXCEPT ![t][r] = @ + 1]
    /\ UNCHANGED <<hash, parked>>

\* monitor_exit() by a thread that has entered: it should always succeed, and
\* when it does not the monitor stays as it is.
Exit(t, r) ==
    /\ parked[t] = NoRef /\ holds[t][r] > 0
    /\ LET i == Find(table, r) IN
          /\ i # Nil /\ table.buckets[i].owner = t
          /\ table' = [table EXCEPT
                !.buckets[i].owner = IF table.buckets[i].count = 1 THEN NoThread ELSE @,
                !.buckets[i].count = @ - 1]
    /\ holds' = [holds EXCEPT ![t][r] = @ - 1]
    /\ UNCHANGED <<hash, parked>>

\* thread_wait(): release a monitor held once and create its condition when it
\* has none.  The bucket looked up before the allocation is used after it.
Wait(t, r) ==
    /\ parked[t] = NoRef /\ holds[t][r] = 1
    /\ LET i == Find(table, r)
           freed == [table EXCEPT !.buckets[i].owner = NoThread, !.buckets[i].count = 0]
       IN /\ i # Nil /\ table.buckets[i].owner = t
          /\ IF table.buckets[i].cond # NoRef
             THEN table' = freed
             ELSE \E p \in Allocating(freed, {r}) :
                     table' = [p EXCEPT !.buckets[i].cond = r]
    /\ holds' = [holds EXCEPT ![t][r] = 0]
    /\ parked' = [parked EXCEPT ![t] = r]
    /\ UNCHANGED hash

\* The wait is over; the thread takes the monitor again with monitor_enter().
WakeUp(t) ==
    /\ parked[t] # NoRef
    /\ parked' = [parked EXCEPT ![t] = NoRef]
    /\ UNCHANGED <<hash, table, holds>>

\* A collection started by any other allocation.
Collect ==
    /\ table' \in Allocating(table, {}) \ {table}
    /\ UNCHANGED <<hash, holds, parked>>

----------------------------------------------------------------------------
Init ==
    /\ hash \in [Ref -> HashValues]
    /\ \E cap \in Capacities :
          table = [capacity |-> cap, entries |-> 0, buckets |-> EmptyBuckets(cap), coalesced |-> FALSE]
    /\ holds = [t \in Thread |-> [r \in Ref |-> 0]]
    /\ parked = [t \in Thread |-> NoRef]

Next ==
    \/ \E t \in Thread, r \in Ref : Enter(t, r) \/ Exit(t, r) \/ Wait(t, r)
    \/ \E t \in Thread : WakeUp(t)
    \/ Collect

Spec == Init /\ [][Next]_vars
----------------------------------------------------------------------------
\* A monitor that is in the table is found by the lookup of its object, so that
\* monitor_enter() never adds a second one, as long as no collection has met a
\* coalesced table: growing, shrinking and purging keep chains and probing consistent.
Findable ==
    ~ table.coalesced => \A i \in Occupied(table) : Find(table, table.buckets[i].ref) = i

\* The loops over the table end.  A free bucket is always left, tm.entries being
\* the number of monitors it should, so the probing ones of monitor_enter() and
\* tm_rehash() do.  Until a collection has met a coalesced table no chain is
\* circular, so the lookups of monitor_enter(), monitor_exit(), thread_wait() and
\* thread_notify() do; later the stale `next' a swap leaves may close a circle.
LookupEnds ==
    /\ TypeOK
    /\ ~ table.coalesced => \A h \in DOMAIN table.buckets : Ends(table, h)
    /\ table.entries = Cardinality(Occupied(table))
    /\ table.entries < table.capacity

\* Two threads never hold the monitor of one object at the same time.
MutualExclusion ==
    \A r \in Ref : \A t, u \in Thread : holds[t][r] > 0 /\ holds[u][r] > 0 => t = u

\* A thread that entered a monitor can exit it: monitor_exit() finds it, owned
\* by that thread, as many times as it was entered; collections of tables that
\* are not coalesced included.
CanExit ==
    /\ Findable
    /\ ~ table.coalesced =>
        \A t \in Thread, r \in Ref : holds[t][r] > 0 =>
            LET i == Find(table, r) IN
            i # Nil /\ table.buckets[i].owner = t /\ table.buckets[i].count = holds[t][r]

\* A condition variable belongs to the monitor it was created for: notify() on
\* an object reaches the threads that wait on it.
CondAtHome ==
    /\ \A i \in DOMAIN table.buckets :
          table.buckets[i].cond \in {NoRef, table.buckets[i].ref}
    /\ \A t \in Thread : parked[t] # NoRef =>
          LET i == Find(table, parked[t]) IN i # Nil /\ table.buckets[i].cond = parked[t]

\* The monitors lookups find: the map from objects to monitors.
Found ==
    [r \in Ref |->
        LET i == Find(table, r) IN
        [owner |-> IF i = Nil THEN NoThread ELSE table.buckets[i].owner,
         count |-> IF i = Nil THEN 0 ELSE table.buckets[i].count]]

Monitor == INSTANCE MonitorMap WITH mon <- Found

\* Every operation does to the table what it promises for the object it is
\* called with, and nothing to the monitor of any other object, until a
\* collection meets a coalesced table.
ImplementsMap ==
    Monitor!Init /\ [][~ table'.coalesced => [Monitor!Next]_Found]_vars
=============================================================================
