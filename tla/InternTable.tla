---------------------------- MODULE InternTable ----------------------------
(***************************************************************************)
(* The Java string manager of jstring.c: the hash table of literals, which *)
(* live forever, and the hash table of the strings String.intern() was     *)
(* called on, which the collector purges.                                  *)
(*                                                                         *)
(* An operation runs under the VM lock, so it is one step; a rehash        *)
(* allocates the new buckets and may start a collection in the middle of   *)
(* it.  A chain is the sequence its next fields make.                      *)
(***************************************************************************)
EXTENDS Naturals, FiniteSets, Chains

CONSTANTS
    Str,            \* addresses of java.lang.String objects
    Content,        \* what a string can say
    Hash,           \* jstring_hash(): [Content -> Nat]
    InitCapacity,   \* 2 ^ log2cap
    Load,           \* the load argument of jsm_init()
    None

\* What the constants are; the modules that give them values assume it.
InternAssumption ==
    /\ Hash \in [Content -> Nat]
    /\ InitCapacity \in Nat \ {0, 1} /\ Load \in Nat \ {0}
    /\ None \notin Content

VARIABLES
    live,       \* the addresses that hold a string
    rooted,     \* the strings the program can reach by itself
    content,    \* what each string says
    buckets, entries,       \* jsm.buckets (whose length is jsm.capacity), jsm.entries
    litBuckets, litEntries, \* the same for literals
    interned,   \* bookkeeping: the strings a literal or an intern() call returned
    split       \* bookkeeping: a purge has forgotten a live string, or a literal
                \* was added that equals an interned string

vars == <<live, rooted, content, buckets, entries, litBuckets, litEntries, interned, split>>

Capacity(table) == Cardinality(DOMAIN table)

\* All entries of a table, bucket after bucket.
Entries(table) == FlattenSeq([i \in 1 .. Capacity(table) |-> table[i - 1]])

Bucket(c, table) == Hash[c] % Capacity(table)

\* InitCapacity doubled n times: 1 << (log2cap + n).
Doubled(n) ==
    LET double[i \in 0 .. n] == IF i = 0 THEN InitCapacity ELSE 2 * double[i - 1]
    IN  double[n]

TypeOK ==
    /\ live \subseteq Str /\ rooted \subseteq live /\ interned \subseteq live
    /\ content \in [Str -> Content \cup {None}]
    /\ \A table \in {buckets, litBuckets} :
          /\ DOMAIN table = 0 .. Capacity(table) - 1
          /\ \E n \in 0 .. Capacity(table) : Capacity(table) = Doubled(n)
          /\ ToSet(Entries(table)) \subseteq Str
    /\ entries \in Nat /\ litEntries \in Nat /\ split \in BOOLEAN

----------------------------------------------------------------------------
\* Mutant: only the first string of the chain is compared.
MutFind(table, c) ==
    LET chain == table[Bucket(c, table)]
    IN  IF chain # <<>> /\ content[Head(chain)] = c THEN <<Head(chain)>> ELSE <<>>

\* The search of a chain with jstring_equals(): the entries that say c.
Find(table, c) == Kept(table[Bucket(c, table)], {s \in Str : content[s] = c})

\* A string is put in front of its chain.
Insert(table, s, c) == [table EXCEPT ![Bucket(c, table)] = <<s>> \o @]

\* Mutant: the buckets are copied to a table of the new size.
MutRehashed(table, says, capacity) ==
    [h \in 0 .. capacity - 1 |-> IF h \in DOMAIN table THEN table[h] ELSE <<>>]

\* jsm_rehash(): every string moves to the front of its new chain, where its
\* cachedHashCode says.
Rehashed(table, says, capacity) ==
    [h \in 0 .. capacity - 1 |->
        Reverse(Kept(Entries(table), {s \in ToSet(Entries(table)) : Hash[says[s]] % capacity = h}))]

\* jsm_purge(): as in gc_purge_weakref_list(), a chain that begins with a live
\* string is forgotten.
Purged(chain, marked) ==
    IF chain # <<>> /\ Head(chain) \in marked THEN <<>> ELSE Kept(chain, marked)

\* The entries counted by jsm_purge(): those that are marked, forgotten or not.
Used(table, marked) == Len(Kept(Entries(table), marked))

PurgedTable(table, marked) == [h \in DOMAIN table |-> Purged(table[h], marked)]

\* A string that is marked is in the table before and not after.
Forgets(table, marked) ==
    ~ ToSet(Entries(table)) \cap marked \subseteq ToSet(Entries(PurgedTable(table, marked)))

\* The size jstring_intern() goes to with n entries.
NewCapacity(n, capacity) ==
    IF n > capacity * Load THEN capacity * 2
    ELSE IF n < (capacity \div 2) * Load /\ capacity > InitCapacity THEN capacity \div 2
    ELSE capacity

\* The roots of a collection: the program's and jsm_mark()'s.
Marked == rooted \cup ToSet(Entries(litBuckets))

----------------------------------------------------------------------------
\* A string made at run time.
NewString(s, c) ==
    /\ s \in Str \ live
    /\ live' = live \cup {s} /\ rooted' = rooted \cup {s}
    /\ content' = [content EXCEPT ![s] = c]
    /\ UNCHANGED <<buckets, entries, litBuckets, litEntries, interned, split>>

Drop(s) ==
    /\ s \in rooted
    /\ rooted' = rooted \ {s}
    /\ UNCHANGED <<live, content, buckets, entries, litBuckets, litEntries, interned, split>>

\* A collection: the tables are purged and the dead swept.
Collect ==
    /\ buckets' = PurgedTable(buckets, Marked)
    /\ entries' = Used(buckets, Marked)
    /\ live' = Marked
    /\ interned' = interned \cap Marked
    /\ split' = (split \/ Forgets(buckets, Marked))
    /\ UNCHANGED <<rooted, content, litBuckets, litEntries>>

\* jstring_intern() of a string whose equal is a literal, or interned.
InternFound(s) ==
    /\ s \in rooted
    /\ LET found == Find(litBuckets, content[s]) \o Find(buckets, content[s])
       IN  /\ found # <<>>
           /\ rooted' = rooted \cup {Head(found)}
           /\ interned' = interned \cup {Head(found)}
    /\ UNCHANGED <<live, content, buckets, entries, litBuckets, litEntries, split>>

\* jstring_intern() that adds the string and changes the size of the table when
\* needed; collects says whether the allocation of the new buckets collects.
InternAdd(s, collects) ==
    /\ s \in rooted
    /\ Find(litBuckets, content[s]) = <<>> /\ Find(buckets, content[s]) = <<>>
    /\ LET table == Insert(buckets, s, content[s])
           capacity == NewCapacity(entries + 1, Capacity(buckets))
           purged == IF collects THEN PurgedTable(table, Marked) ELSE table
       IN  /\ collects => capacity # Capacity(buckets)
           /\ buckets' = IF capacity = Capacity(buckets) THEN table
                         ELSE Rehashed(purged, content, capacity)
           /\ entries' = IF collects THEN Used(table, Marked) ELSE entries + 1
           /\ live' = IF collects THEN Marked ELSE live
           /\ split' = (split \/ (collects /\ Forgets(table, Marked)))
           /\ interned' = {s} \cup IF collects THEN interned \cap Marked ELSE interned
    /\ UNCHANGED <<rooted, content, litBuckets, litEntries>>

\* jstring_create_literal() of a literal that is known.
LiteralFound(c) ==
    /\ LET found == Find(litBuckets, c)
       IN  /\ found # <<>>
           /\ rooted' = rooted \cup {Head(found)}
    /\ UNCHANGED <<live, content, buckets, entries, litBuckets, litEntries, interned, split>>

\* jstring_create_literal() of a new one.  The table of interned strings is not
\* looked at, and the table of literals grows past lit_init_capacity entries for
\* each bucket.
LiteralAdd(s, c) ==
    /\ s \in Str \ live
    /\ Find(litBuckets, c) = <<>>
    /\ content' = [content EXCEPT ![s] = c]
    /\ LET table == Insert(litBuckets, s, c)
           capacity == Capacity(litBuckets)
       IN  litBuckets' = IF litEntries + 1 > capacity * InitCapacity
                         THEN Rehashed(table, content', capacity * 2) ELSE table
    /\ litEntries' = litEntries + 1
    /\ live' = live \cup {s} /\ rooted' = rooted \cup {s}
    /\ interned' = interned \cup {s}
    /\ split' = (split \/ Find(buckets, c) # <<>>)
    /\ UNCHANGED <<buckets, entries>>

Init ==
    /\ live = {} /\ rooted = {} /\ interned = {} /\ split = FALSE
    /\ content = [s \in Str |-> None]
    /\ buckets = [h \in 0 .. InitCapacity - 1 |-> <<>>] /\ entries = 0
    /\ litBuckets = [h \in 0 .. InitCapacity - 1 |-> <<>>] /\ litEntries = 0

Next ==
    \/ \E s \in Str, c \in Content : NewString(s, c) \/ LiteralAdd(s, c)
    \/ \E s \in Str : Drop(s) \/ InternFound(s) \/ \E b \in BOOLEAN : InternAdd(s, b)
    \/ \E c \in Content : LiteralFound(c)
    \/ Collect

Spec == Init /\ [][Next]_vars
----------------------------------------------------------------------------
\* Every entry of both tables sits in the bucket its hash leads to, whatever
\* rehashes there were, and no two entries of a table say the same: a lookup
\* finds the one that is there.
Placed ==
    \A table \in {buckets, litBuckets} :
        /\ \A h \in DOMAIN table : \A s \in ToSet(table[h]) : Bucket(content[s], table) = h
        /\ IsInjective(Entries(table))
        /\ \A s, t \in ToSet(Entries(table)) : content[s] = content[t] => s = t

\* No entry is the address of a string that was swept.
TableAlive == \A table \in {buckets, litBuckets} : ToSet(Entries(table)) \subseteq live

\* String.intern(): equal strings have one representative for as long as the
\* program holds it.  Growing, shrinking and collecting do not break this; a
\* forgotten string and a literal that comes late do, and nothing else does.
Canonical ==
    ~ split => \A s, t \in interned \cap rooted : content[s] = content[t] => s = t
=============================================================================
