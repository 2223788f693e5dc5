-------------------------------- MODULE Heap --------------------------------
(***************************************************************************)
(* The unified heap of memory.c: the bins of free chunks, the allocators   *)
(* that carve Java objects, C blocks and permanent blocks out of them, and *)
(* the sweep that finds the objects again by scanning memory word by word. *)
(*                                                                         *)
(* Addresses and sizes count words.  A block is a header, the references   *)
(* of the object in front of it and its other data behind it.  Operations  *)
(* run under the VM lock: each is one step.                                *)
(***************************************************************************)
EXTENDS Integers, FiniteSets, Chains

CONSTANTS
    Words,      \* size of the heap (heap.max_size)
    InitWords,  \* what of it is in use at first
    BinEntries, \* BIN_ENTRIES: chunks up to this size have bins of their own
    MaxRefs, MaxData    \* bounds: references and other words of a block

\* What the constants are; the modules that give them values assume it.
HeapAssumption ==
    /\ {Words, InitWords, BinEntries, MaxRefs, MaxData} \subseteq Nat
    /\ 0 < InitWords /\ InitWords <= Words /\ BinEntries > 0

VARIABLES
    heap,   \* heap_t and the memory: [collect, end, perm, bin, large, bitmap, mem]
    blocks, \* bookkeeping: the blocks in use, [header, refs, data, java]
    rooted, \* the headers of the Java objects the program can reach
    oom     \* an allocation failed: vm_fail()

vars == <<heap, blocks, rooted, oom>>

Address == 0 .. Words - 1

(* What the sweep sees in a word: nothing, a value aligned like a pointer  *)
(* (a reference, the links and sizes of free chunks), any other data, or a *)
(* header, of a C block or of an object with so many references and words. *)
Word == [kind : {"zero", "aligned", "data", "c", "object"}, refs : 0 .. MaxRefs, data : 0 .. MaxData]
Plain(k) == [kind |-> k, refs |-> 0, data |-> 0]

Chunk == [at : Address, size : 1 .. Words]

TypeOK ==
    /\ heap \in [collect : BOOLEAN, end : InitWords .. Words, perm : InitWords .. Words,
                 bin : [1 .. BinEntries -> Seq(Address)], large : Seq(Chunk),
                 bitmap : SUBSET Address, mem : [Address -> Word]]
    /\ heap.end <= heap.perm
    /\ rooted \subseteq {b.header : b \in blocks}
    /\ oom \in BOOLEAN

----------------------------------------------------------------------------
(* Free chunks                                                             *)

Fill(mem, from, size, word) ==
    [a \in Address |-> IF a \in from .. from + size - 1 THEN word ELSE mem[a]]

\* put_chunk(): the links are written into the chunk itself.
PutChunk(h, at, size) ==
    IF size = 0 THEN h
    ELSE IF size <= BinEntries
    THEN [h EXCEPT !.bin[size] = <<at>> \o @, !.mem = Fill(@, at, 1, Plain("aligned"))]
    ELSE [h EXCEPT !.large = <<[at |-> at, size |-> size]>> \o @,
                   !.mem = Fill(@, at, 2, Plain("aligned"))]

\* The chunk get_chunk() picks for a size, as a sequence of at most one: from the
\* first bin that has one, or the first that is large enough.
Candidate(h, size) ==
    LET fits == {id \in 1 .. BinEntries : id >= size /\ h.bin[id] # <<>>}
        large == {k \in DOMAIN h.large : h.large[k].size >= size}
    IN  IF fits # {} THEN <<[at |-> Head(h.bin[Min(fits)]), size |-> Min(fits)]>>
        ELSE IF large # {} THEN <<h.large[Min(large)]>> ELSE <<>>

Unlink(h, c) ==
    IF c.size <= BinEntries THEN [h EXCEPT !.bin[c.size] = Tail(@)]
    ELSE [h EXCEPT !.large = Kept(@, ToSet(@) \ {c})]

\* Mutant: what is left is lost.
MutTakeChunk(h, c, size) == Unlink(h, c)

\* get_chunk() of a candidate: what is left of it goes back to the bins.
TakeChunk(h, c, size) == PutChunk(Unlink(h, c), c.at + size, c.size - size)

\* Every free chunk.
Chunks(h) ==
    ToSet(h.large) \cup {c \in Chunk : c.size <= BinEntries /\ c.at \in ToSet(h.bin[c.size])}

\* The words of a chunk.
ChunkWords(c) == c.at .. c.at + c.size - 1

\* Mutant: free chunks are not cleared.
MutPurgeBin(h) == [h EXCEPT !.bin = [i \in 1 .. BinEntries |-> <<>>], !.large = <<>>]

\* gc_purge_bin(): the chunks are taken out of the bins and cleared.
PurgeBin(h) ==
    [h EXCEPT !.bin = [i \in 1 .. BinEntries |-> <<>>], !.large = <<>>,
              !.mem = [a \in Address |-> IF \E c \in Chunks(h) : a \in ChunkWords(c)
                                        THEN Plain("zero") ELSE @[a]]]

----------------------------------------------------------------------------
(* gc_sweep() and gc_grow()                                                *)

\* gc_grow(): the heap ends later, but not in the permanent area, and what
\* follows address at is a chunk.
Grow(h, at, size) ==
    LET end == IF h.end + size > h.perm THEN h.perm ELSE h.end + size
    IN  PutChunk([h EXCEPT !.end = end], at, end - at)

\* Mutant: the bits of dead objects stay set.
MutSweepWord(s, a, marked) ==
    LET w == s.h.mem[a]
        next == a + 1 + w.data
        free == a - w.refs - s.last
    IN  IF a < s.scan THEN s
        ELSE IF w.kind \in {"zero", "aligned"} THEN [s EXCEPT !.scan = a + 1]
        ELSE IF w.kind = "data" THEN [s EXCEPT !.scan = a + 1, !.lost = TRUE]
        ELSE IF w.kind = "c" \/ a \in marked
        THEN [s EXCEPT !.h = PutChunk(@, s.last, free), !.free = @ + free,
                       !.largest = IF free > @ THEN free ELSE @,
                       !.used = @ + w.refs + 1 + w.data, !.scan = next, !.last = next]
        ELSE [s EXCEPT !.scan = next]

\* The sweep at its next word.  Free space is put in the bins when the marked
\* block behind it is found; a dead object is left to the next one.
SweepWord(s, a, marked) ==
    LET w == s.h.mem[a]
        next == a + 1 + w.data
        free == a - w.refs - s.last
    IN  IF a < s.scan THEN s
        ELSE IF w.kind \in {"zero", "aligned"} THEN [s EXCEPT !.scan = a + 1]
        ELSE IF w.kind = "data" THEN [s EXCEPT !.scan = a + 1, !.lost = TRUE]
        ELSE IF w.kind = "c" \/ a \in marked
        THEN [s EXCEPT !.h = PutChunk(@, s.last, free), !.free = @ + free,
                       !.largest = IF free > @ THEN free ELSE @,
                       !.used = @ + w.refs + 1 + w.data, !.scan = next, !.last = next]
        ELSE [s EXCEPT !.h.bitmap = @ \ {a}, !.scan = next]

\* The whole scan, up to heap.end.
Scan(h, marked) ==
    LET start == [h |-> h, scan |-> 0, last |-> 0, free |-> 0, largest |-> 0, used |-> 0, lost |-> FALSE]
        scanned[a \in 0 .. h.end] ==
            IF a = 0 THEN start ELSE SweepWord(scanned[a - 1], a - 1, marked)
    IN  scanned[h.end]

\* The end of the sweep: the tail becomes a chunk, longer than it was if no chunk
\* exceeds the size asked for or less than half of what is in use was free.
Sweep(h, marked, size) ==
    LET s == Scan(h, marked)
        tail == h.end - s.last
        free == s.free + tail
        largest == IF tail > s.largest THEN tail ELSE s.largest
        short == (s.used - 2 * free + 1) \div 2
    IN  IF largest > size /\ 2 * free > s.used
        THEN PutChunk(s.h, s.last, tail)
        ELSE Grow(s.h, s.last, IF short > size THEN short ELSE size)

\* gc_collect(size) up to the marking; with the collector off the heap grows.
Collected(h, size) ==
    IF h.collect THEN Sweep(PurgeBin(h), rooted, size) ELSE Grow(h, h.end, size)

Survivors(bs) == {b \in bs : b.java /\ heap.collect => b.header \in rooted}

----------------------------------------------------------------------------
(* Allocation                                                              *)

\* The memory of a new block, with the worst its owner can store in it.
Filled(mem, at, refs, data, java) ==
    LET header == [kind |-> IF java THEN "object" ELSE "c", refs |-> refs, data |-> data]
        m1 == Fill(mem, at, refs, Plain("aligned"))
        m2 == Fill(m1, at + refs + 1, data, Plain("data"))
    IN  [m2 EXCEPT ![at + refs] = header]

\* A block is made from chunk c of heap h; bs are the blocks there are.
Install(h, bs, c, refs, data, java) ==
    LET t == TakeChunk(h, c, refs + 1 + data)
        header == c.at + refs
    IN  /\ heap' = [t EXCEPT !.mem = Filled(@, c.at, refs, data, java),
                             !.bitmap = IF java THEN @ \cup {header} ELSE @]
        /\ blocks' = bs \cup {[header |-> header, refs |-> refs, data |-> data, java |-> java]}
        /\ rooted' = IF java THEN rooted \cup {header} ELSE rooted

\* gc_alloc() for gc_new(), gc_new_array_*() and gc_malloc(): try, collect, try
\* again, give up.
Alloc(refs, data, java) ==
    LET size == refs + 1 + data
        first == Candidate(heap, size)
        h == Collected(heap, size)
        second == Candidate(h, size)
    IN  \/ /\ first # <<>>
           /\ Install(heap, blocks, first[1], refs, data, java)
           /\ UNCHANGED oom
        \/ /\ first = <<>> /\ second # <<>>
           /\ Install(h, Survivors(blocks), second[1], refs, data, java)
           /\ UNCHANGED oom
        \/ /\ first = <<>> /\ second = <<>>
           /\ heap' = h /\ blocks' = Survivors(blocks)
           /\ oom' = TRUE
           /\ UNCHANGED rooted

\* gc_new() and the arrays.
New(refs, data) == Alloc(refs, data, TRUE)

\* gc_malloc() of at least a word.
Malloc(data) == data > 0 /\ Alloc(0, data, FALSE)

\* gc_palloc() from the permanent area; when that is full it is a gc_malloc().
Palloc(data) ==
    /\ data > 0
    /\ IF heap.perm - data >= heap.end
       THEN /\ heap' = [heap EXCEPT !.perm = @ - data, !.mem = Fill(@, heap.perm - data, data, Plain("data"))]
            /\ UNCHANGED <<blocks, rooted, oom>>
       ELSE Malloc(data)

\* gc_free().
Free(b) ==
    /\ ~ b.java
    /\ heap' = PutChunk(heap, b.header, 1 + b.data)
    /\ blocks' = blocks \ {b}
    /\ UNCHANGED <<rooted, oom>>

\* Runtime.gc() calls gc_collect(0).
Gc ==
    /\ heap' = Collected(heap, 0)
    /\ blocks' = Survivors(blocks)
    /\ UNCHANGED <<rooted, oom>>

\* gc_enable(true), when vm_run() has set up everything the collector looks at.
Enable ==
    /\ heap' = [heap EXCEPT !.collect = TRUE]
    /\ UNCHANGED <<blocks, rooted, oom>>

\* The program loses its last reference to an object.
Drop(header) ==
    /\ rooted' = rooted \ {header}
    /\ UNCHANGED <<heap, blocks, oom>>

Init ==
    /\ heap = PutChunk([collect |-> FALSE, end |-> InitWords, perm |-> Words, bin |-> [i \in 1 .. BinEntries |-> <<>>],
                        large |-> <<>>, bitmap |-> {}, mem |-> [a \in Address |-> Plain("zero")]],
                       0, InitWords)
    /\ blocks = {} /\ rooted = {} /\ oom = FALSE

Next ==
    /\ ~ oom
    /\ \/ \E refs \in 0 .. MaxRefs, data \in 0 .. MaxData : New(refs, data)
       \/ \E data \in 0 .. MaxData : Malloc(data) \/ Palloc(data)
       \/ \E b \in blocks : Free(b)
       \/ \E header \in rooted : Drop(header)
       \/ Enable
       \/ Gc

Spec == Init /\ [][Next]_vars
----------------------------------------------------------------------------
\* The words of a block.
BlockWords(b) == b.header - b.refs .. b.header + b.data

\* The free chunks and the blocks in use tile the heap: no word is lost, none is
\* handed out twice, and none lies in the permanent area.
Tiled ==
    LET free == Chunks(heap)
        words == {ChunkWords(c) : c \in free} \cup {BlockWords(b) : b \in blocks}
    IN  /\ UNION words = 0 .. heap.end - 1
        /\ \A b, d \in blocks : b # d => BlockWords(b) \cap BlockWords(d) = {}
        /\ \A c \in free, b \in blocks : ChunkWords(c) \cap BlockWords(b) = {}
        /\ \A c, d \in free : c # d => ChunkWords(c) \cap ChunkWords(d) = {}
        /\ IsInjective(heap.large) /\ \A c \in ToSet(heap.large) : c.size > BinEntries
        /\ \A i \in 1 .. BinEntries : IsInjective(heap.bin[i])
        /\ heap.end <= heap.perm

\* A sweep that starts now never takes the data of a dead object, a freed block
\* or a free chunk for a header.
SweepFindsHeaders == ~ Scan(PurgeBin(heap), rooted).lost

\* The bitmap says which words are headers of Java objects, dead ones that have
\* not been swept included, so gc_mark_potential() never follows anything else.
BitmapExact == heap.bitmap = {b.header : b \in {d \in blocks : d.java}}

\* The VM fails for lack of memory only when the heap has grown to its limit.
FailsWhenFull == oom => heap.end = heap.perm
=============================================================================
