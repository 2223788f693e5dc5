# Jelatine: a TLA+ model of the virtual machine

Jelatine (`src/src/jelatine`) is a small Java virtual machine for the CLDC
profile, written in C: an interpreter, a class loader, a mark-and-sweep
collector and native threads under one global lock. Sun's preverifier
(`src/src/preverifier`), which checks classes at build time, comes with it. This
directory holds TLA+ modules that model the runtime (threads, safe points,
monitors, heap, marking, weak references, finalization, interned strings), the
way of a class into it (loading, tables, initialization, translation and linking of code)
and its execution (frames, opcodes, and the analysis that makes them safe), TLC
configurations that check them and TLAPS proofs about them. `PROJECT.json` maps every definition to the lines
it models and lists runs, mutants, findings, hazards and theorems.

    tlc -config SafePoint.cfg MCSafePoint.tla      # model-check one run
    tlapm SafePointProofs.tla                      # check the proofs of a module

## 1. Inventory

Paths are relative to `src/src/jelatine` unless they start with `classpath` or
`preverifier`.

| Component | State | Operations | What makes it correct |
|---|---|---|---|
| **Threads and safe points** `thread.c` | `tm.lock` (recursive), `tm.queue`, per thread `blocked`, `stopped` | `tm_lock/unlock`, `tm_stop_the_world`, `thread_may_block/resumes`, `thread_launch`, `thread_start`, `tm_register/unregister` | no registered thread runs Java or VM code during a collection; a collection that was asked for takes place |
| **Monitor table** `thread.c` | `tm.buckets`, `capacity`, `entries`: hashing with chains inside one array | `monitor_enter/exit`, `tm_rehash`, `tm_purge` | a monitor is found for as long as somebody uses it; probing and lookups end |
| **Monitors and thread calls** `thread.c`, `native.c` | owner, count and condition of a monitor; `cond_int`, `interrupted` | enter, exit, wait, notify, sleep, join, interrupt, death | mutual exclusion; `wait()` gives back what it took; wakeups reach who they are for |
| **Heap** `memory.c`, `header.h` | bins, large chunks, `end`, `perm`, bitmap, memory | `gc_new*`, `gc_malloc`, `gc_palloc`, `gc_free`, `gc_sweep`, `gc_grow` | chunks and blocks tile the heap; the sweep takes nothing else for a header |
| **Marking** `memory.c` | mark bits, reversed pointers, counters in headers | `gc_mark*` | marks what is reachable and restores every pointer |
| **Weak references** `memory.c`, `classpath/java/lang/ref` | `heap.weakref_list`, `referent` | register, `get`, `clear`, purge | `get()` never returns a swept object |
| **Finalization** `memory.c`, `classpath/jelatine/VMFinalizer.java` | `heap.finalizable`, `heap.finalizing`, a monitor | register, `gc_mark_finalizable`, `gc_get_finalizable` | each finalizer runs once, on a lost object, before the object is swept |
| **String manager** `jstring.c` | two hash tables of strings | intern, literal, rehash, purge | equal interned strings are one object |
| **Class loader** `loader.c`, `class.c`, `classfile.c` | class table, the state of a class, its tables | resolve, load, derive, initialize | a class is found exactly if it and what it needs is sound and visible; a failure leaves no lock held; one call initializes a class, its superclass first |
| **Fields and methods** `field.c`, `method.c`, `loader.c` | offsets, dispatch and interface tables | layout, lookup, dispatch | a call runs the nearest method, a field has its own aligned place that the collector knows |
| **Constant pool, translation, linking** `constantpool.c`, `bytecode.c`, `loader.c` | pool entries and their tags; the code, rewritten in place | `cp_create`, `translate_bytecode`, `bcl_link_opcode` | valid code is accepted, and what is executed is what the class file says, whoever links it when |
| **Interpreter** `interpreter.c` | the Java stack, `pc`, `sp`, `locals`, pending exception | some 230 opcodes, calls, natives, unwinding | frames and operands never meet; registers describe the top frame; monitors of synchronized methods are left once; no opcode misreads a word |
| **Preverifier** `preverifier/check_code.c` | types of registers and stack per instruction, a worklist | the data flow analysis of a method | accepts what a compiler writes and nothing the interpreter would misread |
| **Natives, KNI** `native.c`, `kni.c` | handles | natives of the library, `arraycopy`, sockets | - |
| **VM start and stop** `vm.c`, `main.c`, `util.c` | `c_throw` environments | `vm_run` | - |
| **Printing** `print.c`, **class library** `classpath` | - | - | not modelled, section 7 |

How they interact. Everything that touches shared structures takes `tm.lock`,
which one thread may take several times. Any allocation may collect:
`gc_collect()` asks every thread to stop, then runs, in this order, the marking,
`gc_mark_finalizable`, `gc_purge_weakref_list`, `jsm_purge`, `tm_purge`,
`gc_purge_bin` and `gc_sweep`. So each table above changes under the feet of
whoever allocates while it uses the table, and each purge must leave what the
next operation expects. The collector itself calls `monitor_enter()`.

A method is loaded and translated at its first call; an opcode that names
something in the constant pool is a `*_PRELINK` opcode until a thread executes
it, takes the lock, loads and initializes the class, which may run any Java
code in a nested `interpreter()`, and writes the linked opcode over it. The
interpreter checks none of the words it uses: it trusts the preverifier.

What is hard: the unlocked flag protocol of the safe points; a recursive lock
of which a wait gives up one level; conditions shared by waiters who do not look
why they woke; tables that a collection rewrites in the middle of an operation;
lists purged with pointer surgery, several times in a row; an allocator whose
collector recognises objects by two bits of a word; a marking that stores its
own stack in the objects; code that is rewritten while other threads execute it;
a loader that recurses with a lock held and is left by `longjmp`; C variables that
cache a frame through calls, handlers and nested interpreters.

## 2. Modules

| Module | Models | Correspondence |
|---|---|---|
| `SafePoint` | safe points and the life of a thread | one label per access to a shared flag; `owner`, `depth` are the mutex; `todo`, `quiet` are the loop state of `tm_stop_the_world()`; `raced` a history variable |
| `MonitorTable` | the table, bucket for bucket | `table` is the array with `ref`, `owner`, `count`, `cond`, `next`; `Rehome` and `Rechain` are the loops of `tm_purge()`; `Walk` follows the chain a lookup follows |
| `MonitorMap` | what the table promises: a map from objects to owner and count | refined by `MonitorTable` through `Found`, the map lookups see |
| `Monitors` | monitors as that map, and every thread call on top | an operation is one step up to the point where it blocks on a condition, since it runs under `tm.lock`; `cond` and `stray` say where `thread_wait()` has stored a condition; `astray`, `missed`, `refused` are history variables |
| `Heap` | the allocator and the sweep | addresses count words; `mem` holds what the sweep can tell apart in a word |
| `Marking` | `gc_mark()` over a graph of objects, by pointer reversal and by recursion | one step per turn of the loop of `gc_mark_reference()`; `count` is the counter in the header, `path` a history variable: the objects whose followed reference is reversed |
| `WeakRefs` | the chain over several collections | the purge is written as what the walk leaves: `Purged`, `Cleared`, `ReadsNull` |
| `InternTable` | both string tables | buckets are sequences of string addresses |
| `Finalizer` | lists, collector, finalizer thread | labels end just before each `tm_lock()`, where a collection may come in |
| `ClassTables` | what `derive_class()` builds and what linker and interpreter look up in it: layout, dispatch and interface tables | operators over the class files and the tables of the classes that are there |
| `Loading` | `bcl_resolve_class()`, `load_class()` and what they call, over class files with faults | `stack` is the C stack of the recursive calls; `c_throw()` unwinds it frame by frame to the one that catches; `lock` counts `tm.lock` |
| `ClassInit` | `initialize_class()` and the linker that calls it | `stack[t]` is the C stack of nested calls of `initialize_class()`, `lock` the holder of `tm.lock` between two steps, `site` a `*_PRELINK` opcode or a method `main`, `resolved` the tags of the constant pool; `unseen` the threads that run on with an exception an invocation's linking left (`Tested` are the sites that look for one) |
| `ConstantPool` | `cp_create()` and the resolution of entries | a pool is the sequence of its entries, each a tag and two data that say how they were written |
| `Bytecode` | one method from the class file to its execution: `translate_bytecode()`, `bcl_link_opcode()`, and how the interpreter decodes | `code` is the bytes, each number byte with its value, order and position, so that a number put together from foreign bytes is `Garbled`; every thread has a stack of activations |
| `Verifier` | the analysis of `check_code.c`: merging, subtyping, the worklist, handlers, constructors | types are the triples of `fullinfo_type`; one operator per family of opcodes |
| `Interpreter` | every group of opcodes on one frame, run on what `Verifier` accepts | a word remembers what was written into it, which the C code does not; numbers have no value |
| `Frames` | the Java stack of one thread: calls, returns, natives, synchronized methods, nested interpreters, unwinding | `frames` with each frame's `pc` as one of seven places; `sp`, `locals` are the C variables, `outer` those of the interpreters further out; `unpaired` a history variable |
| `Chains` | unlinking from a linked list | `Kept`, a recursive function: what is left of the list |
| `Memory` | composes `Heap`, `WeakRefs`, `InternTable`, `Finalizer`, and states what they promise; `MCMemory` gives it values | they share no state: a behaviour is one of one of them (`side`) |
| `SafePointProofs`, `MonitorTableProofs`, `MonitorsProofs`, `ClassInitProofs`, `LoadingProofs`, `MarkingProofs`, `FramesProofs`, `MemoryProofs` | proofs about the module each is named after | |

How they fit together. `Monitors` builds on the abstraction `MonitorMap` states:
owners and counts as a map. `SafePoint` justifies that the other modules take a
collection as one step: nobody runs meanwhile. `Heap` takes the set of marked
objects as given, which `Marking` computes; `WeakRefs`, `Finalizer` and
`InternTable` say what happens to it before the sweep. `ClassInit` has the
owners of the class objects' monitors as a map of its own, without counts: what
it needs of monitors is who spins. `Interpreter` extends `Verifier` and runs
exactly the methods its analysis accepts; it takes a call as one step, and
`Frames` has the calls, with the bytecode in between as one step that leaves the
operand stack at any depth. `Loading` extends `ClassTables`; `Bytecode` extends
`ConstantPool` and takes classes, fields and methods as already found or not.

## 3. Runs

| Run | Instance | Shows |
|---|---|---|
| `safepoint` | main and two threads, lock nesting 2, two collections; two of the threads use sockets; each may read `stopped` too early, and a collection may begin while a thread clears its flags | `IInv`; a collection overlaps no thread but those that took a flag back under it (`SafeCollection`); every request to stop is granted but for such threads (`StopGranted`) |
| `monitortable` | two threads, three objects, all hashes in {2, 3}, tables of 2 to 8 buckets, a collection at every allocation | `CanExit` and the refinement `ImplementsMap` until a collection meets a coalesced table; `LookupEnds`: so long for lookups, always for probing |
| `monitortable_purge` | the same | **violation** of `MutualExclusion` after such a collection |
| `monitors` | three threads, two monitors entered up to twice, sleep, misuse, spurious wakeups, purges in the middle of a wait | `IInv`, `MutualExclusion`, `NotifyWakes` |
| `monitors_live` | three threads, one monitor, interrupts, join, death and misuse, fair | `WaitRestores`, `WokenReturns`, `InterruptReturns` |
| `memory` | one of: seven heap words with bins for one and two; three weak references, one more object, three collections, `clear()`; three strings of three contents in tables from 2 buckets at load 1; three finalizable objects in all environments; fair | `Tiled`, `SweepFindsHeaders`, `BitmapExact`; `ChainedSound`; `Placed`, `Canonical`; `Registered`, `FinalizersRun` |
| `marking` | every heap of three objects with up to two, two and one references; two sets of roots, one with a word that is no object; both versions | `IInv`, `MarkedExactly`, `Restored` |
| `classinit` | two threads, three classes in a line, two sites that share a field entry, a NEW site, `main`; initializers throw, link, synchronize on the middle class and call `main`; the site of an invocation runs on with a pending exception; fair | `IInv`, `SuperFirst`, `InitializerLive`, `InitReturns` |
| `loading` | more than a thousand class paths over Object, A, B, C, two interfaces and arrays, two requests each; limits that some layouts exceed; an array of an interface among the interfaces; static fields of one name in any of A, B and both interfaces, over four ways to inherit these | `Answered`, `IInv`, `Dispatches`, `FieldsFound` |
| `code` | 388 methods in two threads, with a static initializer that linking runs and that may call the method | `Translated`, `RunsAsWritten`, `PoolFaithful` |
| `machine` | all methods of a few instructions over three alphabets, most of them wrong, among them all constructors of B with four instructions that set fields of A and B; ten methods as a compiler writes them; up to three objects | `Conforms`, `SafeUse`, `ValidAccepted` |
| `frames` | seven methods on a stack of eight words: a synchronized main whose initialization may fail, a synchronized native that may throw, null receivers inside handlers | `Registers`, `Balanced`, `Resumes` |

Bounds and why they are enough.

* Threads: a safe point needs a collector, a thread that comes back from a call
  and one that is being created. A monitor needs an owner, a waiter and somebody
  who competes for it or waits with the waiter.
* `MaxDepth` 2 makes a wait with the lock held twice happen, which keeps the lock.
  `MaxCollections` 2 lets flags of one collection meet the next.
* Objects with the same hash collide; homes 2 and 3 are neighbours, so that a displaced
  monitor takes the home of another object's, and bucket 3 is the last of four, so
  that probing wraps. From 2 to 8 buckets the table grows twice; from 8 it shrinks as soon
  as it holds fewer than two monitors, and a collection may empty it at any time.
* Seven heap words hold two blocks and a hole of every size, chunks with and
  without a bin of their own, growth from three words to the permanent area.
* Three weak references are a head, one behind it and one behind a dead one;
  three collections lose the chain, sweep the referent and use its address again.
* Three strings at load 1 grow the table from 2 buckets to 4; hashes 0 and 2 share a
  bucket before and part afterwards, 3 is in the other one. Three finalizable objects are one in hand, one
  that waits and one that dies.
* Three objects with two references each have every kind of sharing, cycle and
  self-reference a depth-first walk can meet: forward, back and cross edges.
* `ClassInit` has no counter to bound. Three classes make a chain of two superclass
  calls, in which the middle one can fail; the sites of an initializer may name its
  own class, its superclass or a subclass, so recursion and cycles occur.
* Class paths come in families. Hierarchies: a superclass or interface that is
  missing, final, an interface where none may be, in another package, or part of
  a cycle; each is asked for twice, so that the second call meets what the
  first one left. Methods: three levels and two interfaces, one of which extends the other,
  that define, override, hide and implement each other. Fields: every size on
  three levels, so that each kind of gap is filled by a subclass, static ones in classes and interfaces.
* The methods of `code` have every group of opcodes; the length of what comes
  before a switch goes through all four alignments, synchronized methods included, and jump targets and indices
  lie inside, at both ends and just outside. Two threads suffice for a race on one
  opcode, and a nested activation of the same method for one in the same thread.
* The alphabets of `machine` are words (ints and longs that the stack operations
  may tear apart), objects (creation and the constructor call, around a loop and in a handler)
  and constructors. Three objects tell the object a constructor finished from the
  last one made at the same instruction.
* Eight words hold main, a call and either a nested interpreter or a handler, and make
  every call overflow the stack in some state.
* `MaxNref`, `MaxRefs` and `MaxBits` are the limits of `layout_fields()` made small; as in
  the code the one on bits, which counts the header and is asked with or without booleans, refuses classes the first one lets pass.
* Two monitors are the least in which a condition can be stored into a wrong one; five
  conditions are more than can be in use at a time.

`CHECK_DEADLOCK FALSE` is given where the program may stop: all threads in
`wait()` or dead, or the VM lock kept by a misused `wait()` (`Monitors`); the VM
gave up, the collector trapped or spins, or the bound on collections is reached
(`Memory`); every site is linked and nobody synchronizes, or both threads spin
(`ClassInit`); all requests have been answered (`Loading`), everything is
marked (`Marking`), the method has been rejected, returned or thrown
(`Interpreter`). Symmetry is used in runs of safety properties only, and in
`monitortable`, whose temporal property `ImplementsMap` is a step property.

Conditional properties. Some properties hold until, or except where, the code
does something wrong that section 6 names. The condition is the weakest one we
know of; dropping it gives the counterexample.

* `coalesced` (`MonitorTable`): a collection met a monitor in another one's home bucket.
* `split` (`InternTable`): a purge forgot a string, or a literal came late.
* `env` (`Finalizer`): a spurious wakeup, an interrupt or a collection inside the first wait may happen.
* `raced` (`SafePoint`): the threads that, back from a blocking native, have lowered a flag
  the collection under way had raised or counted. The steps that do it are always possible; `OnlyNativesRace`,
  part of `IInv`, says who can be among them.
* `astray` (`Monitors`): objects whose condition was stored into an empty bucket or another monitor,
  because a purge moved the monitor while `gc_malloc()` made the condition.
* `missed`, `refused` (`Monitors`): threads whose interruption woke another waiter, and
  threads whose misused `wait()` has kept the VM lock.
* `unpaired` (`Frames`): locks for which `monitor_exit()` was called without an entry, after a throw in a
  synchronized native or a failed initialization of the class of a synchronized main. `Balanced` still says that
  such a lock is never held too often.
* Modes `"null"` and `"astray"` (`Frames`): an exception for a null receiver travels with the `locals` of
  the call. If the running method handles it, the handler would run on another method's words, and
  the behaviour ends there ("astray"); any other exception must find the right `locals`.
* `Misaligned`, `ToTheEntry`, `ResolvedConstant`, `WideLocal`, `BothWays` (`Bytecode`): a switch in a
  synchronized method, a jump in one to the byte in front of it, a class constant that
  was resolved before the method was translated, a long in the last local variable, a field entry used both as static
  and as instance field.
* `SuperField` (`Interpreter`): a constructor sets a field of its superclass before it calls that one's constructor,
  and the instruction names the superclass. `SafeUse` excepts the store, since the analysis lets it pass.
* `Dispatches` (`Loading`) says nothing of private methods called as virtual ones and
  of methods found in a class for an interface site or the other way round,
  `FieldsFound` nothing of a static field that an interface of the superclass has and
  that is not the only one of its name above the class (`Ambiguous`), and nothing of
  lookups while a class other than Object has no superclass (`Conventional`), which the loader lets pass.
  A class that names an array of an interface as an interface ends the process in `load_interfaces()`: no
  step follows `Implements` there, and nothing is answered.

`Frames` leaves out bytecode that stores into the local holding `this` (no compiler emits it), and takes
what a nested call writes over the arguments of the native function it is made from as unseen: the frame above a
native starts at the first of them (`Fits`), and no native reads them afterwards. `Verifier` rejects an `invokespecial` of a class
that is no superclass whatever the class loader, as the code does where `cbLoader` is NULL, which it is for every class
(`preverifier/classloader.c:225`, `278`).

Assumptions of `Bytecode` and `Interpreter`: a little-endian host with floating
point, stores of one thread seen by others in their order, and jump targets on instruction
boundaries, which the preverifier guarantees. One opcode stands for each group the
code treats alike.

## 4. Fairness

* `SafePoint`: weak fairness of the steps inside `tm_stop_the_world()` and
  `thread_resumes()`, because the host scheduler runs every thread, and of
  entering the VM from Java, which is an assumption about the program: the
  interpreter polls no flag at backward branches, so a loop that neither
  allocates nor synchronises would stall a collection. Nothing is assumed of
  `recv()` or of waits: they may last for ever.
* `Monitors`: weak fairness of waking up, of time passing, of the end of a
  thread and of `WaitEnd`. `monitor_enter()` spins with `tm_unlock(); sched_yield(); tm_lock()`, and no
  queue serves the spinning threads, so others may take the monitor in between for ever:
  `WokenReturns` promises only that a woken waiter returns or finds somebody else inside. Nothing
  is assumed of the program.
* `Memory`: weak fairness of the finalizer thread (`Served` of `Finalizer`), a native
  thread; nothing is assumed of the program or of collections.
* `ClassInit`: weak fairness of the steps of `initialize_class()`, which run in a
  native thread that holds the lock, and of taking a free monitor. Strong
  fairness of the end of a static initializer (`InitEnd`, `InitFailed`) says that
  the program's initializers end: they may enter monitors, throw and catch again
  and again, but not for ever. Nothing says that anybody leaves a monitor.

## 5. Proofs

`SafePointProofs`, for any set of threads, any nesting bound and any number of
collections. `IInv` conjoins seven facts, one per named conjunct: who owns the lock at
which label; a thread that does not exist is nowhere; `blocked` is up exactly
between `thread_may_block()` and the end of `thread_resumes()`; `stopped` is only
lowered by a thread that has parked; a thread resumes with the lock held unless it
comes back from a native; and, during a collection, every thread the scan has passed
is at a label from which it cannot get on without the lock. `SafeCollection` alone
is not inductive: it says nothing of the flags by which the collector decides.
Threads in `raced` are left out of that part, and `RaceInv`, the seventh, says that only those that block in natives can be
there: every other thread goes through `thread_resumes()` with the VM lock, and so not under a collection.
Theorems: `Invariance` (`[]IInv`), `Safety` (`[](SafeCollection /\ OnlyNativesRace)`), `SafetyWithoutSockets` (with
no thread in natives, a build with `--disable-socket`, no registered thread runs during a collection at
all), `FrozenList` (`ListFrozen`, which no run checks), `TypeCorrect`. They assume nothing of the order of
the flag accesses or of when a collection begins.

`MonitorsProofs`, for any threads, objects, calls and bound. `IInv` says that a
monitor without owner has count zero, that a waiting thread has given its monitor
up, that the VM's owner and count equal what the program has entered and
not exited, and (`CondInv`) that a monitor's condition is its own and its waiters are on that and on no
other, but for objects in `astray`. The last one is what a notification relies on: the condition is made by the first
waiter and stays for the next ones. Theorems: `Inductive`, `Exclusion` (`MutualExclusion`), `Agreement`
(every exit of a structured program succeeds), `Restored` (`WaitRestores`), `NotifyReaches` (`NotifyWakes`).

`MonitorTableProofs`, for any threads, objects, hashes, initial capacity and bounds; the
capacities need not be powers of two. `TableInv` holds in every state:
`tm.entries` is the number of monitors, which is below the capacity, and an owner goes with a
count that is not zero. Until a collection has met a coalesced table it adds `Good`, on the
layout, and `Agrees`: the monitors in the table are the ones the threads have entered. `CanExit` is
not inductive, because a lookup says nothing of the chains it does not follow. `Good` does: the buckets have ranks that
fall along `next` (`Acyclic`), every monitor lies on the chain that begins in its home
(`Reaches`), no object has two, and a free bucket is on no chain. A lookup takes
fewer steps than there are ranks below its start, so it ends and misses nothing (`WalkStops`, `WalkMisses`).
Inserting hangs a bucket behind the first of a chain, which keeps all that (`Link`). The two loops of `tm_purge()` have invariants of
their own: `Rehomed`, in which no monitor sits in another one's home and so nothing is ever swapped, and
`Rechained`, in which the chains of the buckets passed are complete again. `tm_rehash()` inserts
into an empty array. Theorems: `TableInvariant` (`[]TableInv`), `LoopsEnd`
(`[]LookupEnds`), `ExitsFind` (`[]CanExit`), `Exclusion` (no two threads hold a monitor
until such a collection), and `TableIsMap` (`ImplementsMap`): what the threads have
entered determines the monitors found (`SeenAs`), and every operation changes it as `MonitorMap` promises.
Trying to prove `LookupEnds` without the condition on such collections failed, and showed
the circular chain of section 6.

`ClassInitProofs`, for any threads, any class hierarchy in which no class is its own
superclass, any sites and programs. `LockInv`: exactly the holder of `tm.lock` has calls
of `initialize_class()`, and all but its innermost have begun. `SoleInitializer`: a
class is being initialized if and only if one call has begun it, by its
`init_thread`; therefore nobody comes to the wait at `loader.c:676`, which would
otherwise be a second way to hang. `SettledInv`: what is freed is initialized,
and a linked site's class has begun. `FrameInv`, `ParentInv`: a return without exception
leaves the superclass initialized or under way further out. `SuperFirst` needs
the last three: that a superclass is initialized is read two returns before it is
relied upon, and a failure and a retry may come in between. Theorems: `Initialization`
(`[]IInv`), `SuperBeforeSub` (`[]SuperFirst`), `InitializersLive` (`[]InitializerLive`).

`LoadingProofs`, for any class path, any preloaded classes, any list of classes the VM begins with
and any requests of the program. What is proved is that a failure anywhere in the recursion, caught and
followed by other requests, leaves lock, exception and the classes already there as they must be. `IInv`
says of each call of `bcl_resolve_class()` what it has established by its place (`FrameOK`: the header,
the superclass, the first `k - 1` interfaces, the element); every call but the innermost waits for the
class the next one is for, in whose name it asked (`Nested`); two calls that have begun are at work on
different classes (`Distinct`, the reason why `CS_LINKING` detects every cycle and the recursion ends);
a call that goes on has got its class, linked and visible (`Returned`); `Unwound` counts the lock, once for
each call and once for the linker, and says where `c_exception.data` may be left set; `Outermost`
relates the outermost call to what asked for it; `Whole` says that a linked class is `Complete`, and
`Granted` that what was answered and what a site was resolved to is linked and may be seen from there.
`Released` alone is not inductive: that no class is loaded inside its own loading depends on the state each
call has left its class in, and that a failed request leaves the lock free on how often the linker held it. A step moves the innermost call on, lets it ask
for another class, throws or returns, with a lemma for each of the four (`GotoInv`, `ResolveInv`, `ThrowInv`,
`BackInv`), and the actions are shown to be such steps. Facts about linked classes survive
because no step changes one (`Stable`), which follows from `FrameOK`: a call works on a class in `CS_LINKING` only.
Theorems: `LoaderInvariant` (`[]IInv`), `LockReleased` (`[]Released`), `LinkedOnce`
(`[][Settles]_vars`), and `LinkingOrder` (`[]Ordered`): the linked classes have an order in which
each comes behind all it names, so no class is above itself, which is why walks along `parent`
(`class_is_parent()`, the dispatch tables, the layout of fields) end.

What the loader's tables hold after any number of levels is proved along that order.

* `AcceptedWhole` (`[]Accepted`): what a request was answered with is sound down to Object: all it extends,
  implements or holds, directly or not, is linked, passed the checks of `derive_class()` and may be seen from
  where it is named. This is one half of `Answered`, which says that the rest is refused, too.
* `LayoutSound` (`[]LaidOut`): the fields of an instance lie in the areas of its class, aligned, and no two share
  a byte or a bit. `Placings` is inductive: the offsets and the sizes of a linked class, and of one that only waits to be
  linked, are those `layout_fields()` computes from its superclass, which was linked then and has not changed
  since (`Settles`). One level is arithmetic: the fields of one type fill an interval, the intervals of
  the types follow each other behind the superclass' area, and each begins at a multiple of its field size.
  Along the linking order the area of every superclass lies in that of the class.
* `FieldsAlways` (`[]FieldsFound`): the lookup finds what the language says. `Listings` is inductive: the
  interfaces of a linked class are those `load_interfaces()` collects from the superclass' list and from what the
  class names. By induction along the linking order the list of a class holds exactly the interfaces above
  it, and with each one all above that. Both `LookupField`, which goes through this list, and
  `Declared`, which follows the class files, are recursive functions; `OrderRecursion` gives their equations, and an
  induction along the order shows that they agree where a name is not `Ambiguous`.

The theorems of this module assume what it assumes: the files name only classes of `Name`, a missing one being a
file at fault, and so do the requests; fields have one of six types; Object extends nothing and has no fields, and Reference
only its referent; a word has 4 or 8 bytes; no array class has a file; there are finitely many names.

`MarkingProofs`, for any objects, any graph, any roots and both versions of
`gc_mark_reference()`. `PathOk`: the objects whose followed reference is reversed form one
simple path from `curr` to the root, each reversed reference holding the next one
of it. `Intact`: every other reference is what the program left. `Traced`: a
reference of a marked object leads to a marked one, or has its turn still to
come, by the object's counter or in a call. `OnlyReachable`: every set
closed under references that holds the roots holds what is marked. That the path is
simple and its objects marked is what keeps a reversed reference from being reversed
again. Theorems: `MarkInvariant` (`[]IInv`), `MarksWhatIsReachable`
(`[]MarkedExactly`), `ReferencesRestored` (`[]Restored`).

`FramesProofs`, for any methods with any arguments, locals, stacks, locks and
natives, any stack and frame size and any nesting of calls, interpreters and exceptions, null receivers,
throwing synchronized natives and failing initializations included. `Registers` and `Balanced` alone are not inductive:
a return relies on what the caller left when it called. `Stack`: every frame lies above
the locals of those below it and leaves room for the frames; a frame under a
method waits in its body with room for that method's result, a frame under a halt frame is one that can
have called `interpreter()`. `Saved`: the registers of each interpreter further out, in
order, describe the frame below its halt frame. `RegistersInv`: so do `sp` and
`locals` for the frame on top, and while an exception travels down a
synchronized method on top is not at its MONITORENTER any more, and `locals` is right wherever a handler
may be, but for a null receiver.
`ThreadSpInv`: `thread->sp` is not below the locals of any halt frame nor, in a native function, below its
first argument, so that `prepare_for_call()`, which starts there, reaches no frame further down. `Balanced` completes it: that the exits
of a lock outside `unpaired` succeed follows from the count of the frames inside the monitor. Theorems: `StackInvariant` (`[]IInv`),
`RegistersAlways` (`[]Registers`), `BalancedAlways` (`[]Balanced`), `CallersResume` (`Resumes`).

`MemoryProofs`, for any heap, bins, objects, strings, hash function, initial
capacity and load, and in all environments of the finalizer thread. `MemoryInv` is one
invariant for each side, and a step of one side leaves the others alone. Theorem
`MemoryInvariant` (`[]MemoryInv`); from it:

* *Heap.* `GoodHeap`: chunks and blocks do not overlap and cover the words up to
  `heap.end`, which is not behind the permanent area; a block has its header where it says
  so, and in front of it only words that look like pointers; the bitmap is exact. `Tiled`
  alone is not inductive, because the sweep takes what it knows of blocks from memory and not from
  the allocator. `HeapOK` adds that C blocks have no references, since `gc_free()`
  frees from the header on. The sweep is a loop over words, and `Scanned` its loop
  invariant: the next word it looks at is not inside the data of a block, behind it every header was found, and the
  chunks it has made and the blocks it keeps tile the words up to `last`. `ScanStep`
  shows that one word keeps it, whatever the word is, `ScanIs` draws the conclusion by induction
  along the heap. `Cleared`, what `gc_purge_bin()` leaves, is why it can: outside blocks all words
  are zero. Theorems: `HeapTiled`, `HeadersFound`, `BitmapOfHeaders` (`[]Tiled`,
  `[]SweepFindsHeaders`, `[]BitmapExact`).
* *Weak references.* `TypeOK`, `ChainAlive` and `ChainedSound` are inductive together:
  that the chain holds live references only is what makes those of it worth reading. Theorem
  `WeakReferencesSound` (`[]ChainedSound`). Nothing is proved of references that have fallen
  out of the chain: section 6.
* *Strings.* `SoundTable`: the buckets are without duplicates, each string is in the
  bucket of its hash for the capacity the table has, and no two strings have the same contents. While
  `split` is false the two tables share no contents and hold everything interned; once it is true nothing
is said of either, and `Canonical` promises nothing. `Sizes`: a capacity is
  the initial one doubled some number of times, so halving it gives another one. Rehashing,
  purging and listing are loops again, with lemmas of their own. Theorems: `StringsPlaced`,
  `StringsCanonical` (`[]Placed`, `[]Canonical`).
* *Finalizers.* `Registered`, with `CurHeld` (the thread holds an object exactly between
  taking it and running its finalizer) and `WokenForWork` (it is woken only when
  the list is not empty, and nobody else takes from it). Theorem `FinalizersRegistered` (`[]Registered`).

What these need of recursive functions stands at the beginning of `MemoryProofs`, and what the table needs
at the beginning of `MonitorTableProofs`. The library's induction theorems take an
operator as a parameter, which the provers cannot instantiate; `Least`, from the
well-foundedness of the natural numbers, speaks of a set instead. From it follow `Recursion`
(a function given step by step along an interval exists) and `Induction`, and from those what
`Kept`, `FlattenSeq`, the sweep and the loops over the monitor table compute for every input.

Constants are assumed to be what their ASSUMEs say; TLC evaluates those in every run.
TLC has also checked the conjuncts of `MemoryInv` on the instance of the run `memory`, those of
the strings with the capacity of each table in place of its existential quantifier. `Placings` and `Listings`
have been checked on the instance of the run `loading`.
Only model-checked:

* liveness (`StopGranted`, `WokenReturns`, `FinalizersRun`, `InitReturns`), which is
  out of the prover's reach;
* of `Loading`, the other half of `Answered` (nothing sound is refused: a request fails only if something
  its class names is at fault) and `Dispatches` (what tables made from the parent's tables, and sorted by
  repeated exchanges, give after any number of levels);
* `Bytecode` and `ConstantPool`, which use recursive operators, and `Interpreter` with `Verifier`.

## 6. What the code does that it should not

One run expects a violation: `monitortable_purge`, section 3. The models show the
following as well; each is an action or a stated property of the module, so a cfg
with that property or constant reproduces it. `PROJECT.json` lists
the ones a comment or an assertion of the code contradicts as findings. The
properties that fail, and are in no run for that reason: `CondAtHome`
(`MonitorTable`), `InterruptSignalsLive` (`Monitors`), `NoDangling`
(`WeakRefs`), `StateIncreases` (`ClassInit`), `SuperRuns` (`Loading`), `SwitchesAligned` (`Bytecode`).

| Where | What | How to see it |
|---|---|---|
| `thread.c:1104` | `stopped` read before `blocked` is written | `SafePoint`: `UnblockLate`; `SafeCollection` without `raced` |
| `thread.c:1118` | flags cleared after the lock is released lose the next collection's request | `SafePoint`: `ClearStopped`, `ClearBlocked`; `SafeCollection` and `StopGranted` without `raced` |
| `thread.c:1208` | misused `wait()` keeps the VM lock | `Monitors`: `WaitRefused`; `WokenReturns` without `refused` |
| `thread.c:1214` | condition stored in a bucket the monitor has left; a notification finds no waiter, or those of another object | `MonitorTable`: `CondAtHome`; `Monitors`: `StoreCondition`, `NotifyWakes` without `astray` |
| `thread.c:577` | the swap keeps a stale `next` that may close a circle: a lookup from there never ends, with `tm.lock` held | `MonitorTable`: `Ends` after a collection of a coalesced table of nine objects in eight buckets |
| `thread.c:1135` | interrupt wakes another waiter | `Monitors`: `InterruptReturns` without `missed` |
| `thread.c:1167` | join ends early after another joiner was interrupted | `Monitors`: action `SleepOrJoinEnd` |
| `thread.c:1134` | condition of a dead thread signalled | `Monitors`: `InterruptSignalsLive` |
| `thread.c:952` | `sleep(0)` never ends | `Monitors`, `sleep0` |
| `memory.c:436`, `841`, `439`; `thread.c:1214` | assertion, deadlock, swept object in hand, lost notification | `Finalizer`: `trap`, `stuck`, `cur`, `env.condCollects` |
| `memory.c:1133` | a chain that begins with a live reference is forgotten | `WeakRefs`: `NoDangling` |
| `memory.c:1120` | header of a null referent read | `WeakRefs`: `trap` |
| `native.c:922` | `notifyAll()` wakes one waiter | `Monitors`: action `NotifyAll` |
| `loader.c:690` | a class in error is initialized again, against the assertion of `class.h:322`, and `initialize_static_fields()` takes slot numbers for constants | `ClassInit`: `StateIncreases` |
| `loader.c:2471` | a site is linked although its class failed or is half initialized | `ClassInit`: `Return` |
| `loader.c:714` | an initializer that enters a monitor somebody owns hangs the VM | `ClassInit`: `Spins` |
| `loader.c:2100` | an initializer that calls `main` never returns | `ClassInit`: `MainLoops` |
| `jstring.c:164`, `340` | two representatives of a string | `InternTable`: `Canonical` without `split` |
| `loader.c:310` | a class whose loading failed stays in `CS_LINKING`; the next request reports a cycle. `c_exception.data` keeps its value | `Loading`: `Rethrow` |
| `loader.c:345`, `904` | an array class takes over its element's flags, `ACC_INTERFACE` and `ACC_FINAL` included; array classes have no method and interface manager, so a class that implements an array of an interface reads through NULL and the machine dies | `Loading`: `ArrayDone`, `Implements` |
| `loader.c:1985`, `2030`, `2059` | field lookup in the wrong order: interfaces of the superclass come before the superclass and before those the class names; a missing field dereferenced as NULL; the static field of an interface nobody initialized | `ClassTables`: `LookupField`; `FieldsFound` without `Ambiguous` |
| `loader.c:802` | any class without a superclass passes for Object | `Loading`: `Conventional` |
| `interpreter.c:2382` | a call of super from an inherited method starts at the receiver's superclass | `Loading`: `SuperRuns` |
| `interpreter.c:2323` | an interface call on an object without the interface runs some other method | `ClassTables`: the search of the interface table |
| `bytecode.c:498` | the integers of a switch in a synchronized method are misplaced | `Bytecode`: `SwitchesAligned` with `SyncSwitch` as `Program` |
| `bytecode.c:464` | a jump to the byte in front of a synchronized method is accepted, and enters its monitor again | `Bytecode`: `Translated` without `ToTheEntry` |
| `bytecode.c:118`, `loader.c:2450` | an LDC of a class already resolved is rejected; of another one, it pushes a `class_t *` | `Bytecode`: `Translated` without `ResolvedConstant` |
| `bytecode.c:219` | a long is accepted in the last local variable, half of it on the operand stack | `Bytecode`: `Translated` without `WideLocal` |
| `interpreter.c:3256` | an invocation is replayed with the exception of a static initializer pending | `ClassInit`: `unseen`; `Bytecode`: `Replayed` |
| `loader.c:2051` | an entry resolved as static field is used by GETFIELD, and the other way round | `Bytecode`: `RunsAsWritten` without `BothWays` |
| `interpreter.c:3254` | the opcode to link is read twice, which defeats the test for a thread that was faster | `Bytecode`, `Debug = TRUE` |
| `constantpool.c:200` | the last entry of a pool is not looked at; a Long there writes a tag behind the pool | `ConstantPool`: `Processed` |
| `interpreter.c:2190` | a null receiver leaves `locals` on the arguments of the call for a handler of the caller | `Frames`: mode `"astray"` |
| `interpreter.c:2745` | a synchronized native that throws leaves its monitor twice | `Frames`: `NativeEnd`; `Balanced` without `unpaired` |
| `interpreter.c:2661` | a synchronized main whose class initialization throws leaves a monitor it never entered | `Frames`: `HaltCall`; `Balanced` without `unpaired` |
| `method.c:354` | natives have `max_locals` 0: a nested call made by a native starts at its arguments and overwrites them | `Frames`: `NestedCall`, `Fits` with the arguments of natives |
| `preverifier/check_code.c:793` | keys of a LOOKUPSWITCH compared as unsigned | `Verifier`: the check of `keys` |
| `preverifier/check_code.c:1771` | a field of a superclass, if the instruction names that class, may be written through an uninitialized `this` | `Verifier`: `EarlyField`; `SafeUse` without `SuperField` |

Seen on the way, in code that no model evaluates: `LCMP` subtracts and overflows
(`interpreter.c:1783`); `LDIV` and `LREM` of the least long by -1 trap on some hosts
(1494, 1541); `IFNULL` and `IFNONNULL` test 32 bits of a reference (2798, 2807);
`get_time_with_offset()` lets 10^9 nanoseconds pass (`util.c:327`); a method of
65,536 bytes has length 0 in 16 bits (`loader.c:1185`); packed method indices have 16
bits (`method.c:425`); the collector does not scan the arguments of natives (`method.c:354`); `field_parse_descriptor()` accepts trailing text
(`field.c:74`); overriding ignores packages; a string literal's `char[]` is held in a C variable while
`tm_lock()` lets a collection in (`jstring.c:336`); `thread_launch()` waits without a
predicate (`thread.c:1070`); `Thread.interrupt()` reads `vmThread` before it has the lock
(`native.c:1218`); `System.arraycopy()` adds offsets in 32 bits (`native.c:1063`).

## 7. Not modelled

* `System.arraycopy()`, the other natives and KNI handles: sequential code without
  state of its own. The values arithmetic opcodes compute: the models tell words
  apart by kind, and the C operators give the values.
* The bytes of class files and JAR files, UTF-8 strings, descriptors, numeric constants, the hash of the
  method manager: conversions that are made once. Native methods are linked by name to a generated table.
* JSR, RET and the inlining of subroutines, and the stack maps that are written, in the preverifier, and
  its class reader and writer (`preverifier/classloader.c` and what it calls).
* In `ClassInit` initializers do not wait, sleep or join (each would keep the lock as a
  monitor does, since a wait gives up one level), and builds have NDEBUG.
* `tm_teardown()` cancels threads at POSIX cancellation points, which a model
  would have to guess. The pth and no-thread builds have no concurrency.
* `print.c` only prints. The class library is GNU Classpath code.
* C local variables that hold references across an allocation are outside
  the models: a running operation's objects count as rooted.

## 8. Plan

Done: every module of section 2 and the proofs of section 5.

What would add most next:

1. The launch of a thread with its payload, and the end of the VM, in `SafePoint`.
2. `arraycopy` for references and bits against its definition, with 32-bit offsets.
3. `Dispatches` as a theorem, along the linking order as `FieldsAlways` is: it needs that the sort returns a
   sorted permutation, and then that the binary search finds its index.
