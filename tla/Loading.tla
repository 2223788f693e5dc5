------------------------------- MODULE Loading -------------------------------
(***************************************************************************)
(* The class loader: bcl_resolve_class() and load_class() with everything  *)
(* they call, from the bootstrap, from Class.forName() and from the        *)
(* linker.  The loader recurses over superclasses, interfaces and elements *)
(* with tm.lock held, and gives up with a C exception that unwinds call    *)
(* after call: each call is a frame of stack here, the innermost last.     *)
(***************************************************************************)
EXTENDS ClassTables

CONSTANTS
    Class,      \* the names of regular classes
    Array,      \* the names of array classes
    Elem,       \* the element of an array class, "primitive" if it has no class
    Object,     \* java.lang.Object
    NotFound,   \* java.lang.ClassNotFoundException
    Preloaded,  \* the classes bcl_preload_bootstrap_classes() sets up
    Bootstrap,  \* the sequence of classes vm_run() resolves
    JavaClass,  \* java.lang.Class, whose methods forName() is one of
    World,      \* the class path: the class files it may hold
    Requests(_),    \* the classes the program asks for, by name (with None) or
                    \* by a class entry of the class it names
    MaxCalls    \* bound of the model: calls from outside

VARIABLES
    state,      \* class_t.state; "absent" for a name not in the class table
    table,      \* bcl.class_table
    stack,      \* the calls of bcl_resolve_class()
    lock,       \* how often tm.lock is held
    data,       \* thread_t.c_exception.data
    thrown,     \* a C exception is on its way to the closest c_try
    call,       \* what the outermost call was made for
    answers,    \* what came of the calls so far
    interfaceMethods,   \* bcl.interface_methods
    resolved    \* the constant-pool entries tagged CONSTANT_Class_resolved

vars == <<file, cls, state, table, stack, lock, data, thrown, call, answers,
          interfaceMethods, resolved>>
others == <<file, answers, resolved, call>>

Name == Class \cup Array

(* Every name a class file holds is one of Name; a class that is missing   *)
(* from the path is one whose file is at fault.                            *)
ASSUME NamesAssumption ==
    /\ None \notin Name /\ {Object, NotFound, JavaClass} \subseteq Class
    /\ Class \intersect Array = {}
    /\ Elem \in [Array -> Name \cup {"primitive"}]
    /\ IsFiniteSet(Name) /\ Preloaded \subseteq Name
    /\ Bootstrap \in Seq(Name)
ClassPath(f) ==
    /\ DOMAIN f = Class
    /\ \A c \in Class : /\ f[c].super \in Name \cup {None}
                        /\ f[c].interfaces \in Seq(Name)
                        /\ Len(f[c].methods) \in Nat
                        /\ f[c].fields \in Seq(FieldFile)
ASSUME WorldAssumption == \A f \in World : ClassPath(f)

(* Two classes of the library: Object, which has no interfaces, no fields; *)
(* and Reference, which has a referent and no other field.                 *)
ASSUME LibraryAssumption ==
    \A f \in World :
        /\ f[Object].super = None /\ f[Object].interfaces = <<>> /\ f[Object].fields = <<>>
        /\ Reference \in Class =>
                /\ f[Reference].super = Object
                /\ \A k \in DOMAIN f[Reference].fields :
                        k = 1 /\ f[Reference].fields[k].type = "ref"
ASSUME RequestsAssumption ==
    \A f \in World : Requests(f) \subseteq Name \X (Name \cup {None})

NoClassDef == 2                 \* JAVA_LANG_NOCLASSDEFFOUNDERROR
Idle == [kind |-> "idle", name |-> None, orig |-> None]
Places == {"find", "parse", "super", "interfaces", "implements", "attributes",
           "elem", "object", "created", "check", "leave"}
Frames == [name : Name, orig : Name \cup {None}, at : Places, k : Nat]
Frame(name, orig) == [name |-> name, orig |-> orig, at |-> "find", k |-> 1]
NoClass == [parent |-> None, flags |-> {}, interfaces |-> <<>>,
            dtable |-> <<>>, itable |-> <<>>, index |-> <<>>, offsets |-> <<>>,
            refN |-> 0, nrefSize |-> 0]
IsArray(c) == c \in Array
IsInterface(c) == "interface" \in cls[c].flags

TypeOK ==
    /\ file \in World /\ DOMAIN cls = Name
    /\ \A c \in Name : DOMAIN cls[c] = DOMAIN NoClass
    /\ state \in [Name -> {"absent", "preloaded", "linking", "linked"}]
    /\ table \in Seq(Name)
    /\ ToSet(table) = {c \in Name : state[c] # "absent"} /\ IsInjective(table)
    /\ stack \in Seq(Frames)
    /\ lock \in Nat /\ data \in {0, NoClassDef} /\ thrown \in BOOLEAN
    /\ call \in [kind : {"idle", "boot", "forName", "throwNew", "link", "failed"},
                 name : Name \cup {None}, orig : Name \cup {None}]
    /\ answers \in Seq(Name \X (Name \cup {None}) \X {"ok", "error"})
    /\ interfaceMethods \in Nat
    /\ resolved \subseteq Name \X Name

-----------------------------------------------------------------------------
(* Calls from outside.                                                     *)
Ready == call.kind = "idle" /\ Len(answers) < MaxCalls

(* vm_run() resolves the bootstrap classes one after the other.            *)
Boot ==
    /\ call.kind = "boot" /\ stack = <<>> /\ ~thrown
    /\ \/ /\ \A i \in DOMAIN Bootstrap : state[Bootstrap[i]] = "linked"
          /\ call' = Idle /\ UNCHANGED stack
       \/ \E i \in DOMAIN Bootstrap :
            /\ state[Bootstrap[i]] # "linked"
            /\ \A j \in 1 .. i - 1 : state[Bootstrap[j]] = "linked"
            /\ stack' = <<Frame(Bootstrap[i], None)>> /\ UNCHANGED call
    /\ UNCHANGED <<file, cls, state, table, lock, data, thrown, answers, interfaceMethods, resolved>>

(* Class.forName() asks for no class in particular.                        *)
ForName(c) ==
    /\ Ready
    /\ call' = [kind |-> "forName", name |-> c, orig |-> None]
    /\ stack' = <<Frame(c, None)>>
    /\ data' = 0
    /\ UNCHANGED <<file, cls, state, table, lock, thrown, answers, interfaceMethods, resolved>>

(* bcl_link_opcode() for a class entry of the constant pool of from.       *)
Link(c, from) ==
    /\ Ready /\ from \in Class /\ state[from] = "linked"
    /\ IF <<from, c>> \in resolved
       THEN /\ answers' = Append(answers, <<c, from, "ok">>)
            /\ UNCHANGED <<stack, lock, call>>
       ELSE /\ call' = [kind |-> "link", name |-> c, orig |-> from]
            /\ stack' = <<Frame(c, from)>>
            /\ lock' = lock + 1
            /\ UNCHANGED answers
    /\ UNCHANGED <<file, cls, state, table, data, thrown, interfaceMethods, resolved>>

(* The outermost call has returned.                                        *)
Return ==
    /\ stack = <<>> /\ ~thrown /\ call.kind \in {"forName", "throwNew", "link"}
    /\ call' = Idle
    /\ IF call.kind = "link"
       THEN lock' = lock - 1 /\ resolved' = resolved \cup {<<call.orig, call.name>>}
       ELSE UNCHANGED <<lock, resolved>>
    /\ answers' = IF call.kind = "throwNew" THEN answers
                  ELSE Append(answers, <<call.name, IF call.kind = "link" THEN call.orig ELSE None, "ok">>)
    /\ UNCHANGED <<file, cls, state, table, stack, data, thrown, interfaceMethods>>

(* The exception has left the loader.  forName() turns it into a Java one, *)
(* resolving its class for java.lang.Class; all others end the machine.    *)
Uncaught ==
    /\ stack = <<>> /\ thrown
    /\ thrown' = FALSE
    /\ IF call.kind = "forName"
       THEN /\ answers' = Append(answers, <<call.name, None, "error">>)
            /\ call' = [kind |-> "throwNew", name |-> NotFound, orig |-> JavaClass]
            /\ stack' = <<Frame(NotFound, JavaClass)>>
       ELSE /\ answers' = IF call.kind = "link"
                          THEN Append(answers, <<call.name, call.orig, "error">>) ELSE answers
            /\ call' = [kind |-> "failed", name |-> None, orig |-> None]
            /\ UNCHANGED stack
    /\ UNCHANGED <<file, cls, state, table, lock, data, interfaceMethods, resolved>>

-----------------------------------------------------------------------------
(* One call of bcl_resolve_class().                                        *)
Top == stack[Len(stack)]
Running(at) == stack # <<>> /\ ~thrown /\ Top.at = at
Goto(at, k) == stack' = [stack EXCEPT ![Len(stack)].at = at, ![Len(stack)].k = k]
Resolve(c, orig, at, k) ==
    stack' = Append([stack EXCEPT ![Len(stack)].at = at, ![Len(stack)].k = k], Frame(c, orig))
(* c_throw() goes to the c_try of the innermost call.                      *)
Throw == thrown' = TRUE /\ data' = NoClassDef

(* Lock, set up the c_try, look the class up.                              *)
Find ==
    /\ Running("find")
    /\ lock' = lock + 1
    /\ IF state[Top.name] = "linking"
       THEN Throw /\ UNCHANGED <<state, table, stack>>
       ELSE IF state[Top.name] = "linked"
       THEN data' = 0 /\ Goto("check", 1) /\ UNCHANGED <<state, table, thrown>>
       ELSE /\ state' = [state EXCEPT ![Top.name] = "linking"]
            /\ table' = IF state[Top.name] = "absent" THEN Append(table, Top.name) ELSE table
            /\ Goto("parse", 1)
            /\ data' = 0 /\ UNCHANGED thrown
    /\ UNCHANGED <<others, cls, interfaceMethods>>

HeaderAllowed(c) ==
    LET flags == file[c].flags IN
    /\ file[c].fault # "header"
    /\ IF "interface" \in flags THEN "abstract" \in flags /\ "final" \notin flags
       ELSE ~({"abstract", "final"} \subseteq flags)
    /\ file[c].super = None => "public" \in flags /\ flags \intersect {"final", "interface", "abstract"} = {}

(* derive_class() up to the superclass.                                    *)
Parse ==
    /\ Running("parse") /\ ~IsArray(Top.name)
    /\ LET c == Top.name
       IN  IF ~HeaderAllowed(c)
           THEN Throw /\ UNCHANGED <<stack, cls>>
           ELSE /\ cls' = [cls EXCEPT ![c].flags = file[c].flags]
                /\ IF file[c].super = None THEN Goto("interfaces", 1)
                   ELSE Resolve(file[c].super, c, "super", 1)
                /\ UNCHANGED <<thrown, data>>
    /\ UNCHANGED <<others, state, table, lock, interfaceMethods>>

(* Mutant: an array class may be extended. *)
MutSuperAllowed(c, p) ==
    IF IsInterface(c) THEN cls[p].parent = None
    ELSE ~IsInterface(p) /\ "final" \notin cls[p].flags
SuperAllowed(c, p) ==
    IF IsInterface(c) THEN cls[p].parent = None
    ELSE ~IsInterface(p) /\ "final" \notin cls[p].flags /\ ~IsArray(p)
Super ==
    /\ Running("super")
    /\ LET c == Top.name
           p == file[c].super
       IN  /\ cls' = [cls EXCEPT ![c].parent = p]
           /\ IF SuperAllowed(c, p)
              THEN Goto("interfaces", 1) /\ UNCHANGED <<thrown, data>>
              ELSE Throw /\ UNCHANGED stack
    /\ UNCHANGED <<others, state, table, lock, interfaceMethods>>

(* load_interfaces(): one after the other.                                 *)
NextInterface ==
    /\ Running("interfaces") /\ Top.k =< Len(file[Top.name].interfaces)
    /\ Resolve(file[Top.name].interfaces[Top.k], Top.name, "implements", Top.k)
    /\ UNCHANGED <<others, cls, state, table, lock, data, thrown, interfaceMethods>>

(* An array class has its element's flags, so an array of an interface     *)
(* passes as an interface, and interface_itr() reads through the manager it *)
(* does not have: the process dies, and no step follows.                   *)
Implements ==
    /\ Running("implements")
    /\ LET i == file[Top.name].interfaces[Top.k] IN ~(IsInterface(i) /\ IsArray(i))
    /\ IF IsInterface(file[Top.name].interfaces[Top.k])
       THEN Goto("interfaces", Top.k + 1) /\ UNCHANGED <<thrown, data>>
       ELSE Throw /\ UNCHANGED stack
    /\ UNCHANGED <<others, cls, state, table, lock, interfaceMethods>>

(* The fields, the methods and the tables; then the attributes.            *)
HasFinalizer(c) ==
    file[c].super # None
        /\ \/ "finalizer" \in cls[file[c].super].flags
           \/ ~IsInterface(c) /\ MmGet(c, "finalize") # None
Derived(c) ==
    LET dtable == DispatchTable(c)
        interfaces == Interfaces(c)
        base == [cls[c] EXCEPT !.interfaces = interfaces, !.offsets = Offsets(c),
                               !.refN = RefN(c), !.nrefSize = NrefSize(c),
                               !.flags = @ \cup (IF HasFinalizer(c) THEN {"finalizer"} ELSE {})]
    IN  IF IsInterface(c)
        THEN [base EXCEPT !.index = [k \in DOMAIN file[c].methods |-> interfaceMethods + k - 1]]
        ELSE [base EXCEPT !.index = Index(c), !.dtable = dtable,
                          !.itable = InterfaceTable(interfaces, dtable)]
Members ==
    /\ Running("interfaces") /\ Top.k > Len(file[Top.name].interfaces)
    /\ LET c == Top.name
       IN  IF \/ file[c].fault = "members"
              \/ ~MembersAllowed(c) \/ ~WithinLimits(c)
              \/ ~IsInterface(c) /\ ~OverridesAllowed(c)
           THEN Throw /\ UNCHANGED <<stack, cls, interfaceMethods>>
           ELSE /\ cls' = [cls EXCEPT ![c] = Derived(c)]
                /\ interfaceMethods' = IF IsInterface(c) THEN interfaceMethods + Len(file[c].methods)
                                       ELSE interfaceMethods
                /\ Goto("attributes", 1)
                /\ UNCHANGED <<thrown, data>>
    /\ UNCHANGED <<others, state, table, lock>>

Attributes ==
    /\ Running("attributes")
    /\ IF file[Top.name].fault = "attributes"
       THEN Throw /\ UNCHANGED stack
       ELSE Goto("created", 1) /\ UNCHANGED <<thrown, data>>
    /\ UNCHANGED <<others, cls, state, table, lock, interfaceMethods>>

(* load_class() for an array class: its element, then java.lang.Object.    *)
ParseArray ==
    /\ Running("parse") /\ IsArray(Top.name)
    /\ IF Elem[Top.name] = "primitive"
       THEN Resolve(Object, None, "object", 1)
       ELSE Resolve(Elem[Top.name], None, "elem", 1)
    /\ UNCHANGED <<others, cls, state, table, lock, data, thrown, interfaceMethods>>

ElementDone ==
    /\ Running("elem")
    /\ Resolve(Object, None, "object", 1)
    /\ UNCHANGED <<others, cls, state, table, lock, data, thrown, interfaceMethods>>

ArrayDone ==
    /\ Running("object")
    /\ LET c == Top.name
           flags == IF Elem[c] = "primitive" THEN {"final", "abstract", "public"}
                    ELSE cls[Elem[c]].flags
       IN  cls' = [cls EXCEPT ![c].parent = Object, ![c].flags = flags,
                              ![c].dtable = cls[Object].dtable]
    /\ Goto("created", 1)
    /\ UNCHANGED <<others, state, table, lock, data, thrown, interfaceMethods>>

(* The class object is made; the class is linked.                          *)
Created ==
    /\ Running("created")
    /\ state' = [state EXCEPT ![Top.name] = "linked"]
    /\ Goto("check", 1)
    /\ UNCHANGED <<others, cls, table, lock, data, thrown, interfaceMethods>>

Base(c) ==
    LET innermost[d \in Name] ==
            IF IsArray(d) /\ Elem[d] # "primitive" THEN innermost[Elem[d]] ELSE d
    IN  innermost[c]
Accessible(c, orig) ==
    "public" \in cls[c].flags \/ orig = None \/ Package(Base(c)) = Package(orig)
Check ==
    /\ Running("check")
    /\ IF Accessible(Top.name, Top.orig)
       THEN Goto("leave", 1) /\ UNCHANGED <<thrown, data>>
       ELSE Throw /\ UNCHANGED stack
    /\ UNCHANGED <<others, cls, state, table, lock, interfaceMethods>>

(* Past the c_try: the exception, if there is one, is rethrown.            *)
Leave ==
    /\ Running("leave")
    /\ lock' = lock - 1
    /\ stack' = Front(stack)
    /\ thrown' = (data # 0)
    /\ UNCHANGED <<others, cls, state, table, data, interfaceMethods>>
(* Mutant: tm_unlock() is left out. *)
MutRethrow ==
    /\ thrown /\ stack # <<>>
    /\ stack' = Front(stack)
    /\ UNCHANGED <<others, cls, state, table, data, thrown, lock, interfaceMethods>>
Rethrow ==
    /\ thrown /\ stack # <<>>
    /\ lock' = lock - 1
    /\ stack' = Front(stack)
    /\ UNCHANGED <<others, cls, state, table, data, thrown, interfaceMethods>>

-----------------------------------------------------------------------------
Init ==
    /\ file \in World
    /\ cls = [c \in Name |-> NoClass]
    /\ state = [c \in Name |-> IF c \in Preloaded THEN "preloaded" ELSE "absent"]
    /\ table = SetToSeq(Preloaded)
    /\ stack = <<>> /\ lock = 0 /\ data = 0 /\ thrown = FALSE
    /\ call = [kind |-> "boot", name |-> None, orig |-> None]
    /\ answers = <<>> /\ interfaceMethods = 0 /\ resolved = {}

Next ==
    \/ Boot \/ Return \/ Uncaught
    \/ \E r \in Requests(file) : IF r[2] = None THEN ForName(r[1]) ELSE Link(r[1], r[2])
    \/ Find \/ Parse \/ Super \/ NextInterface \/ Implements \/ Members \/ Attributes
    \/ ParseArray \/ ElementDone \/ ArrayDone \/ Created \/ Check \/ Leave \/ Rethrow

Spec == Init /\ [][Next]_vars

-----------------------------------------------------------------------------
(* What the class files mean, whatever order they are loaded in.           *)
Below(c) == IF IsArray(c) THEN {Object} \cup ({Elem[c]} \ {"primitive"})
            ELSE (IF file[c].super = None THEN {} ELSE {file[c].super})
                    \cup ToSet(file[c].interfaces)
Needs(c) ==
    LET within[n \in Nat] ==   \* what c names, directly or over n others at most
            IF n = 0 THEN Below(c)
            ELSE LET nearer == within[n - 1] IN nearer \cup UNION {Below(d) : d \in nearer}
    IN  within[Cardinality(Name)]
Lineage(c) ==
    LET up[d \in Class] == <<d>> \o IF file[d].super = None THEN <<>> ELSE up[file[d].super]
    IN  up[c]
FileIs(c, flag) == ~IsArray(c) /\ flag \in file[c].flags
SeenBy(orig, c) ==
    LET b == Base(c) IN b = Base(orig) \/ IsArray(b) \/ FileIs(b, "public") \/ Package(b) = Package(orig)
Virtual(d, sig) == {m \in MethodsOf(d) : Method(m).sig = sig /\ IsVirtual(m)}
KeepsPromises(c) ==
    \A d \in ToSet(Tail(Lineage(c))) : \A n \in MethodsOf(d) : \A m \in MethodsOf(c) :
        (IsVirtual(m) /\ IsVirtual(n) /\ SameSignature(m, n)) =>
            /\ "final" \notin Method(n).flags
            /\ "public" \in Method(n).flags => "public" \in Method(m).flags
            /\ "protected" \in Method(n).flags => Method(m).flags \intersect {"public", "protected"} # {}
(* The references of all classes of the lineage, and the words above the   *)
(* header: what a class adds begins where its widest field may lie.        *)
Narrow == {"long", "int", "short", "byte"}
Bytes(d) == MapThenSumSet(LAMBDA t : Size(t) * Count(d, t), Narrow)
Alignment(d) ==
    Max({1} \cup {Min({Size(t), Word}) : t \in {n \in Narrow \ {"byte"} : Count(d, n) > 0}})
Filled(c) ==    \* up to the bits of c
    LET area[d \in Class] ==
            Bytes(d) + IF file[d].super = None THEN 0
                       ELSE LET p == file[d].super
                                size == IF p = Reference THEN Word
                                        ELSE area[p] + Ceil(Count(p, "bit"), 8) \div 8
                            IN  Ceil(size, Alignment(d))
    IN  area[c]
SmallEnough(c) ==
    /\ FoldLeft(LAMBDA n, d : n + Count(d, "ref"), 0, SelectSeq(Lineage(c), LAMBDA d : d # Reference)) =< MaxRefs
    /\ Filled(c) + Ceil(Count(c, "bit"), 8) \div 8 =< MaxNref
    /\ 8 * (Word + Filled(c)) + Count(c, "bit") =< MaxBits
WellFormed(c) ==
    \/ IsArray(c)
    \/ /\ HeaderAllowed(c) /\ file[c].fault = "none" /\ MembersAllowed(c)
       /\ file[c].super # None =>
            LET p == file[c].super IN
            /\ ~IsArray(p) /\ ~FileIs(p, "interface") /\ ~FileIs(p, "final") /\ SeenBy(c, p)
            /\ FileIs(c, "interface") => p = Object
       /\ \A i \in ToSet(file[c].interfaces) : FileIs(i, "interface") /\ SeenBy(c, i)
       /\ ~FileIs(c, "interface") => KeepsPromises(c)
       /\ SmallEnough(c)
Sound(c) ==
    /\ \A d \in {c} \cup Needs(c) : d \notin Needs(d)
    /\ \A d \in {c} \cup Needs(c) : WellFormed(d)

(* A class is found exactly if its file and all it needs are sound and the *)
(* class that asks may see it: no matter what has been asked for before,   *)
(* and what was left half loaded by a failure.  Nothing is answered after  *)
(* an array has passed as an interface.                                    *)
Answered ==
    \A i \in DOMAIN answers :
        LET c == answers[i][1]
            from == answers[i][2]
        IN  (answers[i][3] = "ok") <=> (Sound(c) /\ (from = None \/ SeenBy(from, c)))

(* Between two calls the lock is free and no exception is left over; inside *)
(* one the lock is held once for every call, and once for the linker.  No  *)
(* class is loaded inside its own loading, so the recursion ends.          *)
Released ==
    /\ TypeOK
    /\ call.kind = "idle" => lock = 0 /\ data = 0 /\ ~thrown
    /\ stack # <<>> =>
            lock = Len(stack) + (IF call.kind = "link" THEN 1 ELSE 0)
                    - (IF Top.at = "find" /\ ~thrown THEN 1 ELSE 0)
    /\ IsInjective([i \in 1 .. Len(stack) - 1 |-> stack[i].name])

-----------------------------------------------------------------------------
(* What holds between two steps of the loader.  A class that has been read *)
(* up to its superclass, has found it, has found its k-th interface, and   *)
(* is whole.                                                               *)
Headed(c) ==
    ~IsArray(c) /\ HeaderAllowed(c)
        /\ file[c].flags \subseteq cls[c].flags /\ cls[c].flags \subseteq file[c].flags \cup {"finalizer"}
Found(d, orig) == state[d] = "linked" /\ Accessible(d, orig)
Extends(c) ==
    LET p == file[c].super IN cls[c].parent = p /\ (p # None => Found(p, c) /\ SuperAllowed(c, p))
Provides(c, k) == LET i == file[c].interfaces[k] IN Found(i, c) /\ IsInterface(i) /\ ~IsArray(i)
Derives(c) ==
    /\ Headed(c) /\ Extends(c) /\ \A k \in DOMAIN file[c].interfaces : Provides(c, k)
    /\ file[c].fault # "members" /\ MembersAllowed(c)
Complete(c) ==
    IF IsArray(c)
    THEN /\ cls[c].parent = Object /\ Found(Object, None)
         /\ Elem[c] # "primitive" => Found(Elem[c], None)
    ELSE Derives(c) /\ file[c].fault # "attributes"

(* A call that is busy with its class, and one that waits for another call:*)
(* the class it has asked for, and in whose name.                          *)
Busy == Places \ {"find", "check", "leave"}
Waiting == {"super", "implements", "elem", "object"}
Callee(f) == IF f.at = "super" THEN file[f.name].super
             ELSE IF f.at = "implements" THEN file[f.name].interfaces[f.k]
             ELSE IF f.at = "elem" THEN Elem[f.name] ELSE Object
Asker(f) == IF f.at \in {"super", "implements"} THEN f.name ELSE None
FrameOK(f) ==
    /\ f.at \in Busy => state[f.name] = "linking"
    /\ f.at \in {"check", "leave"} => state[f.name] = "linked"
    /\ f.at = "parse" => cls[f.name] = NoClass
    /\ f.at = "super" => Headed(f.name) /\ file[f.name].super # None
    /\ f.at \in {"interfaces", "implements"} =>
            /\ Headed(f.name) /\ Extends(f.name) /\ \A j \in 1 .. f.k - 1 : Provides(f.name, j)
            /\ f.k \in 1 .. Len(file[f.name].interfaces) + (IF f.at = "interfaces" THEN 1 ELSE 0)
    /\ f.at = "attributes" => Derives(f.name)
    /\ f.at \in {"elem", "object"} => IsArray(f.name)
    /\ f.at = "elem" => Elem[f.name] # "primitive"
    /\ f.at = "object" /\ Elem[f.name] # "primitive" => Found(Elem[f.name], None)
    /\ f.at = "created" => Complete(f.name)
    /\ f.at = "leave" => Accessible(f.name, f.orig)

(* Every call but the innermost waits for the next; no two are at work on  *)
(* one class; a call that goes on has got what it asked for.               *)
Nested ==
    \A i \in 1 .. Len(stack) - 1 :
        stack[i].at \in Waiting /\ stack[i + 1].name = Callee(stack[i]) /\ stack[i + 1].orig = Asker(stack[i])
Distinct ==
    \A i, j \in DOMAIN stack :
        i # j /\ stack[i].at # "find" /\ stack[j].at # "find" => stack[i].name # stack[j].name
Returned == stack # <<>> /\ ~thrown /\ Top.at \in Waiting => Found(Callee(Top), Asker(Top))

(* The lock, the exception and what the outermost call is for.             *)
Asked == IF call.kind = "link" THEN call.orig ELSE None
Unwound ==
    /\ call.kind \in {"idle", "failed"} => stack = <<>> /\ ~thrown
    /\ call.kind # "failed" =>
            lock = Len(stack) + (IF call.kind = "link" THEN 1 ELSE 0)
                    - (IF stack # <<>> /\ ~thrown /\ Top.at = "find" THEN 1 ELSE 0)
    /\ thrown => data = NoClassDef
    /\ ~thrown => call.kind = "failed" \/ data = 0 \/ (stack # <<>> /\ Top.at = "find")
Outermost ==
    /\ call.kind = "link" => call.orig \in Class /\ state[call.orig] = "linked"
    /\ call.kind \in {"forName", "throwNew", "link"} => call.name \in Name
    /\ call.kind \in {"forName", "link"} =>
            IF stack # <<>> THEN stack[1].name = call.name /\ stack[1].orig = Asked
            ELSE ~thrown => Found(call.name, Asked)

(* A class no call has begun with is as it was; one that is linked is whole*)
(* and so is all it names; what was answered, and what an entry of the     *)
(* constant pool was resolved to, is linked and may be seen from there.    *)
Untouched == \A c \in Name : state[c] \in {"absent", "preloaded"} => cls[c] = NoClass
Whole == \A c \in Name : state[c] = "linked" => Complete(c)
Granted ==
    /\ \A i \in DOMAIN answers : answers[i][3] = "ok" => Found(answers[i][1], answers[i][2])
    /\ \A r \in resolved : state[r[1]] = "linked" /\ Found(r[2], r[1])

(* The invariant of the loader.  It holds the lock once for every call and *)
(* once for the linker, and nothing is left of either between two calls;   *)
(* the calls are at work on different classes, so the recursion ends; and  *)
(* a class is linked only when its file and all it names has been found,   *)
(* may be seen, and is allowed there.                                      *)
IInv ==
    /\ TypeOK
    /\ \A i \in DOMAIN stack : FrameOK(stack[i])
    /\ Nested /\ Distinct /\ Returned
    /\ Unwound /\ Outermost
    /\ Untouched /\ Whole /\ Granted

-----------------------------------------------------------------------------
(* What the tables of the linked classes are for.                          *)
Settled == call.kind = "idle"
Linked == {c \in Class : state[c] = "linked"}
Concrete == {c \in Linked : ~IsInterface(c) /\ "abstract" \notin cls[c].flags}
IsA(r, c) == c \in ToSet(Chain(r)) \cup ToSet(cls[r].interfaces)
Signatures == {Method(m).sig : m \in UNION {MethodsOf(c) : c \in Linked}}
Nearest(c, sig, otherwise) ==
    LET with == SelectSeq(Chain(c), LAMBDA d : Virtual(d, sig) # {})
    IN  IF with = <<>> THEN otherwise ELSE CHOOSE m \in Virtual(with[1], sig) : TRUE

(* A call that was linked runs the nearest method of the receiver's class  *)
(* with that signature; a call of super, that of the class above the one   *)
(* it is written in, if that is the class of the receiver.  Left out: calls*)
(* of private methods as virtual ones, and methods found in a class for an *)
(* interface site or the other way round (see the README).                 *)
Dispatches ==
    Settled => \A src, c \in Linked : \A sig \in Signatures :
        \A opcode \in {"virtual", "interface", "special"} :
            LET link == LinkInvoke(opcode, src, c, sig) IN
            (link # Error /\ link[2][1] \in Linked) =>
                LET m == link[2] IN
                \A r \in Concrete :
                    (IsA(r, c) /\ link[1] # "special" /\ IsVirtual(m)
                        /\ IsInterface(m[1]) = (opcode = "interface")
                        /\ (link[1] = "super" => r = src))
                    => Runs(link[1], m, r, r)
                        = Nearest(IF link[1] = "super" THEN cls[src].parent ELSE r, sig, m)

(* Fields of an instance lie in its areas, aligned, and do not overlap,    *)
(* those of the superclasses included.                                     *)
InstanceOffsets(c) ==
    {f \in UNION {{d} \X DOMAIN file[d].fields : d \in ToSet(Chain(c))} :
        "static" \notin file[f[1]].fields[f[2]].flags}
TypeOf(f) == file[f[1]].fields[f[2]].type
OffsetOf(f) == cls[f[1]].offsets[f[2]]
Bits(f) == IF TypeOf(f) = "bit" THEN {OffsetOf(f)}
           ELSE {8 * b : b \in OffsetOf(f) .. OffsetOf(f) + Size(TypeOf(f)) - 1}
Covered(f) == IF TypeOf(f) = "bit" THEN {8 * (OffsetOf(f) \div 8)} ELSE Bits(f)
Hidden(f) == f = <<Reference, 1>>
LaidOut ==
    Settled => \A c \in Linked : ~IsInterface(c) =>
        \A f \in InstanceOffsets(c) :
            /\ IF TypeOf(f) = "ref" /\ ~Hidden(f)
               THEN OffsetOf(f) \in {-(n * Word) : n \in 1 .. cls[c].refN}
               ELSE \A b \in Covered(f) : b \in 8 * Word .. 8 * (Word + cls[c].nrefSize) - 1
            /\ TypeOf(f) # "bit" =>
                    OffsetOf(f) % Min({Size(TypeOf(f)), Word}) = 0
            /\ \A g \in InstanceOffsets(c) \ {f} :
                    IF TypeOf(f) = "bit" /\ TypeOf(g) = "bit" THEN OffsetOf(f) # OffsetOf(g)
                    ELSE Covered(f) \intersect Covered(g) = {}

(* A lookup finds the field the search order of the language gives, except *)
(* a static one that an interface of the superclass has and that is not the*)
(* only one of its name above the class.  It takes for granted what the    *)
(* loader does not demand of a class file: that Object alone has no        *)
(* superclass.                                                             *)
Declared(c, name, static) ==
    LET find[d \in Linked] ==
            LET across == {k \in DOMAIN file[d].interfaces : find[file[d].interfaces[k]] # None}
            IN  IF FieldOf(d, name, static) # None THEN FieldOf(d, name, static)
                ELSE IF across # {} THEN find[file[d].interfaces[Min(across)]]
                ELSE IF file[d].super = None THEN None
                ELSE find[file[d].super]
    IN  find[c]
Conventional == \A c \in Linked : file[c].super = None => c = Object
FieldNames == UNION {{file[c].fields[k].name : k \in DOMAIN file[c].fields} : c \in Linked}
Ambiguous(c, name) ==
    /\ file[c].super # None
    /\ \E i \in ToSet(cls[file[c].super].interfaces) :
        \E d \in (ToSet(Chain(c)) \cup ToSet(cls[c].interfaces)) \ {c, i} :
            FieldOf(i, name, TRUE) # None /\ FieldOf(d, name, TRUE) # None
LookedUp ==
    Settled /\ Conventional =>
        \A c \in Linked, name \in FieldNames, static \in BOOLEAN :
            \/ LookupField(c, name, static) = Declared(c, name, static)
            \/ static /\ Ambiguous(c, name)
(* The fields of a class have places of their own, and are found.          *)
FieldsFound == LaidOut /\ LookedUp

(* "Fetch the new method from the current class' parent dispatch table": a *)
(* call of super runs the method of the class above the one it is written  *)
(* in, whatever the class of the receiver.                                 *)
SuperRuns ==
    Settled => \A src \in Linked, sig \in Signatures :
        LET link == LinkInvoke("special", src, cls[src].parent, sig) IN
        (src # Object /\ link # Error /\ link[1] = "super") =>
            \A r \in Concrete :
                IsA(r, src) => Runs("super", link[2], r, r)
                                = Nearest(cls[src].parent, sig, link[2])
=============================================================================
