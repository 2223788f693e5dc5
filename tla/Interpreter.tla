---------------------------- MODULE Interpreter -----------------------------
(***************************************************************************)
(* The opcodes of interpreter.c on one frame, run on the methods that the  *)
(* analysis of Verifier.tla accepts.  A word of the stack or of the local  *)
(* variables is a pair of what was written into it ("int", "long" and      *)
(* "long2" for its halves, "ref", ...) and the number of the object it     *)
(* refers to, 0 for null: the C code casts each word to what the opcode    *)
(* says and remembers nothing of this.  Numbers have no value here, so a   *)
(* condition may go both ways.  A called method is one step, which returns *)
(* or throws (Frames.tla has the calls).                                   *)
(***************************************************************************)
EXTENDS Verifier

CONSTANTS Concrete,    \* classes of which the rest of the program has objects
          Implements,  \* per class, the interfaces of its interface manager
          Valid,       \* methods of correct programs
          MaxObjects   \* bound on the objects of one execution

VARIABLES mode,        \* "verify", "run" or "done"
          pc,          \* the number of the instruction
          stack,       \* the operand stack from the bottom up to sp
          locals,      \* the local variables
          heap,        \* per object its type and where it was created: the
                       \* number of a new, -1 for this in a constructor, 0
                       \* when its constructor has been called
          linked       \* the instructions bcl_link_opcode() has rewritten

runVars == <<mode, pc, stack, locals, heap, linked>>
vars == <<verifierVars, runVars>>

Here == m.code[pc]
Tag(t) == IF IsRef(t) THEN <<"ref", 0>> ELSE <<t[1], 0>>
Ref(id) == <<"ref", id>>
Junk == <<"junk", 0>>

(* bcl_is_assignable(): may an object of that class be cast to t? *)
ClassAssignable(src, dest) ==
    IF dest[3] \in Interfaces THEN src[2] = 0 /\ dest[3] \in Implements[src[3]]
    ELSE IF src[2] > 0 THEN dest = Object
    ELSE dest[3] \in Line[src[3]]
IsAssignable(src, dest) ==
    LET element == <<src[1], src[2] - dest[2], src[3]>>
    IN  /\ src[2] >= dest[2]
        /\ IF dest[1] # "object" THEN src[1] = dest[1] /\ src[2] = dest[2]
           ELSE /\ src[2] > dest[2] \/ src[1] = "object"
                /\ ClassAssignable(element, Class(dest[3]))

(* The analysis takes an interface for Object. *)
Erased(t) == IF t[1] = "object" /\ t[3] \in Interfaces THEN <<"object", t[2], "Object">> ELSE t
Instance(id, t) == heap[id].site = 0 /\ IsAssignable(heap[id].type, Erased(t))

(* What a field, an array or a method may deliver where a value of type t  *)
(* is declared: the words and the heap with them.                          *)
Fresh(type, site) == Append(heap, [type |-> type, site |-> site])
NextObject == Len(heap) + 1
CanAllocate == Len(heap) < MaxObjects
Delivered(t) ==
    IF ~IsRef(t)
    THEN {[words |-> [k \in DOMAIN Words(<<t>>) |-> Tag(Words(<<t>>)[k])], heap |-> heap]}
    ELSE {[words |-> <<Ref(id)>>, heap |-> heap] :
             id \in {0} \union {id \in DOMAIN heap : Instance(id, t)}}
         \union {[words |-> <<Ref(NextObject)>>, heap |-> Fresh(c, 0)] :
             c \in {c \in IF CanAllocate THEN Concrete ELSE {} : IsAssignable(c, Erased(t))}}
Results(ts) == IF ts = <<>> THEN {[words |-> <<>>, heap |-> heap]} ELSE Delivered(ts[1])

-----------------------------------------------------------------------------
(* The opcodes that are loaded as their _PRELINK forms. *)
Linkable == {"getstatic", "putstatic", "getfield", "putfield", "new", "newarray",
             "multianewarray", "checkcast", "instanceof", "ldc"} \union Calls

Under(words) == SubSeq(stack, 1, Len(stack) - words)
Top(k) == stack[Len(stack) + 1 - k]         \* the k-th word from the top
Below(ts) == Under(Len(Words(ts)))
At(ops) == mode = "run" /\ Here.op \in ops /\ (Here.op \in Linkable => pc \in linked)
Go(to) == pc' = to /\ UNCHANGED <<mode, linked>>

(* throw_exception and exception_handler: the first handler whose range has *)
(* the pc and whose class the exception's is, or is a subclass of.         *)
Catches(h, class) ==
    h.start =< pc /\ pc < h.end /\ (h.type = "any" \/ h.type \in Line[class])
ThrowObject(id, newHeap) ==
    LET found == {k \in DOMAIN m.handlers : Catches(m.handlers[k], newHeap[id].type[3])}
        first == CHOOSE k \in found : \A l \in found : k =< l
    IN  /\ heap' = newHeap
        /\ IF found = {}
           THEN mode' = "done" /\ UNCHANGED <<pc, stack>>
           ELSE pc' = m.handlers[first].handler /\ stack' = <<Ref(id)>> /\ UNCHANGED mode
        /\ UNCHANGED <<locals, linked>>
Throw(class) == CanAllocate /\ ThrowObject(NextObject, Fresh(Class(class), 0))
ThrowSome == \E c \in {c \in Concrete : IsAssignable(c, Class("Throwable"))} : Throw(c[3])

(* bcl_link_opcode() rewrites the instruction, which is then run again; it  *)
(* may leave the exception of a class initialization behind.               *)
Unlinked == mode = "run" /\ Here.op \in Linkable /\ pc \notin linked
Prelink ==
    /\ Unlinked
    /\ linked' = linked \union {pc}
    /\ UNCHANGED <<mode, pc, stack, locals, heap>>
PrelinkFails ==
    Unlinked /\ Here.op \in {"getstatic", "putstatic", "invokestatic", "new"} /\ ThrowSome

-----------------------------------------------------------------------------
Push(words) == stack' = stack \o words
Constants ==
    /\ At({"const", "ldc", "nop"})
    /\ \E r \in Results(Here.ret) : Push(r.words) /\ heap' = r.heap
    /\ Go(pc + 1) /\ UNCHANGED locals

(* ILOAD, LLOAD, FLOAD, DLOAD, ALOAD, their _0 .. _3 and WIDE forms.       *)
Span(t) == Len(Words(<<t>>))
LocalLoads ==
    /\ At({"load"})
    /\ Push(SubSeq(locals, Here.n + 1, Here.n + Span(Here.ty)))
    /\ Go(pc + 1) /\ UNCHANGED <<locals, heap>>
LocalStores ==
    /\ At({"store"})
    /\ LET w == Span(Here.ty)
       IN  /\ locals' = [k \in DOMAIN locals |->
                IF k - Here.n \in 1 .. w THEN Top(w + 1 - (k - Here.n)) ELSE locals[k]]
           /\ stack' = Under(w)
    /\ Go(pc + 1) /\ UNCHANGED heap
IncrementLocal == At({"iinc"}) /\ Go(pc + 1) /\ UNCHANGED <<stack, locals, heap>>

(* A null array, or an index out of bounds. *)
ArrayLoads ==
    /\ At({"arrayload"})
    /\ \/ ThrowSome
       \/ /\ Top(2)[2] # 0
          /\ \E r \in IF IsRef(Here.ty)
                      THEN Delivered(DecrementIndirection(heap[Top(2)[2]].type))
                      ELSE Results(Here.ret) :
               stack' = Under(2) \o r.words /\ heap' = r.heap
          /\ Go(pc + 1) /\ UNCHANGED locals

ArrayOfStore == Top(Span(Here.ty) + 2)
(* AASTORE looks at the class of the value: ArrayStoreException.           *)
Storable ==
    IsRef(Here.ty) /\ Top(1)[2] # 0 =>
      IsAssignable(heap[Top(1)[2]].type, DecrementIndirection(heap[ArrayOfStore[2]].type))
ArrayStores ==
    /\ At({"arraystore"})
    /\ \/ ThrowSome
       \/ /\ ArrayOfStore[2] # 0 /\ Storable
          /\ stack' = Under(Span(Here.ty) + 2)
          /\ Go(pc + 1) /\ UNCHANGED <<locals, heap>>

(* POP .. SWAP word by word: which of the words on top, counted from the    *)
(* top, stand there afterwards, the highest first.                         *)
Moves == [pop    |-> [takes |-> 1, puts |-> <<>>],
          pop2   |-> [takes |-> 2, puts |-> <<>>],
          dup    |-> [takes |-> 1, puts |-> <<1, 1>>],
          dup_x1 |-> [takes |-> 2, puts |-> <<1, 2, 1>>],
          dup_x2 |-> [takes |-> 3, puts |-> <<1, 2, 3, 1>>],
          dup2   |-> [takes |-> 2, puts |-> <<1, 2, 1, 2>>],
          dup2_x1 |-> [takes |-> 3, puts |-> <<1, 2, 3, 1, 2>>],
          dup2_x2 |-> [takes |-> 4, puts |-> <<1, 2, 3, 4, 1, 2>>],
          swap   |-> [takes |-> 2, puts |-> <<2, 1>>]]
StackOps ==
    /\ At(DOMAIN Moves)
    /\ LET move == Moves[Here.op]
       IN  stack' = Under(move.takes) \o
                    Reverse([k \in DOMAIN move.puts |-> Top(move.puts[k])])
    /\ Go(pc + 1) /\ UNCHANGED <<locals, heap>>

(* The result takes the place of the operands.                             *)
Compute ==
    /\ stack' = Below(Here.args) \o [k \in DOMAIN Words(Here.ret) |-> Tag(Words(Here.ret)[k])]
    /\ Go(pc + 1) /\ UNCHANGED <<locals, heap>>
Arithmetic    == At({"arith"}) /\ Compute
(* IDIV, LDIV, IREM and LREM throw when the divisor is zero.               *)
Divisions     == At({"divide"}) /\ (Compute \/ ThrowSome)
BitOperations == At({"bits"}) /\ Compute
Conversions   == At({"convert"}) /\ Compute
Comparisons   == At({"compare"}) /\ Compute

JumpTo(targets) ==
    /\ stack' = Below(Here.args)
    /\ \E to \in targets : Go(to)
    /\ UNCHANGED <<locals, heap>>
Branches ==
    \/ At({"if", "ifref"}) /\ JumpTo(ToSet(Here.tgt) \union {pc + 1})
    \/ At({"goto"}) /\ JumpTo(ToSet(Here.tgt))
(* The default target and those of the keys.                               *)
Switches == At({"switch"}) /\ JumpTo(ToSet(Here.tgt))

(* IRETURN .. RETURN: the frame is popped. *)
Returns ==
    /\ At({"return"})
    /\ mode' = "done"
    /\ UNCHANGED <<pc, stack, locals, heap, linked>>
-----------------------------------------------------------------------------
(* The static and the instance fields; a null object throws.               *)
GetStatic ==
    /\ At({"getstatic"})
    /\ \E r \in Results(Here.ret) : Push(r.words) /\ heap' = r.heap
    /\ Go(pc + 1) /\ UNCHANGED locals
PutStatic ==
    /\ At({"putstatic"})
    /\ stack' = Below(Here.args)
    /\ Go(pc + 1) /\ UNCHANGED <<locals, heap>>
GetField ==
    /\ At({"getfield"})
    /\ \/ Top(1)[2] = 0 /\ ThrowSome
       \/ /\ Top(1)[2] # 0
          /\ \E r \in Results(Here.ret) : stack' = Under(1) \o r.words /\ heap' = r.heap
          /\ Go(pc + 1) /\ UNCHANGED locals
ReceiverOf(args) == Top(Len(Words(args)) + 1)
PutField ==
    /\ At({"putfield"})
    /\ \/ ReceiverOf(Here.args)[2] = 0 /\ ThrowSome
       \/ /\ ReceiverOf(Here.args)[2] # 0
          /\ stack' = Under(Len(Words(Here.args)) + 1)
          /\ Go(pc + 1) /\ UNCHANGED <<locals, heap>>

(* INVOKESTATIC; INVOKEVIRTUAL, INVOKESPECIAL, INVOKESUPER and              *)
(* INVOKEINTERFACE, whose receiver must not be null.  A constructor makes  *)
(* an object of its receiver; it throws before it has, or it returns.      *)
InvokeStatic ==
    /\ At({"invokestatic"})
    /\ \/ ThrowSome
       \/ /\ \E r \in Results(Here.ret) : stack' = Below(Here.args) \o r.words /\ heap' = r.heap
          /\ Go(pc + 1) /\ UNCHANGED locals
Invoke ==
    /\ At({"invokevirtual", "invokespecial", "invokeinterface"})
    /\ \/ ThrowSome
       \/ /\ ReceiverOf(Here.args)[2] # 0
          /\ \E r \in Results(Here.ret) :
               /\ stack' = Under(Len(Words(Here.args)) + 1) \o r.words
               /\ heap' = r.heap
          /\ Go(pc + 1) /\ UNCHANGED locals
InvokeInit ==
    /\ At({"invokeinit"})
    /\ LET id == ReceiverOf(Here.args)[2]
       IN  \/ ThrowSome
           \/ /\ id # 0
              /\ heap' = [heap EXCEPT ![id].site = 0]
              /\ stack' = Under(Len(Words(Here.args)) + 1)
              /\ Go(pc + 1) /\ UNCHANGED locals

(* NEW and NEW_FINALIZER, NEWARRAY, ANEWARRAY, MULTIANEWARRAY.             *)
New ==
    /\ At({"new"}) /\ CanAllocate
    /\ heap' = Fresh(Here.cls, pc)
    /\ Push(<<Ref(NextObject)>>)
    /\ Go(pc + 1) /\ UNCHANGED locals
NewArray ==
    /\ At({"newarray", "multianewarray"})
    /\ \/ ThrowSome
       \/ /\ CanAllocate
          /\ heap' = Fresh(Here.ret[1], 0)
          /\ stack' = Under(IF Here.op = "newarray" THEN 1 ELSE Here.n) \o <<Ref(NextObject)>>
          /\ Go(pc + 1) /\ UNCHANGED locals
ArrayLength ==
    /\ At({"arraylength"})
    /\ \/ Top(1)[2] = 0 /\ ThrowSome
       \/ /\ Top(1)[2] # 0 /\ stack' = Under(1) \o <<Tag(Integer)>>
          /\ Go(pc + 1) /\ UNCHANGED <<locals, heap>>

AThrow ==
    /\ At({"athrow"})
    /\ \/ Top(1)[2] = 0 /\ ThrowSome
       \/ Top(1)[2] # 0 /\ ThrowObject(Top(1)[2], heap)

CheckCast ==
    /\ At({"checkcast"})
    /\ IF Top(1)[2] = 0 \/ IsAssignable(heap[Top(1)[2]].type, Here.cls)
       THEN Go(pc + 1) /\ UNCHANGED <<stack, locals, heap>>
       ELSE ThrowSome
InstanceOf ==
    /\ At({"instanceof"})
    /\ stack' = Under(1) \o <<Tag(Integer)>>
    /\ Go(pc + 1) /\ UNCHANGED <<locals, heap>>

(* MONITORENTER and MONITOREXIT, which fails for a monitor not owned.      *)
Monitor ==
    /\ At({"monitor"})
    /\ \/ ThrowSome
       \/ /\ Top(1)[2] # 0 /\ stack' = Under(1)
          /\ Go(pc + 1) /\ UNCHANGED <<locals, heap>>

-----------------------------------------------------------------------------
(* The arguments are in the first local variables, what is in the others   *)
(* was left there by the caller.                                           *)
Objects == [k \in DOMAIN SelectSeq(m.args, IsRef) |-> Erased(SelectSeq(m.args, IsRef)[k])]
ArgumentWords(null) ==
    LET number(k) == Cardinality({l \in 1 .. k : IsRef(m.args[l])}) + (IF m.static THEN 0 ELSE 1)
        word(k) == IF IsRef(m.args[k]) THEN <<Ref(IF null THEN 0 ELSE number(k))>>
                   ELSE [j \in 1 .. Span(m.args[k]) |-> Tag(Words(<<m.args[k]>>)[j])]
    IN  (IF m.static THEN <<>> ELSE <<Ref(1)>>)
        \o FlattenSeq([k \in DOMAIN m.args |-> word(k)])
Start ==
    /\ mode = "verify" /\ verdict = "accepted"
    /\ mode' = "run" /\ pc' = 1
    /\ heap' = (IF m.static THEN <<>>
                ELSE <<[type |-> ThisClass, site |-> IF Constructor THEN -1 ELSE 0]>>)
               \o [k \in DOMAIN Objects |-> [type |-> Objects[k], site |-> 0]]
    /\ \E null \in BOOLEAN :
         locals' = [k \in 1 .. m.maxLocals |->
             IF k =< Len(ArgumentWords(null)) THEN ArgumentWords(null)[k] ELSE Junk]
    /\ UNCHANGED <<stack, linked>>

Run ==
    \/ Start \/ Prelink \/ PrelinkFails
    \/ Constants \/ LocalLoads \/ LocalStores \/ IncrementLocal \/ ArrayLoads \/ ArrayStores
    \/ StackOps \/ Arithmetic \/ Divisions \/ BitOperations \/ Conversions \/ Comparisons
    \/ Branches \/ Switches \/ Returns
    \/ GetStatic \/ PutStatic \/ GetField \/ PutField
    \/ InvokeStatic \/ Invoke \/ InvokeInit
    \/ New \/ NewArray \/ ArrayLength \/ AThrow \/ CheckCast \/ InstanceOf \/ Monitor

Init ==
    /\ InitVerifier
    /\ mode = "verify" /\ pc = 1 /\ stack = <<>> /\ locals = <<>> /\ heap = <<>> /\ linked = {}
Next == (NextVerifier /\ UNCHANGED runVars) \/ (Run /\ UNCHANGED verifierVars)
Spec == Init /\ [][Next]_vars

-----------------------------------------------------------------------------
(* A word holds what a type says. *)
Holds(w, t) ==
    CASE t = Bogus -> TRUE
      [] t = Null  -> w = Ref(0)
      [] IsRef(t)  -> w[1] = "ref" /\ (w[2] = 0 \/ Instance(w[2], t))
      [] Uninitialized(t) -> w[1] = "ref" /\ w[2] # 0
                             /\ heap[w[2]].site = IF t = InitObject THEN -1 ELSE t[3]
      [] OTHER     -> w = Tag(t)
AllHold(words, ts) == Len(ts) =< Len(words) /\ \A k \in DOMAIN ts : Holds(words[k], ts[k])

(* Whenever an instruction runs, the stack and the local variables hold    *)
(* what the analysis has found for it, on every path that leads there:     *)
(* around loops, out of handlers, through constructors; and so does the    *)
(* stack map the preverifier writes for a branch target.                   *)
Conforms ==
    mode = "run" =>
        LET d == info[pc]
        IN  /\ d.known
            /\ Len(stack) = Size(d.stack)
            /\ AllHold(stack, Words(Reverse(d.stack)))
            /\ AllHold(locals, d.regs)
            /\ d.target => AllHold(locals, Words(MapLocals(d.regs)))

(* What an opcode takes for granted when it casts the words it uses.       *)
Arguments(ts) == AllHold(SubSeq(stack, Len(stack) + 1 - Len(Words(ts)), Len(stack)),
                         [k \in DOMAIN Words(ts) |-> Words(ts)[k]])
NullOr(w, P(_)) == w[1] = "ref" /\ (w[2] = 0 \/ P(w[2]))
ElementsAre(id, t) ==
    LET type == heap[id].type
    IN  /\ type[2] > 0
        /\ IF t[1] = "byte" THEN type[1] \in {"byte", "boolean"} /\ type[2] = 1
           ELSE IF IsRef(t) THEN type[2] > 1 \/ type[1] = "object"
           ELSE type = ArrayOf(t)

(* The analysis lets a constructor set a field of a superclass early if    *)
(* the instruction names that class.                                       *)
SuperField(c) == c.owner # m.class /\ c.cls = Class(c.owner)

(* No opcode of an accepted method misreads a word: operands are of the    *)
(* kind it casts them to, an object has the field or method it is used     *)
(* for, nobody but its constructor gets at an uninitialized object, which  *)
(* sets none but fields of its own class, save a SuperField, and the       *)
(* operand stack stays within max_stack.                                   *)
SafeUse ==
    mode = "run" =>
        LET c == Here
        IN  /\ Len(stack) =< m.maxStack
            /\ c.op \in {"arith", "divide", "bits", "convert", "compare", "if", "switch", "putstatic",
                         "putfield", "newarray", "checkcast", "instanceof", "monitor", "return"}
                        \union Calls
                 => Arguments(c.args)
            /\ c.op = "return" =>
                 /\ c.args # <<>> => AllHold(SubSeq(stack, Len(stack) + 1 - Span(m.ret), Len(stack)),
                                             Words(<<m.ret>>))
                 /\ Constructor => heap[1].site = 0
            /\ c.op \in {"load", "iinc"} /\ ~IsRef(c.ty) => Holds(locals[c.n + 1], c.ty)
            /\ c.op = "load" /\ IsRef(c.ty) => locals[c.n + 1][1] = "ref"
            /\ c.op = "ifref" => \A k \in DOMAIN c.args : Top(k)[1] = "ref"
            /\ c.op = "getfield" => NullOr(Top(1), LAMBDA id : Instance(id, c.cls))
            /\ c.op = "putfield" =>
                 NullOr(ReceiverOf(c.args),
                        LAMBDA id : IsAssignable(heap[id].type, c.cls)
                                    /\ (heap[id].site # 0 =>
                                          /\ heap[id].site = -1
                                          /\ c.owner = m.class \/ SuperField(c)))
            /\ c.op \in {"invokevirtual", "invokespecial", "invokeinterface"} =>
                 NullOr(ReceiverOf(c.args), LAMBDA id : Instance(id, c.cls))
            /\ c.op = "invokespecial" =>
                 NullOr(ReceiverOf(c.args), LAMBDA id : Instance(id, ThisClass))
            /\ c.op = "invokeinit" =>
                 LET id == ReceiverOf(c.args)[2]
                 IN  id # 0 /\ (IF heap[id].site = -1 THEN c.cls[3] \in Line[m.class]
                                ELSE heap[id].site # 0 /\ heap[id].type = c.cls)
            /\ c.op = "arrayload" => NullOr(Top(2), LAMBDA id : ElementsAre(id, c.ty))
            /\ c.op = "arraystore" =>
                 /\ NullOr(ArrayOfStore, LAMBDA id : ElementsAre(id, c.ty))
                 /\ IsRef(c.ty) => Holds(Top(1), Object)
            /\ c.op = "arraylength" => NullOr(Top(1), LAMBDA id : heap[id].type[2] > 0)
            /\ c.op = "athrow" => NullOr(Top(1), LAMBDA id : Instance(id, Class("Throwable")))

(* What a compiler makes of a correct program is accepted. *)
ValidAccepted == m \in Valid => verdict # "rejected"

=============================================================================
