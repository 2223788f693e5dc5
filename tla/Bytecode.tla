------------------------------- MODULE Bytecode -------------------------------
(***************************************************************************)
(* The code of one method, from the class file to the interpreter: it is   *)
(* loaded and translated at the first call (bcl_link_method() and          *)
(* translate_bytecode()), its opcodes are linked one by one while threads  *)
(* execute it (bcl_link_opcode()), and its bytes change in place all the   *)
(* time.  Operands are big-endian in the file and in the host's order once *)
(* translated or linked; the model is of a little-endian host with         *)
(* JEL_FP_SUPPORT.  Opcodes that are treated alike are one opcode here.    *)
(***************************************************************************)
EXTENDS ConstantPool

CONSTANTS
    Thread,     \* the threads that call the method
    ClassFile,  \* class files: how many entries they announce, and the items
    Program,    \* the methods, with the class file they are in
    ArrayId,    \* the id of the class of arrays of each class
    Garbled,    \* a number made of bytes that belong to different things
    Debug       \* whether dbg_unreachable() aborts

VARIABLES
    method,     \* what the class file says of the method
    file,       \* the bytes of its code there, where its instructions begin, the
                \* entries of the constant pool as they are read and as it is created
    pool,       \* the constant pool of the class
    phase,      \* how far the method is: "load", "translate", "code"; or how it failed
    code,       \* the bytes: opcodes, and the bytes of numbers
    i,          \* translate_bytecode()'s position in them
    frames,     \* the activations of the method of each thread, the innermost last
    initialized \* the classes whose initialization has begun

vars == <<method, file, pool, phase, code, i, frames, initialized>>

-----------------------------------------------------------------------------
(* Bytes.  A number of several bytes is n tuples, "be" or "ne" for its     *)
(* order; a single byte has no order.                                      *)
Op(name) == <<"op", name>>
Bytes(order, v, n) == [j \in 1..n |-> <<IF n = 1 THEN "u1" ELSE order, v, n, j>>]
Big(v, n) == Bytes("be", v, n)
Native(v, n) == Bytes("ne", v, n)
Ceil4(n) == ((n + 3) \div 4) * 4

(* The number at c[at .. at + n - 1].                                      *)
Number(c, at, n, order) ==
    LET v == c[at + 1][2] IN
    IF at + n <= Len(c) /\ Len(c[at + 1]) = 4 /\ SubSeq(c, at + 1, at + n) = Bytes(order, v, n)
    THEN v ELSE Garbled

Put(c, at, bytes) == [k \in DOMAIN c |-> IF k \in at + 1..at + Len(bytes) THEN bytes[k - at] ELSE c[k]]
IsOp(c, at, names) == at < Len(c) /\ Len(c[at + 1]) = 2 /\ c[at + 1][2] \in names

(* The opcodes of class files, each with the widths of its operands; a     *)
(* WIDE one has twice those.                                               *)
Constants == {"NOP", "ICONST_0"}
Arithmetic == {"IALOAD", "DUP", "IADD"}
Conversions == {"I2L", "LCMP"}
Others == {"ARRAYLENGTH", "ATHROW", "MONITORENTER", "MONITOREXIT"}
ImplicitLocal == [ILOAD_0 |-> 0, LSTORE_1 |-> 1, ALOAD_2 |-> 2, ISTORE_3 |-> 3]
Locals == {"ILOAD", "LSTORE"}
Returns == {"IRETURN", "LRETURN", "FRETURN", "DRETURN", "ARETURN", "RETURN"}
Branches == {"IFEQ", "IFNULL"}
Jumps == Branches \cup {"GOTO"}
Switches == {"TABLESWITCH", "LOOKUPSWITCH"}
FieldOps == {"GETSTATIC", "PUTSTATIC", "GETFIELD", "PUTFIELD"}
ClassOps == {"NEW", "ANEWARRAY", "CHECKCAST", "INSTANCEOF"}
InvokeOps == {"INVOKEVIRTUAL", "INVOKESPECIAL", "INVOKESTATIC"}
Shapes ==
    [op \in Locals \cup {"BIPUSH", "LDC", "NEWARRAY"} |-> <<1>>] @@ [IINC |-> <<1, 1>>]
    @@ [op \in Jumps \cup FieldOps \cup ClassOps \cup InvokeOps
               \cup {"SIPUSH", "LDC_W", "LDC2_W", "JSR"} |-> <<2>>]
    @@ [GOTO_W |-> <<4>>, INVOKEINTERFACE |-> <<2, 1, 1>>, MULTIANEWARRAY |-> <<2, 1>>]
Widths(op, wide) ==
    LET shape == IF op \in DOMAIN Shapes THEN Shapes[op] ELSE <<>> IN
    IF wide THEN [k \in DOMAIN shape |-> 2 * shape[k]] ELSE shape

(* An instruction of a class file as it is laid out at an address.         *)
Instruction(ins, at) ==
    (IF ins.wide THEN <<Op("WIDE")>> ELSE <<>>) \o <<Op(ins.op)>> \o
    FlattenSeq(IF ins.op \in Switches
               THEN <<[k \in 1..(Ceil4(at + 1) - at - 1) |-> <<"pad">>]>>
                    \o [k \in DOMAIN ins.args |-> Big(ins.args[k], 4)]
               ELSE [k \in DOMAIN ins.args |-> Big(ins.args[k], Widths(ins.op, ins.wide)[k])])
FileCode(m) ==
    LET bytes == FoldLeft(LAMBDA c, ins : c \o Instruction(ins, Len(c)), <<>>, m.code) IN
    SubSeq(bytes, 1, Len(bytes) - m.cut)

Begin(m, k) == Len(FileCode([m EXCEPT !.code = SubSeq(m.code, 1, k - 1), !.cut = 0]))
Shift == IF method.sync THEN 1 ELSE 0

-----------------------------------------------------------------------------
(* bcl_link_method(), with tm.lock held throughout.                        *)
(* An activation: where it is, the opcode it has read and the index linking *)
(* has; tests, whether that opcode looks for an exception once linked;     *)
(* throws, whether one is pending.                                         *)
Place(at, pc) ==
    [at |-> at, pc |-> pc, op |-> "none", index |-> 0, tests |-> FALSE, throws |-> FALSE]
Called == Place("call", 0)
Top(t) == frames[t][Len(frames[t])]
Set(t, frame) == frames' = [frames EXCEPT ![t][Len(frames[t])] = frame]
Holds(t) == \E k \in DOMAIN frames[t] : frames[t][k].at \in {"translate", "init", "stored"}
LockFree(t) == \A u \in Thread \ {t} : ~Holds(u)

(* cp_create(), and the entries other methods of the class have resolved.  *)
Init ==
    /\ method \in Program
    /\ LET f == ClassFile[method.file] IN
       file = [bytes |-> FileCode(method), begin |-> [k \in DOMAIN method.code |-> Begin(method, k)],
               items |-> Read(f.entries, f.items), pool |-> Create(f.entries, f.items)]
    /\ pool = file.pool
    /\ phase = IF pool = NoPool THEN "rejected" ELSE "earlier"
    /\ code = <<>> /\ i = 0
    /\ frames = [t \in Thread |-> <<Called>>]
    /\ initialized = {}

Earlier ==
    /\ phase = "earlier"
    /\ phase' = "load"
    /\ pool' = FoldLeft(LAMBDA p, n : ResolveClass(p, n).pool, pool, method.earlier)
    /\ UNCHANGED <<method, file, code, i, frames, initialized>>

Handlers == {[h EXCEPT !.start = @ + Shift, !.end = @ + Shift, !.pc = @ + Shift] : h \in method.handlers}

(* load_bytecode() and load_exception_handlers(); a synchronized method    *)
(* gets an opcode in front that enters the monitor.                        *)
Call(t) ==
    /\ Top(t).at = "call" /\ phase \in {"load", "translate", "code"} /\ LockFree(t)
    /\ IF phase = "load"
       THEN /\ phase' = "translate"
            /\ code' = (IF ~method.sync THEN <<>>
                        ELSE IF method.static THEN <<Op("MONITORENTER_SPECIAL_STATIC")>>
                        ELSE <<Op("MONITORENTER_SPECIAL")>>) \o file.bytes
            /\ i' = Shift
            /\ Set(t, Place("translate", 0))
       ELSE Set(t, Place("fetch", 0)) /\ UNCHANGED <<phase, code, i>>
    /\ UNCHANGED <<method, file, pool, initialized>>

-----------------------------------------------------------------------------
(* translate_bytecode(): one turn of its loop for each opcode.             *)
At(names) == phase = "translate" /\ IsOp(code, i, names)
Go(c, n) == code' = c /\ i' = i + n /\ UNCHANGED phase
Reject == phase' = "rejected" /\ UNCHANGED <<code, i>>
When(allowed, c, n) == IF allowed THEN Go(c, n) ELSE Reject
(* Bytes of different numbers are read as one: any value may come out.     *)
Misread == phase' \in {"rejected", "garbled"} /\ UNCHANGED <<code, i>>
Byte(at) == Number(code, at, 1, "be")
Short(at) == Number(code, at, 2, "be")
MakeNative(c, at, n) == Put(c, at, Native(Number(c, at, n, "be"), n))
Rename(name) == Put(code, i, <<Op(name)>>)

\* Mutant: the target one past the end is accepted.
MutInRange(target) == target \in 0..Len(code)

InRange(target) == target \in 0..(Len(code) - 1)
HasLocal(n) == n < method.locals

Unchanged == At(Constants \cup Arithmetic \cup Conversions \cup Others) /\ Go(code, 1)
Bipush == At({"BIPUSH"}) /\ Go(code, 2)
Sipush == At({"SIPUSH"}) /\ Go(MakeNative(code, i + 1, 2), 3)
Ldc ==
    /\ At({"LDC"})
    /\ LET tag == Tag(pool, Byte(i + 1)) IN
       IF tag \in {"String", "Class"} THEN Go(Rename("LDC_PRELINK"), 2)
       ELSE When(tag \in {"Float", "Integer"}, code, 2)
LdcW ==
    /\ At({"LDC_W"})
    /\ LET tag == Tag(pool, Short(i + 1)) IN
       IF tag \in {"String", "Class"} THEN Go(Rename("LDC_W_PRELINK"), 3)
       ELSE When(tag \in {"Float", "Integer"}, MakeNative(code, i + 1, 2), 3)
Ldc2W ==
    At({"LDC2_W"}) /\ When(Tag(pool, Short(i + 1)) \in TwoEntries, MakeNative(code, i + 1, 2), 3)
Local == At(Locals) /\ When(HasLocal(Byte(i + 1)), code, 2)
LocalN == At(DOMAIN ImplicitLocal) /\ When(HasLocal(ImplicitLocal[code[i + 1][2]]), code, 1)
Iinc == At({"IINC"}) /\ When(HasLocal(Byte(i + 1)), code, 3)
Jump == At(Jumps) /\ When(InRange(i + Short(i + 1)), MakeNative(code, i + 1, 2), 3)
GotoW == At({"GOTO_W"}) /\ When(InRange(i + Number(code, i + 1, 4, "be")), MakeNative(code, i + 1, 4), 5)

(* The numbers of a switch start at the next multiple of four.             *)
SwitchNumber(k) == Number(code, Ceil4(i + 1) + 4 * k, 4, "be")
NativeSwitch(n) ==
    LET at == Ceil4(i + 1) IN
    Put(code, at, FlattenSeq([k \in 1..n |-> Native(SwitchNumber(k - 1), 4)]))
Switch(head, n, allowed) ==
    IF Garbled \in {SwitchNumber(k) : k \in head..(n - 1)} THEN Misread
    ELSE When(allowed, NativeSwitch(n), Ceil4(i + 1) - i + 4 * n)
TableSwitch ==
    /\ At({"TABLESWITCH"})
    /\ LET low == SwitchNumber(1)
           high == SwitchNumber(2)
           n == 4 + high - low
       IN  IF Garbled \in {SwitchNumber(0), low, high} THEN Misread
           ELSE IF high < low THEN Reject
           ELSE Switch(3, n, \A k \in {0} \cup 3..(n - 1) : InRange(i + SwitchNumber(k)))
LookupSwitch ==
    /\ At({"LOOKUPSWITCH"})
    /\ LET pairs == SwitchNumber(1)
           n == 2 + 2 * pairs
       IN  IF Garbled \in {SwitchNumber(0), pairs} THEN Misread
           ELSE IF pairs < 0 THEN Reject
           ELSE Switch(2, n, /\ \A k \in {0} \cup {2 * m + 1 : m \in 1..pairs} : InRange(i + SwitchNumber(k))
                             /\ \A m \in 2..pairs : SwitchNumber(2 * m) > SwitchNumber(2 * m - 2))

Return ==
    At(Returns) /\ Go(IF method.sync THEN Rename(code[i + 1][2] \o "_MONITOREXIT") ELSE code, 1)
Prelink(op) == op \o "_PRELINK"
ToLink == At(FieldOps \cup InvokeOps \cup ClassOps) /\ Go(Rename(Prelink(code[i + 1][2])), 3)
InvokeInterface ==
    /\ At({"INVOKEINTERFACE"})
    /\ When(Byte(i + 3) # 0, Put(Rename("INVOKEINTERFACE_PRELINK"), i + 3, <<Op("NOP"), Op("NOP")>>), 5)
NewArray == At({"NEWARRAY"}) /\ When(Byte(i + 1) \in 4..11, Rename("NEWARRAY_PRELINK"), 2)
MultiANewArray == At({"MULTIANEWARRAY"}) /\ When(Byte(i + 3) # 0, Rename("MULTIANEWARRAY_PRELINK"), 4)
Wide ==
    /\ At({"WIDE"})
    /\ IF IsOp(code, i + 1, Locals)
       THEN When(HasLocal(Short(i + 2)), MakeNative(code, i + 2, 2), 4)
       ELSE IF IsOp(code, i + 1, {"IINC"})
       THEN When(HasLocal(Short(i + 2)), MakeNative(MakeNative(code, i + 2, 2), i + 4, 2), 6)
       ELSE Reject
Known == DOMAIN Shapes \cup Constants \cup Arithmetic \cup Conversions \cup Others
         \cup DOMAIN ImplicitLocal \cup Switches \cup Returns \cup {"WIDE"}
Unknown == phase = "translate" /\ i < Len(code) /\ ~IsOp(code, i, Known \ {"JSR"}) /\ Reject

Finish ==
    /\ phase = "translate" /\ i >= Len(code)
    /\ phase' = IF i = Len(code) /\ \A h \in Handlers :
                        h.start < h.end /\ h.start < Len(code) /\ h.end <= Len(code)
                THEN "code" ELSE "rejected"
    /\ \E t \in Thread : Top(t).at = "translate" /\ Set(t, Place("fetch", 0))
    /\ UNCHANGED <<code, i>>

Translate ==
    /\ \/ Unchanged \/ Bipush \/ Sipush \/ Ldc \/ LdcW \/ Ldc2W \/ Local \/ LocalN \/ Iinc
       \/ Jump \/ GotoW \/ TableSwitch \/ LookupSwitch \/ Return \/ ToLink \/ InvokeInterface
       \/ NewArray \/ MultiANewArray \/ Wide \/ Unknown
    /\ UNCHANGED <<method, file, pool, frames, initialized>>

-----------------------------------------------------------------------------
(* What linking makes of an opcode and its index: the opcode and operand   *)
(* that replace them, and the pool afterwards.                             *)
PrelinkOps == {Prelink(op) : op \in FieldOps \cup InvokeOps \cup ClassOps
                                   \cup {"INVOKEINTERFACE", "NEWARRAY", "MULTIANEWARRAY", "LDC", "LDC_W"}}
Initializing == {Prelink(op) : op \in {"GETSTATIC", "PUTSTATIC", "NEW", "INVOKEINTERFACE"} \cup InvokeOps}
Testing == {Prelink(op) : op \in {"GETSTATIC", "PUTSTATIC", "INVOKESTATIC", "NEW"}}
TypeName == [B |-> "BYTE", Z |-> "BOOL", C |-> "CHAR", S |-> "SHORT", I |-> "INT", F |-> "FLOAT",
             J |-> "LONG", D |-> "DOUBLE", A |-> "REFERENCE", L |-> "REFERENCE"]
Linked(p, op, arg) == [pool |-> p, op |-> op, arg |-> arg]
Failed(p) == Linked(p, "none", 0)

IsStatic(op) == op \in {"GETSTATIC", "PUTSTATIC", "INVOKESTATIC"}
LinkField(r, op, n) ==
    IF r.v = Error THEN Failed(r.pool)
    ELSE IF r.v = Confused THEN Linked(r.pool, "confused", 0)
    ELSE Linked(r.pool, op \o "_" \o TypeName[r.v[2][3]], IF IsStatic(op) THEN n ELSE Fields[r.v[2]].offset)

LinkInvoke(r, op, n) ==
    LET m == Methods[r.v[2]]
    IN  IF r.v = Error THEN Failed(r.pool)
        ELSE IF m.static # IsStatic(op) THEN Failed(r.pool)
        ELSE IF op \in {"INVOKEVIRTUAL", "INVOKEINTERFACE"}
        THEN IF m.initializer THEN Failed(r.pool) ELSE Linked(r.pool, op, m.packed)
        ELSE IF op = "INVOKESPECIAL" /\ m.super /\ ~m.initializer
        THEN Linked(r.pool, "INVOKESUPER", m.packed)
        ELSE Linked(r.pool, op, n)

LinkArray(p, op, name) ==
    IF name = Error \/ name[2] \notin DOMAIN ArrayId THEN Failed(p) ELSE Linked(p, op, ArrayId[name[2]])

LinkClass(r, op, n, dimensions) ==
    LET c == Classes[r.v[2]]
    IN  IF r.v = Error THEN Failed(r.pool)
        ELSE IF (op = "NEW" /\ c.abstract) \/ (op = "MULTIANEWARRAY" /\ c.dimensions < dimensions)
        THEN Failed(r.pool)
        ELSE Linked(r.pool, IF op = "NEW" /\ c.finalizer THEN "NEW_FINALIZER" ELSE op, n)

LinkConstant(r, op, n) ==
    IF r.v = Error THEN Failed(r.pool) ELSE Linked(r.pool, op \o "_REF", n)

Base(prelink) == CHOOSE op \in Known : Prelink(op) = prelink
LinkOf(p, op, n, dimensions) ==
    CASE op \in FieldOps -> LinkField(ResolveField(p, n, IsStatic(op)), op, n)
      [] op \in InvokeOps \cup {"INVOKEINTERFACE"} ->
            LinkInvoke(ResolveMethod(p, n, op = "INVOKEINTERFACE"), op, n)
      [] op = "ANEWARRAY" -> LinkArray(p, op, ClassName(p, n))
      [] op \in (ClassOps \cup {"MULTIANEWARRAY"}) \ {"ANEWARRAY"} ->
            LinkClass(ResolveClass(p, n), op, n, dimensions)
      [] op \in {"LDC", "LDC_W"} ->
            LinkConstant(IF Tag(p, n) = "Class" THEN ResolveClass(p, n) ELSE Result(p, Nothing), op, n)
      [] OTHER -> Linked(p, op, n)

(* The class entry whose class is initialized before the rest is resolved. *)
ClassEntry(p, n) ==
    CASE Tag(p, n) \in {"Class", "Class_resolved"} -> n
      [] Tag(p, n) \in {"Fieldref", "Methodref", "InterfaceMethodref"} -> p[n + 1].a[2]
      [] OTHER -> 0
OneByte == {"NEWARRAY_PRELINK", "LDC_PRELINK"}

-----------------------------------------------------------------------------
(* A thread in the interpreter.                                            *)
At1(t, at) == phase = "code" /\ Top(t).at = at

(* The dispatch: the opcode is read, without the lock.                     *)
Fetch(t) ==
    /\ At1(t, "fetch")
    /\ IF Len(code[Top(t).pc + 1]) = 2
       THEN Set(t, [Top(t) EXCEPT !.at = "opcode", !.op = code[Top(t).pc + 1][2]]) /\ UNCHANGED phase
       ELSE phase' = "garbled" /\ UNCHANGED frames
    /\ UNCHANGED <<method, file, pool, code, i, initialized>>

(* bcl_link_opcode() is called with the opcode, which the compiler may     *)
(* read once more for that.                                                *)
Ask(t) ==
    /\ At1(t, "opcode") /\ Top(t).op \in PrelinkOps
    /\ \E op \in {Top(t).op, code[Top(t).pc + 1][2]} :
          Set(t, [Top(t) EXCEPT !.at = "ask", !.op = op, !.tests = Top(t).op \in Testing])
    /\ UNCHANGED <<method, file, pool, phase, code, i, initialized>>

(* An exception at pc goes to a handler of the method or leaves it.        *)
Unwound(pc) ==
    LET covering == {h \in Handlers : pc >= h.start /\ pc < h.end} IN
    {Place("fetch", h.pc) : h \in covering} \cup {Place("done", 0)}

(* The instruction is replayed, with the exception that is pending if the  *)
(* opcode does not look for one.                                           *)
Onward(t, pc) == [Place("fetch", pc) EXCEPT !.throws = Top(t).throws]
Replayed(t) ==
    IF Top(t).throws /\ Top(t).tests THEN Unwound(Top(t).pc) ELSE {Onward(t, Top(t).pc)}

\* Mutant: linked whether another thread has done it meanwhile or not.
MutUnlinked(t) == TRUE

Unlinked(t) == IsOp(code, Top(t).pc, {Top(t).op})

IndexAt(op, pc) == Number(code, pc + 1, IF op \in OneByte THEN 1 ELSE 2, "be")

(* It takes the lock, looks whether another thread was faster, reads the   *)
(* index and resolves the class to initialize.                             *)
LinkBegin(t) ==
    /\ At1(t, "ask") /\ LockFree(t)
    /\ LET op == Top(t).op
           n == IndexAt(op, Top(t).pc)
           r == ResolveClass(pool, ClassEntry(pool, n))
       IN  IF ~Unlinked(t)
           THEN (\E frame \in Replayed(t) : Set(t, frame)) /\ UNCHANGED <<pool, phase>>
           ELSE IF op \notin PrelinkOps       \* dbg_unreachable()
           THEN IF Debug THEN phase' = "aborted" /\ UNCHANGED <<pool, frames>>
                ELSE (\E frame \in Replayed(t) : Set(t, frame)) /\ UNCHANGED <<pool, phase>>
           ELSE IF n = Garbled THEN phase' = "garbled" /\ UNCHANGED <<pool, frames>>
           ELSE /\ Set(t, [Top(t) EXCEPT !.at = "init", !.index = n])
                /\ pool' = IF op \in Initializing /\ ClassEntry(pool, n) # 0 THEN r.pool ELSE pool
                /\ UNCHANGED phase
    /\ UNCHANGED <<method, file, code, i, initialized>>

(* The class it has to initialize, if any.                                 *)
Uninitialized(t) ==
    LET entry == ClassEntry(pool, Top(t).index) IN
    IF Top(t).op \in Initializing /\ Tag(pool, entry) = "Class_resolved"
    THEN {pool[entry + 1].a[2]} \ initialized ELSE {}

(* The static initializer runs in a nested interpreter, with the lock held,*)
(* and may call the method.  An exception it throws stays pending.         *)
Initialize(t) ==
    /\ At1(t, "init")
    /\ \E c \in Uninitialized(t), calls, throws \in BOOLEAN :
          /\ initialized' = initialized \cup {c}
          /\ LET frame == [Top(t) EXCEPT !.throws = @ \/ throws] IN
             IF calls
             THEN frames' = [frames EXCEPT ![t] = Append([@ EXCEPT ![Len(frames[t])] = frame], Called)]
             ELSE Set(t, frame)
    /\ UNCHANGED <<method, file, pool, phase, code, i>>

(* The rest is resolved and the operand stored ...                         *)
LinkOperand(t) ==
    /\ At1(t, "init") /\ Uninitialized(t) = {}
    /\ LET pc == Top(t).pc
           op == Base(Top(t).op)
           dimensions == IF op = "MULTIANEWARRAY" THEN Byte(pc + 3) ELSE 0
           link == LinkOf(pool, op, Top(t).index, dimensions)
       IN  /\ pool' = link.pool
           /\ IF link.op \in {"none", "confused"}
              THEN /\ phase' = IF link.op = "none" THEN "failed" ELSE "garbled"
                   /\ UNCHANGED <<code, frames>>
              ELSE /\ code' = IF Top(t).op \in OneByte THEN code ELSE Put(code, pc + 1, Native(link.arg, 2))
                   /\ Set(t, [Top(t) EXCEPT !.at = "stored", !.op = link.op])
                   /\ UNCHANGED phase
    /\ UNCHANGED <<method, file, i, initialized>>

(* ... and then the opcode.                                                *)
LinkOpcode(t) ==
    /\ At1(t, "stored")
    /\ code' = Put(code, Top(t).pc, <<Op(Top(t).op)>>)
    /\ \E frame \in Replayed(t) : Set(t, frame)
    /\ UNCHANGED <<method, file, pool, phase, i, initialized>>

-----------------------------------------------------------------------------
(* How the interpreter decodes the instruction at pc: its operands and     *)
(* where the next one begins.                                              *)
TypedOps == {op \o "_" \o TypeName[d] : op \in FieldOps, d \in DOMAIN TypeName}
Decoded(op, wide, args, next) == [op |-> op, wide |-> wide, args |-> args, next |-> next]
LinkedWidths(op) ==
    CASE op \in TypedOps \cup {"LDC_W_REF", "NEW_FINALIZER", "INVOKESUPER", "INVOKEINTERFACE"} -> <<2>>
      [] op = "LDC_REF" -> <<1>>
      [] OTHER -> Widths(op, FALSE)
RECURSIVE Operands(_, _)
Operands(at, widths) ==
    IF widths = <<>> THEN <<>>
    ELSE <<Number(code, at, Head(widths), "ne")>> \o Operands(at + Head(widths), Tail(widths))
RECURSIVE Total(_)
Total(widths) == IF widths = <<>> THEN 0 ELSE Head(widths) + Total(Tail(widths))
DecodeSwitch(op, pc) ==
    LET N(k) == Number(code, Ceil4(pc + 1) + 4 * k, 4, "ne")
        head == IF op = "TABLESWITCH" THEN {0, 1, 2} ELSE {0, 1}
        n == IF op = "TABLESWITCH" THEN 4 + N(2) - N(1) ELSE 2 + 2 * N(1)
    IN  IF Garbled \in {N(k) : k \in head} THEN Decoded(op, FALSE, <<Garbled>>, pc)
        ELSE Decoded(op, FALSE, [k \in 1..n |-> N(k - 1)], Ceil4(pc + 1) + 4 * n)
Decode(pc, op) ==
    IF op \in Switches THEN DecodeSwitch(op, pc)
    ELSE LET wide == op = "WIDE"
             at == IF wide THEN pc + 1 ELSE pc
             actual == IF wide THEN code[at + 1][2] ELSE op
             widths == IF wide THEN Widths(actual, TRUE) ELSE LinkedWidths(actual)
         IN  Decoded(actual, wide, Operands(at + 1, widths), at + 1 + Total(widths))

(* Where execution may go on; "done" when the activation ends.             *)
Targets(d, pc) ==
    CASE d.op = "TABLESWITCH" -> {pc + d.args[k] : k \in {1} \cup 4..Len(d.args)}
      [] d.op = "LOOKUPSWITCH" -> {pc + d.args[k] : k \in {1} \cup {2 * m + 2 : m \in 1..d.args[2]}}
      [] d.op \in Branches -> {pc + d.args[1], d.next}
      [] d.op \in {"GOTO", "GOTO_W"} -> {pc + d.args[1]}
      [] OTHER -> {d.next}
Ends == Returns \cup {op \o "_MONITOREXIT" : op \in Returns}

Execute(t) ==
    /\ At1(t, "opcode") /\ Top(t).op \notin PrelinkOps
    /\ LET pc == Top(t).pc
           d == Decode(pc, Top(t).op)
       IN  IF Garbled \in ToSet(d.args) THEN phase' = "garbled" /\ UNCHANGED frames
           ELSE /\ \E frame \in (IF d.op \in Ends THEN {Place("done", 0)} ELSE {})
                              \cup (IF d.op \in Ends \cup {"ATHROW"} THEN {}
                                   ELSE {Onward(t, pc2) : pc2 \in Targets(d, pc)})
                              \cup Unwound(pc) : Set(t, frame)
                /\ UNCHANGED phase
    /\ UNCHANGED <<method, file, pool, code, i, initialized>>

(* The static initializer returns to the linker.                           *)
Leave(t) ==
    /\ At1(t, "done") /\ Len(frames[t]) > 1
    /\ frames' = [frames EXCEPT ![t] = Front(@)]
    /\ UNCHANGED <<method, file, pool, phase, code, i, initialized>>

(* Everything has been said: all calls are over, or the machine has        *)
(* stopped.                                                                *)
Over ==
    /\ \/ phase \in {"rejected", "failed", "garbled", "aborted"}
       \/ phase = "code" /\ \A t \in Thread : Top(t).at = "done" /\ Len(frames[t]) = 1
    /\ UNCHANGED vars

Next ==
    \/ Earlier \/ Translate \/ (Finish /\ UNCHANGED <<method, file, pool, initialized>>) \/ Over
    \/ \E t \in Thread : \/ Call(t) \/ Fetch(t) \/ Ask(t) \/ LinkBegin(t) \/ Initialize(t)
                         \/ LinkOperand(t) \/ LinkOpcode(t) \/ Execute(t) \/ Leave(t)

Spec == Init /\ [][Next]_vars

-----------------------------------------------------------------------------
(* What the class file means, by the specification of the virtual machine. *)

(* Where the code departs from it, see the findings: a switch in a         *)
(* synchronized method, a jump in it to the opcode in front, a field entry *)
(* used in both ways, a class constant that is resolved before the method  *)
(* is translated, a long in the last local variable, the last entry of a   *)
(* pool.                                                                   *)
IsWideLocal(ins) == ins.op \in {"LSTORE", "LSTORE_1"}
LocalOf(ins) == IF ins.op \in DOMAIN ImplicitLocal THEN ImplicitLocal[ins.op] ELSE ins.args[1]
LocalValid(ins) == LocalOf(ins) + (IF IsWideLocal(ins) THEN 1 ELSE 0) < method.locals
Misaligned == method.sync /\ \E k \in DOMAIN method.code : method.code[k].op \in Switches
BothWays ==
    \E k, l \in DOMAIN method.code :
        /\ method.code[k].op \in {"GETSTATIC", "PUTSTATIC"} /\ method.code[l].op \in {"GETFIELD", "PUTFIELD"}
        /\ method.code[k].args = method.code[l].args
ResolvedConstant ==
    \E k \in DOMAIN method.code : /\ method.code[k].op \in {"LDC", "LDC_W"}
                                  /\ method.code[k].args[1] \in ToSet(method.earlier)
WideLocal ==
    \E k \in DOMAIN method.code : IsWideLocal(method.code[k]) /\ LocalOf(method.code[k]) = method.locals - 1
ToTheEntry ==
    method.sync /\ \E k \in DOMAIN method.code : /\ method.code[k].op \in Jumps \cup {"GOTO_W"}
                                               /\ file.begin[k] + method.code[k].args[1] = -1

PoolValid ==
    /\ \A k \in DOMAIN ClassFile[method.file].items : ClassFile[method.file].items[k].tag \in FileTags
    /\ \A n \in 1..(Len(file.items) - 2) :
            /\ file.items[n + 1].tag = "Utf8" => file.items[n + 1].a[2] \notin Malformed
            /\ file.items[n + 1].tag = "String" => StringAllowed(file.items, n)

TargetValid(n) == n \in 0..(Len(file.bytes) - 1)
InstructionValid(ins, at) ==
    LET args == ins.args
        tag == Tag(file.pool, args[1])
    IN  CASE ins.op \in Locals \cup {"IINC"} \cup DOMAIN ImplicitLocal -> LocalValid(ins)
          [] ins.op \in {"LDC", "LDC_W"} -> tag \in {"String", "Class", "Integer", "Float"}
          [] ins.op = "LDC2_W" -> tag \in {"Long", "Double"}
          [] ins.op \in Jumps \cup {"GOTO_W"} -> TargetValid(at + args[1])
          [] ins.op = "TABLESWITCH" -> args[2] <= args[3] /\ \A k \in {1} \cup 4..Len(args) : TargetValid(at + args[k])
          [] ins.op = "LOOKUPSWITCH" ->
                /\ args[2] >= 0
                /\ \A m \in 0..args[2] : TargetValid(at + args[IF m = 0 THEN 1 ELSE 2 * m + 2])
                /\ \A m \in 2..args[2] : args[2 * m - 1] < args[2 * m + 1]
          [] ins.op = "INVOKEINTERFACE" -> args[2] # 0
          [] ins.op = "NEWARRAY" -> args[1] \in 4..11
          [] ins.op = "MULTIANEWARRAY" -> args[2] # 0
          [] OTHER -> ins.op \in Known \ {"JSR"} /\ (ins.wide => ins.op \in Locals)
Valid ==
    /\ PoolValid /\ method.cut = 0
    /\ \A k \in DOMAIN method.code : InstructionValid(method.code[k], file.begin[k])
    /\ \A h \in method.handlers : h.start < h.end /\ h.end <= Len(file.bytes)

(* The instruction as it is to be executed, once linked.                   *)
Meaning(ins) ==
    LET dimensions == IF ins.op = "MULTIANEWARRAY" THEN ins.args[2] ELSE 0
        link == LinkOf(file.pool, ins.op, ins.args[1], dimensions)
        constant == ins.op \in {"LDC", "LDC_W"} /\ Tag(file.pool, ins.args[1]) \in {"Integer", "Float"}
    IN  CASE Prelink(ins.op) \in PrelinkOps /\ ~constant ->
                <<link.op, FALSE, <<link.arg>> \o IF dimensions = 0 THEN <<>> ELSE <<dimensions>>>>
          [] ins.op \in Returns /\ method.sync -> <<ins.op \o "_MONITOREXIT", FALSE, <<>>>>
          [] OTHER -> <<ins.op, ins.wide, ins.args>>

(* Code is accepted if it is valid, and only then.                         *)
Translated ==
    ~(Misaligned \/ ToTheEntry \/ ResolvedConstant \/ WideLocal) =>
        (phase = "code" => Valid) /\ (phase = "rejected" => ~Valid)

(* Whatever thread executes an opcode, whatever another one is linking at  *)
(* the time, it executes an instruction of the class file, with the        *)
(* operands it has there; linking fails only where it must.                *)
RunsAsWritten ==
    /\ phase = "garbled" => Misaligned \/ BothWays
    /\ phase = "failed" =>
            \E k \in DOMAIN method.code : Prelink(method.code[k].op) \in PrelinkOps
                                          /\ Meaning(method.code[k])[1] = "none"
    /\ phase = "code" /\ ~Misaligned => \A t \in Thread, n \in 1..2 :
            n \in DOMAIN frames[t] /\ frames[t][n].at = "opcode" /\ frames[t][n].op \notin PrelinkOps =>
                LET pc == frames[t][n].pc
                    d == Decode(pc, frames[t][n].op)
                IN  \/ \E k \in DOMAIN method.code :
                            /\ file.begin[k] + Shift = pc
                            /\ <<d.op, d.wide, d.args>> = Meaning(method.code[k])
                    \/ pc < Shift
                    \/ d.op = "NOP" /\ \E k \in DOMAIN method.code :
                            /\ method.code[k].op = "INVOKEINTERFACE"
                            /\ pc - Shift - file.begin[k] \in {3, 4}

(* A resolved entry holds what the class file's entry stands for, and the  *)
(* others are as they were; a string constant holds its string.            *)
PoolFaithful ==
    phase # "rejected" =>
        \A n \in 1..(Len(pool) - 2) :
            LET e == pool[n + 1] IN
                CASE e.tag = "Class_resolved" -> e.a = ResolveClass(file.pool, n).v
                  [] e.tag = "Fieldref_resolved" -> e.a[2] = ResolveField(file.pool, n, e.a[1] = "static").v[2]
                  [] e.tag = "Methodref_resolved" -> e.a = ResolveMethod(file.pool, n, FALSE).v
                  [] e.tag = "InterfaceMethodref_resolved" -> e.a = ResolveMethod(file.pool, n, TRUE).v
                  [] e.tag = "String" -> e.a = <<"literal", file.items[file.items[n + 1].a[2] + 1].a[2]>>
                  [] OTHER -> e = file.items[n + 1]

(* The comment in translate_bytecode(): the integers of a switch are at    *)
(* multiples of four, whatever the method.                                 *)
SwitchesAligned == phase # "garbled"

=============================================================================
