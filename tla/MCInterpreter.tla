---------------------------- MODULE MCInterpreter ----------------------------
(* Three exhaustive families of short methods, most of them wrong, and      *)
(* methods as a compiler writes them, which reach every opcode.             *)
EXTENDS Interpreter

MCSuper == [c \in {"Object", "Throwable", "E", "A", "B", "C", "I"} |->
              CASE c = "Object" -> "none"
                [] c \in {"E"} -> "Throwable"
                [] c \in {"B", "C"} -> "A"
                [] OTHER -> "Object"]
MCInterfaces == {"I"}
MCImplements == [c \in DOMAIN MCSuper |-> IF c = "B" THEN {"I"} ELSE {}]
MCConcrete == {Class("Object"), Class("E"), Class("B"), ArrayOf(Class("B"))}

Ins(op) == [op |-> op, n |-> 0, ty |-> Integer, tgt |-> <<>>, keys |-> <<>>, args |-> <<>>, ret |-> <<>>,
            cls |-> Object, prot |-> FALSE, clone |-> FALSE, owner |-> "none"]
Const(t)    == [Ins("const") EXCEPT !.ret = <<t>>]
Load(t, n)  == [Ins("load") EXCEPT !.ty = t, !.n = n]
Store(t, n) == [Ins("store") EXCEPT !.ty = t, !.n = n, !.args = <<t>>]
IfRef(to)   == [Ins("ifref") EXCEPT !.tgt = <<to>>, !.args = <<Object>>]
If(to)      == [Ins("if") EXCEPT !.tgt = <<to>>, !.args = <<Integer>>]
Goto(to)    == [Ins("goto") EXCEPT !.tgt = <<to>>]
NewIns(c)   == [Ins("new") EXCEPT !.cls = Class(c)]
CallInit(c) == [Ins("invokeinit") EXCEPT !.cls = Class(c)]
Call(op, c, args, ret) == [Ins(op) EXCEPT !.cls = c, !.args = args, !.ret = ret]
Put(c, t, owner) == [Ins("putfield") EXCEPT !.cls = Class(c), !.args = <<t>>, !.owner = owner]
Get(c, t)   == [Ins("getfield") EXCEPT !.cls = Class(c), !.ret = <<t>>]
ReturnIns(ts) == [Ins("return") EXCEPT !.args = ts]
Binary(op, t) == [Ins(op) EXCEPT !.args = <<t, t>>, !.ret = <<t>>]
Handler(from, to, at, type) == [start |-> from, end |-> to, handler |-> at, type |-> type]

Method(code, handlers, name, static, args, ret) ==
    [code |-> code, handlers |-> handlers, class |-> "A", name |-> name, static |-> static,
     args |-> args, ret |-> ret, maxStack |-> 4, maxLocals |-> 3]
Plain(code, handlers, args, ret) == Method(code, handlers, "run", TRUE, args, ret)

-----------------------------------------------------------------------------
(* Words: what pop .. swap, loads and stores make of ints and longs.       *)
WordIns == {Const(Integer), Const(Long), Load(Integer, 0), Load(Long, 0), Store(Integer, 1), Store(Long, 0)}
           \union {Ins(op) : op \in DOMAIN Moves}
WordMethods ==
    {Plain(<<Const(p[1]), Const(p[2]), p[3], p[4], ReturnIns(<<>>)>>, <<>>, <<Integer>>, Void) :
       p \in {Integer, Long} \X {Integer, Long} \X WordIns \X WordIns}

(* Objects: where uninitialized ones get to, around loops and in handlers. *)
ObjectIns == {NewIns("B"), Ins("dup"), CallInit("B"), Store(Object, 0), Load(Object, 0),
              IfRef(1), Put("B", Integer, "B")}
Handled == {<<>>, <<Handler(2, 5, 5, "any")>>}
ObjectMethods ==
    {Plain(<<NewIns("B"), p[1], p[2], p[3], p[4], ReturnIns(<<>>)>>, h, <<Class("B")>>, Void) :
       p \in ObjectIns \X ObjectIns \X ObjectIns \X ObjectIns, h \in Handled}
(* Constructors of B: this before and after the call of the other          *)
(* constructor; fields of B, of A, and of A named as one of B.             *)
InitIns == {Load(Object, 0), CallInit("B"), CallInit("A"), CallInit("Object"), Store(Object, 1),
            Const(Integer), Put("B", Integer, "B"), Put("A", Integer, "A"), Put("B", Integer, "A"),
            IfRef(6), Ins("athrow")}
Constructors ==
    {[Method(<<Load(Object, 0), p[1], p[2], p[3], p[4], ReturnIns(<<>>)>>, h, "<init>", FALSE, <<>>, Void)
        EXCEPT !.class = "B"] :
       p \in InitIns \X InitIns \X InitIns \X InitIns, h \in Handled}

-----------------------------------------------------------------------------
A == Class("A")  B == Class("B")  C == Class("C")  I == Class("I")  E == Class("E")
Throwable == Class("Throwable")
Bytes == ArrayOf(<<"byte", 0, 0>>)
ArrayIns(op, t, v) == [Ins(op) EXCEPT !.ty = t, !.ret = IF op = "arrayload" THEN <<v>> ELSE <<>>]
ArrayLengthIns == [Ins("arraylength") EXCEPT !.ret = <<Integer>>]
NewArrayIns(t) == [Ins("newarray") EXCEPT !.args = <<Integer>>, !.ret = <<ArrayOf(t)>>]
Convert(from, to) == [Ins("convert") EXCEPT !.args = <<from>>, !.ret = <<to>>]

(* this(), then a field written, on two paths; a handler around the rest.   *)
Build == Method(<<Load(Object, 0), CallInit("Object"), Load(Object, 0), Load(Integer, 1),
                  Put("A", Integer, "A"), ReturnIns(<<>>)>>,
                <<>>, "<init>", FALSE, <<Integer>>, Void)
(* A field set before super(), as inner classes do.                        *)
Early == Method(<<Load(Object, 0), Load(Object, 1), Put("A", B, "A"), Load(Object, 0),
                  CallInit("Object"), ReturnIns(<<>>)>>,
                <<>>, "<init>", FALSE, <<B>>, Void)
(* while (--i > 0) x = x.next, with a long beside it.                       *)
Loop == Plain(<<Const(Long), Store(Long, 1), Load(Integer, 0), If(9),
                [Ins("iinc") EXCEPT !.n = 0], Load(Long, 1), Store(Long, 1), Goto(3), Load(Long, 1),
                Ins("dup2"), Binary("divide", Long), Ins("dup2"), Binary("bits", Long),
                Convert(Long, Integer), ReturnIns(<<Integer>>)>>,
              <<>>, <<Integer>>, Integer)
(* c ? new B() : new C(), an A; a call on it.                               *)
Choose == Plain(<<Load(Integer, 0), If(7), NewIns("B"), Ins("dup"), CallInit("B"), Goto(10),
                  NewIns("C"), Ins("dup"), CallInit("C"),
                  Call("invokevirtual", A, <<>>, <<>>), ReturnIns(<<>>)>>,
                <<>>, <<Integer>>, Void)
(* An interface: any object, and the interpreter looks.                    *)
Interface == Plain(<<Load(Object, 0), Const(Integer), Call("invokeinterface", I, <<Integer>>, <<Long>>),
                     Ins("pop2"), ReturnIns(<<>>)>>,
                   <<>>, <<A>>, Void)
TryCatch == Plain(<<Load(Object, 0), Const(Integer), Call("invokevirtual", A, <<Integer>>, <<A>>),
                    Store(Object, 0), Load(Object, 0), ReturnIns(<<Object>>),
                    Store(Object, 1), Ins("nop"), Load(Object, 1), Ins("athrow"),
                    Ins("athrow")>>,
                  <<Handler(1, 7, 7, "E"), Handler(1, 7, 11, "any")>>, <<A>>, A)
Arrays == Plain(<<Const(Integer), NewArrayIns(B), Store(Object, 0), Load(Object, 0), Const(Integer),
                  Load(Object, 0), Const(Integer), ArrayIns("arrayload", B, B),
                  ArrayIns("arraystore", Object, 0), Load(Object, 0), ArrayLengthIns,
                  ReturnIns(<<Integer>>)>>,
                <<>>, <<ArrayOf(A)>>, Integer)
Primitive == Plain(<<Load(Object, 0), Const(Integer), Ins("dup2"),
                     ArrayIns("arrayload", <<"byte", 0, 0>>, Integer), Const(Integer), Binary("arith", Integer),
                     ArrayIns("arraystore", <<"byte", 0, 0>>, 0), Const(Integer), Const(Integer),
                     [Ins("multianewarray") EXCEPT !.n = 2, !.args = <<>>,
                        !.ret = <<ArrayOf(ArrayOf(Integer))>>],
                     Const(Integer), ArrayIns("arrayload", Object, Object), ReturnIns(<<Object>>)>>,
                   <<>>, <<Bytes>>, ArrayOf(Integer))
Casts == Plain(<<Load(Object, 0),
                 [Ins("instanceof") EXCEPT !.args = <<Object>>, !.ret = <<Integer>>, !.cls = B],
                 If(8), Load(Object, 0),
                 [Ins("checkcast") EXCEPT !.args = <<Object>>, !.ret = <<B>>, !.cls = B],
                 Get("B", Integer), Ins("pop"), ReturnIns(<<>>)>>,
               <<>>, <<A>>, Void)
Statics == Method(<<[Ins("getstatic") EXCEPT !.ret = <<B>>], Ins("dup"),
                    [Ins("putstatic") EXCEPT !.args = <<A>>], Ins("dup"),
                    [Ins("monitor") EXCEPT !.args = <<Object>>], Store(Object, 1),
                    Load(Object, 0), Call("invokespecial", Object, <<>>, <<>>),
                    [Ins("ldc") EXCEPT !.ret = <<Object>>], Ins("pop"),
                    Call("invokestatic", A, <<>>, <<Integer>>),
                    [Ins("switch") EXCEPT !.args = <<Integer>>, !.keys = <<1, 5>>, !.tgt = <<13, 1, 13>>], Ins("nop"),
                    Const(Long), Const(Long), [Ins("compare") EXCEPT !.args = <<Long, Long>>,
                       !.ret = <<Integer>>], Ins("pop"), ReturnIns(<<>>)>>,
                  <<>>, "run", FALSE, <<>>, Void)
MCValid == {Build, Early, Loop, Choose, Interface, TryCatch, Arrays, Primitive, Casts, Statics}
(* invokespecial of a class that is no superclass. *)
Nonvirtual == Method(<<Load(Object, 1), Call("invokespecial", B, <<>>, <<>>), ReturnIns(<<>>)>>,
                     <<>>, "run", FALSE, <<B>>, Void)
MCMethods == {Nonvirtual} \union WordMethods \union ObjectMethods \union Constructors \union MCValid
=============================================================================
