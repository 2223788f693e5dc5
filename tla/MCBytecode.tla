------------------------------ MODULE MCBytecode ------------------------------
(***************************************************************************)
(* Methods for Bytecode: every group of opcodes, at every alignment, with  *)
(* operands in range and out of it, plain and synchronized, called by two  *)
(* threads and by a static initializer that linking runs.                  *)
(***************************************************************************)
EXTENDS Bytecode

CONSTANTS T1, T2

MCThread == {T1, T2}
Bad == "bad"
MCMalformed == {Bad}
Class0 == [interface |-> FALSE, abstract |-> FALSE, finalizer |-> FALSE, dimensions |-> 0]
MCClasses == "C" :> Class0 @@ "F" :> [Class0 EXCEPT !.finalizer = TRUE]
             @@ "I" :> [Class0 EXCEPT !.interface = TRUE, !.abstract = TRUE]
             @@ "[[C" :> [Class0 EXCEPT !.dimensions = 2]
MCFields == <<"C", "s", "I">> :> [static |-> TRUE, offset |-> 4]
            @@ <<"C", "f", "L">> :> [static |-> FALSE, offset |-> 8]
Method0 == [static |-> FALSE, initializer |-> FALSE, packed |-> 33, super |-> FALSE]
MCMethods == <<"C", "m", "()V">> :> Method0
             @@ <<"C", "sm", "()V">> :> [Method0 EXCEPT !.static = TRUE]
             @@ <<"C", "<init>", "()V">> :> [Method0 EXCEPT !.initializer = TRUE]
             @@ <<"F", "m", "()V">> :> [Method0 EXCEPT !.super = TRUE]
             @@ <<"I", "m", "()V">> :> [Method0 EXCEPT !.packed = 49]
MCArrayId == "C" :> 17 @@ "F" :> 18 @@ "[[C" :> 19

Utf8(s) == Entry("Utf8", Text(s), Nothing)
To(tag, a) == Entry(tag, Index(a), Nothing)
Ref(tag, class, name) == Entry(tag, Index(class), Index(name))
Items == <<
    To("Class", 2), Utf8("C"), Ref("Fieldref", 1, 4), Ref("NameAndType", 5, 6), Utf8("s"), Utf8("I"),
    Ref("Fieldref", 1, 8), Ref("NameAndType", 9, 10), Utf8("f"), Utf8("L"),
    Ref("Methodref", 1, 12), Ref("NameAndType", 13, 14), Utf8("m"), Utf8("()V"),
    Ref("Methodref", 1, 16), Ref("NameAndType", 17, 14), Utf8("sm"),
    Ref("Methodref", 1, 19), Ref("NameAndType", 20, 14), Utf8("<init>"),
    To("Class", 22), Utf8("F"), Ref("Methodref", 21, 12),
    To("Class", 6), Ref("InterfaceMethodref", 24, 12),
    To("String", 13), Entry("Integer", <<"value", 7>>, Nothing), Entry("Long", <<"value", 9>>, Nothing),
    To("Class", 31), Utf8("[[C"), To("Class", 5), Utf8("end")>>
\* After the Long: the entries 28 and 29 are its, item k is entry k + 1 from there on.
C == 1
S == 3
F == 7
M == 11
SM == 15
INIT == 18
CF == 21
SUPERM == 23
CI == 24
IM == 25
STR == 26
INT == 27
LONG == 28
CC == 30
MISSING == 32

Ins(op, args) == [op |-> op, args |-> args, wide |-> FALSE]
IsWide(ins) == [ins EXCEPT !.wide = TRUE]
NoArgs(ops) == {Ins(op, <<>>) : op \in ops}
OneArg(ops, args) == {Ins(op, <<n>>) : op \in ops, n \in args}

Method(body) == [code |-> body, sync |-> FALSE, static |-> FALSE, locals |-> 2, handlers |-> {}, cut |-> 0,
                 file |-> "main", earlier |-> <<>>]
Tail1 == <<Ins("RETURN", <<>>)>>

(* A loop around one instruction: X; IFEQ to the beginning; RETURN.        *)
Loop(ins) ==
    LET n == Len(Instruction(ins, 0)) IN
    <<ins, Ins("IFEQ", <<-n>>)>> \o Tail1
Plain == NoArgs(Constants \cup Arithmetic \cup Conversions \cup Others \cup DOMAIN ImplicitLocal)
         \cup OneArg({"BIPUSH", "SIPUSH"}, {5})
         \cup OneArg(Locals, {0, 1, 2}) \cup {Ins("IINC", <<n, 3>>) : n \in {1, 2}}
         \cup {IsWide(ins) : ins \in OneArg(Locals, {1, 2}) \cup {Ins("IINC", <<1, 300>>), Ins("BIPUSH", <<1>>)}}
         \cup OneArg({"LDC", "LDC_W", "LDC2_W"}, {STR, INT, LONG, C, S, 40})
         \cup OneArg({"NEWARRAY"}, {3, 4, 11, 12}) \cup OneArg({"JSR"}, {0}) \cup NoArgs({"BREAKPOINT"})
Linking == OneArg({"GETSTATIC", "GETFIELD"}, {S, F, C}) \cup OneArg({"PUTSTATIC"}, {S}) \cup OneArg({"PUTFIELD"}, {F})
           \cup OneArg({"INVOKEVIRTUAL"}, {M, SM, INIT}) \cup OneArg({"INVOKESPECIAL"}, {M, SM, INIT, SUPERM})
           \cup OneArg({"INVOKESTATIC"}, {SM, M}) \cup OneArg(ClassOps, {C, CF, CI, CC, MISSING})
           \cup {Ins("INVOKEINTERFACE", <<n, c, 0>>) : n \in {IM, M}, c \in {0, 1}}
           \cup {Ins("MULTIANEWARRAY", <<CC, n>>) : n \in {0, 1, 2, 3}}

(* Jumps and switches, at the end of 0 to 3 bytes of other code.           *)
Padded(n, ins) == [k \in 1..n |-> Ins("NOP", <<>>)] \o <<ins>> \o Tail1
\* A jump goes to an instruction or out of the code: the preverifier has seen to that.
ToInstruction(b, n) ==
    LET target == n + b[n + 1].args[1]
        m == Method(b)
    IN  target \notin 0..(Len(FileCode(m)) - 1) \/ \E k \in DOMAIN b : Begin(m, k) = target
JumpsTo == UNION {{b \in {Padded(n, ins) : ins \in OneArg(Jumps \cup {"GOTO_W"}, {-3, -2, 0, 3, 4, 5, 6})} :
                    ToInstruction(b, n)} : n \in {0, 2}}
SwitchArgs == {Ins("TABLESWITCH", <<0, 1, 2, 0, 0>>), Ins("TABLESWITCH", <<0, 1, 2, 0, 99>>),
               Ins("TABLESWITCH", <<99, 1, 1, 0>>), Ins("TABLESWITCH", <<0, 2, 1>>),
               Ins("LOOKUPSWITCH", <<0, 2, 4, 0, 7, 0>>), Ins("LOOKUPSWITCH", <<0, 2, 4, 0, 4, 0>>),
               Ins("LOOKUPSWITCH", <<0, 1, 4, 99>>), Ins("LOOKUPSWITCH", <<99, 0>>), Ins("LOOKUPSWITCH", <<0, -1>>)}
SwitchBodies == {Padded(n, ins) : n \in 0..3, ins \in SwitchArgs}
ReturnBodies == {<<Ins(op, <<>>)>> : op \in Returns}

Pairs == {<<Ins("GETSTATIC", <<S>>), Ins("PUTSTATIC", <<S>>)>> \o Tail1,
          <<Ins("INVOKESTATIC", <<SM>>), Ins("NEW", <<C>>), Ins("LDC", <<C>>)>> \o Tail1,
          <<Ins("GETFIELD", <<F>>), Ins("GETSTATIC", <<F>>)>> \o Tail1,
          <<Ins("LDC", <<STR>>), Ins("GOTO", <<-2>>)>>}
Handler(s, e, p) == [start |-> s, end |-> e, pc |-> p]
Guarded == {[Method(<<Ins("NEW", <<C>>), Ins("ATHROW", <<>>)>> \o Tail1) EXCEPT !.handlers = {h}] :
                h \in {Handler(0, 3, 4), Handler(0, 5, 0), Handler(3, 4, 4), Handler(3, 3, 4), Handler(0, 6, 4), Handler(5, 6, 4)}}

Bodies == {Loop(ins) : ins \in Plain \cup Linking} \cup JumpsTo \cup ReturnBodies \cup Pairs
Sound == {Method(b) : b \in Bodies} \cup Guarded
Earlier1 == {[Method(Loop(ins)) EXCEPT !.earlier = <<C, CC>>] : ins \in OneArg({"LDC", "ANEWARRAY", "NEW"}, {C, CC})}
Cut == {[Method(<<Ins("BIPUSH", <<1>>)>>) EXCEPT !.cut = 1]}
SmallPools == <<
    <<Utf8("a"), Utf8(Bad), Utf8("b")>>, <<Utf8("a"), To("String", 1), Utf8("b")>>,
    <<To("String", 0), Utf8("b")>>, <<To("String", 9), Utf8("b")>>,
    <<To("String", 2), To("Class", 3), Utf8("b")>>, <<Utf8("a"), To("Module", 1)>>,
    <<To("String", 2), Utf8("a"), Utf8("b")>>, <<Utf8("a"), To("String", 1), To("String", 1)>>>>
Small == [k \in DOMAIN SmallPools |-> [entries |-> Len(SmallPools[k]) + 1, items |-> SmallPools[k]]]
MCClassFile == "main" :> [entries |-> 34, items |-> Items]
               @@ [name \in {ToString(k) : k \in DOMAIN Small} |-> CHOOSE f \in ToSet(Small) : \E k \in DOMAIN Small : ToString(k) = name /\ Small[k] = f]
Pools == {[Method(Tail1) EXCEPT !.file = ToString(k)] : k \in DOMAIN Small}
MCProgram == Sound \cup {[m EXCEPT !.sync = TRUE, !.static = st] : m \in Sound, st \in {FALSE}}
             \cup {Method(b) : b \in SwitchBodies} \cup Earlier1 \cup Cut \cup Pools
             \cup {[Method(Tail1) EXCEPT !.sync = TRUE, !.static = TRUE]}
SyncSwitch == {[Method(b) EXCEPT !.sync = TRUE] : b \in SwitchBodies}

=============================================================================
