------------------------------ MODULE MCLoading ------------------------------
(***************************************************************************)
(* Class paths for the class loader: hierarchies with mistakes in them,    *)
(* asked for twice; methods that hide, override and implement each other;  *)
(* fields of every size on three levels.                                   *)
(***************************************************************************)
EXTENDS Loading

CONSTANTS A, B, C, I, J, Chars, Bs, Bss

MCClass == {Object, NotFound, JavaClass, Reference, A, B, C, I, J}
MCArray == {Chars, Bs, Bss}
MCElem == [a \in MCArray |-> IF a = Chars THEN "primitive" ELSE IF a = Bs THEN B ELSE Bs]
MCPreloaded == {JavaClass, Chars}
MCBootstrap == <<Object, Chars>>

ClassFile(super) == [fault |-> "none", flags |-> {"public", "super"}, super |-> super,
                     interfaces |-> <<>>, package |-> "p", fields |-> <<>>, methods |-> <<>>]
Interface(methods) == [ClassFile(Object) EXCEPT !.flags = {"public", "interface", "abstract"},
                                                !.methods = methods]
Missing == [ClassFile(Object) EXCEPT !.fault = "header"]
Virtual0(sig) == [sig |-> sig, flags |-> {"public"}]
Abstract(sig) == [sig |-> sig, flags |-> {"public", "abstract"}]
Base0 == [c \in MCClass |->
            CASE c = Object -> [ClassFile(None) EXCEPT !.methods = <<Virtual0("h")>>]
              [] c \in {NotFound, JavaClass} -> ClassFile(Object)
              [] OTHER -> Missing]
With(changes) == [c \in MCClass |-> IF c \in DOMAIN changes THEN changes[c] ELSE Base0[c]]

(* Hierarchies: A above B or below it, one or two interfaces, an array as  *)
(* a superclass, packages, files with faults.                              *)
Shapes ==
    {[f \in {A} |-> [ClassFile(s) EXCEPT !.interfaces = i]] :
        s \in {Object, B, I, Bs, Chars}, i \in {<<>>, <<I>>, <<B>>, <<Bs>>}}
Seconds ==
    {[f \in {B} |-> [ClassFile(Object) EXCEPT !.flags = fl, !.package = p]] :
        fl \in {{"public", "super"}, {"super"}, {"public", "final"}}, p \in {"p", "q"}}
        \cup {[f \in {B} |-> ClassFile(s)] : s \in {A, I}}
        \cup {[f \in {B} |-> Interface(<<>>)], [f \in {B} |-> Missing],
              [f \in {B} |-> [ClassFile(Object) EXCEPT !.flags = {"public", "final", "abstract"}]],
              [f \in {B} |-> [ClassFile(Object) EXCEPT !.fault = "attributes"]]}
Thirds ==
    {[f \in {I} |-> Interface(<<>>)],
     [f \in {I} |-> [Interface(<<>>) EXCEPT !.interfaces = <<I>>]],
     [f \in {I} |-> [Interface(<<>>) EXCEPT !.interfaces = <<J>>]],
     [f \in {I} |-> [Interface(<<>>) EXCEPT !.super = A]]}
Hierarchies ==
    {With([f \in {A, B, I} |-> CASE f = A -> a[A] [] f = B -> b[B] [] OTHER -> i[I]]) :
        a \in Shapes, b \in Seconds, i \in Thirds}

(* Methods: C below B below A, I implemented by A or C, J extends I.       *)
OneMethod(flagSets) == {<<>>} \cup {<<[sig |-> "m", flags |-> fl]>> : fl \in flagSets}
MethodsA == OneMethod({{"public"}, {"public", "final"}, {"protected"}, {"private"}, {}, {"public", "static"}})
MethodsB == OneMethod({{"public"}, {"protected"}, {"private"}})
MethodsC == {<<>>, <<Virtual0("n")>>, <<Virtual0("m"), Virtual0("h")>>, <<Virtual0("h"), Virtual0("m"), Virtual0("m")>>,
             <<[sig |-> "<init>", flags |-> {"public", "static"}]>>}
Calls ==
    {With([c \in {A, B, C, I, J} |->
        CASE c = A -> [ClassFile(Object) EXCEPT !.methods = a, !.interfaces = IF early THEN <<I>> ELSE <<>>]
          [] c = B -> [ClassFile(A) EXCEPT !.methods = b]
          [] c = C -> [ClassFile(B) EXCEPT !.methods = m, !.interfaces = IF early THEN <<J>> ELSE <<J, I>>]
          [] c = I -> Interface(<<Abstract("m"), Abstract("h")>>)
          [] c = J -> [Interface(<<Abstract("n")>>) EXCEPT !.interfaces = <<I>>]]) :
        a \in MethodsA, b \in MethodsB, m \in MethodsC, early \in BOOLEAN}

(* Fields: every size on three levels; static ones in classes and in       *)
(* interfaces; java.lang.ref.Reference.                                    *)
Field(name, type, flags) == [name |-> name, type |-> type, flags |-> flags, constant |-> FALSE]
Own(types) == [k \in DOMAIN types |-> Field("f", types[k], {"public"})]
FieldsA == {<<>>, <<"byte", "ref">>, <<"bit", "bit", "ref">>, <<"short">>, <<"int", "byte">>}
FieldsB == {<<>>, <<"long", "bit">>, <<"int", "short", "ref">>, <<"byte">>, <<"short", "long">>}
FieldsC == {<<>>, <<"long">>, <<"int", "ref">>, <<"short", "bit", "byte", "int">>, <<"ref", "ref", "ref">>}
Layouts ==
    {With([c \in {A, B, C} |->
        CASE c = A -> [ClassFile(Object) EXCEPT !.fields = Own(a)]
          [] c = B -> [ClassFile(A) EXCEPT !.fields = Own(b)]
          [] c = C -> [ClassFile(B) EXCEPT !.fields = Own(f)]]) :
        a \in FieldsA, b \in FieldsB, f \in FieldsC}
References ==
    {With([c \in {Reference, C} |->
        IF c = Reference THEN [ClassFile(Object) EXCEPT !.fields = Own(<<"ref">>)]
        ELSE [ClassFile(Reference) EXCEPT !.fields = Own(f)]]) : f \in FieldsC}
Constant0(x) == Field(x, "int", {"public", "static", "final"})
Constants ==
    {With([c \in {A, B, C, I} |->
        CASE c = A -> [ClassFile(Object) EXCEPT !.fields = a]
          [] c = B -> [ClassFile(A) EXCEPT !.interfaces = <<I>>]
          [] c = C -> [ClassFile(B) EXCEPT !.fields = f]
          [] c = I -> [Interface(<<>>) EXCEPT !.fields = i]]) :
        a \in {<<>>, <<Field("x", "int", {"public"})>>, <<Constant0("x")>>},
        f \in {<<>>, <<Field("y", "int", {"public"})>>, <<Constant0("y"), Field("y", "int", {})>>},
        i \in {<<>>, <<Constant0("x")>>, <<Constant0("x"), Constant0("y")>>, <<Field("x", "int", {"public"})>>}}

(* Static fields of one name in classes and in the interfaces above them:  *)
(* A implements I, B extends A and implements J, C extends B.              *)
Inheritances ==
    {With([c \in {A, B, C, I, J} |->
        CASE c = A -> [ClassFile(Object) EXCEPT !.interfaces = <<I>>, !.fields = a]
          [] c = B -> [ClassFile(A) EXCEPT !.interfaces = <<J>>, !.fields = b]
          [] c = C -> [ClassFile(B) EXCEPT !.interfaces = own]
          [] c = I -> [Interface(<<>>) EXCEPT !.fields = i]
          [] c = J -> [Interface(<<>>) EXCEPT !.fields = j, !.interfaces = above]]) :
        i, j, a, b \in {<<>>, <<Constant0("x")>>}, above \in {<<>>, <<I>>},
        own \in {<<>>, <<J>>, <<J, I>>, <<I>>}}

ClassPaths == Hierarchies \cup Calls \cup Layouts \cup References \cup Constants \cup Inheritances
MCWorld == ClassPaths
MCRequests(f) ==
    IF f[C].fault = "none" THEN {<<C, None>>}
    ELSE {<<A, None>>, <<Bss, None>>, <<B, None>>, <<B, JavaClass>>, <<Bs, A>>, <<B, A>>, <<B, B>>}
=============================================================================
