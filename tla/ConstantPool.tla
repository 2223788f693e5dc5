----------------------------- MODULE ConstantPool -----------------------------
(***************************************************************************)
(* The constant pool of a class (constantpool.c) and the resolution of its *)
(* entries (resolve_class, resolve_static_field, resolve_instance_field    *)
(* and resolve_method of loader.c).  A pool is a sequence whose element    *)
(* i + 1 is the entry i; entry 0 is the class it belongs to.  An entry has *)
(* a tag and two data, each a tuple whose head says how it was written.    *)
(***************************************************************************)
EXTENDS Integers, Sequences, SequencesExt, FiniteSets

CONSTANTS
    Malformed,  \* the texts utf8_check() refuses
    Classes,    \* the classes there are, by name
    Fields,     \* the fields there are, by class, name and descriptor
    Methods     \* the methods there are, by class, name and descriptor

Error == <<"error">>            \* a C exception was thrown
NoPool == <<>>                  \* cp_create() has thrown one
Confused == <<"confused">>      \* data read as what they are not
Nothing == <<"nothing">>
Index(n) == <<"index", n>>
Text(s) == <<"text", s>>
Entry(tag, a, b) == [tag |-> tag, a |-> a, b |-> b]
Empty == Entry("0", Nothing, Nothing)
Owner == Entry("0", <<"class", "this">>, Nothing)
TwoEntries == {"Long", "Double"}
FileTags == {"Utf8", "Integer", "Float", "Class", "String", "Fieldref", "Methodref",
             "InterfaceMethodref", "NameAndType"} \cup TwoEntries

(* The first loop of cp_create(): one turn for each item of the file until *)
(* there are as many entries as it announces.  An eight-byte constant      *)
(* takes two, even when only one is left.                                  *)
Read(entries, items) ==
    FoldLeft(LAMBDA pool, item :
                IF pool = NoPool \/ Len(pool) >= entries THEN pool
                ELSE IF item.tag \notin FileTags THEN NoPool
                ELSE pool \o (IF item.tag \in TwoEntries THEN <<item, Empty>> ELSE <<item>>),
             <<Owner>>, items)

(* The entries its second loop looks at: it stops before the last one.     *)
Processed(pool) == 0..(Len(pool) - 2)

StringAllowed(pool, i) ==
    LET text == pool[i + 1].a[2] IN
    text \in 1..(Len(pool) - 1) /\ pool[text + 1].tag = "Utf8"

(* cp_create().  A string constant becomes the string object itself.       *)
Create(entries, items) ==
    LET pool == Read(entries, items)
        EntryAllowed(i) ==
            CASE pool[i + 1].tag = "Utf8" -> pool[i + 1].a[2] \notin Malformed
              [] pool[i + 1].tag = "String" -> StringAllowed(pool, i)
              [] OTHER -> TRUE
    IN  IF pool = NoPool THEN NoPool
        ELSE IF \E i \in Processed(pool) : ~EntryAllowed(i) THEN NoPool
        ELSE [k \in DOMAIN pool |->
                IF k - 1 \in Processed(pool) /\ pool[k].tag = "String"
                THEN [pool[k] EXCEPT !.a = <<"literal", pool[pool[k].a[2] + 1].a[2]>>]
                ELSE pool[k]]

-----------------------------------------------------------------------------
(* The accessors throw unless the entry has the tag they are for.          *)
Tag(pool, i) == IF i \in 0..(Len(pool) - 1) THEN pool[i + 1].tag ELSE "none"
SetTagAndData(pool, i, tag, data) == [pool EXCEPT ![i + 1] = Entry(tag, data, Nothing)]
String(pool, i) == IF Tag(pool, i) = "Utf8" THEN pool[i + 1].a ELSE Error
ClassName(pool, i) ==
    CASE Tag(pool, i) = "Class_resolved" -> Text(pool[i + 1].a[2])
      [] Tag(pool, i) = "Class" -> String(pool, pool[i + 1].a[2])
      [] OTHER -> Error
NameAndTypeName(pool, i) ==
    IF Tag(pool, i) = "NameAndType" THEN String(pool, pool[i + 1].a[2]) ELSE Error
NameAndTypeType(pool, i) ==
    IF Tag(pool, i) = "NameAndType" THEN String(pool, pool[i + 1].b[2]) ELSE Error

(* The name and the descriptor of a Fieldref, Methodref or                 *)
(* InterfaceMethodref, and the class entry it names.                       *)
RefName(pool, i, tag) ==
    IF Tag(pool, i) = tag THEN NameAndTypeName(pool, pool[i + 1].b[2]) ELSE Error
RefType(pool, i, tag) ==
    IF Tag(pool, i) = tag THEN NameAndTypeType(pool, pool[i + 1].b[2]) ELSE Error
RefClass(pool, i, tag) ==
    IF Tag(pool, i) = tag THEN pool[i + 1].a ELSE Error

-----------------------------------------------------------------------------
(* Resolution: the pool afterwards, and the class, field or method found.  *)
Result(pool, v) == [pool |-> pool, v |-> v]

\* Mutant: the entry that is resolved is marked, its data are left alone.
MutResolveClass(pool, i) ==
    IF Tag(pool, i) = "Class_resolved" THEN Result(pool, pool[i + 1].a)
    ELSE LET name == ClassName(pool, i) IN
         IF name = Error \/ name[2] \notin DOMAIN Classes THEN Result(pool, Error)
         ELSE Result([pool EXCEPT ![i + 1].tag = "Class_resolved"], <<"class", name[2]>>)

ClassNamed(pool, i, name) ==
    IF name = Error \/ name[2] \notin DOMAIN Classes THEN Result(pool, Error)
    ELSE Result(SetTagAndData(pool, i, "Class_resolved", <<"class", name[2]>>), <<"class", name[2]>>)
ResolveClass(pool, i) ==
    IF Tag(pool, i) = "Class_resolved" THEN Result(pool, pool[i + 1].a)
    ELSE ClassNamed(pool, i, ClassName(pool, i))

(* A class, field or method named by a reference with the given tag.       *)
MemberOf(r, name, type, members) ==
    IF r.v = Error \/ <<r.v[2], name[2], type[2]>> \notin members
    THEN Result(r.pool, Error)
    ELSE Result(r.pool, <<"member", <<r.v[2], name[2], type[2]>>>>)
Member(pool, i, tag, members) ==
    LET name == RefName(pool, i, tag)
        type == RefType(pool, i, tag)
        class == RefClass(pool, i, tag)
    IN  IF Error \in {name, type, class} THEN Result(pool, Error)
        ELSE MemberOf(ResolveClass(pool, class[2]), name, type, members)
\* The entry is marked as resolved and refers to what was found.
Recorded(r, i, tag, kind) ==
    IF r.v = Error THEN r ELSE Result(SetTagAndData(r.pool, i, tag, <<kind, r.v[2]>>), r.v)

(* resolve_static_field() and resolve_instance_field(): a resolved entry   *)
(* does not say which of the two has resolved it, and they store pointers  *)
(* to different things.                                                    *)
ResolveField(pool, i, static) ==
    LET kind == IF static THEN "static" ELSE "instance" IN
    IF Tag(pool, i) = "Fieldref_resolved"
    THEN Result(pool, IF pool[i + 1].a[1] = kind THEN <<"member", pool[i + 1].a[2]>> ELSE Confused)
    ELSE Recorded(Member(pool, i, "Fieldref", {f \in DOMAIN Fields : Fields[f].static = static}),
                  i, "Fieldref_resolved", kind)

(* resolve_method().                                                       *)
ResolveMethod(pool, i, interface) ==
    LET tag == IF interface THEN "InterfaceMethodref" ELSE "Methodref"
        done == IF interface THEN "InterfaceMethodref_resolved" ELSE "Methodref_resolved"
    IN  IF Tag(pool, i) = done THEN Result(pool, pool[i + 1].a)
        ELSE Recorded(Member(pool, i, tag, {m \in DOMAIN Methods : Classes[m[1]].interface = interface}),
                      i, done, "member")

=============================================================================
