----------------------------- MODULE ClassTables -----------------------------
(***************************************************************************)
(* What derive_class() builds from a class file once the superclass and    *)
(* the interfaces are there: the layout of the instances, the dispatch     *)
(* table and the interface table; and what the linker and the interpreter  *)
(* look up in them.                                                        *)
(***************************************************************************)
EXTENDS Integers, Sequences, SequencesExt, FiniteSetsExt

CONSTANTS
    None,       \* NULL
    Reference,  \* java.lang.ref.Reference
    Word,       \* SIZEOF_VOID_P, and the size of a header
    MaxNref,    \* bound of the code: size of the non-reference area
    MaxBits,    \* bound of the code: bits up to the end of the booleans
    MaxRefs     \* bound of the code: references of an instance

VARIABLES
    file,       \* the class file of every class: what is wrong with it, its
                \* flags, super, interfaces, package, fields and methods
    cls         \* class_t: parent, flags, interfaces, dtable, inames and
                \* itable, method indexes, field offsets, sizes

(* The builds in which a jword_t is as wide as a pointer.                  *)
ASSUME WordAssumption == Word \in {4, 8}

(* A method is named by its class and its place there.                     *)
Method(m) == file[m[1]].methods[m[2]]
MethodsOf(c) == {<<c, k>> : k \in DOMAIN file[c].methods}
IsInit(m) == Method(m).sig = "<init>"
IsVirtual(m) == Method(m).flags \intersect {"static", "private"} = {} /\ ~IsInit(m)
SameSignature(m, n) == Method(m).sig = Method(n).sig
MmGet(c, sig) ==
    LET found == {m \in MethodsOf(c) : Method(m).sig = sig}
    IN  IF found = {} THEN None ELSE CHOOSE m \in found : TRUE

(* A class, its superclass and so on. *)
Chain(c) ==
    LET up[d \in DOMAIN cls] == <<d>> \o IF cls[d].parent = None THEN <<>> ELSE up[cls[d].parent]
    IN  up[c]
IsParent(p, c) == p \in ToSet(Tail(Chain(c)))

(* verify_field() and method_check_access_flags().                         *)
Visibility == {"public", "protected", "private"}
FieldAllowed(c, k) ==
    LET f == file[c].fields[k] IN
    /\ \A j \in 1 .. k - 1 : <<file[c].fields[j].name, file[c].fields[j].type>> # <<f.name, f.type>>
    /\ Cardinality(f.flags \intersect Visibility) =< 1
    /\ ~({"final", "volatile"} \subseteq f.flags)
    /\ f.constant => "static" \in f.flags
    /\ "interface" \in file[c].flags => {"public", "static", "final"} \subseteq f.flags
MethodAllowed(c, k) ==
    LET m == file[c].methods[k] IN
    /\ \A j \in 1 .. k - 1 : file[c].methods[j].sig # m.sig
    /\ Cardinality(m.flags \intersect Visibility) =< 1
    /\ "abstract" \in m.flags => m.flags \intersect {"final", "private", "static", "native"} = {}
    /\ m.sig = "<init>" => m.flags \intersect {"static", "final", "native", "abstract"} = {}
    /\ "interface" \in file[c].flags =>
            \/ m.sig = "<clinit>" /\ "static" \in m.flags
            \/ {"public", "abstract"} \subseteq m.flags
MembersAllowed(c) == (\A k \in DOMAIN file[c].fields : FieldAllowed(c, k))
                     /\ (\A k \in DOMAIN file[c].methods : MethodAllowed(c, k))

-----------------------------------------------------------------------------
(* The dispatch table.                                                     *)
Level(m) == CASE "public" \in Method(m).flags -> 3
              [] "protected" \in Method(m).flags -> 2
              [] OTHER -> 1
MayOverride(m, overridden) ==
    "final" \notin Method(overridden).flags
        /\ (Level(overridden) > 1 => Level(m) >= Level(overridden))

Occupies(m) == IsVirtual(m)

OldTable(c) == IF file[c].super = None THEN <<>> ELSE cls[file[c].super].dtable
Overridden(c, m) == {i \in DOMAIN OldTable(c) : SameSignature(m, OldTable(c)[i])}

(* The indexes of the methods of c, from zero; new ones follow the old.    *)
NewMethods(c, k) == {j \in 1 .. k : Occupies(<<c, j>>) /\ Overridden(c, <<c, j>>) = {}}
Index(c) ==
    [k \in DOMAIN file[c].methods |->
        IF ~Occupies(<<c, k>>) THEN 0
        ELSE IF Overridden(c, <<c, k>>) # {} THEN Min(Overridden(c, <<c, k>>)) - 1
        ELSE Len(OldTable(c)) + Cardinality(NewMethods(c, k)) - 1]
DispatchTable(c) ==
    LET count == Len(OldTable(c)) + Cardinality(NewMethods(c, Len(file[c].methods)))
        own(i) == {k \in DOMAIN file[c].methods : Occupies(<<c, k>>) /\ Index(c)[k] = i - 1}
    IN  [i \in 1 .. count |-> IF own(i) # {} THEN <<c, Max(own(i))>> ELSE OldTable(c)[i]]
OverridesAllowed(c) ==
    \A m \in MethodsOf(c) : \A i \in Overridden(c, m) :
        Occupies(m) => MayOverride(m, OldTable(c)[i])

-----------------------------------------------------------------------------
(* sort_asc_uint16_ptrs(): the least and the greatest of what is left go   *)
(* to its ends.                                                            *)
Swap(s, i, j) == [s EXCEPT ![i] = s[j], ![j] = s[i]]
(* Mutant: the greatest is looked for where it was. *)
MutSortStep(s, i) ==
    LET k == Len(s) + 1 - i
        least == CHOOSE j \in i .. k : \A l \in i .. k : s[j][1] =< s[l][1]
        most == CHOOSE j \in i .. k : \A l \in i .. k : s[j][1] >= s[l][1]
    IN  Swap(Swap(s, least, i), most, k)
SortStep(s, i) ==
    LET k == Len(s) + 1 - i
        least == CHOOSE j \in i .. k : \A l \in i .. k : s[j][1] =< s[l][1]
        most == CHOOSE j \in i .. k : \A l \in i .. k : s[j][1] >= s[l][1]
    IN  Swap(Swap(s, least, i), IF most = i THEN least ELSE most, k)
Sorted(s) == FoldLeft(SortStep, s, [i \in 1 .. Len(s) \div 2 |-> i])

(* The interface table: every method of every interface with its number,   *)
(* and the method that implements it if there is one.                      *)
Implementation(m, dtable) ==
    LET by == {i \in DOMAIN dtable : SameSignature(m, dtable[i])}
    IN  IF by = {} THEN m ELSE dtable[Max(by)]
InterfaceTable(interfaces, dtable) ==
    LET of(i) == [k \in DOMAIN file[i].methods |->
                    <<cls[i].index[k], Implementation(<<i, k>>, dtable)>>]
    IN  Sorted(FlattenSeq([j \in DOMAIN interfaces |-> of(interfaces[j])]))

(* im_add() of the parent's interfaces, then of its own and what they extend. *)
Add(seq, i) == IF i \in ToSet(seq) THEN seq ELSE Append(seq, i)
Collect(seq, new) ==
    LET upTo[k \in 0 .. Len(new)] == IF k = 0 THEN seq ELSE Add(upTo[k - 1], new[k])
    IN  upTo[Len(new)]
CollectAll(seq, lists) ==
    LET upTo[k \in 0 .. Len(lists)] == IF k = 0 THEN seq ELSE Collect(upTo[k - 1], lists[k])
    IN  upTo[Len(lists)]
Inherited(c) == IF file[c].super = None THEN <<>> ELSE cls[file[c].super].interfaces
Interfaces(c) ==
    CollectAll(Collect(<<>>, Inherited(c)),
               [k \in DOMAIN file[c].interfaces |->
                    <<file[c].interfaces[k]>> \o cls[file[c].interfaces[k]].interfaces])

-----------------------------------------------------------------------------
(* The layout: references below the header, the others above it, the       *)
(* largest first, the booleans as bits.                                    *)
FieldType == {"long", "int", "short", "byte", "bit", "ref"}
FieldFile == [name : STRING, type : FieldType, flags : SUBSET STRING, constant : BOOLEAN]
Size(type) == CASE type = "long" -> 8 [] type = "int" -> 4 [] type = "short" -> 2
                [] type = "byte" -> 1 [] type = "ref" -> Word
Ceil(x, y) == ((x + y - 1) \div y) * y
InstanceFields(c, type, upTo) ==
    {k \in 1 .. upTo : file[c].fields[k].type = type /\ "static" \notin file[c].fields[k].flags}
Count(c, type) == Cardinality(InstanceFields(c, type, Len(file[c].fields)))
ParentRefs(c) == IF file[c].super = None THEN 0 ELSE cls[file[c].super].refN
ParentArea(c) ==
    LET size == IF file[c].super = None THEN 0 ELSE cls[file[c].super].nrefSize
    IN  IF Count(c, "long") > 0 THEN Ceil(size, Word)
        ELSE IF Count(c, "int") > 0 THEN Ceil(size, 4)
        ELSE IF Count(c, "short") > 0 THEN Ceil(size, 2)
        ELSE size
Start(c, type) ==
    ParentArea(c) + Word
        + (IF type = "long" THEN 0 ELSE 8 * Count(c, "long"))
        + (IF type \in {"long", "int"} THEN 0 ELSE 4 * Count(c, "int"))
        + (IF type \in {"long", "int", "short"} THEN 0 ELSE 2 * Count(c, "short"))
        + (IF type = "bit" THEN Count(c, "byte") ELSE 0)
FieldOffset(c, k) ==
    LET type == file[c].fields[k].type
        before == Cardinality(InstanceFields(c, type, k - 1))
    IN  IF "static" \in file[c].fields[k].flags THEN 0
        ELSE IF c = Reference /\ k = 1 THEN Word
        ELSE IF type = "ref" THEN -((ParentRefs(c) + before + 1) * Word)
        ELSE IF type = "bit" THEN 8 * Start(c, type) + before
        ELSE Start(c, type) + before * Size(type)
Offsets(c) == [k \in DOMAIN file[c].fields |-> FieldOffset(c, k)]
RefN(c) == IF c = Reference THEN 0 ELSE ParentRefs(c) + Count(c, "ref")
NrefSize(c) ==
    IF c = Reference THEN Word
    ELSE Start(c, "bit") - Word + ((Count(c, "bit") + 7) \div 8)
(* The last one counts from the header on, booleans or not.                *)
WithinLimits(c) == /\ Start(c, "bit") - Word + ((Count(c, "bit") + 7) \div 8) =< MaxNref
                   /\ ParentRefs(c) + Count(c, "ref") =< MaxRefs
                   /\ 8 * Start(c, "bit") + Count(c, "bit") =< MaxBits

-----------------------------------------------------------------------------
(* resolve_method(): the class and those above it, then the interfaces.    *)
Error == <<>>
Package(c) == file[c].package
MethodFound(c, sig) ==
    LET up == SelectSeq(Chain(c), LAMBDA d : MmGet(d, sig) # None)
        across == SelectSeq(cls[c].interfaces, LAMBDA d : MmGet(d, sig) # None)
    IN  IF up # <<>> THEN MmGet(up[1], sig)
        ELSE IF across # <<>> THEN MmGet(across[1], sig)
        ELSE None
MayAccess(src, c, flags) ==
    CASE "private" \in flags -> src = c
      [] "protected" \in flags -> src = c \/ IsParent(c, src) \/ Package(src) = Package(c)
      [] "public" \in flags -> TRUE
      [] OTHER -> Package(src) = Package(c)
ResolveMethod(src, c, sig, interface) ==
    LET m == MethodFound(c, sig)
    IN  IF \/ interface # ("interface" \in cls[c].flags)
           \/ m = None
        THEN Error
        ELSE IF \/ IsInit(m) /\ m[1] # c
                \/ "abstract" \in Method(m).flags /\ "abstract" \notin cls[m[1]].flags
                \/ ~MayAccess(src, m[1], Method(m).flags)
        THEN Error
        ELSE m

(* bcl_link_opcode() for the invocations: the opcode and its method.       *)
LinkInvoke(opcode, src, c, sig) ==
    LET m == ResolveMethod(src, c, sig, opcode = "interface")
    IN  IF m = Error THEN Error
        ELSE IF \/ ("static" \in Method(m).flags) # (opcode = "static")
                \/ sig \in {"<init>", "<clinit>"} /\ opcode \in {"virtual", "interface"}
        THEN Error
        ELSE IF opcode = "special" /\ m[1] # src /\ IsParent(m[1], src)
                /\ "super" \in cls[src].flags /\ ~IsInit(m)
        THEN <<"super", m>>
        ELSE <<opcode, m>>

(* What the interpreter runs.  INVOKEINTERFACE searches the sorted table of *)
(* the receiver's class; INVOKESUPER looks in the parent of fp->cl.         *)
IndexOf(m) == cls[m[1]].index[m[2]]
Search(itable, index) ==
    LET within[low \in Nat, high \in Int] ==
            LET mid == (low + high) \div 2
            IN  IF high < low \/ mid >= Len(itable) THEN None
                ELSE IF itable[mid + 1][1] = index THEN itable[mid + 1][2]
                ELSE IF index > itable[mid + 1][1] THEN within[mid + 1, high]
                ELSE within[low, mid - 1]
    IN  within[0, Len(itable)]
Runs(opcode, m, receiver, running) ==
    CASE opcode = "virtual" -> cls[receiver].dtable[IndexOf(m) + 1]
      [] opcode = "interface" ->
            Search(cls[receiver].itable, IndexOf(m))
      [] opcode = "super" -> cls[cls[running].parent].dtable[IndexOf(m) + 1]
      [] OTHER -> m

-----------------------------------------------------------------------------
(* lookup_field(): the interfaces of a class hold those of its parent too. *)
(* The linker initializes the class the site names, not the one it finds.  *)
FieldOf(c, name, static) ==
    LET found == {k \in DOMAIN file[c].fields :
                    /\ file[c].fields[k].name = name
                    /\ ("static" \in file[c].fields[k].flags) = static}
    IN  IF found = {} THEN None ELSE <<c, Min(found)>>
(* Mutant: the superclass comes before the interfaces. *)
MutLookupField(c, name, static) ==
    LET find[d \in DOMAIN cls] ==
            LET above == find[cls[d].parent]
                across == {k \in DOMAIN cls[d].interfaces : find[cls[d].interfaces[k]] # None}
            IN  IF cls[d].parent = None THEN None
                ELSE IF FieldOf(d, name, static) # None THEN FieldOf(d, name, static)
                ELSE IF above # None THEN above
                ELSE IF static /\ across # {} THEN find[cls[d].interfaces[Min(across)]] ELSE None
    IN  find[c]
LookupField(c, name, static) ==
    LET find[d \in DOMAIN cls] ==
            LET across == {k \in DOMAIN cls[d].interfaces : find[cls[d].interfaces[k]] # None}
            IN  IF cls[d].parent = None THEN None
                ELSE IF FieldOf(d, name, static) # None THEN FieldOf(d, name, static)
                ELSE IF static /\ across # {} THEN find[cls[d].interfaces[Min(across)]]
                ELSE find[cls[d].parent]
    IN  find[c]
ResolveField(src, c, name, static) ==
    LET f == LookupField(c, name, static)
    IN  IF f = None THEN None
        ELSE IF ~MayAccess(src, f[1], file[f[1]].fields[f[2]].flags) THEN Error
        ELSE f
=============================================================================
