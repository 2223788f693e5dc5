------------------------------ MODULE Verifier ------------------------------
(***************************************************************************)
(* The data flow analysis of the preverifier (check_code.c), one method at *)
(* a time: which types the registers and the operand stack have in front   *)
(* of every instruction.  A type (fullinfo_type) is a triple of the item,  *)
(* the number of array dimensions and the extra information: the class of  *)
(* an object, the instruction that created an uninitialized one.           *)
(*                                                                         *)
(* An instruction is a record: op, the family of the opcode; n, a local    *)
(* variable or a number of dimensions; tgt, the targets of a branch, 0 for *)
(* a place where no instruction starts; keys, those of a lookupswitch;     *)
(* args and ret, the types it pops (last on top) and pushes; cls, its      *)
(* class operand; prot, a protected member of another package; owner, the  *)
(* class that declares the field it names in cls.  jsr and ret are left    *)
(* out: the preverifier analyses a method again without them (inlinejsr.c). *)
(***************************************************************************)
EXTENDS Integers, Sequences, FiniteSets, SequencesExt

CONSTANTS Methods,    \* the methods that may be analysed
          Super,      \* the superclass of each class, "none" of Object
          Interfaces  \* the classes that are interfaces

Integer    == <<"int", 0, 0>>     Float == <<"float", 0, 0>>
Long   == <<"long", 0, 0>>    Double == <<"double", 0, 0>>
Bogus  == <<"bogus", 0, 0>>   InitObject == <<"init", 0, 0>>
Null   == <<"object", 0, "null">>   Void == <<"void", 0, 0>>
Class(c)        == <<"object", 0, c>>
ArrayOf(t)      == <<t[1], t[2] + 1, t[3]>>
NewObject(i)    == <<"new", 0, i>>
Object          == Class("Object")
Wide(t)         == t \in {Long, Double}
Half(t)         == <<IF t = Long THEN "long2" ELSE "double2", 0, 0>>
IsRef(t)        == t[1] = "object" \/ t[2] > 0
PlainObject(t)  == t[1] = "object" /\ t[2] = 0
Uninitialized(t) == t[1] \in {"new", "init"}
IsInterface(t)  == PlainObject(t) /\ t[3] \in Interfaces
Words(ts) == FlattenSeq([k \in DOMAIN ts |->
               IF Wide(ts[k]) THEN <<ts[k], Half(ts[k])>> ELSE <<ts[k]>>])

(* The elements of an array of type t, as they are on the stack. *)
DecrementIndirection(t) ==
    IF t = Null THEN Null
    ELSE IF t[2] = 1 /\ t[1] \in {"short", "byte", "boolean", "char"} THEN Integer
    ELSE <<t[1], t[2] - 1, t[3]>>

ASSUME VerifierAssumption ==
    /\ "Object" \in DOMAIN Super /\ Super["Object"] = "none"
    /\ Interfaces \subseteq DOMAIN Super

(* A class and its superclasses. *)
Line[c \in DOMAIN Super] ==
    IF Super[c] = "none" THEN {c} ELSE {c} \union Line[Super[c]]

-----------------------------------------------------------------------------
(* merge_fullinfo_types(): the join of two types or, for an assignment, the *)
(* target if the value may be assigned to it.                              *)
MergeClasses(value, target, assign) ==
    IF IsInterface(target) THEN IF assign THEN target ELSE Object
    ELSE IF IsInterface(value) THEN Object
    ELSE IF assign THEN IF target[3] \in Line[value[3]] THEN target ELSE Object
    ELSE LET common == Line[value[3]] \intersect Line[target[3]]
         IN  Class(CHOOSE c \in common : Line[c] = common)

MergeObjects(value, target, assign) ==
    CASE value = target  -> value
      [] target = Object -> target
      [] value = Object  -> IF assign /\ IsInterface(target) THEN target ELSE value
      [] OTHER           -> MergeClasses(value, target, assign)

(* An array of primitives is an array of Object with one dimension less. *)
Promote(t) == IF t[1] = "object" THEN t ELSE <<"object", t[2] - 1, "Object">>
MergeArrays(value, target, assign) ==
    LET v == Promote(value)
        t == Promote(target)
        base == MergeObjects(Class(v[3]), Class(t[3]), assign)
    IN  IF v[2] = t[2] THEN <<"object", v[2], base[3]>>
        ELSE <<"object", IF v[2] < t[2] THEN v[2] ELSE t[2], "Object">>

(* Mutant. *)
MutMerge(value, target, assign) ==
    CASE value = target -> value
      [] ~IsRef(value) \/ ~IsRef(target) -> Bogus
      [] value = Null -> target
      [] target = Null -> value
      [] OTHER -> IF value[2] > 0 \/ target[2] > 0
                  THEN MergeArrays(value, target, assign) ELSE target
Merge(value, target, assign) ==
    CASE value = target -> value
      [] ~IsRef(value) \/ ~IsRef(target) -> Bogus
      [] value = Null -> target
      [] target = Null -> value
      [] OTHER -> IF target # Object /\ value # Object /\ (value[2] > 0 \/ target[2] > 0)
                  THEN MergeArrays(value, target, assign)
                  ELSE MergeObjects(value, target, assign)

(* Mutant. *)
MutIsAssignableTo(from, to) == Merge(from, to, FALSE) = to
IsAssignableTo(from, to) == Merge(from, to, TRUE) = to

-----------------------------------------------------------------------------
VARIABLES m,        \* the method
          info,     \* per instruction: known, changed, target, stack (top
                    \* first), regs, constructed (and_flags), flags (or_flags)
          cursor,   \* the instruction visited last
          verdict   \* "running", "accepted" or "rejected" (CCerror)

verifierVars == <<m, info, cursor, verdict>>

N == Len(m.code)
ThisClass == Class(m.class)

(* What a row of the table opcode_in_out, or a signature, says of an        *)
(* operand: a kind, of which many types are instances.                     *)
Letter(t) == CASE t = Integer -> "I" [] t = Float -> "F" [] t = Long -> "L"
               [] t = Double -> "D" [] OTHER -> "A"
Letters(ts) == [k \in DOMAIN ts |-> Letter(ts[k])]
ElementLetter(t) == CASE t[1] = "byte" -> "[b" [] t[1] = "char" -> "[C"
                      [] t[1] = "short" -> "[S" [] OTHER -> "[" \o Letter(t)
Calls == {"invokevirtual", "invokespecial", "invokestatic", "invokeinterface", "invokeinit"}
Operands(i) ==
    LET c == m.code[i]
    IN  CASE c.op = "arrayload"      -> <<ElementLetter(c.ty), "I">>
          [] c.op = "arraystore"     -> <<ElementLetter(c.ty), "I",
                  IF c.ty[2] = 0 /\ c.ty[1] \in {"byte", "char", "short"}
                  THEN "I" ELSE Letter(c.ty)>>
          [] c.op = "arraylength"    -> <<"[?">>
          [] c.op = "athrow"         -> <<"O">>
          [] c.op = "multianewarray" -> [k \in 1 .. c.n |-> "I"]
          [] c.op = "invokeinit"     -> <<"@">> \o Letters(c.args)
          [] c.op \in Calls \ {"invokestatic", "invokeinit"} ->
               <<"A">> \o Letters(c.args)
          [] c.op \in {"getfield", "putfield"} -> <<"A">> \o Letters(c.args)
          [] OTHER                   -> Letters(c.args)

(* Mutant. *)
MutEarlyField(i, t) == t = InitObject /\ m.code[i].op = "putfield"
(* putfield before the constructor has called another one: the field is     *)
(* looked for in the class the constant names, whichever that is.          *)
EarlyField(i, t) ==
    /\ t = InitObject /\ m.code[i].op = "putfield"
    /\ Class(m.code[i].owner) = m.code[i].cls

Mismatch(t, wanted) == t # Null /\ t # wanted
Fits(i, letter, t) ==
    CASE letter = "I" -> t = Integer
      [] letter = "F" -> t = Float
      [] letter = "L" -> t = Long
      [] letter = "D" -> t = Double
      [] letter = "A" -> \/ IsRef(t) \/ EarlyField(i, t)
                         \/ Uninitialized(t) /\ m.code[i].op \in {"store", "ifref"}
      [] letter = "@" -> Uninitialized(t)
      [] letter = "O" -> PlainObject(t)
      [] letter = "[b" -> ~(Mismatch(t, <<"byte", 1, 0>>) /\ Mismatch(t, <<"boolean", 1, 0>>))
      [] letter = "[C" -> ~Mismatch(t, <<"char", 1, 0>>)
      [] letter = "[S" -> ~Mismatch(t, <<"short", 1, 0>>)
      [] letter = "[I" -> ~Mismatch(t, ArrayOf(Integer))
      [] letter = "[F" -> ~Mismatch(t, ArrayOf(Float))
      [] letter = "[L" -> ~Mismatch(t, ArrayOf(Long))
      [] letter = "[D" -> ~Mismatch(t, ArrayOf(Double))
      [] letter = "[A" -> t = Null \/ t[2] > 1 \/ (t[2] = 1 /\ t[1] = "object")
      [] letter = "[?" -> t = Null \/ t[2] > 0

(* pop, dup and swap: the groups of words they take, from the top down, and *)
(* the groups they put back, top first.  No group may split a long.        *)
Shuffles ==
    [pop    |-> [takes |-> <<1>>,    puts |-> <<>>],
     pop2   |-> [takes |-> <<2>>,    puts |-> <<>>],
     dup    |-> [takes |-> <<1>>,    puts |-> <<1, 1>>],
     dup_x1 |-> [takes |-> <<1, 1>>, puts |-> <<1, 2, 1>>],
     dup_x2 |-> [takes |-> <<1, 2>>, puts |-> <<1, 2, 1>>],
     dup2   |-> [takes |-> <<2>>,    puts |-> <<1, 1>>],
     dup2_x1 |-> [takes |-> <<2, 1>>, puts |-> <<1, 2, 1>>],
     dup2_x2 |-> [takes |-> <<2, 2>>, puts |-> <<1, 2, 1>>],
     swap   |-> [takes |-> <<1, 1>>, puts |-> <<2, 1>>]]
Shuffling(i) == m.code[i].op \in DOMAIN Shuffles

Size(stack) == Len(Words(stack))
Drop(stack, k) == SubSeq(stack, k + 1, Len(stack))
(* How many entries on top of the stack make exactly that many words. *)
Group(stack, words) ==
    {k \in 1 .. Len(stack) : Size(SubSeq(stack, 1, k)) = words}

(* The stack split into the groups it takes, or "no" if that is impossible. *)
Taken(i) ==
    LET one == Shuffles[m.code[i].op].takes
        Next1(s, w) == IF s.ok /\ Group(s.rest, w) # {}
            THEN LET k == CHOOSE k \in Group(s.rest, w) : TRUE
                 IN  [ok |-> TRUE, rest |-> Drop(s.rest, k),
                      groups |-> Append(s.groups, SubSeq(s.rest, 1, k))]
            ELSE [s EXCEPT !.ok = FALSE]
    IN  FoldLeft(Next1, [ok |-> TRUE, rest |-> info[i].stack, groups |-> <<>>], one)

-----------------------------------------------------------------------------
(* The operands of instruction i, the one pushed first in front. *)
Pops(i)   == Len(Operands(i))
Popped(i) == [k \in 1 .. Pops(i) |->
                LET t == info[i].stack[Pops(i) + 1 - k]
                IN  IF k = 1 /\ EarlyField(i, t) THEN ThisClass ELSE t]
EnoughOperands(i) ==
    /\ Len(info[i].stack) >= Pops(i)
    /\ \A k \in 1 .. Pops(i) :
         Fits(i, Operands(i)[k], info[i].stack[Pops(i) + 1 - k])

Reg(i, n) == info[i].regs[n + 1]
(* check_register_values() *)
CheckRegisterValues(i) ==
    LET c == m.code[i]
    IN  /\ c.op \in {"load", "iinc"} =>
             /\ c.n + (IF Wide(c.ty) THEN 1 ELSE 0) < Len(info[i].regs)
             /\ IF ~IsRef(c.ty) THEN Reg(i, c.n) = c.ty
                ELSE IsRef(Reg(i, c.n)) \/ Uninitialized(Reg(i, c.n))
             /\ Wide(c.ty) => Reg(i, c.n + 1) = Half(c.ty)

(* check_flags() *)
CheckFlags(i) ==
    m.code[i].op = "return" =>
        IF m.code[i].args = <<>> THEN "need" \notin info[i].flags \/ info[i].constructed
        ELSE "noreturn" \notin info[i].flags

(* What an <init> is called for, and what that object is afterwards.       *)
From(i) == Popped(i)[1]
To(i)   == IF From(i) = InitObject THEN ThisClass ELSE m.code[From(i)[3]].cls

(* The second half of pop_stack(). *)
OperandTypes(i) ==
    LET c == m.code[i]
        o == Popped(i)
        Arguments(from) == \A k \in 1 .. Len(c.args) :
            Letter(c.args[k]) = "A" => IsAssignableTo(o[from + k], c.args[k])
    IN  CASE c.op = "arraystore" /\ IsRef(c.ty) ->
               LET target == DecrementIndirection(o[1])
               IN  \/ o[1] = Null
                   \/ PlainObject(target) /\ PlainObject(o[3])
                   \/ IsAssignableTo(o[3], target)
          [] c.op \in {"getfield", "putfield"} ->
               IsAssignableTo(o[1], c.cls) /\ Arguments(1)
          [] c.op = "putstatic"  -> Arguments(0)
          [] c.op = "athrow"     -> IsAssignableTo(o[1], Class("Throwable"))
          [] c.op = "invokestatic" -> Arguments(0)
          [] c.op = "invokeinit" ->
               /\ IF o[1] = InitObject
                  THEN c.cls \in {ThisClass, Class(Super[m.class])}
                  ELSE m.code[o[1][3]].cls = c.cls
               /\ Arguments(1)
          [] c.op \in Calls ->
               /\ IsAssignableTo(o[1], c.cls)
               /\ c.op = "invokespecial" => IsAssignableTo(o[1], ThisClass)
               /\ c.prot /\ c.cls[3] \in Line[m.class] \ {m.class}
                  => \/ IsAssignableTo(o[1], ThisClass)
                     \/ c.clone /\ c.cls = Object /\ o[1][2] > 0
               /\ Arguments(1)
          [] c.op = "return"     ->
               IF o = <<>> THEN m.ret = Void ELSE IsAssignableTo(o[1], m.ret)
          [] c.op = "new"        -> ~Contains(info[i].stack, NewObject(i))
          [] OTHER               -> TRUE

PopStack(i) == IF Shuffling(i) THEN Taken(i).ok
               ELSE EnoughOperands(i) /\ OperandTypes(i)

Replace(ts, from, to) == ReplaceAll(ts, from, to)
(* update_registers() *)
UpdateRegisters(i) ==
    LET c == m.code[i]
        old == info[i].regs
        t == info[i].stack[1]
        last == c.n + Len(Words(<<t>>))
        Stored(k) == IF k \in c.n + 1 .. last THEN Words(<<t>>)[k - c.n]
                     ELSE IF k =< Len(old) THEN old[k] ELSE Bogus
    IN  CASE c.op = "store" ->
               [k \in 1 .. (IF last > Len(old) THEN last ELSE Len(old)) |-> Stored(k)]
          [] c.op = "invokeinit" -> Replace(old, From(i), To(i))
          [] c.op = "new"        -> Replace(old, NewObject(i), Bogus)
          [] OTHER               -> old

Pushed(i) ==
    LET c == m.code[i]
    IN  CASE c.op = "load" -> <<Reg(i, c.n)>>
          [] c.op = "arrayload" /\ IsRef(c.ty) -> <<DecrementIndirection(Popped(i)[1])>>
          [] c.op = "new"      -> <<NewObject(i)>>
          [] c.op = "checkcast" -> <<c.cls>>
          [] OTHER             -> c.ret

(* push_stack() on what pop_stack() has left, top first. *)
PushStack(i) ==
    IF Shuffling(i)
    THEN LET t == Taken(i)
             puts == Shuffles[m.code[i].op].puts
         IN  FlattenSeq([k \in DOMAIN puts |-> t.groups[puts[k]]]) \o t.rest
    ELSE LET stack == Pushed(i) \o Drop(info[i].stack, Pops(i))
         IN  IF m.code[i].op = "invokeinit" THEN Replace(stack, From(i), To(i)) ELSE stack

-----------------------------------------------------------------------------
(* The state of the analysis while the results of one instruction are      *)
(* merged into others: ok is FALSE after a CCerror.                        *)
Failed(st) == [st EXCEPT !.ok = FALSE]

(* merge_stack() *)
MergeStack(old, new) ==
    LET same == \A k \in DOMAIN old : IsAssignableTo(new[k], old[k])
    IN  IF same THEN old ELSE [k \in DOMAIN old |-> Merge(old[k], new[k], FALSE)]
StacksMeet(old, new) ==
    Len(old) = Len(new) /\ \A k \in DOMAIN old : MergeStack(old, new)[k] # Bogus

(* merge_registers(): from the first register on that is not assignable,   *)
(* all are merged and what ends up bogus at the end is cut off.            *)
MergeRegisters(old, new) ==
    LET cut == SubSeq(old, 1, IF Len(old) < Len(new) THEN Len(old) ELSE Len(new))
        wrong == {k \in DOMAIN cut : ~IsAssignableTo(new[k], cut[k])}
        first == CHOOSE k \in wrong : \A l \in wrong : k =< l
        merged == [k \in DOMAIN cut |->
                     IF k < first THEN cut[k] ELSE Merge(new[k], cut[k], FALSE)]
        good == {k \in DOMAIN cut : merged[k] # Bogus}
    IN  IF wrong = {} THEN cut
        ELSE SubSeq(merged, 1, CHOOSE k \in good \union {0} : \A l \in good : l =< k)

(* merge_into_one_successor(): e is what arrives at instruction e.to.      *)
MergeIntoOneSuccessor(st, e) ==
    IF ~st.ok \/ e.to > N THEN Failed(st)
    ELSE LET d == st.info[e.to]
             new == IF d.known
                    THEN [d EXCEPT !.stack = MergeStack(@, e.stack),
                                   !.regs = MergeRegisters(@, e.regs),
                                   !.constructed = @ /\ e.constructed,
                                   !.flags = @ \union e.flags]
                    ELSE [d EXCEPT !.known = TRUE, !.stack = e.stack, !.regs = e.regs,
                                   !.constructed = e.constructed, !.flags = e.flags]
         IN  IF d.known /\ ~StacksMeet(d.stack, e.stack) THEN Failed(st)
             ELSE [st EXCEPT !.info[e.to] =
                     [new EXCEPT !.target = @ \/ e.jump,
                                 !.changed = @ \/ [new EXCEPT !.changed = FALSE]
                                                  # [d EXCEPT !.changed = FALSE]]]

Arrival(i, to, stack, regs, constructed, flags, jump) ==
    [to |-> to, stack |-> stack, regs |-> regs, constructed |-> constructed,
     flags |-> flags, jump |-> jump]

(* The handlers that cover an instruction see the registers as they were   *)
(* before it, and after it too if it calls a constructor.                  *)
Handlers(i) == SelectSeq(m.handlers, LAMBDA h : h.start =< i /\ i < h.end)
ToHandlers(i) ==
    LET c == m.code[i]
        h == Handlers(i)
        d == info[i]
        thrown(k) == <<IF h[k].type = "any" THEN Class("Throwable") ELSE Class(h[k].type)>>
        before(k) == Arrival(i, h[k].handler, thrown(k), d.regs, d.constructed, d.flags, TRUE)
        after(k)  == Arrival(i, h[k].handler, thrown(k), UpdateRegisters(i),
                       d.constructed \/ From(i) = InitObject,
                       d.flags \union (IF From(i) = InitObject THEN {"noreturn"} ELSE {}), TRUE)
    IN  IF c.op = "invokeinit"
        THEN FlattenSeq([k \in DOMAIN h |-> <<before(k), after(k)>>])
        ELSE [k \in DOMAIN h |-> before(k)]

(* update_flags() and merge_into_successors() *)
Constructs(i) == m.code[i].op = "invokeinit" /\ From(i) = InitObject
Ends(i) == m.code[i].op \in {"return", "athrow"}
Jumps(i) == m.code[i].op \in {"goto", "switch"}
ToSuccessors(i) ==
    LET next == IF Ends(i) \/ Jumps(i) THEN <<>> ELSE <<i + 1>>
        all == next \o m.code[i].tgt
    IN  [k \in DOMAIN all |-> Arrival(i, all[k], PushStack(i), UpdateRegisters(i),
            info[i].constructed \/ Constructs(i), info[i].flags, k > Len(next))]

-----------------------------------------------------------------------------
(* verify_opcode_operands(), initialize_exception_table(): what is refused  *)
(* before the analysis starts.  An invokespecial of a class that is no     *)
(* superclass is not: Object, where the search ends, has no loader.        *)
(* The keys of a lookupswitch are compared as uint32_t. *)
Below32(k, l) == IF (k < 0) = (l < 0) THEN k < l ELSE l < 0
LegalTarget(t) == t \in 1 .. N
OperandsOk(c) ==
    /\ \A k \in DOMAIN c.tgt : c.tgt[k] \in 1 .. Len(m.code)
    /\ c.op \in {"load", "store", "iinc"} =>
         c.n + (IF Wide(c.ty) THEN 1 ELSE 0) < m.maxLocals
    /\ c.op = "switch" => \A k \in 1 .. Len(c.keys) - 1 : Below32(c.keys[k], c.keys[k + 1])
    /\ c.op = "new" => PlainObject(c.cls)
    /\ c.op = "multianewarray" => c.n \in 1 .. c.ret[1][2]
RangeOk(h) ==
    /\ h.start < h.end /\ LegalTarget(h.start) /\ h.end \in 1 .. N + 1
    /\ LegalTarget(h.handler) /\ h.handler > 1
StaticOk ==
    /\ N > 0
    /\ \A i \in 1 .. N : OperandsOk(m.code[i])
    /\ \A k \in DOMAIN m.handlers : RangeOk(m.handlers[k])

(* verify_method(), initialize_dataflow() *)
Constructor == m.name = "<init>" /\ m.class # "Object"
Receiver == IF m.static THEN <<>> ELSE IF Constructor THEN <<InitObject>> ELSE <<ThisClass>>
Unreached == [known |-> FALSE, changed |-> FALSE, target |-> FALSE, stack |-> <<>>,
              regs |-> <<>>, constructed |-> TRUE, flags |-> {}]
InitVerifier ==
    /\ m \in Methods
    /\ cursor = 0
    /\ verdict = IF StaticOk THEN "running" ELSE "rejected"
    /\ info = [i \in 1 .. N |->
         IF i > 1 THEN Unreached
         ELSE [Unreached EXCEPT !.known = TRUE, !.changed = TRUE,
                 !.regs = Receiver \o Words(m.args), !.constructed = FALSE,
                 !.flags = IF Constructor /\ ~m.static THEN {"reached", "need"}
                           ELSE {"reached"}]]

(* run_dataflow() visits the changed instructions in the order of the code, *)
(* again and again until there are none.                                   *)
Changed == {i \in 1 .. N : info[i].changed}
NextChanged ==
    LET ahead == {i \in Changed : i > cursor}
        from == IF ahead = {} THEN Changed ELSE ahead
    IN  CHOOSE i \in from : \A j \in from : i =< j

Accepts(i) ==
    /\ CheckRegisterValues(i) /\ CheckFlags(i) /\ PopStack(i)
    /\ Size(PushStack(i)) =< m.maxStack
Merged(i) ==
    FoldLeft(MergeIntoOneSuccessor,
             [ok |-> TRUE, info |-> [info EXCEPT ![i].changed = FALSE]],
             ToHandlers(i) \o ToSuccessors(i))
Visit ==
    /\ verdict = "running" /\ Changed # {}
    /\ cursor' = NextChanged
    /\ IF Accepts(NextChanged) /\ Merged(NextChanged).ok
       THEN info' = Merged(NextChanged).info /\ UNCHANGED verdict
       ELSE verdict' = "rejected" /\ UNCHANGED info
    /\ UNCHANGED m

(* verify_method(): the locals of the stack map written for a branch target *)
(* have one entry for a long, or a bogus one if its second half is gone.   *)
MapLocals(regs) ==
    LET half(k) == k > 1 /\ Wide(regs[k - 1]) /\ regs[k] = Half(regs[k - 1])
        whole(k) == IF Wide(regs[k]) /\ ~(k < Len(regs) /\ half(k + 1)) THEN Bogus ELSE regs[k]
        entries == [k \in DOMAIN regs |-> IF half(k) THEN <<>> ELSE <<whole(k)>>]
    IN  FlattenSeq(entries)

Accept ==
    /\ verdict = "running" /\ Changed = {}
    /\ verdict' = "accepted"
    /\ UNCHANGED <<m, info, cursor>>

NextVerifier == Visit \/ Accept
=============================================================================
