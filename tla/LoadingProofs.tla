---------------------------- MODULE LoadingProofs ----------------------------
(***************************************************************************)
(* What the class loader keeps for every class path, every bootstrap and   *)
(* every program: see the end for the theorems.  A step of the loader      *)
(* moves the innermost call on, lets it ask for another class, throws,     *)
(* or returns; each of the four has a lemma of its own, and the actions    *)
(* are shown to be such steps.                                             *)
(***************************************************************************)
EXTENDS Loading, FiniteSetTheorems, SequenceTheorems, WellFoundedInduction, TLAPS

(* What every step does to the classes that are linked.                    *)
Stable ==
    /\ file' = file
    /\ \A c \in Name : state[c] = "linked" => state'[c] = "linked" /\ cls'[c] = cls[c]

-----------------------------------------------------------------------------
\* What has been found stays found.
LEMMA FoundKept ==
    ASSUME Stable, NEW d \in Name, NEW orig, Found(d, orig)
    PROVE  Found(d, orig)'
<1>1. state[d] = "linked" /\ state'[d] = "linked" /\ cls'[d] = cls[d] /\ file' = file
  BY DEF Stable, Found
<1>2. Accessible(d, orig)'
  BY <1>1 DEF Found, Accessible, Package
<1> QED
  BY <1>1, <1>2 DEF Found

\* A superclass that was accepted stays so, if the class is still of its kind.
LEMMA ExtendsKept ==
    ASSUME Stable, NEW c \in Name, Extends(c), file[c].super \in Name \cup {None},
           cls'[c].parent = cls[c].parent, IsInterface(c)' = IsInterface(c)
    PROVE  Extends(c)'
<1>1. PICK p \in Name \cup {None} : p = file[c].super
  OBVIOUS
<1>2. cls[c].parent = p /\ (p # None => Found(p, c) /\ SuperAllowed(c, p))
  BY <1>1 DEF Extends
<1>3. file' = file
  BY DEF Stable
<1>4. ASSUME p # None PROVE Found(p, c)' /\ SuperAllowed(c, p)'
  <2>1. p \in Name /\ Found(p, c)
    BY <1>2, <1>4
  <2>2. Found(p, c)'
    BY <2>1, FoundKept
  <2>3. cls'[p] = cls[p]
    BY <2>1 DEF Found, Stable
  <2>4. SuperAllowed(c, p)'
    BY <1>2, <1>4, <2>3 DEF SuperAllowed, IsInterface, IsArray
  <2> QED
    BY <2>2, <2>4
<1> QED
  BY <1>1, <1>2, <1>3, <1>4 DEF Extends

\* So does an interface.
LEMMA ProvidesKept ==
    ASSUME Stable, NEW c \in Name, NEW k, file[c].interfaces[k] \in Name, Provides(c, k)
    PROVE  Provides(c, k)'
<1>1. PICK i \in Name : i = file[c].interfaces[k]
  OBVIOUS
<1>2. Found(i, c) /\ IsInterface(i) /\ ~IsArray(i) /\ file' = file
  BY <1>1 DEF Provides, Stable
<1>3. Found(i, c)'
  BY <1>2, FoundKept
<1>4. IsInterface(i)'
  BY <1>2 DEF Found, Stable, IsInterface
<1>5. ~IsArray(i)'
  BY <1>2 DEF IsArray
<1> QED
  BY <1>1, <1>2, <1>3, <1>4, <1>5 DEF Provides

\* What depends on the class files only does not change with the classes.
LEMMA FilesKept ==
    ASSUME file' = file, NEW c
    PROVE  (HeaderAllowed(c)' <=> HeaderAllowed(c)) /\ (MembersAllowed(c)' <=> MembersAllowed(c))
<1>1. HeaderAllowed(c)' <=> HeaderAllowed(c)
  BY DEF HeaderAllowed
<1>2. MembersAllowed(c)' <=> MembersAllowed(c)
  BY DEF MembersAllowed, FieldAllowed, MethodAllowed
<1> QED
  BY <1>1, <1>2

\* What the class files of the path hold.
LEMMA FileFacts ==
    ASSUME ClassPath(file), NEW c \in Name, ~IsArray(c)
    PROVE  /\ c \in Class /\ file[c].super \in Name \cup {None}
           /\ file[c].interfaces \in Seq(Name) /\ Len(file[c].interfaces) \in Nat
           /\ DOMAIN file[c].interfaces = 1 .. Len(file[c].interfaces)
           /\ \A k \in DOMAIN file[c].interfaces : file[c].interfaces[k] \in Name
<1>1. c \in Class
  BY DEF Name, IsArray
<1>2. file[c].super \in Name \cup {None} /\ file[c].interfaces \in Seq(Name)
  BY <1>1 DEF ClassPath
<1> QED
  BY <1>1, <1>2

\* A class is no less than it was, as long as its record keeps its parent and its
\* flags, but for the mark of a finalizer.
SameHead(c) ==
    /\ cls'[c].parent = cls[c].parent /\ IsInterface(c)' = IsInterface(c)
    /\ Headed(c) => Headed(c)'

LEMMA SameHeadOfSame ==
    ASSUME file' = file, NEW c, cls'[c] = cls[c]
    PROVE  SameHead(c)
BY FilesKept DEF SameHead, IsInterface, Headed, IsArray

LEMMA DerivesKept ==
    ASSUME ClassPath(file), Stable, NEW c \in Name, Derives(c), SameHead(c)
    PROVE  Derives(c)'
<1>1. /\ Headed(c) /\ Extends(c) /\ \A k \in DOMAIN file[c].interfaces : Provides(c, k)
      /\ file[c].fault # "members" /\ MembersAllowed(c)
  BY DEF Derives
<1>2. ~IsArray(c)
  BY <1>1 DEF Headed
<1>3. /\ file[c].super \in Name \cup {None}
      /\ \A k \in DOMAIN file[c].interfaces : file[c].interfaces[k] \in Name
  BY <1>2, FileFacts
<1>4. Headed(c)' /\ cls'[c].parent = cls[c].parent /\ IsInterface(c)' = IsInterface(c)
  BY <1>1 DEF SameHead
<1>5. Extends(c)'
  BY <1>1, <1>3, <1>4, ExtendsKept
<1>6. \A k \in DOMAIN file[c].interfaces : Provides(c, k)'
  BY <1>1, <1>3, ProvidesKept
<1>7. file' = file
  BY DEF Stable
<1>8. MembersAllowed(c)'
  BY <1>1, <1>7, FilesKept
<1> QED
  BY <1>1, <1>4, <1>5, <1>6, <1>7, <1>8 DEF Derives

LEMMA CompleteKept ==
    ASSUME ClassPath(file), Stable, NEW c \in Name, Complete(c), cls'[c] = cls[c]
    PROVE  Complete(c)'
<1>1. file' = file
  BY DEF Stable
<1>2. CASE ~IsArray(c)
  <2>1. Derives(c) /\ file[c].fault # "attributes"
    BY <1>2 DEF Complete
  <2>2. Derives(c)'
    BY <1>1, <2>1, DerivesKept, SameHeadOfSame
  <2> QED
    BY <1>1, <1>2, <2>1, <2>2 DEF Complete, IsArray
<1>3. CASE IsArray(c)
  <2>1. /\ cls[c].parent = Object /\ Found(Object, None)
        /\ Elem[c] # "primitive" => Found(Elem[c], None)
    BY <1>3 DEF Complete
  <2>2. Object \in Name /\ (Elem[c] # "primitive" => Elem[c] \in Name)
    BY <1>3, NamesAssumption DEF Name, IsArray
  <2>3. Found(Object, None)'
    BY <2>1, <2>2, FoundKept
  <2>4. Elem[c] # "primitive" => Found(Elem[c], None)'
    BY <2>1, <2>2, FoundKept
  <2> QED
    BY <1>3, <2>1, <2>3, <2>4 DEF Complete, IsArray
<1> QED
  BY <1>2, <1>3

\* A call is where it was, if its class is as it was.
LEMMA FrameKept ==
    ASSUME ClassPath(file), Stable, NEW f \in Frames, FrameOK(f),
           state'[f.name] = state[f.name], cls'[f.name] = cls[f.name]
    PROVE  FrameOK(f)'
<1> DEFINE c == f.name
<1>1. c \in Name /\ f.at \in Places /\ f.k \in Nat /\ file' = file
  BY DEF Frames, Stable
<1>2. /\ f.at \in Busy => state'[c] = "linking"
      /\ f.at \in {"check", "leave"} => state'[c] = "linked"
      /\ f.at = "parse" => cls'[c] = NoClass
      /\ f.at \in {"elem", "object"} => IsArray(c)
      /\ f.at = "elem" => Elem[c] # "primitive"
  BY DEF FrameOK
<1>3. SameHead(c)
  BY <1>1, SameHeadOfSame
<1>4. f.at = "super" => Headed(c)' /\ file'[c].super # None
  BY <1>1, <1>3 DEF FrameOK, SameHead
<1>5. ASSUME f.at \in {"interfaces", "implements"}
      PROVE  /\ Headed(c)' /\ Extends(c)' /\ \A j \in 1 .. f.k - 1 : Provides(c, j)'
             /\ f.k \in 1 .. Len(file'[c].interfaces) + (IF f.at = "interfaces" THEN 1 ELSE 0)
  <2>1. /\ Headed(c) /\ Extends(c) /\ \A j \in 1 .. f.k - 1 : Provides(c, j)
        /\ f.k \in 1 .. Len(file[c].interfaces) + (IF f.at = "interfaces" THEN 1 ELSE 0)
    BY <1>5 DEF FrameOK
  <2>2. ~IsArray(c)
    BY <2>1 DEF Headed
  <2>3. /\ file[c].super \in Name \cup {None} /\ Len(file[c].interfaces) \in Nat
        /\ \A j \in 1 .. Len(file[c].interfaces) : file[c].interfaces[j] \in Name
    BY <1>1, <2>2, FileFacts
  <2>4. \A j \in 1 .. f.k - 1 : j \in 1 .. Len(file[c].interfaces)
    <3>1. \A a, l \in Nat : a \in 1 .. l + 1 \/ a \in 1 .. l + 0 => \A j \in 1 .. a - 1 : j \in 1 .. l
      OBVIOUS
    <3>2. f.k \in 1 .. Len(file[c].interfaces) + 1 \/ f.k \in 1 .. Len(file[c].interfaces) + 0
      BY <2>1
    <3> QED
      BY <1>1, <2>3, <3>1, <3>2
  <2>5. \A j \in 1 .. f.k - 1 : Provides(c, j)'
    BY <1>1, <2>1, <2>3, <2>4, ProvidesKept
  <2>6. Headed(c)' /\ cls'[c].parent = cls[c].parent /\ IsInterface(c)' = IsInterface(c)
    BY <1>3, <2>1 DEF SameHead
  <2>7. Extends(c)'
    BY <1>1, <2>1, <2>3, <2>6, ExtendsKept
  <2> QED
    BY <1>1, <2>1, <2>5, <2>6, <2>7
<1>6. f.at = "attributes" => Derives(c)'
  BY <1>1, <1>3, DerivesKept DEF FrameOK
<1>7. f.at = "object" /\ Elem[c] # "primitive" => Found(Elem[c], None)'
  <2>1. f.at = "object" /\ Elem[c] # "primitive" => Elem[c] \in Name /\ Found(Elem[c], None)
    BY <1>1, NamesAssumption DEF FrameOK, IsArray
  <2> QED
    BY <2>1, FoundKept
<1>8. f.at = "created" => Complete(c)'
  BY <1>1, CompleteKept DEF FrameOK
<1>9. f.at = "leave" => Accessible(c, f.orig)'
  <2>1. f.at = "leave" => Found(c, f.orig)
    BY DEF FrameOK, Found
  <2>2. f.at = "leave" => Found(c, f.orig)'
    BY <1>1, <2>1, FoundKept
  <2> QED
    BY <2>2 DEF Found
<1> HIDE DEF c
<1>10. IsArray(c)' <=> IsArray(c)
  BY DEF IsArray
<1> QED
  BY <1>2, <1>4, <1>5, <1>6, <1>7, <1>8, <1>9, <1>10 DEF FrameOK, c

-----------------------------------------------------------------------------
(* Steps of one call.  What all of them leave alone: every class but the   *)
(* one the call is for, and what the outermost call is for.                *)
Inner(c) ==
    /\ Stable
    /\ \A d \in Name : d # c => state'[d] = state[d] /\ cls'[d] = cls[d]
    /\ state'[c] \in {"linking", "linked"} /\ (state'[c] = "linked" => Complete(c)')
    /\ UNCHANGED <<call, answers, resolved>>

\* The innermost call.
LEMMA TopFacts ==
    ASSUME IInv, stack # <<>>
    PROVE  /\ stack \in Seq(Frames) /\ Len(stack) \in Nat \ {0} /\ DOMAIN stack = 1 .. Len(stack)
           /\ Len(stack) \in DOMAIN stack /\ Top = stack[Len(stack)] /\ Top \in Frames /\ FrameOK(Top)
           /\ Top.name \in Name /\ Top.orig \in Name \cup {None} /\ Top.at \in Places /\ Top.k \in Nat
<1>1. stack \in Seq(Frames)
  BY DEF IInv, TypeOK
<1>2. Len(stack) \in Nat \ {0} /\ DOMAIN stack = 1 .. Len(stack)
  BY <1>1, EmptySeq
<1>3. Len(stack) \in DOMAIN stack
  BY <1>2
<1>4. Top = stack[Len(stack)] /\ Top \in Frames
  BY <1>1, <1>3 DEF Top
<1>5. FrameOK(Top)
  BY <1>3, <1>4 DEF IInv
<1> QED
  BY <1>1, <1>2, <1>3, <1>4, <1>5 DEF Frames

\* What holds of classes, answers and entries.
LEMMA ClassesKept ==
    ASSUME IInv, NEW c \in Name, Inner(c)
    PROVE  Untouched' /\ Whole' /\ Granted'
<1>1. Stable /\ ClassPath(file)
  BY WorldAssumption DEF Inner, IInv, TypeOK
<1>2. /\ \A d \in Name : d # c => state'[d] = state[d] /\ cls'[d] = cls[d]
      /\ state'[c] \in {"linking", "linked"} /\ (state'[c] = "linked" => Complete(c)')
      /\ answers' = answers /\ resolved' = resolved
  BY DEF Inner
<1>3. Untouched'
  BY <1>2 DEF IInv, Untouched
<1>4. Whole'
  <2> SUFFICES ASSUME NEW d \in Name, state'[d] = "linked" PROVE Complete(d)'
    BY DEF Whole
  <2>1. CASE d = c
    BY <1>2, <2>1
  <2>2. CASE d # c
    <3>1. state[d] = "linked" /\ cls'[d] = cls[d]
      BY <1>2, <2>2
    <3>2. Complete(d)
      BY <3>1 DEF IInv, Whole
    <3> QED
      BY <1>1, <3>1, <3>2, CompleteKept
  <2> QED
    BY <2>1, <2>2
<1>5. Granted'
  <2>1. answers \in Seq(Name \X (Name \cup {None}) \X {"ok", "error"}) /\ resolved \subseteq Name \X Name
    BY DEF IInv, TypeOK
  <2>2. ASSUME NEW i \in DOMAIN answers, answers[i][3] = "ok"
        PROVE  Found(answers[i][1], answers[i][2])'
    <3>1. PICK d \in Name, o \in Name \cup {None} : d = answers[i][1] /\ o = answers[i][2]
      BY <2>1
    <3>2. Found(d, o)
      BY <2>2, <3>1 DEF IInv, Granted
    <3>3. Found(d, o)'
      BY <1>1, <3>2, FoundKept
    <3> QED
      BY <1>2, <3>1, <3>3
  <2>3. ASSUME NEW r \in resolved PROVE state'[r[1]] = "linked" /\ Found(r[2], r[1])'
    <3>1. r[1] \in Name /\ r[2] \in Name /\ state[r[1]] = "linked" /\ Found(r[2], r[1])
      BY <2>1 DEF IInv, Granted
    <3>2. Found(r[2], r[1])'
      BY <1>1, <3>1, FoundKept
    <3> QED
      BY <1>1, <3>1, <3>2 DEF Stable
  <2> QED
    BY <1>2, <2>2, <2>3 DEF Granted
<1> QED
  BY <1>3, <1>4, <1>5

\* The calls below the innermost one.
LEMMA LowerKept ==
    ASSUME IInv, stack # <<>>, NEW c \in Name, Inner(c), c = Top.name,
           \A i \in 1 .. Len(stack) - 1 : stack[i].name # c,
           NEW i \in 1 .. Len(stack) - 1, stack'[i] = stack[i]
    PROVE  FrameOK(stack[i])'
<1>1. i \in DOMAIN stack /\ stack[i] \in Frames
  BY TopFacts
<1>2. PICK g \in Frames : g = stack[i]
  BY <1>1
<1>3. FrameOK(g) /\ g.name # c /\ g.name \in Name
  BY <1>1, <1>2 DEF IInv, Frames
<1>4. Stable /\ ClassPath(file) /\ state'[g.name] = state[g.name] /\ cls'[g.name] = cls[g.name]
  BY <1>3, WorldAssumption DEF Inner, IInv, TypeOK
<1>5. FrameOK(g)'
  BY <1>3, <1>4, FrameKept
<1> QED
  BY <1>2, <1>5

\* The innermost call goes on.
Moved(s, at, k) == [s EXCEPT ![Len(s)].at = at, ![Len(s)].k = k]
At(f, at, k) == [name |-> f.name, orig |-> f.orig, at |-> at, k |-> k]

LEMMA MovedFacts ==
    ASSUME NEW s \in Seq(Frames), s # <<>>, NEW at \in Places, NEW k \in Nat
    PROVE  /\ Moved(s, at, k) \in Seq(Frames) /\ Len(Moved(s, at, k)) = Len(s)
           /\ Moved(s, at, k)[Len(s)] = At(s[Len(s)], at, k)
           /\ \A i \in 1 .. Len(s) - 1 : Moved(s, at, k)[i] = s[i]
           /\ At(s[Len(s)], at, k) \in Frames
<1> DEFINE n == Len(s)
           f == At(s[n], at, k)
<1>1. n \in Nat \ {0} /\ n \in 1 .. n /\ DOMAIN s = 1 .. n
  BY EmptySeq
<1>2. s[n] \in Frames
  BY <1>1
<1>3. f \in Frames /\ f = [s[n] EXCEPT !.at = at, !.k = k]
  <2>1. PICK g : g = s[n]
    OBVIOUS
  <2>2. g \in Frames
    BY <1>2, <2>1
  <2>3. At(g, at, k) \in Frames
    BY <2>2 DEF Frames, At
  <2>4. g = [name |-> g.name, orig |-> g.orig, at |-> g.at, k |-> g.k]
    BY <2>2 DEF Frames
  <2>5. ASSUME NEW a, NEW b, NEW x, NEW y, g = [name |-> a, orig |-> b, at |-> x, k |-> y]
        PROVE  [g EXCEPT !.at = at, !.k = k] = [name |-> a, orig |-> b, at |-> at, k |-> k]
    <3>1. [g EXCEPT !.at = at] = [name |-> a, orig |-> b, at |-> at, k |-> y]
      BY <2>5
    <3>2. [[name |-> a, orig |-> b, at |-> at, k |-> y] EXCEPT !.k = k]
            = [name |-> a, orig |-> b, at |-> at, k |-> k]
      OBVIOUS
    <3>3. [g EXCEPT !.at = at, !.k = k] = [[g EXCEPT !.at = at] EXCEPT !.k = k]
      OBVIOUS
    <3> QED
      BY <3>1, <3>2, <3>3
  <2>6. At(g, at, k) = [g EXCEPT !.at = at, !.k = k]
    BY <2>4, <2>5 DEF At
  <2> QED
    BY <2>1, <2>3, <2>6
<1>4. Moved(s, at, k) = [s EXCEPT ![n] = [s[n] EXCEPT !.at = at, !.k = k]]
  BY <1>1 DEF Moved
<1> HIDE DEF f
<1>5. Moved(s, at, k) = [s EXCEPT ![n] = f]
  BY <1>3, <1>4
<1> HIDE DEF n
<1>6. \A i \in 1 .. n - 1 : i \in 1 .. n /\ i # n
  BY <1>1
<1> QED
  BY <1>1, <1>3, <1>5, <1>6, ExceptSeq DEF f, n

LEMMA GotoInv ==
    ASSUME IInv, TypeOK', stack # <<>>, ~thrown, NEW c \in Name, c = Top.name, Inner(c),
           NEW at \in {"parse", "interfaces", "attributes", "created", "check", "leave"},
           NEW k \in Nat, stack' = Moved(stack, at, k),
           NEW f, f = At(Top, at, k), FrameOK(f)',
           \A i \in 1 .. Len(stack) - 1 : stack[i].name # c,
           lock' = lock + (IF Top.at = "find" THEN 1 ELSE 0), data' = 0, thrown' = FALSE
    PROVE  IInv'
<1> DEFINE n == Len(stack)
<1>1. /\ n \in Nat \ {0} /\ DOMAIN stack = 1 .. n /\ stack \in Seq(Frames) /\ Top = stack[n]
      /\ at \in Places /\ at # "find" /\ at \notin Waiting
  BY TopFacts DEF Places, Waiting
<1>2. /\ stack' \in Seq(Frames) /\ Len(stack') = n /\ DOMAIN stack' = 1 .. n /\ stack'[n] = f
      /\ \A i \in 1 .. n - 1 : stack'[i] = stack[i]
  BY <1>1, MovedFacts
<1>3. f.name = c /\ f.orig = Top.orig /\ f.at = at /\ f.k = k
  BY DEF At
<1> HIDE DEF n
<1>4. \A i \in 1 .. n : i = n \/ i \in 1 .. n - 1
  BY <1>1
<1>5. \A i \in DOMAIN stack' : FrameOK(stack[i])'
  <2> SUFFICES ASSUME NEW i \in 1 .. n PROVE FrameOK(stack[i])'
    BY <1>2
  <2>1. CASE i = n
    BY <1>2, <2>1
  <2>2. CASE i \in 1 .. n - 1
    BY <1>2, <2>2, LowerKept DEF n
  <2> QED
    BY <1>4, <2>1, <2>2
<1>6. Nested'
  <2> SUFFICES ASSUME NEW i \in 1 .. n - 1
               PROVE  /\ stack'[i].at \in Waiting
                      /\ stack'[i + 1].name = Callee(stack[i])' /\ stack'[i + 1].orig = Asker(stack[i])'
    BY <1>2 DEF Nested
  <2>1. stack[i].at \in Waiting /\ stack[i + 1].name = Callee(stack[i]) /\ stack[i + 1].orig = Asker(stack[i])
    BY DEF IInv, Nested, n
  <2>2. Callee(stack[i])' = Callee(stack[i]) /\ Asker(stack[i])' = Asker(stack[i])
    BY <1>2 DEF Callee, Asker, Inner, Stable
  <2>3. stack'[i + 1].name = stack[i + 1].name /\ stack'[i + 1].orig = stack[i + 1].orig
    <3>1. i + 1 = n \/ i + 1 \in 1 .. n - 1
      BY <1>1
    <3> QED
      BY <1>1, <1>2, <1>3, <3>1
  <2> QED
    BY <1>2, <2>1, <2>2, <2>3
<1>7. Distinct'
  <2> SUFFICES ASSUME NEW i \in 1 .. n, NEW j \in 1 .. n, i # j,
                      stack'[i].at # "find", stack'[j].at # "find"
               PROVE  stack'[i].name # stack'[j].name
    BY <1>2 DEF Distinct
  <2>1. CASE i = n \/ j = n
    <3>1. \A l \in 1 .. n - 1 : stack[l].name # c
      BY DEF n
    <3>2. \A l \in 1 .. n - 1 : stack'[l].name # c
      BY <1>2, <3>1
    <3>3. stack'[n].name = c
      BY <1>2, <1>3
    <3>4. CASE i = n
      <4>1. j \in 1 .. n - 1
        BY <1>4, <3>4
      <4> QED
        BY <3>2, <3>3, <3>4, <4>1
    <3>5. CASE j = n
      <4>1. i \in 1 .. n - 1
        BY <1>4, <3>5
      <4> QED
        BY <3>2, <3>3, <3>5, <4>1
    <3> QED
      BY <2>1, <3>4, <3>5
  <2>2. CASE i \in 1 .. n - 1 /\ j \in 1 .. n - 1
    <3>1. i \in DOMAIN stack /\ j \in DOMAIN stack
      BY <1>1
    <3>2. stack'[i] = stack[i] /\ stack'[j] = stack[j]
      BY <1>2, <2>2
    <3>3. Distinct
      BY DEF IInv
    <3> QED
      BY <3>1, <3>2, <3>3 DEF Distinct
  <2> QED
    BY <1>4, <2>1, <2>2
<1>8. Returned' /\ Top' = f
  BY <1>1, <1>2, <1>3 DEF Returned, Top
<1>9. Unwound'
  <2>1. call' = call /\ call.kind \notin {"idle", "failed"}
    BY DEF Inner, IInv, Unwound
  <2>2. lock = n + (IF call.kind = "link" THEN 1 ELSE 0) - (IF Top.at = "find" THEN 1 ELSE 0)
    BY <2>1 DEF IInv, Unwound, n
  <2>3. lock' = n + (IF call'.kind = "link" THEN 1 ELSE 0)
    <3>1. lock \in Nat
      BY DEF IInv, TypeOK
    <3> QED
      BY <1>1, <2>1, <2>2, <3>1
  <2>4. ~(stack' # <<>> /\ ~thrown' /\ Top'.at = "find")
    BY <1>1, <1>3, <1>8
  <2>5. lock' = Len(stack') + (IF call'.kind = "link" THEN 1 ELSE 0) - 0
    BY <1>1, <1>2, <2>3
  <2> QED
    BY <2>1, <2>4, <2>5 DEF Unwound
<1>10. Outermost'
  <2>1. call' = call /\ Stable
    BY DEF Inner
  <2>2. stack'[1].name = stack[1].name /\ stack'[1].orig = stack[1].orig /\ stack' # <<>>
    <3>1. 1 = n \/ 1 \in 1 .. n - 1
      BY <1>1
    <3> QED
      BY <1>1, <1>2, <1>3, <3>1
  <2>3. /\ call.kind = "link" => call.orig \in Class /\ state[call.orig] = "linked"
        /\ call.kind \in {"forName", "throwNew", "link"} => call.name \in Name
        /\ call.kind \in {"forName", "link"} => stack[1].name = call.name /\ stack[1].orig = Asked
    BY DEF IInv, Outermost
  <2>4. call.kind = "link" => state'[call.orig] = "linked"
    BY <2>1, <2>3 DEF Stable, Name
  <2> QED
    BY <2>1, <2>2, <2>3, <2>4 DEF Outermost, Asked
<1> QED
  BY <1>5, <1>6, <1>7, <1>8, <1>9, <1>10, ClassesKept DEF IInv

\* It asks for another class.
LEMMA ResolveInv ==
    ASSUME IInv, TypeOK', stack # <<>>, ~thrown, NEW c \in Name, c = Top.name, Inner(c),
           NEW at \in Waiting, NEW k \in Nat, NEW f, f = At(Top, at, k), FrameOK(f)',
           NEW d \in Name, d = Callee(f), NEW o \in Name \cup {None}, o = Asker(f),
           stack' = Append(Moved(stack, at, k), Frame(d, o)), Top.at # "find",
           \A i \in 1 .. Len(stack) - 1 : stack[i].name # c,
           lock' = lock, data' = 0, thrown' = FALSE
    PROVE  IInv'
<1> DEFINE n == Len(stack)
           new == Frame(d, o)
<1>1. /\ n \in Nat \ {0} /\ DOMAIN stack = 1 .. n /\ stack \in Seq(Frames) /\ Top = stack[n]
      /\ at \in Places /\ at # "find"
  BY TopFacts DEF Places, Waiting
<1>2. /\ Moved(stack, at, k) \in Seq(Frames) /\ Len(Moved(stack, at, k)) = n
      /\ Moved(stack, at, k)[n] = f
      /\ \A i \in 1 .. n - 1 : Moved(stack, at, k)[i] = stack[i]
  BY <1>1, MovedFacts
<1>3. new.name = d /\ new.orig = o /\ new.at = "find" /\ new.k = 1 /\ new \in Frames
  BY DEF Frame, Frames, Places
<1>4. f.name = c /\ f.orig = Top.orig /\ f.at = at /\ f.k = k
  BY DEF At
<1> HIDE DEF n, new
<1>5. /\ Len(stack') = n + 1 /\ DOMAIN stack' = 1 .. n + 1 /\ stack'[n + 1] = new
      /\ \A i \in 1 .. n : stack'[i] = Moved(stack, at, k)[i]
  <2>1. stack' = Append(Moved(stack, at, k), new)
    BY DEF new
  <2> QED
    BY <1>1, <1>2, <1>3, <2>1
<1>6. stack'[n] = f /\ \A i \in 1 .. n - 1 : stack'[i] = stack[i]
  <2>1. n \in 1 .. n /\ \A i \in 1 .. n - 1 : i \in 1 .. n
    BY <1>1
  <2> QED
    BY <1>2, <1>5, <2>1
<1>7. \A i \in 1 .. n + 1 : i = n + 1 \/ i = n \/ i \in 1 .. n - 1
  BY <1>1
<1>8. \A i \in DOMAIN stack' : FrameOK(stack[i])'
  <2> SUFFICES ASSUME NEW i \in 1 .. n + 1 PROVE FrameOK(stack[i])'
    BY <1>5
  <2>1. CASE i = n
    BY <1>6, <2>1
  <2>2. CASE i \in 1 .. n - 1
    BY <1>6, <2>2, LowerKept DEF n
  <2>3. CASE i = n + 1
    <3>1. stack'[i].at = "find"
      BY <1>3, <1>5, <2>3
    <3> QED
      BY <3>1 DEF FrameOK, Busy
  <2> QED
    BY <1>7, <2>1, <2>2, <2>3
<1>9. Nested'
  <2> SUFFICES ASSUME NEW i \in 1 .. n
               PROVE  /\ stack'[i].at \in Waiting
                      /\ stack'[i + 1].name = Callee(stack[i])' /\ stack'[i + 1].orig = Asker(stack[i])'
    BY <1>1, <1>5 DEF Nested
  <2>0. file' = file
    BY DEF Inner, Stable
  <2>1. CASE i = n
    <3>1. stack'[i] = f /\ stack'[i].at \in Waiting
      BY <1>4, <1>6, <2>1
    <3>2. Callee(stack[i])' = d
      BY <2>0, <3>1 DEF Callee
    <3>3. Asker(stack[i])' = o
      BY <3>1 DEF Asker
    <3>4. stack'[i + 1].name = d /\ stack'[i + 1].orig = o
      BY <1>3, <1>5, <2>1
    <3> QED
      BY <3>1, <3>2, <3>3, <3>4
  <2>2. CASE i \in 1 .. n - 1
    <3>1. stack[i].at \in Waiting /\ stack[i + 1].name = Callee(stack[i]) /\ stack[i + 1].orig = Asker(stack[i])
      BY <2>2 DEF IInv, Nested, n
    <3>2. Callee(stack[i])' = Callee(stack[i]) /\ Asker(stack[i])' = Asker(stack[i]) /\ stack'[i] = stack[i]
      <4>1. stack'[i] = stack[i]
        BY <1>6, <2>2
      <4>2. Callee(stack[i])' = Callee(stack[i])
        BY <2>0, <4>1 DEF Callee
      <4>3. Asker(stack[i])' = Asker(stack[i])
        BY <4>1 DEF Asker
      <4> QED
        BY <4>1, <4>2, <4>3
    <3>3. stack'[i + 1].name = stack[i + 1].name /\ stack'[i + 1].orig = stack[i + 1].orig
      <4>1. i + 1 = n \/ i + 1 \in 1 .. n - 1
        BY <1>1, <2>2
      <4> QED
        BY <1>1, <1>4, <1>6, <4>1
    <3> QED
      BY <3>1, <3>2, <3>3
  <2>3. i = n \/ i \in 1 .. n - 1
    BY <1>1
  <2> QED
    BY <2>1, <2>2, <2>3
<1>10. Distinct'
  <2> SUFFICES ASSUME NEW i \in 1 .. n + 1, NEW j \in 1 .. n + 1, i # j,
                      stack'[i].at # "find", stack'[j].at # "find"
               PROVE  stack'[i].name # stack'[j].name
    BY <1>5 DEF Distinct
  <2>0. i # n + 1 /\ j # n + 1
    BY <1>3, <1>5
  <2>1. CASE i = n \/ j = n
    <3>1. \A l \in 1 .. n - 1 : stack[l].name # c
      BY DEF n
    <3>2. \A l \in 1 .. n - 1 : stack'[l].name # c
      BY <1>6, <3>1
    <3>3. stack'[n].name = c
      BY <1>4, <1>6
    <3>4. CASE i = n
      <4>1. j \in 1 .. n - 1
        BY <1>7, <2>0, <3>4
      <4> QED
        BY <3>2, <3>3, <3>4, <4>1
    <3>5. CASE j = n
      <4>1. i \in 1 .. n - 1
        BY <1>7, <2>0, <3>5
      <4> QED
        BY <3>2, <3>3, <3>5, <4>1
    <3> QED
      BY <2>1, <3>4, <3>5
  <2>2. CASE i \in 1 .. n - 1 /\ j \in 1 .. n - 1
    <3>1. i \in DOMAIN stack /\ j \in DOMAIN stack
      BY <1>1, <2>2
    <3>2. stack'[i] = stack[i] /\ stack'[j] = stack[j]
      BY <1>6, <2>2
    <3>3. Distinct
      BY DEF IInv
    <3> QED
      BY <3>1, <3>2, <3>3 DEF Distinct
  <2> QED
    BY <1>7, <2>0, <2>1, <2>2
<1>11. Top' = new /\ stack' # <<>>
  BY <1>1, <1>5 DEF Top
<1>12. Returned'
  BY <1>3, <1>11 DEF Returned, Waiting
<1>13. Unwound'
  <2>1. call' = call /\ call.kind \notin {"idle", "failed"}
    BY DEF Inner, IInv, Unwound
  <2>2. lock = n + (IF call.kind = "link" THEN 1 ELSE 0)
    <3>1. lock \in Nat
      BY DEF IInv, TypeOK
    <3>2. lock = n + (IF call.kind = "link" THEN 1 ELSE 0) - 0
      BY <2>1 DEF IInv, Unwound, n
    <3> QED
      BY <1>1, <3>1, <3>2
  <2>3. lock' = Len(stack') + (IF call'.kind = "link" THEN 1 ELSE 0) - 1
    BY <1>1, <1>5, <2>1, <2>2
  <2>4. stack' # <<>> /\ ~thrown' /\ Top'.at = "find"
    BY <1>3, <1>11
  <2> QED
    BY <2>1, <2>3, <2>4 DEF Unwound
<1>14. Outermost'
  <2>1. call' = call /\ Stable
    BY DEF Inner
  <2>2. stack'[1].name = stack[1].name /\ stack'[1].orig = stack[1].orig
    <3>1. 1 = n \/ 1 \in 1 .. n - 1
      BY <1>1
    <3> QED
      BY <1>1, <1>4, <1>6, <3>1
  <2>3. /\ call.kind = "link" => call.orig \in Class /\ state[call.orig] = "linked"
        /\ call.kind \in {"forName", "throwNew", "link"} => call.name \in Name
        /\ call.kind \in {"forName", "link"} => stack[1].name = call.name /\ stack[1].orig = Asked
    BY DEF IInv, Outermost
  <2>4. call.kind = "link" => state'[call.orig] = "linked"
    BY <2>1, <2>3 DEF Stable, Name
  <2> QED
    BY <1>11, <2>1, <2>2, <2>3, <2>4 DEF Outermost, Asked
<1> QED
  BY <1>8, <1>9, <1>10, <1>12, <1>13, <1>14, ClassesKept DEF IInv

\* It throws.
LEMMA ThrowInv ==
    ASSUME IInv, TypeOK', stack # <<>>, ~thrown, NEW c \in Name, Inner(c), stack' = stack,
           \A i \in DOMAIN stack : FrameOK(stack[i])',
           lock' = lock + (IF Top.at = "find" THEN 1 ELSE 0), data' = NoClassDef, thrown' = TRUE
    PROVE  IInv'
<1>1. file' = file /\ call' = call /\ Stable
  BY DEF Inner, Stable
<1>2. Nested' /\ Distinct' /\ Returned'
  <2>1. Nested'
    BY <1>1 DEF IInv, Nested, Callee, Asker
  <2>2. Distinct'
    BY DEF IInv, Distinct
  <2> QED
    BY <2>1, <2>2 DEF Returned
<1>3. Unwound'
  <2>1. call.kind \notin {"idle", "failed"}
    BY DEF IInv, Unwound
  <2>2. lock = Len(stack) + (IF call.kind = "link" THEN 1 ELSE 0) - (IF Top.at = "find" THEN 1 ELSE 0)
    BY <2>1 DEF IInv, Unwound
  <2>3. lock \in Nat /\ Len(stack) \in Nat
    BY TopFacts DEF IInv, TypeOK
  <2>4. lock' = Len(stack') + (IF call'.kind = "link" THEN 1 ELSE 0) - 0
    BY <1>1, <2>2, <2>3
  <2> QED
    BY <1>1, <2>1, <2>4 DEF Unwound
<1>4. Outermost'
  <2>1. /\ call.kind = "link" => call.orig \in Class /\ state[call.orig] = "linked"
        /\ call.kind \in {"forName", "throwNew", "link"} => call.name \in Name
        /\ call.kind \in {"forName", "link"} => stack[1].name = call.name /\ stack[1].orig = Asked
    BY DEF IInv, Outermost
  <2>2. call.kind = "link" => state'[call.orig] = "linked"
    BY <1>1, <2>1 DEF Stable, Name
  <2> QED
    BY <1>1, <2>1, <2>2 DEF Outermost, Asked
<1>5. \A i \in DOMAIN stack' : FrameOK(stack[i])'
  OBVIOUS
<1> QED
  BY <1>2, <1>3, <1>4, <1>5, ClassesKept DEF IInv

-----------------------------------------------------------------------------
\* The call below the innermost one is the next to go on, or to fail.
LEMMA FrontFacts ==
    ASSUME NEW s \in Seq(Frames), s # <<>>
    PROVE  /\ Front(s) \in Seq(Frames) /\ Len(Front(s)) = Len(s) - 1
           /\ \A i \in 1 .. Len(s) - 1 : Front(s)[i] = s[i]
           /\ DOMAIN Front(s) = 1 .. Len(s) - 1
<1> DEFINE n == Len(s)
<1>1. n \in Nat \ {0} /\ DOMAIN s = 1 .. n
  BY EmptySeq
<1>2. Front(s) = [i \in 1 .. n - 1 |-> s[i]]
  BY <1>1 DEF Front
<1>3. \A i \in 1 .. n - 1 : i \in 1 .. n
  BY <1>1
<1>4. n - 1 \in Nat /\ \A i \in 1 .. n - 1 : s[i] \in Frames
  BY <1>1, <1>3
<1> HIDE DEF n
<1>5. Front(s) \in Seq(Frames) /\ Len(Front(s)) = n - 1
  BY <1>2, <1>4
<1> QED
  BY <1>2, <1>4, <1>5 DEF n

LEMMA BackInv ==
    ASSUME IInv, stack # <<>>, UNCHANGED <<others, cls, state, table, data, interfaceMethods>>,
           stack' = Front(stack), lock' = lock - 1, thrown' = thrown,
           thrown \/ Top.at = "leave"
    PROVE  IInv'
<1> DEFINE n == Len(stack)
<1>1. /\ n \in Nat \ {0} /\ DOMAIN stack = 1 .. n /\ stack \in Seq(Frames) /\ Top = stack[n]
      /\ FrameOK(Top) /\ n \in DOMAIN stack
      /\ Top.name \in Name
  BY TopFacts
<1>2. /\ stack' \in Seq(Frames) /\ Len(stack') = n - 1 /\ DOMAIN stack' = 1 .. n - 1
      /\ \A i \in 1 .. n - 1 : stack'[i] = stack[i]
  BY <1>1, FrontFacts
<1> HIDE DEF n
<1>3. /\ file' = file /\ cls' = cls /\ state' = state /\ table' = table /\ data' = data
      /\ call' = call /\ answers' = answers /\ resolved' = resolved /\ interfaceMethods' = interfaceMethods
  BY DEF others
<1>4. Stable
  BY <1>3 DEF Stable
<1>5. lock = n + (IF call.kind = "link" THEN 1 ELSE 0) \/ call.kind = "failed"
  <2>1. lock \in Nat
    BY DEF IInv, TypeOK
  <2>2. lock = n + (IF call.kind = "link" THEN 1 ELSE 0) - 0 \/ call.kind = "failed"
    BY DEF IInv, Unwound, n
  <2> QED
    BY <1>1, <2>1, <2>2
<1>6. call.kind \notin {"idle", "failed"}
  BY DEF IInv, Unwound
<1>7. TypeOK'
  <2>1. lock' \in Nat
    BY <1>1, <1>5, <1>6
  <2> QED
    BY <1>2, <1>3, <2>1 DEF IInv, TypeOK
<1>8. \A i \in 1 .. n - 1 : i \in DOMAIN stack
  BY <1>1
<1>9. \A i \in DOMAIN stack' : FrameOK(stack[i])'
  <2> SUFFICES ASSUME NEW i \in 1 .. n - 1 PROVE FrameOK(stack[i])'
    BY <1>2
  <2>1. PICK g \in Frames : g = stack[i]
    BY <1>1, <1>8
  <2>2. FrameOK(g) /\ g.name \in Name /\ ClassPath(file)
    BY <1>8, <2>1, WorldAssumption DEF IInv, TypeOK, Frames
  <2>3. FrameOK(g)'
    BY <1>3, <1>4, <2>2, FrameKept
  <2> QED
    BY <1>2, <2>1, <2>3
<1>10. Nested'
  <2> SUFFICES ASSUME NEW i \in 1 .. n - 1 - 1
               PROVE  /\ stack'[i].at \in Waiting
                      /\ stack'[i + 1].name = Callee(stack[i])' /\ stack'[i + 1].orig = Asker(stack[i])'
    BY <1>2 DEF Nested
  <2>1. i \in 1 .. n - 1 /\ i + 1 \in 1 .. n - 1
    BY <1>1
  <2>2. stack[i].at \in Waiting /\ stack[i + 1].name = Callee(stack[i]) /\ stack[i + 1].orig = Asker(stack[i])
    BY <2>1 DEF IInv, Nested, n
  <2>3. Callee(stack[i])' = Callee(stack[i]) /\ Asker(stack[i])' = Asker(stack[i])
    BY <1>2, <1>3, <2>1 DEF Callee, Asker
  <2> QED
    BY <1>2, <2>1, <2>2, <2>3
<1>11. Distinct'
  <2> SUFFICES ASSUME NEW i \in 1 .. n - 1, NEW j \in 1 .. n - 1, i # j,
                      stack'[i].at # "find", stack'[j].at # "find"
               PROVE  stack'[i].name # stack'[j].name
    BY <1>2 DEF Distinct
  <2>1. Distinct
    BY DEF IInv
  <2> QED
    BY <1>2, <1>8, <2>1 DEF Distinct
<1>12. ASSUME stack' # <<>>
       PROVE  /\ Top' = stack[n - 1] /\ Top'.at # "find"
              /\ Top.name = Callee(Top)' /\ Top.orig = Asker(Top)'
              /\ stack'[1] = stack[1]
  <2>1. n - 1 \in 1 .. n - 1 /\ 1 \in 1 .. n - 1
    <3>1. n - 1 # 0
      BY <1>2, <1>12, EmptySeq
    <3> QED
      BY <1>1, <3>1
  <2>2. Top' = stack[n - 1] /\ stack'[1] = stack[1]
    BY <1>2, <2>1 DEF Top
  <2>3. /\ stack[n - 1].at \in Waiting
        /\ stack[n - 1 + 1].name = Callee(stack[n - 1]) /\ stack[n - 1 + 1].orig = Asker(stack[n - 1])
    BY <2>1 DEF IInv, Nested, n
  <2>4. n - 1 + 1 = n
    BY <1>1
  <2>5. Callee(Top)' = Callee(stack[n - 1]) /\ Asker(Top)' = Asker(stack[n - 1])
    BY <1>3, <2>2 DEF Callee, Asker
  <2> QED
    BY <1>1, <2>2, <2>3, <2>4, <2>5 DEF Waiting
<1>13. ~thrown => Found(Top.name, Top.orig)
  BY <1>1 DEF FrameOK, Found
<1>14. \A d, o : Found(d, o)' <=> Found(d, o)
  BY <1>3 DEF Found, Accessible, Package
<1>15. Returned'
  <2> SUFFICES ASSUME stack' # <<>>, ~thrown PROVE Found(Callee(Top), Asker(Top))'
    BY DEF Returned
  <2>1. PICK d, o : d = Top.name /\ o = Top.orig
    OBVIOUS
  <2>2. Found(d, o)'
    BY <1>13, <1>14, <2>1
  <2> QED
    BY <1>12, <2>1, <2>2
<1>16. Unwound'
  <2>1. lock' = n - 1 + (IF call.kind = "link" THEN 1 ELSE 0) - 0
    BY <1>1, <1>5, <1>6
  <2>2. ~(stack' # <<>> /\ ~thrown' /\ Top'.at = "find")
    BY <1>12
  <2>3. (thrown => data = NoClassDef) /\ (~thrown => data = 0)
    BY <1>6 DEF IInv, Unwound
  <2> QED
    BY <1>2, <1>3, <1>6, <2>1, <2>2, <2>3 DEF Unwound
<1>17. Outermost'
  <2>1. /\ call.kind = "link" => call.orig \in Class /\ state[call.orig] = "linked"
        /\ call.kind \in {"forName", "throwNew", "link"} => call.name \in Name
        /\ call.kind \in {"forName", "link"} => stack[1].name = call.name /\ stack[1].orig = Asked
    BY DEF IInv, Outermost
  <2>2. ASSUME stack' = <<>>, ~thrown, call.kind \in {"forName", "link"}
        PROVE  Found(call.name, Asked)
    <3>1. n = 1
      BY <1>1, <1>2, <2>2
    <3> QED
      BY <1>1, <1>13, <2>1, <2>2, <3>1
  <2>3. Asked' = Asked
    BY <1>3 DEF Asked
  <2>4. ASSUME stack' = <<>>, ~thrown, call.kind \in {"forName", "link"}
        PROVE  Found(call.name, Asked)'
    <3>1. PICK d, o : d = call.name /\ o = Asked
      OBVIOUS
    <3>2. Found(d, o)'
      BY <1>14, <2>2, <2>4, <3>1
    <3> QED
      BY <1>3, <2>3, <3>1, <3>2
  <2> QED
    BY <1>3, <1>12, <2>1, <2>3, <2>4 DEF Outermost
<1>18. Untouched' /\ Whole' /\ Granted'
  <2>1. Untouched'
    BY <1>3 DEF IInv, Untouched
  <2>2. Whole'
    <3> SUFFICES ASSUME NEW d \in Name, state'[d] = "linked" PROVE Complete(d)'
      BY DEF Whole
    <3>1. Complete(d) /\ ClassPath(file)
      BY <1>3, WorldAssumption DEF IInv, TypeOK, Whole
    <3> QED
      BY <1>3, <1>4, <3>1, CompleteKept
  <2>3. Granted'
    BY <1>3, <1>14 DEF IInv, Granted
  <2> QED
    BY <2>1, <2>2, <2>3
<1> QED
  BY <1>7, <1>9, <1>10, <1>11, <1>15, <1>16, <1>17, <1>18 DEF IInv

-----------------------------------------------------------------------------
(* The actions of a call.                                                  *)

\* A call that runs: its class is no other call's, unless it is just looked up.
LEMMA RunningFacts ==
    ASSUME IInv, NEW at, Running(at)
    PROVE  /\ stack # <<>> /\ ~thrown /\ Top.at = at /\ Top.name \in Name
           /\ at # "find" => data = 0
           /\ at # "find" \/ state[Top.name] # "linking" =>
                    \A i \in 1 .. Len(stack) - 1 : stack[i].name # Top.name
<1>1. stack # <<>> /\ ~thrown /\ Top.at = at
  BY DEF Running
<1>2. /\ Len(stack) \in Nat \ {0} /\ DOMAIN stack = 1 .. Len(stack) /\ Top = stack[Len(stack)]
      /\ Top.name \in Name
  BY <1>1, TopFacts
<1>3. at # "find" => data = 0
  BY <1>1 DEF IInv, Unwound
<1>4. ASSUME NEW i \in 1 .. Len(stack) - 1, at # "find" \/ state[Top.name] # "linking"
      PROVE  stack[i].name # Top.name
  <2>1. i \in DOMAIN stack /\ Len(stack) \in DOMAIN stack /\ i # Len(stack)
    <3>1. \A n \in Nat \ {0} : \A j \in 1 .. n - 1 : j \in 1 .. n /\ n \in 1 .. n /\ j # n
      OBVIOUS
    <3> QED
      BY <1>2, <3>1
  <2>2. stack[i].at \in Waiting /\ FrameOK(stack[i])
    BY <2>1 DEF IInv, Nested
  <2>3. stack[i].at # "find" /\ state[stack[i].name] = "linking"
    BY <2>2 DEF Waiting, Busy, Places, FrameOK
  <2>4. CASE at # "find"
    BY <1>1, <1>2, <2>1, <2>3, <2>4 DEF IInv, Distinct
  <2>5. CASE state[Top.name] # "linking"
    BY <2>3, <2>5
  <2> QED
    BY <1>4, <2>4, <2>5
<1> QED
  BY <1>1, <1>2, <1>3, <1>4

\* Steps that change no class, and steps that change the one that is being linked.
LEMMA QuietStep ==
    ASSUME IInv, NEW c \in Name, state[c] \in {"linking", "linked"},
           UNCHANGED <<others, cls, state>>
    PROVE  Inner(c)
<1>1. /\ file' = file /\ cls' = cls /\ state' = state
      /\ call' = call /\ answers' = answers /\ resolved' = resolved
  BY DEF others
<1>2. Stable
  BY <1>1 DEF Stable
<1>3. state[c] = "linked" => Complete(c)'
  <2>1. state[c] = "linked" => Complete(c) /\ ClassPath(file)
    BY WorldAssumption DEF IInv, TypeOK, Whole
  <2> QED
    BY <1>1, <1>2, <2>1, CompleteKept
<1> QED
  BY <1>1, <1>2, <1>3 DEF Inner

LEMMA LinkingStep ==
    ASSUME IInv, NEW c \in Name, state[c] = "linking", NEW r, cls' = [cls EXCEPT ![c] = r],
           DOMAIN r = DOMAIN NoClass, UNCHANGED <<others, state>>
    PROVE  /\ Inner(c) /\ Stable /\ cls'[c] = r /\ file' = file
           /\ DOMAIN cls' = Name /\ \A d \in Name : DOMAIN cls'[d] = DOMAIN NoClass
<1>1. /\ file' = file /\ state' = state
      /\ call' = call /\ answers' = answers /\ resolved' = resolved
  BY DEF others
<1>2. DOMAIN cls = Name /\ \A d \in Name : DOMAIN cls[d] = DOMAIN NoClass
  BY DEF IInv, TypeOK
<1>3. cls'[c] = r /\ DOMAIN cls' = Name /\ \A d \in Name : d # c => cls'[d] = cls[d]
  BY <1>2
<1>4. \A d \in Name : DOMAIN cls'[d] = DOMAIN NoClass
  BY <1>2, <1>3
<1>5. Stable
  BY <1>1, <1>3 DEF Stable
<1> QED
  BY <1>1, <1>3, <1>4, <1>5 DEF Inner

\* Steps that leave the classes alone.
LEMMA GotoQuiet ==
    ASSUME IInv, NEW at, Running(at), at # "find",
           UNCHANGED <<others, cls, state, table, lock, thrown, data, interfaceMethods>>,
           NEW to \in {"parse", "interfaces", "attributes", "created", "check", "leave"},
           NEW k \in Nat, Goto(to, k), FrameOK(At(Top, to, k))
    PROVE  IInv'
<1> PICK f : f = At(Top, to, k)
  OBVIOUS
<1>1. PICK c \in Name : c = Top.name
  BY RunningFacts
<1>2. /\ stack # <<>> /\ ~thrown /\ Top.at = at /\ data = 0
      /\ \A i \in 1 .. Len(stack) - 1 : stack[i].name # c
  BY <1>1, RunningFacts
<1>3. /\ stack \in Seq(Frames) /\ Top = stack[Len(stack)] /\ to \in Places /\ FrameOK(Top)
      /\ at \in Places
  BY <1>2, TopFacts DEF Places
<1>4. stack' = Moved(stack, to, k)
  BY DEF Goto, Moved
<1>5. stack' \in Seq(Frames) /\ f \in Frames
  BY <1>2, <1>3, <1>4, MovedFacts
<1>6. /\ file' = file /\ cls' = cls /\ state' = state /\ table' = table /\ data' = 0 /\ lock' = lock
      /\ thrown' = FALSE /\ interfaceMethods' = interfaceMethods
      /\ call' = call /\ answers' = answers /\ resolved' = resolved
  BY <1>2 DEF others, IInv, TypeOK
<1>7. TypeOK'
  BY <1>5, <1>6 DEF IInv, TypeOK
<1>8. state[c] \in {"linking", "linked"}
  BY <1>1, <1>2, <1>3 DEF FrameOK, Busy
<1>9. Inner(c)
  BY <1>8, QuietStep
<1>10. FrameOK(f)'
  <2>1. f.name = c
    BY <1>1 DEF At
  <2>2. Stable /\ ClassPath(file)
    BY <1>9, WorldAssumption DEF Inner, IInv, TypeOK
  <2> QED
    BY <1>5, <1>6, <2>1, <2>2, FrameKept
<1>11. lock' = lock + (IF Top.at = "find" THEN 1 ELSE 0)
  BY <1>2, <1>6 DEF IInv, TypeOK
<1> QED
  BY <1>1, <1>2, <1>4, <1>6, <1>7, <1>9, <1>10, <1>11, GotoInv

LEMMA ThrowQuiet ==
    ASSUME IInv, NEW at, Running(at), at = "find" => state[Top.name] = "linking",
           UNCHANGED <<others, cls, state, table, interfaceMethods, stack>>, Throw,
           lock' = lock + (IF at = "find" THEN 1 ELSE 0)
    PROVE  IInv'
<1>1. PICK c \in Name : c = Top.name
  BY RunningFacts
<1>2. stack # <<>> /\ ~thrown /\ Top.at = at
  BY RunningFacts
<1>3. FrameOK(Top) /\ at \in Places /\ stack \in Seq(Frames)
  BY <1>2, TopFacts
<1>4. /\ file' = file /\ cls' = cls /\ state' = state /\ table' = table
      /\ data' = NoClassDef /\ thrown' = TRUE /\ interfaceMethods' = interfaceMethods /\ stack' = stack
      /\ call' = call /\ answers' = answers /\ resolved' = resolved
  BY DEF others, Throw
<1>5. lock' \in Nat
  BY DEF IInv, TypeOK
<1>6. TypeOK'
  BY <1>4, <1>5 DEF IInv, TypeOK
<1>7. state[c] \in {"linking", "linked"}
  BY <1>1, <1>2, <1>3 DEF FrameOK, Busy
<1>8. Inner(c)
  BY <1>7, QuietStep
<1>9. \A i \in DOMAIN stack : FrameOK(stack[i])'
  <2> SUFFICES ASSUME NEW i \in DOMAIN stack PROVE FrameOK(stack[i])'
    OBVIOUS
  <2>1. PICK g \in Frames : g = stack[i]
    BY <1>3
  <2>2. FrameOK(g) /\ ClassPath(file) /\ Stable
    BY <1>8, <2>1, WorldAssumption DEF IInv, TypeOK, Inner
  <2>3. FrameOK(g)'
    BY <1>4, <2>2, FrameKept
  <2> QED
    BY <1>4, <2>1, <2>3
<1> QED
  BY <1>2, <1>4, <1>6, <1>8, <1>9, ThrowInv

LEMMA ResolveQuiet ==
    ASSUME IInv, NEW at, Running(at), at # "find",
           UNCHANGED <<others, cls, state, table, lock, thrown, data, interfaceMethods>>,
           NEW to \in Waiting, NEW k \in Nat, NEW f, f = At(Top, to, k), FrameOK(f),
           NEW d \in Name, d = Callee(f), NEW o \in Name \cup {None}, o = Asker(f),
           Resolve(d, o, to, k)
    PROVE  IInv'
<1>1. PICK c \in Name : c = Top.name
  BY RunningFacts
<1>2. /\ stack # <<>> /\ ~thrown /\ Top.at = at /\ data = 0
      /\ \A i \in 1 .. Len(stack) - 1 : stack[i].name # c
  BY <1>1, RunningFacts
<1>3. /\ stack \in Seq(Frames) /\ Top = stack[Len(stack)] /\ to \in Places /\ FrameOK(Top)
      /\ at \in Places
  BY <1>2, TopFacts DEF Places, Waiting
<1>4. stack' = Append(Moved(stack, to, k), Frame(d, o))
  BY DEF Resolve, Moved
<1>5. Moved(stack, to, k) \in Seq(Frames) /\ f \in Frames /\ Frame(d, o) \in Frames
  <2>1. Frame(d, o) \in Frames
    BY DEF Frame, Frames, Places
  <2> QED
    BY <1>2, <1>3, <2>1, MovedFacts
<1>6. /\ file' = file /\ cls' = cls /\ state' = state /\ table' = table /\ data' = 0 /\ lock' = lock
      /\ thrown' = FALSE /\ interfaceMethods' = interfaceMethods
      /\ call' = call /\ answers' = answers /\ resolved' = resolved
  BY <1>2 DEF others, IInv, TypeOK
<1>7. TypeOK'
  <2>1. stack' \in Seq(Frames)
    BY <1>4, <1>5
  <2> QED
    BY <1>6, <2>1 DEF IInv, TypeOK
<1>8. state[c] \in {"linking", "linked"}
  BY <1>1, <1>2, <1>3 DEF FrameOK, Busy
<1>9. Inner(c)
  BY <1>8, QuietStep
<1>10. FrameOK(f)'
  <2>1. f.name = c
    BY <1>1 DEF At
  <2>2. Stable /\ ClassPath(file)
    BY <1>9, WorldAssumption DEF Inner, IInv, TypeOK
  <2> QED
    BY <1>5, <1>6, <2>1, <2>2, FrameKept
<1> QED
  BY <1>1, <1>2, <1>4, <1>6, <1>7, <1>9, <1>10, ResolveInv

LEMMA FindStep == ASSUME IInv, Find PROVE IInv'
<1>1. PICK c \in Name : c = Top.name
  BY RunningFacts DEF Find
<1>2. /\ Running("find") /\ lock' = lock + 1 /\ stack # <<>> /\ ~thrown /\ Top.at = "find"
      /\ cls' = cls /\ interfaceMethods' = interfaceMethods
      /\ file' = file /\ call' = call /\ answers' = answers /\ resolved' = resolved
  BY RunningFacts DEF Find, others
<1>3. /\ stack \in Seq(Frames) /\ Top = stack[Len(stack)] /\ state[c] \in {"absent", "preloaded", "linking", "linked"}
      /\ lock \in Nat /\ lock' \in Nat
  BY <1>2, TopFacts DEF IInv, TypeOK
<1>4. CASE state[c] = "linking"
  <2>1. Throw /\ UNCHANGED <<others, cls, state, table, interfaceMethods, stack>>
    BY <1>1, <1>4 DEF Find
  <2> QED
    BY <1>1, <1>2, <1>4, <2>1, ThrowQuiet
<1>5. CASE state[c] # "linking"
  <2> PICK to \in {"check", "parse"} : to = IF state[c] = "linked" THEN "check" ELSE "parse"
    OBVIOUS
  <2> PICK f : f = At(Top, to, 1)
    OBVIOUS
  <2>1. \A i \in 1 .. Len(stack) - 1 : stack[i].name # c
    BY <1>1, <1>2, <1>5, RunningFacts
  <2>2. /\ state' = IF state[c] = "linked" THEN state ELSE [state EXCEPT ![c] = "linking"]
        /\ table' = IF state[c] = "absent" THEN Append(table, c) ELSE table
        /\ data' = 0 /\ thrown' = FALSE /\ Goto(to, 1)
    BY <1>1, <1>2, <1>5 DEF Find, IInv, TypeOK
  <2>3. stack' = Moved(stack, to, 1)
    BY <2>2 DEF Goto, Moved
  <2>4. stack' \in Seq(Frames) /\ f \in Frames
    BY <1>2, <1>3, <2>3, MovedFacts DEF Places
  <2>5. f.name = c /\ f.orig = Top.orig /\ f.at = to /\ f.k = 1
    BY <1>1 DEF At
  <2>6. state' \in [Name -> {"absent", "preloaded", "linking", "linked"}]
    BY <2>2 DEF IInv, TypeOK
  <2>7. \A d \in Name : d # c => state'[d] = state[d]
    BY <2>2 DEF IInv, TypeOK
  <2>8. state'[c] = IF state[c] = "linked" THEN "linked" ELSE "linking"
    BY <2>2 DEF IInv, TypeOK
  <2>9. table' \in Seq(Name) /\ IsInjective(table') /\ ToSet(table') = {d \in Name : state'[d] # "absent"}
    <3>1. table \in Seq(Name) /\ IsInjective(table) /\ ToSet(table) = {d \in Name : state[d] # "absent"}
      BY DEF IInv, TypeOK
    <3>2. CASE state[c] # "absent"
      BY <2>2, <2>7, <2>8, <3>1, <3>2
    <3>3. CASE state[c] = "absent"
      <4>1. table' = Append(table, c) /\ c \notin ToSet(table)
        BY <2>2, <3>1, <3>3
      <4>2. /\ table' \in Seq(Name) /\ Len(table') = Len(table) + 1 /\ table'[Len(table) + 1] = c
            /\ \A i \in 1 .. Len(table) : table'[i] = table[i]
            /\ DOMAIN table' = 1 .. Len(table) + 1 /\ DOMAIN table = 1 .. Len(table) /\ Len(table) \in Nat
        BY <3>1, <4>1
      <4>3. \A i \in 1 .. Len(table) + 1 : i = Len(table) + 1 \/ i \in 1 .. Len(table)
        BY <4>2
      <4>4. IsInjective(table')
        <5>1. \A i \in 1 .. Len(table) : table[i] # c
          BY <4>1, <4>2 DEF ToSet
        <5> QED
          BY <3>1, <4>2, <4>3, <5>1 DEF IsInjective
      <4>5. ToSet(table') = ToSet(table) \cup {c}
        <5>1. \A i \in 1 .. Len(table) : i \in 1 .. Len(table) + 1
          BY <4>2
        <5>2. Len(table) + 1 \in 1 .. Len(table) + 1
          BY <4>2
        <5> QED
          BY <4>2, <4>3, <5>1, <5>2 DEF ToSet
      <4> QED
        BY <2>7, <2>8, <3>1, <3>3, <4>2, <4>4, <4>5
    <3> QED
      BY <3>2, <3>3
  <2>10. TypeOK'
    BY <1>2, <1>3, <2>2, <2>4, <2>6, <2>9 DEF IInv, TypeOK
  <2>11. Stable
    BY <1>2, <2>7, <2>8 DEF Stable
  <2>12. Inner(c)
    <3>1. state'[c] = "linked" => Complete(c)'
      <4>1. state'[c] = "linked" => Complete(c) /\ ClassPath(file)
        BY <2>8, WorldAssumption DEF IInv, TypeOK, Whole
      <4> QED
        BY <1>2, <2>11, <4>1, CompleteKept
    <3> QED
      BY <1>2, <2>7, <2>8, <2>11, <3>1 DEF Inner
  <2>13. FrameOK(f)'
    <3>1. CASE state[c] = "linked"
      BY <2>5, <2>8, <3>1 DEF FrameOK, Busy
    <3>2. CASE state[c] # "linked"
      <4>1. cls'[c] = NoClass
        BY <1>2, <1>3, <1>5, <3>2 DEF IInv, Untouched
      <4> QED
        BY <2>5, <2>8, <3>2, <4>1 DEF FrameOK, Busy
    <3> QED
      BY <3>1, <3>2
  <2> QED
    BY <1>1, <1>2, <2>1, <2>2, <2>3, <2>10, <2>12, <2>13, GotoInv
<1> QED
  BY <1>4, <1>5

LEMMA AttributesStep == ASSUME IInv, Attributes PROVE IInv'
<1>1. PICK c \in Name : c = Top.name
  BY RunningFacts DEF Attributes
<1>2. /\ Running("attributes") /\ Top.at = "attributes" /\ FrameOK(Top)
      /\ UNCHANGED <<others, cls, state, table, lock, interfaceMethods>>
  BY RunningFacts, TopFacts DEF Attributes
<1>3. CASE file[c].fault = "attributes"
  <2>1. Throw /\ stack' = stack
    BY <1>1, <1>3 DEF Attributes
  <2>2. lock' = lock + (IF "attributes" = "find" THEN 1 ELSE 0)
    BY <1>2 DEF IInv, TypeOK
  <2> QED
    BY <1>2, <2>1, <2>2, ThrowQuiet
<1>4. CASE file[c].fault # "attributes"
  <2>1. Goto("created", 1) /\ UNCHANGED <<thrown, data>>
    BY <1>1, <1>4 DEF Attributes
  <2>2. state[c] = "linking" /\ Derives(c)
    BY <1>1, <1>2 DEF FrameOK, Busy, Places
  <2>3. Complete(c)
    BY <1>4, <2>2 DEF Complete, Derives, Headed
  <2>4. FrameOK(At(Top, "created", 1))
    BY <1>1, <2>2, <2>3 DEF FrameOK, At
  <2> QED
    BY <1>2, <2>1, <2>4, GotoQuiet
<1> QED
  BY <1>3, <1>4

LEMMA CheckStep == ASSUME IInv, Check PROVE IInv'
<1>1. PICK c \in Name : c = Top.name
  BY RunningFacts DEF Check
<1>2. /\ Running("check") /\ Top.at = "check" /\ FrameOK(Top)
      /\ UNCHANGED <<others, cls, state, table, lock, interfaceMethods>>
  BY RunningFacts, TopFacts DEF Check
<1>3. CASE ~Accessible(c, Top.orig)
  <2>1. Throw /\ stack' = stack
    BY <1>1, <1>3 DEF Check
  <2>2. lock' = lock + (IF "check" = "find" THEN 1 ELSE 0)
    BY <1>2 DEF IInv, TypeOK
  <2> QED
    BY <1>2, <2>1, <2>2, ThrowQuiet
<1>4. CASE Accessible(c, Top.orig)
  <2>1. Goto("leave", 1) /\ UNCHANGED <<thrown, data>>
    BY <1>1, <1>4 DEF Check
  <2>2. state[c] = "linked"
    BY <1>1, <1>2 DEF FrameOK
  <2>3. FrameOK(At(Top, "leave", 1))
    BY <1>1, <1>4, <2>2 DEF FrameOK, At, Busy
  <2> QED
    BY <1>2, <2>1, <2>3, GotoQuiet
<1> QED
  BY <1>3, <1>4

LEMMA ImplementsStep == ASSUME IInv, Implements PROVE IInv'
<1>1. PICK c \in Name : c = Top.name
  BY RunningFacts DEF Implements
<1>2. PICK k \in Nat : k = Top.k
  BY RunningFacts, TopFacts DEF Implements
<1>3. /\ Running("implements") /\ Top.at = "implements" /\ FrameOK(Top)
      /\ UNCHANGED <<others, cls, state, table, lock, interfaceMethods>>
      /\ stack # <<>> /\ ~thrown
  BY RunningFacts, TopFacts DEF Implements
<1>4. CASE ~IsInterface(file[c].interfaces[k])
  <2>1. Throw /\ stack' = stack
    BY <1>1, <1>2, <1>4 DEF Implements
  <2>2. lock' = lock + (IF "implements" = "find" THEN 1 ELSE 0)
    BY <1>3 DEF IInv, TypeOK
  <2> QED
    BY <1>3, <2>1, <2>2, ThrowQuiet
<1>5. CASE IsInterface(file[c].interfaces[k])
  <2>1. Goto("interfaces", k + 1) /\ UNCHANGED <<thrown, data>>
    BY <1>1, <1>2, <1>5 DEF Implements
  <2>2. /\ state[c] = "linking" /\ Headed(c) /\ Extends(c) /\ \A j \in 1 .. k - 1 : Provides(c, j)
        /\ k \in 1 .. Len(file[c].interfaces) + 0
    BY <1>1, <1>2, <1>3 DEF FrameOK, Busy, Places
  <2>3. Found(file[c].interfaces[k], c)
    BY <1>1, <1>2, <1>3 DEF IInv, Returned, Waiting, Callee, Asker
  <2>4. Provides(c, k)
    <3>1. ~IsArray(file[c].interfaces[k])
      BY <1>1, <1>2, <1>5 DEF Implements
    <3> QED
      BY <1>5, <2>3, <3>1 DEF Provides
  <2>5. \A j \in 1 .. k + 1 - 1 : Provides(c, j)
    <3>1. \A j \in 1 .. k + 1 - 1 : j = k \/ j \in 1 .. k - 1
      OBVIOUS
    <3> QED
      BY <2>2, <2>4, <3>1
  <2>6. k + 1 \in 1 .. Len(file[c].interfaces) + 1
    <3>1. Len(file[c].interfaces) \in Nat
      BY <2>2, FileFacts, WorldAssumption DEF IInv, TypeOK, Headed
    <3>2. \A l \in Nat : k \in 1 .. l + 0 => k + 1 \in 1 .. l + 1
      OBVIOUS
    <3> QED
      BY <2>2, <3>1, <3>2
  <2>7. FrameOK(At(Top, "interfaces", k + 1))
    BY <1>1, <2>2, <2>5, <2>6 DEF FrameOK, At
  <2> QED
    BY <1>3, <2>1, <2>7, GotoQuiet
<1> QED
  BY <1>4, <1>5

LEMMA NextInterfaceStep == ASSUME IInv, NextInterface PROVE IInv'
<1>1. PICK c \in Name : c = Top.name
  BY RunningFacts DEF NextInterface
<1>2. PICK k \in Nat : k = Top.k
  BY RunningFacts, TopFacts DEF NextInterface
<1>3. /\ Running("interfaces") /\ Top.at = "interfaces" /\ FrameOK(Top)
      /\ UNCHANGED <<others, cls, state, table, lock, data, thrown, interfaceMethods>>
      /\ k =< Len(file[c].interfaces)
      /\ Resolve(file[c].interfaces[k], c, "implements", k)
  BY <1>1, <1>2, RunningFacts, TopFacts DEF NextInterface
<1>4. /\ state[c] = "linking" /\ Headed(c) /\ Extends(c) /\ \A j \in 1 .. k - 1 : Provides(c, j)
      /\ k \in 1 .. Len(file[c].interfaces) + 1
  BY <1>1, <1>2, <1>3 DEF FrameOK, Busy, Places
<1>5. /\ Len(file[c].interfaces) \in Nat /\ DOMAIN file[c].interfaces = 1 .. Len(file[c].interfaces)
      /\ \A j \in DOMAIN file[c].interfaces : file[c].interfaces[j] \in Name
  BY <1>4, FileFacts, WorldAssumption DEF IInv, TypeOK, Headed
<1>6. k \in 1 .. Len(file[c].interfaces) + 0 /\ k \in 1 .. Len(file[c].interfaces)
  <2>1. \A l \in Nat : k \in 1 .. l + 1 /\ k =< l => k \in 1 .. l + 0 /\ k \in 1 .. l
    OBVIOUS
  <2> QED
    BY <1>3, <1>4, <1>5, <2>1
<1>7. PICK d \in Name : d = file[c].interfaces[k]
  BY <1>5, <1>6
<1>8. PICK f : f = At(Top, "implements", k)
  OBVIOUS
<1>9. f.name = c /\ f.at = "implements" /\ f.k = k
  BY <1>1, <1>8 DEF At
<1>10. d = Callee(f) /\ c = Asker(f)
  BY <1>7, <1>9 DEF Callee, Asker
<1>11. FrameOK(f)
  BY <1>4, <1>6, <1>9 DEF FrameOK
<1> QED
  BY <1>3, <1>7, <1>8, <1>10, <1>11, ResolveQuiet DEF Waiting

LEMMA ParseArrayStep == ASSUME IInv, ParseArray PROVE IInv'
<1>1. PICK c \in Name : c = Top.name
  BY RunningFacts DEF ParseArray
<1>2. /\ Running("parse") /\ Top.at = "parse" /\ FrameOK(Top) /\ IsArray(c)
      /\ UNCHANGED <<others, cls, state, table, lock, data, thrown, interfaceMethods>>
  BY <1>1, RunningFacts, TopFacts DEF ParseArray
<1>3. state[c] = "linking"
  BY <1>1, <1>2 DEF FrameOK, Busy, Places
<1>4. CASE Elem[c] = "primitive"
  <2>1. Resolve(Object, None, "object", 1)
    BY <1>1, <1>4 DEF ParseArray
  <2>2. PICK f : f = At(Top, "object", 1)
    OBVIOUS
  <2>3. f.name = c /\ f.at = "object"
    BY <1>1, <2>2 DEF At
  <2>4. PICK d \in Name, o \in Name \cup {None} : d = Object /\ o = None
    BY NamesAssumption DEF Name
  <2>5. d = Callee(f) /\ o = Asker(f) /\ FrameOK(f)
    BY <1>2, <1>3, <1>4, <2>3, <2>4 DEF Callee, Asker, FrameOK
  <2> QED
    BY <1>2, <2>1, <2>2, <2>4, <2>5, ResolveQuiet DEF Waiting
<1>5. CASE Elem[c] # "primitive"
  <2>1. Resolve(Elem[c], None, "elem", 1)
    BY <1>1, <1>5 DEF ParseArray
  <2>2. PICK f : f = At(Top, "elem", 1)
    OBVIOUS
  <2>3. f.name = c /\ f.at = "elem"
    BY <1>1, <2>2 DEF At
  <2>4. PICK d \in Name, o \in Name \cup {None} : d = Elem[c] /\ o = None
    BY <1>2, <1>5, NamesAssumption DEF Name, IsArray
  <2>5. d = Callee(f) /\ o = Asker(f) /\ FrameOK(f)
    BY <1>2, <1>3, <1>5, <2>3, <2>4 DEF Callee, Asker, FrameOK
  <2> QED
    BY <1>2, <2>1, <2>2, <2>4, <2>5, ResolveQuiet DEF Waiting
<1> QED
  BY <1>4, <1>5

LEMMA ElementDoneStep == ASSUME IInv, ElementDone PROVE IInv'
<1>1. PICK c \in Name : c = Top.name
  BY RunningFacts DEF ElementDone
<1>2. /\ Running("elem") /\ Top.at = "elem" /\ FrameOK(Top) /\ stack # <<>> /\ ~thrown
      /\ UNCHANGED <<others, cls, state, table, lock, data, thrown, interfaceMethods>>
      /\ Resolve(Object, None, "object", 1)
  BY RunningFacts, TopFacts DEF ElementDone
<1>3. state[c] = "linking" /\ IsArray(c)
  BY <1>1, <1>2 DEF FrameOK, Busy, Places
<1>4. Found(Elem[c], None)
  BY <1>1, <1>2 DEF IInv, Returned, Waiting, Callee, Asker
<1>5. PICK f : f = At(Top, "object", 1)
  OBVIOUS
<1>6. f.name = c /\ f.at = "object"
  BY <1>1, <1>5 DEF At
<1>7. PICK d \in Name, o \in Name \cup {None} : d = Object /\ o = None
  BY NamesAssumption DEF Name
<1>8. d = Callee(f) /\ o = Asker(f) /\ FrameOK(f)
  BY <1>3, <1>4, <1>6, <1>7 DEF Callee, Asker, FrameOK
<1> QED
  BY <1>2, <1>5, <1>7, <1>8, ResolveQuiet DEF Waiting

LEMMA LeaveStep == ASSUME IInv, Leave PROVE IInv'
<1>1. /\ stack # <<>> /\ ~thrown /\ Top.at = "leave" /\ data = 0
  BY RunningFacts DEF Leave
<1>2. thrown' = thrown
  BY <1>1 DEF Leave, IInv, TypeOK
<1>3. /\ UNCHANGED <<others, cls, state, table, data, interfaceMethods>>
      /\ stack' = Front(stack) /\ lock' = lock - 1
  BY DEF Leave
<1> QED
  BY <1>1, <1>2, <1>3, BackInv

LEMMA RethrowStep == ASSUME IInv, Rethrow PROVE IInv'
<1>1. /\ stack # <<>> /\ thrown /\ thrown' = thrown
      /\ UNCHANGED <<others, cls, state, table, data, interfaceMethods>>
      /\ stack' = Front(stack) /\ lock' = lock - 1
  BY DEF Rethrow
<1> QED
  BY <1>1, BackInv

\* Steps that change the class that is being linked.
LEMMA GotoLinking ==
    ASSUME IInv, NEW at, Running(at), at # "find", NEW c \in Name, c = Top.name, state[c] = "linking",
           NEW r, cls' = [cls EXCEPT ![c] = r], DOMAIN r = DOMAIN NoClass,
           UNCHANGED <<others, state, table, lock, thrown, data>>, interfaceMethods' \in Nat,
           NEW to \in {"parse", "interfaces", "attributes", "created", "check", "leave"},
           NEW k \in Nat, Goto(to, k), NEW f, f = At(Top, to, k), FrameOK(f)'
    PROVE  IInv'
<1>1. /\ stack # <<>> /\ ~thrown /\ Top.at = at /\ data = 0
      /\ \A i \in 1 .. Len(stack) - 1 : stack[i].name # c
  BY RunningFacts
<1>2. /\ stack \in Seq(Frames) /\ Top = stack[Len(stack)] /\ to \in Places
  BY <1>1, TopFacts DEF Places
<1>3. stack' = Moved(stack, to, k)
  BY DEF Goto, Moved
<1>4. stack' \in Seq(Frames)
  BY <1>1, <1>2, <1>3, MovedFacts
<1>5. /\ state' = state /\ table' = table /\ data' = 0 /\ lock' = lock /\ thrown' = FALSE
      /\ call' = call /\ answers' = answers /\ resolved' = resolved
  BY <1>1 DEF others, IInv, TypeOK
<1>6. /\ Inner(c) /\ Stable /\ file' = file
      /\ DOMAIN cls' = Name /\ \A d \in Name : DOMAIN cls'[d] = DOMAIN NoClass
  <2>1. UNCHANGED <<others, state>>
    OBVIOUS
  <2> QED
    BY <2>1, LinkingStep
<1>7. TypeOK'
  BY <1>4, <1>5, <1>6 DEF IInv, TypeOK
<1>8. lock' = lock + (IF Top.at = "find" THEN 1 ELSE 0)
  BY <1>1, <1>5 DEF IInv, TypeOK
<1> QED
  BY <1>1, <1>3, <1>5, <1>6, <1>7, <1>8, GotoInv

\* What a step that sets the parent or the flags of a class leaves of its record.
LEMMA RecordFacts ==
    ASSUME NEW r, DOMAIN r = DOMAIN NoClass, NEW x
    PROVE  /\ DOMAIN [r EXCEPT !.flags = x] = DOMAIN NoClass
           /\ [r EXCEPT !.flags = x].flags = x /\ [r EXCEPT !.flags = x].parent = r.parent
           /\ DOMAIN [r EXCEPT !.parent = x] = DOMAIN NoClass
           /\ [r EXCEPT !.parent = x].parent = x /\ [r EXCEPT !.parent = x].flags = r.flags
           /\ [r EXCEPT !.flags = x].interfaces = r.interfaces
           /\ [r EXCEPT !.parent = x].interfaces = r.interfaces
<1>1. "flags" \in DOMAIN r /\ "parent" \in DOMAIN r /\ "interfaces" \in DOMAIN r /\ "flags" # "parent"
  BY DEF NoClass
<1> QED
  BY <1>1

LEMMA ParseStep == ASSUME IInv, Parse PROVE IInv'
<1>1. PICK c \in Name : c = Top.name
  BY RunningFacts DEF Parse
<1>2. /\ Running("parse") /\ Top.at = "parse" /\ FrameOK(Top) /\ ~IsArray(c)
      /\ UNCHANGED <<others, state, table, lock, interfaceMethods>>
      /\ stack # <<>> /\ ~thrown /\ data = 0
  BY <1>1, RunningFacts, TopFacts DEF Parse
<1>3. state[c] = "linking" /\ cls[c] = NoClass
  BY <1>1, <1>2 DEF FrameOK, Busy, Places
<1>4. CASE ~HeaderAllowed(c)
  <2>1. Throw /\ UNCHANGED <<stack, cls>>
    BY <1>1, <1>4 DEF Parse
  <2>2. lock' = lock + (IF "parse" = "find" THEN 1 ELSE 0)
    BY <1>2 DEF IInv, TypeOK
  <2> QED
    BY <1>2, <2>1, <2>2, ThrowQuiet
<1>5. CASE HeaderAllowed(c)
  <2> PICK r : r = [cls[c] EXCEPT !.flags = file[c].flags]
    OBVIOUS
  <2>1. cls' = [cls EXCEPT ![c] = r] /\ UNCHANGED <<thrown, data>>
    BY <1>1, <1>5 DEF Parse
  <2>2. DOMAIN r = DOMAIN NoClass /\ r.flags = file[c].flags /\ r.parent = None
    <3>1. NoClass.parent = None
      BY DEF NoClass
    <3> QED
      BY <1>3, <3>1, RecordFacts
  <2>3. /\ Inner(c) /\ Stable /\ cls'[c] = r /\ file' = file
        /\ DOMAIN cls' = Name /\ \A d \in Name : DOMAIN cls'[d] = DOMAIN NoClass
    <3>1. UNCHANGED <<others, state>>
      BY <1>2
    <3> QED
      BY <1>3, <2>1, <2>2, <3>1, LinkingStep
  <2>4. Headed(c)'
    <3>1. HeaderAllowed(c)'
      BY <1>5, <2>3, FilesKept
    <3> QED
      BY <1>2, <2>2, <2>3, <3>1 DEF Headed, IsArray
  <2>5. state'[c] = "linking"
    BY <1>2, <1>3
  <2>6. file[c].super \in Name \cup {None} /\ Len(file[c].interfaces) \in Nat
    BY <1>2, FileFacts, WorldAssumption DEF IInv, TypeOK
  <2>7. CASE file[c].super = None
    <3>1. PICK f : f = At(Top, "interfaces", 1)
      OBVIOUS
    <3>2. f.name = c /\ f.at = "interfaces" /\ f.k = 1
      BY <1>1, <3>1 DEF At
    <3>3. Extends(c)'
      BY <2>2, <2>3, <2>7 DEF Extends
    <3>4. 1 \in 1 .. Len(file'[c].interfaces) + 1 /\ 1 .. 1 - 1 = {}
      BY <2>3, <2>6
    <3>5. FrameOK(f)'
      BY <2>4, <2>5, <3>2, <3>3, <3>4 DEF FrameOK
    <3>6. Goto("interfaces", 1)
      BY <1>1, <1>5, <2>7 DEF Parse
    <3>7. interfaceMethods' \in Nat
      BY <1>2 DEF IInv, TypeOK
    <3> QED
      BY <1>1, <1>2, <1>3, <2>1, <2>2, <3>1, <3>5, <3>6, <3>7, GotoLinking
  <2>8. CASE file[c].super # None
    <3>1. PICK f : f = At(Top, "super", 1)
      OBVIOUS
    <3>2. f.name = c /\ f.at = "super" /\ f.k = 1
      BY <1>1, <3>1 DEF At
    <3>3. PICK d \in Name : d = file[c].super
      BY <2>6, <2>8
    <3>4. d = Callee(f) /\ c = Asker(f)
      BY <3>2, <3>3 DEF Callee, Asker
    <3>5. FrameOK(f)'
      BY <2>3, <2>4, <2>5, <2>8, <3>2 DEF FrameOK
    <3>6. Resolve(d, c, "super", 1)
      BY <1>1, <1>5, <2>8, <3>3 DEF Parse
    <3>7. stack' = Append(Moved(stack, "super", 1), Frame(d, c))
      BY <3>6 DEF Resolve, Moved
    <3>8. TypeOK'
      <4>1. stack \in Seq(Frames) /\ Frame(d, c) \in Frames
        BY DEF IInv, TypeOK, Frame, Frames, Places
      <4>2. stack' \in Seq(Frames)
        BY <1>2, <3>7, <4>1, MovedFacts DEF Places
      <4> QED
        BY <1>2, <2>1, <2>3, <4>2 DEF IInv, TypeOK, others
    <3>9. lock' = lock /\ data' = 0 /\ thrown' = FALSE
      BY <1>2, <2>1 DEF IInv, TypeOK
    <3>10. \A i \in 1 .. Len(stack) - 1 : stack[i].name # c
      BY <1>1, <1>2, RunningFacts
    <3>11. "super" \in Waiting /\ c \in Name \cup {None} /\ Top.at # "find" /\ 1 \in Nat
      BY <1>2 DEF Waiting
    <3> QED
      <4>1. PICK to \in Waiting, k \in Nat, o \in Name \cup {None} : to = "super" /\ k = 1 /\ o = c
        BY <3>11
      <4>2. f = At(Top, to, k) /\ o = Asker(f) /\ stack' = Append(Moved(stack, to, k), Frame(d, o))
        BY <3>1, <3>4, <3>7, <4>1
      <4>3. Inner(c)
        BY <2>3
      <4> QED
        BY <1>1, <1>2, <3>4, <3>5, <3>8, <3>9, <3>10, <3>11, <4>2, <4>3, ResolveInv
  <2> QED
    BY <2>7, <2>8
<1> QED
  BY <1>4, <1>5

LEMMA SuperStep == ASSUME IInv, Super PROVE IInv'
<1>1. PICK c \in Name : c = Top.name
  BY RunningFacts DEF Super
<1>2. /\ Running("super") /\ Top.at = "super" /\ FrameOK(Top) /\ Top \in Frames
      /\ UNCHANGED <<others, state, table, lock, interfaceMethods>>
      /\ stack # <<>> /\ ~thrown /\ data = 0
  BY RunningFacts, TopFacts DEF Super
<1>3. state[c] = "linking" /\ Headed(c) /\ file[c].super # None
  BY <1>1, <1>2 DEF FrameOK, Busy, Places
<1>4. file[c].super \in Name \cup {None} /\ Len(file[c].interfaces) \in Nat /\ ClassPath(file)
  BY <1>3, FileFacts, WorldAssumption DEF IInv, TypeOK, Headed
<1>5. PICK p \in Name : p = file[c].super
  BY <1>3, <1>4
<1>6. Found(p, c)
  BY <1>1, <1>2, <1>5 DEF IInv, Returned, Waiting, Callee, Asker
<1> PICK r : r = [cls[c] EXCEPT !.parent = p]
  OBVIOUS
<1>7. cls' = [cls EXCEPT ![c] = r]
  BY <1>1, <1>5 DEF Super
<1>8. DOMAIN r = DOMAIN NoClass /\ r.parent = p /\ r.flags = cls[c].flags
  <2>1. DOMAIN cls[c] = DOMAIN NoClass
    BY DEF IInv, TypeOK
  <2> QED
    BY <2>1, RecordFacts
<1>9. /\ Inner(c) /\ Stable /\ cls'[c] = r /\ file' = file
      /\ DOMAIN cls' = Name /\ \A d \in Name : DOMAIN cls'[d] = DOMAIN NoClass
  <2>1. UNCHANGED <<others, state>>
    BY <1>2
  <2> QED
    BY <1>3, <1>7, <1>8, <2>1, LinkingStep
<1>10. Headed(c)'
  <2>1. HeaderAllowed(c)'
    BY <1>3, <1>9, FilesKept DEF Headed
  <2> QED
    BY <1>3, <1>8, <1>9, <2>1 DEF Headed, IsArray
<1>11. state'[c] = "linking"
  BY <1>2, <1>3
<1>12. CASE SuperAllowed(c, p)
  <2>1. Goto("interfaces", 1) /\ UNCHANGED <<thrown, data>>
    BY <1>1, <1>5, <1>12 DEF Super
  <2>2. PICK f : f = At(Top, "interfaces", 1)
    OBVIOUS
  <2>3. f.name = c /\ f.at = "interfaces" /\ f.k = 1
    BY <1>1, <2>2 DEF At
  <2>4. Found(p, c)' /\ cls'[p] = cls[p]
    <3>1. Found(p, c)'
      BY <1>6, <1>9, FoundKept
    <3> QED
      BY <1>6, <1>9, <3>1 DEF Found, Stable
  <2>5. SuperAllowed(c, p)'
    BY <1>8, <1>9, <1>12, <2>4 DEF SuperAllowed, IsInterface, IsArray
  <2>6. Extends(c)'
    BY <1>5, <1>8, <1>9, <2>4, <2>5 DEF Extends
  <2>7. 1 \in 1 .. Len(file'[c].interfaces) + 1 /\ 1 .. 1 - 1 = {}
    BY <1>4, <1>9
  <2>8. FrameOK(f)'
    BY <1>10, <1>11, <2>3, <2>6, <2>7 DEF FrameOK
  <2>9. interfaceMethods' \in Nat
    BY <1>2 DEF IInv, TypeOK
  <2> QED
    BY <1>1, <1>2, <1>3, <1>7, <1>8, <2>1, <2>2, <2>8, <2>9, GotoLinking
<1>13. CASE ~SuperAllowed(c, p)
  <2>1. Throw /\ stack' = stack
    BY <1>1, <1>5, <1>13 DEF Super
  <2>2. data' = NoClassDef /\ thrown' = TRUE
    BY <2>1 DEF Throw
  <2>3. TypeOK'
    BY <1>2, <1>9, <2>1, <2>2 DEF IInv, TypeOK, others
  <2>4. \A i \in DOMAIN stack : FrameOK(stack[i])'
    <3> SUFFICES ASSUME NEW i \in DOMAIN stack PROVE FrameOK(stack[i])'
      OBVIOUS
    <3>1. /\ DOMAIN stack = 1 .. Len(stack) /\ Len(stack) \in Nat \ {0} /\ Top = stack[Len(stack)]
          /\ \A j \in 1 .. Len(stack) - 1 : stack[j].name # c
      BY <1>1, <1>2, TopFacts, RunningFacts
    <3>2. i = Len(stack) \/ i \in 1 .. Len(stack) - 1
      <4>1. \A n \in Nat \ {0} : \A j \in 1 .. n : j = n \/ j \in 1 .. n - 1
        OBVIOUS
      <4> QED
        BY <3>1, <4>1
    <3>3. CASE i \in 1 .. Len(stack) - 1
      BY <1>1, <1>2, <1>9, <2>1, <3>1, <3>3, LowerKept
    <3>4. CASE i = Len(stack)
      <4>1. PICK g \in Frames : g = Top
        BY <1>2
      <4>2. g.name = c /\ g.at = "super"
        BY <1>1, <1>2, <4>1
      <4>3. FrameOK(g)'
        BY <1>3, <1>9, <1>10, <1>11, <4>2 DEF FrameOK
      <4>4. stack'[i] = g
        BY <2>1, <3>1, <3>4, <4>1
      <4> QED
        BY <4>3, <4>4
    <3> QED
      BY <3>2, <3>3, <3>4
  <2>5. lock' = lock + (IF Top.at = "find" THEN 1 ELSE 0)
    BY <1>2 DEF IInv, TypeOK
  <2> QED
    BY <1>2, <1>9, <2>1, <2>2, <2>3, <2>4, <2>5, ThrowInv
<1> QED
  BY <1>12, <1>13

\* What derive_class() leaves of the class it fills in.
LEMMA DerivedFacts ==
    ASSUME NEW c, DOMAIN cls[c] = DOMAIN NoClass
    PROVE  /\ DOMAIN Derived(c) = DOMAIN NoClass /\ Derived(c).parent = cls[c].parent
           /\ Derived(c).flags = cls[c].flags \cup (IF HasFinalizer(c) THEN {"finalizer"} ELSE {})
<1>1. ASSUME NEW r, DOMAIN r = DOMAIN NoClass, NEW i, NEW o, NEW n, NEW s, NEW fl
      PROVE  LET b == [r EXCEPT !.interfaces = i, !.offsets = o, !.refN = n, !.nrefSize = s,
                                !.flags = @ \cup fl]
             IN  DOMAIN b = DOMAIN NoClass /\ b.parent = r.parent /\ b.flags = r.flags \cup fl
  <2>1. /\ "flags" \in DOMAIN r /\ "parent" \in DOMAIN r /\ "interfaces" \in DOMAIN r
        /\ "offsets" \in DOMAIN r /\ "refN" \in DOMAIN r /\ "nrefSize" \in DOMAIN r
    BY <1>1 DEF NoClass
  <2> QED
    BY <1>1, <2>1
<1>2. ASSUME NEW r, DOMAIN r = DOMAIN NoClass, NEW x
      PROVE  LET b == [r EXCEPT !.index = x]
             IN  DOMAIN b = DOMAIN NoClass /\ b.parent = r.parent /\ b.flags = r.flags
  <2>1. "flags" \in DOMAIN r /\ "parent" \in DOMAIN r
    BY <1>2 DEF NoClass
  <2> QED
    BY <1>2, <2>1
<1>3. ASSUME NEW r, DOMAIN r = DOMAIN NoClass, NEW x, NEW y, NEW z
      PROVE  LET b == [r EXCEPT !.index = x, !.dtable = y, !.itable = z]
             IN  DOMAIN b = DOMAIN NoClass /\ b.parent = r.parent /\ b.flags = r.flags
  <2>1. "flags" \in DOMAIN r /\ "parent" \in DOMAIN r
    BY <1>3 DEF NoClass
  <2> QED
    BY <1>3, <2>1
<1> DEFINE dtable == DispatchTable(c)
           interfaces == Interfaces(c)
           base == [cls[c] EXCEPT !.interfaces = interfaces, !.offsets = Offsets(c),
                                  !.refN = RefN(c), !.nrefSize = NrefSize(c),
                                  !.flags = @ \cup (IF HasFinalizer(c) THEN {"finalizer"} ELSE {})]
           ofInterface == [base EXCEPT !.index = [k \in DOMAIN file[c].methods |-> interfaceMethods + k - 1]]
           ofClass == [base EXCEPT !.index = Index(c), !.dtable = dtable,
                                   !.itable = InterfaceTable(interfaces, dtable)]
<1>4. Derived(c) = IF IsInterface(c) THEN ofInterface ELSE ofClass
  BY DEF Derived
<1>5. /\ DOMAIN base = DOMAIN NoClass /\ base.parent = cls[c].parent
      /\ base.flags = cls[c].flags \cup (IF HasFinalizer(c) THEN {"finalizer"} ELSE {})
  BY <1>1
<1> HIDE DEF base
<1>6. DOMAIN ofInterface = DOMAIN NoClass /\ ofInterface.parent = base.parent /\ ofInterface.flags = base.flags
  BY <1>2, <1>5
<1>7. DOMAIN ofClass = DOMAIN NoClass /\ ofClass.parent = base.parent /\ ofClass.flags = base.flags
  BY <1>3, <1>5
<1> HIDE DEF ofInterface, ofClass
<1> QED
  BY <1>4, <1>5, <1>6, <1>7

LEMMA MembersStep == ASSUME IInv, Members PROVE IInv'
<1>1. PICK c \in Name : c = Top.name
  BY RunningFacts DEF Members
<1>2. PICK k \in Nat : k = Top.k
  BY RunningFacts, TopFacts DEF Members
<1>3. /\ Running("interfaces") /\ Top.at = "interfaces" /\ FrameOK(Top)
      /\ UNCHANGED <<others, state, table, lock>> /\ k > Len(file[c].interfaces)
  BY <1>1, <1>2, RunningFacts, TopFacts DEF Members
<1>4. /\ state[c] = "linking" /\ Headed(c) /\ Extends(c) /\ \A j \in 1 .. k - 1 : Provides(c, j)
      /\ k \in 1 .. Len(file[c].interfaces) + 1
  BY <1>1, <1>2, <1>3 DEF FrameOK, Busy, Places
<1>5. /\ Len(file[c].interfaces) \in Nat /\ DOMAIN file[c].interfaces = 1 .. Len(file[c].interfaces)
      /\ c \in Class /\ ClassPath(file)
  BY <1>4, FileFacts, WorldAssumption DEF IInv, TypeOK, Headed
<1>6. \A j \in DOMAIN file[c].interfaces : Provides(c, j)
  <2>1. \A l \in Nat : k \in 1 .. l + 1 /\ k > l => k - 1 = l
    OBVIOUS
  <2>2. k - 1 = Len(file[c].interfaces)
    BY <1>3, <1>4, <1>5, <2>1
  <2> QED
    BY <1>4, <1>5, <2>2
<1> DEFINE refused == \/ file[c].fault = "members"
                      \/ ~MembersAllowed(c) \/ ~WithinLimits(c)
                      \/ ~IsInterface(c) /\ ~OverridesAllowed(c)
<1>7. IF refused
      THEN Throw /\ UNCHANGED <<stack, cls, interfaceMethods>>
      ELSE /\ cls' = [cls EXCEPT ![c] = Derived(c)]
           /\ interfaceMethods' = IF IsInterface(c) THEN interfaceMethods + Len(file[c].methods)
                                  ELSE interfaceMethods
           /\ Goto("attributes", 1)
           /\ UNCHANGED <<thrown, data>>
  BY <1>1 DEF Members
<1>8. ~refused => file[c].fault # "members" /\ MembersAllowed(c)
  OBVIOUS
<1> HIDE DEF refused
<1>9. CASE refused
  <2>1. lock' = lock + (IF "interfaces" = "find" THEN 1 ELSE 0)
    BY <1>3 DEF IInv, TypeOK
  <2> QED
    BY <1>3, <1>7, <1>9, <2>1, ThrowQuiet
<1>10. CASE ~refused
  <2> PICK r : r = Derived(c)
    OBVIOUS
  <2>1. /\ DOMAIN r = DOMAIN NoClass /\ r.parent = cls[c].parent
        /\ r.flags = cls[c].flags \cup (IF HasFinalizer(c) THEN {"finalizer"} ELSE {})
    BY DerivedFacts DEF IInv, TypeOK
  <2>2. cls' = [cls EXCEPT ![c] = r] /\ Goto("attributes", 1) /\ UNCHANGED <<thrown, data>>
    BY <1>7, <1>10
  <2>3. interfaceMethods' \in Nat
    <3>1. interfaceMethods \in Nat /\ Len(file[c].methods) \in Nat
      BY <1>5 DEF IInv, TypeOK, ClassPath
    <3> QED
      BY <1>7, <1>10, <3>1
  <2>4. Stable /\ cls'[c] = r /\ file' = file
    <3>1. UNCHANGED <<others, state>>
      BY <1>3
    <3> QED
      BY <1>4, <2>1, <2>2, <3>1, LinkingStep
  <2>5. SameHead(c)
    <3>1. Headed(c)'
      <4>1. HeaderAllowed(c)'
        BY <1>4, <2>4, FilesKept DEF Headed
      <4> QED
        BY <1>4, <2>1, <2>4, <4>1 DEF Headed, IsArray
    <3>2. IsInterface(c)' = IsInterface(c)
      BY <2>1, <2>4 DEF IsInterface
    <3> QED
      BY <2>1, <2>4, <3>1, <3>2 DEF SameHead
  <2>6. Derives(c)
    BY <1>4, <1>6, <1>8, <1>10 DEF Derives
  <2>7. Derives(c)'
    BY <1>5, <2>4, <2>5, <2>6, DerivesKept
  <2>8. PICK f : f = At(Top, "attributes", 1)
    OBVIOUS
  <2>9. f.name = c /\ f.at = "attributes"
    BY <1>1, <2>8 DEF At
  <2>10. state'[c] = "linking"
    BY <1>3, <1>4
  <2>11. FrameOK(f)'
    BY <2>7, <2>9, <2>10 DEF FrameOK
  <2>12. UNCHANGED <<others, state, table, lock, thrown, data>>
    BY <1>3, <2>2
  <2> QED
    BY <1>1, <1>3, <1>4, <2>1, <2>2, <2>3, <2>8, <2>11, <2>12, GotoLinking
<1> QED
  BY <1>9, <1>10

LEMMA ArrayDoneStep == ASSUME IInv, ArrayDone PROVE IInv'
<1>1. PICK c \in Name : c = Top.name
  BY RunningFacts DEF ArrayDone
<1>2. /\ Running("object") /\ Top.at = "object" /\ FrameOK(Top) /\ stack # <<>> /\ ~thrown
      /\ UNCHANGED <<others, state, table, lock, data, thrown, interfaceMethods>>
      /\ Goto("created", 1)
  BY RunningFacts, TopFacts DEF ArrayDone
<1>3. /\ state[c] = "linking" /\ IsArray(c)
      /\ Elem[c] # "primitive" => Found(Elem[c], None)
  BY <1>1, <1>2 DEF FrameOK, Busy, Places
<1>4. Found(Object, None)
  BY <1>1, <1>2 DEF IInv, Returned, Waiting, Callee, Asker
<1>5. PICK flags : flags = IF Elem[c] = "primitive" THEN {"final", "abstract", "public"}
                           ELSE cls[Elem[c]].flags
  OBVIOUS
<1>6. PICK dtable : dtable = cls[Object].dtable
  OBVIOUS
<1>7. cls' = [cls EXCEPT ![c].parent = Object, ![c].flags = flags, ![c].dtable = dtable]
  BY <1>1, <1>5, <1>6 DEF ArrayDone
<1>8. c \in DOMAIN cls /\ DOMAIN cls[c] = DOMAIN NoClass
  BY DEF IInv, TypeOK
<1> PICK q : q = [cls[c] EXCEPT !.parent = Object]
  OBVIOUS
<1> PICK s : s = [q EXCEPT !.flags = flags]
  OBVIOUS
<1> PICK r : r = [s EXCEPT !.dtable = dtable]
  OBVIOUS
<1>9. DOMAIN r = DOMAIN NoClass /\ r.parent = Object
  <2>1. DOMAIN q = DOMAIN NoClass /\ q.parent = Object
    BY <1>8, RecordFacts
  <2>2. DOMAIN s = DOMAIN NoClass /\ s.parent = Object
    BY <2>1, RecordFacts
  <2>3. "parent" \in DOMAIN NoClass /\ "parent" # "dtable"
    BY DEF NoClass
  <2> QED
    BY <2>2, <2>3
<1>10. cls' = [cls EXCEPT ![c] = r]
  <2>1. ASSUME NEW f, NEW x, NEW y, NEW z, c \in DOMAIN f
        PROVE  [f EXCEPT ![c].parent = x, ![c].flags = y, ![c].dtable = z]
                 = [f EXCEPT ![c] = [[[f[c] EXCEPT !.parent = x] EXCEPT !.flags = y] EXCEPT !.dtable = z]]
    BY <2>1
  <2> QED
    BY <1>7, <1>8, <2>1
<1>11. Stable /\ cls'[c] = r /\ file' = file
  <2>1. UNCHANGED <<others, state>>
    BY <1>2
  <2> QED
    BY <1>3, <1>9, <1>10, <2>1, LinkingStep
<1>12. Complete(c)'
  <2>1. Object \in Name /\ (Elem[c] # "primitive" => Elem[c] \in Name)
    BY <1>3, NamesAssumption DEF Name, IsArray
  <2>2. Found(Object, None)'
    BY <1>4, <1>11, <2>1, FoundKept
  <2>3. Elem[c] # "primitive" => Found(Elem[c], None)'
    BY <1>3, <1>11, <2>1, FoundKept
  <2> QED
    BY <1>3, <1>9, <1>11, <2>2, <2>3 DEF Complete, IsArray
<1>13. PICK f : f = At(Top, "created", 1)
  OBVIOUS
<1>14. f.name = c /\ f.at = "created"
  BY <1>1, <1>13 DEF At
<1>15. FrameOK(f)'
  <2>1. state'[c] = "linking"
    BY <1>2, <1>3
  <2> QED
    BY <1>12, <1>14, <2>1 DEF FrameOK
<1>16. interfaceMethods' \in Nat /\ UNCHANGED <<others, state, table, lock, thrown, data>>
  BY <1>2 DEF IInv, TypeOK
<1> QED
  BY <1>1, <1>2, <1>3, <1>9, <1>10, <1>13, <1>15, <1>16, GotoLinking

LEMMA CreatedStep == ASSUME IInv, Created PROVE IInv'
<1>1. PICK c \in Name : c = Top.name
  BY RunningFacts DEF Created
<1>2. /\ Running("created") /\ Top.at = "created" /\ FrameOK(Top) /\ stack # <<>> /\ ~thrown /\ data = 0
      /\ file' = file /\ cls' = cls /\ table' = table /\ lock' = lock /\ data' = data
      /\ thrown' = thrown /\ interfaceMethods' = interfaceMethods
      /\ call' = call /\ answers' = answers /\ resolved' = resolved
      /\ Goto("check", 1) /\ state' = [state EXCEPT ![c] = "linked"]
  BY <1>1, RunningFacts, TopFacts DEF Created, others
<1>3. state[c] = "linking" /\ Complete(c)
  BY <1>1, <1>2 DEF FrameOK, Busy, Places
<1>4. /\ stack \in Seq(Frames) /\ Top = stack[Len(stack)]
      /\ \A i \in 1 .. Len(stack) - 1 : stack[i].name # c
  BY <1>1, <1>2, TopFacts, RunningFacts
<1>5. stack' = Moved(stack, "check", 1)
  BY <1>2 DEF Goto, Moved
<1>6. stack' \in Seq(Frames)
  BY <1>2, <1>4, <1>5, MovedFacts DEF Places
<1>7. /\ state' \in [Name -> {"absent", "preloaded", "linking", "linked"}]
      /\ state'[c] = "linked" /\ \A d \in Name : d # c => state'[d] = state[d]
  BY <1>2 DEF IInv, TypeOK
<1>8. TypeOK'
  <2>1. {d \in Name : state'[d] # "absent"} = {d \in Name : state[d] # "absent"}
    BY <1>3, <1>7
  <2> QED
    BY <1>2, <1>6, <1>7, <2>1 DEF IInv, TypeOK
<1>9. Stable
  BY <1>2, <1>3, <1>7 DEF Stable
<1>10. Complete(c)'
  BY <1>2, <1>3, <1>9, CompleteKept, WorldAssumption DEF IInv, TypeOK
<1>11. Inner(c)
  BY <1>2, <1>7, <1>9, <1>10 DEF Inner
<1>12. PICK f : f = At(Top, "check", 1)
  OBVIOUS
<1>13. FrameOK(f)'
  BY <1>1, <1>7, <1>12 DEF At, FrameOK, Busy
<1>14. lock' = lock + (IF Top.at = "find" THEN 1 ELSE 0) /\ data' = 0 /\ thrown' = FALSE
  BY <1>2 DEF IInv, TypeOK
<1> QED
  BY <1>1, <1>2, <1>4, <1>5, <1>8, <1>11, <1>12, <1>13, <1>14, GotoInv

-----------------------------------------------------------------------------
(* The calls from outside, and the beginning.                              *)

\* A step between two calls, which leaves the classes alone.
LEMMA OuterInv ==
    ASSUME IInv, UNCHANGED <<file, cls, state, table, interfaceMethods>>,
           TypeOK', Unwound', Outermost', Granted',
           stack' = <<>> \/ \E d, o : stack' = <<Frame(d, o)>>
    PROVE  IInv'
<1>1. file' = file /\ cls' = cls /\ state' = state
  OBVIOUS
<1>2. Stable
  BY <1>1 DEF Stable
<1>3. Untouched'
  BY <1>1 DEF IInv, Untouched
<1>4. Whole'
  <2> SUFFICES ASSUME NEW d \in Name, state'[d] = "linked" PROVE Complete(d)'
    BY DEF Whole
  <2>1. Complete(d) /\ ClassPath(file)
    BY <1>1, WorldAssumption DEF IInv, TypeOK, Whole
  <2> QED
    BY <1>1, <1>2, <2>1, CompleteKept
<1>5. (\A i \in DOMAIN stack' : FrameOK(stack[i])') /\ Nested' /\ Distinct' /\ Returned'
  <2>1. CASE stack' = <<>>
    BY <2>1 DEF Nested, Distinct, Returned
  <2>2. CASE \E d, o : stack' = <<Frame(d, o)>>
    <3>1. PICK d, o : stack' = <<Frame(d, o)>>
      BY <2>2
    <3>2. DOMAIN stack' = {1} /\ Len(stack') = 1 /\ stack'[1] = Frame(d, o)
      BY <3>1
    <3>3. stack'[1].at = "find"
      BY <3>2 DEF Frame
    <3>4. Top' = stack'[1]
      BY <3>2 DEF Top
    <3>5. FrameOK(stack[1])'
      BY <3>3 DEF FrameOK, Busy
    <3>6. Nested'
      BY <3>2 DEF Nested
    <3>7. Distinct' /\ Returned'
      BY <3>2, <3>3, <3>4 DEF Distinct, Returned, Waiting
    <3> QED
      BY <3>2, <3>5, <3>6, <3>7
  <2> QED
    BY <2>1, <2>2
<1> QED
  BY <1>3, <1>4, <1>5 DEF IInv

\* One call of the loader and nothing else.
LEMMA FirstFrame ==
    ASSUME NEW d \in Name, NEW o \in Name \cup {None}, NEW s, s = <<Frame(d, o)>>
    PROVE  /\ s \in Seq(Frames) /\ Len(s) = 1 /\ s # <<>> /\ s[1].name = d /\ s[1].orig = o
           /\ s[Len(s)].at = "find"
<1>1. Frame(d, o) \in Frames /\ Frame(d, o).name = d /\ Frame(d, o).orig = o /\ Frame(d, o).at = "find"
  BY DEF Frame, Frames, Places
<1> QED
  BY <1>1

LEMMA EmptyLock ==
    ASSUME IInv, stack = <<>>, ~thrown, call.kind # "failed"
    PROVE  lock = (IF call.kind = "link" THEN 1 ELSE 0) /\ data = 0
<1>1. Len(stack) = 0 /\ lock \in Nat
  BY DEF IInv, TypeOK
<1>2. lock = Len(stack) + (IF call.kind = "link" THEN 1 ELSE 0) - 0 /\ data = 0
  BY DEF IInv, Unwound
<1> QED
  BY <1>1, <1>2

CallRecord == [kind : {"idle", "boot", "forName", "throwNew", "link", "failed"},
               name : Name \cup {None}, orig : Name \cup {None}]

LEMMA BootStep == ASSUME IInv, Boot PROVE IInv'
<1>1. /\ call.kind = "boot" /\ stack = <<>> /\ ~thrown /\ lock = 0 /\ data = 0
      /\ UNCHANGED <<file, cls, state, table, lock, data, thrown, answers, interfaceMethods, resolved>>
  BY EmptyLock DEF Boot
<1>2. Granted'
  BY <1>1 DEF IInv, Granted, Found, Accessible, Package
<1>3. CASE call' = Idle /\ stack' = stack
  <2>1. call'.kind = "idle" /\ call' \in CallRecord /\ stack' = <<>> /\ Len(stack') = 0
    BY <1>1, <1>3 DEF Idle, CallRecord
  <2>2. TypeOK'
    BY <1>1, <2>1 DEF IInv, TypeOK, CallRecord
  <2>3. Unwound' /\ Outermost'
    BY <1>1, <2>1 DEF Unwound, Outermost
  <2> QED
    BY <1>1, <1>2, <2>1, <2>2, <2>3, OuterInv
<1>4. CASE call' = call /\ \E i \in DOMAIN Bootstrap : stack' = <<Frame(Bootstrap[i], None)>>
  <2>1. PICK d \in Name, o \in Name \cup {None} : stack' = <<Frame(d, o)>>
    BY <1>4, NamesAssumption
  <2>2. stack' \in Seq(Frames) /\ Len(stack') = 1 /\ stack' # <<>> /\ Top'.at = "find"
    BY <2>1, FirstFrame DEF Top
  <2>3. TypeOK'
    BY <1>1, <1>4, <2>2 DEF IInv, TypeOK
  <2>4. Unwound' /\ Outermost'
    BY <1>1, <1>4, <2>2 DEF Unwound, Outermost
  <2> QED
    BY <1>1, <1>2, <2>1, <2>3, <2>4, OuterInv
<1> QED
  BY <1>3, <1>4 DEF Boot

\* The program asks for classes by their names.
LEMMA RequestFacts ==
    ASSUME IInv, NEW r \in Requests(file)
    PROVE  r[1] \in Name /\ r[2] \in Name \cup {None}
<1>1. file \in World
  BY DEF IInv, TypeOK
<1> QED
  BY <1>1, RequestsAssumption

LEMMA ForNameStep == ASSUME IInv, NEW c \in Name, ForName(c) PROVE IInv'
<1>1. /\ call.kind = "idle" /\ data' = 0
      /\ call' = [kind |-> "forName", name |-> c, orig |-> None] /\ stack' = <<Frame(c, None)>>
      /\ UNCHANGED <<file, cls, state, table, lock, thrown, answers, interfaceMethods, resolved>>
  BY DEF ForName, Ready
<1>2. stack = <<>> /\ ~thrown /\ lock = 0
  BY <1>1, EmptyLock DEF IInv, Unwound
<1>3. /\ stack' \in Seq(Frames) /\ Len(stack') = 1 /\ stack' # <<>> /\ Top'.at = "find"
      /\ stack'[1].name = c /\ stack'[1].orig = None
  <2>1. None \in Name \cup {None}
    OBVIOUS
  <2> QED
    BY <1>1, <2>1, FirstFrame DEF Top
<1>4. call' \in CallRecord /\ call'.kind = "forName" /\ call'.name = c
  BY <1>1 DEF CallRecord
<1>5. TypeOK'
  BY <1>1, <1>3, <1>4 DEF IInv, TypeOK, CallRecord
<1>6. Unwound'
  BY <1>1, <1>2, <1>3, <1>4 DEF Unwound
<1>7. Outermost'
  BY <1>3, <1>4 DEF Outermost, Asked
<1>8. Granted'
  BY <1>1 DEF IInv, Granted, Found, Accessible, Package
<1> QED
  BY <1>1, <1>5, <1>6, <1>7, <1>8, OuterInv

\* An answer or a resolved entry more.
LEMMA GrantedMore ==
    ASSUME IInv, UNCHANGED <<file, cls, state>>,
           NEW d \in Name, NEW o \in Name \cup {None}, NEW e \in {"ok", "error"},
           answers' = answers \/ answers' = Append(answers, <<d, o, e>>),
           answers' # answers /\ e = "ok" => Found(d, o),
           resolved' = resolved \/ (resolved' = resolved \cup {<<o, d>>} /\ o \in Name
                                    /\ state[o] = "linked" /\ Found(d, o))
    PROVE  /\ Granted' /\ answers' \in Seq(Name \X (Name \cup {None}) \X {"ok", "error"})
           /\ resolved' \subseteq Name \X Name
<1>1. answers \in Seq(Name \X (Name \cup {None}) \X {"ok", "error"}) /\ resolved \subseteq Name \X Name
  BY DEF IInv, TypeOK
<1>2. \A x, y : Found(x, y)' <=> Found(x, y)
  BY DEF Found, Accessible, Package
<1>3. /\ \A i \in DOMAIN answers : answers[i][3] = "ok" => Found(answers[i][1], answers[i][2])
      /\ \A r \in resolved : state[r[1]] = "linked" /\ Found(r[2], r[1])
  BY DEF IInv, Granted
<1>4. \A r \in resolved' : state'[r[1]] = "linked" /\ Found(r[2], r[1])'
  <2> SUFFICES ASSUME NEW r \in resolved' PROVE state[r[1]] = "linked" /\ Found(r[2], r[1])
    BY <1>2
  <2> QED
    BY <1>3
<1>5. \A i \in DOMAIN answers' : answers'[i][3] = "ok" => Found(answers'[i][1], answers'[i][2])
  <2>1. CASE answers' = answers
    BY <1>3, <2>1
  <2>2. CASE answers' # answers
    <3> DEFINE n == Len(answers)
    <3>1. n \in Nat /\ DOMAIN answers = 1 .. n /\ <<d, o, e>> \in Name \X (Name \cup {None}) \X {"ok", "error"}
      BY <1>1
    <3>2. /\ DOMAIN answers' = 1 .. n + 1 /\ answers'[n + 1] = <<d, o, e>>
          /\ \A i \in 1 .. n : answers'[i] = answers[i]
      BY <1>1, <2>2, <3>1
    <3> HIDE DEF n
    <3>3. \A i \in 1 .. n + 1 : i = n + 1 \/ i \in 1 .. n
      BY <3>1
    <3>4. e = "ok" => Found(d, o)
      BY <2>2
    <3> SUFFICES ASSUME NEW i \in 1 .. n + 1, answers'[i][3] = "ok"
                 PROVE  Found(answers'[i][1], answers'[i][2])
      BY <3>2
    <3>5. CASE i = n + 1
      BY <3>2, <3>4, <3>5
    <3>6. CASE i \in 1 .. n
      BY <1>3, <3>1, <3>2, <3>6
    <3> QED
      BY <3>3, <3>5, <3>6
  <2> QED
    BY <2>1, <2>2
<1>6. Granted'
  BY <1>2, <1>4, <1>5 DEF Granted
<1>7. answers' \in Seq(Name \X (Name \cup {None}) \X {"ok", "error"})
  <2>1. PICK x \in Name \X (Name \cup {None}) \X {"ok", "error"} : x = <<d, o, e>>
    OBVIOUS
  <2>2. answers' = answers \/ answers' = Append(answers, x)
    BY <2>1
  <2> QED
    BY <1>1, <2>2
<1>8. resolved' \subseteq Name \X Name
  BY <1>1
<1> QED
  BY <1>6, <1>7, <1>8

LEMMA LinkStep == ASSUME IInv, NEW c \in Name, NEW from \in Name, Link(c, from) PROVE IInv'
<1>1. /\ call.kind = "idle" /\ from \in Class /\ state[from] = "linked"
      /\ UNCHANGED <<file, cls, state, table, data, thrown, interfaceMethods, resolved>>
  BY DEF Link, Ready
<1>2. stack = <<>> /\ ~thrown /\ lock = 0 /\ data = 0
  BY <1>1, EmptyLock DEF IInv, Unwound
<1>3. CASE <<from, c>> \in resolved
  <2>1. answers' = Append(answers, <<c, from, "ok">>) /\ UNCHANGED <<stack, lock, call>>
    BY <1>3 DEF Link
  <2>2. Found(c, from)
    BY <1>3 DEF IInv, Granted
  <2>3. PICK o \in Name \cup {None}, e \in {"ok", "error"} : o = from /\ e = "ok"
    OBVIOUS
  <2>4. Granted' /\ answers' \in Seq(Name \X (Name \cup {None}) \X {"ok", "error"})
    BY <1>1, <2>1, <2>2, <2>3, GrantedMore
  <2>5. TypeOK'
    BY <1>1, <2>1, <2>4 DEF IInv, TypeOK
  <2>6. Unwound' /\ Outermost'
    BY <1>1, <1>2, <2>1 DEF IInv, Unwound, Outermost
  <2> QED
    BY <1>1, <1>2, <2>1, <2>4, <2>5, <2>6, OuterInv
<1>4. CASE <<from, c>> \notin resolved
  <2>1. /\ call' = [kind |-> "link", name |-> c, orig |-> from] /\ stack' = <<Frame(c, from)>>
        /\ lock' = lock + 1 /\ answers' = answers
    BY <1>4 DEF Link
  <2>2. PICK o \in Name \cup {None} : o = from
    OBVIOUS
  <2>3. /\ stack' \in Seq(Frames) /\ Len(stack') = 1 /\ stack' # <<>> /\ Top'.at = "find"
        /\ stack'[1].name = c /\ stack'[1].orig = from
    BY <2>1, <2>2, FirstFrame DEF Top
  <2>4. call' \in CallRecord /\ call'.kind = "link" /\ call'.name = c /\ call'.orig = from
    BY <2>1 DEF CallRecord
  <2>5. TypeOK'
    BY <1>1, <1>2, <2>1, <2>3, <2>4 DEF IInv, TypeOK, CallRecord
  <2>6. Unwound'
    BY <1>1, <1>2, <2>1, <2>3, <2>4 DEF Unwound
  <2>7. Outermost'
    BY <1>1, <2>3, <2>4 DEF Outermost, Asked
  <2>8. Granted'
    BY <1>1, <2>1 DEF IInv, Granted, Found, Accessible, Package
  <2> QED
    BY <1>1, <2>1, <2>5, <2>6, <2>7, <2>8, OuterInv
<1> QED
  BY <1>3, <1>4

LEMMA ReturnStep == ASSUME IInv, Return PROVE IInv'
<1>1. /\ stack = <<>> /\ ~thrown /\ call.kind \in {"forName", "throwNew", "link"}
      /\ UNCHANGED <<file, cls, state, table, stack, data, thrown, interfaceMethods>>
      /\ call' = Idle
  BY DEF Return
<1>2. lock = (IF call.kind = "link" THEN 1 ELSE 0) /\ data = 0 /\ call.name \in Name
  BY <1>1, EmptyLock DEF IInv, Outermost
<1>3. PICK d \in Name : d = call.name
  BY <1>2
<1>4. PICK o \in Name \cup {None} : o = Asked
  BY <1>1 DEF IInv, Outermost, Asked, Name
<1>5. PICK e \in {"ok", "error"} : e = "ok"
  OBVIOUS
<1>6. call.kind # "throwNew" => Found(d, o)
  BY <1>1, <1>3, <1>4 DEF IInv, Outermost
<1>7. answers' = answers \/ (answers' = Append(answers, <<d, o, e>>) /\ call.kind # "throwNew")
  BY <1>3, <1>4, <1>5 DEF Return, Asked
<1>8. \/ resolved' = resolved
      \/ resolved' = resolved \cup {<<o, d>>} /\ o \in Name /\ state[o] = "linked" /\ Found(d, o)
  <2>1. CASE call.kind = "link"
    <3>1. call.orig \in Class /\ state[call.orig] = "linked" /\ o = call.orig
      BY <1>4, <2>1 DEF IInv, Outermost, Asked
    <3>2. resolved' = resolved \cup {<<o, d>>}
      BY <1>3, <2>1, <3>1 DEF Return
    <3> QED
      BY <1>6, <2>1, <3>1, <3>2 DEF Name
  <2>2. CASE call.kind # "link"
    BY <2>2 DEF Return
  <2> QED
    BY <2>1, <2>2
<1>9. /\ Granted' /\ answers' \in Seq(Name \X (Name \cup {None}) \X {"ok", "error"})
      /\ resolved' \subseteq Name \X Name
  <2>1. answers' = answers \/ answers' = Append(answers, <<d, o, e>>)
    BY <1>7
  <2>2. answers' # answers /\ e = "ok" => Found(d, o)
    BY <1>6, <1>7
  <2> QED
    BY <1>1, <1>8, <2>1, <2>2, GrantedMore
<1>10. lock' = 0
  BY <1>1, <1>2 DEF Return
<1>11. call'.kind = "idle" /\ call' \in CallRecord
  BY <1>1 DEF Idle, CallRecord
<1>12. TypeOK'
  BY <1>1, <1>9, <1>10, <1>11 DEF IInv, TypeOK, CallRecord
<1>13. Unwound' /\ Outermost'
  <2>1. Len(stack') = 0 /\ stack' = <<>>
    BY <1>1
  <2> QED
    BY <1>1, <1>2, <1>10, <1>11, <2>1 DEF Unwound, Outermost
<1> QED
  BY <1>1, <1>9, <1>12, <1>13, OuterInv

LEMMA UncaughtStep == ASSUME IInv, Uncaught PROVE IInv'
<1>1. /\ stack = <<>> /\ thrown /\ thrown' = FALSE /\ data' = data /\ lock' = lock
      /\ UNCHANGED <<file, cls, state, table, lock, data, interfaceMethods, resolved>>
  BY DEF Uncaught
<1>2. data = NoClassDef /\ call.kind # "idle"
  BY <1>1 DEF IInv, Unwound
<1>3. CASE call.kind = "forName"
  <2>1. /\ answers' = Append(answers, <<call.name, None, "error">>)
        /\ call' = [kind |-> "throwNew", name |-> NotFound, orig |-> JavaClass]
        /\ stack' = <<Frame(NotFound, JavaClass)>>
    BY <1>3 DEF Uncaught
  <2>2. PICK d \in Name, o \in Name \cup {None}, e \in {"ok", "error"} :
            d = call.name /\ o = None /\ e = "error"
    BY <1>3 DEF IInv, Outermost
  <2>3. Granted' /\ answers' \in Seq(Name \X (Name \cup {None}) \X {"ok", "error"})
    BY <1>1, <2>1, <2>2, GrantedMore
  <2>4. PICK x \in Name, y \in Name : x = NotFound /\ y = JavaClass
    BY NamesAssumption DEF Name
  <2>5. stack' \in Seq(Frames) /\ Len(stack') = 1 /\ stack' # <<>> /\ Top'.at = "find"
    BY <2>1, <2>4, FirstFrame DEF Top
  <2>6. call' \in CallRecord /\ call'.kind = "throwNew" /\ call'.name \in Name
    BY <2>1, <2>4 DEF CallRecord
  <2>7. TypeOK'
    BY <1>1, <2>3, <2>5, <2>6 DEF IInv, TypeOK, CallRecord
  <2>8. Unwound'
    <3>1. lock = 0
      <4>1. Len(stack) = 0 /\ lock \in Nat
        BY <1>1 DEF IInv, TypeOK
      <4>2. lock = Len(stack) + 0 - 0
        BY <1>1, <1>3 DEF IInv, Unwound
      <4> QED
        BY <4>1, <4>2
    <3> QED
      BY <1>1, <2>5, <2>6, <3>1 DEF Unwound
  <2>9. Outermost'
    BY <2>6 DEF Outermost
  <2> QED
    BY <1>1, <2>1, <2>3, <2>7, <2>8, <2>9, OuterInv
<1>4. CASE call.kind # "forName"
  <2>1. /\ answers' = IF call.kind = "link"
                      THEN Append(answers, <<call.name, call.orig, "error">>) ELSE answers
        /\ call' = [kind |-> "failed", name |-> None, orig |-> None] /\ stack' = stack
    BY <1>4 DEF Uncaught
  <2>2. Granted' /\ answers' \in Seq(Name \X (Name \cup {None}) \X {"ok", "error"})
    <3>1. CASE call.kind = "link"
      <4>1. PICK d \in Name, o \in Name \cup {None}, e \in {"ok", "error"} :
                d = call.name /\ o = call.orig /\ e = "error"
        BY <3>1 DEF IInv, Outermost, Name
      <4> QED
        BY <1>1, <2>1, <3>1, <4>1, GrantedMore
    <3>2. CASE call.kind # "link"
      BY <1>1, <2>1, <3>2 DEF IInv, TypeOK, Granted, Found, Accessible, Package
    <3> QED
      BY <3>1, <3>2
  <2>3. call' \in CallRecord /\ call'.kind = "failed"
    BY <2>1 DEF CallRecord
  <2>4. TypeOK'
    BY <1>1, <2>1, <2>2, <2>3 DEF IInv, TypeOK, CallRecord
  <2>5. Unwound' /\ Outermost'
    BY <1>1, <2>1, <2>3 DEF Unwound, Outermost
  <2> QED
    BY <1>1, <2>1, <2>2, <2>4, <2>5, OuterInv
<1> QED
  BY <1>3, <1>4

\* The table of the preloaded classes.
LEMMA TableOfSet ==
    ASSUME NEW S, IsFiniteSet(S), S \subseteq Name
    PROVE  /\ SetToSeq(S) \in Seq(Name) /\ IsInjective(SetToSeq(S))
           /\ ToSet(SetToSeq(S)) = S
<1> DEFINE n == Cardinality(S)
           s == SetToSeq(S)
<1>1. n \in Nat /\ ExistsBijection(1 .. n, S)
  BY FS_CardinalityType
<1> HIDE DEF n
<1>2. \E f \in [1 .. n -> S] : IsInjective(f)
  BY <1>1 DEF ExistsBijection, Bijection, Injection
<1>3. s \in [1 .. n -> S] /\ IsInjective(s)
  BY <1>2 DEF SetToSeq, n
<1> HIDE DEF s
<1>4. s \in Injection(1 .. n, S)
  BY <1>3 DEF Injection
<1>5. Cardinality(1 .. n) = Cardinality(S)
  BY <1>1, FS_Interval DEF n
<1>6. s \in Surjection(1 .. n, S)
  BY <1>4, <1>5, FS_Injection
<1>7. ToSet(s) = S
  BY <1>3, <1>6 DEF ToSet, Surjection
<1>8. s \in Seq(Name)
  <2>1. s \in Seq(S)
    BY <1>1, <1>3
  <2> QED
    BY <2>1
<1> QED
  BY <1>3, <1>7, <1>8 DEF s

LEMMA InitInv == ASSUME Init PROVE IInv
<1>1. /\ file \in World /\ cls = [c \in Name |-> NoClass] /\ table = SetToSeq(Preloaded)
      /\ state = [c \in Name |-> IF c \in Preloaded THEN "preloaded" ELSE "absent"]
      /\ stack = <<>> /\ lock = 0 /\ data = 0 /\ thrown = FALSE
      /\ call = [kind |-> "boot", name |-> None, orig |-> None]
      /\ answers = <<>> /\ interfaceMethods = 0 /\ resolved = {}
  BY DEF Init
<1>2. table \in Seq(Name) /\ IsInjective(table) /\ ToSet(table) = Preloaded
  BY <1>1, TableOfSet, FS_Subset, NamesAssumption
<1>3. TypeOK
  <2>1. ToSet(table) = {c \in Name : state[c] # "absent"}
    BY <1>1, <1>2, NamesAssumption
  <2>2. DOMAIN cls = Name /\ \A c \in Name : DOMAIN cls[c] = DOMAIN NoClass
    BY <1>1
  <2>3. state \in [Name -> {"absent", "preloaded", "linking", "linked"}]
    BY <1>1
  <2>4. call \in CallRecord
    BY <1>1 DEF CallRecord
  <2>5. stack \in Seq(Frames) /\ answers \in Seq(Name \X (Name \cup {None}) \X {"ok", "error"})
    BY <1>1
  <2> QED
    BY <1>1, <1>2, <2>1, <2>2, <2>3, <2>4, <2>5 DEF TypeOK, CallRecord
<1>4. DOMAIN stack = {} /\ Len(stack) = 0
  BY <1>1
<1>5. Nested /\ Distinct /\ Returned
  BY <1>1, <1>4 DEF Nested, Distinct, Returned
<1>6. call.kind = "boot"
  BY <1>1
<1>7. Unwound /\ Outermost
  BY <1>1, <1>4, <1>6 DEF Unwound, Outermost
<1>8. Untouched /\ Whole /\ Granted
  BY <1>1 DEF Untouched, Whole, Granted
<1> QED
  BY <1>3, <1>4, <1>5, <1>7, <1>8 DEF IInv

LEMMA NextInv == ASSUME IInv, Next PROVE IInv'
<1>1. CASE \E r \in Requests(file) : IF r[2] = None THEN ForName(r[1]) ELSE Link(r[1], r[2])
  <2>1. PICK r \in Requests(file) : IF r[2] = None THEN ForName(r[1]) ELSE Link(r[1], r[2])
    BY <1>1
  <2>2. PICK c \in Name, from \in Name \cup {None} : c = r[1] /\ from = r[2]
    BY RequestFacts
  <2>3. CASE from = None
    BY <2>1, <2>2, <2>3, ForNameStep
  <2>4. CASE from # None
    BY <2>1, <2>2, <2>4, LinkStep
  <2> QED
    BY <2>3, <2>4
<1> QED
  BY <1>1, BootStep, ReturnStep, UncaughtStep, FindStep, ParseStep, SuperStep, NextInterfaceStep,
     ImplementsStep, MembersStep, AttributesStep, ParseArrayStep, ElementDoneStep, ArrayDoneStep,
     CreatedStep, CheckStep, LeaveStep, RethrowStep
  DEF Next

LEMMA StutterInv == ASSUME IInv, UNCHANGED vars PROVE IInv'
<1>1. /\ file' = file /\ cls' = cls /\ state' = state /\ table' = table /\ stack' = stack
      /\ lock' = lock /\ data' = data /\ thrown' = thrown /\ call' = call /\ answers' = answers
      /\ interfaceMethods' = interfaceMethods /\ resolved' = resolved
  BY DEF vars
<1>2. Stable /\ ClassPath(file)
  BY <1>1, WorldAssumption DEF Stable, IInv, TypeOK
<1>3. \A x, y : Found(x, y)' <=> Found(x, y)
  BY <1>1 DEF Found, Accessible, Package
<1>4. TypeOK'
  BY <1>1 DEF IInv, TypeOK
<1>5. \A i \in DOMAIN stack' : FrameOK(stack[i])'
  <2> SUFFICES ASSUME NEW i \in DOMAIN stack PROVE FrameOK(stack[i])'
    BY <1>1
  <2>1. stack[i] \in Frames /\ FrameOK(stack[i])
    BY DEF IInv, TypeOK
  <2>2. PICK g \in Frames : g = stack[i]
    BY <2>1
  <2>3. FrameOK(g)'
    BY <1>1, <1>2, <2>1, <2>2, FrameKept
  <2> QED
    BY <1>1, <2>2, <2>3
<1>6. Nested' /\ Distinct'
  BY <1>1 DEF IInv, Nested, Distinct, Callee, Asker
<1>7. Returned'
  BY <1>1, <1>3 DEF IInv, Returned, Callee, Asker, Top
<1>8. Unwound'
  BY <1>1 DEF IInv, Unwound, Top
<1>9. Outermost'
  BY <1>1, <1>3 DEF IInv, Outermost, Asked
<1>10. Untouched' /\ Granted'
  BY <1>1, <1>3 DEF IInv, Untouched, Granted
<1>11. Whole'
  <2> SUFFICES ASSUME NEW d \in Name, state'[d] = "linked" PROVE Complete(d)'
    BY DEF Whole
  <2>1. Complete(d)
    BY <1>1 DEF IInv, Whole
  <2> QED
    BY <1>1, <1>2, <2>1, CompleteKept
<1> QED
  BY <1>4, <1>5, <1>6, <1>7, <1>8, <1>9, <1>10, <1>11 DEF IInv

-----------------------------------------------------------------------------
(* The theorems.                                                           *)

\* The invariant of the loader: one lock for every call of bcl_resolve_class(), the
\* calls nested and at work on different classes, and a class linked only when all its
\* file names has been found, may be seen and is allowed there.
THEOREM LoaderInvariant == Spec => []IInv
<1>1. Init => IInv
  BY InitInv
<1>2. IInv /\ [Next]_vars => IInv'
  BY NextInv, StutterInv
<1> QED
  BY <1>1, <1>2, PTL DEF Spec

\* Between two calls the lock is free and no exception is left over; inside one the
\* lock is held once for every call, and once for the linker; no class is loaded inside
\* its own loading.
THEOREM LockReleased == Spec => []Released
<1>1. ASSUME IInv PROVE Released
  <2>1. TypeOK
    BY <1>1 DEF IInv
  <2>2. call.kind = "idle" => lock = 0 /\ data = 0 /\ ~thrown
    BY <1>1, EmptyLock DEF IInv, Unwound
  <2>3. ASSUME stack # <<>>
        PROVE  lock = Len(stack) + (IF call.kind = "link" THEN 1 ELSE 0)
                        - (IF Top.at = "find" /\ ~thrown THEN 1 ELSE 0)
    BY <1>1, <2>3 DEF IInv, Unwound
  <2>4. IsInjective([i \in 1 .. Len(stack) - 1 |-> stack[i].name])
    <3> SUFFICES ASSUME NEW i \in 1 .. Len(stack) - 1, NEW j \in 1 .. Len(stack) - 1,
                        stack[i].name = stack[j].name
                 PROVE  i = j
      BY DEF IsInjective
    <3>1. stack[i].at \in Waiting /\ stack[j].at \in Waiting
      BY <1>1 DEF IInv, Nested
    <3>2. i \in DOMAIN stack /\ j \in DOMAIN stack
      <4>1. DOMAIN stack = 1 .. Len(stack) /\ Len(stack) \in Nat
        BY <2>1 DEF TypeOK
      <4>2. \A n \in Nat : \A l \in 1 .. n - 1 : l \in 1 .. n
        OBVIOUS
      <4> QED
        BY <4>1, <4>2
    <3> QED
      BY <1>1, <3>1, <3>2 DEF IInv, Distinct, Waiting
  <2> QED
    BY <2>1, <2>2, <2>3, <2>4 DEF Released
<1> QED
  BY <1>1, LoaderInvariant, PTL

\* A linked class stays linked, and nothing of it is written again: what other classes
\* have taken from its tables is what it has.  No class leaves the class table, and none
\* moves in it.
Settles ==
    /\ \A c \in Name : state[c] = "linked" => state'[c] = "linked" /\ cls'[c] = cls[c]
    /\ \A i \in DOMAIN table : i \in DOMAIN table' /\ table'[i] = table[i]

LEMMA SettlesStep == ASSUME IInv, [Next]_vars PROVE Settles
<1>1. state \in [Name -> {"absent", "preloaded", "linking", "linked"}] /\ DOMAIN cls = Name /\ table \in Seq(Name)
  BY DEF IInv, TypeOK
<1>2. ASSUME NEW at \in Busy, Running(at) PROVE state[Top.name] = "linking" /\ Top.name \in Name
  BY <1>2, RunningFacts, TopFacts DEF FrameOK
<1>3. CASE cls' = cls /\ state' = state /\ table' = table
  BY <1>3 DEF Settles
<1>4. CASE Find
  <2>1. cls' = cls /\ Top.name \in Name
    BY <1>4, RunningFacts DEF Find
  <2>2. state' = state \/ (state[Top.name] # "linked" /\ state' = [state EXCEPT ![Top.name] = "linking"])
    BY <1>4 DEF Find
  <2>3. table' = table \/ table' = Append(table, Top.name)
    BY <1>4 DEF Find
  <2>4. \A i \in DOMAIN table : i \in DOMAIN table' /\ table'[i] = table[i]
    <3>1. PICK c \in Name : c = Top.name
      BY <2>1
    <3>2. table' = table \/ table' = Append(table, c)
      BY <2>3, <3>1
    <3> QED
      BY <1>1, <3>2
  <2> QED
    BY <1>1, <2>1, <2>2, <2>4 DEF Settles
<1>5. CASE Created
  <2>1. state[Top.name] = "linking" /\ Top.name \in Name
    BY <1>2, <1>5 DEF Created, Busy, Places
  <2>2. cls' = cls /\ table' = table /\ state' = [state EXCEPT ![Top.name] = "linked"]
    BY <1>5 DEF Created
  <2> QED
    BY <1>1, <2>1, <2>2 DEF Settles
<1>6. CASE Parse \/ Super \/ Members \/ ArrayDone
  <2>1. state[Top.name] = "linking" /\ state' = state /\ table' = table
    BY <1>2, <1>6 DEF Parse, Super, Members, ArrayDone, Busy, Places
  <2>2. \A d \in Name : d # Top.name => cls'[d] = cls[d]
    <3>1. CASE Parse
      BY <1>1, <3>1 DEF Parse
    <3>2. CASE Super
      BY <1>1, <3>2 DEF Super
    <3>3. CASE Members
      BY <1>1, <3>3 DEF Members
    <3>4. CASE ArrayDone
      BY <1>1, <3>4 DEF ArrayDone
    <3> QED
      BY <1>6, <3>1, <3>2, <3>3, <3>4
  <2> QED
    BY <2>1, <2>2 DEF Settles
<1>7. CASE UNCHANGED vars
  BY <1>3, <1>7 DEF vars
<1> QED
  BY <1>3, <1>4, <1>5, <1>6, <1>7
  DEF Next, Boot, ForName, Link, Return, Uncaught, NextInterface, Implements, Attributes, ParseArray,
      ElementDone, Check, Leave, Rethrow

THEOREM LinkedOnce == Spec => [][Settles]_vars
<1>1. IInv /\ [Next]_vars => [Settles]_vars
  BY SettlesStep
<1> QED
  BY <1>1, LoaderInvariant, PTL DEF Spec

\* The linked classes can be put in an order in which each comes after its superclass,
\* its interfaces, its element: no class is above itself, over however many others, and
\* whoever goes from a class to those it names, and on from there, comes to an end.
LinkedClasses == {c \in Name : state[c] = "linked"}
InOrder(order) ==
    /\ order \in Seq(Name) /\ IsInjective(order) /\ ToSet(order) = LinkedClasses
    /\ \A i \in DOMAIN order : Below(order[i]) \subseteq {order[j] : j \in 1 .. i - 1}
Ordered == \E order : InOrder(order)

\* All that a whole class names is linked.
LEMMA BelowWhole ==
    ASSUME ClassPath(file), NEW c \in Name, Complete(c)
    PROVE  Below(c) \subseteq LinkedClasses
<1>1. CASE IsArray(c)
  <2>1. state[Object] = "linked" /\ (Elem[c] # "primitive" => state[Elem[c]] = "linked")
    BY <1>1 DEF Complete, Found
  <2>2. Object \in Name /\ (Elem[c] # "primitive" => Elem[c] \in Name)
    BY <1>1, NamesAssumption DEF Name, IsArray
  <2> QED
    BY <1>1, <2>1, <2>2 DEF Below, LinkedClasses
<1>2. CASE ~IsArray(c)
  <2>1. Extends(c) /\ \A k \in DOMAIN file[c].interfaces : Provides(c, k)
    BY <1>2 DEF Complete, Derives
  <2>2. /\ file[c].super \in Name \cup {None}
        /\ \A k \in DOMAIN file[c].interfaces : file[c].interfaces[k] \in Name
    BY <1>2, FileFacts
  <2>3. file[c].super # None => file[c].super \in LinkedClasses
    BY <2>1, <2>2 DEF Extends, Found, LinkedClasses
  <2>4. ToSet(file[c].interfaces) \subseteq LinkedClasses
    BY <2>1, <2>2 DEF Provides, Found, LinkedClasses, ToSet
  <2> QED
    BY <1>2, <2>3, <2>4 DEF Below
<1> QED
  BY <1>1, <1>2

LEMMA OrderedStep == ASSUME IInv, Ordered, [Next]_vars PROVE Ordered'
<1>1. PICK order : InOrder(order)
  BY DEF Ordered
<1>2. /\ order \in Seq(Name) /\ IsInjective(order) /\ ToSet(order) = LinkedClasses
      /\ \A i \in DOMAIN order : Below(order[i]) \subseteq {order[j] : j \in 1 .. i - 1}
  BY <1>1 DEF InOrder
<1>3. file' = file /\ \A c : Below(c)' = Below(c)
  <2>1. file' = file
    BY DEF Next, vars, others, Boot, ForName, Link, Return, Uncaught, Find, Parse, Super, NextInterface,
       Implements, Members, Attributes, ParseArray, ElementDone, ArrayDone, Created, Check, Leave, Rethrow
  <2> QED
    BY <2>1 DEF Below
<1>4. state \in [Name -> {"absent", "preloaded", "linking", "linked"}]
  BY DEF IInv, TypeOK
<1>5. CASE LinkedClasses' = LinkedClasses
  BY <1>2, <1>3, <1>5 DEF Ordered, InOrder
<1>6. CASE Created
  <2>1. PICK c \in Name : c = Top.name
    BY <1>6, RunningFacts DEF Created
  <2>2. state[c] = "linking" /\ Complete(c) /\ ClassPath(file)
    <3>1. Running("created") /\ Top.at = "created" /\ FrameOK(Top)
      BY <1>6, RunningFacts, TopFacts DEF Created
    <3> QED
      BY <2>1, <3>1, WorldAssumption DEF FrameOK, Busy, Places, IInv, TypeOK
  <2>3. Below(c) \subseteq LinkedClasses
    BY <2>2, BelowWhole
  <2>4. LinkedClasses' = LinkedClasses \cup {c} /\ c \notin LinkedClasses
    <3>1. state' = [state EXCEPT ![c] = "linked"]
      BY <1>6, <2>1 DEF Created
    <3> QED
      BY <1>4, <2>2, <3>1 DEF LinkedClasses
  <2> DEFINE n == Len(order)
             next == Append(order, c)
  <2>5. /\ n \in Nat /\ DOMAIN order = 1 .. n /\ next \in Seq(Name) /\ DOMAIN next = 1 .. n + 1
        /\ next[n + 1] = c /\ \A i \in 1 .. n : next[i] = order[i]
    BY <1>2
  <2> HIDE DEF n, next
  <2>6. \A i \in 1 .. n + 1 : i = n + 1 \/ i \in 1 .. n
    BY <2>5
  <2>7. \A i \in 1 .. n : i \in 1 .. n + 1
    BY <2>5
  <2>8. \A i \in 1 .. n : order[i] # c
    BY <1>2, <2>4, <2>5 DEF ToSet
  <2>9. IsInjective(next)
    BY <1>2, <2>5, <2>6, <2>8 DEF IsInjective
  <2>10. ToSet(next) = ToSet(order) \cup {c}
    <3>1. n + 1 \in 1 .. n + 1
      BY <2>5
    <3> QED
      BY <2>5, <2>6, <2>7, <3>1 DEF ToSet
  <2>11. ASSUME NEW i \in DOMAIN next PROVE Below(next[i])' \subseteq {next[j] : j \in 1 .. i - 1}
    <3>1. CASE i = n + 1
      <4>1. i - 1 = n
        BY <2>5, <3>1
      <4>2. {next[j] : j \in 1 .. n} = ToSet(order)
        BY <2>5 DEF ToSet
      <4> QED
        BY <1>2, <1>3, <2>3, <2>5, <3>1, <4>1, <4>2
    <3>2. CASE i \in 1 .. n
      <4>1. Below(order[i]) \subseteq {order[j] : j \in 1 .. i - 1}
        BY <1>2, <2>5, <3>2
      <4>2. \A j \in 1 .. i - 1 : j \in 1 .. n
        BY <2>5, <3>2
      <4>3. {order[j] : j \in 1 .. i - 1} = {next[j] : j \in 1 .. i - 1}
        BY <2>5, <4>2
      <4> QED
        BY <1>3, <2>5, <3>2, <4>1, <4>3
    <3> QED
      BY <2>5, <2>6, <3>1, <3>2
  <2>12. InOrder(next)'
    BY <1>2, <2>4, <2>5, <2>9, <2>10, <2>11 DEF InOrder
  <2> QED
    BY <2>12 DEF Ordered
<1>7. ~Created => LinkedClasses' = LinkedClasses
  <2>1. CASE state' = state
    BY <2>1 DEF LinkedClasses
  <2>2. CASE Find
    <3>1. Top.name \in Name
      BY <2>2, RunningFacts DEF Find
    <3>2. state' = state \/ (state[Top.name] # "linked" /\ state' = [state EXCEPT ![Top.name] = "linking"])
      BY <2>2 DEF Find
    <3> QED
      BY <1>4, <2>1, <3>1, <3>2 DEF LinkedClasses
  <2>3. ~Created => state' = state \/ Find
    BY DEF Next, vars, Boot, ForName, Link, Return, Uncaught, Parse, Super, NextInterface,
       Implements, Members, Attributes, ParseArray, ElementDone, ArrayDone, Check, Leave, Rethrow
  <2> QED
    BY <2>1, <2>2, <2>3
<1> QED
  BY <1>5, <1>6, <1>7

THEOREM LinkingOrder == Spec => []Ordered
<1>1. Init => Ordered
  <2> SUFFICES ASSUME Init PROVE InOrder(<<>>)
    BY DEF Ordered
  <2>1. LinkedClasses = {}
    BY DEF Init, LinkedClasses
  <2>2. <<>> \in Seq(Name) /\ DOMAIN <<>> = {}
    OBVIOUS
  <2> QED
    BY <2>1, <2>2 DEF InOrder, IsInjective, ToSet
<1>2. IInv /\ Ordered /\ [Next]_vars => Ordered'
  BY OrderedStep
<1> QED
  BY <1>1, <1>2, LoaderInvariant, PTL DEF Spec
-----------------------------------------------------------------------------
(* All that a class needs.                                                 *)

\* A set of natural numbers that is not empty has a least element.
LEMMA Least ==
    ASSUME NEW T \in SUBSET Nat, T # {}
    PROVE  \E n \in T : \A m \in T : n =< m
<1> DEFINE R == OpToRel(<, Nat)
<1>1. \A x \in Nat, y \in Nat : <<y, x>> \notin R => x =< y
  BY DEF OpToRel
<1>2. IsWellFoundedOn(R, Nat)
  BY NatLessThanWellFounded
<1> HIDE DEF R
<1>3. PICK n \in T : \A m \in T : <<m, n>> \notin R
  BY <1>2, WFMin
<1> QED
  BY <1>1, <1>3

\* f begins with base and goes on by step, up to k.
Upto(k, f, V, base, step) ==
    /\ f \in [0 .. k -> V] /\ f[0] = base
    /\ \A i \in 1 .. k : f[i] = step[f[i - 1]]

\* Such a function exists for every k, and they agree as far as they go.
LEMMA UptoExists ==
    ASSUME NEW V, NEW base \in V, NEW step \in [V -> V], NEW n \in Nat
    PROVE  \E f : Upto(n, f, V, base, step)
<1> DEFINE Bad == {k \in Nat : ~ \E f : Upto(k, f, V, base, step)}
<1>1. ASSUME Bad # {} PROVE FALSE
  <2>1. PICK k \in Bad : \A m \in Bad : k =< m
    BY <1>1, Least, Bad \in SUBSET Nat
  <2>2. k # 0
    <3>1. Upto(0, [i \in 0 .. 0 |-> base], V, base, step)
      BY DEF Upto
    <3> QED
      BY <2>1, <3>1
  <2>3. k \in Nat /\ k - 1 \in Nat /\ k - 1 \notin Bad
    BY <2>1, <2>2
  <2>4. PICK f : Upto(k - 1, f, V, base, step)
    BY <2>3
  <2> DEFINE g == [i \in 0 .. k |-> IF i = k THEN step[f[k - 1]] ELSE f[i]]
  <2>5. Upto(k, g, V, base, step)
    <3>1. f \in [0 .. k - 1 -> V] /\ f[0] = base /\ \A i \in 1 .. k - 1 : f[i] = step[f[i - 1]]
      BY <2>4 DEF Upto
    <3>2. f[k - 1] \in V
      BY <2>3, <3>1
    <3>3. g \in [0 .. k -> V] /\ g[0] = base
      BY <2>2, <2>3, <3>1, <3>2
    <3>4. ASSUME NEW i \in 1 .. k PROVE g[i] = step[g[i - 1]]
      <4>1. i - 1 \in 0 .. k /\ i - 1 # k /\ g[i - 1] = f[i - 1]
        BY <2>3
      <4>2. CASE i = k
        BY <4>1, <4>2
      <4>3. CASE i # k
        BY <2>3, <3>1, <4>1, <4>3
      <4> QED
        BY <4>2, <4>3
    <3> HIDE DEF g
    <3> QED
      BY <3>3, <3>4 DEF Upto
  <2> QED
    BY <2>1, <2>5
<1> QED
  BY <1>1

LEMMA UptoUnique ==
    ASSUME NEW V, NEW base, NEW step, NEW k \in Nat, NEW n \in Nat, k =< n, NEW f, NEW g,
           Upto(k, f, V, base, step), Upto(n, g, V, base, step)
    PROVE  f[k] = g[k]
<1> DEFINE Bad == {i \in 0 .. k : f[i] # g[i]}
<1>1. ASSUME Bad # {} PROVE FALSE
  <2>1. PICK i \in Bad : \A j \in Bad : i =< j
    BY <1>1, Least, Bad \in SUBSET Nat
  <2>2. i # 0
    BY <2>1 DEF Upto
  <2>3. i \in 1 .. k /\ i \in 1 .. n /\ i - 1 \in 0 .. k /\ i - 1 \notin Bad
    BY <2>1, <2>2
  <2>4. f[i] = step[f[i - 1]] /\ g[i] = step[g[i - 1]]
    BY <2>3 DEF Upto
  <2> QED
    BY <2>1, <2>3, <2>4
<1> QED
  BY <1>1

\* So there is one for all natural numbers.
LEMMA NatRecursion ==
    ASSUME NEW V, NEW base \in V, NEW step \in [V -> V]
    PROVE  \E f \in [Nat -> V] : f[0] = base /\ \A n \in Nat \ {0} : f[n] = step[f[n - 1]]
<1> DEFINE h == [n \in Nat |-> CHOOSE f : Upto(n, f, V, base, step)]
           F == [n \in Nat |-> h[n][n]]
<1>1. \A n \in Nat : Upto(n, h[n], V, base, step)
  BY UptoExists
<1> HIDE DEF h
<1>2. \A n \in Nat : n \in 0 .. n /\ F[n] = h[n][n]
  OBVIOUS
<1>3. F \in [Nat -> V]
  BY <1>1, <1>2 DEF Upto
<1>4. F[0] = base
  BY <1>1, <1>2 DEF Upto
<1>5. ASSUME NEW n \in Nat \ {0} PROVE F[n] = step[F[n - 1]]
  <2>1. n - 1 \in Nat /\ n - 1 =< n /\ n \in 1 .. n
    OBVIOUS
  <2>2. h[n][n] = step[h[n][n - 1]]
    BY <1>1, <2>1 DEF Upto
  <2>3. h[n - 1][n - 1] = h[n][n - 1]
    BY <1>1, <2>1, UptoUnique
  <2> QED
    BY <1>2, <2>1, <2>2, <2>3
<1> HIDE DEF F
<1> QED
  BY <1>3, <1>4, <1>5

\* A class names classes.
LEMMA BelowNames == ASSUME ClassPath(file), NEW c \in Name PROVE Below(c) \subseteq Name
<1>1. CASE IsArray(c)
  <2>1. Object \in Name /\ (Elem[c] # "primitive" => Elem[c] \in Name)
    BY <1>1, NamesAssumption DEF Name, IsArray
  <2> QED
    BY <1>1, <2>1 DEF Below
<1>2. CASE ~IsArray(c)
  BY <1>2, FileFacts DEF Below, ToSet
<1> QED
  BY <1>1, <1>2

\* The stages of Needs.
LEMMA NeedsStages ==
    ASSUME ClassPath(file), NEW c \in Name
    PROVE  \E f : /\ f[0] = Below(c)
                  /\ \A n \in Nat \ {0} : f[n] = f[n - 1] \cup UNION {Below(d) : d \in f[n - 1]}
                  /\ Needs(c) = f[Cardinality(Name)]
<1> DEFINE step == [S \in SUBSET Name |-> S \cup UNION {Below(d) : d \in S}]
           Is(f) == f = [n \in Nat |-> IF n = 0 THEN Below(c)
                                       ELSE LET nearer == f[n - 1]
                                            IN  nearer \cup UNION {Below(d) : d \in nearer}]
           within == CHOOSE f : Is(f)
<1>1. Below(c) \in SUBSET Name /\ step \in [SUBSET Name -> SUBSET Name]
  BY BelowNames
<1>2. PICK g \in [Nat -> SUBSET Name] :
            g[0] = Below(c) /\ \A n \in Nat \ {0} : g[n] = step[g[n - 1]]
  <2>1. ASSUME NEW V, NEW base \in V, NEW next \in [V -> V]
        PROVE  \E f \in [Nat -> V] : f[0] = base /\ \A n \in Nat \ {0} : f[n] = next[f[n - 1]]
    BY <2>1, NatRecursion
  <2> DEFINE names == SUBSET Name
             base == Below(c)
  <2>2. base \in names /\ step \in [names -> names]
    BY <1>1
  <2> HIDE DEF step, names, base
  <2>3. \E f \in [Nat -> names] : f[0] = base /\ \A n \in Nat \ {0} : f[n] = step[f[n - 1]]
    BY <2>1, <2>2
  <2> QED
    BY <2>3 DEF names, base
<1>3. Is(g)
  <2>1. ASSUME NEW n \in Nat, n # 0
        PROVE  g[n] = g[n - 1] \cup UNION {Below(d) : d \in g[n - 1]}
    <3>1. n - 1 \in Nat /\ g[n - 1] \in SUBSET Name
      BY <1>2, <2>1
    <3> QED
      BY <1>2, <2>1, <3>1
  <2> QED
    BY <1>2, <2>1
<1>4. Is(within)
  <2> HIDE DEF Is
  <2> QED
    BY <1>3
<1>5. Needs(c) = within[Cardinality(Name)]
  BY DEF Needs
<1>6. within[0] = Below(c)
  BY <1>4
<1>7. ASSUME NEW n \in Nat \ {0}
      PROVE  within[n] = within[n - 1] \cup UNION {Below(d) : d \in within[n - 1]}
  BY <1>4
<1> HIDE DEF within
<1> QED
  BY <1>5, <1>6, <1>7

\* What is closed and holds all a class names holds all it needs.
LEMMA NeedsWithin ==
    ASSUME ClassPath(file), NEW c \in Name, NEW S, Below(c) \subseteq S,
           \A d \in S : Below(d) \subseteq S
    PROVE  Needs(c) \subseteq S
<1>1. PICK f : /\ f[0] = Below(c)
               /\ \A n \in Nat \ {0} : f[n] = f[n - 1] \cup UNION {Below(d) : d \in f[n - 1]}
               /\ Needs(c) = f[Cardinality(Name)]
  BY NeedsStages
<1> DEFINE Bad == {n \in Nat : ~(f[n] \subseteq S)}
<1>2. ASSUME Bad # {} PROVE FALSE
  <2>1. PICK n \in Bad : \A m \in Bad : n =< m
    BY <1>2, Least, Bad \in SUBSET Nat
  <2>2. n # 0
    BY <1>1, <2>1
  <2>3. n \in Nat \ {0} /\ n - 1 \in Nat /\ n - 1 \notin Bad
    BY <2>1, <2>2
  <2>4. f[n - 1] \subseteq S
    BY <2>3
  <2>5. f[n] = f[n - 1] \cup UNION {Below(d) : d \in f[n - 1]}
    BY <1>1, <2>3
  <2> QED
    BY <2>1, <2>4, <2>5
<1>3. Cardinality(Name) \in Nat
  BY NamesAssumption, FS_CardinalityType
<1> QED
  BY <1>1, <1>2, <1>3

\* A class that was granted is linked and whole, and so is everything it needs, over
\* however many others; nothing among them needs itself; and who asked may see it.
\* This is what Answered requires of an answer `ok', in terms of the classes as they
\* have been linked.
Accepted ==
    \A i \in DOMAIN answers :
        LET c == answers[i][1]
            from == answers[i][2]
        IN  answers[i][3] = "ok" =>
                /\ \A d \in {c} \cup Needs(c) : state[d] = "linked" /\ Complete(d) /\ d \notin Needs(d)
                /\ Accessible(c, from)

LEMMA OrderedNeeds ==
    ASSUME IInv, Ordered, NEW c \in LinkedClasses
    PROVE  Needs(c) \subseteq LinkedClasses /\ c \notin Needs(c)
<1>1. PICK order : InOrder(order)
  BY DEF Ordered
<1>2. /\ order \in Seq(Name) /\ IsInjective(order) /\ ToSet(order) = LinkedClasses
      /\ \A i \in DOMAIN order : Below(order[i]) \subseteq {order[j] : j \in 1 .. i - 1}
  BY <1>1 DEF InOrder
<1>3. DOMAIN order = 1 .. Len(order) /\ Len(order) \in Nat
  BY <1>2
<1>4. PICK k \in DOMAIN order : order[k] = c
  BY <1>2 DEF ToSet
<1> DEFINE S == {order[j] : j \in 1 .. k - 1}
<1>5. \A d \in S : Below(d) \subseteq S
  <2> SUFFICES ASSUME NEW j \in 1 .. k - 1 PROVE Below(order[j]) \subseteq S
    OBVIOUS
  <2>1. j \in DOMAIN order /\ \A l \in 1 .. j - 1 : l \in 1 .. k - 1
    BY <1>3, <1>4
  <2>2. Below(order[j]) \subseteq {order[l] : l \in 1 .. j - 1}
    BY <1>2, <2>1
  <2> QED
    BY <2>1, <2>2
<1>6. Below(c) \subseteq S
  BY <1>2, <1>4
<1>7. c \in Name /\ ClassPath(file)
  BY WorldAssumption DEF IInv, TypeOK, LinkedClasses
<1>8. S \subseteq LinkedClasses /\ c \notin S
  <2>1. \A j \in 1 .. k - 1 : j \in DOMAIN order /\ j # k
    BY <1>3, <1>4
  <2>2. \A j \in 1 .. k - 1 : order[j] # c
    BY <1>2, <1>4, <2>1 DEF IsInjective
  <2>3. \A j \in 1 .. k - 1 : order[j] \in LinkedClasses
    BY <1>2, <2>1 DEF ToSet
  <2> QED
    BY <2>2, <2>3
<1> HIDE DEF S
<1>9. Needs(c) \subseteq S
  BY <1>5, <1>6, <1>7, NeedsWithin
<1> QED
  BY <1>8, <1>9

THEOREM AcceptedWhole == Spec => []Accepted
<1>1. IInv /\ Ordered => Accepted
  <2> SUFFICES ASSUME IInv, Ordered, NEW i \in DOMAIN answers, answers[i][3] = "ok"
               PROVE  /\ \A d \in {answers[i][1]} \cup Needs(answers[i][1]) :
                            state[d] = "linked" /\ Complete(d) /\ d \notin Needs(d)
                      /\ Accessible(answers[i][1], answers[i][2])
    BY DEF Accepted
  <2>1. PICK c : c = answers[i][1]
    OBVIOUS
  <2>2. Found(c, answers[i][2])
    BY <2>1 DEF IInv, Granted
  <2>3. c \in Name
    BY <2>1 DEF IInv, TypeOK
  <2>4. c \in LinkedClasses
    BY <2>2, <2>3 DEF Found, LinkedClasses
  <2>5. \A d \in {c} \cup Needs(c) : d \in LinkedClasses
    BY <2>4, OrderedNeeds
  <2>6. \A d \in LinkedClasses : state[d] = "linked" /\ Complete(d) /\ d \notin Needs(d)
    <3>1. \A d \in LinkedClasses : d \notin Needs(d)
      BY OrderedNeeds
    <3>2. \A d \in LinkedClasses : state[d] = "linked" /\ Complete(d)
      BY DEF LinkedClasses, IInv, Whole
    <3> QED
      BY <3>1, <3>2
  <2>7. Accessible(c, answers[i][2])
    BY <2>2 DEF Found
  <2> QED
    BY <2>1, <2>5, <2>6, <2>7
<1> QED
  BY <1>1, LoaderInvariant, LinkingOrder, PTL

-----------------------------------------------------------------------------
(* The places of the fields.                                               *)

\* The places of a class are what layout_fields() computes from those of the superclass.
Placed(c) ==
    cls[c].refN = RefN(c) /\ cls[c].nrefSize = NrefSize(c) /\ cls[c].offsets = Offsets(c)

\* The fields of one type are counted off: each has a number of its own, below the count.
LEMMA Counted ==
    ASSUME NEW c, Len(file[c].fields) \in Nat, NEW type
    PROVE  /\ Count(c, type) \in Nat
           /\ \A k \in 1 .. Len(file[c].fields) :
                 k \in InstanceFields(c, type, Len(file[c].fields)) =>
                    /\ Cardinality(InstanceFields(c, type, k - 1)) \in Nat
                    /\ Cardinality(InstanceFields(c, type, k - 1)) + 1 =< Count(c, type)
           /\ \A k \in 1 .. Len(file[c].fields), l \in 1 .. Len(file[c].fields) :
                 (k < l /\ k \in InstanceFields(c, type, Len(file[c].fields))) =>
                    Cardinality(InstanceFields(c, type, k - 1))
                        < Cardinality(InstanceFields(c, type, l - 1))
<1> DEFINE n == Len(file[c].fields)
           S(k) == InstanceFields(c, type, k)
<1>1. ASSUME NEW k \in Nat PROVE IsFiniteSet(S(k)) /\ Cardinality(S(k)) \in Nat
  <2>1. S(k) \subseteq 1 .. k
    BY DEF InstanceFields
  <2>2. IsFiniteSet(1 .. k)
    BY FS_Interval
  <2> HIDE DEF S
  <2> QED
    BY <2>1, <2>2, FS_Subset, FS_CardinalityType
<1>2. ASSUME NEW k \in 1 .. n, NEW m \in Nat, k =< m, k \in S(n)
      PROVE  Cardinality(S(k - 1)) + 1 =< Cardinality(S(m))
  <2>1. k - 1 \in Nat
    OBVIOUS
  <2>2. S(k - 1) \cup {k} \subseteq S(m)
    BY <1>2 DEF InstanceFields
  <2>3. k \notin S(k - 1)
    BY DEF InstanceFields
  <2> HIDE DEF S
  <2>4. Cardinality(S(k - 1) \cup {k}) = Cardinality(S(k - 1)) + 1 /\ IsFiniteSet(S(k - 1) \cup {k})
    BY <1>1, <2>1, <2>3, FS_AddElement
  <2>5. Cardinality(S(k - 1) \cup {k}) =< Cardinality(S(m))
    BY <1>1, <2>2, FS_Subset
  <2> QED
    BY <2>4, <2>5
<1>3. Count(c, type) = Cardinality(S(n))
  BY DEF Count
<1>4. Count(c, type) \in Nat
  BY <1>1, <1>3
<1>5. ASSUME NEW k \in 1 .. n, k \in S(n)
      PROVE  Cardinality(S(k - 1)) \in Nat /\ Cardinality(S(k - 1)) + 1 =< Count(c, type)
  <2>1. k - 1 \in Nat /\ k =< n
    OBVIOUS
  <2> HIDE DEF S
  <2> QED
    BY <1>1, <1>2, <1>3, <1>5, <2>1
<1>6. ASSUME NEW k \in 1 .. n, NEW l \in 1 .. n, k < l, k \in S(n)
      PROVE  Cardinality(S(k - 1)) < Cardinality(S(l - 1))
  <2>1. k - 1 \in Nat /\ l - 1 \in Nat /\ k =< l - 1
    BY <1>6
  <2>2. Cardinality(S(k - 1)) + 1 =< Cardinality(S(l - 1))
    <3> HIDE DEF S
    <3> QED
      BY <1>2, <1>6, <2>1
  <2>3. Cardinality(S(k - 1)) \in Nat /\ Cardinality(S(l - 1)) \in Nat
    <3> HIDE DEF S
    <3> QED
      BY <1>1, <2>1
  <2> HIDE DEF S
  <2> QED
    BY <2>2, <2>3
<1> HIDE DEF n, S
<1> QED
  BY <1>4, <1>5, <1>6 DEF n, S

\* The first and the last byte of a field.
FirstByte(f) == IF TypeOf(f) = "bit" THEN OffsetOf(f) \div 8 ELSE OffsetOf(f)
LastByte(f) == IF TypeOf(f) = "bit" THEN OffsetOf(f) \div 8 ELSE OffsetOf(f) + Size(TypeOf(f)) - 1

\* The number of a field of c among those of its type.
Number(c, k) == Cardinality(InstanceFields(c, file[c].fields[k].type, k - 1))

\* A field of c itself.
Own(c) == {k \in DOMAIN file[c].fields : "static" \notin file[c].fields[k].flags}

\* Rounding up to a multiple of 2, 4 and 8.
LEMMA Aligned2 ==
    ASSUME NEW x \in Nat
    PROVE  /\ ((x + 2 - 1) \div 2) * 2 \in Nat /\ ((x + 2 - 1) \div 2) * 2 >= x
           /\ (((x + 2 - 1) \div 2) * 2) % 2 = 0
  OBVIOUS

LEMMA Aligned4 ==
    ASSUME NEW x \in Nat
    PROVE  /\ ((x + 4 - 1) \div 4) * 4 \in Nat /\ ((x + 4 - 1) \div 4) * 4 >= x
           /\ (((x + 4 - 1) \div 4) * 4) % 4 = 0
  OBVIOUS

LEMMA Aligned8 ==
    ASSUME NEW x \in Nat
    PROVE  /\ ((x + 8 - 1) \div 8) * 8 \in Nat /\ ((x + 8 - 1) \div 8) * 8 >= x
           /\ (((x + 8 - 1) \div 8) * 8) % 8 = 0
  OBVIOUS

\* The area of c begins behind that of the superclass, aligned for its widest field.
LEMMA AreaFacts ==
    ASSUME NEW c, NEW size \in Nat, size = (IF file[c].super = None THEN 0 ELSE cls[file[c].super].nrefSize),
           Len(file[c].fields) \in Nat
    PROVE  /\ ParentArea(c) \in Nat /\ ParentArea(c) >= size
           /\ Count(c, "long") > 0 => ParentArea(c) % Word = 0
           /\ Count(c, "long") = 0 /\ Count(c, "int") > 0 => ParentArea(c) % 4 = 0
           /\ Count(c, "long") = 0 /\ Count(c, "int") = 0 /\ Count(c, "short") > 0 => ParentArea(c) % 2 = 0
<1>1. \A t : Count(c, t) \in Nat
  BY Counted
<1>2. ASSUME NEW y \in {2, 4, 8} PROVE Ceil(size, y) \in Nat /\ Ceil(size, y) >= size /\ Ceil(size, y) % y = 0
  <2>1. CASE y = 2
    <3>1. Ceil(size, y) = ((size + 2 - 1) \div 2) * 2
      BY <2>1 DEF Ceil
    <3> QED
      BY <2>1, <3>1, Aligned2
  <2>2. CASE y = 4
    <3>1. Ceil(size, y) = ((size + 4 - 1) \div 4) * 4
      BY <2>2 DEF Ceil
    <3> QED
      BY <2>2, <3>1, Aligned4
  <2>3. CASE y = 8
    <3>1. Ceil(size, y) = ((size + 8 - 1) \div 8) * 8
      BY <2>3 DEF Ceil
    <3> QED
      BY <2>3, <3>1, Aligned8
  <2> QED
    BY <2>1, <2>2, <2>3
<1>3. Word \in {2, 4, 8}
  BY WordAssumption
<1>4. ParentArea(c) = IF Count(c, "long") > 0 THEN Ceil(size, Word)
                      ELSE IF Count(c, "int") > 0 THEN Ceil(size, 4)
                      ELSE IF Count(c, "short") > 0 THEN Ceil(size, 2) ELSE size
  BY DEF ParentArea
<1>5. CASE Count(c, "long") > 0
  <2>1. ParentArea(c) = Ceil(size, Word)
    BY <1>4, <1>5
  <2>2. Ceil(size, Word) \in Nat /\ Ceil(size, Word) >= size /\ Ceil(size, Word) % Word = 0
    BY <1>2, <1>3
  <2> QED
    BY <1>1, <1>5, <2>1, <2>2
<1>6. CASE Count(c, "long") = 0 /\ Count(c, "int") > 0
  <2>1. ParentArea(c) = Ceil(size, 4)
    BY <1>4, <1>6
  <2> QED
    BY <1>1, <1>2, <1>6, <2>1
<1>7. CASE Count(c, "long") = 0 /\ Count(c, "int") = 0 /\ Count(c, "short") > 0
  <2>1. ParentArea(c) = Ceil(size, 2)
    BY <1>4, <1>7
  <2> QED
    BY <1>1, <1>2, <1>7, <2>1
<1>8. CASE Count(c, "long") = 0 /\ Count(c, "int") = 0 /\ Count(c, "short") = 0
  BY <1>4, <1>8
<1>9. \A n \in Nat : n > 0 \/ n = 0
  OBVIOUS
<1> QED
  BY <1>1, <1>5, <1>6, <1>7, <1>8, <1>9

\* The starts of the types, one behind the other.
LEMMA Starts ==
    ASSUME NEW c
    PROVE  /\ Start(c, "long") = ParentArea(c) + Word + 0 + 0 + 0 + 0
           /\ Start(c, "int") = ParentArea(c) + Word + 8 * Count(c, "long") + 0 + 0 + 0
           /\ Start(c, "short") = ParentArea(c) + Word + 8 * Count(c, "long") + 4 * Count(c, "int") + 0 + 0
           /\ Start(c, "byte") = ParentArea(c) + Word + 8 * Count(c, "long") + 4 * Count(c, "int")
                                    + 2 * Count(c, "short") + 0
           /\ Start(c, "bit") = ParentArea(c) + Word + 8 * Count(c, "long") + 4 * Count(c, "int")
                                    + 2 * Count(c, "short") + Count(c, "byte")
BY DEF Start

\* The part of an instance for the fields of a type: from Lo up to, without, Hi.
Lo(c, type) == IF type = "ref" THEN -(RefN(c) * Word) ELSE Start(c, type)
Hi(c, type) ==
    CASE type = "long" -> Start(c, "int") [] type = "int" -> Start(c, "short")
      [] type = "short" -> Start(c, "byte") [] type = "byte" -> Start(c, "bit")
      [] type = "bit" -> Start(c, "bit") + ((Count(c, "bit") + 7) \div 8)
      [] type = "ref" -> -(ParentRefs(c) * Word)

\* The parts are in the areas of c, outside those of the superclass, and do not overlap.
LEMMA Parts ==
    ASSUME NEW c, c # Reference, ParentRefs(c) \in Nat,
           NEW size \in Nat, size = (IF file[c].super = None THEN 0 ELSE cls[file[c].super].nrefSize),
           Len(file[c].fields) \in Nat
    PROVE  /\ RefN(c) \in Nat /\ RefN(c) >= ParentRefs(c)
           /\ NrefSize(c) \in Nat /\ NrefSize(c) >= size
           /\ \A t \in FieldType : Lo(c, t) \in Int /\ Hi(c, t) \in Int
           /\ \A t \in FieldType \ {"ref"} : Lo(c, t) >= Word + size /\ Hi(c, t) =< Word + NrefSize(c)
           /\ Hi(c, "ref") =< 0
           /\ \A t \in FieldType, u \in FieldType :
                 t # u => Hi(c, t) =< Lo(c, u) \/ Hi(c, u) =< Lo(c, t)
<1> DEFINE P == ParentArea(c)
           L == Count(c, "long")
           I == Count(c, "int")
           H == Count(c, "short")
           B == Count(c, "byte")
           Z == Count(c, "bit")
           R == Count(c, "ref")
           E == (Z + 7) \div 8
<1>1. L \in Nat /\ I \in Nat /\ H \in Nat /\ B \in Nat /\ Z \in Nat /\ R \in Nat
  BY Counted
<1>2. P \in Nat /\ P >= size
  BY AreaFacts
<1>3. Word \in {4, 8}
  BY WordAssumption
<1>4. /\ Start(c, "long") = P + Word /\ Start(c, "int") = P + Word + 8 * L
      /\ Start(c, "short") = P + Word + 8 * L + 4 * I
      /\ Start(c, "byte") = P + Word + 8 * L + 4 * I + 2 * H
      /\ Start(c, "bit") = P + Word + 8 * L + 4 * I + 2 * H + B
  <2> HIDE DEF P, L, I, H, B
  <2>1. /\ Start(c, "long") = P + Word + 0 + 0 + 0 + 0
        /\ Start(c, "int") = P + Word + 8 * L + 0 + 0 + 0
        /\ Start(c, "short") = P + Word + 8 * L + 4 * I + 0 + 0
        /\ Start(c, "byte") = P + Word + 8 * L + 4 * I + 2 * H + 0
        /\ Start(c, "bit") = P + Word + 8 * L + 4 * I + 2 * H + B
    BY Starts DEF P, L, I, H, B
  <2> QED
    BY <1>1, <1>2, <1>3, <2>1
<1>5. E \in Nat
  <2> HIDE DEF Z
  <2> QED
    BY <1>1
<1>6. RefN(c) = ParentRefs(c) + R /\ NrefSize(c) = Start(c, "bit") - Word + E
  BY DEF RefN, NrefSize
<1>7. /\ Lo(c, "long") = P + Word /\ Hi(c, "long") = P + Word + 8 * L
      /\ Lo(c, "int") = P + Word + 8 * L /\ Hi(c, "int") = P + Word + 8 * L + 4 * I
      /\ Lo(c, "short") = P + Word + 8 * L + 4 * I /\ Hi(c, "short") = P + Word + 8 * L + 4 * I + 2 * H
      /\ Lo(c, "byte") = P + Word + 8 * L + 4 * I + 2 * H
      /\ Hi(c, "byte") = P + Word + 8 * L + 4 * I + 2 * H + B
      /\ Lo(c, "bit") = P + Word + 8 * L + 4 * I + 2 * H + B
      /\ Hi(c, "bit") = P + Word + 8 * L + 4 * I + 2 * H + B + E
      /\ Lo(c, "ref") = -(RefN(c) * Word) /\ Hi(c, "ref") = -(ParentRefs(c) * Word)
  <2> HIDE DEF P, L, I, H, B, E
  <2> QED
    BY <1>4 DEF Lo, Hi, E
<1> HIDE DEF P, L, I, H, B, Z, R, E
<1> DEFINE T == 8 * L + 4 * I + 2 * H + B
<1>a. T \in Nat /\ 8 * L =< T /\ 8 * L + 4 * I =< T /\ 8 * L + 4 * I + 2 * H =< T
  BY <1>1
<1>b. NrefSize(c) = P + T + E
  <2>1. NrefSize(c) = (P + Word + 8 * L + 4 * I + 2 * H + B) - Word + E
    BY <1>4, <1>6
  <2>2. Word \in Int /\ P \in Int /\ E \in Int /\ T \in Int
    BY <1>2, <1>3, <1>5, <1>a
  <2>3. 8 * L \in Int /\ 4 * I \in Int /\ 2 * H \in Int /\ B \in Int
    BY <1>1
  <2>4. P + Word + 8 * L + 4 * I + 2 * H + B = P + Word + T
    BY <2>2, <2>3
  <2>5. NrefSize(c) = (P + Word + T) - Word + E
    BY <2>1, <2>4
  <2> HIDE DEF T
  <2> QED
    BY <2>2, <2>5
<1>8. RefN(c) \in Nat /\ RefN(c) >= ParentRefs(c) /\ NrefSize(c) \in Nat /\ NrefSize(c) >= size
  <2>1. RefN(c) = ParentRefs(c) + R
    BY <1>6
  <2>2. RefN(c) \in Nat /\ RefN(c) >= ParentRefs(c)
    BY <1>1, <2>1
  <2> HIDE DEF T
  <2>3. NrefSize(c) \in Nat /\ NrefSize(c) >= size
    BY <1>2, <1>5, <1>a, <1>b
  <2> QED
    BY <2>2, <2>3
<1>9. Lo(c, "ref") \in Int /\ Hi(c, "ref") \in Int /\ Hi(c, "ref") =< 0
  <2>1. Word = 4 \/ Word = 8
    BY <1>3
  <2> QED
    BY <1>7, <1>8, <2>1
<1>10. ASSUME NEW t \in FieldType \ {"ref"}
       PROVE  /\ Lo(c, t) \in Int /\ Hi(c, t) \in Int
              /\ Lo(c, t) >= Word + size /\ Hi(c, t) =< Word + NrefSize(c)
  <2>2. Word \in Nat
    BY <1>3
  <2>3. Lo(c, t) \in Int /\ Hi(c, t) \in Int /\ Lo(c, t) >= P + Word
    <3> DEFINE Behind(u) == Lo(c, u) \in Int /\ Hi(c, u) \in Int /\ Lo(c, u) >= P + Word
    <3>1. t \in {"long", "int", "short", "byte", "bit"}
      BY DEF FieldType
    <3>2. P \in Nat /\ L \in Nat /\ I \in Nat /\ H \in Nat /\ B \in Nat /\ E \in Nat
      BY <1>1, <1>2, <1>5
    <3>3. Behind("long")
      BY <1>7, <2>2, <3>2
    <3>4. Behind("int")
      BY <1>7, <2>2, <3>2
    <3>5. Behind("short")
      BY <1>7, <2>2, <3>2
    <3>6. Behind("byte")
      BY <1>7, <2>2, <3>2
    <3>7. Behind("bit")
      BY <1>7, <2>2, <3>2
    <3> HIDE DEF Behind
    <3>8. Behind(t)
      BY <3>1, <3>3, <3>4, <3>5, <3>6, <3>7
    <3> QED
      BY <3>8 DEF Behind
  <2>4. Hi(c, t) =< P + Word + 8 * L + 4 * I + 2 * H + B + E
    <3> DEFINE Within(u) == Hi(c, u) =< P + Word + 8 * L + 4 * I + 2 * H + B + E
    <3>1. t \in {"long", "int", "short", "byte", "bit"}
      BY DEF FieldType
    <3>2. P \in Nat /\ L \in Nat /\ I \in Nat /\ H \in Nat /\ B \in Nat /\ E \in Nat
      BY <1>1, <1>2, <1>5
    <3>3. Within("long")
      BY <1>7, <2>2, <3>2
    <3>4. Within("int")
      BY <1>7, <2>2, <3>2
    <3>5. Within("short")
      BY <1>7, <2>2, <3>2
    <3>6. Within("byte")
      BY <1>7, <2>2, <3>2
    <3>7. Within("bit")
      BY <1>7, <2>2, <3>2
    <3> HIDE DEF Within
    <3>8. Within(t)
      BY <3>1, <3>3, <3>4, <3>5, <3>6, <3>7
    <3> QED
      BY <3>8 DEF Within
  <2>5. P + Word + 8 * L + 4 * I + 2 * H + B + E = Word + NrefSize(c)
    BY <1>1, <1>2, <1>5, <1>b, <2>2
  <2>6. Hi(c, t) =< Word + NrefSize(c)
    BY <2>4, <2>5
  <2>7. Lo(c, t) >= Word + size
    <3>1. P + Word >= Word + size /\ P + Word \in Int /\ Word + size \in Int
      BY <1>2, <2>2
    <3> QED
      BY <2>3, <3>1
  <2> QED
    BY <2>3, <2>6, <2>7
<1>11. ASSUME NEW t \in FieldType, NEW u \in FieldType, t # u
       PROVE  Hi(c, t) =< Lo(c, u) \/ Hi(c, u) =< Lo(c, t)
  <2>1. CASE t # "ref" /\ u # "ref"
    <3>1. t \in {"long", "int", "short", "byte", "bit"} /\ u \in {"long", "int", "short", "byte", "bit"}
      BY <2>1 DEF FieldType
    <3> QED
      BY <1>1, <1>2, <1>3, <1>5, <1>7, <1>11, <3>1
  <2>2. CASE t = "ref"
    <3>1. u \in FieldType \ {"ref"}
      BY <1>11, <2>2
    <3>2. Lo(c, u) \in Int /\ Lo(c, u) >= Word + size
      BY <1>10, <3>1
    <3>3. Word + size \in Nat
      BY <1>3
    <3>4. \A x, y \in Int : \A n \in Nat : x =< 0 /\ y >= n => x =< y
      OBVIOUS
    <3> QED
      BY <1>9, <2>2, <3>2, <3>3, <3>4
  <2>3. CASE u = "ref"
    <3>1. t \in FieldType \ {"ref"}
      BY <1>11, <2>3
    <3>2. Lo(c, t) \in Int /\ Lo(c, t) >= Word + size
      BY <1>10, <3>1
    <3>3. Word + size \in Nat
      BY <1>3
    <3>4. \A x, y \in Int : \A n \in Nat : x =< 0 /\ y >= n => x =< y
      OBVIOUS
    <3> QED
      BY <1>9, <2>3, <3>2, <3>3, <3>4
  <2> QED
    BY <2>1, <2>2, <2>3
<1> QED
  BY <1>8, <1>9, <1>10, <1>11

\* Two fields are apart.
Apart(f, g) ==
    IF TypeOf(f) = "bit" /\ TypeOf(g) = "bit" THEN OffsetOf(f) # OffsetOf(g)
    ELSE LastByte(f) < FirstByte(g) \/ LastByte(g) < FirstByte(f)

\* The sizes, and how a field is aligned.
LEMMA Sizes ==
    /\ Size("long") = 8 /\ Size("int") = 4 /\ Size("short") = 2 /\ Size("byte") = 1 /\ Size("ref") = Word
    /\ Min({8, Word}) = Word /\ Min({4, Word}) = 4 /\ Min({2, Word}) = 2 /\ Min({1, Word}) = 1
    /\ Min({Word, Word}) = Word
<1>1. \A a \in Nat, b \in Nat : Min({a, b}) = IF a =< b THEN a ELSE b
  <2> SUFFICES ASSUME NEW a \in Nat, NEW b \in Nat PROVE Min({a, b}) = IF a =< b THEN a ELSE b
    OBVIOUS
  <2> DEFINE least == IF a =< b THEN a ELSE b
  <2>1. least \in {a, b} /\ \A y \in {a, b} : least =< y
    OBVIOUS
  <2>2. \A x \in {a, b} : (\A y \in {a, b} : x =< y) => x = least
    OBVIOUS
  <2> HIDE DEF least
  <2>3. Min({a, b}) = least
    BY <2>1, <2>2 DEF Min
  <2> QED
    BY <2>3 DEF least
<1>2. Word \in Nat /\ (Word = 4 \/ Word = 8)
  BY WordAssumption
<1>3. Size("long") = 8 /\ Size("int") = 4 /\ Size("short") = 2 /\ Size("byte") = 1 /\ Size("ref") = Word
  BY DEF Size
<1> QED
  BY <1>1, <1>2, <1>3

\* Where a field of c itself is.
LEMMA OwnOffsets ==
    ASSUME ClassPath(file), NEW c \in Class, c # Reference, Placed(c), NEW k \in Own(c)
    PROVE  /\ k \in 1 .. Len(file[c].fields) /\ Len(file[c].fields) \in Nat
           /\ TypeOf(<<c, k>>) \in FieldType
           /\ Number(c, k) \in Nat /\ Number(c, k) + 1 =< Count(c, TypeOf(<<c, k>>))
           /\ OffsetOf(<<c, k>>) =
                IF TypeOf(<<c, k>>) = "ref" THEN -((ParentRefs(c) + Number(c, k) + 1) * Word)
                ELSE IF TypeOf(<<c, k>>) = "bit" THEN 8 * Start(c, "bit") + Number(c, k)
                ELSE Start(c, TypeOf(<<c, k>>)) + Number(c, k) * Size(TypeOf(<<c, k>>))
           /\ \A l \in Own(c) : TypeOf(<<c, l>>) = TypeOf(<<c, k>>) /\ k < l => Number(c, k) < Number(c, l)
<1> DEFINE t == file[c].fields[k].type
<1>1. file[c].fields \in Seq(FieldFile)
  BY DEF ClassPath
<1>2. Len(file[c].fields) \in Nat /\ DOMAIN file[c].fields = 1 .. Len(file[c].fields)
  BY <1>1
<1>3. k \in 1 .. Len(file[c].fields) /\ "static" \notin file[c].fields[k].flags
  BY <1>2 DEF Own
<1>4. t \in FieldType
  <2>1. file[c].fields[k] \in FieldFile
    BY <1>1, <1>2, <1>3
  <2> QED
    BY <2>1 DEF FieldFile
<1>5. TypeOf(<<c, k>>) = t
  BY DEF TypeOf
<1>6. k \in InstanceFields(c, t, Len(file[c].fields))
  BY <1>3 DEF InstanceFields
<1>7. Number(c, k) \in Nat /\ Number(c, k) + 1 =< Count(c, t)
  BY <1>2, <1>3, <1>6, Counted DEF Number
<1>8. OffsetOf(<<c, k>>) = FieldOffset(c, k)
  BY <1>2, <1>3 DEF OffsetOf, Placed, Offsets
<1>9. FieldOffset(c, k) =
        IF t = "ref" THEN -((ParentRefs(c) + Number(c, k) + 1) * Word)
        ELSE IF t = "bit" THEN 8 * Start(c, t) + Number(c, k)
        ELSE Start(c, t) + Number(c, k) * Size(t)
  BY <1>3 DEF FieldOffset, Number
<1>10. ASSUME NEW l \in Own(c), TypeOf(<<c, l>>) = t, k < l
       PROVE  Number(c, k) < Number(c, l)
  <2>1. l \in 1 .. Len(file[c].fields) /\ file[c].fields[l].type = t
    BY <1>2, <1>10 DEF Own, TypeOf
  <2> QED
    BY <1>2, <1>3, <1>6, <1>10, <2>1, Counted DEF Number
<1> HIDE DEF t
<1> QED
  BY <1>2, <1>3, <1>4, <1>5, <1>7, <1>8, <1>9, <1>10

Plain == {"long", "int", "short", "byte"}

\* The part of a type, but for the references and the bits, is as long as its fields
\* and begins aligned for them.
LEMMA TypeParts ==
    ASSUME NEW c, Len(file[c].fields) \in Nat,
           NEW size \in Nat, size = (IF file[c].super = None THEN 0 ELSE cls[file[c].super].nrefSize),
           NEW t \in Plain, Count(c, t) > 0
    PROVE  /\ Start(c, t) \in Nat /\ Start(c, t) % Min({Size(t), Word}) = 0
           /\ Hi(c, t) = Start(c, t) + Size(t) * Count(c, t)
<1> DEFINE P == ParentArea(c)
           L == Count(c, "long")
           I == Count(c, "int")
           H == Count(c, "short")
           B == Count(c, "byte")
<1>1. L \in Nat /\ I \in Nat /\ H \in Nat /\ B \in Nat
  BY Counted
<1>2. /\ P \in Nat
      /\ L > 0 => P % Word = 0
      /\ L = 0 /\ I > 0 => P % 4 = 0
      /\ L = 0 /\ I = 0 /\ H > 0 => P % 2 = 0
  BY AreaFacts
<1>3. /\ Start(c, "long") = P + Word + 0 + 0 + 0 + 0
      /\ Start(c, "int") = P + Word + 8 * L + 0 + 0 + 0
      /\ Start(c, "short") = P + Word + 8 * L + 4 * I + 0 + 0
      /\ Start(c, "byte") = P + Word + 8 * L + 4 * I + 2 * H + 0
      /\ Start(c, "bit") = P + Word + 8 * L + 4 * I + 2 * H + B
  BY Starts
<1>4. Word = 4 \/ Word = 8
  BY WordAssumption
<1>5. /\ Hi(c, "long") = Start(c, "int") /\ Hi(c, "int") = Start(c, "short")
      /\ Hi(c, "short") = Start(c, "byte") /\ Hi(c, "byte") = Start(c, "bit")
  BY DEF Hi
<1>6. /\ Size("long") = 8 /\ Size("int") = 4 /\ Size("short") = 2 /\ Size("byte") = 1
      /\ Min({8, Word}) = Word /\ Min({4, Word}) = 4 /\ Min({2, Word}) = 2 /\ Min({1, Word}) = 1
  BY Sizes
<1>7. /\ L > 0 => P % 4 = 0 /\ P % 2 = 0
      /\ I > 0 => P % 4 = 0 /\ P % 2 = 0
      /\ H > 0 => P % 2 = 0
  <2> HIDE DEF P, L, I, H
  <2> QED
    BY <1>1, <1>2, <1>4
<1> HIDE DEF P, L, I, H, B
<1>8. CASE t = "long"
  <2>1. Start(c, t) = P + Word /\ Hi(c, t) = P + Word + 8 * L /\ P % Word = 0 /\ Count(c, t) = L
    BY <1>1, <1>2, <1>3, <1>4, <1>5, <1>8 DEF L
  <2>2. Size(t) = 8 /\ Min({Size(t), Word}) = Word
    BY <1>6, <1>8
  <2>3. (P + Word) % Word = 0
    BY <1>2, <1>4, <2>1
  <2> QED
    BY <1>1, <1>2, <1>4, <2>1, <2>2, <2>3
<1>9. CASE t = "int"
  <2>1. Start(c, t) = P + Word + 8 * L /\ Hi(c, t) = P + Word + 8 * L + 4 * I /\ Count(c, t) = I
    BY <1>1, <1>2, <1>3, <1>4, <1>5, <1>9 DEF I
  <2>2. Size(t) = 4 /\ Min({Size(t), Word}) = 4
    BY <1>6, <1>9
  <2>3. (P + Word + 8 * L) % 4 = 0
    <3>1. P % 4 = 0
      BY <1>7, <2>1
    <3>2. (P + 4 + 8 * L) % 4 = 0
      BY <1>1, <1>2, <3>1
    <3>3. (P + 8 + 8 * L) % 4 = 0
      BY <1>1, <1>2, <3>1
    <3> QED
      BY <1>4, <3>2, <3>3
  <2> QED
    BY <1>1, <1>2, <1>4, <2>1, <2>2, <2>3
<1>10. CASE t = "short"
  <2>1. Start(c, t) = P + Word + 8 * L + 4 * I /\ Hi(c, t) = P + Word + 8 * L + 4 * I + 2 * H /\ Count(c, t) = H
    BY <1>1, <1>2, <1>3, <1>4, <1>5, <1>10 DEF H
  <2>2. Size(t) = 2 /\ Min({Size(t), Word}) = 2
    BY <1>6, <1>10
  <2>3. (P + Word + 8 * L + 4 * I) % 2 = 0
    <3>1. P % 2 = 0
      BY <1>7, <2>1
    <3>2. (P + 4 + 8 * L + 4 * I) % 2 = 0
      BY <1>1, <1>2, <3>1
    <3>3. (P + 8 + 8 * L + 4 * I) % 2 = 0
      BY <1>1, <1>2, <3>1
    <3> QED
      BY <1>4, <3>2, <3>3
  <2> QED
    BY <1>1, <1>2, <1>4, <2>1, <2>2, <2>3
<1>11. CASE t = "byte"
  <2>1. /\ Start(c, t) = P + Word + 8 * L + 4 * I + 2 * H
        /\ Hi(c, t) = P + Word + 8 * L + 4 * I + 2 * H + B /\ Count(c, t) = B
    BY <1>1, <1>2, <1>3, <1>4, <1>5, <1>11 DEF B
  <2>2. Size(t) = 1 /\ Min({Size(t), Word}) = 1
    BY <1>6, <1>11
  <2>3. \A x \in Nat : x % 1 = 0
    OBVIOUS
  <2>4. Start(c, t) \in Nat
    BY <1>1, <1>2, <1>4, <2>1
  <2> QED
    BY <1>1, <2>1, <2>2, <2>3, <2>4
<1> QED
  BY <1>8, <1>9, <1>10, <1>11 DEF Plain

\* A field counted off from a start.
LEMMA Slots ==
    ASSUME NEW start \in Nat, NEW t \in Plain, NEW n \in Nat, NEW count \in Nat,
           n + 1 =< count, start % Min({Size(t), Word}) = 0
    PROVE  /\ start + n * Size(t) \in Nat /\ Size(t) \in Nat /\ Size(t) > 0
           /\ start + n * Size(t) + Size(t) - 1 < start + Size(t) * count
           /\ (start + n * Size(t)) % Min({Size(t), Word}) = 0
<1>1. /\ Size("long") = 8 /\ Size("int") = 4 /\ Size("short") = 2 /\ Size("byte") = 1
      /\ Min({8, Word}) = Word /\ Min({4, Word}) = 4 /\ Min({2, Word}) = 2 /\ Min({1, Word}) = 1
  BY Sizes
<1>2. \E s \in {1, 2, 4, 8}, m \in {1, 2, 4, 8} :
          Size(t) = s /\ Min({Size(t), Word}) = m /\ (m = s \/ (s = 8 /\ m = 4))
  BY <1>1, WordAssumption DEF Plain
<1>3. ASSUME NEW s \in {1, 2, 4, 8}, NEW m \in {1, 2, 4, 8}, m = s \/ (s = 8 /\ m = 4), start % m = 0
      PROVE  /\ start + n * s \in Nat /\ start + n * s + s - 1 < start + s * count
             /\ (start + n * s) % m = 0
  <2>1. CASE s = 1
    BY <1>3, <2>1
  <2>2. CASE s = 2
    BY <1>3, <2>2
  <2>3. CASE s = 4
    BY <1>3, <2>3
  <2>4. CASE s = 8 /\ m = 8
    BY <1>3, <2>4
  <2>5. CASE s = 8 /\ m = 4
    BY <1>3, <2>5
  <2> QED
    BY <1>3, <2>1, <2>2, <2>3, <2>4, <2>5
<1> QED
  BY <1>2, <1>3

\* A field is in the part of its type, aligned for its size.
LEMMA OwnPlaces ==
    ASSUME ClassPath(file), NEW c \in Class, c # Reference, Placed(c), ParentRefs(c) \in Nat,
           NEW size \in Nat, size = (IF file[c].super = None THEN 0 ELSE cls[file[c].super].nrefSize),
           NEW k \in Own(c), NEW f, f = <<c, k>>
    PROVE  /\ OffsetOf(f) \in Int /\ FirstByte(f) \in Int /\ LastByte(f) \in Int
           /\ FirstByte(f) =< LastByte(f)
           /\ Lo(c, TypeOf(f)) =< FirstByte(f) /\ LastByte(f) < Hi(c, TypeOf(f))
           /\ TypeOf(f) = "ref" => \E n \in 1 .. RefN(c) : OffsetOf(f) = -(n * Word)
           /\ TypeOf(f) # "bit" => OffsetOf(f) % Min({Size(TypeOf(f)), Word}) = 0
<1> DEFINE t == TypeOf(f)
           n == Number(c, k)
<1>1. /\ t \in FieldType /\ n \in Nat /\ n + 1 =< Count(c, t) /\ Len(file[c].fields) \in Nat
      /\ OffsetOf(f) = IF t = "ref" THEN -((ParentRefs(c) + n + 1) * Word)
                       ELSE IF t = "bit" THEN 8 * Start(c, "bit") + n
                       ELSE Start(c, t) + n * Size(t)
  BY OwnOffsets
<1>2. \A u : Count(c, u) \in Nat
  BY <1>1, Counted
<1>3. Word = 4 \/ Word = 8
  BY WordAssumption
<1>4. /\ FirstByte(f) = IF t = "bit" THEN OffsetOf(f) \div 8 ELSE OffsetOf(f)
      /\ LastByte(f) = IF t = "bit" THEN OffsetOf(f) \div 8 ELSE OffsetOf(f) + Size(t) - 1
      /\ Lo(c, t) = IF t = "ref" THEN -(RefN(c) * Word) ELSE Start(c, t)
      /\ Hi(c, "bit") = Start(c, "bit") + ((Count(c, "bit") + 7) \div 8)
      /\ Hi(c, "ref") = -(ParentRefs(c) * Word)
  BY DEF FirstByte, LastByte, Lo, Hi
<1> HIDE DEF t, n
<1>5. CASE t \in Plain
  <2> DEFINE start == Start(c, t)
             count == Count(c, t)
             m == Min({Size(t), Word})
  <2>1. count \in Nat /\ count > 0 /\ n + 1 =< count
    BY <1>1, <1>2
  <2>2. start \in Nat /\ start % m = 0 /\ Hi(c, t) = start + Size(t) * count
    BY <1>1, <1>5, <2>1, TypeParts
  <2>3. /\ OffsetOf(f) = start + n * Size(t) /\ FirstByte(f) = OffsetOf(f)
        /\ LastByte(f) = OffsetOf(f) + Size(t) - 1 /\ Lo(c, t) = start
    BY <1>1, <1>4, <1>5 DEF Plain
  <2> HIDE DEF start, count
  <2>4. /\ start + n * Size(t) \in Nat /\ Size(t) \in Nat /\ Size(t) > 0
        /\ start + n * Size(t) + Size(t) - 1 < start + Size(t) * count
        /\ (start + n * Size(t)) % m = 0
    <3>1. n \in Nat
      BY <1>1
    <3> QED
      BY <1>5, <2>1, <2>2, <3>1, Slots, Zenon
  <2>5. start =< start + n * Size(t)
    <3>1. \A a \in Nat, b \in Nat, s \in {1, 2, 4, 8} : a =< a + b * s
      OBVIOUS
    <3>2. Size(t) \in {1, 2, 4, 8}
      BY <1>5, Sizes DEF Plain
    <3> QED
      BY <1>1, <2>2, <3>1, <3>2
  <2> HIDE DEF m
  <2>6. OffsetOf(f) \in Nat /\ start =< OffsetOf(f) /\ OffsetOf(f) % m = 0
    BY <2>3, <2>4, <2>5
  <2>7. LastByte(f) \in Int /\ LastByte(f) >= OffsetOf(f) /\ LastByte(f) < Hi(c, t)
    BY <2>2, <2>3, <2>4, <2>6
  <2> QED
    BY <1>5, <2>3, <2>6, <2>7 DEF t, m, Plain
<1>6. CASE t = "bit"
  <2> DEFINE S == Start(c, "bit")
             Z == Count(c, "bit")
  <2>1. S \in Nat
    <3>1. ParentArea(c) \in Nat
      BY <1>1, AreaFacts
    <3>2. Word \in Nat
      BY <1>3
    <3>3. /\ Count(c, "long") \in Nat /\ Count(c, "int") \in Nat /\ Count(c, "short") \in Nat
          /\ Count(c, "byte") \in Nat
      BY <1>2
    <3> QED
      BY <3>1, <3>2, <3>3, Starts
  <2>2. /\ OffsetOf(f) = 8 * S + n /\ n + 1 =< Z /\ Z \in Nat
        /\ FirstByte(f) = OffsetOf(f) \div 8 /\ LastByte(f) = OffsetOf(f) \div 8
        /\ Lo(c, t) = S /\ Hi(c, t) = S + ((Z + 7) \div 8)
    BY <1>1, <1>2, <1>4, <1>6
  <2> HIDE DEF S, Z
  <2>3. /\ OffsetOf(f) \in Int /\ OffsetOf(f) \div 8 \in Int /\ S =< OffsetOf(f) \div 8
        /\ OffsetOf(f) \div 8 < S + ((Z + 7) \div 8)
    <3>1. \A s \in Nat, i \in Nat : (8 * s + i) \div 8 = s + (i \div 8)
      OBVIOUS
    <3>2. \A i \in Nat, z \in Nat : i + 1 =< z => i \div 8 < (z + 7) \div 8
      OBVIOUS
    <3>3. \A i \in Nat : i \div 8 \in Nat
      OBVIOUS
    <3>4. OffsetOf(f) \div 8 = S + (n \div 8)
      BY <1>1, <2>1, <2>2, <3>1
    <3>5. n \div 8 < (Z + 7) \div 8 /\ n \div 8 \in Nat /\ (Z + 7) \div 8 \in Nat
      <4>1. Z + 7 \in Nat
        BY <2>2
      <4> QED
        BY <1>1, <2>2, <3>2, <3>3, <4>1
    <3> DEFINE q == n \div 8
               e == (Z + 7) \div 8
    <3>6. OffsetOf(f) \in Int
      BY <1>1, <2>1, <2>2
    <3>7. OffsetOf(f) \div 8 = S + q /\ q < e /\ q \in Nat /\ e \in Nat
      BY <3>4, <3>5
    <3> HIDE DEF q, e
    <3>8. S + q \in Int /\ S =< S + q /\ S + q < S + e
      BY <2>1, <3>7
    <3> QED
      BY <3>6, <3>7, <3>8 DEF e
  <2> QED
    BY <1>6, <2>2, <2>3 DEF t
<1>7. CASE t = "ref"
  <2> DEFINE r == ParentRefs(c)
             N == RefN(c)
  <2>1. /\ OffsetOf(f) = -((r + n + 1) * Word) /\ r \in Nat /\ n + 1 =< Count(c, "ref")
        /\ FirstByte(f) = OffsetOf(f) /\ LastByte(f) = OffsetOf(f) + Word - 1
        /\ Lo(c, t) = -(N * Word) /\ Hi(c, t) = -(r * Word)
    BY <1>1, <1>4, <1>7, Sizes
  <2>2. Min({Size(t), Word}) = Word
    BY <1>7, Sizes
  <2>3. N = r + Count(c, "ref")
    BY DEF RefN
  <2> HIDE DEF r, N
  <2>4. N \in Nat /\ r + n + 1 =< N /\ r + n + 1 \in 1 .. N
    <3>1. Count(c, "ref") \in Nat
      BY <1>2
    <3> QED
      BY <1>1, <2>1, <2>3, <3>1
  <2>5. \E i \in 1 .. N : OffsetOf(f) = -(i * Word)
    BY <2>1, <2>4
  <2>6. /\ OffsetOf(f) \in Int /\ Word \in Nat /\ Word > 0 /\ OffsetOf(f) % Word = 0
        /\ -(N * Word) =< OffsetOf(f) /\ OffsetOf(f) + Word - 1 < -(r * Word)
    <3>1. PICK x \in Nat : x = r + n + 1
      BY <1>1, <2>1
    <3>2. OffsetOf(f) = -(x * Word) /\ x =< N /\ r + 1 =< x
      BY <1>1, <2>1, <2>4, <3>1
    <3>3. CASE Word = 4
      BY <2>1, <2>4, <3>2, <3>3
    <3>4. CASE Word = 8
      BY <2>1, <2>4, <3>2, <3>4
    <3> QED
      BY <1>3, <3>3, <3>4
  <2>7. /\ FirstByte(f) \in Int /\ LastByte(f) \in Int /\ FirstByte(f) =< LastByte(f)
        /\ Lo(c, t) =< FirstByte(f) /\ LastByte(f) < Hi(c, t)
    BY <2>1, <2>6
  <2> QED
    BY <1>7, <2>2, <2>5, <2>6, <2>7 DEF t, N
<1> QED
  BY <1>1, <1>5, <1>6, <1>7 DEF FieldType, Plain

\* Two fields of the same class are apart.
LEMMA OwnApart ==
    ASSUME ClassPath(file), NEW c \in Class, c # Reference, Placed(c), ParentRefs(c) \in Nat,
           NEW size \in Nat, size = (IF file[c].super = None THEN 0 ELSE cls[file[c].super].nrefSize),
           NEW k \in Own(c), NEW l \in Own(c), k < l
    PROVE  Apart(<<c, k>>, <<c, l>>) /\ Apart(<<c, l>>, <<c, k>>)
<1> DEFINE f == <<c, k>>
           g == <<c, l>>
           t == TypeOf(f)
           u == TypeOf(g)
           n == Number(c, k)
           m == Number(c, l)
<1>1. /\ t \in FieldType /\ n \in Nat
      /\ OffsetOf(f) = IF t = "ref" THEN -((ParentRefs(c) + n + 1) * Word)
                       ELSE IF t = "bit" THEN 8 * Start(c, "bit") + n
                       ELSE Start(c, t) + n * Size(t)
  BY OwnOffsets
<1>2. /\ u \in FieldType /\ m \in Nat /\ Len(file[c].fields) \in Nat
      /\ OffsetOf(g) = IF u = "ref" THEN -((ParentRefs(c) + m + 1) * Word)
                       ELSE IF u = "bit" THEN 8 * Start(c, "bit") + m
                       ELSE Start(c, u) + m * Size(u)
  BY OwnOffsets
<1>3. u = t => n < m
  BY OwnOffsets
<1>4. /\ OffsetOf(f) \in Int /\ FirstByte(f) \in Int /\ LastByte(f) \in Int
      /\ Lo(c, t) =< FirstByte(f) /\ LastByte(f) < Hi(c, t)
  BY OwnPlaces
<1>5. /\ OffsetOf(g) \in Int /\ FirstByte(g) \in Int /\ LastByte(g) \in Int
      /\ Lo(c, u) =< FirstByte(g) /\ LastByte(g) < Hi(c, u)
  BY OwnPlaces
<1> DEFINE Goal == IF t = "bit" /\ u = "bit" THEN OffsetOf(f) # OffsetOf(g)
                   ELSE LastByte(f) < FirstByte(g) \/ LastByte(g) < FirstByte(f)
<1>6. Goal => Apart(f, g) /\ Apart(g, f)
  BY DEF Apart
<1>7. /\ FirstByte(f) = IF t = "bit" THEN OffsetOf(f) \div 8 ELSE OffsetOf(f)
      /\ LastByte(f) = IF t = "bit" THEN OffsetOf(f) \div 8 ELSE OffsetOf(f) + Size(t) - 1
      /\ FirstByte(g) = IF u = "bit" THEN OffsetOf(g) \div 8 ELSE OffsetOf(g)
      /\ LastByte(g) = IF u = "bit" THEN OffsetOf(g) \div 8 ELSE OffsetOf(g) + Size(u) - 1
  BY DEF FirstByte, LastByte
<1> HIDE DEF f, g, t, u, n, m
<1>8. ASSUME t # u PROVE Goal
  <2>1. Hi(c, t) =< Lo(c, u) \/ Hi(c, u) =< Lo(c, t)
    BY <1>1, <1>2, <1>8, Parts
  <2>2. Lo(c, t) \in Int /\ Hi(c, t) \in Int /\ Lo(c, u) \in Int /\ Hi(c, u) \in Int
    BY <1>1, <1>2, Parts
  <2>3. LastByte(f) < FirstByte(g) \/ LastByte(g) < FirstByte(f)
    BY <1>4, <1>5, <2>1, <2>2
  <2> QED
    BY <1>8, <2>3
<1>9. ASSUME t = u, t = "bit" PROVE Goal
  <2>1. Start(c, "bit") \in Int
    <3>1. Lo(c, "bit") \in Int
      BY <1>2, Parts DEF FieldType
    <3> QED
      BY <3>1 DEF Lo
  <2>2. OffsetOf(f) # OffsetOf(g)
    BY <1>1, <1>2, <1>3, <1>9, <2>1
  <2> QED
    BY <1>9, <2>2
<1>10. ASSUME t = u, t \in Plain PROVE Goal
  <2>1. Start(c, t) \in Int
    <3>1. Lo(c, t) \in Int
      BY <1>1, <1>2, Parts
    <3> QED
      BY <1>10, <3>1 DEF Lo, Plain
  <2>2. \A a \in Int, i \in Nat, j \in Nat, s \in {1, 2, 4, 8} : i < j => a + i * s + s - 1 < a + j * s
    OBVIOUS
  <2>3. Size(t) \in {1, 2, 4, 8}
    BY <1>10, Sizes DEF Plain
  <2>4. Start(c, t) + n * Size(t) + Size(t) - 1 < Start(c, t) + m * Size(t)
    BY <1>1, <1>2, <1>3, <1>10, <2>1, <2>2, <2>3
  <2>5. LastByte(f) = Start(c, t) + n * Size(t) + Size(t) - 1 /\ FirstByte(g) = Start(c, t) + m * Size(t)
    BY <1>1, <1>2, <1>7, <1>10 DEF Plain
  <2>6. LastByte(f) < FirstByte(g)
    BY <2>4, <2>5
  <2> QED
    BY <1>10, <2>6 DEF Plain
<1>11. ASSUME t = u, t = "ref" PROVE Goal
  <2> DEFINE r == ParentRefs(c)
  <2>1. r \in Nat /\ OffsetOf(f) = -((r + n + 1) * Word) /\ OffsetOf(g) = -((r + m + 1) * Word)
    BY <1>1, <1>2, <1>11
  <2>2. LastByte(g) = OffsetOf(g) + Word - 1 /\ FirstByte(f) = OffsetOf(f)
    BY <1>7, <1>11, Sizes
  <2> HIDE DEF r
  <2>3. LastByte(g) < FirstByte(f)
    <3>1. PICK x \in Nat, y \in Nat : x = r + n + 1 /\ y = r + m + 1
      BY <1>1, <1>2, <2>1
    <3>2. x < y
      BY <1>1, <1>2, <1>3, <1>11, <2>1, <3>1
    <3>3. LastByte(g) = -(y * Word) + Word - 1 /\ FirstByte(f) = -(x * Word)
      BY <2>1, <2>2, <3>1
    <3>4. CASE Word = 4
      BY <3>2, <3>3, <3>4
    <3>5. CASE Word = 8
      BY <3>2, <3>3, <3>5
    <3> QED
      BY <3>4, <3>5, WordAssumption
  <2> QED
    BY <1>11, <2>3
<1> HIDE DEF Goal
<1>12. Goal
  BY <1>1, <1>2, <1>8, <1>9, <1>10, <1>11 DEF FieldType, Plain
<1> QED
  BY <1>6, <1>12 DEF f, g

\* The fields of an instance of c: those of the class and of all above it.
FieldsOf(c) == {f \in Class \X Nat : f[1] \in ToSet(Chain(c)) /\ f[2] \in Own(f[1])}

\* A field is in its area, and aligned; and apart from the others.
Inside(f, c) ==
    /\ TypeOf(f) \in FieldType
    /\ OffsetOf(f) \in Int /\ FirstByte(f) \in Int /\ LastByte(f) \in Int /\ FirstByte(f) =< LastByte(f)
    /\ IF TypeOf(f) = "ref" /\ ~Hidden(f)
       THEN /\ \E n \in 1 .. cls[c].refN : OffsetOf(f) = -(n * Word)
            /\ -(cls[c].refN * Word) =< FirstByte(f) /\ LastByte(f) < 0
       ELSE Word =< FirstByte(f) /\ LastByte(f) < Word + cls[c].nrefSize
    /\ TypeOf(f) # "bit" => OffsetOf(f) % Min({Size(TypeOf(f)), Word}) = 0
Sitting(c) ==
    /\ cls[c].refN \in Nat /\ cls[c].nrefSize \in Nat
    /\ \A f \in FieldsOf(c) : Inside(f, c)
    /\ \A f \in FieldsOf(c) : \A g \in FieldsOf(c) \ {f} : Apart(f, g)

\* A class adds its own fields to those of the superclass.
LEMMA OwnSitting ==
    ASSUME ClassPath(file), NEW c \in Class, c # Reference, Placed(c), NEW p, p = file[c].super,
           p # None => Sitting(p),
           \A f \in FieldsOf(c) : (f[1] = c /\ f[2] \in Own(c)) \/ (p # None /\ f \in FieldsOf(p))
    PROVE  Sitting(c)
<1> DEFINE size == IF p = None THEN 0 ELSE cls[p].nrefSize
<1>1. size \in Nat /\ ParentRefs(c) \in Nat /\ (p # None => ParentRefs(c) = cls[p].refN)
  BY DEF ParentRefs, Sitting
<1>2. Len(file[c].fields) \in Nat
  BY DEF ClassPath
<1>3. /\ cls[c].refN = RefN(c) /\ cls[c].nrefSize = NrefSize(c)
      /\ RefN(c) \in Nat /\ RefN(c) >= ParentRefs(c) /\ NrefSize(c) \in Nat /\ NrefSize(c) >= size
      /\ \A t \in FieldType : Lo(c, t) \in Int /\ Hi(c, t) \in Int
      /\ \A t \in FieldType \ {"ref"} : Lo(c, t) >= Word + size /\ Hi(c, t) =< Word + NrefSize(c)
      /\ Hi(c, "ref") =< 0
  BY <1>1, <1>2, Parts DEF Placed
<1>4. Word = 4 \/ Word = 8
  BY WordAssumption
<1> HIDE DEF size
<1>5. ASSUME NEW k \in Own(c), NEW f, f = <<c, k>>
      PROVE  /\ Inside(f, c)
             /\ TypeOf(f) = "ref" => LastByte(f) < -(ParentRefs(c) * Word)
             /\ TypeOf(f) # "ref" => FirstByte(f) >= Word + size
             /\ ~Hidden(f)
  <2> DEFINE t == TypeOf(f)
  <2>1. t \in FieldType
    BY <1>5, OwnOffsets
  <2>2. /\ OffsetOf(f) \in Int /\ FirstByte(f) \in Int /\ LastByte(f) \in Int
        /\ FirstByte(f) =< LastByte(f)
        /\ Lo(c, t) =< FirstByte(f) /\ LastByte(f) < Hi(c, t)
        /\ t = "ref" => \E n \in 1 .. RefN(c) : OffsetOf(f) = -(n * Word)
        /\ t # "bit" => OffsetOf(f) % Min({Size(t), Word}) = 0
    BY <1>1, <1>5, OwnPlaces DEF size
  <2>3. ~Hidden(f)
    BY <1>5 DEF Hidden
  <2>4. ASSUME t = "ref"
        PROVE  /\ -(RefN(c) * Word) =< FirstByte(f) /\ LastByte(f) < 0
               /\ LastByte(f) < -(ParentRefs(c) * Word)
    <3>1. Lo(c, t) = -(RefN(c) * Word) /\ Hi(c, t) = -(ParentRefs(c) * Word)
      BY <2>4 DEF Lo, Hi
    <3>2. Hi(c, t) =< 0 /\ Hi(c, t) \in Int
      BY <1>3, <2>1, <2>4
    <3>3. LastByte(f) < 0
      BY <2>2, <3>2
    <3> HIDE DEF t
    <3> QED
      BY <2>2, <3>1, <3>3
  <2>5. ASSUME t # "ref" PROVE Word + size =< FirstByte(f) /\ LastByte(f) < Word + NrefSize(c)
    <3>1. Lo(c, t) >= Word + size /\ Hi(c, t) =< Word + NrefSize(c) /\ Lo(c, t) \in Int /\ Hi(c, t) \in Int
      BY <1>3, <2>1, <2>5
    <3>2. Word + size \in Int /\ Word + NrefSize(c) \in Int
      BY <1>1, <1>3, <1>4
    <3> QED
      BY <2>2, <3>1, <3>2
  <2>6. t # "ref" => Word =< FirstByte(f)
    BY <1>1, <1>4, <2>2, <2>5
  <2> QED
    BY <1>3, <2>1, <2>2, <2>3, <2>4, <2>5, <2>6 DEF Inside
<1>6. ASSUME p # None, NEW g \in FieldsOf(p)
      PROVE  /\ Inside(g, c)
             /\ TypeOf(g) = "ref" /\ ~Hidden(g) => -(ParentRefs(c) * Word) =< FirstByte(g)
             /\ ~(TypeOf(g) = "ref" /\ ~Hidden(g)) => LastByte(g) < Word + size
  <2>1. Inside(g, p) /\ cls[p].refN \in Nat /\ cls[p].nrefSize \in Nat
    BY <1>6 DEF Sitting
  <2>2. cls[p].refN = ParentRefs(c) /\ cls[p].nrefSize = size
    BY <1>1, <1>6 DEF size
  <2>3. /\ TypeOf(g) \in FieldType
        /\ OffsetOf(g) \in Int /\ FirstByte(g) \in Int /\ LastByte(g) \in Int /\ FirstByte(g) =< LastByte(g)
        /\ IF TypeOf(g) = "ref" /\ ~Hidden(g)
           THEN /\ \E n \in 1 .. ParentRefs(c) : OffsetOf(g) = -(n * Word)
                /\ -(ParentRefs(c) * Word) =< FirstByte(g) /\ LastByte(g) < 0
           ELSE Word =< FirstByte(g) /\ LastByte(g) < Word + size
        /\ TypeOf(g) # "bit" => OffsetOf(g) % Min({Size(TypeOf(g)), Word}) = 0
    BY <2>1, <2>2 DEF Inside
  <2>4. ASSUME TypeOf(g) = "ref" /\ ~Hidden(g)
        PROVE  (\E n \in 1 .. RefN(c) : OffsetOf(g) = -(n * Word)) /\ -(RefN(c) * Word) =< FirstByte(g)
    <3>1. PICK n \in 1 .. ParentRefs(c) : OffsetOf(g) = -(n * Word)
      BY <2>3, <2>4
    <3>2. n \in 1 .. RefN(c)
      BY <1>1, <1>3, <3>1
    <3>3. -(RefN(c) * Word) =< -(ParentRefs(c) * Word) /\ -(ParentRefs(c) * Word) \in Int /\ -(RefN(c) * Word) \in Int
      <4>1. CASE Word = 4
        BY <1>1, <1>3, <4>1
      <4>2. CASE Word = 8
        BY <1>1, <1>3, <4>2
      <4> QED
        BY <1>4, <4>1, <4>2
    <3> QED
      BY <2>3, <2>4, <3>1, <3>2, <3>3
  <2>5. ASSUME ~(TypeOf(g) = "ref" /\ ~Hidden(g))
        PROVE  LastByte(g) < Word + NrefSize(c)
    BY <1>1, <1>3, <1>4, <2>3, <2>5
  <2> QED
    BY <1>3, <2>3, <2>4, <2>5 DEF Inside
<1>7. ASSUME NEW k \in Own(c), p # None, NEW g \in FieldsOf(p), NEW f, f = <<c, k>>
      PROVE  Apart(f, g) /\ Apart(g, f)
  <2>1. /\ Inside(f, c)
        /\ TypeOf(f) = "ref" => LastByte(f) < -(ParentRefs(c) * Word)
        /\ TypeOf(f) # "ref" => FirstByte(f) >= Word + size
        /\ ~Hidden(f)
    BY <1>5, <1>7
  <2>2. /\ Inside(g, c)
        /\ TypeOf(g) = "ref" /\ ~Hidden(g) => -(ParentRefs(c) * Word) =< FirstByte(g)
        /\ ~(TypeOf(g) = "ref" /\ ~Hidden(g)) => LastByte(g) < Word + size
    BY <1>6, <1>7
  <2>3. /\ FirstByte(f) \in Int /\ LastByte(f) \in Int /\ FirstByte(f) =< LastByte(f)
        /\ FirstByte(g) \in Int /\ LastByte(g) \in Int /\ FirstByte(g) =< LastByte(g)
    BY <2>1, <2>2 DEF Inside
  <2>4. Word + size \in Nat /\ Word \in Nat /\ -(ParentRefs(c) * Word) \in Int
    BY <1>1, <1>4
  <2>5. LastByte(f) < FirstByte(g) \/ LastByte(g) < FirstByte(f)
    <3>1. CASE TypeOf(f) = "ref" /\ TypeOf(g) = "ref" /\ ~Hidden(g)
      BY <2>1, <2>2, <2>3, <2>4, <3>1
    <3>2. CASE TypeOf(f) # "ref" /\ ~(TypeOf(g) = "ref" /\ ~Hidden(g))
      BY <2>1, <2>2, <2>3, <2>4, <3>2
    <3>3. CASE TypeOf(f) = "ref" /\ ~(TypeOf(g) = "ref" /\ ~Hidden(g))
      <4>1. LastByte(f) < 0 /\ Word =< FirstByte(g)
        BY <2>1, <2>2, <3>3 DEF Inside
      <4> QED
        BY <2>3, <2>4, <4>1
    <3>4. CASE TypeOf(f) # "ref" /\ TypeOf(g) = "ref" /\ ~Hidden(g)
      <4>1. LastByte(g) < 0 /\ Word =< FirstByte(f)
        BY <2>1, <2>2, <3>4 DEF Inside
      <4> QED
        BY <2>3, <2>4, <4>1
    <3> QED
      BY <3>1, <3>2, <3>3, <3>4
  <2>6. TypeOf(f) = "bit" /\ TypeOf(g) = "bit" => OffsetOf(f) # OffsetOf(g)
    <3>1. ASSUME TypeOf(f) = "bit", TypeOf(g) = "bit" PROVE OffsetOf(f) # OffsetOf(g)
      <4>1. LastByte(g) < FirstByte(f)
        BY <2>1, <2>2, <2>3, <2>4, <3>1
      <4>2. FirstByte(f) = OffsetOf(f) \div 8 /\ LastByte(g) = OffsetOf(g) \div 8
        BY <3>1 DEF FirstByte, LastByte
      <4> QED
        BY <2>3, <4>1, <4>2
    <3> QED
      BY <3>1
  <2> QED
    BY <2>5, <2>6 DEF Apart
<1>8. ASSUME NEW f \in FieldsOf(c), f[1] = c PROVE f = <<c, f[2]>>
  BY <1>8 DEF FieldsOf
<1>9. \A f \in FieldsOf(c) : Inside(f, c)
  <2> SUFFICES ASSUME NEW f \in FieldsOf(c) PROVE Inside(f, c)
    OBVIOUS
  <2>1. CASE f[1] = c /\ f[2] \in Own(c)
    BY <1>5, <1>8, <2>1
  <2>2. CASE p # None /\ f \in FieldsOf(p)
    BY <1>6, <2>2
  <2> QED
    BY <2>1, <2>2
<1>10. ASSUME NEW f \in FieldsOf(c), NEW g \in FieldsOf(c), f # g PROVE Apart(f, g)
  <2>1. CASE f[1] = c /\ f[2] \in Own(c) /\ g[1] = c /\ g[2] \in Own(c)
    <3>1. f = <<c, f[2]>> /\ g = <<c, g[2]>>
      BY <1>8, <2>1
    <3>2. f[2] # g[2] /\ f[2] \in Nat /\ g[2] \in Nat
      BY <1>10, <3>1 DEF FieldsOf
    <3>3. CASE f[2] < g[2]
      <4>1. Apart(<<c, f[2]>>, <<c, g[2]>>)
        BY <1>1, <2>1, <3>3, OwnApart DEF size
      <4> QED
        BY <3>1, <4>1
    <3>4. CASE g[2] < f[2]
      <4>1. Apart(<<c, f[2]>>, <<c, g[2]>>)
        BY <1>1, <2>1, <3>4, OwnApart DEF size
      <4> QED
        BY <3>1, <4>1
    <3> QED
      BY <3>2, <3>3, <3>4
  <2>2. CASE f[1] = c /\ f[2] \in Own(c) /\ p # None /\ g \in FieldsOf(p)
    BY <1>7, <1>8, <2>2
  <2>3. CASE p # None /\ f \in FieldsOf(p) /\ g[1] = c /\ g[2] \in Own(c)
    BY <1>7, <1>8, <2>3
  <2>4. CASE p # None /\ f \in FieldsOf(p) /\ g \in FieldsOf(p)
    BY <1>10, <2>4 DEF Sitting
  <2> QED
    BY <2>1, <2>2, <2>3, <2>4
<1> QED
  BY <1>3, <1>9, <1>10 DEF Sitting

-----------------------------------------------------------------------------
(* The places are computed once, from those of the superclass.             *)

\* They stay right as long as the two classes stay what they are.
LEMMA PlacesFrom ==
    ASSUME file' = file, NEW c, file[c].super # None => cls'[file[c].super] = cls[file[c].super]
    PROVE  RefN(c)' = RefN(c) /\ NrefSize(c)' = NrefSize(c) /\ Offsets(c)' = Offsets(c)
<1>1. \A t, n : InstanceFields(c, t, n)' = InstanceFields(c, t, n)
  BY DEF InstanceFields
<1>2. \A t : Count(c, t)' = Count(c, t)
  BY <1>1 DEF Count
<1>3. ParentRefs(c)' = ParentRefs(c)
  BY DEF ParentRefs
<1>4. ParentArea(c)' = ParentArea(c)
  BY <1>2 DEF ParentArea
<1>5. \A t : Start(c, t)' = Start(c, t)
  BY <1>2, <1>4 DEF Start
<1>6. \A k : FieldOffset(c, k)' = FieldOffset(c, k)
  BY <1>1, <1>3, <1>5 DEF FieldOffset
<1> QED
  BY <1>2, <1>3, <1>5, <1>6 DEF RefN, NrefSize, Offsets

\* Every superclass a class has been given is linked; a linked class has its places,
\* and so has one that only waits to be linked.
Laying == {c \in Class : \E i \in DOMAIN stack :
                            stack[i].name = c /\ stack[i].at \in {"attributes", "created"}}
Placings ==
    /\ \A c \in Name : cls[c].parent # None => cls[c].parent \in Name /\ state[cls[c].parent] = "linked"
    /\ \A c \in Class : state[c] = "linked" => Placed(c)
    /\ \A c \in Laying : Placed(c)

\* The superclass of a linked class.
LEMMA LinkedSuper ==
    ASSUME ClassPath(file), NEW c \in Class, Extends(c)
    PROVE  /\ cls[c].parent = file[c].super /\ file[c].super \in Name \cup {None}
           /\ file[c].super # None => state[file[c].super] = "linked"
BY DEF Extends, Found, ClassPath

LEMMA PlacedKept ==
    ASSUME ClassPath(file), Stable, NEW c \in Class, state[c] = "linked", Complete(c), Placed(c)
    PROVE  Placed(c)'
<1>1. ~IsArray(c) /\ c \in Name
  BY NamesAssumption DEF IsArray, Name
<1>2. Extends(c)
  BY <1>1 DEF Complete, Derives
<1>3. cls'[c] = cls[c] /\ file' = file
  BY <1>1 DEF Stable
<1>4. file[c].super # None => cls'[file[c].super] = cls[file[c].super]
  BY <1>2, LinkedSuper DEF Stable
<1> QED
  BY <1>3, <1>4, PlacesFrom DEF Placed

\* A step that computes no places and no tables, and the one that does.
Quiet ==
    /\ Laying' \subseteq Laying
    /\ \A d \in Class : state'[d] = "linked" => state[d] = "linked" \/ d \in Laying
    /\ \A d \in Name : /\ \/ cls'[d].parent = cls[d].parent
                          \/ cls'[d].parent \in Name /\ state[cls'[d].parent] = "linked"
                       /\ cls'[d].interfaces = cls[d].interfaces
    /\ cls' = cls \/ Laying = {}
Deriving(c) ==
    /\ c \in Class /\ state[c] = "linking" /\ state' = state
    /\ Extends(c) /\ \A k \in DOMAIN file[c].interfaces : Provides(c, k)
    /\ cls' = [cls EXCEPT ![c] = Derived(c)]
    /\ Laying' \subseteq {c}

LEMMA PlacingsKept ==
    ASSUME IInv, Placings, Stable, Quiet
    PROVE  Placings'
<1> USE DEF Quiet
<1>1. ClassPath(file) /\ file' = file
  BY WorldAssumption DEF IInv, TypeOK, Stable
<1>2. ASSUME NEW d \in Name, cls'[d].parent # None
      PROVE  cls'[d].parent \in Name /\ state'[cls'[d].parent] = "linked"
  <2>1. cls'[d].parent \in Name /\ state[cls'[d].parent] = "linked"
    BY <1>2 DEF Placings
  <2> QED
    BY <2>1 DEF Stable
<1>3. ASSUME NEW d \in Laying PROVE Placed(d)'
  <2>1. cls' = cls /\ Placed(d)
    BY <1>3 DEF Placings
  <2> QED
    BY <1>1, <2>1, PlacesFrom DEF Placed
<1>4. ASSUME NEW d \in Class, state'[d] = "linked" PROVE Placed(d)'
  <2>1. CASE d \in Laying
    BY <1>3, <2>1
  <2>2. CASE state[d] = "linked"
    <3>1. Complete(d) /\ Placed(d)
      BY <2>2 DEF IInv, Whole, Placings, Name
    <3> QED
      BY <1>1, <2>2, <3>1, PlacedKept
  <2> QED
    BY <1>4, <2>1, <2>2
<1> QED
  BY <1>2, <1>3, <1>4 DEF Placings

\* Only the innermost call is at work on the places.
LEMMA LayingTop ==
    ASSUME IInv, stack # <<>>, NEW c \in Laying
    PROVE  Top.name = c /\ Top.at \in {"attributes", "created"}
<1>1. PICK i \in DOMAIN stack : stack[i].name = c /\ stack[i].at \in {"attributes", "created"}
  BY DEF Laying
<1>2. Len(stack) \in Nat \ {0} /\ DOMAIN stack = 1 .. Len(stack) /\ Top = stack[Len(stack)]
  BY TopFacts
<1>3. i \in 1 .. Len(stack) - 1 => stack[i].at \in Waiting
  BY DEF IInv, Nested
<1>4. i \notin 1 .. Len(stack) - 1
  BY <1>1, <1>3 DEF Waiting
<1>5. i = Len(stack)
  BY <1>2, <1>4
<1> QED
  BY <1>1, <1>2, <1>5

LEMMA LayingElsewhere ==
    ASSUME IInv, NEW at, Running(at), at \notin {"attributes", "created"}
    PROVE  Laying = {}
BY LayingTop DEF Running

LEMMA LayingGoto ==
    ASSUME IInv, NEW at, Running(at), NEW to \in Places, NEW k \in Nat, Goto(to, k)
    PROVE  Laying' \subseteq Laying \cup (IF to \in {"attributes", "created"} THEN {Top.name} ELSE {})
<1>1. stack # <<>>
  BY DEF Running
<1>2. /\ stack \in Seq(Frames) /\ Len(stack) \in Nat \ {0} /\ DOMAIN stack = 1 .. Len(stack)
      /\ Top = stack[Len(stack)]
  BY <1>1, TopFacts
<1>3. stack' = Moved(stack, to, k)
  BY DEF Goto, Moved
<1>4. /\ stack' \in Seq(Frames) /\ Len(stack') = Len(stack) /\ stack'[Len(stack)] = At(Top, to, k)
      /\ \A i \in 1 .. Len(stack) - 1 : stack'[i] = stack[i]
  BY <1>1, <1>2, <1>3, MovedFacts
<1>5. DOMAIN stack' = 1 .. Len(stack)
  BY <1>4
<1>6. At(Top, to, k).name = Top.name /\ At(Top, to, k).at = to
  BY DEF At
<1> SUFFICES ASSUME NEW c \in Class, NEW i \in 1 .. Len(stack),
                    stack'[i].name = c, stack'[i].at \in {"attributes", "created"}
             PROVE  c \in Laying \cup (IF to \in {"attributes", "created"} THEN {Top.name} ELSE {})
  BY <1>5 DEF Laying
<1>7. CASE i = Len(stack)
  BY <1>4, <1>6, <1>7
<1>8. CASE i # Len(stack)
  <2>1. i \in 1 .. Len(stack) - 1
    <3>1. \A n \in Nat \ {0} : \A j \in 1 .. n : j = n \/ j \in 1 .. n - 1
      OBVIOUS
    <3> QED
      BY <1>2, <1>8, <3>1
  <2> QED
    BY <1>2, <1>4, <2>1 DEF Laying
<1> QED
  BY <1>7, <1>8

LEMMA LayingResolve ==
    ASSUME IInv, NEW at, Running(at), NEW to \in Waiting, NEW k \in Nat, NEW d, NEW o, Resolve(d, o, to, k)
    PROVE  Laying' \subseteq Laying
<1>1. stack # <<>> /\ to \in Places
  BY DEF Running, Waiting, Places
<1>2. /\ stack \in Seq(Frames) /\ Len(stack) \in Nat \ {0} /\ DOMAIN stack = 1 .. Len(stack)
      /\ Top = stack[Len(stack)]
  BY <1>1, TopFacts
<1> PICK m : m = Moved(stack, to, k)
  OBVIOUS
<1>3. /\ m \in Seq(Frames) /\ Len(m) = Len(stack) /\ m[Len(stack)] = At(Top, to, k)
      /\ \A i \in 1 .. Len(stack) - 1 : m[i] = stack[i]
  BY <1>1, <1>2, MovedFacts
<1>4. stack' = Append(m, Frame(d, o))
  BY DEF Resolve, Moved
<1>5. /\ DOMAIN stack' = 1 .. Len(stack) + 1 /\ stack'[Len(stack) + 1] = Frame(d, o)
      /\ \A i \in 1 .. Len(stack) : stack'[i] = m[i]
  BY <1>2, <1>3, <1>4
<1>6. At(Top, to, k).at = to /\ Frame(d, o).at = "find"
  BY DEF At, Frame
<1> SUFFICES ASSUME NEW c \in Class, NEW i \in 1 .. Len(stack) + 1,
                    stack'[i].name = c, stack'[i].at \in {"attributes", "created"}
             PROVE  c \in Laying
  BY <1>5 DEF Laying
<1>7. i # Len(stack) + 1
  BY <1>5, <1>6
<1>8. i \in 1 .. Len(stack) /\ stack'[i] = m[i]
  BY <1>2, <1>5, <1>7
<1>9. i # Len(stack)
  BY <1>3, <1>6, <1>8 DEF Waiting
<1>10. i \in 1 .. Len(stack) - 1
  <2>1. \A n \in Nat \ {0} : \A j \in 1 .. n : j = n \/ j \in 1 .. n - 1
    OBVIOUS
  <2> QED
    BY <1>2, <1>8, <1>9, <2>1
<1> QED
  BY <1>2, <1>3, <1>8, <1>10 DEF Laying

\* The places in the class that derive_class() fills in.
LEMMA DerivedPlaces ==
    ASSUME NEW c, DOMAIN cls[c] = DOMAIN NoClass
    PROVE  /\ Derived(c).refN = RefN(c) /\ Derived(c).nrefSize = NrefSize(c)
           /\ Derived(c).offsets = Offsets(c) /\ Derived(c).interfaces = Interfaces(c)
<1>1. ASSUME NEW r, DOMAIN r = DOMAIN NoClass, NEW i, NEW o, NEW n, NEW s, NEW fl
      PROVE  LET b == [r EXCEPT !.interfaces = i, !.offsets = o, !.refN = n, !.nrefSize = s,
                                !.flags = @ \cup fl]
             IN  DOMAIN b = DOMAIN NoClass /\ b.refN = n /\ b.nrefSize = s /\ b.offsets = o
                 /\ b.interfaces = i
  <2>1. /\ "flags" \in DOMAIN r /\ "interfaces" \in DOMAIN r
        /\ "offsets" \in DOMAIN r /\ "refN" \in DOMAIN r /\ "nrefSize" \in DOMAIN r
    BY <1>1 DEF NoClass
  <2> QED
    BY <1>1, <2>1
<1>2. ASSUME NEW r, DOMAIN r = DOMAIN NoClass, NEW x
      PROVE  LET b == [r EXCEPT !.index = x]
             IN  b.refN = r.refN /\ b.nrefSize = r.nrefSize /\ b.offsets = r.offsets /\ b.interfaces = r.interfaces
  <2>1. "interfaces" \in DOMAIN r /\ "offsets" \in DOMAIN r /\ "refN" \in DOMAIN r /\ "nrefSize" \in DOMAIN r
    BY <1>2 DEF NoClass
  <2> QED
    BY <1>2, <2>1
<1>3. ASSUME NEW r, DOMAIN r = DOMAIN NoClass, NEW x, NEW y, NEW z
      PROVE  LET b == [r EXCEPT !.index = x, !.dtable = y, !.itable = z]
             IN  b.refN = r.refN /\ b.nrefSize = r.nrefSize /\ b.offsets = r.offsets /\ b.interfaces = r.interfaces
  <2>1. "interfaces" \in DOMAIN r /\ "offsets" \in DOMAIN r /\ "refN" \in DOMAIN r /\ "nrefSize" \in DOMAIN r
    BY <1>3 DEF NoClass
  <2> QED
    BY <1>3, <2>1
<1> DEFINE dtable == DispatchTable(c)
           interfaces == Interfaces(c)
           base == [cls[c] EXCEPT !.interfaces = interfaces, !.offsets = Offsets(c),
                                  !.refN = RefN(c), !.nrefSize = NrefSize(c),
                                  !.flags = @ \cup (IF HasFinalizer(c) THEN {"finalizer"} ELSE {})]
           ofInterface == [base EXCEPT !.index = [k \in DOMAIN file[c].methods |-> interfaceMethods + k - 1]]
           ofClass == [base EXCEPT !.index = Index(c), !.dtable = dtable,
                                   !.itable = InterfaceTable(interfaces, dtable)]
<1>4. Derived(c) = IF IsInterface(c) THEN ofInterface ELSE ofClass
  BY DEF Derived
<1>5. /\ DOMAIN base = DOMAIN NoClass
      /\ base.refN = RefN(c) /\ base.nrefSize = NrefSize(c) /\ base.offsets = Offsets(c)
      /\ base.interfaces = interfaces
  BY <1>1
<1> HIDE DEF base
<1>6. ofInterface.refN = base.refN /\ ofInterface.nrefSize = base.nrefSize /\ ofInterface.offsets = base.offsets
      /\ ofInterface.interfaces = base.interfaces
  BY <1>2, <1>5
<1>7. ofClass.refN = base.refN /\ ofClass.nrefSize = base.nrefSize /\ ofClass.offsets = base.offsets
      /\ ofClass.interfaces = base.interfaces
  BY <1>3, <1>5
<1> HIDE DEF ofInterface, ofClass
<1> QED
  BY <1>4, <1>5, <1>6, <1>7

LEMMA DerivingPlacings == ASSUME IInv, Placings, Stable, NEW c \in Class, Deriving(c) PROVE Placings'
<1>1. /\ state[c] = "linking" /\ Extends(c) /\ state' = state /\ file' = file
      /\ cls' = [cls EXCEPT ![c] = Derived(c)] /\ Laying' \subseteq {c}
  BY DEF Deriving, Stable
<1>2. ClassPath(file) /\ c \in Name
  BY WorldAssumption DEF IInv, TypeOK, Name
<1>3. DOMAIN cls = Name /\ DOMAIN cls[c] = DOMAIN NoClass
  BY <1>2 DEF IInv, TypeOK
<1>4. cls'[c] = Derived(c) /\ \A d \in Name : d # c => cls'[d] = cls[d]
  BY <1>1, <1>2, <1>3
<1>5. file[c].super # None => cls'[file[c].super] = cls[file[c].super]
  <2>1. file[c].super # None => file[c].super \in Name /\ state[file[c].super] = "linked"
    BY <1>1, <1>2, LinkedSuper
  <2> QED
    BY <1>1, <1>4, <2>1
<1>6. Placed(c)'
  <2>1. /\ Derived(c).refN = RefN(c) /\ Derived(c).nrefSize = NrefSize(c)
        /\ Derived(c).offsets = Offsets(c)
    BY <1>3, DerivedPlaces
  <2> QED
    BY <1>1, <1>4, <1>5, <2>1, PlacesFrom DEF Placed
<1>7. ASSUME NEW d \in Class, state'[d] = "linked" PROVE Placed(d)'
  <2>1. state[d] = "linked" /\ Complete(d) /\ Placed(d)
    BY <1>1, <1>7 DEF IInv, Whole, Placings, Name
  <2> QED
    BY <1>2, <2>1, PlacedKept
<1>8. ASSUME NEW d \in Name, cls'[d].parent # None
      PROVE  cls'[d].parent \in Name /\ state'[cls'[d].parent] = "linked"
  <2>1. Derived(c).parent = cls[c].parent
    BY <1>3, DerivedFacts
  <2>2. cls'[d].parent = cls[d].parent
    BY <1>4, <2>1
  <2> QED
    BY <1>1, <1>8, <2>2 DEF Placings
<1> QED
  BY <1>1, <1>6, <1>7, <1>8 DEF Placings

LEMMA MembersKinds ==
    ASSUME IInv, Members, Stable
    PROVE  Quiet \/ \E c \in Class : Deriving(c)
<1>1. PICK c \in Name : c = Top.name
  BY RunningFacts DEF Members
<1>2. /\ Running("interfaces") /\ Top.at = "interfaces" /\ FrameOK(Top) /\ state' = state
      /\ Top.k > Len(file[c].interfaces)
  BY <1>1, RunningFacts, TopFacts DEF Members
<1>3. /\ state[c] = "linking" /\ Headed(c) /\ Extends(c) /\ \A j \in 1 .. Top.k - 1 : Provides(c, j)
      /\ Top.k \in Nat
  BY <1>1, <1>2, TopFacts DEF FrameOK, Busy, Places
<1>4. c \in Class /\ file[c].interfaces \in Seq(Name)
  BY <1>3, FileFacts, WorldAssumption DEF IInv, TypeOK, Headed
<1>5. \A k \in DOMAIN file[c].interfaces : Provides(c, k)
  <2>1. DOMAIN file[c].interfaces = 1 .. Len(file[c].interfaces) /\ Len(file[c].interfaces) \in Nat
    BY <1>4
  <2>2. \A k \in 1 .. Len(file[c].interfaces) : k \in 1 .. Top.k - 1
    BY <1>2, <1>3, <2>1
  <2> QED
    BY <1>3, <2>1, <2>2
<1>6. Laying = {}
  BY <1>2, LayingElsewhere
<1>7. CASE stack' = stack /\ cls' = cls
  <2>1. Laying' \subseteq Laying
    BY <1>7 DEF Laying
  <2> QED
    BY <1>2, <1>7, <2>1 DEF Quiet
<1>8. CASE cls' = [cls EXCEPT ![c] = Derived(c)] /\ Goto("attributes", 1)
  <2>1. Laying' \subseteq {c}
    BY <1>1, <1>2, <1>6, <1>8, LayingGoto DEF Places
  <2>2. Deriving(c)
    BY <1>2, <1>3, <1>4, <1>5, <1>8, <2>1 DEF Deriving
  <2> QED
    BY <1>4, <2>2
<1> QED
  BY <1>1, <1>7, <1>8 DEF Members

\* The steps that set the parent of a class, or mark it.
LEMMA ParentQuiet ==
    ASSUME IInv, NEW at, Running(at), at \notin {"attributes", "created"},
           NEW c \in Name, c = Top.name, \A d \in Name : d # c => cls'[d] = cls[d],
           cls'[c].parent = cls[c].parent
                \/ (cls'[c].parent \in Name /\ state[cls'[c].parent] = "linked"),
           cls'[c].interfaces = cls[c].interfaces, state' = state, Laying' = {}
    PROVE  Quiet
<1>1. Laying = {}
  BY LayingElsewhere
<1>2. \A d \in Name : cls'[d].parent = cls[d].parent
            \/ (cls'[d].parent \in Name /\ state[cls'[d].parent] = "linked")
  OBVIOUS
<1>3. \A d \in Name : cls'[d].interfaces = cls[d].interfaces
  OBVIOUS
<1> QED
  BY <1>1, <1>2, <1>3 DEF Quiet

LEMMA StepKinds ==
    ASSUME IInv, [Next]_vars
    PROVE  Stable /\ (Quiet \/ \E c \in Class : Deriving(c))
<1>1. DOMAIN cls = Name /\ (\A c \in Name : DOMAIN cls[c] = DOMAIN NoClass)
      /\ state \in [Name -> {"absent", "preloaded", "linking", "linked"}]
  BY DEF IInv, TypeOK
<1>2. file' = file
  BY DEF Next, vars, others, Boot, ForName, Link, Return, Uncaught, Find, Parse, Super, NextInterface,
     Implements, Members, Attributes, ParseArray, ElementDone, ArrayDone, Created, Check, Leave, Rethrow
<1>3. Stable
  BY <1>2, SettlesStep DEF Settles, Stable
<1> SUFFICES Quiet \/ \E c \in Class : Deriving(c)
  BY <1>3
<1>4. ASSUME cls' = cls, Laying' \subseteq Laying,
             \A d \in Class : state'[d] = "linked" => state[d] = "linked" \/ d \in Laying
      PROVE  Quiet
  BY <1>4 DEF Quiet
<1>5. ASSUME stack' = stack PROVE Laying' \subseteq Laying
  BY <1>5 DEF Laying
<1>6. ASSUME NEW d, NEW o, stack' = <<Frame(d, o)>> PROVE Laying' \subseteq Laying
  <2>1. DOMAIN stack' = {1} /\ stack'[1].at = "find"
    BY <1>6 DEF Frame
  <2> QED
    BY <2>1 DEF Laying
<1>7. CASE UNCHANGED vars
  BY <1>4, <1>5, <1>7 DEF vars
<1>8. CASE Boot
  <2>1. stack' = stack \/ \E d : stack' = <<Frame(d, None)>>
    BY <1>8 DEF Boot
  <2> QED
    BY <1>4, <1>5, <1>6, <1>8, <2>1 DEF Boot
<1>9. CASE Return
  BY <1>4, <1>5, <1>9 DEF Return
<1>10. CASE Uncaught
  <2>1. stack' = stack \/ \E d, o : stack' = <<Frame(d, o)>>
    BY <1>10 DEF Uncaught
  <2> QED
    BY <1>4, <1>5, <1>6, <1>10, <2>1 DEF Uncaught
<1>11. CASE \E r \in Requests(file) : IF r[2] = None THEN ForName(r[1]) ELSE Link(r[1], r[2])
  <2>1. stack' = stack \/ \E d, o : stack' = <<Frame(d, o)>>
    BY <1>11 DEF ForName, Link
  <2> QED
    BY <1>4, <1>5, <1>6, <1>11, <2>1 DEF ForName, Link
<1>12. ASSUME NEW at, Running(at), NEW to \in Places \ {"attributes", "created"}, NEW k \in Nat, Goto(to, k)
       PROVE  Laying' \subseteq Laying
  <2>1. Laying' \subseteq Laying \cup (IF to \in {"attributes", "created"} THEN {Top.name} ELSE {})
    BY <1>12, LayingGoto
  <2> QED
    BY <1>12, <2>1
<1>13. CASE Find
  <2>1. Running("find") /\ cls' = cls /\ Top.name \in Name
    BY <1>13, RunningFacts DEF Find
  <2>2. stack' = stack \/ Goto("check", 1) \/ Goto("parse", 1)
    BY <1>13 DEF Find
  <2>3. Laying' \subseteq Laying
    BY <1>5, <1>12, <2>1, <2>2 DEF Places
  <2>4. state' = state \/ state' = [state EXCEPT ![Top.name] = "linking"]
    BY <1>13 DEF Find
  <2>5. \A d \in Class : state'[d] = "linked" => state[d] = "linked"
    BY <1>1, <2>1, <2>4 DEF Name
  <2> QED
    BY <1>4, <2>1, <2>3, <2>5
<1>14. CASE NextInterface
  <2>1. Running("interfaces") /\ cls' = cls /\ state' = state /\ Top.k \in Nat
    BY <1>14, RunningFacts, TopFacts DEF NextInterface
  <2>2. Resolve(file[Top.name].interfaces[Top.k], Top.name, "implements", Top.k)
    BY <1>14 DEF NextInterface
  <2>3. Laying' \subseteq Laying
    BY <2>1, <2>2, LayingResolve DEF Waiting
  <2> QED
    BY <1>4, <2>1, <2>3
<1>15. CASE Implements
  <2>1. Running("implements") /\ cls' = cls /\ state' = state /\ Top.k \in Nat
    BY <1>15, RunningFacts, TopFacts DEF Implements
  <2>2. stack' = stack \/ (Goto("interfaces", Top.k + 1) /\ Top.k + 1 \in Nat)
    BY <1>15, <2>1 DEF Implements
  <2>3. Laying' \subseteq Laying
    BY <1>5, <1>12, <2>1, <2>2 DEF Places
  <2> QED
    BY <1>4, <2>1, <2>3
<1>16. CASE Attributes
  <2>1. Running("attributes") /\ cls' = cls /\ state' = state
    BY <1>16 DEF Attributes
  <2>2. stack' = stack \/ Goto("created", 1)
    BY <1>16 DEF Attributes
  <2>3. stack # <<>> /\ Top.at = "attributes"
    BY <2>1 DEF Running
  <2>4. Top.name \in Class => Top.name \in Laying
    BY <2>3, TopFacts DEF Laying
  <2>5. Laying' \subseteq Laying
    <3>1. CASE stack' = stack
      BY <1>5, <3>1
    <3>2. CASE Goto("created", 1)
      <4>1. Laying' \subseteq Laying \cup {Top.name}
        BY <2>1, <3>2, LayingGoto DEF Places
      <4>2. Laying' \subseteq Class
        BY DEF Laying
      <4> QED
        BY <2>4, <4>1, <4>2
    <3> QED
      BY <2>2, <3>1, <3>2
  <2> QED
    BY <1>4, <2>1, <2>5
<1>17. CASE ParseArray \/ ElementDone
  <2>1. /\ Running("parse") \/ Running("elem")
        /\ cls' = cls /\ state' = state
        /\ Resolve(Object, None, "object", 1) \/ Resolve(Elem[Top.name], None, "elem", 1)
    BY <1>17 DEF ParseArray, ElementDone
  <2>2. Laying' \subseteq Laying
    BY <2>1, LayingResolve DEF Waiting
  <2> QED
    BY <1>4, <2>1, <2>2
<1>18. CASE Created
  <2>1. Running("created") /\ cls' = cls /\ Goto("check", 1) /\ state' = [state EXCEPT ![Top.name] = "linked"]
    BY <1>18 DEF Created
  <2>2. stack # <<>> /\ Top.at = "created"
    BY <2>1 DEF Running
  <2>3. Top.name \in Class => Top.name \in Laying
    BY <2>2, TopFacts DEF Laying
  <2>4. Laying' \subseteq Laying
    BY <1>12, <2>1 DEF Places
  <2>5. \A d \in Class : state'[d] = "linked" => state[d] = "linked" \/ d \in Laying
    BY <1>1, <2>1, <2>3 DEF Name
  <2> QED
    BY <1>4, <2>1, <2>4, <2>5
<1>19. CASE Check
  <2>1. Running("check") /\ cls' = cls /\ state' = state /\ (stack' = stack \/ Goto("leave", 1))
    BY <1>19 DEF Check
  <2>2. Laying' \subseteq Laying
    BY <1>5, <1>12, <2>1 DEF Places
  <2> QED
    BY <1>4, <2>1, <2>2
<1>20. CASE Leave \/ Rethrow
  <2>1. stack # <<>> /\ stack' = Front(stack) /\ cls' = cls /\ state' = state
    BY <1>20 DEF Leave, Rethrow, Running
  <2>2. stack \in Seq(Frames) /\ Len(stack) \in Nat \ {0} /\ DOMAIN stack = 1 .. Len(stack)
    BY <2>1, TopFacts
  <2>3. DOMAIN stack' = 1 .. Len(stack) - 1 /\ \A i \in 1 .. Len(stack) - 1 : stack'[i] = stack[i]
    BY <2>1, <2>2, FrontFacts
  <2>4. \A i \in 1 .. Len(stack) - 1 : i \in DOMAIN stack
    BY <2>2
  <2>5. Laying' \subseteq Laying
    BY <2>3, <2>4 DEF Laying
  <2> QED
    BY <1>4, <2>1, <2>5
<1>21. CASE Members
  BY <1>3, <1>21, MembersKinds
<1>22. CASE Parse
  <2>1. PICK c \in Name : c = Top.name
    BY <1>22, RunningFacts DEF Parse
  <2>2. Running("parse") /\ state' = state
    BY <1>22 DEF Parse
  <2>3. Laying = {}
    BY <2>2, LayingElsewhere
  <2>4. stack' = stack \/ Goto("interfaces", 1) \/ Resolve(file[c].super, c, "super", 1)
    BY <1>22, <2>1 DEF Parse
  <2>5. Laying' \subseteq Laying
    BY <1>5, <1>12, <2>2, <2>4, LayingResolve DEF Places, Waiting
  <2>6. cls' = cls \/ cls' = [cls EXCEPT ![c].flags = file[c].flags]
    BY <1>22, <2>1 DEF Parse
  <2>7. CASE cls' = cls
    BY <1>4, <2>2, <2>5, <2>7
  <2>8. CASE cls' = [cls EXCEPT ![c].flags = file[c].flags]
    <3>1. (\A d \in Name : d # c => cls'[d] = cls[d]) /\ cls'[c] = [cls[c] EXCEPT !.flags = file[c].flags]
      BY <1>1, <2>8
    <3>2. cls'[c].parent = cls[c].parent /\ cls'[c].interfaces = cls[c].interfaces
      BY <1>1, <3>1, RecordFacts
    <3> QED
      BY <1>3, <2>1, <2>2, <2>3, <2>5, <3>1, <3>2, ParentQuiet
  <2> QED
    BY <2>6, <2>7, <2>8
<1>23. CASE Super
  <2>1. PICK c \in Name : c = Top.name
    BY <1>23, RunningFacts DEF Super
  <2>2. Running("super") /\ state' = state /\ stack # <<>> /\ ~thrown /\ Top.at = "super" /\ FrameOK(Top)
    BY <1>23, RunningFacts, TopFacts DEF Super
  <2>3. Laying = {}
    BY <2>2, LayingElsewhere
  <2>4. stack' = stack \/ Goto("interfaces", 1)
    BY <1>23 DEF Super
  <2>5. Laying' \subseteq Laying
    BY <1>5, <1>12, <2>2, <2>4 DEF Places
  <2>6. Headed(c) /\ file[c].super # None
    BY <2>1, <2>2 DEF FrameOK
  <2>7. file[c].super \in Name /\ state[file[c].super] = "linked"
    <3>1. file[c].super \in Name \cup {None}
      BY <2>6, FileFacts, WorldAssumption DEF IInv, TypeOK, Headed
    <3>2. Found(file[c].super, c)
      BY <2>1, <2>2 DEF IInv, Returned, Waiting, Callee, Asker
    <3> QED
      BY <2>6, <3>1, <3>2 DEF Found
  <2>8. cls' = [cls EXCEPT ![c].parent = file[c].super]
    BY <1>23, <2>1 DEF Super
  <2>9. /\ \A d \in Name : d # c => cls'[d] = cls[d]
        /\ cls'[c] = [cls[c] EXCEPT !.parent = file[c].super]
    BY <1>1, <2>8
  <2>10. cls'[c].parent = file[c].super /\ cls'[c].interfaces = cls[c].interfaces
    BY <1>1, <2>9, RecordFacts
  <2>11. cls'[c].parent \in Name /\ state[cls'[c].parent] = "linked"
    BY <2>7, <2>10
  <2>12. Laying' = {}
    BY <2>3, <2>5
  <2>13. \A d \in Name : d # c => cls'[d] = cls[d]
    BY <2>9
  <2> QED
    BY <1>3, <2>1, <2>2, <2>10, <2>11, <2>12, <2>13, ParentQuiet
<1>24. CASE ArrayDone
  <2>1. PICK c \in Name : c = Top.name
    BY <1>24, RunningFacts DEF ArrayDone
  <2>2. /\ Running("object") /\ state' = state /\ stack # <<>> /\ ~thrown /\ Top.at = "object"
        /\ FrameOK(Top) /\ Goto("created", 1)
    BY <1>24, RunningFacts, TopFacts DEF ArrayDone
  <2>3. Laying = {} /\ c \notin Class
    BY <2>1, <2>2, LayingElsewhere, NamesAssumption DEF FrameOK, IsArray
  <2>4. Laying' = {}
    <3>1. Laying' \subseteq Laying \cup {c}
      BY <2>1, <2>2, LayingGoto DEF Places
    <3>2. Laying' \subseteq Class
      BY DEF Laying
    <3> QED
      BY <2>3, <3>1, <3>2
  <2>5. state[Object] = "linked" /\ Object \in Name
    <3>1. Found(Object, None)
      BY <2>1, <2>2 DEF IInv, Returned, Waiting, Callee, Asker
    <3> QED
      BY <3>1, NamesAssumption DEF Found, Name
  <2>6. PICK flags, dtable : cls' = [cls EXCEPT ![c].parent = Object, ![c].flags = flags, ![c].dtable = dtable]
    BY <1>24, <2>1 DEF ArrayDone
  <2>7. /\ \A d \in Name : d # c => cls'[d] = cls[d]
        /\ cls'[c] = [[[cls[c] EXCEPT !.parent = Object] EXCEPT !.flags = flags] EXCEPT !.dtable = dtable]
    BY <1>1, <2>6
  <2>8. cls'[c].parent = Object /\ cls'[c].interfaces = cls[c].interfaces
    <3>1. PICK q : q = [cls[c] EXCEPT !.parent = Object]
      OBVIOUS
    <3>2. PICK s : s = [q EXCEPT !.flags = flags]
      OBVIOUS
    <3>3. DOMAIN q = DOMAIN NoClass /\ q.parent = Object /\ q.interfaces = cls[c].interfaces
      BY <1>1, <3>1, RecordFacts
    <3>4. DOMAIN s = DOMAIN NoClass /\ s.parent = Object /\ s.interfaces = cls[c].interfaces
      BY <3>2, <3>3, RecordFacts
    <3>5. /\ "parent" \in DOMAIN NoClass /\ "parent" # "dtable"
          /\ "interfaces" \in DOMAIN NoClass /\ "interfaces" # "dtable"
      BY DEF NoClass
    <3>6. cls'[c] = [s EXCEPT !.dtable = dtable]
      BY <2>7, <3>1, <3>2
    <3> QED
      BY <3>4, <3>5, <3>6
  <2> QED
    BY <1>3, <2>1, <2>2, <2>4, <2>5, <2>7, <2>8, ParentQuiet
<1> QED
  BY <1>7, <1>8, <1>9, <1>10, <1>11, <1>13, <1>14, <1>15, <1>16, <1>17, <1>18, <1>19, <1>20, <1>21,
     <1>22, <1>23, <1>24
  DEF Next

LEMMA PlacingsStep == ASSUME IInv, Placings, [Next]_vars PROVE Placings'
BY StepKinds, PlacingsKept, DerivingPlacings

\* The parent of a linked class was linked before it.
LEMMA ParentEarlier ==
    ASSUME IInv, Placings, NEW order, InOrder(order), NEW i \in DOMAIN order, cls[order[i]].parent # None
    PROVE  \E j \in 1 .. i - 1 : j \in DOMAIN order /\ order[j] = cls[order[i]].parent
<1>1. /\ order \in Seq(Name) /\ ToSet(order) = LinkedClasses
      /\ Below(order[i]) \subseteq {order[j] : j \in 1 .. i - 1}
  BY DEF InOrder
<1> PICK c : c = order[i]
  OBVIOUS
<1>2. c \in Name /\ state[c] = "linked" /\ Complete(c) /\ cls[c].parent # None
  <2>1. c \in LinkedClasses
    BY <1>1 DEF ToSet
  <2> QED
    BY <2>1 DEF LinkedClasses, IInv, Whole
<1>3. cls[c].parent \in Below(c)
  <2>1. CASE IsArray(c)
    BY <1>2, <2>1 DEF Complete, Below
  <2>2. CASE ~IsArray(c)
    <3>1. cls[c].parent = file[c].super
      BY <1>2, <2>2 DEF Complete, Derives, Extends
    <3> QED
      BY <1>2, <2>2, <3>1 DEF Below
  <2> QED
    BY <2>1, <2>2
<1>4. PICK j \in 1 .. i - 1 : order[j] = cls[c].parent
  BY <1>1, <1>3
<1>5. j \in DOMAIN order
  <2>1. DOMAIN order = 1 .. Len(order) /\ Len(order) \in Nat
    BY <1>1
  <2> QED
    BY <2>1
<1> QED
  BY <1>4, <1>5

\* So a chain of superclasses can be built for the linked classes, one after the other.
Links(order, k, u) ==
    \A j \in 1 .. k :
        /\ u[order[j]] \in Seq(Name)
        /\ u[order[j]] = <<order[j]>> \o IF cls[order[j]].parent = None THEN <<>> ELSE u[cls[order[j]].parent]

LEMMA LinksExist ==
    ASSUME IInv, Placings, NEW order, InOrder(order)
    PROVE  \E u : Links(order, Len(order), u)
<1> DEFINE n == Len(order)
           Bad == {k \in 0 .. n : ~ \E u : Links(order, k, u)}
<1>1. /\ order \in Seq(Name) /\ IsInjective(order) /\ DOMAIN order = 1 .. n /\ n \in Nat
  BY DEF InOrder
<1>2. ASSUME Bad # {} PROVE FALSE
  <2>1. PICK k \in Bad : \A m \in Bad : k =< m
    BY <1>2, Least, Bad \in SUBSET Nat
  <2>2. k # 0
    <3>1. \A j \in 1 .. 0 : FALSE
      OBVIOUS
    <3>2. Links(order, 0, <<>>)
      BY <3>1, Zenon DEF Links
    <3> QED
      BY <2>1, <3>2
  <2>3. k \in 1 .. n /\ k - 1 \in 0 .. n /\ k - 1 \notin Bad
    BY <1>1, <2>1, <2>2
  <2>4. PICK u : Links(order, k - 1, u)
    BY <2>3
  <2> DEFINE longer(d) == <<d>> \o IF cls[d].parent = None THEN <<>> ELSE u[cls[d].parent]
             v == [d \in Name |-> IF d = order[k] THEN longer(d) ELSE u[d]]
  <2>5. ASSUME NEW j \in 1 .. k PROVE j \in DOMAIN order /\ order[j] \in Name /\ (j # k => j \in 1 .. k - 1 /\ order[j] # order[k])
    <3>1. j \in DOMAIN order /\ k \in DOMAIN order
      BY <1>1, <2>3
    <3>2. j # k => j \in 1 .. k - 1
      BY <2>3
    <3>3. j # k => order[j] # order[k]
      BY <1>1, <3>1 DEF IsInjective
    <3> QED
      BY <1>1, <3>1, <3>2, <3>3
  <2>6. ASSUME NEW j \in 1 .. k, cls[order[j]].parent # None
        PROVE  /\ \E i \in 1 .. k - 1 : order[i] = cls[order[j]].parent
               /\ cls[order[j]].parent \in Name /\ cls[order[j]].parent # order[k]
               /\ u[cls[order[j]].parent] \in Seq(Name)
    <3>1. PICK i \in 1 .. j - 1 : i \in DOMAIN order /\ order[i] = cls[order[j]].parent
      BY <2>5, <2>6, ParentEarlier
    <3>2. i \in 1 .. k - 1 /\ i \in 1 .. k /\ i # k
      BY <2>3
    <3>3. u[order[i]] \in Seq(Name)
      BY <2>4, <3>2 DEF Links
    <3> QED
      BY <2>5, <3>1, <3>2, <3>3
  <2>7. ASSUME NEW j \in 1 .. k
        PROVE  v[order[j]] \in Seq(Name) /\ v[order[j]] = longer(order[j])
    <3>1. order[j] \in Name
      BY <2>5
    <3>2. CASE j = k
      <4>1. v[order[j]] = longer(order[j])
        BY <3>1, <3>2
      <4>2. longer(order[j]) \in Seq(Name)
        <5>1. <<order[j]>> \in Seq(Name) /\ <<>> \in Seq(Name)
          BY <3>1
        <5>2. PICK s \in Seq(Name) : s = IF cls[order[j]].parent = None THEN <<>> ELSE u[cls[order[j]].parent]
          BY <2>6, <5>1
        <5> QED
          BY <5>1, <5>2
      <4> QED
        BY <4>1, <4>2
    <3>3. CASE j # k
      <4>1. j \in 1 .. k - 1 /\ order[j] # order[k]
        BY <2>5, <3>3
      <4>2. u[order[j]] \in Seq(Name) /\ u[order[j]] = longer(order[j])
        BY <2>4, <4>1 DEF Links
      <4>3. v[order[j]] = u[order[j]]
        BY <3>1, <4>1
      <4> QED
        BY <4>2, <4>3
    <3> QED
      BY <3>2, <3>3
  <2>8. ASSUME NEW j \in 1 .. k
        PROVE  longer(order[j]) = <<order[j]>> \o IF cls[order[j]].parent = None THEN <<>> ELSE v[cls[order[j]].parent]
    <3>1. cls[order[j]].parent # None => v[cls[order[j]].parent] = u[cls[order[j]].parent]
      BY <2>6
    <3> QED
      BY <3>1
  <2> HIDE DEF v, longer
  <2>9. Links(order, k, v)
    BY <2>7, <2>8 DEF Links
  <2> QED
    BY <2>1, <2>9
<1>3. n \in 0 .. n
  BY <1>1
<1> QED
  BY <1>2, <1>3

\* Chain, then, is the class and the chain of its superclass.
LEMMA Chains ==
    ASSUME IInv, Placings, Ordered, NEW c \in Name
    PROVE  Chain(c) = <<c>> \o IF cls[c].parent = None THEN <<>> ELSE Chain(cls[c].parent)
<1> DEFINE Is(f) == f = [d \in DOMAIN cls |-> <<d>> \o IF cls[d].parent = None THEN <<>> ELSE f[cls[d].parent]]
           up == CHOOSE f : Is(f)
<1>1. PICK order : InOrder(order)
  BY DEF Ordered
<1>2. PICK u : Links(order, Len(order), u)
  BY <1>1, LinksExist
<1> DEFINE w == [d \in Name |-> <<d>> \o IF cls[d].parent = None THEN <<>> ELSE u[cls[d].parent]]
<1>3. DOMAIN cls = Name
  BY DEF IInv, TypeOK
<1>4. ASSUME NEW d \in Name, cls[d].parent # None PROVE w[cls[d].parent] = u[cls[d].parent]
  <2>1. cls[d].parent \in Name /\ cls[d].parent \in LinkedClasses
    BY <1>4 DEF Placings, LinkedClasses
  <2>2. PICK j \in DOMAIN order : order[j] = cls[d].parent
    BY <1>1, <2>1 DEF InOrder, ToSet
  <2>3. DOMAIN order = 1 .. Len(order)
    BY <1>1 DEF InOrder
  <2>4. u[order[j]] = <<order[j]>> \o IF cls[order[j]].parent = None THEN <<>> ELSE u[cls[order[j]].parent]
    BY <1>2, <2>3 DEF Links
  <2> QED
    BY <2>1, <2>2, <2>4
<1>5. w = [d \in Name |-> <<d>> \o IF cls[d].parent = None THEN <<>> ELSE w[cls[d].parent]]
  <2>1. ASSUME NEW d \in Name
        PROVE  w[d] = <<d>> \o IF cls[d].parent = None THEN <<>> ELSE w[cls[d].parent]
    BY <1>4
  <2> QED
    BY <2>1
<1>6. Is(w)
  BY <1>3, <1>5
<1>7. Is(up)
  <2> HIDE DEF Is, w
  <2> QED
    BY <1>6
<1>8. \A d : Chain(d) = up[d]
  BY DEF Chain
<1>9. \A d \in Name : up[d] = <<d>> \o IF cls[d].parent = None THEN <<>> ELSE up[cls[d].parent]
  BY <1>3, <1>7
<1> HIDE DEF up
<1> QED
  BY <1>8, <1>9

\* The classes in the chain of a linked class.
LEMMA ChainSets ==
    ASSUME IInv, Placings, Ordered, NEW c \in LinkedClasses
    PROVE  /\ Chain(c) \in Seq(Name)
           /\ ToSet(Chain(c)) = {c} \cup (IF cls[c].parent = None THEN {} ELSE ToSet(Chain(cls[c].parent)))
<1>1. PICK order : InOrder(order)
  BY DEF Ordered
<1>2. DOMAIN order = 1 .. Len(order) /\ Len(order) \in Nat /\ ToSet(order) = LinkedClasses /\ order \in Seq(Name)
  BY <1>1 DEF InOrder
<1> DEFINE Bad == {k \in 1 .. Len(order) : Chain(order[k]) \notin Seq(Name)}
<1>3. ASSUME Bad # {} PROVE FALSE
  <2>1. PICK k \in Bad : \A m \in Bad : k =< m
    BY <1>3, Least, Bad \in SUBSET Nat
  <2>2. k \in DOMAIN order /\ order[k] \in Name
    BY <1>2, <2>1
  <2>3. Chain(order[k]) = <<order[k]>> \o IF cls[order[k]].parent = None THEN <<>> ELSE Chain(cls[order[k]].parent)
    BY <2>2, Chains
  <2>4. ASSUME cls[order[k]].parent # None PROVE Chain(cls[order[k]].parent) \in Seq(Name)
    <3>1. PICK j \in 1 .. k - 1 : j \in DOMAIN order /\ order[j] = cls[order[k]].parent
      BY <1>1, <2>2, <2>4, ParentEarlier
    <3>2. j \notin Bad /\ j \in 1 .. Len(order)
      BY <1>2, <2>1, <3>1
    <3> QED
      BY <3>1, <3>2
  <2>5. PICK s \in Seq(Name) : s = IF cls[order[k]].parent = None THEN <<>> ELSE Chain(cls[order[k]].parent)
    <3>1. <<>> \in Seq(Name)
      OBVIOUS
    <3> QED
      BY <2>4, <3>1
  <2>6. <<order[k]>> \o s \in Seq(Name)
    BY <2>2, <2>5
  <2> QED
    BY <2>1, <2>3, <2>5, <2>6
<1>4. \A d \in LinkedClasses : Chain(d) \in Seq(Name)
  BY <1>2, <1>3 DEF ToSet
<1>5. c \in Name /\ (cls[c].parent # None => cls[c].parent \in LinkedClasses)
  BY DEF LinkedClasses, Placings
<1>6. PICK s \in Seq(Name) : s = IF cls[c].parent = None THEN <<>> ELSE Chain(cls[c].parent)
  <2>1. <<>> \in Seq(Name)
    OBVIOUS
  <2> QED
    BY <1>4, <1>5, <2>1
<1>7. Chain(c) = <<c>> \o s
  BY <1>5, <1>6, Chains
<1>8. ToSet(<<c>> \o s) = {c} \cup ToSet(s)
  <2>1. /\ Len(s) \in Nat /\ DOMAIN s = 1 .. Len(s) /\ Len(<<c>> \o s) = 1 + Len(s)
        /\ DOMAIN (<<c>> \o s) = 1 .. 1 + Len(s)
        /\ (<<c>> \o s)[1] = c /\ \A i \in 1 .. Len(s) : (<<c>> \o s)[i + 1] = s[i]
    BY <1>5, <1>6
  <2>2. \A n \in Nat : /\ \A i \in 1 .. 1 + n : i = 1 \/ (i - 1 \in 1 .. n /\ (i - 1) + 1 = i)
                       /\ 1 \in 1 .. 1 + n /\ \A i \in 1 .. n : i + 1 \in 1 .. 1 + n
    OBVIOUS
  <2> PICK t : t = <<c>> \o s
    OBVIOUS
  <2>3. \A i \in DOMAIN t : t[i] = c \/ t[i] \in ToSet(s)
    BY <2>1, <2>2 DEF ToSet
  <2>4. c \in ToSet(t) /\ \A i \in DOMAIN s : s[i] \in ToSet(t)
    BY <2>1, <2>2 DEF ToSet
  <2>5. ToSet(t) \subseteq {c} \cup ToSet(s)
    BY <2>3 DEF ToSet
  <2>6. ToSet(s) \subseteq ToSet(t)
    BY <2>4 DEF ToSet
  <2>7. ToSet(t) = {c} \cup ToSet(s)
    BY <2>4, <2>5, <2>6
  <2> QED
    BY <2>7
<1>9. ToSet(<<>>) = {}
  BY DEF ToSet
<1> QED
  BY <1>4, <1>6, <1>7, <1>8, <1>9

-----------------------------------------------------------------------------
(* The instances.                                                          *)

\* The parent of a linked class is its superclass, which is no array class.
LEMMA LinkedParent ==
    ASSUME IInv, NEW c \in Class, c \in LinkedClasses
    PROVE  cls[c].parent = file[c].super
<1>1. ~IsArray(c) /\ state[c] = "linked" /\ c \in Name
  BY NamesAssumption DEF LinkedClasses, IsArray
<1> QED
  BY <1>1 DEF IInv, Whole, Complete, Derives, Extends

LEMMA SuperIsClass ==
    ASSUME IInv, NEW c \in Class, state[c] = "linked", file[c].super # None
    PROVE  /\ file[c].super \in Class /\ state[file[c].super] = "linked"
           /\ cls[c].parent = file[c].super
<1>1. ClassPath(file) /\ c \in Name /\ ~IsArray(c)
  BY WorldAssumption, NamesAssumption DEF IInv, TypeOK, Name, IsArray
<1>2. Extends(c)
  BY <1>1 DEF IInv, Whole, Complete, Derives
<1> PICK p : p = file[c].super
  OBVIOUS
<1>3. p \in Name /\ state[p] = "linked" /\ cls[c].parent = p /\ SuperAllowed(c, p)
  BY <1>1, <1>2, LinkedSuper DEF Extends
<1>4. ~IsArray(p)
  <2>1. IsArray(p) => cls[p].parent = Object /\ Object # None
    BY <1>3, NamesAssumption DEF IInv, Whole, Complete, Name
  <2> QED
    BY <1>3, <2>1 DEF SuperAllowed
<1> QED
  BY <1>3, <1>4 DEF Name, IsArray

LEMMA ChainClasses ==
    ASSUME IInv, Placings, Ordered, NEW c \in Class, state[c] = "linked"
    PROVE  ToSet(Chain(c)) \subseteq Class
<1>1. PICK order : InOrder(order)
  BY DEF Ordered
<1>2. DOMAIN order = 1 .. Len(order) /\ Len(order) \in Nat /\ ToSet(order) = LinkedClasses
  BY <1>1 DEF InOrder
<1> DEFINE Bad == {k \in 1 .. Len(order) : order[k] \in Class /\ ~(ToSet(Chain(order[k])) \subseteq Class)}
<1>3. ASSUME Bad # {} PROVE FALSE
  <2>1. PICK k \in Bad : \A m \in Bad : k =< m
    BY <1>3, Least, Bad \in SUBSET Nat
  <2> PICK d : d = order[k]
    OBVIOUS
  <2>2. k \in DOMAIN order /\ d \in Class /\ ~(ToSet(Chain(d)) \subseteq Class) /\ d \in LinkedClasses
    BY <1>2, <2>1 DEF ToSet
  <2>3. ToSet(Chain(d)) = {d} \cup (IF cls[d].parent = None THEN {} ELSE ToSet(Chain(cls[d].parent)))
    BY <2>2, ChainSets
  <2>4. ASSUME cls[d].parent # None PROVE ToSet(Chain(cls[d].parent)) \subseteq Class
    <3>1. cls[d].parent = file[d].super /\ file[d].super # None
      BY <2>2, <2>4, LinkedParent
    <3>2. file[d].super \in Class
      BY <2>2, <3>1, SuperIsClass DEF LinkedClasses
    <3>3. PICK j \in 1 .. k - 1 : j \in DOMAIN order /\ order[j] = cls[d].parent
      BY <1>1, <2>2, <2>4, ParentEarlier
    <3>4. j \notin Bad /\ j \in 1 .. Len(order)
      BY <1>2, <2>1, <3>3
    <3> QED
      BY <3>1, <3>2, <3>3, <3>4
  <2> QED
    BY <2>2, <2>3, <2>4
<1>4. PICK k \in DOMAIN order : order[k] = c
  BY <1>2 DEF ToSet, LinkedClasses, Name
<1> QED
  BY <1>2, <1>3, <1>4

\* What the fields of an instance are.
LEMMA FieldsOfClass ==
    ASSUME IInv, Placings, Ordered, NEW c \in Class, state[c] = "linked"
    PROVE  \A f \in FieldsOf(c) : \/ f[1] = c /\ f[2] \in Own(c)
                                  \/ file[c].super # None /\ f \in FieldsOf(file[c].super)
<1>1. c \in LinkedClasses
  BY DEF LinkedClasses, Name
<1>2. cls[c].parent = file[c].super
  <2>1. Extends(c)
    BY NamesAssumption DEF IInv, Whole, Complete, Derives, Name, IsArray
  <2> QED
    BY <2>1 DEF Extends
<1>3. ToSet(Chain(c)) = {c} \cup (IF file[c].super = None THEN {} ELSE ToSet(Chain(file[c].super)))
  BY <1>1, <1>2, ChainSets
<1> QED
  BY <1>3 DEF FieldsOf

\* java.lang.ref.Reference: its one field is hidden behind the header.
LEMMA ReferenceSitting ==
    ASSUME IInv, Placings, Ordered, Reference \in Class, state[Reference] = "linked"
    PROVE  Sitting(Reference)
<1> DEFINE c == Reference
<1>1. file \in World /\ ClassPath(file)
  BY WorldAssumption DEF IInv, TypeOK
<1>2. /\ file[c].super = Object /\ file[Object].super = None /\ file[Object].fields = <<>>
      /\ \A k \in DOMAIN file[c].fields : k = 1 /\ file[c].fields[k].type = "ref"
      /\ Object # None /\ Object \in Class
  BY <1>1, LibraryAssumption, NamesAssumption DEF Name
<1>3. Placed(c) /\ Word \in Nat /\ Word > 0
  BY WordAssumption DEF Placings
<1>4. cls[c].refN = 0 /\ cls[c].nrefSize = Word
  BY <1>3 DEF Placed, RefN, NrefSize
<1>5. FieldsOf(Object) = {}
  <2>1. state[Object] = "linked"
    BY <1>2, SuperIsClass
  <2>2. \A f \in FieldsOf(Object) : f[1] = Object /\ f[2] \in Own(Object)
    BY <1>2, <2>1, FieldsOfClass
  <2>3. Own(Object) = {}
    BY <1>2 DEF Own
  <2> QED
    BY <2>2, <2>3
<1>6. ASSUME NEW f \in FieldsOf(c) PROVE f = <<c, 1>> /\ 1 \in Own(c) /\ TypeOf(f) = "ref"
  <2>1. f[1] = c /\ f[2] \in Own(c)
    BY <1>2, <1>5, FieldsOfClass
  <2>2. f = <<c, f[2]>>
    BY <2>1 DEF FieldsOf
  <2>3. f[2] = 1 /\ file[c].fields[1].type = "ref"
    BY <1>2, <2>1 DEF Own
  <2> QED
    BY <2>1, <2>2, <2>3 DEF TypeOf
<1>7. ASSUME 1 \in Own(c) PROVE OffsetOf(<<c, 1>>) = Word
  BY <1>3, <1>7 DEF Own, OffsetOf, Placed, Offsets, FieldOffset
<1>8. ASSUME NEW f \in FieldsOf(c) PROVE Inside(f, c)
  <2>1. f = <<c, 1>> /\ TypeOf(f) = "ref" /\ OffsetOf(f) = Word
    BY <1>6, <1>7
  <2>2. Hidden(f)
    BY <2>1 DEF Hidden
  <2>3. FirstByte(f) = Word /\ LastByte(f) = Word + Word - 1
    BY <2>1, Sizes DEF FirstByte, LastByte
  <2>4. OffsetOf(f) % Min({Size(TypeOf(f)), Word}) = 0
    <3>1. Min({Size(TypeOf(f)), Word}) = Word
      BY <2>1, Sizes
    <3>2. Word % Word = 0
      BY WordAssumption
    <3> QED
      BY <2>1, <3>1, <3>2
  <2> QED
    BY <1>3, <1>4, <2>1, <2>2, <2>3, <2>4 DEF Inside, FieldType
<1> QED
  BY <1>3, <1>4, <1>6, <1>8 DEF Sitting

\* One class after the other, the instances are laid out.
LEMMA AllSitting ==
    ASSUME IInv, Placings, Ordered, NEW c \in Class, state[c] = "linked"
    PROVE  Sitting(c)
<1>1. PICK order : InOrder(order)
  BY DEF Ordered
<1>2. DOMAIN order = 1 .. Len(order) /\ Len(order) \in Nat /\ ToSet(order) = LinkedClasses
  BY <1>1 DEF InOrder
<1>3. ClassPath(file)
  BY WorldAssumption DEF IInv, TypeOK
<1> DEFINE Bad == {k \in 1 .. Len(order) : order[k] \in Class /\ ~Sitting(order[k])}
<1>4. ASSUME Bad # {} PROVE FALSE
  <2>1. PICK k \in Bad : \A m \in Bad : k =< m
    BY <1>4, Least, Bad \in SUBSET Nat
  <2> PICK d : d = order[k]
    OBVIOUS
  <2>2. k \in DOMAIN order /\ d \in Class /\ ~Sitting(d) /\ state[d] = "linked"
    BY <1>2, <2>1 DEF ToSet, LinkedClasses
  <2>3. d # Reference
    BY <2>2, ReferenceSitting
  <2>4. Placed(d)
    BY <2>2 DEF Placings
  <2>5. ASSUME file[d].super # None PROVE Sitting(file[d].super)
    <3>1. file[d].super \in Class /\ cls[d].parent = file[d].super
      BY <2>2, <2>5, SuperIsClass
    <3>2. PICK j \in 1 .. k - 1 : j \in DOMAIN order /\ order[j] = file[d].super
      BY <1>1, <2>2, <2>5, <3>1, ParentEarlier
    <3>3. j \notin Bad /\ j \in 1 .. Len(order)
      BY <1>2, <2>1, <3>2
    <3> QED
      BY <3>1, <3>2, <3>3
  <2>6. \A f \in FieldsOf(d) : \/ f[1] = d /\ f[2] \in Own(d)
                               \/ file[d].super # None /\ f \in FieldsOf(file[d].super)
    BY <2>2, FieldsOfClass
  <2> QED
    BY <1>3, <2>2, <2>3, <2>4, <2>5, <2>6, OwnSitting
<1>5. PICK k \in DOMAIN order : order[k] = c
  BY <1>2 DEF ToSet, LinkedClasses, Name
<1> QED
  BY <1>2, <1>4, <1>5

\* The bytes a field covers.
LEMMA CoveredBytes ==
    ASSUME NEW f, OffsetOf(f) \in Int, FirstByte(f) \in Int
    PROVE  Covered(f) = {8 * b : b \in FirstByte(f) .. LastByte(f)}
<1>1. CASE TypeOf(f) = "bit"
  <2>1. FirstByte(f) = OffsetOf(f) \div 8 /\ LastByte(f) = FirstByte(f)
    BY <1>1 DEF FirstByte, LastByte
  <2>2. FirstByte(f) .. LastByte(f) = {FirstByte(f)}
    BY <2>1
  <2> QED
    BY <1>1, <2>1, <2>2 DEF Covered
<1>2. CASE TypeOf(f) # "bit"
  BY <1>2 DEF Covered, Bits, FirstByte, LastByte
<1> QED
  BY <1>1, <1>2

LEMMA LaidOutWhole == ASSUME IInv, Placings, Ordered PROVE LaidOut
<1> SUFFICES ASSUME NEW c \in Linked, NEW f \in InstanceOffsets(c)
             PROVE  /\ IF TypeOf(f) = "ref" /\ ~Hidden(f)
                       THEN OffsetOf(f) \in {-(n * Word) : n \in 1 .. cls[c].refN}
                       ELSE \A b \in Covered(f) : b \in 8 * Word .. 8 * (Word + cls[c].nrefSize) - 1
                    /\ TypeOf(f) # "bit" => OffsetOf(f) % Min({Size(TypeOf(f)), Word}) = 0
                    /\ \A g \in InstanceOffsets(c) \ {f} :
                          IF TypeOf(f) = "bit" /\ TypeOf(g) = "bit" THEN OffsetOf(f) # OffsetOf(g)
                          ELSE Covered(f) \intersect Covered(g) = {}
  BY DEF LaidOut
<1>1. c \in Class /\ Sitting(c)
  BY AllSitting DEF Linked
<1>2. ASSUME NEW g \in InstanceOffsets(c) PROVE g \in FieldsOf(c)
  <2>1. ToSet(Chain(c)) \subseteq Class
    BY <1>1, ChainClasses DEF Linked
  <2>2. PICK d \in ToSet(Chain(c)) : g \in {d} \X DOMAIN file[d].fields
    BY DEF InstanceOffsets
  <2>3. "static" \notin file[g[1]].fields[g[2]].flags
    BY DEF InstanceOffsets
  <2>4. ClassPath(file)
    BY WorldAssumption DEF IInv, TypeOK
  <2>5. g[1] = d /\ d \in Class /\ g[2] \in DOMAIN file[d].fields /\ g = <<g[1], g[2]>>
    BY <2>1, <2>2
  <2>6. DOMAIN file[d].fields \subseteq Nat
    BY <2>4, <2>5 DEF ClassPath
  <2> QED
    BY <2>2, <2>3, <2>5, <2>6 DEF FieldsOf, Own
<1>3. \A g \in InstanceOffsets(c) : Inside(g, c)
  BY <1>1, <1>2 DEF Sitting
<1>4. /\ OffsetOf(f) \in Int /\ FirstByte(f) \in Int /\ LastByte(f) \in Int
      /\ IF TypeOf(f) = "ref" /\ ~Hidden(f)
         THEN \E n \in 1 .. cls[c].refN : OffsetOf(f) = -(n * Word)
         ELSE Word =< FirstByte(f) /\ LastByte(f) < Word + cls[c].nrefSize
      /\ TypeOf(f) # "bit" => OffsetOf(f) % Min({Size(TypeOf(f)), Word}) = 0
  BY <1>3 DEF Inside
<1>5. ASSUME ~(TypeOf(f) = "ref" /\ ~Hidden(f)), NEW b \in Covered(f)
      PROVE  b \in 8 * Word .. 8 * (Word + cls[c].nrefSize) - 1
  <2>1. PICK a \in FirstByte(f) .. LastByte(f) : b = 8 * a
    BY <1>4, <1>5, CoveredBytes
  <2>2. Word \in Nat /\ cls[c].nrefSize \in Nat
    BY <1>1, WordAssumption DEF Sitting
  <2>3. Word =< FirstByte(f) /\ LastByte(f) < Word + cls[c].nrefSize
    BY <1>4, <1>5
  <2> QED
    BY <1>4, <2>1, <2>2, <2>3
<1>6. ASSUME NEW g \in InstanceOffsets(c) \ {f}
      PROVE  IF TypeOf(f) = "bit" /\ TypeOf(g) = "bit" THEN OffsetOf(f) # OffsetOf(g)
             ELSE Covered(f) \intersect Covered(g) = {}
  <2>1. Apart(f, g)
    BY <1>1, <1>2 DEF Sitting
  <2>2. OffsetOf(g) \in Int /\ FirstByte(g) \in Int /\ LastByte(g) \in Int
    BY <1>3 DEF Inside
  <2>3. ASSUME LastByte(f) < FirstByte(g) \/ LastByte(g) < FirstByte(f), NEW b \in Covered(f), b \in Covered(g)
        PROVE  FALSE
    <3>1. PICK x \in FirstByte(f) .. LastByte(f) : b = 8 * x
      BY <1>4, <2>3, CoveredBytes
    <3>2. PICK y \in FirstByte(g) .. LastByte(g) : b = 8 * y
      BY <2>2, <2>3, CoveredBytes
    <3> QED
      BY <1>4, <2>2, <2>3, <3>1, <3>2
  <2> QED
    BY <2>1, <2>3 DEF Apart
<1> QED
  BY <1>4, <1>5, <1>6

\* The fields of an instance have places of their own: in the areas of the class,
\* aligned, and none over another, those of all superclasses included.  It takes that the
\* places were computed when the superclass had been given its own for good.
THEOREM LayoutSound == Spec => []LaidOut
<1>1. Init => Placings
  <2> SUFFICES ASSUME Init PROVE Placings
    OBVIOUS
  <2>1. \A c \in Name : cls[c].parent = None /\ state[c] # "linked"
    BY DEF Init, NoClass
  <2>2. Laying = {}
    BY DEF Init, Laying
  <2> QED
    BY <2>1, <2>2 DEF Placings, Name
<1>2. IInv /\ Placings /\ [Next]_vars => Placings'
  BY PlacingsStep
<1>3. IInv /\ Placings /\ Ordered => LaidOut
  BY LaidOutWhole
<1> QED
  BY <1>1, <1>2, <1>3, LoaderInvariant, LinkingOrder, PTL DEF Spec

-----------------------------------------------------------------------------
(* The lists of interfaces.                                                *)

\* f goes from base through V to n, by a step of its own at every place.
Along(f, n, V, base, step) ==
    /\ f \in [0 .. n -> V] /\ f[0] = base
    /\ \A i \in 1 .. n : f[i] = step[i][f[i - 1]]

LEMMA AlongExists ==
    ASSUME NEW n \in Nat, NEW V, NEW base \in V, NEW step \in [1 .. n -> [V -> V]]
    PROVE  \E f : Along(f, n, V, base, step)
<1> DEFINE To(k, f) == f \in [0 .. k -> V] /\ f[0] = base /\ \A i \in 1 .. k : f[i] = step[i][f[i - 1]]
           Bad == {k \in 0 .. n : ~ \E f : To(k, f)}
<1>1. ASSUME Bad # {} PROVE FALSE
  <2>1. PICK k \in Bad : \A m \in Bad : k =< m
    <3> HIDE DEF To
    <3> QED
      BY <1>1, Least, Bad \in SUBSET Nat
  <2>2. k # 0
    <3>1. To(0, [i \in 0 .. 0 |-> base])
      OBVIOUS
    <3> HIDE DEF To
    <3> QED
      BY <2>1, <3>1
  <2>3. k \in 1 .. n /\ k - 1 \in 0 .. n /\ k - 1 \notin Bad
    <3> HIDE DEF To
    <3>1. k \in 0 .. n
      OBVIOUS
    <3>2. k \in 1 .. n /\ k - 1 \in 0 .. n /\ ~(k =< k - 1)
      BY <2>2, <3>1
    <3> HIDE DEF Bad
    <3> QED
      BY <2>1, <3>2
  <2>4. PICK f : To(k - 1, f)
    <3> HIDE DEF To
    <3> QED
      BY <2>3
  <2> DEFINE g == [i \in 0 .. k |-> IF i = k THEN step[k][f[k - 1]] ELSE f[i]]
  <2>5. step[k] \in [V -> V] /\ f[k - 1] \in V
    BY <2>3, <2>4
  <2>6. g \in [0 .. k -> V]
    BY <2>3, <2>4, <2>5
  <2>7. g[0] = base
    BY <2>3, <2>4
  <2>8. ASSUME NEW i \in 1 .. k PROVE g[i] = step[i][g[i - 1]]
    <3>1. i - 1 \in 0 .. k /\ i - 1 # k /\ g[i - 1] = f[i - 1]
      BY <2>3
    <3>2. CASE i = k
      BY <3>1, <3>2
    <3>3. CASE i # k
      BY <2>3, <2>4, <3>1, <3>3
    <3> QED
      BY <3>2, <3>3
  <2> HIDE DEF g
  <2>9. To(k, g)
    BY <2>6, <2>7, <2>8
  <2> HIDE DEF To
  <2> QED
    BY <2>1, <2>9
<1>2. n \in 0 .. n
  OBVIOUS
<1> QED
  BY <1>1, <1>2 DEF Along

\* r begins with s.
Begins(s, r) == Len(s) =< Len(r) /\ \A i \in 1 .. Len(s) : r[i] = s[i]

\* im_add(): a list that begins with the old one and has the new one.
LEMMA Adding ==
    ASSUME NEW T, NEW s \in Seq(T), NEW d \in T
    PROVE  /\ Add(s, d) \in Seq(T) /\ Begins(s, Add(s, d))
           /\ ToSet(Add(s, d)) = ToSet(s) \cup {d}
           /\ d \notin ToSet(s) => Len(Add(s, d)) = Len(s) + 1 /\ Add(s, d)[Len(s) + 1] = d
<1>1. CASE d \in ToSet(s)
  BY <1>1 DEF Add, Begins
<1>2. CASE d \notin ToSet(s)
  <2> PICK r : r = Append(s, d)
    OBVIOUS
  <2>1. /\ r \in Seq(T) /\ Len(r) = Len(s) + 1 /\ r[Len(s) + 1] = d /\ Len(s) \in Nat
        /\ \A i \in 1 .. Len(s) : r[i] = s[i]
        /\ DOMAIN r = 1 .. Len(s) + 1 /\ DOMAIN s = 1 .. Len(s)
    OBVIOUS
  <2>2. \A i \in 1 .. Len(s) + 1 : i = Len(s) + 1 \/ i \in 1 .. Len(s)
    BY <2>1
  <2>3. Len(s) + 1 \in 1 .. Len(s) + 1 /\ \A i \in 1 .. Len(s) : i \in 1 .. Len(s) + 1
    BY <2>1
  <2>4. ToSet(r) \subseteq ToSet(s) \cup {d}
    BY <2>1, <2>2 DEF ToSet
  <2>5. d \in ToSet(r) /\ \A i \in DOMAIN s : s[i] \in ToSet(r)
    BY <2>1, <2>3 DEF ToSet
  <2>6. ToSet(s) \subseteq ToSet(r)
    BY <2>5 DEF ToSet
  <2>7. Add(s, d) = r
    BY <1>2 DEF Add
  <2>8. Begins(s, r)
    BY <2>1 DEF Begins
  <2> QED
    BY <2>1, <2>4, <2>5, <2>6, <2>7, <2>8
<1> QED
  BY <1>1, <1>2

LEMMA BeginsAgain ==
    ASSUME NEW T, NEW s \in Seq(T), NEW r \in Seq(T), NEW q \in Seq(T), Begins(s, r), Begins(r, q)
    PROVE  Begins(s, q)
BY DEF Begins

\* All of a list is added: the new list begins with the old one, and goes on with the first
\* of what is added if the old one has not got it.
LEMMA Collecting ==
    ASSUME NEW T, NEW s \in Seq(T), NEW new \in Seq(T)
    PROVE  /\ Collect(s, new) \in Seq(T) /\ Begins(s, Collect(s, new))
           /\ ToSet(Collect(s, new)) = ToSet(s) \cup ToSet(new)
           /\ new # <<>> /\ new[1] \notin ToSet(s) =>
                /\ Len(s) + 1 =< Len(Collect(s, new)) /\ Collect(s, new)[Len(s) + 1] = new[1]
<1> DEFINE n == Len(new)
           Is(f) == f = [k \in 0 .. n |-> IF k = 0 THEN s ELSE Add(f[k - 1], new[k])]
           up == CHOOSE f : Is(f)
           step == [k \in 1 .. n |-> [v \in Seq(T) |-> Add(v, new[k])]]
<1>1. n \in Nat /\ DOMAIN new = 1 .. n /\ \A k \in 1 .. n : new[k] \in T
  OBVIOUS
<1>2. step \in [1 .. n -> [Seq(T) -> Seq(T)]]
  BY <1>1, Adding
<1>3. PICK f : Along(f, n, Seq(T), s, step)
  <2> HIDE DEF n, step
  <2> QED
    BY <1>1, <1>2, AlongExists
<1>4. f \in [0 .. n -> Seq(T)] /\ f[0] = s /\ \A k \in 1 .. n : f[k] = Add(f[k - 1], new[k])
  <2>1. ASSUME NEW k \in 1 .. n PROVE f[k] = Add(f[k - 1], new[k])
    <3>1. f[k - 1] \in Seq(T) /\ f[k] = step[k][f[k - 1]]
      <4> HIDE DEF step, n
      <4> QED
        BY <1>1, <1>3 DEF Along
    <3> QED
      BY <3>1
  <2> QED
    BY <1>3, <2>1 DEF Along
<1>5. Is(f)
  <2> HIDE DEF n
  <2>1. ASSUME NEW k \in 0 .. n PROVE f[k] = IF k = 0 THEN s ELSE Add(f[k - 1], new[k])
    BY <1>1, <1>4
  <2> QED
    BY <1>4, <2>1
<1>6. Is(up)
  <2> HIDE DEF Is
  <2> QED
    BY <1>5
<1>7. Collect(s, new) = up[n]
  BY DEF Collect
<1>8. up \in [0 .. n -> Seq(T)] /\ up[0] = s /\ \A k \in 1 .. n : up[k] = Add(up[k - 1], new[k])
  <2> HIDE DEF up
  <2>1. DOMAIN up = 0 .. n /\ up[0] = s /\ \A k \in 1 .. n : up[k] = Add(up[k - 1], new[k])
    BY <1>1, <1>6
  <2> DEFINE Bad == {k \in 0 .. n : up[k] \notin Seq(T)}
  <2>2. ASSUME Bad # {} PROVE FALSE
    <3>1. PICK k \in Bad : \A m \in Bad : k =< m
      BY <2>2, Least, Bad \in SUBSET Nat
    <3>2. k # 0
      BY <2>1, <3>1
    <3>3. k \in 1 .. n /\ k - 1 \in 0 .. n /\ k - 1 \notin Bad
      BY <1>1, <3>1, <3>2
    <3>4. up[k] \in Seq(T)
      BY <1>1, <2>1, <3>3, Adding
    <3> QED
      BY <3>1, <3>4
  <2>3. up = [k \in 0 .. n |-> up[k]]
    BY <1>6
  <2> QED
    BY <2>1, <2>2, <2>3
<1> HIDE DEF up
<1> DEFINE Fine(k) ==
             /\ Begins(s, up[k])
             /\ ToSet(up[k]) = ToSet(s) \cup {new[j] : j \in 1 .. k}
             /\ k > 0 /\ new[1] \notin ToSet(s) => Len(s) + 1 =< Len(up[k]) /\ up[k][Len(s) + 1] = new[1]
           Bad == {k \in 0 .. n : ~Fine(k)}
<1>9. Fine(0)
  <2>1. Begins(s, s) /\ {new[j] : j \in 1 .. 0} = {}
    BY DEF Begins
  <2> QED
    BY <1>8, <2>1
<1>10. ASSUME NEW k \in 1 .. n, Fine(k - 1) PROVE Fine(k)
  <2>0. k \in 0 .. n /\ k - 1 \in 0 .. n
    BY <1>1
  <2>1. up[k - 1] \in Seq(T) /\ up[k] = Add(up[k - 1], new[k]) /\ new[k] \in T /\ up[k] \in Seq(T)
    <3> HIDE DEF Fine, n
    <3> QED
      BY <1>1, <1>8, <2>0
  <2>2. /\ Begins(up[k - 1], up[k]) /\ ToSet(up[k]) = ToSet(up[k - 1]) \cup {new[k]}
        /\ new[k] \notin ToSet(up[k - 1]) =>
              Len(up[k]) = Len(up[k - 1]) + 1 /\ up[k][Len(up[k - 1]) + 1] = new[k]
    <3>1. PICK v \in Seq(T), d \in T : v = up[k - 1] /\ d = new[k] /\ up[k] = Add(v, d)
      BY <2>1
    <3>2. /\ Begins(v, Add(v, d)) /\ ToSet(Add(v, d)) = ToSet(v) \cup {d}
          /\ d \notin ToSet(v) => Len(Add(v, d)) = Len(v) + 1 /\ Add(v, d)[Len(v) + 1] = d
      BY Adding
    <3> QED
      BY <3>1, <3>2
  <2>3. Begins(s, up[k])
    BY <1>10, <2>1, <2>2, BeginsAgain
  <2>4. {new[j] : j \in 1 .. k} = {new[j] : j \in 1 .. k - 1} \cup {new[k]}
    <3>1. 1 .. k = 1 .. k - 1 \cup {k}
      OBVIOUS
    <3> QED
      BY <3>1
  <2>5. ASSUME new[1] \notin ToSet(s) PROVE Len(s) + 1 =< Len(up[k]) /\ up[k][Len(s) + 1] = new[1]
    <3>1. CASE k = 1
      <4>1. up[k - 1] = s
        BY <1>8, <3>1
      <4> QED
        BY <2>2, <2>5, <3>1, <4>1
    <3>2. CASE k # 1
      <4>1. Len(s) + 1 =< Len(up[k - 1]) /\ up[k - 1][Len(s) + 1] = new[1]
        BY <1>10, <2>5, <3>2
      <4>2. Len(s) \in Nat /\ Len(up[k - 1]) \in Nat /\ Len(up[k]) \in Nat
        BY <2>1
      <4> QED
        BY <2>2, <4>1, <4>2 DEF Begins
    <3> QED
      BY <3>1, <3>2
  <2> QED
    BY <1>10, <2>2, <2>3, <2>4, <2>5
<1>11. ASSUME Bad # {} PROVE FALSE
  <2> HIDE DEF Fine, n
  <2>1. PICK k \in Bad : \A m \in Bad : k =< m
    BY <1>1, <1>11, Least, Bad \in SUBSET Nat
  <2>2. k # 0
    BY <1>9, <2>1
  <2>3. k \in 1 .. n /\ k - 1 \in 0 .. n /\ k - 1 \notin Bad
    BY <1>1, <2>1, <2>2
  <2>4. Fine(k - 1)
    BY <2>3
  <2> QED
    BY <1>10, <2>1, <2>3, <2>4
<1>12. Fine(n) /\ up[n] \in Seq(T)
  <2>1. n \in 0 .. n
    BY <1>1
  <2> QED
    BY <1>8, <1>11, <2>1
<1>13. ToSet(new) = {new[j] : j \in 1 .. n} /\ (new # <<>> => n > 0)
  BY <1>1 DEF ToSet
<1> QED
  BY <1>7, <1>12, <1>13

\* A list with one more in front.
LEMMA FrontSet ==
    ASSUME NEW T, NEW d \in T, NEW s \in Seq(T)
    PROVE  <<d>> \o s \in Seq(T) /\ <<d>> \o s # <<>> /\ (<<d>> \o s)[1] = d
           /\ ToSet(<<d>> \o s) = {d} \cup ToSet(s)
<1> PICK t : t = <<d>> \o s
  OBVIOUS
<1>1. /\ t \in Seq(T) /\ Len(s) \in Nat /\ DOMAIN s = 1 .. Len(s) /\ Len(t) = 1 + Len(s) /\ DOMAIN t = 1 .. 1 + Len(s)
      /\ t[1] = d /\ \A i \in 1 .. Len(s) : t[i + 1] = s[i]
  OBVIOUS
<1>2. \A n \in Nat : /\ \A i \in 1 .. 1 + n : i = 1 \/ (i - 1 \in 1 .. n /\ (i - 1) + 1 = i)
                     /\ 1 \in 1 .. 1 + n /\ \A i \in 1 .. n : i + 1 \in 1 .. 1 + n
  OBVIOUS
<1>3. \A i \in DOMAIN t : t[i] = d \/ t[i] \in ToSet(s)
  BY <1>1, <1>2 DEF ToSet
<1>4. d \in ToSet(t) /\ \A i \in DOMAIN s : s[i] \in ToSet(t)
  BY <1>1, <1>2 DEF ToSet
<1>5. ToSet(t) \subseteq {d} \cup ToSet(s)
  BY <1>3 DEF ToSet
<1>6. ToSet(s) \subseteq ToSet(t)
  BY <1>4 DEF ToSet
<1>7. ToSet(t) = {d} \cup ToSet(s) /\ t # <<>>
  BY <1>1, <1>4, <1>5, <1>6
<1> QED
  BY <1>1, <1>7

\* All lists are added one after the other.  If a list has something of P only when its
\* first element is in P, the first one whose first element is in P puts that element in
\* front of everything else in P.
LEMMA CollectingAll ==
    ASSUME NEW T, NEW s \in Seq(T), NEW lists \in Seq(Seq(T)), \A k \in DOMAIN lists : lists[k] # <<>>
    PROVE  /\ CollectAll(s, lists) \in Seq(T)
           /\ ToSet(CollectAll(s, lists)) = ToSet(s) \cup UNION {ToSet(lists[k]) : k \in DOMAIN lists}
           /\ \A P : (/\ ToSet(s) \intersect P = {}
                      /\ \A k \in DOMAIN lists : lists[k][1] \notin P => ToSet(lists[k]) \intersect P = {})
                => \A m \in DOMAIN lists :
                      lists[m][1] \in P /\ (\A j \in 1 .. m - 1 : lists[j][1] \notin P) =>
                          \E q \in DOMAIN CollectAll(s, lists) :
                             /\ CollectAll(s, lists)[q] = lists[m][1]
                             /\ \A i \in 1 .. q - 1 : CollectAll(s, lists)[i] \notin P
<1>0. \A v \in Seq(T), new \in Seq(T) :
        /\ Collect(v, new) \in Seq(T) /\ Begins(v, Collect(v, new))
        /\ ToSet(Collect(v, new)) = ToSet(v) \cup ToSet(new)
        /\ new # <<>> /\ new[1] \notin ToSet(v) =>
              Len(v) + 1 =< Len(Collect(v, new)) /\ Collect(v, new)[Len(v) + 1] = new[1]
  BY Collecting
<1> DEFINE n == Len(lists)
           Is(f) == f = [k \in 0 .. n |-> IF k = 0 THEN s ELSE Collect(f[k - 1], lists[k])]
           up == CHOOSE f : Is(f)
           step == [k \in 1 .. n |-> [v \in Seq(T) |-> Collect(v, lists[k])]]
<1>1. n \in Nat /\ DOMAIN lists = 1 .. n /\ \A k \in 1 .. n : lists[k] \in Seq(T) /\ lists[k] # <<>>
  OBVIOUS
<1>2. step \in [1 .. n -> [Seq(T) -> Seq(T)]]
  BY <1>1, Collecting
<1>3. PICK f : Along(f, n, Seq(T), s, step)
  <2> HIDE DEF n, step
  <2> QED
    BY <1>1, <1>2, AlongExists
<1>4. f \in [0 .. n -> Seq(T)] /\ f[0] = s /\ \A k \in 1 .. n : f[k] = Collect(f[k - 1], lists[k])
  <2>1. ASSUME NEW k \in 1 .. n PROVE f[k] = Collect(f[k - 1], lists[k])
    <3>1. f[k - 1] \in Seq(T) /\ f[k] = step[k][f[k - 1]]
      <4> HIDE DEF step, n
      <4> QED
        BY <1>1, <1>3 DEF Along
    <3> QED
      BY <3>1
  <2> QED
    BY <1>3, <2>1 DEF Along
<1>5. Is(f)
  <2> HIDE DEF n
  <2>1. ASSUME NEW k \in 0 .. n PROVE f[k] = IF k = 0 THEN s ELSE Collect(f[k - 1], lists[k])
    BY <1>1, <1>4
  <2> QED
    BY <1>4, <2>1
<1>6. Is(up)
  <2> HIDE DEF Is
  <2> QED
    BY <1>5
<1>7. CollectAll(s, lists) = up[n]
  BY DEF CollectAll
<1> HIDE DEF up
<1>8. DOMAIN up = 0 .. n /\ up[0] = s /\ \A k \in 1 .. n : up[k] = Collect(up[k - 1], lists[k])
  <2> HIDE DEF n
  <2>1. n \in Nat
    BY <1>1
  <2> QED
    BY <1>6, <2>1
<1> DEFINE Alone(P) == /\ ToSet(s) \intersect P = {}
                       /\ \A k \in 1 .. n : lists[k][1] \notin P => ToSet(lists[k]) \intersect P = {}
           Earliest(m, P) == lists[m][1] \in P /\ \A j \in 1 .. m - 1 : lists[j][1] \notin P
           Leads(r, m, P) == \E q \in DOMAIN r : r[q] = lists[m][1] /\ \A i \in 1 .. q - 1 : r[i] \notin P
           Fine(k) ==
             /\ up[k] \in Seq(T)
             /\ ToSet(up[k]) = ToSet(s) \cup UNION {ToSet(lists[j]) : j \in 1 .. k}
             /\ \A P : Alone(P) => \A m \in 1 .. k : Earliest(m, P) => Leads(up[k], m, P)
           Bad == {k \in 0 .. n : ~Fine(k)}
<1> HIDE DEF n
<1>9. Fine(0)
  <2>1. UNION {ToSet(lists[j]) : j \in 1 .. 0} = {}
    OBVIOUS
  <2> QED
    BY <1>8, <2>1
<1>10. ASSUME NEW k \in 1 .. n, Fine(k - 1) PROVE Fine(k)
  <2> PICK r, t : r = up[k - 1] /\ t = up[k]
    OBVIOUS
  <2> PICK new : new = lists[k]
    OBVIOUS
  <2>1. r \in Seq(T) /\ t = Collect(r, new) /\ new \in Seq(T) /\ new # <<>>
    BY <1>1, <1>8, <1>10
  <2>2. /\ t \in Seq(T) /\ Begins(r, t) /\ ToSet(t) = ToSet(r) \cup ToSet(lists[k])
        /\ lists[k][1] \notin ToSet(r) => Len(r) + 1 =< Len(t) /\ t[Len(r) + 1] = lists[k][1]
    <3>1. /\ Collect(r, new) \in Seq(T) /\ Begins(r, Collect(r, new))
          /\ ToSet(Collect(r, new)) = ToSet(r) \cup ToSet(new)
          /\ new # <<>> /\ new[1] \notin ToSet(r) =>
                Len(r) + 1 =< Len(Collect(r, new)) /\ Collect(r, new)[Len(r) + 1] = new[1]
      BY <1>0, <2>1
    <3> QED
      BY <2>1, <3>1
  <2>3. /\ Len(r) \in Nat /\ Len(t) \in Nat /\ DOMAIN r = 1 .. Len(r) /\ DOMAIN t = 1 .. Len(t)
    BY <2>1, <2>2
  <2>4. ToSet(r) = ToSet(s) \cup UNION {ToSet(lists[j]) : j \in 1 .. k - 1}
    BY <1>10
  <2>5. ToSet(t) = ToSet(s) \cup UNION {ToSet(lists[j]) : j \in 1 .. k}
    <3>1. 1 .. k = 1 .. k - 1 \cup {k}
      OBVIOUS
    <3> QED
      BY <2>2, <2>4, <3>1
  <2>6. ASSUME NEW P, Alone(P), NEW m \in 1 .. k, Earliest(m, P) PROVE Leads(t, m, P)
    <3>1. CASE m # k
      <4>1. m \in 1 .. k - 1
        BY <3>1
      <4>2. Leads(r, m, P)
        BY <1>10, <2>6, <4>1
      <4>3. PICK q \in 1 .. Len(r) : r[q] = lists[m][1] /\ \A i \in 1 .. q - 1 : r[i] \notin P
        BY <2>3, <4>2
      <4>4. q \in 1 .. Len(t) /\ t[q] = r[q] /\ \A i \in 1 .. q - 1 : t[i] = r[i]
        BY <2>2, <2>3 DEF Begins
      <4> QED
        BY <2>3, <4>3, <4>4
    <3>2. CASE m = k
      <4>1. \A j \in 1 .. k - 1 : lists[j][1] \notin P /\ j \in 1 .. n
        BY <1>1, <2>6, <3>2
      <4>2. ToSet(r) \intersect P = {}
        BY <2>4, <2>6, <4>1
      <4>3. lists[k][1] \notin ToSet(r)
        BY <2>6, <3>2, <4>2
      <4>4. Len(r) + 1 \in 1 .. Len(t) /\ t[Len(r) + 1] = lists[k][1]
        BY <2>2, <2>3, <4>3
      <4>5. ASSUME NEW i \in 1 .. (Len(r) + 1) - 1 PROVE t[i] \notin P
        <5>1. i \in DOMAIN r /\ t[i] = r[i]
          BY <2>2, <2>3 DEF Begins
        <5> QED
          BY <4>2, <5>1 DEF ToSet
      <4> QED
        BY <2>3, <3>2, <4>4, <4>5
    <3> QED
      BY <3>1, <3>2
  <2> QED
    BY <2>2, <2>5, <2>6
<1>11. ASSUME Bad # {} PROVE FALSE
  <2> HIDE DEF Fine
  <2>1. PICK k \in Bad : \A m \in Bad : k =< m
    BY <1>1, <1>11, Least, Bad \in SUBSET Nat
  <2>2. k # 0
    BY <1>9, <2>1
  <2>3. k \in 1 .. n /\ k - 1 \in 0 .. n /\ k - 1 \notin Bad
    BY <1>1, <2>1, <2>2
  <2>4. Fine(k - 1)
    BY <2>3
  <2> QED
    BY <1>10, <2>1, <2>3, <2>4
<1>12. Fine(n)
  <2>1. n \in 0 .. n
    BY <1>1
  <2> HIDE DEF Fine
  <2> QED
    BY <1>11, <2>1
<1>13. up[n] = CollectAll(s, lists)
  BY <1>7 DEF n
<1> HIDE DEF Leads
<1>14. ASSUME NEW P, Alone(P), NEW m \in 1 .. n, Earliest(m, P) PROVE Leads(CollectAll(s, lists), m, P)
  BY <1>12, <1>13, <1>14
<1>15. /\ CollectAll(s, lists) \in Seq(T)
       /\ ToSet(CollectAll(s, lists)) = ToSet(s) \cup UNION {ToSet(lists[j]) : j \in DOMAIN lists}
  BY <1>1, <1>12, <1>13
<1> QED
  BY <1>1, <1>14, <1>15 DEF Leads

\* The list of a class stays right as long as the classes it was made from stay what they are.
LEMMA ListsFrom ==
    ASSUME file' = file, NEW c, file[c].super # None => cls'[file[c].super] = cls[file[c].super],
           \A k \in DOMAIN file[c].interfaces : cls'[file[c].interfaces[k]] = cls[file[c].interfaces[k]]
    PROVE  Interfaces(c)' = Interfaces(c)
<1>1. Inherited(c)' = Inherited(c)
  BY DEF Inherited
<1>2. [k \in DOMAIN file[c].interfaces |->
            <<file[c].interfaces[k]>> \o cls[file[c].interfaces[k]].interfaces]'
      = [k \in DOMAIN file[c].interfaces |->
            <<file[c].interfaces[k]>> \o cls[file[c].interfaces[k]].interfaces]
  OBVIOUS
<1> QED
  BY <1>1, <1>2 DEF Interfaces

\* What a class is asked for when its list is made.
LEMMA MadeFrom ==
    ASSUME ClassPath(file), NEW c \in Class, Extends(c), \A k \in DOMAIN file[c].interfaces : Provides(c, k)
    PROVE  /\ file[c].super # None => file[c].super \in LinkedClasses
           /\ file[c].interfaces \in Seq(LinkedClasses)
<1>1. file[c].super \in Name \cup {None} /\ file[c].interfaces \in Seq(Name)
  BY DEF ClassPath
<1>2. file[c].super # None => file[c].super \in LinkedClasses
  BY <1>1 DEF Extends, Found, LinkedClasses
<1>3. \A k \in 1 .. Len(file[c].interfaces) : file[c].interfaces[k] \in LinkedClasses
  BY <1>1 DEF Provides, Found, LinkedClasses
<1> QED
  BY <1>1, <1>2, <1>3

LEMMA ListsKept ==
    ASSUME ClassPath(file), Stable, NEW c \in Class, Extends(c),
           \A k \in DOMAIN file[c].interfaces : Provides(c, k)
    PROVE  Interfaces(c)' = Interfaces(c)
<1>1. file[c].super # None => file[c].super \in LinkedClasses
  BY MadeFrom
<1>2. \A k \in DOMAIN file[c].interfaces : file[c].interfaces[k] \in LinkedClasses
  BY MadeFrom
<1>3. file' = file /\ \A d \in LinkedClasses : cls'[d] = cls[d]
  BY DEF Stable, LinkedClasses
<1> QED
  BY <1>1, <1>2, <1>3, ListsFrom

LEMMA CollectingNew ==
    ASSUME NEW T, NEW new \in Seq(T)
    PROVE  Collect(<<>>, new) \in Seq(T) /\ ToSet(Collect(<<>>, new)) = ToSet(new)
<1>1. \A e \in Seq(T) : Collect(e, new) \in Seq(T) /\ ToSet(Collect(e, new)) = ToSet(e) \cup ToSet(new)
  BY Collecting
<1>2. <<>> \in Seq(T)
  OBVIOUS
<1>3. ToSet(<<>>) = {}
  BY DEF ToSet
<1> QED
  BY <1>1, <1>2, <1>3

\* What is added to the list a class takes over: its interfaces, each with its own.
Lists(c) == [k \in DOMAIN file[c].interfaces |->
                <<file[c].interfaces[k]>> \o cls[file[c].interfaces[k]].interfaces]

LEMMA ListsMade ==
    ASSUME ClassPath(file), NEW c \in Class, Extends(c), \A k \in DOMAIN file[c].interfaces : Provides(c, k),
           \A d \in Name : cls[d].interfaces \in Seq(LinkedClasses)
    PROVE  /\ Interfaces(c) = CollectAll(Collect(<<>>, Inherited(c)), Lists(c))
           /\ Collect(<<>>, Inherited(c)) \in Seq(LinkedClasses)
           /\ ToSet(Collect(<<>>, Inherited(c))) = ToSet(Inherited(c))
           /\ Lists(c) \in Seq(Seq(LinkedClasses)) /\ DOMAIN Lists(c) = DOMAIN file[c].interfaces
           /\ \A k \in DOMAIN Lists(c) :
                 /\ Lists(c)[k] # <<>> /\ Lists(c)[k][1] = file[c].interfaces[k]
                 /\ ToSet(Lists(c)[k]) = {file[c].interfaces[k]} \cup ToSet(cls[file[c].interfaces[k]].interfaces)
<1>0. LinkedClasses \subseteq Name
  BY DEF LinkedClasses
<1>1. (file[c].super # None => file[c].super \in LinkedClasses) /\ file[c].interfaces \in Seq(LinkedClasses)
  BY MadeFrom
<1> PICK L : L = LinkedClasses
  OBVIOUS
<1>2. Inherited(c) \in Seq(L)
  BY <1>0, <1>1 DEF Inherited
<1> DEFINE own == file[c].interfaces
           lists == Lists(c)
<1>3. ASSUME NEW k \in DOMAIN own
      PROVE  /\ <<own[k]>> \o cls[own[k]].interfaces \in Seq(L)
             /\ <<own[k]>> \o cls[own[k]].interfaces # <<>>
             /\ (<<own[k]>> \o cls[own[k]].interfaces)[1] = own[k]
             /\ ToSet(<<own[k]>> \o cls[own[k]].interfaces) = {own[k]} \cup ToSet(cls[own[k]].interfaces)
  <2>1. own[k] \in L /\ cls[own[k]].interfaces \in Seq(L)
    BY <1>0, <1>1
  <2> QED
    BY <2>1, FrontSet
<1>4. /\ lists \in Seq(Seq(L)) /\ DOMAIN lists = DOMAIN own
      /\ \A k \in DOMAIN lists : /\ lists[k] # <<>> /\ lists[k][1] = own[k]
                                 /\ ToSet(lists[k]) = {own[k]} \cup ToSet(cls[own[k]].interfaces)
  <2>1. DOMAIN own = 1 .. Len(own) /\ Len(own) \in Nat
    BY <1>1
  <2>2. DOMAIN lists = DOMAIN own /\ \A k \in DOMAIN own : lists[k] = <<own[k]>> \o cls[own[k]].interfaces
    BY DEF Lists
  <2>3. lists = [k \in DOMAIN own |-> lists[k]]
    BY DEF Lists
  <2> HIDE DEF lists, own
  <2>4. lists = [k \in 1 .. Len(own) |-> lists[k]]
    BY <2>1, <2>3
  <2>5. lists \in Seq(Seq(L))
    <3> PICK M, n : M = Seq(L) /\ n = Len(own)
      OBVIOUS
    <3>1. n \in Nat /\ \A k \in 1 .. n : lists[k] \in M
      BY <1>3, <2>1, <2>2 DEF own
    <3>2. [k \in 1 .. n |-> lists[k]] \in Seq(M)
      BY <3>1
    <3> QED
      BY <2>4, <3>2
  <2> QED
    BY <1>3, <2>2, <2>5
<1>6. Collect(<<>>, Inherited(c)) \in Seq(L) /\ ToSet(Collect(<<>>, Inherited(c))) = ToSet(Inherited(c))
  BY <1>2, CollectingNew
<1>7. Interfaces(c) = CollectAll(Collect(<<>>, Inherited(c)), lists)
  BY DEF Interfaces, Lists
<1> HIDE DEF lists
<1> QED
  BY <1>4, <1>6, <1>7 DEF lists

\* Lists of linked classes make a list of linked classes.
LEMMA ListsLinked ==
    ASSUME ClassPath(file), NEW c \in Class, Extends(c), \A k \in DOMAIN file[c].interfaces : Provides(c, k),
           \A d \in Name : cls[d].interfaces \in Seq(LinkedClasses)
    PROVE  /\ Interfaces(c) \in Seq(LinkedClasses)
           /\ ToSet(Interfaces(c)) = ToSet(Inherited(c))
                \cup UNION {{file[c].interfaces[k]} \cup ToSet(cls[file[c].interfaces[k]].interfaces) :
                                k \in DOMAIN file[c].interfaces}
<1> PICK L, s, lists : L = LinkedClasses /\ s = Collect(<<>>, Inherited(c)) /\ lists = Lists(c)
  OBVIOUS
<1>1. /\ Interfaces(c) = CollectAll(s, lists) /\ s \in Seq(L) /\ lists \in Seq(Seq(L))
      /\ \A k \in DOMAIN lists : lists[k] # <<>>
      /\ ToSet(s) = ToSet(Inherited(c)) /\ DOMAIN lists = DOMAIN file[c].interfaces
      /\ \A k \in DOMAIN lists :
            ToSet(lists[k]) = {file[c].interfaces[k]} \cup ToSet(cls[file[c].interfaces[k]].interfaces)
  BY ListsMade
<1>2. CollectAll(s, lists) \in Seq(L)
      /\ ToSet(CollectAll(s, lists)) = ToSet(s) \cup UNION {ToSet(lists[k]) : k \in DOMAIN lists}
  BY <1>1, CollectingAll
<1>3. UNION {ToSet(lists[k]) : k \in DOMAIN lists}
        = UNION {{file[c].interfaces[k]} \cup ToSet(cls[file[c].interfaces[k]].interfaces) :
                    k \in DOMAIN file[c].interfaces}
  BY <1>1
<1> QED
  BY <1>1, <1>2, <1>3

\* Every list is made of linked classes; array classes have none; that of a linked class,
\* and of one that only waits to be linked, is what load_interfaces() makes.
Listings ==
    /\ \A c \in Name : cls[c].interfaces \in Seq(LinkedClasses)
    /\ \A c \in Array : cls[c].interfaces = <<>>
    /\ \A c \in Class : state[c] = "linked" \/ c \in Laying => cls[c].interfaces = Interfaces(c)

LEMMA ListingsInit == ASSUME Init PROVE Listings
<1>1. \A c \in Name : cls[c].interfaces = <<>> /\ state[c] # "linked"
  BY DEF Init, NoClass
<1>2. Laying = {}
  BY DEF Init, Laying
<1>3. <<>> \in Seq(LinkedClasses)
  OBVIOUS
<1> QED
  BY <1>1, <1>2, <1>3 DEF Listings, Name

\* A linked class keeps its list.
LEMMA LinkedList ==
    ASSUME IInv, Stable, Listings, NEW c \in Class, state[c] = "linked"
    PROVE  cls'[c].interfaces = Interfaces(c)'
<1>1. c \in Name /\ ~IsArray(c) /\ ClassPath(file)
  BY NamesAssumption, WorldAssumption DEF IInv, TypeOK, Name, IsArray
<1>2. Extends(c) /\ \A k \in DOMAIN file[c].interfaces : Provides(c, k)
  BY <1>1 DEF IInv, Whole, Complete, Derives
<1>3. Interfaces(c)' = Interfaces(c)
  BY <1>1, <1>2, ListsKept
<1>4. cls'[c] = cls[c] /\ cls[c].interfaces = Interfaces(c)
  BY <1>1 DEF Stable, Listings
<1> QED
  BY <1>3, <1>4

LEMMA ListingsStep == ASSUME IInv, Listings, [Next]_vars PROVE Listings'
<1>1. Stable /\ (Quiet \/ \E c \in Class : Deriving(c))
  BY StepKinds
<1>2. file' = file /\ ClassPath(file) /\ DOMAIN cls = Name
  BY <1>1, WorldAssumption DEF IInv, TypeOK, Stable
<1>3. LinkedClasses \subseteq LinkedClasses'
  BY <1>1 DEF Stable, LinkedClasses
<1>4. \A s \in Seq(LinkedClasses) : s \in Seq(LinkedClasses')
  <2> PICK A, B : A = LinkedClasses /\ B = LinkedClasses'
    OBVIOUS
  <2>1. \A s \in Seq(A) : s \in Seq(B)
    <3>1. A \subseteq B
      BY <1>3
    <3> QED
      BY <3>1
  <2> QED
    BY <2>1
<1>5. CASE Quiet
  <2>1. \A d \in Name : cls'[d].interfaces = cls[d].interfaces
    BY <1>5 DEF Quiet
  <2>2. ASSUME NEW d \in Class, d \in Laying PROVE cls'[d].interfaces = Interfaces(d)'
    <3>1. cls' = cls /\ cls[d].interfaces = Interfaces(d)
      BY <1>5, <2>2 DEF Quiet, Listings
    <3>2. Interfaces(d)' = Interfaces(d)
      BY <1>2, <3>1, ListsFrom
    <3> QED
      BY <3>1, <3>2
  <2>3. ASSUME NEW d \in Class, state'[d] = "linked" \/ d \in Laying' PROVE cls'[d].interfaces = Interfaces(d)'
    <3>1. state[d] = "linked" \/ d \in Laying
      BY <1>5, <2>3 DEF Quiet
    <3> QED
      BY <1>1, <2>2, <3>1, LinkedList
  <2>4. \A d \in Name : cls'[d].interfaces \in Seq(LinkedClasses')
    BY <1>4, <2>1 DEF Listings
  <2>5. \A d \in Array : cls'[d].interfaces = <<>>
    BY <2>1 DEF Listings, Name
  <2> QED
    BY <2>3, <2>4, <2>5 DEF Listings
<1>6. ASSUME NEW c \in Class, Deriving(c) PROVE Listings'
  <2>1. /\ state' = state /\ state[c] = "linking" /\ Extends(c) /\ Laying' \subseteq {c}
        /\ \A k \in DOMAIN file[c].interfaces : Provides(c, k)
        /\ cls' = [cls EXCEPT ![c] = Derived(c)]
    BY <1>6 DEF Deriving
  <2>2. c \in Name /\ c \notin Array /\ DOMAIN cls[c] = DOMAIN NoClass
    BY NamesAssumption DEF Name, IInv, TypeOK
  <2>3. cls'[c] = Derived(c) /\ \A d \in Name : d # c => cls'[d] = cls[d]
    BY <1>2, <2>1, <2>2
  <2>4. cls'[c].interfaces = Interfaces(c)
    BY <2>2, <2>3, DerivedPlaces
  <2>5. Interfaces(c)' = Interfaces(c)
    BY <1>1, <1>2, <2>1, ListsKept
  <2>6. Interfaces(c) \in Seq(LinkedClasses)
    BY <1>2, <2>1, ListsLinked DEF Listings
  <2>7. ASSUME NEW d \in Class, state'[d] = "linked" \/ d \in Laying' PROVE cls'[d].interfaces = Interfaces(d)'
    <3>1. CASE d = c
      BY <2>4, <2>5, <3>1
    <3>2. CASE d # c
      BY <1>1, <2>1, <2>7, <3>2, LinkedList
    <3> QED
      BY <3>1, <3>2
  <2>8. \A d \in Name : cls'[d].interfaces \in Seq(LinkedClasses')
    BY <1>4, <2>3, <2>4, <2>6 DEF Listings
  <2>9. \A d \in Array : cls'[d].interfaces = <<>>
    BY <2>2, <2>3 DEF Listings, Name
  <2> QED
    BY <2>7, <2>8, <2>9 DEF Listings
<1> QED
  BY <1>1, <1>5, <1>6

-----------------------------------------------------------------------------
(* What is above a class.                                                  *)

\* A claim about all linked classes that fails at one fails at one before which it holds.
LEMMA Foremost ==
    ASSUME NEW order, InOrder(order), NEW Bad \in SUBSET LinkedClasses, Bad # {}
    PROVE  \E k \in DOMAIN order :
              /\ order[k] \in Bad /\ Below(order[k]) \subseteq {order[j] : j \in 1 .. k - 1}
              /\ {order[j] : j \in 1 .. k - 1} \subseteq LinkedClasses \ Bad
<1>1. /\ DOMAIN order = 1 .. Len(order) /\ Len(order) \in Nat /\ ToSet(order) = LinkedClasses
      /\ \A i \in DOMAIN order : Below(order[i]) \subseteq {order[j] : j \in 1 .. i - 1}
  BY DEF InOrder
<1> DEFINE T == {k \in 1 .. Len(order) : order[k] \in Bad}
<1>2. T # {}
  <2>1. PICK c \in Bad : c \in ToSet(order)
    BY <1>1
  <2> QED
    BY <1>1, <2>1 DEF ToSet
<1>3. PICK k \in T : \A m \in T : k =< m
  BY <1>2, Least, T \in SUBSET Nat
<1>4. ASSUME NEW j \in 1 .. k - 1 PROVE order[j] \in LinkedClasses \ Bad
  <2>1. j \in 1 .. Len(order) /\ ~(k =< j)
    BY <1>1, <1>3
  <2> QED
    BY <1>1, <1>3, <2>1 DEF ToSet
<1> QED
  BY <1>1, <1>3, <1>4

\* The interfaces of a class, those it takes over included.
Ifs(c) == ToSet(cls[c].interfaces)

LEMMA IfsOfClass ==
    ASSUME IInv, Listings, NEW c \in Class, state[c] = "linked"
    PROVE  /\ file[c].interfaces \in Seq(LinkedClasses)
           /\ file[c].super # None => file[c].super \in LinkedClasses
           /\ \A k \in DOMAIN file[c].interfaces : Provides(c, k)
           /\ Ifs(c) = (IF file[c].super = None THEN {} ELSE Ifs(file[c].super))
                    \cup UNION {{file[c].interfaces[k]} \cup Ifs(file[c].interfaces[k]) :
                                    k \in DOMAIN file[c].interfaces}
<1>1. c \in Name /\ ~IsArray(c) /\ ClassPath(file)
  BY NamesAssumption, WorldAssumption DEF IInv, TypeOK, Name, IsArray
<1>2. Extends(c) /\ \A k \in DOMAIN file[c].interfaces : Provides(c, k)
  BY <1>1 DEF IInv, Whole, Complete, Derives
<1>3. cls[c].interfaces = Interfaces(c) /\ \A d \in Name : cls[d].interfaces \in Seq(LinkedClasses)
  BY DEF Listings
<1>4. ToSet(Interfaces(c)) = ToSet(Inherited(c))
                \cup UNION {{file[c].interfaces[k]} \cup ToSet(cls[file[c].interfaces[k]].interfaces) :
                                k \in DOMAIN file[c].interfaces}
  BY <1>1, <1>2, <1>3, ListsLinked
<1>5. ToSet(Inherited(c)) = IF file[c].super = None THEN {} ELSE Ifs(file[c].super)
  <2>1. ToSet(<<>>) = {}
    BY DEF ToSet
  <2> QED
    BY <2>1 DEF Inherited, Ifs
<1>6. /\ file[c].super # None => file[c].super \in LinkedClasses
      /\ file[c].interfaces \in Seq(LinkedClasses)
  BY <1>1, <1>2, MadeFrom
<1> QED
  BY <1>2, <1>3, <1>4, <1>5, <1>6 DEF Ifs

\* They all came before it, are interfaces, and so are theirs.
LEMMA IfsAbove ==
    ASSUME IInv, Listings, NEW order, InOrder(order)
    PROVE  \A k \in DOMAIN order :
              /\ Ifs(order[k]) \subseteq {order[j] : j \in 1 .. k - 1}
              /\ \A i \in Ifs(order[k]) : IsInterface(i) /\ Ifs(i) \subseteq Ifs(order[k])
<1> DEFINE Early(k) == {order[j] : j \in 1 .. k - 1}
           Fine(k) == /\ Ifs(order[k]) \subseteq Early(k)
                      /\ \A i \in Ifs(order[k]) : IsInterface(i) /\ Ifs(i) \subseteq Ifs(order[k])
           Bad == {k \in 1 .. Len(order) : ~Fine(k)}
<1>1. /\ DOMAIN order = 1 .. Len(order) /\ Len(order) \in Nat /\ ToSet(order) = LinkedClasses
      /\ \A i \in DOMAIN order : Below(order[i]) \subseteq {order[j] : j \in 1 .. i - 1}
  BY DEF InOrder
<1>2. ASSUME Bad # {} PROVE FALSE
  <2>1. PICK k \in Bad : \A m \in Bad : k =< m
    <3> HIDE DEF Fine
    <3> QED
      BY <1>2, Least, Bad \in SUBSET Nat
  <2> PICK c : c = order[k]
    OBVIOUS
  <2>2. k \in DOMAIN order /\ c \in LinkedClasses /\ ~Fine(k)
    BY <1>1, <2>1 DEF ToSet
  <2>3. c \in Class
    <3>1. CASE c \in Array
      <4>1. cls[c].interfaces = <<>>
        BY <3>1 DEF Listings
      <4>2. Ifs(c) = {}
        BY <4>1 DEF Ifs, ToSet
      <4> QED
        BY <2>2, <4>2
    <3> QED
      BY <2>2, <3>1 DEF LinkedClasses, Name
  <2>4. /\ file[c].interfaces \in Seq(LinkedClasses)
        /\ \A n \in DOMAIN file[c].interfaces : Provides(c, n)
        /\ Ifs(c) = (IF file[c].super = None THEN {} ELSE Ifs(file[c].super))
                    \cup UNION {{file[c].interfaces[n]} \cup Ifs(file[c].interfaces[n]) :
                                    n \in DOMAIN file[c].interfaces}
    BY <2>2, <2>3, IfsOfClass DEF LinkedClasses
  <2>5. ~IsArray(c) /\ Below(c) \subseteq Early(k)
    BY <1>1, <2>2, <2>3, NamesAssumption DEF IsArray
  <2>6. ASSUME NEW d \in Early(k)
        PROVE  Ifs(d) \subseteq Early(k) /\ \A i \in Ifs(d) : IsInterface(i) /\ Ifs(i) \subseteq Ifs(d)
    <3>1. PICK j \in 1 .. k - 1 : d = order[j]
      BY <2>6
    <3>2. j \in 1 .. Len(order) /\ ~(k =< j) /\ j \notin Bad
      BY <1>1, <2>1, <3>1
    <3>3. Fine(j)
      BY <3>2
    <3>4. Early(j) \subseteq Early(k)
      BY <1>1, <2>1, <3>1
    <3> QED
      BY <3>1, <3>3, <3>4
  <2>7. file[c].super # None => file[c].super \in Early(k)
    BY <2>5 DEF Below
  <2>8. \A n \in DOMAIN file[c].interfaces : file[c].interfaces[n] \in Early(k) /\ IsInterface(file[c].interfaces[n])
    BY <2>4, <2>5 DEF Below, ToSet, Provides
  <2>a. \A i \in Ifs(c) :
          \/ file[c].super # None /\ i \in Ifs(file[c].super)
          \/ \E n \in DOMAIN file[c].interfaces :
                i = file[c].interfaces[n] \/ i \in Ifs(file[c].interfaces[n])
    BY <2>4
  <2>b. file[c].super # None => Ifs(file[c].super) \subseteq Ifs(c)
    BY <2>4
  <2>c. \A n \in DOMAIN file[c].interfaces : Ifs(file[c].interfaces[n]) \subseteq Ifs(c)
    BY <2>4
  <2> HIDE DEF Early
  <2>9. ASSUME NEW i \in Ifs(c) PROVE i \in Early(k)
    <3>1. CASE file[c].super # None /\ i \in Ifs(file[c].super)
      BY <2>6, <2>7, <3>1
    <3>2. CASE \E n \in DOMAIN file[c].interfaces :
                    i = file[c].interfaces[n] \/ i \in Ifs(file[c].interfaces[n])
      BY <2>6, <2>8, <3>2
    <3> QED
      BY <2>a, <3>1, <3>2
  <2>10. ASSUME NEW i \in Ifs(c) PROVE IsInterface(i) /\ Ifs(i) \subseteq Ifs(c)
    <3>1. CASE file[c].super # None /\ i \in Ifs(file[c].super)
      BY <2>6, <2>7, <2>b, <3>1
    <3>2. CASE \E n \in DOMAIN file[c].interfaces : i = file[c].interfaces[n]
      BY <2>8, <2>c, <3>2
    <3>3. CASE \E n \in DOMAIN file[c].interfaces : i \in Ifs(file[c].interfaces[n])
      BY <2>6, <2>8, <2>c, <3>3
    <3> QED
      BY <2>a, <3>1, <3>2, <3>3
  <2> QED
    BY <2>2, <2>9, <2>10
<1> HIDE DEF Fine
<1>3. \A k \in DOMAIN order : Fine(k)
  BY <1>1, <1>2
<1> QED
  BY <1>3 DEF Fine

-----------------------------------------------------------------------------
(* Looking a field up.                                                     *)

\* A function on S can be computed along an order of what its values depend on: that of
\* order[i] on what comes before it, and every one on what is in the order.
Follows(S, V, none, order, step) ==
    /\ none \in V /\ order \in Seq(S) /\ IsInjective(order) /\ step \in [S -> [[S -> V] -> V]]
    /\ \A i \in DOMAIN order : \A f, g \in [S -> V] :
          (\A j \in 1 .. i - 1 : f[order[j]] = g[order[j]]) => step[order[i]][f] = step[order[i]][g]
    /\ \A d \in S : \A f, g \in [S -> V] :
          (\A j \in DOMAIN order : f[order[j]] = g[order[j]]) => step[d][f] = step[d][g]

LEMMA OrderRecursion ==
    ASSUME NEW S, NEW V, NEW none, NEW order, NEW step, Follows(S, V, none, order, step)
    PROVE  \E f \in [S -> V] : \A d \in S : f[d] = step[d][f]
<1> DEFINE n == Len(order)
           To(k, f) == \A i \in 1 .. k : f[order[i]] = step[order[i]][f]
           Bad == {k \in 0 .. n : ~ \E f \in [S -> V] : To(k, f)}
<1> USE DEF Follows
<1>1. n \in Nat /\ DOMAIN order = 1 .. n /\ \A i \in 1 .. n : order[i] \in S
  OBVIOUS
<1>2. \A d \in S, f \in [S -> V] : step[d][f] \in V
  OBVIOUS
<1>3. ASSUME Bad # {} PROVE FALSE
  <2>1. PICK k \in Bad : \A m \in Bad : k =< m
    <3> HIDE DEF To
    <3> QED
      BY <1>1, <1>3, Least, Bad \in SUBSET Nat
  <2>2. k # 0
    <3>1. [d \in S |-> none] \in [S -> V]
      OBVIOUS
    <3>2. To(0, [d \in S |-> none])
      OBVIOUS
    <3> HIDE DEF To
    <3> QED
      BY <2>1, <3>1, <3>2
  <2>3. k \in 1 .. n /\ k - 1 \in 0 .. n /\ k - 1 \notin Bad
    <3>1. k \in 0 .. n
      OBVIOUS
    <3>2. k \in 1 .. n /\ k - 1 \in 0 .. n /\ ~(k =< k - 1)
      BY <1>1, <2>2, <3>1
    <3> HIDE DEF Bad
    <3> QED
      BY <2>1, <3>2
  <2>4. PICK f \in [S -> V] : To(k - 1, f)
    <3> HIDE DEF To
    <3> QED
      BY <2>3
  <2> PICK v : v = step[order[k]][f]
    OBVIOUS
  <2>5. v \in V
    BY <1>1, <1>2, <2>3
  <2> DEFINE g == [f EXCEPT ![order[k]] = v]
  <2>6. g \in [S -> V] /\ g[order[k]] = v
    BY <1>1, <2>3, <2>5
  <2>7. ASSUME NEW i \in 1 .. k - 1 PROVE g[order[i]] = f[order[i]] /\ i \in DOMAIN order /\ order[i] \in S
    <3>1. i \in DOMAIN order /\ k \in DOMAIN order /\ i # k
      BY <1>1, <2>3
    <3>2. order[i] # order[k]
      BY <3>1 DEF IsInjective
    <3> QED
      BY <1>1, <3>1, <3>2
  <2> HIDE DEF g
  <2>8. ASSUME NEW i \in 1 .. k, i \in DOMAIN order PROVE step[order[i]][g] = step[order[i]][f]
    <3>1. \A j \in 1 .. i - 1 : j \in 1 .. k - 1
      BY <2>3
    <3>2. \A j \in 1 .. i - 1 : g[order[j]] = f[order[j]]
      BY <2>7, <3>1
    <3>3. \A h, e \in [S -> V] :
            (\A j \in 1 .. i - 1 : h[order[j]] = e[order[j]]) => step[order[i]][h] = step[order[i]][e]
      BY <2>8
    <3> HIDE DEF Follows
    <3> QED
      BY <2>6, <3>2, <3>3
  <2>9. ASSUME NEW i \in 1 .. k PROVE g[order[i]] = step[order[i]][g]
    <3>1. CASE i = k
      BY <1>1, <2>3, <2>6, <2>8, <3>1
    <3>2. CASE i # k
      <4>1. i \in 1 .. k - 1
        BY <2>3, <3>2
      <4>2. f[order[i]] = step[order[i]][f]
        BY <2>4, <4>1
      <4> QED
        BY <2>7, <2>8, <4>1, <4>2
    <3> QED
      BY <3>1, <3>2
  <2>10. To(k, g)
    BY <2>9
  <2> HIDE DEF To
  <2> QED
    BY <2>1, <2>6, <2>10
<1>4. PICK u \in [S -> V] : To(n, u)
  <2>1. n \in 0 .. n
    BY <1>1
  <2> HIDE DEF To
  <2> QED
    BY <1>3, <2>1
<1> DEFINE w == [d \in S |-> step[d][u]]
<1>5. w \in [S -> V]
  BY <1>2
<1>6. \A j \in DOMAIN order : w[order[j]] = u[order[j]]
  BY <1>1, <1>4
<1> HIDE DEF w
<1>7. \A d \in S : step[d][w] = step[d][u]
  BY <1>5, <1>6
<1>8. \A d \in S : w[d] = step[d][w]
  BY <1>7 DEF w
<1> QED
  BY <1>5, <1>8

\* The places of a list at which f has found something, and the first of them.
Across(list, f) == {k \in DOMAIN list : f[list[k]] # None}

LEMMA AcrossFirst ==
    ASSUME NEW T, NEW list \in Seq(T), NEW f, Across(list, f) # {}
    PROVE  /\ Min(Across(list, f)) \in Across(list, f)
           /\ \A k \in Across(list, f) : Min(Across(list, f)) =< k
<1>1. Across(list, f) \in SUBSET Nat
  BY DEF Across
<1> PICK A : A = Across(list, f)
  OBVIOUS
<1>2. PICK n \in A : \A m \in A : n =< m
  BY <1>1, Least
<1> QED
  BY <1>2 DEF Min

LEMMA AcrossSame ==
    ASSUME NEW list, NEW f, NEW g, \A k \in DOMAIN list : f[list[k]] = g[list[k]]
    PROVE  Across(list, f) = Across(list, g)
BY DEF Across

\* f is what lookup_field() finds, class by class.
Looks(f, name, static) ==
    /\ \A d \in Name : LookupField(d, name, static) = f[d]
    /\ \A d \in Name :
          f[d] = IF cls[d].parent = None THEN None
                 ELSE IF FieldOf(d, name, static) # None THEN FieldOf(d, name, static)
                 ELSE IF static /\ Across(cls[d].interfaces, f) # {}
                      THEN f[cls[d].interfaces[Min(Across(cls[d].interfaces, f))]]
                 ELSE f[cls[d].parent]

\* An element of a sequence of linked classes.
LEMMA ListedLinked ==
    ASSUME NEW list \in Seq(LinkedClasses)
    PROVE  /\ list \in Seq(Name)
           /\ \A k \in DOMAIN list : list[k] \in Name /\ list[k] \in LinkedClasses /\ list[k] \in ToSet(list)
<1>1. LinkedClasses \subseteq Name
  BY DEF LinkedClasses
<1> PICK T : T = LinkedClasses
  OBVIOUS
<1>2. \A k \in DOMAIN list : list[k] \in T
  OBVIOUS
<1>3. list \in Seq(Name)
  BY <1>1
<1> QED
  BY <1>1, <1>2, <1>3 DEF ToSet

LEMMA LooksExists ==
    ASSUME IInv, Placings, Listings, Ordered, NEW name, NEW static \in BOOLEAN
    PROVE  \E f : Looks(f, name, static)
<1>1. PICK order : InOrder(order)
  BY DEF Ordered
<1>2. /\ order \in Seq(Name) /\ IsInjective(order) /\ ToSet(order) = LinkedClasses
      /\ DOMAIN order = 1 .. Len(order) /\ Len(order) \in Nat
  BY <1>1 DEF InOrder
<1> DEFINE V == {None} \cup {FieldOf(d, name, static) : d \in Name}
           Finds(d, f) == IF cls[d].parent = None THEN None
                       ELSE IF FieldOf(d, name, static) # None THEN FieldOf(d, name, static)
                       ELSE IF static /\ Across(cls[d].interfaces, f) # {}
                            THEN f[cls[d].interfaces[Min(Across(cls[d].interfaces, f))]]
                       ELSE f[cls[d].parent]
           step == [d \in Name |-> [f \in [Name -> V] |-> Finds(d, f)]]
<1>3. ASSUME NEW d \in Name
      PROVE  /\ cls[d].parent # None => cls[d].parent \in Name /\ cls[d].parent \in LinkedClasses
             /\ \A k \in DOMAIN cls[d].interfaces :
                   cls[d].interfaces[k] \in Name /\ cls[d].interfaces[k] \in LinkedClasses
             /\ \A f : Across(cls[d].interfaces, f) # {} =>
                   Min(Across(cls[d].interfaces, f)) \in DOMAIN cls[d].interfaces
  <2>1. cls[d].interfaces \in Seq(LinkedClasses)
    BY DEF Listings
  <2>2. \A f : Across(cls[d].interfaces, f) # {} =>
                   Min(Across(cls[d].interfaces, f)) \in DOMAIN cls[d].interfaces
    BY <2>1, AcrossFirst DEF Across
  <2> QED
    BY <2>1, <2>2, ListedLinked DEF Placings, LinkedClasses
<1>4. ASSUME NEW d \in Name, NEW f \in [Name -> V] PROVE Finds(d, f) \in V
  BY <1>3
<1>5. ASSUME NEW d \in Name, NEW f, NEW g,
             cls[d].parent # None => f[cls[d].parent] = g[cls[d].parent],
             \A k \in DOMAIN cls[d].interfaces : f[cls[d].interfaces[k]] = g[cls[d].interfaces[k]]
      PROVE  Finds(d, f) = Finds(d, g)
  <2>1. Across(cls[d].interfaces, f) = Across(cls[d].interfaces, g)
    BY <1>5, AcrossSame
  <2> QED
    BY <1>3, <1>5, <2>1
<1> HIDE DEF V, Finds
<1>6. step \in [Name -> [[Name -> V] -> V]] /\ \A d \in Name, f \in [Name -> V] : step[d][f] = Finds(d, f)
  BY <1>4
<1> HIDE DEF step
<1>7. ASSUME NEW i \in DOMAIN order, NEW f \in [Name -> V], NEW g \in [Name -> V],
             \A j \in 1 .. i - 1 : f[order[j]] = g[order[j]]
      PROVE  step[order[i]][f] = step[order[i]][g]
  <2> PICK d \in Name : d = order[i]
    BY <1>2
  <2>1. ASSUME cls[d].parent # None PROVE f[cls[d].parent] = g[cls[d].parent]
    <3>1. PICK j \in 1 .. i - 1 : order[j] = cls[d].parent
      BY <1>1, <2>1, ParentEarlier
    <3> QED
      BY <1>7, <3>1
  <2>2. ASSUME NEW k \in DOMAIN cls[d].interfaces PROVE f[cls[d].interfaces[k]] = g[cls[d].interfaces[k]]
    <3>1. cls[d].interfaces[k] \in Ifs(d)
      BY DEF Ifs, ToSet
    <3>2. Ifs(d) \subseteq {order[j] : j \in 1 .. i - 1}
      BY <1>1, IfsAbove
    <3>3. PICK j \in 1 .. i - 1 : order[j] = cls[d].interfaces[k]
      BY <3>1, <3>2
    <3> QED
      BY <1>7, <3>3
  <2>3. Finds(d, f) = Finds(d, g)
    BY <1>5, <2>1, <2>2
  <2> QED
    BY <1>6, <2>3
<1>8. ASSUME NEW d \in Name, NEW f \in [Name -> V], NEW g \in [Name -> V],
             \A j \in DOMAIN order : f[order[j]] = g[order[j]]
      PROVE  step[d][f] = step[d][g]
  <2>1. \A e \in LinkedClasses : f[e] = g[e]
    BY <1>2, <1>8 DEF ToSet
  <2>2. Finds(d, f) = Finds(d, g)
    BY <1>3, <1>5, <2>1
  <2> QED
    BY <1>6, <2>2
<1>9. None \in V
  BY DEF V
<1>10. PICK u \in [Name -> V] : \A d \in Name : u[d] = step[d][u]
  <2>1. Follows(Name, V, None, order, step)
    BY <1>2, <1>6, <1>7, <1>8, <1>9 DEF Follows
  <2> QED
    BY <2>1, OrderRecursion
<1>11. DOMAIN cls = Name
  BY DEF IInv, TypeOK
<1> DEFINE Is(f) == f = [d \in DOMAIN cls |->
                LET across == {k \in DOMAIN cls[d].interfaces : f[cls[d].interfaces[k]] # None}
                IN  IF cls[d].parent = None THEN None
                    ELSE IF FieldOf(d, name, static) # None THEN FieldOf(d, name, static)
                    ELSE IF static /\ across # {} THEN f[cls[d].interfaces[Min(across)]]
                    ELSE f[cls[d].parent]]
           find == CHOOSE f : Is(f)
<1>12. \A f : Is(f) <=> f = [d \in Name |-> Finds(d, f)]
  BY <1>11 DEF Finds, Across
<1>13. Is(u)
  <2>1. u = [d \in Name |-> Finds(d, u)]
    <3>1. \A d \in Name : u[d] = Finds(d, u)
      BY <1>6, <1>10
    <3>2. u = [d \in Name |-> u[d]]
      OBVIOUS
    <3> QED
      BY <3>1, <3>2
  <2> HIDE DEF Is
  <2> QED
    BY <1>12, <2>1
<1>14. Is(find)
  <2> HIDE DEF Is
  <2> QED
    BY <1>13
<1>15. \A d : LookupField(d, name, static) = find[d]
  BY DEF LookupField
<1> HIDE DEF Is
<1>16. find = [d \in Name |-> Finds(d, find)]
  BY <1>12, <1>14
<1> HIDE DEF find
<1>17. \A d \in Name : find[d] = Finds(d, find)
  BY <1>16
<1>18. Looks(find, name, static)
  BY <1>15, <1>17 DEF Looks, Finds
<1> QED
  BY <1>18

\* What a linked class names is a linked class.
LEMMA LinkedNames ==
    ASSUME IInv, Placings, Listings, Conventional, NEW c \in Linked
    PROVE  /\ file[c].super # None => file[c].super \in Linked
           /\ file[c].interfaces \in Seq(LinkedClasses)
           /\ \A k \in DOMAIN file[c].interfaces : file[c].interfaces[k] \in Linked
           /\ \A f : Across(file[c].interfaces, f) # {} =>
                 /\ Min(Across(file[c].interfaces, f)) \in DOMAIN file[c].interfaces
                 /\ Min(Across(file[c].interfaces, f)) \in Across(file[c].interfaces, f)
<1>1. c \in Class /\ state[c] = "linked"
  BY DEF Linked
<1>2. file[c].super # None => file[c].super \in Linked
  BY <1>1, SuperIsClass DEF Linked
<1>3. file[c].interfaces \in Seq(LinkedClasses)
  BY <1>1, IfsOfClass
<1>4. \A k \in DOMAIN file[c].interfaces : file[c].interfaces[k] \in Class
  <2>1. \A k \in DOMAIN file[c].interfaces : Provides(c, k)
    BY <1>1, NamesAssumption DEF IInv, Whole, Complete, Derives, Name, IsArray
  <2>2. \A k \in DOMAIN file[c].interfaces : file[c].interfaces[k] \in Name
    BY <1>3, ListedLinked DEF LinkedClasses
  <2> QED
    BY <2>1, <2>2 DEF Provides, Name, IsArray
<1>5. \A k \in DOMAIN file[c].interfaces : file[c].interfaces[k] \in LinkedClasses
  BY <1>3, ListedLinked
<1>6. ASSUME NEW f, Across(file[c].interfaces, f) # {}
      PROVE  Min(Across(file[c].interfaces, f)) \in Across(file[c].interfaces, f)
  BY <1>3, <1>6, AcrossFirst
<1>7. \A f : Across(file[c].interfaces, f) \subseteq DOMAIN file[c].interfaces
  BY DEF Across
<1> QED
  BY <1>2, <1>3, <1>4, <1>5, <1>6, <1>7 DEF Linked, LinkedClasses

\* g is what the search order of the language finds, class by class.
Declares(g, name, static) ==
    /\ \A d \in Linked : Declared(d, name, static) = g[d]
    /\ \A d \in Linked :
          g[d] = IF FieldOf(d, name, static) # None THEN FieldOf(d, name, static)
                 ELSE IF Across(file[d].interfaces, g) # {}
                      THEN g[file[d].interfaces[Min(Across(file[d].interfaces, g))]]
                 ELSE IF file[d].super = None THEN None
                 ELSE g[file[d].super]

LEMMA DeclaresExists ==
    ASSUME IInv, Placings, Listings, Ordered, Conventional, NEW name, NEW static \in BOOLEAN
    PROVE  \E g : Declares(g, name, static)
<1>1. PICK order : InOrder(order)
  BY DEF Ordered
<1>2. /\ order \in Seq(Name) /\ IsInjective(order) /\ ToSet(order) = LinkedClasses
      /\ DOMAIN order = 1 .. Len(order) /\ Len(order) \in Nat
  BY <1>1 DEF InOrder
<1> DEFINE V == {None} \cup {FieldOf(d, name, static) : d \in Name}
           Searched(d, f) == IF FieldOf(d, name, static) # None THEN FieldOf(d, name, static)
                           ELSE IF Across(file[d].interfaces, f) # {}
                                THEN f[file[d].interfaces[Min(Across(file[d].interfaces, f))]]
                           ELSE IF file[d].super = None THEN None
                           ELSE f[file[d].super]
           Finds(d, f) == IF d \in Linked THEN Searched(d, f) ELSE None
           step == [d \in Name |-> [f \in [Name -> V] |-> Finds(d, f)]]
<1>3. Linked \subseteq Name /\ Linked \subseteq LinkedClasses
  BY DEF Linked, Name, LinkedClasses
<1>4. ASSUME NEW d \in Name, NEW f \in [Name -> V] PROVE Finds(d, f) \in V
  <2>1. CASE d \in Linked
    <3>1. /\ file[d].super # None => file[d].super \in Name
          /\ \A k \in DOMAIN file[d].interfaces : file[d].interfaces[k] \in Name
          /\ Across(file[d].interfaces, f) # {} => Min(Across(file[d].interfaces, f)) \in DOMAIN file[d].interfaces
      BY <1>3, <2>1, LinkedNames
    <3> QED
      BY <2>1, <3>1
  <2>2. CASE d \notin Linked
    BY <2>2
  <2> QED
    BY <2>1, <2>2
<1>5. ASSUME NEW d \in Linked, NEW f, NEW g,
             file[d].super # None => f[file[d].super] = g[file[d].super],
             \A k \in DOMAIN file[d].interfaces : f[file[d].interfaces[k]] = g[file[d].interfaces[k]]
      PROVE  Searched(d, f) = Searched(d, g)
  <2>1. Across(file[d].interfaces, f) = Across(file[d].interfaces, g)
    BY <1>5, AcrossSame
  <2>2. Across(file[d].interfaces, f) # {} => Min(Across(file[d].interfaces, f)) \in DOMAIN file[d].interfaces
    BY LinkedNames
  <2> QED
    BY <1>5, <2>1, <2>2
<1> HIDE DEF V, Searched
<1>6. step \in [Name -> [[Name -> V] -> V]] /\ \A d \in Name, f \in [Name -> V] : step[d][f] = Finds(d, f)
  BY <1>4
<1> HIDE DEF step
<1>7. ASSUME NEW i \in DOMAIN order, NEW f \in [Name -> V], NEW g \in [Name -> V],
             \A j \in 1 .. i - 1 : f[order[j]] = g[order[j]]
      PROVE  step[order[i]][f] = step[order[i]][g]
  <2> PICK d \in Name : d = order[i]
    BY <1>2
  <2>1. CASE d \in Linked
    <3>1. Below(d) \subseteq {order[j] : j \in 1 .. i - 1} /\ ~IsArray(d)
      BY <1>1, <2>1, NamesAssumption DEF InOrder, Linked, IsArray
    <3>2. file[d].super # None => file[d].super \in {order[j] : j \in 1 .. i - 1}
      BY <3>1 DEF Below
    <3>3. \A k \in DOMAIN file[d].interfaces : file[d].interfaces[k] \in {order[j] : j \in 1 .. i - 1}
      BY <3>1 DEF Below, ToSet
    <3>4. \A e \in {order[j] : j \in 1 .. i - 1} : f[e] = g[e]
      BY <1>7
    <3>5. Searched(d, f) = Searched(d, g)
      BY <1>5, <2>1, <3>2, <3>3, <3>4
    <3> QED
      BY <1>6, <3>5
  <2>2. CASE d \notin Linked
    BY <1>6, <2>2
  <2> QED
    BY <2>1, <2>2
<1>8. ASSUME NEW d \in Name, NEW f \in [Name -> V], NEW g \in [Name -> V],
             \A j \in DOMAIN order : f[order[j]] = g[order[j]]
      PROVE  step[d][f] = step[d][g]
  <2>1. \A e \in LinkedClasses : f[e] = g[e]
    BY <1>2, <1>8 DEF ToSet
  <2>2. CASE d \in Linked
    <3>1. Searched(d, f) = Searched(d, g)
      BY <1>3, <1>5, <2>1, <2>2, LinkedNames
    <3> QED
      BY <1>6, <3>1
  <2>3. CASE d \notin Linked
    BY <1>6, <2>3
  <2> QED
    BY <2>2, <2>3
<1>9. None \in V
  BY DEF V
<1>10. PICK u \in [Name -> V] : \A d \in Name : u[d] = step[d][u]
  <2>1. Follows(Name, V, None, order, step)
    BY <1>2, <1>6, <1>7, <1>8, <1>9 DEF Follows
  <2> QED
    BY <2>1, OrderRecursion
<1> DEFINE Is(f) == f = [d \in Linked |->
                LET across == {k \in DOMAIN file[d].interfaces : f[file[d].interfaces[k]] # None}
                IN  IF FieldOf(d, name, static) # None THEN FieldOf(d, name, static)
                    ELSE IF across # {} THEN f[file[d].interfaces[Min(across)]]
                    ELSE IF file[d].super = None THEN None
                    ELSE f[file[d].super]]
           find == CHOOSE f : Is(f)
           w == [d \in Linked |-> u[d]]
<1>11. \A f : Is(f) <=> f = [d \in Linked |-> Searched(d, f)]
  BY DEF Searched, Across
<1>12. ASSUME NEW d \in Linked PROVE w[d] = Searched(d, w)
  <2>1. \A e \in Linked : w[e] = u[e]
    OBVIOUS
  <2> HIDE DEF w
  <2>2. Searched(d, w) = Searched(d, u)
    BY <1>5, <2>1, LinkedNames
  <2>3. u[d] = Searched(d, u)
    BY <1>3, <1>6, <1>10
  <2> QED
    BY <2>1, <2>2, <2>3
<1>13. Is(w)
  <2>1. DOMAIN w = Linked /\ w = [d \in Linked |-> w[d]]
    OBVIOUS
  <2> HIDE DEF Is, w
  <2>2. w = [d \in Linked |-> Searched(d, w)]
    BY <1>12, <2>1
  <2> QED
    BY <1>11, <2>2
<1>14. Is(find)
  <2> HIDE DEF Is, w
  <2> QED
    BY <1>13
<1>15. \A d : Declared(d, name, static) = find[d]
  BY DEF Declared
<1> HIDE DEF Is
<1>16. find = [d \in Linked |-> Searched(d, find)]
  BY <1>11, <1>14
<1> HIDE DEF find
<1>17. \A d \in Linked : find[d] = Searched(d, find)
  BY <1>16
<1>18. Declares(find, name, static)
  BY <1>15, <1>17 DEF Declares, Searched
<1> QED
  BY <1>18

\* java.lang.Object.
LEMMA ObjectFacts ==
    ASSUME IInv, Listings
    PROVE  /\ file[Object].super = None /\ file[Object].interfaces = <<>>
           /\ \A name, static : FieldOf(Object, name, static) = None
           /\ Object \in Linked => /\ cls[Object].parent = None /\ Ifs(Object) = {} /\ ~IsInterface(Object)
<1>1. file \in World /\ file[Object].super = None /\ file[Object].interfaces = <<>> /\ file[Object].fields = <<>>
  BY LibraryAssumption DEF IInv, TypeOK
<1>2. \A name, static : FieldOf(Object, name, static) = None
  BY <1>1 DEF FieldOf
<1>3. ASSUME Object \in Linked
      PROVE  cls[Object].parent = None /\ Ifs(Object) = {} /\ ~IsInterface(Object)
  <2>1. Object \in Class /\ state[Object] = "linked" /\ Object \in Name /\ ~IsArray(Object)
    BY <1>3, NamesAssumption DEF Linked, Name, IsArray
  <2>2. Headed(Object) /\ Extends(Object)
    BY <2>1 DEF IInv, Whole, Complete, Derives
  <2>3. "interface" \notin file[Object].flags
    BY <1>1, <2>2 DEF Headed, HeaderAllowed
  <2>4. ~IsInterface(Object)
    BY <2>2, <2>3 DEF Headed, IsInterface
  <2>5. Ifs(Object) = {}
    <3>1. Ifs(Object) = (IF file[Object].super = None THEN {} ELSE Ifs(file[Object].super))
                    \cup UNION {{file[Object].interfaces[k]} \cup Ifs(file[Object].interfaces[k]) :
                                    k \in DOMAIN file[Object].interfaces}
      BY <2>1, IfsOfClass
    <3>2. DOMAIN file[Object].interfaces = {}
      BY <1>1
    <3> QED
      BY <1>1, <3>1, <3>2
  <2> QED
    BY <1>1, <2>2, <2>4, <2>5 DEF Extends
<1> QED
  BY <1>1, <1>2, <1>3

\* A class and the one above it.
LEMMA Heritage ==
    ASSUME IInv, Placings, Listings, Ordered, Conventional, NEW c \in Linked, c # Object
    PROVE  /\ file[c].super \in Linked /\ file[c].super # None /\ cls[c].parent = file[c].super
           /\ ToSet(Chain(c)) = {c} \cup ToSet(Chain(file[c].super))
           /\ \A i : i \in Ifs(c) <=>
                 \/ i \in Ifs(file[c].super)
                 \/ \E k \in DOMAIN file[c].interfaces :
                       i = file[c].interfaces[k] \/ i \in Ifs(file[c].interfaces[k])
<1>1. c \in Class /\ state[c] = "linked" /\ c \in LinkedClasses
  BY DEF Linked, LinkedClasses, Name
<1>2. file[c].super # None
  BY DEF Conventional
<1>3. file[c].super \in Linked /\ cls[c].parent = file[c].super
  BY <1>1, <1>2, SuperIsClass DEF Linked
<1>4. ToSet(Chain(c)) = {c} \cup ToSet(Chain(file[c].super))
  BY <1>1, <1>2, <1>3, ChainSets
<1>5. Ifs(c) = (IF file[c].super = None THEN {} ELSE Ifs(file[c].super))
                    \cup UNION {{file[c].interfaces[k]} \cup Ifs(file[c].interfaces[k]) :
                                    k \in DOMAIN file[c].interfaces}
  BY <1>1, IfsOfClass
<1> QED
  BY <1>2, <1>3, <1>4, <1>5

\* A claim about all linked classes that fails at one fails at one above which it holds.
LEMMA Topmost ==
    ASSUME IInv, Placings, Listings, Ordered, Conventional, NEW Bad \in SUBSET Linked, Bad # {}
    PROVE  \E c \in Bad : /\ c # Object => file[c].super \in Linked \ Bad
                          /\ \A i \in Ifs(c) : i \notin Bad
                          /\ \A k \in DOMAIN file[c].interfaces : file[c].interfaces[k] \in Linked \ Bad
<1>1. PICK order : InOrder(order)
  BY DEF Ordered
<1>2. Bad \in SUBSET LinkedClasses
  BY DEF Linked, LinkedClasses, Name
<1>3. PICK k \in DOMAIN order :
              /\ order[k] \in Bad /\ Below(order[k]) \subseteq {order[j] : j \in 1 .. k - 1}
              /\ {order[j] : j \in 1 .. k - 1} \subseteq LinkedClasses \ Bad
  BY <1>1, <1>2, Foremost
<1> PICK c : c = order[k]
  OBVIOUS
<1>4. Ifs(c) \subseteq {order[j] : j \in 1 .. k - 1}
  BY <1>1, IfsAbove
<1>5. c \in Linked /\ ~IsArray(c)
  BY <1>3, NamesAssumption DEF Linked, IsArray
<1>6. c # Object => file[c].super \in Linked /\ file[c].super \in Below(c)
  BY <1>5, Heritage DEF Below
<1>7. \A n \in DOMAIN file[c].interfaces : file[c].interfaces[n] \in Linked /\ file[c].interfaces[n] \in Below(c)
  BY <1>5, LinkedNames DEF Below, ToSet
<1> QED
  BY <1>3, <1>4, <1>6, <1>7

\* The interfaces of a class: they are interfaces, right below java.lang.Object.
LEMMA InterfacesOf ==
    ASSUME IInv, Placings, Listings, Ordered, Conventional, NEW c \in Linked, NEW i \in Ifs(c)
    PROVE  /\ i \in Linked /\ i # Object /\ IsInterface(i)
           /\ file[i].super = Object /\ cls[i].parent = Object /\ Object \in Linked
           /\ ToSet(Chain(i)) = {i, Object} /\ Ifs(i) \subseteq Ifs(c)
<1>1. PICK order : InOrder(order)
  BY DEF Ordered
<1>2. PICK n \in DOMAIN order : order[n] = c
  <2>1. c \in ToSet(order)
    BY <1>1 DEF InOrder, Linked, LinkedClasses, Name
  <2> QED
    BY <2>1 DEF ToSet
<1>3. IsInterface(i) /\ Ifs(i) \subseteq Ifs(c)
  BY <1>1, <1>2, IfsAbove
<1>4. i \in Linked
  <2> DEFINE Bad == {d \in Linked : ~(Ifs(d) \subseteq Linked)}
  <2>1. ASSUME Bad # {} PROVE FALSE
    <3>1. PICK d \in Bad : /\ d # Object => file[d].super \in Linked \ Bad
                           /\ \A k \in DOMAIN file[d].interfaces : file[d].interfaces[k] \in Linked \ Bad
      <4>1. Bad \in SUBSET Linked
        OBVIOUS
      <4> HIDE DEF Bad
      <4> QED
        BY <2>1, <4>1, Topmost
    <3>2. d # Object
      BY <3>1, ObjectFacts
    <3>3. d \in Linked /\ ~(Ifs(d) \subseteq Linked)
      BY <3>1
    <3>4. \A j : j \in Ifs(d) <=>
                 \/ j \in Ifs(file[d].super)
                 \/ \E k \in DOMAIN file[d].interfaces :
                       j = file[d].interfaces[k] \/ j \in Ifs(file[d].interfaces[k])
      BY <3>2, <3>3, Heritage
    <3>5. Ifs(file[d].super) \subseteq Linked
      BY <3>1, <3>2
    <3>6. \A k \in DOMAIN file[d].interfaces : file[d].interfaces[k] \in Linked /\ Ifs(file[d].interfaces[k]) \subseteq Linked
      BY <3>1
    <3> QED
      BY <3>3, <3>4, <3>5, <3>6
  <2> QED
    BY <2>1
<1>5. Object \in Linked => ~IsInterface(Object)
  BY ObjectFacts
<1>6. i # Object
  BY <1>3, <1>4, <1>5
<1>7. /\ file[i].super \in Linked /\ file[i].super # None /\ cls[i].parent = file[i].super
      /\ ToSet(Chain(i)) = {i} \cup ToSet(Chain(file[i].super))
  BY <1>4, <1>6, Heritage
<1> PICK p : p = file[i].super
  OBVIOUS
<1>8. p = Object
  <2>1. SuperAllowed(i, p)
    BY <1>4, <1>7, NamesAssumption DEF IInv, Whole, Complete, Derives, Extends, Linked, Name, IsArray
  <2>2. cls[p].parent = None
    BY <1>3, <2>1 DEF SuperAllowed
  <2> QED
    BY <1>7, <2>2, Heritage
<1>9. ToSet(Chain(Object)) = {Object}
  <2>1. Object \in LinkedClasses /\ cls[Object].parent = None
    BY <1>7, <1>8, ObjectFacts DEF Linked, LinkedClasses, Name
  <2> QED
    BY <2>1, ChainSets
<1> QED
  BY <1>3, <1>4, <1>6, <1>7, <1>8, <1>9

\* Where the fields of a class come from.
Sources(c) == ToSet(Chain(c)) \cup Ifs(c)

\* What a class takes over from the one above it, and from its interfaces.
LEMMA SourcesOf ==
    ASSUME IInv, Placings, Listings, Ordered, Conventional, NEW c \in Linked
    PROVE  /\ c \in Sources(c)
           /\ c # Object => Sources(file[c].super) \subseteq Sources(c)
           /\ \A i \in Ifs(c) : Sources(i) \subseteq Sources(c) \cup {Object}
                                /\ \A d \in Sources(i) : d = Object \/ d \in Ifs(c)
           /\ \A k \in DOMAIN file[c].interfaces : c # Object /\ file[c].interfaces[k] \in Ifs(c)
<1>1. c \in ToSet(Chain(c))
  BY ChainSets DEF Linked, LinkedClasses, Name
<1>2. c # Object => Sources(file[c].super) \subseteq Sources(c)
  BY Heritage DEF Sources
<1>3. ASSUME NEW i \in Ifs(c) PROVE \A d \in Sources(i) : d = Object \/ d \in Ifs(c)
  BY InterfacesOf DEF Sources
<1>4. ASSUME NEW k \in DOMAIN file[c].interfaces PROVE c # Object /\ file[c].interfaces[k] \in Ifs(c)
  <2>1. c # Object
    BY ObjectFacts
  <2> QED
    BY <2>1, Heritage
<1> QED
  BY <1>1, <1>2, <1>3, <1>4 DEF Sources

\* What is found, is the field of one of them.
LEMMA DeclaredFrom ==
    ASSUME IInv, Placings, Listings, Ordered, Conventional, NEW name, NEW static \in BOOLEAN,
           NEW g, Declares(g, name, static), NEW c \in Linked, g[c] # None
    PROVE  \E d \in Sources(c) : FieldOf(d, name, static) # None /\ g[c] = FieldOf(d, name, static)
<1> DEFINE From(e) == \E d \in Sources(e) : FieldOf(d, name, static) # None /\ g[e] = FieldOf(d, name, static)
           Bad == {e \in Linked : g[e] # None /\ ~From(e)}
<1>1. ASSUME Bad # {} PROVE FALSE
  <2>1. PICK e \in Bad : /\ e # Object => file[e].super \in Linked \ Bad
                         /\ \A k \in DOMAIN file[e].interfaces : file[e].interfaces[k] \in Linked \ Bad
    <3>1. Bad \in SUBSET Linked
      OBVIOUS
    <3> HIDE DEF Bad
    <3> QED
      BY <1>1, <3>1, Topmost
  <2>2. e \in Linked /\ g[e] # None /\ ~From(e)
    OBVIOUS
  <2>3. g[e] = IF FieldOf(e, name, static) # None THEN FieldOf(e, name, static)
                 ELSE IF Across(file[e].interfaces, g) # {}
                      THEN g[file[e].interfaces[Min(Across(file[e].interfaces, g))]]
                 ELSE IF file[e].super = None THEN None
                 ELSE g[file[e].super]
    BY <2>2 DEF Declares
  <2>4. FieldOf(e, name, static) = None
    BY <2>2, <2>3, SourcesOf
  <2>5. ASSUME Across(file[e].interfaces, g) # {} PROVE FALSE
    <3>1. PICK k \in DOMAIN file[e].interfaces : g[e] = g[file[e].interfaces[k]]
      BY <2>2, <2>3, <2>4, <2>5, LinkedNames
    <3>2. file[e].interfaces[k] \in Linked /\ From(file[e].interfaces[k])
      BY <2>1, <2>2, <3>1
    <3>3. PICK d \in Sources(file[e].interfaces[k]) :
                FieldOf(d, name, static) # None /\ g[e] = FieldOf(d, name, static)
      BY <3>1, <3>2
    <3>4. d # Object
      BY <3>3, ObjectFacts
    <3>5. d \in Sources(e)
      BY <2>2, <3>1, <3>3, <3>4, SourcesOf DEF Sources
    <3> QED
      BY <2>2, <3>3, <3>5
  <2>6. file[e].super # None /\ g[e] = g[file[e].super]
    BY <2>2, <2>3, <2>4, <2>5
  <2>7. e # Object
    BY <2>6, ObjectFacts
  <2>8. From(file[e].super)
    BY <2>1, <2>2, <2>6, <2>7
  <2> QED
    BY <2>2, <2>6, <2>7, <2>8, SourcesOf
<1> QED
  BY <1>1

\* A field of an interface hides none without another in its place.
LEMMA DeclaredSome ==
    ASSUME IInv, Placings, Listings, Ordered, Conventional, NEW name, NEW static \in BOOLEAN,
           NEW g, Declares(g, name, static), NEW c \in Linked, NEW i \in Ifs(c), FieldOf(i, name, static) # None
    PROVE  g[c] # None
<1> DEFINE Has(e) == \E d \in Ifs(e) : FieldOf(d, name, static) # None
           Bad == {e \in Linked : Has(e) /\ g[e] = None}
<1>1. ASSUME Bad # {} PROVE FALSE
  <2>1. PICK e \in Bad : /\ e # Object => file[e].super \in Linked \ Bad
                         /\ \A k \in DOMAIN file[e].interfaces : file[e].interfaces[k] \in Linked \ Bad
    <3>1. Bad \in SUBSET Linked
      OBVIOUS
    <3> HIDE DEF Bad
    <3> QED
      BY <1>1, <3>1, Topmost
  <2>2. e \in Linked /\ g[e] = None /\ Has(e)
    OBVIOUS
  <2>3. e # Object
    BY <2>2, ObjectFacts
  <2>4. g[e] = IF FieldOf(e, name, static) # None THEN FieldOf(e, name, static)
                 ELSE IF Across(file[e].interfaces, g) # {}
                      THEN g[file[e].interfaces[Min(Across(file[e].interfaces, g))]]
                 ELSE IF file[e].super = None THEN None
                 ELSE g[file[e].super]
    BY <2>2 DEF Declares
  <2>5. Across(file[e].interfaces, g) = {}
    <3>1. Across(file[e].interfaces, g) # {} => g[file[e].interfaces[Min(Across(file[e].interfaces, g))]] # None
      BY <2>2, LinkedNames DEF Across
    <3> QED
      BY <2>2, <2>4, <3>1
  <2>6. g[file[e].super] = None
    BY <2>2, <2>3, <2>4, <2>5, Heritage
  <2>7. ~Has(file[e].super)
    BY <2>1, <2>3, <2>6
  <2>8. \A k \in DOMAIN file[e].interfaces : g[file[e].interfaces[k]] = None
    BY <2>5 DEF Across
  <2>9. \A k \in DOMAIN file[e].interfaces : ~Has(file[e].interfaces[k]) /\ file[e].interfaces[k] \in Linked
    BY <2>1, <2>8
  <2>10. \A k \in DOMAIN file[e].interfaces : FieldOf(file[e].interfaces[k], name, static) = None
    BY <2>8, <2>9 DEF Declares
  <2> QED
    BY <2>2, <2>3, <2>7, <2>9, <2>10, Heritage
<1> QED
  BY <1>1

LEMMA LooksFrom ==
    ASSUME IInv, Placings, Listings, Ordered, Conventional, NEW name, NEW static \in BOOLEAN,
           NEW f, Looks(f, name, static), NEW c \in Linked, f[c] # None
    PROVE  \E d \in Sources(c) : FieldOf(d, name, static) # None /\ f[c] = FieldOf(d, name, static)
<1> DEFINE From(e) == \E d \in Sources(e) : FieldOf(d, name, static) # None /\ f[e] = FieldOf(d, name, static)
           Bad == {e \in Linked : f[e] # None /\ ~From(e)}
<1>1. ASSUME Bad # {} PROVE FALSE
  <2>1. PICK e \in Bad : /\ e # Object => file[e].super \in Linked \ Bad
                         /\ \A i \in Ifs(e) : i \notin Bad
    <3>1. Bad \in SUBSET Linked
      OBVIOUS
    <3> HIDE DEF Bad
    <3> QED
      BY <1>1, <3>1, Topmost
  <2>2. e \in Linked /\ f[e] # None /\ ~From(e) /\ e \in Name
    BY DEF Linked, Name
  <2>3. f[e] = IF cls[e].parent = None THEN None
                 ELSE IF FieldOf(e, name, static) # None THEN FieldOf(e, name, static)
                 ELSE IF static /\ Across(cls[e].interfaces, f) # {}
                      THEN f[cls[e].interfaces[Min(Across(cls[e].interfaces, f))]]
                 ELSE f[cls[e].parent]
    BY <2>2 DEF Looks
  <2>4. FieldOf(e, name, static) = None /\ cls[e].parent # None
    BY <2>2, <2>3, SourcesOf
  <2>5. e # Object /\ cls[e].parent = file[e].super
    BY <2>2, <2>4, Heritage, ObjectFacts
  <2>6. ASSUME Across(cls[e].interfaces, f) # {}, static PROVE FALSE
    <3>1. PICK k \in DOMAIN cls[e].interfaces : f[e] = f[cls[e].interfaces[k]]
      <4>1. Min(Across(cls[e].interfaces, f)) \in DOMAIN cls[e].interfaces
        BY <2>2, <2>6, AcrossFirst DEF Across, Listings
      <4> QED
        BY <2>3, <2>4, <2>6, <4>1
    <3> PICK i : i = cls[e].interfaces[k]
      OBVIOUS
    <3>2. i \in Ifs(e)
      BY DEF Ifs, ToSet
    <3>3. From(i)
      BY <2>1, <2>2, <3>1, <3>2, InterfacesOf
    <3>4. PICK d \in Sources(i) : FieldOf(d, name, static) # None /\ f[e] = FieldOf(d, name, static)
      BY <3>1, <3>3
    <3>5. d # Object
      BY <3>4, ObjectFacts
    <3>6. d \in Sources(e)
      BY <2>2, <3>2, <3>4, <3>5, SourcesOf DEF Sources
    <3> QED
      BY <2>2, <3>4, <3>6
  <2>7. f[e] = f[file[e].super]
    BY <2>3, <2>4, <2>5, <2>6
  <2>8. From(file[e].super)
    BY <2>1, <2>2, <2>5, <2>7
  <2> QED
    BY <2>2, <2>5, <2>7, <2>8, SourcesOf
<1> QED
  BY <1>1

\* The fields of an interface are static.
LEMMA InterfaceFields ==
    ASSUME IInv, NEW i \in Linked, IsInterface(i), NEW name
    PROVE  FieldOf(i, name, FALSE) = None
<1>1. Headed(i) /\ MembersAllowed(i)
  BY NamesAssumption DEF IInv, Whole, Complete, Derives, Linked, Name, IsArray
<1>2. "interface" \in file[i].flags
  BY <1>1 DEF IsInterface, Headed
<1>3. \A k \in DOMAIN file[i].fields : "static" \in file[i].fields[k].flags
  BY <1>1, <1>2 DEF MembersAllowed, FieldAllowed
<1>4. {k \in DOMAIN file[i].fields : /\ file[i].fields[k].name = name
                                     /\ ("static" \in file[i].fields[k].flags) = FALSE} = {}
  BY <1>3
<1> QED
  BY <1>4 DEF FieldOf

\* m is the first of the lists that has something of P, and has it in front.
FirstWith(m, P, T, s, lists) ==
    /\ s \in Seq(T) /\ lists \in Seq(Seq(T)) /\ ToSet(s) \intersect P = {}
    /\ \A k \in DOMAIN lists : lists[k] # <<>> /\ (lists[k][1] \notin P => ToSet(lists[k]) \intersect P = {})
    /\ m \in DOMAIN lists /\ lists[m][1] \in P /\ \A j \in 1 .. m - 1 : lists[j][1] \notin P

LEMMA CollectingFirst ==
    ASSUME NEW m, NEW P, NEW T, NEW s, NEW lists, FirstWith(m, P, T, s, lists)
    PROVE  \E q \in DOMAIN CollectAll(s, lists) :
              /\ CollectAll(s, lists)[q] = lists[m][1]
              /\ \A i \in 1 .. q - 1 : CollectAll(s, lists)[i] \notin P
<1>1. s \in Seq(T) /\ lists \in Seq(Seq(T)) /\ \A k \in DOMAIN lists : lists[k] # <<>>
  BY DEF FirstWith
<1>2. \A X : (/\ ToSet(s) \intersect X = {}
              /\ \A k \in DOMAIN lists : lists[k][1] \notin X => ToSet(lists[k]) \intersect X = {})
                => \A n \in DOMAIN lists :
                      lists[n][1] \in X /\ (\A j \in 1 .. n - 1 : lists[j][1] \notin X) =>
                          \E q \in DOMAIN CollectAll(s, lists) :
                             /\ CollectAll(s, lists)[q] = lists[n][1]
                             /\ \A i \in 1 .. q - 1 : CollectAll(s, lists)[i] \notin X
  BY <1>1, CollectingAll
<1> QED
  BY <1>2 DEF FirstWith

\* If nothing is found in an interface the superclass has, the first interface in the list
\* of a class in which there is something is the first it names itself.
LEMMA OwnFirst ==
    ASSUME IInv, Placings, Listings, NEW c \in Class, state[c] = "linked", file[c].super # None, NEW f,
           \A i \in Ifs(file[c].super) : f[i] = None,
           \A k \in DOMAIN file[c].interfaces :
              f[file[c].interfaces[k]] = None => \A i \in Ifs(file[c].interfaces[k]) : f[i] = None,
           Across(file[c].interfaces, f) # {}
    PROVE  /\ Across(cls[c].interfaces, f) # {}
           /\ cls[c].interfaces[Min(Across(cls[c].interfaces, f))]
                = file[c].interfaces[Min(Across(file[c].interfaces, f))]
<1>1. ClassPath(file) /\ Extends(c) /\ \A k \in DOMAIN file[c].interfaces : Provides(c, k)
  <2>1. c \in Name /\ ~IsArray(c) /\ ClassPath(file)
    BY NamesAssumption, WorldAssumption DEF IInv, TypeOK, Name, IsArray
  <2> QED
    BY <2>1 DEF IInv, Whole, Complete, Derives
<1>2. /\ cls[c].interfaces = Interfaces(c) /\ \A d \in Name : cls[d].interfaces \in Seq(LinkedClasses)
      /\ c \in Name
  BY DEF Listings, Name
<1> PICK L, s, lists, own, all : /\ L = LinkedClasses /\ s = Collect(<<>>, Inherited(c)) /\ lists = Lists(c)
                                 /\ own = file[c].interfaces /\ all = cls[c].interfaces
  OBVIOUS
<1>3. /\ all = CollectAll(s, lists) /\ s \in Seq(L) /\ lists \in Seq(Seq(L)) /\ all \in Seq(L)
      /\ \A k \in DOMAIN lists : lists[k] # <<>> /\ lists[k][1] = own[k] /\ ToSet(lists[k]) = {own[k]} \cup Ifs(own[k])
      /\ ToSet(s) = ToSet(Inherited(c)) /\ DOMAIN lists = DOMAIN own /\ own \in Seq(L)
  BY <1>1, <1>2, ListsMade, MadeFrom DEF Ifs
<1>4. ToSet(s) = Ifs(file[c].super)
  BY <1>3 DEF Inherited, Ifs
<1> DEFINE P == {i \in L : f[i] # None}
<1>5. ToSet(s) \intersect P = {}
  BY <1>4
<1>6. ASSUME NEW k \in DOMAIN lists PROVE /\ own[k] \in L /\ (own[k] \in P <=> f[own[k]] # None)
                                          /\ lists[k][1] \notin P => ToSet(lists[k]) \intersect P = {}
  <2>1. own[k] \in L /\ lists[k][1] = own[k] /\ ToSet(lists[k]) = {own[k]} \cup Ifs(own[k]) /\ k \in DOMAIN own
    <3>1. k \in DOMAIN own /\ own \in Seq(L)
      BY <1>3
    <3>2. own[k] \in L
      BY <3>1
    <3> QED
      BY <1>3, <3>1, <3>2
  <2>2. f[own[k]] = None => \A i \in Ifs(own[k]) : f[i] = None
    BY <2>1
  <2> QED
    BY <2>1, <2>2
<1> PICK m : m = Min(Across(own, f))
  OBVIOUS
<1>7. m \in DOMAIN lists /\ f[own[m]] # None /\ \A k \in Across(own, f) : m =< k
  <2>1. m \in Across(own, f) /\ \A k \in Across(own, f) : m =< k
    BY <1>3, AcrossFirst
  <2> QED
    BY <1>3, <2>1 DEF Across
<1>8. ASSUME NEW j \in 1 .. m - 1 PROVE lists[j][1] \notin P
  <2>1. j \in DOMAIN lists /\ ~(m =< j)
    BY <1>3, <1>7
  <2>2. j \notin Across(own, f)
    BY <1>7, <2>1
  <2> QED
    BY <1>3, <1>6, <2>1, <2>2 DEF Across
<1>9. lists[m][1] \in P
  BY <1>3, <1>6, <1>7
<1> HIDE DEF P
<1>10. PICK q \in DOMAIN all : all[q] = lists[m][1] /\ \A i \in 1 .. q - 1 : all[i] \notin P
  <2>1. FirstWith(m, P, L, s, lists)
    BY <1>3, <1>5, <1>6, <1>7, <1>8, <1>9 DEF FirstWith
  <2>2. \E q \in DOMAIN CollectAll(s, lists) :
            /\ CollectAll(s, lists)[q] = lists[m][1]
            /\ \A i \in 1 .. q - 1 : CollectAll(s, lists)[i] \notin P
    BY <2>1, CollectingFirst
  <2>3. all = CollectAll(s, lists)
    BY <1>3
  <2> QED
    BY <2>2, <2>3
<1>11. q \in Across(all, f) /\ all[q] = own[m]
  BY <1>3, <1>7, <1>10 DEF Across
<1> PICK n : n = Min(Across(all, f))
  OBVIOUS
<1>12. n \in DOMAIN all /\ f[all[n]] # None /\ n =< q
  <2>1. n \in Across(all, f) /\ n =< q
    BY <1>3, <1>11, AcrossFirst
  <2> QED
    BY <2>1 DEF Across
<1>13. all[n] \in P
  BY <1>3, <1>12 DEF P
<1>14. n = q
  <2>1. n \in Nat /\ n >= 1 /\ q \in Nat
    BY <1>3, <1>12
  <2> QED
    BY <1>10, <1>12, <1>13, <2>1
<1> QED
  BY <1>11, <1>14

\* A class below one that has two such fields above it has them too.
LEMMA AmbiguousBelow ==
    ASSUME IInv, Placings, Listings, Ordered, Conventional, NEW c \in Linked, c # Object, NEW name,
           FieldOf(c, name, TRUE) = None, Ambiguous(file[c].super, name)
    PROVE  Ambiguous(c, name)
<1> PICK p : p = file[c].super
  OBVIOUS
<1>1. p \in Linked /\ p # None /\ \A i \in Ifs(p) : i \in Ifs(c)
  BY Heritage
<1>2. /\ file[p].super # None
      /\ \E i \in Ifs(file[p].super) : \E d \in Sources(p) \ {p, i} :
            FieldOf(i, name, TRUE) # None /\ FieldOf(d, name, TRUE) # None
  BY DEF Ambiguous, Ifs, Sources
<1>3. PICK i \in Ifs(file[p].super), d \in Sources(p) :
            d # i /\ FieldOf(i, name, TRUE) # None /\ FieldOf(d, name, TRUE) # None
  BY <1>2
<1>4. p # Object
  BY <1>2, ObjectFacts
<1>5. i \in Ifs(p)
  BY <1>1, <1>4, Heritage
<1>6. d \in Sources(c) \ {c, i}
  BY <1>3, SourcesOf
<1> QED
  BY <1>1, <1>3, <1>5, <1>6 DEF Ambiguous, Ifs, Sources

\* Nothing is found in an interface that has nothing in those it extends.
LEMMA NothingAbove ==
    ASSUME IInv, Placings, Listings, Ordered, Conventional, NEW name,
           NEW f, Looks(f, name, TRUE), NEW c \in Linked, NEW i \in Ifs(c), f[i] = None
    PROVE  \A j \in Ifs(i) : f[j] = None
<1>1. i \in Linked /\ i \in Name /\ cls[i].parent = Object /\ Object # None
  BY InterfacesOf, NamesAssumption DEF Linked, Name
<1>2. f[i] = IF FieldOf(i, name, TRUE) # None THEN FieldOf(i, name, TRUE)
             ELSE IF Across(cls[i].interfaces, f) # {}
                  THEN f[cls[i].interfaces[Min(Across(cls[i].interfaces, f))]]
             ELSE f[cls[i].parent]
  BY <1>1 DEF Looks
<1>3. Across(cls[i].interfaces, f) = {}
  <2>1. Across(cls[i].interfaces, f) # {} => f[cls[i].interfaces[Min(Across(cls[i].interfaces, f))]] # None
    BY <1>1, AcrossFirst DEF Across, Listings
  <2> QED
    BY <1>2, <2>1
<1> QED
  BY <1>3 DEF Across, Ifs, ToSet

\* The two searches find the same.
LEMMA SameFound ==
    ASSUME IInv, Placings, Listings, Ordered, Conventional, NEW name, NEW static \in BOOLEAN,
           NEW f, Looks(f, name, static), NEW g, Declares(g, name, static), NEW c \in Linked
    PROVE  f[c] = g[c] \/ (static /\ Ambiguous(c, name))
<1> DEFINE Bad == {e \in Linked : f[e] # g[e] /\ ~(static /\ Ambiguous(e, name))}
<1>1. ASSUME NEW e \in Bad, e # Object => file[e].super \in Linked \ Bad, \A i \in Ifs(e) : i \notin Bad
      PROVE  FALSE
  <2>1. e \in Linked /\ f[e] # g[e] /\ ~(static /\ Ambiguous(e, name)) /\ e \in Name
    BY DEF Linked, Name
  <2>2. f[e] = IF cls[e].parent = None THEN None
                 ELSE IF FieldOf(e, name, static) # None THEN FieldOf(e, name, static)
                 ELSE IF static /\ Across(cls[e].interfaces, f) # {}
                      THEN f[cls[e].interfaces[Min(Across(cls[e].interfaces, f))]]
                 ELSE f[cls[e].parent]
    BY <2>1 DEF Looks
  <2>3. g[e] = IF FieldOf(e, name, static) # None THEN FieldOf(e, name, static)
                 ELSE IF Across(file[e].interfaces, g) # {}
                      THEN g[file[e].interfaces[Min(Across(file[e].interfaces, g))]]
                 ELSE IF file[e].super = None THEN None
                 ELSE g[file[e].super]
    BY <2>1 DEF Declares
  <2>4. e # Object
    <3>1. ASSUME e = Object PROVE FALSE
      <4>1. cls[e].parent = None /\ file[e].super = None /\ DOMAIN file[e].interfaces = {}
            /\ FieldOf(e, name, static) = None
        BY <2>1, <3>1, ObjectFacts
      <4>2. Across(file[e].interfaces, g) = {}
        BY <4>1 DEF Across
      <4> QED
        BY <2>1, <2>2, <2>3, <4>1, <4>2
    <3> QED
      BY <3>1
  <2> PICK p : p = file[e].super
    OBVIOUS
  <2>5. p \in Linked /\ p # None /\ cls[e].parent = p /\ p \notin Bad
    BY <1>1, <2>1, <2>4, Heritage
  <2>6. FieldOf(e, name, static) = None
    BY <2>1, <2>2, <2>3, <2>5
  <2>7. f[p] = g[p]
    BY <2>1, <2>4, <2>5, <2>6, AmbiguousBelow
  <2>8. ASSUME NEW i \in Ifs(e) PROVE f[i] = g[i] /\ i \in Linked
    <3>1. i \in Linked /\ file[i].super = Object /\ Object \in Linked
      BY <2>1, InterfacesOf
    <3>2. Ifs(Object) = {}
      BY <3>1, ObjectFacts
    <3>3. ~Ambiguous(i, name)
      BY <3>1, <3>2 DEF Ambiguous, Ifs
    <3> QED
      BY <1>1, <3>1, <3>3
  <2>9. \A k \in DOMAIN file[e].interfaces : file[e].interfaces[k] \in Ifs(e)
    BY <2>1, SourcesOf
  <2>10. \A k \in DOMAIN cls[e].interfaces : cls[e].interfaces[k] \in Ifs(e)
    BY DEF Ifs, ToSet
  <2>11. CASE ~static
    <3>1. ASSUME NEW k \in DOMAIN file[e].interfaces, g[file[e].interfaces[k]] # None PROVE FALSE
      <4> PICK i \in Ifs(e) : i = file[e].interfaces[k]
        BY <2>9
      <4>1. PICK d \in Sources(i) : FieldOf(d, name, static) # None
        BY <2>8, <3>1, DeclaredFrom
      <4>2. d # Object
        BY <4>1, ObjectFacts
      <4>3. d \in Ifs(e)
        BY <2>1, <4>2, SourcesOf
      <4>4. d \in Linked /\ IsInterface(d)
        BY <2>1, <4>3, InterfacesOf
      <4>5. static = FALSE
        BY <2>11
      <4> QED
        BY <4>1, <4>4, <4>5, InterfaceFields
    <3>2. Across(file[e].interfaces, g) = {}
      BY <3>1 DEF Across
    <3> QED
      BY <2>1, <2>2, <2>3, <2>5, <2>6, <2>7, <2>11, <3>2
  <2>12. CASE static /\ \A i \in Ifs(p) : FieldOf(i, name, TRUE) = None
    <3>0. static = TRUE
      BY <2>12
    <3>1. ASSUME NEW i \in Ifs(p), f[i] # None PROVE FALSE
      <4>1. i \in Linked
        BY <2>5, InterfacesOf
      <4>2. PICK d \in Sources(i) : FieldOf(d, name, static) # None
        BY <3>1, <4>1, LooksFrom
      <4>3. d # Object
        BY <4>2, ObjectFacts
      <4>4. d \in Ifs(p)
        BY <2>5, <4>3, SourcesOf
      <4> QED
        BY <2>12, <3>0, <4>2, <4>4
    <3>2. \A k \in DOMAIN file[e].interfaces :
              f[file[e].interfaces[k]] = None => \A i \in Ifs(file[e].interfaces[k]) : f[i] = None
      BY <2>1, <2>9, <3>0, NothingAbove
    <3>3. Across(file[e].interfaces, f) = Across(file[e].interfaces, g)
      BY <2>8, <2>9, AcrossSame
    <3>4. CASE Across(file[e].interfaces, f) # {}
      <4>1. e \in Class /\ state[e] = "linked" /\ file[e].super # None
        BY <2>1, <2>5 DEF Linked
      <4>2. /\ Across(cls[e].interfaces, f) # {}
            /\ cls[e].interfaces[Min(Across(cls[e].interfaces, f))]
                 = file[e].interfaces[Min(Across(file[e].interfaces, f))]
        BY <3>1, <3>2, <3>4, <4>1, OwnFirst
      <4>3. Min(Across(file[e].interfaces, f)) \in DOMAIN file[e].interfaces
        BY <2>1, <3>4, LinkedNames
      <4>4. f[file[e].interfaces[Min(Across(file[e].interfaces, f))]]
              = g[file[e].interfaces[Min(Across(file[e].interfaces, f))]]
        BY <2>8, <2>9, <4>3
      <4> QED
        BY <2>1, <2>2, <2>3, <2>5, <2>6, <3>0, <3>3, <3>4, <4>2, <4>4
    <3>5. CASE Across(file[e].interfaces, f) = {}
      <4>1. ASSUME NEW k \in DOMAIN cls[e].interfaces PROVE f[cls[e].interfaces[k]] = None
        <5> PICK i \in Ifs(e) : i = cls[e].interfaces[k]
          BY <2>10
        <5>1. \/ i \in Ifs(p)
              \/ \E n \in DOMAIN file[e].interfaces :
                    i = file[e].interfaces[n] \/ i \in Ifs(file[e].interfaces[n])
          BY <2>1, <2>4, Heritage
        <5>2. \A n \in DOMAIN file[e].interfaces : f[file[e].interfaces[n]] = None
          BY <3>5 DEF Across
        <5> QED
          BY <3>1, <3>2, <5>1, <5>2
      <4>2. Across(cls[e].interfaces, f) = {}
        BY <4>1 DEF Across
      <4> QED
        BY <2>1, <2>2, <2>3, <2>5, <2>6, <2>7, <3>3, <3>5, <4>2
    <3> QED
      BY <3>4, <3>5
  <2>13. CASE static /\ \E i \in Ifs(p) : FieldOf(i, name, TRUE) # None
    <3>0. static = TRUE
      BY <2>13
    <3>1. PICK i \in Ifs(p) : FieldOf(i, name, TRUE) # None
      BY <2>13
    <3>2. ASSUME NEW d \in Sources(e), FieldOf(d, name, TRUE) # None PROVE d = i
      <4>1. d # e
        BY <2>6, <3>0, <3>2
      <4>2. d # i => Ambiguous(e, name)
        BY <2>5, <3>1, <3>2, <4>1 DEF Ambiguous, Ifs, Sources
      <4> QED
        BY <2>1, <3>0, <4>2
    <3>3. i \in Ifs(e)
      BY <2>1, <2>4, Heritage
    <3>4. g[e] # None
      BY <2>1, <3>0, <3>1, <3>3, DeclaredSome
    <3>5. g[e] = FieldOf(i, name, TRUE)
      <4>1. \E d \in Sources(e) : FieldOf(d, name, static) # None /\ g[e] = FieldOf(d, name, static)
        BY <2>1, <3>4, DeclaredFrom
      <4> QED
        BY <3>0, <3>2, <4>1
    <3>6. f[e] # None
      <4>1. i \in Linked /\ i \in Name /\ cls[i].parent = Object /\ Object # None
        BY <2>1, <3>3, InterfacesOf, NamesAssumption DEF Linked, Name
      <4>2. f[i] # None
        BY <3>0, <3>1, <4>1 DEF Looks
      <4>3. Across(cls[e].interfaces, f) # {}
        BY <3>3, <4>2 DEF Across, Ifs, ToSet
      <4>4. Min(Across(cls[e].interfaces, f)) \in Across(cls[e].interfaces, f)
        BY <2>1, <4>3, AcrossFirst DEF Listings
      <4> QED
        BY <2>2, <2>5, <2>6, <3>0, <4>3, <4>4 DEF Across
    <3>7. f[e] = FieldOf(i, name, TRUE)
      <4>1. \E d \in Sources(e) : FieldOf(d, name, static) # None /\ f[e] = FieldOf(d, name, static)
        BY <2>1, <3>6, LooksFrom
      <4> QED
        BY <3>0, <3>2, <4>1
    <3> QED
      BY <2>1, <3>5, <3>7
  <2> QED
    BY <2>11, <2>12, <2>13
<1>2. Bad = {}
  <2>1. Bad \in SUBSET Linked
    OBVIOUS
  <2> HIDE DEF Bad
  <2> QED
    BY <1>1, <2>1, Topmost
<1> QED
  BY <1>2

LEMMA LookedUpWhole == ASSUME IInv, Placings, Listings, Ordered PROVE LookedUp
<1> SUFFICES ASSUME Conventional, NEW c \in Linked, NEW name \in FieldNames, NEW static \in BOOLEAN
             PROVE  \/ LookupField(c, name, static) = Declared(c, name, static)
                    \/ static /\ Ambiguous(c, name)
  BY DEF LookedUp
<1>1. PICK f : Looks(f, name, static)
  BY LooksExists
<1>2. PICK g : Declares(g, name, static)
  BY DeclaresExists
<1>3. f[c] = g[c] \/ (static /\ Ambiguous(c, name))
  BY <1>1, <1>2, SameFound
<1>4. LookupField(c, name, static) = f[c] /\ Declared(c, name, static) = g[c]
  BY <1>1, <1>2 DEF Looks, Declares, Linked, Name
<1> QED
  BY <1>3, <1>4

\* lookup_field() finds the field the search order of the language gives: that of the class
\* itself, else of an interface it names, else of its superclass, although the list it goes
\* through has the interfaces of the superclass first; excepted are only the fields
\* FieldsFound excepts.  And the fields have places of their own.
THEOREM FieldsAlways == Spec => []FieldsFound
<1>1. Init => Placings
  <2> SUFFICES ASSUME Init PROVE Placings
    OBVIOUS
  <2>1. \A c \in Name : cls[c].parent = None /\ state[c] # "linked"
    BY DEF Init, NoClass
  <2>2. Laying = {}
    BY DEF Init, Laying
  <2> QED
    BY <2>1, <2>2 DEF Placings, Name
<1>2. IInv /\ Placings /\ [Next]_vars => Placings'
  BY PlacingsStep
<1>3. Init => Listings
  BY ListingsInit
<1>4. IInv /\ Listings /\ [Next]_vars => Listings'
  BY ListingsStep
<1>5. IInv /\ Placings /\ Listings /\ Ordered /\ LaidOut => FieldsFound
  BY LookedUpWhole DEF FieldsFound
<1> QED
  BY <1>1, <1>2, <1>3, <1>4, <1>5, LoaderInvariant, LinkingOrder, LayoutSound, PTL DEF Spec
=============================================================================
