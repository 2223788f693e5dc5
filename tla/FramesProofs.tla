----------------------------- MODULE FramesProofs -----------------------------
(* The Java stack keeps its frames, registers and monitors in order, for   *)
(* every table of methods and every stack: see the end for the theorems.   *)
EXTENDS Frames, FiniteSetTheorems, TLAPS

(* Pushing and popping on sequences. *)
LEMMA PushSeq ==
    ASSUME NEW S, NEW s \in Seq(S), NEW g \in S
    PROVE  /\ <<g>> \o s \in Seq(S) /\ Len(<<g>> \o s) = Len(s) + 1 /\ <<g>> \o s # <<>>
           /\ (<<g>> \o s)[1] = g /\ Tail(<<g>> \o s) = s
           /\ \A i \in 1 .. Len(s) : (<<g>> \o s)[i + 1] = s[i]
  OBVIOUS

LEMMA PopSeq ==
    ASSUME NEW S, NEW s \in Seq(S), s # <<>>
    PROVE  /\ Tail(s) \in Seq(S) /\ Len(Tail(s)) = Len(s) - 1 /\ Len(s) >= 1 /\ s[1] \in S
           /\ s = <<s[1]>> \o Tail(s)
           /\ \A i \in 1 .. Len(s) - 1 : Tail(s)[i] = s[i + 1]
           /\ \A g \in S : [s EXCEPT ![1] = g] = <<g>> \o Tail(s)
  OBVIOUS

LEMMA PushTwo ==
    ASSUME NEW S, NEW s \in Seq(S), NEW g \in S, NEW h \in S
    PROVE  <<g, h>> \o s = <<g>> \o (<<h>> \o s)
<1> DEFINE t == <<h>> \o s
           a == <<g, h>> \o s
           b == <<g>> \o t
<1>1. /\ t \in Seq(S) /\ Len(t) = Len(s) + 1 /\ t[1] = h /\ Len(s) \in Nat
      /\ \A i \in 1 .. Len(s) : t[i + 1] = s[i]
  BY PushSeq
<1> HIDE DEF t
<1>2. b \in Seq(S) /\ Len(b) = Len(t) + 1 /\ b[1] = g /\ \A i \in 1 .. Len(t) : b[i + 1] = t[i]
  BY <1>1, PushSeq
<1>3. a \in Seq(S) /\ Len(a) = Len(s) + 2 /\ a[1] = g /\ a[2] = h /\ \A i \in 1 .. Len(s) : a[i + 2] = s[i]
  OBVIOUS
<1> HIDE DEF a, b
<1>4. ASSUME NEW i \in 1 .. Len(a) PROVE a[i] = b[i]
  <2>1. CASE i = 1
    BY <1>2, <1>3, <2>1
  <2>2. CASE i = 2
    BY <1>1, <1>2, <1>3, <2>2
  <2>3. CASE i # 1 /\ i # 2
    <3>1. i - 2 \in 1 .. Len(s) /\ (i - 2) + 2 = i /\ (i - 2) + 1 = i - 1
          /\ i - 1 \in 1 .. Len(t) /\ (i - 1) + 1 = i
      BY <1>1, <1>3, <2>3
    <3>2. a[i] = s[i - 2]
      BY <1>3, <3>1
    <3>3. b[i] = t[i - 1]
      BY <1>2, <3>1
    <3>4. t[i - 1] = s[i - 2]
      BY <1>1, <3>1
    <3> QED
      BY <3>2, <3>3, <3>4
  <2> QED
    BY <2>1, <2>2, <2>3
<1>5. a = b
  BY <1>1, <1>2, <1>3, <1>4
<1> QED
  BY <1>5 DEF a, b, t

(* Frames have numbers for their ends. *)
LEMMA FrameNumbers ==
    ASSUME NEW f \in FrameSet
    PROVE  /\ LowOf(f) \in Int /\ First(f) \in Int /\ Last(f) \in Int
           /\ LowOf(f) =< First(f) /\ First(f) =< Last(f)
           /\ Info[f.m].ret \in Nat /\ Info[f.m].args \in Nat
  BY FramesAssumption DEF FrameSet, LowOf, First, Last, Shift

-----------------------------------------------------------------------------
(* How often a monitor is counted in a stack. *)
LEMMA EntriesPush ==
    ASSUME NEW s \in Seq(FrameSet), NEW g \in FrameSet, NEW l
    PROVE  /\ Entries(s, l) \in Nat
           /\ Entries(<<g>> \o s, l) = Entries(s, l) + IF Inside(g, l) THEN 1 ELSE 0
<1> DEFINE A == {i \in 1 .. Len(s) : Inside(s[i], l)}
           t == <<g>> \o s
           B == {i \in 1 .. Len(t) : Inside(t[i], l)}
           up == [i \in A |-> i + 1]
           C == {i + 1 : i \in A}
<1>1. IsFiniteSet(A) /\ Cardinality(A) \in Nat
  <2>1. IsFiniteSet(1 .. Len(s))
    BY FS_Interval
  <2> QED
    BY <2>1, FS_Subset, FS_CardinalityType
<1>2. IsFiniteSet(C) /\ Cardinality(C) = Cardinality(A)
  <2>1. up \in Bijection(A, C)
    BY DEF Bijection, Injection, Surjection, IsInjective
  <2>2. ExistsBijection(A, C)
    BY <2>1 DEF ExistsBijection
  <2> HIDE DEF A, C, up
  <2> QED
    BY <1>1, <2>2, FS_Bijection
<1>3. B = IF Inside(g, l) THEN C \union {1} ELSE C
  <2>1. Len(t) = Len(s) + 1 /\ t[1] = g /\ \A i \in 1 .. Len(s) : t[i + 1] = s[i]
    BY PushSeq
  <2>2. ASSUME NEW i \in 1 .. Len(t), i # 1
        PROVE  i \in B <=> i \in C
    <3>1. i - 1 \in 1 .. Len(s) /\ t[(i - 1) + 1] = s[i - 1] /\ (i - 1) + 1 = i
      BY <2>1, <2>2
    <3> QED
      BY <3>1
  <2>3. C \subseteq 1 .. Len(t) /\ 1 \notin C
    BY <2>1
  <2>4. 1 \in B <=> Inside(g, l)
    BY <2>1
  <2>5. B \subseteq 1 .. Len(t)
    OBVIOUS
  <2>6. 1 \in 1 .. Len(t)
    BY <2>1
  <2> HIDE DEF B, C, t
  <2>7. ASSUME NEW i PROVE i \in B <=> i \in IF Inside(g, l) THEN C \union {1} ELSE C
    <3>1. CASE i \in 1 .. Len(t) /\ i # 1
      BY <2>2, <3>1
    <3>2. CASE i = 1
      BY <2>3, <2>4, <3>2
    <3>3. CASE i \notin 1 .. Len(t)
      BY <2>3, <2>5, <2>6, <3>3
    <3> QED
      BY <3>1, <3>2, <3>3
  <2> QED
    BY <2>7
<1>4. 1 \notin C
  OBVIOUS
<1> HIDE DEF A, B, C
<1>5. Cardinality(B) = Cardinality(A) + IF Inside(g, l) THEN 1 ELSE 0
  <2>1. CASE Inside(g, l)
    BY <1>1, <1>2, <1>3, <1>4, <2>1, FS_AddElement
  <2>2. CASE ~Inside(g, l)
    BY <1>1, <1>2, <1>3, <2>2
  <2> QED
    BY <2>1, <2>2
<1> QED
  BY <1>1, <1>5 DEF Entries, A, B

LEMMA EntriesPop ==
    ASSUME NEW s \in Seq(FrameSet), s # <<>>, NEW l
    PROVE  /\ Entries(Tail(s), l) \in Nat
           /\ Entries(s, l) = Entries(Tail(s), l) + IF Inside(s[1], l) THEN 1 ELSE 0
<1>1. Tail(s) \in Seq(FrameSet) /\ s[1] \in FrameSet /\ s = <<s[1]>> \o Tail(s)
  BY PopSeq
<1> QED
  BY <1>1, EntriesPush

-----------------------------------------------------------------------------
(* Well-formed stacks. *)
LEMMA StackPush ==
    ASSUME NEW s, Stack(s), NEW g \in FrameSet, FrameOk(g), Waits(s[1], g),
           First(s[1]) =< LowOf(g),
           Last(g) =< StackSize - FrameWords * (Len(s) + 1)
    PROVE  Stack(<<g>> \o s)
<1> DEFINE t == <<g>> \o s
<1>1. /\ t \in Seq(FrameSet) /\ Len(t) = Len(s) + 1 /\ t # <<>> /\ t[1] = g
      /\ \A i \in 1 .. Len(s) : t[i + 1] = s[i]
  BY PushSeq DEF Stack
<1>2. s \in Seq(FrameSet) /\ Len(s) \in Nat /\ Len(s) >= 1
  BY DEF Stack
<1> HIDE DEF t
<1>3. \A i \in 2 .. Len(t) : i - 1 \in 1 .. Len(s) /\ t[i] = s[i - 1]
  <2> TAKE i \in 2 .. Len(t)
  <2>1. i - 1 \in 1 .. Len(s) /\ (i - 1) + 1 = i
    BY <1>1, <1>2
  <2> QED
    BY <1>1, <2>1
<1>4. t[Len(t)].m = Halt
  <2>1. Len(t) \in 2 .. Len(t) /\ Len(t) - 1 = Len(s)
    BY <1>1, <1>2
  <2>2. t[Len(t)] = s[Len(s)]
    BY <1>3, <2>1
  <2> QED
    BY <2>2 DEF Stack
<1>5. ASSUME NEW i \in 1 .. Len(t)
      PROVE  FrameOk(t[i]) /\ Last(t[i]) =< StackSize - FrameWords * (Len(t) - i + 1)
  <2>1. CASE i = 1
    <3>1. Len(t) - i + 1 = Len(s) + 1
      BY <1>1, <1>2, <2>1
    <3> QED
      BY <1>1, <2>1, <3>1
  <2>2. CASE i # 1
    <3>1. i - 1 \in 1 .. Len(s) /\ t[i] = s[i - 1]
      BY <1>3, <2>2, <1>1, <1>2
    <3>2. Len(s) - (i - 1) + 1 = Len(t) - i + 1
      BY <1>1, <1>2
    <3>3. Last(s[i - 1]) =< StackSize - FrameWords * (Len(s) - (i - 1) + 1)
      BY <3>1 DEF Stack
    <3>4. FrameOk(s[i - 1])
      BY <3>1 DEF Stack
    <3> QED
      BY <3>1, <3>2, <3>3, <3>4
  <2> QED
    BY <2>1, <2>2
<1>6. ASSUME NEW i \in 1 .. Len(t) - 1
      PROVE  Waits(t[i + 1], t[i])
  <2>1. CASE i = 1
    <3>1. t[i + 1] = s[1] /\ t[i] = g
      BY <1>1, <1>2, <2>1
    <3> QED
      BY <3>1
  <2>2. CASE i # 1
    <3>1. i - 1 \in 1 .. Len(s) - 1 /\ t[i] = s[i - 1] /\ t[i + 1] = s[i] /\ (i - 1) + 1 = i
      BY <1>1, <1>2, <1>3, <2>2
    <3>2. Waits(s[(i - 1) + 1], s[i - 1])
      BY <3>1 DEF Stack
    <3> QED
      BY <3>1, <3>2
  <2> QED
    BY <2>1, <2>2
<1>7. ASSUME NEW i \in 1 .. Len(t), NEW j \in 1 .. Len(t), i < j
      PROVE  First(t[j]) =< LowOf(t[i])
  <2>1. j - 1 \in 1 .. Len(s) /\ t[j] = s[j - 1] /\ s[j - 1] \in FrameSet /\ s[1] \in FrameSet
    BY <1>1, <1>2, <1>3, <1>7
  <2>2. CASE i = 1
    <3>1. First(s[j - 1]) =< First(s[1])
      <4>1. CASE j - 1 = 1
        <5>1. First(s[1]) \in Int
          BY <2>1, FrameNumbers
        <5> QED
          BY <4>1, <5>1
      <4>2. CASE j - 1 # 1
        <5>1. First(s[j - 1]) =< LowOf(s[1])
          BY <2>1, <4>2, <1>2 DEF Stack
        <5>2. /\ First(s[j - 1]) \in Int /\ LowOf(s[1]) \in Int /\ First(s[1]) \in Int
              /\ LowOf(s[1]) =< First(s[1])
          BY <2>1, FrameNumbers
        <5> QED
          BY <5>1, <5>2
      <4> QED
        BY <4>1, <4>2
    <3>2. First(s[j - 1]) \in Int /\ First(s[1]) \in Int /\ LowOf(g) \in Int
      BY <2>1, FrameNumbers
    <3>3. t[i] = g /\ t[j] = s[j - 1]
      BY <1>1, <2>1, <2>2
    <3> QED
      BY <3>1, <3>2, <3>3
  <2>3. CASE i # 1
    <3>1. i - 1 \in 1 .. Len(s) /\ t[i] = s[i - 1] /\ i - 1 < j - 1
      BY <1>1, <1>2, <1>3, <1>7, <2>3
    <3> QED
      BY <2>1, <3>1 DEF Stack
  <2> QED
    BY <2>2, <2>3
<1> QED
  BY <1>1, <1>4, <1>5, <1>6, <1>7 DEF Stack, t

LEMMA StackPop ==
    ASSUME NEW s, Stack(s), Len(s) >= 2
    PROVE  Stack(Tail(s))
<1> DEFINE t == Tail(s)
<1>1. s \in Seq(FrameSet) /\ s # <<>> /\ Len(s) \in Nat
  BY DEF Stack
<1>2. t \in Seq(FrameSet) /\ Len(t) = Len(s) - 1 /\ \A i \in 1 .. Len(s) - 1 : t[i] = s[i + 1]
  BY <1>1, PopSeq
<1> HIDE DEF t
<1>3. t # <<>>
  <2>1. Len(t) # 0
    BY <1>1, <1>2
  <2>2. Len(<< >>) = 0
    OBVIOUS
  <2> QED
    BY <2>1, <2>2
<1>4. \A i \in 1 .. Len(t) : i + 1 \in 1 .. Len(s) /\ t[i] = s[i + 1]
  BY <1>1, <1>2
<1>5. t[Len(t)].m = Halt
  <2>1. Len(t) \in 1 .. Len(t) /\ Len(t) + 1 = Len(s)
    BY <1>1, <1>2
  <2>2. t[Len(t)] = s[Len(s)]
    BY <1>4, <2>1
  <2> QED
    BY <2>2 DEF Stack
<1>6. ASSUME NEW i \in 1 .. Len(t)
      PROVE  FrameOk(t[i]) /\ Last(t[i]) =< StackSize - FrameWords * (Len(t) - i + 1)
  <2>1. Len(s) - (i + 1) + 1 = Len(t) - i + 1
    BY <1>1, <1>2
  <2>2. FrameOk(s[i + 1]) /\ Last(s[i + 1]) =< StackSize - FrameWords * (Len(s) - (i + 1) + 1)
    BY <1>4 DEF Stack
  <2> QED
    BY <1>4, <2>1, <2>2
<1>7. ASSUME NEW i \in 1 .. Len(t) - 1
      PROVE  Waits(t[i + 1], t[i])
  <2>1. i + 1 \in 1 .. Len(s) - 1 /\ t[i] = s[i + 1] /\ t[i + 1] = s[(i + 1) + 1]
    BY <1>1, <1>2, <1>4
  <2> QED
    BY <2>1 DEF Stack
<1>8. ASSUME NEW i \in 1 .. Len(t), NEW j \in 1 .. Len(t), i < j
      PROVE  First(t[j]) =< LowOf(t[i])
  <2>1. i + 1 < j + 1
    BY <1>8
  <2> QED
    BY <1>4, <2>1 DEF Stack
<1> QED
  BY <1>2, <1>3, <1>5, <1>6, <1>7, <1>8 DEF Stack, t

-----------------------------------------------------------------------------
(* The registers of the interpreters further out. *)
LEMMA SavedPush ==
    ASSUME NEW s \in Seq(FrameSet), NEW out, Len(out) \in Nat, Len(s) >= 1, Saved(s, out),
           NEW g \in FrameSet, g.m # Halt
    PROVE  Saved(<<g>> \o s, out)
<1> DEFINE t == <<g>> \o s
<1>1. Len(t) = Len(s) + 1 /\ t[1] = g /\ \A i \in 1 .. Len(s) : t[i + 1] = s[i]
  BY PushSeq
<1> HIDE DEF t
<1>2. PICK pos \in [1 .. Len(out) -> 1 .. Len(s) - 1] :
        /\ \A k \in 1 .. Len(out) - 1 : pos[k] < pos[k + 1]
        /\ \A i \in 1 .. Len(s) - 1 : s[i].m = Halt => \E k \in 1 .. Len(out) : pos[k] = i
        /\ \A k \in 1 .. Len(out) : s[pos[k]].m = Halt /\ Registered(out[k], s[pos[k] + 1])
  BY DEF Saved
<1> DEFINE new == [k \in 1 .. Len(out) |-> pos[k] + 1]
<1>3. new \in [1 .. Len(out) -> 1 .. Len(t) - 1]
  BY <1>1, <1>2
<1>4. \A k \in 1 .. Len(out) - 1 : new[k] < new[k + 1]
  <2> TAKE k \in 1 .. Len(out) - 1
  <2>1. k \in 1 .. Len(out) /\ k + 1 \in 1 .. Len(out)
    OBVIOUS
  <2>2. pos[k] \in 1 .. Len(s) - 1 /\ pos[k + 1] \in 1 .. Len(s) - 1
    BY <1>2, <2>1
  <2>3. pos[k] < pos[k + 1]
    BY <1>2
  <2> QED
    BY <2>1, <2>2, <2>3
<1>5. ASSUME NEW i \in 1 .. Len(t) - 1, t[i].m = Halt
      PROVE  \E k \in 1 .. Len(out) : new[k] = i
  <2>1. i # 1
    BY <1>1, <1>5
  <2>2. i - 1 \in 1 .. Len(s) - 1 /\ t[i] = s[i - 1]
    <3>1. i - 1 \in 1 .. Len(s) /\ (i - 1) + 1 = i /\ i - 1 \in 1 .. Len(s) - 1
      BY <1>1, <2>1
    <3> QED
      BY <1>1, <3>1
  <2>3. PICK k \in 1 .. Len(out) : pos[k] = i - 1
    BY <1>2, <1>5, <2>2
  <2> QED
    BY <2>3
<1>6. ASSUME NEW k \in 1 .. Len(out)
      PROVE  t[new[k]].m = Halt /\ Registered(out[k], t[new[k] + 1])
  <2>1. pos[k] \in 1 .. Len(s) - 1 /\ new[k] = pos[k] + 1
    BY <1>2
  <2>2. pos[k] \in 1 .. Len(s) /\ pos[k] + 1 \in 1 .. Len(s)
    BY <2>1
  <2>3. t[new[k]] = s[pos[k]] /\ t[new[k] + 1] = s[pos[k] + 1]
    BY <1>1, <2>1, <2>2
  <2> QED
    BY <1>2, <2>3
<1> HIDE DEF new
<1> QED
  BY <1>3, <1>4, <1>5, <1>6 DEF Saved, t

LEMMA SavedPop ==
    ASSUME NEW s \in Seq(FrameSet), NEW out, Len(out) \in Nat, Len(s) >= 2, Saved(s, out),
           s[1].m # Halt
    PROVE  Saved(Tail(s), out)
<1> DEFINE t == Tail(s)
<1>1. Len(t) = Len(s) - 1 /\ \A i \in 1 .. Len(s) - 1 : t[i] = s[i + 1]
  BY PopSeq
<1> HIDE DEF t
<1>2. PICK pos \in [1 .. Len(out) -> 1 .. Len(s) - 1] :
        /\ \A k \in 1 .. Len(out) - 1 : pos[k] < pos[k + 1]
        /\ \A i \in 1 .. Len(s) - 1 : s[i].m = Halt => \E k \in 1 .. Len(out) : pos[k] = i
        /\ \A k \in 1 .. Len(out) : s[pos[k]].m = Halt /\ Registered(out[k], s[pos[k] + 1])
  BY DEF Saved
<1> DEFINE new == [k \in 1 .. Len(out) |-> pos[k] - 1]
<1>3. \A k \in 1 .. Len(out) : pos[k] # 1 /\ pos[k] \in 1 .. Len(s) - 1
  BY <1>2
<1>4. new \in [1 .. Len(out) -> 1 .. Len(t) - 1]
  BY <1>1, <1>3
<1>5. \A k \in 1 .. Len(out) - 1 : new[k] < new[k + 1]
  <2> TAKE k \in 1 .. Len(out) - 1
  <2>1. k \in 1 .. Len(out) /\ k + 1 \in 1 .. Len(out)
    OBVIOUS
  <2>2. pos[k] \in 1 .. Len(s) - 1 /\ pos[k + 1] \in 1 .. Len(s) - 1
    BY <1>2, <2>1
  <2>3. pos[k] < pos[k + 1]
    BY <1>2
  <2> QED
    BY <2>1, <2>2, <2>3
<1>6. ASSUME NEW i \in 1 .. Len(t) - 1, t[i].m = Halt
      PROVE  \E k \in 1 .. Len(out) : new[k] = i
  <2>1. i + 1 \in 1 .. Len(s) - 1 /\ t[i] = s[i + 1]
    BY <1>1
  <2>2. PICK k \in 1 .. Len(out) : pos[k] = i + 1
    BY <1>2, <1>6, <2>1
  <2> QED
    BY <2>2
<1>7. ASSUME NEW k \in 1 .. Len(out)
      PROVE  t[new[k]].m = Halt /\ Registered(out[k], t[new[k] + 1])
  <2>1. pos[k] - 1 \in 1 .. Len(s) - 1 /\ (pos[k] - 1) + 1 = pos[k] /\ pos[k] \in 1 .. Len(s) - 1
        /\ new[k] = pos[k] - 1
    BY <1>3
  <2>2. t[new[k]] = s[pos[k]] /\ t[new[k] + 1] = s[pos[k] + 1]
    BY <1>1, <2>1
  <2> QED
    BY <1>2, <2>2
<1> HIDE DEF new
<1> QED
  BY <1>4, <1>5, <1>6, <1>7 DEF Saved, t

LEMMA SavedCall ==
    ASSUME NEW s \in Seq(FrameSet), NEW S, NEW out \in Seq(S), Len(s) >= 1, Saved(s, out),
           NEW h \in FrameSet, h.m = Halt, NEW o \in S, Registered(o, s[1])
    PROVE  Saved(<<h>> \o s, <<o>> \o out)
<1> DEFINE t == <<h>> \o s
           more == <<o>> \o out
<1>1. Len(t) = Len(s) + 1 /\ t[1] = h /\ \A i \in 1 .. Len(s) : t[i + 1] = s[i]
  BY PushSeq
<1>2. Len(out) \in Nat /\ Len(more) = Len(out) + 1 /\ more[1] = o
      /\ \A k \in 1 .. Len(out) : more[k + 1] = out[k]
  BY PushSeq
<1> HIDE DEF t, more
<1>3. PICK pos \in [1 .. Len(out) -> 1 .. Len(s) - 1] :
        /\ \A k \in 1 .. Len(out) - 1 : pos[k] < pos[k + 1]
        /\ \A i \in 1 .. Len(s) - 1 : s[i].m = Halt => \E k \in 1 .. Len(out) : pos[k] = i
        /\ \A k \in 1 .. Len(out) : s[pos[k]].m = Halt /\ Registered(out[k], s[pos[k] + 1])
  BY DEF Saved
<1> DEFINE new == [k \in 1 .. Len(more) |-> IF k = 1 THEN 1 ELSE pos[k - 1] + 1]
<1>4. \A k \in 2 .. Len(more) : /\ k - 1 \in 1 .. Len(out) /\ more[k] = out[k - 1]
                                /\ pos[k - 1] \in 1 .. Len(s) - 1 /\ new[k] = pos[k - 1] + 1
  <2> TAKE k \in 2 .. Len(more)
  <2>1. k - 1 \in 1 .. Len(out) /\ (k - 1) + 1 = k
    BY <1>2
  <2>2. more[k] = out[k - 1]
    BY <1>2, <2>1
  <2>3. pos[k - 1] \in 1 .. Len(s) - 1
    BY <1>3, <2>1
  <2>4. new[k] = pos[k - 1] + 1
    OBVIOUS
  <2> QED
    BY <2>1, <2>2, <2>3, <2>4
<1>5. new[1] = 1 /\ 1 \in 1 .. Len(more)
  BY <1>2
<1>6. new \in [1 .. Len(more) -> 1 .. Len(t) - 1]
  <2>1. ASSUME NEW k \in 1 .. Len(more) PROVE new[k] \in 1 .. Len(t) - 1
    <3>1. CASE k = 1
      BY <1>1, <1>5, <3>1
    <3>2. CASE k # 1
      <4>1. k \in 2 .. Len(more)
        BY <1>2, <3>2
      <4>2. new[k] = pos[k - 1] + 1 /\ pos[k - 1] \in 1 .. Len(s) - 1
        BY <1>4, <4>1
      <4> QED
        BY <1>1, <4>2
    <3> QED
      BY <3>1, <3>2
  <2> QED
    BY <2>1
<1>7. ASSUME NEW k \in 1 .. Len(more) - 1
      PROVE  new[k] < new[k + 1]
  <2>1. k + 1 \in 2 .. Len(more) /\ (k + 1) - 1 = k /\ k \in 1 .. Len(out)
    BY <1>2
  <2>2. new[k + 1] = pos[k] + 1 /\ pos[k] \in 1 .. Len(s) - 1
    BY <1>3, <2>1
  <2>3. CASE k = 1
    BY <1>5, <2>2, <2>3
  <2>4. CASE k # 1
    <3>1. k - 1 \in 1 .. Len(out) - 1 /\ (k - 1) + 1 = k
      BY <1>2, <2>4
    <3>2. pos[k - 1] < pos[k]
      BY <1>3, <3>1
    <3>3. new[k] = pos[k - 1] + 1 /\ pos[k - 1] \in 1 .. Len(s) - 1
      <4>1. k \in 2 .. Len(more)
        BY <1>2, <2>4
      <4> QED
        BY <1>4, <4>1
    <3> QED
      BY <2>2, <3>2, <3>3
  <2> QED
    BY <2>3, <2>4
<1>8. ASSUME NEW i \in 1 .. Len(t) - 1, t[i].m = Halt
      PROVE  \E k \in 1 .. Len(more) : new[k] = i
  <2>1. CASE i = 1
    BY <1>5, <2>1
  <2>2. CASE i # 1
    <3>1. i - 1 \in 1 .. Len(s) - 1 /\ i - 1 \in 1 .. Len(s) /\ (i - 1) + 1 = i
      BY <1>1, <2>2
    <3>2. t[i] = s[i - 1]
      BY <1>1, <3>1
    <3>3. PICK k \in 1 .. Len(out) : pos[k] = i - 1
      BY <1>3, <1>8, <3>1, <3>2
    <3>4. k + 1 \in 1 .. Len(more) /\ k + 1 # 1 /\ (k + 1) - 1 = k
      BY <1>2
    <3>5. new[k + 1] = i
      BY <3>1, <3>3, <3>4
    <3> QED
      BY <3>4, <3>5
  <2> QED
    BY <2>1, <2>2
<1>9. ASSUME NEW k \in 1 .. Len(more)
      PROVE  t[new[k]].m = Halt /\ Registered(more[k], t[new[k] + 1])
  <2>1. CASE k = 1
    <3>1. t[new[k] + 1] = s[1] /\ t[new[k]] = h /\ more[k] = o
      BY <1>1, <1>2, <1>5, <2>1
    <3> QED
      BY <3>1
  <2>2. CASE k # 1
    <3>1. k - 1 \in 1 .. Len(out) /\ more[k] = out[k - 1]
          /\ pos[k - 1] \in 1 .. Len(s) - 1 /\ new[k] = pos[k - 1] + 1
      BY <1>2, <1>4, <2>2
    <3>2. t[new[k]] = s[pos[k - 1]] /\ t[new[k] + 1] = s[pos[k - 1] + 1]
      <4>1. pos[k - 1] \in 1 .. Len(s) /\ pos[k - 1] + 1 \in 1 .. Len(s)
        BY <3>1
      <4> QED
        BY <1>1, <3>1, <4>1
    <3> QED
      BY <1>3, <3>1, <3>2
  <2> QED
    BY <2>1, <2>2
<1> HIDE DEF new
<1> QED
  BY <1>6, <1>7, <1>8, <1>9 DEF Saved, t, more

LEMMA SavedReturn ==
    ASSUME NEW s \in Seq(FrameSet), NEW S, NEW out \in Seq(S), out # <<>>, Len(s) >= 1, Saved(s, out),
           s[1].m = Halt
    PROVE  Len(s) >= 2 /\ Saved(Tail(s), Tail(out)) /\ Registered(out[1], s[2])
<1> DEFINE t == Tail(s)
           less == Tail(out)
<1>1. s # <<>>
  OBVIOUS
<1>2. Len(t) = Len(s) - 1 /\ \A i \in 1 .. Len(s) - 1 : t[i] = s[i + 1]
  BY <1>1, PopSeq
<1>3. Len(less) = Len(out) - 1 /\ Len(out) >= 1 /\ Len(out) \in Nat
      /\ \A k \in 1 .. Len(out) - 1 : less[k] = out[k + 1]
  BY PopSeq
<1> HIDE DEF t, less
<1>4. PICK pos \in [1 .. Len(out) -> 1 .. Len(s) - 1] :
        /\ \A k \in 1 .. Len(out) - 1 : pos[k] < pos[k + 1]
        /\ \A i \in 1 .. Len(s) - 1 : s[i].m = Halt => \E k \in 1 .. Len(out) : pos[k] = i
        /\ \A k \in 1 .. Len(out) : s[pos[k]].m = Halt /\ Registered(out[k], s[pos[k] + 1])
  BY DEF Saved
<1>5. 1 \in 1 .. Len(out) /\ pos[1] \in 1 .. Len(s) - 1 /\ 1 \in 1 .. Len(s) - 1
  BY <1>3, <1>4
<1>6. pos[1] = 1
  <2>1. PICK k \in 1 .. Len(out) : pos[k] = 1
    BY <1>4, <1>5
  <2>2. CASE k # 1
    <3>1. k - 1 \in 1 .. Len(out) - 1 /\ (k - 1) + 1 = k /\ k - 1 \in 1 .. Len(out)
      BY <1>3, <2>2
    <3>2. pos[k - 1] < 1 /\ pos[k - 1] \in 1 .. Len(s) - 1
      BY <1>4, <2>1, <3>1
    <3> QED
      BY <3>2
  <2> QED
    BY <2>1, <2>2
<1> DEFINE new == [k \in 1 .. Len(less) |-> pos[k + 1] - 1]
<1>7. \A k \in 1 .. Len(less) : /\ k + 1 \in 1 .. Len(out) /\ less[k] = out[k + 1]
                                /\ pos[k + 1] \in 2 .. Len(s) - 1
  <2> TAKE k \in 1 .. Len(less)
  <2>1. k \in 1 .. Len(out) - 1 /\ k \in 1 .. Len(out) /\ k + 1 \in 1 .. Len(out)
    BY <1>3
  <2>2. pos[k] < pos[k + 1] /\ pos[k] \in 1 .. Len(s) - 1 /\ pos[k + 1] \in 1 .. Len(s) - 1
    BY <1>4, <2>1
  <2> QED
    BY <1>3, <2>1, <2>2
<1>8. new \in [1 .. Len(less) -> 1 .. Len(t) - 1]
  BY <1>2, <1>7
<1>9. ASSUME NEW k \in 1 .. Len(less) - 1
      PROVE  new[k] < new[k + 1]
  <2>1. k + 1 \in 1 .. Len(out) - 1 /\ k \in 1 .. Len(less) /\ k + 1 \in 1 .. Len(less)
    BY <1>3
  <2>2. pos[k + 1] < pos[(k + 1) + 1] /\ pos[k + 1] \in 2 .. Len(s) - 1
        /\ pos[(k + 1) + 1] \in 2 .. Len(s) - 1
    BY <1>4, <1>7, <2>1
  <2> QED
    BY <2>1, <2>2
<1>10. ASSUME NEW i \in 1 .. Len(t) - 1, t[i].m = Halt
       PROVE  \E k \in 1 .. Len(less) : new[k] = i
  <2>1. i + 1 \in 1 .. Len(s) - 1 /\ t[i] = s[i + 1] /\ i + 1 # 1
    BY <1>2
  <2>2. PICK k \in 1 .. Len(out) : pos[k] = i + 1
    BY <1>4, <1>10, <2>1
  <2>3. k - 1 \in 1 .. Len(less) /\ (k - 1) + 1 = k
    BY <1>3, <1>6, <2>1, <2>2
  <2>4. new[k - 1] = i
    BY <2>2, <2>3
  <2> QED
    BY <2>3, <2>4
<1>11. ASSUME NEW k \in 1 .. Len(less)
       PROVE  t[new[k]].m = Halt /\ Registered(less[k], t[new[k] + 1])
  <2>1. k + 1 \in 1 .. Len(out) /\ less[k] = out[k + 1]
        /\ pos[k + 1] - 1 \in 1 .. Len(s) - 1 /\ (pos[k + 1] - 1) + 1 = pos[k + 1]
        /\ pos[k + 1] \in 1 .. Len(s) - 1 /\ new[k] = pos[k + 1] - 1
    BY <1>7
  <2>2. t[new[k]] = s[pos[k + 1]] /\ t[new[k] + 1] = s[pos[k + 1] + 1]
    BY <1>2, <2>1
  <2> QED
    BY <1>4, <2>1, <2>2
<1> HIDE DEF new
<1>12. Saved(t, less)
  BY <1>8, <1>9, <1>10, <1>11 DEF Saved
<1>13. Registered(out[1], s[2]) /\ Len(s) >= 2
  BY <1>4, <1>5, <1>6
<1> QED
  BY <1>12, <1>13 DEF t, less

-----------------------------------------------------------------------------
(* The invariant. *)
LEMMA InitInv == Init => IInv
<1> SUFFICES ASSUME Init PROVE IInv
  OBVIOUS
<1> DEFINE m == [m |-> Main, pc |-> "load", locals |-> 0]
           h == HaltFrame(0)
<1> USE FramesAssumption
<1>1. frames = <<m, h>> /\ m \in FrameSet /\ h \in FrameSet
  BY DEF Init, HaltFrame, FrameSet, Places
<1>2. Len(frames) = 2 /\ frames[1] = m /\ frames[2] = h /\ frames \in Seq(FrameSet)
  BY <1>1
<1>3. /\ LowOf(m) = 0 /\ First(m) = Info[Main].maxLocals
      /\ Last(m) = Info[Main].maxLocals + Info[Main].maxStack
      /\ LowOf(h) = 0 /\ First(h) = 0 /\ Last(h) = 0
  BY DEF HaltFrame, LowOf, First, Last
<1>4. Stack(frames)
  <2>1. FrameOk(m) /\ FrameOk(h) /\ Waits(h, m)
    BY <1>3 DEF FrameOk, Waits, HaltFrame, Java
  <2>2. Last(m) =< StackSize - FrameWords * 2 /\ Last(h) =< StackSize - FrameWords * 1
    BY <1>3
  <2>3. ASSUME NEW i \in 1 .. Len(frames)
        PROVE  FrameOk(frames[i]) /\ Last(frames[i]) =< StackSize - FrameWords * (Len(frames) - i + 1)
    <3>1. CASE i = 1
      BY <1>2, <2>1, <2>2, <3>1
    <3>2. CASE i = 2
      BY <1>2, <2>1, <2>2, <3>2
    <3> QED
      BY <1>2, <3>1, <3>2
  <2>4. \A i, j \in 1 .. Len(frames) : i < j => First(frames[j]) =< LowOf(frames[i])
    BY <1>2, <1>3
  <2>5. \A i \in 1 .. Len(frames) - 1 : Waits(frames[i + 1], frames[i])
    BY <1>2, <2>1
  <2>6. frames # <<>> /\ frames[Len(frames)].m = Halt
    BY <1>1, <1>2 DEF HaltFrame
  <2> QED
    BY <1>2, <2>3, <2>4, <2>5, <2>6 DEF Stack
<1>5. Saved(frames, outer)
  <2>1. outer = <<>> /\ Len(outer) = 0
    BY DEF Init
  <2> DEFINE pos == [k \in 1 .. Len(outer) |-> 1]
  <2>2. pos \in [1 .. Len(outer) -> 1 .. Len(frames) - 1]
    BY <2>1
  <2>3. \A i \in 1 .. Len(frames) - 1 : frames[i].m # Halt
    BY <1>2
  <2>4. \A k \in 1 .. Len(outer) : FALSE
    BY <2>1
  <2> HIDE DEF pos
  <2>5. \A k \in 1 .. Len(outer) - 1 : FALSE
    BY <2>1
  <2> QED
    BY <2>2, <2>3, <2>4, <2>5 DEF Saved
<1>6. RegistersInv /\ ThreadSpInv
  BY <1>2, <1>3 DEF Init, RegistersInv, Unwinds, ThreadSpInv, Registered, Top, HaltFrame
<1>7. Balanced
  <2>1. ASSUME NEW l \in Locks PROVE holds[l] = Entries(frames, l) /\ holds[l] = 0
    <3>1. {i \in 1 .. Len(frames) : Inside(frames[i], l)} = {}
      BY <1>2 DEF Inside, HaltFrame
    <3>2. Entries(frames, l) = 0
      BY <3>1, FS_EmptySet DEF Entries
    <3> QED
      BY <3>2 DEF Init
  <2> QED
    BY <2>1 DEF Init, Balanced
<1>8. TypeOK
  BY DEF Init, TypeOK, Locks
<1> QED
  BY <1>4, <1>5, <1>6, <1>7, <1>8 DEF IInv

(* What the invariant says of the top of the stack. *)
LEMMA TopFacts ==
    ASSUME IInv
    PROVE  /\ frames \in Seq(FrameSet) /\ Len(frames) \in Nat /\ Len(frames) >= 1 /\ frames # <<>>
           /\ Top \in FrameSet /\ FrameOk(Top) /\ Method = Info[Top.m]
           /\ Last(Top) =< StackSize - FrameWords * Len(frames)
           /\ Tail(frames) \in Seq(FrameSet)
           /\ LowOf(Top) \in Int /\ First(Top) \in Int /\ Last(Top) \in Int
           /\ 0 =< LowOf(Top) /\ LowOf(Top) =< First(Top) /\ First(Top) =< Last(Top)
           /\ \A i \in 1 .. Len(frames) : frames[i].m = Halt => LowOf(frames[i]) =< threadSp
           /\ \A i \in 1 .. Len(frames) : LowOf(frames[i]) =< LowOf(Top) /\ LowOf(frames[i]) \in Int
           /\ sp \in Int /\ threadSp \in Int /\ locals \in Int
<1>1. frames \in Seq(FrameSet) /\ Len(frames) \in Nat /\ Len(frames) >= 1 /\ frames # <<>>
  BY DEF IInv, Stack
<1>2. 1 \in 1 .. Len(frames) /\ Top \in FrameSet /\ Len(frames) - 1 + 1 = Len(frames)
  BY <1>1 DEF Top
<1>3. FrameOk(Top) /\ Last(Top) =< StackSize - FrameWords * (Len(frames) - 1 + 1)
  BY <1>2 DEF IInv, Stack, Top
<1>4. ASSUME NEW i \in 1 .. Len(frames)
      PROVE  LowOf(frames[i]) =< LowOf(Top) /\ LowOf(frames[i]) \in Int
  <2>1. frames[i] \in FrameSet
    BY <1>1
  <2>2. LowOf(frames[i]) \in Int /\ First(frames[i]) \in Int /\ LowOf(frames[i]) =< First(frames[i])
    BY <2>1, FrameNumbers
  <2>3. LowOf(Top) \in Int
    BY <1>2, FrameNumbers
  <2>4. CASE i = 1
    BY <2>2, <2>3, <2>4 DEF Top
  <2>5. CASE i # 1
    <3>1. First(frames[i]) =< LowOf(Top)
      BY <1>2, <2>5 DEF IInv, Stack, Top
    <3> QED
      BY <2>2, <2>3, <3>1
  <2> QED
    BY <2>4, <2>5
<1>5. LowOf(Top) >= 0
  BY <1>3 DEF FrameOk
<1> QED
  BY <1>1, <1>2, <1>3, <1>4, <1>5, PopSeq, FrameNumbers DEF IInv, TypeOK, ThreadSpInv, Method

(* A method that is not halt_method has a caller, who waits for it. *)
LEMMA CallerFacts ==
    ASSUME IInv, Top.m # Halt
    PROVE  /\ Len(frames) >= 2 /\ Stack(Tail(frames)) /\ Saved(Tail(frames), outer)
           /\ frames[2] \in FrameSet /\ FrameOk(frames[2])
           /\ Waits(frames[2], Top) /\ First(frames[2]) =< LowOf(Top)
           /\ Tail(frames)[1] = frames[2] /\ Len(Tail(frames)) = Len(frames) - 1
           /\ \A i \in 1 .. Len(Tail(frames)) : Tail(frames)[i] = frames[i + 1] /\ i + 1 \in 1 .. Len(frames)
<1>1. frames \in Seq(FrameSet) /\ Len(frames) \in Nat /\ Len(frames) >= 1 /\ frames # <<>>
  BY TopFacts
<1>2. Len(frames) >= 2
  BY <1>1 DEF IInv, Stack, Top
<1>3. /\ 2 \in 1 .. Len(frames) /\ 1 \in 1 .. Len(frames) /\ 1 \in 1 .. Len(frames) - 1 /\ 1 < 2
      /\ frames[1 + 1] = frames[2]
  BY <1>1, <1>2
<1>4. Waits(frames[2], Top) /\ First(frames[2]) =< LowOf(Top) /\ FrameOk(frames[2])
  BY <1>3 DEF IInv, Stack, Top
<1>5. Stack(Tail(frames))
  BY <1>2, StackPop DEF IInv
<1>6. Len(outer) \in Nat
  BY DEF IInv, TypeOK
<1>7. Saved(Tail(frames), outer)
  BY <1>1, <1>2, <1>6, SavedPop DEF IInv, Top
<1> QED
  BY <1>1, <1>2, <1>3, <1>4, <1>5, <1>7, PopSeq

(* thread->sp stays behind every halt frame that was there before.         *)
Halts(t) == \A i \in 1 .. Len(frames) : frames[i].m = Halt => LowOf(frames[i]) =< t

LEMMA HaltsLater ==
    ASSUME IInv, NEW t \in Int, LowOf(Top) =< t \/ t = threadSp
    PROVE  Halts(t)
<1> SUFFICES ASSUME NEW i \in 1 .. Len(frames), frames[i].m = Halt
             PROVE  LowOf(frames[i]) =< t
  BY DEF Halts
<1>1. LowOf(frames[i]) =< LowOf(Top) /\ LowOf(frames[i]) \in Int /\ LowOf(Top) \in Int
      /\ LowOf(frames[i]) =< threadSp
  BY TopFacts
<1> QED
  BY <1>1

(* The frame on top is popped.                                             *)
LEMMA Leave ==
    ASSUME IInv, Top.m # Halt, frames' = Tail(frames), outer' = outer,
           threadSp' \in Int, LowOf(Top) =< threadSp' \/ threadSp' = threadSp
    PROVE  /\ Stack(frames') /\ Saved(frames', outer') /\ Halts(threadSp)'
           /\ Top' = frames[2] /\ Top' \in FrameSet /\ FrameOk(Top')
           /\ Top'.pc \in Java \union {"halt"} /\ LowOf(Top') = frames[2].locals
           /\ Top'.m # Halt => LowOf(Top) + Method.ret \in First(Top') .. Last(Top')
           /\ \A l : /\ Entries(frames', l) \in Nat
                     /\ Entries(frames, l) = Entries(frames', l) + IF Inside(Top, l) THEN 1 ELSE 0
<1>1. Stack(frames') /\ Saved(frames', outer') /\ Top' = frames[2] /\ Top' \in FrameSet /\ FrameOk(Top')
  BY CallerFacts DEF Top
<1>2. Halts(threadSp)'
  <2>1. Halts(threadSp')
    BY HaltsLater
  <2>2. \A i \in 1 .. Len(frames') : frames'[i] = frames[i + 1] /\ i + 1 \in 1 .. Len(frames)
    BY CallerFacts
  <2>3. \A i \in 1 .. Len(frames') : frames'[i].m = Halt => LowOf(frames'[i]) =< threadSp'
    BY <2>1, <2>2 DEF Halts
  <2> QED
    BY <2>3 DEF Halts
<1>3. Top'.pc \in Java \union {"halt"} /\ (Top'.m # Halt => LowOf(Top) + Method.ret =< Last(Top'))
  BY <1>1, CallerFacts DEF Waits, Method
<1>4. LowOf(Top') = frames[2].locals
  <2>1. Top'.pc # "innative" /\ frames[2].locals \in Int
    BY <1>1, <1>3 DEF Java, FrameSet
  <2> QED
    BY <1>1, <2>1 DEF LowOf
<1>5. Top'.m # Halt => LowOf(Top) + Method.ret \in First(Top') .. Last(Top')
  <2>1. First(Top') =< LowOf(Top)
    BY <1>1, CallerFacts
  <2>2. First(Top') \in Int /\ Last(Top') \in Int /\ LowOf(Top) \in Int /\ Method.ret \in Nat
    BY <1>1, FrameNumbers, TopFacts
  <2> QED
    BY <1>3, <2>1, <2>2
<1>6. \A l : /\ Entries(frames', l) \in Nat
             /\ Entries(frames, l) = Entries(frames', l) + IF Inside(Top, l) THEN 1 ELSE 0
  BY TopFacts, EntriesPop DEF Top
<1> QED
  BY <1>1, <1>2, <1>3, <1>4, <1>5, <1>6

(* The frame on top goes to another place in its code.                     *)
LEMMA Replace ==
    ASSUME IInv, Top.m # Halt, NEW g \in FrameSet, g.m = Top.m, FrameOk(g), LowOf(g) = LowOf(Top)
    PROVE  /\ Stack(<<g>> \o Tail(frames)) /\ Saved(<<g>> \o Tail(frames), outer)
           /\ First(g) = First(Top) /\ Last(g) = Last(Top)
<1> DEFINE t == Tail(frames)
<1>1. t \in Seq(FrameSet) /\ Len(t) = Len(frames) - 1
  BY TopFacts, PopSeq
<1>2. First(g) = First(Top) /\ Last(g) = Last(Top)
  BY DEF First, Last
<1>3. Waits(t[1], g) /\ First(t[1]) =< LowOf(g) /\ Stack(t) /\ Saved(t, outer) /\ Len(frames) >= 2
  BY <1>2, CallerFacts DEF Waits
<1>4. Len(frames) \in Nat /\ Last(g) =< StackSize - FrameWords * Len(frames) /\ Len(t) + 1 = Len(frames)
      /\ Len(t) >= 1
  BY <1>1, <1>2, <1>3, TopFacts
<1>5. Last(g) =< StackSize - FrameWords * (Len(t) + 1)
  BY <1>4
<1>6. Len(outer) \in Nat
  BY DEF IInv, TypeOK
<1> HIDE DEF t
<1>7. Stack(<<g>> \o t)
  BY <1>3, <1>5, StackPush
<1>8. Saved(<<g>> \o t, outer)
  BY <1>1, <1>3, <1>4, <1>6, SavedPush
<1> QED
  BY <1>2, <1>7, <1>8 DEF t

LEMMA Change ==
    ASSUME IInv, Top.m # Halt, NEW g \in FrameSet, g.m = Top.m, FrameOk(g), LowOf(g) = LowOf(Top),
           frames' = [frames EXCEPT ![1] = g], outer' = outer,
           threadSp' \in Int, LowOf(Top) =< threadSp' \/ threadSp' = threadSp
    PROVE  /\ Stack(frames') /\ Saved(frames', outer') /\ Halts(threadSp)'
           /\ Top' = g /\ First(g) = First(Top) /\ Last(g) = Last(Top)
           /\ \A l : /\ Entries(Tail(frames), l) \in Nat
                     /\ Entries(frames, l) = Entries(Tail(frames), l) + IF Inside(Top, l) THEN 1 ELSE 0
                     /\ Entries(frames', l) = Entries(Tail(frames), l) + IF Inside(g, l) THEN 1 ELSE 0
<1> DEFINE t == Tail(frames)
<1>1. frames' = <<g>> \o t /\ t \in Seq(FrameSet)
  BY TopFacts, PopSeq
<1>2. /\ Stack(<<g>> \o t) /\ Saved(<<g>> \o t, outer)
      /\ First(g) = First(Top) /\ Last(g) = Last(Top)
  BY Replace
<1> HIDE DEF t
<1>3. Stack(frames') /\ Saved(frames', outer')
  BY <1>1, <1>2, Zenon
<1>4. Halts(threadSp)' /\ Top' = g
  <2>1. Halts(threadSp')
    BY HaltsLater
  <2>2. Len(frames') = Len(frames) /\ frames'[1] = g
        /\ \A i \in 1 .. Len(frames) : i # 1 => frames'[i] = frames[i]
    BY TopFacts
  <2>3. \A i \in 1 .. Len(frames') : frames'[i].m = Halt => LowOf(frames'[i]) =< threadSp'
    BY <2>1, <2>2 DEF Halts
  <2> QED
    BY <2>2, <2>3 DEF Halts, Top
<1>5. ASSUME NEW l
       PROVE  /\ Entries(t, l) \in Nat
              /\ Entries(frames, l) = Entries(t, l) + IF Inside(Top, l) THEN 1 ELSE 0
              /\ Entries(frames', l) = Entries(t, l) + IF Inside(g, l) THEN 1 ELSE 0
  <2>1. frames \in Seq(FrameSet) /\ frames # <<>>
    BY TopFacts
  <2>2. /\ Entries(Tail(frames), l) \in Nat
        /\ Entries(frames, l) = Entries(Tail(frames), l) + IF Inside(frames[1], l) THEN 1 ELSE 0
    BY <2>1, EntriesPop
  <2>3. Entries(<<g>> \o t, l) = Entries(t, l) + IF Inside(g, l) THEN 1 ELSE 0
    BY <1>1, EntriesPush
  <2> QED
    BY <1>1, <2>2, <2>3 DEF Top, t
<1> QED
  BY <1>2, <1>3, <1>4, <1>5 DEF t

LEMMA MovedIs ==
    ASSUME IInv, NEW pc \in Places, NEW g, g = [Top EXCEPT !.pc = pc]
    PROVE  /\ Moved(pc) = [frames EXCEPT ![1] = g] /\ g \in FrameSet
           /\ g.m = Top.m /\ g.pc = pc /\ g.locals = Top.locals
<1>1. frames \in Seq(FrameSet) /\ frames # <<>> /\ Top \in FrameSet
  BY TopFacts
<1> QED
  BY <1>1 DEF Moved, Top, FrameSet

(* Monitors stay balanced if those left and the frames that had entered    *)
(* them go together, or an exit without an entry is recorded.              *)
LEMMA BalancedKept ==
    ASSUME IInv, unpaired \subseteq unpaired', exc' = "ims" => unpaired' # {},
           \A l \in Locks :
             /\ holds'[l] \in Nat /\ Entries(frames, l) \in Nat /\ Entries(frames', l) \in Nat
             /\ \/ holds'[l] + Entries(frames, l) = holds[l] + Entries(frames', l)
                \/ l \in unpaired' /\ holds'[l] =< Entries(frames', l)
    PROVE  Balanced'
<1>1. ASSUME NEW l \in Locks
      PROVE  holds'[l] =< Entries(frames', l) /\ (l \notin unpaired' => holds'[l] = Entries(frames', l))
  <2> DEFINE e == Entries(frames, l)
             f == Entries(frames', l)
  <2>1. holds[l] \in Nat /\ holds[l] =< e /\ (l \notin unpaired => holds[l] = e)
    BY DEF IInv, TypeOK, Balanced
  <2>2. holds'[l] \in Nat /\ e \in Nat /\ f \in Nat
    OBVIOUS
  <2>3. holds'[l] + e = holds[l] + f \/ (l \in unpaired' /\ holds'[l] =< f)
    OBVIOUS
  <2>4. l \notin unpaired' => l \notin unpaired
    OBVIOUS
  <2> HIDE DEF e, f
  <2>5. holds'[l] =< f /\ (l \notin unpaired' => holds'[l] = f)
    BY <2>1, <2>2, <2>3, <2>4
  <2> QED
    BY <2>5 DEF f
<1> QED
  BY <1>1 DEF Balanced

(* An exception is raised in the body of the method on top.                *)
LEMMA RaiseInv ==
    ASSUME IInv, mode = "run", Top.pc \in Java, threadSp' = sp, mode' \in {"unwind", "null"},
           exc' \in {"thrown", "ims"}, exc' = "ims" => unpaired # {},
           UNCHANGED <<frames, sp, outer, linked, holds, unpaired>>,
           locals' \in Int, mode' = "unwind" => locals' = locals
    PROVE  IInv'
<1> USE FramesAssumption
<1>1. Top \in FrameSet /\ FrameOk(Top) /\ Top.m # Halt /\ Top' = Top
  BY TopFacts DEF FrameOk, Java, Top
<1>2. locals = LowOf(Top) /\ sp \in First(Top) .. Last(Top)
  BY <1>1 DEF IInv, RegistersInv, Registered
<1>3. LowOf(Top) =< sp /\ sp \in Int
  BY <1>2, TopFacts
<1>4. RegistersInv'
  BY <1>1, <1>2, <1>3 DEF RegistersInv, Unwinds, Top, Method
<1>5. ThreadSpInv'
  <2>1. Halts(sp)
    BY <1>3, HaltsLater
  <2> QED
    BY <2>1 DEF ThreadSpInv, Halts
<1>6. Balanced' /\ TypeOK'
  BY DEF IInv, Balanced, TypeOK
<1>7. Stack(frames') /\ Saved(frames', outer')
  BY DEF IInv
<1> QED
  BY <1>4, <1>5, <1>6, <1>7 DEF IInv

LEMMA ComputeInv == IInv /\ Compute => IInv'
<1> SUFFICES ASSUME IInv, Compute PROVE IInv'
  OBVIOUS
<1> USE FramesAssumption
<1>1. PICK pc \in Java : frames' = Moved(pc) /\ (pc = "try" => Method.maxStack > 0)
  BY DEF Compute, Java
<1> DEFINE g == [Top EXCEPT !.pc = pc]
<1>2. /\ mode = "run" /\ Top.pc \in Java /\ sp' \in Base .. Base + Method.maxStack
      /\ UNCHANGED <<locals, threadSp, exc, mode, outer, linked, holds, unpaired>>
  BY DEF Compute, At
<1>3. /\ frames' = [frames EXCEPT ![1] = g] /\ g \in FrameSet
      /\ g.m = Top.m /\ g.pc = pc /\ g.locals = Top.locals
  BY <1>1, MovedIs DEF Java, Places
<1>4. Top \in FrameSet /\ FrameOk(Top) /\ Top.m # Halt /\ Top.m \in Methods
  BY <1>2, TopFacts DEF FrameOk, Java, FrameSet
<1> HIDE DEF g
<1>5. LowOf(g) = LowOf(Top) /\ LowOf(Top) = Top.locals
  BY <1>1, <1>2, <1>3, <1>4 DEF LowOf, Java, FrameSet
<1>6. FrameOk(g)
  BY <1>1, <1>3, <1>4, <1>5 DEF FrameOk, Java, Method
<1>7. threadSp' \in Int /\ threadSp' = threadSp /\ outer' = outer
  BY <1>2, TopFacts
<1>8. /\ Stack(frames') /\ Saved(frames', outer') /\ Halts(threadSp)'
      /\ Top' = g /\ First(g) = First(Top) /\ Last(g) = Last(Top)
  BY <1>3, <1>4, <1>5, <1>6, <1>7, Change
<1>9. \A l : Entries(frames', l) = Entries(frames, l)
  <2> TAKE l
  <2>1. Inside(g, l) <=> Inside(Top, l)
    BY <1>1, <1>2, <1>3 DEF Inside, Java
  <2> QED
    BY <1>3, <1>4, <1>5, <1>6, <1>7, <2>1, Change
<1>10. RegistersInv'
  <2>1. locals = LowOf(Top)
    BY <1>2, <1>4 DEF IInv, RegistersInv, Registered
  <2>2. sp' \in First(g) .. Last(g)
    BY <1>2, <1>5, <1>8 DEF Base, First, Last, Method
  <2> QED
    BY <1>2, <1>5, <1>8, <2>1, <2>2 DEF RegistersInv, Unwinds, Registered
<1>11. ThreadSpInv'
  BY <1>1, <1>3, <1>8 DEF ThreadSpInv, Halts, Java
<1>12. Balanced'
  BY <1>2, <1>9 DEF IInv, Balanced
<1>13. TypeOK'
  <2>1. sp' \in Int
    BY <1>2, <1>4 DEF Base, Method, FrameSet
  <2> QED
    BY <1>2, <2>1 DEF IInv, TypeOK
<1> QED
  BY <1>8, <1>10, <1>11, <1>12, <1>13 DEF IInv

LEMMA ThrowInv == ASSUME IInv, Throw \/ \E m \in Methods : InvokeNull(m) PROVE IInv'
<1>1. CASE Throw
  <2>1. /\ mode = "run" /\ Top.pc \in Java /\ threadSp' = sp
        /\ exc' = "thrown" /\ mode' = "unwind"
        /\ UNCHANGED <<frames, sp, locals, outer, linked, holds, unpaired>>
    BY <1>1 DEF Throw, At, Raise
  <2>2. locals' \in Int
    BY <2>1 DEF IInv, TypeOK
  <2> QED
    BY <2>1, <2>2, RaiseInv
<1>2. ASSUME NEW m \in Methods, InvokeNull(m) PROVE IInv'
  <2>1. /\ mode = "run" /\ Top.pc \in Java /\ threadSp' = sp /\ locals' = sp - Info[m].args
        /\ exc' = "thrown" /\ mode' = "null"
        /\ UNCHANGED <<frames, sp, outer, linked, holds, unpaired>>
    BY <1>2 DEF InvokeNull, Callable, At
  <2>2. Info[m].args \in Nat /\ sp \in Int
    BY FramesAssumption DEF IInv, TypeOK
  <2>3. locals' \in Int
    BY <2>1, <2>2
  <2> QED
    BY <2>1, <2>3, RaiseInv
<1> QED
  BY <1>1, <1>2

(* A frame that is popped while the method runs hands its result over.     *)
LEMMA PopInv ==
    ASSUME IInv, mode = "run", Top.m # Halt, Pop(locals, Method.ret),
           UNCHANGED <<exc, mode, outer, linked, unpaired>>,
           threadSp' = sp \/ threadSp' = threadSp,
           holds' \in [Locks -> Nat],
           \A l \in Locks : holds'[l] + (IF Inside(Top, l) THEN 1 ELSE 0) = holds[l]
    PROVE  /\ IInv' /\ sp' = LowOf(Top) + Method.ret
           /\ frames' = Tail(frames) /\ locals' = frames'[1].locals
<1> USE FramesAssumption
<1>1. locals = LowOf(Top) /\ sp \in First(Top) .. Last(Top)
  BY DEF IInv, RegistersInv, Registered
<1>2. frames' = Tail(frames) /\ sp' = LowOf(Top) + Method.ret /\ locals' = frames[2].locals
  BY <1>1 DEF Pop
<1>3. threadSp' \in Int /\ (LowOf(Top) =< threadSp' \/ threadSp' = threadSp)
  BY <1>1, TopFacts
<1>4. /\ Stack(frames') /\ Saved(frames', outer') /\ Halts(threadSp)'
      /\ Top' = frames[2] /\ Top' \in FrameSet /\ FrameOk(Top')
      /\ Top'.pc \in Java \union {"halt"} /\ LowOf(Top') = frames[2].locals
      /\ Top'.m # Halt => LowOf(Top) + Method.ret \in First(Top') .. Last(Top')
  BY <1>2, <1>3, Leave
<1>5. \A l : /\ Entries(frames', l) \in Nat
             /\ Entries(frames, l) = Entries(frames', l) + IF Inside(Top, l) THEN 1 ELSE 0
  BY <1>2, <1>3, Leave
<1>6. RegistersInv'
  BY <1>2, <1>4 DEF RegistersInv, Unwinds, Registered
<1>7. ThreadSpInv'
  BY <1>4 DEF ThreadSpInv, Halts, Java
<1>8. Balanced'
  <2>1. ASSUME NEW l \in Locks
        PROVE  /\ holds'[l] \in Nat /\ Entries(frames, l) \in Nat /\ Entries(frames', l) \in Nat
               /\ holds'[l] + Entries(frames, l) = holds[l] + Entries(frames', l)
    <3>1. holds'[l] \in Nat /\ holds[l] \in Nat
      BY DEF IInv, TypeOK
    <3>2. CASE Inside(Top, l)
      BY <1>5, <3>1, <3>2
    <3>3. CASE ~Inside(Top, l)
      BY <1>5, <3>1, <3>3
    <3> QED
      BY <3>2, <3>3
  <2>2. exc' = "ims" => unpaired' # {}
    BY DEF IInv, Balanced
  <2> QED
    BY <2>1, <2>2, BalancedKept
<1>9. TypeOK'
  <2>3. LowOf(Top) \in Int /\ Method.ret \in Nat
    BY TopFacts, FrameNumbers
  <2>1. sp' \in Int /\ locals' \in Int
    BY <1>2, <1>4, <2>3 DEF FrameSet
  <2> QED
    BY <1>3, <2>1 DEF IInv, TypeOK
<1> QED
  BY <1>2, <1>4, <1>6, <1>7, <1>8, <1>9 DEF IInv, Top

Returned ==
    /\ sp' = LowOf(Top) + Method.ret
    /\ frames' = Tail(frames) /\ locals' = frames'[1].locals

(* A monitor the method on top has entered can be left, unless an exit     *)
(* without an entry has been made for its lock.                            *)
LEMMA MayExit ==
    ASSUME IInv, NEW l \in Locks
    PROVE  /\ Exited(l) \in [Locks -> Nat]
           /\ ExitOk(l) => \A k \in Locks : Exited(l)[k] = IF k = l THEN holds[k] - 1 ELSE holds[k]
           /\ ~ExitOk(l) => Exited(l) = holds /\ holds[l] = 0
           /\ ~ExitOk(l) /\ Inside(Top, l) => l \in unpaired
<1>1. holds[l] \in Nat /\ holds \in [Locks -> Nat] /\ (l \notin unpaired => holds[l] = Entries(frames, l))
  BY DEF IInv, Balanced, TypeOK
<1>2. /\ Entries(Tail(frames), l) \in Nat
      /\ Entries(frames, l) = Entries(Tail(frames), l) + IF Inside(Top, l) THEN 1 ELSE 0
  BY TopFacts, EntriesPop DEF Top
<1>3. CASE ExitOk(l)
  <2>1. Exited(l) = [holds EXCEPT ![l] = @ - 1] /\ holds[l] - 1 \in Nat
    BY <1>1, <1>3 DEF ExitOk, Exited
  <2> QED
    BY <1>1, <1>3, <2>1
<1>4. CASE ~ExitOk(l)
  <2>1. Exited(l) = holds /\ holds[l] = 0
    BY <1>1, <1>4 DEF ExitOk, Exited
  <2>2. Inside(Top, l) => Entries(frames, l) # 0
    BY <1>2
  <2> QED
    BY <1>1, <1>4, <2>1, <2>2
<1> QED
  BY <1>3, <1>4

LEMMA OneMonitor ==
    ASSUME IInv, Method.sync, Top.pc \notin {"load", "native", "enter"}
    PROVE  /\ Method.lock \in Locks /\ Inside(Top, Method.lock)
           /\ \A k \in Locks : Inside(Top, k) <=> k = Method.lock
<1>1. Top.m \in Methods
  BY TopFacts DEF FrameSet
<1> QED
  BY <1>1 DEF Method, Inside, Locks

LEMMA NoMonitor ==
    ASSUME ~Method.sync
    PROVE  \A k \in Locks : ~Inside(Top, k)
  BY DEF Method, Inside

LEMMA ReturnInv ==
    ASSUME IInv, ReturnPlain \/ ReturnMonitorExit
    PROVE  IInv' /\ (mode' = "run" => Returned)
<1> USE FramesAssumption
<1>1. mode = "run" /\ Top.pc \in Java
  BY DEF ReturnPlain, ReturnMonitorExit, Return, At
<1>2. Top.m # Halt
  BY <1>1, TopFacts DEF FrameOk, Java
<1>3. holds \in [Locks -> Nat]
  BY DEF IInv, TypeOK
<1>4. CASE ReturnPlain
  <2>1. /\ ~Method.sync /\ Pop(locals, Method.ret)
        /\ UNCHANGED <<threadSp, exc, mode, outer, linked, holds, unpaired>>
    BY <1>4 DEF ReturnPlain, Return
  <2>2. \A l \in Locks : holds'[l] + (IF Inside(Top, l) THEN 1 ELSE 0) = holds[l]
    BY <1>3, <2>1, NoMonitor
  <2> QED
    BY <1>1, <1>2, <1>3, <2>1, <2>2, PopInv DEF Returned
<1>5. CASE ReturnMonitorExit
  <2>1. /\ Method.sync /\ threadSp' = sp /\ holds' = Exited(Method.lock)
        /\ UNCHANGED <<outer, linked, unpaired>>
    BY <1>5 DEF ReturnMonitorExit
  <2>2. /\ Method.lock \in Locks /\ Inside(Top, Method.lock)
        /\ \A k \in Locks : Inside(Top, k) <=> k = Method.lock
    BY <1>1, <2>1, OneMonitor DEF Java
  <2>3. CASE ExitOk(Method.lock)
    <3>1. /\ holds' \in [Locks -> Nat]
          /\ \A k \in Locks : holds'[k] = IF k = Method.lock THEN holds[k] - 1 ELSE holds[k]
      BY <2>1, <2>2, <2>3, MayExit
    <3>2. Pop(locals, Method.ret) /\ UNCHANGED <<exc, mode>>
      BY <1>5, <2>3 DEF ReturnMonitorExit
    <3>3. \A l \in Locks : holds'[l] + (IF Inside(Top, l) THEN 1 ELSE 0) = holds[l]
      BY <1>3, <2>2, <3>1
    <3> QED
      BY <1>1, <1>2, <2>1, <3>1, <3>2, <3>3, PopInv DEF Returned
  <2>4. CASE ~ExitOk(Method.lock)
    <3>1. holds' = holds /\ unpaired # {}
      BY <2>1, <2>2, <2>4, MayExit
    <3>2. exc' = "ims" /\ mode' = "unwind" /\ UNCHANGED <<frames, sp, locals>>
      BY <1>5, <2>4 DEF ReturnMonitorExit, Raise
    <3>3. locals' \in Int
      BY <3>2 DEF IInv, TypeOK
    <3> QED
      BY <1>1, <2>1, <3>1, <3>2, <3>3, RaiseInv
  <2> QED
    BY <2>3, <2>4
<1> QED
  BY <1>4, <1>5

(* A frame goes to a place where its function looks at it in the same way. *)
LEMMA GoInv ==
    ASSUME IInv, mode = "run", Top.m # Halt, Top.pc \notin {"innative", "halt"},
           NEW pc \in Places \ {"innative", "halt", "try"}, pc = "enter" => Method.sync,
           frames' = Moved(pc), threadSp' = sp, UNCHANGED <<sp, locals, exc, mode, outer, unpaired>>,
           linked' \subseteq Methods, holds' \in [Locks -> Nat],
           \A l \in Locks : holds'[l] = holds[l] + (IF Inside(Top', l) THEN 1 ELSE 0)
                                                 - (IF Inside(Top, l) THEN 1 ELSE 0)
    PROVE  IInv'
<1> DEFINE g == [Top EXCEPT !.pc = pc]
<1> USE FramesAssumption
<1>1. /\ frames' = [frames EXCEPT ![1] = g] /\ g \in FrameSet
      /\ g.m = Top.m /\ g.pc = pc /\ g.locals = Top.locals
  BY MovedIs
<1> HIDE DEF g
<1>2. Top \in FrameSet /\ FrameOk(Top)
  BY TopFacts
<1>3. LowOf(g) = LowOf(Top)
  BY <1>1, <1>2 DEF LowOf
<1>4. FrameOk(g)
  BY <1>1, <1>2, <1>3 DEF FrameOk, Method
<1>5. locals = LowOf(Top) /\ sp \in First(Top) .. Last(Top)
  BY DEF IInv, RegistersInv, Registered
<1>6. threadSp' \in Int /\ LowOf(Top) =< threadSp'
  BY <1>5, TopFacts
<1>7. /\ Stack(frames') /\ Saved(frames', outer') /\ Halts(threadSp)'
      /\ Top' = g /\ First(g) = First(Top) /\ Last(g) = Last(Top)
  BY <1>1, <1>3, <1>4, <1>6, Change
<1>8. \A l : /\ Entries(Tail(frames), l) \in Nat
             /\ Entries(frames, l) = Entries(Tail(frames), l) + IF Inside(Top, l) THEN 1 ELSE 0
             /\ Entries(frames', l) = Entries(Tail(frames), l) + IF Inside(g, l) THEN 1 ELSE 0
  BY <1>1, <1>3, <1>4, <1>6, Change
<1>9. RegistersInv'
  BY <1>3, <1>5, <1>7 DEF RegistersInv, Unwinds, Registered
<1>10. ThreadSpInv'
  BY <1>1, <1>7 DEF ThreadSpInv, Halts
<1>11. Balanced'
  <2>1. ASSUME NEW l \in Locks
        PROVE  /\ holds'[l] \in Nat /\ Entries(frames, l) \in Nat /\ Entries(frames', l) \in Nat
               /\ holds'[l] + Entries(frames, l) = holds[l] + Entries(frames', l)
    <3>1. holds[l] \in Nat /\ holds'[l] \in Nat
      BY DEF IInv, TypeOK
    <3> DEFINE a == IF Inside(Top, l) THEN 1 ELSE 0
               b == IF Inside(g, l) THEN 1 ELSE 0
               n == Entries(Tail(frames), l)
    <3>2. holds'[l] = holds[l] + b - a
      BY <1>7
    <3>3. n \in Nat /\ Entries(frames, l) = n + a /\ Entries(frames', l) = n + b
      BY <1>8
    <3>4. a \in Nat /\ b \in Nat
      OBVIOUS
    <3> HIDE DEF a, b, n
    <3> QED
      BY <3>1, <3>2, <3>3, <3>4
  <2>2. exc' = "ims" => unpaired' # {}
    BY DEF IInv, Balanced
  <2> QED
    BY <2>1, <2>2, BalancedKept
<1>12. TypeOK'
  BY <1>6 DEF IInv, TypeOK
<1> QED
  BY <1>7, <1>9, <1>10, <1>11, <1>12 DEF IInv

LEMMA MethodLoadInv == IInv /\ MethodLoad => IInv'
<1> SUFFICES ASSUME IInv, MethodLoad PROVE IInv'
  OBVIOUS
<1> USE FramesAssumption
<1> DEFINE pc == Code(Top.m)
<1>1. /\ mode = "run" /\ Top.pc = "load" /\ threadSp' = sp
      /\ linked' = linked \union {Top.m} /\ frames' = Moved(pc)
      /\ UNCHANGED <<sp, locals, exc, mode, outer, holds, unpaired>>
  BY DEF MethodLoad, At
<1>2. Top \in FrameSet /\ FrameOk(Top) /\ Top.m # Halt /\ Top.m \in Methods
  BY <1>1, TopFacts DEF FrameOk, FrameSet
<1>3. /\ pc \in Places \ {"innative", "halt", "try"} /\ (pc = "enter" => Method.sync)
      /\ (pc = "body" => ~Method.sync) /\ pc \in {"native", "enter", "body"}
  BY DEF Code, Places, Method
<1> HIDE DEF pc
<1>4. Top'.pc = pc /\ Top'.m = Top.m
  <2>1. frames' = [frames EXCEPT ![1] = [Top EXCEPT !.pc = pc]] /\ frames \in Seq(FrameSet) /\ frames # <<>>
    BY <1>1, <1>3, MovedIs, TopFacts
  <2> QED
    BY <1>2, <2>1 DEF Top, FrameSet
<1>5. \A l \in Locks : ~Inside(Top, l) /\ ~Inside(Top', l)
  BY <1>1, <1>3, <1>4 DEF Inside, Method
<1>6. holds \in [Locks -> Nat] /\ linked' \subseteq Methods
  BY <1>1, <1>2 DEF IInv, TypeOK
<1>7. \A l \in Locks : holds'[l] = holds[l] + (IF Inside(Top', l) THEN 1 ELSE 0)
                                            - (IF Inside(Top, l) THEN 1 ELSE 0)
  BY <1>1, <1>5, <1>6
<1> QED
  BY <1>1, <1>2, <1>3, <1>6, <1>7, GoInv

LEMMA MonitorEnterInv == IInv /\ MonitorEnterSpecial => IInv'
<1> SUFFICES ASSUME IInv, MonitorEnterSpecial PROVE IInv'
  OBVIOUS
<1> USE FramesAssumption
<1>1. /\ mode = "run" /\ Top.pc = "enter" /\ threadSp' = sp
      /\ holds' = Entered(Method.lock) /\ frames' = Moved("body")
      /\ UNCHANGED <<sp, locals, exc, mode, outer, linked, unpaired>>
  BY DEF MonitorEnterSpecial, At
<1>2. Top \in FrameSet /\ FrameOk(Top) /\ Top.m # Halt /\ Top.m \in Methods /\ Method.sync
  BY <1>1, TopFacts DEF FrameOk, FrameSet, Method
<1>3. "body" \in Places \ {"innative", "halt", "try"}
  BY DEF Places
<1>4. Top'.pc = "body" /\ Top'.m = Top.m
  <2>1. frames' = [frames EXCEPT ![1] = [Top EXCEPT !.pc = "body"]] /\ frames \in Seq(FrameSet) /\ frames # <<>>
    BY <1>1, <1>3, MovedIs, TopFacts
  <2> QED
    BY <1>2, <2>1 DEF Top, FrameSet
<1>5. \A l \in Locks : ~Inside(Top, l) /\ (Inside(Top', l) <=> l = Method.lock)
  BY <1>1, <1>2, <1>4 DEF Inside, Method
<1>6. holds \in [Locks -> Nat] /\ linked \subseteq Methods /\ Method.lock \in Locks
  BY <1>2 DEF IInv, TypeOK, Locks, Method
<1>7. holds' \in [Locks -> Nat]
      /\ \A l \in Locks : holds'[l] = IF l = Method.lock THEN holds[l] + 1 ELSE holds[l]
  BY <1>1, <1>6 DEF Entered
<1>8. \A l \in Locks : holds'[l] = holds[l] + (IF Inside(Top', l) THEN 1 ELSE 0)
                                            - (IF Inside(Top, l) THEN 1 ELSE 0)
  BY <1>5, <1>6, <1>7
<1> QED
  BY <1>1, <1>2, <1>3, <1>6, <1>7, <1>8, GoInv

(* Into a native function and out of it: the arguments of a static one.    *)
LEMMA NativeBeginInv == IInv /\ NativeBegin => IInv'
<1> SUFFICES ASSUME IInv, NativeBegin PROVE IInv'
  OBVIOUS
<1> USE FramesAssumption
<1> DEFINE g == [m |-> Top.m, pc |-> "innative", locals |-> Top.locals - Shift(Top)]
<1>1. /\ mode = "run" /\ Top.pc = "native" /\ threadSp' = sp
      /\ holds' = IF Method.sync THEN Entered(Method.lock) ELSE holds
      /\ frames' = [frames EXCEPT ![1] = g]
      /\ UNCHANGED <<sp, locals, exc, mode, outer, linked, unpaired>>
  BY DEF NativeBegin, At, Shifted
<1>2. Top \in FrameSet /\ FrameOk(Top) /\ Top.m # Halt /\ Top.m \in Methods
  BY <1>1, TopFacts DEF FrameOk, FrameSet
<1>3. Shift(Top) \in Int /\ Shift(g) = Shift(Top)
  BY <1>2 DEF Shift, FrameSet
<1>4. g \in FrameSet /\ g.m = Top.m /\ g.pc = "innative" /\ g.locals = Top.locals - Shift(Top)
  BY <1>2, <1>3 DEF FrameSet, Places
<1> HIDE DEF g
<1>5. LowOf(g) = LowOf(Top)
  BY <1>1, <1>2, <1>3, <1>4 DEF LowOf, FrameSet
<1>6. FrameOk(g)
  BY <1>1, <1>2, <1>4, <1>5 DEF FrameOk
<1>7. locals = LowOf(Top) /\ sp \in First(Top) .. Last(Top)
  BY <1>1, <1>2 DEF IInv, RegistersInv, Registered
<1>8. threadSp' \in Int /\ LowOf(Top) =< threadSp' /\ First(Top) =< threadSp'
  BY <1>1, <1>7, TopFacts
<1>9. /\ Stack(frames') /\ Saved(frames', outer') /\ Halts(threadSp)'
       /\ Top' = g /\ First(g) = First(Top) /\ Last(g) = Last(Top)
  BY <1>1, <1>2, <1>4, <1>5, <1>6, <1>8, Change
<1>10. \A l : /\ Entries(Tail(frames), l) \in Nat
              /\ Entries(frames, l) = Entries(Tail(frames), l) + IF Inside(Top, l) THEN 1 ELSE 0
              /\ Entries(frames', l) = Entries(Tail(frames), l) + IF Inside(g, l) THEN 1 ELSE 0
  BY <1>1, <1>2, <1>4, <1>5, <1>6, <1>8, Change
<1>11. RegistersInv'
  BY <1>1, <1>5, <1>7, <1>9 DEF RegistersInv, Unwinds, Registered
<1>12. ThreadSpInv'
  BY <1>8, <1>9 DEF ThreadSpInv, Halts
<1>13. /\ Method.lock \in Locks /\ holds \in [Locks -> Nat]
       /\ \A l \in Locks : ~Inside(Top, l) /\ (Inside(g, l) <=> Method.sync /\ Method.lock = l)
  BY <1>1, <1>2, <1>4 DEF IInv, TypeOK, Locks, Method, Inside
<1>14. holds' \in [Locks -> Nat] /\ \A l \in Locks : holds'[l] = holds[l] + IF Inside(g, l) THEN 1 ELSE 0
  <2>1. CASE Method.sync
    BY <1>1, <1>13, <2>1 DEF Entered
  <2>2. CASE ~Method.sync
    BY <1>1, <1>13, <2>2
  <2> QED
    BY <2>1, <2>2
<1>15. Balanced'
  <2>1. ASSUME NEW l \in Locks
        PROVE  /\ holds'[l] \in Nat /\ Entries(frames, l) \in Nat /\ Entries(frames', l) \in Nat
               /\ holds'[l] + Entries(frames, l) = holds[l] + Entries(frames', l)
    BY <1>10, <1>13, <1>14
  <2>2. exc' = "ims" => unpaired' # {} /\ unpaired \subseteq unpaired'
    BY <1>1 DEF IInv, Balanced
  <2>3. unpaired \subseteq unpaired'
    BY <1>1
  <2> QED
    BY <2>1, <2>2, <2>3, BalancedKept
<1>16. TypeOK'
  BY <1>1, <1>8, <1>14 DEF IInv, TypeOK
<1> QED
  BY <1>9, <1>11, <1>12, <1>15, <1>16 DEF IInv

LEMMA NativeEndInv ==
    ASSUME IInv, NEW e \in {"none", "thrown", "ims"}, NativeEnd(e)
    PROVE  IInv' /\ (mode' = "run" => Returned)
<1> USE FramesAssumption
<1> DEFINE g == [m |-> Top.m, pc |-> "native", locals |-> Top.locals + Shift(Top)]
           failed == Method.sync /\ ~ExitOk(Method.lock)
<1>1. mode = "run" /\ Top.pc = "innative" /\ UNCHANGED <<threadSp, outer, linked, unpaired>>
      /\ holds' = (IF Method.sync THEN Exited(Method.lock) ELSE holds)
      /\ (e = "ims" => unpaired # {})
  BY DEF NativeEnd, At, IInv, Balanced
<1>2. Top \in FrameSet /\ FrameOk(Top) /\ Top.m # Halt /\ Top.m \in Methods
  BY <1>1, TopFacts DEF FrameOk, FrameSet
<1>3. holds \in [Locks -> Nat]
  BY DEF IInv, TypeOK
<1>4. /\ holds' \in [Locks -> Nat]
      /\ ~failed => \A l \in Locks : holds'[l] + (IF Inside(Top, l) THEN 1 ELSE 0) = holds[l]
      /\ failed => \A l \in Locks :
           (~Inside(Top, l) /\ holds'[l] = holds[l]) \/ (l \in unpaired /\ holds'[l] = 0)
  <2>1. CASE Method.sync
    <3>1. /\ Method.lock \in Locks /\ Inside(Top, Method.lock)
          /\ \A k \in Locks : Inside(Top, k) <=> k = Method.lock
      BY <1>1, <2>1, OneMonitor
    <3>2. /\ holds' \in [Locks -> Nat]
          /\ ExitOk(Method.lock) =>
               \A k \in Locks : holds'[k] = IF k = Method.lock THEN holds[k] - 1 ELSE holds[k]
          /\ ~ExitOk(Method.lock) => holds' = holds /\ holds[Method.lock] = 0 /\ Method.lock \in unpaired
      BY <1>1, <2>1, <3>1, MayExit
    <3>3. CASE ExitOk(Method.lock)
      BY <1>3, <3>1, <3>2, <3>3
    <3>4. CASE ~ExitOk(Method.lock)
      <4>1. failed
        BY <2>1, <3>4
      <4>2. ASSUME NEW l \in Locks
            PROVE  (~Inside(Top, l) /\ holds'[l] = holds[l]) \/ (l \in unpaired /\ holds'[l] = 0)
        <5>1. CASE l = Method.lock
          BY <3>2, <3>4, <5>1
        <5>2. CASE l # Method.lock
          BY <3>1, <3>2, <3>4, <5>2
        <5> QED
          BY <5>1, <5>2
      <4>3. holds' \in [Locks -> Nat]
        BY <3>2
      <4> QED
        BY <4>1, <4>2, <4>3, Zenon
    <3> QED
      BY <3>3, <3>4
  <2>2. CASE ~Method.sync
    BY <1>1, <1>3, <2>2, NoMonitor
  <2> QED
    BY <2>1, <2>2
<1>5. CASE e = "none" /\ ~failed
  <2>1. Pop(locals, Method.ret) /\ UNCHANGED <<exc, mode>>
    BY <1>5 DEF NativeEnd
  <2> QED
    BY <1>1, <1>2, <1>4, <1>5, <2>1, PopInv DEF Returned
<1>6. CASE e # "none" \/ failed
  <2>1. /\ exc' \in {"thrown", "ims"} /\ mode' = "unwind" /\ (exc' = "ims" => failed \/ e = "ims")
        /\ frames' = [frames EXCEPT ![1] = g]
        /\ sp' = locals + Method.ret /\ UNCHANGED locals
    BY <1>6 DEF NativeEnd, Raise, Shifted
  <2>2. Shift(Top) \in Int /\ Shift(g) = Shift(Top)
    BY <1>2 DEF Shift, FrameSet
  <2>3. g \in FrameSet /\ g.m = Top.m /\ g.pc = "native" /\ g.locals = Top.locals + Shift(Top)
    BY <1>2, <2>2 DEF FrameSet, Places
  <2> HIDE DEF g, failed
  <2>4. LowOf(g) = LowOf(Top)
    BY <1>1, <1>2, <2>2, <2>3 DEF LowOf, FrameSet
  <2>5. FrameOk(g)
    BY <1>1, <1>2, <2>3, <2>4 DEF FrameOk
  <2>6. threadSp' \in Int /\ threadSp' = threadSp /\ outer' = outer
    BY <1>1, TopFacts
  <2>7. Stack(frames') /\ Saved(frames', outer') /\ Halts(threadSp)' /\ Top' = g
    BY <1>2, <2>1, <2>3, <2>4, <2>5, <2>6, Change
  <2>8. \A l : /\ Entries(Tail(frames), l) \in Nat
               /\ Entries(frames, l) = Entries(Tail(frames), l) + IF Inside(Top, l) THEN 1 ELSE 0
               /\ Entries(frames', l) = Entries(Tail(frames), l) + IF Inside(g, l) THEN 1 ELSE 0
    BY <1>2, <2>1, <2>3, <2>4, <2>5, <2>6, Change
  <2>9. Method.ret \in Nat /\ locals = LowOf(Top) /\ locals \in Int
    BY <1>1, <1>2, TopFacts DEF Method, IInv, RegistersInv, Registered
  <2>10. RegistersInv'
    <3>1. LowOf(Top) =< sp'
      BY <2>1, <2>9
    <3> QED
      BY <2>1, <2>3, <2>4, <2>7, <3>1 DEF RegistersInv, Unwinds, Method
  <2>11. ThreadSpInv'
    BY <2>1, <2>7 DEF ThreadSpInv, Halts
  <2>12. Balanced'
    <3>1. \A l \in Locks : ~Inside(g, l)
      BY <2>3 DEF Inside
    <3>2. ASSUME NEW l \in Locks
          PROVE  /\ holds'[l] \in Nat /\ Entries(frames, l) \in Nat /\ Entries(frames', l) \in Nat
                 /\ \/ holds'[l] + Entries(frames, l) = holds[l] + Entries(frames', l)
                    \/ l \in unpaired' /\ holds'[l] =< Entries(frames', l)
      <4>1. holds'[l] \in Nat /\ holds[l] \in Nat
        BY <1>3, <1>4
      <4>2. CASE ~failed
        BY <1>4, <2>8, <3>1, <4>1, <4>2
      <4>3. CASE failed
        <5>1. \/ ~Inside(Top, l) /\ holds'[l] = holds[l]
              \/ l \in unpaired' /\ holds'[l] = 0
          BY <1>1, <1>4, <4>3
        <5> QED
          BY <2>8, <3>1, <4>1, <5>1
      <4> QED
        BY <4>2, <4>3
    <3>3. failed => unpaired # {}
      <4>1. ASSUME failed PROVE \E l \in Locks : Inside(Top, l)
        BY <1>1, <4>1, OneMonitor DEF failed
      <4> QED
        BY <1>4, <4>1
    <3>4. exc' = "ims" => unpaired' # {}
      BY <1>1, <2>1, <3>3
    <3>5. unpaired \subseteq unpaired'
      BY <1>1
    <3> QED
      BY <3>2, <3>4, <3>5, BalancedKept
  <2>13. TypeOK'
    BY <1>1, <1>4, <2>1, <2>6, <2>9 DEF IInv, TypeOK
  <2> QED
    BY <2>1, <2>7, <2>10, <2>11, <2>12, <2>13 DEF IInv
<1> QED
  BY <1>5, <1>6

(* The exception handler.                                                  *)
LEMMA HandlerFoundInv == IInv /\ HandlerFound => IInv'
<1> SUFFICES ASSUME IInv, HandlerFound PROVE IInv'
  OBVIOUS
<1> USE FramesAssumption
<1>1. /\ Unwinds /\ Top.pc \in {"try", "halt"}
      /\ mode' = (IF locals = Top.locals THEN "run" ELSE "astray")
      /\ exc' = (IF Top.m = Halt THEN exc ELSE "none")
      /\ frames' = (IF Top.m = Halt THEN frames ELSE Moved("body"))
      /\ sp' = Top.locals + Method.maxLocals + 1
      /\ UNCHANGED <<locals, threadSp, outer, linked, holds, unpaired>>
  BY DEF HandlerFound
<1>2. Top \in FrameSet /\ FrameOk(Top) /\ Top.m \in Methods
  BY TopFacts DEF FrameSet
<1>3. TypeOK'
  <2>1. sp' \in Int
    BY <1>1, <1>2 DEF Method, FrameSet
  <2> QED
    BY <1>1, <2>1 DEF IInv, TypeOK
<1>4. CASE Top.m = Halt
  <2>1. frames' = frames /\ Top' = Top /\ exc' = exc /\ Top.pc = "halt"
    BY <1>1, <1>2, <1>4 DEF Top, FrameOk
  <2>2. RegistersInv' /\ ThreadSpInv'
    BY <1>1, <1>4, <2>1 DEF IInv, RegistersInv, Unwinds, ThreadSpInv
  <2>3. Stack(frames') /\ Saved(frames', outer') /\ Balanced'
    BY <1>1, <2>1 DEF IInv, Balanced
  <2> QED
    BY <1>3, <2>2, <2>3 DEF IInv
<1>5. CASE Top.m # Halt
  <2> DEFINE g == [Top EXCEPT !.pc = "body"]
  <2>1. Top.pc = "try"
    BY <1>1, <1>2, <1>5 DEF FrameOk
  <2>2. /\ frames' = [frames EXCEPT ![1] = g] /\ g \in FrameSet
        /\ g.m = Top.m /\ g.pc = "body" /\ g.locals = Top.locals
    BY <1>1, <1>5, MovedIs DEF Places
  <2> HIDE DEF g
  <2>3. LowOf(g) = LowOf(Top) /\ LowOf(Top) = Top.locals
    BY <1>2, <2>1, <2>2 DEF LowOf, FrameSet
  <2>4. FrameOk(g)
    BY <1>2, <1>5, <2>2, <2>3 DEF FrameOk
  <2>5. threadSp' \in Int /\ threadSp' = threadSp /\ outer' = outer
    BY <1>1, TopFacts
  <2>6. /\ Stack(frames') /\ Saved(frames', outer') /\ Halts(threadSp)'
        /\ Top' = g /\ First(g) = First(Top) /\ Last(g) = Last(Top)
    BY <1>5, <2>2, <2>3, <2>4, <2>5, Change
  <2>7. \A l : Entries(frames', l) = Entries(frames, l)
    <3> TAKE l
    <3>1. Inside(g, l) <=> Inside(Top, l)
      BY <2>1, <2>2 DEF Inside
    <3> QED
      BY <1>5, <2>2, <2>3, <2>4, <2>5, <3>1, Change
  <2>8. RegistersInv'
    <3>1. mode' = "run" => locals' = LowOf(Top)
      BY <1>1, <2>3
    <3>2. Info[Top.m].maxStack > 0 /\ Info[Top.m].maxStack \in Nat /\ Info[Top.m].maxLocals \in Nat
      BY <1>2, <2>1 DEF FrameOk
    <3>3. sp' = First(Top) + 1 /\ Last(Top) = First(Top) + Info[Top.m].maxStack
      BY <1>1, <2>3 DEF First, Last, Method
    <3>4. First(Top) \in Int
      BY TopFacts
    <3>5. sp' \in First(g) .. Last(g)
      BY <2>6, <3>2, <3>3, <3>4
    <3> QED
      BY <1>1, <2>3, <2>6, <3>1, <3>5 DEF RegistersInv, Unwinds, Registered
  <2>9. ThreadSpInv'
    BY <2>2, <2>6 DEF ThreadSpInv, Halts
  <2>10. Balanced'
    BY <1>1, <1>5, <2>7 DEF IInv, Balanced
  <2> QED
    BY <1>3, <2>6, <2>8, <2>9, <2>10 DEF IInv
<1> QED
  BY <1>4, <1>5

(* What the unwinding of a frame does to the monitors.                     *)
LEMMA UnwindMonitorInv ==
    ASSUME IInv, Unwinds, Top.m # Halt,
           IF Method.sync THEN UnwindMonitor ELSE UNCHANGED <<holds, exc, threadSp, unpaired>>
    PROVE  /\ holds' \in [Locks -> Nat] /\ unpaired \subseteq unpaired' /\ unpaired' \subseteq Locks
           /\ exc' \in {exc, "ims"} /\ threadSp' \in {threadSp, sp}
           /\ exc' = "ims" => unpaired' # {}
           /\ \A l \in Locks :
                \/ holds'[l] + (IF Inside(Top, l) THEN 1 ELSE 0) = holds[l]
                \/ l \in unpaired' /\ holds'[l] = 0
                \/ l \in unpaired' /\ ~Inside(Top, l) /\ holds'[l] =< holds[l]
<1>1. holds \in [Locks -> Nat] /\ unpaired \subseteq Locks /\ (exc = "ims" => unpaired # {})
  BY DEF IInv, TypeOK, Balanced
<1>2. CASE ~Method.sync
  BY <1>1, <1>2, NoMonitor
<1>3. CASE Method.sync
  <2>1. Method.lock \in Locks /\ UnwindMonitor
    BY <1>3, TopFacts DEF Method, Locks, FrameSet
  <2>2. Top.pc \in Java \union {"native", "load"}
    BY <1>3 DEF IInv, RegistersInv
  <2>3. CASE Top.pc \in Java
    <3>1. /\ LeaveMonitor(ExitOk(Method.lock), Exited(Method.lock)) /\ unpaired' = unpaired
      BY <2>1, <2>3 DEF UnwindMonitor, Java
    <3>2. Inside(Top, Method.lock) /\ \A k \in Locks : Inside(Top, k) <=> k = Method.lock
      BY <1>3, <2>3, OneMonitor DEF Java
    <3>3. CASE ExitOk(Method.lock)
      <4>1. /\ holds' = Exited(Method.lock) /\ UNCHANGED <<exc, threadSp>>
            /\ Exited(Method.lock) \in [Locks -> Nat]
            /\ \A k \in Locks : Exited(Method.lock)[k] = IF k = Method.lock THEN holds[k] - 1 ELSE holds[k]
        BY <2>1, <3>1, <3>3, MayExit DEF LeaveMonitor
      <4> QED
        BY <1>1, <3>1, <3>2, <4>1
    <3>4. CASE ~ExitOk(Method.lock)
      <4>1. /\ holds' = holds /\ exc' = "ims" /\ threadSp' = sp
            /\ holds[Method.lock] = 0 /\ Method.lock \in unpaired
        BY <2>1, <3>1, <3>2, <3>4, MayExit DEF LeaveMonitor
      <4> QED
        BY <1>1, <3>1, <3>2, <4>1
    <3> QED
      BY <3>3, <3>4
  <2>4. CASE Top.pc \in {"native", "load"}
    <3>1. \A k : ~Inside(Top, k)
      BY <2>4 DEF Inside
    <3>2. \/ \E l \in Locks : /\ LeaveMonitor(ExitOk(l), Exited(l))
                             /\ unpaired' = unpaired \union {l, Method.lock}
          \/ /\ LeaveMonitor(FALSE, holds)
             /\ unpaired' = unpaired \union {Method.lock}
      <4>1. CASE Top.pc = "native" /\ ~Method.static
        BY <2>1, <4>1 DEF UnwindMonitor, LeaveAny
      <4>2. CASE ~(Top.pc = "native" /\ ~Method.static)
        <5>1. /\ LeaveMonitor(ExitOk(Method.lock), Exited(Method.lock))
              /\ unpaired' = unpaired \union {Method.lock, Method.lock}
          BY <2>1, <2>4, <4>2 DEF UnwindMonitor, Java
        <5> QED
          BY <2>1, <5>1
      <4> QED
        BY <4>1, <4>2
    <3>3. CASE LeaveMonitor(FALSE, holds) /\ unpaired' = unpaired \union {Method.lock}
      BY <1>1, <2>1, <3>1, <3>3 DEF LeaveMonitor
    <3>4. ASSUME NEW l \in Locks, LeaveMonitor(ExitOk(l), Exited(l)),
                 unpaired' = unpaired \union {l, Method.lock}
          PROVE  /\ holds' \in [Locks -> Nat] /\ exc' \in {exc, "ims"} /\ threadSp' \in {threadSp, sp}
                 /\ \A k \in Locks : holds'[k] = holds[k] \/ (k = l /\ holds'[k] =< holds[k])
      <4>1. holds' = Exited(l) /\ exc' \in {exc, "ims"} /\ threadSp' \in {threadSp, sp}
        BY <3>4 DEF LeaveMonitor
      <4>2. CASE ExitOk(l)
        BY <1>1, <4>1, <4>2, MayExit
      <4>3. CASE ~ExitOk(l)
        BY <1>1, <4>1, <4>3, MayExit
      <4> QED
        BY <4>1, <4>2, <4>3
    <3>5. ASSUME NEW l \in Locks, LeaveMonitor(ExitOk(l), Exited(l)),
                 unpaired' = unpaired \union {l, Method.lock}
          PROVE  /\ unpaired \subseteq unpaired' /\ unpaired' \subseteq Locks /\ unpaired' # {}
                 /\ \A k \in Locks :
                      \/ holds'[k] + (IF Inside(Top, k) THEN 1 ELSE 0) = holds[k]
                      \/ k \in unpaired' /\ ~Inside(Top, k) /\ holds'[k] =< holds[k]
      <4>1. \A k \in Locks : holds'[k] = holds[k] \/ (k = l /\ holds'[k] =< holds[k])
        BY <3>4, <3>5
      <4>2. unpaired \subseteq unpaired' /\ unpaired' \subseteq Locks /\ l \in unpaired'
        BY <1>1, <2>1, <3>5
      <4> QED
        BY <1>1, <3>1, <4>1, <4>2
    <3> QED
      BY <3>2, <3>3, <3>4, <3>5
  <2> QED
    BY <2>2, <2>3, <2>4
<1> QED
  BY <1>2, <1>3

LEMMA HandlerNotFoundInv == IInv /\ HandlerNotFound => IInv'
<1> SUFFICES ASSUME IInv, HandlerNotFound PROVE IInv'
  OBVIOUS
<1> USE FramesAssumption
<1>1. /\ Unwinds /\ Top.pc \notin {"try", "halt"} /\ mode' = "unwind"
      /\ IF Method.sync THEN UnwindMonitor ELSE UNCHANGED <<holds, exc, threadSp, unpaired>>
      /\ frames' = Tail(frames) /\ locals' = frames[2].locals
      /\ UNCHANGED <<sp, outer, linked>>
  BY DEF HandlerNotFound
<1>2. Top \in FrameSet /\ FrameOk(Top) /\ Top.m # Halt /\ Top.m \in Methods
  BY <1>1, TopFacts DEF FrameOk, FrameSet
<1>3. /\ holds' \in [Locks -> Nat] /\ unpaired \subseteq unpaired' /\ unpaired' \subseteq Locks
      /\ exc' \in {exc, "ims"} /\ threadSp' \in {threadSp, sp}
      /\ exc' = "ims" => unpaired' # {}
  BY <1>1, <1>2, UnwindMonitorInv
<1>4. LowOf(Top) =< sp /\ sp \in Int /\ threadSp \in Int
  BY <1>1, TopFacts DEF IInv, RegistersInv
<1>5. threadSp' \in Int /\ (LowOf(Top) =< threadSp' \/ threadSp' = threadSp)
  BY <1>3, <1>4
<1>6. /\ Stack(frames') /\ Saved(frames', outer') /\ Halts(threadSp)'
      /\ Top' = frames[2] /\ Top' \in FrameSet /\ FrameOk(Top')
      /\ Top'.pc \in Java \union {"halt"} /\ LowOf(Top') = frames[2].locals
  BY <1>1, <1>2, <1>5, Leave
<1>7. \A l : /\ Entries(frames', l) \in Nat
             /\ Entries(frames, l) = Entries(frames', l) + IF Inside(Top, l) THEN 1 ELSE 0
  BY <1>1, <1>2, <1>5, Leave
<1>8. RegistersInv'
  <2>1. Info[Top'.m].sync => Top'.pc \in Java
    BY <1>6 DEF FrameOk
  <2>2. LowOf(Top') =< sp'
    <3>1. First(frames[2]) =< LowOf(Top) /\ frames[2] \in FrameSet
      BY <1>2, CallerFacts
    <3>2. /\ LowOf(frames[2]) =< First(frames[2]) /\ LowOf(frames[2]) \in Int /\ First(frames[2]) \in Int
          /\ LowOf(Top) \in Int
      BY <3>1, FrameNumbers, TopFacts
    <3> QED
      BY <1>1, <1>4, <1>6, <3>1, <3>2
  <2> QED
    BY <1>1, <1>6, <2>1, <2>2 DEF RegistersInv, Unwinds, Method
<1>9. ThreadSpInv'
  BY <1>1, <1>6 DEF ThreadSpInv, Halts
<1>10. Balanced'
  <2>1. ASSUME NEW l \in Locks
        PROVE  /\ holds'[l] \in Nat /\ Entries(frames, l) \in Nat /\ Entries(frames', l) \in Nat
               /\ \/ holds'[l] + Entries(frames, l) = holds[l] + Entries(frames', l)
                  \/ l \in unpaired' /\ holds'[l] =< Entries(frames', l)
    <3> DEFINE a == IF Inside(Top, l) THEN 1 ELSE 0
               e == Entries(frames, l)
               f == Entries(frames', l)
    <3>1. holds[l] \in Nat /\ holds'[l] \in Nat /\ e \in Nat /\ f \in Nat /\ a \in Nat /\ e = f + a
      BY <1>3, <1>7 DEF IInv, TypeOK
    <3>2. holds[l] =< e
      BY DEF IInv, Balanced
    <3>3. \/ holds'[l] + a = holds[l]
          \/ l \in unpaired' /\ holds'[l] = 0
          \/ l \in unpaired' /\ a = 0 /\ holds'[l] =< holds[l]
      BY <1>1, <1>2, UnwindMonitorInv
    <3> HIDE DEF a, e, f
    <3>4. holds'[l] + e = holds[l] + f \/ (l \in unpaired' /\ holds'[l] =< f)
      BY <3>1, <3>2, <3>3
    <3> QED
      BY <3>1, <3>4 DEF e, f
  <2> QED
    BY <1>3, <2>1, BalancedKept
<1>11. TypeOK'
  <2>1. locals' \in Int
    BY <1>1, <1>6 DEF FrameSet
  <2> QED
    BY <1>1, <1>3, <1>5, <2>1 DEF IInv, TypeOK
<1> QED
  BY <1>6, <1>8, <1>9, <1>10, <1>11 DEF IInv

(* An interpreter() ends: the one below it goes on with its own registers. *)
LEMMA HaltCallInv == IInv /\ HaltCall => IInv'
<1> SUFFICES ASSUME IInv, HaltCall PROVE IInv'
  OBVIOUS
<1> USE FramesAssumption
<1>1. mode = "run" /\ Top.pc = "halt" /\ UNCHANGED <<threadSp, exc, linked, holds, unpaired>>
  BY DEF HaltCall, At
<1>2. Top \in FrameSet /\ FrameOk(Top) /\ Top.m = Halt
  BY <1>1, TopFacts DEF FrameOk
<1>3. CASE outer = <<>>
  <2>1. mode' = "done" /\ UNCHANGED <<frames, sp, locals, outer>>
    BY <1>3 DEF HaltCall
  <2>2. RegistersInv' /\ ThreadSpInv' /\ Balanced' /\ TypeOK'
    BY <1>1, <2>1 DEF IInv, RegistersInv, Unwinds, ThreadSpInv, Balanced, TypeOK
  <2> QED
    BY <2>1, <2>2 DEF IInv
<1>4. CASE outer # <<>>
  <2>1. /\ frames' = Tail(frames) /\ outer' = Tail(outer)
        /\ sp' = outer[1].sp /\ locals' = outer[1].locals
        /\ mode' = IF exc # "none" /\ frames[2].pc # "innative" THEN "unwind" ELSE "run"
    BY <1>4 DEF HaltCall
  <2>2. outer \in Seq([sp : Int, locals : Int]) /\ outer' \in Seq([sp : Int, locals : Int])
        /\ outer[1] \in [sp : Int, locals : Int]
    BY <1>4, <2>1, PopSeq DEF IInv, TypeOK
  <2>3. frames \in Seq(FrameSet) /\ Len(frames) \in Nat /\ Len(frames) >= 1 /\ frames # <<>>
    BY TopFacts
  <2>4. Len(frames) >= 2 /\ Saved(frames', outer') /\ Registered(outer[1], frames[2])
    BY <1>2, <1>4, <2>1, <2>2, <2>3, SavedReturn DEF IInv, Top
  <2>5. Stack(frames')
    BY <2>1, <2>4, StackPop DEF IInv
  <2>6. /\ Len(frames') = Len(frames) - 1
        /\ \A i \in 1 .. Len(frames') : frames'[i] = frames[i + 1] /\ i + 1 \in 1 .. Len(frames)
    BY <2>1, <2>3, <2>4, PopSeq
  <2>7. Top' = frames[2] /\ frames[2] \in FrameSet
    BY <2>3, <2>4, <2>6 DEF Top
  <2>8. /\ 1 \in 1 .. Len(frames) - 1 /\ 1 \in 1 .. Len(frames) /\ 2 \in 1 .. Len(frames)
        /\ frames[1 + 1] = frames[2] /\ 1 < 2
    BY <2>3, <2>4
  <2>9. Waits(frames[2], Top) /\ First(frames[2]) =< LowOf(Top) /\ FrameOk(frames[2])
    BY <2>8 DEF IInv, Stack, Top
  <2>10. Top'.pc \in Java \union {"innative", "load"} /\ First(Top') =< LowOf(Top)
    BY <1>2, <2>7, <2>9 DEF Waits
  <2>11. RegistersInv'
    <3>1. locals' = LowOf(Top') /\ sp' \in First(Top') .. Last(Top')
      BY <2>1, <2>4, <2>7 DEF Registered
    <3>2. mode' = "unwind" => Top'.pc # "innative"
      BY <2>1, <2>7
    <3>3. LowOf(Top') =< sp'
      <4>1. /\ LowOf(Top') =< First(Top') /\ LowOf(Top') \in Int
            /\ First(Top') \in Int /\ Last(Top') \in Int
        BY <2>7, FrameNumbers
      <4> QED
        BY <3>1, <4>1
    <3> QED
      BY <2>1, <2>10, <3>1, <3>2, <3>3 DEF RegistersInv, Registered, Unwinds, Method
  <2>12. ThreadSpInv'
    <3>1. LowOf(Top) =< threadSp
      BY <1>2, <2>8 DEF IInv, ThreadSpInv, Top
    <3>2. First(Top') \in Int /\ LowOf(Top) \in Int /\ threadSp \in Int
      BY <2>7, FrameNumbers, TopFacts
    <3>3. First(Top') =< threadSp
      BY <2>10, <3>1, <3>2
    <3>4. \A i \in 1 .. Len(frames') : frames'[i].m = Halt => LowOf(frames'[i]) =< threadSp
      BY <2>6 DEF IInv, ThreadSpInv
    <3> QED
      BY <1>1, <3>3, <3>4 DEF ThreadSpInv
  <2>13. Balanced'
    <3>1. ASSUME NEW l \in Locks PROVE Entries(frames', l) = Entries(frames, l)
      <4>1. ~Inside(Top, l)
        BY <1>2 DEF Inside
      <4>2. Entries(frames', l) \in Nat /\ Entries(frames, l) = Entries(frames', l) + 0
        BY <2>1, <2>3, <4>1, EntriesPop DEF Top
      <4> QED
        BY <4>2
    <3> QED
      BY <1>1, <3>1 DEF IInv, Balanced
  <2>14. TypeOK'
    BY <1>1, <2>1, <2>2 DEF IInv, TypeOK
  <2> QED
    BY <2>4, <2>5, <2>11, <2>12, <2>13, <2>14 DEF IInv
<1> QED
  BY <1>3, <1>4

(* Frames that are pushed: they have entered no monitor yet.               *)
LEMMA FrameIs ==
    ASSUME NEW m \in Methods \ {Halt}, NEW l \in Int, 0 =< l
    PROVE  /\ Frame(m, l) \in FrameSet /\ FrameOk(Frame(m, l))
           /\ Frame(m, l).m = m /\ Frame(m, l).pc \in {"load", "native", "enter", "body"}
           /\ LowOf(Frame(m, l)) = l /\ First(Frame(m, l)) = l + Info[m].maxLocals
           /\ Last(Frame(m, l)) = l + Info[m].maxLocals + Info[m].maxStack
           /\ \A k : ~Inside(Frame(m, l), k)
<1> DEFINE g == Frame(m, l)
<1>1. g.m = m /\ g.locals = l /\ g.pc = Entry(m) /\ g = [m |-> m, pc |-> Entry(m), locals |-> l]
  BY DEF Frame
<1>2. /\ Entry(m) \in {"load", "native", "enter", "body"}
      /\ Entry(m) = "enter" => Info[m].sync
      /\ Entry(m) = "body" => ~Info[m].sync
  BY DEF Entry, Code
<1>3. g \in FrameSet
  BY <1>1, <1>2 DEF FrameSet, Places
<1> HIDE DEF g
<1>4. LowOf(g) = l
  BY <1>1, <1>2 DEF LowOf
<1>5. First(g) = l + Info[m].maxLocals /\ Last(g) = l + Info[m].maxLocals + Info[m].maxStack
  BY <1>1, <1>4 DEF First, Last
<1>6. FrameOk(g)
  BY <1>1, <1>2, <1>4 DEF FrameOk
<1>7. \A k : ~Inside(g, k)
  BY <1>1, <1>2 DEF Inside
<1> QED
  BY <1>1, <1>2, <1>3, <1>4, <1>5, <1>6, <1>7 DEF g

LEMMA HaltFrameIs ==
    ASSUME NEW l \in Int, 0 =< l
    PROVE  /\ HaltFrame(l) \in FrameSet /\ FrameOk(HaltFrame(l))
           /\ HaltFrame(l).m = Halt /\ HaltFrame(l).pc = "halt"
           /\ LowOf(HaltFrame(l)) = l /\ First(HaltFrame(l)) = l /\ Last(HaltFrame(l)) = l
           /\ \A k : ~Inside(HaltFrame(l), k)
<1> DEFINE h == HaltFrame(l)
<1>1. h.m = Halt /\ h.pc = "halt" /\ h.locals = l /\ h = [m |-> Halt, pc |-> "halt", locals |-> l]
  BY DEF HaltFrame
<1>2. h \in FrameSet
  BY <1>1, FramesAssumption DEF FrameSet, Places
<1> HIDE DEF h
<1>3. LowOf(h) = l /\ First(h) = l /\ Last(h) = l
  BY <1>1, FramesAssumption DEF LowOf, First, Last
<1>4. FrameOk(h) /\ \A k : ~Inside(h, k)
  BY <1>1, <1>3, FramesAssumption DEF FrameOk, Inside
<1> QED
  BY <1>1, <1>2, <1>3, <1>4 DEF h

(* The virtual machine gives up: the stack is full.                        *)
LEMMA FatalInv ==
    ASSUME IInv, mode' = "fatal", locals' \in Int,
           UNCHANGED <<frames, sp, threadSp, exc, outer, linked, holds, unpaired>>
    PROVE  IInv'
<1>1. RegistersInv' /\ ThreadSpInv' /\ Balanced' /\ TypeOK'
  BY DEF IInv, RegistersInv, Unwinds, ThreadSpInv, Balanced, TypeOK
<1> QED
  BY <1>1 DEF IInv

LEMMA InvokeInv == ASSUME IInv, NEW m \in Methods, Invoke(m) PROVE IInv'
<1> DEFINE l == sp - Info[m].args
           g == Frame(m, l)
<1>1. /\ mode = "run" /\ Top.pc \in Java /\ m # Halt
      /\ Info[m].args =< sp - Base /\ l + Info[m].ret =< Base + Method.maxStack
      /\ locals' = l /\ UNCHANGED <<threadSp, exc, outer, linked, holds, unpaired>>
  BY DEF Invoke, Callable, At
<1>2. Top \in FrameSet /\ Top.m # Halt /\ Top.m \in Methods
  BY <1>1, TopFacts DEF FrameOk, Java, FrameSet
<1>3. Base = First(Top) /\ Base + Method.maxStack = Last(Top)
  BY <1>1, <1>2 DEF Base, First, Last, LowOf, Method, Java, FrameSet
<1>4. /\ sp \in Int /\ Info[m].args \in Nat /\ Info[m].ret \in Nat
      /\ Info[m].maxLocals \in Nat /\ Info[m].maxStack \in Nat
  BY FramesAssumption, TopFacts
<1>5. l \in Int /\ 0 =< l /\ First(Top) =< l /\ First(Top) \in Int
  <2>1. First(Top) \in Int /\ LowOf(Top) \in Int /\ 0 =< LowOf(Top) /\ LowOf(Top) =< First(Top)
    BY TopFacts
  <2>2. Info[m].args =< sp - First(Top)
    BY <1>1, <1>3
  <2> QED
    BY <1>4, <2>1, <2>2
<1> HIDE DEF l
<1>6. CASE Overflows(l, m, 1)
  <2>1. mode' = "fatal" /\ UNCHANGED <<frames, sp>>
    BY <1>1, <1>6 DEF Invoke
  <2> QED
    BY <1>1, <1>5, <2>1, FatalInv
<1>7. CASE ~Overflows(l, m, 1)
  <2>1. frames' = <<g>> \o frames /\ sp' = l + Info[m].maxLocals /\ UNCHANGED mode
    BY <1>1, <1>7 DEF Invoke
  <2>2. /\ g \in FrameSet /\ FrameOk(g) /\ g.m = m /\ g.pc \in {"load", "native", "enter", "body"}
        /\ LowOf(g) = l /\ First(g) = l + Info[m].maxLocals
        /\ Last(g) = l + Info[m].maxLocals + Info[m].maxStack
        /\ \A k : ~Inside(g, k)
    BY <1>1, <1>5, FrameIs
  <2> HIDE DEF g
  <2>3. frames \in Seq(FrameSet) /\ Len(frames) \in Nat /\ Len(frames) >= 1 /\ Len(outer) \in Nat
    BY TopFacts DEF IInv, TypeOK
  <2>4. Last(g) =< StackSize - FrameWords * (Len(frames) + 1)
    <3>1. FrameWords \in Nat /\ StackSize \in Nat /\ FrameWords * Len(frames) \in Int
      BY <2>3, FramesAssumption
    <3>2. Last(g) =< (StackSize - FrameWords * Len(frames)) - 1 * FrameWords
      <4> DEFINE high == (StackSize - FrameWords * Len(frames)) - 1 * FrameWords
      <4>1. ~(Last(g) > high)
        BY <1>7, <2>2 DEF Overflows, FpAddr
      <4>2. high \in Int /\ Last(g) \in Int
        BY <2>2, <3>1, FrameNumbers
      <4> HIDE DEF high
      <4>3. Last(g) =< high
        BY <4>1, <4>2
      <4> QED
        BY <4>3 DEF high
    <3>3. (StackSize - FrameWords * Len(frames)) - 1 * FrameWords = StackSize - FrameWords * (Len(frames) + 1)
      BY <2>3, <3>1
    <3> QED
      BY <3>2, <3>3
  <2>5. Waits(frames[1], g) /\ First(frames[1]) =< LowOf(g)
    BY <1>1, <1>2, <1>3, <1>5, <2>2 DEF Waits, Top
  <2>6. Stack(frames')
    BY <2>1, <2>2, <2>4, <2>5, StackPush DEF IInv
  <2>7. Saved(frames', outer')
    BY <1>1, <2>1, <2>2, <2>3, SavedPush DEF IInv
  <2>8. /\ Top' = g /\ Len(frames') = Len(frames) + 1
        /\ \A i \in 1 .. Len(frames) : frames'[i + 1] = frames[i]
    BY <2>1, <2>2, <2>3, PushSeq DEF Top
  <2>9. RegistersInv'
    <3>1. sp' = First(g) /\ First(g) \in Int /\ Last(g) \in Int /\ First(g) =< Last(g)
      BY <2>1, <2>2, FrameNumbers
    <3>2. sp' \in First(g) .. Last(g)
      BY <3>1
    <3> QED
      BY <1>1, <2>1, <2>2, <2>8, <3>2 DEF RegistersInv, Unwinds, Registered
  <2>10. ThreadSpInv'
    <3>1. ASSUME NEW i \in 1 .. Len(frames'), frames'[i].m = Halt
          PROVE  LowOf(frames'[i]) =< threadSp'
      <4>1. i # 1
        BY <1>1, <2>2, <2>8, <3>1 DEF Top
      <4>2. i - 1 \in 1 .. Len(frames) /\ (i - 1) + 1 = i
        BY <2>3, <2>8, <4>1
      <4>3. frames'[i] = frames[i - 1]
        BY <2>8, <4>2
      <4> QED
        BY <1>1, <3>1, <4>2, <4>3 DEF IInv, ThreadSpInv
    <3> QED
      BY <2>2, <2>8, <3>1 DEF ThreadSpInv
  <2>11. Balanced'
    <3>1. \A k : Entries(frames', k) = Entries(frames, k)
      <4> TAKE k
      <4>1. Entries(frames, k) \in Nat /\ Entries(frames', k) = Entries(frames, k) + 0
        BY <2>1, <2>2, <2>3, EntriesPush
      <4> QED
        BY <4>1
    <3> QED
      BY <1>1, <3>1 DEF IInv, Balanced
  <2>12. TypeOK'
    <3>1. sp' \in Int /\ locals' \in Int
      BY <1>1, <1>4, <1>5, <2>1
    <3> QED
      BY <1>1, <2>1, <3>1 DEF IInv, TypeOK
  <2> QED
    BY <2>6, <2>7, <2>9, <2>10, <2>11, <2>12 DEF IInv
<1> QED
  BY <1>6, <1>7

LEMMA NestedCallInv == ASSUME IInv, NEW m \in Nested, NestedCall(m) PROVE IInv'
<1> DEFINE from == IF Top.pc = "innative" THEN threadSp ELSE sp
           h == HaltFrame(from)
           g == Frame(m, from)
           o == [sp |-> sp, locals |-> locals]
           s == <<h>> \o frames
<1>1. /\ mode = "run" /\ Top.pc \in Java \union {"innative", "load"}
      /\ UNCHANGED <<exc, linked, holds, unpaired>>
  BY DEF NestedCall, At
<1>2. Top \in FrameSet /\ Top.m # Halt /\ Top.m \in Methods /\ m \in Methods \ {Halt}
  BY <1>1, TopFacts, FramesAssumption DEF FrameOk, Java, FrameSet
<1>3. Registered(o, Top) /\ o \in [sp : Int, locals : Int]
  BY <1>1, <1>2, TopFacts DEF IInv, RegistersInv
<1>4. from \in Int /\ First(Top) =< from /\ 0 =< from /\ LowOf(Top) =< from
      /\ First(Top) \in Int /\ LowOf(Top) \in Int
  <2>1. /\ sp \in Int /\ threadSp \in Int /\ First(Top) \in Int /\ LowOf(Top) \in Int
        /\ 0 =< LowOf(Top) /\ LowOf(Top) =< First(Top)
    BY TopFacts
  <2>2. CASE Top.pc = "innative"
    BY <1>1, <2>1, <2>2 DEF IInv, ThreadSpInv
  <2>3. CASE Top.pc # "innative"
    <3>1. sp \in First(Top) .. Last(Top)
      BY <1>3 DEF Registered
    <3>2. Last(Top) \in Int
      BY TopFacts
    <3> QED
      BY <2>1, <2>3, <3>1, <3>2
  <2> QED
    BY <2>2, <2>3
<1>5. CASE Overflows(from, m, 2)
  <2>1. mode' = "fatal" /\ UNCHANGED <<frames, sp, locals, threadSp, outer>>
    BY <1>5 DEF NestedCall
  <2>2. locals' \in Int
    BY <2>1, TopFacts
  <2> QED
    BY <1>1, <2>1, <2>2, FatalInv
<1>6. CASE ~Overflows(from, m, 2)
  <2>1. /\ frames' = <<g, h>> \o frames /\ outer' = <<o>> \o outer /\ locals' = from
        /\ threadSp' = from + Info[m].maxLocals /\ sp' = from + Info[m].maxLocals /\ UNCHANGED mode
    BY <1>6 DEF NestedCall
  <2>2. /\ g \in FrameSet /\ FrameOk(g) /\ g.m = m /\ g.pc \in {"load", "native", "enter", "body"}
        /\ LowOf(g) = from /\ First(g) = from + Info[m].maxLocals
        /\ Last(g) = from + Info[m].maxLocals + Info[m].maxStack
        /\ \A k : ~Inside(g, k)
    BY <1>2, <1>4, FrameIs
  <2>3. /\ h \in FrameSet /\ FrameOk(h) /\ h.m = Halt /\ h.pc = "halt"
        /\ LowOf(h) = from /\ First(h) = from /\ Last(h) = from
        /\ \A k : ~Inside(h, k)
    BY <1>4, HaltFrameIs
  <2>4. ~(from + Info[m].maxLocals + Info[m].maxStack > FpAddr - 2 * FrameWords)
    BY <1>6 DEF Overflows
  <2> HIDE DEF g, h, o, from
  <2>5. /\ frames \in Seq(FrameSet) /\ Len(frames) \in Nat /\ Len(frames) >= 1 /\ frames # <<>>
        /\ outer \in Seq([sp : Int, locals : Int])
    BY TopFacts DEF IInv, TypeOK
  <2>6. /\ s \in Seq(FrameSet) /\ Len(s) = Len(frames) + 1 /\ s[1] = h
        /\ \A i \in 1 .. Len(frames) : s[i + 1] = frames[i]
    BY <2>3, <2>5, PushSeq
  <2>7. frames' = <<g>> \o s
    BY <2>1, <2>2, <2>3, <2>5, PushTwo
  <2>8. /\ FrameWords \in Nat /\ StackSize \in Nat /\ Info[m].maxLocals \in Nat /\ Info[m].maxStack \in Nat
        /\ FrameWords * Len(frames) \in Int
    BY <1>2, <2>5, FramesAssumption
  <2>9. Last(g) =< StackSize - FrameWords * (Len(s) + 1)
    <3> DEFINE used == FrameWords * Len(frames)
    <3>1. Last(g) \in Int /\ ~(Last(g) > (StackSize - used) - 2 * FrameWords)
      BY <2>2, <2>4, FrameNumbers DEF FpAddr
    <3>2. FrameWords * (Len(s) + 1) = used + 2 * FrameWords
      BY <2>5, <2>6, <2>8
    <3> HIDE DEF used
    <3>3. used \in Int
      BY <2>8 DEF used
    <3> QED
      BY <2>8, <3>1, <3>2, <3>3
  <2>10. Last(h) =< StackSize - FrameWords * (Len(frames) + 1)
    <3>1. Last(h) =< Last(g) /\ Last(h) \in Int /\ Last(g) \in Int
      BY <1>4, <2>2, <2>3, <2>8, FrameNumbers
    <3>2. FrameWords * (Len(s) + 1) = FrameWords * (Len(frames) + 1) + FrameWords
      BY <2>5, <2>6, <2>8
    <3>3. FrameWords * (Len(frames) + 1) \in Int
      BY <2>5, <2>8
    <3> QED
      BY <2>8, <2>9, <3>1, <3>2, <3>3
  <2>11. Stack(s) /\ Saved(s, outer')
    <3>1. Waits(frames[1], h) /\ First(frames[1]) =< LowOf(h)
      BY <1>1, <1>4, <2>3 DEF Waits, Top, Method
    <3>2. Stack(s)
      BY <2>3, <2>10, <3>1, StackPush DEF IInv
    <3>3. Saved(s, outer')
      BY <1>3, <2>1, <2>3, <2>5, SavedCall DEF IInv, Top
    <3> QED
      BY <3>2, <3>3
  <2> HIDE DEF s
  <2>12. Stack(frames')
    <3>1. Waits(s[1], g) /\ First(s[1]) =< LowOf(g)
      BY <1>2, <1>4, <2>2, <2>3, <2>6 DEF Waits
    <3> QED
      BY <2>2, <2>7, <2>9, <2>11, <3>1, StackPush
  <2>13. Saved(frames', outer')
    <3>1. Len(outer') \in Nat
      BY <1>3, <2>1, <2>5, PushSeq
    <3>2. Len(s) >= 1
      BY <2>5, <2>6
    <3> QED
      BY <1>2, <2>2, <2>6, <2>7, <2>11, <3>1, <3>2, SavedPush
  <2>14. /\ Top' = g /\ Len(frames') = Len(s) + 1
         /\ \A i \in 1 .. Len(s) : frames'[i + 1] = s[i]
    BY <2>2, <2>6, <2>7, PushSeq DEF Top
  <2>15. RegistersInv'
    <3>1. sp' = First(g) /\ First(g) \in Int /\ Last(g) \in Int /\ First(g) =< Last(g)
      BY <2>1, <2>2, FrameNumbers
    <3>2. sp' \in First(g) .. Last(g)
      BY <3>1
    <3> QED
      BY <1>1, <2>1, <2>2, <2>14, <3>2 DEF RegistersInv, Unwinds, Registered
  <2>16. threadSp' \in Int /\ from =< threadSp'
    <3> DEFINE more == Info[m].maxLocals
    <3>1. threadSp' = from + more /\ more \in Nat
      BY <2>1, <2>8
    <3> HIDE DEF more
    <3> QED
      BY <1>4, <3>1
  <2>17. ThreadSpInv'
    <3>1. ASSUME NEW i \in 1 .. Len(s), s[i].m = Halt
          PROVE  LowOf(s[i]) =< threadSp'
      <4>1. CASE i = 1
        BY <2>3, <2>6, <2>16, <4>1
      <4>2. CASE i # 1
        <5>1. i - 1 \in 1 .. Len(frames) /\ s[i] = frames[i - 1]
          <6>1. i - 1 \in 1 .. Len(frames) /\ (i - 1) + 1 = i
            BY <2>5, <2>6, <4>2
          <6> QED
            BY <2>6, <6>1
        <5>2. LowOf(s[i]) =< LowOf(Top) /\ LowOf(s[i]) \in Int
          BY <5>1, TopFacts
        <5> QED
          BY <1>4, <2>16, <5>2
      <4> QED
        BY <4>1, <4>2
    <3>2. ASSUME NEW i \in 1 .. Len(frames'), frames'[i].m = Halt
          PROVE  LowOf(frames'[i]) =< threadSp'
      <4>1. i # 1
        BY <1>2, <2>2, <2>14, <3>2 DEF Top
      <4>2. i - 1 \in 1 .. Len(s) /\ (i - 1) + 1 = i
        BY <2>5, <2>6, <2>14, <4>1
      <4>3. frames'[i] = s[i - 1]
        BY <2>14, <4>2
      <4> QED
        BY <3>1, <3>2, <4>2, <4>3
    <3> QED
      BY <2>2, <2>14, <3>2 DEF ThreadSpInv
  <2>18. Balanced'
    <3>1. \A k : Entries(frames', k) = Entries(frames, k)
      <4> TAKE k
      <4>1. Entries(frames, k) \in Nat /\ Entries(s, k) = Entries(frames, k) + 0
        BY <2>3, <2>5, EntriesPush DEF s
      <4>2. Entries(s, k) \in Nat /\ Entries(frames', k) = Entries(s, k) + 0
        BY <2>2, <2>6, <2>7, EntriesPush
      <4> QED
        BY <4>1, <4>2
    <3> QED
      BY <1>1, <3>1 DEF IInv, Balanced
  <2>19. TypeOK'
    <3>1. outer' \in Seq([sp : Int, locals : Int])
      BY <1>3, <2>1, <2>5, PushSeq
    <3>2. sp' \in Int /\ locals' \in Int
      BY <1>4, <2>1, <2>16
    <3> QED
      BY <1>1, <2>1, <2>16, <3>1, <3>2 DEF IInv, TypeOK
  <2> QED
    BY <2>12, <2>13, <2>15, <2>17, <2>18, <2>19 DEF IInv
<1> QED
  BY <1>5, <1>6

-----------------------------------------------------------------------------
(* One step keeps the invariant; only the three kinds of return make the   *)
(* stack shorter while a method runs.                                      *)
LEMMA NextInv ==
    ASSUME IInv, [Next]_vars
    PROVE  IInv'
<1>1. CASE UNCHANGED vars
  BY <1>1 DEF vars, IInv, Stack, Saved, RegistersInv, Unwinds, ThreadSpInv, Balanced, TypeOK, Top, Method
<1>2. CASE Compute
  BY <1>2, ComputeInv
<1>3. CASE Throw \/ \E m \in Methods : InvokeNull(m)
  BY <1>3, ThrowInv
<1>4. CASE ReturnPlain \/ ReturnMonitorExit
  BY <1>4, ReturnInv
<1>5. CASE MonitorEnterSpecial \/ MethodLoad \/ NativeBegin
  BY <1>5, MonitorEnterInv, MethodLoadInv, NativeBeginInv
<1>6. CASE HaltCall \/ HandlerFound \/ HandlerNotFound
  BY <1>6, HaltCallInv, HandlerFoundInv, HandlerNotFoundInv
<1>7. CASE \E m \in Methods : Invoke(m)
  BY <1>7, InvokeInv
<1>8. CASE \E m \in Nested : NestedCall(m)
  BY <1>8, NestedCallInv
<1>9. CASE \E e \in {"none", "thrown", "ims"} : NativeEnd(e)
  BY <1>9, NativeEndInv
<1>10. CASE Ended
  BY <1>1, <1>10 DEF Ended
<1> QED
  BY <1>1, <1>2, <1>3, <1>4, <1>5, <1>6, <1>7, <1>8, <1>9, <1>10 DEF Next

(* Every state of every execution is one of the invariant's: the stack is  *)
(* well formed whatever the methods are and however large it is.           *)
THEOREM StackInvariant == Spec => []IInv
<1>1. Init => IInv
  BY InitInv
<1>2. IInv /\ [Next]_vars => IInv'
  BY NextInv
<1> QED
  BY <1>1, <1>2, PTL DEF Spec

(* The frames keep to themselves and the registers describe the running    *)
(* method's own frame, after every call, return, exception and nested      *)
(* interpreter(), and a handler starts with its own locals after every     *)
(* exception but that of a null receiver in its own method.                *)
THEOREM RegistersAlways == Spec => []Registers
<1>1. IInv => Registers
  <2> SUFFICES ASSUME IInv PROVE Registers
    OBVIOUS
  <2>1. Fits
    BY TopFacts DEF IInv, Stack, Fits, FpAddr
  <2>2. /\ mode = "run" /\ Top.pc # "halt" => locals = LowOf(Top) /\ sp \in First(Top) .. Last(Top)
        /\ mode = "unwind" /\ Top.pc = "try" => locals = LowOf(Top)
    BY TopFacts DEF IInv, RegistersInv, Registered, FrameOk
  <2> QED
    BY <2>1, <2>2 DEF Registers
<1> QED
  BY <1>1, StackInvariant, PTL

(* Every monitor a synchronized method has entered is left, by its return   *)
(* or by the exception that ends it, and left only once until a lock has   *)
(* seen an exit without an entry.                                          *)
THEOREM BalancedAlways == Spec => []Balanced
<1>1. IInv => Balanced
  BY DEF IInv
<1> QED
  BY <1>1, StackInvariant, PTL

(* A return gives the caller its operand stack, with the result in the     *)
(* place of the arguments, and its locals.                                 *)
THEOREM CallersResume == Spec => Resumes
<1> DEFINE Shorter == mode = "run" /\ mode' = "run" /\ Top.m # Halt /\ Len(frames') < Len(frames)
<1>1. ASSUME IInv, [Next]_vars, Shorter
      PROVE  Returned
  <2>1. frames \in Seq(FrameSet) /\ Len(frames) \in Nat /\ FrameOk(Top)
    BY <1>1, TopFacts
  <2>2. CASE ReturnPlain \/ ReturnMonitorExit
    BY <1>1, <2>2, ReturnInv
  <2>3. CASE \E e \in {"none", "thrown", "ims"} : NativeEnd(e)
    BY <1>1, <2>3, NativeEndInv
  <2>4. CASE UNCHANGED frames
    BY <1>1, <2>1, <2>4
  <2>5. CASE Compute \/ MonitorEnterSpecial \/ MethodLoad \/ NativeBegin
    <3>1. Len(frames') = Len(frames)
      BY <2>1, <2>5 DEF Compute, MonitorEnterSpecial, MethodLoad, NativeBegin, Moved, Shifted
    <3> QED
      BY <1>1, <2>1, <3>1
  <2>6. CASE HandlerFound \/ HandlerNotFound
    BY <1>1, <2>6 DEF HandlerFound, HandlerNotFound, Unwinds
  <2>7. CASE HaltCall
    BY <1>1, <2>1, <2>7 DEF HaltCall, At, FrameOk
  <2>8. CASE \E m \in Methods : Invoke(m) /\ ~UNCHANGED frames
    <3>1. PICK m \in Methods : frames' = <<Frame(m, locals')>> \o frames
      BY <2>8 DEF Invoke
    <3>2. Len(frames') = Len(frames) + 1
      BY <2>1, <3>1
    <3> QED
      BY <1>1, <2>1, <3>2
  <2>9. CASE \E m \in Nested : NestedCall(m) /\ ~UNCHANGED frames
    <3>1. \E f, g : frames' = <<f, g>> \o frames
      BY <2>9 DEF NestedCall
    <3>2. Len(frames') = Len(frames) + 2
      BY <2>1, <3>1
    <3> QED
      BY <1>1, <2>1, <3>2
  <2>10. Throw \/ Ended \/ UNCHANGED vars \/ (\E m \in Methods : InvokeNull(m)) => UNCHANGED frames
    BY DEF Throw, Ended, vars, InvokeNull
  <2> QED
    BY <1>1, <2>2, <2>3, <2>4, <2>5, <2>6, <2>7, <2>8, <2>9, <2>10 DEF Next
<1>2. IInv /\ [Next]_vars => [Shorter => Returned]_vars
  BY <1>1
<1>3. Spec => [][Shorter => Returned]_vars
  BY <1>2, StackInvariant, PTL DEF Spec
<1> QED
  BY <1>3 DEF Resumes, Returned
=============================================================================
