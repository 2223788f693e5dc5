---------------------------- MODULE MemoryProofs ----------------------------
(***************************************************************************)
(* The safety of the collector and of what it serves, side by side: each   *)
(* section strengthens the invariant of one side until it is inductive and *)
(* shows that every operation of that side keeps it.  The other sides do   *)
(* not change its variables.                                               *)
(***************************************************************************)
EXTENDS Memory, Integers, Chains, FiniteSetTheorems, WellFoundedInduction, TLAPS

---------------------------------------------------------------------------
(* Recursion along an interval and the operators on sequences that are     *)
(* defined by it.  The induction theorems of the library take an operator  *)
(* as a parameter; here a set of natural numbers takes its place, with the *)
(* least of those where a claim fails.                                     *)

\* A set of natural numbers that is not empty has a least element: induction,
\* in the form that needs no operator as a parameter.
LEMMA Least ==
    ASSUME NEW T \in SUBSET Nat, T # {}
    PROVE  \E n \in T : \A m \in T : n <= m
<1> DEFINE R == OpToRel(<, Nat)
<1>1. IsWellFoundedOn(R, Nat)
  BY NatLessThanWellFounded
<1>2. \E x \in T : \A y \in T : <<y, x>> \notin R
  <2> HIDE DEF R
  <2> QED
    BY <1>1, WFMin
<1>3. ASSUME NEW x \in Nat, NEW y \in Nat, <<y, x>> \notin R PROVE x <= y
  BY <1>3 DEF OpToRel
<1> HIDE DEF R
<1> QED
  BY <1>2, <1>3

\* f goes from base through V, one step at a time, to n.
Iterates(f, n, V, base, step) ==
    /\ f \in [0 .. n -> V]
    /\ f[0] = base
    /\ \A i \in 1 .. n : f[i] = step[i][f[i - 1]]

\* A function defined step by step exists.
LEMMA Recursion ==
    ASSUME NEW n \in Nat, NEW V, NEW base \in V, NEW step \in [1 .. n -> [V -> V]]
    PROVE  \E f : Iterates(f, n, V, base, step)
<1> DEFINE Upto(k, f) == f \in [0 .. k -> V] /\ f[0] = base /\ \A i \in 1 .. k : f[i] = step[i][f[i - 1]]
           Bad == {k \in 0 .. n : ~ \E f : Upto(k, f)}
<1>1. ASSUME Bad # {} PROVE FALSE
  <2>1. PICK k \in Bad : \A m \in Bad : k <= m
    <3> Bad \in SUBSET Nat
      OBVIOUS
    <3> HIDE DEF Bad
    <3> QED
      BY <1>1, Least
  <2>2. k # 0
    <3>1. Upto(0, [i \in 0 .. 0 |-> base])
      OBVIOUS
    <3>2. 0 \in 0 .. n /\ (\E f : Upto(0, f)) => 0 \notin Bad
      OBVIOUS
    <3> HIDE DEF Upto, Bad
    <3>3. \E f : Upto(0, f)
      BY <3>1
    <3> QED
      BY <2>1, <3>2, <3>3
  <2>3. k - 1 \in 0 .. n /\ k - 1 \notin Bad
    BY <2>1, <2>2
  <2>4. PICK f : Upto(k - 1, f)
    BY <2>3
  <2>5. Upto(k, [i \in 0 .. k |-> IF i = k THEN step[k][f[k - 1]] ELSE f[i]])
    <3> DEFINE g == [i \in 0 .. k |-> IF i = k THEN step[k][f[k - 1]] ELSE f[i]]
    <3>1. k \in 1 .. n /\ step[k] \in [V -> V] /\ f[k - 1] \in V
      BY <2>1, <2>2, <2>4
    <3>2. g \in [0 .. k -> V]
      BY <2>4, <3>1
    <3>3. g[0] = base
      BY <2>4, <2>2, <3>1
    <3>4. ASSUME NEW i \in 1 .. k PROVE g[i] = step[i][g[i - 1]]
      BY <2>4, <3>1
    <3> HIDE DEF g
    <3> QED
      BY <3>2, <3>3, <3>4
  <2> QED
    BY <2>1, <2>5
<1> QED
  <2>1. n \notin Bad
    BY <1>1
  <2> QED
    BY <2>1 DEF Iterates

\* Induction along an interval.
LEMMA Induction ==
    ASSUME NEW n \in Nat, NEW T, 0 \in T, \A i \in 1 .. n : i - 1 \in T => i \in T
    PROVE  \A i \in 0 .. n : i \in T
<1> DEFINE Bad == {i \in 0 .. n : i \notin T}
<1>1. ASSUME Bad # {} PROVE FALSE
  <2>1. PICK k \in Bad : \A m \in Bad : k <= m
    <3> Bad \in SUBSET Nat
      OBVIOUS
    <3> HIDE DEF Bad
    <3> QED
      BY <1>1, Least
  <2>2. k \in 1 .. n /\ k - 1 \notin Bad
    BY <2>1
  <2> QED
    BY <2>1, <2>2
<1> QED
  BY <1>1

\* Kept(s, S) has the elements of s that are in S, each as often as s has it at
\* most.
LEMMA KeptProperties ==
    ASSUME NEW T, NEW s \in Seq(T), NEW S
    PROVE  /\ Kept(s, S) \in Seq(T)
           /\ ToSet(Kept(s, S)) = ToSet(s) \cap S
           /\ IsInjective(s) => IsInjective(Kept(s, S))
           /\ Len(Kept(s, S)) <= Len(s)
<1> DEFINE n == Len(s)
           V == Seq(T)
           Step(v, i) == IF s[i] \in S THEN Append(v, s[i]) ELSE v
           base == <<>>
           Def(f) == f = [i \in 0 .. n |-> IF i = 0 THEN base ELSE Step(f[i - 1], i)]
           kept == CHOOSE f : Def(f)
<1>1. n \in Nat /\ \A i \in 1 .. n : s[i] \in T
  OBVIOUS
<1>2. base \in V /\ \A v \in V, i \in 1 .. n : Step(v, i) \in V
  BY <1>1
<1>3. Def(kept)
  <2> DEFINE step == [i \in 1 .. n |-> [v \in V |-> Step(v, i)]]
  <2> HIDE DEF n, V, Step, base
  <2>1. step \in [1 .. n -> [V -> V]]
    BY <1>2
  <2>2. PICK f : Iterates(f, n, V, base, step)
    <3> HIDE DEF step
    <3> QED
      BY <1>1, <1>2, <2>1, Recursion
  <2>3. ASSUME NEW i \in 1 .. n PROVE i - 1 \in 0 .. n /\ f[i - 1] \in V /\ f[i] = Step(f[i - 1], i)
    <3>1. i - 1 \in 0 .. n
      BY <1>1
    <3>2. f[i - 1] \in V /\ f[i] = step[i][f[i - 1]]
      BY <2>2, <3>1 DEF Iterates
    <3> QED
      BY <3>1, <3>2
  <2>4. f = [i \in 0 .. n |-> f[i]]
    BY <2>2 DEF Iterates
  <2>5. ASSUME NEW i \in 0 .. n PROVE f[i] = IF i = 0 THEN base ELSE Step(f[i - 1], i)
    BY <1>1, <2>2, <2>3 DEF Iterates
  <2>6. Def(f)
    BY <2>4, <2>5
  <2> QED
    BY <2>6
<1>4. kept[0] = <<>> /\ \A i \in 1 .. n : kept[i] = Step(kept[i - 1], i)
  <2> HIDE DEF kept, Step
  <2> QED
    BY <1>1, <1>3
<1>5. Kept(s, S) = kept[n]
  BY DEF Kept
<1> HIDE DEF kept
<1> DEFINE Fine(i) ==
             /\ kept[i] \in Seq(T)
             /\ ToSet(kept[i]) = {s[j] : j \in 1 .. i} \cap S
             /\ IsInjective(s) => IsInjective(kept[i])
             /\ Len(kept[i]) <= i
<1>6. Fine(0)
  BY <1>4 DEF ToSet, IsInjective
<1>7. ASSUME NEW i \in 1 .. n, Fine(i - 1) PROVE Fine(i)
  <2> DEFINE v == kept[i - 1]
  <2>1. v \in Seq(T) /\ Len(v) \in Nat /\ ToSet(v) = {s[j] : j \in 1 .. i - 1} \cap S
    BY <1>7
  <2>2. {s[j] : j \in 1 .. i} = {s[j] : j \in 1 .. i - 1} \cup {s[i]}
    BY <1>1
  <2>3. CASE s[i] \notin S
    <3>1. kept[i] = v
      BY <1>4, <2>3
    <3> QED
      BY <1>7, <2>1, <2>2, <2>3, <3>1
  <2>4. CASE s[i] \in S
    <3>1. kept[i] = Append(v, s[i])
      BY <1>4, <2>4
    <3> HIDE DEF v
    <3>2. /\ kept[i] \in Seq(T) /\ Len(kept[i]) = Len(v) + 1 
          /\ \A j \in 1 .. Len(v) : kept[i][j] = v[j]
          /\ kept[i][Len(v) + 1] = s[i]
      BY <1>1, <2>1, <3>1
    <3>3. DOMAIN v = 1 .. Len(v) /\ DOMAIN kept[i] = 1 .. Len(v) + 1
      BY <2>1, <3>2
    <3>4. ToSet(kept[i]) = ToSet(v) \cup {s[i]}
      BY <2>1, <3>2, <3>3 DEF ToSet
    <3>5. ASSUME IsInjective(s) PROVE IsInjective(kept[i])
      <4>1. s[i] \notin ToSet(v)
        BY <1>1, <2>1, <3>5 DEF IsInjective
      <4>2. IsInjective(v)
        BY <1>7, <3>5 DEF v
      <4>3. \A j \in 1 .. Len(v) : v[j] # s[i]
        BY <3>3, <4>1 DEF ToSet
      <4> QED
        BY <2>1, <3>2, <3>3, <4>2, <4>3 DEF IsInjective
    <3> QED
      BY <1>7, <2>1, <2>2, <2>4, <3>2, <3>4, <3>5 DEF v
  <2> QED
    BY <2>3, <2>4
<1>8. Fine(n)
  <2> DEFINE T1 == {i \in 0 .. n : Fine(i)}
  <2>1. 0 \in T1 /\ \A i \in 1 .. n : i - 1 \in T1 => i \in T1
    <3> HIDE DEF Fine
    <3> QED
      BY <1>1, <1>6, <1>7
  <2>2. \A i \in 0 .. n : i \in T1
    <3> HIDE DEF T1
    <3> QED
      BY <1>1, <2>1, Induction
  <2> QED
    BY <1>1, <2>2
<1>9. {s[j] : j \in 1 .. n} = ToSet(s)
  BY DEF ToSet
<1> QED
  BY <1>1, <1>5, <1>8, <1>9

\* Elements and repetitions of what sequences are put together from.
LEMMA ConcatSets ==
    ASSUME NEW T, NEW s \in Seq(T), NEW t \in Seq(T)
    PROVE  /\ s \o t \in Seq(T)
           /\ ToSet(s \o t) = ToSet(s) \cup ToSet(t)
           /\ IsInjective(s \o t) <=> /\ IsInjective(s) /\ IsInjective(t)
                                      /\ ToSet(s) \cap ToSet(t) = {}
<1> DEFINE u == s \o t
           m == Len(s)
           n == Len(t)
<1>1. /\ m \in Nat /\ n \in Nat /\ DOMAIN s = 1 .. m /\ DOMAIN t = 1 .. n
      /\ u \in Seq(T) /\ DOMAIN u = 1 .. m + n
  OBVIOUS
<1>2. /\ \A i \in 1 .. m : i \in 1 .. m + n /\ u[i] = s[i]
      /\ \A i \in 1 .. n : i + m \in 1 .. m + n /\ u[i + m] = t[i]
      /\ \A i \in 1 .. m + n : i \in 1 .. m \/ (i - m \in 1 .. n /\ i = (i - m) + m)
  OBVIOUS
<1> HIDE DEF u, m, n
<1>3. ToSet(u) = ToSet(s) \cup ToSet(t)
  <2>1. ASSUME NEW x \in ToSet(u) PROVE x \in ToSet(s) \cup ToSet(t)
    <3>1. PICK i \in 1 .. m + n : x = u[i]
      BY <1>1, <2>1 DEF ToSet
    <3>2. CASE i \in 1 .. m
      BY <1>1, <1>2, <3>1, <3>2 DEF ToSet
    <3>3. CASE i \notin 1 .. m
      <4>1. i - m \in 1 .. n /\ u[i] = t[i - m]
        BY <1>2, <3>1, <3>3
      <4> QED
        BY <1>1, <3>1, <4>1 DEF ToSet
    <3> QED
      BY <3>2, <3>3
  <2>2. ToSet(s) \subseteq ToSet(u)
    BY <1>1, <1>2 DEF ToSet
  <2>3. ToSet(t) \subseteq ToSet(u)
    BY <1>1, <1>2 DEF ToSet
  <2> QED
    BY <2>1, <2>2, <2>3
<1>4. ASSUME IsInjective(u)
      PROVE  IsInjective(s) /\ IsInjective(t) /\ ToSet(s) \cap ToSet(t) = {}
  <2>1. IsInjective(s)
    BY <1>1, <1>2, <1>4 DEF IsInjective
  <2>2. ASSUME NEW i \in 1 .. n, NEW j \in 1 .. n, t[i] = t[j] PROVE i = j
    <3>1. i + m = j + m
      BY <1>1, <1>2, <1>4, <2>2 DEF IsInjective
    <3> QED
      BY <1>1, <3>1
  <2>3. ASSUME NEW i \in 1 .. m, NEW j \in 1 .. n PROVE s[i] # t[j]
    <3>1. i # j + m
      BY <1>1
    <3> QED
      BY <1>1, <1>2, <1>4, <3>1 DEF IsInjective
  <2> QED
    BY <1>1, <2>1, <2>2, <2>3 DEF IsInjective, ToSet
<1>5. ASSUME IsInjective(s), IsInjective(t), ToSet(s) \cap ToSet(t) = {}
      PROVE  IsInjective(u)
  <2>1. \A i \in 1 .. m, j \in 1 .. n : s[i] # t[j]
    BY <1>1, <1>5 DEF ToSet
  <2> SUFFICES ASSUME NEW i \in 1 .. m + n, NEW j \in 1 .. m + n, u[i] = u[j]
               PROVE  i = j
    BY <1>1 DEF IsInjective
  <2>2. CASE i \in 1 .. m
    <3>1. j \in 1 .. m
      <4>1. ASSUME j \notin 1 .. m PROVE j - m \in 1 .. n /\ s[i] = t[j - m]
        BY <1>2, <2>2, <4>1
      <4> QED
        BY <2>1, <2>2, <4>1
    <3> QED
      BY <1>1, <1>2, <1>5, <2>2, <3>1 DEF IsInjective
  <2>3. CASE i \notin 1 .. m
    <3>1. i - m \in 1 .. n /\ u[i] = t[i - m]
      BY <1>2, <2>3
    <3>2. j \notin 1 .. m
      BY <1>2, <2>1, <3>1
    <3>3. j - m \in 1 .. n /\ u[j] = t[j - m]
      BY <1>2, <3>2
    <3>4. i - m = j - m
      BY <1>1, <1>5, <3>1, <3>3 DEF IsInjective
    <3> QED
      BY <1>1, <3>4
  <2> QED
    BY <2>2, <2>3
<1> QED
  BY <1>1, <1>3, <1>4, <1>5 DEF u

\* Reversing a sequence keeps its elements.
LEMMA ReverseSets ==
    ASSUME NEW T, NEW s \in Seq(T)
    PROVE  /\ Reverse(s) \in Seq(T)
           /\ ToSet(Reverse(s)) = ToSet(s)
           /\ IsInjective(s) => IsInjective(Reverse(s))
<1> DEFINE r == Reverse(s)
           n == Len(s)
<1>1. n \in Nat /\ DOMAIN s = 1 .. n /\ r = [i \in 1 .. n |-> s[n - i + 1]]
  BY DEF Reverse
<1>2. \A i \in 1 .. n : n - i + 1 \in 1 .. n /\ n - (n - i + 1) + 1 = i /\ s[i] \in T
  BY <1>1
<1> HIDE DEF r, n
<1>3. r \in Seq(T)
  BY <1>1, <1>2
<1>4. DOMAIN r = 1 .. n /\ \A i \in 1 .. n : r[i] = s[n - i + 1] /\ s[i] = r[n - i + 1]
  BY <1>1, <1>2
<1>5. ToSet(r) = ToSet(s)
  BY <1>1, <1>2, <1>4 DEF ToSet
<1>6. ASSUME IsInjective(s) PROVE IsInjective(r)
  <2> SUFFICES ASSUME NEW i \in 1 .. n, NEW j \in 1 .. n, r[i] = r[j] PROVE i = j
    BY <1>4 DEF IsInjective
  <2>1. n - i + 1 = n - j + 1
    BY <1>1, <1>2, <1>4, <1>6 DEF IsInjective
  <2> QED
    BY <1>1, <2>1
<1> QED
  BY <1>3, <1>5, <1>6 DEF r

\* A sequence that is not empty is its head in front of its tail.
LEMMA HeadTailSets ==
    ASSUME NEW T, NEW s \in Seq(T), s # <<>>
    PROVE  /\ Head(s) \in T /\ Tail(s) \in Seq(T)
           /\ s = <<Head(s)>> \o Tail(s)
           /\ ToSet(s) = {Head(s)} \cup ToSet(Tail(s))
           /\ IsInjective(s) => IsInjective(Tail(s)) /\ Head(s) \notin ToSet(Tail(s))
<1>1. <<Head(s)>> \in Seq(T) /\ Tail(s) \in Seq(T) /\ s = <<Head(s)>> \o Tail(s) /\ Head(s) \in T
  OBVIOUS
<1>2. ToSet(<<Head(s)>>) = {Head(s)}
  BY DEF ToSet
<1> DEFINE h == <<Head(s)>>
           t == Tail(s)
<1>3. h \in Seq(T) /\ t \in Seq(T) /\ s = h \o t
  BY <1>1
<1>4. ToSet(s) = ToSet(h) \cup ToSet(t)
      /\ (IsInjective(s) => IsInjective(t) /\ ToSet(h) \cap ToSet(t) = {})
  <2> HIDE DEF h, t
  <2> QED
    BY <1>3, ConcatSets
<1> QED
  BY <1>1, <1>2, <1>4

\* The first element of a sequence is one of its elements.
LEMMA HeadIsIn ==
    ASSUME NEW T, NEW s \in Seq(T), s # <<>>
    PROVE  Head(s) \in ToSet(s)
<1>1. 1 \in DOMAIN s /\ Head(s) = s[1]
  OBVIOUS
<1> QED
  BY <1>1 DEF ToSet

\* A sequence of one element.
LEMMA SingleSets ==
    ASSUME NEW T, NEW e \in T
    PROVE  <<e>> \in Seq(T) /\ ToSet(<<e>>) = {e} /\ IsInjective(<<e>>)
BY DEF ToSet, IsInjective

\* The empty sequence is one of elements of any set.
LEMMA EmptySets ==
    ASSUME NEW T PROVE <<>> \in Seq(T) /\ ToSet(<<>>) = {} /\ IsInjective(<<>>)
BY DEF ToSet, IsInjective

\* A list of sequences one after the other.
LEMMA FlattenSets ==
    ASSUME NEW T, NEW seqs \in Seq(Seq(T)), seqs # <<>>
    PROVE  /\ FlattenSeq(seqs) \in Seq(T)
           /\ ToSet(FlattenSeq(seqs)) = UNION {ToSet(seqs[i]) : i \in DOMAIN seqs}
           /\ (/\ \A i \in DOMAIN seqs : IsInjective(seqs[i])
               /\ \A i, j \in DOMAIN seqs : i # j => ToSet(seqs[i]) \cap ToSet(seqs[j]) = {})
              => IsInjective(FlattenSeq(seqs))
<1> DEFINE n == Len(seqs)
           V == Seq(T)
           base == <<>>
           Step(v, i) == IF i = 1 THEN seqs[i] ELSE v \o seqs[i]
           Def(f) == f = [i \in 1 .. n |-> IF i = 1 THEN seqs[i] ELSE f[i - 1] \o seqs[i]]
           flatten == CHOOSE f : Def(f)
<1>1. n \in Nat /\ n >= 1 /\ DOMAIN seqs = 1 .. n /\ \A i \in 1 .. n : seqs[i] \in Seq(T)
  OBVIOUS
<1>2. base \in V /\ \A v \in V, i \in 1 .. n : Step(v, i) \in V
  BY <1>1
<1>3. Def(flatten)
  <2> DEFINE step == [i \in 1 .. n |-> [v \in V |-> Step(v, i)]]
  <2> HIDE DEF n, V, Step, base
  <2>1. step \in [1 .. n -> [V -> V]]
    BY <1>2
  <2>2. PICK f : Iterates(f, n, V, base, step)
    <3> HIDE DEF step
    <3> QED
      BY <1>1, <1>2, <2>1, Recursion
  <2>3. ASSUME NEW i \in 1 .. n PROVE f[i] = Step(f[i - 1], i)
    <3>1. i - 1 \in 0 .. n
      BY <1>1
    <3>2. f[i - 1] \in V /\ f[i] = step[i][f[i - 1]]
      BY <2>2, <3>1 DEF Iterates
    <3> QED
      BY <3>2
  <2> DEFINE g == [i \in 1 .. n |-> f[i]]
  <2>4. ASSUME NEW i \in 1 .. n
        PROVE  g[i] = IF i = 1 THEN seqs[i] ELSE g[i - 1] \o seqs[i]
    <3>1. CASE i = 1
      BY <2>3, <3>1 DEF Step
    <3>2. CASE i # 1
      <4>1. i - 1 \in 1 .. n
        BY <1>1, <3>2
      <4> QED
        BY <2>3, <3>2, <4>1 DEF Step
    <3> QED
      BY <3>1, <3>2
  <2>5. Def(g)
    BY <2>4
  <2> QED
    BY <2>5
<1>4. flatten[1] = seqs[1] /\ \A i \in 2 .. n : flatten[i] = flatten[i - 1] \o seqs[i]
  <2> HIDE DEF flatten, n
  <2>1. \A i \in 1 .. n : flatten[i] = IF i = 1 THEN seqs[i] ELSE flatten[i - 1] \o seqs[i]
    BY <1>3
  <2>2. 1 \in 1 .. n /\ \A i \in 2 .. n : i \in 1 .. n /\ i # 1
    BY <1>1
  <2> QED
    BY <2>1, <2>2
<1>5. FlattenSeq(seqs) = flatten[n]
  BY <1>1 DEF FlattenSeq
<1> HIDE DEF flatten
<1> DEFINE Apart == /\ \A i \in DOMAIN seqs : IsInjective(seqs[i])
                    /\ \A i, j \in DOMAIN seqs : i # j => ToSet(seqs[i]) \cap ToSet(seqs[j]) = {}
           Fine(i) == /\ flatten[i] \in Seq(T)
                      /\ ToSet(flatten[i]) = UNION {ToSet(seqs[j]) : j \in 1 .. i}
                      /\ Apart => IsInjective(flatten[i])
<1>6. Fine(1)
  <2>1. {ToSet(seqs[j]) : j \in 1 .. 1} = {ToSet(seqs[1])}
    OBVIOUS
  <2>2. UNION {ToSet(seqs[j]) : j \in 1 .. 1} = ToSet(seqs[1])
    BY <2>1
  <2> QED
    BY <1>1, <1>4, <2>2
<1>7. ASSUME NEW i \in 2 .. n, Fine(i - 1) PROVE Fine(i)
  <2> DEFINE v == flatten[i - 1]
             w == seqs[i]
  <2>1. v \in Seq(T) /\ w \in Seq(T) /\ flatten[i] = v \o w
    <3>1. i \in 1 .. n
      BY <1>1
    <3> HIDE DEF n
    <3> QED
      BY <1>1, <1>4, <1>7, <3>1
  <2>2. /\ flatten[i] \in Seq(T)
        /\ ToSet(flatten[i]) = ToSet(v) \cup ToSet(w)
        /\ IsInjective(v) /\ IsInjective(w) /\ ToSet(v) \cap ToSet(w) = {} => IsInjective(flatten[i])
    <3> HIDE DEF v, w
    <3> QED
      BY <2>1, ConcatSets
  <2>3. ToSet(v) = UNION {ToSet(seqs[j]) : j \in 1 .. i - 1}
    BY <1>7
  <2>4. 1 .. i = 1 .. (i - 1) \cup {i}
    BY <1>1
  <2>5. UNION {ToSet(seqs[j]) : j \in 1 .. i}
        = (UNION {ToSet(seqs[j]) : j \in 1 .. i - 1}) \cup ToSet(w)
    BY <2>4
  <2>6. ASSUME Apart PROVE IsInjective(v) /\ IsInjective(w) /\ ToSet(v) \cap ToSet(w) = {}
    <3>1. \A j \in 1 .. i - 1 : j \in DOMAIN seqs /\ i \in DOMAIN seqs /\ i # j
      BY <1>1
    <3>2. \A j \in 1 .. i - 1 : ToSet(seqs[j]) \cap ToSet(w) = {}
      BY <2>6, <3>1
    <3> QED
      BY <1>1, <1>7, <2>3, <2>6, <3>2
  <2> QED
    BY <2>2, <2>3, <2>5, <2>6
<1>8. Fine(n)
  <2> DEFINE Reached == {i \in 0 .. n : i = 0 \/ Fine(i)}
  <2>1. 0 \in Reached /\ \A i \in 1 .. n : i - 1 \in Reached => i \in Reached
    <3>1. \A i \in 1 .. n : i = 1 \/ (i \in 2 .. n /\ i - 1 # 0 /\ i \in 0 .. n /\ i - 1 \in 0 .. n)
      BY <1>1
    <3>2. 1 \in 0 .. n /\ 0 \in 0 .. n
      BY <1>1
    <3> HIDE DEF Fine, n
    <3> QED
      BY <1>6, <1>7, <3>1, <3>2
  <2>2. \A i \in 0 .. n : i \in Reached
    <3> HIDE DEF Reached
    <3> QED
      BY <1>1, <2>1, Induction
  <2>3. n \in 0 .. n /\ n # 0
    BY <1>1
  <2> HIDE DEF Fine, n
  <2> QED
    BY <2>2, <2>3
<1> QED
  BY <1>1, <1>5, <1>8

---------------------------------------------------------------------------
(* Weak references                                                         *)

\* INSTANCE makes a copy of each operator a side extends: they are the same.
LEMMA WeakSame ==
    /\ \A s : WeakSide!ToSet(s) = ToSet(s)
    /\ \A s : WeakSide!IsInjective(s) <=> IsInjective(s)
    /\ \A s, t : WeakSide!Kept(s, t) = Kept(s, t)
<1>1. \A s : WeakSide!ToSet(s) = ToSet(s)
  BY DEF WeakSide!ToSet, ToSet
<1>2. \A s : WeakSide!IsInjective(s) <=> IsInjective(s)
  BY DEF WeakSide!IsInjective, IsInjective
<1>3. \A s, t : WeakSide!Kept(s, t) = Kept(s, t)
  BY DEF WeakSide!Kept, Kept
<1> QED
  BY <1>1, <1>2, <1>3

WeakInv == WeakSide!TypeOK /\ WeakSide!ChainAlive /\ WeakSide!ChainedSound

\* What gc_purge_weakref_list() leaves is a part of the chain, and marked.
LEMMA WeakPurged ==
    ASSUME NEW chain \in Seq(Ref), NEW marked
    PROVE  /\ WeakSide!Purged(chain, marked) \in Seq(Ref)
           /\ ToSet(WeakSide!Purged(chain, marked)) \subseteq ToSet(chain) \cap marked
           /\ IsInjective(chain) => IsInjective(WeakSide!Purged(chain, marked))
<1>1. /\ Kept(chain, marked) \in Seq(Ref)
      /\ ToSet(Kept(chain, marked)) = ToSet(chain) \cap marked
      /\ IsInjective(chain) => IsInjective(Kept(chain, marked))
  BY KeptProperties
<1>2. <<>> \in Seq(Ref) /\ ToSet(<<>>) = {} /\ IsInjective(<<>>)
  BY EmptySets
<1> QED
  BY <1>1, <1>2, WeakSame DEF WeakSide!Purged

\* Every operation of the weak references keeps their invariant.
LEMMA WeakStep ==
    ASSUME WeakInv, WeakSide!Next PROVE WeakInv'
<1> USE MemoryAssumption DEF MemoryAssumption, WeakSide!WeakRefsAssumption
<1>0. /\ wLive \subseteq Ref \cup Obj /\ wRooted \subseteq wLive /\ list \in Seq(Ref)
      /\ referent \in [Ref -> Ref \cup Obj \cup {None}]
      /\ wTrap \in BOOLEAN /\ collections \in 0 .. MaxCollections
      /\ ToSet(list) \subseteq wLive /\ IsInjective(list)
      /\ \A w \in ToSet(list) : referent[w] = None \/ referent[w] \in wLive
  BY WeakSame DEF WeakInv, WeakSide!TypeOK, WeakSide!ChainAlive, WeakSide!ChainedSound, WeakSide!Address
<1>a. ToSet(list) \subseteq Ref
  BY <1>0 DEF ToSet
<1> DEFINE Goal ==
      /\ wLive' \subseteq Ref \cup Obj /\ wRooted' \subseteq wLive' /\ list' \in Seq(Ref)
      /\ referent' \in [Ref -> Ref \cup Obj \cup {None}]
      /\ wTrap' \in BOOLEAN /\ collections' \in 0 .. MaxCollections
      /\ ToSet(list') \subseteq wLive' /\ IsInjective(list')
      /\ \A w \in ToSet(list') : referent'[w] = None \/ referent'[w] \in wLive'
<1> SUFFICES Goal
  BY WeakSame DEF WeakInv, WeakSide!TypeOK, WeakSide!ChainAlive, WeakSide!ChainedSound, WeakSide!Address
<1>1. ASSUME NEW o \in Obj, WeakSide!New(o) PROVE Goal
  BY <1>0, <1>1 DEF WeakSide!New
<1>2. ASSUME NEW w \in Ref, WeakSide!Get(w) PROVE Goal
  BY <1>0, <1>2 DEF WeakSide!Get
<1>3. ASSUME NEW w \in Ref, WeakSide!Clear(w) PROVE Goal
  BY <1>0, <1>a, <1>3 DEF WeakSide!Clear
<1>4. ASSUME NEW w \in Ref, NEW o \in Ref \cup Obj \cup {None}, WeakSide!NewRef(w, o) PROVE Goal
  <2>1. /\ w \notin wLive /\ wLive' = wLive \cup {w} /\ wRooted' = wRooted \cup {w}
        /\ referent' = [referent EXCEPT ![w] = o] /\ list' = <<w>> \o list
        /\ wTrap' = wTrap /\ collections' = collections
        /\ o = None \/ o \in wRooted
    BY <1>4 DEF WeakSide!NewRef
  <2>2. list' \in Seq(Ref) /\ ToSet(list') = {w} \cup ToSet(list) /\ IsInjective(list')
    <3>1. <<w>> \in Seq(Ref) /\ ToSet(<<w>>) = {w} /\ IsInjective(<<w>>)
      BY SingleSets
    <3>2. {w} \cap ToSet(list) = {}
      BY <1>0, <2>1
    <3> QED
      BY <1>0, <2>1, <3>1, <3>2, ConcatSets
  <2>3. \A v \in Ref : referent'[v] = IF v = w THEN o ELSE referent[v]
    BY <1>0, <2>1
  <2> QED
    BY <1>0, <1>a, <2>1, <2>2, <2>3
<1>5. ASSUME NEW x \in Ref \cup Obj, WeakSide!Drop(x) PROVE Goal
  BY <1>0, <1>5 DEF WeakSide!Drop
<1>6. ASSUME WeakSide!Collect PROVE Goal
  <2>1. /\ list' = WeakSide!Purged(list, wRooted) /\ wLive' = wRooted /\ wRooted' = wRooted
        /\ referent' = [w \in Ref |-> IF w \in WeakSide!Cleared(list, wRooted) THEN None ELSE referent[w]]
        /\ collections < MaxCollections /\ collections' = collections + 1
        /\ wTrap' \in BOOLEAN
    BY <1>6 DEF WeakSide!Collect, WeakSide!ReadsNull
  <2>2. /\ list' \in Seq(Ref) /\ ToSet(list') \subseteq ToSet(list) \cap wRooted /\ IsInjective(list')
    BY <1>0, <2>1, WeakPurged
  <2>3. \A w \in ToSet(list) \cap wRooted : referent'[w] = None \/ referent'[w] \in wRooted
    BY <1>0, <1>a, <2>1, WeakSame DEF WeakSide!Cleared
  <2>4. referent' \in [Ref -> Ref \cup Obj \cup {None}]
    BY <1>0, <2>1
  <2> QED
    BY <1>0, <2>1, <2>2, <2>3, <2>4
<1> QED
  BY <1>1, <1>2, <1>3, <1>4, <1>5, <1>6 DEF WeakSide!Next, WeakSide!Address

\* At first the chain is empty.
LEMMA WeakInit ==
    ASSUME WeakSide!Init PROVE WeakInv
<1>1. <<>> \in Seq(Ref) /\ ToSet(<<>>) = {} /\ IsInjective(<<>>)
  BY EmptySets
<1>2. /\ wLive = {} /\ wRooted = {} /\ list = <<>> /\ referent = [w \in Ref |-> None]
      /\ wTrap = FALSE /\ collections = 0
  BY DEF WeakSide!Init
<1>3. MaxCollections \in Nat
  BY MemoryAssumption DEF MemoryAssumption, WeakSide!WeakRefsAssumption
<1>4. WeakSide!TypeOK
  <2>1. referent \in [Ref -> WeakSide!Address \cup {None}]
    BY <1>2
  <2>2. collections \in 0 .. MaxCollections
    BY <1>2, <1>3
  <2>3. list \in Seq(Ref)
    BY <1>1, <1>2
  <2>4. wTrap \in BOOLEAN /\ wLive \subseteq WeakSide!Address /\ wRooted \subseteq wLive
    BY <1>2
  <2> QED
    BY <2>1, <2>2, <2>3, <2>4 DEF WeakSide!TypeOK
<1>5. WeakSide!ChainAlive /\ WeakSide!ChainedSound
  BY <1>1, <1>2, WeakSame DEF WeakSide!ChainAlive, WeakSide!ChainedSound
<1> QED
  BY <1>4, <1>5 DEF WeakInv

---------------------------------------------------------------------------
(* Finalizers                                                              *)

\* The object taken off the list is one that was created, and is there from the
\* time it is taken until its finalizer returns.
CurHeld ==
    /\ IF pc \in {"exit", "free", "run"} THEN cur \in FObj \ fresh ELSE cur = None
    /\ finalized \subseteq FObj \ fresh

\* Without spurious wakeups and interruptions the thread is woken only for an
\* object on the list, and nobody but the thread itself takes one off.
WokenForWork ==
    ~ env.spurious /\ ~ env.selfInterrupt =>
        /\ ~ interrupted /\ ~ fTrap
        /\ signalled => pc = "blocked" /\ finalizing # <<>>
        /\ pc \in {"reenter", "pop"} => finalizing # <<>>

FinalInv == FinalSide!TypeOK /\ FinalSide!Registered /\ CurHeld /\ WokenForWork

\* The same for the copies of the finalizers' side.
LEMMA FinalSame ==
    /\ \A s : FinalSide!ToSet(s) = ToSet(s)
    /\ \A s : FinalSide!IsInjective(s) <=> IsInjective(s)
    /\ \A s, t : FinalSide!Kept(s, t) = Kept(s, t)
    /\ \A s : FinalSide!Reverse(s) = Reverse(s)
<1>1. \A s : FinalSide!ToSet(s) = ToSet(s)
  BY DEF FinalSide!ToSet, ToSet
<1>2. \A s : FinalSide!IsInjective(s) <=> IsInjective(s)
  BY DEF FinalSide!IsInjective, IsInjective
<1>3. \A s, t : FinalSide!Kept(s, t) = Kept(s, t)
  BY DEF FinalSide!Kept, Kept
<1>4. \A s : FinalSide!Reverse(s) = Reverse(s)
  BY DEF FinalSide!Reverse, Reverse
<1> QED
  BY <1>1, <1>2, <1>3, <1>4

\* The two lists hold what is registered, once, and nothing that was swept: the
\* invariant Registered, list by list.
Listed(one, other) ==
    /\ one \in Seq(FObj) /\ other \in Seq(FObj)
    /\ IsInjective(one) /\ IsInjective(other) /\ ToSet(one) \cap ToSet(other) = {}

\* Registered speaks of the two lists one after the other: in terms of each.
LEMMA RegisteredByList ==
    ASSUME finalizable \in Seq(FObj), finalizing \in Seq(FObj)
    PROVE  FinalSide!Registered <=>
             /\ Listed(finalizable, finalizing)
             /\ ToSet(finalizable) \cup ToSet(finalizing) = (FObj \ fresh) \ (finalized \cup {cur})
             /\ ToSet(finalizable) \cup ToSet(finalizing) \subseteq fLive
BY ConcatSets, FinalSame DEF FinalSide!Registered, Listed

\* gc_mark_finalizable() moves objects from one list to the other.
LEMMA MoveDeadKeeps ==
    ASSUME Listed(finalizable, finalizing), NEW marked, FinalSide!MoveDead(marked)
    PROVE  /\ Listed(finalizable', finalizing')
           /\ ToSet(finalizable') \cup ToSet(finalizing') = ToSet(finalizable) \cup ToSet(finalizing)
           /\ ToSet(finalizable') = ToSet(finalizable) \cap marked
           /\ ToSet(finalizing) \subseteq ToSet(finalizing')
           /\ FinalSide!Notifies(marked) => finalizing' # <<>>
           /\ finalizing # <<>> => finalizing' # <<>>
<1> DEFINE dead == Kept(finalizable, FObj \ marked)
           moved == Reverse(dead)
<1>0. Listed(finalizable, finalizing)
  OBVIOUS
<1>1. /\ finalizable' = Kept(finalizable, marked)
      /\ finalizing' = moved \o finalizing
  BY FinalSame DEF FinalSide!MoveDead
<1>2. /\ finalizable' \in Seq(FObj) /\ ToSet(finalizable') = ToSet(finalizable) \cap marked
      /\ IsInjective(finalizable')
  BY <1>0, <1>1, KeptProperties DEF Listed
<1>3. /\ dead \in Seq(FObj) /\ ToSet(dead) = ToSet(finalizable) \cap (FObj \ marked)
      /\ IsInjective(dead)
  BY <1>0, KeptProperties DEF Listed
<1>4. /\ moved \in Seq(FObj) /\ ToSet(moved) = ToSet(dead) /\ IsInjective(moved)
  <2> HIDE DEF dead
  <2> QED
    BY <1>3, ReverseSets
<1> HIDE DEF moved, dead
<1>5. ToSet(finalizable) \subseteq FObj
  BY <1>0 DEF Listed, ToSet
<1>6. /\ finalizing' \in Seq(FObj) /\ ToSet(finalizing') = ToSet(moved) \cup ToSet(finalizing)
      /\ IsInjective(finalizing')
  BY <1>0, <1>1, <1>3, <1>4, ConcatSets DEF Listed
<1>7. \A s : s = <<>> => ToSet(s) = {}
  BY EmptySets
<1>8. finalizing # <<>> => ToSet(finalizing) # {}
  BY <1>0 DEF Listed, ToSet
<1>9. FinalSide!Notifies(marked) => ToSet(moved) # {}
  BY <1>3, <1>4, <1>5, FinalSame DEF FinalSide!Notifies
<1> QED
  BY <1>0, <1>2, <1>3, <1>4, <1>5, <1>6, <1>7, <1>8, <1>9 DEF Listed

\* At first no object exists and both lists are empty.
LEMMA FinalInit ==
    ASSUME FinalSide!Init PROVE FinalInv
<1>1. <<>> \in Seq(FObj) /\ ToSet(<<>>) = {} /\ IsInjective(<<>>)
  BY EmptySets
<1>2. FinalSide!TypeOK
  BY <1>1 DEF FinalSide!Init, FinalSide!TypeOK, FinalSide!Environment
<1>3. FinalSide!Registered
  BY <1>1, RegisteredByList DEF FinalSide!Init, Listed
<1>4. CurHeld /\ WokenForWork
  BY DEF FinalSide!Init, CurHeld, WokenForWork
<1> QED
  BY <1>2, <1>3, <1>4 DEF FinalInv

\* Every operation of the finalizer side keeps its invariant.
LEMMA FinalStep ==
    ASSUME FinalInv, FinalSide!Next PROVE FinalInv'
<1> DEFINE Env == [spurious : BOOLEAN, selfInterrupt : BOOLEAN, condCollects : BOOLEAN]
           Pcs == {"enter", "check", "wait", "blocked", "reenter", "pop", "exit", "free", "run"}
           Typed == /\ env \in Env
                    /\ fresh \subseteq FObj /\ fLive \subseteq FObj \ fresh /\ fRooted \subseteq FObj \ fresh
                    /\ pc \in Pcs /\ cur \in FObj \cup {None}
                    /\ owned \in BOOLEAN /\ signalled \in BOOLEAN /\ interrupted \in BOOLEAN
                    /\ hasCond \in BOOLEAN /\ stuck \in BOOLEAN /\ fTrap \in BOOLEAN
                    /\ finalized \subseteq FObj
           Lists == /\ Listed(finalizable, finalizing)
                    /\ ToSet(finalizable) \cup ToSet(finalizing) = (FObj \ fresh) \ (finalized \cup {cur})
                    /\ ToSet(finalizable) \cup ToSet(finalizing) \subseteq fLive
<1>0. Typed /\ Lists /\ CurHeld /\ WokenForWork /\ None \notin FObj
  <2>1. FinalSide!TypeOK /\ FinalSide!Registered /\ CurHeld /\ WokenForWork
    BY DEF FinalInv
  <2>2. finalizable \in Seq(FObj) /\ finalizing \in Seq(FObj)
    BY <2>1 DEF FinalSide!TypeOK
  <2>3. Lists
    BY <2>1, <2>2, RegisteredByList
  <2>4. Typed
    BY <2>1 DEF FinalSide!TypeOK, FinalSide!Environment
  <2> QED
    BY <2>1, <2>3, <2>4, MemoryAssumption DEF MemoryAssumption, FinalSide!FinalizerAssumption
<1> SUFFICES Typed' /\ Lists' /\ CurHeld' /\ WokenForWork'
  <2>1. ASSUME Typed', Lists' PROVE FinalSide!TypeOK'
    BY <2>1 DEF FinalSide!TypeOK, FinalSide!Environment, Listed
  <2>2. ASSUME Lists' PROVE FinalSide!Registered'
    BY <2>2, ConcatSets, FinalSame DEF FinalSide!Registered, Listed
  <2> QED
    BY <2>1, <2>2 DEF FinalInv
<1>e. env' = env /\ ~ stuck /\ ~ fTrap
  BY DEF FinalSide!Next
<1>1. ASSUME NEW o \in FObj, FinalSide!New(o) PROVE Typed' /\ Lists' /\ CurHeld' /\ WokenForWork'
  <2>1. /\ o \in fresh /\ fresh' = fresh \ {o} /\ fLive' = fLive \cup {o} /\ fRooted' = fRooted \cup {o}
        /\ finalizable' = <<o>> \o finalizable
        /\ UNCHANGED <<finalizing, pc, cur, owned, signalled, interrupted, hasCond, stuck,
                        fTrap, finalized>>
    BY <1>1 DEF FinalSide!New
  <2>2. <<o>> \in Seq(FObj) /\ ToSet(<<o>>) = {o} /\ IsInjective(<<o>>)
    BY SingleSets
  <2>3. o \notin ToSet(finalizable) \cup ToSet(finalizing)
    BY <1>0, <2>1
  <2>4. finalizable' \in Seq(FObj) /\ ToSet(finalizable') = {o} \cup ToSet(finalizable) /\ IsInjective(finalizable')
    <3> DEFINE one == <<o>>
    <3>1. one \in Seq(FObj) /\ ToSet(one) = {o} /\ IsInjective(one) /\ finalizable' = one \o finalizable
      BY <2>1, <2>2
    <3>2. finalizable \in Seq(FObj) /\ IsInjective(finalizable) /\ {o} \cap ToSet(finalizable) = {}
      BY <1>0, <2>3 DEF Listed
    <3> HIDE DEF one
    <3> QED
      BY <3>1, <3>2, ConcatSets
  <2>5. Lists'
    BY <1>0, <2>1, <2>3, <2>4 DEF Listed, CurHeld
  <2> QED
    BY <1>0, <1>e, <2>1, <2>5 DEF CurHeld, WokenForWork
<1>2. ASSUME NEW o \in FObj, FinalSide!Drop(o) PROVE Typed' /\ Lists' /\ CurHeld' /\ WokenForWork'
  BY <1>0, <1>e, <1>2 DEF FinalSide!Drop, Listed, CurHeld, WokenForWork
<1>m. ASSUME FinalSide!CollectWith(FinalSide!Marked), UNCHANGED <<fresh, fRooted, cur, finalized>>
      PROVE  /\ Lists' /\ fLive' \subseteq FObj \ fresh
             /\ FinalSide!Notifies(FinalSide!Marked) => finalizing' # <<>>
             /\ finalizing # <<>> => finalizing' # <<>>
  <2> DEFINE marked == FinalSide!Marked
  <2>1. marked \subseteq FObj \ fresh
    BY <1>0 DEF FinalSide!Marked, CurHeld
  <2> HIDE DEF marked
  <2>2. FinalSide!MoveDead(marked) /\ fLive' = marked \cup ToSet(finalizing')
    BY <1>m, FinalSame DEF FinalSide!CollectWith, FinalSide!Resurrected, marked
  <2>3. /\ Listed(finalizable', finalizing')
        /\ ToSet(finalizable') \cup ToSet(finalizing') = ToSet(finalizable) \cup ToSet(finalizing)
        /\ ToSet(finalizable') = ToSet(finalizable) \cap marked
        /\ FinalSide!Notifies(marked) => finalizing' # <<>>
        /\ finalizing # <<>> => finalizing' # <<>>
    BY <1>0, <2>2, MoveDeadKeeps
  <2> QED
    BY <1>0, <1>m, <2>1, <2>2, <2>3 DEF marked
<1>3. ASSUME FinalSide!Collect PROVE Typed' /\ Lists' /\ CurHeld' /\ WokenForWork'
  <2>1. UNCHANGED <<fresh, fRooted, pc, cur, owned, interrupted, hasCond, fTrap, finalized>>
    BY <1>3 DEF FinalSide!Collect
  <2>2. CASE FinalSide!Notifies(FinalSide!Marked) /\ owned
    <3>1. stuck' = TRUE /\ UNCHANGED <<fLive, finalizable, finalizing, signalled>>
      BY <1>3, <2>2 DEF FinalSide!Collect
    <3> QED
      BY <1>0, <1>e, <2>1, <3>1 DEF Listed, CurHeld, WokenForWork
  <2>3. CASE ~ (FinalSide!Notifies(FinalSide!Marked) /\ owned)
    <3>1. /\ FinalSide!CollectWith(FinalSide!Marked)
          /\ signalled' = (signalled \/ (FinalSide!Notifies(FinalSide!Marked) /\ pc = "blocked"))
          /\ stuck' = stuck
      BY <1>3, <2>3 DEF FinalSide!Collect
    <3>2. signalled' \in BOOLEAN
      BY <1>0, <3>1
    <3>3. /\ Lists' /\ fLive' \subseteq FObj \ fresh
          /\ FinalSide!Notifies(FinalSide!Marked) => finalizing' # <<>>
          /\ finalizing # <<>> => finalizing' # <<>>
      BY <1>m, <2>1, <3>1
    <3>4. WokenForWork'
      BY <1>0, <1>e, <2>1, <3>1, <3>3 DEF WokenForWork
    <3> QED
      BY <1>0, <1>e, <2>1, <3>1, <3>2, <3>3, <3>4 DEF CurHeld
  <2> QED
    BY <2>2, <2>3
<1>4. ASSUME FinalSide!FinalizerThread PROVE Typed' /\ Lists' /\ CurHeld' /\ WokenForWork'
  <2>t. ASSUME FinalSide!TakeFirst, pc \in {"check", "pop"},
               ~ env.spurious /\ ~ env.selfInterrupt => finalizing # <<>>,
               UNCHANGED <<fresh, fLive, fRooted, finalizable, owned, signalled, interrupted,
                           hasCond, stuck, finalized>>
        PROVE  Typed' /\ Lists' /\ CurHeld' /\ WokenForWork'
    <3>1. CASE finalizing = <<>>
      <4>1. fTrap' = TRUE /\ UNCHANGED <<pc, cur, finalizing>>
        BY <2>t, <3>1 DEF FinalSide!TakeFirst
      <4> QED
        BY <1>0, <1>e, <2>t, <3>1, <4>1 DEF Listed, CurHeld, WokenForWork
    <3>2. CASE finalizing # <<>>
      <4>1. cur' = Head(finalizing) /\ finalizing' = Tail(finalizing) /\ pc' = "exit" /\ fTrap' = fTrap
        BY <2>t, <3>2 DEF FinalSide!TakeFirst, FinalSide!Goto
      <4>2. /\ Head(finalizing) \in FObj /\ Tail(finalizing) \in Seq(FObj)
            /\ ToSet(finalizing) = {Head(finalizing)} \cup ToSet(Tail(finalizing))
            /\ IsInjective(Tail(finalizing)) /\ Head(finalizing) \notin ToSet(Tail(finalizing))
        BY <1>0, <3>2, HeadTailSets DEF Listed
      <4>3. cur = None
        BY <1>0, <2>t DEF CurHeld
      <4>4. Lists'
        BY <1>0, <2>t, <4>1, <4>2, <4>3 DEF Listed
      <4>5. cur' \in FObj \ fresh
        BY <1>0, <4>1, <4>2
      <4>6. Typed' /\ CurHeld'
        BY <1>0, <1>e, <2>t, <4>1, <4>5 DEF CurHeld
      <4>7. WokenForWork'
        BY <1>0, <1>e, <2>t, <4>1 DEF WokenForWork
      <4> QED
        BY <4>4, <4>6, <4>7
    <3> QED
      BY <3>1, <3>2
  <2>1. CASE FinalSide!Enter
    BY <1>0, <1>e, <2>1 DEF FinalSide!Enter, FinalSide!Goto, Listed, CurHeld, WokenForWork
  <2>2. CASE FinalSide!Check
    <3>1. CASE finalizing = <<>>
      BY <1>0, <1>e, <2>2, <3>1 DEF FinalSide!Check, FinalSide!Goto, Listed, CurHeld, WokenForWork
    <3>2. CASE finalizing # <<>>
      BY <2>2, <2>t, <3>2 DEF FinalSide!Check
    <3> QED
      BY <3>1, <3>2
  <2>3. CASE FinalSide!Pop
    BY <1>0, <2>3, <2>t DEF FinalSide!Pop, WokenForWork
  <2>4. CASE FinalSide!WaitInterrupted
    BY <1>0, <1>e, <2>4 DEF FinalSide!WaitInterrupted, FinalSide!Goto, Listed, CurHeld, WokenForWork
  <2>5. CASE FinalSide!Wait
    <3>1. /\ pc = "wait" /\ pc' = "blocked" /\ owned' = FALSE /\ hasCond' = TRUE
          /\ UNCHANGED <<fresh, fRooted, cur, signalled, interrupted, stuck, fTrap, finalized>>
          /\ \/ UNCHANGED <<fLive, finalizable, finalizing>>
             \/ FinalSide!CollectWith(FinalSide!Marked)
      BY <2>5 DEF FinalSide!Wait, FinalSide!Goto
    <3>2. Lists' /\ fLive' \subseteq FObj \ fresh
      <4>1. CASE UNCHANGED <<fLive, finalizable, finalizing>>
        BY <1>0, <3>1, <4>1 DEF Listed
      <4> QED
        BY <1>m, <3>1, <4>1
    <3> QED
      BY <1>0, <1>e, <3>1, <3>2 DEF CurHeld, WokenForWork
  <2>6. CASE FinalSide!Woken
    <3>1. /\ pc = "blocked" /\ pc' = "reenter" /\ (signalled \/ env.spurious)
          /\ signalled' = FALSE
          /\ UNCHANGED <<fresh, fLive, fRooted, finalizable, finalizing, cur, owned, interrupted,
                          hasCond, stuck, fTrap, finalized>>
      BY <2>6 DEF FinalSide!Woken, FinalSide!Goto
    <3> QED
      BY <1>0, <1>e, <3>1 DEF Listed, CurHeld, WokenForWork
  <2>7. CASE FinalSide!Exit
    BY <1>0, <1>e, <2>7 DEF FinalSide!Exit, FinalSide!Goto, Listed, CurHeld, WokenForWork
  <2>8. CASE FinalSide!Free
    BY <1>0, <1>e, <2>8 DEF FinalSide!Free, FinalSide!Goto, Listed, CurHeld, WokenForWork
  <2>9. CASE FinalSide!Run
    <3>1. /\ pc = "run" /\ finalized' = finalized \cup {cur} /\ pc' = "enter" /\ cur' = None
          /\ fRooted' \in {fRooted, fRooted \cup {cur}}
          /\ interrupted' \in {interrupted} \cup (IF env.selfInterrupt THEN {TRUE} ELSE {})
          /\ UNCHANGED <<fresh, fLive, finalizable, finalizing, owned, signalled, hasCond, stuck, fTrap>>
      BY <2>9 DEF FinalSide!Run, FinalSide!Goto
    <3>2. cur \in FObj \ fresh
      BY <1>0, <3>1 DEF CurHeld
    <3>3. interrupted' \in BOOLEAN /\ (~ env.selfInterrupt => interrupted' = interrupted)
      BY <1>0, <3>1
    <3>4. Lists'
      BY <1>0, <3>1, <3>2 DEF Listed
    <3>5. fRooted' \subseteq FObj \ fresh /\ finalized' \subseteq FObj \ fresh
      BY <1>0, <3>1, <3>2 DEF CurHeld
    <3>6. Typed' /\ CurHeld'
      BY <1>0, <1>e, <3>1, <3>3, <3>5 DEF CurHeld
    <3>7. WokenForWork'
      BY <1>0, <1>e, <3>1, <3>3 DEF WokenForWork
    <3> HIDE DEF Lists, Typed
    <3> QED
      BY <3>4, <3>6, <3>7
  <2> QED
    BY <1>4, <2>1, <2>2, <2>3, <2>4, <2>5, <2>6, <2>7, <2>8, <2>9 DEF FinalSide!FinalizerThread
<1> QED
  BY <1>1, <1>2, <1>3, <1>4 DEF FinalSide!Next

---------------------------------------------------------------------------
(* Interned strings                                                        *)

\* The same for the copies of the string tables' side.
LEMMA InternSame ==
    /\ \A s : InternSide!ToSet(s) = ToSet(s)
    /\ \A s : InternSide!IsInjective(s) <=> IsInjective(s)
    /\ \A s, t : InternSide!Kept(s, t) = Kept(s, t)
    /\ \A s : InternSide!Reverse(s) = Reverse(s)
    /\ \A s : InternSide!FlattenSeq(s) = FlattenSeq(s)
    /\ \A s : InternSide!Cardinality(s) = Cardinality(s)
<1>1. \A s : InternSide!ToSet(s) = ToSet(s)
  BY DEF InternSide!ToSet, ToSet
<1>2. \A s : InternSide!IsInjective(s) <=> IsInjective(s)
  BY DEF InternSide!IsInjective, IsInjective
<1>3. \A s, t : InternSide!Kept(s, t) = Kept(s, t)
  BY DEF InternSide!Kept, Kept
<1>4. \A s : InternSide!Reverse(s) = Reverse(s)
  BY DEF InternSide!Reverse, Reverse
<1>5. \A s : InternSide!FlattenSeq(s) = FlattenSeq(s)
  BY DEF InternSide!FlattenSeq, FlattenSeq
<1>6. \A s : InternSide!Cardinality(s) = Cardinality(s)
  BY DEF InternSide!Cardinality, Cardinality
<1> QED
  BY <1>1, <1>2, <1>3, <1>4, <1>5, <1>6

\* A table of n buckets, and the strings in it.
TableOf(n) == [0 .. n - 1 -> Seq(Str)]
Strings(table) == UNION {ToSet(table[h]) : h \in DOMAIN table}

\* A table has as many buckets as it was made with.
LEMMA TableCapacity ==
    ASSUME NEW n \in Nat \ {0}, NEW table \in TableOf(n)
    PROVE  InternSide!Capacity(table) = n
<1>1. DOMAIN table = 0 .. n - 1
  BY DEF TableOf
<1>2. Cardinality(0 .. n - 1) = n
  BY FS_Interval
<1> QED
  BY <1>1, <1>2, InternSame DEF InternSide!Capacity

\* Entries lists the strings of a table, each once if the buckets do.
LEMMA TableEntries ==
    ASSUME NEW n \in Nat \ {0}, NEW table \in TableOf(n)
    PROVE  /\ InternSide!Entries(table) \in Seq(Str)
           /\ ToSet(InternSide!Entries(table)) = Strings(table)
           /\ (/\ \A h \in 0 .. n - 1 : IsInjective(table[h])
               /\ \A g, h \in 0 .. n - 1 : g # h => ToSet(table[g]) \cap ToSet(table[h]) = {})
              => IsInjective(InternSide!Entries(table))
<1> DEFINE seqs == [i \in 1 .. n |-> table[i - 1]]
           all == FlattenSeq(seqs)
<1>1. InternSide!Entries(table) = all
  BY TableCapacity, InternSame DEF InternSide!Entries
<1>2. DOMAIN table = 0 .. n - 1 /\ \A h \in 0 .. n - 1 : table[h] \in Seq(Str)
  BY DEF TableOf
<1>3. \A i \in 1 .. n : i - 1 \in 0 .. n - 1
  OBVIOUS
<1>4. seqs \in Seq(Seq(Str)) /\ seqs # <<>> /\ DOMAIN seqs = 1 .. n
      /\ \A i \in 1 .. n : seqs[i] = table[i - 1]
  <2>1. seqs \in [1 .. n -> Seq(Str)]
    BY <1>2, <1>3
  <2> QED
    BY <2>1
<1> HIDE DEF seqs
<1>5. /\ all \in Seq(Str)
      /\ ToSet(all) = UNION {ToSet(seqs[i]) : i \in 1 .. n}
      /\ (/\ \A i \in 1 .. n : IsInjective(seqs[i])
          /\ \A i, j \in 1 .. n : i # j => ToSet(seqs[i]) \cap ToSet(seqs[j]) = {})
         => IsInjective(all)
  BY <1>4, FlattenSets
<1> HIDE DEF all
<1>6. \A h \in 0 .. n - 1 : h + 1 \in 1 .. n /\ seqs[h + 1] = table[h]
  <2>1. \A h \in 0 .. n - 1 : h + 1 \in 1 .. n /\ (h + 1) - 1 = h
    OBVIOUS
  <2> QED
    BY <1>4, <2>1
<1>7. UNION {ToSet(seqs[i]) : i \in 1 .. n} = Strings(table)
  <2>1. \A i \in 1 .. n : ToSet(seqs[i]) \subseteq Strings(table)
    BY <1>2, <1>3, <1>4 DEF Strings
  <2>2. \A h \in 0 .. n - 1 : ToSet(table[h]) \subseteq UNION {ToSet(seqs[i]) : i \in 1 .. n}
    BY <1>6
  <2> QED
    BY <1>2, <2>1, <2>2 DEF Strings
<1>8. ASSUME \A h \in 0 .. n - 1 : IsInjective(table[h]),
             \A g, h \in 0 .. n - 1 : g # h => ToSet(table[g]) \cap ToSet(table[h]) = {}
      PROVE  IsInjective(all)
  <2>1. \A i \in 1 .. n : IsInjective(seqs[i])
    BY <1>3, <1>4, <1>8
  <2>2. \A i, j \in 1 .. n : i # j => i - 1 # j - 1
    OBVIOUS
  <2>3. \A i, j \in 1 .. n : i # j => ToSet(seqs[i]) \cap ToSet(seqs[j]) = {}
    BY <1>3, <1>4, <1>8, <2>2
  <2> QED
    BY <1>5, <2>1, <2>3
<1> QED
  BY <1>1, <1>5, <1>7, <1>8

\* A table is sound for what the strings say: every string is in its bucket, once,
\* and no other string of the table says the same.
InBuckets(n, table, says) ==
    \A h \in 0 .. n - 1 :
        /\ IsInjective(table[h])
        /\ \A s \in ToSet(table[h]) : says[s] \in Content /\ Hash[says[s]] % n = h
SoundTable(n, table, says) ==
    /\ n \in Nat \ {0} /\ table \in TableOf(n)
    /\ InBuckets(n, table, says)
    /\ \A s, t \in Strings(table) : says[s] = says[t] => s = t

\* A string is in a table when it is in one of its buckets.
LEMMA InStrings ==
    ASSUME NEW n \in Nat \ {0}, NEW table \in TableOf(n), NEW s
    PROVE  s \in Strings(table) <=> \E h \in 0 .. n - 1 : s \in ToSet(table[h])
BY DEF Strings, TableOf

\* Listed bucket by bucket, a sound table has each of its strings once.
LEMMA SoundEntries ==
    ASSUME NEW n, NEW table, NEW says, SoundTable(n, table, says)
    PROVE  /\ InternSide!Capacity(table) = n
           /\ InternSide!Entries(table) \in Seq(Str)
           /\ ToSet(InternSide!Entries(table)) = Strings(table)
           /\ IsInjective(InternSide!Entries(table))
<1>1. n \in Nat \ {0} /\ table \in TableOf(n) /\ InBuckets(n, table, says)
  BY DEF SoundTable
<1>2. \A h \in 0 .. n - 1 : IsInjective(table[h])
  BY <1>1 DEF InBuckets
<1>3. \A g, h \in 0 .. n - 1 : g # h => ToSet(table[g]) \cap ToSet(table[h]) = {}
  BY <1>1 DEF InBuckets
<1> QED
  BY <1>1, <1>2, <1>3, TableCapacity, TableEntries

\* A hash is a number, so it has a bucket.
LEMMA HashNat ==
    ASSUME NEW c \in Content, NEW n \in Nat \ {0} PROVE Hash[c] \in Nat /\ Hash[c] % n \in 0 .. n - 1
<1>1. Hash[c] \in Nat
  BY MemoryAssumption DEF MemoryAssumption, InternSide!InternAssumption
<1> QED
  BY <1>1

\* A lookup finds the string that says c wherever it is in the table.
LEMMA FindString ==
    ASSUME NEW n, NEW table, SoundTable(n, table, content), NEW c \in Content
    PROVE  /\ InternSide!Find(table, c) \in Seq(Str)
           /\ ToSet(InternSide!Find(table, c)) = {s \in Strings(table) : content[s] = c}
<1> DEFINE h == Hash[c] % n
           says == {s \in Str : content[s] = c}
<1>1. n \in Nat \ {0} /\ table \in TableOf(n) /\ InBuckets(n, table, content)
  BY DEF SoundTable
<1>2. h \in 0 .. n - 1 /\ InternSide!Bucket(c, table) = h
  BY <1>1, HashNat, TableCapacity DEF InternSide!Bucket
<1>3. table[h] \in Seq(Str) /\ InternSide!Find(table, c) = Kept(table[h], says)
  BY <1>1, <1>2, InternSame DEF InternSide!Find, TableOf
<1> HIDE DEF h, says
<1>4. /\ Kept(table[h], says) \in Seq(Str)
      /\ ToSet(Kept(table[h], says)) = ToSet(table[h]) \cap says
  BY <1>3, KeptProperties
<1>5. \A s \in Strings(table) : content[s] = c => s \in ToSet(table[h])
  BY <1>1, InStrings DEF InBuckets, h
<1>6. \A s \in ToSet(table[h]) : s \in Strings(table) /\ s \in Str
  BY <1>1, <1>2, <1>3, InStrings DEF ToSet
<1> QED
  BY <1>3, <1>4, <1>5, <1>6 DEF says

\* A new string goes in front of its bucket.
LEMMA InsertString ==
    ASSUME NEW n, NEW table, NEW says, SoundTable(n, table, says),
           NEW s \in Str, says[s] \in Content,
           \A t \in Strings(table) : says[t] # says[s]
    PROVE  /\ SoundTable(n, InternSide!Insert(table, s, says[s]), says)
           /\ Strings(InternSide!Insert(table, s, says[s])) = Strings(table) \cup {s}
<1> DEFINE h == Hash[says[s]] % n
           new == InternSide!Insert(table, s, says[s])
           one == <<s>>
<1>1. n \in Nat \ {0} /\ table \in TableOf(n) /\ InBuckets(n, table, says)
  BY DEF SoundTable
<1>2. h \in 0 .. n - 1 /\ InternSide!Bucket(says[s], table) = h
  BY <1>1, HashNat, TableCapacity DEF InternSide!Bucket
<1>3. /\ table[h] \in Seq(Str) /\ new = [table EXCEPT ![h] = one \o table[h]]
  BY <1>1, <1>2 DEF InternSide!Insert, TableOf
<1>4. one \in Seq(Str) /\ ToSet(one) = {s} /\ IsInjective(one)
  BY SingleSets
<1>5. s \notin Strings(table)
  OBVIOUS
<1>h. h = Hash[says[s]] % n
  OBVIOUS
<1> HIDE DEF h, new, one
<1>6. ToSet(table[h]) \cap {s} = {}
  BY <1>1, <1>2, <1>5, InStrings
<1>7. one \o table[h] \in Seq(Str)
      /\ ToSet(one \o table[h]) = {s} \cup ToSet(table[h])
      /\ (IsInjective(table[h]) => IsInjective(one \o table[h]))
  BY <1>3, <1>4, <1>6, ConcatSets
<1>8. /\ new \in TableOf(n) /\ new[h] = one \o table[h]
      /\ \A g \in 0 .. n - 1 : g # h => new[g] = table[g]
  BY <1>1, <1>2, <1>3, <1>7 DEF TableOf
<1>9. InBuckets(n, new, says)
  <2> SUFFICES ASSUME NEW g \in 0 .. n - 1
               PROVE  /\ IsInjective(new[g])
                      /\ \A t \in ToSet(new[g]) : says[t] \in Content /\ Hash[says[t]] % n = g
    BY DEF InBuckets
  <2>1. CASE g = h
    BY <1>1, <1>2, <1>7, <1>8, <1>h, <2>1 DEF InBuckets
  <2>2. CASE g # h
    BY <1>1, <1>8, <2>2 DEF InBuckets
  <2> QED
    BY <2>1, <2>2
<1>10. Strings(new) = Strings(table) \cup {s}
  <2>1. ASSUME NEW t \in Strings(new) PROVE t \in Strings(table) \cup {s}
    <3>1. PICK g \in 0 .. n - 1 : t \in ToSet(new[g])
      BY <1>1, <1>8, InStrings
    <3>2. t = s \/ t \in ToSet(table[g])
      BY <1>7, <1>8, <3>1
    <3> QED
      BY <1>1, <3>2, InStrings
  <2>2. \A t \in Strings(table) : t \in Strings(new)
    BY <1>1, <1>7, <1>8, InStrings
  <2>3. s \in Strings(new)
    BY <1>1, <1>2, <1>7, <1>8, InStrings
  <2> QED
    BY <2>1, <2>2, <2>3
<1>11. \A t, u \in Strings(new) : says[t] = says[u] => t = u
  BY <1>10 DEF SoundTable
<1>12. SoundTable(n, new, says)
  BY <1>1, <1>8, <1>9, <1>11 DEF SoundTable
<1> QED
  BY <1>10, <1>12 DEF new

\* A rehash to any size moves every string to its new bucket.
LEMMA RehashTable ==
    ASSUME NEW n, NEW table, NEW says, SoundTable(n, table, says), NEW m \in Nat \ {0}
    PROVE  /\ SoundTable(m, InternSide!Rehashed(table, says, m), says)
           /\ Strings(InternSide!Rehashed(table, says, m)) = Strings(table)
<1> DEFINE new == InternSide!Rehashed(table, says, m)
           all == InternSide!Entries(table)
           Here(h) == {s \in ToSet(all) : Hash[says[s]] % m = h}
<1>1. n \in Nat \ {0} /\ table \in TableOf(n) /\ InBuckets(n, table, says)
  BY DEF SoundTable
<1>2. all \in Seq(Str) /\ ToSet(all) = Strings(table) /\ IsInjective(all)
  BY SoundEntries
<1>3. new = [h \in 0 .. m - 1 |-> Reverse(Kept(all, Here(h)))]
  BY InternSame DEF InternSide!Rehashed
<1>h. \A h : Here(h) = {s \in Strings(table) : Hash[says[s]] % m = h}
  BY <1>2
<1> HIDE DEF new, all, Here
<1>4. ASSUME NEW h \in 0 .. m - 1
      PROVE  /\ new[h] \in Seq(Str) /\ IsInjective(new[h])
             /\ ToSet(new[h]) = {s \in Strings(table) : Hash[says[s]] % m = h}
  <2> DEFINE kept == Kept(all, Here(h))
  <2>1. kept \in Seq(Str) /\ ToSet(kept) = ToSet(all) \cap Here(h) /\ IsInjective(kept)
    BY <1>2, KeptProperties
  <2>2. new[h] = Reverse(kept)
    BY <1>3
  <2> HIDE DEF kept
  <2>3. new[h] \in Seq(Str) /\ ToSet(new[h]) = ToSet(kept) /\ IsInjective(new[h])
    BY <2>1, <2>2, ReverseSets
  <2> QED
    BY <1>2, <1>h, <2>1, <2>3
<1>5. new \in TableOf(m)
  BY <1>3, <1>4 DEF TableOf
<1>6. \A s \in Strings(table) : says[s] \in Content
  BY <1>1, InStrings DEF InBuckets
<1>7. Strings(new) = Strings(table)
  <2>1. \A s \in Strings(new) : s \in Strings(table)
    BY <1>4, <1>5, InStrings
  <2>2. \A s \in Strings(table) : s \in Strings(new)
    BY <1>4, <1>5, <1>6, HashNat, InStrings
  <2> QED
    BY <2>1, <2>2
<1>8. InBuckets(m, new, says)
  BY <1>4, <1>6 DEF InBuckets
<1> QED
  BY <1>5, <1>7, <1>8 DEF SoundTable, new

\* A purge leaves a part of the strings, in their buckets, and none that is dead.
LEMMA PurgeTable ==
    ASSUME NEW n, NEW table, NEW says, SoundTable(n, table, says), NEW marked
    PROVE  /\ SoundTable(n, InternSide!PurgedTable(table, marked), says)
           /\ Strings(InternSide!PurgedTable(table, marked)) \subseteq Strings(table) \cap marked
<1> DEFINE new == InternSide!PurgedTable(table, marked)
<1>1. n \in Nat \ {0} /\ table \in TableOf(n) /\ InBuckets(n, table, says)
  BY DEF SoundTable
<1>2. new = [h \in 0 .. n - 1 |-> InternSide!Purged(table[h], marked)]
  BY <1>1 DEF InternSide!PurgedTable, TableOf
<1> HIDE DEF new
<1>3. ASSUME NEW h \in 0 .. n - 1
      PROVE  /\ new[h] \in Seq(Str) /\ ToSet(new[h]) \subseteq ToSet(table[h]) \cap marked
             /\ IsInjective(new[h])
  <2> DEFINE chain == table[h]
             kept == Kept(chain, marked)
  <2>1. chain \in Seq(Str) /\ IsInjective(chain)
    BY <1>1 DEF TableOf, InBuckets
  <2>2. new[h] = kept \/ new[h] = <<>>
    BY <1>2, InternSame DEF InternSide!Purged
  <2> HIDE DEF chain
  <2>3. kept \in Seq(Str) /\ ToSet(kept) = ToSet(chain) \cap marked /\ IsInjective(kept)
    BY <2>1, KeptProperties
  <2>4. <<>> \in Seq(Str) /\ ToSet(<<>>) = {} /\ IsInjective(<<>>)
    BY EmptySets
  <2> QED
    BY <2>2, <2>3, <2>4 DEF chain
<1>4. new \in TableOf(n)
  BY <1>2, <1>3 DEF TableOf
<1>5. InBuckets(n, new, says)
  BY <1>1, <1>3 DEF InBuckets
<1>6. \A s \in Strings(new) : s \in Strings(table) \cap marked
  BY <1>1, <1>3, <1>4, InStrings
<1> QED
  BY <1>1, <1>4, <1>5, <1>6 DEF SoundTable, new

\* A table does not notice what is said by strings that are not in it.
LEMMA SaysElsewhere ==
    ASSUME NEW n, NEW table, NEW says, SoundTable(n, table, says), NEW new,
           \A s \in Strings(table) : new[s] = says[s]
    PROVE  SoundTable(n, table, new)
<1>1. n \in Nat \ {0} /\ table \in TableOf(n)
  BY DEF SoundTable
<1>2. \A h \in 0 .. n - 1 : \A s \in ToSet(table[h]) : s \in Strings(table)
  BY <1>1, InStrings
<1> QED
  BY <1>1, <1>2 DEF SoundTable, InBuckets

\* The capacity of a table is one that doubling the first one leads to.
LEMMA DoubledSteps ==
    /\ InternSide!Doubled(0) = InitCapacity
    /\ \A n \in Nat : /\ InternSide!Doubled(n) \in Nat /\ InternSide!Doubled(n) > n
                     /\ InternSide!Doubled(n + 1) = 2 * InternSide!Doubled(n)
<1> DEFINE Def(n, f) == f = [i \in 0 .. n |-> IF i = 0 THEN InitCapacity ELSE 2 * f[i - 1]]
           double(n) == CHOOSE f : Def(n, f)
<1>1. InitCapacity \in Nat /\ InitCapacity > 1
  BY MemoryAssumption DEF MemoryAssumption, InternSide!InternAssumption
<1>2. ASSUME NEW n \in Nat PROVE Def(n, double(n))
  <2> DEFINE step == [i \in 1 .. n |-> [v \in Nat |-> 2 * v]]
  <2>1. step \in [1 .. n -> [Nat -> Nat]] /\ \A i \in 1 .. n, v \in Nat : step[i][v] = 2 * v
    OBVIOUS
  <2> HIDE DEF step
  <2>2. PICK f : Iterates(f, n, Nat, InitCapacity, step)
    BY <1>1, <2>1, Recursion
  <2>3. f = [i \in 0 .. n |-> f[i]] /\ f[0] = InitCapacity
    BY <2>2 DEF Iterates
  <2>4. ASSUME NEW i \in 1 .. n PROVE f[i] = 2 * f[i - 1]
    <3>1. i - 1 \in 0 .. n
      OBVIOUS
    <3> QED
      BY <2>1, <2>2, <3>1 DEF Iterates
  <2>5. ASSUME NEW i \in 0 .. n
        PROVE  f[i] = IF i = 0 THEN InitCapacity ELSE 2 * f[i - 1]
    <3>1. i = 0 \/ i \in 1 .. n
      OBVIOUS
    <3> QED
      BY <2>3, <2>4, <3>1
  <2>6. Def(n, f)
    BY <2>3, <2>5
  <2> QED
    BY <2>6
<1>3. ASSUME NEW n \in Nat PROVE InternSide!Doubled(n) = double(n)[n]
  BY DEF InternSide!Doubled
<1>4. ASSUME NEW n \in Nat, NEW i \in 0 .. n
      PROVE  double(n)[i] = IF i = 0 THEN InitCapacity ELSE 2 * double(n)[i - 1]
  <2> HIDE DEF double
  <2> QED
    BY <1>2
<1> HIDE DEF double
<1>5. ASSUME NEW n \in Nat
      PROVE  \A i \in 0 .. n : double(n)[i] \in Nat /\ double(n)[i] > i /\ double(n + 1)[i] = double(n)[i]
  <2> DEFINE Fine == {i \in 0 .. n : double(n)[i] \in Nat /\ double(n)[i] > i /\ double(n + 1)[i] = double(n)[i]}
  <2>1. 0 \in Fine
    BY <1>1, <1>4
  <2>2. ASSUME NEW i \in 1 .. n, i - 1 \in Fine PROVE i \in Fine
    <3>1. double(n)[i] = 2 * double(n)[i - 1] /\ double(n + 1)[i] = 2 * double(n + 1)[i - 1]
      BY <1>4
    <3> QED
      BY <2>2, <3>1
  <2> HIDE DEF Fine
  <2>3. \A i \in 0 .. n : i \in Fine
    BY <2>1, <2>2, Induction
  <2> QED
    BY <2>3 DEF Fine
<1>6. InternSide!Doubled(0) = InitCapacity
  BY <1>3, <1>4
<1>7. ASSUME NEW n \in Nat
      PROVE  /\ InternSide!Doubled(n) \in Nat /\ InternSide!Doubled(n) > n
             /\ InternSide!Doubled(n + 1) = 2 * InternSide!Doubled(n)
  <2>1. double(n + 1)[n + 1] = 2 * double(n + 1)[n]
    BY <1>4
  <2> QED
    BY <1>3, <1>5, <2>1
<1> QED
  BY <1>6, <1>7

Sizes == {InternSide!Doubled(n) : n \in Nat}

\* Capacities are doubled and halved within the powers of two from log2cap on.
LEMMA SizeSteps ==
    /\ InitCapacity \in Sizes
    /\ Sizes \subseteq Nat \ {0}
    /\ \A c \in Nat : c \in Sizes => c * 2 \in Sizes
    /\ \A c \in Nat : c \in Sizes /\ c > InitCapacity => c \div 2 \in Sizes
<1>1. InitCapacity \in Sizes
  BY DoubledSteps DEF Sizes
<1>2. ASSUME NEW c \in Sizes
      PROVE  /\ c \in Nat \ {0} /\ c * 2 \in Sizes
             /\ c > InitCapacity => c \div 2 \in Sizes
  <2>1. PICK n \in Nat : c = InternSide!Doubled(n)
    BY <1>2 DEF Sizes
  <2>2. c \in Nat \ {0} /\ n \in 0 .. c
    BY <2>1, DoubledSteps
  <2>3. c * 2 = InternSide!Doubled(n + 1) /\ n + 1 \in Nat
    BY <2>1, <2>2, DoubledSteps
  <2>4. ASSUME c > InitCapacity PROVE c \div 2 \in Sizes
    <3>1. n # 0
      <4>1. ~ InitCapacity > InitCapacity
        BY MemoryAssumption DEF MemoryAssumption, InternSide!InternAssumption
      <4> QED
        BY <2>1, <2>4, <4>1, DoubledSteps
    <3> DEFINE m == n - 1
    <3>2. m \in Nat /\ n = m + 1
      BY <3>1
    <3>3. c = 2 * InternSide!Doubled(m) /\ InternSide!Doubled(m) \in Nat
      BY <2>1, <3>2, DoubledSteps
    <3>4. c \div 2 = InternSide!Doubled(m)
      BY <3>3
    <3> QED
      BY <3>2, <3>4 DEF Sizes
  <2> QED
    BY <2>1, <2>2, <2>3, <2>4 DEF Sizes
<1> QED
  BY <1>1, <1>2

\* The capacity that jsm_rehash() chooses is one of them.
LEMMA NewCapacitySize ==
    ASSUME NEW c \in Sizes, NEW n \in Nat PROVE InternSide!NewCapacity(n, c) \in Sizes
<1>1. \/ InternSide!NewCapacity(n, c) = c * 2
      \/ InternSide!NewCapacity(n, c) = c \div 2 /\ c > InitCapacity
      \/ InternSide!NewCapacity(n, c) = c
  BY DEF InternSide!NewCapacity
<1> QED
  <2>1. c \in Nat
    BY SizeSteps
  <2>2. c * 2 \in Sizes /\ (c > InitCapacity => c \div 2 \in Sizes)
    BY <2>1, SizeSteps
  <2> QED
    BY <1>1, <2>2

\* The invariant of the string manager.  As long as no string was forgotten and no
\* literal came late, what intern() and the literals returned is still in one of
\* the two tables, and no string is in both, in other words.
InternInv ==
    /\ iLive \subseteq Str /\ iRooted \subseteq iLive /\ interned \subseteq iLive
    /\ content \in [Str -> Content \cup {None}]
    /\ \A s \in iLive : content[s] \in Content
    /\ \E n : SoundTable(n, buckets, content) /\ n \in Sizes
    /\ \E n : SoundTable(n, litBuckets, content) /\ n \in Sizes
    /\ Strings(buckets) \subseteq iLive /\ Strings(litBuckets) \subseteq iLive
    /\ entries \in Nat /\ litEntries \in Nat /\ split \in BOOLEAN
    /\ ~ split => /\ interned \subseteq Strings(buckets) \cup Strings(litBuckets)
                 /\ \A s \in Strings(buckets), t \in Strings(litBuckets) : content[s] # content[t]

\* What the marking reaches: the roots and the literals.
LEMMA InternMarked ==
    ASSUME InternInv
    PROVE  InternSide!Marked = iRooted \cup Strings(litBuckets)
BY InternSame, SoundEntries DEF InternInv, InternSide!Marked

\* At first both tables have empty buckets.
LEMMA InternInit ==
    ASSUME InternSide!Init PROVE InternInv
<1> DEFINE n == InitCapacity
           empty == [h \in 0 .. n - 1 |-> <<>>]
<1>1. n \in Nat \ {0}
  BY MemoryAssumption DEF MemoryAssumption, InternSide!InternAssumption
<1>2. <<>> \in Seq(Str) /\ ToSet(<<>>) = {} /\ IsInjective(<<>>)
  BY EmptySets
<1>3. empty \in TableOf(n)
  BY <1>2 DEF TableOf
<1>4. Strings(empty) = {}
  <2>1. \A h \in 0 .. n - 1 : ToSet(empty[h]) = {}
    BY <1>2
  <2> HIDE DEF empty, n
  <2> QED
    BY <1>1, <1>3, <2>1, InStrings
<1>5. InBuckets(n, empty, content)
  BY <1>2 DEF InBuckets
<1>6. SoundTable(n, empty, content)
  BY <1>1, <1>3, <1>4, <1>5 DEF SoundTable
<1>7. /\ iLive = {} /\ iRooted = {} /\ interned = {} /\ split = FALSE
      /\ content = [s \in Str |-> None] /\ buckets = empty /\ litBuckets = empty
      /\ entries = 0 /\ litEntries = 0
  BY DEF InternSide!Init
<1>8. n \in Sizes
  BY SizeSteps
<1>9. content \in [Str -> Content \cup {None}]
  BY <1>7
<1> HIDE DEF empty, n
<1> QED
  BY <1>4, <1>6, <1>7, <1>8, <1>9 DEF InternInv

\* Every operation of the string manager keeps its invariant.
LEMMA InternStep ==
    ASSUME InternInv, InternSide!Next PROVE InternInv'
<1> DEFINE marked == InternSide!Marked
<1>0. /\ iLive \subseteq Str /\ iRooted \subseteq iLive /\ interned \subseteq iLive
      /\ content \in [Str -> Content \cup {None}]
      /\ \A s \in iLive : content[s] \in Content
      /\ Strings(buckets) \subseteq iLive /\ Strings(litBuckets) \subseteq iLive
      /\ entries \in Nat /\ litEntries \in Nat /\ split \in BOOLEAN
      /\ ~ split => /\ interned \subseteq Strings(buckets) \cup Strings(litBuckets)
                   /\ \A s \in Strings(buckets), t \in Strings(litBuckets) : content[s] # content[t]
  BY DEF InternInv
<1>b. PICK n : SoundTable(n, buckets, content) /\ n \in Sizes
  BY DEF InternInv
<1>l. PICK m : SoundTable(m, litBuckets, content) /\ m \in Sizes
  BY DEF InternInv
<1>k. marked = iRooted \cup Strings(litBuckets) /\ marked \subseteq iLive
  BY <1>0, InternMarked
<1> HIDE DEF marked
<1>f. ASSUME NEW c \in Content
      PROVE  /\ InternSide!Find(buckets, c) \in Seq(Str) /\ InternSide!Find(litBuckets, c) \in Seq(Str)
             /\ ToSet(InternSide!Find(buckets, c)) = {s \in Strings(buckets) : content[s] = c}
             /\ ToSet(InternSide!Find(litBuckets, c)) = {s \in Strings(litBuckets) : content[s] = c}
  <2>1. /\ InternSide!Find(buckets, c) \in Seq(Str)
        /\ ToSet(InternSide!Find(buckets, c)) = {s \in Strings(buckets) : content[s] = c}
    BY <1>b, FindString
  <2>2. /\ InternSide!Find(litBuckets, c) \in Seq(Str)
        /\ ToSet(InternSide!Find(litBuckets, c)) = {s \in Strings(litBuckets) : content[s] = c}
    BY <1>l, FindString
  <2> QED
    BY <2>1, <2>2
<1>e. \A s : s = <<>> => ToSet(s) = {}
  BY EmptySets
<1>h. ASSUME NEW s \in Seq(Str), s # <<>> PROVE Head(s) \in ToSet(s)
  BY <1>h, HeadIsIn
<1>u. ASSUME NEW table, NEW k, SoundTable(k, table, content) PROVE InternSide!Used(table, marked) \in Nat
  <2>1. InternSide!Entries(table) \in Seq(Str)
    BY <1>u, SoundEntries
  <2>2. Kept(InternSide!Entries(table), marked) \in Seq(Str)
    BY <2>1, KeptProperties
  <2> QED
    BY <2>2, InternSame DEF InternSide!Used
<1>p. ASSUME NEW table, NEW k, SoundTable(k, table, content), ~ InternSide!Forgets(table, marked)
      PROVE  Strings(table) \cap marked \subseteq Strings(InternSide!PurgedTable(table, marked))
  <2>1. SoundTable(k, InternSide!PurgedTable(table, marked), content)
    BY <1>p, PurgeTable
  <2>2. /\ ToSet(InternSide!Entries(table)) = Strings(table)
        /\ ToSet(InternSide!Entries(InternSide!PurgedTable(table, marked)))
             = Strings(InternSide!PurgedTable(table, marked))
    BY <1>p, <2>1, SoundEntries
  <2> QED
    BY <1>p, <2>2, InternSame DEF InternSide!Forgets
<1>1. ASSUME NEW s \in Str, NEW c \in Content, InternSide!NewString(s, c) PROVE InternInv'
  <2>1. /\ s \notin iLive /\ iLive' = iLive \cup {s} /\ iRooted' = iRooted \cup {s}
        /\ content' = [content EXCEPT ![s] = c]
        /\ UNCHANGED <<buckets, entries, litBuckets, litEntries, interned, split>>
    BY <1>1 DEF InternSide!NewString
  <2>2. /\ content' \in [Str -> Content \cup {None}]
        /\ content'[s] = c /\ \A t \in iLive : content'[t] = content[t]
    BY <1>0, <2>1
  <2>3. SoundTable(n, buckets', content') /\ SoundTable(m, litBuckets', content')
    BY <1>0, <1>b, <1>l, <2>1, <2>2, SaysElsewhere
  <2>4. /\ \A t \in iLive' : content'[t] \in Content
        /\ iLive' \subseteq Str /\ iRooted' \subseteq iLive' /\ interned' \subseteq iLive'
        /\ Strings(buckets') \subseteq iLive' /\ Strings(litBuckets') \subseteq iLive'
    BY <1>0, <2>1, <2>2
  <2>5. ~ split' => /\ interned' \subseteq Strings(buckets') \cup Strings(litBuckets')
                    /\ \A t \in Strings(buckets'), u \in Strings(litBuckets') : content'[t] # content'[u]
    BY <1>0, <2>1, <2>2
  <2> QED
    BY <1>0, <1>b, <1>l, <2>1, <2>2, <2>3, <2>4, <2>5 DEF InternInv
<1>2. ASSUME NEW s \in Str, NEW c \in Content, InternSide!LiteralAdd(s, c) PROVE InternInv'
  <2> DEFINE table == InternSide!Insert(litBuckets, s, c)
             grows == litEntries + 1 > InternSide!Capacity(litBuckets) * InitCapacity
             size == IF grows THEN m * 2 ELSE m
  <2>1. /\ s \notin iLive /\ iLive' = iLive \cup {s} /\ iRooted' = iRooted \cup {s}
        /\ content' = [content EXCEPT ![s] = c]
        /\ litEntries' = litEntries + 1 /\ interned' = interned \cup {s}
        /\ split' = (split \/ InternSide!Find(buckets, c) # <<>>)
        /\ UNCHANGED <<buckets, entries>>
        /\ InternSide!Find(litBuckets, c) = <<>>
    BY <1>2 DEF InternSide!LiteralAdd
  <2>a. litBuckets' = IF grows THEN InternSide!Rehashed(table, content', m * 2) ELSE table
    <3>1. InternSide!Capacity(litBuckets) = m
      BY <1>l, SoundEntries
    <3> QED
      BY <1>2, <3>1 DEF InternSide!LiteralAdd
  <2> HIDE DEF grows
  <2>2. /\ content' \in [Str -> Content \cup {None}]
        /\ content'[s] = c /\ \A t \in iLive : content'[t] = content[t]
    BY <1>0, <2>1
  <2>3. SoundTable(n, buckets', content') /\ SoundTable(m, litBuckets, content')
    BY <1>0, <1>b, <1>l, <2>1, <2>2, SaysElsewhere
  <2>4. \A t \in Strings(litBuckets) : content'[t] # content'[s]
    BY <1>0, <1>e, <1>f, <2>1, <2>2
  <2>5. SoundTable(m, table, content') /\ Strings(table) = Strings(litBuckets) \cup {s}
    <3>1. content'[s] \in Content
      BY <2>2
    <3>2. /\ SoundTable(m, InternSide!Insert(litBuckets, s, content'[s]), content')
          /\ Strings(InternSide!Insert(litBuckets, s, content'[s])) = Strings(litBuckets) \cup {s}
      BY <2>3, <2>4, <3>1, InsertString
    <3> QED
      BY <2>2, <3>2
  <2>6. size \in Sizes /\ SoundTable(size, litBuckets', content') /\ Strings(litBuckets') = Strings(table)
    <3> HIDE DEF table
    <3>1. m * 2 \in Sizes /\ m * 2 \in Nat \ {0}
      <4>1. m \in Nat
        BY <1>l, SizeSteps
      <4> QED
        BY <1>l, <4>1, SizeSteps
    <3>2. /\ SoundTable(m * 2, InternSide!Rehashed(table, content', m * 2), content')
          /\ Strings(InternSide!Rehashed(table, content', m * 2)) = Strings(table)
      BY <2>5, <3>1, RehashTable
    <3> QED
      BY <1>l, <2>a, <2>5, <3>1, <3>2
  <2> HIDE DEF size, table
  <2>7. /\ \A t \in iLive' : content'[t] \in Content
        /\ iLive' \subseteq Str /\ iRooted' \subseteq iLive' /\ interned' \subseteq iLive'
        /\ Strings(buckets') \subseteq iLive' /\ Strings(litBuckets') \subseteq iLive'
    BY <1>0, <2>1, <2>2, <2>5, <2>6
  <2>8. ASSUME ~ split'
        PROVE  /\ interned' \subseteq Strings(buckets') \cup Strings(litBuckets')
               /\ \A t \in Strings(buckets'), u \in Strings(litBuckets') : content'[t] # content'[u]
    <3>1. ~ split /\ InternSide!Find(buckets, c) = <<>>
      BY <1>0, <2>1, <2>8
    <3>2. \A t \in Strings(buckets) : content[t] # c
      BY <1>e, <1>f, <3>1
    <3> QED
      BY <1>0, <2>1, <2>2, <2>5, <2>6, <3>1, <3>2
  <2>9. split' \in BOOLEAN /\ litEntries' \in Nat /\ entries' \in Nat
    BY <1>0, <2>1
  <2> QED
    BY <1>b, <2>2, <2>3, <2>6, <2>7, <2>8, <2>9 DEF InternInv
<1>3. ASSUME NEW s \in Str, InternSide!Drop(s) PROVE InternInv'
  BY <1>3 DEF InternSide!Drop, InternInv
<1>4. ASSUME NEW s \in Str, InternSide!InternFound(s) PROVE InternInv'
  <2> DEFINE c == content[s]
             found == InternSide!Find(litBuckets, c) \o InternSide!Find(buckets, c)
  <2>1. /\ s \in iRooted /\ found # <<>>
        /\ iRooted' = iRooted \cup {Head(found)} /\ interned' = interned \cup {Head(found)}
        /\ UNCHANGED <<iLive, content, buckets, entries, litBuckets, litEntries, split>>
    BY <1>4 DEF InternSide!InternFound
  <2>2. c \in Content
    BY <1>0, <2>1
  <2> HIDE DEF c
  <2>3. found \in Seq(Str) /\ ToSet(found) \subseteq Strings(buckets) \cup Strings(litBuckets)
    BY <1>f, <2>2, ConcatSets
  <2> HIDE DEF found
  <2>4. Head(found) \in Strings(buckets) \cup Strings(litBuckets)
    BY <1>h, <2>1, <2>3
  <2> QED
    BY <1>0, <1>b, <1>l, <2>1, <2>4 DEF InternInv
<1>5. ASSUME NEW s \in Str, NEW collects \in BOOLEAN, InternSide!InternAdd(s, collects) PROVE InternInv'
  <2> DEFINE c == content[s]
             table == InternSide!Insert(buckets, s, c)
             capacity == InternSide!NewCapacity(entries + 1, n)
             purged == IF collects THEN InternSide!PurgedTable(table, marked) ELSE table
  <2>n. InternSide!Capacity(buckets) = n
    BY <1>b, SoundEntries
  <2>1. /\ s \in iRooted /\ InternSide!Find(litBuckets, c) = <<>> /\ InternSide!Find(buckets, c) = <<>>
        /\ collects => capacity # n
        /\ buckets' = IF capacity = n THEN table ELSE InternSide!Rehashed(purged, content, capacity)
        /\ entries' = IF collects THEN InternSide!Used(table, marked) ELSE entries + 1
        /\ iLive' = IF collects THEN marked ELSE iLive
        /\ split' = (split \/ (collects /\ InternSide!Forgets(table, marked)))
        /\ interned' = {s} \cup IF collects THEN interned \cap marked ELSE interned
        /\ UNCHANGED <<iRooted, content, litBuckets, litEntries>>
    BY <1>5, <2>n DEF InternSide!InternAdd, marked
  <2>2. c \in Content /\ s \in iLive /\ s \in marked
    BY <1>0, <1>k, <2>1
  <2>3. /\ \A t \in Strings(buckets) : content[t] # c
        /\ \A t \in Strings(litBuckets) : content[t] # c
    <3> HIDE DEF c
    <3> QED
      BY <1>e, <1>f, <2>1, <2>2
  <2>4. SoundTable(n, table, content) /\ Strings(table) = Strings(buckets) \cup {s}
    BY <1>b, <2>2, <2>3, InsertString
  <2>5. capacity \in Sizes /\ capacity \in Nat \ {0}
    <3>1. entries + 1 \in Nat
      BY <1>0
    <3>2. capacity \in Sizes
      BY <1>b, <3>1, NewCapacitySize
    <3> QED
      BY <3>2, SizeSteps
  <2> HIDE DEF table, capacity, c
  <2>6. /\ SoundTable(n, purged, content) /\ Strings(purged) \subseteq Strings(table)
        /\ collects => Strings(purged) \subseteq marked
        /\ collects /\ ~ split' => Strings(table) \cap marked \subseteq Strings(purged)
    BY <1>p, <2>1, <2>4, PurgeTable
  <2>7. /\ SoundTable(capacity, buckets', content)
        /\ Strings(buckets') = Strings(purged)
    <3> HIDE DEF purged
    <3>1. CASE capacity # n
      BY <2>1, <2>5, <2>6, <3>1, RehashTable
    <3>2. CASE capacity = n
      BY <2>1, <2>4, <3>2 DEF purged
    <3> QED
      BY <3>1, <3>2
  <2>8. ~ collects => Strings(purged) = Strings(table)
    OBVIOUS
  <2> HIDE DEF purged
  <2>9. entries' \in Nat /\ split' \in BOOLEAN
    BY <1>0, <1>u, <2>1, <2>4
  <2>10. /\ iLive' \subseteq iLive /\ iRooted' \subseteq iLive' /\ interned' \subseteq iLive'
         /\ Strings(buckets') \subseteq iLive' /\ Strings(litBuckets') \subseteq iLive'
    BY <1>0, <1>k, <2>1, <2>2, <2>4, <2>6, <2>7, <2>8
  <2>11. ASSUME ~ split'
         PROVE  /\ interned' \subseteq Strings(buckets') \cup Strings(litBuckets')
                /\ \A t \in Strings(buckets'), u \in Strings(litBuckets') : content[t] # content[u]
    <3>1. ~ split
      BY <1>0, <2>1, <2>11
    <3>2. interned' \subseteq Strings(buckets') \cup Strings(litBuckets')
      BY <1>0, <1>k, <2>1, <2>2, <2>4, <2>6, <2>7, <2>8, <2>11, <3>1
    <3>3. \A t \in Strings(buckets'), u \in Strings(litBuckets) : content[t] # content[u]
      BY <1>0, <2>3, <2>4, <2>6, <2>7, <3>1 DEF c
    <3> QED
      BY <2>1, <3>2, <3>3
  <2> QED
    BY <1>0, <1>l, <2>1, <2>5, <2>7, <2>9, <2>10, <2>11 DEF InternInv
<1>6. ASSUME NEW c \in Content, InternSide!LiteralFound(c) PROVE InternInv'
  <2>1. /\ InternSide!Find(litBuckets, c) # <<>>
        /\ iRooted' = iRooted \cup {Head(InternSide!Find(litBuckets, c))}
        /\ UNCHANGED <<iLive, content, buckets, entries, litBuckets, litEntries, interned, split>>
    BY <1>6 DEF InternSide!LiteralFound
  <2>2. Head(InternSide!Find(litBuckets, c)) \in Strings(litBuckets)
    BY <1>f, <1>h, <2>1
  <2> QED
    BY <1>0, <1>b, <1>l, <2>1, <2>2 DEF InternInv
<1>7. ASSUME InternSide!Collect PROVE InternInv'
  <2>1. /\ buckets' = InternSide!PurgedTable(buckets, marked)
        /\ entries' = InternSide!Used(buckets, marked)
        /\ iLive' = marked /\ interned' = interned \cap marked
        /\ split' = (split \/ InternSide!Forgets(buckets, marked))
        /\ UNCHANGED <<iRooted, content, litBuckets, litEntries>>
    BY <1>7 DEF InternSide!Collect, marked
  <2>2. /\ SoundTable(n, buckets', content) /\ Strings(buckets') \subseteq Strings(buckets) \cap marked
    BY <1>b, <2>1, PurgeTable
  <2>3. entries' \in Nat /\ split' \in BOOLEAN
    BY <1>0, <1>b, <1>u, <2>1
  <2>4. ~ split' => Strings(buckets) \cap marked \subseteq Strings(buckets')
    BY <1>0, <1>b, <1>p, <2>1
  <2>5. ~ split' => /\ interned' \subseteq Strings(buckets') \cup Strings(litBuckets')
                    /\ \A t \in Strings(buckets'), u \in Strings(litBuckets') : content[t] # content[u]
    BY <1>0, <2>1, <2>2, <2>4
  <2> QED
    BY <1>0, <1>b, <1>k, <1>l, <2>1, <2>2, <2>3, <2>5 DEF InternInv
<1> QED
  BY <1>1, <1>2, <1>3, <1>4, <1>5, <1>6, <1>7 DEF InternSide!Next

\* What the runs check follows from it.
LEMMA InternProperties ==
    ASSUME InternInv
    PROVE  /\ InternSide!TypeOK /\ InternSide!TableAlive /\ InternSide!Placed
           /\ InternSide!Canonical
<1>1. ASSUME NEW table, NEW n, SoundTable(n, table, content), n \in Sizes, Strings(table) \subseteq iLive
      PROVE  /\ DOMAIN table = 0 .. InternSide!Capacity(table) - 1
             /\ \E k \in 0 .. InternSide!Capacity(table) : InternSide!Capacity(table) = InternSide!Doubled(k)
             /\ InternSide!ToSet(InternSide!Entries(table)) \subseteq iLive
             /\ \A h \in DOMAIN table : \A s \in InternSide!ToSet(table[h]) : InternSide!Bucket(content[s], table) = h
             /\ InternSide!IsInjective(InternSide!Entries(table))
             /\ \A s, t \in InternSide!ToSet(InternSide!Entries(table)) : content[s] = content[t] => s = t
  <2>1. /\ InternSide!Capacity(table) = n
        /\ ToSet(InternSide!Entries(table)) = Strings(table)
        /\ IsInjective(InternSide!Entries(table))
    BY <1>1, SoundEntries
  <2>2. DOMAIN table = 0 .. n - 1
    BY <1>1 DEF SoundTable, TableOf
  <2>3. \E k \in 0 .. n : n = InternSide!Doubled(k)
    <3>1. PICK k \in Nat : n = InternSide!Doubled(k)
      BY <1>1 DEF Sizes
    <3>2. k \in 0 .. n
      BY <3>1, DoubledSteps
    <3> QED
      BY <3>1, <3>2
  <2>4. \A h \in 0 .. n - 1 : \A s \in ToSet(table[h]) : Hash[content[s]] % n = h
    BY <1>1 DEF SoundTable, InBuckets
  <2>5. \A s, t \in Strings(table) : content[s] = content[t] => s = t
    BY <1>1 DEF SoundTable
  <2> QED
    BY <1>1, <2>1, <2>2, <2>3, <2>4, <2>5, InternSame DEF InternSide!Bucket
<1>2. PICK n : SoundTable(n, buckets, content) /\ n \in Sizes
  BY DEF InternInv
<1>3. PICK m : SoundTable(m, litBuckets, content) /\ m \in Sizes
  BY DEF InternInv
<1>4. Strings(buckets) \subseteq iLive /\ Strings(litBuckets) \subseteq iLive /\ iLive \subseteq Str
  BY DEF InternInv
<1>5. InternSide!TypeOK
  BY <1>1, <1>2, <1>3, <1>4 DEF InternInv, InternSide!TypeOK
<1>6. InternSide!TableAlive
  BY <1>1, <1>2, <1>3, <1>4 DEF InternSide!TableAlive
<1>7. InternSide!Placed
  BY <1>1, <1>2, <1>3, <1>4 DEF InternSide!Placed
<1>8. InternSide!Canonical
  <2> SUFFICES ASSUME ~ split, NEW s \in interned, NEW t \in interned, content[s] = content[t]
               PROVE  s = t
    BY DEF InternSide!Canonical
  <2>1. /\ interned \subseteq Strings(buckets) \cup Strings(litBuckets)
        /\ \A u \in Strings(buckets), v \in Strings(litBuckets) : content[u] # content[v]
    BY DEF InternInv
  <2>2. /\ \A u, v \in Strings(buckets) : content[u] = content[v] => u = v
        /\ \A u, v \in Strings(litBuckets) : content[u] = content[v] => u = v
    BY <1>2, <1>3 DEF SoundTable
  <2> QED
    BY <2>1, <2>2
<1> QED
  BY <1>5, <1>6, <1>7, <1>8


---------------------------------------------------------------------------
(* The heap: free chunks                                                   *)

\* The same for the copies of the heap's side.
LEMMA HeapSame ==
    /\ \A s : HeapSide!ToSet(s) = ToSet(s)
    /\ \A s : HeapSide!IsInjective(s) <=> IsInjective(s)
    /\ \A s, t : HeapSide!Kept(s, t) = Kept(s, t)
    /\ \A s : HeapSide!Min(s) = Min(s)
<1>1. \A s : HeapSide!ToSet(s) = ToSet(s)
  BY DEF HeapSide!ToSet, ToSet
<1>2. \A s : HeapSide!IsInjective(s) <=> IsInjective(s)
  BY DEF HeapSide!IsInjective, IsInjective
<1>3. \A s, t : HeapSide!Kept(s, t) = Kept(s, t)
  BY DEF HeapSide!Kept, Kept
<1>4. \A s : HeapSide!Min(s) = Min(s)
  BY DEF HeapSide!Min, Min
<1> QED
  BY <1>1, <1>2, <1>3, <1>4

\* What is assumed of the heap's constants.
LEMMA HeapConstants ==
    /\ Words \in Nat /\ InitWords \in Nat /\ BinEntries \in Nat /\ MaxRefs \in Nat /\ MaxData \in Nat
    /\ 0 < InitWords /\ InitWords <= Words /\ BinEntries > 0
BY MemoryAssumption DEF MemoryAssumption, HeapSide!HeapAssumption

At == 0 .. Words - 1
Piece == [at : At, size : 1 .. Words]

HeapRecord ==
    [collect : BOOLEAN, end : InitWords .. Words, perm : InitWords .. Words,
     bin : [1 .. BinEntries -> Seq(At)], large : Seq(Piece),
     bitmap : SUBSET At, mem : [At -> HeapSide!Word]]

\* The bins hold small chunks, no larger than the heap, and the list of large ones
\* the others, each once.
Shape(h) ==
    /\ h \in HeapRecord
    /\ IsInjective(h.large) /\ \A c \in ToSet(h.large) : c.size > BinEntries
    /\ \A i \in 1 .. BinEntries : IsInjective(h.bin[i]) /\ (i > Words => h.bin[i] = <<>>)

\* What a step leaves alone.
SameRest(g, h) == g.collect = h.collect /\ g.end = h.end /\ g.perm = h.perm /\ g.bitmap = h.bitmap

\* A chunk is in the bin of its size or on the list of large ones.
LEMMA ChunksOf ==
    ASSUME NEW h, Shape(h)
    PROVE  /\ HeapSide!Chunks(h) \subseteq Piece
           /\ \A c \in Piece : c \in HeapSide!Chunks(h) <=>
                  IF c.size <= BinEntries THEN c.at \in ToSet(h.bin[c.size]) ELSE c \in ToSet(h.large)
<1>1. h.large \in Seq(Piece)
  BY DEF Shape, HeapRecord
<1>2. ToSet(h.large) \subseteq Piece
  BY <1>1 DEF ToSet
<1>3. HeapSide!Chunk = Piece
  BY DEF HeapSide!Chunk, HeapSide!Address, Piece, At
<1>4. HeapSide!Chunks(h) = ToSet(h.large) \cup {c \in Piece : c.size <= BinEntries /\ c.at \in ToSet(h.bin[c.size])}
  BY <1>3, HeapSame DEF HeapSide!Chunks
<1>5. \A c \in Piece : c.size \in Nat
  BY HeapConstants DEF Piece
<1>6. \A c \in ToSet(h.large) : c.size > BinEntries
  BY DEF Shape
<1> QED
  BY <1>2, <1>4, <1>5, <1>6, HeapConstants

\* What free memory and data hold are words.
LEMMA WordPlain ==
    /\ HeapSide!Plain("zero") \in HeapSide!Word /\ HeapSide!Plain("aligned") \in HeapSide!Word
    /\ HeapSide!Plain("data") \in HeapSide!Word
    /\ HeapSide!Plain("zero").kind = "zero" /\ HeapSide!Plain("aligned").kind = "aligned"
BY HeapConstants DEF HeapSide!Plain, HeapSide!Word

\* Filling changes the words of the range and no other.
LEMMA FillIs ==
    ASSUME NEW mem \in [At -> HeapSide!Word], NEW from, NEW size, NEW word \in HeapSide!Word
    PROVE  /\ HeapSide!Fill(mem, from, size, word) \in [At -> HeapSide!Word]
           /\ \A a \in At : HeapSide!Fill(mem, from, size, word)[a]
                              = IF a \in from .. from + size - 1 THEN word ELSE mem[a]
BY DEF HeapSide!Fill, HeapSide!Address, At

\* put_chunk() adds the chunk and writes in it only.
LEMMA PutChunkIs ==
    ASSUME NEW h, Shape(h), NEW at \in Nat, NEW size \in Nat, at + size <= Words,
           size # 0 => [at |-> at, size |-> size] \notin HeapSide!Chunks(h)
    PROVE  LET g == HeapSide!PutChunk(h, at, size)
           IN  /\ Shape(g) /\ SameRest(g, h)
               /\ HeapSide!Chunks(g) = HeapSide!Chunks(h)
                                         \cup (IF size = 0 THEN {} ELSE {[at |-> at, size |-> size]})
               /\ \A a \in At : a \notin at .. at + size - 1 => g.mem[a] = h.mem[a]
<1> DEFINE g == HeapSide!PutChunk(h, at, size)
           c == [at |-> at, size |-> size]
           Goal == /\ Shape(g) /\ SameRest(g, h)
                   /\ HeapSide!Chunks(g) = HeapSide!Chunks(h) \cup (IF size = 0 THEN {} ELSE {c})
                   /\ \A a \in At : a \notin at .. at + size - 1 => g.mem[a] = h.mem[a]
<1> SUFFICES Goal
  OBVIOUS
<1>1. CASE size = 0
  BY <1>1 DEF HeapSide!PutChunk, SameRest
<1>2. ASSUME size # 0 PROVE c \in Piece /\ c.at = at /\ c.size = size /\ at \in At
  BY <1>2, HeapConstants DEF Piece, At
<1>3. CASE size # 0 /\ size <= BinEntries
  <2> DEFINE old == h.bin[size]
             new == <<at>> \o old
             mem == HeapSide!Fill(h.mem, at, 1, HeapSide!Plain("aligned"))
  <2>1. g = [h EXCEPT !.bin[size] = new, !.mem = mem]
    BY <1>3 DEF HeapSide!PutChunk
  <2>2. size \in 1 .. BinEntries /\ old \in Seq(At) /\ IsInjective(old) /\ h.mem \in [At -> HeapSide!Word]
        /\ h \in HeapRecord
    <3>1. size \in 1 .. BinEntries
      BY <1>3, HeapConstants
    <3> QED
      BY <3>1 DEF Shape, HeapRecord
  <2>3. at \notin ToSet(old)
    BY <1>2, <1>3, ChunksOf
  <2>4. new \in Seq(At) /\ ToSet(new) = {at} \cup ToSet(old) /\ IsInjective(new)
    <3> HIDE DEF old
    <3> DEFINE one == <<at>>
    <3>1. one \in Seq(At) /\ ToSet(one) = {at} /\ IsInjective(one)
      BY <1>2, <1>3, SingleSets
    <3> HIDE DEF one
    <3>2. one \o old \in Seq(At) /\ ToSet(one \o old) = {at} \cup ToSet(old) /\ IsInjective(one \o old)
      BY <2>2, <2>3, <3>1, ConcatSets
    <3> QED
      BY <3>2 DEF one
  <2>5. mem \in [At -> HeapSide!Word] /\ \A a \in At : a # at => mem[a] = h.mem[a]
    BY <2>2, FillIs, WordPlain
  <2> HIDE DEF new, mem
  <2>6. /\ g \in HeapRecord /\ SameRest(g, h) /\ g.mem = mem /\ g.large = h.large
        /\ g.bin = [h.bin EXCEPT ![size] = new]
    <3> DEFINE bin == [h.bin EXCEPT ![size] = new]
    <3>1. bin \in [1 .. BinEntries -> Seq(At)]
      BY <2>2, <2>4 DEF HeapRecord
    <3>2. g = [h EXCEPT !.bin = bin, !.mem = mem]
      BY <2>1
    <3> HIDE DEF bin, g
    <3>3. g = [collect |-> h.collect, end |-> h.end, perm |-> h.perm, bin |-> bin,
               large |-> h.large, bitmap |-> h.bitmap, mem |-> mem]
      BY <2>2, <3>2 DEF HeapRecord
    <3>4. /\ h.collect \in BOOLEAN /\ h.end \in InitWords .. Words /\ h.perm \in InitWords .. Words
          /\ h.large \in Seq(Piece) /\ h.bitmap \in SUBSET At
      BY <2>2 DEF HeapRecord
    <3>5. g \in HeapRecord
      BY <2>5, <3>1, <3>3, <3>4 DEF HeapRecord
    <3>6. SameRest(g, h) /\ g.mem = mem /\ g.large = h.large /\ g.bin = bin
      BY <3>3 DEF SameRest
    <3> QED
      BY <3>5, <3>6 DEF bin
  <2>7. g.bin[size] = new /\ \A i \in 1 .. BinEntries : i # size => g.bin[i] = h.bin[i]
    BY <2>2, <2>6 DEF HeapRecord
  <2> HIDE DEF g
  <2>8. Shape(g)
    <3>1. size <= Words
      BY HeapConstants
    <3>2. \A i \in 1 .. BinEntries : IsInjective(g.bin[i]) /\ (i > Words => g.bin[i] = <<>>)
      BY <2>4, <2>7, <3>1, HeapConstants DEF Shape
    <3> QED
      BY <2>6, <3>2 DEF Shape
  <2>9. HeapSide!Chunks(g) = HeapSide!Chunks(h) \cup {c}
    <3>1. HeapSide!Chunks(g) \subseteq Piece /\ HeapSide!Chunks(h) \subseteq Piece
      BY <2>8, ChunksOf
    <3>2. ASSUME NEW d \in Piece
          PROVE  d \in HeapSide!Chunks(g) <=> d \in HeapSide!Chunks(h) \cup {c}
      <4>1. d = c <=> d.at = at /\ d.size = size
        BY DEF Piece
      <4>2. d.size \in Nat /\ d.size > 0
        BY HeapConstants DEF Piece
      <4>3. CASE d.size = size
        BY <1>3, <2>4, <2>7, <2>8, <4>1, <4>3, ChunksOf
      <4>4. CASE d.size # size
        <5>1. d.size <= BinEntries => g.bin[d.size] = h.bin[d.size]
          BY <2>7, <4>2, <4>4, HeapConstants
        <5> QED
          BY <2>6, <2>8, <4>1, <4>4, <5>1, ChunksOf
      <4> QED
        BY <4>3, <4>4
    <3> QED
      BY <1>2, <1>3, <3>1, <3>2
  <2> QED
    BY <1>3, <2>5, <2>6, <2>8, <2>9
<1>4. CASE size > BinEntries
  <2> DEFINE old == h.large
             new == <<c>> \o old
             mem == HeapSide!Fill(h.mem, at, 2, HeapSide!Plain("aligned"))
  <2>0. size # 0 /\ size >= 2
    BY <1>4, HeapConstants
  <2>1. g = [h EXCEPT !.large = new, !.mem = mem]
    BY <1>4, <2>0, HeapConstants DEF HeapSide!PutChunk
  <2>2. old \in Seq(Piece) /\ IsInjective(old) /\ h.mem \in [At -> HeapSide!Word] /\ h \in HeapRecord
    BY DEF Shape, HeapRecord
  <2>3. c \in Piece /\ c \notin ToSet(old)
    BY <1>2, <1>4, <2>0, ChunksOf, HeapConstants
  <2> HIDE DEF c
  <2>4. new \in Seq(Piece) /\ ToSet(new) = {c} \cup ToSet(old) /\ IsInjective(new)
    <3> HIDE DEF old
    <3> DEFINE one == <<c>>
    <3>1. one \in Seq(Piece) /\ ToSet(one) = {c} /\ IsInjective(one)
      BY <2>3, SingleSets
    <3> HIDE DEF one
    <3>2. one \o old \in Seq(Piece) /\ ToSet(one \o old) = {c} \cup ToSet(old) /\ IsInjective(one \o old)
      BY <2>2, <2>3, <3>1, ConcatSets
    <3> QED
      BY <3>2 DEF one
  <2>5. mem \in [At -> HeapSide!Word] /\ \A a \in At : a \notin at .. at + 1 => mem[a] = h.mem[a]
    BY <2>2, FillIs, WordPlain
  <2> HIDE DEF new, mem
  <2>6. /\ g \in HeapRecord /\ SameRest(g, h) /\ g.mem = mem /\ g.large = new /\ g.bin = h.bin
    BY <2>1, <2>2, <2>4, <2>5 DEF HeapRecord, SameRest
  <2> HIDE DEF g
  <2>7. Shape(g)
    BY <1>2, <1>4, <2>0, <2>4, <2>6 DEF Shape, c
  <2>8. HeapSide!Chunks(g) = HeapSide!Chunks(h) \cup {c}
    <3>1. HeapSide!Chunks(g) \subseteq Piece /\ HeapSide!Chunks(h) \subseteq Piece
      BY <2>7, ChunksOf
    <3>2. c.size > BinEntries
      BY <1>2, <1>4, <2>0 DEF c
    <3>3. ASSUME NEW d \in Piece
          PROVE  d \in HeapSide!Chunks(g) <=> d \in HeapSide!Chunks(h) \cup {c}
      <4>1. d.size \in Nat /\ (d.size <= BinEntries => d # c)
        BY <3>2, HeapConstants DEF Piece
      <4> QED
        BY <2>4, <2>6, <2>7, <4>1, ChunksOf
    <3> QED
      BY <2>3, <3>1, <3>3
  <2>9. \A a \in At : a \notin at .. at + size - 1 => g.mem[a] = h.mem[a]
    BY <2>0, <2>5, <2>6 DEF At
  <2> QED
    BY <2>0, <2>6, <2>7, <2>8, <2>9 DEF c
<1> QED
  BY <1>1, <1>3, <1>4, HeapConstants

\* The smallest of a set of numbers is in it.
LEMMA MinIs ==
    ASSUME NEW T \in SUBSET Nat, T # {} PROVE Min(T) \in T
<1>1. \E n \in T : \A m \in T : n <= m
  BY Least
<1>2. Min(T) = CHOOSE n \in T : \A m \in T : n <= m
  BY DEF Min
<1> QED
  BY <1>1, <1>2

\* The candidate of get_chunk() is a free chunk that is large enough, if there is
\* one, and taking it out leaves the others.
LEMMA CandidateIs ==
    ASSUME NEW h, Shape(h), NEW size \in Nat \ {0}
    PROVE  LET found == HeapSide!Candidate(h, size)
               c == found[1]
               g == HeapSide!Unlink(h, c)
           IN  /\ found = <<>> => \A d \in HeapSide!Chunks(h) : d.size < size
               /\ found # <<>> =>
                    /\ c \in HeapSide!Chunks(h) /\ c.size >= size
                    /\ Shape(g) /\ SameRest(g, h) /\ g.mem = h.mem
                    /\ HeapSide!Chunks(g) = HeapSide!Chunks(h) \ {c}
<1> DEFINE found == HeapSide!Candidate(h, size)
           c == found[1]
           g == HeapSide!Unlink(h, c)
           fits == {id \in 1 .. BinEntries : id >= size /\ h.bin[id] # <<>>}
           large == {k \in DOMAIN h.large : h.large[k].size >= size}
           Goal == /\ found = <<>> => \A d \in HeapSide!Chunks(h) : d.size < size
                   /\ found # <<>> =>
                        /\ c \in HeapSide!Chunks(h) /\ c.size >= size
                        /\ Shape(g) /\ SameRest(g, h) /\ g.mem = h.mem
                        /\ HeapSide!Chunks(g) = HeapSide!Chunks(h) \ {c}
<1> SUFFICES Goal
  OBVIOUS
<1>1. /\ h \in HeapRecord /\ h.large \in Seq(Piece) /\ IsInjective(h.large)
      /\ \A i \in 1 .. BinEntries : h.bin[i] \in Seq(At) /\ IsInjective(h.bin[i])
  BY DEF Shape, HeapRecord
<1>2. found = IF fits # {} THEN <<[at |-> Head(h.bin[Min(fits)]), size |-> Min(fits)]>>
              ELSE IF large # {} THEN <<h.large[Min(large)]>> ELSE <<>>
  BY HeapSame DEF HeapSide!Candidate
<1>3. fits # {} => Min(fits) \in fits
  <2>1. fits \in SUBSET Nat
    OBVIOUS
  <2> HIDE DEF fits
  <2> QED
    BY <2>1, MinIs
<1>4. large # {} => Min(large) \in large
  <2>1. large \in SUBSET Nat
    BY <1>1
  <2> HIDE DEF large
  <2> QED
    BY <2>1, MinIs
<1>5. \A d \in Piece : d.size \in Nat /\ d.size > 0
  BY HeapConstants DEF Piece
<1> HIDE DEF found
<1>6. CASE fits # {}
  <2> DEFINE id == Min(fits)
             old == h.bin[id]
             new == Tail(old)
  <2>1. id \in 1 .. BinEntries /\ id >= size /\ old # <<>> /\ old \in Seq(At) /\ IsInjective(old)
    BY <1>1, <1>3, <1>6
  <2>2. c = [at |-> Head(old), size |-> id] /\ found # <<>>
    BY <1>2, <1>6
  <2> HIDE DEF id, c, fits
  <2>3. /\ Head(old) \in At /\ new \in Seq(At) /\ ToSet(old) = {Head(old)} \cup ToSet(new)
        /\ IsInjective(new) /\ Head(old) \notin ToSet(new)
    <3> HIDE DEF old
    <3> QED
      BY <2>1, HeadTailSets
  <2>4. /\ g = [h EXCEPT !.bin[id] = new]
    BY <2>1, <2>2 DEF HeapSide!Unlink
  <2> HIDE DEF new
  <2>5. /\ g \in HeapRecord /\ SameRest(g, h) /\ g.mem = h.mem /\ g.large = h.large
        /\ g.bin = [h.bin EXCEPT ![id] = new]
    BY <1>1, <2>1, <2>3, <2>4 DEF HeapRecord, SameRest
  <2>6. g.bin[id] = new /\ \A i \in 1 .. BinEntries : i # id => g.bin[i] = h.bin[i]
    BY <1>1, <2>1, <2>5 DEF HeapRecord
  <2> HIDE DEF g
  <2>7. Shape(g)
    <3>1. id <= Words
      BY <2>1, HeapConstants DEF Shape
    <3>2. \A i \in 1 .. BinEntries : IsInjective(g.bin[i]) /\ (i > Words => g.bin[i] = <<>>)
      BY <2>1, <2>3, <2>6, <3>1, HeapConstants DEF Shape
    <3> QED
      BY <2>5, <3>2 DEF Shape
  <2>n. \A d \in Piece : d.size <= BinEntries => d.size \in 1 .. BinEntries
    BY <1>5, HeapConstants
  <2>8. c \in Piece /\ c.at = Head(old) /\ c.size = id
    <3>1. id \in 1 .. Words
      BY <2>1, HeapConstants DEF Shape
    <3> QED
      BY <2>2, <2>3, <3>1 DEF Piece
  <2>9. c \in HeapSide!Chunks(h)
    BY <2>1, <2>3, <2>8, ChunksOf, HeapConstants
  <2>10. HeapSide!Chunks(g) = HeapSide!Chunks(h) \ {c}
    <3>1. HeapSide!Chunks(g) \subseteq Piece /\ HeapSide!Chunks(h) \subseteq Piece
      BY <2>7, ChunksOf
    <3>2. ASSUME NEW d \in Piece
          PROVE  d \in HeapSide!Chunks(g) <=> d \in HeapSide!Chunks(h) \ {c}
      <4>1. d = c <=> d.at = Head(old) /\ d.size = id
        BY <2>8 DEF Piece
      <4>2. CASE d.size = id
        BY <2>1, <2>3, <2>6, <2>7, <4>1, <4>2, ChunksOf, HeapConstants
      <4>3. CASE d.size # id
        <5>1. d.size <= BinEntries => g.bin[d.size] = h.bin[d.size]
          BY <2>6, <2>n, <4>3
        <5> QED
          BY <2>5, <2>7, <4>1, <4>3, <5>1, ChunksOf
      <4> QED
        BY <4>2, <4>3
    <3> QED
      BY <3>1, <3>2
  <2> QED
    BY <2>1, <2>2, <2>5, <2>7, <2>8, <2>9, <2>10 DEF SameRest
<1>7. CASE fits = {} /\ large # {}
  <2> DEFINE k == Min(large)
             new == Kept(h.large, ToSet(h.large) \ {c})
  <2>1. k \in DOMAIN h.large /\ h.large[k].size >= size
    BY <1>4, <1>7
  <2>2. c = h.large[k] /\ found # <<>>
    BY <1>2, <1>7
  <2> HIDE DEF k, c, large
  <2>3. c \in ToSet(h.large) /\ c \in Piece /\ c.size > BinEntries
    BY <1>1, <2>1, <2>2 DEF ToSet, Shape
  <2>4. g = [h EXCEPT !.large = new]
    <3>1. ~ c.size <= BinEntries
      BY <1>5, <2>3, HeapConstants
    <3>2. g = [h EXCEPT !.large = HeapSide!Kept(h.large, HeapSide!ToSet(h.large) \ {c})]
      BY <3>1 DEF HeapSide!Unlink
    <3> QED
      BY <3>2, HeapSame
  <2>5. new \in Seq(Piece) /\ ToSet(new) = ToSet(h.large) \ {c} /\ IsInjective(new)
    <3>1. /\ new \in Seq(Piece) /\ ToSet(new) = ToSet(h.large) \cap (ToSet(h.large) \ {c})
          /\ IsInjective(new)
      BY <1>1, KeptProperties
    <3> QED
      BY <3>1
  <2> HIDE DEF new
  <2>6. /\ g \in HeapRecord /\ SameRest(g, h) /\ g.mem = h.mem /\ g.large = new /\ g.bin = h.bin
    BY <1>1, <2>4, <2>5 DEF HeapRecord, SameRest
  <2> HIDE DEF g
  <2>7. Shape(g)
    BY <2>5, <2>6 DEF Shape
  <2>8. c \in HeapSide!Chunks(h)
    BY <1>5, <2>3, ChunksOf, HeapConstants
  <2>9. HeapSide!Chunks(g) = HeapSide!Chunks(h) \ {c}
    <3>1. HeapSide!Chunks(g) \subseteq Piece /\ HeapSide!Chunks(h) \subseteq Piece
      BY <2>7, ChunksOf
    <3>2. ASSUME NEW d \in Piece
          PROVE  d \in HeapSide!Chunks(g) <=> d \in HeapSide!Chunks(h) \ {c}
      <4>1. d.size <= BinEntries => d # c
        BY <1>5, <2>3, HeapConstants
      <4> QED
        BY <2>5, <2>6, <2>7, <4>1, ChunksOf
    <3> QED
      BY <3>1, <3>2
  <2> QED
    BY <2>1, <2>2, <2>6, <2>7, <2>8, <2>9
<1>8. CASE fits = {} /\ large = {}
  <2>1. found = <<>>
    BY <1>2, <1>8
  <2>2. ASSUME NEW d \in HeapSide!Chunks(h) PROVE d.size < size
    <3>1. d \in Piece /\ d.size \in Nat /\ d.size > 0
      BY <1>5, ChunksOf
    <3>2. CASE d.size <= BinEntries
      <4>1. d.size \in 1 .. BinEntries /\ d.at \in ToSet(h.bin[d.size])
        BY <3>1, <3>2, ChunksOf, HeapConstants
      <4>2. h.bin[d.size] # <<>>
        BY <4>1, EmptySets
      <4> QED
        BY <1>8, <3>1, <4>1, <4>2
    <3>3. CASE ~ d.size <= BinEntries
      <4>1. d \in ToSet(h.large)
        BY <3>1, <3>3, ChunksOf
      <4> QED
        BY <1>8, <3>1, <4>1 DEF ToSet
    <3> QED
      BY <3>2, <3>3
  <2> QED
    BY <2>1, <2>2
<1> QED
  BY <1>6, <1>7, <1>8

---------------------------------------------------------------------------
(* The heap: chunks and blocks tile it                                     *)

Block == [header : At, refs : 0 .. MaxRefs, data : 0 .. MaxData, java : BOOLEAN]

InPiece(w, c) == c.at <= w /\ w < c.at + c.size
InBlock(w, b) == b.header - b.refs <= w /\ w <= b.header + b.data

\* The chunks C and the blocks B tile the first n words.
Tiles(C, B, n) ==
    /\ C \subseteq Piece /\ B \subseteq Block /\ n \in 0 .. Words
    /\ \A c \in C : c.at + c.size <= n
    /\ \A b \in B : b.refs <= b.header /\ b.header + b.data < n
    /\ \A c, d \in C : c = d \/ c.at + c.size <= d.at \/ d.at + d.size <= c.at
    /\ \A b, d \in B : \/ b = d
                        \/ b.header + b.data < d.header - d.refs
                        \/ d.header + d.data < b.header - b.refs
    /\ \A c \in C, b \in B : c.at + c.size <= b.header - b.refs \/ b.header + b.data < c.at
    /\ \A w \in 0 .. n - 1 : (\E c \in C : InPiece(w, c)) \/ (\E b \in B : InBlock(w, b))

\* What lies between two places, as a set of chunks.
Gap(n, m) == IF n = m THEN {} ELSE {[at |-> n, size |-> m - n]}

\* The fields of chunks and blocks are numbers.
LEMMA PieceNumbers ==
    /\ \A c \in Piece : c.at \in Nat /\ c.at < Words /\ c.size \in Nat /\ c.size > 0
    /\ \A b \in Block : b.header \in Nat /\ b.header < Words /\ b.refs \in Nat /\ b.data \in Nat
BY HeapConstants DEF Piece, Block, At

\* The chunk between two places has the words between them.
LEMMA GapIs ==
    ASSUME NEW n \in Nat, NEW m \in Nat, n <= m, m <= Words
    PROVE  /\ Gap(n, m) \subseteq Piece
           /\ \A c \in Gap(n, m) : c.at = n /\ c.size = m - n
           /\ \A w \in n .. m - 1 : \E c \in Gap(n, m) : InPiece(w, c)
           /\ \A C : C \cup Gap(n, m) = C \cup (IF m - n = 0 THEN {} ELSE {[at |-> n, size |-> m - n]})
<1>1. CASE n = m
  BY <1>1 DEF Gap
<1>2. CASE n # m
  <2> DEFINE c == [at |-> n, size |-> m - n]
  <2>1. c \in Piece /\ c.at = n /\ c.size = m - n
    BY <1>2, HeapConstants DEF Piece, At
  <2>2. Gap(n, m) = {c} /\ m - n # 0
    BY <1>2 DEF Gap
  <2>3. \A w \in n .. m - 1 : InPiece(w, c)
    BY <2>1 DEF InPiece
  <2> QED
    BY <2>1, <2>2, <2>3
<1> QED
  BY <1>1, <1>2

\* What follows a tiled stretch of words becomes a chunk.
LEMMA TilesGap ==
    ASSUME NEW C, NEW B, NEW n, Tiles(C, B, n), NEW m \in Nat, n <= m, m <= Words
    PROVE  Tiles(C \cup Gap(n, m), B, m)
<1>1. n \in Nat
  BY HeapConstants DEF Tiles
<1>2. /\ Gap(n, m) \subseteq Piece /\ \A c \in Gap(n, m) : c.at = n /\ c.size = m - n
      /\ \A w \in n .. m - 1 : \E c \in Gap(n, m) : InPiece(w, c)
  BY <1>1, GapIs
<1>3. \A c, d \in Gap(n, m) : c = d
  BY DEF Gap
<1> DEFINE D == C \cup Gap(n, m)
<1>4. D \subseteq Piece /\ B \subseteq Block /\ m \in 0 .. Words
  BY <1>2 DEF Tiles
<1>5. \A c \in D : c.at + c.size <= m
  BY <1>1, <1>2, PieceNumbers DEF Tiles
<1>6. \A b \in B : b.refs <= b.header /\ b.header + b.data < m
  BY <1>1, PieceNumbers DEF Tiles
<1>7. ASSUME NEW c \in D, NEW d \in D PROVE c = d \/ c.at + c.size <= d.at \/ d.at + d.size <= c.at
  BY <1>1, <1>2, <1>3, PieceNumbers DEF Tiles
<1>8. ASSUME NEW c \in D, NEW b \in B PROVE c.at + c.size <= b.header - b.refs \/ b.header + b.data < c.at
  BY <1>1, <1>2, PieceNumbers DEF Tiles
<1>9. ASSUME NEW w \in 0 .. m - 1 PROVE (\E c \in D : InPiece(w, c)) \/ (\E b \in B : InBlock(w, b))
  <2>1. w \in 0 .. n - 1 \/ w \in n .. m - 1
    BY <1>1
  <2> QED
    BY <1>2, <2>1 DEF Tiles
<1> QED
  BY <1>4, <1>5, <1>6, <1>7, <1>8, <1>9 DEF Tiles

\* A block that begins where a tiled stretch of words ends.
LEMMA TilesBlock ==
    ASSUME NEW C, NEW B, NEW n, Tiles(C, B, n),
           NEW b \in Block, b.header - b.refs = n, b.header + b.data + 1 <= Words
    PROVE  Tiles(C, B \cup {b}, b.header + b.data + 1)
<1> DEFINE m == b.header + b.data + 1
           D == B \cup {b}
<1>1. n \in Nat /\ m \in Nat /\ n <= m /\ b.header \in Nat /\ b.refs \in Nat /\ b.data \in Nat
  BY HeapConstants, PieceNumbers DEF Tiles
<1>2. C \subseteq Piece /\ D \subseteq Block /\ m \in 0 .. Words
  BY <1>1 DEF Tiles
<1>3. \A c \in C : c.at + c.size <= m
  BY <1>1, PieceNumbers DEF Tiles
<1>4. \A d \in D : d.refs <= d.header /\ d.header + d.data < m
  BY <1>1, PieceNumbers DEF Tiles
<1>5. ASSUME NEW d \in D, NEW e \in D
      PROVE  d = e \/ d.header + d.data < e.header - e.refs \/ e.header + e.data < d.header - d.refs
  BY <1>1, PieceNumbers DEF Tiles
<1>6. ASSUME NEW c \in C, NEW d \in D PROVE c.at + c.size <= d.header - d.refs \/ d.header + d.data < c.at
  BY <1>1, PieceNumbers DEF Tiles
<1>7. ASSUME NEW w \in 0 .. m - 1 PROVE (\E c \in C : InPiece(w, c)) \/ (\E d \in D : InBlock(w, d))
  <2>1. w \in 0 .. n - 1 \/ InBlock(w, b)
    BY <1>1 DEF InBlock
  <2> QED
    BY <2>1 DEF Tiles
<1>8. \A c, d \in C : c = d \/ c.at + c.size <= d.at \/ d.at + d.size <= c.at
  BY DEF Tiles
<1> QED
  BY <1>2, <1>3, <1>4, <1>5, <1>6, <1>7, <1>8 DEF Tiles

\* A block made of the front of a chunk.
LEMMA TilesSplit ==
    ASSUME NEW C, NEW B, NEW n, Tiles(C, B, n), NEW c \in C,
           NEW b \in Block, b.header - b.refs = c.at, b.header + b.data + 1 <= c.at + c.size
    PROVE  Tiles((C \ {c}) \cup Gap(b.header + b.data + 1, c.at + c.size), B \cup {b}, n)
<1> DEFINE from == b.header + b.data + 1
           to == c.at + c.size
           rest == Gap(from, to)
           E == (C \ {c}) \cup rest
           D == B \cup {b}
<1>1. /\ n \in Nat /\ n <= Words /\ from \in Nat /\ to \in Nat /\ to <= n /\ b.header \in Nat /\ b.refs \in Nat /\ b.data \in Nat
      /\ c \in Piece /\ c.at \in Nat /\ c.size \in Nat
  BY HeapConstants, PieceNumbers DEF Tiles
<1>a. from <= to /\ to <= Words
  BY <1>1, HeapConstants
<1>b. from = b.header + b.data + 1 /\ to = c.at + c.size
  OBVIOUS
<1> HIDE DEF from, to
<1>2. /\ rest \subseteq Piece /\ \A d \in rest : d.at = from /\ d.size = to - from
      /\ \A w \in from .. to - 1 : \E d \in rest : InPiece(w, d)
  BY <1>1, <1>a, GapIs
<1>3. \A d, e \in rest : d = e
  BY DEF Gap
<1> HIDE DEF rest
<1>4. E \subseteq Piece /\ D \subseteq Block /\ n \in 0 .. Words
  BY <1>2 DEF Tiles
<1>5. \A d \in E : d.at + d.size <= n
  BY <1>1, <1>a, <1>b, <1>2, PieceNumbers DEF Tiles
<1>6. \A d \in D : d.refs <= d.header /\ d.header + d.data < n
  BY <1>1, <1>a, <1>b, PieceNumbers DEF Tiles
<1>7. ASSUME NEW d \in E, NEW e \in E PROVE d = e \/ d.at + d.size <= e.at \/ e.at + e.size <= d.at
  BY <1>1, <1>a, <1>b, <1>2, <1>3, PieceNumbers DEF Tiles
<1>8. ASSUME NEW d \in D, NEW e \in D
      PROVE  d = e \/ d.header + d.data < e.header - e.refs \/ e.header + e.data < d.header - d.refs
  BY <1>1, <1>a, <1>b, PieceNumbers DEF Tiles
<1>9. ASSUME NEW d \in E, NEW e \in D PROVE d.at + d.size <= e.header - e.refs \/ e.header + e.data < d.at
  BY <1>1, <1>a, <1>b, <1>2, PieceNumbers DEF Tiles
<1>10. ASSUME NEW w \in 0 .. n - 1 PROVE (\E d \in E : InPiece(w, d)) \/ (\E e \in D : InBlock(w, e))
  <2>1. (\E d \in C : InPiece(w, d)) \/ (\E e \in B : InBlock(w, e))
    BY DEF Tiles
  <2>2. InPiece(w, c) => InBlock(w, b) \/ w \in from .. to - 1
    BY <1>1, <1>a, <1>b DEF InPiece, InBlock
  <2> QED
    BY <1>2, <2>1, <2>2
<1>11. \A d, e \in E : d = e \/ d.at + d.size <= e.at \/ e.at + e.size <= d.at
  BY <1>7
<1> HIDE DEF E, D
<1>12. Tiles(E, D, n)
  BY <1>4, <1>5, <1>6, <1>8, <1>9, <1>10, <1>11 DEF Tiles
<1> QED
  BY <1>b, <1>12 DEF E, D, rest

\* A block that becomes a chunk.
LEMMA TilesFree ==
    ASSUME NEW C, NEW B, NEW n, Tiles(C, B, n), NEW b \in B,
           NEW c \in Piece, c.at = b.header - b.refs, c.size = b.refs + 1 + b.data
    PROVE  /\ c \notin C
           /\ Tiles(C \cup {c}, B \ {b}, n)
<1> DEFINE E == C \cup {c}
           D == B \ {b}
<1>1. /\ n \in Nat /\ b.header \in Nat /\ b.refs \in Nat /\ b.data \in Nat /\ c.at \in Nat /\ c.size \in Nat
      /\ b.header + b.data < n /\ b.refs <= b.header
  BY HeapConstants, PieceNumbers DEF Tiles
<1>0. c \notin C
  BY <1>1 DEF Tiles
<1>2. E \subseteq Piece /\ D \subseteq Block /\ n \in 0 .. Words
  BY DEF Tiles
<1>3. \A d \in E : d.at + d.size <= n
  BY <1>1, PieceNumbers DEF Tiles
<1>4. \A d \in D : d.refs <= d.header /\ d.header + d.data < n
  BY DEF Tiles
<1>5. ASSUME NEW d \in E, NEW e \in E PROVE d = e \/ d.at + d.size <= e.at \/ e.at + e.size <= d.at
  BY <1>1, PieceNumbers DEF Tiles
<1>6. ASSUME NEW d \in D, NEW e \in D
      PROVE  d = e \/ d.header + d.data < e.header - e.refs \/ e.header + e.data < d.header - d.refs
  BY DEF Tiles
<1>7. ASSUME NEW d \in E, NEW e \in D PROVE d.at + d.size <= e.header - e.refs \/ e.header + e.data < d.at
  BY <1>1, PieceNumbers DEF Tiles
<1>8. ASSUME NEW w \in 0 .. n - 1 PROVE (\E d \in E : InPiece(w, d)) \/ (\E e \in D : InBlock(w, e))
  <2>1. InBlock(w, b) => InPiece(w, c)
    BY <1>1 DEF InPiece, InBlock
  <2> QED
    BY <2>1 DEF Tiles
<1> QED
  BY <1>0, <1>2, <1>3, <1>4, <1>5, <1>6, <1>7, <1>8 DEF Tiles

---------------------------------------------------------------------------
(* The heap: allocation                                                    *)

HeaderOf(b) == [kind |-> IF b.java THEN "object" ELSE "c", refs |-> b.refs, data |-> b.data]

\* What the sweep will see of the blocks: their headers and, in front of these,
\* nothing but what looks like a pointer.
Laid(mem, B) ==
    \A b \in B : /\ mem[b.header] = HeaderOf(b)
                /\ \A w \in At : b.header - b.refs <= w /\ w < b.header => mem[w].kind \in {"zero", "aligned"}

GoodHeap(h, B) ==
    /\ Shape(h) /\ h.end <= h.perm
    /\ Tiles(HeapSide!Chunks(h), B, h.end)
    /\ Laid(h.mem, B)
    /\ h.bitmap = {b.header : b \in {d \in B : d.java}}

\* Memory that changes in no block leaves the blocks as they are.
LEMMA LaidElsewhere ==
    ASSUME NEW mem, NEW new, NEW B, B \subseteq Block, Laid(mem, B),
           \A w \in At : (\E b \in B : InBlock(w, b)) => new[w] = mem[w]
    PROVE  Laid(new, B)
<1> SUFFICES ASSUME NEW b \in B
             PROVE  /\ new[b.header] = HeaderOf(b)
                    /\ \A w \in At : b.header - b.refs <= w /\ w < b.header => new[w].kind \in {"zero", "aligned"}
  BY DEF Laid
<1>1. b.header \in At /\ b.header \in Nat /\ b.refs \in Nat /\ b.data \in Nat
  BY PieceNumbers DEF Block
<1>2. InBlock(b.header, b)
  BY <1>1 DEF InBlock
<1>3. \A w \in At : b.header - b.refs <= w /\ w < b.header => InBlock(w, b)
  BY <1>1 DEF InBlock, At
<1> QED
  BY <1>1, <1>2, <1>3 DEF Laid

\* The memory of a new block: its header, the references in front of it, and nothing
\* changed outside.
LEMMA FilledIs ==
    ASSUME NEW mem \in [At -> HeapSide!Word], NEW b \in Block, b.refs <= b.header,
           ~ b.java => b.refs = 0
    PROVE  LET new == HeapSide!Filled(mem, b.header - b.refs, b.refs, b.data, b.java)
           IN  /\ new \in [At -> HeapSide!Word]
               /\ \A w \in At : ~ InBlock(w, b) => new[w] = mem[w]
               /\ new[b.header] = HeaderOf(b)
               /\ \A w \in At : b.header - b.refs <= w /\ w < b.header => new[w].kind = "aligned"
<1> DEFINE at == b.header - b.refs
           header == [kind |-> IF b.java THEN "object" ELSE "c", refs |-> b.refs, data |-> b.data]
           m1 == HeapSide!Fill(mem, at, b.refs, HeapSide!Plain("aligned"))
           m2 == HeapSide!Fill(m1, at + b.refs + 1, b.data, HeapSide!Plain("data"))
           new == HeapSide!Filled(mem, at, b.refs, b.data, b.java)
<1>1. b.header \in At /\ b.header \in Nat /\ b.refs \in Nat /\ b.data \in Nat /\ at + b.refs = b.header /\ at \in Nat
  BY PieceNumbers DEF Block
<1>a. at = b.header - b.refs
  OBVIOUS
<1>2. new = [m2 EXCEPT ![b.header] = header]
  BY <1>1 DEF HeapSide!Filled
<1> HIDE DEF at
<1>3. header \in HeapSide!Word /\ header = HeaderOf(b)
  BY DEF Block, HeapSide!Word, HeaderOf
<1>4. /\ m1 \in [At -> HeapSide!Word]
      /\ \A a \in At : m1[a] = IF a \in at .. at + b.refs - 1 THEN HeapSide!Plain("aligned") ELSE mem[a]
  BY WordPlain, FillIs
<1> HIDE DEF header, m1
<1>5. /\ m2 \in [At -> HeapSide!Word]
      /\ \A a \in At : m2[a] = IF a \in at + b.refs + 1 .. at + b.refs + 1 + b.data - 1
                                THEN HeapSide!Plain("data") ELSE m1[a]
  BY <1>4, WordPlain, FillIs
<1> HIDE DEF m2, new
<1>6. /\ new \in [At -> HeapSide!Word] /\ new[b.header] = header
      /\ \A a \in At : a # b.header => new[a] = m2[a]
  BY <1>1, <1>2, <1>3, <1>5
<1>7. ASSUME NEW w \in At, ~ InBlock(w, b) PROVE new[w] = mem[w]
  <2>1. w \in Nat /\ (w < at \/ w > b.header + b.data)
    BY <1>1, <1>a, <1>7, HeapConstants DEF InBlock, At
  <2>2. w # b.header /\ w \notin at .. at + b.refs - 1 /\ w \notin at + b.refs + 1 .. at + b.refs + 1 + b.data - 1
    BY <1>1, <2>1
  <2> QED
    BY <1>4, <1>5, <1>6, <2>2
<1>8. ASSUME NEW w \in At, b.header - b.refs <= w, w < b.header PROVE new[w].kind = "aligned"
  <2>1. w \in Nat /\ at <= w
    BY <1>a, <1>8, HeapConstants DEF At
  <2>2. w # b.header /\ w \in at .. at + b.refs - 1 /\ w \notin at + b.refs + 1 .. at + b.refs + 1 + b.data - 1
    BY <1>1, <1>8, <2>1
  <2> QED
    BY <1>4, <1>5, <1>6, <2>2, WordPlain
<1> QED
  BY <1>3, <1>6, <1>7, <1>8 DEF new, at

\* gc_alloc() of a candidate makes a block of its front.
LEMMA InstallGood ==
    ASSUME NEW h, NEW B, GoodHeap(h, B), NEW refs \in 0 .. MaxRefs, NEW data \in 0 .. MaxData,
           NEW java \in BOOLEAN, HeapSide!Candidate(h, refs + 1 + data) # <<>>, ~ java => refs = 0
    PROVE  LET c == HeapSide!Candidate(h, refs + 1 + data)[1]
               t == HeapSide!TakeChunk(h, c, refs + 1 + data)
               header == c.at + refs
               b == [header |-> header, refs |-> refs, data |-> data, java |-> java]
               g == [t EXCEPT !.mem = HeapSide!Filled(@, c.at, refs, data, java),
                              !.bitmap = IF java THEN @ \cup {header} ELSE @]
           IN  /\ b \in Block /\ GoodHeap(g, B \cup {b})
               /\ g.collect = h.collect /\ g.end = h.end /\ g.perm = h.perm
<1> DEFINE size == refs + 1 + data
           c == HeapSide!Candidate(h, size)[1]
           t == HeapSide!TakeChunk(h, c, size)
           u == HeapSide!Unlink(h, c)
           header == c.at + refs
           b == [header |-> header, refs |-> refs, data |-> data, java |-> java]
           mem == HeapSide!Filled(t.mem, c.at, refs, data, java)
           bitmap == IF java THEN t.bitmap \cup {header} ELSE t.bitmap
           g == [t EXCEPT !.mem = HeapSide!Filled(@, c.at, refs, data, java),
                          !.bitmap = IF java THEN @ \cup {header} ELSE @]
           C == HeapSide!Chunks(h)
<1>1. size \in Nat \ {0} /\ refs \in Nat /\ data \in Nat
  BY HeapConstants
<1>2. /\ Shape(h) /\ h.end <= h.perm /\ Tiles(C, B, h.end) /\ Laid(h.mem, B)
      /\ h.bitmap = {x.header : x \in {d \in B : d.java}}
  BY DEF GoodHeap
<1>3. /\ c \in C /\ c.size >= size /\ Shape(u) /\ SameRest(u, h) /\ u.mem = h.mem
      /\ HeapSide!Chunks(u) = C \ {c}
  <2> HIDE DEF size
  <2> QED
    BY <1>1, <1>2, CandidateIs DEF size
<1> HIDE DEF c, u, C
<1>4. c \in Piece /\ c.at \in Nat /\ c.size \in Nat /\ c.at + c.size <= h.end /\ h.end <= Words /\ h.end \in Nat
  BY <1>2, <1>3, PieceNumbers, HeapConstants DEF Tiles
<1>5. b \in Block /\ b.header = header /\ b.refs = refs /\ b.data = data /\ b.java = java
      /\ b.header - b.refs = c.at /\ b.header + b.data + 1 = c.at + size
  BY <1>1, <1>3, <1>4, HeapConstants DEF Block, At
<1> HIDE DEF b
<1>6. Tiles((C \ {c}) \cup Gap(c.at + size, c.at + c.size), B \cup {b}, h.end)
  <2>1. b.header + b.data + 1 <= c.at + c.size
    BY <1>1, <1>3, <1>4, <1>5
  <2>2. Tiles((C \ {c}) \cup Gap(b.header + b.data + 1, c.at + c.size), B \cup {b}, h.end)
    BY <1>2, <1>3, <1>5, <2>1, TilesSplit
  <2> QED
    BY <1>5, <2>2
<1>7. /\ Shape(t) /\ SameRest(t, u)
      /\ HeapSide!Chunks(t) = (C \ {c}) \cup Gap(c.at + size, c.at + c.size)
      /\ \A a \in At : a \notin c.at + size .. c.at + c.size - 1 => t.mem[a] = u.mem[a]
  <2> DEFINE at == c.at + size
             left == c.size - size
  <2>1. at \in Nat /\ left \in Nat /\ at + left = c.at + c.size /\ at + left <= Words /\ at <= c.at + c.size
    <3>1. size \in Nat /\ c.size >= size
      BY <1>1, <1>3
    <3>2. c.at \in Nat /\ c.size \in Nat /\ h.end \in Nat /\ c.at + c.size <= h.end /\ h.end <= Words /\ Words \in Nat
      BY <1>4, HeapConstants
    <3> HIDE DEF size
    <3> HIDE DEF at, left
    <3>4. c.at + size \in Nat
      BY <3>1, <3>2
    <3>5. c.size - size \in Nat
      BY <3>1, <3>2
    <3>6. (c.at + size) + (c.size - size) = c.at + c.size
      BY <3>1, <3>2
    <3>7. c.at + c.size <= Words
      BY <3>2
    <3>8. c.at + size <= c.at + c.size
      BY <3>1, <3>2
    <3> QED
      BY <3>4, <3>5, <3>6, <3>7, <3>8 DEF at, left
  <2>2. t = HeapSide!PutChunk(u, at, left)
    BY DEF HeapSide!TakeChunk, u
  <2>3. left # 0 => [at |-> at, size |-> left] \notin HeapSide!Chunks(u)
    <3> DEFINE d == [at |-> at, size |-> left]
    <3> HIDE DEF u
    <3> SUFFICES ASSUME left # 0, d \in C, d # c PROVE FALSE
      BY <1>3
    <3>1. d.at = at /\ d.size = left /\ (c.at + c.size <= d.at \/ d.at + d.size <= c.at)
      BY <1>2, <1>3 DEF Tiles
    <3> QED
      BY <1>1, <1>3, <1>4, <2>1, <3>1
  <2> HIDE DEF at, left, t
  <2>4. /\ Shape(t) /\ SameRest(t, u)
        /\ HeapSide!Chunks(t) = HeapSide!Chunks(u) \cup (IF left = 0 THEN {} ELSE {[at |-> at, size |-> left]})
        /\ \A a \in At : a \notin at .. at + left - 1 => t.mem[a] = u.mem[a]
    BY <1>3, <2>1, <2>2, <2>3, PutChunkIs
  <2>5. left = c.at + c.size - at
    BY <1>1, <1>3, <1>4 DEF at, left
  <2>6. (C \ {c}) \cup Gap(at, c.at + c.size) = (C \ {c}) \cup (IF left = 0 THEN {} ELSE {[at |-> at, size |-> left]})
    BY <2>1, <2>5 DEF Gap
  <2> QED
    <3>1. HeapSide!Chunks(t) = (C \ {c}) \cup Gap(at, c.at + c.size)
      BY <1>3, <2>4, <2>6
    <3>2. at + left - 1 = c.at + c.size - 1
      BY <1>4, <2>1
    <3>3. \A a \in At : a \notin at .. c.at + c.size - 1 => t.mem[a] = u.mem[a]
      BY <2>4, <3>2
    <3> QED
      BY <2>4, <3>1, <3>3 DEF at
<1> HIDE DEF t
<1>8. t \in HeapRecord /\ t.mem \in [At -> HeapSide!Word] /\ t.bitmap = h.bitmap /\ t.end = h.end
      /\ t.perm = h.perm /\ t.collect = h.collect
  BY <1>3, <1>7 DEF Shape, HeapRecord, SameRest
<1>9. /\ mem \in [At -> HeapSide!Word] /\ \A w \in At : ~ InBlock(w, b) => mem[w] = t.mem[w]
      /\ mem[b.header] = HeaderOf(b)
      /\ \A w \in At : b.header - b.refs <= w /\ w < b.header => mem[w].kind = "aligned"
  <2>1. b.refs <= b.header /\ (~ b.java => b.refs = 0)
    BY <1>1, <1>4, <1>5
  <2>2. mem = HeapSide!Filled(t.mem, b.header - b.refs, b.refs, b.data, b.java)
    BY <1>5
  <2> HIDE DEF mem
  <2> QED
    BY <1>5, <1>8, <2>1, <2>2, FilledIs
<1> HIDE DEF mem
<1>10. /\ bitmap \subseteq At
       /\ bitmap = {x.header : x \in {d \in B \cup {b} : d.java}}
  <2>1. header \in At
    BY <1>5 DEF Block
  <2>2. bitmap \subseteq At
    BY <1>8, <2>1 DEF HeapRecord
  <2>3. bitmap = {x.header : x \in {d \in B \cup {b} : d.java}}
    BY <1>2, <1>5, <1>8
  <2> QED
    BY <2>2, <2>3
<1>11. g = [t EXCEPT !.mem = mem, !.bitmap = bitmap]
  BY DEF mem
<1> HIDE DEF bitmap
<1>12. /\ g \in HeapRecord /\ g.mem = mem /\ g.bitmap = bitmap /\ g.large = t.large /\ g.bin = t.bin
       /\ g.end = t.end /\ g.perm = t.perm /\ g.collect = t.collect
  <2> HIDE DEF g
  <2>1. PICK r : r = [t EXCEPT !.mem = mem]
    OBVIOUS
  <2>2. /\ r \in HeapRecord /\ r.mem = mem /\ r.large = t.large /\ r.bin = t.bin
        /\ r.end = t.end /\ r.perm = t.perm /\ r.collect = t.collect
    BY <1>8, <1>9, <2>1 DEF HeapRecord
  <2>3. g = [r EXCEPT !.bitmap = bitmap]
    BY <1>11, <2>1
  <2> QED
    BY <1>10, <2>2, <2>3 DEF HeapRecord
<1> HIDE DEF g
<1>13. Shape(g) /\ HeapSide!Chunks(g) = HeapSide!Chunks(t)
  BY <1>7, <1>12 DEF Shape, HeapSide!Chunks
<1>14. Laid(mem, B \cup {b})
  <2>1. Laid(mem, B)
    <3>1. \A w \in At : (\E d \in B : InBlock(w, d)) => mem[w] = h.mem[w]
      <4> SUFFICES ASSUME NEW w \in At, NEW d \in B, InBlock(w, d) PROVE mem[w] = h.mem[w]
        OBVIOUS
      <4>1. c.at + c.size <= d.header - d.refs \/ d.header + d.data < c.at
        BY <1>2, <1>3 DEF Tiles
      <4>2. d.header \in Nat /\ d.refs \in Nat /\ d.data \in Nat /\ w \in Nat
        BY <1>2, PieceNumbers, HeapConstants DEF Tiles, At
      <4>3. ~ InBlock(w, b) /\ w \notin c.at + size .. c.at + c.size - 1
        <5>1. w < c.at \/ c.at + c.size <= w
          BY <1>4, <4>1, <4>2 DEF InBlock
        <5>2. b.header \in Nat /\ b.refs \in Nat /\ b.data \in Nat
          BY <1>5, PieceNumbers
        <5> HIDE DEF size, header
        <5>n. /\ size \in Nat /\ c.at \in Nat /\ c.size \in Nat /\ c.size >= size
              /\ b.header - b.refs = c.at /\ b.header + b.data + 1 = c.at + size
          BY <1>1, <1>3, <1>4, <1>5
        <5>3. ~ InBlock(w, b)
          <6>1. \A p, n, k, q, r, e, v \in Nat :
                  (v < p \/ p + n <= v) /\ k <= n /\ q - r = p /\ q + e + 1 = p + k => ~ (q - r <= v /\ v <= q + e)
            OBVIOUS
          <6> QED
            BY <4>2, <5>1, <5>2, <5>n, <6>1 DEF InBlock
        <5>4. w \notin c.at + size .. c.at + c.size - 1
          BY <1>1, <1>4, <4>2, <5>1
        <5> QED
          BY <5>3, <5>4
      <4> QED
        BY <1>3, <1>7, <1>9, <4>3
    <3> QED
      BY <1>2, <3>1, LaidElsewhere DEF Tiles
  <2> QED
    BY <1>9, <2>1 DEF Laid
<1>15. GoodHeap(g, B \cup {b})
  BY <1>2, <1>6, <1>7, <1>8, <1>10, <1>12, <1>13, <1>14 DEF GoodHeap
<1> QED
  BY <1>5, <1>8, <1>12, <1>15 DEF g, b, t, c

---------------------------------------------------------------------------
(* The heap: the sweep                                                     *)

\* The blocks lie apart in the first n words.
Apart(B, n) ==
    /\ B \subseteq Block /\ n \in 0 .. Words
    /\ \A b \in B : b.refs <= b.header /\ b.header + b.data < n
    /\ \A b, d \in B : \/ b = d
                        \/ b.header + b.data < d.header - d.refs
                        \/ d.header + d.data < b.header - b.refs

\* What gc_purge_bin() leaves to the sweep: no chunks, and nothing outside blocks.
Cleared(h, B) ==
    /\ Shape(h) /\ h.end <= h.perm /\ HeapSide!Chunks(h) = {}
    /\ Apart(B, h.end) /\ Laid(h.mem, B)
    /\ h.bitmap = {b.header : b \in {d \in B : d.java}}
    /\ \A w \in 0 .. h.end - 1 : (\A b \in B : ~ InBlock(w, b)) => h.mem[w].kind = "zero"

\* gc_purge_bin() leaves a cleared heap with the same blocks.
LEMMA PurgeBinIs ==
    ASSUME NEW h, NEW B, GoodHeap(h, B)
    PROVE  /\ Cleared(HeapSide!PurgeBin(h), B)
           /\ SameRest(HeapSide!PurgeBin(h), h)
<1> DEFINE g == HeapSide!PurgeBin(h)
           C == HeapSide!Chunks(h)
           bin == [i \in 1 .. BinEntries |-> <<>>]
           mem == [a \in At |-> IF \E c \in C : a \in HeapSide!ChunkWords(c)
                                THEN HeapSide!Plain("zero") ELSE h.mem[a]]
<1>1. /\ Shape(h) /\ h.end <= h.perm /\ Tiles(C, B, h.end) /\ Laid(h.mem, B) /\ h \in HeapRecord
      /\ h.bitmap = {b.header : b \in {d \in B : d.java}}
  BY DEF GoodHeap, Shape
<1>2. g = [h EXCEPT !.bin = bin, !.large = <<>>, !.mem = mem]
  BY DEF HeapSide!PurgeBin, HeapSide!Address, At
<1> HIDE DEF C
<1>3. bin \in [1 .. BinEntries -> Seq(At)] /\ \A i \in 1 .. BinEntries : bin[i] = <<>>
  BY EmptySets
<1>4. \A c \in C : c \in Piece /\ \A w \in At : w \in HeapSide!ChunkWords(c) <=> InPiece(w, c)
  BY <1>1, PieceNumbers, HeapConstants DEF Tiles, HeapSide!ChunkWords, InPiece, At
<1>5. mem \in [At -> HeapSide!Word]
      /\ \A w \in At : mem[w] = IF \E c \in C : InPiece(w, c) THEN HeapSide!Plain("zero") ELSE h.mem[w]
  <2>1. h.mem \in [At -> HeapSide!Word]
    BY <1>1 DEF HeapRecord
  <2>2. \A w \in At : (\E c \in C : w \in HeapSide!ChunkWords(c)) <=> (\E c \in C : InPiece(w, c))
    BY <1>4
  <2> QED
    BY <2>1, <2>2, WordPlain
<1> HIDE DEF bin, mem
<1>6. /\ g \in HeapRecord /\ SameRest(g, h) /\ g.mem = mem /\ g.large = <<>> /\ g.bin = bin
  <2>1. <<>> \in Seq(Piece)
    BY EmptySets
  <2> QED
    BY <1>1, <1>2, <1>3, <1>5, <2>1 DEF HeapRecord, SameRest
<1> HIDE DEF g
<1>7. Shape(g)
  BY <1>3, <1>6, EmptySets DEF Shape
<1>8. HeapSide!Chunks(g) = {}
  <2> SUFFICES ASSUME NEW c \in HeapSide!Chunks(g) PROVE FALSE
    OBVIOUS
  <2>1. c \in Piece
    BY <1>7, ChunksOf
  <2>2. c.size \in Nat /\ c.size > 0
    BY <2>1, PieceNumbers
  <2>3. c.size <= BinEntries => ToSet(g.bin[c.size]) = {}
    BY <1>3, <1>6, <2>2, EmptySets, HeapConstants
  <2>4. ToSet(g.large) = {}
    BY <1>6, EmptySets
  <2> QED
    BY <1>7, <2>1, <2>3, <2>4, ChunksOf
<1>9. Apart(B, h.end)
  BY <1>1 DEF Tiles, Apart
<1>10. Laid(mem, B)
  <2>1. \A w \in At : (\E b \in B : InBlock(w, b)) => mem[w] = h.mem[w]
    <3> SUFFICES ASSUME NEW w \in At, NEW b \in B, InBlock(w, b), NEW c \in C, InPiece(w, c) PROVE FALSE
      BY <1>5
    <3>1. c.at + c.size <= b.header - b.refs \/ b.header + b.data < c.at
      BY <1>1 DEF Tiles
    <3>2. b \in Block /\ c \in Piece /\ w \in Nat
      BY <1>1, HeapConstants DEF Tiles, At
    <3> QED
      BY <3>1, <3>2, PieceNumbers DEF InBlock, InPiece
  <2> QED
    BY <1>1, <1>9, <2>1, LaidElsewhere DEF Apart
<1>11. ASSUME NEW w \in 0 .. h.end - 1, \A b \in B : ~ InBlock(w, b) PROVE mem[w].kind = "zero"
  <2>1. \E c \in C : InPiece(w, c)
    BY <1>1, <1>11 DEF Tiles
  <2>2. w \in At
    BY <1>1, HeapConstants DEF Tiles, At
  <2> QED
    BY <1>5, <2>1, <2>2, WordPlain
<1> QED
  BY <1>1, <1>6, <1>7, <1>8, <1>9, <1>10, <1>11 DEF Cleared, SameRest, g

\* The word the sweep looks at: a header, nothing, or the data of a block whose
\* header is in front of it.
LEMMA WordAt ==
    ASSUME NEW h, NEW B, Cleared(h, B), NEW a \in 0 .. h.end - 1
    PROVE  \/ \E b \in B : b.header = a /\ h.mem[a] = HeaderOf(b)
           \/ h.mem[a].kind \in {"zero", "aligned"} /\ \A b \in B : b.header # a
           \/ \E b \in B : b.header < a /\ a <= b.header + b.data
<1>1. h.end \in Nat /\ a \in At /\ a \in Nat
  BY HeapConstants DEF Cleared, Apart, At
<1>2. CASE \A b \in B : ~ InBlock(a, b)
  <2>1. \A b \in B : b.header # a
    BY <1>2, PieceNumbers DEF Cleared, Apart, InBlock
  <2> QED
    BY <1>2, <2>1 DEF Cleared
<1>3. ASSUME NEW b \in B, InBlock(a, b)
      PROVE  \/ \E d \in B : d.header = a /\ h.mem[a] = HeaderOf(d)
             \/ h.mem[a].kind \in {"zero", "aligned"} /\ \A d \in B : d.header # a
             \/ \E d \in B : d.header < a /\ a <= d.header + d.data
  <2>1. /\ b.header \in Nat /\ b.refs \in Nat /\ b.data \in Nat
        /\ b.header - b.refs <= a /\ a <= b.header + b.data
    BY <1>3, PieceNumbers DEF Cleared, Apart, InBlock
  <2>2. CASE a = b.header
    BY <2>2 DEF Cleared, Laid
  <2>3. CASE a < b.header
    <3>1. h.mem[a].kind \in {"zero", "aligned"}
      BY <1>1, <2>1, <2>3 DEF Cleared, Laid
    <3>2. ASSUME NEW d \in B, d.header = a PROVE FALSE
      <4>1. d = b \/ d.header + d.data < b.header - b.refs \/ b.header + b.data < d.header - d.refs
        BY DEF Cleared, Apart
      <4>2. d.refs \in Nat /\ d.data \in Nat
        BY PieceNumbers DEF Cleared, Apart
      <4> QED
        BY <1>1, <2>1, <2>3, <3>2, <4>1, <4>2
    <3> QED
      BY <3>1, <3>2
  <2>4. CASE a > b.header
    BY <2>1, <2>4
  <2> QED
    BY <1>1, <2>1, <2>2, <2>3, <2>4
<1> QED
  BY <1>2, <1>3

ScanState ==
    [h : HeapRecord, scan : Nat, last : Nat, free : Nat, largest : Nat, used : Nat, lost : BOOLEAN]

\* The blocks that a sweep with these marks leaves in use.
Lasting(B, marked) == {b \in B : b.java => b.header \in marked}
Before(B, a) == {b \in B : b.header < a}

\* The sweep of heap h when it comes to word a.  Its next word is never inside the
\* data of a block, it has found every header behind it, and what it has put in
\* the bins and the blocks it keeps tile the words up to s.last.
Scanned(s, a, h, B, marked) ==
    LET kept == Lasting(B, marked)
    IN  /\ s \in ScanState /\ s.lost = FALSE
        /\ Shape(s.h) /\ s.h.collect = h.collect /\ s.h.end = h.end /\ s.h.perm = h.perm
        /\ a <= s.scan /\ s.scan <= h.end /\ s.last <= s.scan
        /\ \A b \in B : IF b.header < a THEN b.header + b.data < s.scan ELSE s.scan <= b.header
        /\ \A b \in kept : IF b.header < a THEN b.header + b.data < s.last
                           ELSE s.last <= b.header - b.refs
        /\ Tiles(HeapSide!Chunks(s.h), Before(kept, a), s.last)
        /\ \A w \in At : w >= s.last \/ (\E b \in Before(kept, a) : InBlock(w, b)) => s.h.mem[w] = h.mem[w]
        /\ s.h.bitmap = {b.header : b \in {d \in B : d.java /\ (d.header < a => d.header \in marked)}}
        /\ s.largest = 0 \/ \E c \in HeapSide!Chunks(s.h) : c.size = s.largest

\* One word further the sweep is in such a state again, whatever the word is: inside
\* what it has passed over, free, the header of a block that lasts or of one that dies.
LEMMA ScanStep ==
    ASSUME NEW h, NEW B, Cleared(h, B), NEW marked, NEW a \in 0 .. h.end - 1, NEW s, Scanned(s, a, h, B, marked)
    PROVE  Scanned(HeapSide!SweepWord(s, a, marked), a + 1, h, B, marked)
<1> DEFINE kept == Lasting(B, marked)
           w == s.h.mem[a]
           next == a + 1 + w.data
           free == a - w.refs - s.last
           t == HeapSide!SweepWord(s, a, marked)
<1>0. /\ s \in ScanState /\ s.lost = FALSE
      /\ Shape(s.h) /\ s.h.collect = h.collect /\ s.h.end = h.end /\ s.h.perm = h.perm
      /\ a <= s.scan /\ s.scan <= h.end /\ s.last <= s.scan
      /\ \A b \in B : IF b.header < a THEN b.header + b.data < s.scan ELSE s.scan <= b.header
      /\ \A b \in kept : IF b.header < a THEN b.header + b.data < s.last
                         ELSE s.last <= b.header - b.refs
      /\ Tiles(HeapSide!Chunks(s.h), Before(kept, a), s.last)
      /\ \A v \in At : v >= s.last \/ (\E b \in Before(kept, a) : InBlock(v, b)) => s.h.mem[v] = h.mem[v]
      /\ s.h.bitmap = {b.header : b \in {d \in B : d.java /\ (d.header < a => d.header \in marked)}}
      /\ s.largest = 0 \/ \E c \in HeapSide!Chunks(s.h) : c.size = s.largest
  BY DEF Scanned
<1>1. /\ s.scan \in Nat /\ s.last \in Nat /\ s.free \in Nat /\ s.largest \in Nat /\ s.used \in Nat
      /\ s.h \in HeapRecord
  BY <1>0 DEF ScanState
<1>2. /\ h.end \in Nat /\ h.end <= Words /\ a \in At /\ a \in Nat /\ Words \in Nat
  BY HeapConstants DEF Cleared, Apart, At
<1>3. \A b \in B : /\ b \in Block /\ b.header \in Nat /\ b.refs \in Nat /\ b.data \in Nat
                   /\ b.refs <= b.header /\ b.header + b.data < h.end
  BY PieceNumbers DEF Cleared, Apart
<1>4. kept \subseteq B
  BY DEF Lasting
<1>5. \A b, d \in B : \/ b = d
                      \/ b.header + b.data < d.header - d.refs
                      \/ d.header + d.data < b.header - b.refs
  BY DEF Cleared, Apart
<1> HIDE DEF t, kept
\* Nothing changes as long as there is no header at a.
<1>6. ASSUME \A b \in B : b.header # a
      PROVE  /\ \A b \in B : b.header < a <=> b.header < a + 1
             /\ Before(kept, a + 1) = Before(kept, a)
             /\ {d \in B : d.java /\ (d.header < a + 1 => d.header \in marked)}
                  = {d \in B : d.java /\ (d.header < a => d.header \in marked)}
  <2>1. \A b \in B : b.header < a <=> b.header < a + 1
    BY <1>2, <1>3, <1>6
  <2> QED
    BY <1>4, <2>1 DEF Before
<1>7. CASE a < s.scan
  <2>1. t = s
    BY <1>7 DEF HeapSide!SweepWord, t
  <2>2. \A b \in B : b.header # a
    BY <1>0, <1>1, <1>2, <1>3, <1>7
  <2>3. a + 1 <= s.scan
    BY <1>1, <1>2, <1>7
  <2> QED
    BY <1>0, <1>4, <1>6, <2>1, <2>2, <2>3 DEF Scanned, t, kept
<1>8. CASE a = s.scan
  <2>1. w = h.mem[a]
    BY <1>0, <1>1, <1>2, <1>8
  <2>2. ~ \E b \in B : b.header < a /\ a <= b.header + b.data
    BY <1>0, <1>1, <1>3, <1>8
  <2>3. ASSUME w.kind \in {"zero", "aligned"}, \A b \in B : b.header # a
        PROVE  Scanned(t, a + 1, h, B, marked)
    <3>1. t = [s EXCEPT !.scan = a + 1]
      BY <1>8, <1>2, <2>3 DEF HeapSide!SweepWord, t
    <3>2. t \in ScanState /\ t.h = s.h /\ t.last = s.last /\ t.largest = s.largest /\ t.lost = s.lost
          /\ t.scan = a + 1
      BY <1>0, <1>2, <3>1 DEF ScanState
    <3>3. \A b \in B : IF b.header < a + 1 THEN b.header + b.data < a + 1 ELSE a + 1 <= b.header
      BY <1>0, <1>2, <1>3, <1>8, <2>3
    <3>4. \A b \in kept : IF b.header < a + 1 THEN b.header + b.data < s.last ELSE s.last <= b.header - b.refs
      BY <1>0, <1>4, <1>6, <2>3
    <3>5. a + 1 <= h.end /\ s.last <= a + 1
      BY <1>0, <1>1, <1>2, <1>8
    <3> QED
      BY <1>0, <1>6, <2>3, <3>2, <3>3, <3>4, <3>5 DEF Scanned, kept
  <2>4. ASSUME NEW b \in B, b.header = a, w = HeaderOf(b)
        PROVE  Scanned(t, a + 1, h, B, marked)
    <3>1. /\ w.refs = b.refs /\ w.data = b.data /\ w.kind = IF b.java THEN "object" ELSE "c"
      BY <2>4 DEF HeaderOf
    <3>2. next \in Nat /\ a < next /\ next <= h.end /\ next = b.header + b.data + 1 /\ a - w.refs = b.header - b.refs
      BY <1>2, <1>3, <2>4, <3>1
    <3>3. \A d \in B : d.header = a => d = b
      BY <1>3, <1>5, <2>4
    <3>4. \A d \in B : d.header > a => next <= d.header - d.refs /\ next <= d.header
      BY <1>3, <1>5, <2>4, <3>2
    <3>5. \A d \in B : IF d.header < a + 1 THEN d.header + d.data < next ELSE next <= d.header
      <4> SUFFICES ASSUME NEW d \in B
                   PROVE  IF d.header < a + 1 THEN d.header + d.data < next ELSE next <= d.header
        OBVIOUS
      <4> HIDE DEF next
      <4>1. CASE d.header < a
        BY <1>0, <1>1, <1>2, <1>3, <1>8, <3>2, <4>1
      <4>2. CASE d.header = a
        BY <1>2, <1>3, <2>4, <3>2, <3>3, <4>2
      <4>3. CASE d.header > a
        BY <1>2, <1>3, <3>4, <4>3
      <4> QED
        BY <1>2, <1>3, <4>1, <4>2, <4>3
    <3>6. CASE b \in kept
      <4>1. w.kind = "c" \/ a \in marked
        BY <2>4, <3>1, <3>6 DEF kept, Lasting
      <4>2. free \in Nat /\ s.last + free = b.header - b.refs
        BY <1>0, <1>1, <1>2, <1>3, <2>4, <3>1, <3>6
      <4> DEFINE g == HeapSide!PutChunk(s.h, s.last, free)
                 largest == IF free > s.largest THEN free ELSE s.largest
                 used == s.used + w.refs + 1 + w.data
      <4>3. t = [s EXCEPT !.h = g, !.free = @ + free, !.largest = largest, !.used = used,
                          !.scan = next, !.last = next]
        BY <1>1, <1>2, <1>8, <3>1, <4>1 DEF HeapSide!SweepWord, t
      <4>n. used \in Nat /\ largest \in Nat
        BY <1>1, <1>3, <3>1, <4>2
      <4> HIDE DEF used, next, free
      <4>4. free # 0 => [at |-> s.last, size |-> free] \notin HeapSide!Chunks(s.h)
        <5> SUFFICES ASSUME NEW c \in HeapSide!Chunks(s.h), c.at = s.last PROVE FALSE
          OBVIOUS
        <5>1. c.at + c.size <= s.last /\ c \in Piece
          BY <1>0 DEF Tiles
        <5> QED
          BY <1>1, <5>1, PieceNumbers
      <4>5. /\ Shape(g) /\ SameRest(g, s.h)
            /\ HeapSide!Chunks(g) = HeapSide!Chunks(s.h)
                                      \cup (IF free = 0 THEN {} ELSE {[at |-> s.last, size |-> free]})
            /\ \A v \in At : v \notin s.last .. s.last + free - 1 => g.mem[v] = s.h.mem[v]
        <5>1. s.last + free <= Words
          BY <1>2, <1>3, <4>2
        <5> QED
          BY <1>0, <1>1, <4>2, <4>4, <5>1, PutChunkIs
      <4> HIDE DEF g
      <4>6. t \in ScanState /\ t.h = g /\ t.last = next /\ t.largest = largest /\ t.lost = s.lost /\ t.scan = next
        <5>1. g \in HeapRecord
          BY <4>5 DEF Shape
        <5> HIDE DEF largest
        <5> DEFINE sum == s.free + free
        <5>2. sum \in Nat
          BY <1>1, <4>2
        <5>3. t = [s EXCEPT !.h = g, !.free = sum, !.largest = largest, !.used = used,
                            !.scan = next, !.last = next]
          BY <1>0, <4>3 DEF ScanState
        <5> HIDE DEF sum
        <5> QED
          BY <1>0, <3>2, <4>n, <5>1, <5>2, <5>3 DEF ScanState
      <4>7. Before(kept, a + 1) = Before(kept, a) \cup {b}
        <5>1. \A d \in kept : d.header < a + 1 <=> d.header < a \/ d = b
          BY <1>2, <1>3, <1>4, <2>4, <3>3
        <5> QED
          BY <3>6, <5>1 DEF Before
      <4>8. HeapSide!Chunks(g) = HeapSide!Chunks(s.h) \cup Gap(s.last, b.header - b.refs)
        <5>1. free = b.header - b.refs - s.last
          BY <1>1, <1>3, <4>2
        <5> QED
          BY <1>1, <1>3, <4>2, <4>5, <5>1 DEF Gap
      <4>9. Tiles(HeapSide!Chunks(g), Before(kept, a + 1), next)
        <5>1. b.header - b.refs \in Nat /\ s.last <= b.header - b.refs /\ b.header - b.refs <= Words
          BY <1>1, <1>2, <1>3, <4>2
        <5>2. Tiles(HeapSide!Chunks(g), Before(kept, a), b.header - b.refs)
          BY <1>0, <4>8, <5>1, TilesGap
        <5>3. b.header + b.data + 1 <= Words /\ b \in Block
          BY <1>2, <1>3
        <5>4. Tiles(HeapSide!Chunks(g), Before(kept, a) \cup {b}, b.header + b.data + 1)
          BY <5>2, <5>3, TilesBlock
        <5> QED
          BY <3>2, <4>7, <5>4
      <4>10. \A d \in kept : IF d.header < a + 1 THEN d.header + d.data < next ELSE next <= d.header - d.refs
        BY <1>2, <1>3, <1>4, <3>4, <3>5
      <4>11. ASSUME NEW v \in At, v >= next \/ (\E d \in Before(kept, a + 1) : InBlock(v, d))
             PROVE  g.mem[v] = h.mem[v]
        <5>v. v \in Nat
          BY HeapConstants DEF At
        <5>1. CASE v >= next \/ InBlock(v, b)
          <6>1. v >= b.header - b.refs
            BY <1>2, <1>3, <3>2, <5>1, <5>v DEF InBlock
          <6>2. v >= s.last /\ v \notin s.last .. s.last + free - 1
            BY <1>1, <1>3, <4>2, <5>v, <6>1
          <6> QED
            BY <1>0, <4>5, <6>2
        <5>2. ASSUME NEW d \in Before(kept, a), InBlock(v, d) PROVE g.mem[v] = h.mem[v]
          <6>1. d \in B /\ d.header + d.data < s.last
            BY <1>0, <1>4 DEF Before
          <6>2. v < s.last
            BY <1>1, <1>3, <5>2, <5>v, <6>1 DEF InBlock
          <6>3. v \notin s.last .. s.last + free - 1
            BY <1>1, <5>v, <6>2
          <6> QED
            BY <1>0, <4>5, <5>2, <6>3
        <5> QED
          BY <4>7, <4>11, <5>1, <5>2
      <4>12. g.bitmap = {d.header : d \in {e \in B : e.java /\ (e.header < a + 1 => e.header \in marked)}}
        <5>1. \A e \in B : e.java => ((e.header < a + 1 => e.header \in marked) <=> (e.header < a => e.header \in marked))
          BY <1>2, <1>3, <2>4, <3>3, <3>6 DEF kept, Lasting
        <5>2. {e \in B : e.java /\ (e.header < a + 1 => e.header \in marked)}
                = {e \in B : e.java /\ (e.header < a => e.header \in marked)}
          BY <5>1
        <5> QED
          BY <1>0, <4>5, <5>2 DEF SameRest
      <4>13. largest = 0 \/ \E c \in HeapSide!Chunks(g) : c.size = largest
        <5>1. CASE free > s.largest
          <6>1. free # 0
            BY <1>1, <4>2, <5>1
          <6>2. [at |-> s.last, size |-> free] \in HeapSide!Chunks(g)
            BY <4>5, <6>1
          <6> QED
            BY <5>1, <6>2
        <5>2. CASE ~ free > s.largest
          BY <1>0, <4>5, <5>2
        <5> QED
          BY <5>1, <5>2
      <4>14. a + 1 <= next
        BY <1>2, <3>2
      <4> HIDE DEF largest
      <4>15. /\ t \in ScanState /\ t.lost = FALSE
             /\ Shape(t.h) /\ t.h.collect = h.collect /\ t.h.end = h.end /\ t.h.perm = h.perm
             /\ a + 1 <= t.scan /\ t.scan <= h.end /\ t.last <= t.scan
        BY <1>0, <3>2, <4>5, <4>6, <4>14 DEF SameRest
      <4>16. /\ \A d \in B : IF d.header < a + 1 THEN d.header + d.data < t.scan ELSE t.scan <= d.header
             /\ \A d \in kept : IF d.header < a + 1 THEN d.header + d.data < t.last
                                ELSE t.last <= d.header - d.refs
             /\ Tiles(HeapSide!Chunks(t.h), Before(kept, a + 1), t.last)
        BY <3>5, <4>6, <4>9, <4>10
      <4>17. \A v \in At : v >= t.last \/ (\E d \in Before(kept, a + 1) : InBlock(v, d)) => t.h.mem[v] = h.mem[v]
        BY <4>6, <4>11
      <4>18. /\ t.h.bitmap = {d.header : d \in {e \in B : e.java /\ (e.header < a + 1 => e.header \in marked)}}
             /\ t.largest = 0 \/ \E c \in HeapSide!Chunks(t.h) : c.size = t.largest
        BY <4>6, <4>12, <4>13
      <4> QED
        BY <4>15, <4>16, <4>17, <4>18 DEF Scanned, kept
    <3>7. CASE b \notin kept
      <4>1. b.java /\ a \notin marked /\ w.kind = "object"
        BY <2>4, <3>1, <3>7 DEF kept, Lasting
      <4> DEFINE bitmap == s.h.bitmap \ {a}
                 g == [s.h EXCEPT !.bitmap = bitmap]
      <4>2. t = [s EXCEPT !.h = g, !.scan = next]
        BY <1>1, <1>2, <1>8, <3>1, <4>1 DEF HeapSide!SweepWord, t
      <4>3. /\ g \in HeapRecord /\ g.bitmap = bitmap /\ g.mem = s.h.mem /\ g.bin = s.h.bin /\ g.large = s.h.large
            /\ g.end = s.h.end /\ g.perm = s.h.perm /\ g.collect = s.h.collect
        <5>1. bitmap \subseteq At
          BY <1>1 DEF HeapRecord
        <5> HIDE DEF bitmap
        <5> QED
          BY <1>1, <5>1 DEF HeapRecord
      <4> HIDE DEF g, next
      <4>4. t \in ScanState /\ t.h = g /\ t.last = s.last /\ t.largest = s.largest /\ t.lost = s.lost /\ t.scan = next
        BY <1>0, <3>2, <4>2, <4>3 DEF ScanState
      <4>5. Shape(g) /\ HeapSide!Chunks(g) = HeapSide!Chunks(s.h)
        BY <1>0, <4>3 DEF Shape, HeapSide!Chunks
      <4>6. Before(kept, a + 1) = Before(kept, a) /\ \A d \in kept : d.header < a + 1 <=> d.header < a
        <5>1. \A d \in kept : d.header < a + 1 <=> d.header < a
          BY <1>2, <1>3, <1>4, <3>3, <3>7
        <5> QED
          BY <5>1 DEF Before
      <4>7. bitmap = {d.header : d \in {e \in B : e.java /\ (e.header < a + 1 => e.header \in marked)}}
        <5>1. \A e \in B : (e.header < a + 1 => e.header \in marked) <=> (e.header < a => e.header \in marked) /\ e.header # a
          BY <1>2, <1>3, <4>1
        <5> QED
          BY <1>0, <5>1
      <4>8. a + 1 <= next /\ s.last <= next
        BY <1>0, <1>1, <1>2, <1>8, <3>2
      <4>9. /\ t \in ScanState /\ t.lost = FALSE
            /\ Shape(t.h) /\ t.h.collect = h.collect /\ t.h.end = h.end /\ t.h.perm = h.perm
            /\ a + 1 <= t.scan /\ t.scan <= h.end /\ t.last <= t.scan
        BY <1>0, <3>2, <4>3, <4>4, <4>5, <4>8
      <4>10. \A d \in B : IF d.header < a + 1 THEN d.header + d.data < t.scan ELSE t.scan <= d.header
        BY <3>5, <4>4
      <4>11. \A d \in kept : IF d.header < a + 1 THEN d.header + d.data < t.last ELSE t.last <= d.header - d.refs
        BY <1>0, <4>4, <4>6
      <4>12. /\ Tiles(HeapSide!Chunks(t.h), Before(kept, a + 1), t.last)
             /\ \A v \in At : v >= t.last \/ (\E d \in Before(kept, a + 1) : InBlock(v, d)) => t.h.mem[v] = h.mem[v]
        BY <1>0, <4>3, <4>4, <4>5, <4>6
      <4>13. /\ t.h.bitmap = {d.header : d \in {e \in B : e.java /\ (e.header < a + 1 => e.header \in marked)}}
             /\ t.largest = 0 \/ \E c \in HeapSide!Chunks(t.h) : c.size = t.largest
        BY <1>0, <4>3, <4>4, <4>5, <4>7
      <4> QED
        BY <4>9, <4>10, <4>11, <4>12, <4>13 DEF Scanned, kept
    <3> QED
      BY <3>6, <3>7
  <2> HIDE DEF w
  <2>5. ASSUME NEW b \in B, b.header = a, h.mem[a] = HeaderOf(b)
        PROVE  Scanned(t, a + 1, h, B, marked)
    BY <2>1, <2>4, <2>5
  <2>6. ASSUME h.mem[a].kind \in {"zero", "aligned"}, \A b \in B : b.header # a
        PROVE  Scanned(t, a + 1, h, B, marked)
    BY <2>1, <2>3, <2>6
  <2>7. \/ \E b \in B : b.header = a /\ h.mem[a] = HeaderOf(b)
        \/ h.mem[a].kind \in {"zero", "aligned"} /\ \A b \in B : b.header # a
        \/ \E b \in B : b.header < a /\ a <= b.header + b.data
    BY WordAt
  <2>8. Scanned(t, a + 1, h, B, marked)
    BY <2>2, <2>5, <2>6, <2>7
  <2> QED
    BY <2>8 DEF t
<1>9. a < s.scan \/ a = s.scan
  BY <1>0, <1>1, <1>2
<1> QED
  BY <1>7, <1>8, <1>9
\* The state in which the sweep starts.
ScanStart(h) == [h |-> h, scan |-> 0, last |-> 0, free |-> 0, largest |-> 0, used |-> 0, lost |-> FALSE]

\* It starts in such a state.
LEMMA ScanInit ==
    ASSUME NEW h, NEW B, Cleared(h, B), NEW marked
    PROVE  Scanned(ScanStart(h), 0, h, B, marked)
<1> DEFINE s == ScanStart(h)
           kept == Lasting(B, marked)
<1>1. /\ s.h = h /\ s.scan = 0 /\ s.last = 0 /\ s.largest = 0 /\ s.lost = FALSE
      /\ s \in ScanState
  BY DEF ScanStart, ScanState, Cleared, Shape
<1>2. h.end \in Nat /\ Words \in Nat
  BY HeapConstants DEF Cleared, Apart
<1>3. \A b \in B : ~ b.header < 0 /\ 0 <= b.header /\ 0 <= b.header - b.refs
  BY PieceNumbers DEF Cleared, Apart
<1>4. kept \subseteq B
  BY DEF Lasting
<1>5. Before(kept, 0) = {}
  BY <1>3, <1>4 DEF Before
<1>6. Tiles({}, {}, 0)
  BY <1>2 DEF Tiles
<1>7. {d \in B : d.java /\ (d.header < 0 => d.header \in marked)} = {d \in B : d.java}
  BY <1>3
<1> HIDE DEF s, kept
<1>8. /\ \A b \in B : IF b.header < 0 THEN b.header + b.data < s.scan ELSE s.scan <= b.header
      /\ \A b \in kept : IF b.header < 0 THEN b.header + b.data < s.last ELSE s.last <= b.header - b.refs
      /\ Tiles(HeapSide!Chunks(s.h), Before(kept, 0), s.last)
  BY <1>1, <1>3, <1>4, <1>5, <1>6 DEF Cleared
<1> QED
  BY <1>1, <1>2, <1>7, <1>8 DEF Scanned, Cleared, s, kept

\* What the whole sweep of a heap finds.
LEMMA ScanIs ==
    ASSUME NEW h, NEW B, Cleared(h, B), NEW marked
    PROVE  Scanned(HeapSide!Scan(h, marked), h.end, h, B, marked)
<1> DEFINE n == h.end
           start == ScanStart(h)
           Step(v, a) == HeapSide!SweepWord(v, a, marked)
           Good(v, a) == Scanned(v, a, h, B, marked)
           Def(f) == f = [a \in 0 .. n |-> IF a = 0 THEN start ELSE Step(f[a - 1], a - 1)]
           scanned == CHOOSE f : Def(f)
<1>1. n \in Nat
  BY HeapConstants DEF Cleared, Apart
<1>2. Good(start, 0) /\ \A a \in 0 .. n - 1 : \A v : Good(v, a) => Good(Step(v, a), a + 1)
  BY ScanInit, ScanStep
<1>3. \A v, a : Good(v, a) => v \in ScanState
  BY DEF Scanned
<1>4. HeapSide!Scan(h, marked) = scanned[n]
  BY DEF HeapSide!Scan, ScanStart
<1> HIDE DEF n, start, Step, Good
<1>5. Def(scanned)
  <2> DEFINE step == [i \in 1 .. n |-> [v \in ScanState |-> IF Good(v, i - 1) THEN Step(v, i - 1) ELSE v]]
  <2>1. \A i \in 1 .. n : i - 1 \in 0 .. n - 1 /\ i - 1 \in 0 .. n /\ i - 1 + 1 = i
    BY <1>1
  <2>2. step \in [1 .. n -> [ScanState -> ScanState]]
    BY <1>2, <1>3, <2>1
  <2>3. PICK f : Iterates(f, n, ScanState, start, step)
    <3> HIDE DEF step
    <3> QED
      BY <1>1, <1>2, <1>3, <2>2, Recursion
  <2>4. \A i \in 0 .. n : f[i] \in ScanState
    BY <2>3 DEF Iterates
  <2>5. \A i \in 1 .. n : f[i] = IF Good(f[i - 1], i - 1) THEN Step(f[i - 1], i - 1) ELSE f[i - 1]
    BY <2>1, <2>3, <2>4 DEF Iterates
  <2> DEFINE T == {i \in 0 .. n : Good(f[i], i)}
  <2>6. 0 \in T
    BY <1>1, <1>2, <2>3 DEF Iterates
  <2>7. \A i \in 1 .. n : i - 1 \in T => i \in T
    BY <1>2, <2>1, <2>5
  <2>8. \A i \in 0 .. n : i \in T
    <3> HIDE DEF T
    <3> QED
      BY <1>1, <2>6, <2>7, Induction
  <2>9. ASSUME NEW i \in 0 .. n PROVE f[i] = IF i = 0 THEN start ELSE Step(f[i - 1], i - 1)
    <3>1. CASE i = 0
      BY <2>3, <3>1 DEF Iterates
    <3>2. CASE i # 0
      <4>1. i \in 1 .. n
        BY <1>1, <3>2
      <4>2. Good(f[i - 1], i - 1)
        BY <2>1, <2>8, <4>1
      <4> QED
        BY <2>5, <3>2, <4>1, <4>2
    <3> QED
      BY <3>1, <3>2
  <2>10. f = [i \in 0 .. n |-> f[i]]
    BY <2>3 DEF Iterates
  <2>11. Def(f)
    BY <2>9, <2>10
  <2> QED
    BY <2>11
<1>6. scanned[0] = start /\ \A i \in 1 .. n : scanned[i] = Step(scanned[i - 1], i - 1)
  <2> HIDE DEF scanned
  <2> QED
    BY <1>1, <1>5
<1> HIDE DEF scanned
<1> DEFINE T == {i \in 0 .. n : Good(scanned[i], i)}
<1>7. 0 \in T
  BY <1>1, <1>2, <1>6
<1>8. ASSUME NEW i \in 1 .. n, i - 1 \in T PROVE i \in T
  <2>1. i - 1 \in 0 .. n - 1 /\ i - 1 + 1 = i /\ i \in 0 .. n
    BY <1>1
  <2>2. Good(scanned[i], i - 1 + 1)
    BY <1>2, <1>6, <1>8, <2>1
  <2> QED
    BY <2>1, <2>2
<1>9. \A i \in 0 .. n : i \in T
  <2> HIDE DEF T
  <2> QED
    BY <1>1, <1>7, <1>8, Induction
<1> QED
  BY <1>1, <1>4, <1>9 DEF Good, n
---------------------------------------------------------------------------
(* The heap: the whole collection                                          *)

\* Once what follows word at is a chunk, the heap is tiled up to its end.
LEMMA CloseGood ==
    ASSUME NEW h, Shape(h), h.end <= h.perm, NEW B, NEW at \in Nat, at <= h.end,
           Tiles(HeapSide!Chunks(h), B, at), Laid(h.mem, B),
           h.bitmap = {b.header : b \in {d \in B : d.java}}
    PROVE  LET g == HeapSide!PutChunk(h, at, h.end - at)
           IN  /\ GoodHeap(g, B) /\ SameRest(g, h)
               /\ HeapSide!Chunks(h) \subseteq HeapSide!Chunks(g)
               /\ h.end - at > 0 => \E c \in HeapSide!Chunks(g) : c.size = h.end - at
<1> DEFINE size == h.end - at
           g == HeapSide!PutChunk(h, at, size)
           c == [at |-> at, size |-> size]
           C == HeapSide!Chunks(h)
<1>1. h.end \in Nat /\ h.end <= Words /\ size \in Nat /\ at + size = h.end
  BY HeapConstants DEF Shape, HeapRecord
<1>2. c.at = at /\ c.size = size
  OBVIOUS
<1> HIDE DEF c, C, g
<1>3. size # 0 => [at |-> at, size |-> size] \notin C
  <2> SUFFICES ASSUME size # 0, c \in C PROVE FALSE
    BY DEF c
  <2>1. c.at + c.size <= at
    BY DEF Tiles, C
  <2> QED
    BY <1>1, <1>2, <2>1
<1>4. /\ Shape(g) /\ SameRest(g, h)
      /\ HeapSide!Chunks(g) = C \cup (IF size = 0 THEN {} ELSE {[at |-> at, size |-> size]})
      /\ \A a \in At : a \notin at .. at + size - 1 => g.mem[a] = h.mem[a]
  <2> HIDE DEF size
  <2> QED
    BY <1>1, <1>3, PutChunkIs DEF g, C
<1>5. HeapSide!Chunks(g) = C \cup Gap(at, h.end)
  BY <1>1, <1>4, GapIs
<1>6. Tiles(HeapSide!Chunks(g), B, h.end)
  BY <1>1, <1>5, TilesGap DEF C
<1>7. \A w \in At : (\E b \in B : InBlock(w, b)) => g.mem[w] = h.mem[w]
  <2> SUFFICES ASSUME NEW w \in At, NEW b \in B, InBlock(w, b) PROVE w \notin at .. at + size - 1
    BY <1>4
  <2>1. b.header + b.data < at /\ w \in Nat /\ w <= b.header + b.data /\ b \in Block
    BY HeapConstants DEF Tiles, InBlock, At
  <2> QED
    BY <2>1, PieceNumbers
<1>8. Laid(g.mem, B)
  BY <1>7, LaidElsewhere DEF Tiles
<1>9. size > 0 => c \in HeapSide!Chunks(g)
  BY <1>1, <1>4 DEF c
<1> QED
  BY <1>2, <1>4, <1>6, <1>8, <1>9 DEF GoodHeap, SameRest, g, C

\* The same when the heap grows first; it grows by the size asked for unless it
\* meets the permanent area.
LEMMA GrowGood ==
    ASSUME NEW h, Shape(h), h.end <= h.perm, NEW B, NEW at \in Nat, at <= h.end,
           Tiles(HeapSide!Chunks(h), B, at), Laid(h.mem, B),
           h.bitmap = {b.header : b \in {d \in B : d.java}}, NEW size \in Nat
    PROVE  LET g == HeapSide!Grow(h, at, size)
           IN  /\ GoodHeap(g, B) /\ g.collect = h.collect /\ g.perm = h.perm /\ h.end <= g.end
               /\ g.end = g.perm \/ size = 0 \/ \E c \in HeapSide!Chunks(g) : c.size >= size
<1> DEFINE end == IF h.end + size > h.perm THEN h.perm ELSE h.end + size
           u == [h EXCEPT !.end = end]
           g == HeapSide!PutChunk(u, at, end - at)
<1>1. HeapSide!Grow(h, at, size) = g
  BY DEF HeapSide!Grow
<1>2. h \in HeapRecord /\ h.end \in Nat /\ h.perm \in Nat /\ h.perm <= Words /\ InitWords <= h.end
  BY HeapConstants DEF Shape, HeapRecord
<1>3. end \in InitWords .. Words /\ end \in Nat /\ h.end <= end /\ end <= h.perm /\ at <= end
  BY <1>2, HeapConstants
<1>e. end = h.perm \/ end = h.end + size
  OBVIOUS
<1> HIDE DEF end
<1>4. /\ u \in HeapRecord /\ u.end = end /\ u.perm = h.perm /\ u.collect = h.collect /\ u.bitmap = h.bitmap
      /\ u.mem = h.mem /\ u.bin = h.bin /\ u.large = h.large
  BY <1>2, <1>3 DEF HeapRecord
<1> HIDE DEF u
<1>5. Shape(u) /\ HeapSide!Chunks(u) = HeapSide!Chunks(h)
  BY <1>4 DEF Shape, HeapSide!Chunks
<1>6. /\ GoodHeap(g, B) /\ SameRest(g, u)
      /\ end - at > 0 => \E c \in HeapSide!Chunks(g) : c.size = end - at
  BY <1>3, <1>4, <1>5, CloseGood
<1> HIDE DEF g
<1>7. ASSUME end # h.perm, size # 0 PROVE \E c \in HeapSide!Chunks(g) : c.size >= size
  <2>1. end - at > 0 /\ end - at >= size
    BY <1>2, <1>e, <1>7
  <2> QED
    BY <1>6, <2>1
<1> QED
  BY <1>1, <1>3, <1>4, <1>6, <1>7 DEF SameRest

\* gc_collect() leaves a heap that is tiled by chunks and the surviving blocks, and
\* when it has no chunk of the size asked for, it has grown to its limit.
LEMMA SweepGood ==
    ASSUME NEW h, NEW B, Cleared(h, B), NEW marked, NEW size \in Nat
    PROVE  LET g == HeapSide!Sweep(h, marked, size)
           IN  /\ GoodHeap(g, Lasting(B, marked)) /\ g.collect = h.collect /\ g.perm = h.perm
               /\ g.end = g.perm \/ size = 0 \/ \E c \in HeapSide!Chunks(g) : c.size >= size
<1> DEFINE s == HeapSide!Scan(h, marked)
           kept == Lasting(B, marked)
           tail == h.end - s.last
           free == s.free + tail
           largest == IF tail > s.largest THEN tail ELSE s.largest
           short == (s.used - 2 * free + 1) \div 2
           more == IF short > size THEN short ELSE size
           enough == largest > size /\ 2 * free > s.used
           g == HeapSide!Sweep(h, marked, size)
<1>1. Scanned(s, h.end, h, B, marked)
  BY ScanIs
<1>2. g = IF enough THEN HeapSide!PutChunk(s.h, s.last, tail) ELSE HeapSide!Grow(s.h, s.last, more)
  BY DEF HeapSide!Sweep
<1> HIDE DEF s, g
<1>3. /\ s.last \in Nat /\ s.free \in Nat /\ s.largest \in Nat /\ s.used \in Nat /\ s.scan \in Nat
      /\ Shape(s.h) /\ s.h.collect = h.collect /\ s.h.end = h.end /\ s.h.perm = h.perm
      /\ s.scan <= h.end /\ s.last <= s.scan
      /\ s.largest = 0 \/ \E c \in HeapSide!Chunks(s.h) : c.size = s.largest
  BY <1>1 DEF Scanned, ScanState
<1>4. /\ h.end \in Nat /\ h.end <= h.perm /\ B \subseteq Block
      /\ \A b \in B : b.header < h.end /\ b.header \in Nat /\ b \in Block
  <2>1. h.end \in Nat /\ h.end <= h.perm /\ B \subseteq Block /\ \A b \in B : b.header + b.data < h.end
    BY HeapConstants DEF Cleared, Apart
  <2> QED
    BY <2>1, PieceNumbers
<1>5. s.last <= h.end /\ tail \in Nat /\ free \in Nat /\ tail = s.h.end - s.last
  BY <1>3, <1>4
<1>6. kept \subseteq B /\ Before(kept, h.end) = kept
  BY <1>4 DEF Before, Lasting
<1>7. Tiles(HeapSide!Chunks(s.h), kept, s.last)
  BY <1>1, <1>6 DEF Scanned
<1>8. Laid(s.h.mem, kept)
  <2>1. Laid(h.mem, kept)
    BY <1>6 DEF Cleared, Laid
  <2>2. \A w \in At : (\E b \in kept : InBlock(w, b)) => s.h.mem[w] = h.mem[w]
    BY <1>1, <1>6 DEF Scanned
  <2> QED
    BY <1>4, <1>6, <2>1, <2>2, LaidElsewhere
<1>9. s.h.bitmap = {b.header : b \in {d \in kept : d.java}}
  <2>1. s.h.bitmap = {b.header : b \in {d \in B : d.java /\ (d.header < h.end => d.header \in marked)}}
    BY <1>1 DEF Scanned
  <2>2. {d \in B : d.java /\ (d.header < h.end => d.header \in marked)} = {d \in kept : d.java}
    BY <1>4 DEF Lasting
  <2> QED
    BY <2>1, <2>2
<1>10. more \in Nat /\ more >= size
  <2>1. short \in Int
    BY <1>3, <1>5
  <2> HIDE DEF short
  <2> QED
    BY <2>1
<1> HIDE DEF kept, tail, free, more
<1>11. CASE enough
  <2> DEFINE f == HeapSide!PutChunk(s.h, s.last, s.h.end - s.last)
  <2>1. g = f
    BY <1>2, <1>5, <1>11
  <2>2. /\ GoodHeap(f, kept) /\ SameRest(f, s.h)
        /\ HeapSide!Chunks(s.h) \subseteq HeapSide!Chunks(f)
        /\ s.h.end - s.last > 0 => \E c \in HeapSide!Chunks(f) : c.size = s.h.end - s.last
    BY <1>3, <1>4, <1>5, <1>7, <1>8, <1>9, CloseGood
  <2> HIDE DEF f
  <2>3. \E c \in HeapSide!Chunks(f) : c.size >= size
    <3>1. CASE tail > s.largest
      <4>1. tail > size
        BY <1>11, <3>1
      <4> QED
        BY <1>5, <2>2, <4>1
    <3>2. CASE ~ tail > s.largest
      <4>1. s.largest > size
        BY <1>11, <3>2
      <4>2. PICK c \in HeapSide!Chunks(s.h) : c.size = s.largest
        BY <1>3, <4>1
      <4> QED
        BY <1>3, <2>2, <4>1, <4>2
    <3> QED
      BY <3>1, <3>2
  <2> QED
    BY <1>3, <2>1, <2>2, <2>3 DEF SameRest, g, kept
<1>12. CASE ~ enough
  <2> DEFINE f == HeapSide!Grow(s.h, s.last, more)
  <2>1. g = f
    BY <1>2, <1>12
  <2>2. /\ GoodHeap(f, kept) /\ f.collect = s.h.collect /\ f.perm = s.h.perm
        /\ f.end = f.perm \/ more = 0 \/ \E c \in HeapSide!Chunks(f) : c.size >= more
    BY <1>3, <1>4, <1>5, <1>7, <1>8, <1>9, <1>10, GrowGood
  <2> HIDE DEF f
  <2>3. \A c \in HeapSide!Chunks(f) : c.size \in Nat
    BY <2>2, PieceNumbers DEF GoodHeap, Tiles
  <2>4. f.end = f.perm \/ size = 0 \/ \E c \in HeapSide!Chunks(f) : c.size >= size
    BY <1>10, <2>2, <2>3
  <2> QED
    BY <1>3, <2>1, <2>2, <2>4 DEF g, kept
<1> QED
  BY <1>11, <1>12
---------------------------------------------------------------------------
(* The heap: the invariant                                                 *)

\* The heap is good for the blocks there are; C blocks have no references; what the
\* program can reach are objects; after a failure the heap has its full size.
HeapOK(h, B, R, failed) ==
    /\ GoodHeap(h, B)
    /\ \A b \in B : ~ b.java => b.refs = 0
    /\ R \subseteq {b.header : b \in {d \in B : d.java}}
    /\ failed \in BOOLEAN
    /\ failed => h.end = h.perm

HeapInv == HeapOK(heap, blocks, hRooted, oom)

\* gc_collect(), with the collector on or off.
LEMMA CollectedGood ==
    ASSUME HeapInv, NEW size \in Nat
    PROVE  LET g == HeapSide!Collected(heap, size)
               B == HeapSide!Survivors(blocks)
           IN  /\ HeapOK(g, B, hRooted, FALSE)
               /\ g.end = g.perm \/ size = 0 \/ \E c \in HeapSide!Chunks(g) : c.size >= size
<1> DEFINE g == HeapSide!Collected(heap, size)
           B == HeapSide!Survivors(blocks)
<1>1. /\ GoodHeap(heap, blocks) /\ \A b \in blocks : ~ b.java => b.refs = 0
      /\ hRooted \subseteq {b.header : b \in {d \in blocks : d.java}}
  BY DEF HeapInv, HeapOK
<1>2. /\ B \subseteq blocks
      /\ hRooted \subseteq {b.header : b \in {d \in B : d.java}}
  BY <1>1 DEF HeapSide!Survivors
<1>3. CASE heap.collect
  <2> DEFINE u == HeapSide!PurgeBin(heap)
             f == HeapSide!Sweep(u, hRooted, size)
  <2>1. g = f
    BY <1>3 DEF HeapSide!Collected
  <2>2. B = Lasting(blocks, hRooted)
    BY <1>3 DEF HeapSide!Survivors, Lasting
  <2>3. Cleared(u, blocks)
    BY <1>1, PurgeBinIs
  <2> HIDE DEF u
  <2>4. /\ GoodHeap(f, Lasting(blocks, hRooted))
        /\ f.end = f.perm \/ size = 0 \/ \E c \in HeapSide!Chunks(f) : c.size >= size
    BY <2>3, SweepGood
  <2> HIDE DEF f
  <2> QED
    BY <1>1, <1>2, <2>1, <2>2, <2>4 DEF HeapOK, g, B
<1>4. CASE ~ heap.collect
  <2> DEFINE f == HeapSide!Grow(heap, heap.end, size)
  <2>1. g = f /\ B = blocks
    BY <1>4 DEF HeapSide!Collected, HeapSide!Survivors
  <2>2. heap.end \in Nat
    BY <1>1, HeapConstants DEF GoodHeap, Shape, HeapRecord
  <2>3. /\ GoodHeap(f, blocks)
        /\ f.end = f.perm \/ size = 0 \/ \E c \in HeapSide!Chunks(f) : c.size >= size
    BY <1>1, <2>2, GrowGood DEF GoodHeap
  <2> HIDE DEF f
  <2> QED
    BY <1>1, <2>1, <2>3 DEF HeapOK, g, B
<1> QED
  BY <1>3, <1>4

\* A block made of a free chunk.
LEMMA InstallKeeps ==
    ASSUME NEW h, NEW B, HeapOK(h, B, hRooted, FALSE), NEW refs \in 0 .. MaxRefs, NEW data \in 0 .. MaxData,
           NEW java \in BOOLEAN, ~ java => refs = 0, HeapSide!Candidate(h, refs + 1 + data) # <<>>,
           HeapSide!Install(h, B, HeapSide!Candidate(h, refs + 1 + data)[1], refs, data, java)
    PROVE  HeapOK(heap', blocks', hRooted', FALSE)
<1> DEFINE c == HeapSide!Candidate(h, refs + 1 + data)[1]
           t == HeapSide!TakeChunk(h, c, refs + 1 + data)
           header == c.at + refs
           b == [header |-> header, refs |-> refs, data |-> data, java |-> java]
           g == [t EXCEPT !.mem = HeapSide!Filled(@, c.at, refs, data, java),
                          !.bitmap = IF java THEN @ \cup {header} ELSE @]
<1>1. GoodHeap(h, B)
  BY DEF HeapOK
<1>2. GoodHeap(g, B \cup {b})
  BY <1>1, InstallGood
<1>3. heap' = g /\ blocks' = B \cup {b} /\ hRooted' = IF java THEN hRooted \cup {header} ELSE hRooted
  BY DEF HeapSide!Install
<1>4. b.java = java /\ b.header = header /\ b.refs = refs
  OBVIOUS
<1> HIDE DEF b, g
<1>5. hRooted' \subseteq {d.header : d \in {e \in B \cup {b} : e.java}}
  BY <1>3, <1>4 DEF HeapOK
<1>6. \A d \in B \cup {b} : ~ d.java => d.refs = 0
  BY <1>4 DEF HeapOK
<1> QED
  BY <1>2, <1>3, <1>5, <1>6 DEF HeapOK

\* gc_alloc(): at once, after a collection, or never.
LEMMA AllocKeeps ==
    ASSUME HeapInv, ~ oom, NEW refs \in 0 .. MaxRefs, NEW data \in 0 .. MaxData, NEW java \in BOOLEAN,
           ~ java => refs = 0, HeapSide!Alloc(refs, data, java)
    PROVE  HeapInv'
<1> DEFINE size == refs + 1 + data
           first == HeapSide!Candidate(heap, size)
           h == HeapSide!Collected(heap, size)
           B == HeapSide!Survivors(blocks)
           second == HeapSide!Candidate(h, size)
<1>1. size \in Nat \ {0}
  BY HeapConstants
<1>2. /\ HeapOK(h, B, hRooted, FALSE)
      /\ h.end = h.perm \/ size = 0 \/ \E c \in HeapSide!Chunks(h) : c.size >= size
  BY <1>1, CollectedGood
<1>3. \/ /\ first # <<>>
         /\ HeapSide!Install(heap, blocks, first[1], refs, data, java)
         /\ oom' = oom
      \/ /\ second # <<>>
         /\ HeapSide!Install(h, B, second[1], refs, data, java)
         /\ oom' = oom
      \/ /\ second = <<>>
         /\ heap' = h /\ blocks' = B /\ oom' = TRUE /\ hRooted' = hRooted
  BY DEF HeapSide!Alloc
<1>4. HeapOK(heap, blocks, hRooted, FALSE) /\ oom = FALSE
  BY DEF HeapInv, HeapOK
<1>a. first = HeapSide!Candidate(heap, refs + 1 + data) /\ second = HeapSide!Candidate(h, refs + 1 + data)
  OBVIOUS
<1> HIDE DEF h, B, first, second
<1>5. CASE first # <<>> /\ HeapSide!Install(heap, blocks, first[1], refs, data, java) /\ oom' = oom
  <2>1. HeapOK(heap', blocks', hRooted', FALSE)
    BY <1>a, <1>4, <1>5, InstallKeeps
  <2> QED
    BY <1>4, <1>5, <2>1 DEF HeapInv
<1>6. CASE second # <<>> /\ HeapSide!Install(h, B, second[1], refs, data, java) /\ oom' = oom
  <2>1. HeapOK(heap', blocks', hRooted', FALSE)
    BY <1>a, <1>2, <1>6, InstallKeeps
  <2> QED
    BY <1>4, <1>6, <2>1 DEF HeapInv
<1>7. CASE second = <<>> /\ heap' = h /\ blocks' = B /\ oom' = TRUE /\ hRooted' = hRooted
  <2>1. Shape(h) /\ \A c \in HeapSide!Chunks(h) : c.size \in Nat
    BY <1>2, PieceNumbers DEF HeapOK, GoodHeap, Tiles
  <2>2. \A c \in HeapSide!Chunks(h) : c.size < size
    <3> HIDE DEF size
    <3>1. HeapSide!Candidate(h, size) = <<>>
      BY <1>7 DEF second
    <3> QED
      BY <1>1, <2>1, <3>1, CandidateIs
  <2>3. h.end = h.perm
    BY <1>1, <1>2, <2>1, <2>2
  <2> QED
    BY <1>2, <1>7, <2>3 DEF HeapInv, HeapOK
<1> QED
  BY <1>3, <1>5, <1>6, <1>7

\* gc_palloc() takes words that are in no block and no chunk.
LEMMA PallocKeeps ==
    ASSUME HeapInv, ~ oom, NEW data \in 0 .. MaxData, HeapSide!Palloc(data)
    PROVE  HeapInv'
<1>1. CASE heap.perm - data >= heap.end
  <2> DEFINE mem == HeapSide!Fill(heap.mem, heap.perm - data, data, HeapSide!Plain("data"))
             perm == heap.perm - data
             h == [heap EXCEPT !.perm = perm, !.mem = mem]
  <2>1. /\ GoodHeap(heap, blocks) /\ Shape(heap) /\ heap \in HeapRecord
        /\ heap.end \in Nat /\ heap.perm \in Nat /\ heap.perm <= Words /\ InitWords <= heap.end /\ data \in Nat
    BY HeapConstants DEF HeapInv, HeapOK, GoodHeap, Shape, HeapRecord
  <2>2. heap' = h /\ blocks' = blocks /\ hRooted' = hRooted /\ oom' = oom
    BY <1>1, <2>1 DEF HeapSide!Palloc, HeapRecord
  <2>3. mem \in [At -> HeapSide!Word] /\ \A w \in At : w < heap.end => mem[w] = heap.mem[w]
    <3>1. heap.mem \in [At -> HeapSide!Word]
      BY <2>1 DEF HeapRecord
    <3>2. /\ mem \in [At -> HeapSide!Word]
          /\ \A a \in At : mem[a] = IF a \in heap.perm - data .. heap.perm - data + data - 1
                                    THEN HeapSide!Plain("data") ELSE heap.mem[a]
      BY <3>1, WordPlain, FillIs
    <3> HIDE DEF mem
    <3> QED
      BY <1>1, <2>1, <3>2, HeapConstants DEF At
  <2> HIDE DEF mem
  <2>4. perm \in InitWords .. Words /\ heap.end <= perm
    BY <1>1, <2>1, HeapConstants
  <2> HIDE DEF perm
  <2>5. /\ h \in HeapRecord /\ h.end = heap.end /\ h.perm = perm /\ h.mem = mem /\ h.bin = heap.bin
        /\ h.large = heap.large /\ h.bitmap = heap.bitmap
    BY <2>1, <2>3, <2>4 DEF HeapRecord
  <2> HIDE DEF h
  <2>6. Shape(h) /\ HeapSide!Chunks(h) = HeapSide!Chunks(heap)
    BY <2>1, <2>5 DEF Shape, HeapSide!Chunks
  <2>7. Laid(mem, blocks)
    <3>1. ASSUME NEW w \in At, NEW b \in blocks, InBlock(w, b) PROVE mem[w] = heap.mem[w]
      <4>1. b.header + b.data < heap.end /\ w <= b.header + b.data /\ b \in Block /\ w \in Nat
        BY <2>1, <3>1, HeapConstants DEF GoodHeap, Tiles, InBlock, At
      <4> QED
        BY <2>1, <2>3, <4>1, PieceNumbers
    <3> QED
      BY <2>1, <3>1, LaidElsewhere DEF GoodHeap, Tiles
  <2>8. GoodHeap(h, blocks)
    BY <2>1, <2>4, <2>5, <2>6, <2>7 DEF GoodHeap
  <2> QED
    BY <2>2, <2>8 DEF HeapInv, HeapOK
<1>2. CASE ~ heap.perm - data >= heap.end
  <2>1. HeapSide!Alloc(0, data, FALSE)
    BY <1>2 DEF HeapSide!Palloc, HeapSide!Malloc
  <2>2. 0 \in 0 .. MaxRefs /\ FALSE \in BOOLEAN
    BY HeapConstants
  <2> QED
    BY <2>1, <2>2, AllocKeeps
<1> QED
  BY <1>1, <1>2

\* gc_free() makes a chunk of exactly the words of its block.
LEMMA FreeKeeps ==
    ASSUME HeapInv, ~ oom, NEW b \in blocks, HeapSide!Free(b)
    PROVE  HeapInv'
<1> DEFINE size == 1 + b.data
           c == [at |-> b.header, size |-> size]
           g == HeapSide!PutChunk(heap, b.header, size)
           B == blocks \ {b}
           C == HeapSide!Chunks(heap)
<1>1. /\ GoodHeap(heap, blocks) /\ Shape(heap) /\ Tiles(C, blocks, heap.end) /\ heap.end \in Nat /\ heap.end <= Words
      /\ b \in Block /\ b.header \in Nat /\ b.data \in Nat /\ b.header + b.data < heap.end
      /\ b.refs = 0 /\ ~ b.java
  <2>1. GoodHeap(heap, blocks) /\ b.refs = 0 /\ ~ b.java
    BY DEF HeapInv, HeapOK, HeapSide!Free
  <2>2. Shape(heap) /\ Tiles(C, blocks, heap.end) /\ heap.end \in Nat /\ heap.end <= Words
    BY <2>1, HeapConstants DEF GoodHeap, Shape, HeapRecord
  <2>3. b \in Block /\ b.header + b.data < heap.end
    BY <2>2 DEF Tiles
  <2> QED
    BY <2>1, <2>2, <2>3, PieceNumbers
<1>2. heap' = g /\ blocks' = B /\ hRooted' = hRooted /\ oom' = oom
  BY DEF HeapSide!Free
<1>3. size \in Nat /\ size # 0 /\ b.header + size <= Words
  BY <1>1, HeapConstants
<1>4. c \in Piece /\ c.at = b.header /\ c.size = size
  BY <1>1, <1>3, HeapConstants DEF Piece, At
<1>5. c \notin C /\ Tiles(C \cup {c}, B, heap.end)
  <2>1. c.at = b.header - b.refs /\ c.size = b.refs + 1 + b.data
    BY <1>1, <1>4
  <2> HIDE DEF c, C
  <2> QED
    BY <1>1, <1>4, <2>1, TilesFree
<1>6. /\ Shape(g) /\ SameRest(g, heap)
      /\ HeapSide!Chunks(g) = C \cup (IF size = 0 THEN {} ELSE {[at |-> b.header, size |-> size]})
      /\ \A a \in At : a \notin b.header .. b.header + size - 1 => g.mem[a] = heap.mem[a]
  <2> HIDE DEF size
  <2> QED
    BY <1>1, <1>3, <1>5, PutChunkIs
<1> HIDE DEF g
<1>7. HeapSide!Chunks(g) = C \cup {c}
  BY <1>3, <1>6
<1>8. Laid(g.mem, B)
  <2>1. Laid(heap.mem, B) /\ B \subseteq Block
    BY <1>1 DEF GoodHeap, Laid, Tiles
  <2>2. ASSUME NEW w \in At, NEW d \in B, InBlock(w, d) PROVE g.mem[w] = heap.mem[w]
    <3>1. \/ b.header + b.data < d.header - d.refs
          \/ d.header + d.data < b.header - b.refs
      BY <1>1 DEF Tiles
    <3>2. /\ d.header - d.refs <= w /\ w <= d.header + d.data /\ w \in Nat
          /\ d.header \in Nat /\ d.refs \in Nat /\ d.data \in Nat
      BY <2>1, <2>2, HeapConstants, PieceNumbers DEF InBlock, At
    <3>3. w \notin b.header .. b.header + size - 1
      BY <1>1, <3>1, <3>2
    <3> QED
      BY <1>6, <3>3
  <2> QED
    BY <2>1, <2>2, LaidElsewhere
<1>9. {d \in B : d.java} = {d \in blocks : d.java}
  BY <1>1
<1> HIDE DEF B, C
<1>10. GoodHeap(g, B)
  BY <1>1, <1>5, <1>6, <1>7, <1>8, <1>9 DEF GoodHeap, SameRest
<1>11. \A d \in B : d \in blocks
  BY DEF B
<1> QED
  BY <1>2, <1>9, <1>10, <1>11 DEF HeapInv, HeapOK

\* Every operation of the heap keeps the invariant.
LEMMA HeapStep == ASSUME HeapInv, HeapSide!Next PROVE HeapInv'
<1>0. ~ oom
  BY DEF HeapSide!Next
<1>1. ASSUME NEW refs \in 0 .. MaxRefs, NEW data \in 0 .. MaxData, HeapSide!New(refs, data) PROVE HeapInv'
  BY <1>0, <1>1, AllocKeeps DEF HeapSide!New
<1>2. ASSUME NEW data \in 0 .. MaxData, HeapSide!Malloc(data) PROVE HeapInv'
  <2>1. 0 \in 0 .. MaxRefs /\ FALSE \in BOOLEAN
    BY HeapConstants
  <2> QED
    BY <1>0, <1>2, <2>1, AllocKeeps DEF HeapSide!Malloc
<1>3. ASSUME NEW data \in 0 .. MaxData, HeapSide!Palloc(data) PROVE HeapInv'
  BY <1>0, <1>3, PallocKeeps
<1>4. ASSUME NEW b \in blocks, HeapSide!Free(b) PROVE HeapInv'
  BY <1>0, <1>4, FreeKeeps
<1>5. ASSUME NEW header \in hRooted, HeapSide!Drop(header) PROVE HeapInv'
  BY <1>5 DEF HeapSide!Drop, HeapInv, HeapOK
<1>6. CASE HeapSide!Enable
  <2> DEFINE h == [heap EXCEPT !.collect = TRUE]
  <2>1. heap \in HeapRecord /\ heap' = h /\ UNCHANGED <<blocks, hRooted, oom>>
    BY <1>6 DEF HeapSide!Enable, HeapInv, HeapOK, GoodHeap, Shape
  <2>2. /\ h \in HeapRecord /\ h.end = heap.end /\ h.perm = heap.perm /\ h.mem = heap.mem /\ h.bin = heap.bin
        /\ h.large = heap.large /\ h.bitmap = heap.bitmap
    BY <2>1 DEF HeapRecord
  <2> HIDE DEF h
  <2>3. HeapSide!Chunks(h) = HeapSide!Chunks(heap)
    BY <2>2 DEF HeapSide!Chunks
  <2>4. Shape(h)
    BY <2>2 DEF Shape, HeapInv, HeapOK, GoodHeap
  <2>5. GoodHeap(h, blocks)
    BY <2>2, <2>3, <2>4 DEF GoodHeap, HeapInv, HeapOK
  <2> QED
    BY <2>1, <2>2, <2>5 DEF HeapInv, HeapOK
<1>7. CASE HeapSide!Gc
  <2>1. HeapOK(heap', blocks', hRooted', FALSE) /\ oom' = FALSE
    BY <1>0, <1>7, CollectedGood DEF HeapSide!Gc, HeapInv, HeapOK
  <2> QED
    BY <2>1 DEF HeapInv
<1> QED
  BY <1>1, <1>2, <1>3, <1>4, <1>5, <1>6, <1>7 DEF HeapSide!Next

\* At first the heap is one chunk.
LEMMA HeapInit == HeapSide!Init => HeapInv
<1> DEFINE bin == [i \in 1 .. BinEntries |-> <<>>]
           mem == [a \in At |-> HeapSide!Plain("zero")]
           h == [collect |-> FALSE, end |-> InitWords, perm |-> Words, bin |-> bin,
                 large |-> <<>>, bitmap |-> {}, mem |-> mem]
           g == HeapSide!PutChunk(h, 0, InitWords)
<1>1. bin \in [1 .. BinEntries -> Seq(At)] /\ \A i \in 1 .. BinEntries : bin[i] = <<>>
  BY EmptySets
<1>2. mem \in [At -> HeapSide!Word]
  BY WordPlain
<1>3. InitWords \in InitWords .. Words /\ Words \in InitWords .. Words
  BY HeapConstants
<1>4. <<>> \in Seq(Piece) /\ ToSet(<<>>) = {} /\ IsInjective(<<>>) /\ <<>> \in Seq(At)
  BY EmptySets
<1>5. HeapSide!Init => heap = g /\ blocks = {} /\ hRooted = {} /\ oom = FALSE
  BY DEF HeapSide!Init, HeapSide!Address, At
<1> HIDE DEF bin, mem
<1>6. /\ h \in HeapRecord /\ h.end = InitWords /\ h.perm = Words /\ h.bin = bin /\ h.large = <<>> /\ h.bitmap = {}
  BY <1>1, <1>2, <1>3, <1>4 DEF HeapRecord
<1> HIDE DEF h
<1>7. Shape(h)
  BY <1>1, <1>4, <1>6 DEF Shape
<1>8. HeapSide!Chunks(h) = {}
  <2>1. \A c \in Piece : c.size \in 1 .. Words
    BY DEF Piece
  <2>2. \A c \in Piece : c.size <= BinEntries => h.bin[c.size] = <<>>
    BY <1>1, <1>6, <2>1, HeapConstants
  <2> QED
    BY <1>4, <1>6, <1>7, <2>2, ChunksOf, EmptySets
<1>9. Tiles(HeapSide!Chunks(h), {}, 0)
  BY <1>8, HeapConstants DEF Tiles
<1>10. h.end - 0 = InitWords
  BY <1>6, HeapConstants
<1>11. GoodHeap(HeapSide!PutChunk(h, 0, h.end - 0), {})
  <2>1. Laid(h.mem, {}) /\ h.bitmap = {b.header : b \in {d \in {} : d.java}}
    BY <1>6 DEF Laid
  <2> QED
    BY <1>6, <1>7, <1>9, <2>1, CloseGood, HeapConstants
<1>12. GoodHeap(g, {})
  BY <1>10, <1>11
<1> HIDE DEF g
<1> QED
  BY <1>5, <1>12 DEF HeapInv, HeapOK
\* The sweep finds every header, and the other properties of the heap.
LEMMA HeapProperties ==
    ASSUME HeapInv
    PROVE  /\ HeapSide!TypeOK /\ HeapSide!Tiled /\ HeapSide!FailsWhenFull
           /\ HeapSide!SweepFindsHeaders /\ HeapSide!BitmapExact
<1> DEFINE C == HeapSide!Chunks(heap)
<1>1. /\ GoodHeap(heap, blocks) /\ hRooted \subseteq {b.header : b \in {d \in blocks : d.java}}
      /\ oom \in BOOLEAN /\ (oom => heap.end = heap.perm)
  BY DEF HeapInv, HeapOK
<1>2. /\ Shape(heap) /\ heap \in HeapRecord /\ heap.end <= heap.perm /\ Tiles(C, blocks, heap.end)
      /\ heap.end \in Nat /\ heap.end <= Words
  BY <1>1, HeapConstants DEF GoodHeap, Shape, HeapRecord
<1>3. HeapSide!TypeOK
  <2>1. HeapSide!Chunk = Piece /\ HeapSide!Address = At
    BY DEF HeapSide!Chunk, HeapSide!Address, Piece, At
  <2>2. hRooted \subseteq {b.header : b \in blocks}
    BY <1>1
  <2> QED
    BY <1>1, <1>2, <2>1, <2>2 DEF HeapSide!TypeOK, HeapRecord
<1>4. HeapSide!Tiled
  <2> DEFINE words == {HeapSide!ChunkWords(c) : c \in C} \cup {HeapSide!BlockWords(b) : b \in blocks}
  <2> HIDE DEF C
  <2>1. \A c \in C : /\ c \in Piece /\ c.at \in Nat /\ c.size \in Nat /\ c.size > 0 /\ c.at + c.size <= heap.end
                     /\ \A w : w \in HeapSide!ChunkWords(c) <=> w \in Nat /\ InPiece(w, c)
    <3> SUFFICES ASSUME NEW c \in C
                 PROVE  /\ c \in Piece /\ c.at \in Nat /\ c.size \in Nat /\ c.size > 0 /\ c.at + c.size <= heap.end
                        /\ \A w : w \in HeapSide!ChunkWords(c) <=> w \in Nat /\ InPiece(w, c)
      OBVIOUS
    <3>1. c \in Piece /\ c.at \in Nat /\ c.size \in Nat /\ c.size > 0 /\ c.at + c.size <= heap.end
      BY <1>2, PieceNumbers DEF Tiles
    <3> QED
      BY <3>1 DEF HeapSide!ChunkWords, InPiece
  <2>2. \A b \in blocks : /\ b \in Block /\ b.header \in Nat /\ b.refs \in Nat /\ b.data \in Nat
                          /\ b.refs <= b.header /\ b.header + b.data < heap.end
                          /\ \A w : w \in HeapSide!BlockWords(b) <=> w \in Nat /\ InBlock(w, b)
    <3> SUFFICES ASSUME NEW b \in blocks
                 PROVE  /\ b \in Block /\ b.header \in Nat /\ b.refs \in Nat /\ b.data \in Nat
                        /\ b.refs <= b.header /\ b.header + b.data < heap.end
                        /\ \A w : w \in HeapSide!BlockWords(b) <=> w \in Nat /\ InBlock(w, b)
      OBVIOUS
    <3>1. /\ b \in Block /\ b.header \in Nat /\ b.refs \in Nat /\ b.data \in Nat
          /\ b.refs <= b.header /\ b.header + b.data < heap.end
      BY <1>2, PieceNumbers DEF Tiles
    <3> QED
      BY <3>1 DEF HeapSide!BlockWords, InBlock
  <2>3. UNION words = 0 .. heap.end - 1
    <3>1. ASSUME NEW w \in UNION words PROVE w \in 0 .. heap.end - 1
      <4>1. (\E c \in C : w \in HeapSide!ChunkWords(c)) \/ (\E b \in blocks : w \in HeapSide!BlockWords(b))
        OBVIOUS
      <4>2. ASSUME NEW c \in C, w \in HeapSide!ChunkWords(c) PROVE w \in 0 .. heap.end - 1
        BY <1>2, <2>1, <4>2 DEF InPiece
      <4>3. ASSUME NEW b \in blocks, w \in HeapSide!BlockWords(b) PROVE w \in 0 .. heap.end - 1
        BY <1>2, <2>2, <4>3 DEF InBlock
      <4> QED
        BY <4>1, <4>2, <4>3
    <3>2. ASSUME NEW w \in 0 .. heap.end - 1 PROVE w \in UNION words
      <4>1. (\E c \in C : InPiece(w, c)) \/ (\E b \in blocks : InBlock(w, b))
        BY <1>2 DEF Tiles
      <4>2. w \in Nat
        OBVIOUS
      <4>3. (\E c \in C : w \in HeapSide!ChunkWords(c)) \/ (\E b \in blocks : w \in HeapSide!BlockWords(b))
        BY <2>1, <2>2, <4>1, <4>2
      <4> QED
        BY <4>3
    <3> QED
      BY <3>1, <3>2
  <2>4. ASSUME NEW b \in blocks, NEW d \in blocks, b # d
        PROVE  HeapSide!BlockWords(b) \cap HeapSide!BlockWords(d) = {}
    <3>1. b.header + b.data < d.header - d.refs \/ d.header + d.data < b.header - b.refs
      BY <1>2, <2>4 DEF Tiles
    <3>2. \A w \in Nat : ~ (InBlock(w, b) /\ InBlock(w, d))
      BY <2>2, <3>1 DEF InBlock
    <3> QED
      BY <2>2, <3>2
  <2>5. ASSUME NEW c \in C, NEW b \in blocks
        PROVE  HeapSide!ChunkWords(c) \cap HeapSide!BlockWords(b) = {}
    <3>1. c.at + c.size <= b.header - b.refs \/ b.header + b.data < c.at
      BY <1>2 DEF Tiles
    <3>2. \A w \in Nat : ~ (InPiece(w, c) /\ InBlock(w, b))
      BY <2>1, <2>2, <3>1 DEF InBlock, InPiece
    <3> QED
      BY <2>1, <2>2, <3>2
  <2>6. ASSUME NEW c \in C, NEW d \in C, c # d
        PROVE  HeapSide!ChunkWords(c) \cap HeapSide!ChunkWords(d) = {}
    <3>1. c.at + c.size <= d.at \/ d.at + d.size <= c.at
      BY <1>2, <2>6 DEF Tiles
    <3>2. \A w \in Nat : ~ (InPiece(w, c) /\ InPiece(w, d))
      BY <2>1, <3>1 DEF InPiece
    <3> QED
      BY <2>1, <3>2
  <2>7. /\ HeapSide!IsInjective(heap.large) /\ \A c \in HeapSide!ToSet(heap.large) : c.size > BinEntries
        /\ \A i \in 1 .. BinEntries : HeapSide!IsInjective(heap.bin[i])
    BY <1>2, HeapSame DEF Shape
  <2> HIDE DEF words
  <2> QED
    BY <1>2, <2>3, <2>4, <2>5, <2>6, <2>7 DEF HeapSide!Tiled, words, C
<1>5. HeapSide!SweepFindsHeaders
  <2> DEFINE u == HeapSide!PurgeBin(heap)
  <2>1. Cleared(u, blocks)
    BY <1>1, PurgeBinIs
  <2>2. Scanned(HeapSide!Scan(u, hRooted), u.end, u, blocks, hRooted)
    <3> HIDE DEF u
    <3> QED
      BY <2>1, ScanIs
  <2>3. HeapSide!Scan(u, hRooted).lost = FALSE
    BY <2>2 DEF Scanned
  <2> QED
    BY <2>3 DEF HeapSide!SweepFindsHeaders
<1>6. HeapSide!BitmapExact
  BY <1>1 DEF GoodHeap, HeapSide!BitmapExact
<1> QED
  BY <1>1, <1>3, <1>4, <1>5, <1>6 DEF HeapSide!FailsWhenFull
-----------------------------------------------------------------------------
(* The four sides together                                                 *)

\* A step of one side leaves the variables of the others, and so what holds of
\* them, as they are.
LEMMA Others ==
    /\ WeakInv /\ UNCHANGED wVars => WeakInv'
    /\ InternInv /\ UNCHANGED iVars => InternInv'
    /\ FinalInv /\ UNCHANGED fVars => FinalInv'
    /\ HeapInv /\ UNCHANGED hVars => HeapInv'
<1>1. WeakInv /\ UNCHANGED wVars => WeakInv'
  BY DEF WeakInv, wVars, WeakSide!TypeOK, WeakSide!ChainAlive, WeakSide!ChainedSound
<1>2. InternInv /\ UNCHANGED iVars => InternInv'
  BY DEF InternInv, iVars
<1>3. FinalInv /\ UNCHANGED fVars => FinalInv'
  BY DEF FinalInv, fVars, FinalSide!TypeOK, FinalSide!Registered, CurHeld, WokenForWork
<1>4. HeapInv /\ UNCHANGED hVars => HeapInv'
  BY DEF HeapInv, hVars
<1> QED
  BY <1>1, <1>2, <1>3, <1>4

\* The inductive invariant of the composition.
MemoryInv == WeakInv /\ InternInv /\ FinalInv /\ HeapInv

\* Whatever the constants are: every heap size and number of bins, every set of
\* references, strings and objects, every hash function and load factor.
THEOREM MemoryInvariant == Spec => []MemoryInv
<1>1. Init => MemoryInv
  BY WeakInit, InternInit, FinalInit, HeapInit DEF Init, MemoryInv
<1>2. MemoryInv /\ [Next]_vars => MemoryInv'
  <2> SUFFICES ASSUME MemoryInv, [Next]_vars PROVE MemoryInv'
    OBVIOUS
  <2>1. WeakInv /\ InternInv /\ FinalInv /\ HeapInv
    BY DEF MemoryInv
  <2>2. CASE WeakSide!Next /\ UNCHANGED <<iVars, fVars, hVars>>
    <3>1. UNCHANGED iVars /\ UNCHANGED fVars /\ UNCHANGED hVars
      BY <2>2
    <3> QED
      BY <2>1, <2>2, <3>1, WeakStep, Others DEF MemoryInv
  <2>3. CASE InternSide!Next /\ UNCHANGED <<wVars, fVars, hVars>>
    <3>1. UNCHANGED wVars /\ UNCHANGED fVars /\ UNCHANGED hVars
      BY <2>3
    <3> QED
      BY <2>1, <2>3, <3>1, InternStep, Others DEF MemoryInv
  <2>4. CASE FinalSide!Next /\ UNCHANGED <<wVars, iVars, hVars>>
    <3>1. UNCHANGED wVars /\ UNCHANGED iVars /\ UNCHANGED hVars
      BY <2>4
    <3> QED
      BY <2>1, <2>4, <3>1, FinalStep, Others DEF MemoryInv
  <2>5. CASE HeapSide!Next /\ UNCHANGED <<wVars, iVars, fVars>>
    <3>1. UNCHANGED wVars /\ UNCHANGED iVars /\ UNCHANGED fVars
      BY <2>5
    <3> QED
      BY <2>1, <2>5, <3>1, HeapStep, Others DEF MemoryInv
  <2>6. CASE UNCHANGED vars
    <3>1. UNCHANGED wVars /\ UNCHANGED iVars /\ UNCHANGED fVars /\ UNCHANGED hVars
      BY <2>6 DEF vars
    <3> QED
      BY <2>1, <3>1, Others DEF MemoryInv
  <2> QED
    BY <2>2, <2>3, <2>4, <2>5, <2>6 DEF Next
<1> QED
  BY <1>1, <1>2, PTL DEF Spec

\* Weak references: what is in the chain, and what a reference in it refers to,
\* has not been swept, so the next collection reads no freed memory.
THEOREM WeakReferencesSound == Spec => []ChainedSound
<1>1. MemoryInv => ChainedSound
  BY DEF MemoryInv, WeakInv, ChainedSound
<1> QED
  BY <1>1, MemoryInvariant, PTL

\* Interned strings: both tables hold live strings, once each, in the bucket where
\* a lookup searches for them, at every capacity the tables grow and shrink to.
THEOREM StringsPlaced == Spec => []Placed
<1>1. MemoryInv => Placed
  BY InternProperties DEF MemoryInv, Placed
<1> QED
  BY <1>1, MemoryInvariant, PTL

\* Interned strings: until a collection runs inside an insertion, equal strings
\* have one representative, in both tables together.
THEOREM StringsCanonical == Spec => []Canonical
<1>1. MemoryInv => Canonical
  BY InternProperties DEF MemoryInv, Canonical
<1> QED
  BY <1>1, MemoryInvariant, PTL

\* Finalizers: an object that waits for its finalizer is on one list, once, and
\* has not been swept, and a thread that is not woken spuriously or interrupted
\* never takes one off an empty list.
THEOREM FinalizersRegistered == Spec => []Registered
<1>1. MemoryInv => Registered
  BY DEF MemoryInv, FinalInv, WokenForWork, Registered, FinalSide!NoTrap
<1> QED
  BY <1>1, MemoryInvariant, PTL

\* The heap: chunks and blocks tile it through allocation, collection, growth and
\* gc_free(), and an allocation fails only when the heap has its full size.
THEOREM HeapTiled == Spec => []Tiled
<1>1. MemoryInv => Tiled
  BY HeapProperties DEF MemoryInv, Tiled
<1> QED
  BY <1>1, MemoryInvariant, PTL

\* The heap: a sweep of any reachable heap, from the first word to the last, takes
\* no data for a header and misses no header.
THEOREM HeadersFound == Spec => []SweepFindsHeaders
<1>1. MemoryInv => SweepFindsHeaders
  BY HeapProperties DEF MemoryInv, SweepFindsHeaders
<1> QED
  BY <1>1, MemoryInvariant, PTL

\* The heap: the bitmap has a bit for the header of every object, and no other.
THEOREM BitmapOfHeaders == Spec => []BitmapExact
<1>1. MemoryInv => BitmapExact
  BY HeapProperties DEF MemoryInv, BitmapExact
<1> QED
  BY <1>1, MemoryInvariant, PTL
=============================================================================
