------------------------ MODULE MonitorTableProofs ------------------------
(***************************************************************************)
(* The monitor table of thread.c is the map from objects to monitors it    *)
(* promises, for tables of every size, any number of threads and objects   *)
(* and all ways their addresses collide, until a collection has met a      *)
(* coalesced table; its loops end.                                         *)
(***************************************************************************)
EXTENDS MonitorTable, FiniteSetTheorems, WellFoundedInduction, TLAPS

---------------------------------------------------------------------------
(* Recursion and induction along an interval.  The induction theorems of   *)
(* the library take an operator as a parameter; here a set of natural      *)
(* numbers takes its place, with the least of those where a claim fails.   *)

\* A set of natural numbers that is not empty has a least element: induction,
\* in the form that needs no operator as a parameter.
LEMMA Least ==
    ASSUME NEW T \in SUBSET Nat, T # {}
    PROVE  \E n \in T : \A m \in T : n <= m
<1> DEFINE R == OpToRel(<, Nat)
<1>1. IsWellFoundedOn(R, Nat)
  BY NatLessThanWellFounded
<1>2. \E x \in T : \A y \in T : <<y, x>> \notin R
  <2> HIDE DEF R
  <2> QED
    BY <1>1, WFMin
<1>3. ASSUME NEW x \in Nat, NEW y \in Nat, <<y, x>> \notin R PROVE x <= y
  BY <1>3 DEF OpToRel
<1> HIDE DEF R
<1> QED
  BY <1>2, <1>3

\* f goes from base through V, one step at a time, to n.
Iterates(f, n, V, base, step) ==
    /\ f \in [0 .. n -> V]
    /\ f[0] = base
    /\ \A i \in 1 .. n : f[i] = step[i][f[i - 1]]

\* A function defined step by step exists.
LEMMA Recursion ==
    ASSUME NEW n \in Nat, NEW V, NEW base \in V, NEW step \in [1 .. n -> [V -> V]]
    PROVE  \E f : Iterates(f, n, V, base, step)
<1> DEFINE Upto(k, f) == f \in [0 .. k -> V] /\ f[0] = base /\ \A i \in 1 .. k : f[i] = step[i][f[i - 1]]
           Bad == {k \in 0 .. n : ~ \E f : Upto(k, f)}
<1>1. ASSUME Bad # {} PROVE FALSE
  <2>1. PICK k \in Bad : \A m \in Bad : k <= m
    <3> Bad \in SUBSET Nat
      OBVIOUS
    <3> HIDE DEF Bad
    <3> QED
      BY <1>1, Least
  <2>2. k # 0
    <3>1. Upto(0, [i \in 0 .. 0 |-> base])
      OBVIOUS
    <3>2. 0 \in 0 .. n /\ (\E f : Upto(0, f)) => 0 \notin Bad
      OBVIOUS
    <3> HIDE DEF Upto, Bad
    <3>3. \E f : Upto(0, f)
      BY <3>1
    <3> QED
      BY <2>1, <3>2, <3>3
  <2>3. k - 1 \in 0 .. n /\ k - 1 \notin Bad
    BY <2>1, <2>2
  <2>4. PICK f : Upto(k - 1, f)
    BY <2>3
  <2>5. Upto(k, [i \in 0 .. k |-> IF i = k THEN step[k][f[k - 1]] ELSE f[i]])
    <3> DEFINE g == [i \in 0 .. k |-> IF i = k THEN step[k][f[k - 1]] ELSE f[i]]
    <3>1. k \in 1 .. n /\ step[k] \in [V -> V] /\ f[k - 1] \in V
      BY <2>1, <2>2, <2>4
    <3>2. g \in [0 .. k -> V]
      BY <2>4, <3>1
    <3>3. g[0] = base
      BY <2>4, <2>2, <3>1
    <3>4. ASSUME NEW i \in 1 .. k PROVE g[i] = step[i][g[i - 1]]
      BY <2>4, <3>1
    <3> HIDE DEF g
    <3> QED
      BY <3>2, <3>3, <3>4
  <2> QED
    BY <2>1, <2>5
<1> QED
  <2>1. n \notin Bad
    BY <1>1
  <2> QED
    BY <2>1 DEF Iterates

\* Induction along an interval.
LEMMA Induction ==
    ASSUME NEW n \in Nat, NEW T, 0 \in T, \A i \in 1 .. n : i - 1 \in T => i \in T
    PROVE  \A i \in 0 .. n : i \in T
<1> DEFINE Bad == {i \in 0 .. n : i \notin T}
<1>1. ASSUME Bad # {} PROVE FALSE
  <2>1. PICK k \in Bad : \A m \in Bad : k <= m
    <3> Bad \in SUBSET Nat
      OBVIOUS
    <3> HIDE DEF Bad
    <3> QED
      BY <1>1, Least
  <2>2. k \in 1 .. n /\ k - 1 \notin Bad
    BY <2>1
  <2> QED
    BY <2>1, <2>2
<1> QED
  BY <1>1

---------------------------------------------------------------------------
(* Loops.                                                                  *)

\* f goes step by step from v through the sets W to n.
Staged(f, n, W, v, step) ==
    /\ f = [i \in 0 .. n |-> f[i]]
    /\ f[0] = v
    /\ \A i \in 1 .. n : f[i] = step[i][f[i - 1]] /\ f[i - 1] \in W[i - 1]
    /\ f[n] \in W[n]

\* A function defined step by step whose values stay in a set of each step exists.
LEMMA StagedRecursion ==
    ASSUME NEW n \in Nat, NEW W, NEW v \in W[0], NEW step,
           \A i \in 1 .. n : \A x \in W[i - 1] : step[i][x] \in W[i]
    PROVE  \E f : Staged(f, n, W, v, step)
<1> DEFINE V == UNION {W[i] : i \in 0 .. n}
           Turn(x, i) == IF x \in W[i - 1] THEN step[i][x] ELSE v
           total == [i \in 1 .. n |-> [x \in V |-> Turn(x, i)]]
<1>1. 0 \in 0 .. n /\ n \in 0 .. n /\ \A i \in 1 .. n : i - 1 \in 0 .. n /\ i \in 0 .. n 
  OBVIOUS
<1>2. v \in V
  BY <1>1
<1>3. total \in [1 .. n -> [V -> V]]
  BY <1>1, <1>2
<1>4. PICK f : Iterates(f, n, V, v, total)
  <2> HIDE DEF V, total
  <2> QED
    BY <1>2, <1>3, Recursion
<1>5. f \in [0 .. n -> V] /\ f[0] = v /\ \A i \in 1 .. n : f[i] = Turn(f[i - 1], i)
  <2>1. f \in [0 .. n -> V] /\ f[0] = v /\ \A i \in 1 .. n : f[i] = total[i][f[i - 1]]
    BY <1>4 DEF Iterates
  <2>2. \A i \in 1 .. n : f[i - 1] \in V
    BY <1>1, <2>1
  <2> HIDE DEF V, Turn
  <2> QED
    BY <2>1, <2>2
<1>6. \A i \in 0 .. n : f[i] \in W[i]
  <2> DEFINE T == {i \in 0 .. n : f[i] \in W[i]}
  <2>1. 0 \in T /\ \A i \in 1 .. n : i - 1 \in T => i \in T
    BY <1>1, <1>5
  <2>2. \A i \in 0 .. n : i \in T
    <3> HIDE DEF T
    <3> QED
      BY <2>1, Induction
  <2> QED
    BY <2>2
<1>7. \A i \in 1 .. n : f[i] = step[i][f[i - 1]] /\ f[i - 1] \in W[i - 1]
  BY <1>1, <1>5, <1>6
<1>8. Staged(f, n, W, v, step)
  BY <1>1, <1>5, <1>6, <1>7 DEF Staged
<1> QED
  BY <1>8

\* What each step keeps holds in the end.
LEMMA StagedInduction ==
    ASSUME NEW n \in Nat, NEW W, NEW f, f[0] \in W[0],
           \A i \in 1 .. n : f[i - 1] \in W[i - 1] => f[i] \in W[i]
    PROVE  f[n] \in W[n]
<1> DEFINE T == {i \in 0 .. n : f[i] \in W[i]}
<1>1. 0 \in T /\ \A i \in 1 .. n : i - 1 \in T => i \in T
  OBVIOUS
<1>2. \A i \in 0 .. n : i \in T
  <2> HIDE DEF T
  <2> QED
    BY <1>1, Induction
<1> QED
  BY <1>2

---------------------------------------------------------------------------
(* Chains of buckets.  `nx' gives the next bucket of each of the buckets S. *)

\* No chain comes back to where it was: the buckets have ranks that fall along
\* the chains.
Acyclic(S, nx) ==
    \E rank \in [S -> Nat] : \A i \in S : nx[i] # Nil => rank[nx[i]] < rank[i]

\* A set of buckets no chain leaves.
Closed(nx, P) == \A i \in P : nx[i] # Nil => nx[i] \in P

\* The chain of bucket a passes through bucket k.
Reaches(S, nx, a, k) == \A P \in SUBSET S : a \in P /\ Closed(nx, P) => k \in P

\* Bucket i is chained behind bucket h.
Linked(nx, i, h) == [nx EXCEPT ![i] = nx[h], ![h] = i]

\* Putting a bucket that is on no chain behind the first one of a chain keeps
\* every chain and adds it to this one.
LEMMA Link ==
    ASSUME NEW S \in SUBSET Nat, NEW nx \in [S -> S \cup {Nil}], NEW i \in S, NEW h \in S, i # h,
           nx[i] = Nil, \A k \in S : nx[k] # i
    PROVE  /\ Acyclic(S, nx) => Acyclic(S, Linked(nx, i, h))
           /\ \A a, k \in S : Reaches(S, nx, a, k) => Reaches(S, Linked(nx, i, h), a, k)
           /\ Reaches(S, Linked(nx, i, h), h, i)
<1> DEFINE nx2 == Linked(nx, i, h)
<1>0. /\ nx2 \in [S -> S \cup {Nil}] /\ nx2[i] = nx[h] /\ nx2[h] = i
      /\ \A k \in S \ {i, h} : nx2[k] = nx[k]
      /\ Nil \notin S
  BY DEF Nil, Linked
<1> HIDE DEF nx2
<1>1. ASSUME Acyclic(S, nx) PROVE Acyclic(S, nx2)
  <2>1. PICK rank \in [S -> Nat] : \A k \in S : nx[k] # Nil => rank[nx[k]] < rank[k]
    BY <1>1 DEF Acyclic
  <2> DEFINE new == [k \in S |-> IF k = i THEN 2 * rank[h] + 1 ELSE 2 * rank[k] + 2]
  <2>a. \A k \in S : rank[k] \in Nat
    BY <2>1
  <2>2. new \in [S -> Nat]
    <3>1. ASSUME NEW k \in S PROVE (IF k = i THEN 2 * rank[h] + 1 ELSE 2 * rank[k] + 2) \in Nat
      BY <2>a
    <3> QED
      BY <3>1
  <2>b. new[i] = 2 * rank[h] + 1 /\ \A k \in S : k # i => new[k] = 2 * rank[k] + 2
    OBVIOUS
  <2>c. \A x, y \in Nat : x < y => 2 * x + 2 < 2 * y + 1 /\ 2 * x + 2 < 2 * y + 2
    OBVIOUS
  <2> HIDE DEF new
  <2>3. ASSUME NEW k \in S, nx2[k] # Nil PROVE new[nx2[k]] < new[k]
    <3>1. CASE k = h
      BY <1>0, <2>a, <2>b, <3>1
    <3>2. CASE k = i
      <4>1. nx[h] \in S /\ nx[h] # i /\ rank[nx[h]] < rank[h]
        BY <1>0, <2>1, <2>3, <3>2
      <4>2. new[nx2[k]] = 2 * rank[nx[h]] + 2
        BY <1>0, <2>b, <3>2, <4>1
      <4>3. new[k] = 2 * rank[h] + 1
        BY <2>b, <3>2
      <4> QED
        BY <2>a, <2>c, <4>1, <4>2, <4>3
    <3>3. CASE k \notin {i, h}
      <4>1. nx2[k] = nx[k] /\ nx[k] \in S /\ nx[k] # i /\ rank[nx[k]] < rank[k]
        BY <1>0, <2>1, <2>3, <3>3
      <4>2. new[nx2[k]] = 2 * rank[nx[k]] + 2 /\ new[k] = 2 * rank[k] + 2
        BY <2>b, <3>3, <4>1
      <4>3. 2 * rank[nx[k]] + 2 < 2 * rank[k] + 2
        BY <2>a, <2>c, <4>1
      <4> QED
        BY <4>2, <4>3
    <3> QED
      BY <3>1, <3>2, <3>3
  <2> QED
    BY <2>2, <2>3 DEF Acyclic
<1>2. ASSUME NEW P \in SUBSET S, Closed(nx2, P) PROVE Closed(nx, P)
  BY <1>0, <1>2 DEF Closed
<1>3. Reaches(S, nx2, h, i)
  BY <1>0 DEF Reaches, Closed
<1> QED
  BY <1>1, <1>2, <1>3 DEF Reaches, nx2

---------------------------------------------------------------------------
(* Arrays of buckets.  `c' is the capacity, `f' the hash function.         *)

Slots(c) == 0 .. c - 1

Full(c, b) == {i \in Slots(c) : b[i].ref # NoRef}

HomeOf(f, c, r) == f[r] % c

Links(c, b) == [i \in Slots(c) |-> b[i].next]

\* What holds of the buckets in every state.
Array(c, b) ==
    /\ b \in [Slots(c) -> Bucket]
    /\ \A i \in Slots(c) :
          /\ b[i].next \in Slots(c) \cup {Nil}
          /\ b[i].owner = NoThread <=> b[i].count = 0

\* No two buckets have the monitor of one object.
Distinct(c, b) == \A i, j \in Full(c, b) : b[i].ref = b[j].ref => i = j

\* A free bucket is owned by nobody and is on no chain.
FreeIsFree(c, b) ==
    \A i \in Slots(c) : b[i].ref = NoRef => b[i].next = Nil /\ b[i].owner = NoThread
OffChain(c, b) == \A i \in Slots(c) : b[i].next # Nil => b[b[i].next].ref # NoRef

\* What holds of the buckets until a collection has met a coalesced table.
Good(f, c, b) ==
    /\ Array(c, b) /\ Distinct(c, b) /\ FreeIsFree(c, b) /\ OffChain(c, b)
    /\ Acyclic(Slots(c), Links(c, b))
    /\ \A i \in Full(c, b) : Reaches(Slots(c), Links(c, b), HomeOf(f, c, b[i].ref), i)

Hashes == [Ref -> Nat]

\* The home of an object is one of the buckets.
LEMMA HomeSlot ==
    ASSUME NEW f \in Hashes, NEW c \in Nat \ {0}, NEW r \in Ref
    PROVE  HomeOf(f, c, r) \in Slots(c)
BY DEF HomeOf, Hashes, Slots

---------------------------------------------------------------------------
(* Looking up.                                                             *)

\* after[n] leads from each bucket as far as n steps of a lookup do.
Turns(tab, stop, after) ==
    LET c == tab.capacity
        b == tab.buckets
    IN /\ after \in [0 .. c -> [Slots(c) \cup {Nil} -> Slots(c) \cup {Nil}]]
       /\ \A n \in 0 .. c : after[n][Nil] = Nil
       /\ \A i \in Slots(c) : after[0][i] = i
       /\ \A n \in 1 .. c, i \in Slots(c) :
             after[n][i] = IF b[i].ref \in stop THEN i ELSE after[n - 1][b[i].next]

\* The recursion of a lookup has a result.
LEMMA WalkTurns ==
    ASSUME NEW tab, NEW stop, tab.capacity \in Nat \ {0}, Array(tab.capacity, tab.buckets)
    PROVE  \E after : /\ Turns(tab, stop, after)
                      /\ \A h : Walk(tab, h, stop) = after[tab.capacity][h]
<1> DEFINE c == tab.capacity
           b == tab.buckets
           V == Nil .. c - 1
           F == [V -> V]
           Turn(g, n) == [i \in V |-> IF i = Nil \/ n = 0 THEN i
                                      ELSE IF b[i].ref \in stop THEN i ELSE g[b[i].next]]
           Def(g) == g = [n \in 0 .. c |->
                           [i \in V |-> IF i = Nil \/ n = 0 THEN i
                                        ELSE IF b[i].ref \in stop THEN i ELSE g[n - 1][b[i].next]]]
           after == CHOOSE g : Def(g)
           base == [i \in V |-> i]
           step == [n \in 1 .. c |-> [g \in F |-> Turn(g, n)]]
<1>1. c \in Nat /\ V = Slots(c) \cup {Nil} /\ \A i \in V : i # Nil => b[i].next \in V
  BY DEF Array, Slots, Nil
<1>2. ASSUME NEW g \in F, NEW n PROVE Turn(g, n) \in F
  BY <1>1
<1>3. base \in F /\ step \in [1 .. c -> [F -> F]]
  BY <1>2
<1>4. PICK g : Iterates(g, c, F, base, step)
  <2> HIDE DEF base, step, F, c
  <2> QED
    BY <1>1, <1>3, Recursion
<1>5. Def(g)
  <2>1. g \in [0 .. c -> F] /\ g[0] = base /\ \A n \in 1 .. c : g[n] = step[n][g[n - 1]]
    BY <1>4 DEF Iterates
  <2>2. ASSUME NEW n \in 0 .. c PROVE g[n] = Turn(g[n - 1], n)
    <3>1. CASE n = 0
      BY <2>1, <3>1
    <3>2. CASE n # 0
      <4>1. n \in 1 .. c /\ n - 1 \in 0 .. c
        BY <1>1, <3>2
      <4>2. g[n - 1] \in F
        BY <2>1, <4>1
      <4> HIDE DEF F, Turn
      <4> QED
        BY <2>1, <4>1, <4>2
    <3> QED
      BY <3>1, <3>2
  <2>3. g = [n \in 0 .. c |-> g[n]]
    BY <2>1
  <2>4. g = [n \in 0 .. c |-> Turn(g[n - 1], n)]
    <3> HIDE DEF Turn
    <3> QED
      BY <2>2, <2>3
  <2> QED
    BY <2>4
<1>6. Def(after)
  <2> HIDE DEF Def
  <2> QED
    BY <1>5
<1>7. \A h : Walk(tab, h, stop) = after[c][h]
  BY DEF Walk
<1> HIDE DEF after, c, b
<1>8. \A n \in 0 .. c : after[n] = Turn(after[n - 1], n)
  BY <1>6
<1>a. 0 \in 0 .. c /\ \A n \in 1 .. c : n \in 0 .. c /\ n # 0
  BY <1>1
<1>b. \A i \in Slots(c) : i \in V /\ i # Nil
  BY DEF Slots, Nil
<1>c. \A v, n : \A i \in V : Turn(v, n)[i] = IF i = Nil \/ n = 0 THEN i
                                        ELSE IF b[i].ref \in stop THEN i ELSE v[b[i].next]
  <2> HIDE DEF V
  <2> QED
    OBVIOUS
<1>9. after \in [0 .. c -> F]
  <2> DEFINE T == {n \in 0 .. c : after[n] \in F}
  <2>1. 0 \in T
    <3>1. after[0] = base
      BY <1>8, <1>a
    <3> HIDE DEF base, F
    <3> QED
      BY <1>3, <1>a, <3>1
  <2>2. ASSUME NEW n \in 1 .. c, n - 1 \in T PROVE n \in T
    <3>1. n \in 0 .. c /\ after[n - 1] \in F
      BY <1>1, <2>2
    <3> HIDE DEF Turn, F
    <3> QED
      BY <1>2, <1>8, <3>1
  <2>3. \A n \in 0 .. c : n \in T
    <3> HIDE DEF T
    <3> QED
      BY <1>1, <2>1, <2>2, Induction
  <2>4. after = [n \in 0 .. c |-> after[n]]
    BY <1>6
  <2> HIDE DEF F
  <2> QED
    BY <2>3, <2>4
<1> HIDE DEF Turn
<1>10. \A n \in 0 .. c : after[n][Nil] = Nil
  <2>1. Nil \in V
    BY <1>1
  <2> HIDE DEF V
  <2> QED
    BY <1>8, <1>c, <2>1
<1>11. \A i \in Slots(c) : after[0][i] = i
  BY <1>8, <1>a, <1>b, <1>c
<1>12. \A n \in 1 .. c, i \in Slots(c) :
          after[n][i] = IF b[i].ref \in stop THEN i ELSE after[n - 1][b[i].next]
  BY <1>8, <1>a, <1>b, <1>c
<1>13. after \in [0 .. c -> [Slots(c) \cup {Nil} -> Slots(c) \cup {Nil}]]
  BY <1>1, <1>9
<1> QED
  BY <1>7, <1>10, <1>11, <1>12, <1>13 DEF Turns, c, b

\* A lookup that stops nowhere ends: the ranks fall, and there are as many of them
\* at most as buckets.
LEMMA WalkStops ==
    ASSUME NEW tab, NEW stop, tab.capacity \in Nat \ {0}, Array(tab.capacity, tab.buckets),
           Acyclic(Slots(tab.capacity), Links(tab.capacity, tab.buckets)),
           NEW h \in Slots(tab.capacity)
    PROVE  /\ Walk(tab, h, stop) \in Slots(tab.capacity) \cup {Nil}
           /\ Walk(tab, h, stop) # Nil => tab.buckets[Walk(tab, h, stop)].ref \in stop
<1> DEFINE c == tab.capacity
           b == tab.buckets
           S == Slots(c)
<1>0. PICK after : Turns(tab, stop, after) /\ \A k : Walk(tab, k, stop) = after[c][k]
  BY WalkTurns
<1>1. /\ after \in [0 .. c -> [S \cup {Nil} -> S \cup {Nil}]]
      /\ \A k : Walk(tab, k, stop) = after[c][k]
      /\ \A n \in 0 .. c : after[n][Nil] = Nil
      /\ \A i \in S : after[0][i] = i
      /\ \A n \in 1 .. c, i \in S :
            after[n][i] = IF b[i].ref \in stop THEN i ELSE after[n - 1][b[i].next]
  BY <1>0 DEF Turns
<1> HIDE DEF b
<1>2. PICK rank \in [S -> Nat] : \A i \in S : b[i].next # Nil => rank[b[i].next] < rank[i]
  BY DEF Acyclic, Links, b
<1>3. /\ c \in Nat \ {0} /\ \A i \in S : b[i].next \in S \cup {Nil}
      /\ Nil \notin S /\ IsFiniteSet(S) /\ Cardinality(S) = c
  <2>1. IsFiniteSet(0 .. c - 1) /\ Cardinality(0 .. c - 1) = c
    <3> HIDE DEF c
    <3>1. ASSUME NEW d \in Nat PROVE IsFiniteSet(0 .. d) /\ Cardinality(0 .. d) = d + 1
      <4>1. /\ IsFiniteSet(0 .. d)
            /\ Cardinality(0 .. d) = IF 0 > d THEN 0 ELSE d - 0 + 1
        BY FS_Interval
      <4> QED
        BY <4>1
    <3>2. c \in Nat \ {0}
      BY DEF c
    <3>3. c - 1 \in Nat /\ (c - 1) + 1 = c
      BY <3>2
    <3> QED
      BY <3>1, <3>3
  <2> QED
    BY <2>1 DEF Array, Slots, Nil, b
<1> HIDE DEF S, c
<1> DEFINE Under(i) == {k \in S : rank[k] < rank[i]}
           Fine(n) == \A i \in S : Cardinality(Under(i)) < n /\ after[n][i] # Nil
                                     => b[after[n][i]].ref \in stop
<1>4. ASSUME NEW i \in S PROVE IsFiniteSet(Under(i)) /\ Cardinality(Under(i)) \in Nat
                               /\ Cardinality(Under(i)) < c
  <2>1. Under(i) \subseteq S \ {i}
    BY <1>2
  <2>2. IsFiniteSet(S \ {i}) /\ Cardinality(S \ {i}) = c - 1
    BY <1>3, FS_RemoveElement
  <2>3. IsFiniteSet(Under(i)) /\ Cardinality(Under(i)) <= c - 1
    <3> HIDE DEF Under
    <3> QED
      BY <2>1, <2>2, FS_Subset
  <2>4. Cardinality(Under(i)) \in Nat
    BY <2>3, FS_CardinalityType
  <2> QED
    BY <1>3, <2>3, <2>4
<1>5. ASSUME NEW i \in S, NEW k \in S, rank[k] < rank[i]
      PROVE  Cardinality(Under(k)) < Cardinality(Under(i))
  <2>1. Under(k) \subseteq Under(i) \ {k}
    BY <1>2, <1>5
  <2>2. k \in Under(i)
    BY <1>5
  <2>3. IsFiniteSet(Under(i) \ {k}) /\ Cardinality(Under(i) \ {k}) = Cardinality(Under(i)) - 1
    <3> HIDE DEF Under
    <3> QED
      BY <1>4, <2>2, FS_RemoveElement
  <2>4. Cardinality(Under(k)) <= Cardinality(Under(i)) - 1
    <3> HIDE DEF Under
    <3> QED
      BY <2>1, <2>3, FS_Subset
  <2> HIDE DEF Under
  <2> QED
    BY <1>4, <2>4
<1> HIDE DEF Under
<1>6. Fine(0)
  BY <1>4
<1>7. ASSUME NEW n \in 1 .. c, Fine(n - 1) PROVE Fine(n)
  <2> SUFFICES ASSUME NEW i \in S, Cardinality(Under(i)) < n, after[n][i] # Nil
               PROVE  b[after[n][i]].ref \in stop
    OBVIOUS
  <2>1. CASE b[i].ref \in stop
    BY <1>1, <2>1
  <2>2. CASE b[i].ref \notin stop
    <3>1. after[n][i] = after[n - 1][b[i].next] /\ n - 1 \in 0 .. c
      BY <1>1, <1>3, <2>2
    <3>2. b[i].next \in S /\ rank[b[i].next] < rank[i]
      BY <1>1, <1>2, <1>3, <3>1
    <3>3. Cardinality(Under(b[i].next)) < n - 1
      BY <1>3, <1>4, <1>5, <3>2
    <3> QED
      BY <1>7, <3>1, <3>2, <3>3
  <2> QED
    BY <2>1, <2>2
<1>8. Fine(c)
  <2> DEFINE T == {n \in 0 .. c : Fine(n)}
  <2>1. 0 \in T /\ \A n \in 1 .. c : n - 1 \in T => n \in T
    <3> HIDE DEF Fine
    <3> QED
      BY <1>3, <1>6, <1>7
  <2>2. \A n \in 0 .. c : n \in T
    <3> HIDE DEF T
    <3> QED
      BY <1>3, <2>1, Induction
  <2> QED
    BY <1>3, <2>2
<1>9. h \in S /\ after[c][h] \in S \cup {Nil}
  <2>1. h \in S
    BY DEF S, c
  <2> QED
    BY <1>1, <1>3, <2>1
<1>10. Walk(tab, h, stop) = after[c][h]
  BY <1>1
<1> QED
  BY <1>4, <1>8, <1>9, <1>10 DEF S, c, b

\* A lookup that ends without stopping has been through its whole chain.
LEMMA WalkMisses ==
    ASSUME NEW tab, NEW stop, tab.capacity \in Nat \ {0}, Array(tab.capacity, tab.buckets),
           NEW h \in Slots(tab.capacity), Walk(tab, h, stop) = Nil,
           NEW i, Reaches(Slots(tab.capacity), Links(tab.capacity, tab.buckets), h, i)
    PROVE  tab.buckets[i].ref \notin stop
<1> DEFINE c == tab.capacity
           b == tab.buckets
           S == Slots(c)
           nx == Links(c, b)
<1>0. PICK after : Turns(tab, stop, after) /\ \A k : Walk(tab, k, stop) = after[c][k]
  BY WalkTurns
<1>1. /\ after \in [0 .. c -> [S \cup {Nil} -> S \cup {Nil}]]
      /\ \A k : Walk(tab, k, stop) = after[c][k]
      /\ \A n \in 0 .. c : after[n][Nil] = Nil
      /\ \A k \in S : after[0][k] = k
      /\ \A n \in 1 .. c, k \in S :
            after[n][k] = IF b[k].ref \in stop THEN k ELSE after[n - 1][b[k].next]
  BY <1>0 DEF Turns
<1>2. c \in Nat /\ Nil \notin S /\ \A k \in S : nx[k] = b[k].next /\ b[k].next \in S \cup {Nil}
  BY DEF Array, Links, Slots, Nil
<1>3. h \in S /\ after[c][h] = Nil /\ Reaches(S, nx, h, i)
  BY <1>1
<1> HIDE DEF c, b, S, nx
<1> DEFINE Passed(k, P) == P \in SUBSET S /\ k \in P /\ Closed(nx, P) /\ \A q \in P : b[q].ref \notin stop
           Fine(n) == \A k \in S : after[n][k] = Nil => \E P : Passed(k, P)
<1>4. Fine(0)
  BY <1>1, <1>2
<1>5. ASSUME NEW n \in 1 .. c, Fine(n - 1) PROVE Fine(n)
  <2> SUFFICES ASSUME NEW k \in S, after[n][k] = Nil PROVE \E P : Passed(k, P)
    OBVIOUS
  <2>1. b[k].ref \notin stop /\ after[n - 1][b[k].next] = Nil
    <3>1. after[n][k] = IF b[k].ref \in stop THEN k ELSE after[n - 1][b[k].next]
      BY <1>1
    <3>2. k # Nil
      BY <1>2
    <3> QED
      BY <3>1, <3>2
  <2>2. CASE b[k].next = Nil
    <3>1. Passed(k, {k})
      BY <1>2, <2>1, <2>2 DEF Closed
    <3> QED
      BY <3>1
  <2>3. CASE b[k].next # Nil
    <3>1. PICK P : Passed(b[k].next, P)
      BY <1>2, <1>5, <2>1, <2>3
    <3>2. Passed(k, P \cup {k})
      BY <1>2, <2>1, <3>1 DEF Closed
    <3> QED
      BY <3>2
  <2> QED
    BY <2>2, <2>3
<1>6. Fine(c)
  <2> DEFINE T == {n \in 0 .. c : Fine(n)}
  <2>1. 0 \in T /\ \A n \in 1 .. c : n - 1 \in T => n \in T
    <3> HIDE DEF Fine
    <3> QED
      BY <1>2, <1>4, <1>5
  <2>2. \A n \in 0 .. c : n \in T
    <3> HIDE DEF T
    <3> QED
      BY <1>2, <2>1, Induction
  <2> QED
    BY <1>2, <2>2
<1>7. PICK P : Passed(h, P)
  BY <1>3, <1>6
<1>8. i \in P
  BY <1>3, <1>7 DEF Reaches
<1> QED
  BY <1>7, <1>8 DEF b

---------------------------------------------------------------------------
(* Inserting.                                                              *)

Arrays == UNION {[Slots(c) -> Bucket] : c \in Nat}

Tables == [capacity : Nat \ {0}, entries : Nat, buckets : Arrays, coalesced : BOOLEAN]

\* A table as every operation leaves it.
Sound(tab) == tab \in Tables /\ Array(tab.capacity, tab.buckets)

\* What a bucket must hold to be put into a table.
Monitors == {m \in Bucket : m.ref \in Ref /\ (m.owner = NoThread <=> m.count = 0)}

\* Two buckets hold the same monitor.
SameMonitor(m, n) == m.ref = n.ref /\ m.owner = n.owner /\ m.count = n.count

\* Probing finds a free bucket when there is one.
LEMMA FreeBucketFound ==
    ASSUME NEW tab, tab.capacity \in Nat \ {0}, NEW h \in Slots(tab.capacity),
           NEW i \in Slots(tab.capacity), tab.buckets[i].ref = NoRef
    PROVE  /\ FreeBucket(tab, h) \in Slots(tab.capacity)
           /\ tab.buckets[FreeBucket(tab, h)].ref = NoRef
           /\ tab.buckets[h].ref = NoRef => FreeBucket(tab, h) = h
<1> DEFINE c == tab.capacity
           o == IF i >= h THEN i - h ELSE i - h + c
           free == {x \in 0 .. c - 1 : tab.buckets[(h + x) % c].ref = NoRef}
<1>1. c \in Nat \ {0} /\ h \in 0 .. c - 1 /\ i \in 0 .. c - 1
  BY DEF Slots
<1>2. o \in 0 .. c - 1 /\ (h + o = i \/ h + o = i + c)
  BY <1>1
<1>3. (h + o) % c = i
  <2> HIDE DEF c, o
  <2>1. i % c = i /\ (i + c) % c = i
    BY <1>1
  <2> QED
    BY <1>2, <2>1
<1>4. o \in free /\ free \in SUBSET Nat
  BY <1>2, <1>3
<1>5. Min(free) \in free /\ \A k \in free : Min(free) <= k
  <2>1. PICK n \in free : \A k \in free : n <= k
    <3> HIDE DEF free, o
    <3> QED
      BY <1>4, Least
  <2> HIDE DEF free
  <2> QED
    BY <2>1 DEF Min
<1> DEFINE first == Min(free)
<1>6. first \in Nat /\ tab.buckets[(h + first) % c].ref = NoRef /\ \A k \in free : first <= k
  BY <1>4, <1>5
<1> HIDE DEF first, c, o
<1>7. (h + first) % c \in 0 .. c - 1
  BY <1>1, <1>6
<1>8. ASSUME tab.buckets[h].ref = NoRef PROVE (h + first) % c = h
  <2>1. (h + 0) % c = h /\ 0 \in 0 .. c - 1
    BY <1>1
  <2>2. 0 \in free
    BY <1>8, <2>1
  <2>3. first = 0
    <3> HIDE DEF free
    <3> QED
      BY <1>6, <2>2
  <2> QED
    BY <2>1, <2>3
<1>9. FreeBucket(tab, h) = (h + first) % c
  BY DEF FreeBucket, first, c
<1> QED
  BY <1>6, <1>7, <1>8, <1>9 DEF Slots, c

\* The monitor m is put into bucket i and chained from its home h.
Put(b, m, i, h) ==
    IF i = h THEN [b EXCEPT ![i] = [m EXCEPT !.next = Nil]]
    ELSE [[b EXCEPT ![i] = [m EXCEPT !.next = b[h].next]] EXCEPT ![h].next = i]

\* What inserting does to the array of buckets b when i is free.
LEMMA ArrayInserted ==
    ASSUME NEW c \in Nat \ {0}, NEW b, Array(c, b), NEW m \in Monitors,
           NEW i \in Slots(c), b[i].ref = NoRef, NEW h \in Slots(c), b[h].ref = NoRef => i = h
    PROVE  /\ Array(c, Put(b, m, i, h))
           /\ \A k \in Slots(c) : SameMonitor(Put(b, m, i, h)[k], IF k = i THEN m ELSE b[k])
           /\ Full(c, Put(b, m, i, h)) = Full(c, b) \cup {i}
           /\ \A f \in Hashes :
                 Good(f, c, b) /\ h = HomeOf(f, c, m.ref) /\ (\A k \in Full(c, b) : b[k].ref # m.ref)
                 => Good(f, c, Put(b, m, i, h))
<1> DEFINE b2 == Put(b, m, i, h)
<1> HIDE DEF b2
<1> USE NullAssumption
<1>0. /\ Nil \notin Slots(c) /\ Slots(c) \in SUBSET Nat /\ Nil \in Int /\ Slots(c) \subseteq Int
      /\ m \in Bucket /\ m.ref \in Ref /\ m.ref # NoRef /\ (m.owner = NoThread <=> m.count = 0)
      /\ b \in [Slots(c) -> Bucket]
      /\ \A k \in Slots(c) : b[k].next \in Slots(c) \cup {Nil} /\ (b[k].owner = NoThread <=> b[k].count = 0)
  BY DEF Array, Monitors, Slots, Nil
<1>1. ASSUME NEW x \in Bucket, NEW n \in Slots(c) \cup {Nil}
      PROVE  /\ [x EXCEPT !.next = n] \in Bucket
             /\ [x EXCEPT !.next = n].next = n /\ SameMonitor([x EXCEPT !.next = n], x)
  BY <1>0 DEF Bucket, SameMonitor
<1>2. /\ b2 \in [Slots(c) -> Bucket]
      /\ \A k \in Slots(c) : SameMonitor(b2[k], IF k = i THEN m ELSE b[k])
      /\ \A k \in Slots(c) \ {i, h} : b2[k].next = b[k].next
      /\ b2[i].next = IF i = h THEN Nil ELSE b[h].next
      /\ i # h => b2[h].next = i
  <2>1. CASE i = h
    <3>1. b2 = [b EXCEPT ![i] = [m EXCEPT !.next = Nil]]
      BY <2>1 DEF b2, Put
    <3> QED
      BY <1>0, <1>1, <2>1, <3>1 DEF SameMonitor
  <2>2. CASE i # h
    <3> DEFINE m2 == [m EXCEPT !.next = b[h].next]
               h2 == [b[h] EXCEPT !.next = i]
    <3>1. b2 = [[b EXCEPT ![i] = m2] EXCEPT ![h] = h2]
      BY <1>0, <2>2 DEF b2, Put
    <3>2. /\ m2 \in Bucket /\ m2.next = b[h].next /\ SameMonitor(m2, m)
          /\ h2 \in Bucket /\ h2.next = i /\ SameMonitor(h2, b[h])
      BY <1>0, <1>1
    <3> HIDE DEF m2, h2
    <3>3. b2[i] = m2 /\ b2[h] = h2 /\ b2 \in [Slots(c) -> Bucket]
          /\ \A k \in Slots(c) \ {i, h} : b2[k] = b[k]
      BY <1>0, <2>2, <3>1, <3>2
    <3> QED
      BY <2>2, <3>2, <3>3 DEF SameMonitor
  <2> QED
    BY <2>1, <2>2
<1>3. Array(c, b2)
  BY <1>0, <1>2 DEF Array, SameMonitor
<1>4. Full(c, b2) = Full(c, b) \cup {i}
  BY <1>0, <1>2 DEF Full, SameMonitor
<1>5. ASSUME NEW f \in Hashes, Good(f, c, b), h = HomeOf(f, c, m.ref), \A k \in Full(c, b) : b[k].ref # m.ref
      PROVE  Good(f, c, b2)
  <2>1. /\ Distinct(c, b) /\ FreeIsFree(c, b) /\ OffChain(c, b)
        /\ Acyclic(Slots(c), Links(c, b))
        /\ \A k \in Full(c, b) : Reaches(Slots(c), Links(c, b), HomeOf(f, c, b[k].ref), k)
    BY <1>5 DEF Good
  <2>2. b[i].next = Nil /\ i \notin Full(c, b) /\ \A k \in Slots(c) : b[k].next # i
    BY <1>0, <2>1 DEF FreeIsFree, OffChain, Full
  <2>3. Distinct(c, b2)
    BY <1>2, <1>4, <1>5, <2>1, <2>2 DEF Distinct, SameMonitor, Full
  <2>4. FreeIsFree(c, b2)
    <3> SUFFICES ASSUME NEW k \in Slots(c), b2[k].ref = NoRef
                 PROVE  b2[k].next = Nil /\ b2[k].owner = NoThread
      BY DEF FreeIsFree
    <3>1. k # i /\ b[k].ref = NoRef /\ b2[k].owner = b[k].owner
      BY <1>0, <1>2 DEF SameMonitor
    <3>2. k # h
      BY <3>1
    <3> QED
      BY <1>2, <2>1, <3>1, <3>2 DEF FreeIsFree
  <2>5. OffChain(c, b2)
    BY <1>0, <1>2, <2>1, <2>2 DEF OffChain, SameMonitor
  <2> DEFINE nx == Links(c, b)
             nx2 == Links(c, b2)
  <2>6. /\ nx \in [Slots(c) -> Slots(c) \cup {Nil}] /\ nx[i] = Nil
        /\ \A k \in Slots(c) : nx[k] # i
    BY <1>0, <2>2 DEF Links
  <2>7. CASE i = h
    <3>1. nx2 = nx
      BY <1>0, <1>2, <2>2, <2>7 DEF Links
    <3>2. ASSUME NEW k \in Full(c, b2)
          PROVE  Reaches(Slots(c), nx, HomeOf(f, c, b2[k].ref), k)
      <4>1. CASE k = i
        BY <1>2, <1>5, <2>7, <4>1 DEF Reaches, SameMonitor
      <4>2. CASE k # i
        BY <1>2, <1>4, <2>1, <4>2 DEF SameMonitor, Full
      <4> QED
        BY <4>1, <4>2
    <3> QED
      BY <1>3, <2>1, <2>3, <2>4, <2>5, <3>1, <3>2 DEF Good
  <2>8. CASE i # h
    <3>1. nx2 = Linked(nx, i, h)
      BY <1>0, <1>2, <2>8 DEF Links, Linked
    <3>2. /\ Acyclic(Slots(c), nx) => Acyclic(Slots(c), nx2)
          /\ \A a, k \in Slots(c) : Reaches(Slots(c), nx, a, k) => Reaches(Slots(c), nx2, a, k)
          /\ Reaches(Slots(c), nx2, h, i)
      <4> HIDE DEF nx, nx2
      <4> QED
        <5>1. Slots(c) \in SUBSET Nat
          BY <1>0
        <5> QED
          BY <2>6, <2>8, <3>1, <5>1, Link
    <3> HIDE DEF nx2
    <3>3. ASSUME NEW k \in Full(c, b2)
          PROVE  Reaches(Slots(c), nx2, HomeOf(f, c, b2[k].ref), k)
      <4>1. CASE k = i
        BY <1>2, <1>5, <3>2, <4>1 DEF SameMonitor
      <4>2. CASE k # i
        <5>1. k \in Full(c, b) /\ b2[k].ref = b[k].ref /\ k \in Slots(c)
          BY <1>2, <1>4, <4>2 DEF SameMonitor, Full
        <5>2. HomeOf(f, c, b[k].ref) \in Slots(c)
          BY <1>0, <1>5, <5>1, HomeSlot DEF Bucket, Full
        <5> QED
          BY <2>1, <3>2, <5>1, <5>2
      <4> QED
        BY <4>1, <4>2
    <3> QED
      BY <1>3, <2>1, <2>3, <2>4, <2>5, <3>2, <3>3 DEF Good, nx2
  <2> QED
    BY <2>7, <2>8
<1> QED
  BY <1>2, <1>3, <1>4, <1>5 DEF b2

\* The monitors of an array of buckets.
Items(c, b) == {<<b[i].ref, b[i].owner, b[i].count>> : i \in Full(c, b)}

\* There are finitely many buckets.
LEMMA FullFinite ==
    ASSUME NEW c \in Nat, NEW b
    PROVE  IsFiniteSet(Full(c, b)) /\ Cardinality(Full(c, b)) \in Nat
           /\ (Cardinality(Full(c, b)) < c => \E i \in Slots(c) : b[i].ref = NoRef)
<1>1. IsFiniteSet(Slots(c)) /\ Cardinality(Slots(c)) = c
  <2>1. CASE c = 0
    <3>1. Slots(c) = {}
      BY <2>1 DEF Slots
    <3> QED
      BY <2>1, <3>1, FS_EmptySet
  <2>2. CASE c # 0
    <3>1. c - 1 \in Nat /\ (c - 1) + 1 = c
      BY <2>2
    <3>2. ASSUME NEW d \in Nat PROVE IsFiniteSet(0 .. d) /\ Cardinality(0 .. d) = d + 1
      <4>1. /\ IsFiniteSet(0 .. d)
            /\ Cardinality(0 .. d) = IF 0 > d THEN 0 ELSE d - 0 + 1
        BY FS_Interval
      <4> QED
        BY <4>1
    <3> QED
      BY <3>1, <3>2 DEF Slots
  <2> QED
    BY <2>1, <2>2
<1>2. Full(c, b) \subseteq Slots(c)
  BY DEF Full
<1>3. IsFiniteSet(Full(c, b)) /\ Cardinality(Full(c, b)) \in Nat
  BY <1>1, <1>2, FS_Subset, FS_CardinalityType
<1>4. ASSUME \A i \in Slots(c) : b[i].ref # NoRef PROVE Full(c, b) = Slots(c)
  BY <1>4 DEF Full
<1> QED
  BY <1>1, <1>3, <1>4

\* Insert() puts the monitor into the table and keeps the others.
LEMMA Inserted ==
    ASSUME hash \in Hashes, NEW tab, Sound(tab), NEW m \in Monitors,
           Cardinality(Full(tab.capacity, tab.buckets)) < tab.capacity,
           NEW q, q = Insert(tab, m)
    PROVE  /\ Sound(q)
           /\ q.capacity = tab.capacity /\ q.entries = tab.entries /\ q.coalesced = tab.coalesced
           /\ Cardinality(Full(q.capacity, q.buckets))
                 = Cardinality(Full(tab.capacity, tab.buckets)) + 1
           /\ Items(q.capacity, q.buckets)
                 = Items(tab.capacity, tab.buckets) \cup {<<m.ref, m.owner, m.count>>}
           /\ /\ Good(hash, tab.capacity, tab.buckets)
              /\ \A k \in Full(tab.capacity, tab.buckets) : tab.buckets[k].ref # m.ref
              => Good(hash, q.capacity, q.buckets)
<1> DEFINE c == tab.capacity
           b == tab.buckets
           h == Home(tab, m.ref)
           i == FreeBucket(tab, h)
           b2 == Put(b, m, i, h)
<1>1. tab \in Tables /\ c \in Nat \ {0} /\ Array(c, b) /\ m.ref \in Ref
  BY DEF Sound, Tables, Monitors
<1>2. h = HomeOf(hash, c, m.ref) /\ h \in Slots(c)
  BY <1>1, HomeSlot DEF Home, HomeOf
<1>3. \E k \in Slots(c) : b[k].ref = NoRef
  BY <1>1, FullFinite
<1>4. i \in Slots(c) /\ b[i].ref = NoRef /\ (b[h].ref = NoRef => i = h)
  <2> HIDE DEF h
  <2> QED
    BY <1>1, <1>2, <1>3, FreeBucketFound
<1>5. q = [tab EXCEPT !.buckets = b2]
  BY DEF Insert, Put
<1> HIDE DEF h, i
<1>6. /\ Array(c, b2)
      /\ \A k \in Slots(c) : SameMonitor(b2[k], IF k = i THEN m ELSE b[k])
      /\ Full(c, b2) = Full(c, b) \cup {i}
      /\ \A f \in Hashes :
            Good(f, c, b) /\ h = HomeOf(f, c, m.ref) /\ (\A k \in Full(c, b) : b[k].ref # m.ref)
            => Good(f, c, b2)
  <2> HIDE DEF b, c
  <2> QED
    BY <1>1, <1>2, <1>4, ArrayInserted
<1> HIDE DEF b2
<1>7. q.capacity = c /\ q.entries = tab.entries /\ q.coalesced = tab.coalesced /\ q.buckets = b2
      /\ q \in Tables
  <2>1. b2 \in Arrays
    BY <1>1, <1>6 DEF Array, Arrays
  <2> QED
    BY <1>1, <1>5, <2>1 DEF Tables
<1>8. Cardinality(Full(c, b2)) = Cardinality(Full(c, b)) + 1
  <2>1. i \notin Full(c, b) /\ IsFiniteSet(Full(c, b))
    BY <1>1, <1>4, FullFinite DEF Full
  <2> QED
    BY <1>6, <2>1, FS_AddElement
<1>9. Items(c, b2) = Items(c, b) \cup {<<m.ref, m.owner, m.count>>}
  <2>1. \A k \in Full(c, b) : k \in Slots(c) /\ k # i
    BY <1>4 DEF Full
  <2> QED
    BY <1>4, <1>6, <2>1 DEF Items, SameMonitor
<1> QED
  BY <1>2, <1>6, <1>7, <1>8, <1>9 DEF Sound

---------------------------------------------------------------------------
(* Purging.                                                                *)

\* No monitor that is not at home is in the home of another one.
Apart(f, c, b) ==
    \A i, j \in Full(c, b) : HomeOf(f, c, b[i].ref) # i => HomeOf(f, c, b[j].ref) # i

\* The second loop has been through the buckets before n: their monitors have a
\* home that is occupied, and no links.
Rehomed(v, n) ==
    LET c == v.capacity
        b == v.buckets
    IN /\ Distinct(c, b) /\ Apart(hash, c, b) /\ FreeIsFree(c, b)
       /\ \A k \in Slots(c) : k < n => b[k].next = Nil
       /\ \A k \in Full(c, b) : k < n => b[HomeOf(hash, c, b[k].ref)].ref # NoRef

\* A turn of the second loop keeps the table sound and its number of monitors.
\* If none was in the home of another one it keeps the monitors, too.
LEMMA RehomeTurn ==
    ASSUME hash \in Hashes, NEW v, Sound(v), NEW i \in Slots(v.capacity)
    PROVE  /\ Sound(Rehome(v, i))
           /\ Rehome(v, i).capacity = v.capacity /\ Rehome(v, i).entries = v.entries
           /\ Rehome(v, i).coalesced = v.coalesced
           /\ Cardinality(Full(v.capacity, Rehome(v, i).buckets))
                 = Cardinality(Full(v.capacity, v.buckets))
           /\ Rehomed(v, i) => /\ Rehomed(Rehome(v, i), i + 1)
                               /\ Items(v.capacity, Rehome(v, i).buckets)
                                     = Items(v.capacity, v.buckets)
<1> USE NullAssumption
<1> DEFINE c == v.capacity
           b == v.buckets
           h == HomeOf(hash, c, b[i].ref)
           e == [b[i] EXCEPT !.next = Nil]
           q == Rehome(v, i)
           b2 == q.buckets
           H(x) == HomeOf(hash, c, x)
<1>1. v \in Tables /\ c \in Nat \ {0} /\ Array(c, b) /\ i \in Slots(c)
  BY DEF Sound, Tables
<1>2. /\ b \in [Slots(c) -> Bucket] /\ Nil \notin Slots(c) /\ Nil \in Int /\ Slots(c) \subseteq Nat
      /\ \A k \in Slots(c) : /\ b[k] \in Bucket /\ b[k].ref \in Ref \cup {NoRef}
                             /\ b[k].next \in Slots(c) \cup {Nil}
                             /\ b[k].owner = NoThread <=> b[k].count = 0
  BY <1>1 DEF Array, Slots, Nil, Bucket
<1>3. \A r \in Ref : H(r) \in Slots(c)
  BY <1>1, HomeSlot
<1>4. \A k \in Slots(c) : b[k].ref # NoRef => H(b[k].ref) \in Slots(c)
  BY <1>2, <1>3
<1>5. /\ e \in Bucket /\ e.next = Nil /\ SameMonitor(e, b[i])
      /\ EmptyBucket \in Bucket /\ EmptyBucket.next = Nil /\ EmptyBucket.ref = NoRef
      /\ EmptyBucket.owner = NoThread /\ EmptyBucket.count = 0
  <2>1. b[i] \in Bucket
    BY <1>1, <1>2
  <2>2. \A x \in Bucket : [x EXCEPT !.next = Nil] \in Bucket /\ [x EXCEPT !.next = Nil].next = Nil
                          /\ SameMonitor([x EXCEPT !.next = Nil], x)
    BY <1>2 DEF Bucket, SameMonitor
  <2> QED
    BY <1>2, <2>1, <2>2 DEF Bucket, EmptyBucket
<1>6. /\ b[i].ref = NoRef => q = v
      /\ b[i].ref # NoRef /\ (i = h \/ (b[h].ref # NoRef /\ H(b[h].ref) = h))
            => q = [v EXCEPT !.buckets = [b EXCEPT ![i] = e]]
      /\ b[i].ref # NoRef /\ i # h /\ b[h].ref = NoRef
            => q = [v EXCEPT !.buckets = [[b EXCEPT ![h] = e] EXCEPT ![i] = EmptyBucket]]
      /\ b[i].ref # NoRef /\ i # h /\ b[h].ref # NoRef /\ H(b[h].ref) # h
            => q = [v EXCEPT !.buckets = [[b EXCEPT ![h] = e] EXCEPT ![i] = b[h]]]
  <2>1. Home(v, b[i].ref) = h /\ Home(v, b[h].ref) = H(b[h].ref)
    BY DEF Home, HomeOf
  <2> HIDE DEF h, H, e, b
  <2>2. /\ v.buckets = b 
        /\ [v EXCEPT !.buckets[i] = e] = [v EXCEPT !.buckets = [b EXCEPT ![i] = e]]
        /\ [v EXCEPT !.buckets[h] = e, !.buckets[i] = EmptyBucket]
              = [v EXCEPT !.buckets = [[b EXCEPT ![h] = e] EXCEPT ![i] = EmptyBucket]]
        /\ [v EXCEPT !.buckets[h] = e, !.buckets[i] = b[h]]
              = [v EXCEPT !.buckets = [[b EXCEPT ![h] = e] EXCEPT ![i] = b[h]]]
    BY <1>1 DEF Tables, b
  <2> QED
    BY <2>1, <2>2 DEF Rehome, e
<1> HIDE DEF e, q, b
<1>7. ASSUME NEW x \in [Slots(c) -> Bucket]
      PROVE  LET w == [v EXCEPT !.buckets = x]
             IN /\ w \in Tables /\ w.capacity = c /\ w.entries = v.entries
                /\ w.coalesced = v.coalesced /\ w.buckets = x
  <2>1. x \in Arrays
    BY <1>1 DEF Arrays
  <2> QED
    BY <1>1, <2>1 DEF Tables
<1> DEFINE Goal == /\ Sound(q) /\ q.capacity = c /\ q.entries = v.entries /\ q.coalesced = v.coalesced
                   /\ Cardinality(Full(c, b2)) = Cardinality(Full(c, b))
                   /\ Rehomed(v, i) => Rehomed(q, i + 1) /\ Items(c, b2) = Items(c, b)
<1>8. ASSUME Rehomed(v, i)
      PROVE  /\ Distinct(c, b) /\ Apart(hash, c, b) /\ FreeIsFree(c, b)
             /\ \A k \in Slots(c) : k < i => b[k].next = Nil
             /\ \A k \in Full(c, b) : k < i => b[H(b[k].ref)].ref # NoRef
  BY <1>8 DEF Rehomed, b
<1> SUFFICES Goal
  BY DEF b, q
<1> HIDE DEF c, h
<1>9. CASE b[i].ref = NoRef
  <2>1. q = v /\ b2 = b
    BY <1>6, <1>9 DEF b
  <2>2. ASSUME Rehomed(v, i) PROVE Rehomed(v, i + 1)
    <3>1. b[i].next = Nil /\ i \notin Full(c, b)
      BY <1>1, <1>8, <1>9, <2>2 DEF FreeIsFree, Full
    <3>2. \A k \in Slots(c) : k < i + 1 => k < i \/ k = i
      BY <1>1, <1>2
    <3> QED
      BY <1>8, <2>2, <3>1, <3>2 DEF Rehomed, Full, b, c
  <2> QED
    BY <2>1, <2>2 DEF c
<1>10. CASE b[i].ref # NoRef /\ (i = h \/ (b[h].ref # NoRef /\ H(b[h].ref) = h))
  <2>1. /\ q \in Tables /\ q.capacity = c /\ q.entries = v.entries /\ q.coalesced = v.coalesced
        /\ b2 \in [Slots(c) -> Bucket] /\ b2[i] = e /\ \A k \in Slots(c) \ {i} : b2[k] = b[k]
    <3> DEFINE x == [b EXCEPT ![i] = e]
    <3>1. x \in [Slots(c) -> Bucket] /\ x[i] = e /\ \A k \in Slots(c) \ {i} : x[k] = b[k]
      BY <1>1, <1>2, <1>5, <1>10
    <3>2. q = [v EXCEPT !.buckets = x]
      BY <1>6, <1>10
    <3> HIDE DEF x
    <3> QED
      BY <1>7, <3>1, <3>2
  <2> HIDE DEF b2
  <2>2. /\ \A k \in Slots(c) : SameMonitor(b2[k], b[k]) /\ b2[k].next \in {Nil, b[k].next}
        /\ b2[i].next = Nil
    BY <1>5, <2>1 DEF SameMonitor
  <2>3. Full(c, b2) = Full(c, b) /\ Items(c, b2) = Items(c, b) /\ Array(c, b2)
    BY <1>2, <2>1, <2>2 DEF Full, Items, Array, SameMonitor
  <2>4. ASSUME Rehomed(v, i) PROVE Rehomed(q, i + 1)
    <3>1. Distinct(c, b2) /\ Apart(hash, c, b2) /\ FreeIsFree(c, b2)
      <4>1. Distinct(c, b2)
        BY <1>8, <2>2, <2>3, <2>4 DEF Distinct, SameMonitor, Full
      <4>2. Apart(hash, c, b2)
        BY <1>8, <2>2, <2>3, <2>4 DEF Apart, SameMonitor, Full
      <4>3. FreeIsFree(c, b2)
        BY <1>8, <2>2, <2>3, <2>4 DEF FreeIsFree, SameMonitor
      <4> QED
        BY <4>1, <4>2, <4>3
    <3>2. ASSUME NEW k \in Slots(c), k < i + 1 PROVE b2[k].next = Nil
      <4>1. k < i \/ k = i
        BY <1>1, <1>2, <3>2
      <4> QED
        BY <1>8, <2>2, <2>4, <4>1
    <3>3. ASSUME NEW k \in Full(c, b2), k < i + 1 PROVE b2[H(b2[k].ref)].ref # NoRef
      <4>1. k < i \/ k = i
        BY <1>1, <1>2, <3>3 DEF Full
      <4>2. b[H(b[k].ref)].ref # NoRef
        BY <1>8, <1>10, <2>3, <2>4, <3>3, <4>1 DEF h
      <4> QED
        BY <1>4, <2>2, <2>3, <3>3, <4>2 DEF SameMonitor, Full
    <3> QED
      BY <2>1, <3>1, <3>2, <3>3 DEF Rehomed, b2
  <2> QED
    BY <2>1, <2>3, <2>4 DEF Sound, b2
<1>11. CASE b[i].ref # NoRef /\ i # h /\ b[h].ref = NoRef
  <2>0. h \in Slots(c)
    BY <1>1, <1>4, <1>11 DEF h
  <2>1. /\ q \in Tables /\ q.capacity = c /\ q.entries = v.entries /\ q.coalesced = v.coalesced
        /\ b2 \in [Slots(c) -> Bucket] /\ b2[h] = e /\ b2[i] = EmptyBucket
        /\ \A k \in Slots(c) \ {i, h} : b2[k] = b[k]
    <3> DEFINE x == [[b EXCEPT ![h] = e] EXCEPT ![i] = EmptyBucket]
    <3>1. x \in [Slots(c) -> Bucket] /\ x[h] = e /\ x[i] = EmptyBucket
          /\ \A k \in Slots(c) \ {i, h} : x[k] = b[k]
      BY <1>1, <1>2, <1>5, <1>11, <2>0
    <3>2. q = [v EXCEPT !.buckets = x]
      BY <1>6, <1>11, <2>0
    <3> HIDE DEF x
    <3> QED
      BY <1>7, <3>1, <3>2
  <2> HIDE DEF b2
  <2>2. Full(c, b2) = (Full(c, b) \ {i}) \cup {h} /\ i \in Full(c, b) /\ h \notin Full(c, b)
    BY <1>1, <1>5, <1>11, <2>0, <2>1 DEF Full, SameMonitor
  <2>3. Array(c, b2)
    BY <1>1, <1>2, <1>5, <2>0, <2>1 DEF Array, SameMonitor
  <2>4. Items(c, b2) = Items(c, b)
    <3>1. \A k \in Full(c, b) \ {i} : k \in Slots(c) \ {i, h}
      BY <2>2 DEF Full
    <3>2. \A k \in Full(c, b2) : \E l \in Full(c, b) : SameMonitor(b2[k], b[l])
      BY <1>5, <2>1, <2>2, <3>1 DEF SameMonitor
    <3>3. \A l \in Full(c, b) : \E k \in Full(c, b2) : SameMonitor(b2[k], b[l])
      BY <1>5, <2>1, <2>2, <3>1 DEF SameMonitor
    <3> QED
      BY <3>2, <3>3 DEF Items, SameMonitor
  <2>5. Cardinality(Full(c, b2)) = Cardinality(Full(c, b))
    <3>1. IsFiniteSet(Full(c, b)) /\ Cardinality(Full(c, b)) \in Nat
      BY <1>1, FullFinite
    <3>2. IsFiniteSet(Full(c, b) \ {i}) /\ Cardinality(Full(c, b) \ {i}) = Cardinality(Full(c, b)) - 1
      BY <2>2, <3>1, FS_RemoveElement
    <3>3. h \notin Full(c, b) \ {i}
      BY <2>2
    <3>4. Cardinality((Full(c, b) \ {i}) \cup {h}) = Cardinality(Full(c, b) \ {i}) + 1
      BY <3>2, <3>3, FS_AddElement
    <3> QED
      BY <2>2, <3>1, <3>2, <3>4
  <2>6. ASSUME Rehomed(v, i) PROVE Rehomed(q, i + 1)
    <3>0. /\ \A k \in Full(c, b) \ {i} : k \in Full(c, b2) /\ b2[k].ref = b[k].ref
          /\ \A k \in Full(c, b2) : k = h \/ (k \in Full(c, b) /\ k # i /\ k # h /\ b2[k].ref = b[k].ref)
          /\ b2[h].ref = b[i].ref /\ H(b[i].ref) = h
      BY <1>5, <2>1, <2>2 DEF Full, SameMonitor, h
    <3>1. Distinct(c, b2)
      BY <1>8, <2>2, <2>6, <3>0 DEF Distinct
    <3>2. Apart(hash, c, b2)
      BY <1>8, <2>2, <2>6, <3>0 DEF Apart
    <3>3. FreeIsFree(c, b2)
      BY <1>5, <1>8, <1>11, <2>1, <2>6 DEF FreeIsFree, SameMonitor
    <3>4. ASSUME NEW k \in Slots(c), k < i + 1 PROVE b2[k].next = Nil
      <4>1. k < i \/ k = i
        BY <1>1, <1>2, <3>4
      <4> QED
        BY <1>5, <1>8, <2>1, <2>6, <4>1
    <3>5. ASSUME NEW k \in Full(c, b2), k < i + 1 PROVE b2[H(b2[k].ref)].ref # NoRef
      <4>1. CASE k = h
        BY <1>11, <3>0, <4>1
      <4>2. CASE k # h
        <5>1. k \in Full(c, b) /\ k # i /\ b2[k].ref = b[k].ref /\ k < i
          BY <1>1, <1>2, <3>0, <3>5, <4>2 DEF Full
        <5>2. b[H(b[k].ref)].ref # NoRef /\ H(b[k].ref) \in Slots(c)
          BY <1>4, <1>8, <2>6, <5>1 DEF Full
        <5>3. H(b[k].ref) # i
          BY <1>8, <1>11, <2>2, <2>6, <3>0, <5>1 DEF Apart
        <5>4. H(b[k].ref) \in Full(c, b) \ {i}
          BY <5>2, <5>3 DEF Full
        <5> QED
          BY <3>0, <5>1, <5>2, <5>4
      <4> QED
        BY <4>1, <4>2
    <3> QED
      BY <2>1, <3>1, <3>2, <3>3, <3>4, <3>5 DEF Rehomed, b2
  <2> QED
    BY <2>1, <2>3, <2>4, <2>5, <2>6 DEF Sound, b2
<1>12. CASE b[i].ref # NoRef /\ i # h /\ b[h].ref # NoRef /\ H(b[h].ref) # h
  <2>0. h \in Slots(c)
    BY <1>1, <1>4, <1>12 DEF h
  <2>1. /\ q \in Tables /\ q.capacity = c /\ q.entries = v.entries /\ q.coalesced = v.coalesced
        /\ b2 \in [Slots(c) -> Bucket] /\ b2[h] = e /\ b2[i] = b[h]
        /\ \A k \in Slots(c) \ {i, h} : b2[k] = b[k]
    <3> DEFINE x == [[b EXCEPT ![h] = e] EXCEPT ![i] = b[h]]
    <3>1. x \in [Slots(c) -> Bucket] /\ x[h] = e /\ x[i] = b[h]
          /\ \A k \in Slots(c) \ {i, h} : x[k] = b[k]
      BY <1>1, <1>2, <1>5, <1>12, <2>0
    <3>2. q = [v EXCEPT !.buckets = x]
      BY <1>6, <1>12, <2>0
    <3> HIDE DEF x
    <3> QED
      BY <1>7, <3>1, <3>2
  <2> HIDE DEF b2
  <2>2. Full(c, b2) = Full(c, b)
    BY <1>1, <1>5, <1>12, <2>0, <2>1 DEF Full, SameMonitor
  <2>3. Array(c, b2)
    BY <1>1, <1>2, <1>5, <2>0, <2>1 DEF Array, SameMonitor
  <2>4. ~ Rehomed(v, i)
    <3>1. i \in Full(c, b) /\ h \in Full(c, b)
      BY <1>1, <1>12, <2>0 DEF Full
    <3> QED
      BY <1>8, <1>12, <3>1 DEF Apart, h
  <2> QED
    BY <2>1, <2>2, <2>3, <2>4 DEF Sound, b2
<1> QED
  BY <1>9, <1>10, <1>11, <1>12

\* The third loop has been through the buckets before n: the monitors in them are
\* on the chain of their home, those after them that are not at home on none.
Rechained(v, n) ==
    LET c == v.capacity
        b == v.buckets
    IN /\ Distinct(c, b) /\ Apart(hash, c, b) /\ FreeIsFree(c, b) /\ OffChain(c, b)
       /\ Acyclic(Slots(c), Links(c, b))
       /\ \A k \in Full(c, b) :
             LET h == HomeOf(hash, c, b[k].ref)
             IN /\ b[h].ref # NoRef
                /\ h = k \/ k < n => Reaches(Slots(c), Links(c, b), h, k)
                /\ h # k /\ k >= n => b[k].next = Nil /\ \A l \in Slots(c) : b[l].next # k

\* A turn of the third loop only changes links.
LEMMA RechainTurn ==
    ASSUME hash \in Hashes, NEW v, Sound(v), NEW i \in Slots(v.capacity)
    PROVE  /\ Sound(Rechain(v, i))
           /\ Rechain(v, i).capacity = v.capacity /\ Rechain(v, i).entries = v.entries
           /\ Rechain(v, i).coalesced = v.coalesced
           /\ Full(v.capacity, Rechain(v, i).buckets) = Full(v.capacity, v.buckets)
           /\ Items(v.capacity, Rechain(v, i).buckets) = Items(v.capacity, v.buckets)
           /\ Rechained(v, i) => Rechained(Rechain(v, i), i + 1)
<1> USE NullAssumption
<1> DEFINE c == v.capacity
           b == v.buckets
           h == HomeOf(hash, c, b[i].ref)
           q == Rechain(v, i)
           b2 == q.buckets
           H(x) == HomeOf(hash, c, x)
<1>1. v \in Tables /\ c \in Nat \ {0} /\ Array(c, b) /\ i \in Slots(c)
  BY DEF Sound, Tables
<1>2. /\ b \in [Slots(c) -> Bucket] /\ Nil \notin Slots(c) /\ Nil \in Int /\ Slots(c) \subseteq Nat
      /\ \A k \in Slots(c) : /\ b[k] \in Bucket /\ b[k].ref \in Ref \cup {NoRef}
                             /\ b[k].next \in Slots(c) \cup {Nil}
                             /\ b[k].owner = NoThread <=> b[k].count = 0
  BY <1>1 DEF Array, Slots, Nil, Bucket
<1>3. \A k \in Slots(c) : b[k].ref # NoRef => H(b[k].ref) \in Slots(c)
  BY <1>1, <1>2, HomeSlot
<1>4. \A x \in Bucket, n \in Slots(c) \cup {Nil} :
          LET y == [x EXCEPT !.next = n] IN y \in Bucket /\ y.next = n /\ SameMonitor(y, x)
  BY <1>2 DEF Bucket, SameMonitor
<1> DEFINE m == [b[i] EXCEPT !.next = b[h].next]
           g == [b[h] EXCEPT !.next = i]
<1>5. /\ b[i].ref = NoRef \/ h = i => q = v
      /\ b[i].ref # NoRef /\ h # i
            => q = [v EXCEPT !.buckets = [[b EXCEPT ![i] = m] EXCEPT ![h] = g]]
  <2>1. Home(v, b[i].ref) = h
    BY DEF Home, HomeOf
  <2> HIDE DEF h
  <2>2. ASSUME h # i
        PROVE  [v EXCEPT !.buckets[i].next = b[h].next, !.buckets[h].next = i]
               = [v EXCEPT !.buckets = [[b EXCEPT ![i] = m] EXCEPT ![h] = g]]
    BY <1>1, <1>2, <2>2 DEF Tables
  <2> QED
    BY <2>1, <2>2 DEF Rechain
<1>6. ASSUME NEW x \in [Slots(c) -> Bucket]
      PROVE  LET w == [v EXCEPT !.buckets = x]
             IN /\ w \in Tables /\ w.capacity = c /\ w.entries = v.entries
                /\ w.coalesced = v.coalesced /\ w.buckets = x
  <2>1. x \in Arrays
    BY <1>1 DEF Arrays
  <2> QED
    BY <1>1, <2>1 DEF Tables
<1> HIDE DEF q, b, c
<1> DEFINE Goal == /\ Sound(q) /\ q.capacity = c /\ q.entries = v.entries /\ q.coalesced = v.coalesced
                   /\ Full(c, b2) = Full(c, b) /\ Items(c, b2) = Items(c, b)
                   /\ Rechained(v, i) => Rechained(q, i + 1)
<1> SUFFICES Goal
  BY DEF b, q, c
<1> DEFINE nx == Links(c, b)
           nx2 == Links(c, b2)
           Placed(lks, arr, n, k) ==
                /\ arr[H(arr[k].ref)].ref # NoRef
                /\ H(arr[k].ref) = k \/ k < n => Reaches(Slots(c), lks, H(arr[k].ref), k)
                /\ H(arr[k].ref) # k /\ k >= n => arr[k].next = Nil /\ \A l \in Slots(c) : arr[l].next # k
<1>7. ASSUME Rechained(v, i)
      PROVE  /\ Distinct(c, b) /\ Apart(hash, c, b) /\ FreeIsFree(c, b) /\ OffChain(c, b)
             /\ Acyclic(Slots(c), nx) /\ \A k \in Full(c, b) : Placed(nx, b, i, k)
  BY <1>7 DEF Rechained, b, c
<1>8. ASSUME Distinct(c, b2), Apart(hash, c, b2), FreeIsFree(c, b2), OffChain(c, b2),
             Acyclic(Slots(c), nx2), q.capacity = c, \A k \in Full(c, b2) : Placed(nx2, b2, i + 1, k)
      PROVE  Rechained(q, i + 1)
  BY <1>8 DEF Rechained
<1>9. \A k \in Slots(c) : k < i + 1 <=> k < i \/ k = i
  BY <1>1, <1>2
<1>10. \A k \in Slots(c) : k >= i + 1 => k >= i /\ k # i
  BY <1>1, <1>2
<1>11. CASE b[i].ref = NoRef \/ h = i
  <2>1. q = v /\ b2 = b
    BY <1>5, <1>11 DEF b
  <2>2. ASSUME Rechained(v, i) PROVE Rechained(q, i + 1)
    <3>1. ASSUME NEW k \in Full(c, b) PROVE Placed(nx, b, i + 1, k)
      <4>1. k \in Slots(c) /\ Placed(nx, b, i, k) /\ (k = i => H(b[k].ref) = k)
        BY <1>7, <1>11, <2>2 DEF Full, h
      <4> HIDE DEF H, nx
      <4> QED
        BY <1>9, <1>10, <4>1
    <3> QED
      BY <1>7, <1>8, <2>1, <2>2, <3>1 DEF c
  <2> QED
    BY <2>1, <2>2 DEF c
<1>12. CASE b[i].ref # NoRef /\ h # i
  <2>0. h \in Slots(c) /\ i \in Full(c, b) /\ H(b[i].ref) = h
    BY <1>1, <1>3, <1>12 DEF h, Full
  <2>a. m \in Bucket /\ m.next = b[h].next /\ SameMonitor(m, b[i])
        /\ g \in Bucket /\ g.next = i /\ SameMonitor(g, b[h])
    BY <1>1, <1>2, <1>4, <2>0
  <2> HIDE DEF m, g, h
  <2>1. /\ q \in Tables /\ q.capacity = c /\ q.entries = v.entries /\ q.coalesced = v.coalesced
        /\ b2 \in [Slots(c) -> Bucket] /\ b2[h] = g /\ b2[i] = m
        /\ \A k \in Slots(c) \ {i, h} : b2[k] = b[k]
    <3> DEFINE x == [[b EXCEPT ![i] = m] EXCEPT ![h] = g]
    <3>1. x \in [Slots(c) -> Bucket] /\ x[h] = g /\ x[i] = m
          /\ \A k \in Slots(c) \ {i, h} : x[k] = b[k]
      BY <1>1, <1>2, <1>12, <2>0, <2>a
    <3>2. q = [v EXCEPT !.buckets = x]
      BY <1>5, <1>12
    <3> HIDE DEF x
    <3> QED
      BY <1>6, <3>1, <3>2
  <2> HIDE DEF b2
  <2>2. /\ \A k \in Slots(c) : SameMonitor(b2[k], b[k])
        /\ \A k \in Slots(c) \ {i, h} : b2[k].next = b[k].next
        /\ b2[i].next = b[h].next /\ b2[h].next = i
    BY <2>1, <2>a DEF SameMonitor
  <2>3. Full(c, b2) = Full(c, b) /\ Items(c, b2) = Items(c, b) /\ Array(c, b2)
    BY <1>1, <1>2, <2>0, <2>1, <2>2 DEF Full, Items, Array, SameMonitor
  <2>4. ASSUME Rechained(v, i) PROVE Rechained(q, i + 1)
    <3>1. b[h].ref # NoRef /\ b[i].next = Nil /\ (\A l \in Slots(c) : b[l].next # i) /\ H(b[h].ref) = h
      <4>1. Placed(nx, b, i, i)
        BY <1>7, <2>0, <2>4
      <4>2. b[h].ref # NoRef /\ b[i].next = Nil /\ \A l \in Slots(c) : b[l].next # i
        <5> HIDE DEF H, nx
        <5> QED
          BY <1>1, <1>2, <1>12, <2>0, <4>1
      <4>3. h \in Full(c, b)
        BY <2>0, <4>2 DEF Full
      <4> QED
        BY <1>7, <2>0, <2>4, <4>2, <4>3 DEF Apart
    <3>2. Distinct(c, b2)
      BY <1>7, <2>2, <2>3, <2>4 DEF Distinct, SameMonitor, Full
    <3>3. Apart(hash, c, b2)
      BY <1>7, <2>2, <2>3, <2>4 DEF Apart, SameMonitor, Full
    <3>4. FreeIsFree(c, b2)
      BY <1>7, <1>12, <2>2, <2>4, <3>1 DEF FreeIsFree, SameMonitor
    <3>5. OffChain(c, b2)
      <4> SUFFICES ASSUME NEW k \in Slots(c), b2[k].next # Nil PROVE b2[b2[k].next].ref # NoRef
        BY DEF OffChain
      <4>1. \A l \in Slots(c) : b2[l].ref = b[l].ref /\ (b[l].next # Nil => 
                                   b[l].next \in Slots(c) /\ b[b[l].next].ref # NoRef)
        BY <1>2, <1>7, <2>2, <2>4 DEF OffChain, SameMonitor
      <4>2. b2[k].next = i \/ \E l \in Slots(c) : b2[k].next = b[l].next
        BY <2>0, <2>2
      <4> QED
        BY <1>1, <1>12, <4>1, <4>2
    <3>6. /\ nx \in [Slots(c) -> Slots(c) \cup {Nil}] /\ nx[i] = Nil
          /\ \A k \in Slots(c) : nx[k] # i
      BY <1>1, <1>2, <3>1 DEF Links
    <3>7. nx2 = Linked(nx, i, h)
      BY <1>1, <1>2, <1>12, <2>0, <2>1, <2>2 DEF Links, Linked
    <3>8. /\ Acyclic(Slots(c), nx) => Acyclic(Slots(c), nx2)
          /\ \A a, k \in Slots(c) : Reaches(Slots(c), nx, a, k) => Reaches(Slots(c), nx2, a, k)
          /\ Reaches(Slots(c), nx2, h, i)
      <4>1. Slots(c) \in SUBSET Nat /\ i \in Slots(c) /\ h \in Slots(c) /\ i # h
        BY <1>1, <1>2, <1>12, <2>0
      <4> HIDE DEF nx, nx2
      <4> QED
        BY <3>6, <3>7, <4>1, Link
    <3>9. ASSUME NEW k \in Full(c, b2) PROVE Placed(nx2, b2, i + 1, k)
      <4>1. k \in Full(c, b) /\ k \in Slots(c) /\ Placed(nx, b, i, k) /\ H(b[k].ref) \in Slots(c)
            /\ b2[k].ref = b[k].ref
        BY <1>3, <1>7, <2>2, <2>3, <2>4 DEF Full, SameMonitor
      <4>2. b2[H(b2[k].ref)].ref # NoRef
        BY <2>2, <4>1 DEF SameMonitor
      <4>3. ASSUME H(b2[k].ref) = k \/ k < i + 1 PROVE Reaches(Slots(c), nx2, H(b2[k].ref), k)
        <5>1. CASE k = i
          BY <2>0, <3>8, <4>1, <5>1
        <5>2. CASE k # i
          <6>1. Reaches(Slots(c), nx, H(b[k].ref), k)
            <7> HIDE DEF H, nx
            <7> QED
              BY <1>9, <4>1, <4>3, <5>2
          <6> HIDE DEF nx, nx2
          <6> QED
            BY <3>8, <4>1, <6>1
        <5> QED
          BY <5>1, <5>2
      <4>4. ASSUME H(b2[k].ref) # k, k >= i + 1
            PROVE  b2[k].next = Nil /\ \A l \in Slots(c) : b2[l].next # k
        <5>1. b[k].next = Nil /\ (\A l \in Slots(c) : b[l].next # k) /\ k # i
          <6> HIDE DEF H, nx
          <6> QED
            BY <1>10, <4>1, <4>4
        <5>2. k # h
          BY <3>1, <4>1, <4>4
        <5> QED
          BY <1>1, <2>0, <2>2, <4>1, <5>1, <5>2
      <4> QED
        BY <4>2, <4>3, <4>4
    <3> QED
      BY <1>7, <1>8, <2>1, <2>4, <3>2, <3>3, <3>4, <3>5, <3>8, <3>9
  <2> QED
    BY <2>1, <2>3, <2>4 DEF Sound, b2
<1> QED
  BY <1>11, <1>12

\* The first loop empties the buckets of dead objects and counts the others.
LEMMA Dropped ==
    ASSUME hash \in Hashes, NEW v, Sound(v), NEW dead \in SUBSET Ref
    PROVE  LET q == DropDead(v, dead)
               c == v.capacity
           IN /\ Sound(q)
              /\ q.capacity = c /\ q.coalesced = v.coalesced
              /\ q.entries = Cardinality(Full(c, q.buckets))
              /\ Cardinality(Full(c, q.buckets)) <= Cardinality(Full(c, v.buckets))
              /\ Items(c, q.buckets) = {it \in Items(c, v.buckets) : it[1] \notin dead}
              /\ /\ Distinct(c, v.buckets) /\ Apart(hash, c, v.buckets) /\ FreeIsFree(c, v.buckets)
                 => Rehomed(q, 0)
<1> USE NullAssumption
<1> DEFINE c == v.capacity
           b == v.buckets
           q == DropDead(v, dead)
           b2 == [i \in DOMAIN b |-> IF b[i].ref \in dead THEN EmptyBucket ELSE b[i]]
<1>1. v \in Tables /\ c \in Nat \ {0} /\ Array(c, b)
  BY DEF Sound, Tables
<1>2. /\ b \in [Slots(c) -> Bucket] /\ Nil \notin Slots(c) /\ Nil \in Int /\ Slots(c) \subseteq Nat
      /\ \A k \in Slots(c) : /\ b[k].next \in Slots(c) \cup {Nil}
                             /\ b[k].owner = NoThread <=> b[k].count = 0
      /\ EmptyBucket \in Bucket /\ EmptyBucket.next = Nil /\ EmptyBucket.ref = NoRef
      /\ EmptyBucket.owner = NoThread /\ EmptyBucket.count = 0
  BY <1>1 DEF Array, Slots, Nil, Bucket, EmptyBucket
<1>3. /\ b2 \in [Slots(c) -> Bucket]
      /\ \A k \in Slots(c) : b2[k] = IF b[k].ref \in dead THEN EmptyBucket ELSE b[k]
  BY <1>2
<1>4. /\ q.capacity = c /\ q.coalesced = v.coalesced /\ q.buckets = b2
      /\ q.entries = Cardinality(Full(c, b2)) /\ q \in Tables
  <2> DEFINE w == [v EXCEPT !.buckets = b2]
             n == Cardinality(Occupied(w))
  <2>1. q = [w EXCEPT !.entries = n]
    BY <1>1 DEF DropDead, Tables
  <2> HIDE DEF q, b2, b
  <2>2. b2 \in Arrays
    BY <1>1, <1>3 DEF Arrays
  <2>3. w \in Tables /\ w.capacity = c /\ w.coalesced = v.coalesced /\ w.buckets = b2
    BY <1>1, <2>2 DEF Tables
  <2>4. n = Cardinality(Full(c, b2))
    <3>1. Occupied(w) = Full(c, b2)
      <4> HIDE DEF w
      <4> QED
        BY <2>3 DEF Occupied, Full, Slots
    <3> QED
      BY <3>1
  <2>5. n \in Nat
    BY <1>1, <2>4, FullFinite
  <2> HIDE DEF w, n
  <2> QED
    BY <2>1, <2>3, <2>4, <2>5 DEF Tables
<1> HIDE DEF q, b2, b
<1>5. Full(c, b2) = {k \in Full(c, b) : b[k].ref \notin dead}
      /\ \A k \in Full(c, b2) : b2[k] = b[k]
  BY <1>2, <1>3 DEF Full
<1>6. Array(c, b2)
  BY <1>2, <1>3 DEF Array
<1>7. Cardinality(Full(c, b2)) <= Cardinality(Full(c, b))
  <2>1. Full(c, b2) \subseteq Full(c, b) /\ IsFiniteSet(Full(c, b))
    BY <1>1, <1>5, FullFinite
  <2> QED
    BY <2>1, FS_Subset
<1>8. Items(c, b2) = {it \in Items(c, b) : it[1] \notin dead}
  BY <1>5 DEF Items
<1>9. ASSUME Distinct(c, b), Apart(hash, c, b), FreeIsFree(c, b) PROVE Rehomed(q, 0)
  <2>1. Distinct(c, b2) /\ Apart(hash, c, b2)
    BY <1>5, <1>9 DEF Distinct, Apart
  <2>2. FreeIsFree(c, b2)
    BY <1>2, <1>3, <1>9 DEF FreeIsFree
  <2>3. \A k \in Slots(c) : ~ (k < 0)
    BY <1>2
  <2>4. Full(c, b2) \subseteq Slots(c)
    BY DEF Full
  <2> QED
    BY <1>4, <2>1, <2>2, <2>3, <2>4 DEF Rehomed
<1> QED
  BY <1>4, <1>6, <1>7, <1>8, <1>9 DEF Sound, q, b

\* What every turn of the second loop keeps holds when it is over.
LEMMA RehomeLoop ==
    ASSUME NEW v, NEW n \in Nat, NEW W, v \in W[0],
           \A i \in 0 .. n - 1 : \A x \in W[i] : Rehome(x, i) \in W[i + 1]
    PROVE  Loop(Rehome, v, n) \in W[n]
<1> DEFINE step == [i \in 1 .. n |-> [x \in W[i - 1] |-> Rehome(x, i - 1)]]
           Def(f) == f = [i \in 0 .. n |-> IF i = 0 THEN v ELSE Rehome(f[i - 1], i - 1)]
           turn == CHOOSE f : Def(f)
<1>1. 0 \in 0 .. n /\ \A i \in 1 .. n : i - 1 \in 0 .. n - 1 /\ i \in 0 .. n /\ (i - 1) + 1 = i /\ i # 0
  OBVIOUS
<1>2. ASSUME NEW i \in 1 .. n, NEW x \in W[i - 1]
      PROVE  Rehome(x, i - 1) \in W[i] /\ step[i][x] = Rehome(x, i - 1)
  <2>1. Rehome(x, i - 1) \in W[(i - 1) + 1]
    BY <1>1
  <2> QED
    BY <1>1, <2>1
<1>3. PICK f : Staged(f, n, W, v, step)
  <2>1. \A i \in 1 .. n : \A x \in W[i - 1] : step[i][x] \in W[i]
    BY <1>2
  <2> HIDE DEF step
  <2> QED
    BY <2>1, StagedRecursion
<1>4. Def(f)
  <2>1. \A i \in 1 .. n : f[i] = Rehome(f[i - 1], i - 1)
    BY <1>2, <1>3 DEF Staged
  <2>2. \A i \in 0 .. n : i # 0 => i \in 1 .. n
    OBVIOUS
  <2> QED
    BY <1>3, <2>1, <2>2 DEF Staged
<1>5. Def(turn)
  <2> HIDE DEF Def
  <2> QED
    BY <1>4
<1>6. Loop(Rehome, v, n) = turn[n]
  BY DEF Loop
<1> HIDE DEF turn
<1>7. turn[0] = v /\ \A i \in 1 .. n : turn[i] = Rehome(turn[i - 1], i - 1)
  BY <1>1, <1>5
<1> QED
  BY <1>2, <1>6, <1>7, StagedInduction

\* What every turn of the third loop keeps holds when it is over.
LEMMA RechainLoop ==
    ASSUME NEW v, NEW n \in Nat, NEW W, v \in W[0],
           \A i \in 0 .. n - 1 : \A x \in W[i] : Rechain(x, i) \in W[i + 1]
    PROVE  Loop(Rechain, v, n) \in W[n]
<1> DEFINE step == [i \in 1 .. n |-> [x \in W[i - 1] |-> Rechain(x, i - 1)]]
           Def(f) == f = [i \in 0 .. n |-> IF i = 0 THEN v ELSE Rechain(f[i - 1], i - 1)]
           turn == CHOOSE f : Def(f)
<1>1. 0 \in 0 .. n /\ \A i \in 1 .. n : i - 1 \in 0 .. n - 1 /\ i \in 0 .. n /\ (i - 1) + 1 = i /\ i # 0
  OBVIOUS
<1>2. ASSUME NEW i \in 1 .. n, NEW x \in W[i - 1]
      PROVE  Rechain(x, i - 1) \in W[i] /\ step[i][x] = Rechain(x, i - 1)
  <2>1. Rechain(x, i - 1) \in W[(i - 1) + 1]
    BY <1>1
  <2> QED
    BY <1>1, <2>1
<1>3. PICK f : Staged(f, n, W, v, step)
  <2>1. \A i \in 1 .. n : \A x \in W[i - 1] : step[i][x] \in W[i]
    BY <1>2
  <2> HIDE DEF step
  <2> QED
    BY <2>1, StagedRecursion
<1>4. Def(f)
  <2>1. \A i \in 1 .. n : f[i] = Rechain(f[i - 1], i - 1)
    BY <1>2, <1>3 DEF Staged
  <2>2. \A i \in 0 .. n : i # 0 => i \in 1 .. n
    OBVIOUS
  <2> QED
    BY <1>3, <2>1, <2>2 DEF Staged
<1>5. Def(turn)
  <2> HIDE DEF Def
  <2> QED
    BY <1>4
<1>6. Loop(Rechain, v, n) = turn[n]
  BY DEF Loop
<1> HIDE DEF turn
<1>7. turn[0] = v /\ \A i \in 1 .. n : turn[i] = Rechain(turn[i - 1], i - 1)
  BY <1>1, <1>5
<1> QED
  BY <1>2, <1>6, <1>7, StagedInduction

\* Between the loops every monitor has an occupied home and no bucket a link.
LEMMA Unlinked ==
    ASSUME hash \in Hashes, NEW v, Sound(v), Rehomed(v, v.capacity)
    PROVE  Rechained(v, 0)
<1> USE NullAssumption
<1> DEFINE c == v.capacity
           b == v.buckets
           nx == Links(c, b)
<1>1. c \in Nat \ {0} /\ Array(c, b)
  BY DEF Sound, Tables
<1>2. Nil \notin Slots(c) /\ \A k \in Slots(c) : k < c /\ k >= 0
  BY <1>1 DEF Slots, Nil
<1>3. /\ Distinct(c, b) /\ Apart(hash, c, b) /\ FreeIsFree(c, b)
      /\ \A k \in Slots(c) : b[k].next = Nil
      /\ \A k \in Full(c, b) : b[HomeOf(hash, c, b[k].ref)].ref # NoRef
  BY <1>2 DEF Rehomed, Full
<1>4. OffChain(c, b)
  BY <1>3 DEF OffChain
<1>5. \A k \in Slots(c) : nx[k] = Nil
  BY <1>3 DEF Links
<1>6. Acyclic(Slots(c), nx)
  <2>1. [k \in Slots(c) |-> 0] \in [Slots(c) -> Nat]
    OBVIOUS
  <2> QED
    BY <1>5, <2>1 DEF Acyclic
<1> HIDE DEF nx, b, c
<1>7. ASSUME NEW k \in Full(c, b)
      PROVE  /\ HomeOf(hash, c, b[k].ref) = k \/ k < 0
                  => Reaches(Slots(c), nx, HomeOf(hash, c, b[k].ref), k)
             /\ b[k].next = Nil /\ \A l \in Slots(c) : b[l].next # k
  <2>1. k \in Slots(c) /\ ~ (k < 0) /\ k # Nil
    BY <1>1, <1>2 DEF Full, Slots
  <2>2. HomeOf(hash, c, b[k].ref) = k => Reaches(Slots(c), nx, HomeOf(hash, c, b[k].ref), k)
    BY DEF Reaches
  <2>3. b[k].next = Nil /\ \A l \in Slots(c) : b[l].next # k
    BY <1>3, <2>1
  <2> QED
    BY <2>1, <2>2, <2>3
<1> QED
  BY <1>3, <1>4, <1>6, <1>7 DEF Rechained, nx, b, c

\* tm_purge() drops the monitors of the dead objects.  When none was in the home of
\* another one it keeps the other monitors, and the chains complete.
LEMMA Purged ==
    ASSUME hash \in Hashes, NEW tab, Sound(tab), NEW dead \in SUBSET Ref
    PROVE  LET q == Purge(tab, dead)
               c == tab.capacity
           IN /\ Sound(q)
              /\ q.capacity = c /\ q.coalesced = (tab.coalesced \/ Coalesced(tab))
              /\ q.entries = Cardinality(Full(c, q.buckets))
              /\ Cardinality(Full(c, q.buckets)) <= Cardinality(Full(c, tab.buckets))
              /\ ~ q.coalesced /\ Good(hash, c, tab.buckets)
                    => /\ Good(hash, c, q.buckets)
                       /\ Items(c, q.buckets) = {it \in Items(c, tab.buckets) : it[1] \notin dead}
<1> DEFINE c == tab.capacity
           start == [tab EXCEPT !.coalesced = @ \/ Coalesced(tab)]
           left == DropDead(start, dead)
           mid == Loop(Rehome, left, c)
           q == Loop(Rechain, mid, c)
           Size(x) == Cardinality(Full(c, x.buckets))
           It(x) == Items(c, x.buckets)
<1>1. c \in Nat \ {0} /\ tab \in Tables
  BY DEF Sound, Tables
<1>2. Purge(tab, dead) = q
  BY DEF Purge
<1>3. /\ Sound(start) /\ start.capacity = c /\ start.coalesced = (tab.coalesced \/ Coalesced(tab))
      /\ start.buckets = tab.buckets
  <2>1. Coalesced(tab) \in BOOLEAN /\ tab.coalesced \in BOOLEAN
    BY <1>1 DEF Coalesced, Tables
  <2> DEFINE new == tab.coalesced \/ Coalesced(tab)
  <2>2. new \in BOOLEAN /\ start = [tab EXCEPT !.coalesced = new]
    BY <1>1, <2>1 DEF Tables
  <2> HIDE DEF new, start
  <2>3. start \in Tables /\ start.capacity = c /\ start.coalesced = new /\ start.buckets = tab.buckets
    BY <1>1, <2>2 DEF Tables
  <2> QED
    BY <2>3 DEF Sound, new
<1> HIDE DEF start
<1>4. /\ Sound(left)
      /\ left.capacity = c /\ left.coalesced = start.coalesced
      /\ left.entries = Size(left) /\ Size(left) <= Cardinality(Full(c, tab.buckets))
      /\ It(left) = {it \in Items(c, tab.buckets) : it[1] \notin dead}
      /\ /\ Distinct(c, tab.buckets) /\ Apart(hash, c, tab.buckets) /\ FreeIsFree(c, tab.buckets)
         => Rehomed(left, 0)
  BY <1>3, Dropped
<1> HIDE DEF left
<1> DEFINE Kept1(x, n) == /\ Sound(x) /\ x.capacity = c /\ x.entries = left.entries
                          /\ x.coalesced = left.coalesced /\ Size(x) = Size(left)
                          /\ Rehomed(left, 0) => Rehomed(x, n) /\ It(x) = It(left)
           W1 == [n \in 0 .. c |-> {x \in Tables : Kept1(x, n)}]
<1>5. /\ \A n \in 0 .. c - 1 : n \in 0 .. c /\ n + 1 \in 0 .. c /\ n \in Slots(c)
      /\ 0 \in 0 .. c /\ c \in 0 .. c /\ c \in Nat
  BY <1>1 DEF Slots
<1>6. mid \in Tables /\ Kept1(mid, c)
  <2>1. left \in W1[0]
    BY <1>4, <1>5 DEF Sound
  <2>2. ASSUME NEW n \in 0 .. c - 1, NEW x \in W1[n] PROVE Rehome(x, n) \in W1[n + 1]
    <3>1. Kept1(x, n)
      BY <1>5, <2>2
    <3> DEFINE y == Rehome(x, n)
    <3>2. /\ Sound(y) /\ y.capacity = c /\ y.entries = x.entries /\ y.coalesced = x.coalesced
          /\ Size(y) = Size(x)
          /\ Rehomed(x, n) => Rehomed(y, n + 1) /\ It(y) = It(x)
      BY <1>5, <3>1, RehomeTurn
    <3> HIDE DEF y, Size, It
    <3>3. Kept1(y, n + 1) /\ y \in Tables
      BY <3>1, <3>2 DEF Sound
    <3> QED
      BY <1>5, <3>3 DEF y
  <2>3. mid \in W1[c]
    <3> HIDE DEF W1
    <3> QED
      BY <1>5, <2>1, <2>2, RehomeLoop
  <2> HIDE DEF mid
  <2> QED
    BY <1>5, <2>3
<1> HIDE DEF mid
<1>7. Rehomed(mid, c) => Rechained(mid, 0)
  BY <1>6, Unlinked
<1> DEFINE Kept2(x, n) == /\ Sound(x) /\ x.capacity = c /\ x.entries = mid.entries
                          /\ x.coalesced = mid.coalesced /\ Size(x) = Size(mid) /\ It(x) = It(mid)
                          /\ Rechained(mid, 0) => Rechained(x, n)
           W2 == [n \in 0 .. c |-> {x \in Tables : Kept2(x, n)}]
<1>8. q \in Tables /\ Kept2(q, c)
  <2>1. mid \in W2[0]
    BY <1>5, <1>6
  <2>2. ASSUME NEW n \in 0 .. c - 1, NEW x \in W2[n] PROVE Rechain(x, n) \in W2[n + 1]
    <3>1. Kept2(x, n)
      BY <1>5, <2>2
    <3> DEFINE y == Rechain(x, n)
    <3>2. /\ Sound(y) /\ y.capacity = c /\ y.entries = x.entries /\ y.coalesced = x.coalesced
          /\ Size(y) = Size(x) /\ It(y) = It(x)
          /\ Rechained(x, n) => Rechained(y, n + 1)
      BY <1>5, <3>1, RechainTurn
    <3> HIDE DEF y, Size, It
    <3>3. Kept2(y, n + 1) /\ y \in Tables
      BY <3>1, <3>2 DEF Sound
    <3> QED
      BY <1>5, <3>3 DEF y
  <2>3. q \in W2[c]
    <3> HIDE DEF W2
    <3> QED
      BY <1>5, <2>1, <2>2, RechainLoop
  <2> HIDE DEF q
  <2> QED
    BY <1>5, <2>3
<1> HIDE DEF q
<1>9. ASSUME ~ q.coalesced, Good(hash, c, tab.buckets)
      PROVE  Good(hash, c, q.buckets) /\ It(q) = It(left)
  <2>1. ~ Coalesced(tab)
    BY <1>3, <1>4, <1>6, <1>8, <1>9
  <2>2. Apart(hash, c, tab.buckets)
    BY <2>1 DEF Coalesced, Occupied, Full, Slots, Home, HomeOf, Apart
  <2>3. Rehomed(left, 0)
    BY <1>4, <1>9, <2>2 DEF Good
  <2>4. Rechained(q, c) /\ It(q) = It(left)
    BY <1>6, <1>7, <1>8, <2>3
  <2>5. \A k \in Full(c, q.buckets) : k < c
    BY <1>1 DEF Full, Slots
  <2> QED
    BY <1>8, <2>4, <2>5 DEF Rechained, Good, Sound
<1> QED
  BY <1>2, <1>3, <1>4, <1>6, <1>8, <1>9

---------------------------------------------------------------------------
(* Rehashing.                                                              *)

\* One turn of the loop of tm_rehash().
Copied(tab, acc, i) == IF tab.buckets[i].ref = NoRef THEN acc ELSE Insert(acc, tab.buckets[i])

\* What every turn of that loop keeps holds when it is over.
LEMMA RehashLoop ==
    ASSUME NEW tab, NEW cap, NEW n \in Nat, n = tab.capacity, NEW W,
           [tab EXCEPT !.capacity = cap, !.buckets = EmptyBuckets(cap)] \in W[0],
           \A i \in 0 .. n - 1 : \A x \in W[i] : Copied(tab, x, i) \in W[i + 1]
    PROVE  Rehash(tab, cap) \in W[n]
<1> DEFINE v == [tab EXCEPT !.capacity = cap, !.buckets = EmptyBuckets(cap)]
           step == [i \in 1 .. n |-> [x \in W[i - 1] |-> Copied(tab, x, i - 1)]]
           Def(f) == f = [i \in 0 .. n |-> IF i = 0 THEN v ELSE Copied(tab, f[i - 1], i - 1)]
           turn == CHOOSE f : Def(f)
<1>1. 0 \in 0 .. n /\ \A i \in 1 .. n : i - 1 \in 0 .. n - 1 /\ i \in 0 .. n /\ (i - 1) + 1 = i /\ i # 0
  OBVIOUS
<1>2. ASSUME NEW i \in 1 .. n, NEW x \in W[i - 1]
      PROVE  Copied(tab, x, i - 1) \in W[i] /\ step[i][x] = Copied(tab, x, i - 1)
  <2>1. Copied(tab, x, i - 1) \in W[(i - 1) + 1]
    BY <1>1
  <2> QED
    BY <1>1, <2>1
<1>3. PICK f : Staged(f, n, W, v, step)
  <2>1. \A i \in 1 .. n : \A x \in W[i - 1] : step[i][x] \in W[i]
    BY <1>2
  <2> HIDE DEF step
  <2> QED
    BY <2>1, StagedRecursion
<1>4. Def(f)
  <2>1. \A i \in 1 .. n : f[i] = Copied(tab, f[i - 1], i - 1)
    BY <1>2, <1>3 DEF Staged
  <2>2. \A i \in 0 .. n : i # 0 => i \in 1 .. n
    OBVIOUS
  <2> QED
    BY <1>3, <2>1, <2>2 DEF Staged
<1>5. Def(turn)
  <2> HIDE DEF Def
  <2> QED
    BY <1>4
<1>6. Rehash(tab, cap) = turn[n]
  BY DEF Rehash, Loop, Copied
<1> HIDE DEF turn
<1>7. turn[0] = v /\ \A i \in 1 .. n : turn[i] = Copied(tab, turn[i - 1], i - 1)
  BY <1>1, <1>5
<1> HIDE DEF v
<1>8. turn[0] \in W[0]
  BY <1>7 DEF v
<1>9. \A i \in 1 .. n : turn[i - 1] \in W[i - 1] => turn[i] \in W[i]
  BY <1>2, <1>7
<1>10. turn[n] \in W[n]
  BY <1>8, <1>9, StagedInduction
<1> QED
  BY <1>6, <1>10

\* tm_rehash() keeps the monitors, and makes their chains anew.
LEMMA Rehashed ==
    ASSUME hash \in Hashes, NEW tab, Sound(tab), NEW cap \in Nat \ {0},
           Cardinality(Full(tab.capacity, tab.buckets)) < cap
    PROVE  LET q == Rehash(tab, cap)
               c == tab.capacity
           IN /\ Sound(q)
              /\ q.capacity = cap /\ q.entries = tab.entries /\ q.coalesced = tab.coalesced
              /\ Cardinality(Full(cap, q.buckets)) = Cardinality(Full(c, tab.buckets))
              /\ Distinct(c, tab.buckets) => /\ Good(hash, cap, q.buckets)
                                             /\ Items(cap, q.buckets) = Items(c, tab.buckets)
<1> USE NullAssumption
<1> DEFINE c == tab.capacity
           b == tab.buckets
           new == [tab EXCEPT !.capacity = cap, !.buckets = EmptyBuckets(cap)]
           q == Rehash(tab, cap)
           Size(x) == Cardinality(Full(cap, x.buckets))
           Before(n) == {k \in Full(c, b) : k < n}
           ItemOf(k) == <<b[k].ref, b[k].owner, b[k].count>>
           Kept1(x, n) == /\ Sound(x) /\ x.capacity = cap /\ x.entries = tab.entries
                          /\ x.coalesced = tab.coalesced /\ Size(x) = Cardinality(Before(n))
                          /\ Items(cap, x.buckets) = {ItemOf(k) : k \in Before(n)}
                          /\ Distinct(c, b) => Good(hash, cap, x.buckets)
           W == [n \in 0 .. c |-> {x \in Tables : Kept1(x, n)}]
<1>1. c \in Nat \ {0} /\ tab \in Tables /\ Array(c, b) /\ Slots(c) \subseteq Nat /\ Full(c, b) \subseteq Slots(c)
      /\ cap \in Nat
  BY DEF Sound, Tables, Slots, Full
<1>2. /\ \A n \in 0 .. c - 1 : n \in 0 .. c /\ n + 1 \in 0 .. c /\ n \in Slots(c) /\ n \in Nat
      /\ 0 \in 0 .. c /\ c \in 0 .. c
  BY <1>1 DEF Slots
<1>3. Before(0) = {} /\ Before(c) = Full(c, b)
  BY <1>1 DEF Slots
<1>4. ASSUME NEW n PROVE IsFiniteSet(Before(n)) /\ Cardinality(Before(n)) \in Nat
                         /\ Cardinality(Before(n)) < cap
  <2>1. Before(n) \subseteq Full(c, b)
    OBVIOUS
  <2>2. IsFiniteSet(Full(c, b)) /\ Cardinality(Full(c, b)) \in Nat
    BY <1>1, FullFinite
  <2> HIDE DEF Before
  <2>3. IsFiniteSet(Before(n)) /\ Cardinality(Before(n)) <= Cardinality(Full(c, b))
    BY <2>1, <2>2, FS_Subset
  <2>4. Cardinality(Before(n)) \in Nat
    BY <2>3, FS_CardinalityType
  <2> QED
    BY <1>1, <2>2, <2>3, <2>4
<1>5. Kept1(new, 0) /\ new \in Tables
  <2>0. EmptyBucket \in Bucket /\ EmptyBucket.next = Nil /\ EmptyBucket.ref = NoRef
        /\ EmptyBucket.owner = NoThread /\ EmptyBucket.count = 0 /\ Nil \in Int
    BY DEF EmptyBucket, Bucket, Nil
  <2> DEFINE a == EmptyBuckets(cap)
  <2>1. a \in [Slots(cap) -> Bucket] /\ \A k \in Slots(cap) : a[k] = EmptyBucket
    BY <2>0 DEF EmptyBuckets, Slots
  <2> HIDE DEF a
  <2>2. /\ new \in Tables /\ new.capacity = cap /\ new.entries = tab.entries
        /\ new.coalesced = tab.coalesced /\ new.buckets = a
    <3>1. a \in Arrays
      BY <1>1, <2>1 DEF Arrays
    <3>2. new = [tab EXCEPT !.capacity = cap, !.buckets = a]
      BY DEF a
    <3> QED
      BY <1>1, <3>1, <3>2 DEF Tables
  <2> HIDE DEF new
  <2>3. Full(cap, a) = {}
    BY <2>0, <2>1 DEF Full
  <2>4. Array(cap, a)
    BY <2>0, <2>1 DEF Array
  <2>5. Items(cap, a) = {}
    BY <2>3 DEF Items
  <2>6. Good(hash, cap, a)
    <3>1. Distinct(cap, a) /\ FreeIsFree(cap, a) /\ OffChain(cap, a)
      BY <2>0, <2>1, <2>3 DEF Distinct, FreeIsFree, OffChain
    <3>2. Acyclic(Slots(cap), Links(cap, a))
      <4>1. \A k \in Slots(cap) : Links(cap, a)[k] = Nil
        BY <2>0, <2>1 DEF Links
      <4>2. [k \in Slots(cap) |-> 0] \in [Slots(cap) -> Nat]
        OBVIOUS
      <4> QED
        BY <4>1, <4>2 DEF Acyclic
    <3> QED
      BY <2>3, <2>4, <3>1, <3>2 DEF Good
  <2>7. {ItemOf(k) : k \in Before(0)} = {}
    <3> HIDE DEF Before, ItemOf
    <3> QED
      BY <1>3
  <2>8. Size(new) = Cardinality(Before(0))
    <3> HIDE DEF Before
    <3> QED
      BY <1>3, <2>2, <2>3
  <2> QED
    BY <2>2, <2>4, <2>5, <2>6, <2>7, <2>8 DEF Sound
<1>6. ASSUME NEW n \in 0 .. c - 1, NEW x \in W[n] PROVE Copied(tab, x, n) \in W[n + 1]
  <2>1. Kept1(x, n) /\ x \in Tables
    BY <1>2, <1>6
  <2> SUFFICES Kept1(Copied(tab, x, n), n + 1) /\ Copied(tab, x, n) \in Tables
    BY <1>2
  <2>a. \A k \in Slots(c) : k < n + 1 <=> k < n \/ k = n
    BY <1>1, <1>2
  <2>2. CASE b[n].ref = NoRef
    <3>1. Copied(tab, x, n) = x
      BY <2>2 DEF Copied
    <3>2. Before(n + 1) = Before(n)
      BY <1>1, <2>2, <2>a DEF Full
    <3> HIDE DEF Before
    <3> QED
      BY <2>1, <3>1, <3>2
  <2>3. CASE b[n].ref # NoRef
    <3> DEFINE y == Copied(tab, x, n)
               m == b[n]
    <3>1. y = Insert(x, m)
      BY <2>3 DEF Copied
    <3>2. m \in Monitors /\ n \in Full(c, b)
      BY <1>1, <1>2, <2>3 DEF Monitors, Array, Bucket, Full
    <3>3. n \notin Before(n) /\ Before(n + 1) = Before(n) \cup {n}
      BY <1>1, <1>2, <2>a, <3>2
    <3>4. Cardinality(Before(n + 1)) = Cardinality(Before(n)) + 1
      <4> HIDE DEF Before
      <4> QED
        BY <1>4, <3>3, FS_AddElement
    <3>5. /\ Sound(y)
          /\ y.capacity = x.capacity /\ y.entries = x.entries /\ y.coalesced = x.coalesced
          /\ Size(y) = Size(x) + 1
          /\ Items(cap, y.buckets) = Items(cap, x.buckets) \cup {<<m.ref, m.owner, m.count>>}
          /\ /\ Good(hash, cap, x.buckets)
             /\ \A k \in Full(cap, x.buckets) : x.buckets[k].ref # m.ref
             => Good(hash, cap, y.buckets)
      <4>1. Cardinality(Full(x.capacity, x.buckets)) < x.capacity
        <5> HIDE DEF Before
        <5> QED
          BY <1>4, <2>1
      <4> HIDE DEF y, m
      <4> QED
        BY <2>1, <3>1, <3>2, <4>1, Inserted
    <3>6. ASSUME Distinct(c, b), NEW k \in Full(cap, x.buckets) PROVE x.buckets[k].ref # m.ref
      <4>1. <<x.buckets[k].ref, x.buckets[k].owner, x.buckets[k].count>> \in Items(cap, x.buckets)
        BY DEF Items
      <4>2. PICK l \in Before(n) : <<x.buckets[k].ref, x.buckets[k].owner, x.buckets[k].count>> = ItemOf(l)
        BY <2>1, <4>1
      <4>3. x.buckets[k].ref = b[l].ref /\ l \in Full(c, b) /\ l # n
        BY <1>1, <1>2, <4>2
      <4> QED
        BY <3>2, <3>6, <4>3 DEF Distinct
    <3>7. Items(cap, y.buckets) = {ItemOf(k) : k \in Before(n + 1)}
      <4>1. {ItemOf(k) : k \in Before(n + 1)} = {ItemOf(k) : k \in Before(n)} \cup {ItemOf(n)}
        <5> HIDE DEF Before, ItemOf
        <5> QED
          BY <3>3
      <4> QED
        BY <2>1, <3>5, <4>1
    <3> HIDE DEF Before, ItemOf, m, y
    <3>8. Kept1(y, n + 1)
      BY <2>1, <3>4, <3>5, <3>6, <3>7
    <3> QED
      BY <3>5, <3>8 DEF Sound, y
  <2> QED
    BY <2>2, <2>3
<1>7. Rehash(tab, cap) \in W[c]
  <2>1. new \in W[0]
    BY <1>2, <1>5
  <2> HIDE DEF W
  <2> QED
    BY <1>1, <1>6, <2>1, RehashLoop
<1> HIDE DEF q
<1>8. Kept1(q, c)
  BY <1>2, <1>7 DEF q
<1>9. {ItemOf(k) : k \in Before(c)} = Items(c, b)
  BY <1>3 DEF Items
<1> HIDE DEF Before, ItemOf, b
<1> QED
  BY <1>3, <1>8, <1>9 DEF q, b

---------------------------------------------------------------------------
(* The table and what the Java program holds.                              *)

\* The monitors say who has entered what, and how many times.
Agrees(items, hl) ==
    /\ \A t \in Thread, r \in Ref : hl[t][r] > 0 => <<r, t, hl[t][r]>> \in items
    /\ \A it \in items : it[2] # NoThread => it[3] = hl[it[2]][it[1]]

\* What every operation keeps of the table.
Fits(f, tab, hl) ==
    /\ Sound(tab)
    /\ tab.entries = Cardinality(Full(tab.capacity, tab.buckets))
    /\ ~ tab.coalesced => /\ Good(f, tab.capacity, tab.buckets)
                          /\ Agrees(Items(tab.capacity, tab.buckets), hl)

\* A lookup gives a bucket of the object it is for, or none.
LEMMA FindSlot ==
    ASSUME hash \in Hashes, NEW tab, Sound(tab), NEW r \in Ref
    PROVE  /\ Find(tab, r) \in Slots(tab.capacity) \cup {Nil}
           /\ Find(tab, r) # Nil => tab.buckets[Find(tab, r)].ref = r
<1> DEFINE c == tab.capacity
           i == Walk(tab, Home(tab, r), {r})
<1>1. c \in Nat \ {0} /\ Array(c, tab.buckets) /\ c \in 0 .. c
  BY DEF Sound, Tables
<1>2. PICK after : Turns(tab, {r}, after) /\ \A h : Walk(tab, h, {r}) = after[c][h]
  BY <1>1, WalkTurns
<1>3. Home(tab, r) \in Slots(c)
  BY <1>1, HomeSlot DEF Home, HomeOf
<1>4. i \in Slots(c) \cup {Nil}
  <2>1. after \in [0 .. c -> [Slots(c) \cup {Nil} -> Slots(c) \cup {Nil}]]
    BY <1>2 DEF Turns
  <2>2. after[c] \in [Slots(c) \cup {Nil} -> Slots(c) \cup {Nil}]
    BY <1>1, <2>1
  <2>3. i = after[c][Home(tab, r)]
    BY <1>2
  <2> HIDE DEF i
  <2> QED
    BY <1>3, <2>2, <2>3
<1>5. Find(tab, r) = IF i # Nil /\ tab.buckets[i].ref = r THEN i ELSE Nil
  BY DEF Find
<1> HIDE DEF i
<1> QED
  BY <1>4, <1>5

\* In a table whose chains are complete a lookup finds the monitor of its object.
LEMMA FindGood ==
    ASSUME hash \in Hashes, NEW tab, Sound(tab), Good(hash, tab.capacity, tab.buckets), NEW r \in Ref
    PROVE  /\ \A i \in Full(tab.capacity, tab.buckets) : tab.buckets[i].ref = r => Find(tab, r) = i
           /\ \A h \in Slots(tab.capacity) : Ends(tab, h)
<1> USE NullAssumption
<1> DEFINE c == tab.capacity
           b == tab.buckets
           h == Home(tab, r)
           i == Walk(tab, h, {r})
<1>1. /\ c \in Nat \ {0} /\ Array(c, b) /\ Distinct(c, b) /\ Acyclic(Slots(c), Links(c, b))
      /\ \A k \in Full(c, b) : Reaches(Slots(c), Links(c, b), HomeOf(hash, c, b[k].ref), k)
      /\ Nil \notin Slots(c)
  BY DEF Sound, Tables, Good, Slots, Nil
<1>2. h \in Slots(c) /\ h = HomeOf(hash, c, r)
  BY <1>1, HomeSlot DEF Home, HomeOf
<1>3. i \in Slots(c) \cup {Nil} /\ (i # Nil => b[i].ref \in {r})
  <2> HIDE DEF h
  <2> QED
    BY <1>1, <1>2, WalkStops
<1>4. ASSUME NEW k \in Full(c, b), b[k].ref = r PROVE Find(tab, r) = k
  <2>1. i # Nil
    <3> SUFFICES ASSUME i = Nil PROVE FALSE
      OBVIOUS
    <3>1. Reaches(Slots(c), Links(c, b), h, k)
      BY <1>1, <1>2, <1>4
    <3>2. b[k].ref \notin {r}
      <4> HIDE DEF h, b, c
      <4> QED
        BY <1>1, <1>2, <3>1, WalkMisses DEF b, c
    <3> QED
      BY <1>4, <3>2
  <2>2. i \in Full(c, b) /\ b[i].ref = r
    BY <1>3, <2>1 DEF Full
  <2>3. i = k
    BY <1>1, <1>4, <2>2 DEF Distinct
  <2> QED
    BY <2>1, <2>2, <2>3 DEF Find
<1>5. ASSUME NEW k \in Slots(c) PROVE Ends(tab, k)
  BY <1>1, WalkStops DEF Ends
<1> QED
  BY <1>4, <1>5

\* Dropping monitors nobody is in keeps the agreement.
LEMMA AgreesDropped ==
    ASSUME NEW items, NEW hl, Agrees(items, hl), NEW dead,
           \A t \in Thread, r \in Ref : r \in dead => ~ (hl[t][r] > 0)
    PROVE  Agrees({it \in items : it[1] \notin dead}, hl)
BY DEF Agrees

\* An allocation may purge the table of dead monitors.
LEMMA AllocFits ==
    ASSUME hash \in Hashes, NEW tab, NEW hl, Fits(hash, tab, hl), NEW used,
           NEW p \in Allocating(tab, used),
           \A r \in Dead(used) : \A t \in Thread : ~ (hl[t][r] > 0)
    PROVE  /\ Fits(hash, p, hl) /\ p.capacity = tab.capacity /\ p.entries <= tab.entries
           /\ p.coalesced \/ ~ tab.coalesced
<1>1. /\ Sound(tab) /\ tab.entries \in Nat
      /\ tab.entries = Cardinality(Full(tab.capacity, tab.buckets))
  BY DEF Fits, Sound, Tables
<1>2. CASE p = tab
  BY <1>1, <1>2
<1>3. CASE p # tab
  <2>1. PICK d \in SUBSET Dead(used) : p = Purge(tab, d)
    BY <1>3 DEF Allocating
  <2>2. d \in SUBSET Ref /\ \A t \in Thread, r \in Ref : r \in d => ~ (hl[t][r] > 0)
    BY <2>1 DEF Dead
  <2> DEFINE c == tab.capacity
  <2>3. /\ Sound(p)
        /\ p.capacity = c /\ p.coalesced = (tab.coalesced \/ Coalesced(tab))
        /\ p.entries = Cardinality(Full(c, p.buckets))
        /\ Cardinality(Full(c, p.buckets)) <= Cardinality(Full(c, tab.buckets))
        /\ ~ p.coalesced /\ Good(hash, c, tab.buckets)
              => /\ Good(hash, c, p.buckets)
                 /\ Items(c, p.buckets) = {it \in Items(c, tab.buckets) : it[1] \notin d}
    BY <1>1, <2>1, <2>2, Purged
  <2>4. ASSUME ~ p.coalesced PROVE Good(hash, c, p.buckets) /\ Agrees(Items(c, p.buckets), hl)
    <3>1. Good(hash, c, tab.buckets) /\ Agrees(Items(c, tab.buckets), hl)
      BY <2>3, <2>4 DEF Fits
    <3> DEFINE items == Items(c, tab.buckets)
    <3>2. Agrees({it \in items : it[1] \notin d}, hl)
      <4>1. Agrees(items, hl)
        BY <3>1
      <4> HIDE DEF items
      <4> QED
        BY <2>2, <4>1, AgreesDropped
    <3> QED
      BY <2>3, <2>4, <3>1, <3>2
  <2> QED
    BY <1>1, <2>3, <2>4 DEF Fits
<1> QED
  BY <1>2, <1>3

\* Rehashing keeps it all.
LEMMA RehashFits ==
    ASSUME hash \in Hashes, NEW tab, NEW hl, Fits(hash, tab, hl), NEW cap \in Nat \ {0},
           tab.entries < cap
    PROVE  LET q == Rehash(tab, cap)
           IN Fits(hash, q, hl) /\ q.capacity = cap /\ q.entries = tab.entries /\ q.coalesced = tab.coalesced
<1> DEFINE q == Rehash(tab, cap)
           c == tab.capacity
<1>1. Sound(tab) /\ tab.entries = Cardinality(Full(c, tab.buckets))
  BY DEF Fits
<1>2. /\ Sound(q)
      /\ q.capacity = cap /\ q.entries = tab.entries /\ q.coalesced = tab.coalesced
      /\ Cardinality(Full(cap, q.buckets)) = Cardinality(Full(c, tab.buckets))
      /\ Distinct(c, tab.buckets) => /\ Good(hash, cap, q.buckets)
                                     /\ Items(cap, q.buckets) = Items(c, tab.buckets)
  BY <1>1, Rehashed
<1> HIDE DEF q
<1> QED
  BY <1>1, <1>2 DEF Fits, Good, q

\* How one count of what the threads have entered changes.
Changed(hl, hl2, t, r, n) ==
    \A u \in Thread, x \in Ref : hl2[u][x] = IF u = t /\ x = r THEN n ELSE hl[u][x]

\* The monitor in bucket i gets an owner and a count.
Assign(tab, i, o, n) ==
    [tab EXCEPT !.buckets =
        [tab.buckets EXCEPT ![i] = [tab.buckets[i] EXCEPT !.owner = o, !.count = n]]]

\* A thread takes a monitor that is free or its own, again, or gives it back.
LEMMA AssignFits ==
    ASSUME NEW f \in Hashes, NEW tab, NEW hl, Fits(f, tab, hl),
           NEW i \in Full(tab.capacity, tab.buckets), NEW t \in Thread,
           tab.buckets[i].owner \in {t, NoThread},
           NEW o \in {t, NoThread}, NEW n \in Nat, o = NoThread <=> n = 0,
           NEW hl2, ~ tab.coalesced => Changed(hl, hl2, t, tab.buckets[i].ref, n)
    PROVE  LET q == Assign(tab, i, o, n)
           IN /\ Fits(f, q, hl2) /\ q.capacity = tab.capacity /\ q.entries = tab.entries
              /\ q.coalesced = tab.coalesced
<1> USE NullAssumption
<1> DEFINE c == tab.capacity
           b == tab.buckets
           e == [b[i] EXCEPT !.owner = o, !.count = n]
           b2 == [b EXCEPT ![i] = e]
           q == Assign(tab, i, o, n)
           r == b[i].ref
<1>1. tab \in Tables /\ c \in Nat \ {0} /\ Array(c, b) /\ i \in Slots(c) /\ r # NoRef
  BY DEF Fits, Sound, Tables, Full
<1>2. /\ b \in [Slots(c) -> Bucket] /\ b[i] \in Bucket /\ r \in Ref
      /\ \A k \in Slots(c) : /\ b[k].next \in Slots(c) \cup {Nil}
                             /\ b[k].owner = NoThread <=> b[k].count = 0
  BY <1>1 DEF Array, Bucket
<1>3. /\ e \in Bucket /\ e.owner = o /\ e.count = n /\ e.ref = r /\ e.next = b[i].next
  BY <1>2 DEF Bucket
<1>4. /\ q \in Tables /\ q.capacity = c /\ q.entries = tab.entries
      /\ q.coalesced = tab.coalesced /\ q.buckets = b2
  <2>1. b2 \in Arrays
    BY <1>1, <1>2, <1>3 DEF Arrays
  <2> QED
    BY <1>1, <2>1 DEF Tables, Assign
<1>5. b2 \in [Slots(c) -> Bucket] /\ b2[i] = e /\ \A k \in Slots(c) : k # i => b2[k] = b[k]
  BY <1>1, <1>2, <1>3
<1> HIDE DEF b2, e, q, b
<1>6. \A k \in Slots(c) : b2[k].ref = b[k].ref /\ b2[k].next = b[k].next
  BY <1>3, <1>5 DEF b
<1>7. Array(c, b2) /\ Full(c, b2) = Full(c, b) /\ Links(c, b2) = Links(c, b)
  <2>1. Array(c, b2)
    BY <1>2, <1>3, <1>5 DEF Array
  <2>2. Full(c, b2) = Full(c, b) /\ Links(c, b2) = Links(c, b)
    BY <1>6 DEF Full, Links
  <2> QED
    BY <2>1, <2>2
<1>8. ASSUME ~ tab.coalesced PROVE Good(f, c, b2) /\ Agrees(Items(c, b2), hl2)
  <2>1. Good(f, c, b) /\ Agrees(Items(c, b), hl)
    BY <1>8 DEF Fits, b
  <2>a. Changed(hl, hl2, t, b[i].ref, n)
    BY <1>8 DEF b
  <2>2. Distinct(c, b) /\ FreeIsFree(c, b) /\ OffChain(c, b)
    BY <2>1 DEF Good
  <2>3. Good(f, c, b2)
    <3>1. Distinct(c, b2)
      BY <1>6, <1>7, <2>2 DEF Distinct, Full
    <3>2. FreeIsFree(c, b2)
      BY <1>1, <1>5, <1>6, <2>2 DEF FreeIsFree
    <3>3. OffChain(c, b2)
      BY <1>2, <1>6, <2>2, <1>1 DEF OffChain
    <3>4. \A k \in Full(c, b2) : b2[k].ref = b[k].ref
      BY <1>6 DEF Full
    <3> QED
      BY <1>7, <2>1, <3>1, <3>2, <3>3, <3>4 DEF Good
  <2>4. i \in Full(c, b)
    BY DEF b
  <2>5. ASSUME NEW u \in Thread, NEW x \in Ref, hl2[u][x] > 0
        PROVE  <<x, u, hl2[u][x]>> \in Items(c, b2)
    <3>1. CASE x = r /\ u = t
      <4>1. hl2[u][x] = n
        BY <2>a, <3>1, <1>2 DEF Changed, b
      <4>2. o = t
        BY <2>5, <4>1
      <4> QED
        BY <1>3, <1>5, <1>7, <2>4, <3>1, <4>1, <4>2, <1>1 DEF Items
    <3>2. CASE ~ (x = r /\ u = t)
      <4>1. hl2[u][x] = hl[u][x]
        BY <2>a, <3>2, <1>2 DEF Changed, b
      <4>2. <<x, u, hl[u][x]>> \in Items(c, b)
        BY <2>1, <2>5, <4>1 DEF Agrees
      <4>3. PICK k \in Full(c, b) : <<x, u, hl[u][x]>> = <<b[k].ref, b[k].owner, b[k].count>>
        BY <4>2 DEF Items
      <4>4. k # i
        BY <3>2, <4>3 DEF b
      <4>5. b2[k] = b[k] /\ k \in Full(c, b2)
        BY <1>5, <1>7, <4>4 DEF Full
      <4> QED
        BY <4>1, <4>3, <4>5 DEF Items
    <3> QED
      BY <3>1, <3>2
  <2>6. ASSUME NEW it \in Items(c, b2), it[2] # NoThread PROVE it[3] = hl2[it[2]][it[1]]
    <3>1. PICK k \in Full(c, b) : it = <<b2[k].ref, b2[k].owner, b2[k].count>>
      BY <1>7, <2>6 DEF Items
    <3>2. CASE k = i
      BY <2>a, <1>1, <1>2, <1>3, <1>5, <2>6, <3>1, <3>2 DEF Changed, b
    <3>3. CASE k # i
      <4>1. k \in Slots(c) /\ b2[k] = b[k] /\ b[k].ref # r
        BY <1>5, <2>2, <2>4, <3>3 DEF Full, Distinct
      <4>2. it \in Items(c, b)
        BY <3>1, <4>1 DEF Items
      <4>3. it[3] = hl[it[2]][it[1]]
        BY <2>1, <2>6, <4>2 DEF Agrees
      <4>4. it[2] \in Thread /\ it[1] \in Ref
        <5>1. b[k] \in Bucket /\ b[k].ref # NoRef
          BY <1>2, <4>1 DEF Full
        <5> QED
          BY <2>6, <3>1, <4>1, <5>1 DEF Bucket
      <4>5. hl2[it[2]][it[1]] = hl[it[2]][it[1]]
        BY <2>a, <3>1, <4>1, <4>4 DEF Changed, b
      <4> QED
        BY <4>3, <4>5
    <3> QED
      BY <3>2, <3>3
  <2> QED
    BY <2>3, <2>5, <2>6 DEF Agrees
<1> QED
  BY <1>4, <1>7, <1>8 DEF Fits, Sound, q, b

\* The monitor in bucket i gets a condition.
SetCond(tab, i, r) == [tab EXCEPT !.buckets[i].cond = r]

\* The condition of a bucket plays no part in any of this.
LEMMA CondFits ==
    ASSUME NEW f \in Hashes, NEW tab, NEW hl, Fits(f, tab, hl),
           NEW i \in Slots(tab.capacity), NEW r \in Ref
    PROVE  LET q == SetCond(tab, i, r)
           IN /\ Fits(f, q, hl) /\ q.capacity = tab.capacity /\ q.entries = tab.entries
              /\ q.coalesced = tab.coalesced
<1> DEFINE c == tab.capacity
           b == tab.buckets
           e == [b[i] EXCEPT !.cond = r]
           b2 == [b EXCEPT ![i] = e]
           q == [tab EXCEPT !.buckets[i].cond = r]
<1>1. tab \in Tables /\ c \in Nat \ {0} /\ Array(c, b) /\ i \in Slots(c)
  BY DEF Fits, Sound, Tables
<1>2. b \in [Slots(c) -> Bucket] /\ b[i] \in Bucket
  BY <1>1 DEF Array
<1>3. /\ e \in Bucket /\ e.owner = b[i].owner /\ e.count = b[i].count /\ e.ref = b[i].ref
      /\ e.next = b[i].next
  BY <1>2 DEF Bucket
<1>4. /\ q \in Tables /\ q.capacity = c /\ q.entries = tab.entries
      /\ q.coalesced = tab.coalesced /\ q.buckets = b2
  <2>1. b2 \in Arrays
    BY <1>1, <1>2, <1>3 DEF Arrays
  <2>2. q = [tab EXCEPT !.buckets = b2]
    BY <1>1, <1>2 DEF Tables
  <2> HIDE DEF b2, q
  <2> QED
    BY <1>1, <2>1, <2>2 DEF Tables
<1>5. b2 \in [Slots(c) -> Bucket] /\ \A k \in Slots(c) : SameMonitor(b2[k], b[k]) /\ b2[k].next = b[k].next
  BY <1>1, <1>2, <1>3 DEF SameMonitor
<1> HIDE DEF b2, e, q, b
<1>6. /\ Array(c, b2) /\ Full(c, b2) = Full(c, b) /\ Links(c, b2) = Links(c, b)
      /\ Items(c, b2) = Items(c, b)
  <2>1. Array(c, b2)
    BY <1>1, <1>5 DEF Array, SameMonitor
  <2>2. Full(c, b2) = Full(c, b) /\ Links(c, b2) = Links(c, b)
    BY <1>5 DEF Full, Links, SameMonitor
  <2>3. Items(c, b2) = Items(c, b)
    BY <1>5, <2>2 DEF Items, SameMonitor, Full
  <2> QED
    BY <2>1, <2>2, <2>3
<1>7. ASSUME Good(f, c, b) PROVE Good(f, c, b2)
  <2>1. Distinct(c, b2)
    BY <1>5, <1>6, <1>7 DEF Distinct, Full, SameMonitor, Good
  <2>2. FreeIsFree(c, b2)
    BY <1>5, <1>7 DEF FreeIsFree, SameMonitor, Good
  <2>3. OffChain(c, b2)
    <3>1. OffChain(c, b) /\ \A k \in Slots(c) : b[k].next \in Slots(c) \cup {Nil}
      BY <1>1, <1>7 DEF Array, Good
    <3> QED
      BY <1>5, <3>1 DEF OffChain, SameMonitor
  <2>4. \A k \in Full(c, b2) : b2[k].ref = b[k].ref
    BY <1>5 DEF Full, SameMonitor
  <2> QED
    BY <1>6, <1>7, <2>1, <2>2, <2>3, <2>4 DEF Good
<1> QED
  BY <1>4, <1>6, <1>7 DEF Fits, Sound, SetCond, q, b

\* The table with a monitor added for r, before it grows or shrinks.
More(tab, t, r) ==
    LET slot == tab.buckets[FreeBucket(tab, Home(tab, r))]
    IN [Insert(tab, [slot EXCEPT !.ref = r, !.owner = t, !.count = 1]) EXCEPT !.entries = @ + 1]

\* A monitor is added for an object that has none.
LEMMA AddFits ==
    ASSUME hash \in Hashes, NEW tab, NEW hl, Fits(hash, tab, hl), tab.entries < tab.capacity,
           NEW t \in Thread, NEW r \in Ref,
           ~ tab.coalesced => \A k \in Full(tab.capacity, tab.buckets) : tab.buckets[k].ref # r,
           NEW hl2, ~ tab.coalesced => Changed(hl, hl2, t, r, 1)
    PROVE  /\ Fits(hash, More(tab, t, r), hl2) /\ More(tab, t, r).capacity = tab.capacity
           /\ More(tab, t, r).entries = tab.entries + 1
           /\ More(tab, t, r).coalesced = tab.coalesced
<1> USE NullAssumption
<1> DEFINE c == tab.capacity
           b == tab.buckets
           slot == b[FreeBucket(tab, Home(tab, r))]
           m == [slot EXCEPT !.ref = r, !.owner = t, !.count = 1]
           q == Insert(tab, m)
           more == [q EXCEPT !.entries = @ + 1]
<1>1. tab \in Tables /\ c \in Nat \ {0} /\ Array(c, b) /\ tab.entries = Cardinality(Full(c, b))
      /\ Sound(tab) /\ tab.entries \in Nat
  BY DEF Fits, Sound, Tables
<1>2. slot \in Bucket
  <2>1. PICK i \in Slots(c) : b[i].ref = NoRef
    BY <1>1, FullFinite
  <2>2. Home(tab, r) \in Slots(c)
    BY <1>1, HomeSlot DEF Home, HomeOf
  <2>3. FreeBucket(tab, Home(tab, r)) \in Slots(c)
    BY <1>1, <2>1, <2>2, FreeBucketFound
  <2> QED
    BY <1>1, <2>3 DEF Array
<1> HIDE DEF slot
<1>3. m \in Monitors /\ m.ref = r /\ m.owner = t /\ m.count = 1
  <2>1. m \in Bucket
    BY <1>2 DEF Bucket
  <2>2. m.ref = r /\ m.owner = t /\ m.count = 1
    BY <1>2 DEF Bucket
  <2>3. m.owner = NoThread <=> m.count = 0
    BY <2>2
  <2> HIDE DEF m
  <2> QED
    BY <2>1, <2>2, <2>3 DEF Monitors
<1> HIDE DEF m
<1>4. /\ Sound(q)
      /\ q.capacity = c /\ q.entries = tab.entries /\ q.coalesced = tab.coalesced
      /\ Cardinality(Full(c, q.buckets)) = Cardinality(Full(c, b)) + 1
      /\ Items(c, q.buckets) = Items(c, b) \cup {<<r, t, 1>>}
      /\ /\ Good(hash, c, b)
         /\ \A k \in Full(c, b) : b[k].ref # r
         => Good(hash, c, q.buckets)
  BY <1>1, <1>3, Inserted
<1> HIDE DEF q
<1>5. /\ more.capacity = c /\ more.entries = tab.entries + 1 /\ more.coalesced = tab.coalesced
      /\ more.buckets = q.buckets /\ more \in Tables
  BY <1>1, <1>4 DEF Sound, Tables
<1> HIDE DEF more
<1>6. ASSUME ~ tab.coalesced
      PROVE  Good(hash, c, q.buckets) /\ Agrees(Items(c, q.buckets), hl2)
  <2>1. Good(hash, c, b) /\ Agrees(Items(c, b), hl) /\ \A k \in Full(c, b) : b[k].ref # r
    BY <1>6 DEF Fits
  <2>a. Changed(hl, hl2, t, r, 1)
    BY <1>6
  <2>2. \A it \in Items(c, b) : it[1] # r
    BY <2>1 DEF Items
  <2>3. ASSUME NEW u \in Thread, NEW x \in Ref, hl2[u][x] > 0
        PROVE  <<x, u, hl2[u][x]>> \in Items(c, q.buckets)
    <3>1. CASE u = t /\ x = r
      BY <1>4, <3>1, <2>a DEF Changed
    <3>2. CASE ~ (u = t /\ x = r)
      BY <1>4, <2>1, <2>3, <3>2, <2>a DEF Changed, Agrees
    <3> QED
      BY <3>1, <3>2
  <2>4. ASSUME NEW it \in Items(c, q.buckets), it[2] # NoThread PROVE it[3] = hl2[it[2]][it[1]]
    <3>1. CASE it = <<r, t, 1>>
      BY <3>1, <2>a DEF Changed
    <3>2. CASE it \in Items(c, b)
      <4>1. it[3] = hl[it[2]][it[1]] /\ it[1] # r
        BY <2>1, <2>2, <2>4, <3>2 DEF Agrees
      <4>2. it[2] \in Thread /\ it[1] \in Ref
        <5>1. PICK k \in Full(c, b) : it = <<b[k].ref, b[k].owner, b[k].count>>
          BY <3>2 DEF Items
        <5>2. b[k] \in Bucket /\ b[k].ref # NoRef
          BY <1>1 DEF Full, Array
        <5> QED
          BY <2>4, <5>1, <5>2 DEF Bucket
      <4> QED
        BY <4>1, <4>2, <2>a DEF Changed
    <3> QED
      BY <1>4, <3>1, <3>2
  <2> QED
    BY <1>4, <2>1, <2>3, <2>4 DEF Agrees
<1>7. Fits(hash, more, hl2)
  BY <1>1, <1>4, <1>5, <1>6 DEF Fits, Sound
<1> QED
  BY <1>5, <1>7 DEF More, more, q, m, slot

---------------------------------------------------------------------------
(* The invariant.                                                          *)

TableInv ==
    /\ hash \in [Ref -> HashValues]
    /\ holds \in [Thread -> [Ref -> 0 .. MaxCount]]
    /\ parked \in [Thread -> Ref \cup {NoRef}]
    /\ table.capacity <= MaxCapacity /\ table.entries < table.capacity
    /\ Fits(hash, table, holds)

\* The assignments of the operations, to the owner and to the count.
Take(tab, i, o, n) == [tab EXCEPT !.buckets[i].owner = o, !.buckets[i].count = n]

Recount(tab, i, n) == [tab EXCEPT !.buckets[i].count = n]

\* They are one.
LEMMA AssignForms ==
    ASSUME NEW tab, Sound(tab), NEW i \in Slots(tab.capacity), NEW o, NEW n
    PROVE  /\ Take(tab, i, o, n) = Assign(tab, i, o, n)
           /\ o = tab.buckets[i].owner => Recount(tab, i, n) = Assign(tab, i, o, n)
<1> DEFINE b == tab.buckets
           e == [b[i] EXCEPT !.owner = o, !.count = n]
<1>1. tab \in Tables /\ b \in [Slots(tab.capacity) -> Bucket] /\ b[i] \in Bucket
  BY DEF Sound, Array
<1>2. [tab EXCEPT !.buckets[i].owner = o, !.buckets[i].count = n]
      = [tab EXCEPT !.buckets = [b EXCEPT ![i] = e]]
  BY <1>1 DEF Tables
<1>3. ASSUME o = b[i].owner
      PROVE  [tab EXCEPT !.buckets[i].count = n] = [tab EXCEPT !.buckets = [b EXCEPT ![i] = e]]
  <2>1. [b[i] EXCEPT !.count = n] = e
    BY <1>1, <1>3 DEF Bucket
  <2> HIDE DEF e
  <2>2. [b EXCEPT ![i].count = n] = [b EXCEPT ![i] = e]
    BY <1>1, <2>1
  <2> QED
    BY <1>1, <2>2 DEF Tables
<1> QED
  BY <1>2, <1>3 DEF Assign, Take, Recount

\* Who owns a monitor has entered it as often as it counts; nobody else has.
LEMMA Owners ==
    ASSUME NEW f, NEW tab, NEW hl, Fits(f, tab, hl), ~ tab.coalesced, NEW t \in Thread, NEW r \in Ref
    PROVE  /\ \A i \in Full(tab.capacity, tab.buckets) :
                 tab.buckets[i].ref = r =>
                    IF tab.buckets[i].owner = t THEN tab.buckets[i].count = hl[t][r]
                    ELSE ~ (hl[t][r] > 0)
           /\ hl[t][r] > 0 => \E i \in Full(tab.capacity, tab.buckets) : tab.buckets[i].ref = r
<1> USE NullAssumption
<1> DEFINE c == tab.capacity
           b == tab.buckets
<1>1. Distinct(c, b) /\ Agrees(Items(c, b), hl)
  BY DEF Fits, Good
<1>2. ASSUME hl[t][r] > 0
      PROVE  \E i \in Full(c, b) : b[i].ref = r /\ b[i].owner = t
  <2>1. <<r, t, hl[t][r]>> \in Items(c, b)
    BY <1>1, <1>2 DEF Agrees
  <2> QED
    BY <2>1 DEF Items
<1>3. ASSUME NEW i \in Full(c, b), b[i].ref = r
      PROVE  IF b[i].owner = t THEN b[i].count = hl[t][r] ELSE ~ (hl[t][r] > 0)
  <2>1. CASE b[i].owner = t
    <3>1. <<b[i].ref, b[i].owner, b[i].count>> \in Items(c, b)
      BY DEF Items
    <3> QED
      BY <1>1, <1>3, <2>1, <3>1 DEF Agrees
  <2>2. CASE b[i].owner # t
    <3>1. \A k \in Full(c, b) : b[k].ref = r => k = i
      BY <1>1, <1>3 DEF Distinct
    <3> QED
      BY <1>2, <2>2, <3>1
  <2> QED
    BY <2>1, <2>2
<1> QED
  BY <1>2, <1>3

\* At first the table is empty.
LEMMA TableInit ==
    ASSUME Init PROVE TableInv
<1> USE NullAssumption, CapacityAssumption
<1>1. PICK cap \in Capacities :
         table = [capacity |-> cap, entries |-> 0, buckets |-> EmptyBuckets(cap), coalesced |-> FALSE]
  BY DEF Init
<1>2. cap \in Nat \ {0} /\ cap <= MaxCapacity
  BY DEF CapacityAssumption
<1> DEFINE a == EmptyBuckets(cap)
<1>3. EmptyBucket \in Bucket /\ EmptyBucket.next = Nil /\ EmptyBucket.ref = NoRef
      /\ EmptyBucket.owner = NoThread /\ EmptyBucket.count = 0
  BY DEF EmptyBucket, Bucket, Nil
<1>4. a \in [Slots(cap) -> Bucket] /\ \A k \in Slots(cap) : a[k] = EmptyBucket
  BY <1>3 DEF EmptyBuckets, Slots
<1> HIDE DEF a
<1>5. /\ table.capacity = cap /\ table.entries = 0 /\ table.buckets = a /\ table.coalesced = FALSE
      /\ table \in Tables
  <2>1. a \in Arrays
    BY <1>2, <1>4 DEF Arrays
  <2>2. table = [capacity |-> cap, entries |-> 0, buckets |-> a, coalesced |-> FALSE]
    BY <1>1 DEF a
  <2> QED
    BY <1>2, <2>1, <2>2 DEF Tables
<1>6. Full(cap, a) = {} /\ Items(cap, a) = {}
  BY <1>3, <1>4 DEF Full, Items
<1>7. Array(cap, a)
  BY <1>3, <1>4 DEF Array
<1>8. Good(hash, cap, a)
  <2>1. Distinct(cap, a) /\ FreeIsFree(cap, a) /\ OffChain(cap, a)
    BY <1>3, <1>4, <1>6 DEF Distinct, FreeIsFree, OffChain
  <2>2. Acyclic(Slots(cap), Links(cap, a))
    <3>1. \A k \in Slots(cap) : Links(cap, a)[k] = Nil
      BY <1>3, <1>4 DEF Links
    <3>2. [k \in Slots(cap) |-> 0] \in [Slots(cap) -> Nat]
      OBVIOUS
    <3> QED
      BY <3>1, <3>2 DEF Acyclic
  <2> QED
    BY <1>6, <1>7, <2>1, <2>2 DEF Good
<1>9. holds = [t \in Thread |-> [r \in Ref |-> 0]] /\ parked = [t \in Thread |-> NoRef]
      /\ hash \in [Ref -> HashValues]
  BY DEF Init
<1>10. Agrees({}, holds)
  BY <1>9 DEF Agrees
<1>11. Fits(hash, table, holds)
  <2>1. Cardinality({}) = 0
    BY FS_EmptySet
  <2> QED
    BY <1>5, <1>6, <1>7, <1>8, <1>10, <2>1 DEF Fits, Sound
<1>12. holds \in [Thread -> [Ref -> 0 .. MaxCount]]
  <2>1. 0 \in 0 .. MaxCount
    BY DEF CapacityAssumption
  <2> QED
    BY <1>9, <2>1
<1> QED
  BY <1>2, <1>5, <1>9, <1>11, <1>12 DEF TableInv

\* What monitor_enter() makes of the table for a new monitor fits.
LEMMA AddedFits ==
    ASSUME hash \in Hashes, Fits(hash, table, holds), table.entries < table.capacity,
           NEW t \in Thread, NEW r \in Ref,
           ~ table.coalesced => \A k \in Full(table.capacity, table.buckets) : table.buckets[k].ref # r,
           NEW hl2, ~ table.coalesced => Changed(holds, hl2, t, r, 1),
           \A u \in Thread, x \in Ref : x # r /\ ~ (holds[u][x] > 0) => ~ (hl2[u][x] > 0),
           holds \in [Thread -> [Ref -> Nat]],
           NEW q \in Added(table, t, r)
    PROVE  Fits(hash, q, hl2) /\ q.entries < q.capacity /\ (q.coalesced \/ ~ table.coalesced)
<1> DEFINE c == table.capacity
           more == More(table, t, r)
<1>1. c \in Nat \ {0} /\ table.entries \in Nat
  BY DEF Fits, Sound, Tables
<1>2. /\ Fits(hash, more, hl2) /\ more.capacity = c
      /\ more.entries = table.entries + 1 /\ more.coalesced = table.coalesced
  BY AddFits
<1>3. q \in (IF more.entries = more.capacity
             THEN {Rehash(p, 2 * p.capacity) : p \in Allocating(more, {r})}
             ELSE IF more.entries < more.capacity \div 4
             THEN {Rehash(p, p.capacity \div 2) : p \in Allocating(more, {r})}
             ELSE {more})
  BY DEF Added, More
<1> HIDE DEF more
<1>4. more.entries \in Nat /\ more.capacity \in Nat \ {0} /\ more.entries <= more.capacity
  BY <1>1, <1>2
<1>a. \A a \in Nat \ {0}, e \in Nat : e <= a => 2 * a \in Nat \ {0} /\ e < 2 * a
  OBVIOUS
<1>b. \A a \in Nat \ {0}, d, e \in Nat :
         d < a \div 4 /\ e <= d => a \div 2 \in Nat \ {0} /\ e < a \div 2
  OBVIOUS
<1>5. ASSUME NEW p \in Allocating(more, {r})
      PROVE  /\ Fits(hash, p, hl2) /\ p.capacity = more.capacity /\ p.entries <= more.entries
             /\ p.coalesced \/ ~ more.coalesced
             /\ p.entries \in Nat
  <2> DEFINE used == {r}
  <2>1. \A x \in Dead(used) : \A u \in Thread : ~ (hl2[u][x] > 0)
    BY DEF Dead
  <2>a. Fits(hash, more, hl2) /\ p \in Allocating(more, used)
    BY <1>2, <1>5
  <2> HIDE DEF used
  <2>2. /\ Fits(hash, p, hl2) /\ p.capacity = more.capacity /\ p.entries <= more.entries
        /\ p.coalesced \/ ~ more.coalesced
    BY <2>1, <2>a, AllocFits
  <2> QED
    BY <2>2 DEF Fits, Sound, Tables
<1>6. CASE more.entries = more.capacity
  <2>1. PICK p \in Allocating(more, {r}) : q = Rehash(p, 2 * p.capacity)
    BY <1>3, <1>6
  <2>2. 2 * p.capacity \in Nat \ {0} /\ p.entries < 2 * p.capacity
    BY <1>4, <1>5, <1>6, <1>a
  <2>3. Fits(hash, q, hl2) /\ q.capacity = 2 * p.capacity /\ q.entries = p.entries /\ q.coalesced = p.coalesced
    BY <1>5, <2>1, <2>2, RehashFits
  <2> QED
    BY <1>2, <1>5, <2>2, <2>3
<1>7. CASE more.entries # more.capacity /\ more.entries < more.capacity \div 4
  <2>1. PICK p \in Allocating(more, {r}) : q = Rehash(p, p.capacity \div 2)
    BY <1>3, <1>7
  <2>2. p.capacity \div 2 \in Nat \ {0} /\ p.entries < p.capacity \div 2
    BY <1>4, <1>5, <1>7, <1>b
  <2>3. Fits(hash, q, hl2) /\ q.capacity = p.capacity \div 2 /\ q.entries = p.entries /\ q.coalesced = p.coalesced
    BY <1>5, <2>1, <2>2, RehashFits
  <2> QED
    BY <1>2, <1>5, <2>2, <2>3
<1>8. CASE more.entries # more.capacity /\ ~ (more.entries < more.capacity \div 4)
  <2>1. q = more
    BY <1>3, <1>8
  <2>2. more.entries < more.capacity
    BY <1>4, <1>8
  <2>3. q.entries < q.capacity
    BY <2>1, <2>2
  <2> QED
    BY <1>2, <2>1, <2>3
<1> QED
  BY <1>6, <1>7, <1>8
---------------------------------------------------------------------------
(* The steps.                                                              *)

\* What a step must make of the table and of what is held.
Stays(tab, hl) ==
    /\ Fits(hash, tab, hl)
    /\ tab.capacity <= MaxCapacity /\ tab.entries < tab.capacity
    /\ tab.coalesced \/ ~ table.coalesced

\* One entry of one thread changes.
LEMMA HoldsChange ==
    ASSUME holds \in [Thread -> [Ref -> 0 .. MaxCount]], NEW t \in Thread, NEW r \in Ref,
           NEW n \in 0 .. MaxCount
    PROVE  /\ [holds EXCEPT ![t][r] = n] \in [Thread -> [Ref -> 0 .. MaxCount]]
           /\ Changed(holds, [holds EXCEPT ![t][r] = n], t, r, n)
BY DEF Changed

\* What the invariant says, for the lemmas above.
LEMMA Facts ==
    ASSUME TableInv
    PROVE  /\ hash \in Hashes /\ holds \in [Thread -> [Ref -> Nat]]
           /\ Fits(hash, table, holds) /\ Sound(table)
           /\ table.capacity \in Nat \ {0} /\ table.entries \in Nat /\ table.entries < table.capacity
           /\ table.buckets \in [Slots(table.capacity) -> Bucket]
           /\ \A i \in Slots(table.capacity) :
                 table.buckets[i].owner = NoThread <=> table.buckets[i].count = 0
<1>1. hash \in Hashes
  BY CapacityAssumption DEF TableInv, Hashes
<1>2. holds \in [Thread -> [Ref -> Nat]]
  BY CapacityAssumption DEF TableInv
<1>3. Fits(hash, table, holds) /\ Sound(table) /\ table.entries < table.capacity
  BY DEF TableInv, Fits
<1> QED
  BY <1>1, <1>2, <1>3 DEF Sound, Tables, Array

\* A lookup that finds a bucket finds the one of its object, one that finds none
\* says there is none.
LEMMA Lookup ==
    ASSUME TableInv, NEW r \in Ref
    PROVE  /\ Find(table, r) # Nil => /\ Find(table, r) \in Full(table.capacity, table.buckets)
                                      /\ table.buckets[Find(table, r)].ref = r
           /\ Find(table, r) = Nil /\ ~ table.coalesced
                => \A k \in Full(table.capacity, table.buckets) : table.buckets[k].ref # r
<1>1. hash \in Hashes /\ Sound(table) /\ Fits(hash, table, holds)
  BY Facts
<1>2. ASSUME Find(table, r) # Nil
      PROVE  /\ Find(table, r) \in Full(table.capacity, table.buckets)
             /\ table.buckets[Find(table, r)].ref = r
  <2>1. Find(table, r) \in Slots(table.capacity) /\ table.buckets[Find(table, r)].ref = r
    BY <1>1, <1>2, FindSlot
  <2> QED
    BY <2>1, NullAssumption DEF Full
<1>3. ASSUME Find(table, r) = Nil, ~ table.coalesced,
             NEW k \in Full(table.capacity, table.buckets), table.buckets[k].ref = r
      PROVE  FALSE
  <2>1. Good(hash, table.capacity, table.buckets)
    BY <1>1, <1>3 DEF Fits
  <2>2. Find(table, r) = k
    BY <1>1, <1>3, <2>1, FindGood
  <2> QED
    BY <1>3, <2>2 DEF Full, Slots, Nil
<1> QED
  BY <1>2, <1>3

\* monitor_enter().
LEMMA EnterKeeps ==
    ASSUME TableInv, NEW t \in Thread, NEW r \in Ref, Enter(t, r)
    PROVE  Stays(table', holds')
<1> USE NullAssumption
<1> DEFINE n == holds[t][r] + 1
           b == table.buckets
           c == table.capacity
<1>a. PICK i : i = Find(table, r)
  OBVIOUS
<1>b. PICK hl2 : hl2 = [holds EXCEPT ![t][r] = n]
  OBVIOUS
<1>1. /\ hash \in Hashes /\ Fits(hash, table, holds) /\ Sound(table)
      /\ c \in Nat /\ c <= MaxCapacity /\ table.entries < c
      /\ b \in [Slots(c) -> Bucket] /\ holds \in [Thread -> [Ref -> Nat]]
      /\ holds \in [Thread -> [Ref -> 0 .. MaxCount]]
  BY Facts DEF TableInv
<1>2. holds' = hl2 /\ n \in 0 .. MaxCount /\ n \in Nat \ {0}
  <2>1. holds[t][r] < MaxCount /\ holds[t][r] \in Nat /\ MaxCount \in Nat
    BY <1>1, CapacityAssumption DEF Enter
  <2>2. \A x, y \in Nat : x < y => x + 1 \in 0 .. y /\ x + 1 \in Nat \ {0}
    OBVIOUS
  <2> QED
    BY <1>b, <2>1, <2>2 DEF Enter
<1>3. Changed(holds, hl2, t, r, n)
  <2> HIDE DEF n
  <2> QED
    BY <1>1, <1>2, <1>b, HoldsChange
<1>4. /\ i # Nil => i \in Full(c, b) /\ b[i].ref = r
      /\ i = Nil /\ ~ table.coalesced => \A k \in Full(c, b) : b[k].ref # r
  BY <1>a, Lookup
<1>5. \/ i # Nil /\ b[i].owner = NoThread
         /\ table' = [table EXCEPT !.buckets[i].owner = t, !.buckets[i].count = 1]
      \/ i # Nil /\ b[i].owner = t /\ table' = [table EXCEPT !.buckets[i].count = @ + 1]
      \/ i = Nil /\ table' \in Added(table, t, r) /\ table'.capacity <= MaxCapacity
  BY <1>a DEF Enter
<1>6. CASE i # Nil /\ b[i].owner = NoThread
           /\ table' = [table EXCEPT !.buckets[i].owner = t, !.buckets[i].count = 1]
  <2>1. i \in Full(c, b) /\ i \in Slots(c) /\ b[i].ref = r /\ b[i].owner \in {t, NoThread}
    BY <1>4, <1>6 DEF Full
  <2>2. table' = Assign(table, i, t, 1)
    <3>1. Take(table, i, t, 1) = Assign(table, i, t, 1)
      BY <1>1, <2>1, AssignForms
    <3> QED
      BY <1>6, <3>1 DEF Take
  <2>3. ~ table.coalesced => Changed(holds, hl2, t, b[i].ref, 1)
    <3>1. SUFFICES ASSUME ~ table.coalesced PROVE Changed(holds, hl2, t, r, 1)
      BY <2>1
    <3>2. ~ (holds[t][r] > 0)
      BY <1>1, <1>6, <2>1, <3>1, Owners
    <3>3. n = 1
      BY <1>1, <3>2
    <3> QED
      BY <1>3, <3>3
  <2>4. t = NoThread <=> 1 = 0
    OBVIOUS
  <2>5. LET q == Assign(table, i, t, 1)
        IN /\ Fits(hash, q, hl2) /\ q.capacity = table.capacity /\ q.entries = table.entries
           /\ q.coalesced = table.coalesced
    <3>1. t \in {t, NoThread} /\ 1 \in Nat
      OBVIOUS
    <3>2. hash \in Hashes /\ Fits(hash, table, holds) /\ i \in Full(table.capacity, table.buckets)
          /\ table.buckets[i].owner \in {t, NoThread}
      BY <1>1, <2>1
    <3> QED
      BY <2>3, <2>4, <3>1, <3>2, AssignFits
  <2> QED
    BY <1>1, <1>2, <2>2, <2>5 DEF Stays
<1>7. CASE i # Nil /\ b[i].owner = t /\ table' = [table EXCEPT !.buckets[i].count = @ + 1]
  <2>1. i \in Full(c, b) /\ i \in Slots(c) /\ b[i].ref = r /\ b[i].owner \in {t, NoThread}
    BY <1>4, <1>7 DEF Full
  <2> DEFINE m == b[i].count + 1
  <2>2. m \in Nat \ {0}
    <3>1. b[i].count \in Nat
      BY <1>1, <2>1 DEF Bucket
    <3> QED
      BY <3>1
  <2>3. ~ table.coalesced => Changed(holds, hl2, t, b[i].ref, m)
    <3>1. SUFFICES ASSUME ~ table.coalesced PROVE Changed(holds, hl2, t, r, m)
      BY <2>1
    <3>2. b[i].count = holds[t][r]
      BY <1>1, <1>7, <2>1, <3>1, Owners
    <3> QED
      BY <1>3, <3>2
  <2>4. table' = [table EXCEPT !.buckets[i].count = m]
    BY <1>7
  <2> HIDE DEF m
  <2>5. table' = Assign(table, i, t, m)
    <3>1. Recount(table, i, m) = Assign(table, i, t, m)
      BY <1>1, <1>7, <2>1, AssignForms
    <3> QED
      BY <2>4, <3>1 DEF Recount
  <2>6. t = NoThread <=> m = 0
    BY <2>2
  <2>7. LET q == Assign(table, i, t, m)
        IN /\ Fits(hash, q, hl2) /\ q.capacity = table.capacity /\ q.entries = table.entries
           /\ q.coalesced = table.coalesced
    <3>1. t \in {t, NoThread} /\ m \in Nat
      BY <2>2
    <3>2. hash \in Hashes /\ Fits(hash, table, holds) /\ i \in Full(table.capacity, table.buckets)
          /\ table.buckets[i].owner \in {t, NoThread}
      BY <1>1, <2>1
    <3> HIDE DEF m
    <3> QED
      BY <2>3, <2>6, <3>1, <3>2, AssignFits
  <2> QED
    BY <1>1, <1>2, <2>5, <2>7 DEF Stays
<1>8. CASE i = Nil /\ table' \in Added(table, t, r) /\ table'.capacity <= MaxCapacity
  <2>1. ~ table.coalesced => \A k \in Full(c, b) : b[k].ref # r
    BY <1>4, <1>8
  <2>2. ~ table.coalesced => Changed(holds, hl2, t, r, 1)
    <3>1. SUFFICES ASSUME ~ table.coalesced PROVE Changed(holds, hl2, t, r, 1)
      OBVIOUS
    <3>2. ~ (holds[t][r] > 0)
      BY <1>1, <2>1, <3>1, Owners
    <3>3. n = 1
      BY <1>1, <3>2
    <3> QED
      BY <1>3, <3>3
  <2>3. \A u \in Thread, x \in Ref : x # r /\ ~ (holds[u][x] > 0) => ~ (hl2[u][x] > 0)
    BY <1>3 DEF Changed
  <2> DEFINE q == table'
  <2>4. q \in Added(table, t, r)
    BY <1>8
  <2> HIDE DEF q
  <2>5. Fits(hash, q, hl2) /\ q.entries < q.capacity /\ (q.coalesced \/ ~ table.coalesced)
    BY <1>1, <2>1, <2>2, <2>3, <2>4, AddedFits
  <2> QED
    BY <1>2, <1>8, <2>5 DEF Stays, q
<1> QED
  BY <1>5, <1>6, <1>7, <1>8
\* monitor_exit().
LEMMA ExitKeeps ==
    ASSUME TableInv, NEW t \in Thread, NEW r \in Ref, Exit(t, r)
    PROVE  Stays(table', holds')
<1> USE NullAssumption
<1> DEFINE n == holds[t][r] - 1
           b == table.buckets
           c == table.capacity
<1>a. PICK i : i = Find(table, r)
  OBVIOUS
<1>b. PICK hl2 : hl2 = [holds EXCEPT ![t][r] = n]
  OBVIOUS
<1>1. /\ hash \in Hashes /\ Fits(hash, table, holds) /\ Sound(table)
      /\ c \in Nat /\ c <= MaxCapacity /\ table.entries < c
      /\ b \in [Slots(c) -> Bucket] /\ holds \in [Thread -> [Ref -> Nat]]
      /\ holds \in [Thread -> [Ref -> 0 .. MaxCount]]
  BY Facts DEF TableInv
<1>2. holds' = hl2 /\ n \in 0 .. MaxCount
  <2>1. holds[t][r] > 0 /\ holds[t][r] \in 0 .. MaxCount /\ MaxCount \in Nat
    BY <1>1, CapacityAssumption DEF Exit
  <2>2. \A y \in Nat : \A x \in 0 .. y : x > 0 => x - 1 \in 0 .. y
    OBVIOUS
  <2> QED
    BY <1>b, <2>1, <2>2 DEF Exit
<1>3. Changed(holds, hl2, t, r, n)
  <2> HIDE DEF n
  <2> QED
    BY <1>1, <1>2, <1>b, HoldsChange
<1>4. i \in Full(c, b) /\ i \in Slots(c) /\ b[i].ref = r /\ b[i].owner = t
  BY <1>a, Lookup DEF Exit, Full
<1> DEFINE m == b[i].count - 1
           o == IF b[i].count = 1 THEN NoThread ELSE t
<1>5. m \in Nat /\ o \in {t, NoThread} /\ (o = NoThread <=> m = 0)
  <2>1. b[i].count \in Nat /\ b[i].count # 0
    <3>1. b[i].owner = NoThread <=> b[i].count = 0
      BY <1>4, Facts
    <3> QED
      BY <1>1, <1>4, <3>1 DEF Bucket
  <2>2. \A x \in Nat : x # 0 => x - 1 \in Nat /\ (x = 1 <=> x - 1 = 0)
    OBVIOUS
  <2> QED
    BY <2>1, <2>2
<1>6. table' = Take(table, i, o, m)
  <2>1. table' = [table EXCEPT !.buckets[i].owner = IF table.buckets[i].count = 1 THEN NoThread ELSE @,
                               !.buckets[i].count = @ - 1]
    BY <1>a DEF Exit
  <2>2. table \in Tables /\ b[i] \in Bucket
    BY <1>1, <1>4 DEF Sound
  <2> QED
    BY <1>1, <1>4, <2>1, <2>2 DEF Take, Tables, Bucket
<1> HIDE DEF m, o
<1>7. table' = Assign(table, i, o, m)
  BY <1>1, <1>4, <1>6, AssignForms
<1>8. ~ table.coalesced => Changed(holds, hl2, t, b[i].ref, m)
  <2>1. SUFFICES ASSUME ~ table.coalesced PROVE Changed(holds, hl2, t, r, m)
    BY <1>4
  <2>2. b[i].count = holds[t][r]
    BY <1>1, <1>4, <2>1, Owners
  <2> QED
    BY <1>3, <2>2 DEF m
<1>9. LET q == Assign(table, i, o, m)
      IN /\ Fits(hash, q, hl2) /\ q.capacity = table.capacity /\ q.entries = table.entries
         /\ q.coalesced = table.coalesced
  <2>1. hash \in Hashes /\ Fits(hash, table, holds) /\ i \in Full(table.capacity, table.buckets)
        /\ table.buckets[i].owner \in {t, NoThread}
    BY <1>1, <1>4
  <2> QED
    BY <1>5, <1>8, <2>1, AssignFits
<1> QED
  BY <1>1, <1>2, <1>7, <1>9 DEF Stays

\* thread_wait(): the allocation of the condition may purge the table, but not of
\* the monitor given up, and leaves its capacity.
LEMMA WaitKeeps ==
    ASSUME TableInv, NEW t \in Thread, NEW r \in Ref, Wait(t, r)
    PROVE  Stays(table', holds')
<1> USE NullAssumption
<1> DEFINE b == table.buckets
           c == table.capacity
<1>a. PICK i : i = Find(table, r)
  OBVIOUS
<1>b. PICK hl2 : hl2 = [holds EXCEPT ![t][r] = 0]
  OBVIOUS
<1>c. PICK freed : freed = Take(table, i, NoThread, 0)
  OBVIOUS
<1>1. /\ hash \in Hashes /\ Fits(hash, table, holds) /\ Sound(table)
      /\ c \in Nat /\ c <= MaxCapacity /\ table.entries < c /\ table.entries \in Nat
      /\ b \in [Slots(c) -> Bucket] /\ holds \in [Thread -> [Ref -> Nat]]
      /\ holds \in [Thread -> [Ref -> 0 .. MaxCount]]
  BY Facts DEF TableInv
<1>2. holds' = hl2
  BY <1>b DEF Wait
<1>3. Changed(holds, hl2, t, r, 0)
  <2>1. 0 \in 0 .. MaxCount
    BY CapacityAssumption
  <2> QED
    BY <1>1, <1>b, <2>1, HoldsChange
<1>4. i \in Full(c, b) /\ i \in Slots(c) /\ b[i].ref = r /\ b[i].owner = t
  BY <1>a, Lookup DEF Wait, Full
<1>5. freed = Assign(table, i, NoThread, 0)
  BY <1>1, <1>4, <1>c, AssignForms
<1>6. /\ Fits(hash, freed, hl2) /\ freed.capacity = c /\ freed.entries = table.entries
      /\ freed.coalesced = table.coalesced
  <2>1. hash \in Hashes /\ Fits(hash, table, holds) /\ i \in Full(table.capacity, table.buckets)
        /\ table.buckets[i].owner \in {t, NoThread}
    BY <1>1, <1>4
  <2>2. ~ table.coalesced => Changed(holds, hl2, t, table.buckets[i].ref, 0)
    BY <1>3, <1>4
  <2>3. NoThread \in {t, NoThread} /\ 0 \in Nat /\ (NoThread = NoThread <=> 0 = 0)
    OBVIOUS
  <2>4. LET q == Assign(table, i, NoThread, 0)
        IN /\ Fits(hash, q, hl2) /\ q.capacity = table.capacity /\ q.entries = table.entries
           /\ q.coalesced = table.coalesced
    BY <2>1, <2>2, <2>3, AssignFits
  <2> QED
    BY <1>5, <2>4
<1>7. \/ table' = freed
      \/ \E p \in Allocating(freed, {r}) : table' = [p EXCEPT !.buckets[i].cond = r]
  BY <1>a, <1>c DEF Wait, Take
<1>8. CASE table' = freed
  BY <1>1, <1>2, <1>6, <1>8 DEF Stays
<1>9. ASSUME NEW p \in Allocating(freed, {r}), table' = [p EXCEPT !.buckets[i].cond = r]
      PROVE  Stays(table', holds')
  <2> DEFINE used == {r}
  <2>1. p \in Allocating(freed, used)
    BY <1>9
  <2>2. \A x \in Dead(used) : \A u \in Thread : ~ (hl2[u][x] > 0)
    BY <1>3 DEF Dead, Changed
  <2> HIDE DEF used
  <2>3. /\ Fits(hash, p, hl2) /\ p.capacity = freed.capacity /\ p.entries <= freed.entries
        /\ p.coalesced \/ ~ freed.coalesced
    BY <1>1, <1>6, <2>1, <2>2, AllocFits
  <2>4. i \in Slots(p.capacity) /\ p.entries \in Nat
    BY <1>4, <1>6, <2>3 DEF Fits, Sound, Tables
  <2> DEFINE q == SetCond(p, i, r)
  <2>5. Fits(hash, q, hl2) /\ q.capacity = p.capacity /\ q.entries = p.entries /\ q.coalesced = p.coalesced
    <3>1. hash \in Hashes /\ Fits(hash, p, hl2) /\ i \in Slots(p.capacity)
      BY <1>1, <2>3, <2>4
    <3> QED
      BY <3>1, CondFits
  <2> HIDE DEF q
  <2>6. table' = q
    BY <1>9 DEF q, SetCond
  <2>7. q.entries < q.capacity
    <3>1. \A x, y, z \in Nat : x <= y /\ y < z => x < z
      OBVIOUS
    <3> QED
      BY <1>1, <1>6, <2>3, <2>4, <2>5, <3>1
  <2> QED
    BY <1>1, <1>2, <1>6, <2>3, <2>5, <2>6, <2>7 DEF Stays
<1> QED
  BY <1>7, <1>8, <1>9

\* A collection.
LEMMA CollectKeeps ==
    ASSUME TableInv, Collect
    PROVE  Stays(table', holds')
<1>1. /\ hash \in Hashes /\ Fits(hash, table, holds) /\ Sound(table)
      /\ table.capacity \in Nat /\ table.capacity <= MaxCapacity /\ table.entries < table.capacity
      /\ table.entries \in Nat
  BY Facts DEF TableInv
<1>2. PICK p \in Allocating(table, {}) : table' = p
  BY DEF Collect
<1> DEFINE used == {}
<1>3. \A x \in Dead(used) : \A u \in Thread : ~ (holds[u][x] > 0)
  BY DEF Dead
<1>4. p \in Allocating(table, used)
  BY <1>2
<1> HIDE DEF used
<1>5. /\ Fits(hash, p, holds) /\ p.capacity = table.capacity /\ p.entries <= table.entries
      /\ p.coalesced \/ ~ table.coalesced
  BY <1>1, <1>3, <1>4, AllocFits
<1>6. p.entries \in Nat
  BY <1>5 DEF Fits, Sound, Tables
<1>7. p.entries < p.capacity
  <2>1. \A x, y, z \in Nat : x <= y /\ y < z => x < z
    OBVIOUS
  <2> QED
    BY <1>1, <1>5, <1>6, <2>1
<1>8. holds' = holds
  BY DEF Collect
<1> QED
  BY <1>1, <1>2, <1>5, <1>7, <1>8 DEF Stays

\* Every step keeps the invariant, and a table that has been coalesced in a
\* collection stays marked.
LEMMA TableStep ==
    ASSUME TableInv, [Next]_vars
    PROVE  TableInv' /\ (table'.coalesced \/ ~ table.coalesced)
<1>1. /\ holds \in [Thread -> [Ref -> 0 .. MaxCount]] /\ parked \in [Thread -> Ref \cup {NoRef}]
      /\ hash \in [Ref -> HashValues] /\ MaxCount \in Nat
  BY CapacityAssumption DEF TableInv
<1>2. ASSUME Stays(table', holds'), hash' = hash,
             holds' \in [Thread -> [Ref -> 0 .. MaxCount]], parked' \in [Thread -> Ref \cup {NoRef}]
      PROVE  TableInv' /\ (table'.coalesced \/ ~ table.coalesced)
  BY <1>1, <1>2 DEF Stays, TableInv
<1>3. ASSUME NEW t \in Thread, NEW r \in Ref, Enter(t, r)
      PROVE  TableInv' /\ (table'.coalesced \/ ~ table.coalesced)
  <2>1. holds' \in [Thread -> [Ref -> 0 .. MaxCount]]
    <3>1. holds' = [holds EXCEPT ![t][r] = holds[t][r] + 1] /\ holds[t][r] < MaxCount
          /\ holds[t][r] \in 0 .. MaxCount
      BY <1>1, <1>3 DEF Enter
    <3>2. holds[t][r] + 1 \in 0 .. MaxCount
      BY <1>1, <3>1
    <3> QED
      BY <1>1, <3>1, <3>2
  <2>2. Stays(table', holds') /\ hash' = hash /\ parked' = parked
    BY <1>3, EnterKeeps DEF Enter
  <2> QED
    BY <1>1, <1>2, <2>1, <2>2
<1>4. ASSUME NEW t \in Thread, NEW r \in Ref, Exit(t, r)
      PROVE  TableInv' /\ (table'.coalesced \/ ~ table.coalesced)
  <2>1. holds' \in [Thread -> [Ref -> 0 .. MaxCount]]
    <3>1. holds' = [holds EXCEPT ![t][r] = holds[t][r] - 1] /\ holds[t][r] > 0
          /\ holds[t][r] \in 0 .. MaxCount
      BY <1>1, <1>4 DEF Exit
    <3>2. holds[t][r] - 1 \in 0 .. MaxCount
      BY <1>1, <3>1
    <3> QED
      BY <1>1, <3>1, <3>2
  <2>2. Stays(table', holds') /\ hash' = hash /\ parked' = parked
    BY <1>4, ExitKeeps DEF Exit
  <2> QED
    BY <1>1, <1>2, <2>1, <2>2
<1>5. ASSUME NEW t \in Thread, NEW r \in Ref, Wait(t, r)
      PROVE  TableInv' /\ (table'.coalesced \/ ~ table.coalesced)
  <2>1. holds' = [holds EXCEPT ![t][r] = 0] /\ parked' = [parked EXCEPT ![t] = r] /\ hash' = hash
    BY <1>5 DEF Wait
  <2>2. holds' \in [Thread -> [Ref -> 0 .. MaxCount]] /\ parked' \in [Thread -> Ref \cup {NoRef}]
    <3>1. 0 \in 0 .. MaxCount
      BY <1>1
    <3> QED
      BY <1>1, <2>1, <3>1
  <2>3. Stays(table', holds')
    BY <1>5, WaitKeeps
  <2> QED
    BY <1>2, <2>1, <2>2, <2>3
<1>6. ASSUME NEW t \in Thread, WakeUp(t)
      PROVE  TableInv' /\ (table'.coalesced \/ ~ table.coalesced)
  BY <1>1, <1>6 DEF WakeUp, TableInv
<1>7. ASSUME Collect PROVE TableInv' /\ (table'.coalesced \/ ~ table.coalesced)
  <2>1. Stays(table', holds') /\ hash' = hash /\ parked' = parked /\ holds' = holds
    BY <1>7, CollectKeeps DEF Collect
  <2> QED
    BY <1>1, <1>2, <2>1
<1>8. CASE UNCHANGED vars
  BY <1>8 DEF vars, TableInv
<1> QED
  BY <1>3, <1>4, <1>5, <1>6, <1>7, <1>8 DEF Next

---------------------------------------------------------------------------
(* What the invariant says.                                                *)

\* The table of monitors is sound in every state: tm.entries counts its monitors,
\* a free bucket is left, and until a collection has met a coalesced table the
\* chain of every home leads to the monitors of that home, no chain is circular
\* and the monitors are those the threads have entered.
THEOREM TableInvariant == Spec => []TableInv
<1>1. Init => TableInv
  BY TableInit
<1>2. TableInv /\ [Next]_vars => TableInv'
  BY TableStep
<1> QED
  BY <1>1, <1>2, PTL DEF Spec

\* The loops of the lookups and of the probing end: tm.entries is what it should
\* be, a bucket is free, and no chain is circular.
THEOREM LoopsEnd == Spec => []LookupEnds
<1>1. ASSUME TableInv PROVE LookupEnds
  <2> DEFINE c == table.capacity
             b == table.buckets
  <2>1. /\ Sound(table) /\ c \in Nat \ {0} /\ table.entries \in Nat /\ table.entries < c
        /\ b \in [Slots(c) -> Bucket] /\ c <= MaxCapacity /\ Array(c, b) /\ table.coalesced \in BOOLEAN
        /\ table.entries = Cardinality(Full(c, b))
    BY <1>1, Facts DEF TableInv, Fits, Sound, Tables
  <2>2. c \in 1 .. MaxCapacity /\ table.entries \in 0 .. c
    BY <2>1, CapacityAssumption
  <2>3. TypeOK
    <3>1. \A i \in 0 .. c - 1 : b[i].next \in {Nil} \cup (0 .. c - 1)
      BY <2>1 DEF Array, Slots
    <3> QED
      BY <1>1, <2>1, <2>2, <3>1 DEF TypeOK, TableInv, Slots
  <2>4. Occupied(table) = Full(c, b)
    BY DEF Occupied, Full, Slots
  <2>5. ASSUME ~ table.coalesced, NEW h \in DOMAIN b PROVE Ends(table, h)
    <3>1. Acyclic(Slots(c), Links(c, b)) /\ h \in Slots(c)
      BY <1>1, <2>1, <2>5 DEF TableInv, Fits, Good
    <3>2. Walk(table, h, {}) \in Slots(c) \cup {Nil}
          /\ (Walk(table, h, {}) # Nil => b[Walk(table, h, {})].ref \in {})
      BY <2>1, <3>1, WalkStops
    <3> QED
      BY <3>2 DEF Ends
  <2> QED
    BY <2>1, <2>3, <2>4, <2>5 DEF LookupEnds
<1> QED
  BY <1>1, TableInvariant, PTL

\* Until a collection has met a coalesced table every monitor in the table is
\* found, and a thread that has entered one finds it, its own, with its count.
THEOREM ExitsFind == Spec => []CanExit
<1>1. ASSUME TableInv PROVE CanExit
  <2> DEFINE c == table.capacity
             b == table.buckets
  <2>1. hash \in Hashes /\ Sound(table) /\ Fits(hash, table, holds)
        /\ b \in [Slots(c) -> Bucket]
    BY <1>1, Facts
  <2>2. ASSUME ~ table.coalesced PROVE Good(hash, c, b)
    BY <2>1, <2>2 DEF Fits
  <2>3. Occupied(table) = Full(c, b)
    BY DEF Occupied, Full, Slots
  <2>4. ASSUME ~ table.coalesced, NEW i \in Full(c, b) PROVE Find(table, b[i].ref) = i
    <3>1. b[i].ref \in Ref
      BY <2>1 DEF Full, Bucket
    <3> QED
      BY <2>1, <2>2, <2>4, <3>1, FindGood
  <2>5. ASSUME ~ table.coalesced, NEW t \in Thread, NEW r \in Ref, holds[t][r] > 0
        PROVE  /\ Find(table, r) # Nil /\ b[Find(table, r)].owner = t
               /\ b[Find(table, r)].count = holds[t][r]
    <3>1. PICK i \in Full(c, b) : b[i].ref = r
      BY <2>1, <2>5, Owners
    <3>2. b[i].owner = t /\ b[i].count = holds[t][r]
      BY <2>1, <2>5, <3>1, Owners
    <3>3. Find(table, r) = i /\ i # Nil
      BY <2>4, <2>5, <3>1 DEF Full, Slots, Nil
    <3> QED
      BY <3>2, <3>3
  <2> QED
    BY <2>3, <2>4, <2>5 DEF CanExit, Findable
<1> QED
  BY <1>1, TableInvariant, PTL

\* Until a collection has met a coalesced table, no two threads hold one monitor.
THEOREM Exclusion == Spec => [](~ table.coalesced => MutualExclusion)
<1>1. ASSUME TableInv PROVE ~ table.coalesced => MutualExclusion
  <2>1. SUFFICES ASSUME ~ table.coalesced, NEW r \in Ref, NEW t \in Thread, NEW u \in Thread,
                        holds[t][r] > 0, holds[u][r] > 0
                 PROVE  t = u
    BY DEF MutualExclusion
  <2>2. Fits(hash, table, holds)
    BY <1>1 DEF TableInv
  <2>3. PICK i \in Full(table.capacity, table.buckets) : table.buckets[i].ref = r
    BY <2>1, <2>2, Owners
  <2>4. table.buckets[i].owner = t /\ table.buckets[i].owner = u
    BY <2>1, <2>2, <2>3, Owners
  <2> QED
    BY <2>4
<1> QED
  BY <1>1, TableInvariant, PTL

---------------------------------------------------------------------------
(* The map from objects to monitors.                                       *)

\* The monitor m is the one the threads `hl' says are in r see.
SeenAs(m, hl, r) ==
    \/ /\ m = [owner |-> NoThread, count |-> 0]
       /\ \A t \in Thread : ~ (hl[t][r] > 0)
    \/ \E t \in Thread :
          /\ hl[t][r] > 0 /\ m = [owner |-> t, count |-> hl[t][r]]
          /\ \A u \in Thread : hl[u][r] > 0 => u = t

\* The monitors found are those the threads have entered.
FoundSeen ==
    /\ holds \in [Thread -> [Ref -> Nat]]
    /\ ~ table.coalesced => \A r \in Ref : SeenAs(Found[r], holds, r)

\* The table the invariant describes gives every object the monitor it should.
LEMMA SeenInvariant ==
    ASSUME TableInv PROVE FoundSeen
<1> USE NullAssumption
<1> DEFINE c == table.capacity
           b == table.buckets
<1>1. /\ Fits(hash, table, holds) /\ Sound(table) /\ b \in [Slots(c) -> Bucket]
      /\ \A i \in Slots(c) : b[i].owner = NoThread <=> b[i].count = 0
      /\ holds \in [Thread -> [Ref -> Nat]]
  BY Facts
<1>2. ASSUME ~ table.coalesced, NEW r \in Ref PROVE SeenAs(Found[r], holds, r)
  <2>1. PICK i : i = Find(table, r)
    OBVIOUS
  <2>2. Found[r] = [owner |-> IF i = Nil THEN NoThread ELSE b[i].owner,
                    count |-> IF i = Nil THEN 0 ELSE b[i].count]
    BY <2>1 DEF Found
  <2>3. CASE i = Nil
    <3>1. \A k \in Full(c, b) : b[k].ref # r
      BY <1>2, <2>1, <2>3, Lookup
    <3>2. \A t \in Thread : ~ (holds[t][r] > 0)
      BY <1>1, <1>2, <3>1, Owners
    <3> QED
      BY <2>2, <2>3, <3>2 DEF SeenAs
  <2>4. CASE i # Nil
    <3>1. i \in Full(c, b) /\ b[i].ref = r
      BY <2>1, <2>4, Lookup
    <3>2. \A t \in Thread : IF b[i].owner = t THEN b[i].count = holds[t][r] ELSE ~ (holds[t][r] > 0)
      BY <1>1, <1>2, <3>1, Owners
    <3>3. /\ b[i].owner \in Thread \cup {NoThread} /\ b[i].count \in Nat
          /\ b[i].owner = NoThread <=> b[i].count = 0
      BY <1>1, <3>1 DEF Full, Bucket
    <3>4. CASE b[i].owner = NoThread
      BY <2>2, <2>4, <3>2, <3>3, <3>4 DEF SeenAs
    <3>5. CASE b[i].owner # NoThread
      <4>1. PICK t \in Thread : t = b[i].owner
        BY <3>3, <3>5
      <4>2. holds[t][r] = b[i].count /\ holds[t][r] > 0
        BY <3>2, <3>3, <3>5, <4>1
      <4>3. \A u \in Thread : holds[u][r] > 0 => u = t
        BY <3>2, <4>1
      <4>4. Found[r] = [owner |-> t, count |-> holds[t][r]]
        BY <2>2, <2>4, <4>1, <4>2
      <4> QED
        BY <4>2, <4>3, <4>4 DEF SeenAs
    <3> QED
      BY <3>4, <3>5
  <2> QED
    BY <2>3, <2>4
<1> QED
  BY <1>1, <1>2 DEF FoundSeen

\* What the threads have entered says what monitor they see.
LEMMA SeenOnce ==
    ASSUME NEW hl, NEW hl2, NEW r \in Ref, NEW m, NEW m2,
           SeenAs(m, hl, r), SeenAs(m2, hl2, r), \A t \in Thread : hl2[t][r] = hl[t][r]
    PROVE  m2 = m
BY DEF SeenAs

\* A monitor entered once more.
LEMMA SeenEntered ==
    ASSUME NEW hl \in [Thread -> [Ref -> Nat]], NEW hl2, NEW r \in Ref, NEW t \in Thread, NEW m, NEW m2,
           SeenAs(m, hl, r), SeenAs(m2, hl2, r), Changed(hl, hl2, t, r, hl[t][r] + 1)
    PROVE  m.owner \in {NoThread, t} /\ m2 = [owner |-> t, count |-> m.count + 1]
<1>1. /\ hl[t][r] \in Nat /\ hl2[t][r] = hl[t][r] + 1 /\ hl2[t][r] > 0
      /\ \A u \in Thread : u # t => hl2[u][r] = hl[u][r]
  <2>1. hl[t][r] \in Nat
    OBVIOUS
  <2>2. hl2[t][r] = hl[t][r] + 1 /\ \A u \in Thread : u # t => hl2[u][r] = hl[u][r]
    BY DEF Changed
  <2> QED
    BY <2>1, <2>2
<1>2. m2 = [owner |-> t, count |-> hl[t][r] + 1] /\ \A u \in Thread : hl2[u][r] > 0 => u = t
  BY <1>1 DEF SeenAs
<1>3. \A u \in Thread : hl[u][r] > 0 => u = t
  BY <1>1, <1>2
<1>4. CASE m = [owner |-> NoThread, count |-> 0] /\ \A u \in Thread : ~ (hl[u][r] > 0)
  <2>1. hl[t][r] = 0
    BY <1>1, <1>4
  <2> QED
    BY <1>2, <1>4, <2>1
<1>5. CASE m = [owner |-> t, count |-> hl[t][r]]
  BY <1>2, <1>5
<1> QED
  BY <1>3, <1>4, <1>5 DEF SeenAs

\* A monitor entered once less, or given up when it was entered once.
LEMMA SeenExited ==
    ASSUME NEW hl \in [Thread -> [Ref -> Nat]], NEW hl2, NEW r \in Ref, NEW t \in Thread, NEW m, NEW m2,
           SeenAs(m, hl, r), SeenAs(m2, hl2, r), hl[t][r] > 0, Changed(hl, hl2, t, r, hl[t][r] - 1)
    PROVE  /\ m.owner = t
           /\ m2 = IF m.count = 1 THEN [owner |-> NoThread, count |-> 0]
                   ELSE [owner |-> t, count |-> m.count - 1]
<1>1. /\ hl[t][r] \in Nat /\ hl2[t][r] = hl[t][r] - 1
      /\ \A u \in Thread : u # t => hl2[u][r] = hl[u][r]
  BY DEF Changed
<1>2. m = [owner |-> t, count |-> hl[t][r]] /\ \A u \in Thread : hl[u][r] > 0 => u = t
  BY DEF SeenAs
<1>3. \A u \in Thread : u # t => ~ (hl2[u][r] > 0)
  BY <1>1, <1>2
<1>4. CASE hl[t][r] = 1
  <2>1. \A u \in Thread : ~ (hl2[u][r] > 0)
    BY <1>1, <1>3, <1>4
  <2> QED
    BY <1>2, <1>4, <2>1 DEF SeenAs
<1>5. CASE hl[t][r] # 1
  <2>1. hl2[t][r] > 0
    BY <1>1, <1>5
  <2>2. m2 = [owner |-> t, count |-> hl[t][r] - 1]
    BY <1>1, <1>3, <2>1 DEF SeenAs
  <2> QED
    BY <1>2, <1>5, <2>2
<1> QED
  BY <1>4, <1>5

\* Every step does to the monitors found what the map promises.
LEMMA MapStep ==
    ASSUME FoundSeen, FoundSeen', [Next]_vars, table'.coalesced \/ ~ table.coalesced,
           ~ table'.coalesced
    PROVE  [Monitor!Next]_Found
<1>1. /\ holds \in [Thread -> [Ref -> Nat]]
      /\ \A r \in Ref : SeenAs(Found[r], holds, r) /\ SeenAs(Found'[r], holds', r)
  BY DEF FoundSeen
<1>2. PICK m : m = Found
  OBVIOUS
<1>3. PICK m2 : m2 = Found'
  OBVIOUS
<1>4. m = [r \in Ref |-> m[r]] /\ m2 = [r \in Ref |-> m2[r]]
  BY <1>2, <1>3 DEF Found
<1>5. \A r \in Ref : SeenAs(m[r], holds, r) /\ SeenAs(m2[r], holds', r)
  BY <1>1, <1>2, <1>3
<1>6. ASSUME NEW r \in Ref, \A t \in Thread : holds'[t][r] = holds[t][r] PROVE m2[r] = m[r]
  BY <1>5, <1>6, SeenOnce
<1>7. ASSUME holds' = holds PROVE m2 = m
  <2>1. \A r \in Ref : m2[r] = m[r]
    BY <1>6, <1>7
  <2> QED
    BY <1>4, <2>1
<1>8. ASSUME NEW t \in Thread, NEW r \in Ref, NEW n, holds' = [holds EXCEPT ![t][r] = n]
      PROVE  /\ Changed(holds, holds', t, r, n)
             /\ \A x : x = m2[r] => m2 = [m EXCEPT ![r] = x]
  <2>1. Changed(holds, holds', t, r, n)
    BY <1>1, <1>8 DEF Changed
  <2>2. \A x \in Ref : x # r => m2[x] = m[x]
    BY <1>6, <2>1 DEF Changed
  <2> QED
    BY <1>4, <2>1, <2>2
<1>9. ASSUME NEW t \in Thread, NEW r \in Ref, Enter(t, r) PROVE Monitor!Enter(t, r)
  <2>1. holds' = [holds EXCEPT ![t][r] = holds[t][r] + 1]
    BY <1>9 DEF Enter
  <2>2. m[r].owner \in {NoThread, t} /\ m2[r] = [owner |-> t, count |-> m[r].count + 1]
    <3>1. PICK a : a = m[r]
      OBVIOUS
    <3>2. PICK a2 : a2 = m2[r]
      OBVIOUS
    <3>3. SeenAs(a, holds, r) /\ SeenAs(a2, holds', r)
      BY <1>5, <3>1, <3>2
    <3>4. Changed(holds, holds', t, r, holds[t][r] + 1)
      BY <1>8, <2>1
    <3>5. a.owner \in {NoThread, t} /\ a2 = [owner |-> t, count |-> a.count + 1]
      BY <1>1, <3>3, <3>4, SeenEntered
    <3> QED
      BY <3>1, <3>2, <3>5
  <2>3. m2 = [m EXCEPT ![r] = [owner |-> t, count |-> m[r].count + 1]]
    BY <1>8, <2>1, <2>2
  <2> QED
    BY <1>2, <1>3, <2>2, <2>3 DEF Monitor!Enter
<1>10. ASSUME NEW t \in Thread, NEW r \in Ref, holds[t][r] > 0,
              holds' = [holds EXCEPT ![t][r] = holds[t][r] - 1]
       PROVE  Monitor!Exit(t, r)
  <2> DEFINE x == IF m[r].count = 1 THEN [owner |-> NoThread, count |-> 0]
                  ELSE [owner |-> t, count |-> m[r].count - 1]
  <2>1. Changed(holds, holds', t, r, holds[t][r] - 1)
    BY <1>8, <1>10
  <2>2. m[r].owner = t /\ m2[r] = x
    <3>1. PICK a : a = m[r]
      OBVIOUS
    <3>2. PICK a2 : a2 = m2[r]
      OBVIOUS
    <3>3. SeenAs(a, holds, r) /\ SeenAs(a2, holds', r)
      BY <1>5, <3>1, <3>2
    <3>4. /\ a.owner = t
          /\ a2 = IF a.count = 1 THEN [owner |-> NoThread, count |-> 0]
                  ELSE [owner |-> t, count |-> a.count - 1]
      BY <1>1, <1>10, <2>1, <3>3, SeenExited
    <3> QED
      BY <3>1, <3>2, <3>4
  <2>3. m2 = [m EXCEPT ![r] = x]
    <3> HIDE DEF x
    <3> QED
      BY <1>8, <1>10, <2>2
  <2> QED
    BY <1>2, <1>3, <2>2, <2>3 DEF Monitor!Exit, Monitor!Free
<1>11. ASSUME NEW t \in Thread, NEW r \in Ref, Enter(t, r) \/ Exit(t, r) \/ Wait(t, r)
       PROVE  Monitor!Next
  <2>1. CASE Enter(t, r)
    BY <1>9, <2>1 DEF Monitor!Next
  <2>2. CASE Exit(t, r)
    <3>1. holds[t][r] > 0 /\ holds' = [holds EXCEPT ![t][r] = holds[t][r] - 1]
      BY <2>2 DEF Exit
    <3> QED
      BY <1>10, <3>1 DEF Monitor!Next
  <2>3. CASE Wait(t, r)
    <3>1. holds[t][r] > 0 /\ holds' = [holds EXCEPT ![t][r] = holds[t][r] - 1]
      BY <2>3 DEF Wait
    <3> QED
      BY <1>10, <3>1 DEF Monitor!Next
  <2> QED
    BY <1>11, <2>1, <2>2, <2>3
<1>12. CASE \E t \in Thread, r \in Ref : Enter(t, r) \/ Exit(t, r) \/ Wait(t, r)
  BY <1>11, <1>12
<1>13. CASE (\E t \in Thread : WakeUp(t)) \/ Collect \/ UNCHANGED vars
  <2>1. holds' = holds
    BY <1>13 DEF WakeUp, Collect, vars
  <2> QED
    BY <1>2, <1>3, <1>7, <2>1
<1> QED
  BY <1>12, <1>13 DEF Next

\* Until a collection has met a coalesced table, every operation does to the
\* monitor of its object what the map from objects to monitors promises and
\* leaves the monitors of the others alone.
THEOREM TableIsMap == Spec => ImplementsMap
<1>1. Init => Monitor!Init
  <2>1. SUFFICES ASSUME Init PROVE Monitor!Init
    OBVIOUS
  <2>2. ~ table.coalesced /\ \A t \in Thread, r \in Ref : holds[t][r] = 0
    BY <2>1 DEF Init
  <2>a. FoundSeen
    BY <2>1, TableInit, SeenInvariant
  <2>3. ASSUME NEW r \in Ref PROVE Found[r] = [owner |-> NoThread, count |-> 0]
    <3>1. SeenAs(Found[r], holds, r)
      BY <2>2, <2>a DEF FoundSeen
    <3>2. \A t \in Thread : ~ (holds[t][r] > 0)
      BY <2>2
    <3> HIDE DEF Found
    <3> QED
      BY <3>1, <3>2 DEF SeenAs
  <2>4. Found = [r \in Ref |-> Found[r]]
    BY DEF Found
  <2> QED
    BY <2>3, <2>4 DEF Monitor!Init, Monitor!Free
<1>2. TableInv => FoundSeen
  BY SeenInvariant
<1>3. /\ TableInv /\ [Next]_vars /\ FoundSeen /\ FoundSeen'
      => [~ table'.coalesced => [Monitor!Next]_Found]_vars
  BY TableStep, MapStep
<1> QED
  BY <1>1, <1>2, <1>3, TableInvariant, PTL DEF Spec, ImplementsMap
=============================================================================
