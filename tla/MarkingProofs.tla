---------------------------- MODULE MarkingProofs ----------------------------
(* What the mark phase does to every heap: see the end for the theorems.   *)
EXTENDS Marking, SequenceTheorems, TLAPS

LEMMA InitInv == Init => IInv
<1> SUFFICES ASSUME Init PROVE IInv
  OBVIOUS
<1> USE MarkingAssumption DEF Init
<1>1. \A o \in Objects : graph[o] \in Seq(Objects \union {Null})
  <2> TAKE o \in Objects
  <2>1. PICK n \in Nat : graph[o] \in [1 .. n -> Objects \union {Null}]
    <3>1. graph[o] \in RefSeqs(MaxRefs[o])
      BY DEF Graphs
    <3>2. MaxRefs[o] \in Nat
      OBVIOUS
    <3>3. 0 .. MaxRefs[o] \subseteq Nat
      BY <3>2
    <3> QED
      BY <3>1, <3>3, ZenonT(20) DEF RefSeqs
  <2> QED
    BY <2>1, IsASeq
<1>2. TypeOK
  <2>1. graph \in [Objects -> Seq(Objects \union {Null})]
    BY <1>1 DEF Graphs
  <2>2. start \subseteq Word
    BY DEF Word
  <2> QED
    BY <1>1, <2>1, <2>2, EmptySeq DEF TypeOK
<1>3. PathOk /\ Slots /\ CallsOk /\ OneBuild /\ Traced
  BY DEF PathOk, Slots, CallsOk, OneBuild, Traced
<1>4. Intact /\ OnlyReachable
  BY DEF Intact, OnlyReachable
<1> QED
  BY <1>2, <1>3, <1>4 DEF IInv

(* A root, refused or marked.                                              *)
LEMMA NextRootInv == IInv /\ NextRoot => IInv'
<1> SUFFICES ASSUME IInv, NextRoot PROVE IInv'
  OBVIOUS
<1> USE MarkingAssumption
<1>1. PICK word \in roots :
        /\ roots' = roots \ {word}
        /\ IF ~Markable(word)
           THEN UNCHANGED <<marked, count, curr, prev, path, calls>>
           ELSE IF reversal
           THEN /\ curr' = word /\ prev' = Null /\ path' = <<word>>
                /\ CreateCounter(word)
                /\ UNCHANGED calls
           ELSE /\ calls' = << <<word, 0>> >>
                /\ marked' = marked \union {word}
                /\ UNCHANGED <<count, curr, prev, path>>
  BY DEF NextRoot
<1>2. curr = Null /\ calls = <<>> /\ path = <<>> /\ UNCHANGED <<reversal, refs, graph, start>>
  BY DEF NextRoot, Idle, IInv, PathOk
<1>3. CASE ~Markable(word)
  <2>1. UNCHANGED <<reversal, refs, graph, start, marked, count, curr, prev, path, calls>>
    BY <1>1, <1>2, <1>3
  <2>2. \A w \in start : Markable(w) => w \in roots'
    BY <1>1, <1>3 DEF IInv, Traced
  <2>3. TypeOK'
    BY <1>1, <2>1 DEF IInv, TypeOK
  <2>4. OneBuild' /\ PathOk' /\ Slots'
    BY <2>1 DEF IInv, OneBuild, PathOk, Slots, Before
  <2>6. Intact' /\ CallsOk' /\ OnlyReachable'
    BY <2>1 DEF IInv, Intact, CallsOk, OnlyReachable, Closed, OnPath
  <2>5. Traced'
    BY <2>1, <2>2 DEF IInv, Traced, Pending, OnPath, Markable
  <2> QED
    BY <2>3, <2>4, <2>5, <2>6 DEF IInv
<1>4. CASE Markable(word)
  <2>1. /\ word \in Objects /\ word \notin marked /\ word \in start /\ marked' = marked \union {word}
        /\ word # Null
    BY <1>1, <1>4 DEF Markable, CreateCounter, IInv, TypeOK
  <2>2. OnlyReachable'
    BY <1>2, <2>1 DEF IInv, OnlyReachable, Closed
  <2>3. \A w \in start' : Markable(w)' => w \in roots'
    BY <1>1, <1>2, <2>1 DEF IInv, Traced, Markable
  <2>4. CASE reversal
    <3>1. /\ curr' = word /\ prev' = Null /\ path' = <<word>> /\ calls' = <<>>
          /\ count' = [count EXCEPT ![word] = 0]
      BY <1>1, <1>2, <1>4, <2>4 DEF CreateCounter
    <3>2. TypeOK'
      <4>1. path' \in Seq(Objects)
        BY <2>1, <3>1
      <4>2. count' \in [Objects -> Nat]
        BY <3>1 DEF IInv, TypeOK
      <4> QED
        BY <1>1, <1>2, <2>1, <3>1, <4>1, <4>2 DEF IInv, TypeOK
    <3>3. count'[word] = 0 /\ Len(graph[word]) \in Nat
      BY <2>1, <3>1 DEF IInv, TypeOK
    <3>4. Len(path') = 1 /\ path'[1] = word /\ DOMAIN path' = {1} /\ path' # <<>>
      BY <3>1
    <3>5. PathOk' /\ Slots' /\ CallsOk' /\ OneBuild'
      BY <1>2, <2>1, <2>4, <3>1, <3>3, <3>4 DEF PathOk, Slots, CallsOk, OneBuild, Before
    <3>6. Intact'
      <4>1. \A o \in Objects : \A k \in DOMAIN graph[o] : refs[o][k] = graph[o][k]
        BY <1>2 DEF IInv, Intact, OnPath
      <4> QED
        BY <1>2, <4>1 DEF Intact
    <3>7. Traced'
      <4>1. ASSUME NEW o \in marked', NEW k \in DOMAIN graph[o]
            PROVE  Pending(o, k)' \/ graph[o][k] \in marked' \union {Null}
        <5>1. CASE o = word
          <6>1. k \in Nat /\ k > 0
            BY <2>1, <5>1 DEF IInv, TypeOK
          <6>2. OnPath(o)'
            BY <3>4, <5>1 DEF OnPath
          <6> QED
            BY <3>1, <3>3, <5>1, <6>1, <6>2 DEF Pending
        <5>2. CASE o # word
          <6>1. o \in marked /\ ~Pending(o, k)
            BY <1>2, <2>1, <5>2 DEF Pending, OnPath
          <6> QED
            BY <2>1, <6>1 DEF IInv, Traced
        <5> QED
          BY <5>1, <5>2
      <4> QED
        BY <1>2, <2>3, <4>1 DEF Traced
    <3> QED
      BY <2>2, <3>2, <3>5, <3>6, <3>7 DEF IInv
  <2>5. CASE ~reversal
    <3>1. calls' = << <<word, 0>> >> /\ UNCHANGED <<count, curr, prev, path>>
      BY <1>1, <1>4, <2>5
    <3>2. Len(calls') = 1 /\ calls'[1] = <<word, 0>> /\ DOMAIN calls' = {1}
      BY <3>1
    <3>3. TypeOK'
      <4>1. calls' \in Seq(Objects \X Nat)
        BY <2>1, <3>1
      <4> QED
        BY <1>1, <1>2, <2>1, <3>1, <4>1 DEF IInv, TypeOK
    <3>4. PathOk' /\ Slots' /\ OneBuild' /\ Intact'
      BY <1>2, <2>1, <2>5, <3>1 DEF IInv, PathOk, Slots, OneBuild, Intact, Before, OnPath
    <3>5. CallsOk'
      BY <1>2, <2>1, <3>2 DEF IInv, TypeOK, CallsOk
    <3>6. Traced'
      <4>1. ASSUME NEW o \in marked', NEW k \in DOMAIN graph[o]
            PROVE  Pending(o, k)' \/ graph[o][k] \in marked' \union {Null}
        <5>1. CASE o = word
          <6>1. k \in Nat /\ k > 0
            BY <2>1, <5>1 DEF IInv, TypeOK
          <6> QED
            BY <3>2, <5>1, <6>1 DEF Pending
        <5>2. CASE o # word
          <6>1. o \in marked /\ ~Pending(o, k)
            BY <1>2, <2>1, <5>2 DEF Pending, OnPath
          <6> QED
            BY <2>1, <6>1 DEF IInv, Traced
        <5> QED
          BY <5>1, <5>2
      <4> QED
        BY <1>2, <2>3, <4>1 DEF Traced
    <3> QED
      BY <2>2, <3>3, <3>4, <3>5, <3>6 DEF IInv
  <2> QED
    BY <2>4, <2>5
<1> QED
  BY <1>3, <1>4

(* Where curr stands while its references are followed.                    *)
LEMMA CurrFacts ==
  ASSUME IInv, curr # Null
  PROVE  /\ reversal /\ calls = <<>>
         /\ path \in Seq(Objects) /\ path # <<>> /\ Len(path) \in Nat \ {0}
         /\ curr = path[Len(path)] /\ curr \in Objects /\ curr \in marked
         /\ prev = Before(Len(path))
         /\ count[curr] \in Nat /\ count[curr] =< Len(graph[curr])
         /\ Len(refs[curr]) = Len(graph[curr]) /\ Len(graph[curr]) \in Nat
         /\ DOMAIN graph[curr] = 1 .. Len(graph[curr])
         /\ \A k \in DOMAIN graph[curr] : refs[curr][k] = graph[curr][k]
<1>1. path # <<>> /\ path \in Seq(Objects) /\ curr \in Objects
  BY DEF IInv, PathOk, TypeOK
<1>2. Len(path) \in Nat \ {0}
  BY <1>1
<1>3. reversal /\ calls = <<>>
  BY <1>1 DEF IInv, OneBuild, TypeOK
<1>4. curr = path[Len(path)] /\ curr \in marked /\ prev = Before(Len(path)) /\ count[curr] =< Len(graph[curr])
  BY <1>1, <1>2 DEF IInv, PathOk
<1>5. /\ count[curr] \in Nat /\ Len(refs[curr]) = Len(graph[curr]) /\ Len(graph[curr]) \in Nat
      /\ DOMAIN graph[curr] = 1 .. Len(graph[curr])
  BY <1>1 DEF IInv, TypeOK
<1>6. \A k \in DOMAIN graph[curr] : refs[curr][k] = graph[curr][k]
  BY <1>1 DEF IInv, Intact
<1> QED
  BY <1>1, <1>2, <1>3, <1>4, <1>5, <1>6

LEMMA SkipInv == IInv /\ Skip => IInv'
<1> SUFFICES ASSUME IInv, Skip PROVE IInv'
  OBVIOUS
<1>1. /\ curr # Null /\ count[curr] < Len(refs[curr])
      /\ refs[curr][Slot] = Null \/ refs[curr][Slot] \in marked
      /\ count' = [count EXCEPT ![curr] = @ + 1]
      /\ UNCHANGED <<reversal, refs, graph, start, roots, marked, curr, prev, path, calls>>
  BY DEF Skip, Following
<1>2. /\ count' \in [Objects -> Nat] /\ count'[curr] = count[curr] + 1
      /\ \A o \in Objects : o # curr => count'[o] = count[o]
  <2>1. count \in [Objects -> Nat]
    BY DEF IInv, TypeOK
  <2>2. curr \in Objects /\ count[curr] \in Nat
    BY <1>1, CurrFacts
  <2>3. count[curr] + 1 \in Nat
    BY <2>2
  <2> QED
    BY <1>1, <2>1, <2>2, <2>3
<1>3. TypeOK' /\ OneBuild' /\ CallsOk' /\ OnlyReachable'
  BY <1>1, <1>2 DEF IInv, TypeOK, OneBuild, CallsOk, OnlyReachable, Closed
<1>4. PathOk'
  BY <1>1, <1>2, CurrFacts DEF IInv, PathOk, Before
<1>5. \A i \in 1 .. Len(path) - 1 : path[i] \in Objects /\ path[i] # curr
  <2> TAKE i \in 1 .. Len(path) - 1
  <2>1. i \in DOMAIN path /\ Len(path) \in DOMAIN path /\ i # Len(path)
    BY <1>1, CurrFacts
  <2> QED
    BY <1>1, <2>1, CurrFacts DEF IInv, PathOk
<1>6. Slots'
  BY <1>1, <1>2, <1>5 DEF IInv, Slots, Before
<1>7. Intact'
  BY <1>1, <1>2 DEF IInv, Intact, OnPath
<1>8. Traced'
  <2>1. ASSUME NEW o \in marked, NEW k \in DOMAIN graph[o]
        PROVE  Pending(o, k)' \/ graph[o][k] \in marked \union {Null}
    <3>1. CASE o = curr /\ k = count[curr] + 1
      BY <1>1, <3>1, CurrFacts DEF Slot
    <3>2. CASE ~(o = curr /\ k = count[curr] + 1)
      <4>1. k \in Nat /\ o \in Objects
        BY <1>1 DEF IInv, TypeOK
      <4>2. Pending(o, k) => Pending(o, k)'
        BY <1>1, <1>2, <3>2, <4>1, CurrFacts DEF Pending, OnPath
      <4> QED
        BY <4>2 DEF IInv, Traced
    <3> QED
      BY <3>1, <3>2
  <2> QED
    BY <1>1, <2>1 DEF IInv, Traced, Markable
<1> QED
  BY <1>3, <1>4, <1>6, <1>7, <1>8 DEF IInv

(* An unmarked object: its reference is reversed.                          *)
LEMMA DescendInv == IInv /\ Descend => IInv'
<1> SUFFICES ASSUME IInv, Descend PROVE IInv'
  OBVIOUS
<1> USE MarkingAssumption
<1> DEFINE x == refs[curr][Slot]
           n == Len(path)
<1>1. /\ curr # Null /\ count[curr] < Len(refs[curr])
      /\ x \in Objects /\ x \notin marked
      /\ refs' = [refs EXCEPT ![curr][Slot] = prev]
      /\ prev' = curr /\ path' = Append(path, x) /\ curr' = x
      /\ marked' = marked \union {x} /\ count' = [count EXCEPT ![x] = 0]
      /\ UNCHANGED <<reversal, graph, start, roots, calls>>
  BY DEF Descend, Following, CreateCounter
<1>2. Slot \in DOMAIN graph[curr] /\ graph[curr][Slot] = x /\ Slot = count[curr] + 1 /\ x # curr
  BY <1>1, CurrFacts DEF Slot
<1>3. /\ path' \in Seq(Objects) /\ Len(path') = n + 1 /\ path'[n + 1] = x /\ n \in Nat \ {0}
      /\ \A i \in 1 .. n : path'[i] = path[i] /\ path[i] \in marked /\ path[i] # x
      /\ DOMAIN path' = 1 .. n + 1 /\ DOMAIN path = 1 .. n /\ path' # <<>>
  <2>1. path \in Seq(Objects) /\ n \in Nat \ {0}
    BY <1>1, CurrFacts
  <2>2. \A i \in 1 .. n : path[i] \in marked
    BY <2>1 DEF IInv, PathOk
  <2> QED
    BY <1>1, <2>1, <2>2, AppendProperties
<1>4. /\ n \in 1 .. n /\ path[n] = curr /\ path'[n] = curr /\ n \in DOMAIN path'
      /\ \A i \in 1 .. n : path[i] = curr => i = n
  <2>1. n \in 1 .. n /\ path[n] = curr /\ n \in DOMAIN path'
    BY <1>1, <1>3, CurrFacts
  <2>2. \A i, j \in DOMAIN path : path[i] = path[j] => i = j
    BY DEF IInv, PathOk
  <2> QED
    BY <1>3, <2>1, <2>2
<1>5. /\ count' \in [Objects -> Nat] /\ count'[x] = 0
      /\ \A o \in Objects : o # x => count'[o] = count[o]
  BY <1>1 DEF IInv, TypeOK
<1>6. prev \in Objects \union {Null} /\ curr \in Objects /\ marked \subseteq Objects
  BY <1>1, CurrFacts DEF IInv, TypeOK
<1>7. /\ DOMAIN refs' = Objects /\ refs' = [o \in Objects |-> refs'[o]]
      /\ \A o \in Objects : o # curr => refs'[o] = refs[o]
      /\ refs'[curr] = [refs[curr] EXCEPT ![Slot] = prev]
  BY <1>1, <1>6 DEF IInv, TypeOK
<1>8. /\ refs'[curr] \in Seq(Objects \union {Null}) /\ Len(refs'[curr]) = Len(graph[curr])
      /\ refs'[curr][Slot] = prev
      /\ \A k \in DOMAIN graph[curr] : k # Slot => refs'[curr][k] = refs[curr][k]
  <2>1. refs[curr] \in Seq(Objects \union {Null})
    BY <1>6 DEF IInv, TypeOK
  <2>2. Slot \in 1 .. Len(refs[curr]) /\ DOMAIN graph[curr] = 1 .. Len(refs[curr]) /\ Len(refs[curr]) = Len(graph[curr])
    BY <1>1, <1>2, CurrFacts
  <2> QED
    BY <1>6, <1>7, <2>1, <2>2, ExceptSeq
<1>9. TypeOK'
  <2>1. \A o \in Objects : /\ graph'[o] \in Seq(Objects \union {Null})
                          /\ refs'[o] \in Seq(Objects \union {Null})
                          /\ Len(refs'[o]) = Len(graph'[o])
    BY <1>1, <1>6, <1>7, <1>8 DEF IInv, TypeOK
  <2>4. refs' \in [Objects -> Seq(Objects \union {Null})]
    BY <1>7, <2>1
  <2>2. graph' \in [Objects -> Seq(Objects \union {Null})] /\ roots' \subseteq start' /\ start' \subseteq Word' /\ calls' \in Seq(Objects \X Nat)
    BY <1>1 DEF IInv, TypeOK, Word
  <2>3. marked' \subseteq Objects /\ {curr', prev'} \subseteq Objects \union {Null} /\ reversal' \in BOOLEAN
    BY <1>1, <1>6 DEF IInv, TypeOK
  <2> HIDE DEF x, n
  <2> QED
    BY <1>3, <1>5, <2>1, <2>2, <2>3, <2>4 DEF TypeOK
<1>10. OneBuild' /\ CallsOk'
  BY <1>1, CurrFacts DEF IInv, OneBuild, CallsOk
<1>11. PathOk'
  <2>1. \A i \in DOMAIN path' : path'[i] \in marked'
    BY <1>1, <1>3
  <2>2. \A i, j \in DOMAIN path' : path'[i] = path'[j] => i = j
    BY <1>3 DEF IInv, PathOk
  <2>3. curr' # Null /\ curr' = path'[Len(path')]
    BY <1>1, <1>3
  <2>5. prev' = Before(Len(path))'
    <3>1. Len(path') # 1 /\ Len(path') - 1 = n
      BY <1>3
    <3>2. Before(Len(path))' = path'[n]
      BY <3>1 DEF Before
    <3> QED
      BY <1>1, <1>4, <3>2
  <2>4. count'[curr'] =< Len(graph'[curr'])
    BY <1>1, <1>5 DEF IInv, TypeOK
  <2> HIDE DEF x, n
  <2> QED
    BY <1>3, <2>1, <2>2, <2>3, <2>4, <2>5 DEF PathOk
<1>12. Slots'
  <2>0. Len(path') - 1 = n /\ graph' = graph
    BY <1>1, <1>3
  <2> SUFFICES ASSUME NEW i \in 1 .. n
               PROVE  /\ count'[path'[i]] + 1 =< Len(graph[path'[i]])
                      /\ refs'[path'[i]][count'[path'[i]] + 1] = Before(i)'
                      /\ graph[path'[i]][count'[path'[i]] + 1] = path'[i + 1]
    BY <2>0 DEF Slots
  <2>1. path'[i] = path[i] /\ path[i] \in Objects /\ count'[path[i]] = count[path[i]] /\ Before(i)' = Before(i)
    <3>1. i \in DOMAIN path' /\ path'[i] = path[i] /\ path[i] \in marked /\ path[i] # x
      BY <1>3
    <3>2. path[i] \in Objects /\ count'[path[i]] = count[path[i]]
      BY <1>5, <1>6, <3>1
    <3>3. i # 1 => i - 1 \in 1 .. n
      <4>1. i \in 1 .. n /\ n \in Nat
        BY <1>3
      <4> HIDE DEF n
      <4> QED
        BY <4>1
    <3> QED
      BY <1>3, <3>1, <3>2, <3>3 DEF Before
  <2>2. CASE i = n
    BY <1>1, <1>2, <1>3, <1>8, <2>1, <2>2, CurrFacts
  <2>3. CASE i # n
    <3>1. i \in 1 .. n - 1 /\ i + 1 \in 1 .. n
      <4>1. n \in Nat /\ i \in 1 .. n
        BY <1>3
      <4> HIDE DEF n
      <4> QED
        BY <2>3, <4>1
    <3>2. path[i] # curr /\ path'[i + 1] = path[i + 1]
      BY <1>3, <1>4, <2>3, <3>1
    <3> QED
      BY <1>7, <2>1, <3>1, <3>2 DEF IInv, Slots
  <2> QED
    BY <2>2, <2>3
<1>13. Intact'
  <2> SUFFICES ASSUME NEW o \in Objects, NEW k \in DOMAIN graph[o]
               PROVE  (OnPath(o)' /\ o # x /\ k = count'[o] + 1) \/ refs'[o][k] = graph[o][k]
    BY <1>1 DEF Intact
  <2>1. CASE o = curr
    <3>1. OnPath(o)'
      BY <1>4, <2>1 DEF OnPath
    <3> QED
      BY <1>1, <1>2, <1>5, <1>6, <1>8, <2>1, <3>1, CurrFacts
  <2>2. CASE o # curr
    <3>1. OnPath(o) => OnPath(o)' /\ o # x
      BY <1>3 DEF OnPath
    <3> QED
      BY <1>5, <1>7, <2>2, <3>1 DEF IInv, Intact
  <2> QED
    BY <2>1, <2>2
<1>14. Traced'
  <2>1. ASSUME NEW o \in marked', NEW k \in DOMAIN graph[o]
        PROVE  Pending(o, k)' \/ graph[o][k] \in marked' \union {Null}
    <3>1. CASE o = x
      <4>1. k \in Nat /\ k > 0
        BY <1>1, <3>1 DEF IInv, TypeOK
      <4>2. OnPath(o)'
        BY <1>3, <3>1 DEF OnPath
      <4> QED
        BY <1>1, <1>5, <3>1, <4>1, <4>2 DEF Pending
    <3>2. CASE o = curr
      <4>1. OnPath(o)' /\ o # curr' /\ count'[o] = count[o]
        BY <1>1, <1>2, <1>4, <1>5, <1>6, <3>2 DEF OnPath
      <4>2. k \in Nat
        BY <1>6, <3>2 DEF IInv, TypeOK
      <4>3. k > count[o] + 1 => Pending(o, k)'
        BY <4>1 DEF Pending
      <4>4. k = count[o] + 1 => graph[o][k] = x
        BY <1>2, <3>2
      <4>5. k < count[o] + 1 => graph[o][k] \in marked \union {Null}
        BY <1>1, <3>2, <4>2, CurrFacts DEF IInv, Traced, Pending
      <4>6. count[o] \in Nat
        BY <1>1, <3>2, CurrFacts
      <4> QED
        BY <1>1, <4>2, <4>3, <4>4, <4>5, <4>6
    <3>3. CASE o # x /\ o # curr
      <4>1. o \in marked /\ o \in Objects /\ count'[o] = count[o]
        BY <1>1, <1>5, <1>6, <3>3
      <4>2. Pending(o, k) => Pending(o, k)'
        BY <1>1, <1>3, <3>3, <4>1 DEF Pending, OnPath
      <4> QED
        BY <1>1, <4>1, <4>2 DEF IInv, Traced
    <3> QED
      BY <3>1, <3>2, <3>3
  <2>2. \A w \in start' : Markable(w)' => w \in roots'
    BY <1>1 DEF IInv, Traced, Markable
  <2> QED
    BY <1>1, <2>1, <2>2 DEF Traced
<1>15. OnlyReachable'
  <2> SUFFICES ASSUME NEW S \in SUBSET Objects, start \intersect Objects \subseteq S, Closed(S)
               PROVE  marked' \subseteq S
    BY <1>1 DEF OnlyReachable, Closed
  <2>1. curr \in S
    BY <1>1, CurrFacts DEF IInv, OnlyReachable
  <2>2. x \in S
    BY <1>1, <1>2, <2>1 DEF Closed
  <2> QED
    BY <1>1, <2>2 DEF IInv, OnlyReachable
<1> QED
  BY <1>9, <1>10, <1>11, <1>12, <1>13, <1>14, <1>15 DEF IInv

(* Back to the object before, which gets its reference back, or out of the *)
(* object the root names.                                                  *)
LEMMA AscendInv == IInv /\ Ascend => IInv'
<1> SUFFICES ASSUME IInv, Ascend PROVE IInv'
  OBVIOUS
<1> USE MarkingAssumption
<1> DEFINE n == Len(path)
<1>1. /\ curr # Null /\ ~(count[curr] < Len(refs[curr]))
      /\ curr' = prev /\ path' = SubSeq(path, 1, n - 1)
      /\ UNCHANGED <<reversal, graph, start, roots, marked, calls>>
  BY DEF Ascend, Following
<1>2. /\ path \in Seq(Objects) /\ n \in Nat \ {0} /\ path[n] = curr /\ DOMAIN path = 1 .. n
      /\ curr \in Objects /\ prev = Before(n) /\ count[curr] = Len(graph[curr])
      /\ Len(graph[curr]) \in Nat /\ DOMAIN graph[curr] = 1 .. Len(graph[curr]) /\ reversal
  BY <1>1, CurrFacts
<1>12. n \in Nat /\ n # 0
  BY <1>2
<1>3. /\ path' \in Seq(Objects) /\ Len(path') = n - 1 /\ DOMAIN path' = 1 .. n - 1
      /\ \A i \in 1 .. n - 1 : path'[i] = path[i] /\ path[i] \in Objects
  BY <1>1, <1>2
<1>4. \A i, j \in 1 .. n : path[i] = path[j] => i = j
  BY <1>2 DEF IInv, PathOk
<1>5. \A o \in Objects : OnPath(o) => OnPath(o)' \/ o = curr
  <2> TAKE o \in Objects
  <2> SUFFICES ASSUME NEW i \in 1 .. n, path[i] = o, o # curr PROVE OnPath(o)'
    BY <1>2 DEF OnPath
  <2>1. i \in DOMAIN path' /\ path'[i] = o
    BY <1>2, <1>3
  <2> QED
    BY <2>1 DEF OnPath
<1>6. OneBuild' /\ CallsOk' /\ OnlyReachable'
  BY <1>1, <1>2 DEF IInv, OneBuild, CallsOk, OnlyReachable, Closed
<1>7. \A i \in DOMAIN path' : path'[i] \in marked'
  BY <1>1, <1>2, <1>3 DEF IInv, PathOk
<1>8. \A i, j \in DOMAIN path' : path'[i] = path'[j] => i = j
  <2>1. \A i \in 1 .. n - 1 : i \in 1 .. n
    BY <1>12
  <2> HIDE DEF n
  <2> QED
    BY <1>3, <1>4, <2>1
<1>9. \A w \in start' : Markable(w)' => w \in roots'
  BY <1>1 DEF IInv, Traced, Markable
<1>10. CASE prev = Null
  <2>1. UNCHANGED <<refs, prev, count>>
    BY <1>10 DEF Ascend
  <2>2. n = 1
    <3> SUFFICES ASSUME n # 1 PROVE FALSE
      OBVIOUS
    <3>1. n - 1 \in 1 .. n - 1
      BY <1>2
    <3>2. prev = path[n - 1]
      BY <1>2 DEF Before
    <3> QED
      BY <1>3, <1>10, <3>1, <3>2
  <2>3. path' = <<>> /\ curr' = Null
    BY <1>1, <1>3, <1>10, <2>2
  <2>4. TypeOK'
    BY <1>1, <1>3, <1>10, <2>1 DEF IInv, TypeOK, Word
  <2>5. PathOk' /\ Slots'
    BY <2>3 DEF PathOk, Slots
  <2>6. Intact'
    <3>1. \A o \in Objects : \A k \in DOMAIN graph[o] : refs[o][k] = graph[o][k]
      BY <1>5, <2>3 DEF IInv, Intact, OnPath
    <3> QED
      BY <1>1, <2>1, <3>1 DEF Intact
  <2>7. Traced'
    <3>1. ASSUME NEW o \in marked, NEW k \in DOMAIN graph[o]
          PROVE  Pending(o, k)' \/ graph[o][k] \in marked \union {Null}
      <4>4. o = curr => k =< Len(graph[curr])
        BY <1>2
      <4>5. o \in Objects /\ k \in Nat
        BY DEF IInv, TypeOK
      <4>1. o \in Objects /\ k \in Nat /\ (o = curr => k =< Len(graph[curr]))
        BY <4>4, <4>5
      <4>2. ~OnPath(o) \/ o = curr
        BY <1>5, <2>3, <4>1 DEF OnPath
      <4>3. Pending(o, k) => Pending(o, k)'
        BY <1>1, <1>2, <4>1, <4>2 DEF Pending
      <4> QED
        BY <4>3 DEF IInv, Traced
    <3> QED
      BY <1>1, <1>9, <3>1 DEF Traced
  <2> QED
    BY <1>6, <2>4, <2>5, <2>6, <2>7 DEF IInv
<1>11. CASE prev # Null
  <2> DEFINE slot == count[prev] + 1
  <2>1. /\ prev' = refs[prev][slot]
        /\ refs' = [refs EXCEPT ![prev][slot] = curr]
        /\ count' = [count EXCEPT ![prev] = slot]
    BY <1>11 DEF Ascend
  <2>2. n - 1 \in 1 .. n - 1 /\ prev = path[n - 1] /\ n # 1 /\ prev \in Objects
    <3>1. n # 1
      BY <1>2, <1>11 DEF Before
    <3>2. n - 1 \in 1 .. n - 1 /\ prev = path[n - 1]
      BY <1>2, <3>1 DEF Before
    <3> QED
      BY <1>3, <3>1, <3>2
  <2>3. prev # curr /\ path'[n - 1] = prev /\ OnPath(prev) /\ (\E i \in DOMAIN path' : path'[i] = prev)
    <3>1. n - 1 \in 1 .. n /\ n \in 1 .. n /\ n - 1 # n
      <4> HIDE DEF n
      <4> QED
        BY <1>12, <2>2
    <3>2. prev # curr
      BY <1>2, <1>4, <2>2, <3>1
    <3>3. path'[n - 1] = prev /\ n - 1 \in DOMAIN path' /\ n - 1 \in DOMAIN path
      BY <1>2, <1>3, <2>2, <3>1
    <3> QED
      BY <2>2, <3>2, <3>3 DEF OnPath
  <2>4. /\ slot =< Len(graph[prev]) /\ refs[prev][slot] = Before(n - 1) /\ graph[prev][slot] = curr
    <3>1. (n - 1) + 1 = n
      BY <1>2
    <3> QED
      BY <1>2, <2>2, <3>1 DEF IInv, Slots
  <2>5. /\ count[prev] \in Nat /\ slot \in Nat \ {0} /\ graph[prev] \in Seq(Objects \union {Null})
        /\ refs[prev] \in Seq(Objects \union {Null}) /\ Len(refs[prev]) = Len(graph[prev])
    <3>1. /\ graph[prev] \in Seq(Objects \union {Null})
          /\ refs[prev] \in Seq(Objects \union {Null}) /\ Len(refs[prev]) = Len(graph[prev])
      BY <2>2 DEF IInv, TypeOK
    <3>2. count[prev] \in Nat
      BY <2>2 DEF IInv, TypeOK
    <3> QED
      BY <3>1, <3>2
  <2>6. slot \in DOMAIN graph[prev] /\ slot \in 1 .. Len(refs[prev]) /\ DOMAIN graph[prev] = 1 .. Len(refs[prev])
    BY <2>4, <2>5
  <2>7. /\ DOMAIN refs' = Objects /\ refs' = [o \in Objects |-> refs'[o]]
        /\ \A o \in Objects : o # prev => refs'[o] = refs[o]
        /\ refs'[prev] = [refs[prev] EXCEPT ![slot] = curr]
    BY <2>1, <2>2 DEF IInv, TypeOK
  <2>8. /\ refs'[prev] \in Seq(Objects \union {Null}) /\ Len(refs'[prev]) = Len(graph[prev])
        /\ refs'[prev][slot] = curr
        /\ \A k \in DOMAIN graph[prev] : k # slot => refs'[prev][k] = refs[prev][k]
    BY <1>2, <2>5, <2>6, <2>7, ExceptSeq
  <2>9. /\ count' \in [Objects -> Nat] /\ count'[prev] = slot
        /\ \A o \in Objects : o # prev => count'[o] = count[o]
    BY <2>1, <2>2, <2>5 DEF IInv, TypeOK
  <2>10. prev' \in Objects \union {Null}
    BY <2>1, <2>5, <2>6
  <2>11. TypeOK'
    <3>1. \A o \in Objects : /\ graph'[o] \in Seq(Objects \union {Null})
                             /\ refs'[o] \in Seq(Objects \union {Null})
                             /\ Len(refs'[o]) = Len(graph'[o])
      BY <1>1, <2>5, <2>7, <2>8 DEF IInv, TypeOK
    <3>3. refs' \in [Objects -> Seq(Objects \union {Null})]
      BY <2>7, <3>1
    <3>2. /\ graph' \in [Objects -> Seq(Objects \union {Null})] /\ roots' \subseteq start' /\ start' \subseteq Word'
          /\ calls' \in Seq(Objects \X Nat) /\ marked' \subseteq Objects /\ reversal' \in BOOLEAN
      BY <1>1 DEF IInv, TypeOK, Word
    <3> QED
      BY <1>1, <1>3, <2>2, <2>9, <2>10, <3>1, <3>2, <3>3 DEF TypeOK
  <2>12. PathOk'
    <3>1. curr' # Null /\ curr' = path'[Len(path')] /\ path' # <<>>
      <4>1. Len(path') # 0
        BY <1>2, <1>3, <2>2
      <4> QED
        BY <1>1, <1>3, <1>11, <2>3, <4>1
    <3>2. prev' = Before(Len(path))'
      <4>1. Before(n - 1) = (IF n - 1 = 1 THEN Null ELSE path'[(n - 1) - 1])
        <5>1. n - 1 # 1 => (n - 1) - 1 \in 1 .. n - 1
          BY <1>2, <2>2
        <5> QED
          BY <1>3, <5>1 DEF Before
      <4> QED
        BY <1>3, <2>1, <2>4, <4>1 DEF Before
    <3>3. count'[curr'] =< Len(graph'[curr'])
      BY <1>1, <2>4, <2>9
    <3> QED
      BY <1>7, <1>8, <3>1, <3>2, <3>3 DEF PathOk
  <2>13. Slots'
    <3> SUFFICES ASSUME NEW i \in 1 .. (n - 1) - 1
                 PROVE  /\ count'[path'[i]] + 1 =< Len(graph[path'[i]])
                        /\ refs'[path'[i]][count'[path'[i]] + 1] = Before(i)'
                        /\ graph[path'[i]][count'[path'[i]] + 1] = path'[i + 1]
      BY <1>1, <1>3 DEF Slots
    <3>1. i \in 1 .. n - 1 /\ i + 1 \in 1 .. n - 1 /\ i # n - 1 /\ (i # 1 => i - 1 \in 1 .. n - 1)
      <4>1. n \in Nat \ {0}
        BY <1>2
      <4> HIDE DEF n
      <4> QED
        BY <4>1
    <3>2. path[i] # prev /\ path[i] \in Objects
      <4>1. i \in 1 .. n /\ n - 1 \in 1 .. n
        <5> HIDE DEF n
        <5> QED
          BY <1>12, <2>2, <3>1
      <4> QED
        BY <1>3, <1>4, <2>2, <3>1, <4>1
    <3>3. Before(i)' = Before(i) /\ path'[i] = path[i] /\ path'[i + 1] = path[i + 1]
      BY <1>3, <3>1 DEF Before
    <3> QED
      <4>1. /\ count[path[i]] + 1 =< Len(graph[path[i]])
            /\ refs[path[i]][count[path[i]] + 1] = Before(i)
            /\ graph[path[i]][count[path[i]] + 1] = path[i + 1]
        BY <3>1 DEF IInv, Slots
      <4>2. count'[path[i]] = count[path[i]] /\ refs'[path[i]] = refs[path[i]]
        BY <2>7, <2>9, <3>2
      <4> QED
        BY <3>3, <4>1, <4>2
  <2>14. Intact'
    <3> SUFFICES ASSUME NEW o \in Objects, NEW k \in DOMAIN graph[o]
                 PROVE  (OnPath(o)' /\ o # prev /\ k = count'[o] + 1) \/ refs'[o][k] = graph[o][k]
      BY <1>1 DEF Intact
    <3>1. CASE o = prev
      BY <2>3, <2>4, <2>8, <3>1 DEF IInv, Intact
    <3>2. CASE o # prev
      BY <1>5, <2>7, <2>9, <3>2 DEF IInv, Intact
    <3> QED
      BY <3>1, <3>2
  <2>15. Traced'
    <3>1. ASSUME NEW o \in marked, NEW k \in DOMAIN graph[o]
          PROVE  Pending(o, k)' \/ graph[o][k] \in marked \union {Null}
      <4>4. o = curr => k =< Len(graph[curr])
        BY <1>2
      <4>5. o \in Objects /\ k \in Nat
        BY DEF IInv, TypeOK
      <4>1. o \in Objects /\ k \in Nat /\ (o = curr => k =< Len(graph[curr]))
        BY <4>4, <4>5
      <4>2. Pending(o, k) => Pending(o, k)'
        <5>1. CASE o = prev
          <6>1. OnPath(o)' /\ o = curr' /\ count'[o] = count[o] + 1 /\ o # curr
            BY <1>1, <2>3, <2>9, <5>1 DEF OnPath
          <6> QED
            BY <1>1, <6>1 DEF Pending
        <5>2. CASE o = curr
          <6>1. ~(k > count[o])
            BY <1>2, <4>1, <5>2
          <6> QED
            BY <1>1, <5>2, <6>1 DEF Pending
        <5>3. CASE o # prev /\ o # curr
          <6>1. o # curr' /\ count'[o] = count[o] /\ (OnPath(o) => OnPath(o)')
            BY <1>1, <1>5, <2>9, <4>1, <5>3
          <6> QED
            BY <1>1, <5>3, <6>1 DEF Pending
        <5> QED
          BY <5>1, <5>2, <5>3
      <4> QED
        BY <4>2 DEF IInv, Traced
    <3> QED
      BY <1>1, <1>9, <3>1 DEF Traced
  <2> QED
    BY <1>6, <2>11, <2>12, <2>13, <2>14, <2>15 DEF IInv
<1> QED
  BY <1>10, <1>11

(* The recursive version: the loop of a call, and its end.                 *)
LEMMA LoopFacts ==
  ASSUME IInv, calls # <<>>
  PROVE  /\ path = <<>> /\ ~reversal /\ calls \in Seq(Objects \X Nat) /\ Len(calls) \in Nat \ {0}
         /\ DOMAIN calls = 1 .. Len(calls) /\ 1 \in DOMAIN calls
         /\ Caller[1] \in Objects /\ Caller[1] \in marked /\ Caller[2] \in Nat
         /\ Caller = <<Caller[1], Caller[2]>> /\ curr = Null
         /\ graph[Caller[1]] \in Seq(Objects \union {Null})
         /\ DOMAIN graph[Caller[1]] = 1 .. Len(graph[Caller[1]])
         /\ Len(graph[Caller[1]]) \in Nat /\ Len(refs[Caller[1]]) = Len(graph[Caller[1]])
         /\ \A k \in DOMAIN graph[Caller[1]] : refs[Caller[1]][k] = graph[Caller[1]][k]
<1>1. calls \in Seq(Objects \X Nat)
  BY DEF IInv, TypeOK
<1>2. Len(calls) \in Nat \ {0} /\ DOMAIN calls = 1 .. Len(calls) /\ 1 \in DOMAIN calls
  BY <1>1
<1>3. Caller \in Objects \X Nat
  BY <1>1, <1>2 DEF Caller
<1>4. path = <<>> /\ ~reversal /\ curr = Null
  BY DEF IInv, OneBuild, PathOk, TypeOK
<1>5. Caller[1] \in marked
  BY <1>2 DEF IInv, CallsOk, Caller
<1>6. /\ graph[Caller[1]] \in Seq(Objects \union {Null}) /\ Len(refs[Caller[1]]) = Len(graph[Caller[1]])
  BY <1>3 DEF IInv, TypeOK
<1>7. \A k \in DOMAIN graph[Caller[1]] : refs[Caller[1]][k] = graph[Caller[1]][k]
  <2>1. ~OnPath(Caller[1])
    BY <1>4 DEF OnPath
  <2> QED
    BY <1>3, <2>1 DEF IInv, Intact
<1> QED
  BY <1>1, <1>2, <1>3, <1>4, <1>5, <1>6, <1>7

LEMMA LoopInv == IInv /\ Loop => IInv'
<1> SUFFICES ASSUME IInv, Loop PROVE IInv'
  OBVIOUS
<1> USE MarkingAssumption
<1> DEFINE o1 == Caller[1]
           k1 == Caller[2]
           x == Reference
           rest == << <<o1, k1 + 1>> >> \o Tail(calls)
           n == Len(calls)
<1>1. /\ calls # <<>> /\ k1 < Len(refs[o1])
      /\ UNCHANGED <<reversal, refs, graph, start, roots, count, curr, prev, path>>
      /\ \/ x \in Objects \ marked /\ calls' = << <<x, 0>> >> \o rest /\ marked' = marked \union {x}
         \/ ~(x \in Objects \ marked) /\ calls' = rest /\ marked' = marked
  BY DEF Loop, Markable
<1>2. /\ calls \in Seq(Objects \X Nat) /\ n \in Nat /\ n # 0 /\ DOMAIN calls = 1 .. n
      /\ o1 \in Objects /\ o1 \in marked /\ k1 \in Nat
  BY <1>1, LoopFacts
<1>3. /\ k1 + 1 \in DOMAIN graph[o1] /\ graph[o1][k1 + 1] = x /\ x \in Objects \union {Null}
      /\ k1 + 1 =< Len(graph[o1])
  <2>1. k1 + 1 \in DOMAIN graph[o1] /\ k1 + 1 =< Len(graph[o1])
    BY <1>1, LoopFacts
  <2>2. graph[o1][k1 + 1] = x
    BY <1>1, <2>1, LoopFacts DEF Reference
  <2>3. graph[o1] \in Seq(Objects \union {Null})
    BY <1>1, LoopFacts
  <2> QED
    BY <2>1, <2>2, <2>3
<1>4. path = <<>> /\ ~reversal /\ curr = Null
  BY <1>1, LoopFacts
<1>5. Tail(calls) \in Seq(Objects \X Nat) /\ Len(Tail(calls)) = n - 1
      /\ \A i \in 1 .. n - 1 : Tail(calls)[i] = calls[i + 1]
  BY <1>1, <1>2, HeadTailProperties
<1>6. /\ rest \in Seq(Objects \X Nat) /\ Len(rest) = n /\ rest[1] = <<o1, k1 + 1>>
      /\ \A i \in 2 .. n : rest[i] = calls[i]
  <2> HIDE DEF o1, k1, n
  <2>1. << <<o1, k1 + 1>> >> \in Seq(Objects \X Nat) /\ Len(<< <<o1, k1 + 1>> >>) = 1
    BY <1>2
  <2>2. rest \in Seq(Objects \X Nat) /\ Len(rest) = 1 + (n - 1) /\ rest[1] = <<o1, k1 + 1>>
    BY <1>5, <2>1, ConcatProperties
  <2>3. \A i \in 2 .. n : rest[i] = Tail(calls)[i - 1]
    BY <1>2, <1>5, <2>1, ConcatProperties
  <2>4. \A i \in 2 .. n : i - 1 \in 1 .. n - 1 /\ (i - 1) + 1 = i
    BY <1>2
  <2> QED
    BY <1>2, <1>5, <2>2, <2>3, <2>4
<1>7. /\ calls' \in Seq(Objects \X Nat)
      /\ \A i \in DOMAIN rest : \E j \in DOMAIN calls' : calls'[j] = rest[i]
      /\ \A j \in DOMAIN calls' : \/ \E i \in DOMAIN rest : calls'[j] = rest[i]
                                  \/ x \in marked' /\ x \in Objects /\ calls'[j] = <<x, 0>>
      /\ x \in Objects \ marked => \E j \in DOMAIN calls' : calls'[j] = <<x, 0>>
  <2> HIDE DEF rest, n, x
  <2>1. CASE x \in Objects \ marked
    <3>1. calls' = << <<x, 0>> >> \o rest /\ x \in marked'
      BY <1>1, <2>1
    <3>2. << <<x, 0>> >> \in Seq(Objects \X Nat) /\ Len(<< <<x, 0>> >>) = 1 /\ << <<x, 0>> >>[1] = <<x, 0>>
      BY <2>1
    <3>3. /\ calls' \in Seq(Objects \X Nat) /\ Len(calls') = n + 1 /\ calls'[1] = <<x, 0>>
          /\ \A i \in 2 .. n + 1 : calls'[i] = rest[i - 1]
      BY <1>2, <1>6, <3>1, <3>2, ConcatProperties
    <3>4. /\ \A i \in 1 .. n : i + 1 \in 2 .. n + 1 /\ (i + 1) - 1 = i /\ i + 1 \in 1 .. n + 1
          /\ \A j \in 1 .. n + 1 : j = 1 \/ (j \in 2 .. n + 1 /\ j - 1 \in 1 .. n)
      BY <1>2
    <3>8. DOMAIN rest = 1 .. n /\ DOMAIN calls' = 1 .. n + 1
      BY <1>6, <3>3
    <3>5. \A i \in DOMAIN rest : i + 1 \in DOMAIN calls' /\ calls'[i + 1] = rest[i]
      BY <3>3, <3>4, <3>8
    <3>6. \A j \in DOMAIN calls' : j = 1 \/ (j - 1 \in DOMAIN rest /\ calls'[j] = rest[j - 1])
      BY <3>3, <3>4, <3>8
    <3>7. 1 \in DOMAIN calls'
      BY <1>2, <3>3
    <3> QED
      BY <2>1, <3>1, <3>3, <3>5, <3>6, <3>7
  <2>2. CASE ~(x \in Objects \ marked)
    BY <1>1, <1>6, <2>2
  <2> QED
    BY <2>1, <2>2
<1>8. marked' = marked \union ({x} \intersect Objects) /\ marked \subseteq Objects
  <2>1. marked \subseteq Objects
    BY DEF IInv, TypeOK
  <2> HIDE DEF x, rest
  <2>2. CASE x \in Objects \ marked
    BY <1>1, <2>1, <2>2
  <2>3. CASE ~(x \in Objects \ marked)
    <3>1. marked' = marked
      BY <1>1, <2>3
    <3>2. {x} \intersect Objects \subseteq marked
      BY <2>3
    <3> QED
      BY <2>1, <3>1, <3>2
  <2> QED
    BY <2>2, <2>3
<1>9. TypeOK'
  BY <1>1, <1>7, <1>8 DEF IInv, TypeOK, Word
<1>10. PathOk' /\ Slots' /\ OneBuild' /\ Intact'
  BY <1>1, <1>4 DEF IInv, PathOk, Slots, OneBuild, Intact, OnPath
<1>11. CallsOk'
  <2> SUFFICES ASSUME NEW j \in DOMAIN calls'
               PROVE  calls'[j][1] \in marked' /\ calls'[j][2] =< Len(graph[calls'[j][1]])
    BY <1>1 DEF CallsOk
  <2>1. ASSUME NEW i \in DOMAIN rest, calls'[j] = rest[i]
        PROVE  calls'[j][1] \in marked' /\ calls'[j][2] =< Len(graph[calls'[j][1]])
    <3> HIDE DEF rest, n, x, o1, k1
    <3>1. CASE i = 1
      BY <1>2, <1>3, <1>6, <1>8, <2>1, <3>1
    <3>2. CASE i # 1
      <4>1. i \in 2 .. n /\ i \in DOMAIN calls
        BY <1>2, <1>6, <3>2
      <4> QED
        BY <1>6, <1>8, <2>1, <4>1 DEF IInv, CallsOk
    <3> QED
      BY <3>1, <3>2
  <2>2. ASSUME x \in marked', x \in Objects, calls'[j] = <<x, 0>>
        PROVE  calls'[j][1] \in marked' /\ calls'[j][2] =< Len(graph[calls'[j][1]])
    <3>1. Len(graph[x]) \in Nat
      BY <2>2 DEF IInv, TypeOK
    <3> HIDE DEF x
    <3> QED
      BY <2>2, <3>1
  <2>3. \/ \E i \in DOMAIN rest : calls'[j] = rest[i]
        \/ x \in marked' /\ x \in Objects /\ calls'[j] = <<x, 0>>
    BY <1>7
  <2> HIDE DEF rest, n, x, o1, k1
  <2> QED
    BY <2>1, <2>2, <2>3
<1>12. Traced'
  <2>1. ASSUME NEW o \in marked', NEW k \in DOMAIN graph[o]
        PROVE  Pending(o, k)' \/ graph[o][k] \in marked' \union {Null}
    <3> HIDE DEF rest, n, x, o1, k1
    <3>1. o \in Objects /\ k \in Nat /\ k > 0
      BY <1>8 DEF IInv, TypeOK
    <3>2. CASE o \notin marked
      <4>1. o = x /\ x \in Objects \ marked
        BY <1>8, <3>2
      <4>2. PICK j \in DOMAIN calls' : calls'[j] = <<x, 0>>
        BY <1>7, <4>1
      <4>3. calls'[j][1] = o /\ k > calls'[j][2]
        BY <3>1, <4>1, <4>2
      <4> QED
        BY <4>3 DEF Pending
    <3>3. CASE o = o1 /\ k = k1 + 1
      BY <1>3, <1>8, <3>3
    <3>4. CASE o \in marked /\ ~(o = o1 /\ k = k1 + 1)
      <4>1. ASSUME Pending(o, k) PROVE Pending(o, k)'
        <5>1. PICK i \in DOMAIN calls : calls[i][1] = o /\ k > calls[i][2]
          BY <1>4, <4>1 DEF Pending, OnPath
        <5>2. \E m \in DOMAIN rest : rest[m][1] = o /\ k > rest[m][2]
          <6>1. CASE i = 1
            <7>1. calls[i][1] = o1 /\ calls[i][2] = k1
              BY <6>1 DEF o1, k1, Caller
            <7>2. k > k1 + 1
              BY <1>2, <3>1, <3>4, <5>1, <7>1
            <7>3. 1 \in DOMAIN rest
              BY <1>2, <1>6
            <7> QED
              BY <1>6, <5>1, <7>1, <7>2, <7>3
          <6>2. CASE i # 1
            <7>1. i \in 2 .. n /\ i \in DOMAIN rest
              BY <1>2, <1>6, <5>1, <6>2
            <7> QED
              BY <1>6, <5>1, <7>1
          <6> QED
            BY <6>1, <6>2
        <5> QED
          BY <1>7, <5>2 DEF Pending
      <4> QED
        BY <1>8, <3>4, <4>1 DEF IInv, Traced
    <3> QED
      BY <3>2, <3>3, <3>4
  <2>2. \A w \in start' : Markable(w)' => w \in roots'
    BY <1>1, <1>8 DEF IInv, Traced, Markable
  <2> QED
    BY <1>1, <2>1, <2>2 DEF Traced
<1>13. OnlyReachable'
  <2> SUFFICES ASSUME NEW S \in SUBSET Objects, start \intersect Objects \subseteq S, Closed(S)
               PROVE  marked' \subseteq S
    BY <1>1 DEF OnlyReachable, Closed
  <2>1. marked \subseteq S
    BY DEF IInv, OnlyReachable
  <2>2. x \in S \union {Null}
    BY <1>2, <1>3, <2>1 DEF Closed
  <2> QED
    BY <1>8, <2>1, <2>2
<1> QED
  BY <1>9, <1>10, <1>11, <1>12, <1>13 DEF IInv

LEMMA ReturnInv == IInv /\ Return => IInv'
<1> SUFFICES ASSUME IInv, Return PROVE IInv'
  OBVIOUS
<1> DEFINE n == Len(calls)
<1>1. /\ calls # <<>> /\ Caller[2] = Len(refs[Caller[1]]) /\ calls' = Tail(calls)
      /\ UNCHANGED <<reversal, refs, graph, start, roots, marked, count, curr, prev, path>>
  BY DEF Return
<1>2. /\ calls \in Seq(Objects \X Nat) /\ n \in Nat /\ n # 0 /\ DOMAIN calls = 1 .. n
      /\ Caller[2] = Len(graph[Caller[1]]) /\ DOMAIN graph[Caller[1]] = 1 .. Len(graph[Caller[1]])
  BY <1>1, LoopFacts
<1>3. /\ calls' \in Seq(Objects \X Nat) /\ DOMAIN calls' = 1 .. n - 1
      /\ \A i \in 1 .. n - 1 : calls'[i] = calls[i + 1]
  BY <1>1, <1>2, HeadTailProperties
<1>4. path = <<>> /\ ~reversal /\ curr = Null
  BY <1>1, LoopFacts
<1>5. TypeOK' /\ OnlyReachable'
  BY <1>1, <1>3 DEF IInv, TypeOK, Word, OnlyReachable, Closed
<1>6. PathOk' /\ Slots' /\ OneBuild' /\ Intact'
  BY <1>1, <1>4 DEF IInv, PathOk, Slots, OneBuild, Intact, OnPath
<1>7. \A i \in 1 .. n - 1 : i + 1 \in DOMAIN calls
  <2> HIDE DEF n
  <2> QED
    BY <1>2
<1>8. CallsOk'
  BY <1>1, <1>3, <1>7 DEF IInv, CallsOk
<1>9. Traced'
  <2>1. ASSUME NEW o \in marked, NEW k \in DOMAIN graph[o]
        PROVE  Pending(o, k)' \/ graph[o][k] \in marked \union {Null}
    <3>1. ASSUME Pending(o, k) PROVE Pending(o, k)'
      <4>1. PICK i \in DOMAIN calls : calls[i][1] = o /\ k > calls[i][2]
        BY <1>4, <3>1 DEF Pending, OnPath
      <4>2. i # 1
        <5> SUFFICES ASSUME i = 1 PROVE FALSE
          OBVIOUS
        <5>1. o = Caller[1] /\ k > Len(graph[o])
          BY <1>2, <4>1 DEF Caller
        <5>2. k \in 1 .. Len(graph[o]) /\ Len(graph[o]) \in Nat
          BY <1>1, <1>2, <5>1, LoopFacts
        <5> QED
          BY <5>1, <5>2
      <4>3. i - 1 \in 1 .. n - 1 /\ (i - 1) + 1 = i
        <5> HIDE DEF n
        <5> QED
          BY <1>2, <4>1, <4>2
      <4>4. calls'[i - 1] = calls[i] /\ i - 1 \in DOMAIN calls'
        BY <1>3, <4>3
      <4> QED
        BY <4>1, <4>4 DEF Pending
    <3> QED
      BY <3>1 DEF IInv, Traced
  <2>2. \A w \in start' : Markable(w)' => w \in roots'
    BY <1>1 DEF IInv, Traced, Markable
  <2> QED
    BY <1>1, <2>1, <2>2 DEF Traced
<1> QED
  BY <1>5, <1>6, <1>8, <1>9 DEF IInv

LEMMA StutterInv == IInv /\ UNCHANGED vars => IInv'
<1> SUFFICES ASSUME IInv, UNCHANGED vars PROVE IInv'
  OBVIOUS
<1>1. TypeOK' /\ OneBuild' /\ CallsOk' /\ OnlyReachable'
  BY DEF vars, IInv, TypeOK, Word, OneBuild, CallsOk, OnlyReachable, Closed
<1>2. PathOk' /\ Slots' /\ Intact'
  BY DEF vars, IInv, PathOk, Slots, Intact, Before, OnPath
<1>3. Traced'
  BY DEF vars, IInv, Traced, Pending, OnPath, Markable
<1> QED
  BY <1>1, <1>2, <1>3 DEF IInv

(* Whatever the heap, the build and the roots: the path of the references  *)
(* that are reversed is intact, and every reference of a marked object is  *)
(* followed or waits on that path or in a call.                            *)
THEOREM MarkInvariant == Spec => []IInv
<1>1. IInv /\ [Next]_vars => IInv'
  BY NextRootInv, SkipInv, DescendInv, AscendInv, LoopInv, ReturnInv, StutterInv DEF Next
<1> QED
  BY InitInv, <1>1, PTL DEF Spec

(* When the phase ends the marked objects are those the roots lead to.     *)
THEOREM MarksWhatIsReachable == Spec => []MarkedExactly
<1>1. IInv => MarkedExactly
  <2> SUFFICES ASSUME IInv, Found
               PROVE  start \intersect Objects \subseteq marked /\ Closed(marked) /\ OnlyReachable
    BY DEF MarkedExactly
  <2>1. path = <<>> /\ calls = <<>> /\ roots = {}
    BY DEF Found, Idle, IInv, PathOk
  <2>2. start \intersect Objects \subseteq marked
    BY <2>1 DEF IInv, Traced, Markable
  <2>3. Closed(marked)
    BY <2>1 DEF IInv, Traced, Pending, OnPath, Closed
  <2> QED
    BY <2>2, <2>3 DEF IInv
<1> QED
  BY <1>1, MarkInvariant, PTL

(* Whenever gc_mark_reference() returns every reference is as it was.      *)
THEOREM ReferencesRestored == Spec => []Restored
<1>1. IInv => Restored
  <2> SUFFICES ASSUME IInv, Idle PROVE refs = graph
    BY DEF Restored
  <2>1. path = <<>>
    BY DEF Idle, IInv, PathOk
  <2>2. ASSUME NEW o \in Objects PROVE refs[o] = graph[o]
    <3>1. \A k \in DOMAIN graph[o] : refs[o][k] = graph[o][k]
      BY <2>1 DEF IInv, Intact, OnPath
    <3>2. /\ graph[o] \in Seq(Objects \union {Null}) /\ refs[o] \in Seq(Objects \union {Null})
          /\ Len(refs[o]) = Len(graph[o])
      BY DEF IInv, TypeOK
    <3> QED
      BY <3>1, <3>2, SeqEqual
  <2>4. refs = [o \in Objects |-> refs[o]] /\ graph = [o \in Objects |-> graph[o]]
    BY DEF IInv, TypeOK
  <2> QED
    BY <2>2, <2>4
<1> QED
  BY <1>1, MarkInvariant, PTL
=============================================================================
