-------------------------- MODULE ClassInitProofs --------------------------
(***************************************************************************)
(* Proofs about ClassInit, for every set of threads, every class hierarchy *)
(* and every program.                                                      *)
(***************************************************************************)
EXTENDS ClassInit, SequenceTheorems, TLAPS

\* Pushing a call leaves the others where they are.
LEMMA PushFacts ==
    ASSUME NEW S, NEW q \in Seq(S), NEW e \in S
    PROVE  /\ Append(q, e) \in Seq(S) /\ Append(q, e) # <<>>
           /\ Len(q) \in Nat /\ Len(Append(q, e)) = Len(q) + 1
           /\ \A i \in 1 .. Len(q) : Append(q, e)[i] = q[i]
           /\ Append(q, e)[Len(q) + 1] = e
  OBVIOUS

\* So does popping one.
LEMMA PopFacts ==
    ASSUME NEW S, NEW q \in Seq(S), q # <<>>
    PROVE  LET p == SubSeq(q, 1, Len(q) - 1) IN
           /\ p \in Seq(S) /\ (p = <<>> <=> Len(q) = 1)
           /\ Len(q) \in Nat \ {0} /\ Len(p) = Len(q) - 1
           /\ \A i \in 1 .. Len(q) - 1 : p[i] = q[i]
<1>1. Len(q) \in Nat \ {0}
  BY EmptySeq
<1>2. \A i \in 1 .. Len(q) - 1 : q[i] \in S
  BY <1>1, ElementOfSeq
<1> DEFINE p == SubSeq(q, 1, Len(q) - 1)
<1>3. /\ p \in Seq(S) /\ Len(p) = IF 1 <= Len(q) - 1 THEN Len(q) - 1 ELSE 0
      /\ \A i \in 1 .. Len(q) - 1 : p[i] = q[1 + i - 1]
  <2>1. 1 \in Int /\ Len(q) - 1 \in Int /\ Len(q) - 1 - 1 + 1 = Len(q) - 1
    BY <1>1
  <2> QED
    BY <1>2, <2>1, SubSeqProperties
<1> HIDE DEF p
<1>4. p = <<>> <=> Len(p) = 0
  BY <1>3, EmptySeq
<1>5. Len(p) = Len(q) - 1
  <2>1. \A n \in Nat \ {0} : (IF 1 <= n - 1 THEN n - 1 ELSE 0) = n - 1
    OBVIOUS
  <2> QED
    BY ONLY <1>1, <1>3, <2>1
<1>6. ASSUME NEW i \in 1 .. Len(q) - 1 PROVE p[i] = q[i]
  <2>1. 1 + i - 1 = i
    BY <1>1
  <2> QED
    BY <1>3, <2>1
<1>7. p = <<>> <=> Len(q) = 1
  BY <1>1, <1>4, <1>5
<1>8. /\ p \in Seq(S) /\ (p = <<>> <=> Len(q) = 1)
      /\ Len(q) \in Nat \ {0} /\ Len(p) = Len(q) - 1
      /\ \A i \in 1 .. Len(q) - 1 : p[i] = q[i]
  BY <1>1, <1>3, <1>5, <1>6, <1>7
<1> QED
  BY <1>8 DEF p

\* And changing how far the innermost one is.
LEMMA GotoFacts ==
    ASSUME NEW q \in Seq(Frame), q # <<>>, NEW l \in {"enter", "parent", "clinit"}
    PROVE  LET p == [q EXCEPT ![Len(q)].at = l] IN
           /\ p \in Seq(Frame) /\ p # <<>>
           /\ Len(q) \in Nat \ {0} /\ Len(p) = Len(q)
           /\ \A i \in 1 .. Len(q) - 1 : p[i] = q[i]
           /\ p[Len(q)] = [cl |-> q[Len(q)].cl, site |-> q[Len(q)].site, at |-> l]
<1> DEFINE n == Len(q)
           e == [cl |-> q[n].cl, site |-> q[n].site, at |-> l]
<1>1. n \in Nat \ {0} /\ n \in 1 .. n
  BY EmptySeq
<1>2. q[n] \in Frame
  BY <1>1, ElementOfSeq
<1>3. [q[n] EXCEPT !.at = l] = e /\ e \in Frame
  BY <1>2 DEF Frame
<1>4. [q EXCEPT ![n].at = l] = [q EXCEPT ![n] = e]
  BY <1>3
<1>5. /\ [q EXCEPT ![n] = e] \in Seq(Frame)
      /\ Len([q EXCEPT ![n] = e]) = n
      /\ \A i \in 1 .. n : [q EXCEPT ![n] = e][i] = IF i = n THEN e ELSE q[i]
  BY <1>1, <1>3, ExceptSeq
<1> QED
  BY <1>1, <1>4, <1>5, EmptySeq

----------------------------------------------------------------------------
\* No class is being initialized at first.
LEMMA InitInv == ASSUME Init PROVE IInv
<1>1. TypeOK
  BY EmptySeq DEF Init, TypeOK
<1>2. ASSUME NEW t \in Thread PROVE stack[t] = <<>> /\ Len(stack[t]) = 0 /\ Begun(t) = {}
  <2>1. stack[t] = <<>> /\ Len(stack[t]) = 0
    BY EmptySeq DEF Init
  <2>2. 1 .. 0 = {}
    OBVIOUS
  <2> QED
    BY <2>1, <2>2, Zenon DEF Begun
<1>3. LockInv /\ SoleInitializer /\ SettledInv /\ FrameInv /\ ParentInv /\ SuperFirst
  BY <1>2, SuperAssumption DEF Init, LockInv, SoleInitializer, SettledInv, FrameInv, ParentInv, SuperFirst
<1> QED
  BY <1>1, <1>3 DEF IInv

\* The steps of the program that leave the calls, the classes and the sites alone.
LEMMA ProgramSteps ==
    ASSUME IInv, NEW t \in Thread,
           Throw(t) \/ Catch(t) \/ MainLoops(t)
             \/ \E c \in Class : EnterCall(t, c) \/ Enter(t, c) \/ Exit(t, c)
    PROVE  IInv'
<1>1. /\ UNCHANGED <<lock, state, initThread, purged, site, resolved, stack>>
      /\ stack[t] # <<>> /\ exception[t] /\ ~ exception'[t] => Top(t).at = "clinit"
      /\ \A u \in Thread : u # t => exception'[u] = exception[u]
  <2>1. CASE Catch(t)
    BY <2>1 DEF IInv, TypeOK, Catch, InJava, At
  <2>2. CASE ~ Catch(t)
    <3>1. exception' = exception \/ exception' = [exception EXCEPT ![t] = TRUE]
      BY <2>2 DEF Throw, MainLoops, EnterCall, Enter, Exit
    <3>2. /\ exception[t] => exception'[t]
          /\ \A u \in Thread : u # t => exception'[u] = exception[u]
      BY <3>1 DEF IInv, TypeOK
    <3>3. UNCHANGED <<lock, state, initThread, purged, site, resolved, stack>>
      BY <2>2 DEF Throw, MainLoops, EnterCall, Enter, Exit
    <3> QED
      BY <3>2, <3>3
  <2> QED
    BY <2>1, <2>2
<1>2. TypeOK'
  <2>1. exception' \in [Thread -> BOOLEAN]
    BY DEF IInv, TypeOK, Throw, Catch, MainLoops, EnterCall, Enter, Exit
  <2>2. wants' \in [Thread -> Class \cup {"main", None}]
    BY DEF IInv, TypeOK, Throw, Catch, MainLoops, EnterCall, Enter, Exit
  <2>3. owner' \in [Class -> Thread \cup {None}]
    <3>1. owner' = owner \/ \E c \in Class, o \in Thread \cup {None} : owner' = [owner EXCEPT ![c] = o]
      <4>1. CASE Throw(t) \/ Catch(t) \/ MainLoops(t)
        BY <4>1 DEF Throw, Catch, MainLoops
      <4>2. CASE \E c \in Class : EnterCall(t, c) \/ Enter(t, c) \/ Exit(t, c)
        BY <4>2 DEF EnterCall, Enter, Exit
      <4> QED
        BY <4>1, <4>2
    <3> QED
      BY <3>1 DEF IInv, TypeOK
  <2>4. unseen' \subseteq Thread
    BY DEF IInv, TypeOK, Throw, Catch, MainLoops, EnterCall, Enter, Exit
  <2> QED
    BY <1>1, <2>1, <2>2, <2>3, <2>4 DEF IInv, TypeOK
<1>3. LockInv' /\ SoleInitializer' /\ SettledInv' /\ FrameInv' /\ SuperFirst'
  BY <1>1 DEF IInv, LockInv, SoleInitializer, SettledInv, FrameInv, SuperFirst, SuperKnown, Begun
<1>4. ParentInv'
  <2> SUFFICES ASSUME NEW u \in Thread, stack[u] # <<>>, Top(u).at = "parent", ~ exception'[u]
               PROVE  SuperKnown(u, Len(stack[u]))
    BY <1>1 DEF ParentInv, SuperKnown, Begun, Top
  <2>1. ~ exception[u]
    BY <1>1
  <2> QED
    BY <2>1 DEF IInv, ParentInv
<1> QED
  BY <1>2, <1>3, <1>4 DEF IInv

\* A site whose entry is resolved is linked.
LEMMA LinkResolvedStep ==
    ASSUME IInv, NEW t \in Thread, NEW s \in Site, LinkResolved(t, s)
    PROVE  IInv'
<1>1. /\ UNCHANGED <<lock, state, initThread, purged, resolved, owner, stack, wants, exception>>
      /\ site' = [site EXCEPT ![s] = "linked"] /\ Entry[s] \in resolved
      /\ Replay(t, s)
  BY DEF LinkResolved
<1>2. TypeOK'
  <2>1. unseen' \subseteq Thread
    BY <1>1 DEF IInv, TypeOK, Replay
  <2>2. site' \in [Site -> {"prelink", "begun", "linked"}]
    BY <1>1 DEF IInv, TypeOK
  <2> QED
    BY <1>1, <2>1, <2>2 DEF IInv, TypeOK
<1>3. SettledInv'
  BY <1>1 DEF IInv, TypeOK, SettledInv
<1>4. LockInv' /\ SoleInitializer' /\ FrameInv' /\ ParentInv' /\ SuperFirst'
  BY <1>1 DEF IInv, LockInv, SoleInitializer, FrameInv, ParentInv, SuperFirst, SuperKnown, Begun, Top
<1> QED
  BY <1>2, <1>3, <1>4 DEF IInv

\* A site that is not linked calls initialize_class().
LEMMA LinkBeginStep ==
    ASSUME IInv, NEW t \in Thread, NEW s \in Site, LinkBegin(t, s)
    PROVE  IInv'
<1> DEFINE n == Len(stack[t])
           e == [cl |-> Target[s], site |-> s, at |-> "enter"]
<1> USE SuperAssumption
<1>1. /\ e \in Frame
      /\ stack[t] \in Seq(Frame)
  BY DEF IInv, TypeOK, Frame
<1>2. /\ n \in Nat /\ stack'[t] \in Seq(Frame) /\ stack'[t] # <<>>
      /\ Len(stack'[t]) = n + 1
      /\ \A i \in 1 .. n : stack'[t][i] = stack[t][i]
      /\ stack'[t][n + 1] = e
      /\ stack' = [stack EXCEPT ![t] = Append(stack[t], e)]
  <2>1. stack' = [stack EXCEPT ![t] = Append(stack[t], e)]
    BY DEF LinkBegin, Call
  <2>2. stack'[t] = Append(stack[t], e)
    BY <2>1 DEF IInv, TypeOK
  <2> QED
    BY <1>1, <2>1, <2>2, PushFacts
<1>3. \A u \in Thread : u # t => stack'[u] = stack[u] /\ stack[u] = <<>>
  <2>1. \A u \in Thread : u # t => lock # u
    BY DEF LinkBegin, CanLock
  <2> QED
    BY <1>2, <2>1 DEF IInv, TypeOK, LockInv
<1> HIDE DEF n
<1>4. /\ lock' = t /\ UNCHANGED <<state, initThread, purged, resolved, owner, wants, exception, unseen>>
      /\ \A r \in Site : site'[r] = "linked" => site[r] = "linked"
      /\ site' \in [Site -> {"prelink", "begun", "linked"}]
  BY DEF IInv, TypeOK, LinkBegin
<1>5. TypeOK'
  BY <1>2, <1>4 DEF IInv, TypeOK
<1>6. n # 0 => stack[t][n].at = "clinit"
  BY <1>1, <1>2, EmptySeq DEF LinkBegin, Runs, InJava, At, Top, n
<1>7. LockInv'
  <2>1. \A i \in 1 .. n + 1 : stack'[t][i].at = "enter" => i = n + 1
    <3>1. \A i \in 1 .. n : stack[t][i].at = "enter" => i = n
      BY DEF IInv, LockInv, n
    <3>2. \A i \in 1 .. n : stack'[t][i].at # "enter"
      BY <1>2, <1>6, <3>1
    <3> QED
      BY <1>2, <3>2
  <2>2. \A u \in Thread : stack'[u] # <<>> <=> lock' = u
    BY <1>2, <1>3, <1>4
  <2>3. \A u \in Thread \ {t} : \A i \in 1 .. Len(stack'[u]) : FALSE
    BY <1>3, EmptySeq
  <2> QED
    BY <1>2, <2>1, <2>2, <2>3 DEF LockInv
<1>8. /\ \A u \in Thread : Begun(u)' = Begun(u)
      /\ \A u \in Thread : \A i \in Begun(u) : stack'[u][i] = stack[u][i]
  <2>1. \A i : i \in 1 .. n + 1 <=> i \in 1 .. n \/ i = n + 1
    BY <1>2
  <2>2. Begun(t)' = Begun(t)
    BY <1>2, <2>1 DEF Begun, n
  <2> QED
    BY <1>2, <1>3, <2>2 DEF Begun, n
<1>9. SoleInitializer'
  BY <1>4, <1>8 DEF IInv, SoleInitializer
<1>10. SettledInv'
  BY <1>4 DEF IInv, SettledInv
<1>11. FrameInv'
  <2> SUFFICES ASSUME NEW i \in 1 .. n + 1
               PROVE  /\ stack'[t][i].site # None => stack'[t][i].cl = Target[stack'[t][i].site]
                      /\ stack'[t][i].at # "enter" => Super[stack'[t][i].cl] # None
                      /\ stack'[t][i].at = "parent" /\ i < n + 1 =>
                            stack'[t][i + 1].cl = Super[stack'[t][i].cl]
    <3>1. \A u \in Thread \ {t} : \A i \in 1 .. Len(stack'[u]) : FALSE
      BY <1>3, EmptySeq
    <3> QED
      BY <1>2, <3>1 DEF FrameInv
  <2>1. CASE i = n + 1
    BY <1>2, <2>1
  <2>2. CASE i \in 1 .. n
    <3>1. stack'[t][i] = stack[t][i] /\ (i < n => stack'[t][i + 1] = stack[t][i + 1])
      BY <1>2, <2>2
    <3>2. i = n => stack[t][i].at # "parent"
      BY <1>6, <2>2
    <3>3. i # n => i < n
      BY <1>2, <2>2
    <3> QED
      BY <2>2, <3>1, <3>2, <3>3 DEF IInv, FrameInv, n
  <2> QED
    BY <1>2, <2>1, <2>2
<1>12. ParentInv'
  BY <1>2, <1>3 DEF ParentInv, Top
<1>13. SuperFirst'
  BY <1>4, <1>8 DEF IInv, SuperFirst, SuperKnown
<1> QED
  BY <1>5, <1>7, <1>9, <1>10, <1>11, <1>12, <1>13 DEF IInv

\* The superclass is done: the static initializer may run.
LEMMA ParentDoneStep ==
    ASSUME IInv, NEW t \in Thread, ParentDone(t)
    PROVE  IInv'
<1> DEFINE n == Len(stack[t])
<1>1. /\ UNCHANGED <<lock, state, initThread, purged, site, resolved, owner, wants, exception, unseen>>
      /\ stack[t] \in Seq(Frame) /\ stack[t] # <<>> /\ stack[t][n].at = "parent"
      /\ ~ exception[t]
  BY DEF ParentDone, At, Top, IInv, TypeOK
<1>2. /\ n \in Nat \ {0} /\ stack'[t] \in Seq(Frame) /\ stack'[t] # <<>>
      /\ Len(stack'[t]) = n
      /\ \A i \in 1 .. n - 1 : stack'[t][i] = stack[t][i]
      /\ stack'[t][n] = [cl |-> stack[t][n].cl, site |-> stack[t][n].site, at |-> "clinit"]
      /\ \A u \in Thread : u # t => stack'[u] = stack[u]
      /\ stack' \in [Thread -> Seq(Frame)]
  <2>1. stack' = [stack EXCEPT ![t] = [stack[t] EXCEPT ![n].at = "clinit"]]
    BY DEF ParentDone, Goto
  <2>2. stack'[t] = [stack[t] EXCEPT ![n].at = "clinit"]
    BY <2>1 DEF IInv, TypeOK
  <2>3. /\ n \in Nat \ {0} /\ stack'[t] \in Seq(Frame) /\ stack'[t] # <<>>
        /\ Len(stack'[t]) = n
        /\ \A i \in 1 .. n - 1 : stack'[t][i] = stack[t][i]
        /\ stack'[t][n] = [cl |-> stack[t][n].cl, site |-> stack[t][n].site, at |-> "clinit"]
    <3> DEFINE q == stack[t]
               p == [q EXCEPT ![Len(q)].at = "clinit"]
    <3>1. q \in Seq(Frame) /\ q # <<>>
      BY <1>1
    <3> HIDE DEF q
    <3>2. /\ p \in Seq(Frame) /\ p # <<>>
          /\ Len(q) \in Nat \ {0} /\ Len(p) = Len(q)
          /\ \A i \in 1 .. Len(q) - 1 : p[i] = q[i]
          /\ p[Len(q)] = [cl |-> q[Len(q)].cl, site |-> q[Len(q)].site, at |-> "clinit"]
      BY <3>1, GotoFacts
    <3>3. stack'[t] = p
      BY <2>2 DEF q
    <3> HIDE DEF p
    <3> QED
      BY <3>2, <3>3 DEF q
  <2> HIDE DEF n
  <2>4. stack' \in [Thread -> Seq(Frame)]
    <3>1. [stack[t] EXCEPT ![n].at = "clinit"] \in Seq(Frame)
      BY <2>2, <2>3
    <3> QED
      BY <2>1, <3>1 DEF IInv, TypeOK
  <2> QED
    BY <2>1, <2>3, <2>4 DEF IInv, TypeOK
<1> HIDE DEF n
<1>3. \A i \in 1 .. n : /\ stack'[t][i].cl = stack[t][i].cl
                        /\ stack'[t][i].site = stack[t][i].site
                        /\ stack'[t][i].at = "enter" <=> stack[t][i].at = "enter"
                        /\ i # n => stack'[t][i].at = stack[t][i].at
  <2>1. \A i \in 1 .. n : i # n => i \in 1 .. n - 1
    BY <1>2
  <2> QED
    BY <1>1, <1>2, <2>1
<1>4. /\ \A u \in Thread : Begun(u)' = Begun(u)
      /\ \A u \in Thread : \A i \in Begun(u) : stack'[u][i].cl = stack[u][i].cl
      /\ n \in Begun(t)
  <2>1. n \in 1 .. n
    BY <1>2
  <2>2. Begun(t)' = Begun(t) /\ \A i \in Begun(t) : stack'[t][i].cl = stack[t][i].cl
    BY <1>2, <1>3 DEF Begun, n
  <2>3. \A u \in Thread : u # t => Begun(u)' = Begun(u) /\ stack'[u] = stack[u]
    BY <1>2 DEF Begun
  <2> QED
    BY <1>1, <2>1, <2>2, <2>3 DEF Begun, n
<1>5. TypeOK'
  BY <1>1, <1>2 DEF IInv, TypeOK
<1>6. LockInv'
  <2>1. \A i \in 1 .. Len(stack'[t]) : stack'[t][i].at = "enter" => i = Len(stack'[t])
    BY <1>2, <1>3 DEF IInv, LockInv, n
  <2>2. \A u \in Thread : stack'[u] # <<>> <=> lock' = u
    BY <1>1, <1>2 DEF IInv, LockInv
  <2>3. \A u \in Thread : u # t => \A i \in 1 .. Len(stack'[u]) :
           stack'[u][i].at = "enter" => i = Len(stack'[u])
    BY <1>2 DEF IInv, LockInv
  <2> QED
    BY <2>1, <2>2, <2>3 DEF LockInv
<1>7. SoleInitializer' /\ SettledInv'
  BY <1>1, <1>4 DEF IInv, SoleInitializer, SettledInv
<1>8. FrameInv'
  <2> SUFFICES ASSUME NEW i \in 1 .. n
               PROVE  /\ stack'[t][i].site # None => stack'[t][i].cl = Target[stack'[t][i].site]
                      /\ stack'[t][i].at # "enter" => Super[stack'[t][i].cl] # None
                      /\ stack'[t][i].at = "parent" /\ i < n =>
                            stack'[t][i + 1].cl = Super[stack'[t][i].cl]
    BY <1>2 DEF IInv, FrameInv
  <2>1. i < n => i + 1 \in 1 .. n
    BY <1>2
  <2> QED
    BY <1>2, <1>3, <2>1 DEF IInv, FrameInv, n
<1>9. ParentInv'
  <2> SUFFICES ASSUME NEW u \in Thread, stack'[u] # <<>>, stack'[u][Len(stack'[u])].at = "parent",
                      ~ exception'[u]
               PROVE  SuperKnown(u, Len(stack[u]))'
    BY <1>2 DEF ParentInv, Top, n
  <2>1. u # t
    BY <1>2
  <2>2. stack'[u] = stack[u] /\ SuperKnown(u, Len(stack[u]))
    BY <1>1, <1>2, <2>1 DEF IInv, ParentInv, Top
  <2> QED
    BY <1>1, <2>2 DEF SuperKnown, Begun
<1>10. SuperFirst'
  <2> SUFFICES ASSUME NEW u \in Thread, NEW i \in Begun(u), stack'[u][i].at = "clinit"
               PROVE  SuperKnown(u, i)
    BY <1>1, <1>4 DEF SuperFirst, SuperKnown
  <2>1. CASE u = t /\ i = n
    BY <1>1, <2>1 DEF IInv, ParentInv, Top, n
  <2>2. CASE ~ (u = t /\ i = n)
    BY <1>2, <1>3, <2>2 DEF IInv, SuperFirst, Begun, n
  <2> QED
    BY <2>1, <2>2
<1> QED
  BY <1>5, <1>6, <1>7, <1>8, <1>9, <1>10 DEF IInv

\* The innermost call returns and leaves its class in state st: a call that has
\* begun settles the class, another finds it initialized or being initialized by
\* its own thread.
LEMMA ReturnStep ==
    ASSUME IInv, NEW t \in Thread, stack[t] # <<>>, Return(t),
           NEW st \in {"initializing", "initialized", "erroneous"},
           state' = [state EXCEPT ![Top(t).cl] = st],
           Top(t).at # "enter" => st # "initializing",
           Top(t).at = "enter" /\ st = "initializing" => state[Top(t).cl] = st /\ initThread' = initThread,
           Top(t).at = "enter" => st # "erroneous" /\ (state[Top(t).cl] = "initializing" => st = "initializing"),
           initThread' \in [Class -> Thread \cup {None}],
           \A c \in Class : c # Top(t).cl => initThread'[c] = initThread[c],
           st = "initializing" => initThread[Top(t).cl] = t,
           st = "erroneous" => exception[t],
           purged' = purged \/ (purged' = purged \cup {Top(t).cl} /\ st = "initialized"),
           UNCHANGED <<owner, wants, exception>>
    PROVE  IInv'
<1> USE SuperAssumption
<1> DEFINE n == Len(stack[t])
           c == stack[t][n].cl
<1>1. /\ n \in Nat \ {0} /\ stack'[t] \in Seq(Frame) /\ (stack'[t] = <<>> <=> n = 1)
      /\ Len(stack'[t]) = n - 1
      /\ \A i \in 1 .. n - 1 : stack'[t][i] = stack[t][i]
      /\ \A u \in Thread : u # t => stack'[u] = stack[u] /\ stack[u] = <<>>
      /\ stack' \in [Thread -> Seq(Frame)]
      /\ stack[t][n] \in Frame
  <2>1. stack' = [stack EXCEPT ![t] = SubSeq(stack[t], 1, n - 1)]
    BY DEF Return
  <2>2. stack[t] \in Seq(Frame) /\ stack'[t] = SubSeq(stack[t], 1, n - 1)
    BY <2>1 DEF IInv, TypeOK
  <2>3. /\ n \in Nat \ {0} /\ stack'[t] \in Seq(Frame) /\ (stack'[t] = <<>> <=> n = 1)
        /\ Len(stack'[t]) = n - 1
        /\ \A i \in 1 .. n - 1 : stack'[t][i] = stack[t][i]
    BY <2>2, PopFacts
  <2> HIDE DEF n
  <2>4. \A u \in Thread : u # t => stack'[u] = stack[u] /\ stack[u] = <<>>
    BY <2>1 DEF IInv, TypeOK, LockInv
  <2>5. stack' \in [Thread -> Seq(Frame)]
    <3>1. SubSeq(stack[t], 1, n - 1) \in Seq(Frame)
      BY <2>2, <2>3
    <3> HIDE DEF Return
    <3> QED
      BY <2>1, <3>1 DEF IInv, TypeOK
  <2>6. stack[t][n] \in Frame
    <3>1. n \in 1 .. n
      BY <2>3
    <3> QED
      BY <2>2, <3>1, ElementOfSeq DEF n
  <2> QED
    BY <2>3, <2>4, <2>5, <2>6
<1>2. Top(t) = stack[t][n] /\ c \in Class
  BY <1>1 DEF Top, Frame
<1>3. n \in 1 .. n /\ \A i : i \in 1 .. n - 1 => i \in 1 .. n /\ i # n
  BY <1>1
<1> HIDE DEF n, c
<1>4. /\ lock' = IF n = 1 THEN None ELSE t
      /\ site' \in [Site -> {"prelink", "begun", "linked"}]
      /\ resolved' \subseteq {Entry[s] : s \in Site}
      /\ \A s \in Site : site'[s] = "linked" \/ Entry[s] \in resolved' =>
            site[s] = "linked" \/ Entry[s] \in resolved \/ Target[s] = c
  <2>1. CASE stack[t][n].site = None
    BY <1>2, <2>1 DEF Return, n, IInv, TypeOK
  <2>2. CASE stack[t][n].site # None
    <3> DEFINE r == stack[t][n].site
    <3>1. r \in Site
      BY <1>1, <2>2 DEF Frame
    <3>2. Target[r] = c
      BY <1>3, <2>2 DEF IInv, FrameInv, n, c
    <3>3. /\ site' = [site EXCEPT ![r] = "linked"]
          /\ resolved' = IF Entry[r] = None THEN resolved ELSE resolved \cup {Entry[r]}
          /\ lock' = IF n = 1 THEN None ELSE t
      BY <1>2, <2>2 DEF Return, n
    <3> HIDE DEF r
    <3>4. /\ site' \in [Site -> {"prelink", "begun", "linked"}]
          /\ resolved' \subseteq {Entry[s] : s \in Site}
      BY <3>1, <3>3 DEF IInv, TypeOK
    <3>5. ASSUME NEW s \in Site, site'[s] = "linked" \/ Entry[s] \in resolved'
          PROVE  site[s] = "linked" \/ Entry[s] \in resolved \/ Target[s] = c
      <4>1. s = r \/ site'[s] = site[s]
        BY <3>1, <3>3 DEF IInv, TypeOK
      <4>2. Entry[s] \in resolved' => Entry[s] \in resolved \/ (Entry[s] = Entry[r] /\ Entry[r] # None)
        BY <3>3
      <4> QED
        BY <3>1, <3>2, <3>5, <4>1, <4>2
    <3> QED
      BY <3>3, <3>4, <3>5
  <2> QED
    BY <2>1, <2>2
<1>5. /\ state'[c] = st /\ \A d \in Class : d # c => state'[d] = state[d]
      /\ state' \in [Class -> {"linked", "initializing", "initialized", "erroneous"}]
  BY <1>2 DEF IInv, TypeOK, c
<1>6. /\ Begun(t)' = Begun(t) \ {n} /\ \A i \in Begun(t)' : stack'[t][i] = stack[t][i] /\ i < n
      /\ \A u \in Thread : u # t => Begun(u)' = {} /\ Begun(u) = {}
      /\ n \in Begun(t) <=> stack[t][n].at # "enter"
  <2>1. \A i : i \in 1 .. n - 1 <=> i \in (1 .. n) \ {n}
    BY <1>1
  <2>2. Begun(t)' = {i \in 1 .. n - 1 : stack[t][i].at # "enter"}
    BY <1>1 DEF Begun
  <2>3. Begun(t) = {i \in 1 .. n : stack[t][i].at # "enter"}
    BY DEF Begun, n
  <2>4. Begun(t)' = Begun(t) \ {n}
    BY <2>1, <2>2, <2>3
  <2>5. \A i \in Begun(t)' : stack'[t][i] = stack[t][i] /\ i < n
    BY <1>1, <2>2
  <2>6. \A u \in Thread : u # t => Begun(u)' = {} /\ Begun(u) = {}
    <3>1. \A u \in Thread : u # t => 1 .. Len(stack[u]) = {}
      BY <1>1, EmptySeq
    <3> QED
      BY <1>1, <3>1 DEF Begun
  <2> QED
    BY <1>3, <2>3, <2>4, <2>5, <2>6
<1>7. TypeOK'
  <2>1. purged' \subseteq Class
    BY <1>2 DEF IInv, TypeOK, c
  <2>2. lock' \in Thread \cup {None}
    BY <1>4
  <2>3. unseen' \subseteq Thread
    BY DEF IInv, TypeOK, Return, Replay
  <2> QED
    BY <1>1, <1>4, <1>5, <2>1, <2>2, <2>3 DEF IInv, TypeOK
<1>8. LockInv'
  <2>1. \A u \in Thread : stack'[u] # <<>> <=> lock' = u
    BY <1>1, <1>4
  <2>2. \A i \in 1 .. n - 1 : stack'[t][i].at # "enter"
    BY <1>1, <1>3 DEF IInv, LockInv, n
  <2>3. \A u \in Thread : u # t => 1 .. Len(stack'[u]) = {}
    BY <1>1, EmptySeq
  <2> QED
    BY <1>1, <2>1, <2>2, <2>3 DEF LockInv
<1>9. SoleInitializer'
  <2>1. ASSUME NEW u \in Thread, NEW i \in Begun(u)'
        PROVE  /\ state'[stack'[u][i].cl] = "initializing" /\ initThread'[stack'[u][i].cl] = u
               /\ \A j \in Begun(u)' : stack'[u][i].cl = stack'[u][j].cl => i = j
    <3>1. u = t /\ i \in Begun(t) /\ i # n /\ stack'[t][i] = stack[t][i]
      BY <1>6, <2>1
    <3>2. \A j \in Begun(t)' : j \in Begun(t) /\ stack'[t][j] = stack[t][j]
      BY <1>6
    <3>3. /\ state[stack[t][i].cl] = "initializing" /\ initThread[stack[t][i].cl] = t
          /\ \A j \in Begun(t) : stack[t][i].cl = stack[t][j].cl => i = j
      BY <3>1 DEF IInv, SoleInitializer
    <3>4. stack[t][i].cl \in Class
      <4>1. i \in 1 .. n
        BY <3>1 DEF Begun, n
      <4>2. stack[t] \in Seq(Frame)
        BY DEF IInv, TypeOK
      <4>3. stack[t][i] \in Frame
        BY <4>1, <4>2, ElementOfSeq DEF n
      <4> QED
        BY <4>3 DEF Frame
    <3>5. CASE stack[t][i].cl = c
      <4>1. stack[t][n].at = "enter"
        BY <1>6, <3>1, <3>3, <3>5 DEF c
      <4>2. st = "initializing" /\ initThread' = initThread
        BY <1>2, <3>3, <3>5, <4>1 DEF c
      <4> QED
        BY <1>5, <3>1, <3>2, <3>3, <3>5, <4>2
    <3>6. CASE stack[t][i].cl # c
      BY <1>2, <1>5, <3>1, <3>2, <3>3, <3>4, <3>6 DEF c
    <3> QED
      BY <3>5, <3>6
  <2>2. ASSUME NEW d \in Class, state'[d] = "initializing"
        PROVE  \E u \in Thread : initThread'[d] = u /\ \E i \in Begun(u)' : stack'[u][i].cl = d
    <3>1. state[d] = "initializing" /\ initThread'[d] = initThread[d]
          /\ (d = c => stack[t][n].at = "enter")
      <4>1. CASE d = c
        <5>1. st = "initializing" /\ stack[t][n].at = "enter"
          BY <1>2, <1>5, <2>2, <4>1
        <5> QED
          BY <1>2, <4>1, <5>1 DEF c
      <4>2. CASE d # c
        BY <1>2, <1>5, <2>2, <4>2 DEF c
      <4> QED
        BY <4>1, <4>2
    <3>2. PICK u \in Thread : initThread[d] = u /\ \E i \in Begun(u) : stack[u][i].cl = d
      BY <3>1 DEF IInv, SoleInitializer
    <3>3. u = t
      BY <1>6, <3>2
    <3>4. PICK i \in Begun(t) : stack[t][i].cl = d
      BY <3>2, <3>3
    <3>5. i # n
      BY <1>6, <3>1, <3>4 DEF c
    <3> QED
      BY <1>6, <3>1, <3>2, <3>3, <3>4, <3>5
  <2> QED
    BY <2>1, <2>2 DEF SoleInitializer
<1>10. SettledInv'
  <2>1. \A d \in purged' : state'[d] = "initialized"
    <3>1. \A d \in purged : state[d] = "initialized"
      BY DEF IInv, SettledInv
    <3>2. c \in purged => st = "initialized"
      <4>1. stack[t][n].at # "enter" => state[c] = "initializing"
        BY <1>6 DEF IInv, SoleInitializer, c
      <4> QED
        BY <1>2, <3>1, <4>1 DEF c
    <3> QED
      BY <1>2, <1>5, <3>1, <3>2 DEF IInv, TypeOK, c
  <2>2. \A s \in Site : site'[s] = "linked" \/ Entry[s] \in resolved' => state'[Target[s]] # "linked"
    BY <1>4, <1>5 DEF IInv, SettledInv
  <2> QED
    BY <2>1, <2>2 DEF SettledInv
<1>11. FrameInv'
  <2>1. \A i \in 1 .. n - 1 : i + 1 \in 1 .. n /\ i < n /\ (i < n - 1 => i + 1 \in 1 .. n - 1)
    BY <1>1
  <2>2. \A u \in Thread : u # t => 1 .. Len(stack'[u]) = {}
    BY <1>1, EmptySeq
  <2>3. ASSUME NEW i \in 1 .. n - 1
        PROVE  /\ stack'[t][i].site # None => stack'[t][i].cl = Target[stack'[t][i].site]
               /\ stack'[t][i].at # "enter" => Super[stack'[t][i].cl] # None
               /\ stack'[t][i].at = "parent" /\ i < n - 1 =>
                     stack'[t][i + 1].cl = Super[stack'[t][i].cl]
    <3>1. i \in 1 .. n /\ i < n
      BY <1>3, <2>1
    <3>2. i < n - 1 => stack'[t][i + 1] = stack[t][i + 1]
      BY <1>1, <2>1
    <3>3. /\ stack[t][i].site # None => stack[t][i].cl = Target[stack[t][i].site]
          /\ stack[t][i].at # "enter" => Super[stack[t][i].cl] # None
          /\ stack[t][i].at = "parent" /\ i < n => stack[t][i + 1].cl = Super[stack[t][i].cl]
      BY <3>1 DEF IInv, FrameInv, n
    <3>4. stack'[t][i] = stack[t][i]
      BY <1>1
    <3> QED
      BY <3>1, <3>2, <3>3, <3>4
  <2>4. Len(stack'[t]) = n - 1
    BY <1>1
  <2> QED
    BY ONLY <2>2, <2>3, <2>4 DEF FrameInv
<1>12. ParentInv'
  <2> SUFFICES ASSUME stack'[t] # <<>>, stack'[t][n - 1].at = "parent", ~ exception[t]
               PROVE  \/ state'[Super[stack'[t][n - 1].cl]] = "initialized"
                      \/ \E j \in Begun(t)' : j < n - 1 /\ stack'[t][j].cl = Super[stack'[t][n - 1].cl]
    <3>1. ASSUME NEW u \in Thread, stack'[u] # <<>>, stack'[u][Len(stack'[u])].at = "parent",
                 ~ exception'[u]
          PROVE  SuperKnown(u, Len(stack[u]))'
      <4>1. u = t
        BY ONLY <1>1, <3>1, u \in Thread, stack'[u] # <<>>
      <4>2. Len(stack'[u]) = n - 1
        BY ONLY <1>1, <4>1
      <4>3. ~ exception[t]
        BY ONLY <3>1, <4>1, UNCHANGED <<owner, wants, exception>>
      <4> QED
        BY <3>1, <4>1, <4>2, <4>3 DEF SuperKnown
    <3> QED
      BY <3>1 DEF ParentInv, Top
  <2>1. n - 1 \in 1 .. n - 1 /\ n - 1 \in 1 .. n /\ n - 1 < n /\ n - 1 + 1 = n
    BY <1>1
  <2>2. stack'[t][n - 1] = stack[t][n - 1] /\ stack[t][n - 1].at = "parent"
    BY <1>1, <2>1
  <2>3. c = Super[stack'[t][n - 1].cl] /\ stack[t][n - 1].cl \in Class
    <3>1. stack[t] \in Seq(Frame)
      BY DEF IInv, TypeOK
    <3>2. stack[t][n - 1] \in Frame
      BY <2>1, <3>1, ElementOfSeq DEF n
    <3> QED
      BY <2>1, <2>2, <3>2 DEF IInv, FrameInv, Frame, n, c
  <2>4. CASE st = "initialized"
    BY <1>5, <2>3, <2>4
  <2>5. CASE st = "initializing"
    <3>1. stack[t][n].at = "enter" /\ state[c] = "initializing" /\ initThread[c] = t
      BY <1>2, <2>5 DEF c
    <3>2. PICK j \in Begun(t) : stack[t][j].cl = c
      BY <1>2, <3>1 DEF IInv, SoleInitializer
    <3>3. j # n /\ j # n - 1
      BY <1>6, <2>2, <2>3, <3>1, <3>2
    <3>4. j \in 1 .. n
      BY <3>2 DEF Begun, n
    <3>5. j < n - 1
      BY <1>1, <3>3, <3>4
    <3>6. j \in Begun(t)' /\ stack'[t][j].cl = c
      BY <1>6, <3>2, <3>3
    <3> QED
      BY <2>3, <3>5, <3>6
  <2> QED
    BY <2>4, <2>5
<1>13. SuperFirst'
  <2> SUFFICES ASSUME NEW i \in Begun(t)', stack'[t][i].at = "clinit"
               PROVE  SuperKnown(t, i)'
    BY <1>6 DEF SuperFirst
  <2> DEFINE d == Super[stack[t][i].cl]
  <2>1. i \in Begun(t) /\ stack'[t][i] = stack[t][i] /\ i < n /\ i # n
    BY <1>6
  <2>2. SuperKnown(t, i)
    BY <2>1 DEF IInv, SuperFirst
  <2>3. CASE state[d] = "initialized"
    <3>1. d = c => st = "initialized"
      <4>1. stack[t][n].at # "enter" => state[c] = "initializing"
        BY <1>6 DEF IInv, SoleInitializer, c
      <4> QED
        BY <1>2, <2>3, <4>1 DEF c
    <3>2. i \in 1 .. n /\ stack[t] \in Seq(Frame)
      BY <2>1 DEF Begun, IInv, TypeOK, n
    <3>3. stack[t][i] \in Frame
      BY <3>2, ElementOfSeq DEF n
    <3>4. d \in Class
      BY <2>1, <3>2, <3>3 DEF IInv, FrameInv, Frame, Begun, n
    <3>5. state'[d] = "initialized"
      BY <1>5, <2>3, <3>1, <3>4
    <3> QED
      BY <2>1, <3>5 DEF SuperKnown
  <2>4. CASE state[d] # "initialized"
    <3>1. PICK j \in Begun(t) : j < i /\ stack[t][j].cl = d
      BY <2>2, <2>4 DEF SuperKnown
    <3>2. j # n
      BY <1>1, <2>1, <3>1 DEF Begun
    <3> QED
      BY <1>6, <2>1, <3>1, <3>2 DEF SuperKnown
  <2> QED
    BY <2>3, <2>4
<1> QED
  BY <1>7, <1>8, <1>9, <1>10, <1>11, <1>12, <1>13 DEF IInv

\* The thread registers as the initializer of the class, and either runs the static
\* initializer or calls initialize_class() for the superclass.
LEMMA InitBeginStep ==
    ASSUME IInv, NEW t \in Thread, InitBegin(t)
    PROVE  IInv'
<1> USE SuperAssumption
<1> DEFINE n == Len(stack[t])
           m == Len(stack'[t])
           c == stack[t][n].cl
<1>1. /\ UNCHANGED <<lock, purged, site, resolved, owner, wants, exception, unseen>>
      /\ stack[t] \in Seq(Frame) /\ stack[t] # <<>> /\ stack[t][n].at = "enter"
      /\ Super[c] # None /\ state[c] \in {"linked", "erroneous"}
      /\ state' = [state EXCEPT ![c] = "initializing"]
      /\ initThread' = [initThread EXCEPT ![c] = t]
  BY DEF InitBegin, At, Top, IInv, TypeOK
<1>2. n \in Nat \ {0} /\ n \in 1 .. n /\ stack[t][n] \in Frame /\ c \in Class
  <2>1. n \in Nat \ {0} /\ n \in 1 .. n
    BY <1>1, EmptySeq
  <2>2. stack[t][n] \in Frame
    BY <1>1, <2>1, ElementOfSeq
  <2> QED
    BY <2>1, <2>2 DEF Frame
<1>3. /\ stack'[t] \in Seq(Frame) /\ stack'[t] # <<>>
      /\ \A i \in 1 .. n - 1 : stack'[t][i] = stack[t][i]
      /\ stack'[t][n].cl = c /\ stack'[t][n].site = stack[t][n].site
      /\ \/ m = n /\ stack'[t][n].at = "clinit" /\ state[Super[c]] = "initialized"
         \/ /\ m = n + 1 /\ stack'[t][n].at = "parent"
            /\ stack'[t][n + 1] = [cl |-> Super[c], site |-> None, at |-> "enter"]
      /\ \A u \in Thread : u # t => stack'[u] = stack[u] /\ stack[u] = <<>>
      /\ stack' \in [Thread -> Seq(Frame)]
  <2> DEFINE p == [stack[t] EXCEPT ![n].at = "parent"]
             r == [stack[t] EXCEPT ![n].at = "clinit"]
             e == [cl |-> Super[c], site |-> None, at |-> "enter"]
             q == IF state[Super[c]] # "initialized" THEN Append(p, e) ELSE r
  <2>1. stack' = [stack EXCEPT ![t] = q]
    BY DEF InitBegin, Goto, Call, Top
  <2>2. stack'[t] = q
    BY <2>1 DEF IInv, TypeOK
  <2>3. e \in Frame
    BY <1>1, <1>2 DEF Frame
  <2>4. /\ p \in Seq(Frame) /\ Len(p) = n
        /\ \A i \in 1 .. n - 1 : p[i] = stack[t][i]
        /\ p[n] = [cl |-> c, site |-> stack[t][n].site, at |-> "parent"]
    BY <1>1, GotoFacts
  <2>5. /\ r \in Seq(Frame) /\ r # <<>> /\ Len(r) = n
        /\ \A i \in 1 .. n - 1 : r[i] = stack[t][i]
        /\ r[n] = [cl |-> c, site |-> stack[t][n].site, at |-> "clinit"]
    BY <1>1, GotoFacts
  <2> HIDE DEF n, c, e, p, r
  <2>6. /\ Append(p, e) \in Seq(Frame) /\ Append(p, e) # <<>> /\ Len(Append(p, e)) = n + 1
        /\ \A i \in 1 .. n : Append(p, e)[i] = p[i]
        /\ Append(p, e)[n + 1] = e
    BY <2>3, <2>4, PushFacts
  <2>7. stack' \in [Thread -> Seq(Frame)] /\ stack'[t] \in Seq(Frame) /\ stack'[t] # <<>>
    <3>1. q \in Seq(Frame) /\ q # <<>>
      BY <2>5, <2>6
    <3> HIDE DEF q
    <3> QED
      BY <2>1, <2>2, <3>1 DEF IInv, TypeOK
  <2>8. \A u \in Thread : u # t => stack'[u] = stack[u] /\ stack[u] = <<>>
    <3> HIDE DEF q
    <3> QED
      BY <1>1, <2>1 DEF IInv, TypeOK, LockInv
  <2>9. CASE state[Super[c]] = "initialized"
    <3>1. stack'[t] = r
      BY <2>2, <2>9
    <3> HIDE DEF q
    <3> QED
      BY <2>5, <2>7, <2>8, <2>9, <3>1
  <2>10. CASE state[Super[c]] # "initialized"
    <3>1. stack'[t] = Append(p, e)
      BY <2>2, <2>10
    <3> HIDE DEF q
    <3>2. \A i \in 1 .. n - 1 : i \in 1 .. n
      BY <1>2
    <3>3. /\ m = n + 1 /\ stack'[t][n] = p[n] /\ stack'[t][n + 1] = e
          /\ \A i \in 1 .. n - 1 : stack'[t][i] = stack[t][i]
      BY <1>2, <2>4, <2>6, <3>1, <3>2
    <3> QED
      BY <2>4, <2>7, <2>8, <3>3 DEF e
  <2> QED
    BY <2>9, <2>10
<1> HIDE DEF n, c
<1>4. /\ state'[c] = "initializing" /\ \A d \in Class : d # c => state'[d] = state[d]
      /\ initThread'[c] = t /\ \A d \in Class : d # c => initThread'[d] = initThread[d]
  BY <1>1, <1>2 DEF IInv, TypeOK
<1>5. /\ m \in Nat /\ m >= n
      /\ \A i : i \in 1 .. m <=> i \in 1 .. n - 1 \/ i = n \/ (i = n + 1 /\ m = n + 1)
      /\ \A i : i \in 1 .. n <=> i \in 1 .. n - 1 \/ i = n
  BY <1>2, <1>3
<1> HIDE DEF m
<1>6. TypeOK'
  BY <1>1, <1>2, <1>3 DEF IInv, TypeOK
<1>7. \A i \in 1 .. n - 1 : stack[t][i].at # "enter"
  BY <1>2, <1>5 DEF IInv, LockInv, n
<1>8. /\ Begun(t)' = Begun(t) \cup {n} /\ n \notin Begun(t)
      /\ \A i \in Begun(t) : stack'[t][i] = stack[t][i] /\ i < n
      /\ \A u \in Thread : u # t => Begun(u)' = {} /\ Begun(u) = {}
  <2>1. Begun(t)' = {i \in 1 .. m : stack'[t][i].at # "enter"}
    BY DEF Begun, m
  <2>2. Begun(t) = {i \in 1 .. n : stack[t][i].at # "enter"}
    BY DEF Begun, n
  <2>3. \A u \in Thread : u # t => Begun(u)' = {} /\ Begun(u) = {}
    <3>1. \A u \in Thread : u # t => 1 .. Len(stack[u]) = {}
      BY <1>3, EmptySeq
    <3> QED
      BY <1>3, <3>1 DEF Begun
  <2>4. n \notin 1 .. n - 1 /\ \A i \in 1 .. n - 1 : i < n
    BY <1>2
  <2> QED
    BY <1>1, <1>3, <1>5, <2>1, <2>2, <2>3, <2>4
<1>9. \A i \in Begun(t) : stack[t][i].cl \in Class /\ stack[t][i].cl # c
  <2>1. \A i \in Begun(t) : state[stack[t][i].cl] = "initializing"
    BY DEF IInv, SoleInitializer
  <2>2. \A i \in 1 .. n : stack[t][i] \in Frame
    BY <1>1, ElementOfSeq DEF n
  <2> QED
    BY <1>1, <2>1, <2>2 DEF Begun, n, Frame
<1>10. LockInv'
  <2>1. \A u \in Thread : stack'[u] # <<>> <=> lock' = u
    <3>1. lock' = lock /\ \A u \in Thread : stack[u] # <<>> <=> lock = u
      BY <1>1 DEF IInv, LockInv
    <3>2. stack'[t] # <<>> /\ stack[t] # <<>> /\ \A u \in Thread : u # t => stack'[u] = stack[u]
      BY <1>1, <1>3
    <3> QED
      BY <3>1, <3>2
  <2>2. \A i \in 1 .. m : stack'[t][i].at = "enter" => i = m
    BY <1>3, <1>5, <1>7
  <2>3. \A u \in Thread : u # t => 1 .. Len(stack'[u]) = {}
    BY <1>3, EmptySeq
  <2> QED
    BY <2>1, <2>2, <2>3 DEF LockInv, m
<1>11. SoleInitializer'
  <2>1. ASSUME NEW i \in Begun(t)'
        PROVE  /\ state'[stack'[t][i].cl] = "initializing" /\ initThread'[stack'[t][i].cl] = t
               /\ \A j \in Begun(t)' : stack'[t][i].cl = stack'[t][j].cl => i = j
    <3>1. CASE i = n
      <4>1. \A j \in Begun(t)' : j = n \/ stack'[t][j].cl # c
        BY <1>8, <1>9
      <4> QED
        BY <1>3, <1>4, <3>1, <4>1
    <3>2. CASE i \in Begun(t)
      <4>1. /\ state[stack[t][i].cl] = "initializing" /\ initThread[stack[t][i].cl] = t
            /\ \A j \in Begun(t) : stack[t][i].cl = stack[t][j].cl => i = j
        BY <3>2 DEF IInv, SoleInitializer
      <4>2. stack'[t][i] = stack[t][i] /\ stack[t][i].cl \in Class /\ stack[t][i].cl # c
        BY <1>8, <1>9, <3>2
      <4>3. ASSUME NEW j \in Begun(t)', stack'[t][i].cl = stack'[t][j].cl PROVE i = j
        <5>1. j # n
          BY <1>3, <4>2, <4>3
        <5>2. j \in Begun(t) /\ stack'[t][j] = stack[t][j]
          BY <1>8, <4>3, <5>1
        <5> QED
          BY <4>1, <4>2, <4>3, <5>2
      <4>4. state'[stack[t][i].cl] = "initializing" /\ initThread'[stack[t][i].cl] = t
        BY <1>4, <4>1, <4>2
      <4> QED
        BY <4>2, <4>3, <4>4
    <3> QED
      BY <1>8, <3>1, <3>2
  <2>2. ASSUME NEW d \in Class, state'[d] = "initializing"
        PROVE  \E u \in Thread : initThread'[d] = u /\ \E i \in Begun(u)' : stack'[u][i].cl = d
    <3>1. CASE d = c
      BY <1>3, <1>4, <1>8, <3>1
    <3>2. CASE d # c
      <4>1. PICK u \in Thread : initThread[d] = u /\ \E i \in Begun(u) : stack[u][i].cl = d
        BY <1>4, <2>2, <3>2 DEF IInv, SoleInitializer
      <4> QED
        BY <1>4, <1>8, <3>2, <4>1
    <3> QED
      BY <3>1, <3>2
  <2> QED
    BY <1>8, <2>1, <2>2 DEF SoleInitializer
<1>12. SettledInv'
  <2>1. c \notin purged
    BY <1>1 DEF IInv, SettledInv
  <2> QED
    BY <1>1, <1>4, <2>1 DEF IInv, TypeOK, SettledInv
<1>13. FrameInv'
  <2>1. ASSUME NEW i \in 1 .. m
        PROVE  /\ stack'[t][i].site # None => stack'[t][i].cl = Target[stack'[t][i].site]
               /\ stack'[t][i].at # "enter" => Super[stack'[t][i].cl] # None
               /\ stack'[t][i].at = "parent" /\ i < m =>
                     stack'[t][i + 1].cl = Super[stack'[t][i].cl]
    <3>1. CASE i \in 1 .. n - 1
      <4>1. i \in 1 .. n /\ i < n /\ (i + 1 \in 1 .. n - 1 \/ i + 1 = n)
        BY <1>2, <3>1
      <4>2. stack'[t][i] = stack[t][i] /\ stack'[t][i + 1].cl = stack[t][i + 1].cl
        BY <1>3, <3>1, <4>1 DEF c
      <4>3. /\ stack[t][i].site # None => stack[t][i].cl = Target[stack[t][i].site]
            /\ stack[t][i].at # "enter" => Super[stack[t][i].cl] # None
            /\ stack[t][i].at = "parent" /\ i < n => stack[t][i + 1].cl = Super[stack[t][i].cl]
        BY <4>1 DEF IInv, FrameInv, n
      <4> QED
        BY <4>1, <4>2, <4>3
    <3>2. CASE i = n
      <4>1. stack[t][n].site # None => c = Target[stack[t][n].site]
        BY <1>2 DEF IInv, FrameInv, n, c
      <4> QED
        BY <1>1, <1>2, <1>3, <3>2, <4>1
    <3>3. CASE i = n + 1 /\ m = n + 1
      <4>1. stack'[t][i] = [cl |-> Super[c], site |-> None, at |-> "enter"]
        BY <1>2, <1>3, <3>3
      <4> QED
        BY <4>1
    <3> QED
      BY <1>5, <3>1, <3>2, <3>3
  <2>2. \A u \in Thread : u # t => 1 .. Len(stack'[u]) = {}
    BY <1>3, EmptySeq
  <2>3. Len(stack'[t]) = m
    BY DEF m
  <2> QED
    BY ONLY <2>1, <2>2, <2>3 DEF FrameInv
<1>14. ParentInv'
  <2>1. stack'[t][m].at # "parent"
    BY <1>2, <1>3
  <2> QED
    BY <1>3, <2>1 DEF ParentInv, Top, m
<1>15. SuperFirst'
  <2> SUFFICES ASSUME NEW i \in Begun(t)', stack'[t][i].at = "clinit"
               PROVE  SuperKnown(t, i)'
    BY <1>8 DEF SuperFirst
  <2>1. \A d \in Class : state[d] = "initialized" => state'[d] = "initialized"
    BY <1>1, <1>4
  <2>2. CASE i = n
    <3>1. state[Super[c]] = "initialized" /\ Super[c] \in Class
      BY <1>1, <1>2, <1>3, <2>2
    <3> QED
      BY <1>3, <2>1, <2>2, <3>1 DEF SuperKnown
  <2>3. CASE i \in Begun(t)
    <3>1. stack'[t][i] = stack[t][i]
      BY <1>8, <2>3
    <3>2. SuperKnown(t, i)
      BY <2>3, <3>1 DEF IInv, SuperFirst
    <3>3. Super[stack[t][i].cl] \in Class
      BY <1>9, <2>3 DEF IInv, FrameInv, Begun
    <3> QED
      BY <1>8, <2>1, <3>1, <3>2, <3>3 DEF SuperKnown
  <2> QED
    BY <1>8, <2>2, <2>3
<1> QED
  BY <1>6, <1>10, <1>11, <1>12, <1>13, <1>14, <1>15 DEF IInv

----------------------------------------------------------------------------
\* Every step of a thread preserves the invariant.
LEMMA StepInv == ASSUME IInv, [Next]_vars PROVE IInv'
<1>1. ASSUME NEW t \in Thread, NEW s \in Site, LinkBegin(t, s) PROVE IInv'
  BY <1>1, LinkBeginStep
<1>2. ASSUME NEW t \in Thread, NEW s \in Site, LinkResolved(t, s) PROVE IInv'
  BY <1>2, LinkResolvedStep
<1>3. ASSUME NEW t \in Thread, InitDone(t) PROVE IInv'
  <2> DEFINE st == state[Top(t).cl]
  <2>1. /\ stack[t] # <<>> /\ Top(t).at = "enter" /\ Return(t)
        /\ UNCHANGED <<state, initThread, purged, owner, wants, exception>>
        /\ st = "initialized" \/ (st = "initializing" /\ initThread[Top(t).cl] = t)
    BY <1>3 DEF InitDone, At
  <2>2. state' = [state EXCEPT ![Top(t).cl] = st]
    BY <2>1 DEF IInv, TypeOK
  <2>3. initThread' \in [Class -> Thread \cup {None}]
    BY <2>1 DEF IInv, TypeOK
  <2> HIDE DEF st
  <2>4. st \in {"initializing", "initialized", "erroneous"} /\ st = state[Top(t).cl]
    BY <2>1 DEF st
  <2> QED
    BY <2>1, <2>2, <2>3, <2>4, ReturnStep
<1>4. ASSUME NEW t \in Thread, InitBegin(t) PROVE IInv'
  BY <1>4, InitBeginStep
<1>5. ASSUME NEW t \in Thread, InitObject(t) PROVE IInv'
  <2>1. /\ stack[t] # <<>> /\ Top(t).at = "enter" /\ Return(t)
        /\ UNCHANGED <<purged, owner, wants, exception>>
        /\ state[Top(t).cl] = "linked"
        /\ state' = [state EXCEPT ![Top(t).cl] = "initialized"]
        /\ initThread' = [initThread EXCEPT ![Top(t).cl] = t]
    BY <1>5 DEF InitObject, At, Settle
  <2>2. /\ initThread' \in [Class -> Thread \cup {None}]
        /\ \A c \in Class : c # Top(t).cl => initThread'[c] = initThread[c]
    BY <2>1 DEF IInv, TypeOK
  <2> QED
    BY <2>1, <2>2, ReturnStep
<1>6. ASSUME NEW t \in Thread, ParentDone(t) PROVE IInv'
  BY <1>6, ParentDoneStep
<1>7. ASSUME NEW t \in Thread, InitFailed(t) PROVE IInv'
  <2>1. /\ stack[t] # <<>> /\ Top(t).at # "enter" /\ Return(t) /\ exception[t]
        /\ UNCHANGED <<initThread, purged, owner, wants, exception>>
        /\ state' = [state EXCEPT ![Top(t).cl] = "erroneous"]
    BY <1>7 DEF InitFailed, At, Settle
  <2>2. initThread' \in [Class -> Thread \cup {None}]
    BY <2>1 DEF IInv, TypeOK
  <2> QED
    BY <2>1, <2>2, ReturnStep
<1>8. ASSUME NEW t \in Thread, InitEnd(t) PROVE IInv'
  <2>1. /\ stack[t] # <<>> /\ Top(t).at # "enter" /\ Return(t)
        /\ UNCHANGED <<initThread, owner, wants, exception>>
        /\ purged' = purged \cup {Top(t).cl}
        /\ state' = [state EXCEPT ![Top(t).cl] = "initialized"]
    BY <1>8 DEF InitEnd, At, Settle
  <2>2. initThread' \in [Class -> Thread \cup {None}]
    BY <2>1 DEF IInv, TypeOK
  <2> QED
    BY <2>1, <2>2, ReturnStep
<1>9. ASSUME NEW t \in Thread, Throw(t) \/ Catch(t) \/ MainLoops(t) PROVE IInv'
  BY <1>9, ProgramSteps
<1>10. ASSUME NEW t \in Thread, NEW c \in Sync, EnterCall(t, c) \/ Enter(t, c) \/ Exit(t, c) PROVE IInv'
  <2>1. c \in Class
    BY SuperAssumption
  <2> QED
    BY <1>10, <2>1, ProgramSteps
<1>11. CASE UNCHANGED vars
  BY <1>11 DEF vars, IInv, TypeOK, LockInv, SoleInitializer, SettledInv, FrameInv, ParentInv,
              SuperFirst, SuperKnown, Begun, Top
<1> QED
  BY <1>1, <1>2, <1>3, <1>4, <1>5, <1>6, <1>7, <1>8, <1>9, <1>10, <1>11 DEF Next, Step

\* The lock that the linker holds while a class is initialized makes its initializer
\* the only one: a class is initialized by one thread, in one call, and no thread
\* waits in initialize_class() for another.
THEOREM Initialization == Spec => []IInv
<1>1. Init => IInv
  BY InitInv
<1>2. IInv /\ [Next]_vars => IInv'
  BY StepInv
<1> QED
  BY <1>1, <1>2, PTL DEF Spec

\* Static initializers run in the order of inheritance: superclass first, or around.
THEOREM SuperBeforeSub == Spec => []SuperFirst
<1>1. IInv => SuperFirst
  BY DEF IInv
<1> QED
  BY <1>1, Initialization, PTL

\* An initializer that runs has not been freed: class_purge_initializer() comes after
\* the only run of it that can succeed.
THEOREM InitializersLive == Spec => []InitializerLive
<1>1. IInv => InitializerLive
  BY DEF IInv, SoleInitializer, SettledInv, InitializerLive
<1> QED
  BY <1>1, Initialization, PTL
=============================================================================
