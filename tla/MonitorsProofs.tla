-------------------------- MODULE MonitorsProofs --------------------------
(***************************************************************************)
(* For every set of threads and objects, with spurious wakeups, interrupts *)
(* and misused waits: monitors exclude each other, every exit succeeds,    *)
(* and wait() gives its monitor back.                                      *)
(***************************************************************************)
EXTENDS Monitors, TLAPS

USE NoneAssumption, ConditionAssumption, CallsAssumption

LEMMA Conditions ==
    /\ \A c \in Condition : c \in Cond /\ c # None
    /\ \A t \in Thread : /\ ThreadCond(t) \in Cond /\ ThreadCond(t) \notin Condition
                         /\ SleepCond(t) \in Cond /\ SleepCond(t) \notin Condition
  BY DEF Cond, ThreadCond, SleepCond

\* Signalling a condition wakes threads and does nothing else.
LEMMA Signalled ==
    ASSUME NEW c, signalled \subseteq Thread, Signal(c)
    PROVE  signalled' \subseteq Thread
  BY DEF Signal, Waiters

LEMMA InitInv == Init => IInv
<1> SUFFICES ASSUME Init PROVE IInv
  OBVIOUS
<1>1. TypeOK
  BY DEF Init, TypeOK
<1>2. FreeInv /\ WaiterInv /\ MonitorsAgree /\ CondInv
  BY DEF Init, FreeInv, WaiterInv, MonitorsAgree, CondInv, Waiting
<1> QED
  BY <1>1, <1>2 DEF IInv

\* Every operation preserves the invariant.
LEMMA StepInv == IInv /\ [Next]_vars => IInv'
<1> SUFFICES ASSUME IInv, [Next]_vars PROVE IInv'
  OBVIOUS
<1> USE DEF IInv, TypeOK, FreeInv, WaiterInv, MonitorsAgree, monitors, conditions, history,
            Running, CanLock
<1>0. ASSUME UNCHANGED <<cond, stray, astray, waitsOn>>,
             \A u \in Thread, o \in Object : Waiting(u, o)' <=> Waiting(u, o)
      PROVE  CondInv'
  BY <1>0 DEF CondInv
<1>1. ASSUME NEW t \in Thread, NEW o \in Object, Enter(t, o) PROVE IInv'
  <2>1. TypeOK' /\ FreeInv' /\ WaiterInv' /\ MonitorsAgree'
    BY <1>1 DEF Enter, TakeMonitor, Insert
  <2>2. CondInv'
    BY <1>1 DEF Enter, TakeMonitor, Insert, CondInv, Waiting
  <2> QED
    BY <2>1, <2>2
<1>2. ASSUME NEW t \in Thread, NEW o \in Object, Exit(t, o) PROVE IInv'
  <2>1. TypeOK' /\ FreeInv' /\ WaiterInv' /\ MonitorsAgree'
    BY <1>2 DEF Exit
  <2>2. CondInv'
    BY <1>2, <1>0 DEF Exit, Waiting
  <2> QED
    BY <2>1, <2>2
<1>3. ASSUME NEW t \in Thread, NEW o \in Object, WaitBegin(t, o) PROVE IInv'
  <2> DEFINE c == IF cond[o] = None THEN CHOOSE f \in Fresh : TRUE ELSE cond[o]
  <2>1. /\ cond[o] = None => c \in Fresh /\ StoreCondition(o, c)
        /\ cond[o] # None => c = cond[o] /\ UNCHANGED conditions
    BY <1>3 DEF WaitBegin
  <2>2. c \in Condition
    BY <2>1 DEF Fresh
  <2>3. Block(t, "wait", o, c)
    BY <1>3 DEF WaitBegin
  <2> HIDE DEF c
  <2>4. /\ pc' = [pc EXCEPT ![t] = "wait"] /\ arg' = [arg EXCEPT ![t] = o]
        /\ waitsOn' = [waitsOn EXCEPT ![t] = c] /\ condInt' = [condInt EXCEPT ![t] = c]
    BY <2>3 DEF Block
  <2>5. cond' \in [Object -> Condition \cup {None}] /\ stray' \in Condition \cup {None}
          /\ astray' \subseteq Object
    <3>1. CASE UNCHANGED conditions
      BY <3>1
    <3>2. CASE StoreCondition(o, c)
      <4>1. cond' = cond \/ \E p \in Object : cond' = [cond EXCEPT ![p] = c]
        BY <3>2 DEF StoreCondition
      <4>2. stray' \in {stray, None, c}
        BY <3>2 DEF StoreCondition
      <4>3. astray' \subseteq Object
        BY <3>2 DEF StoreCondition
      <4>4. cond' \in [Object -> Condition \cup {None}]
        BY <2>2, <4>1
      <4> QED
        BY <2>2, <4>2, <4>3, <4>4
    <3> QED
      BY <2>1, <3>1, <3>2
  <2>10. /\ owner[o] = t /\ count[o] = 1 /\ pc[t] = "run"
         /\ owner' = [owner EXCEPT ![o] = None]
         /\ count' = [count EXCEPT ![o] = 0]
         /\ holds' = [holds EXCEPT ![t][o] = 0]
         /\ result' = "ok"
         /\ UNCHANGED <<vmlock, known, signalled, interrupted, history>>
    <3> HIDE DEF TypeOK, FreeInv, WaiterInv, MonitorsAgree, history
    <3> QED
      BY <1>3, Zenon DEF WaitBegin
  <2>6. TypeOK'
    <3>1. c \in Cond
      BY <2>2, Conditions
    <3> QED
      BY <2>4, <2>5, <2>10, <3>1
  <2>7. FreeInv' /\ WaiterInv' /\ MonitorsAgree'
    BY <2>4, <2>10
  <2>8. ASSUME NEW p \in Object, NEW u \in Thread
        PROVE  Waiting(u, p)' <=> (u = t /\ p = o) \/ (u # t /\ Waiting(u, p))
    BY <2>4 DEF Waiting
  <2>9. pc[t] = "run" /\ \A p \in Object : ~ Waiting(t, p)
    BY <1>3 DEF WaitBegin, Waiting
  <2>11. ASSUME cond[o] = None PROVE CondInv'
    <3>1. /\ c # None
          /\ \A p \in Object : cond[p] # c
          /\ \A u \in Thread : waitsOn[u] # c
          /\ stray # c
      BY <2>1, <2>2, <2>11 DEF Fresh
    <3>2. astray \subseteq astray' /\ stray' \in {stray, c, None}
      BY <2>1, <2>11 DEF StoreCondition
    <3>3. \A p \in Object : cond'[p] \in {cond[p], c}
      BY <2>1, <2>11 DEF StoreCondition
    <3>4. ASSUME NEW p \in Object \ astray', p # o
          PROVE  cond'[p] = cond[p]
      BY <2>1, <2>11, <3>4 DEF StoreCondition
    <3>5. ASSUME o \notin astray'
          PROVE  cond' = [cond EXCEPT ![o] = c] /\ UNCHANGED stray
      BY <2>1, <2>11, <3>5 DEF StoreCondition
    <3>6. ASSUME NEW p \in Object \ astray', cond'[p] # None
          PROVE  stray' # cond'[p] /\ \A q \in Object \ {p} : cond'[q] # cond'[p]
      <4>1. CASE p = o
        BY <3>1, <3>3, <3>5, <3>6, <4>1
      <4>2. CASE p # o
        BY <3>1, <3>2, <3>3, <3>4, <3>6, <4>2 DEF CondInv
      <4> QED
        BY <4>1, <4>2
    <3>7. ASSUME NEW p \in Object \ astray', NEW u \in Thread
          PROVE  Waiting(u, p)' <=> cond'[p] # None /\ waitsOn'[u] = cond'[p]
      <4>1. waitsOn'[u] = IF u = t THEN c ELSE waitsOn[u]
        BY <2>4
      <4>2. CASE p = o
        <5>1. ~ Waiting(u, o)
          BY <2>11, <3>2, <4>2 DEF CondInv
        <5>2. cond'[o] = c
          BY <3>5, <4>2
        <5> QED
          BY <2>8, <3>1, <4>1, <4>2, <5>1, <5>2
      <4>3. CASE p # o
        <5>1. cond'[p] = cond[p] /\ p \notin astray
          BY <3>2, <3>4, <4>3
        <5> QED
          BY <2>8, <2>9, <3>1, <4>1, <4>3, <5>1 DEF CondInv
      <4> QED
        BY <4>2, <4>3
    <3> QED
      BY <3>6, <3>7 DEF CondInv
  <2>12. CondInv'
    <3>1. CASE cond[o] # None
      <4>1. UNCHANGED conditions /\ c = cond[o]
        BY <2>1, <3>1
      <4>2. ASSUME NEW p \in Object \ astray, NEW u \in Thread
            PROVE  Waiting(u, p)' <=> cond[p] # None /\ waitsOn'[u] = cond[p]
        BY <2>4, <2>8, <2>9, <3>1, <4>1 DEF CondInv
      <4> QED
        BY <4>1, <4>2 DEF CondInv
    <3> QED
      BY <2>11, <3>1
  <2> QED
    BY <2>6, <2>7, <2>12
<1>4. ASSUME NEW t \in Thread, NEW o \in Object, WaitInterrupted(t, o) PROVE IInv'
  BY <1>4, <1>0 DEF Waiting, WaitInterrupted, Finish
<1>5. ASSUME NEW t \in Thread, NEW o \in Object, WaitRefused(t, o) PROVE IInv'
  BY <1>5, <1>0 DEF Waiting, WaitRefused
<1>6. ASSUME NEW t \in Thread, NEW o \in Object, Notify(t, o) PROVE IInv'
  BY <1>6, <1>0, Signalled DEF Waiting, Notify
<1>7. ASSUME NEW t \in Thread, WaitWoken(t) PROVE IInv'
  <2>1. TypeOK' /\ FreeInv' /\ WaiterInv' /\ MonitorsAgree'
    BY <1>7 DEF WaitWoken, Unblock
  <2>2. CondInv'
    BY <1>7 DEF WaitWoken, Unblock, CondInv, Waiting
  <2> QED
    BY <2>1, <2>2
<1>8. ASSUME NEW t \in Thread, WaitEnd(t) PROVE IInv'
  <2>1. TypeOK' /\ FreeInv' /\ WaiterInv' /\ MonitorsAgree'
    BY <1>8 DEF WaitEnd, TakeMonitor, Insert, Finish
  <2>2. \A u \in Thread, o \in Object : Waiting(u, o)' <=> Waiting(u, o)
    BY <1>8 DEF WaitEnd, Waiting
  <2>3. CondInv'
    BY <1>8, <2>2 DEF WaitEnd, TakeMonitor, Insert, CondInv
  <2> QED
    BY <2>1, <2>3
<1>9. ASSUME NEW t \in Thread, NEW ms \in Millis, SleepBegin(t, ms) PROVE IInv'
  <2>1. CASE interrupted[t]
    <3>1. Finish(t) /\ UNCHANGED <<pc, arg, waitsOn, condInt>>
            /\ UNCHANGED <<vmlock, monitors, signalled, holds, history>>
      BY <1>9, <2>1 DEF SleepBegin
    <3> QED
      BY <3>1, <1>0 DEF Finish, Waiting
  <2>2. CASE ~ interrupted[t]
    <3>1. Block(t, "sleep", ms, SleepCond(t))
            /\ result' = "ok" /\ UNCHANGED <<vmlock, monitors, signalled, interrupted, holds, history>>
      BY <1>9, <2>2 DEF SleepBegin
    <3>2. TypeOK' /\ FreeInv' /\ WaiterInv' /\ MonitorsAgree'
      BY <3>1, Conditions DEF Block
    <3>3. CondInv'
      BY <3>1, Conditions, <1>9 DEF SleepBegin, Block, CondInv, Waiting
    <3> QED
      BY <3>2, <3>3
  <2> QED
    BY <2>1, <2>2
<1>10. ASSUME NEW t \in Thread, SleepTimeout(t) PROVE IInv'
  BY <1>10, <1>0 DEF Waiting, SleepTimeout
<1>11. ASSUME NEW t \in Thread, SleepOrJoinEnd(t) PROVE IInv'
  <2>1. TypeOK' /\ FreeInv' /\ WaiterInv' /\ MonitorsAgree'
    BY <1>11 DEF SleepOrJoinEnd, Unblock, Finish
  <2>2. CondInv'
    BY <1>11 DEF SleepOrJoinEnd, Unblock, CondInv, Waiting
  <2> QED
    BY <2>1, <2>2
<1>12. ASSUME NEW t \in Thread, NEW u \in Thread, JoinBegin(t, u) PROVE IInv'
  <2>1. CASE interrupted[t] \/ pc[u] \in {"dying", "dead"}
    <3>1. Finish(t) /\ UNCHANGED <<pc, arg, waitsOn, condInt>>
            /\ UNCHANGED <<vmlock, monitors, signalled, holds, history>>
      BY <1>12, <2>1 DEF JoinBegin
    <3> QED
      BY <3>1, <1>0 DEF Finish, Waiting
  <2>2. CASE ~ (interrupted[t] \/ pc[u] \in {"dying", "dead"})
    <3>1. Block(t, "join", u, ThreadCond(u))
            /\ result' = "ok" /\ UNCHANGED <<vmlock, monitors, signalled, interrupted, holds, history>>
      BY <1>12, <2>2 DEF JoinBegin
    <3>2. TypeOK' /\ FreeInv' /\ WaiterInv' /\ MonitorsAgree'
      BY <3>1, Conditions DEF Block
    <3>3. CondInv'
      BY <3>1, Conditions, <1>12 DEF JoinBegin, Block, CondInv, Waiting
    <3> QED
      BY <3>2, <3>3
  <2> QED
    BY <2>1, <2>2
<1>13. ASSUME NEW t \in Thread, NEW u \in Thread, Interrupt(t, u) PROVE IInv'
  BY <1>13, <1>0, Signalled DEF Waiting, Interrupt
<1>14. ASSUME NEW t \in Thread, Die(t) PROVE IInv'
  BY <1>14, <1>0 DEF Die, Broadcast, Waiters, Waiting
<1>15. ASSUME NEW t \in Thread, Dispose(t) PROVE IInv'
  BY <1>15, <1>0 DEF Dispose, Waiting
<1>16. ASSUME NEW t \in Thread, NEW o \in Object, WaitUnknown(t, o) PROVE IInv'
  BY <1>16, <1>0 DEF WaitUnknown, Waiting
<1>17. CASE UNCHANGED vars
  BY <1>17, <1>0 DEF vars, Waiting
<1> QED
  BY <1>1, <1>2, <1>3, <1>4, <1>5, <1>6, <1>7, <1>8, <1>9, <1>10, <1>11, <1>12,
     <1>13, <1>14, <1>15, <1>16, <1>17 DEF Next, Step, NotifyAll

\* The invariant holds in every reachable state: in particular a thread that
\* leaves a monitor it entered is its owner.
THEOREM Inductive == Spec => []IInv
  BY InitInv, StepInv, PTL DEF Spec

\* The program and the VM agree on who is inside each monitor, and how often.
THEOREM Agreement == Spec => []MonitorsAgree
<1>1. IInv => MonitorsAgree
  BY DEF IInv
<1> QED
  BY <1>1, Inductive, PTL

\* Two threads are never inside the same monitor.
THEOREM Exclusion == Spec => []MutualExclusion
<1>1. ASSUME IInv, NEW o \in Object, NEW t \in Thread, holds[t][o] > 0
      PROVE  owner[o] = t
  BY <1>1 DEF IInv, MonitorsAgree
<1>2. IInv => MutualExclusion
  BY <1>1 DEF MutualExclusion
<1> QED
  BY <1>2, Inductive, PTL

\* A waiter comes back inside its monitor, once, and its interruption is
\* reported and cleared.
THEOREM Restored == Spec => WaitRestores
<1>1. ASSUME IInv, [Next]_vars, NEW t \in Thread,
             pc[t] = "reenter", pc'[t] = "run"
      PROVE  /\ holds'[t][arg[t]] = 1 /\ owner'[arg[t]] = t /\ count'[arg[t]] = 1
             /\ interrupted[t] <=> result' = "interrupted"
             /\ ~ interrupted'[t]
  <2>1. ASSUME NEW u \in Thread, WaitEnd(u) PROVE u = t
    BY <1>1, <2>1 DEF IInv, TypeOK, WaitEnd
  <2>2. WaitEnd(t)
    <3> USE DEF IInv, TypeOK, monitors, Running
    <3>1. ASSUME NEW v \in Thread, NEW o \in Object,
                 \/ Enter(v, o) \/ Exit(v, o) \/ WaitBegin(v, o) \/ WaitInterrupted(v, o)
                 \/ WaitRefused(v, o) \/ WaitUnknown(v, o) \/ Notify(v, o)
          PROVE  pc'[t] # "run"
      BY <1>1, <3>1 DEF Enter, Exit, WaitBegin, WaitInterrupted, WaitRefused, WaitUnknown,
         Notify, Block
    <3>2. ASSUME NEW v \in Thread,
                 \/ WaitWoken(v) \/ SleepTimeout(v) \/ SleepOrJoinEnd(v) \/ Die(v) \/ Dispose(v)
                 \/ \E u \in Thread : Interrupt(v, u)
          PROVE  pc'[t] # "run"
      BY <1>1, <3>2 DEF WaitWoken, SleepTimeout, SleepOrJoinEnd, Die, Dispose, Interrupt, Unblock
    <3>4. ASSUME NEW v \in Thread,
                 \/ \E ms \in Millis : SleepBegin(v, ms)
                 \/ \E u \in Thread : JoinBegin(v, u)
          PROVE  pc'[t] # "run"
      <4>1. CASE UNCHANGED pc
        BY <1>1, <4>1
      <4>2. ASSUME NEW l \in {"sleep", "join"}, pc' = [pc EXCEPT ![v] = l] PROVE pc'[t] # "run"
        BY <1>1, <4>2
      <4> QED
        BY <3>4, <4>1, <4>2 DEF SleepBegin, JoinBegin, Block
    <3>3. CASE UNCHANGED vars
      BY <1>1, <3>3 DEF vars
    <3> QED
      BY <1>1, <2>1, <3>1, <3>2, <3>3, <3>4 DEF Next, Step, NotifyAll
  <2> QED
    BY <1>1, <2>2 DEF IInv, TypeOK, WaiterInv, FreeInv, MonitorsAgree, WaitEnd, TakeMonitor, Finish
<1>2. IInv /\ [Next]_vars =>
        [\A t \in Thread :
          pc[t] = "reenter" /\ pc'[t] = "run" =>
              /\ holds'[t][arg[t]] = 1 /\ owner'[arg[t]] = t /\ count'[arg[t]] = 1
              /\ interrupted[t] <=> result' = "interrupted"
              /\ ~ interrupted'[t]]_vars
  BY <1>1
<1> QED
  BY <1>2, Inductive, PTL DEF Spec, WaitRestores

\* A notify() wakes a thread that waits for its object if there is one to wake,
\* as long as the condition is where it belongs.
THEOREM NotifyReaches == Spec => NotifyWakes
<1>1. ASSUME IInv, NEW t \in Thread, NEW o \in Object \ astray, Notify(t, o),
             NEW w \in Thread, Waiting(w, o), w \notin signalled
      PROVE  \E u \in signalled' \ signalled : Waiting(u, o)
  <2>1. cond[o] # None /\ w \in Waiters(cond[o])
    BY <1>1 DEF IInv, CondInv, Waiters
  <2>2. PICK u \in Waiters(cond[o]) : signalled' = signalled \cup {u}
    BY <1>1, <2>1 DEF Notify, Signal
  <2>3. u \in Thread /\ u \notin signalled /\ waitsOn[u] = cond[o]
    BY <2>2 DEF Waiters
  <2>4. Waiting(u, o)
    BY <1>1, <2>1, <2>3 DEF IInv, CondInv
  <2> QED
    BY <2>2, <2>3, <2>4
<1>2. IInv /\ [Next]_vars =>
        [\A t \in Thread, o \in Object \ astray :
          Notify(t, o) /\ (\E w \in Thread : Waiting(w, o) /\ w \notin signalled) =>
              \E w \in signalled' \ signalled : Waiting(w, o)]_vars
  BY <1>1
<1> QED
  BY <1>2, Inductive, PTL DEF Spec, NotifyWakes
=============================================================================
