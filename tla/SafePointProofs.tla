-------------------------- MODULE SafePointProofs --------------------------
(***************************************************************************)
(* Proofs about SafePoint, for every set of threads and every bound, with  *)
(* the accesses to the flags in any order and collections that begin at    *)
(* any moment.  What the collection is safe from is every thread but those *)
(* that took a flag back while it was under way, and only threads that     *)
(* block in natives do: none in a build with --disable-socket.             *)
(***************************************************************************)
EXTENDS SafePoint, TLAPS

\* The initial state satisfies the inductive invariant.
LEMMA InitInv == ASSUME Init PROVE IInv
<1> USE ThreadAssumption, BoundAssumption DEF Init
<1>1. TypeOK
  <2>1. depth \in 0 .. MaxDepth + 1
    OBVIOUS
  <2>2. pc \in [Thread -> Label] /\ life \in [Thread -> {"unborn", "fresh", "live", "dying"}]
    BY DEF Label
  <2>3. blocked \in [Thread -> BOOLEAN] /\ stopped \in [Thread -> BOOLEAN]
    OBVIOUS
  <2> QED
    BY <2>1, <2>2, <2>3 DEF TypeOK
<1>2. \A t \in Thread : pc[t] \in {"idle", "java"} /\ owner # t
  OBVIOUS
<1>3. LockInv /\ LifeInv /\ BlockedInv
  BY <1>2 DEF LockInv, LifeInv, BlockedInv
<1>4. StoppedInv /\ ResumeInv /\ StopInv /\ RaceInv
  BY <1>2 DEF StoppedInv, ResumeInv, StopInv, RaceInv, OnlyNativesRace
<1> QED
  BY <1>1, <1>3, <1>4 DEF IInv

\* Every step of a thread, and the end of the process, preserves it.
LEMMA StepInv == ASSUME IInv, [Next]_vars PROVE IInv'
<1> USE ThreadAssumption, BoundAssumption
<1> USE DEF IInv, TypeOK, Label, LockInv, LifeInv, BlockedInv, StoppedInv, ResumeInv,
            StopInv, Parked, RaceInv,
            OnlyNativesRace, Stopping, RacesIf, Flagged, Counted,
            Goto, Home, Resumed, Acquire, Release
<1>1. ASSUME NEW t \in Thread, EnterVM(t) PROVE IInv'
  BY <1>1 DEF EnterVM
<1>2. ASSUME NEW t \in Thread, TakeLock(t) PROVE IInv'
  BY <1>2 DEF TakeLock
<1>3. ASSUME NEW t \in Thread, WaitBegin(t) PROVE IInv'
  BY <1>3 DEF WaitBegin
<1>4. ASSUME NEW t \in Thread, WaitEnd(t) PROVE IInv'
  BY <1>4 DEF WaitEnd
<1>5. ASSUME NEW t \in Thread, NativeBegin(t) PROVE IInv'
  BY <1>5 DEF NativeBegin
<1>6. ASSUME NEW t \in Thread, NativeEnd(t) PROVE IInv'
  BY <1>6 DEF NativeEnd
<1>7. ASSUME NEW t \in Thread, Unblock(t) PROVE IInv'
  BY <1>7 DEF Unblock
<1>8. ASSUME NEW t \in Thread, CheckStopped(t) PROVE IInv'
  BY <1>8 DEF CheckStopped
<1>9. ASSUME NEW t \in Thread, CheckEarly(t) PROVE IInv'
  BY <1>9 DEF CheckEarly
<1>10. ASSUME NEW t \in Thread, UnblockLate(t) PROVE IInv'
  BY <1>10 DEF UnblockLate
<1>11. ASSUME NEW t \in Thread, Relock(t) PROVE IInv'
  BY <1>11 DEF Relock
<1>12. ASSUME NEW t \in Thread, Reunlock(t) PROVE IInv'
  <2>1. depth >= 1 /\ owner = t /\ t # Nobody
    BY <1>12 DEF Reunlock
  <2>2. CASE depth = 1
    <3>1. owner' = Nobody /\ depth' = 0
      BY <1>12, <2>1, <2>2 DEF Reunlock
    <3>2. TypeOK' /\ LockInv' /\ LifeInv'
      BY <1>12, <2>1, <2>2, <3>1 DEF Reunlock
    <3>3. BlockedInv' /\ StoppedInv'
      BY <1>12, <2>2 DEF Reunlock
    <3>4. ResumeInv'
      BY <1>12, <2>1, <2>2, <3>1 DEF Reunlock
    <3>5. StopInv' /\ RaceInv'
      BY <1>12, <2>1, <2>2 DEF Reunlock
    <3> QED
      BY <3>2, <3>3, <3>4, <3>5
  <2>3. CASE depth # 1
    <3>1. owner' = t /\ depth' = depth - 1 /\ depth' >= 1
      BY <1>12, <2>1, <2>3 DEF Reunlock
    <3>2. TypeOK' /\ LockInv' /\ LifeInv'
      BY <1>12, <2>1, <2>3, <3>1 DEF Reunlock
    <3>3. BlockedInv' /\ StoppedInv'
      BY <1>12, <2>3 DEF Reunlock
    <3>4. ResumeInv'
      BY <1>12, <2>1, <2>3, <3>1 DEF Reunlock
    <3>5. StopInv' /\ RaceInv'
      BY <1>12, <2>1, <2>3 DEF Reunlock
    <3> QED
      BY <3>2, <3>3, <3>4, <3>5
  <2> QED
    BY <2>2, <2>3
<1>13. ASSUME NEW t \in Thread, ClearStopped(t) PROVE IInv'
  BY <1>13 DEF ClearStopped
<1>14. ASSUME NEW t \in Thread, ClearBlocked(t) PROVE IInv'
  BY <1>14 DEF ClearBlocked
<1>15. ASSUME NEW t \in Thread, StopBegin(t) PROVE IInv'
  BY <1>15 DEF StopBegin
<1>16. ASSUME NEW t \in Thread, FlagOne(t) PROVE IInv'
  BY <1>16 DEF FlagOne
<1>17. ASSUME NEW t \in Thread, ScanBegin(t) PROVE IInv'
  BY <1>17 DEF ScanBegin
<1>18. ASSUME NEW t \in Thread, ScanOne(t) PROVE IInv'
  BY <1>18 DEF ScanOne
<1>19. ASSUME NEW t \in Thread, WorldStopped(t) PROVE IInv'
  BY <1>19 DEF WorldStopped
<1>20. ASSUME NEW t \in Thread, CollectEnd(t) PROVE IInv'
  BY <1>20 DEF CollectEnd
<1>21. ASSUME NEW t \in Thread, ExitVM(t) PROVE IInv'
  BY <1>21 DEF ExitVM
<1>22. ASSUME NEW t \in Thread, NEW u \in Thread, Launch(t, u) PROVE IInv'
  BY <1>22 DEF Launch
<1>23. ASSUME NEW t \in Thread, Register(t) PROVE IInv'
  BY <1>23 DEF Register
<1>24. ASSUME NEW t \in Thread, Unregister(t) PROVE IInv'
  BY <1>24 DEF Unregister
<1>25. CASE UNCHANGED vars
  BY <1>25 DEF vars
<1> QED
  BY <1>1, <1>2, <1>3, <1>4, <1>5, <1>6, <1>7, <1>8, <1>9, <1>10, <1>11, <1>12, <1>13, <1>14, <1>15, <1>16, <1>17, <1>18, <1>19, <1>20, <1>21, <1>22, <1>23, <1>24, <1>25
     DEF Next, Step, Resumes, StopTheWorld, Finished

----------------------------------------------------------------------------
\* The invariant says that no registered thread but the collector is anywhere
\* near the heap while gc_collect() marks and sweeps.
LEMMA InvImpliesSafe == ASSUME IInv PROVE SafeCollection
BY DEF IInv, LockInv, StopInv, Parked, SafeCollection

\* A step that changes tm.queue holds the lock, which rules out a collector.
LEMMA StepKeepsList ==
    ASSUME IInv, [Next]_vars PROVE Stopping # {} => queue' = queue
<1>1. ASSUME NEW t \in Thread, Register(t) \/ Unregister(t)
      PROVE  Stopping = {}
  BY <1>1 DEF IInv, LockInv, Stopping, Register, Unregister
<1>2. ASSUME NEW t \in Thread, Step(t), ~ Register(t), ~ Unregister(t)
      PROVE  queue' = queue
  BY <1>2 DEF Step, Resumes, StopTheWorld, EnterVM, TakeLock, WaitBegin,
         WaitEnd, NativeBegin, NativeEnd, Unblock, CheckStopped, CheckEarly, UnblockLate,
         Relock, Reunlock, ClearStopped, ClearBlocked, StopBegin, FlagOne, ScanBegin,
         ScanOne, WorldStopped, CollectEnd, ExitVM, Launch
<1>3. CASE UNCHANGED vars
  BY <1>3 DEF vars
<1> QED
  BY <1>1, <1>2, <1>3 DEF Next, Finished

\* The inductive invariant holds in every reachable state.
LEMMA Invariance == Spec => []IInv
<1>1. Init => IInv
  BY InitInv
<1>2. IInv /\ [Next]_vars => IInv'
  BY StepInv
<1> QED
  BY <1>1, <1>2, PTL DEF Spec

\* The state of the protocol is always well formed.
THEOREM TypeCorrect == Spec => []TypeOK
<1>1. IInv => TypeOK
  BY DEF IInv
<1> QED
  BY <1>1, Invariance, PTL

\* gc_collect() never marks or sweeps while another registered thread runs Java
\* or VM code, but for the threads back from a native that took a flag back
\* under it: tm_stop_the_world() does what its comment promises to all others.
THEOREM Safety == Spec => [](SafeCollection /\ OnlyNativesRace)
<1>1. IInv => SafeCollection /\ OnlyNativesRace
  BY InvImpliesSafe DEF IInv, RaceInv
<1> QED
  BY <1>1, Invariance, PTL

\* In a build with --disable-socket no thread blocks without the VM lock, and
\* the promise holds for every thread.
THEOREM SafetyWithoutSockets ==
    ASSUME Natives = {}
    PROVE  Spec => [](\A c, t \in Thread :
                        (pc[c] = "collect" /\ t \in queue /\ t # c) => pc[t] \notin {"java", "vm"})
<1>1. SafeCollection /\ OnlyNativesRace =>
        \A c, t \in Thread :
            (pc[c] = "collect" /\ t \in queue /\ t # c) => pc[t] \notin {"java", "vm"}
  BY DEF SafeCollection, OnlyNativesRace
<1> QED
  BY <1>1, Safety, PTL

\* tm.queue does not change while a thread walks it to stop the world or to
\* mark from the stacks.
THEOREM FrozenList == Spec => ListFrozen
<1>1. IInv /\ [Next]_vars => [Stopping # {} => queue' = queue]_vars
  BY StepKeepsList
<1> QED
  BY <1>1, Invariance, PTL DEF Spec, ListFrozen
=============================================================================
