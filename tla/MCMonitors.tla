----------------------------- MODULE MCMonitors -----------------------------
(***************************************************************************)
(* Instances of Monitors.  Two waiters and one thread that notifies or     *)
(* interrupts them is the smallest set in which a signal can go astray,    *)
(* two objects the smallest in which a condition can.                      *)
(***************************************************************************)
EXTENDS Monitors, TLC

CONSTANTS t1, t2, t3, o1, o2, c1, c2, c3, c4, c5

MCThread == {t1, t2, t3}
MCObject == {o1, o2}
MCOneObject == {o1}
MCCondition == {c1, c2, c3, c4, c5}
MCTwoConditions == {c1, c2}
MCSafeCalls == {"notifyAll", "sleep", "misuse"}
MCFairCalls == {"interrupt", "join", "exit", "misuse"}

MCSymmetry == Permutations(MCThread) \cup Permutations(MCObject)
=============================================================================
