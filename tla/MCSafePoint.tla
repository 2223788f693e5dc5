---------------------------- MODULE MCSafePoint ----------------------------
(***************************************************************************)
(* Instances of SafePoint for TLC: three threads are the smallest set with *)
(* a collector, a thread coming back from a blocking call and one that is  *)
(* still being started.                                                    *)
(***************************************************************************)
EXTENDS SafePoint

CONSTANTS main, t1, t2, nobody

MCThread == {main, t1, t2}
MCNative == {main, t1}
=============================================================================
