--------------------------- MODULE MCMonitorTable ---------------------------
(***************************************************************************)
(* Instances of MonitorTable.  The hash values are neighbours or collide,  *)
(* and probing wraps round the end of tables of 2 and 4 buckets.  A table  *)
(* that starts with 2 grows, one that starts with 8 shrinks.               *)
(***************************************************************************)
EXTENDS MonitorTable, TLC

CONSTANTS t1, t2, r1, r2, r3

MCThread == {t1, t2}
MCRef == {r1, r2, r3}
MCHashValues == {2, 3}
MCCapacities == {2, 8}

MCSymmetry == Permutations(MCThread) \cup Permutations(MCRef)
=============================================================================
