------------------------------- MODULE MCMemory -------------------------------
(***************************************************************************)
(* Three references are enough for one in front of, between and behind     *)
(* others in the chain.  Hashes 0, 2 and 3 make two strings share a bucket *)
(* of the initial table and part when it grows.  Three objects are enough  *)
(* for one being finalized while another waits and a third dies.  Seven    *)
(* words are enough for two bins, a chunk that has none, splits, a sweep   *)
(* that merges neighbours, growth up to the permanent area and exhaustion. *)
(***************************************************************************)
EXTENDS Memory, TLC

CONSTANTS w1, w2, w3, x1, s1, s2, s3, k1, k2, k3, f1, f2, f3

MCRef == {w1, w2, w3}
MCObj == {x1}
MCStr == {s1, s2, s3}
MCContent == {k1, k2, k3}
MCHash == (k1 :> 0) @@ (k2 :> 2) @@ (k3 :> 3)
MCFObj == {f1, f2, f3}
=============================================================================
