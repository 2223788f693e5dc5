------------------------------- MODULE Chains -------------------------------
(***************************************************************************)
(* Linked lists as sequences: what unlinking leaves of one.                *)
(***************************************************************************)
EXTENDS Naturals, SequencesExt

\* What is left of a chain when its elements that are not in set are unlinked:
\* SelectSeq as a recursive function.
Kept(chain, set) ==
    LET kept[i \in 0 .. Len(chain)] ==
            IF i = 0 THEN <<>>
            ELSE IF chain[i] \in set THEN Append(kept[i - 1], chain[i]) ELSE kept[i - 1]
    IN  kept[Len(chain)]
=============================================================================
