------------------------------ MODULE MCMarking ------------------------------
(* Three objects with up to two references, and words that are no object.  *)
EXTENDS Marking

CONSTANTS o1, o2, o3, word, null
MCObjects == {o1, o2, o3}
MCOthers == {word}
MCStarts == {{o1, word, null}, {o1, o2}}
MCMaxRefs == [o \in MCObjects |-> IF o = o3 THEN 1 ELSE 2]
=============================================================================
