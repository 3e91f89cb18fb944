----------------------------- MODULE ExtentArray -----------------------------
(***************************************************************************)
(* What RewiredMemory promises to its owner (the doc comment of the class  *)
(* in rewired_memory.hpp): a growing array of extents where swap exchanges *)
(* the contents of two of them.  No page, no file, no translation map.     *)
(***************************************************************************)
EXTENDS Integers

CONSTANTS NumExtents, Data, Zero

VARIABLES
    cells,    \* the contents of the extents, by position
    intact    \* no rewiring has been left half done

Init == cells = [i \in 0 .. (NumExtents - 1) |-> Zero] /\ intact = TRUE

Store == \E i \in DOMAIN cells, d \in Data : cells' = [cells EXCEPT ![i] = d]

Exchange ==
    \E i, j \in DOMAIN cells : cells' = [cells EXCEPT ![i] = cells[j], ![j] = cells[i]]

\* The cells that were there keep their contents; the new ones are empty.
Grow ==
    /\ DOMAIN cells \subseteq DOMAIN cells'
    /\ \A i \in DOMAIN cells' : cells'[i] = IF i \in DOMAIN cells THEN cells[i] ELSE Zero

\* Nothing is promised of a step that begins or ends half done.
Next == (intact /\ intact') => (Store \/ Exchange \/ Grow)

Spec == Init /\ [][Next]_<<cells, intact>>
=============================================================================
