------------------------- MODULE MCPackedMemoryArray -------------------------
(* Segments of four slots and three keys, each stored any number of times.      *)
(* Eight elements grow the array to four segments and shrink it back to one.    *)
EXTENDS PackedMemoryArray

MCElements == {<<1, 10>>, <<2, 20>>, <<3, 30>>}

\* Two keys are enough for the question whether calls return.
MCTwoElements == {<<1, 10>>, <<2, 20>>}

\* One of the elements has the value that remove returns for a missing key.
MCMinusOne == {<<1, 10>>, <<2, -1>>}
=============================================================================
