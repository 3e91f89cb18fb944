------------------------------ MODULE OrderedMap ------------------------------
(***************************************************************************)
(* What pma/interface.hpp promises of a container: a collection of         *)
(* key/value elements, duplicates included.  find and remove return the    *)
(* value of one of the elements with the key, or -1.                       *)
(***************************************************************************)
EXTENDS Integers, Bags

CONSTANT Elements      \* the <<key, value>> pairs a client may insert

VARIABLES
    content,           \* the bag of elements stored
    ret                \* what the last find or remove returned

vars == <<content, ret>>

Keys == {e[1] : e \in Elements}

With(key) == {e \in BagToSet(content) : e[1] = key}

Init == content = EmptyBag /\ ret = -1

Insert(e) == content' = content (+) SetToBag({e}) /\ UNCHANGED ret

Remove(key) ==
    \E e \in With(key) : content' = content (-) SetToBag({e}) /\ ret' = e[2]

Find(key) == \E e \in With(key) : ret' = e[2] /\ UNCHANGED content

NotFound(key) == With(key) = {} /\ ret' = -1 /\ UNCHANGED content

Next ==
    \/ \E e \in Elements : Insert(e)
    \/ \E key \in Keys : Remove(key) \/ Find(key) \/ NotFound(key)

Spec == Init /\ [][Next]_vars
=============================================================================
