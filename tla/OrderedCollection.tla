-------------------------- MODULE OrderedCollection --------------------------
(***************************************************************************)
(* What pma/interface.hpp and pma/bulk_loading.hpp promise of a container: *)
(* a collection of key/value elements, duplicates included, that elements  *)
(* are inserted in, loaded in and removed from.                            *)
(*                                                                         *)
(* A read changes nothing.  What each would return now is the variable     *)
(* reads, which a container maps to the results of its own find, iterator  *)
(* and sum: after every update all of them must see what is stored.        *)
(*                                                                         *)
(* ret names the update, and may number it, so that one that loses its     *)
(* effect is not taken for another update or for a stuttering step.        *)
(***************************************************************************)
EXTENDS Integers, Bags, FiniteSets, Sequences, Folds

CONSTANTS
    Elements,          \* the <<key, value>> pairs a client may insert
    Keys,              \* the keys a client may look for
    Intervals,         \* the <<min, max>> pairs a client may ask for
    Batches            \* the sorted sequences of elements a client may load

VARIABLES
    content,           \* the bag of elements stored
    ret,               \* <<op, value>>: the last update and what it returned, or -1; and its number
    reads              \* [found, visited, sum]: what each read would return

\* What the reads may return is said by ReadsAgree alone.
vars == <<content, ret>>

BagOf(seq) ==
    [e \in {seq[i] : i \in DOMAIN seq} |-> Cardinality({i \in DOMAIN seq : seq[i] = e})]

With(bag, key) == {e \in BagToSet(bag) : e[1] = key}

Within(bag, interval) ==
    [e \in {e \in BagToSet(bag) : interval[1] <= e[1] /\ e[1] <= interval[2]} |-> bag[e]]

\* The keys (field 1) or the values (field 2) of a bag of elements added up.
Total(bag, field) ==
    MapThenFoldSet(+, 0, LAMBDA e : bag[e] * e[field],
                   LAMBDA S : CHOOSE e \in S : TRUE, BagToSet(bag))

\* find returns the value of one of the elements with the key, or -1.
FindAgrees(bag, key, value) ==
    IF With(bag, key) = {} THEN value = -1 ELSE \E e \in With(bag, key) : value = e[2]

\* The iterator visits the elements, in key order.
IteratorAgrees(inside, visited) ==
    /\ \A i \in 1 .. (Len(visited) - 1) : visited[i][1] <= visited[i + 1][1]
    /\ BagOf(visited) = inside

\* SumResult: number of elements, sums of the keys and of the values, first and last key.
SumAgrees(inside, sum) ==
    LET keys == {e[1] : e \in BagToSet(inside)}
    IN  /\ sum.elements = BagCardinality(inside)
        /\ sum.keys = Total(inside, 1)
        /\ sum.values = Total(inside, 2)
        /\ IF keys = {} THEN sum.first = 0 /\ sum.last = 0
           ELSE /\ {sum.first, sum.last} \subseteq keys
                /\ \A k \in keys : sum.first <= k /\ k <= sum.last

\* (The sets of one member make TLC evaluate each read once.)
ReadsAgree ==
    \E bag \in {content}, r \in {reads} :
        /\ \A key \in DOMAIN r.found : \E value \in {r.found[key]} : FindAgrees(bag, key, value)
        /\ \A interval \in DOMAIN r.visited : \E visited \in {r.visited[interval]} :
              IteratorAgrees(Within(bag, interval), visited)
        /\ \A interval \in DOMAIN r.sum : \E sum \in {r.sum[interval]} :
              SumAgrees(Within(bag, interval), sum)

Init == content = EmptyBag /\ ret[1] = "new"

Returns(op, value) == ret'[1] = op /\ ret'[2] = value

Insert(e) == Returns("insert", -1) /\ content' = content (+) SetToBag({e})

Remove(key) ==
    \E e \in With(content, key) : Returns("remove", e[2]) /\ content' = content (-) SetToBag({e})

NotFound(key) == Returns("remove", -1) /\ With(content, key) = {} /\ UNCHANGED content

Load(batch) == Returns("load", -1) /\ content' = content (+) BagOf(batch)

\* The (a,b)-tree also removes all the elements of an interval.
RemoveRange(interval) ==
    /\ Returns("remove_range", -1)
    /\ content' = content (-) Within(content, interval)

Next ==
    \/ \E e \in Elements : Insert(e)
    \/ \E key \in Keys : Remove(key) \/ NotFound(key)
    \/ \E batch \in Batches : Load(batch)
    \/ \E interval \in Intervals : RemoveRange(interval)

Spec == Init /\ [][Next]_vars /\ []ReadsAgree
=============================================================================
