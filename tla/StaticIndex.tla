----------------------------- MODULE StaticIndex -----------------------------
(***************************************************************************)
(* class StaticIndex (pma/generic/static_index.cpp): the separator keys of *)
(* the segments in an implicit B-tree.  Nodes have m_node_size - 1 keys    *)
(* and are laid out depth first in one array; the rightmost subtree of a   *)
(* node may be lower than its siblings.  The key of segment 0 is apart.    *)
(*                                                                         *)
(* The client is the packed memory array: it rebuilds the index for a      *)
(* number of segments, sets the separators from left to right, and then    *)
(* changes single ones, the separators staying in order.                   *)
(***************************************************************************)
EXTENDS Integers, FiniteSets

CONSTANTS
    NodeSizes,     \* the node sizes to try
    Capacities,    \* the numbers of segments a client asks for
    Keys,          \* separator keys
    MaxKey,        \* numeric_limits<int64_t>::max()
    Garbage        \* what an array that posix_memalign returned may hold

StaticIndexAssumption ==
    /\ NodeSizes \subseteq Nat \ {0, 1}
    /\ Capacities \subseteq Nat \ {0}
    /\ Keys \subseteq Int

VARIABLES
    m_node_size, m_height, m_capacity,
    m_keys,         \* the array of the separators of the segments 1, 2, ...
    m_key_minimum,  \* the separator of segment 0
    m_rightmost,    \* per height, the rightmost subtree: keys in its root, height on its right
    written         \* the separators the client set since the last rebuild

vars == <<m_node_size, m_height, m_capacity, m_keys, m_key_minimum, m_rightmost, written>>

\* ceil(log2(n) / log2(node_size)): the levels it takes to index n segments.
Levels(node_size, n) == CHOOSE h \in 0 .. n : /\ node_size ^ h >= n
                                              /\ h = 0 \/ node_size ^ (h - 1) < n

\* The tallest tree: rebuild raises for a taller one.
m_rightmost_sz == 8

subtree_size(height) == m_node_size ^ (height - 1)

\* The slots that are allocated for a tree of a height.
TreeSlots(height) == 0 .. (m_node_size ^ height - 2)

Init ==
    /\ m_node_size \in NodeSizes
    /\ m_height = 0
    /\ m_capacity = 1
    /\ m_keys = [slot \in {} |-> 0]
    /\ m_key_minimum = MaxKey
    /\ m_rightmost = [h \in {} |-> 0]
    /\ written = [s \in {} |-> 0]

\* Mutant: the number of keys is not turned into the number of entries they index.
RightmostLow(n, height) ==
    LET rest == (n - 1) % subtree_size(height)
    IN  [m_root_sz |-> (n - 1) \div subtree_size(height),
         m_right_height |-> IF rest > 0 THEN Levels(m_node_size, rest) ELSE 0]

\* The rightmost subtree of a height, with n entries below it.
RightmostOf(n, height) ==
    LET rest == (n - 1) % subtree_size(height)
    IN  [m_root_sz |-> (n - 1) \div subtree_size(height),
         m_right_height |-> IF rest > 0 THEN Levels(m_node_size, rest + 1) ELSE 0]

\* From the root to the right, one subtree after the other, until there is none.
RightSpine(n) ==
    LET top == Levels(m_node_size, n)
        Entries[d \in 0 .. top] ==
            IF d = 0 THEN [n |-> n, height |-> top]
            ELSE LET above == Entries[d - 1]
                 IN  IF above.height = 0 THEN above
                     ELSE [n |-> ((above.n - 1) % subtree_size(above.height)) + 1,
                           height |-> RightmostOf(above.n, above.height).m_right_height]
    IN  {Entries[d] : d \in 0 .. top}

\* A new array when the height changes; the old one, as it is, when it does not.
Allocate(height) ==
    IF height = m_height THEN UNCHANGED m_keys
    ELSE \E garbage \in Garbage : m_keys' = [slot \in TreeSlots(height) |-> garbage]

rebuild(n) ==
    LET height == Levels(m_node_size, n)
        spine == {e \in RightSpine(n) : e.height > 0}
    IN  /\ height <= m_rightmost_sz
        /\ m_capacity' = n
        /\ m_height' = height
        /\ Allocate(height)
        /\ m_rightmost' = [h \in {e.height : e \in spine} \union DOMAIN m_rightmost |->
                              IF \E e \in spine : e.height = h
                              THEN RightmostOf((CHOOSE e \in spine : e.height = h).n, h)
                              ELSE m_rightmost[h]]
        /\ written' = [s \in {} |-> 0]
        /\ UNCHANGED <<m_node_size, m_key_minimum>>
-----------------------------------------------------------------------------
\* A place in the descent: the slot of the node, the segments before it, its height,
\* and whether it is on the right spine.
Root == [base |-> 0, offset |-> 0, height |-> m_height, rightmost |-> TRUE]

\* Down into the subtree with this number.
Child(node, id) ==
    LET size == subtree_size(node.height)
        rightmost == node.rightmost /\ id >= m_rightmost[node.height].m_root_sz
    IN  [base |-> node.base + (m_node_size - 1) + id * (size - 1),
         offset |-> node.offset + id * size,
         height |-> IF rightmost THEN m_rightmost[node.height].m_right_height ELSE node.height - 1,
         rightmost |-> rightmost]

\* Go down while Continue, into the subtree that Subtree selects.
Descend(Continue(_), Subtree(_)) ==
    LET Node[d \in 0 .. m_height] ==
            IF d = 0 THEN Root
            ELSE IF Node[d - 1].height = 0 \/ ~ Continue(Node[d - 1]) THEN Node[d - 1]
            ELSE Child(Node[d - 1], Subtree(Node[d - 1]))
    IN  Node[m_height]

\* The slot of a segment: the descent stops at the node that holds it.
get_slot(segment) ==
    LET Below(node) == (segment - node.offset) % subtree_size(node.height) # 0
        Subtree(node) == (segment - node.offset) \div subtree_size(node.height)
        node == Descend(Below, Subtree)
    IN  IF node.height = 0 THEN node.base + segment - node.offset
        ELSE node.base + Subtree(node) - 1

\* The keys of a node, in the order of their slots.
RootSize(node) ==
    IF node.rightmost THEN m_rightmost[node.height].m_root_sz ELSE m_node_size - 1
NodeKey(node, i) == m_keys[node.base + i - 1]

\* The first subtree whose separator is not passed, scanning from the left.
ScanRight(node, Passed(_)) ==
    Cardinality({i \in 1 .. RootSize(node) : \A j \in 1 .. i : Passed(NodeKey(node, j))})

\* The same, scanning from the right.
ScanLeft(node, Passed(_)) ==
    RootSize(node) -
    Cardinality({i \in 1 .. RootSize(node) : \A j \in i .. RootSize(node) : ~ Passed(NodeKey(node, j))})

Always(node) == TRUE

find(key) ==
    LET Subtree(node) == ScanRight(node, LAMBDA k : k <= key)
    IN  IF key <= m_key_minimum THEN 0 ELSE Descend(Always, Subtree).offset

find_first(key) ==
    LET Subtree(node) == ScanRight(node, LAMBDA k : k < key)
    IN  IF key < m_key_minimum THEN 0 ELSE Descend(Always, Subtree).offset

find_last(key) ==
    LET Subtree(node) == ScanLeft(node, LAMBDA k : k <= key)
    IN  IF key < m_key_minimum THEN 0 ELSE Descend(Always, Subtree).offset

\* set_separator_key
set_separator_key(segment, key) ==
    /\ IF segment = 0 THEN m_key_minimum' = key /\ UNCHANGED m_keys
       ELSE m_keys' = [m_keys EXCEPT ![get_slot(segment)] = key] /\ UNCHANGED m_key_minimum
    /\ UNCHANGED <<m_node_size, m_height, m_capacity, m_rightmost>>
-----------------------------------------------------------------------------
Filled == DOMAIN written = 0 .. (m_capacity - 1)

\* The client sets the separators after a rebuild, from left to right.
Fill(key) ==
    LET segment == Cardinality(DOMAIN written)
    IN  /\ ~ Filled
        /\ \A s \in DOMAIN written : written[s] <= key
        /\ set_separator_key(segment, key)
        /\ written' = [s \in 0 .. segment |-> IF s = segment THEN key ELSE written[s]]

\* The client changes one separator.
Change(segment, key) ==
    /\ Filled
    /\ \A s \in DOMAIN written : /\ s < segment => written[s] <= key
                                 /\ s > segment => key <= written[s]
    /\ set_separator_key(segment, key)
    /\ written' = [written EXCEPT ![segment] = key]

Next ==
    \/ \E n \in Capacities : (Filled \/ written = [s \in {} |-> 0]) /\ rebuild(n)
    \/ \E key \in Keys : Fill(key) \/ \E segment \in DOMAIN written : Change(segment, key)

Spec == Init /\ [][Next]_vars
-----------------------------------------------------------------------------
TypeInv ==
    /\ m_node_size \in NodeSizes
    /\ m_capacity \in Capacities \union {1}
    /\ m_height = Levels(m_node_size, m_capacity)
    /\ DOMAIN m_keys = TreeSlots(m_height)
    /\ \A slot \in DOMAIN m_keys : m_keys[slot] \in Keys \union Garbage

\* However full the right spine of the tree is, every segment but the first has a slot
\* of its own inside the array that rebuild allocated.
SlotsDistinct ==
    LET slots == {get_slot(s) : s \in 1 .. (m_capacity - 1)}
    IN  slots \subseteq TreeSlots(m_height) /\ Cardinality(slots) = m_capacity - 1

LastSegment(P(_)) ==
    LET passed == {s \in 1 .. (m_capacity - 1) : P(written[s])}
    IN  IF passed = {} THEN 0 ELSE CHOOSE s \in passed : \A t \in passed : t <= s

\* The three searches of the tree agree with a scan of the separators: an insertion goes
\* to the last segment that starts at or before the key, a range query from the last that
\* starts before its minimum to the last that starts at or before its maximum.
SearchesAgree ==
    Filled =>
        \A key \in {k + d : k \in Keys, d \in {-1, 0, 1}} :
            /\ find(key) = IF key <= written[0] THEN 0 ELSE LastSegment(LAMBDA k : k <= key)
            /\ find_first(key) = LastSegment(LAMBDA k : k < key)
            /\ find_last(key) = IF key < written[0] THEN 0 ELSE LastSegment(LAMBDA k : k <= key)

\* The index is sound after every rebuild and update: its slots are distinct and inside its
\* arrays, and the searches through them give the segments that a scan would.
IndexSound == TypeInv /\ SlotsDistinct /\ SearchesAgree
=============================================================================
