--------------------- MODULE BufferedRewiredMemoryProofs ---------------------
(***************************************************************************)
(* The safety of BufferedRewiredMemory, for every extent size, initial     *)
(* size, memory limit and number of buffers added at once: the extents are *)
(* partitioned into the user's, the free buffers and those that clients    *)
(* hold, and only swap_and_release changes what is behind a user extent.   *)
(***************************************************************************)
EXTENDS BufferedRewiredMemory, SequenceTheorems, FiniteSetTheorems, TLAPS

(* No two entries of a deque are the same buffer. *)
NoDuplicates(deque) == \A i, j \in DOMAIN deque : deque[i] = deque[j] => i = j

-----------------------------------------------------------------------------
(* Addresses that are different multiples of the extent size are different. *)
LEMMA MultiplesDiffer ==
    ASSUME NEW P \in Nat \ {0}, NEW i \in Int, NEW j \in Int, i * P = j * P
    PROVE  i = j
<1>1. CASE i < j
  <2>1. i * P < j * P
    BY <1>1, SMT
  <2> QED
    BY <2>1
<1>2. CASE j < i
  <2>1. j * P < i * P
    BY <1>2, SMT
  <2> QED
    BY <2>1
<1> QED
  BY <1>1, <1>2

(* A run of extents is the run of the first of them and the run of the rest, which do not *)
(* meet: what add_buffers appends and what shrink puts in front of the buffers is new.    *)
LEMMA RunSplits ==
    ASSUME BufferedAssumption, NEW addr \in Int, NEW n \in Nat, NEW k \in Nat
    PROVE  /\ AddressesFrom(addr, n + k) = AddressesFrom(addr, n)
                                  \union AddressesFrom(addr + n * PagesPerExtent, k)
           /\ AddressesFrom(addr, n) \intersect AddressesFrom(addr + n * PagesPerExtent, k) = {}
<1> DEFINE P == PagesPerExtent
           next == addr + n * P
<1>1. P \in Nat \ {0}
  BY DEF BufferedAssumption
<1> HIDE DEF P
<1>2. \A i \in Int : next + i * P = addr + (n + i) * P
  BY <1>1, SMT
<1>3. ASSUME NEW a \in AddressesFrom(addr, n + k)
      PROVE  a \in AddressesFrom(addr, n) \union AddressesFrom(next, k)
  <2>1. PICK i \in 0 .. (n + k - 1) : a = addr + i * P
    BY DEF AddressesFrom, P
  <2>2. CASE i < n
    BY <2>1, <2>2 DEF AddressesFrom, P
  <2>3. CASE i >= n
    <3>1. i - n \in 0 .. (k - 1) /\ n + (i - n) = i
      BY <2>1, <2>3
    <3>2. a = next + (i - n) * P
      BY <1>2, <2>1, <3>1
    <3> QED
      BY <3>1, <3>2 DEF AddressesFrom, P
  <2> QED
    BY <2>1, <2>2, <2>3
<1>4. ASSUME NEW a \in AddressesFrom(addr, n) PROVE a \in AddressesFrom(addr, n + k)
  BY DEF AddressesFrom
<1>5. ASSUME NEW a \in AddressesFrom(next, k) PROVE a \in AddressesFrom(addr, n + k)
  <2>1. PICK i \in 0 .. (k - 1) : a = next + i * P
    BY DEF AddressesFrom, P
  <2>2. n + i \in 0 .. (n + k - 1) /\ a = addr + (n + i) * P
    BY <1>2, <2>1
  <2> QED
    BY <2>2 DEF AddressesFrom, P
<1>6. ASSUME NEW a \in AddressesFrom(addr, n), a \in AddressesFrom(next, k) PROVE FALSE
  <2>1. PICK i \in 0 .. (n - 1) : a = addr + i * P
    BY DEF AddressesFrom, P
  <2>2. PICK j \in 0 .. (k - 1) : a = next + j * P
    BY <1>6 DEF AddressesFrom, P
  <2>3. a = addr + (n + j) * P
    BY <1>2, <2>2
  <2>4. i * P \in Int /\ (n + j) * P \in Int
    BY <1>1
  <2>5. i * P = (n + j) * P
    BY <1>1, <2>1, <2>3, <2>4
  <2>6. i = n + j
    BY <1>1, <2>5, MultiplesDiffer
  <2> QED
    BY <2>6
<1> QED
  BY <1>3, <1>4, <1>5, <1>6 DEF next, P

(* The buffers that push_front puts in front, the highest address first or the lowest. *)
Descending(addr, n) == [i \in 1 .. n |-> addr + (n - i) * PagesPerExtent]
Ascending(addr, n) == [i \in 1 .. n |-> addr + (i - 1) * PagesPerExtent]

(* The deque that a run of addresses is pushed into. *)
LEMMA DequeOfRun ==
    ASSUME BufferedAssumption, NEW addr \in Nat, NEW n \in Nat,
           NEW deque, deque = Descending(addr, n) \/ deque = Ascending(addr, n)
    PROVE  /\ deque \in Seq(Nat) /\ Len(deque) = n
           /\ NoDuplicates(deque)
           /\ Members(deque) = AddressesFrom(addr, n)
<1> DEFINE P == PagesPerExtent
<1>1. P \in Nat \ {0}
  BY DEF BufferedAssumption
<1>2. \A i \in Int : i * P \in Int /\ (i >= 0 => i * P >= 0)
  BY <1>1, SMT
<1> HIDE DEF P
<1>3. CASE deque = Descending(addr, n)
  <2>1. deque = [i \in 1 .. n |-> addr + (n - i) * P]
    BY <1>3 DEF Descending, P
  <2>2. \A i \in 1 .. n : addr + (n - i) * P \in Nat
    BY <1>2
  <2>3. deque \in Seq(Nat) /\ Len(deque) = n
    BY <2>1, <2>2
  <2>4. NoDuplicates(deque)
    <3> SUFFICES ASSUME NEW i \in 1 .. n, NEW j \in 1 .. n, deque[i] = deque[j] PROVE i = j
      BY <2>1 DEF NoDuplicates
    <3>1. (n - i) * P = (n - j) * P
      BY <1>2, <2>1
    <3> QED
      BY <1>1, <3>1, MultiplesDiffer
  <2>5. ASSUME NEW a \in Members(deque) PROVE a \in AddressesFrom(addr, n)
    <3>1. PICK i \in 1 .. n : a = addr + (n - i) * P
      BY <2>1 DEF Members
    <3>2. n - i \in 0 .. (n - 1)
      OBVIOUS
    <3> QED
      BY <3>1, <3>2 DEF AddressesFrom, P
  <2>6. ASSUME NEW a \in AddressesFrom(addr, n) PROVE a \in Members(deque)
    <3>1. PICK j \in 0 .. (n - 1) : a = addr + j * P
      BY DEF AddressesFrom, P
    <3>2. n - j \in 1 .. n /\ n - (n - j) = j
      OBVIOUS
    <3>3. deque[n - j] = a
      BY <2>1, <3>1, <3>2
    <3> QED
      BY <2>1, <3>2, <3>3 DEF Members
  <2> QED
    BY <2>3, <2>4, <2>5, <2>6
<1>4. CASE deque = Ascending(addr, n)
  <2>1. deque = [i \in 1 .. n |-> addr + (i - 1) * P]
    BY <1>4 DEF Ascending, P
  <2>2. \A i \in 1 .. n : addr + (i - 1) * P \in Nat
    BY <1>2
  <2>3. deque \in Seq(Nat) /\ Len(deque) = n
    BY <2>1, <2>2
  <2>4. NoDuplicates(deque)
    <3> SUFFICES ASSUME NEW i \in 1 .. n, NEW j \in 1 .. n, deque[i] = deque[j] PROVE i = j
      BY <2>1 DEF NoDuplicates
    <3>1. (i - 1) * P = (j - 1) * P
      BY <1>2, <2>1
    <3>2. i - 1 = j - 1
      BY <1>1, <3>1, MultiplesDiffer
    <3> QED
      BY <3>2
  <2>5. ASSUME NEW a \in Members(deque) PROVE a \in AddressesFrom(addr, n)
    <3>1. PICK i \in 1 .. n : a = addr + (i - 1) * P
      BY <2>1 DEF Members
    <3>2. i - 1 \in 0 .. (n - 1)
      OBVIOUS
    <3> QED
      BY <3>1, <3>2 DEF AddressesFrom, P
  <2>6. ASSUME NEW a \in AddressesFrom(addr, n) PROVE a \in Members(deque)
    <3>1. PICK j \in 0 .. (n - 1) : a = addr + j * P
      BY DEF AddressesFrom, P
    <3>2. j + 1 \in 1 .. n /\ (j + 1) - 1 = j
      OBVIOUS
    <3>3. deque[j + 1] = a
      BY <2>1, <3>1, <3>2
    <3> QED
      BY <2>1, <3>2, <3>3 DEF Members
  <2> QED
    BY <2>3, <2>4, <2>5, <2>6
<1> QED
  BY <1>3, <1>4

-----------------------------------------------------------------------------
(* The deque with other buffers in front of it. *)
LEMMA PushedFront ==
    ASSUME NEW s \in Seq(Nat), NEW t \in Seq(Nat), NoDuplicates(s), NoDuplicates(t),
           Members(s) \intersect Members(t) = {}
    PROVE  /\ s \o t \in Seq(Nat) /\ Len(s \o t) = Len(s) + Len(t)
           /\ NoDuplicates(s \o t)
           /\ Members(s \o t) = Members(s) \union Members(t)
<1> DEFINE st == s \o t
<1>1. /\ st \in Seq(Nat) /\ Len(st) = Len(s) + Len(t)
      /\ \A i \in 1 .. (Len(s) + Len(t)) : st[i] = IF i <= Len(s) THEN s[i] ELSE t[i - Len(s)]
  BY ConcatProperties
<1>2. /\ DOMAIN st = 1 .. (Len(s) + Len(t)) /\ DOMAIN s = 1 .. Len(s) /\ DOMAIN t = 1 .. Len(t)
      /\ Len(s) \in Nat /\ Len(t) \in Nat
  BY <1>1, LenProperties
<1> HIDE DEF st
<1>3. ASSUME NEW i \in DOMAIN st
      PROVE  /\ i <= Len(s) => i \in DOMAIN s /\ st[i] = s[i]
             /\ ~ (i <= Len(s)) => i - Len(s) \in DOMAIN t /\ st[i] = t[i - Len(s)]
  BY <1>1, <1>2
<1>4. Members(st) = Members(s) \union Members(t)
  <2>1. ASSUME NEW i \in DOMAIN s PROVE s[i] \in Members(st)
    <3>1. i \in DOMAIN st /\ st[i] = s[i]
      BY <1>1, <1>2
    <3> QED
      BY <3>1 DEF Members
  <2>2. ASSUME NEW i \in DOMAIN t PROVE t[i] \in Members(st)
    <3>1. i + Len(s) \in 1 .. (Len(s) + Len(t)) /\ ~ (i + Len(s) <= Len(s)) /\ i + Len(s) - Len(s) = i
      BY <1>2
    <3>2. i + Len(s) \in DOMAIN st /\ st[i + Len(s)] = t[i]
      BY <1>1, <1>2, <3>1
    <3> QED
      BY <3>2 DEF Members
  <2> QED
    BY <1>3, <2>1, <2>2 DEF Members
<1>5. NoDuplicates(st)
  <2> SUFFICES ASSUME NEW i \in DOMAIN st, NEW j \in DOMAIN st, st[i] = st[j] PROVE i = j
    BY DEF NoDuplicates
  <2>1. CASE i <= Len(s) /\ j <= Len(s)
    BY <1>3, <2>1 DEF NoDuplicates
  <2>2. CASE ~ (i <= Len(s)) /\ ~ (j <= Len(s))
    <3>1. i - Len(s) \in DOMAIN t /\ st[i] = t[i - Len(s)]
      BY <1>3, <2>2
    <3>2. j - Len(s) \in DOMAIN t /\ st[j] = t[j - Len(s)]
      BY <1>3, <2>2
    <3>3. i - Len(s) = j - Len(s)
      BY <3>1, <3>2, Zenon DEF NoDuplicates
    <3> QED
      BY <1>2, <3>3
  <2>3. CASE i <= Len(s) /\ ~ (j <= Len(s))
    <3>1. st[i] \in Members(s)
      BY <1>3, <2>3 DEF Members
    <3>2. j - Len(s) \in DOMAIN t /\ st[j] = t[j - Len(s)]
      BY <1>3, <2>3
    <3> QED
      BY <3>1, <3>2 DEF Members
  <2>4. CASE ~ (i <= Len(s)) /\ j <= Len(s)
    <3>1. st[j] \in Members(s)
      BY <1>3, <2>4 DEF Members
    <3>2. i - Len(s) \in DOMAIN t /\ st[i] = t[i - Len(s)]
      BY <1>3, <2>4
    <3> QED
      BY <3>1, <3>2 DEF Members
  <2> QED
    BY <2>1, <2>2, <2>3, <2>4
<1> QED
  BY <1>1, <1>4, <1>5 DEF st

(* pop_back takes one buffer out of the deque. *)
LEMMA PoppedBack ==
    ASSUME NEW s \in Seq(Nat), s # <<>>, NoDuplicates(s)
    PROVE  LET rest == SubSeq(s, 1, Len(s) - 1)
               last == s[Len(s)]
           IN  /\ rest \in Seq(Nat) /\ Len(rest) = Len(s) - 1 /\ Len(s) > 0
               /\ NoDuplicates(rest)
               /\ last \in Members(s) /\ last \in Nat
               /\ Members(rest) = Members(s) \ {last}
<1> DEFINE n == Len(s)
           rest == SubSeq(s, 1, n - 1)
<1>1. n \in Nat /\ n > 0 /\ DOMAIN s = 1 .. n /\ s \in [1 .. n -> Nat]
  BY EmptySeq, LenProperties
<1>2. /\ rest \in Seq(Nat) /\ Len(rest) = n - 1
      /\ \A i \in 1 .. (n - 1) : rest[i] = s[i]
  BY <1>1, SubSeqProperties
<1>3. DOMAIN rest = 1 .. (n - 1)
  BY <1>2, LenProperties
<1> HIDE DEF n, rest
<1>4. NoDuplicates(rest)
  BY <1>1, <1>2, <1>3 DEF NoDuplicates
<1>5. s[n] \in Members(s) /\ s[n] \in Nat
  BY <1>1 DEF Members
<1>6. ASSUME NEW a \in Members(rest) PROVE a \in Members(s) /\ a # s[n]
  <2>1. PICK i \in 1 .. (n - 1) : a = s[i]
    BY <1>2, <1>3 DEF Members
  <2>2. i \in DOMAIN s /\ n \in DOMAIN s /\ i # n
    BY <1>1
  <2> QED
    BY <2>1, <2>2 DEF NoDuplicates, Members
<1>7. ASSUME NEW a \in Members(s), a # s[n] PROVE a \in Members(rest)
  <2>1. PICK i \in 1 .. n : a = s[i]
    BY <1>1 DEF Members
  <2>2. i \in 1 .. (n - 1)
    BY <1>1, <1>7, <2>1
  <2> QED
    BY <1>2, <1>3, <2>1, <2>2 DEF Members
<1> QED
  BY <1>1, <1>2, <1>4, <1>5, <1>6, <1>7 DEF n, rest

-----------------------------------------------------------------------------
(* Only finitely many buffers are lent. *)
LEMMA LentFinite ==
    ASSUME BufferedAssumption, BuffersPartitioned
    PROVE  IsFiniteSet(lent) /\ Cardinality(lent) \in Nat /\ lent \subseteq BufferSpace
<1> DEFINE P == PagesPerExtent
           start == m_buffer_start_address
           n == m_allocated_buffers
<1>1. P \in Nat \ {0} /\ start \in Nat /\ n \in Nat /\ start + n * P \in Nat
  BY DEF BuffersPartitioned, TypeInv, BufferedAssumption
<1>2. lent \subseteq BufferSpace /\ lent \in SUBSET Nat
  BY DEF BuffersPartitioned, TypeInv
<1>3. ASSUME NEW a \in lent PROVE a <= start + n * P
  <2>1. PICK i \in 0 .. (n - 1) : a = start + i * P
    BY <1>2 DEF BufferSpace, AddressesFrom
  <2> HIDE DEF P, n, start
  <2>2. i * P <= n * P
    BY <1>1, SMT
  <2>3. i * P \in Int /\ n * P \in Int
    BY <1>1
  <2> QED
    BY <1>1, <2>1, <2>2, <2>3
<1> HIDE DEF P, n, start
<1>4. IsFiniteSet(lent)
  BY <1>1, <1>2, <1>3, FS_BoundedSetOfNaturals
<1> QED
  BY <1>2, <1>4, FS_CardinalityType

(* While no buffer is in use no client holds one, and all the buffers are in the deque. *)
LEMMA NoneInUse ==
    ASSUME BufferedAssumption, BuffersPartitioned, get_used_buffers = 0
    PROVE  lent = {} /\ Len(m_buffers) = m_allocated_buffers /\ Members(m_buffers) = BufferSpace
<1>1. lent = {}
  BY LentFinite, FS_EmptySet DEF BuffersPartitioned
<1>2. m_allocated_buffers \in Nat /\ m_buffers \in Seq(Nat)
  BY DEF BuffersPartitioned, TypeInv
<1>3. Len(m_buffers) = m_allocated_buffers
  BY <1>2 DEF get_used_buffers
<1> QED
  BY <1>1, <1>3 DEF BuffersPartitioned

(* What a step needs to show when it has rearranged the buffers. *)
Rearranged ==
    /\ m_buffers' \in Seq(Nat) /\ NoDuplicates(m_buffers')
    /\ Members(m_buffers') \intersect lent' = {}
    /\ Members(m_buffers') \union lent' = AddressesFrom(m_buffer_start_address', m_allocated_buffers')
    /\ m_allocated_buffers' - Len(m_buffers') = Cardinality(lent')

(* The buffers are where the user's extents end. *)
Positioned ==
    /\ allocated' \in Nat /\ m_buffer_start_address' \in Nat /\ m_allocated_buffers' \in Nat
    /\ m_buffer_start_address' = (allocated' - m_allocated_buffers') * PagesPerExtent

(* Buffers that are rearranged within their place are still partitioned. *)
LEMMA PartitionedAgain ==
    ASSUME BufferedAssumption, Rearranged, Positioned
    PROVE  BuffersPartitioned'
<1>1. \A i \in Int : i * PagesPerExtent \in Int /\ (i >= 0 => i * PagesPerExtent >= 0)
  BY SMT DEF BufferedAssumption
<1>2. ASSUME NEW a \in AddressesFrom(m_buffer_start_address', m_allocated_buffers') PROVE a \in Nat
  <2>1. PICK i \in 0 .. (m_allocated_buffers' - 1) : a = m_buffer_start_address' + i * PagesPerExtent
    BY DEF AddressesFrom
  <2> QED
    BY <1>1, <2>1 DEF Positioned
<1>3. BufferSpace' = AddressesFrom(m_buffer_start_address', m_allocated_buffers')
  BY DEF BufferSpace, AddressesFrom
<1>4. lent' \subseteq Nat
  BY <1>2 DEF Rearranged
<1>5. TypeInv'
  BY <1>4 DEF TypeInv, Rearranged, Positioned
<1> QED
  BY <1>3, <1>5 DEF BuffersPartitioned, Rearranged, Positioned, NoDuplicates, Members, get_used_buffers

-----------------------------------------------------------------------------
(* The constructor: no buffers yet. *)
LEMMA InitPartitioned ==
    ASSUME BufferedAssumption, Init
    PROVE  BuffersPartitioned
<1>1. /\ allocated = NumExtents /\ m_buffer_start_address = NumExtents * PagesPerExtent
      /\ m_allocated_buffers = 0 /\ m_buffers = <<>> /\ lent = {}
  BY DEF Init, RM!Init
<1>2. TypeInv
  BY <1>1 DEF TypeInv, BufferedAssumption
<1>3. BufferSpace = {} /\ Members(m_buffers) = {}
  BY <1>1 DEF BufferSpace, AddressesFrom, Members
<1>4. m_buffer_start_address = (allocated - m_allocated_buffers) * PagesPerExtent
  BY <1>1 DEF BufferedAssumption
<1>5. get_used_buffers = Cardinality(lent)
  BY <1>1, FS_EmptySet DEF get_used_buffers
<1> QED
  BY <1>1, <1>2, <1>3, <1>4, <1>5 DEF BuffersPartitioned

(* An operation that raises before it has touched the buffers. *)
LEMMA NothingMoved ==
    ASSUME BuffersPartitioned, UNCHANGED buffer_vars, allocated' = allocated
    PROVE  BuffersPartitioned'
BY DEF BuffersPartitioned, TypeInv, buffer_vars, BufferSpace, AddressesFrom, Members, get_used_buffers

(* acquire_buffer, when a buffer is free. *)
LEMMA AcquireFreePartitions ==
    ASSUME BufferedAssumption, BuffersPartitioned, AcquireFree
    PROVE  BuffersPartitioned'
<1> DEFINE last == m_buffers[Len(m_buffers)]
           rest == SubSeq(m_buffers, 1, Len(m_buffers) - 1)
<1>1. /\ m_buffers \in Seq(Nat) /\ m_buffers # <<>> /\ NoDuplicates(m_buffers)
      /\ Members(m_buffers) \intersect lent = {} /\ Members(m_buffers) \union lent = BufferSpace
      /\ m_allocated_buffers - Len(m_buffers) = Cardinality(lent)
      /\ m_allocated_buffers \in Nat
  BY DEF BuffersPartitioned, TypeInv, AcquireFree, NoDuplicates, get_used_buffers
<1>2. /\ m_buffers' = rest /\ lent' = lent \union {last}
      /\ allocated' = allocated /\ m_buffer_start_address' = m_buffer_start_address
      /\ m_allocated_buffers' = m_allocated_buffers
  BY DEF AcquireFree, PopBack, RM!EndsWith, RM!memory_vars
<1>3. /\ rest \in Seq(Nat) /\ Len(rest) = Len(m_buffers) - 1 /\ NoDuplicates(rest)
      /\ last \in Members(m_buffers) /\ Members(rest) = Members(m_buffers) \ {last}
      /\ Len(m_buffers) \in Nat
  BY <1>1, PoppedBack, LenProperties
<1> HIDE DEF rest, last
<1>4. Cardinality(lent') = Cardinality(lent) + 1 /\ Cardinality(lent) \in Nat
  BY <1>1, <1>2, <1>3, LentFinite, FS_AddElement
<1>5. Members(rest) \intersect lent' = {} /\ Members(rest) \union lent' = BufferSpace
  BY <1>1, <1>2, <1>3
<1>6. m_allocated_buffers' - Len(m_buffers') = Cardinality(lent')
  BY <1>1, <1>2, <1>3, <1>4
<1>7. Rearranged
  BY <1>2, <1>3, <1>5, <1>6 DEF Rearranged, BufferSpace
<1>8. Positioned
  BY <1>2 DEF Positioned, BuffersPartitioned, TypeInv
<1> QED
  BY <1>7, <1>8, PartitionedAgain

(* acquire_buffer, when none is free: the new extents are behind all the others. *)
LEMMA AddBuffersPartitions ==
    ASSUME BufferedAssumption, BuffersPartitioned, m_buffers = <<>>,
           NEW n \in Nat \ {0}, add_buffers(n)
    PROVE  BuffersPartitioned'
<1> DEFINE P == PagesPerExtent
           space == m_buffer_start_address + m_allocated_buffers * P
           deque == Descending(space, n)
           last == deque[Len(deque)]
           rest == SubSeq(deque, 1, Len(deque) - 1)
<1>1. /\ m_buffer_start_address \in Nat /\ m_allocated_buffers \in Nat /\ allocated \in Nat
      /\ P \in Nat \ {0} /\ space \in Nat
  BY DEF BuffersPartitioned, TypeInv, BufferedAssumption
<1>2. lent = BufferSpace /\ m_allocated_buffers = Cardinality(lent)
  <2>1. Members(m_buffers) = {} /\ Len(m_buffers) = 0
    BY DEF Members
  <2>2. Members(m_buffers) \union lent = BufferSpace /\ m_allocated_buffers - Len(m_buffers) = Cardinality(lent)
    BY Zenon DEF BuffersPartitioned, get_used_buffers
  <2>3. lent = BufferSpace
    BY <2>1, <2>2, Zenon
  <2>4. m_allocated_buffers - 0 = m_allocated_buffers
    BY <1>1
  <2> QED
    BY <2>1, <2>2, <2>3, <2>4, Zenon
<1>3. /\ deque \in Seq(Nat) /\ Len(deque) = n /\ NoDuplicates(deque)
      /\ Members(deque) = AddressesFrom(space, n)
  <2>1. deque = Descending(space, n) /\ n \in Nat
    OBVIOUS
  <2> HIDE DEF deque, space
  <2> QED
    BY <1>1, <2>1, DequeOfRun
<1>4. deque # <<>>
  BY <1>3, EmptySeq
<1>5. /\ m_buffers' = rest /\ lent' = lent \union {last}
      /\ allocated' = allocated + n /\ m_buffer_start_address' = m_buffer_start_address
      /\ m_allocated_buffers' = m_allocated_buffers + n
  <2>1. m_buffer_start_address + P * m_allocated_buffers = space
    BY <1>1
  <2>2. PopBack(deque \o <<>>)
    <3>1. PopBack([i \in 1 .. n |-> m_buffer_start_address + P * m_allocated_buffers + (n - i) * P] \o <<>>)
      BY DEF add_buffers, PushFront
    <3> QED
      BY <2>1, <3>1 DEF Descending
  <2>3. deque \o <<>> = deque
    BY <1>3, ConcatEmptySeq
  <2> QED
    BY <2>2, <2>3 DEF add_buffers, PopBack, RM!ExtendGrows
<1>6. /\ rest \in Seq(Nat) /\ Len(rest) = n - 1 /\ NoDuplicates(rest)
      /\ last \in Members(deque) /\ Members(rest) = Members(deque) \ {last}
  BY <1>3, <1>4, PoppedBack
<1> HIDE DEF rest, last, deque
<1>7. /\ AddressesFrom(m_buffer_start_address, m_allocated_buffers + n)
             = BufferSpace \union AddressesFrom(space, n)
      /\ BufferSpace \intersect AddressesFrom(space, n) = {}
  BY <1>1, RunSplits DEF BufferSpace
<1> HIDE DEF space, P
<1>8. Cardinality(lent') = Cardinality(lent) + 1 /\ Cardinality(lent) \in Nat
  <2>1. last \notin lent
    BY <1>2, <1>3, <1>6, <1>7
  <2> QED
    BY <1>5, <2>1, LentFinite, FS_AddElement
<1>9. /\ Members(rest) \intersect lent' = {}
      /\ Members(rest) \union lent' = AddressesFrom(m_buffer_start_address', m_allocated_buffers')
  BY <1>2, <1>3, <1>5, <1>6, <1>7
<1>10. m_allocated_buffers' - Len(m_buffers') = Cardinality(lent')
  BY <1>1, <1>2, <1>5, <1>6, <1>8
<1>11. Rearranged
  BY <1>5, <1>6, <1>9, <1>10 DEF Rearranged
<1>12. Positioned
  <2>1. allocated + n - (m_allocated_buffers + n) = allocated - m_allocated_buffers
    BY <1>1
  <2> QED
    BY <1>1, <1>5, <2>1 DEF Positioned, BuffersPartitioned
<1> QED
  BY <1>11, <1>12, PartitionedAgain

(* swap_and_release: the buffer of a client is free again. *)
LEMMA SwapReleasesPartitions ==
    ASSUME BufferedAssumption, BuffersPartitioned,
           NEW userspace, NEW bufferspace \in lent, SwapReleases(userspace, bufferspace)
    PROVE  BuffersPartitioned'
<1> DEFINE one == <<bufferspace>>
<1>1. /\ m_buffers \in Seq(Nat) /\ NoDuplicates(m_buffers) /\ bufferspace \in Nat
      /\ Members(m_buffers) \intersect lent = {} /\ Members(m_buffers) \union lent = BufferSpace
      /\ m_allocated_buffers - Len(m_buffers) = Cardinality(lent)
      /\ m_allocated_buffers \in Nat
  BY DEF BuffersPartitioned, TypeInv, NoDuplicates, get_used_buffers
<1>2. /\ m_buffers' = Append(m_buffers, bufferspace) /\ lent' = lent \ {bufferspace}
      /\ allocated' = allocated /\ m_buffer_start_address' = m_buffer_start_address
      /\ m_allocated_buffers' = m_allocated_buffers
  BY DEF SwapReleases, RM!SwapRewires
<1>3. one \in Seq(Nat) /\ Len(one) = 1 /\ DOMAIN one = {1} /\ one[1] = bufferspace
  BY <1>1
<1>4. NoDuplicates(one) /\ Members(one) = {bufferspace}
  BY <1>3, Zenon DEF NoDuplicates, Members
<1>5. Append(m_buffers, bufferspace) = m_buffers \o one
  BY <1>1, AppendIsConcat
<1> HIDE DEF one
<1>6. /\ m_buffers \o one \in Seq(Nat) /\ Len(m_buffers \o one) = Len(m_buffers) + 1
      /\ NoDuplicates(m_buffers \o one)
      /\ Members(m_buffers \o one) = Members(m_buffers) \union {bufferspace}
  <2>1. Members(m_buffers) \intersect Members(one) = {}
    BY <1>1, <1>4
  <2> QED
    BY <1>1, <1>3, <1>4, <2>1, PushedFront
<1>7. Cardinality(lent') = Cardinality(lent) - 1 /\ Cardinality(lent) \in Nat
  BY <1>2, LentFinite, FS_RemoveElement
<1>8. /\ Members(m_buffers') \intersect lent' = {}
      /\ Members(m_buffers') \union lent' = BufferSpace
  BY <1>1, <1>2, <1>5, <1>6
<1>9. m_allocated_buffers' - Len(m_buffers') = Cardinality(lent')
  BY <1>1, <1>2, <1>5, <1>6, <1>7, LenProperties
<1>10. Rearranged
  BY <1>2, <1>5, <1>6, <1>8, <1>9 DEF Rearranged, BufferSpace
<1>11. Positioned
  BY <1>2 DEF Positioned, BuffersPartitioned, TypeInv
<1> QED
  BY <1>10, <1>11, PartitionedAgain

(* extend, when there are more buffers than the user asks for: those left are all free. *)
LEMMA ExtendOverBuffersPartitions ==
    ASSUME BufferedAssumption, BuffersPartitioned, get_used_buffers = 0,
           NEW n \in Nat, ExtendOverBuffers(n), UNCHANGED lent
    PROVE  BuffersPartitioned'
<1> DEFINE P == PagesPerExtent
           start == m_buffer_start_address + n * P
           buffers == m_allocated_buffers - n
           deque == Descending(start, buffers)
<1>1. /\ m_buffer_start_address \in Nat /\ m_allocated_buffers \in Nat /\ allocated \in Nat
      /\ P \in Nat \ {0} /\ start \in Nat /\ buffers \in Nat
      /\ m_buffer_start_address = (allocated - m_allocated_buffers) * P
  <2>1. n < m_allocated_buffers
    BY DEF ExtendOverBuffers
  <2> QED
    BY <2>1 DEF BuffersPartitioned, TypeInv, BufferedAssumption
<1>2. lent' = {}
  BY NoneInUse
<1>3. /\ deque \in Seq(Nat) /\ Len(deque) = buffers /\ NoDuplicates(deque)
      /\ Members(deque) = AddressesFrom(start, buffers)
  <2>1. deque = Descending(start, buffers)
    OBVIOUS
  <2> HIDE DEF deque, start, buffers
  <2> QED
    BY <1>1, <2>1, DequeOfRun
<1>4. /\ m_buffers' = deque /\ m_allocated_buffers' = buffers /\ m_buffer_start_address' = start
      /\ allocated' = allocated
  <2>1. deque \o <<>> = deque
    BY <1>3, ConcatEmptySeq
  <2>2. m_buffers' = [i \in 1 .. buffers |-> start + (buffers - i) * P] \o <<>>
    BY DEF ExtendOverBuffers, PushFront
  <2>3. m_buffers' = deque
    BY <2>1, <2>2 DEF Descending
  <2> QED
    BY <2>3 DEF ExtendOverBuffers, RM!EndsWith, RM!memory_vars
<1> HIDE DEF deque
<1>5. Rearranged
  BY <1>1, <1>2, <1>3, <1>4, FS_EmptySet DEF Rearranged
<1>6. start = (allocated - buffers) * P
  <2> HIDE DEF P
  <2>1. (allocated - m_allocated_buffers) * P + n * P = (allocated - m_allocated_buffers + n) * P
    BY <1>1, SMT
  <2>2. allocated - m_allocated_buffers + n = allocated - buffers
    BY <1>1
  <2> QED
    BY <1>1, <2>1, <2>2
<1>7. Positioned
  BY <1>1, <1>4, <1>6 DEF Positioned
<1> QED
  BY <1>5, <1>7, PartitionedAgain

(* extend, when it takes all the buffers, and memory that is new. *)
LEMMA ExtendTakesAllPartitions ==
    ASSUME BufferedAssumption, BuffersPartitioned, get_used_buffers = 0,
           NEW n \in Nat, ExtendPhysical(n) \/ ExtendAllBuffers(n), UNCHANGED lent
    PROVE  BuffersPartitioned'
<1>1. allocated \in Nat /\ m_allocated_buffers \in Nat /\ PagesPerExtent \in Nat
  BY DEF BuffersPartitioned, TypeInv, BufferedAssumption
<1>2. lent' = {}
  BY NoneInUse
<1>3. allocated' \in Nat
  BY <1>1 DEF ExtendPhysical, ExtendAllBuffers, RM!ExtendGrows, RM!EndsWith, RM!memory_vars
<1>4. m_buffers' = <<>> /\ m_allocated_buffers' = 0 /\ m_buffer_start_address' = PagesPerExtent * allocated'
  BY DEF ExtendPhysical, ExtendAllBuffers, RM!EndsWith, RM!memory_vars
<1>5. m_buffer_start_address' \in Nat /\ m_buffer_start_address' = (allocated' - 0) * PagesPerExtent
  <2>1. \A a, b \in Nat : a - 0 = a /\ b * a \in Nat /\ b * a = a * b
    OBVIOUS
  <2> QED
    BY <1>1, <1>3, <1>4, <2>1, Zenon
<1>6. /\ m_buffers' \in Seq(Nat) /\ NoDuplicates(m_buffers') /\ Members(m_buffers') = {}
      /\ Len(m_buffers') = 0
  BY <1>4 DEF NoDuplicates, Members
<1>7. AddressesFrom(m_buffer_start_address', m_allocated_buffers') = {}
  BY <1>4 DEF AddressesFrom
<1>8. Rearranged
  <2>1. m_allocated_buffers' - Len(m_buffers') = 0 - 0 /\ Cardinality(lent') = 0
    BY <1>2, <1>4, <1>6, FS_EmptySet, Zenon
  <2>2. 0 - 0 = 0
    OBVIOUS
  <2> QED
    BY <1>2, <1>6, <1>7, <2>1, <2>2, Zenon DEF Rearranged
<1>9. Positioned
  BY <1>3, <1>4, <1>5 DEF Positioned
<1> QED
  BY <1>8, <1>9, PartitionedAgain

(* shrink puts the last extents of the user in front of the buffers. *)
LEMMA ShrinkPartitions ==
    ASSUME BufferedAssumption, BuffersPartitioned, get_used_buffers = 0,
           NEW n \in Nat, n <= allocated - m_allocated_buffers,
           m_allocated_buffers' = m_allocated_buffers + n,
           m_buffer_start_address' = m_buffer_start_address - n * PagesPerExtent,
           m_buffers' = [i \in 1 .. n |-> m_buffer_start_address - (n - i + 1) * PagesPerExtent] \o m_buffers,
           UNCHANGED <<allocated, lent>>
    PROVE  BuffersPartitioned'
<1> DEFINE P == PagesPerExtent
           users == allocated - m_allocated_buffers
           start == m_buffer_start_address - n * P
           deque == Ascending(start, n)
<1>1. /\ m_buffer_start_address \in Nat /\ m_allocated_buffers \in Nat /\ allocated \in Nat
      /\ P \in Nat \ {0} /\ users \in Nat /\ n <= users
      /\ m_buffer_start_address = users * P
  BY DEF BuffersPartitioned, TypeInv, BufferedAssumption
<1>2. start \in Nat /\ start = (users - n) * P /\ start + n * P = m_buffer_start_address
  <2> HIDE DEF users, P
  <2>1. users * P - n * P = (users - n) * P /\ (users - n) * P \in Nat
    BY <1>1, SMT
  <2>2. n * P \in Nat
    BY <1>1
  <2> QED
    BY <1>1, <2>1, <2>2
<1>3. lent = {} /\ Len(m_buffers) = m_allocated_buffers /\ Members(m_buffers) = BufferSpace
  BY NoneInUse
<1>4. m_buffers \in Seq(Nat) /\ NoDuplicates(m_buffers)
  BY DEF BuffersPartitioned, TypeInv, NoDuplicates
<1>5. /\ deque \in Seq(Nat) /\ Len(deque) = n /\ NoDuplicates(deque)
      /\ Members(deque) = AddressesFrom(start, n)
  <2>1. deque = Ascending(start, n)
    OBVIOUS
  <2> HIDE DEF deque, start
  <2> QED
    BY <1>2, <2>1, DequeOfRun
<1>6. m_buffers' = deque \o m_buffers
  <2> DEFINE b == m_buffer_start_address
  <2> HIDE DEF P
  <2>1. \A i \in Int : b - (n - i + 1) * P = b - n * P + (i - 1) * P
    BY <1>1, SMT
  <2>2. \A i \in 1 .. n : b - (n - i + 1) * P = start + (i - 1) * P
    BY <2>1
  <2>3. [i \in 1 .. n |-> b - (n - i + 1) * P] = [i \in 1 .. n |-> start + (i - 1) * P]
    BY <2>2
  <2> QED
    BY <2>3 DEF Ascending, P
<1>7. /\ AddressesFrom(start, n + m_allocated_buffers)
             = AddressesFrom(start, n) \union AddressesFrom(start + n * P, m_allocated_buffers)
      /\ AddressesFrom(start, n) \intersect AddressesFrom(start + n * P, m_allocated_buffers) = {}
  <2> HIDE DEF start
  <2> QED
    BY <1>1, <1>2, RunSplits
<1>8. Members(deque) \intersect Members(m_buffers) = {}
  BY <1>2, <1>3, <1>5, <1>7 DEF BufferSpace
<1> HIDE DEF deque, start, users
<1>9. /\ m_buffers' \in Seq(Nat) /\ Len(m_buffers') = n + m_allocated_buffers /\ NoDuplicates(m_buffers')
      /\ Members(m_buffers') = Members(deque) \union Members(m_buffers)
  BY <1>3, <1>4, <1>5, <1>6, <1>8, PushedFront
<1>10. /\ n + m_allocated_buffers = m_allocated_buffers + n
       /\ m_allocated_buffers' - Len(m_buffers') = 0
  BY <1>1, <1>9
<1>11. Members(m_buffers') = AddressesFrom(m_buffer_start_address', m_allocated_buffers')
  BY <1>2, <1>3, <1>5, <1>7, <1>9, <1>10 DEF BufferSpace, start
<1>12. Rearranged
  BY <1>3, <1>9, <1>10, <1>11, FS_EmptySet DEF Rearranged
<1>13. Positioned
  <2>1. allocated - (m_allocated_buffers + n) = users - n
    BY <1>1 DEF users
  <2> QED
    BY <1>1, <1>2, <2>1 DEF Positioned, start
<1> QED
  BY <1>12, <1>13, PartitionedAgain

-----------------------------------------------------------------------------
(* A swap never changes the number of extents; an extend that raises changes nothing. *)
LEMMA SwapKeepsExtents ==
    ASSUME NEW addr1, NEW addr2, RM!swap(addr1, addr2)
    PROVE  allocated' = allocated
BY DEF RM!swap, RM!SwapRejected, RM!SwapRewires, RM!SwapFirstFails, RM!SwapSecondFails,
       RM!EndsWith, RM!memory_vars

(* An extend that raises leaves the memory as it was. *)
LEMMA ExtendRaisesUnchanged ==
    ASSUME NEW n, RM!extend(n), outcome' # "returned"
    PROVE  UNCHANGED RM!memory_vars
BY DEF RM!extend, RM!ExtendGrows, RM!ExtendOverLimit, RM!ExtendFails, RM!EndsWith

(* add_buffers asks for at least one buffer. *)
LEMMA BuffersToAddPositive ==
    ASSUME BufferedAssumption, BuffersPartitioned
    PROVE  BuffersToAdd \in Nat \ {0}
BY DEF BufferedAssumption, BuffersPartitioned, TypeInv, BuffersToAdd

(* What a client passes as a buffer is one that it holds. *)
LEMMA ClientBuffer ==
    ASSUME BuffersPartitioned, NEW addr \in ClientAddresses, IsBuffer(addr)
    PROVE  addr \in lent
BY DEF BuffersPartitioned, TypeInv, ClientAddresses, IsBuffer

(* One case per operation. *)
LEMMA NextPartitions ==
    ASSUME BufferedAssumption, BuffersPartitioned, [Next]_vars
    PROVE  BuffersPartitioned'
<1>1. CASE acquire_buffer
  <2>1. CASE AcquireFree
    BY <2>1, AcquireFreePartitions
  <2>2. CASE m_buffers = <<>> /\ add_buffers(BuffersToAdd)
    BY <2>2, BuffersToAddPositive, AddBuffersPartitions
  <2>3. CASE m_buffers = <<>> /\ Propagate(RM!extend(BuffersToAdd))
    <3>1. UNCHANGED RM!memory_vars /\ UNCHANGED buffer_vars
      BY <2>3, ExtendRaisesUnchanged DEF Propagate
    <3> QED
      BY <3>1, NothingMoved DEF RM!memory_vars
  <2> QED
    BY <1>1, <2>1, <2>2, <2>3 DEF acquire_buffer
<1>2. ASSUME NEW addr1 \in ClientAddresses, NEW addr2 \in ClientAddresses, swap_and_release(addr1, addr2)
      PROVE  BuffersPartitioned'
  <2> DEFINE bufferspace == IF IsBuffer(addr1) THEN addr1 ELSE addr2
             userspace == IF IsBuffer(addr1) THEN addr2 ELSE addr1
  <2>1. CASE \E reason : Reject(reason)
    BY <2>1, NothingMoved DEF Reject, RM!EndsWith, RM!memory_vars
  <2>2. CASE IsBuffer(addr1) # IsBuffer(addr2) /\ SwapReleases(userspace, bufferspace)
    <3>1. bufferspace \in lent
      BY <2>2, ClientBuffer DEF IsBuffer
    <3> HIDE DEF bufferspace, userspace
    <3> QED
      BY <2>2, <3>1, SwapReleasesPartitions
  <2>3. CASE SwapRaises(userspace, bufferspace)
    <3> HIDE DEF bufferspace, userspace
    <3> QED
      BY <2>3, SwapKeepsExtents, NothingMoved DEF SwapRaises, Propagate
  <2> QED
    BY <1>2, <2>1, <2>2, <2>3 DEF swap_and_release
<1>3. ASSUME NEW n \in 0 .. MaxMemory, extend(n) PROVE BuffersPartitioned'
  <2>1. CASE \E reason : Reject(reason)
    BY <2>1, NothingMoved DEF Reject, RM!EndsWith, RM!memory_vars
  <2>2. CASE get_used_buffers = 0 /\ ExtendOverBuffers(n) /\ UNCHANGED lent
    BY <2>2, ExtendOverBuffersPartitions
  <2>3. CASE get_used_buffers = 0 /\ (ExtendPhysical(n) \/ ExtendAllBuffers(n)) /\ UNCHANGED lent
    BY <2>3, ExtendTakesAllPartitions
  <2>4. CASE Propagate(RM!extend(n - m_allocated_buffers))
    <3>1. UNCHANGED RM!memory_vars /\ UNCHANGED buffer_vars
      BY <2>4, ExtendRaisesUnchanged DEF Propagate
    <3> QED
      BY <3>1, NothingMoved DEF RM!memory_vars
  <2> QED
    BY <1>3, <2>1, <2>2, <2>3, <2>4 DEF extend
<1>4. ASSUME NEW n \in 0 .. MaxMemory, shrink(n) PROVE BuffersPartitioned'
  <2>1. CASE \E reason : Reject(reason)
    BY <2>1, NothingMoved DEF Reject, RM!EndsWith, RM!memory_vars
  <2>2. CASE ~ \E reason : Reject(reason)
    <3>1. /\ get_used_buffers = 0 /\ n <= allocated - m_allocated_buffers
          /\ m_buffers' = [i \in 1 .. n |-> m_buffer_start_address - (n - i + 1) * PagesPerExtent] \o m_buffers
          /\ m_allocated_buffers' = m_allocated_buffers + n
          /\ m_buffer_start_address' = m_buffer_start_address - n * PagesPerExtent
          /\ UNCHANGED <<allocated, lent>>
      BY <1>4, <2>2 DEF shrink, PushFront, RM!EndsWith, RM!memory_vars
    <3> QED
      BY <3>1, ShrinkPartitions
  <2> QED
    BY <2>1, <2>2
<1>5. CASE UNCHANGED vars
  BY <1>5, NothingMoved DEF vars, buffer_vars, RM!vars, RM!memory_vars
<1> QED
  BY <1>1, <1>2, <1>3, <1>4, <1>5 DEF Next

(* BuffersPartitioned, for every extent size, initial size, memory limit and number of    *)
(* buffers added at once: acquire_buffer, swap_and_release, extend and shrink neither lose *)
(* a buffer nor hand one out twice, whichever of the calls below them raise.               *)
THEOREM BuffersSafety ==
    ASSUME BufferedAssumption
    PROVE  Spec => []BuffersPartitioned
<1>1. Init => BuffersPartitioned
  BY InitPartitioned
<1>2. BuffersPartitioned /\ [Next]_vars => BuffersPartitioned'
  BY NextPartitions
<1> QED
  BY <1>1, <1>2, PTL DEF Spec

-----------------------------------------------------------------------------
(* The page table covers the reservation, and the extents are inside it. *)
Mapped ==
    /\ page_table = [v \in RM!ReservedExtents |-> page_table[v]]
    /\ allocated * PagesPerExtent <= MaxMemory

IndInv == BuffersPartitioned /\ Mapped

(* The constructor maps what it allocates. *)
LEMMA InitMapped ==
    ASSUME BufferedAssumption, Init
    PROVE  Mapped
BY DEF BufferedAssumption, Init, RM!Init, Mapped

(* The extents below the buffers are the first ones. *)
LEMMA FirstExtents ==
    ASSUME BufferedAssumption, NEW extents \in Nat, NEW buffers \in Nat
    PROVE  {v \in 0 .. (extents - 1) : v * PagesPerExtent < (extents - buffers) * PagesPerExtent}
               = 0 .. (extents - buffers - 1)
<1> DEFINE P == PagesPerExtent
           users == extents - buffers
           below == {v \in 0 .. (extents - 1) : v * P < users * P}
<1>1. P \in Nat \ {0} /\ users \in Int /\ users <= extents
  BY DEF BufferedAssumption
<1> HIDE DEF P, users
<1>2. ASSUME NEW v \in Nat PROVE v * P < users * P <=> v < users
  <2>1. v < users => v * P < users * P
    BY <1>1, SMT
  <2>2. v >= users => v * P >= users * P
    BY <1>1, SMT
  <2>3. v * P \in Int /\ users * P \in Int
    BY <1>1
  <2> QED
    BY <1>1, <2>1, <2>2, <2>3
<1>3. ASSUME NEW v \in below PROVE v \in 0 .. (users - 1)
  BY <1>1, <1>2
<1>4. ASSUME NEW v \in 0 .. (users - 1) PROVE v \in below
  BY <1>1, <1>2
<1>5. below = 0 .. (users - 1)
  BY <1>3, <1>4
<1> QED
  BY <1>5 DEF users, P

(* The user space lies in the reserved memory. *)
LEMMA UserExtentsReserved ==
    ASSUME BufferedAssumption, IndInv
    PROVE  UserExtents \subseteq RM!ReservedExtents
<1> SUFFICES ASSUME NEW v \in UserExtents PROVE v \in RM!ReservedExtents
  OBVIOUS
<1> DEFINE P == PagesPerExtent
<1>1. /\ P \in Nat \ {0} /\ allocated \in Nat /\ MaxMemory \in Nat /\ allocated * P <= MaxMemory
      /\ v \in Nat /\ v + 1 <= allocated
  BY SMTT(30) DEF IndInv, BuffersPartitioned, Mapped, TypeInv, BufferedAssumption, UserExtents
<1> HIDE DEF P
<1>2. (v + 1) * P <= allocated * P /\ v <= (v + 1) * P
  BY <1>1, SMT
<1>3. (v + 1) * P \in Int /\ allocated * P \in Int
  BY <1>1
<1> QED
  BY <1>1, <1>2, <1>3 DEF RM!ReservedExtents, RM!get_extent_size, P

(* The extent of a buffer that validate_address accepts is not one of the user's. *)
LEMMA BufferExtent ==
    ASSUME BufferedAssumption, BuffersPartitioned,
           NEW b \in lent, IsBuffer(b), RM!validate_address(b)
    PROVE  RM!ExtentOf(b) \notin UserExtents
<1> DEFINE P == PagesPerExtent
           q == b \div P
<1>1. P \in Nat \ {0} /\ b \in Nat /\ m_buffer_start_address \in Nat /\ b >= m_buffer_start_address
  BY DEF BuffersPartitioned, TypeInv, BufferedAssumption, IsBuffer
<1>2. b % P = 0
  BY DEF RM!validate_address, RM!get_extent_size
<1> HIDE DEF P
<1>3. b = P * q + (b % P) /\ q \in Int
  BY <1>1
<1> HIDE DEF q
<1>4. q * P = b
  BY <1>1, <1>2, <1>3
<1>5. ~ (q * P < m_buffer_start_address)
  BY <1>1, <1>4
<1> QED
  BY <1>5 DEF UserExtents, RM!ExtentOf, RM!get_extent_size, q, P

(* What OnlySwapMoves says of a step after which a set of extents has changed. *)
Moved == {v \in UserExtents \intersect UserExtents' : page_table'[v] # page_table[v]}

(* A step that maps nothing moves no user data. *)
LEMMA PageTableKept ==
    ASSUME page_table' = page_table, lent = {} \/ UserExtents' = UserExtents
    PROVE  OnlySwapMoves
<1>1. Moved = {}
  BY DEF Moved
<1>2. Cardinality(Moved) = 0
  BY <1>1, FS_EmptySet
<1>3. Cardinality(Moved) <= 1
  BY <1>2
<1> QED
  BY <1>1, <1>3 DEF OnlySwapMoves, Moved

(* A swap of a user's extent with a buffer, completed or left half done. *)
LEMMA OneExtentMoved ==
    ASSUME BufferedAssumption, IndInv, UserExtents' = UserExtents,
           NEW v1, NEW b \in lent, RM!ExtentOf(b) \notin UserExtents,
           \/ page_table' = [page_table EXCEPT ![v1] = m_translation_map[RM!ExtentOf(b)]]
           \/ \E p : page_table' = [[page_table EXCEPT ![v1] = m_translation_map[RM!ExtentOf(b)]]
                                        EXCEPT ![RM!ExtentOf(b)] = p]
    PROVE  OnlySwapMoves
<1> DEFINE v2 == RM!ExtentOf(b)
<1>1. \A v \in UserExtents : v \in RM!ReservedExtents /\ v # v2
  BY UserExtentsReserved
<1>2. page_table = [v \in RM!ReservedExtents |-> page_table[v]]
  BY DEF IndInv, Mapped
<1> HIDE DEF v2
<1>3. ASSUME NEW v \in UserExtents
      PROVE  page_table'[v] = IF v = v1 THEN m_translation_map[v2] ELSE page_table[v]
  BY <1>1, <1>2 DEF v2
<1>4. ASSUME NEW v \in Moved PROVE v = v1 /\ page_table'[v] = m_translation_map[v2]
  BY <1>3 DEF Moved
<1>5. Moved \in SUBSET {v1}
  BY <1>4
<1>6. IsFiniteSet({v1}) /\ Cardinality({v1}) = 1
  BY FS_Singleton
<1>7. Cardinality(Moved) <= 1
  BY <1>5, <1>6, FS_Subset
<1> QED
  BY <1>4, <1>7 DEF OnlySwapMoves, Moved, v2

(* A swap keeps the domain of the page table and the number of extents. *)
LEMMA SwapMapped ==
    ASSUME Mapped, NEW addr1, NEW addr2,
           RM!SwapRewires(addr1, addr2) \/ RM!SwapSecondFails(addr1, addr2)
    PROVE  Mapped'
<1> DEFINE R == RM!ReservedExtents
<1>1. allocated' = allocated /\ page_table = [v \in R |-> page_table[v]]
  BY DEF Mapped, RM!SwapRewires, RM!SwapSecondFails
<1>2. R' = R
  BY DEF RM!ReservedExtents, RM!get_extent_size
<1> DEFINE v1 == RM!ExtentOf(addr1)
           v2 == RM!ExtentOf(addr2)
<1>3. \/ page_table' = [[page_table EXCEPT ![v1] = m_translation_map[v2]] EXCEPT ![v2] = m_translation_map[v1]]
      \/ page_table' = [page_table EXCEPT ![v1] = m_translation_map[v2]]
  BY DEF RM!SwapRewires, RM!SwapSecondFails, RM!mmap
<1> HIDE DEF R, v1, v2
<1>4. page_table' = [v \in R |-> page_table'[v]]
  BY <1>1, <1>3
<1> QED
  BY <1>1, <1>2, <1>4 DEF Mapped, R

(* One case per operation: what it may do to the user's extents, and that the page table *)
(* still covers the reservation.                                                         *)
LEMMA NextMoves ==
    ASSUME BufferedAssumption, IndInv, BuffersPartitioned', Next
    PROVE  OnlySwapMoves /\ Mapped'
<1>1. /\ UserExtents = 0 .. (allocated - m_allocated_buffers - 1)
      /\ UserExtents' = 0 .. (allocated' - m_allocated_buffers' - 1)
      /\ allocated \in Nat /\ m_allocated_buffers \in Nat
  <2>1. /\ allocated \in Nat /\ m_allocated_buffers \in Nat
        /\ m_buffer_start_address = (allocated - m_allocated_buffers) * PagesPerExtent
        /\ allocated' \in Nat /\ m_allocated_buffers' \in Nat
        /\ m_buffer_start_address' = (allocated' - m_allocated_buffers') * PagesPerExtent
    BY DEF IndInv, BuffersPartitioned, TypeInv
  <2>2. UserExtents = 0 .. (allocated - m_allocated_buffers - 1)
    BY <2>1, FirstExtents DEF UserExtents
  <2>3. UserExtents' = 0 .. (allocated' - m_allocated_buffers' - 1)
    BY <2>1, FirstExtents DEF UserExtents
  <2> QED
    BY <2>1, <2>2, <2>3
<1>2. ASSUME UNCHANGED RM!memory_vars, UNCHANGED buffer_vars PROVE OnlySwapMoves /\ Mapped'
  <2>1. UserExtents' = UserExtents /\ page_table' = page_table
    BY <1>1, <1>2 DEF RM!memory_vars, buffer_vars
  <2>2. Mapped'
    BY <1>2 DEF IndInv, Mapped, RM!memory_vars, RM!ReservedExtents, RM!get_extent_size
  <2> QED
    BY <2>1, <2>2, PageTableKept
<1>3. ASSUME NEW n \in Nat, RM!ExtendGrows(n) PROVE page_table' = page_table /\ Mapped'
  BY <1>3 DEF IndInv, Mapped, RM!ExtendGrows, RM!ReservedExtents, RM!get_extent_size
<1>4. CASE acquire_buffer
  <2>1. CASE AcquireFree
    <3>1. UNCHANGED RM!memory_vars /\ m_allocated_buffers' = m_allocated_buffers
      BY <2>1 DEF AcquireFree, RM!EndsWith
    <3>2. UserExtents' = UserExtents /\ page_table' = page_table
      BY <1>1, <3>1 DEF RM!memory_vars
    <3>3. Mapped'
      BY <3>1 DEF IndInv, Mapped, RM!memory_vars, RM!ReservedExtents, RM!get_extent_size
    <3> QED
      BY <3>2, <3>3, PageTableKept
  <2>2. CASE add_buffers(BuffersToAdd)
    <3>1. BuffersToAdd \in Nat
      BY BuffersToAddPositive DEF IndInv
    <3>2. page_table' = page_table /\ Mapped'
      BY <1>3, <2>2, <3>1 DEF add_buffers
    <3>3. allocated' = allocated + BuffersToAdd /\ m_allocated_buffers' = m_allocated_buffers + BuffersToAdd
      BY <2>2 DEF add_buffers, RM!ExtendGrows
    <3>4. allocated' - m_allocated_buffers' = allocated - m_allocated_buffers
      BY <1>1, <3>1, <3>3
    <3>5. UserExtents' = UserExtents
      BY <1>1, <3>4
    <3> QED
      BY <3>2, <3>5, PageTableKept
  <2>3. CASE Propagate(RM!extend(BuffersToAdd))
    BY <1>2, <2>3, ExtendRaisesUnchanged DEF Propagate
  <2> QED
    BY <1>4, <2>1, <2>2, <2>3 DEF acquire_buffer
<1>5. ASSUME NEW addr1 \in ClientAddresses, NEW addr2 \in ClientAddresses, swap_and_release(addr1, addr2)
      PROVE  OnlySwapMoves /\ Mapped'
  <2> DEFINE bufferspace == IF IsBuffer(addr1) THEN addr1 ELSE addr2
             userspace == IF IsBuffer(addr1) THEN addr2 ELSE addr1
  <2>1. CASE \E reason : Reject(reason)
    BY <1>2, <2>1 DEF Reject, RM!EndsWith
  <2>2. ASSUME IsBuffer(addr1) # IsBuffer(addr2),
               RM!validate_address(bufferspace),
               \/ SwapReleases(userspace, bufferspace)
               \/ RM!SwapSecondFails(userspace, bufferspace) /\ UNCHANGED buffer_vars
        PROVE  OnlySwapMoves /\ Mapped'
    <3>1. bufferspace \in lent /\ IsBuffer(bufferspace)
      BY <2>2, ClientBuffer DEF IsBuffer, IndInv
    <3> HIDE DEF bufferspace, userspace
    <3>2. RM!ExtentOf(bufferspace) \notin UserExtents
      BY <2>2, <3>1, BufferExtent DEF IndInv
    <3>3. allocated' = allocated /\ m_allocated_buffers' = m_allocated_buffers
      BY <2>2 DEF SwapReleases, RM!SwapRewires, RM!SwapSecondFails, buffer_vars
    <3>4. UserExtents' = UserExtents
      BY <1>1, <3>3
    <3>5. Mapped'
      BY <2>2, SwapMapped DEF SwapReleases, IndInv
    <3>6. \/ page_table' = [page_table EXCEPT ![RM!ExtentOf(userspace)] = m_translation_map[RM!ExtentOf(bufferspace)]]
          \/ \E p : page_table' = [[page_table EXCEPT ![RM!ExtentOf(userspace)] =
                                                          m_translation_map[RM!ExtentOf(bufferspace)]]
                                       EXCEPT ![RM!ExtentOf(bufferspace)] = p]
      BY <2>2, Zenon DEF SwapReleases, RM!SwapRewires, RM!SwapSecondFails, RM!mmap
    <3>7. OnlySwapMoves
      BY <3>1, <3>2, <3>4, <3>6, OneExtentMoved
    <3> QED
      BY <3>5, <3>7
  <2>3. CASE IsBuffer(addr1) # IsBuffer(addr2) /\ SwapRaises(userspace, bufferspace)
    <3>1. \/ UNCHANGED RM!memory_vars
          \/ RM!validate_address(bufferspace) /\ RM!SwapSecondFails(userspace, bufferspace)
      <4> HIDE DEF bufferspace, userspace
      <4> QED
        BY <2>3 DEF SwapRaises, Propagate, RM!swap, RM!SwapRejected, RM!SwapRewires, RM!SwapFirstFails, RM!EndsWith
    <3>2. UNCHANGED buffer_vars
      BY <2>3 DEF SwapRaises, Propagate
    <3> QED
      BY <1>2, <2>2, <2>3, <3>1, <3>2
  <2> QED
    BY <1>5, <2>1, <2>2, <2>3 DEF swap_and_release
<1>6. ASSUME NEW n \in 0 .. MaxMemory, extend(n) PROVE OnlySwapMoves /\ Mapped'
  <2>1. CASE \E reason : Reject(reason)
    BY <1>2, <2>1 DEF Reject, RM!EndsWith
  <2>2. ASSUME get_used_buffers = 0, ExtendOverBuffers(n) \/ ExtendAllBuffers(n) \/ ExtendPhysical(n)
        PROVE  OnlySwapMoves /\ Mapped'
    <3>1. lent = {}
      BY <2>2, NoneInUse DEF IndInv
    <3>2. CASE UNCHANGED RM!memory_vars
      <4>1. page_table' = page_table /\ Mapped'
        BY <3>2 DEF IndInv, Mapped, RM!memory_vars, RM!ReservedExtents, RM!get_extent_size
      <4> QED
        BY <3>1, <4>1, PageTableKept
    <3>3. CASE ExtendPhysical(n)
      <4>1. n - m_allocated_buffers \in Nat
        BY <1>1, <3>3 DEF ExtendPhysical
      <4>2. page_table' = page_table /\ Mapped'
        BY <1>3, <3>3, <4>1 DEF ExtendPhysical
      <4> QED
        BY <3>1, <4>2, PageTableKept
    <3> QED
      BY <2>2, <3>2, <3>3 DEF ExtendOverBuffers, ExtendAllBuffers, RM!EndsWith
  <2>3. CASE Propagate(RM!extend(n - m_allocated_buffers))
    BY <1>2, <2>3, ExtendRaisesUnchanged DEF Propagate
  <2> QED
    BY <1>6, <2>1, <2>2, <2>3 DEF extend
<1>7. ASSUME NEW n \in 0 .. MaxMemory, shrink(n) PROVE OnlySwapMoves /\ Mapped'
  <2>1. CASE \E reason : Reject(reason)
    BY <1>2, <2>1 DEF Reject, RM!EndsWith
  <2>2. CASE get_used_buffers = 0 /\ UNCHANGED RM!memory_vars
    <3>1. lent = {}
      BY <2>2, NoneInUse DEF IndInv
    <3>2. page_table' = page_table /\ Mapped'
      BY <2>2 DEF IndInv, Mapped, RM!memory_vars, RM!ReservedExtents, RM!get_extent_size
    <3> QED
      BY <3>1, <3>2, PageTableKept
  <2> QED
    BY <1>7, <2>1, <2>2 DEF shrink, RM!EndsWith
<1> QED
  BY <1>4, <1>5, <1>6, <1>7 DEF Next

(* OnlySwapMovesUserData, for every extent size and memory limit: what is behind a user's  *)
(* extent changes only in swap_and_release, one extent at a time and for a buffer that the *)
(* client holds, and the user's space is resized only while no buffer is held.             *)
THEOREM OnlySwapMovesSafety ==
    ASSUME BufferedAssumption
    PROVE  Spec => OnlySwapMovesUserData
<1>1. Init => IndInv
  BY InitPartitioned, InitMapped DEF IndInv
<1>2. IndInv /\ [Next]_vars => IndInv' /\ [OnlySwapMoves]_vars
  <2> SUFFICES ASSUME IndInv, [Next]_vars PROVE IndInv' /\ [OnlySwapMoves]_vars
    OBVIOUS
  <2>1. BuffersPartitioned'
    BY NextPartitions DEF IndInv
  <2>2. CASE Next
    BY <2>1, <2>2, NextMoves DEF IndInv
  <2>3. CASE UNCHANGED vars
    <3>1. Mapped'
      BY <2>3 DEF IndInv, Mapped, vars, RM!vars, RM!memory_vars, RM!ReservedExtents, RM!get_extent_size
    <3> QED
      BY <2>1, <2>3, <3>1 DEF IndInv
  <2> QED
    BY <2>2, <2>3
<1> QED
  BY <1>1, <1>2, PTL DEF Spec, OnlySwapMovesUserData
=============================================================================
