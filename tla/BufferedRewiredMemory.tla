------------------------ MODULE BufferedRewiredMemory ------------------------
(***************************************************************************)
(* class BufferedRewiredMemory (buffered_rewired_memory.cpp): a            *)
(* RewiredMemory whose first extents belong to the user and whose last     *)
(* extents are buffers.  A client acquires a buffer, fills it and gives it *)
(* back with swap_and_release, which exchanges it with a user extent.      *)
(* The memory below is the module RewiredMemory, its system calls failing  *)
(* as they do there; a RAISE of it ends the caller's operation at that     *)
(* point.                                                                  *)
(***************************************************************************)
EXTENDS Integers, Sequences, FiniteSets

CONSTANTS PagesPerExtent, NumExtents, MaxMemory, Data, Zero,
    MinBuffers    \* buffers added at least when none is free, 4 in acquire_buffer

BufferedAssumption ==
    /\ PagesPerExtent \in Nat \ {0} /\ NumExtents \in Nat \ {0} /\ MaxMemory \in Nat
    /\ NumExtents * PagesPerExtent <= MaxMemory
    /\ MinBuffers \in Nat \ {0}

VARIABLES
    allocated, m_translation_map, page_table, fd_extents, physical, outcome,
    m_buffer_start_address,  \* first address after the user's extents
    m_allocated_buffers,     \* buffers allocated, free or in use
    m_buffers,               \* the deque of free buffers, front first
    lent                     \* buffers that clients hold; the code does not keep them

RM == INSTANCE RewiredMemory

buffer_vars == <<m_buffer_start_address, m_allocated_buffers, m_buffers, lent>>

vars == <<allocated, m_translation_map, page_table, fd_extents, physical, outcome,
          m_buffer_start_address, m_allocated_buffers, m_buffers, lent>>

get_used_buffers == m_allocated_buffers - Len(m_buffers)

\* The addresses of n extents from an address on.
AddressesFrom(addr, n) == {addr + i * PagesPerExtent : i \in 0 .. (n - 1)}

BufferSpace == AddressesFrom(m_buffer_start_address, m_allocated_buffers)

\* n calls of push_front, the i-th with address(i).
PushFront(n, address(_), deque) == [i \in 1 .. n |-> address(n - i)] \o deque

Init ==
    /\ RM!Init
    /\ m_buffer_start_address = NumExtents * PagesPerExtent
    /\ m_allocated_buffers = 0
    /\ m_buffers = <<>>
    /\ lent = {}

\* A RAISE of this class, before it has touched anything.
Reject(reason) == RM!EndsWith(reason) /\ UNCHANGED buffer_vars

\* The operation of RewiredMemory raises: this class has changed nothing yet.
Propagate(operation) == operation /\ outcome' # "returned" /\ UNCHANGED buffer_vars

\* The buffer at the back of the deque goes to the client.
PopBack(deque) ==
    /\ m_buffers' = SubSeq(deque, 1, Len(deque) - 1)
    /\ lent' = lent \union {deque[Len(deque)]}

AcquireFree ==
    /\ m_buffers # <<>>
    /\ PopBack(m_buffers)
    /\ RM!EndsWith("returned")
    /\ UNCHANGED <<m_buffer_start_address, m_allocated_buffers>>

\* max<size_t>(4, m_allocated_buffers * 0.5)
BuffersToAdd ==
    IF m_allocated_buffers \div 2 > MinBuffers THEN m_allocated_buffers \div 2 ELSE MinBuffers

add_buffers(num_extents) ==
    LET buffer_space == m_buffer_start_address + PagesPerExtent * m_allocated_buffers
        address(i) == buffer_space + i * PagesPerExtent
    IN  /\ RM!ExtendGrows(num_extents)
        /\ PopBack(PushFront(num_extents, address, m_buffers))
        /\ m_allocated_buffers' = m_allocated_buffers + num_extents
        /\ UNCHANGED m_buffer_start_address

acquire_buffer ==
    \/ AcquireFree
    \/ m_buffers = <<>> /\ add_buffers(BuffersToAdd)
    \/ m_buffers = <<>> /\ Propagate(RM!extend(BuffersToAdd))

\* The exchange succeeds and the buffer is free again.
SwapReleases(userspace, bufferspace) ==
    /\ RM!SwapRewires(userspace, bufferspace)
    /\ m_buffers' = Append(m_buffers, bufferspace)
    /\ lent' = lent \ {bufferspace}
    /\ UNCHANGED <<m_buffer_start_address, m_allocated_buffers>>

\* The exchange raises: push_back is not reached, the client still has the buffer.
SwapRaises(userspace, bufferspace) ==
    Propagate(RM!swap(userspace, bufferspace))

IsBuffer(addr) == addr >= m_buffer_start_address

\* Mutant: two addresses of the user's space are not refused.
SwapWithoutBuffer(addr1, addr2) ==
    LET bufferspace == IF IsBuffer(addr1) THEN addr1 ELSE addr2
        userspace   == IF IsBuffer(addr1) THEN addr2 ELSE addr1
    IN  /\ RM!validate_address(userspace) /\ RM!validate_address(bufferspace)
        /\ userspace # bufferspace
        /\ SwapReleases(userspace, bufferspace)

swap_and_release(addr1, addr2) ==
    \/ /\ IsBuffer(addr1) = IsBuffer(addr2)
       /\ Reject(IF IsBuffer(addr1) THEN "both buffers" ELSE "no buffer")
    \/ /\ IsBuffer(addr1) # IsBuffer(addr2)
       /\ LET bufferspace == IF IsBuffer(addr1) THEN addr1 ELSE addr2
              userspace   == IF IsBuffer(addr1) THEN addr2 ELSE addr1
          IN  \/ /\ RM!validate_address(userspace) /\ RM!validate_address(bufferspace)
                 /\ SwapReleases(userspace, bufferspace)
              \/ SwapRaises(userspace, bufferspace)

\* The user's space grows over the first buffers; the deque is rebuilt.
ExtendOverBuffers(num_extents) ==
    LET start == m_buffer_start_address + num_extents * PagesPerExtent
        address(i) == start + i * PagesPerExtent
        buffers == m_allocated_buffers - num_extents
    IN  /\ num_extents < m_allocated_buffers
        /\ m_buffer_start_address' = start
        /\ m_allocated_buffers' = buffers
        /\ m_buffers' = PushFront(buffers, address, <<>>)
        /\ RM!EndsWith("returned")

\* The user's space takes all buffers and the rest from new physical memory.
ExtendPhysical(num_extents) ==
    /\ num_extents > m_allocated_buffers
    /\ RM!ExtendGrows(num_extents - m_allocated_buffers)
    /\ m_allocated_buffers' = 0
    /\ m_buffers' = <<>>
    /\ m_buffer_start_address' = PagesPerExtent * allocated'

\* m_instance.extend(0) returns at once.
ExtendAllBuffers(num_extents) ==
    /\ num_extents = m_allocated_buffers
    /\ RM!EndsWith("returned")
    /\ m_allocated_buffers' = 0
    /\ m_buffers' = <<>>
    /\ m_buffer_start_address' = PagesPerExtent * allocated

\* Mutant: extend does not look at the buffers in use.
ExtendIgnoresUsed(num_extents) ==
    /\ num_extents # 0
    /\ \/ ExtendOverBuffers(num_extents)
       \/ ExtendPhysical(num_extents)
       \/ ExtendAllBuffers(num_extents)
    /\ UNCHANGED lent

extend(num_extents) ==
    \/ /\ num_extents = 0 \/ get_used_buffers # 0
       /\ Reject("zero extents or buffers in use")
    \/ /\ num_extents # 0 /\ get_used_buffers = 0
       /\ \/ /\ \/ ExtendOverBuffers(num_extents)
                \/ ExtendPhysical(num_extents)
                \/ ExtendAllBuffers(num_extents)
             /\ UNCHANGED lent
          \/ /\ num_extents > m_allocated_buffers
             /\ Propagate(RM!extend(num_extents - m_allocated_buffers))

shrink(num_extents) ==
    LET address(i) == m_buffer_start_address - (i + 1) * PagesPerExtent
    IN  \/ /\ \/ num_extents = 0
              \/ get_used_buffers # 0
              \/ num_extents > allocated - m_allocated_buffers
           /\ Reject("zero extents, buffers in use or too many extents")
        \/ /\ num_extents # 0 /\ get_used_buffers = 0
           /\ num_extents <= allocated - m_allocated_buffers
           /\ m_buffers' = PushFront(num_extents, address, m_buffers)
           /\ m_allocated_buffers' = m_allocated_buffers + num_extents
           /\ m_buffer_start_address' = m_buffer_start_address - num_extents * PagesPerExtent
           /\ RM!EndsWith("returned")
           /\ UNCHANGED lent

\* A client passes any address of the user's space and a buffer it holds, or
\* two addresses that the class must refuse.
ClientAddresses == (0 .. (m_buffer_start_address - 1)) \union lent

Next ==
    \/ acquire_buffer
    \/ \E addr1, addr2 \in ClientAddresses : swap_and_release(addr1, addr2)
    \/ \E n \in 0 .. MaxMemory : extend(n) \/ shrink(n)

Spec == Init /\ [][Next]_vars
-----------------------------------------------------------------------------
Members(deque) == {deque[i] : i \in DOMAIN deque}

UserExtents == {v \in 0 .. (allocated - 1) : v * PagesPerExtent < m_buffer_start_address}

TypeInv ==
    /\ allocated \in Nat
    /\ m_buffer_start_address \in Nat
    /\ m_allocated_buffers \in Nat
    /\ m_buffers \in Seq(Nat)
    /\ lent \subseteq Nat

\* Every extent is a user extent, a free buffer or a buffer some client holds, and
\* only one of them: no buffer is handed out twice, freed twice, lost, or left in
\* the space that extend gave to the user, whichever operations raised on the way.
BuffersPartitioned ==
    /\ TypeInv
    /\ m_buffer_start_address = (allocated - m_allocated_buffers) * PagesPerExtent
    /\ \A i, j \in DOMAIN m_buffers : m_buffers[i] = m_buffers[j] => i = j
    /\ Members(m_buffers) \intersect lent = {}
    /\ Members(m_buffers) \union lent = BufferSpace
    /\ get_used_buffers = Cardinality(lent)

\* Acquiring, extending and shrinking leave the physical memory behind the user's
\* extents alone; a swap replaces it under one extent, with a client's buffer.
\* The user's space is resized only while no client holds a buffer.
OnlySwapMoves ==
    LET Changed == {v \in UserExtents \intersect UserExtents' : page_table'[v] # page_table[v]}
    IN  /\ Cardinality(Changed) <= 1
        /\ \A v \in Changed :
              \E b \in lent : page_table'[v] = m_translation_map[RM!ExtentOf(b)]
        /\ UserExtents' # UserExtents => lent = {} /\ Changed = {}

\* Whatever the clients of BufferedRewiredMemory do and whichever calls raise, the data that
\* the user sees moves only as above.
OnlySwapMovesUserData == [][OnlySwapMoves]_vars
=============================================================================
