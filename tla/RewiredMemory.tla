---------------------------- MODULE RewiredMemory ----------------------------
(***************************************************************************)
(* class RewiredMemory (rewired_memory.cpp): one region of virtual memory, *)
(* split in extents, whose extents can exchange the physical memory behind *)
(* them.  The class keeps a translation map; the kernel keeps the page     *)
(* table that the mmap calls edit.  Both are state here, because a failing *)
(* mmap changes one and not the other.                                     *)
(*                                                                         *)
(* Units: an address is an offset, in pages, from m_start_address; physical *)
(* memory is a file of extents.  An extent's contents are one datum.       *)
(***************************************************************************)
EXTENDS Integers

CONSTANTS
    PagesPerExtent,   \* m_num_pages_per_extent
    NumExtents,       \* extents allocated by the constructor
    MaxMemory,        \* m_max_memory, in pages
    Data,             \* contents an extent may have
    Zero              \* contents of an extent ftruncate has just created

\* The checks of the constructor: both sizes positive, the request in bounds.
ASSUME RewiredMemoryAssumption ==
    /\ PagesPerExtent \in Nat \ {0}
    /\ NumExtents \in Nat \ {0}
    /\ MaxMemory \in Nat
    /\ NumExtents * PagesPerExtent <= MaxMemory
    /\ Zero \in Data

VARIABLES
    allocated,          \* m_translation_map.size()
    m_translation_map,  \* virtual extent -> physical extent, as the class sees it
    page_table,         \* virtual extent -> physical extent, as the kernel sees it
    fd_extents,         \* size of the file m_handle_physical_memory, in extents
    physical,           \* contents of the physical extents
    outcome             \* how the last call ended: returned, or which RAISE

memory_vars == <<allocated, m_translation_map, page_table, fd_extents, physical>>

vars == <<memory_vars, outcome>>

Extents(n) == 0 .. (n - 1)

get_extent_size == PagesPerExtent

get_allocated_memory_size == get_extent_size * allocated

\* The extents of the reserved virtual memory, backed by the file or not yet.
ReservedExtents == {v \in 0 .. MaxMemory : (v + 1) * get_extent_size <= MaxMemory}

\* The whole reservation is mapped at once, offset 0 of the file at its start.
Init ==
    /\ allocated = NumExtents
    /\ m_translation_map = [v \in Extents(NumExtents) |-> v]
    /\ page_table = [v \in ReservedExtents |-> v]
    /\ fd_extents = NumExtents
    /\ physical = [p \in Extents(NumExtents) |-> Zero]
    /\ outcome = "returned"

validate_address(addr) ==
    /\ addr % get_extent_size = 0
    /\ addr >= 0
    /\ addr < get_allocated_memory_size

\* (vpage - start_address) / get_extent_size()
ExtentOf(addr) == addr \div get_extent_size

\* A call that ends with this result and changes nothing.
EndsWith(result) == outcome' = result /\ UNCHANGED memory_vars

\* mmap(vpage, MAP_FIXED, fd, ppage): the page table of one extent.  External.
mmap(table, vextent, ppage) == [table EXCEPT ![vextent] = ppage]

SwapRejected(addr1, addr2) ==
    /\ ~ validate_address(addr1) \/ ~ validate_address(addr2) \/ addr1 = addr2
    /\ EndsWith("invalid address")

\* Mutant: the translation map is not updated after the two mmap calls.
SwapForgetsMap(addr1, addr2) ==
    LET v1 == ExtentOf(addr1)
        v2 == ExtentOf(addr2)
    IN  /\ page_table' = mmap(mmap(page_table, v1, m_translation_map[v2]),
                              v2, m_translation_map[v1])
        /\ outcome' = "returned"
        /\ UNCHANGED <<allocated, m_translation_map, fd_extents, physical>>

\* Mutant: the second assignment reads the entry that the first one overwrote.
SwapOverwritesEntry(addr1, addr2) ==
    LET v1 == ExtentOf(addr1)
        v2 == ExtentOf(addr2)
        ppage2 == m_translation_map[v2]
    IN  /\ page_table' = mmap(mmap(page_table, v1, ppage2), v2, m_translation_map[v1])
        /\ m_translation_map' = [m_translation_map EXCEPT ![v1] = ppage2, ![v2] = ppage2]
        /\ outcome' = "returned"
        /\ UNCHANGED <<allocated, fd_extents, physical>>

\* The two mmap calls and the two assignments to the translation map.
SwapRewires(addr1, addr2) ==
    LET v1 == ExtentOf(addr1)
        v2 == ExtentOf(addr2)
        ppage1 == m_translation_map[v1]
        ppage2 == m_translation_map[v2]
    IN  /\ page_table' = mmap(mmap(page_table, v1, ppage2), v2, ppage1)
        /\ m_translation_map' = [m_translation_map EXCEPT ![v1] = ppage2, ![v2] = ppage1]
        /\ outcome' = "returned"
        /\ UNCHANGED <<allocated, fd_extents, physical>>

SwapFirstFails == EndsWith("first rewiring failed")

\* The first rewiring is not undone.
SwapSecondFails(addr1, addr2) ==
    /\ page_table' = mmap(page_table, ExtentOf(addr1), m_translation_map[ExtentOf(addr2)])
    /\ outcome' = "second rewiring failed"
    /\ UNCHANGED <<allocated, m_translation_map, fd_extents, physical>>

swap(addr1, addr2) ==
    \/ SwapRejected(addr1, addr2)
    \/ /\ validate_address(addr1) /\ validate_address(addr2) /\ addr1 # addr2
       /\ \/ SwapRewires(addr1, addr2)
          \/ SwapFirstFails
          \/ SwapSecondFails(addr1, addr2)

\* The file grows by zero-filled extents.
ftruncate(extents) ==
    /\ fd_extents' = extents
    /\ physical' = [p \in Extents(extents) |->
                        IF p \in DOMAIN physical THEN physical[p] ELSE Zero]

\* Mutant: the file is replaced by a larger one instead of grown.
ExtendReplacesFile(num_extents) ==
    /\ (allocated + num_extents) * get_extent_size <= MaxMemory
    /\ allocated' = allocated + num_extents
    /\ fd_extents' = allocated + num_extents
    /\ physical' = [p \in Extents(allocated + num_extents) |-> Zero]
    /\ m_translation_map' =
          [v \in Extents(allocated + num_extents) |->
              IF v < allocated THEN m_translation_map[v] ELSE v]
    /\ outcome' = "returned"
    /\ UNCHANGED page_table

ExtendGrows(num_extents) ==
    /\ (allocated + num_extents) * get_extent_size <= MaxMemory
    /\ ftruncate(allocated + num_extents)
    /\ allocated' = allocated + num_extents
    /\ m_translation_map' =
          [v \in Extents(allocated + num_extents) |->
              IF v < allocated THEN m_translation_map[v] ELSE v]
    /\ outcome' = "returned"
    /\ UNCHANGED page_table

ExtendOverLimit(num_extents) ==
    /\ (allocated + num_extents) * get_extent_size > MaxMemory
    /\ EndsWith("limit reached")

ExtendFails(num_extents) ==
    /\ (allocated + num_extents) * get_extent_size <= MaxMemory
    /\ EndsWith("ftruncate error")

extend(num_extents) ==
    \/ num_extents = 0 /\ EndsWith("returned")
    \/ /\ num_extents # 0
       /\ \/ ExtendGrows(num_extents)
          \/ ExtendOverLimit(num_extents)
          \/ ExtendFails(num_extents)

\* What the owner of the memory reads and writes at a virtual extent.
Read(vextent) == physical[page_table[vextent]]

Write(vextent, d) ==
    /\ physical' = [physical EXCEPT ![page_table[vextent]] = d]
    /\ outcome' = "returned"
    /\ UNCHANGED <<allocated, m_translation_map, page_table, fd_extents>>

Addresses == -1 .. MaxMemory

Next ==
    \/ \E addr1, addr2 \in Addresses : swap(addr1, addr2)
    \/ \E n \in 0 .. MaxMemory : extend(n)
    \/ \E v \in Extents(allocated), d \in Data : Write(v, d)

Spec == Init /\ [][Next]_vars
-----------------------------------------------------------------------------
TypeInv ==
    /\ allocated \in Nat \ {0}
    /\ m_translation_map \in [Extents(allocated) -> Nat]
    /\ page_table \in [ReservedExtents -> Nat]
    /\ fd_extents \in Nat
    /\ physical \in [Extents(fd_extents) -> Data]
    /\ outcome \in {"returned", "invalid address", "first rewiring failed",
                    "second rewiring failed", "limit reached", "ftruncate error"}

\* Two virtual extents never share a physical extent of the translation map, and
\* every physical extent of the file is reachable: swap and extend keep the map a
\* permutation of the file's extents, whichever system call fails.
MapIsPermutation ==
    /\ \A v, w \in Extents(allocated) :
          m_translation_map[v] = m_translation_map[w] => v = w
    /\ \A v \in Extents(allocated) : m_translation_map[v] \in Extents(fd_extents)
    /\ \A p \in Extents(fd_extents) : \E v \in Extents(allocated) : m_translation_map[v] = p
    /\ fd_extents = allocated

\* Accessing an allocated extent never raises SIGBUS: the page behind it lies in
\* the file, as the comment of the constructor requires of the user's accesses.
\* Extents not allocated yet still map the page that extend will put in the file.
NoBusError ==
    /\ \A v \in Extents(allocated) : v \in ReservedExtents /\ page_table[v] \in Extents(fd_extents)
    /\ \A v \in ReservedExtents : v >= allocated => page_table[v] = v

\* The state is well formed whichever system calls have failed: the map is a permutation of
\* the file and every access of the owner is to a page of it.
MemorySound == TypeInv /\ MapIsPermutation /\ NoBusError

Torn == {v \in Extents(allocated) : page_table[v] # m_translation_map[v]}

\* swap is all or nothing but for one case: only a second mmap that fails makes an
\* extent disagree with the translation map, and only the first of its arguments.
\* A swap that completes repairs both of its extents.
TornOnlyByHalfSwap ==
    [][/\ Torn' \ Torn # {} => outcome' = "second rewiring failed"
       /\ \A addr1, addr2 \in {addr \in Addresses : validate_address(addr)} :
             addr1 # addr2 /\ SwapRewires(addr1, addr2)
             => Torn' = Torn \ {ExtentOf(addr1), ExtentOf(addr2)}]_vars

\* While no rewiring has been left half done, the region is an array of extents:
\* swap exchanges two cells, extend appends empty cells, nothing else moves data.
Array == INSTANCE ExtentArray WITH
            cells <- [v \in Extents(allocated) |-> Read(v)],
            intact <- Torn = {}

ImplementsArray == Array!Spec

=============================================================================
