------------------------- MODULE RewiredMemoryProofs -------------------------
(***************************************************************************)
(* The safety of RewiredMemory for every extent size, initial size, memory *)
(* limit and contents.  The inductive invariant is the conjunction of the  *)
(* three invariants: a swap keeps the page table inside the file because   *)
(* the translation map is inside it, and the map is a permutation because  *)
(* extend appends exactly the extents that ftruncate adds.                 *)
(*                                                                         *)
(* What a step may do to the page table and to the data the owner sees     *)
(* follows from it: the entries of the page table after the allocated      *)
(* extents are untouched, so that extend appends cells that agree with the *)
(* map, and the map is injective, so that a store through one extent is    *)
(* not seen through another.                                               *)
(***************************************************************************)
EXTENDS RewiredMemory, TLAPS

IndInv == TypeInv /\ MapIsPermutation /\ NoBusError

(* An address that validate_address accepts lies in an allocated extent: the *)
(* division of swap never indexes past the translation map.                  *)
LEMMA ValidAddressInMap ==
    ASSUME NEW addr \in Int, allocated \in Nat \ {0}, validate_address(addr)
    PROVE  ExtentOf(addr) \in Extents(allocated)
<1> DEFINE q == addr \div PagesPerExtent
           r == addr % PagesPerExtent
<1>1. PagesPerExtent \in Int /\ PagesPerExtent > 0
  BY RewiredMemoryAssumption
<1>2. q \in Int /\ r \in Int /\ r = 0 /\ addr = PagesPerExtent * q + r
  BY <1>1 DEF validate_address, get_extent_size
<1>3. PagesPerExtent * q >= 0 /\ PagesPerExtent * q < PagesPerExtent * allocated
  BY <1>2, <1>1 DEF validate_address, get_allocated_memory_size, get_extent_size
<1> HIDE DEF q, r
<1>4. q >= 0
  BY <1>1, <1>2, <1>3, SMT
<1>5. q < allocated
  BY <1>1, <1>2, <1>3, SMT
<1> QED
  BY <1>2, <1>4, <1>5 DEF q, ExtentOf, Extents, get_extent_size

(* The extents of the reservation are numbered from 0. *)
LEMMA ReservedExtentsNat == ReservedExtents \subseteq Nat
<1>1. 0 .. MaxMemory \subseteq Nat
  BY RewiredMemoryAssumption
<1> QED
  BY <1>1, Zenon DEF ReservedExtents

(* The constructor establishes the invariant. *)
LEMMA InitIndInv == Init => IndInv
<1> SUFFICES ASSUME Init PROVE IndInv
  OBVIOUS
<1> USE RewiredMemoryAssumption
<1>1. TypeInv
  BY DEF Init, TypeInv, Extents, ReservedExtents
<1>2. MapIsPermutation
  BY DEF Init, MapIsPermutation, Extents
<1>3. ASSUME NEW v \in Extents(NumExtents) PROVE v \in ReservedExtents
  <2>1. v \in Nat /\ v + 1 <= NumExtents
    BY DEF Extents
  <2>2. (v + 1) * PagesPerExtent <= NumExtents * PagesPerExtent
    BY <2>1, SMT
  <2>3. v <= (v + 1) * PagesPerExtent
    BY <2>1, SMT
  <2> QED
    BY <2>1, <2>2, <2>3 DEF ReservedExtents, get_extent_size
<1>4. NoBusError
  BY <1>3 DEF Init, NoBusError, Extents
<1> QED
  BY <1>1, <1>2, <1>4 DEF IndInv

(* A completed swap exchanges two entries of a permutation. *)
LEMMA SwapRewiresIndInv ==
    ASSUME IndInv, NEW addr1 \in Int, NEW addr2 \in Int,
           validate_address(addr1), validate_address(addr2),
           SwapRewires(addr1, addr2)
    PROVE  IndInv'
<1> DEFINE v1 == ExtentOf(addr1)
           v2 == ExtentOf(addr2)
           p1 == m_translation_map[v1]
           p2 == m_translation_map[v2]
<1>1. allocated \in Nat \ {0} /\ fd_extents = allocated
  BY DEF IndInv, TypeInv, MapIsPermutation
<1>2. v1 \in Extents(allocated) /\ v2 \in Extents(allocated)
  BY <1>1, ValidAddressInMap
<1>3. /\ page_table' = [[page_table EXCEPT ![v1] = p2] EXCEPT ![v2] = p1]
      /\ m_translation_map' = [m_translation_map EXCEPT ![v1] = p2, ![v2] = p1]
      /\ outcome' = "returned"
      /\ UNCHANGED <<allocated, fd_extents, physical>>
  BY DEF SwapRewires, mmap
<1> HIDE DEF v1, v2
<1>4. TypeInv'
  BY <1>1, <1>2, <1>3 DEF IndInv, TypeInv, Extents
<1>5. MapIsPermutation'
  <2>1. \A v \in Extents(allocated) :
           m_translation_map'[v] = IF v = v2 THEN p1 ELSE IF v = v1 THEN p2 ELSE m_translation_map[v]
    BY <1>2, <1>3 DEF IndInv, TypeInv
  <2>2. \A v, w \in Extents(allocated) :
           m_translation_map'[v] = m_translation_map'[w] => v = w
    BY <1>2, <2>1 DEF IndInv, MapIsPermutation
  <2>3. ASSUME NEW p \in Extents(fd_extents)
        PROVE  \E v \in Extents(allocated) : m_translation_map'[v] = p
    <3>1. PICK v \in Extents(allocated) : m_translation_map[v] = p
      BY DEF IndInv, MapIsPermutation
    <3>2. CASE v = v1
      BY <1>2, <2>1, <3>1, <3>2
    <3>3. CASE v = v2
      BY <1>2, <2>1, <3>1, <3>3
    <3>4. CASE v # v1 /\ v # v2
      BY <2>1, <3>1, <3>4
    <3> QED
      BY <3>2, <3>3, <3>4
  <2>4. \A v \in Extents(allocated) : m_translation_map'[v] \in Extents(fd_extents)
    BY <1>2, <2>1 DEF IndInv, MapIsPermutation
  <2> QED
    BY <1>1, <1>3, <2>2, <2>3, <2>4 DEF MapIsPermutation
<1>6. NoBusError'
  <2>1. p1 \in Extents(fd_extents) /\ p2 \in Extents(fd_extents)
    BY <1>2 DEF IndInv, MapIsPermutation
  <2>2. \A v \in Extents(allocated) : v \in ReservedExtents
    BY DEF IndInv, NoBusError
  <2>3. \A v \in Extents(allocated) : page_table'[v] \in Extents(fd_extents)
    BY <1>2, <1>3, <2>1, <2>2 DEF IndInv, TypeInv, NoBusError
  <2>4. ASSUME NEW v \in ReservedExtents, v >= allocated PROVE page_table'[v] = v
    <3>1. v \in Nat /\ allocated \in Nat
      BY ReservedExtentsNat DEF IndInv, TypeInv
    <3>2. v # v1 /\ v # v2
      BY <1>1, <1>2, <2>4, <3>1 DEF Extents
    <3> QED
      BY <1>3, <2>4, <3>2 DEF IndInv, TypeInv, NoBusError
  <2> QED
    BY <1>3, <2>2, <2>3, <2>4 DEF NoBusError, ReservedExtents
<1> QED
  BY <1>4, <1>5, <1>6 DEF IndInv

(* A swap whose second mmap fails changes one entry of the page table, to an *)
(* extent of the file.                                                       *)
LEMMA SwapSecondFailsIndInv ==
    ASSUME IndInv, NEW addr1 \in Int, NEW addr2 \in Int,
           validate_address(addr1), validate_address(addr2),
           SwapSecondFails(addr1, addr2)
    PROVE  IndInv'
<1> DEFINE v1 == ExtentOf(addr1)
           v2 == ExtentOf(addr2)
<1>1. v1 \in Extents(allocated) /\ v2 \in Extents(allocated)
  BY ValidAddressInMap DEF IndInv, TypeInv
<1>2. /\ page_table' = [page_table EXCEPT ![v1] = m_translation_map[v2]]
      /\ outcome' = "second rewiring failed"
      /\ UNCHANGED <<allocated, m_translation_map, fd_extents, physical>>
  BY DEF SwapSecondFails, mmap
<1> HIDE DEF v1, v2
<1>3. m_translation_map[v2] \in Extents(fd_extents)
  BY <1>1 DEF IndInv, MapIsPermutation
<1>4. TypeInv'
  BY <1>1, <1>2, <1>3 DEF IndInv, TypeInv, Extents
<1>5. MapIsPermutation'
  BY <1>2 DEF IndInv, MapIsPermutation
<1>6. NoBusError'
  <2>1. \A v \in Extents(allocated) : v \in ReservedExtents
    BY DEF IndInv, NoBusError
  <2>2. \A v \in Extents(allocated) : page_table'[v] \in Extents(fd_extents)
    BY <1>1, <1>2, <1>3, <2>1 DEF IndInv, TypeInv, NoBusError
  <2>3. ASSUME NEW v \in ReservedExtents, v >= allocated PROVE page_table'[v] = v
    <3>1. v \in Nat /\ allocated \in Nat
      BY ReservedExtentsNat DEF IndInv, TypeInv
    <3>2. v # v1
      BY <1>1, <2>3, <3>1 DEF Extents
    <3> QED
      BY <1>2, <2>3, <3>2 DEF IndInv, TypeInv, NoBusError
  <2> QED
    BY <1>2, <2>1, <2>2, <2>3 DEF NoBusError, ReservedExtents
<1> QED
  BY <1>4, <1>5, <1>6 DEF IndInv

(* extend appends the extents that ftruncate creates, mapped to themselves by *)
(* the reservation and untouched since.                                       *)
LEMMA ExtendGrowsIndInv ==
    ASSUME IndInv, NEW n \in Nat, ExtendGrows(n)
    PROVE  IndInv'
<1>1. /\ allocated \in Nat \ {0} /\ fd_extents = allocated
      /\ allocated' = allocated + n /\ fd_extents' = allocated + n
      /\ page_table' = page_table /\ outcome' = "returned"
  BY DEF IndInv, TypeInv, MapIsPermutation, ExtendGrows, ftruncate
<1>2. m_translation_map' = [v \in Extents(allocated + n) |->
                               IF v < allocated THEN m_translation_map[v] ELSE v]
  BY DEF ExtendGrows
<1>3. \A v \in Extents(allocated + n) : v \in Nat /\ (v < allocated => v \in Extents(allocated))
  BY <1>1 DEF Extents
<1>4. \A v \in Extents(allocated) : v \in Nat /\ v < allocated /\ v \in Extents(allocated + n)
  BY <1>1 DEF Extents
<1>5. TypeInv'
  <2>1. physical' \in [Extents(allocated + n) -> Data]
    BY <1>1, RewiredMemoryAssumption DEF IndInv, TypeInv, ExtendGrows, ftruncate
  <2>2. m_translation_map' \in [Extents(allocated + n) -> Nat]
    BY <1>2, <1>3 DEF IndInv, TypeInv
  <2>3. allocated' \in Nat \ {0} /\ fd_extents' \in Nat
    BY <1>1
  <2>4. page_table' \in [ReservedExtents -> Nat]
    BY <1>1 DEF IndInv, TypeInv
  <2> QED
    BY <1>1, <2>1, <2>2, <2>3, <2>4 DEF TypeInv
<1>6. MapIsPermutation'
  <2>1. \A v \in Extents(allocated + n) :
           /\ v < allocated => m_translation_map'[v] = m_translation_map[v]
           /\ v >= allocated => m_translation_map'[v] = v
    BY <1>1, <1>2, <1>3
  <2>2. \A v \in Extents(allocated) : m_translation_map[v] \in Extents(allocated)
    BY <1>1 DEF IndInv, MapIsPermutation
  <2>3. ASSUME NEW v \in Extents(allocated + n), NEW w \in Extents(allocated + n),
               m_translation_map'[v] = m_translation_map'[w]
        PROVE  v = w
    <3>1. CASE v < allocated /\ w < allocated
      BY <1>3, <2>1, <2>3, <3>1 DEF IndInv, MapIsPermutation
    <3>2. CASE v >= allocated /\ w >= allocated
      BY <2>1, <2>3, <3>2
    <3>3. CASE v < allocated /\ w >= allocated
      BY <1>1, <1>3, <1>4, <2>1, <2>2, <2>3, <3>3
    <3>4. CASE v >= allocated /\ w < allocated
      BY <1>1, <1>3, <1>4, <2>1, <2>2, <2>3, <3>4
    <3> QED
      BY <1>1, <1>3, <3>1, <3>2, <3>3, <3>4
  <2>4. \A v \in Extents(allocated + n) : m_translation_map'[v] \in Extents(allocated + n)
    BY <1>1, <1>3, <1>4, <2>1, <2>2
  <2>5. ASSUME NEW p \in Extents(allocated + n)
        PROVE  \E v \in Extents(allocated + n) : m_translation_map'[v] = p
    <3>1. CASE p < allocated
      <4>1. PICK v \in Extents(allocated) : m_translation_map[v] = p
        BY <1>1, <1>3, <3>1 DEF IndInv, MapIsPermutation
      <4> QED
        BY <1>4, <2>1, <4>1
    <3>2. CASE p >= allocated
      BY <2>1, <3>2
    <3> QED
      BY <1>1, <1>3, <3>1, <3>2
  <2> QED
    BY <1>1, <2>3, <2>4, <2>5 DEF MapIsPermutation
<1>7. ASSUME NEW v \in Extents(allocated + n) PROVE v \in ReservedExtents
  <2>1. v \in Nat /\ v + 1 <= allocated + n
    BY <1>1 DEF Extents
  <2>2. (v + 1) * PagesPerExtent <= (allocated + n) * PagesPerExtent
    BY <1>1, <2>1, RewiredMemoryAssumption, SMT
  <2>3. v <= (v + 1) * PagesPerExtent
    BY <2>1, RewiredMemoryAssumption, SMT
  <2>4. (allocated + n) * PagesPerExtent <= MaxMemory
    BY DEF ExtendGrows, get_extent_size
  <2> QED
    BY <1>1, <2>1, <2>2, <2>3, <2>4, RewiredMemoryAssumption DEF ReservedExtents, get_extent_size
<1>8. NoBusError'
  <2>1. ASSUME NEW v \in Extents(allocated + n) PROVE page_table[v] \in Extents(allocated + n)
    <3>1. CASE v < allocated
      BY <1>1, <1>3, <1>4, <3>1 DEF IndInv, NoBusError
    <3>2. CASE v >= allocated
      BY <1>7, <3>2 DEF IndInv, NoBusError
    <3> QED
      BY <1>1, <1>3, <3>1, <3>2
  <2>2. ASSUME NEW v \in ReservedExtents, v >= allocated + n PROVE page_table[v] = v
    <3>1. v >= allocated
      BY <1>1, <2>2 DEF ReservedExtents
    <3> QED
      BY <3>1 DEF IndInv, NoBusError
  <2> QED
    BY <1>1, <1>7, <2>1, <2>2 DEF NoBusError, ReservedExtents
<1> QED
  BY <1>5, <1>6, <1>8 DEF IndInv

(* A call that ends without effect. *)
LEMMA EndsWithIndInv ==
    ASSUME IndInv, UNCHANGED memory_vars,
           outcome' \in {"returned", "invalid address", "first rewiring failed",
                         "second rewiring failed", "limit reached", "ftruncate error"}
    PROVE  IndInv'
BY DEF IndInv, TypeInv, MapIsPermutation, NoBusError, memory_vars

(* The owner writes through an allocated extent. *)
LEMMA WriteIndInv ==
    ASSUME IndInv, NEW v \in Extents(allocated), NEW d \in Data, Write(v, d)
    PROVE  IndInv'
BY DEF IndInv, TypeInv, MapIsPermutation, NoBusError, Write

(* Every step of RewiredMemory preserves the invariant. *)
LEMMA NextIndInv == IndInv /\ [Next]_vars => IndInv'
<1> SUFFICES ASSUME IndInv, [Next]_vars PROVE IndInv'
  OBVIOUS
<1>1. ASSUME NEW addr1 \in Addresses, NEW addr2 \in Addresses, swap(addr1, addr2)
      PROVE  IndInv'
  <2>1. addr1 \in Int /\ addr2 \in Int
    BY RewiredMemoryAssumption DEF Addresses
  <2>2. CASE SwapRejected(addr1, addr2)
    BY <2>2, EndsWithIndInv DEF SwapRejected, EndsWith
  <2>3. CASE /\ validate_address(addr1) /\ validate_address(addr2)
             /\ SwapRewires(addr1, addr2)
    BY <2>1, <2>3, SwapRewiresIndInv
  <2>4. CASE SwapFirstFails
    BY <2>4, EndsWithIndInv DEF SwapFirstFails, EndsWith
  <2>5. CASE /\ validate_address(addr1) /\ validate_address(addr2)
             /\ SwapSecondFails(addr1, addr2)
    BY <2>1, <2>5, SwapSecondFailsIndInv
  <2> QED
    BY <1>1, <2>2, <2>3, <2>4, <2>5 DEF swap
<1>2. ASSUME NEW n \in 0 .. MaxMemory, extend(n)
      PROVE  IndInv'
  <2>1. n \in Nat
    OBVIOUS
  <2>2. CASE ExtendGrows(n)
    BY <2>1, <2>2, ExtendGrowsIndInv
  <2>3. CASE EndsWith("returned")
    BY <2>3, EndsWithIndInv DEF EndsWith
  <2>4. CASE ExtendOverLimit(n)
    BY <2>4, EndsWithIndInv DEF ExtendOverLimit, EndsWith
  <2>5. CASE ExtendFails(n)
    BY <2>5, EndsWithIndInv DEF ExtendFails, EndsWith
  <2> QED
    BY <1>2, <2>2, <2>3, <2>4, <2>5 DEF extend
<1>3. ASSUME NEW v \in Extents(allocated), NEW d \in Data, Write(v, d)
      PROVE  IndInv'
  BY <1>3, WriteIndInv
<1>4. CASE UNCHANGED vars
  BY <1>4 DEF IndInv, TypeInv, MapIsPermutation, NoBusError, memory_vars, vars
<1> QED
  BY <1>1, <1>2, <1>3, <1>4 DEF Next

(* The invariants of the class hold in every execution, whichever of its      *)
(* system calls fail: types, the translation map is a permutation of the      *)
(* file's extents, and no allocated extent maps past the end of the file.     *)
THEOREM RewiredMemorySafety == Spec => []MemorySound
<1>1. Init => IndInv
  BY InitIndInv
<1>2. IndInv /\ [Next]_vars => IndInv'
  BY NextIndInv
<1>3. Spec => []IndInv
  BY <1>1, <1>2, PTL DEF Spec
<1>4. IndInv => MemorySound
  BY DEF IndInv, MemorySound
<1> QED
  BY <1>3, <1>4, PTL

-----------------------------------------------------------------------------
(* The arguments of swap and of extend. *)
LEMMA ArgumentsAreNumbers == Addresses \subseteq Int /\ 0 .. MaxMemory \subseteq Nat
BY RewiredMemoryAssumption DEF Addresses

(* The extents where the page table and the map disagree, by membership. *)
LEMMA TornMember ==
    ASSUME NEW v
    PROVE  /\ v \in Torn <=> v \in Extents(allocated) /\ page_table[v] # m_translation_map[v]
           /\ v \in Torn' <=> v \in Extents(allocated') /\ page_table'[v] # m_translation_map'[v]
BY DEF Torn, Extents

(* Aligned addresses are determined by their extents. *)
LEMMA AddressOfExtent ==
    ASSUME NEW addr \in Int, validate_address(addr)
    PROVE  addr = PagesPerExtent * ExtentOf(addr)
<1> DEFINE q == addr \div PagesPerExtent
           r == addr % PagesPerExtent
<1>1. PagesPerExtent \in Int /\ PagesPerExtent > 0
  BY RewiredMemoryAssumption
<1>2. q \in Int /\ r \in Int /\ r = 0 /\ addr = PagesPerExtent * q + r
  BY <1>1 DEF validate_address, get_extent_size
<1>3. PagesPerExtent * q \in Int
  BY <1>1, <1>2
<1> QED
  BY <1>2, <1>3 DEF ExtentOf, get_extent_size

(* A completed swap repairs its two extents and touches no other. *)
LEMMA SwapRewiresTorn ==
    ASSUME IndInv, NEW addr1 \in Int, NEW addr2 \in Int,
           validate_address(addr1), validate_address(addr2),
           SwapRewires(addr1, addr2)
    PROVE  Torn' = Torn \ {ExtentOf(addr1), ExtentOf(addr2)}
<1> DEFINE v1 == ExtentOf(addr1)
           v2 == ExtentOf(addr2)
           p1 == m_translation_map[v1]
           p2 == m_translation_map[v2]
<1>1. v1 \in Extents(allocated) /\ v2 \in Extents(allocated)
  BY ValidAddressInMap DEF IndInv, TypeInv
<1>2. /\ page_table' = [[page_table EXCEPT ![v1] = p2] EXCEPT ![v2] = p1]
      /\ m_translation_map' = [m_translation_map EXCEPT ![v1] = p2, ![v2] = p1]
      /\ allocated' = allocated
  BY DEF SwapRewires, mmap
<1> HIDE DEF v1, v2
<1>3. \A v \in Extents(allocated) : v \in ReservedExtents
  BY DEF IndInv, NoBusError
<1>4. \A v \in Extents(allocated) :
         /\ page_table'[v] = IF v = v2 THEN p1 ELSE IF v = v1 THEN p2 ELSE page_table[v]
         /\ m_translation_map'[v] = IF v = v2 THEN p1 ELSE IF v = v1 THEN p2 ELSE m_translation_map[v]
  BY <1>1, <1>2, <1>3 DEF IndInv, TypeInv
<1>5. ASSUME NEW v PROVE v \in Torn' <=> v \in Torn /\ v # v1 /\ v # v2
  <2>1. CASE v = v1 \/ v = v2
    <3>1. v \in Extents(allocated) /\ page_table'[v] = m_translation_map'[v]
      BY <1>1, <1>4, <2>1
    <3>2. v \notin Torn'
      BY <3>1, TornMember
    <3> QED
      BY <2>1, <3>2
  <2>2. CASE v # v1 /\ v # v2
    BY <1>2, <1>4, <2>2, TornMember
  <2> QED
    BY <2>1, <2>2
<1> QED
  BY <1>5 DEF v1, v2

(* A swap that fails in the middle leaves its first extent torn. *)
LEMMA SwapSecondFailsTorn ==
    ASSUME IndInv, NEW addr1 \in Int, NEW addr2 \in Int,
           validate_address(addr1), validate_address(addr2), addr1 # addr2,
           SwapSecondFails(addr1, addr2)
    PROVE  ExtentOf(addr1) \in Torn'
<1> DEFINE v1 == ExtentOf(addr1)
           v2 == ExtentOf(addr2)
<1>1. v1 \in Extents(allocated) /\ v2 \in Extents(allocated)
  BY ValidAddressInMap DEF IndInv, TypeInv
<1>2. v1 # v2
  BY AddressOfExtent
<1>3. /\ page_table' = [page_table EXCEPT ![v1] = m_translation_map[v2]]
      /\ m_translation_map' = m_translation_map /\ allocated' = allocated
  BY DEF SwapSecondFails, mmap
<1> HIDE DEF v1, v2
<1>4. page_table'[v1] = m_translation_map[v2]
  BY <1>1, <1>3 DEF IndInv, TypeInv, NoBusError
<1>5. m_translation_map[v1] # m_translation_map[v2]
  BY <1>1, <1>2 DEF IndInv, MapIsPermutation
<1> QED
  BY <1>1, <1>3, <1>4, <1>5, TornMember DEF v1

(* The extents that extend appends agree with the map. *)
LEMMA ExtendGrowsTorn ==
    ASSUME IndInv, NEW n \in Nat, ExtendGrows(n)
    PROVE  Torn' = Torn
<1>1. allocated \in Nat /\ allocated' = allocated + n /\ page_table' = page_table
  BY DEF IndInv, TypeInv, ExtendGrows
<1>2. \A v \in Extents(allocated + n) :
         /\ v \in Nat
         /\ m_translation_map'[v] = IF v < allocated THEN m_translation_map[v] ELSE v
  BY <1>1 DEF ExtendGrows, Extents
<1>3. IndInv'
  BY ExtendGrowsIndInv
<1>4. \A v \in Extents(allocated + n) : v \in ReservedExtents
  BY <1>1, <1>3 DEF IndInv, NoBusError, ReservedExtents
<1>5. \A v \in Extents(allocated + n) : v >= allocated => page_table[v] = v
  BY <1>4 DEF IndInv, NoBusError
<1>6. \A v : v \in Extents(allocated) <=> v \in Extents(allocated + n) /\ v < allocated
  BY <1>1 DEF Extents
<1>7. ASSUME NEW v PROVE v \in Torn' <=> v \in Torn
  BY <1>1, <1>2, <1>5, <1>6, TornMember
<1> QED
  BY <1>7

(* Nothing is torn or repaired by a call that ends without effect, or a store. *)
LEMMA UnchangedTorn ==
    ASSUME UNCHANGED <<allocated, m_translation_map, page_table>>
    PROVE  Torn' = Torn
BY DEF Torn, Extents

(* Only a swap whose second mmap fails tears an extent, and a swap that        *)
(* completes leaves its two extents whole (RewiredMemory::swap), in every      *)
(* execution and whatever the sizes.                                           *)
THEOREM TearsOnlyByHalfSwap == Spec => TornOnlyByHalfSwap
<1> DEFINE Valid == {addr \in Addresses : validate_address(addr)}
           Repairs(addr1, addr2) ==
               addr1 # addr2 /\ SwapRewires(addr1, addr2)
               => Torn' = Torn \ {ExtentOf(addr1), ExtentOf(addr2)}
<1>1. ASSUME IndInv, NEW addr1 \in Valid, NEW addr2 \in Valid
      PROVE  Repairs(addr1, addr2)
  <2>1. addr1 \in Int /\ addr2 \in Int
    BY ArgumentsAreNumbers, Zenon
  <2> QED
    BY <1>1, <2>1, SwapRewiresTorn
<1>2. ASSUME IndInv, [Next]_vars
      PROVE  Torn' \ Torn # {} => outcome' = "second rewiring failed"
  <2> SUFFICES ASSUME outcome' # "second rewiring failed" PROVE Torn' \ Torn = {}
    OBVIOUS
  <2>1. ASSUME NEW addr1 \in Addresses, NEW addr2 \in Addresses, swap(addr1, addr2)
        PROVE  Torn' \ Torn = {}
    <3>1. addr1 \in Int /\ addr2 \in Int
      BY ArgumentsAreNumbers, Zenon
    <3>2. CASE UNCHANGED memory_vars
      BY <3>2, UnchangedTorn DEF memory_vars
    <3>3. CASE validate_address(addr1) /\ validate_address(addr2) /\ SwapRewires(addr1, addr2)
      BY <1>2, <3>1, <3>3, SwapRewiresTorn
    <3> QED
      BY <2>1, <3>2, <3>3 DEF swap, SwapRejected, SwapFirstFails, SwapSecondFails, EndsWith
  <2>2. ASSUME NEW n \in 0 .. MaxMemory, extend(n)
        PROVE  Torn' \ Torn = {}
    <3>1. n \in Nat
      BY ArgumentsAreNumbers, Zenon
    <3>2. CASE UNCHANGED memory_vars
      BY <3>2, UnchangedTorn DEF memory_vars
    <3>3. CASE ExtendGrows(n)
      BY <1>2, <3>1, <3>3, ExtendGrowsTorn
    <3> QED
      BY <2>2, <3>2, <3>3 DEF extend, ExtendOverLimit, ExtendFails, EndsWith
  <2>3. ASSUME NEW v \in Extents(allocated), NEW d \in Data, Write(v, d)
        PROVE  Torn' \ Torn = {}
    BY <2>3, UnchangedTorn DEF Write
  <2>4. CASE UNCHANGED vars
    BY <2>4, UnchangedTorn DEF vars, memory_vars
  <2> QED
    BY <1>2, <2>1, <2>2, <2>3, <2>4 DEF Next
<1>3. Spec => []IndInv
  BY InitIndInv, NextIndInv, PTL DEF Spec
<1>4. ASSUME IndInv, [Next]_vars
      PROVE  [/\ Torn' \ Torn # {} => outcome' = "second rewiring failed"
              /\ \A addr1, addr2 \in Valid : Repairs(addr1, addr2)]_vars
  BY <1>1, <1>2, <1>4
<1> QED
  BY <1>3, <1>4, PTL DEF Spec, TornOnlyByHalfSwap

-----------------------------------------------------------------------------
(* The refinement mapping: what the owner reads at each extent. *)
Cells == [v \in Extents(allocated) |-> Read(v)]

(* Where nothing is torn, an extent is read through the translation map. *)
LEMMA ReadThroughMap ==
    ASSUME IndInv, Torn = {}, NEW v \in Extents(allocated)
    PROVE  /\ page_table[v] = m_translation_map[v]
           /\ v \in ReservedExtents
           /\ page_table[v] \in Extents(fd_extents)
           /\ Cells[v] = physical[m_translation_map[v]]
<1>1. page_table[v] = m_translation_map[v]
  BY TornMember
<1> QED
  BY <1>1 DEF IndInv, NoBusError, Cells, Read

(* A store through one extent is not seen through another. *)
LEMMA WriteStores ==
    ASSUME IndInv, Torn = {}, NEW v \in Extents(allocated), NEW d \in Data, Write(v, d)
    PROVE  Cells' = [Cells EXCEPT ![v] = d]
<1>1. /\ physical' = [physical EXCEPT ![page_table[v]] = d]
      /\ allocated' = allocated /\ page_table' = page_table
  BY DEF Write
<1>2. ASSUME NEW w \in Extents(allocated)
      PROVE  physical'[page_table[w]] = IF w = v THEN d ELSE physical[page_table[w]]
  <2>1. page_table[w] = page_table[v] => w = v
    BY ReadThroughMap DEF IndInv, MapIsPermutation
  <2>2. page_table[v] \in Extents(fd_extents) /\ page_table[w] \in Extents(fd_extents)
    BY ReadThroughMap
  <2> QED
    BY <1>1, <2>1, <2>2 DEF IndInv, TypeInv
<1>3. Cells' = [w \in Extents(allocated) |-> physical'[page_table[w]]]
  BY <1>1 DEF Cells, Read, Extents
<1> QED
  BY <1>2, <1>3 DEF Cells, Read

(* A completed swap exchanges what its two extents hold. *)
LEMMA SwapExchanges ==
    ASSUME IndInv, Torn = {}, NEW addr1 \in Int, NEW addr2 \in Int,
           validate_address(addr1), validate_address(addr2),
           SwapRewires(addr1, addr2)
    PROVE  \E i, j \in Extents(allocated) :
              Cells' = [Cells EXCEPT ![i] = Cells[j], ![j] = Cells[i]]
<1> DEFINE v1 == ExtentOf(addr1)
           v2 == ExtentOf(addr2)
<1>1. v1 \in Extents(allocated) /\ v2 \in Extents(allocated)
  BY ValidAddressInMap DEF IndInv, TypeInv
<1>2. /\ page_table' = [[page_table EXCEPT ![v1] = m_translation_map[v2]]
                           EXCEPT ![v2] = m_translation_map[v1]]
      /\ allocated' = allocated /\ physical' = physical
  BY DEF SwapRewires, mmap
<1> HIDE DEF v1, v2
<1>3. ASSUME NEW w \in Extents(allocated)
      PROVE  physical[page_table'[w]] = IF w = v2 THEN Cells[v1]
                                        ELSE IF w = v1 THEN Cells[v2] ELSE Cells[w]
  <2>1. w \in ReservedExtents /\ v1 \in ReservedExtents /\ v2 \in ReservedExtents
    BY <1>1, ReadThroughMap
  <2>2. page_table'[w] = IF w = v2 THEN m_translation_map[v1]
                         ELSE IF w = v1 THEN m_translation_map[v2] ELSE page_table[w]
    BY <1>2, <2>1 DEF IndInv, TypeInv
  <2> QED
    BY <1>1, <2>2, ReadThroughMap
<1>4. Cells' = [w \in Extents(allocated) |-> physical[page_table'[w]]]
  BY <1>2 DEF Cells, Read, Extents
<1>5. DOMAIN Cells = Extents(allocated)
  BY DEF Cells
<1>6. [Cells EXCEPT ![v1] = Cells[v2], ![v2] = Cells[v1]]
        = [w \in Extents(allocated) |-> IF w = v2 THEN Cells[v1]
                                        ELSE IF w = v1 THEN Cells[v2] ELSE Cells[w]]
  BY <1>1, <1>5
<1>7. Cells' = [Cells EXCEPT ![v1] = Cells[v2], ![v2] = Cells[v1]]
  BY <1>3, <1>4, <1>6
<1> QED
  BY <1>1, <1>7

(* extend appends zero-filled extents and moves nothing. *)
LEMMA ExtendAppends ==
    ASSUME IndInv, Torn = {}, NEW n \in Nat, ExtendGrows(n)
    PROVE  /\ Extents(allocated) \subseteq Extents(allocated')
           /\ \A v \in Extents(allocated') :
                 Cells'[v] = IF v \in Extents(allocated) THEN Cells[v] ELSE Zero
<1>1. /\ allocated \in Nat /\ fd_extents = allocated
      /\ allocated' = allocated + n /\ page_table' = page_table
      /\ physical' = [p \in Extents(allocated + n) |->
                         IF p \in DOMAIN physical THEN physical[p] ELSE Zero]
  BY DEF IndInv, TypeInv, MapIsPermutation, ExtendGrows, ftruncate
<1>2. DOMAIN physical = Extents(allocated)
  BY <1>1 DEF IndInv, TypeInv
<1>3. Extents(allocated) \subseteq Extents(allocated + n)
  BY <1>1 DEF Extents
<1>4. ASSUME NEW v \in Extents(allocated + n)
      PROVE  physical'[page_table[v]]
                = IF v \in Extents(allocated) THEN Cells[v] ELSE Zero
  <2>1. CASE v \in Extents(allocated)
    BY <1>1, <1>2, <1>3, <2>1, ReadThroughMap
  <2>2. CASE v \notin Extents(allocated)
    <3>1. v >= allocated
      BY <1>1, <2>2 DEF Extents
    <3>2. IndInv'
      BY ExtendGrowsIndInv
    <3>3. v \in ReservedExtents
      BY <1>1, <3>2 DEF IndInv, NoBusError, ReservedExtents
    <3>4. page_table[v] = v
      BY <3>1, <3>3 DEF IndInv, NoBusError
    <3> QED
      BY <1>1, <1>2, <2>2, <3>4
  <2> QED
    BY <2>1, <2>2
<1>5. Cells' = [v \in Extents(allocated + n) |-> physical'[page_table[v]]]
  BY <1>1 DEF Cells, Read, Extents
<1> QED
  BY <1>1, <1>3, <1>4, <1>5

(* The region is an array of extents to its owner (the comment of class        *)
(* RewiredMemory): while no rewiring has been left half done, every call and   *)
(* every store maps to a step of ExtentArray or to a stutter.                  *)
THEOREM RewiredMemoryImplementsArray == Spec => ImplementsArray
<1> USE DEF Cells
<1>1. Init => Array!Init
  <2> SUFFICES ASSUME Init PROVE Array!Init
    OBVIOUS
  <2>1. IndInv
    BY InitIndInv
  <2>2. Torn = {}
    BY <2>1 DEF Torn, Init, IndInv, NoBusError
  <2>3. \A v \in Extents(NumExtents) : Read(v) = Zero
    BY <2>1 DEF Init, Read, IndInv, NoBusError
  <2>4. Cells = [v \in 0 .. (NumExtents - 1) |-> Zero]
    BY <2>3 DEF Init, Extents
  <2> QED
    BY <2>2, <2>4 DEF Array!Init
<1>2. ASSUME IndInv, [Next]_vars
      PROVE  [Array!Next]_<<Cells, Torn = {}>>
  <2> SUFFICES ASSUME Torn = {}, Torn' = {}
               PROVE  Array!Store \/ Array!Exchange \/ Array!Grow \/ Cells' = Cells
    BY DEF Array!Next
  <2>1. DOMAIN Cells = Extents(allocated) /\ DOMAIN Cells' = Extents(allocated')
    BY DEF Extents
  <2>2. CASE UNCHANGED memory_vars
    <3>1. Cells' = Cells
      BY <2>2 DEF memory_vars, Read, Extents
    <3> QED
      BY <3>1
  <2>3. ASSUME NEW addr1 \in Addresses, NEW addr2 \in Addresses, swap(addr1, addr2)
        PROVE  UNCHANGED memory_vars \/ Array!Exchange
    <3>1. addr1 \in Int /\ addr2 \in Int
      BY ArgumentsAreNumbers, Zenon
    <3>2. CASE validate_address(addr1) /\ validate_address(addr2) /\ SwapRewires(addr1, addr2)
      BY <1>2, <2>1, <3>1, <3>2, SwapExchanges DEF Array!Exchange
    <3>3. CASE /\ validate_address(addr1) /\ validate_address(addr2) /\ addr1 # addr2
               /\ SwapSecondFails(addr1, addr2)
      BY <1>2, <3>1, <3>3, SwapSecondFailsTorn
    <3> QED
      BY <2>3, <3>2, <3>3 DEF swap, SwapRejected, SwapFirstFails, EndsWith
  <2>4. ASSUME NEW n \in 0 .. MaxMemory, extend(n)
        PROVE  UNCHANGED memory_vars \/ Array!Grow
    <3>1. n \in Nat
      BY ArgumentsAreNumbers, Zenon
    <3>2. CASE ExtendGrows(n)
      BY <1>2, <2>1, <3>1, <3>2, ExtendAppends DEF Array!Grow
    <3> QED
      BY <2>4, <3>2 DEF extend, ExtendOverLimit, ExtendFails, EndsWith
  <2>5. ASSUME NEW v \in Extents(allocated), NEW d \in Data, Write(v, d)
        PROVE  Array!Store
    BY <1>2, <2>1, <2>5, WriteStores DEF Array!Store
  <2> QED
    BY <1>2, <2>2, <2>3, <2>4, <2>5 DEF Next, vars
<1>3. Spec => []IndInv
  BY InitIndInv, NextIndInv, PTL DEF Spec
<1> QED
  BY <1>1, <1>2, <1>3, PTL DEF Spec, ImplementsArray, Array!Spec
=============================================================================
