------------------------------- MODULE MCParts -------------------------------
(* Three parts that the adaptive arrays use through an interface, each on its own: the  *)
(* memory with its buffers, the index and the scans of int2.                            *)
(* Each leaves the variables of the others as they were.                                *)
(*                                                                                      *)
(* The memory has one page per extent, two user extents at first and at most four       *)
(* extents: buffers arrive one at a time, so two clients' requests grow the memory, a   *)
(* third finds it exhausted, and extend and shrink move the boundary.                   *)
EXTENDS BufferedRewiredMemory, Scan

VARIABLES part, s1, s2, s3, s4, s5, s6, s7

shared == <<s1, s2, s3, s4, s5, s6, s7>>
parts == <<part, vars, shared, scan_vars>>

(* Nodes of two and three entries, trees of up to four levels, full ones and ones with a *)
(* lower subtree on the right.                                                           *)
Index == INSTANCE StaticIndex WITH
             NodeSizes <- {2, 3}, Capacities <- {1, 2, 4, 5, 8, 11}, Keys <- {1, 3}, MaxKey <- 9,
             Garbage <- {-1, 9},
             m_node_size <- s1, m_height <- s2, m_capacity <- s3, m_keys <- s4,
             m_key_minimum <- s5, m_rightmost <- s6, written <- s7

ASSUME PartsAssumption == BufferedAssumption /\ Index!StaticIndexAssumption /\ ScanAssumption

(* One, two and four segments of two slots, each with an element, keys with duplicates   *)
(* across segments; leftovers below, among and above the keys.                           *)

\* The slots of the elements of an array with these sizes.
SlotsOf(sizes) ==
    UNION {FirstSlot([sizes |-> sizes], s) .. (EndSlot([sizes |-> sizes], s) - 1) : s \in DOMAIN sizes}

\* All arrays of n segments.  The slot before the array is not part of it.
MCArrays(n) ==
    UNION {{[sizes |-> sizes,
             keys |-> [i \in -1 .. (2 * n - 1) |-> IF i \in SlotsOf(sizes) THEN k[i] ELSE leftover]] :
               k \in {f \in [SlotsOf(sizes) -> {2, 4, 6}] :
                         \A i, j \in SlotsOf(sizes) : i < j => f[i] <= f[j]},
               leftover \in {1, 4, 7}} :
              sizes \in [0 .. (n - 1) -> 1 .. 2]}

MCStorages == MCArrays(1) \union MCArrays(2) \union MCArrays(4)

-----------------------------------------------------------------------------
NoIndex == s1 = 0 /\ s2 = 0 /\ s3 = 0 /\ s4 = 0 /\ s5 = 0 /\ s6 = 0 /\ s7 = 0

NoScan == storage = (CHOOSE st \in MCArrays(1) : TRUE) /\ range = <<1, 1>> /\ ScanStart

PartsInit ==
    /\ Init
    /\ \/ part = "memory" /\ NoIndex /\ NoScan
       \/ part = "index" /\ Index!Init /\ NoScan
       \/ part = "scan" /\ ScanInit /\ NoIndex

PartsNext ==
    \/ part = "memory" /\ Next /\ UNCHANGED <<part, shared, scan_vars>>
    \/ part = "index" /\ Index!Next /\ UNCHANGED <<part, vars, scan_vars>>
    \/ part = "scan" /\ ScanNext /\ UNCHANGED <<part, vars, shared>>

\* A client that iterates goes on while hasNext(); the loop of do_sum runs on.
PartsSpec ==
    /\ PartsInit /\ [][PartsNext]_parts
    /\ WF_parts(part = "scan" /\ next /\ UNCHANGED <<part, vars, shared>>)
    /\ WF_parts(part = "scan" /\ SumRun /\ UNCHANGED <<part, vars, shared>>)

-----------------------------------------------------------------------------
\* After every rebuild and update of StaticIndex its slots are distinct and inside its arrays,
\* and its searches give the segments that a scan of the separators would.
IndexSound == part = "index" => Index!IndexSound

=============================================================================
