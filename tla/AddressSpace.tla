---------------------------- MODULE AddressSpace ----------------------------
(***************************************************************************)
(* What the callers of PagingBackend rely on: a partial map from virtual   *)
(* to physical pages.  A call maps a whole range that was unmapped, or     *)
(* unmaps one, and touches no other page; a call that fails changes        *)
(* nothing.                                                                *)
(***************************************************************************)
EXTENDS Naturals

CONSTANTS Pages,        \* virtual pages
          PhysPages,    \* physical pages
          Sizes,        \* sizes of a mapping, in pages
          Unmapped

VARIABLE maps

Range(v, n) == v..(v + n - 1)
Aligned(v, n) == v % n = 0

\* The n pages from v on become n consecutive physical pages.
Map(v, n) ==
    /\ Aligned(v, n)
    /\ \A x \in Range(v, n) : maps[x] = Unmapped
    /\ maps'[v] \in PhysPages
    /\ maps' = [x \in Pages |-> IF x \in Range(v, n) THEN maps'[v] + (x - v) ELSE maps[x]]

Unmap(v, n) ==
    /\ Aligned(v, n)
    /\ maps'[v] = Unmapped
    /\ \A x \in Range(v, n) : maps[x] # Unmapped /\ maps[x] = maps[v] + (x - v)
    /\ maps' = [x \in Pages |-> IF x \in Range(v, n) THEN Unmapped ELSE maps[x]]

Init == maps \in [Pages -> PhysPages \cup {Unmapped}]

Next ==
    /\ maps' # maps
    /\ \E v \in Pages :
        /\ maps'[v] # maps[v]
        /\ \E n \in Sizes : Range(v, n) \subseteq Pages /\ (Map(v, n) \/ Unmap(v, n))

Spec == Init /\ [][Next]_maps
=============================================================================
