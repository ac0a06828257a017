--------------------------- MODULE PageAllocator ---------------------------
(***************************************************************************)
(* What the physical memory manager promises, without lists or bitmaps:    *)
(* a set of free pages.  A request is answered once, for the size it asked *)
(* for: with pages cut from the start of a smallest sufficient maximal     *)
(* aligned run of free pages, or with nothing, and that only when no       *)
(* aligned run of its size is free.  A returned block becomes free whole.  *)
(***************************************************************************)
EXTENDS PageBlocks

CONSTANTS LowRange     \* pages considered below 1 MiB

VARIABLES free,        \* the free pages
          request,     \* the size in pages somebody has asked for, 0 = no request
          result       \* the page the last allocation returned, 0 = none

AbstractInit == free = {} /\ request = 0 /\ result = 0

Ask ==
    /\ request = 0 /\ request' \in Nat \ {0}
    /\ UNCHANGED <<free, result>>

\* Every request is answered for the size it asked for.
Answer(page) ==
    /\ request # 0 /\ request' = 0
    /\ result' = page

Allocate ==
    LET order == pages_to_order(request) IN
    /\ order \in Orders
    /\ \E p \in BestFit(free, order) :
          /\ free' = free \ Block(p, order)
          /\ Answer(p)

Refuse ==
    /\ ~\E b \in AlignedBlocks(free) : b[2] = pages_to_order(request)
    /\ Answer(0)
    /\ UNCHANGED free

AllocateLow ==
    LET low == free \cap LowRange IN
    /\ request = 0
    /\ \/ /\ low = {}
          /\ result' = 0 /\ UNCHANGED free
       \/ \E p \in low :
            /\ \A q \in low : p <= q
            /\ free' = free \ {p}
            /\ result' = p
    /\ UNCHANGED request

Take(p) ==
    /\ request = 0
    /\ p \in free /\ free' = free \ {p}
    /\ UNCHANGED <<request, result>>

Give(p, order) ==
    /\ request = 0
    /\ Aligned(p, order)
    /\ Block(p, order) \subseteq Pages \ (free \cup {0})
    /\ free' = free \cup Block(p, order)
    /\ UNCHANGED <<request, result>>

AbstractNext ==
    \/ Ask
    \/ Allocate
    \/ Refuse
    \/ AllocateLow
    \/ \E p \in Pages : Take(p)
    \/ \E p \in Pages, o \in Orders : Give(p, o)

AbstractSpec == AbstractInit /\ [][AbstractNext]_<<free, request, result>>
=============================================================================
