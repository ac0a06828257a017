----------------------------- MODULE PageBlocks -----------------------------
(***************************************************************************)
(* The arithmetic of power-of-two page blocks that mm/pmm.cpp is built on. *)
(* A block is a pair <<pfn, order>>: 2^order consecutive page frames that  *)
(* start at pfn.  Pow2 is the table of the shifts 1ULL << n the code uses: *)
(* a constant function, so that the proofs can use its defining equation.  *)
(***************************************************************************)
EXTENDS Integers, FiniteSets

CONSTANTS MaxOrder,    \* BUDDY_MAX_ORDER
          NumPages,    \* total_pages: page frames below the highest usable address
          Pow2         \* Pow2[n] = 1ULL << n

ASSUME OrderAssumption == MaxOrder \in Nat

ASSUME PagesAssumption == NumPages \in Nat \ {0}

ASSUME Pow2Assumption ==
    /\ Pow2 \in [0..(MaxOrder + 1) -> Nat \ {0}]
    /\ Pow2[0] = 1
    /\ \A n \in 0..MaxOrder : Pow2[n + 1] = 2 * Pow2[n]

Orders == 0..MaxOrder
Pages  == 0..(NumPages - 1)

\* The page frames of the block of the given order that starts at pfn.
Block(pfn, order) == pfn..(pfn + Pow2[order] - 1)

Extent(b) == Block(b[1], b[2])

\* Natural alignment: (p % block_size) == 0.
Aligned(pfn, order) == pfn % Pow2[order] = 0

\* pfn ^ (1ULL << order), the other half of the pair.
BuddyOf(pfn, order) ==
    IF (pfn \div Pow2[order]) % 2 = 0 THEN pfn + Pow2[order] ELSE pfn - Pow2[order]

\* pfn & ~(1ULL << order), the base of the pair.
PairBase(pfn, order) ==
    IF (pfn \div Pow2[order]) % 2 = 0 THEN pfn ELSE pfn - Pow2[order]

\* pfn >> (order + 1), the index of the pair in the bitmap of that order.
PairIndex(pfn, order) == pfn \div Pow2[order + 1]

\* pages_to_order: the least order whose block holds num pages.  MaxOrder + 1
\* stands for every order that is too large.
pages_to_order(num) ==
    IF num > Pow2[MaxOrder] THEN MaxOrder + 1
    ELSE CHOOSE o \in Orders : num <= Pow2[o] /\ \A q \in 0..(o - 1) : Pow2[q] < num

\* The naturally aligned blocks made of pages of S only.
AlignedBlocks(S) ==
    {b \in S \X Orders : Aligned(b[1], b[2]) /\ Extent(b) \subseteq S}

\* Those among them that cannot be merged any further: the order is the largest,
\* or the pair they belong to is not wholly in S.
MaximalBlocks(S) ==
    {b \in AlignedBlocks(S) :
        \/ b[2] = MaxOrder
        \/ ~(Block(PairBase(b[1], b[2]), b[2] + 1) \subseteq S)}

\* The first pages of the blocks an allocation of this order may be cut from.
BestFit(S, order) ==
    LET fits == {b \in MaximalBlocks(S) : b[2] >= order}
    IN  {b[1] : b \in {c \in fits : \A d \in fits : c[2] <= d[2]}}
=============================================================================
