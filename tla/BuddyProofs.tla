---------------------------- MODULE BuddyProofs ----------------------------
(***************************************************************************)
(* The physical memory manager, for every number of pages, every largest   *)
(* order and every set of usable pages: the inductive invariant of the     *)
(* buddy allocator, the exact counters, the refinement of PageAllocator,   *)
(* and last the boot sequence of module PmmBoot, which refines Buddy.      *)
(***************************************************************************)
EXTENDS PmmBoot, FiniteSetTheorems, SequenceTheorems, TLAPS

-----------------------------------------------------------------------------
(* Aligned power-of-two blocks.  The proofs about the buddy allocator use   *)
(* no other arithmetic.                                                     *)

\* Quotient and remainder by a positive number, as the shifts and masks of the
\* code compute them.
LEMMA DivModFacts ==
    ASSUME NEW d \in Nat \ {0}, NEW a \in Nat
    PROVE  /\ a \div d \in Nat
           /\ a \div d <= a
           /\ a % d = 0 => a = (a \div d) * d
OBVIOUS

\* A multiple of d has its factor as quotient.
LEMMA MultipleFacts ==
    ASSUME NEW d \in Nat \ {0}, NEW k \in Nat
    PROVE  (k * d) \div d = k /\ (k * d) % d = 0
OBVIOUS

\* Shifting by one more is halving the quotient.
LEMMA HalvingFacts ==
    ASSUME NEW d \in Nat \ {0}, NEW k \in Nat
    PROVE  (k * d) \div (2 * d) = k \div 2
OBVIOUS

\* The table of shifts: every entry is positive and the next one is its double.
LEMMA Pow2Facts ==
    ASSUME NEW o \in Orders
    PROVE  /\ Pow2[o] \in Nat \ {0}
           /\ Pow2[o + 1] \in Nat \ {0}
           /\ Pow2[o + 1] = 2 * Pow2[o]
BY Pow2Assumption, OrderAssumption DEF Orders

\* An aligned page number is a multiple of the block size.
LEMMA AlignedMultiple ==
    ASSUME NEW o \in Orders, NEW p \in Nat, Aligned(p, o)
    PROVE  p \div Pow2[o] \in Nat /\ p = (p \div Pow2[o]) * Pow2[o]
BY Pow2Facts, DivModFacts DEF Aligned

\* The page a block starts at is in the block.
LEMMA BlockNonempty ==
    ASSUME NEW o \in Orders, NEW p \in Nat
    PROVE  p \in Block(p, o)
BY Pow2Facts DEF Block

\* The buddy of an aligned block is an aligned block of the same pair, disjoint
\* from it; the pair is the block one order up that starts at PairBase.
LEMMA BuddyFacts ==
    ASSUME NEW o \in Orders, o < MaxOrder, NEW p \in Nat, Aligned(p, o)
    PROVE  /\ BuddyOf(p, o) \in Nat
           /\ BuddyOf(p, o) # p
           /\ Aligned(BuddyOf(p, o), o)
           /\ BuddyOf(BuddyOf(p, o), o) = p
           /\ PairIndex(BuddyOf(p, o), o) = PairIndex(p, o)
           /\ PairBase(p, o) \in {p, BuddyOf(p, o)}
           /\ Aligned(PairBase(p, o), o + 1)
           /\ Block(PairBase(p, o), o + 1) = Block(p, o) \cup Block(BuddyOf(p, o), o)
           /\ Block(p, o) \cap Block(BuddyOf(p, o), o) = {}
<1> DEFINE d == Pow2[o]
           k == p \div d
<1>1. d \in Nat \ {0} /\ Pow2[o + 1] = 2 * d
  BY Pow2Facts
<1>2. k \in Nat /\ p = k * d
  BY AlignedMultiple
<1> HIDE DEF d, k
<1>3. CASE k % 2 = 0
  <2>1. BuddyOf(p, o) = p + d /\ PairBase(p, o) = p
    BY <1>3 DEF BuddyOf, PairBase, d, k
  <2>2. p + d = (k + 1) * d
    BY <1>1, <1>2
  <2>3. (p + d) \div d = k + 1 /\ (p + d) % d = 0
    BY <1>1, <1>2, <2>2, MultipleFacts
  <2>4. (k + 1) % 2 = 1
    BY <1>2, <1>3
  <2>5. BuddyOf(p + d, o) = p
    BY <1>1, <1>2, <2>3, <2>4 DEF BuddyOf, d
  <2>6. PairIndex(p, o) = k \div 2 /\ PairIndex(p + d, o) = (k + 1) \div 2
    BY <1>1, <1>2, <2>2, HalvingFacts DEF PairIndex
  <2>7. (k + 1) \div 2 = k \div 2
    BY <1>2, <1>3
  <2>8. Aligned(p, o + 1)
    <3>1. p = (k \div 2) * (2 * d) /\ k \div 2 \in Nat
      BY <1>1, <1>2, <1>3
    <3>2. 2 * d \in Nat \ {0}
      BY <1>1
    <3>3. QED
      BY <1>1, <3>1, <3>2, MultipleFacts DEF Aligned
  <2>9. Block(p, o + 1) = Block(p, o) \cup Block(p + d, o)
        /\ Block(p, o) \cap Block(p + d, o) = {}
    BY <1>1, <1>2 DEF Block, d
  <2>10. Aligned(p + d, o) /\ p + d \in Nat /\ p + d # p
    BY <1>1, <2>3 DEF Aligned, d
  <2>11. PairIndex(p + d, o) = PairIndex(p, o)
    BY <2>6, <2>7
  <2>12. QED
    BY <2>1, <2>5, <2>8, <2>9, <2>10, <2>11
<1>4. CASE k % 2 = 1
  <2>0. k - 1 \in Nat /\ (k - 1) % 2 = 0 /\ k >= 1
    BY <1>2, <1>4
  <2>1. BuddyOf(p, o) = p - d /\ PairBase(p, o) = p - d
    BY <1>4 DEF BuddyOf, PairBase, d, k
  <2>2. p - d = (k - 1) * d /\ p - d \in Nat
    BY <1>1, <1>2, <2>0
  <2>3. (p - d) \div d = k - 1 /\ (p - d) % d = 0
    BY <1>1, <2>0, <2>2, MultipleFacts
  <2>5. BuddyOf(p - d, o) = p
    BY <1>1, <1>2, <2>3, <2>0 DEF BuddyOf, d
  <2>6. PairIndex(p, o) = k \div 2 /\ PairIndex(p - d, o) = (k - 1) \div 2
    BY <1>1, <1>2, <2>0, <2>2, HalvingFacts DEF PairIndex
  <2>7. (k - 1) \div 2 = k \div 2
    BY <1>2, <1>4
  <2>8. Aligned(p - d, o + 1)
    <3>1. p - d = (k \div 2) * (2 * d) /\ k \div 2 \in Nat
      BY <1>1, <1>2, <1>4
    <3>2. 2 * d \in Nat \ {0}
      BY <1>1
    <3>3. QED
      BY <1>1, <3>1, <3>2, MultipleFacts DEF Aligned
  <2>9. Block(p - d, o + 1) = Block(p, o) \cup Block(p - d, o)
        /\ Block(p, o) \cap Block(p - d, o) = {}
    BY <1>1, <1>2, <2>2 DEF Block, d
  <2>10. Aligned(p - d, o) /\ p - d # p
    BY <1>1, <2>3 DEF Aligned, d
  <2>11. PairIndex(p - d, o) = PairIndex(p, o)
    BY <2>6, <2>7
  <2>12. QED
    BY <2>1, <2>2, <2>5, <2>8, <2>9, <2>10, <2>11
<1>5. QED
  BY <1>2, <1>3, <1>4

\* The first half of an aligned block is aligned, and its buddy is the second half.
LEMMA SplitFacts ==
    ASSUME NEW o \in Orders, o < MaxOrder, NEW p \in Nat, Aligned(p, o + 1)
    PROVE  /\ Aligned(p, o)
           /\ PairBase(p, o) = p
           /\ BuddyOf(p, o) = p + Pow2[o]
<1> DEFINE d == Pow2[o]
           k == p \div (2 * d)
<1>1. d \in Nat \ {0} /\ Pow2[o + 1] = 2 * d /\ 2 * d \in Nat \ {0}
  BY Pow2Facts
<1>2. k \in Nat /\ p = k * (2 * d)
  BY <1>1, DivModFacts DEF Aligned
<1> HIDE DEF d, k
<1>3. p = (2 * k) * d /\ 2 * k \in Nat /\ (2 * k) % 2 = 0
  BY <1>1, <1>2
<1>4. p \div d = 2 * k /\ p % d = 0
  BY <1>1, <1>3, MultipleFacts
<1>5. QED
  BY <1>3, <1>4 DEF Aligned, PairBase, BuddyOf, d

\* Two aligned blocks of one order with the same bit are the same or buddies.
LEMMA PairUnique ==
    ASSUME NEW o \in Orders, o < MaxOrder, NEW p \in Nat, NEW q \in Nat,
           Aligned(p, o), Aligned(q, o), PairIndex(p, o) = PairIndex(q, o)
    PROVE  q = p \/ q = BuddyOf(p, o)
<1> DEFINE d == Pow2[o]
           k == p \div d
           m == q \div d
<1>1. d \in Nat \ {0} /\ Pow2[o + 1] = 2 * d
  BY Pow2Facts
<1>2. k \in Nat /\ p = k * d /\ m \in Nat /\ q = m * d
  BY AlignedMultiple
<1>3. BuddyOf(p, o) = IF k % 2 = 0 THEN p + d ELSE p - d
  BY DEF BuddyOf
<1> HIDE DEF d, k, m
<1>4. k \div 2 = m \div 2
  BY <1>1, <1>2, HalvingFacts DEF PairIndex
<1>5. m = k \/ (k % 2 = 0 /\ m = k + 1) \/ (k % 2 # 0 /\ m = k - 1)
  BY <1>2, <1>4
<1>6. (k + 1) * d = k * d + d /\ (k - 1) * d = k * d - d
  BY <1>1, <1>2
<1>7. QED
  BY <1>1, <1>2, <1>3, <1>5, <1>6

-----------------------------------------------------------------------------
(* Blocks of different orders.                                             *)

\* A set of natural numbers has a least element: the proofs below take the least
\* counterexample.
LEMMA LeastOf ==
    ASSUME NEW S \in SUBSET Nat, S # {}
    PROVE  \E x \in S : \A y \in S : x <= y
<1> DEFINE R == OpToRel(<, Nat)
<1>1. IsWellFoundedOn(R, Nat)
  BY NatLessThanWellFounded
<1>2. \A p \in Nat \X Nat : p[1] < p[2] => p \in R
  BY DEF OpToRel
<1> HIDE DEF R
<1>3. PICK x \in S : \A y \in S : ~(<<y, x>> \in R)
  BY <1>1, WFMin
<1>4. ASSUME NEW y \in S PROVE x <= y
  <2>1. x \in Nat /\ y \in Nat
    OBVIOUS
  <2>2. <<y, x>> \in Nat \X Nat /\ <<y, x>>[1] = y /\ <<y, x>>[2] = x
    BY <2>1
  <2>3. y < x => <<y, x>> \in R
    BY <1>2, <2>2, Zenon
  <2>4. QED
    BY <1>3, <2>1, <2>3
<1>5. QED
  BY <1>4

\* A block of order o has 2^o pages.
LEMMA SizeOfBlock ==
    ASSUME NEW o \in Orders, NEW p \in Nat
    PROVE  IsFiniteSet(Block(p, o)) /\ Cardinality(Block(p, o)) = Pow2[o]
<1>1. Pow2[o] \in Nat \ {0}
  BY Pow2Facts
<1> DEFINE e == p + Pow2[o] - 1
<1>2. p \in Int /\ e \in Int /\ ~(p > e) /\ e - p + 1 = Pow2[o]
  BY <1>1
<1>3. Block(p, o) = p..e
  BY DEF Block
<1> HIDE DEF e
<1>4. IsFiniteSet(p..e) /\ Cardinality(p..e) = IF p > e THEN 0 ELSE e - p + 1
  BY <1>2, FS_Interval
<1>5. QED
  BY <1>2, <1>3, <1>4

\* The size of a block divides the size of every larger one.
LEMMA PowersDivide ==
    ASSUME NEW o \in Orders, NEW k \in Orders, o <= k
    PROVE  \E m \in Nat \ {0} : Pow2[k] = m * Pow2[o]
<1> DEFINE Divides(j) == \E m \in Nat \ {0} : Pow2[j] = m * Pow2[o]
           Bad == {j \in o..k : ~Divides(j)}
<1>1. Orders \subseteq Nat /\ o \in Nat /\ k \in Nat /\ o..k \subseteq Orders
  BY OrderAssumption DEF Orders
<1>2. SUFFICES ASSUME Bad # {} PROVE FALSE
  <2>1. Bad = {} => Divides(k)
    BY <1>1
  <2>2. QED
    BY <1>2, <2>1
<1>3. PICK j \in Bad : \A i \in Bad : j <= i
  <2>1. Bad \in SUBSET Nat
    BY <1>1
  <2>2. QED
    BY <1>2, <2>1, LeastOf
<1>4. j \in o..k /\ ~Divides(j) /\ j \in Nat
  BY <1>1, <1>3
<1>5. Pow2[o] \in Nat \ {0}
  BY Pow2Facts
<1>6. j # o
  <2>1. Pow2[o] = 1 * Pow2[o]
    BY <1>5
  <2>2. QED
    BY <1>4, <2>1
<1>7. j - 1 \in o..k /\ j - 1 \in Orders /\ (j - 1) + 1 = j
  BY <1>1, <1>4, <1>6
<1>8. Divides(j - 1)
  <2>1. ~(j <= j - 1)
    BY <1>4
  <2>2. j - 1 \notin Bad
    BY <1>3, <2>1
  <2>3. QED
    BY <1>7, <2>2
<1>9. PICK m \in Nat \ {0} : Pow2[j - 1] = m * Pow2[o]
  BY <1>8
<1>10. Pow2[j] = (2 * m) * Pow2[o]
  <2>1. Pow2[j] = 2 * Pow2[j - 1]
    BY <1>7, Pow2Facts
  <2>2. QED
    BY <1>5, <1>9, <2>1
<1>11. QED
  BY <1>4, <1>9, <1>10

\* Multiples of d and of a multiple of d bound intervals that nest or are apart.
LEMMA MultiplesNest ==
    ASSUME NEW d \in Nat \ {0}, NEW m \in Nat \ {0}, NEW a \in Nat, NEW b \in Nat,
           NEW x \in (a * d)..(a * d + d - 1),
           x \in (b * m * d)..(b * m * d + m * d - 1)
    PROVE  (a * d)..(a * d + d - 1) \subseteq (b * m * d)..(b * m * d + m * d - 1)
<1> DEFINE c == b * m
<1>1. c \in Nat /\ b * m * d = c * d
  OBVIOUS
<1> HIDE DEF c
<1>2. a * d < c * d + m * d /\ c * d < a * d + d /\ x \in Nat
  BY <1>1
<1>3. c * d + m * d = (c + m) * d /\ a * d + d = (a + 1) * d
  BY <1>1
<1>4. a < c + m
  <2>1. c + m <= a => (c + m) * d <= a * d
    BY <1>1
  <2>2. QED
    BY <1>1, <1>2, <1>3, <2>1
<1>5. c < a + 1
  <2>1. a + 1 <= c => (a + 1) * d <= c * d
    BY <1>1
  <2>2. QED
    BY <1>1, <1>2, <1>3, <2>1
<1>6. c * d <= a * d /\ (a + 1) * d <= (c + m) * d
  BY <1>1, <1>4, <1>5
<1>7. QED
  BY <1>1, <1>3, <1>6

\* An aligned block that has a page in common with a larger aligned block lies in it.
LEMMA BlocksNest ==
    ASSUME NEW o \in Orders, NEW k \in Orders, o <= k, NEW p \in Nat, NEW q \in Nat,
           Aligned(p, o), Aligned(q, k), NEW x \in Block(p, o), x \in Block(q, k)
    PROVE  Block(p, o) \subseteq Block(q, k)
<1>1. PICK m \in Nat \ {0} : Pow2[k] = m * Pow2[o]
  BY PowersDivide
<1> DEFINE d == Pow2[o]
           a == p \div d
           b == q \div Pow2[k]
<1>2. d \in Nat \ {0} /\ Pow2[k] \in Nat \ {0}
  BY Pow2Facts
<1>3. a \in Nat /\ p = a * d
  BY AlignedMultiple
<1>4. b \in Nat /\ q = b * Pow2[k]
  BY AlignedMultiple
<1>5. Block(p, o) = (a * d)..(a * d + d - 1)
  BY <1>3 DEF Block
<1>6. Block(q, k) = (b * m * d)..(b * m * d + m * d - 1)
  <2>1. q = b * m * d
    BY <1>1, <1>2, <1>4
  <2>2. QED
    BY <1>1, <2>1 DEF Block
<1> HIDE DEF a, b, d
<1>7. QED
  BY <1>2, <1>3, <1>4, <1>5, <1>6, MultiplesNest

\* Blocks of one order with a page in common are the same.
LEMMA SameOrderSame ==
    ASSUME NEW o \in Orders, NEW p \in Nat, NEW q \in Nat,
           Block(p, o) \subseteq Block(q, o)
    PROVE  p = q
<1>1. Pow2[o] \in Nat \ {0}
  BY Pow2Facts
<1>2. p \in Block(p, o) /\ p + Pow2[o] - 1 \in Block(p, o)
  BY <1>1 DEF Block
<1>3. p \in Block(q, o) /\ p + Pow2[o] - 1 \in Block(q, o)
  BY <1>2
<1>4. QED
  BY <1>1, <1>3 DEF Block

\* pages_to_order answers an order whose block holds the pages, or MaxOrder + 1.
LEMMA OrderOfRequest ==
    ASSUME NEW num \in Nat
    PROVE  /\ pages_to_order(num) \in 0..(MaxOrder + 1)
           /\ pages_to_order(num) \in Orders => num <= Pow2[pages_to_order(num)]
<1> DEFINE fits == {o \in Orders : num <= Pow2[o]}
<1>1. CASE num > Pow2[MaxOrder]
  <2>1. pages_to_order(num) = MaxOrder + 1
    BY <1>1 DEF pages_to_order
  <2>2. QED
    BY <2>1, OrderAssumption DEF Orders
<1>2. CASE ~(num > Pow2[MaxOrder])
  <2>1. MaxOrder \in Orders /\ Orders \subseteq Nat
    BY OrderAssumption DEF Orders
  <2>2. \A o \in Orders : Pow2[o] \in Nat
    BY Pow2Facts
  <2>3. MaxOrder \in fits
    BY <1>2, <2>1, <2>2
  <2>4. PICK o \in fits : \A q \in fits : o <= q
    BY <2>1, <2>3, LeastOf
  <2>5. \A q \in 0..(o - 1) : q \in Orders /\ ~(o <= q)
    BY <2>1, OrderAssumption DEF Orders
  <2>6. num <= Pow2[o] /\ \A q \in 0..(o - 1) : Pow2[q] < num
    BY <2>2, <2>4, <2>5
  <2> DEFINE Least(r) == num <= Pow2[r] /\ \A q \in 0..(r - 1) : Pow2[q] < num
             answer == CHOOSE r \in Orders : Least(r)
  <2>7. answer \in Orders /\ num <= Pow2[answer]
    BY <2>6, Zenon
  <2>8. pages_to_order(num) = answer
    BY <1>2 DEF pages_to_order
  <2>9. QED
    BY <2>7, <2>8, OrderAssumption DEF Orders
<1>3. QED
  BY <1>1, <1>2

-----------------------------------------------------------------------------
(* The invariant of the buddy allocator.                                    *)

ListsOK == free_lists \in [Orders -> SUBSET Pages] /\ buddy_map \subseteq Orders \X Pages

\* The part of the invariant that the lists, the bitmap and the blocks make up.
Structure ==
    /\ ListsOK
    /\ BlocksAligned
    /\ PagesDisjoint
    /\ BitMatchesLists
    /\ NeverBothListed

IInv == TypeOK /\ Structure /\ CallsConsistent

-----------------------------------------------------------------------------
(* Pages and orders are natural numbers.                                   *)

LEMMA PageFacts ==
    /\ Pages \subseteq Nat /\ Orders \subseteq Nat /\ 0 \in Orders /\ MaxOrder \in Orders
    /\ 0 \in Pages
    /\ \A o \in Orders : o < MaxOrder => o + 1 \in Orders
    /\ \A o \in Orders : o > 0 => o - 1 \in Orders /\ o - 1 < MaxOrder
    /\ \A o \in Orders : o # MaxOrder => o < MaxOrder
    /\ \A o \in Orders : ~(o < MaxOrder) => o = MaxOrder
BY OrderAssumption, PagesAssumption DEF Pages, Orders

\* The index of a pair of pages is at most the page number.
LEMMA PairIndexType ==
    ASSUME NEW p \in Pages, NEW o \in Orders
    PROVE  PairIndex(p, o) \in Pages
<1>1. PairIndex(p, o) \in Nat /\ PairIndex(p, o) <= p
  BY Pow2Facts, PageFacts, DivModFacts DEF PairIndex
<1>2. QED
  BY <1>1, PagesAssumption DEF Pages

\* Toggling keeps the bitmap a set of <<order, pair>>.
LEMMA ToggleType ==
    ASSUME ListsOK, NEW p \in Pages, NEW o \in Orders
    PROVE  toggle_buddy_bit(p, o) \subseteq Orders \X Pages
BY PairIndexType DEF ListsOK, toggle_buddy_bit

-----------------------------------------------------------------------------
(* What list_add and list_remove do to the set of listed blocks.           *)

LEMMA ListAddBlocks ==
    ASSUME ListsOK, NEW p \in Pages, NEW o \in Orders, free_lists' = list_add(p, o)
    PROVE  /\ free_lists' \in [Orders -> SUBSET Pages]
           /\ FreeBlocks' = FreeBlocks \cup {<<p, o>>}
BY DEF ListsOK, list_add, FreeBlocks

LEMMA ListRemoveBlocks ==
    ASSUME ListsOK, NEW p \in Pages, NEW o \in Orders, free_lists' = list_remove(p, o)
    PROVE  /\ free_lists' \in [Orders -> SUBSET Pages]
           /\ FreeBlocks' = FreeBlocks \ {<<p, o>>}
BY DEF ListsOK, list_remove, FreeBlocks

LEMMA ListedBlock ==
    ASSUME ListsOK, NEW o \in Orders, NEW p \in free_lists[o]
    PROVE  p \in Pages /\ <<p, o>> \in FreeBlocks /\ <<p, o>> \in AllBlocks
BY DEF ListsOK, FreeBlocks, AllBlocks

-----------------------------------------------------------------------------
(* The bitmap.  Changes at the largest order do not touch the invariants   *)
(* about it, and below it adding or removing one block of a pair goes with *)
(* one toggle of the pair's bit.                                           *)

LEMMA BitsMaxOrder ==
    ASSUME ListsOK, BitMatchesLists, NeverBothListed,
           \A q \in Orders : q # MaxOrder => free_lists'[q] = free_lists[q],
           \A q \in Orders, k \in Pages :
               q # MaxOrder => (<<q, k>> \in buddy_map' <=> <<q, k>> \in buddy_map)
    PROVE  BitMatchesLists' /\ NeverBothListed'
<1>1. \A q \in 0..(MaxOrder - 1) : q \in Orders /\ q # MaxOrder
  BY OrderAssumption DEF Orders
<1>2. ASSUME NEW q \in 0..(MaxOrder - 1), NEW p \in Pages
      PROVE  bit_is_one(p, q)' <=> bit_is_one(p, q)
  BY <1>1, PairIndexType DEF bit_is_one
<1>3. BitMatchesLists'
  BY <1>1, <1>2 DEF BitMatchesLists
<1>4. NeverBothListed'
  BY <1>1 DEF NeverBothListed
<1>5. QED
  BY <1>3, <1>4

\* One bit changes, whichever page of the pair names it.
LEMMA ToggleEffect ==
    ASSUME NEW p \in Pages, NEW o \in Orders, NEW q \in Orders, NEW x \in Pages,
           buddy_map' = toggle_buddy_bit(p, o)
    PROVE  bit_is_one(x, q)' <=>
             IF q = o /\ PairIndex(x, q) = PairIndex(p, o)
             THEN ~bit_is_one(x, q) ELSE bit_is_one(x, q)
BY DEF toggle_buddy_bit, bit_is_one

\* A change of one block of one pair below the largest order, with one toggle.
LEMMA BitsPairChange ==
    ASSUME ListsOK, BitMatchesLists, NeverBothListed,
           NEW x \in Pages, NEW o \in Orders, o < MaxOrder, Aligned(x, o),
           NEW y \in Pages, PairIndex(y, o) = PairIndex(x, o),
           buddy_map' = toggle_buddy_bit(y, o),
           \/ /\ x \notin free_lists[o] /\ BuddyOf(x, o) \notin free_lists[o]
              /\ free_lists' = list_add(x, o)
           \/ x \in free_lists[o] /\ free_lists' = list_remove(x, o),
           \A q \in Orders : \A p \in free_lists[q] : Aligned(p, q)
    PROVE  BitMatchesLists' /\ NeverBothListed'
<1>1. \A q \in 0..(MaxOrder - 1) : q \in Orders /\ q < MaxOrder
  BY OrderAssumption DEF Orders
<1>2. x \in Nat
  BY PageFacts
<1>3. ASSUME NEW q \in Orders, q < MaxOrder, NEW p \in Pages, Aligned(p, q)
      PROVE  /\ bit_is_one(p, q)' <=> (p \in free_lists'[q]) # (BuddyOf(p, q) \in free_lists'[q])
             /\ ~(p \in free_lists'[q] /\ BuddyOf(p, q) \in free_lists'[q])
  <2>1. /\ bit_is_one(p, q) <=> (p \in free_lists[q]) # (BuddyOf(p, q) \in free_lists[q])
        /\ ~(p \in free_lists[q] /\ BuddyOf(p, q) \in free_lists[q])
    BY <1>3, OrderAssumption DEF BitMatchesLists, NeverBothListed, Orders
  <2>2. p \in Nat
    BY PageFacts
  <2>3. CASE q = o /\ PairIndex(p, q) = PairIndex(x, o)
    <3>1. bit_is_one(p, q)' <=> ~bit_is_one(p, q)
      BY <2>3, ToggleEffect
    <3>2. p = x \/ (p = BuddyOf(x, o) /\ BuddyOf(p, o) = x)
      BY <1>2, <1>3, <2>2, <2>3, PairUnique, BuddyFacts
    <3>3. BuddyOf(x, o) # x
      BY <1>2, BuddyFacts
    <3>4. \/ free_lists'[o] = free_lists[o] \cup {x}
          \/ free_lists'[o] = free_lists[o] \ {x}
      BY DEF ListsOK, list_add, list_remove
    <3>5. CASE x \notin free_lists[o]
      <4>1. free_lists'[o] = free_lists[o] \cup {x}
        BY <3>5 DEF ListsOK, list_add
      <4>2. BuddyOf(x, o) \notin free_lists[o]
        BY <3>5
      <4>3. QED
        BY <2>1, <2>3, <3>1, <3>2, <3>3, <3>5, <4>1, <4>2
    <3>6. CASE x \in free_lists[o]
      <4>1. free_lists'[o] = free_lists[o] \ {x}
        BY <3>6 DEF ListsOK, list_remove
      <4>2. QED
        BY <2>1, <2>3, <3>1, <3>2, <3>3, <3>6, <4>1
    <3>7. QED
      BY <3>5, <3>6
  <2>4. CASE ~(q = o /\ PairIndex(p, q) = PairIndex(x, o))
    <3>1. bit_is_one(p, q)' <=> bit_is_one(p, q)
      BY <2>4, ToggleEffect
    <3>2. q = o => p # x /\ BuddyOf(p, q) # x
      BY <1>3, <2>2, <2>4, BuddyFacts
    <3>3. free_lists'[q] = free_lists[q] \/ (q = o /\
             (free_lists'[q] = free_lists[q] \cup {x} \/ free_lists'[q] = free_lists[q] \ {x}))
      BY DEF ListsOK, list_add, list_remove
    <3>4. QED
      BY <2>1, <3>1, <3>2, <3>3
  <2>5. QED
    BY <2>3, <2>4
<1>4. \A q \in Orders : \A p \in free_lists'[q] : Aligned(p, q) /\ p \in Pages
  BY DEF ListsOK, list_add, list_remove
<1>5. BitMatchesLists'
  BY <1>1, <1>3 DEF BitMatchesLists
<1>6. NeverBothListed'
  BY <1>1, <1>3, <1>4 DEF NeverBothListed
<1>7. QED
  BY <1>5, <1>6

-----------------------------------------------------------------------------
(* Blocks move between the lists, the callers and the running call.        *)

Separate(S) == \A b, c \in S : b # c => Extent(b) \cap Extent(c) = {}

\* Two blocks at the same place would share their first page.
LEMMA ExtentNonempty ==
    ASSUME NEW b \in Pages \X Orders
    PROVE  b[1] \in Extent(b) /\ Extent(b) # {}
BY BlockNonempty, PageFacts DEF Extent

\* A block that is not in a separate family, inside a member of it, may replace it.
LEMMA SeparateReplace ==
    ASSUME NEW S, S \subseteq Pages \X Orders, Separate(S), NEW x \in S,
           NEW y \in Pages \X Orders, NEW z \in Pages \X Orders,
           Extent(y) \cup Extent(z) = Extent(x), Extent(y) \cap Extent(z) = {}
    PROVE  /\ y \notin S \ {x} /\ z \notin S \ {x} /\ y # z
           /\ Separate((S \ {x}) \cup {y, z})
<1>1. \A c \in S \ {x} : Extent(c) \cap Extent(y) = {} /\ Extent(c) \cap Extent(z) = {}
  BY DEF Separate
<1>2. Extent(y) # {} /\ Extent(z) # {}
  BY ExtentNonempty
<1>3. QED
  BY <1>1, <1>2 DEF Separate

LEMMA SeparateMerge ==
    ASSUME NEW S, S \subseteq Pages \X Orders, Separate(S), NEW y \in S, NEW z \in S, y # z,
           NEW x \in Pages \X Orders, Extent(y) \cup Extent(z) = Extent(x)
    PROVE  /\ x \notin S \ {y, z}
           /\ Separate((S \ {y, z}) \cup {x})
<1>1. \A c \in S \ {y, z} : Extent(c) \cap Extent(x) = {}
  BY DEF Separate
<1>2. Extent(x) # {}
  BY ExtentNonempty
<1>3. QED
  BY <1>1, <1>2 DEF Separate

LEMMA SeparateAdd ==
    ASSUME NEW S, S \subseteq Pages \X Orders, Separate(S), NEW x \in Pages \X Orders,
           \A b \in S : Extent(b) \cap Extent(x) = {}
    PROVE  x \notin S /\ Separate(S \cup {x})
BY ExtentNonempty DEF Separate

\* All blocks are pairs of a page and an order.
LEMMA AllBlocksType ==
    ASSUME TypeOK
    PROVE  AllBlocks \subseteq Pages \X Orders
BY DEF TypeOK, AllBlocks, FreeBlocks, JobBlocks

\* Every listed block is aligned, below the largest order or not.
LEMMA ListedAligned ==
    ASSUME ListsOK, BlocksAligned
    PROVE  \A q \in Orders : \A p \in free_lists[q] : Aligned(p, q)
BY ListedBlock DEF BlocksAligned

\* Moving a block between lists, callers and call leaves the geometry as it is.
LEMMA BlocksMove ==
    ASSUME BlocksAligned, PagesDisjoint, AllBlocks' = AllBlocks, boot' = boot,
           (FreeBlocks \cap owned = {})',
           ((FreeBlocks \cup owned) \cap JobBlocks = {})'
    PROVE  BlocksAligned' /\ PagesDisjoint'
BY DEF BlocksAligned, PagesDisjoint

-----------------------------------------------------------------------------
(* The steps on lists and bitmap preserve Structure.                       *)

\* alloc_pages and allocate_specific_page take a block off its list.
LEMMA TakeStep ==
    ASSUME IInv, job = NoJob, NEW k \in Orders, NEW p \in free_lists[k],
           free_lists' = list_remove(p, k), buddy_map' = toggle_buddy_bit(p, k),
           job'.op # "idle", job'.pfn = p, job'.ord = k,
           owned' = owned, boot' = boot
    PROVE  Structure'
<1>1. ListsOK /\ TypeOK /\ BlocksAligned /\ PagesDisjoint /\ BitMatchesLists /\ NeverBothListed
  BY DEF IInv, Structure
<1>2. p \in Pages /\ <<p, k>> \in FreeBlocks /\ <<p, k>> \in AllBlocks
  BY <1>1, ListedBlock
<1>3. FreeBlocks' = FreeBlocks \ {<<p, k>>} /\ ListsOK'
  BY <1>1, <1>2, ListRemoveBlocks, ToggleType DEF ListsOK
<1>4. JobBlocks = {} /\ JobBlocks' = {<<p, k>>}
  BY DEF JobBlocks, NoJob
<1>5. BlocksAligned' /\ PagesDisjoint'
  <2>1. AllBlocks' = AllBlocks
    BY <1>2, <1>3, <1>4 DEF AllBlocks
  <2>2. (FreeBlocks \cap owned = {})' /\ ((FreeBlocks \cup owned) \cap JobBlocks = {})'
    BY <1>1, <1>2, <1>3, <1>4 DEF PagesDisjoint
  <2>3. QED
    BY <1>1, <2>1, <2>2, BlocksMove
<1>6. Aligned(p, k)
  BY <1>1, <1>2 DEF BlocksAligned
<1>7. BitMatchesLists' /\ NeverBothListed'
  <2>1. CASE k < MaxOrder
    BY <1>1, <1>2, <1>6, <2>1, BitsPairChange, ListedAligned
  <2>2. CASE k = MaxOrder
    <3>1. \A q \in Orders : q # MaxOrder => free_lists'[q] = free_lists[q]
      BY <1>1, <2>2 DEF list_remove, ListsOK
    <3>2. \A q \in Orders, i \in Pages :
             q # MaxOrder => (<<q, i>> \in buddy_map' <=> <<q, i>> \in buddy_map)
      BY <2>2 DEF toggle_buddy_bit
    <3>3. QED
      BY <1>1, <3>1, <3>2, BitsMaxOrder
  <2>3. QED
    BY <2>1, <2>2, PageFacts
<1>8. QED
  BY <1>3, <1>5, <1>7 DEF Structure

\* A split lists one half of the call's block and keeps the other.
LEMMA SplitStep ==
    ASSUME IInv, job.op # "idle", job.ord > 0, NEW o, o = job.ord - 1,
           NEW kept, NEW given,
           \/ kept = job.pfn /\ given = BuddyOf(job.pfn, o)
           \/ kept = BuddyOf(job.pfn, o) /\ given = job.pfn,
           free_lists' = list_add(given, o), buddy_map' = toggle_buddy_bit(kept, o),
           job'.op # "idle", job'.pfn = kept, job'.ord = o,
           owned' = owned, boot' = boot
    PROVE  /\ Structure'
           /\ kept \in Pages /\ o \in Orders
           /\ Block(job.pfn, job.ord) = Block(kept, o) \cup Block(given, o)
<1>1. ListsOK /\ TypeOK /\ BlocksAligned /\ PagesDisjoint /\ BitMatchesLists /\ NeverBothListed
  BY DEF IInv, Structure
<1> DEFINE p == job.pfn
           big == <<p, job.ord>>
<1>2. /\ o \in Orders /\ o < MaxOrder /\ job.ord = o + 1 /\ job.ord \in Orders
      /\ p \in Pages /\ p \in Nat /\ o \in Nat
  <2>1. job.ord \in Orders /\ job.pfn \in Pages /\ job.ord \in Nat
    BY <1>1, PageFacts DEF TypeOK
  <2>2. job.ord - 1 \in Orders /\ job.ord - 1 < MaxOrder
    BY <2>1, PageFacts
  <2>3. o \in Nat /\ job.ord = o + 1
    BY <2>1
  <2>4. p \in Nat
    BY <2>1, PageFacts
  <2>5. QED
    BY <2>1, <2>2, <2>3, <2>4
<1>3. JobBlocks = {big} /\ JobBlocks' = {<<kept, o>>} /\ big \in AllBlocks
  BY <1>1 DEF JobBlocks, AllBlocks
<1>4. Aligned(p, o + 1) /\ Extent(big) \subseteq Pages \ {0}
  BY <1>2, <1>3, <1>1 DEF BlocksAligned
<1>5. /\ Aligned(p, o) /\ PairBase(p, o) = p
  BY <1>2, <1>4, SplitFacts
<1>6. /\ BuddyOf(p, o) \in Nat /\ BuddyOf(p, o) # p /\ Aligned(BuddyOf(p, o), o)
      /\ BuddyOf(BuddyOf(p, o), o) = p
      /\ PairIndex(BuddyOf(p, o), o) = PairIndex(p, o)
      /\ Block(p, o + 1) = Block(p, o) \cup Block(BuddyOf(p, o), o)
      /\ Block(p, o) \cap Block(BuddyOf(p, o), o) = {}
  BY <1>2, <1>5, BuddyFacts
<1>7. Block(p, job.ord) = Block(kept, o) \cup Block(given, o)
      /\ Block(kept, o) \cap Block(given, o) = {}
  BY <1>2, <1>6
<1>8. /\ kept \in Nat /\ given \in Nat
      /\ Aligned(kept, o) /\ Aligned(given, o)
      /\ given = BuddyOf(kept, o) /\ kept = BuddyOf(given, o) /\ given # kept
      /\ PairIndex(kept, o) = PairIndex(given, o)
  BY <1>2, <1>5, <1>6
<1>9. kept \in Pages /\ given \in Pages
  <2>1. kept \in Block(kept, o) /\ given \in Block(given, o)
    BY <1>2, <1>8, BlockNonempty
  <2>2. QED
    BY <1>4, <1>7, <2>1 DEF Extent
<1> DEFINE y == <<kept, o>>
           z == <<given, o>>
<1>10. /\ y \in Pages \X Orders /\ z \in Pages \X Orders
       /\ Extent(y) \cup Extent(z) = Extent(big) /\ Extent(y) \cap Extent(z) = {}
  BY <1>2, <1>7, <1>9 DEF Extent
<1>11. /\ AllBlocks \subseteq Pages \X Orders
       /\ y \notin AllBlocks \ {big} /\ z \notin AllBlocks \ {big} /\ y # z
       /\ Separate((AllBlocks \ {big}) \cup {y, z})
  <2>1. Separate(AllBlocks) /\ AllBlocks \subseteq Pages \X Orders
    BY <1>1, AllBlocksType DEF PagesDisjoint, Separate
  <2>2. /\ big \in AllBlocks
        /\ y \in Pages \X Orders /\ z \in Pages \X Orders
        /\ Extent(y) \cup Extent(z) = Extent(big) /\ Extent(y) \cap Extent(z) = {}
    BY <1>3, <1>10
  <2> HIDE DEF y, z, big
  <2>3. /\ y \notin AllBlocks \ {big} /\ z \notin AllBlocks \ {big} /\ y # z
        /\ Separate((AllBlocks \ {big}) \cup {y, z})
    BY <2>1, <2>2, SeparateReplace
  <2>4. QED
    BY <2>1, <2>3
<1>12. FreeBlocks' = FreeBlocks \cup {z} /\ ListsOK'
  BY <1>1, <1>2, <1>9, ListAddBlocks, ToggleType DEF ListsOK
<1>13. big \notin FreeBlocks /\ big \notin owned /\ FreeBlocks \cap owned = {}
  BY <1>1, <1>3 DEF PagesDisjoint
<1>14. AllBlocks' = (AllBlocks \ {big}) \cup {y, z}
  BY <1>3, <1>12, <1>13 DEF AllBlocks
<1>15. y # big /\ z # big
  BY <1>2
<1>16. PagesDisjoint'
  <2>1. (FreeBlocks \cap owned = {})' /\ ((FreeBlocks \cup owned) \cap JobBlocks = {})'
    BY <1>3, <1>11, <1>12, <1>13, <1>15 DEF AllBlocks
  <2>2. \A b \in AllBlocks' : Extent(b) \cap boot' = {}
    <3>1. Extent(big) \cap boot = {} /\ \A b \in AllBlocks : Extent(b) \cap boot = {}
      BY <1>1, <1>3 DEF PagesDisjoint
    <3>2. QED
      BY <1>10, <1>14, <3>1
  <2>3. QED
    BY <1>11, <1>14, <2>1, <2>2 DEF PagesDisjoint, Separate
<1>17. BlocksAligned'
  <2>1. \A b \in AllBlocks \ {big} : Aligned(b[1], b[2]) /\ Extent(b) \subseteq Pages \ {0}
    BY <1>1 DEF BlocksAligned
  <2>2. \A b \in {y, z} : Aligned(b[1], b[2]) /\ Extent(b) \subseteq Pages \ {0}
    BY <1>4, <1>8, <1>10
  <2>3. QED
    BY <1>14, <2>1, <2>2 DEF BlocksAligned
<1>18. BitMatchesLists' /\ NeverBothListed'
  <2>1. kept \notin free_lists[o] /\ given \notin free_lists[o]
    BY <1>1, <1>2, <1>11, <1>15, ListedBlock
  <2>2. QED
    BY <1>1, <1>2, <1>8, <1>9, <2>1, BitsPairChange, ListedAligned
<1>19. QED
  BY <1>2, <1>7, <1>9, <1>12, <1>16, <1>17, <1>18 DEF Structure

\* A merge takes the buddy off its list: the bit says it is there.
LEMMA MergeStep ==
    ASSUME IInv, free_pages_merge
    PROVE  /\ Structure'
           /\ job.ord + 1 \in Orders /\ PairBase(job.pfn, job.ord) \in Pages
<1>1. ListsOK /\ TypeOK /\ BlocksAligned /\ PagesDisjoint /\ BitMatchesLists /\ NeverBothListed
  BY DEF IInv, Structure
<1> DEFINE p == job.pfn
           o == job.ord
           q == BuddyOf(p, o)
           base == PairBase(p, o)
           x == <<p, o>>
           y == <<q, o>>
           z == <<base, o + 1>>
<1>2. /\ job.op = "free" /\ o \in Orders /\ o < MaxOrder /\ o \in Nat /\ p \in Pages /\ p \in Nat
      /\ o + 1 \in Orders /\ o + 1 # o
  <2>1. job.op = "free" /\ o \in Orders /\ o < MaxOrder /\ p \in Pages
    BY <1>1 DEF free_pages_merge, TypeOK
  <2>2. o \in Nat /\ p \in Nat /\ o + 1 \in Orders
    BY <2>1, PageFacts
  <2>3. QED
    BY <2>1, <2>2
<1>3. JobBlocks = {x} /\ x \in AllBlocks /\ JobBlocks' = {z}
  <2>1. job' = [job EXCEPT !.pfn = base, !.ord = o + 1]
    BY DEF free_pages_merge
  <2>2. job'.op = "free" /\ job'.pfn = base /\ job'.ord = o + 1
    BY <1>1, <1>2, <2>1 DEF TypeOK
  <2>3. QED
    BY <1>2, <2>2 DEF JobBlocks, AllBlocks
<1>4. Aligned(p, o) /\ Extent(x) \subseteq Pages \ {0}
  BY <1>1, <1>3 DEF BlocksAligned
<1>5. /\ q \in Nat /\ q # p /\ Aligned(q, o) /\ BuddyOf(q, o) = p
      /\ PairIndex(q, o) = PairIndex(p, o)
      /\ base \in {p, q} /\ Aligned(base, o + 1)
      /\ Block(base, o + 1) = Block(p, o) \cup Block(q, o)
  BY <1>2, <1>4, BuddyFacts
<1>6. p \notin free_lists[o]
  <2>1. x \notin FreeBlocks
    BY <1>1, <1>3 DEF PagesDisjoint
  <2>2. QED
    BY <1>1, <1>2, <2>1, ListedBlock
<1>7. q \in free_lists[o]
  <2>1. o \in 0..(MaxOrder - 1)
    BY <1>2, OrderAssumption
  <2>2. bit_is_one(p, o)
    BY DEF free_pages_merge
  <2>3. QED
    BY <1>1, <1>2, <1>4, <1>6, <2>1, <2>2 DEF BitMatchesLists
<1>8. q \in Pages /\ y \in FreeBlocks /\ y \in AllBlocks
  BY <1>1, <1>2, <1>7, ListedBlock
<1>9. base \in Pages /\ z \in Pages \X Orders
  BY <1>2, <1>5, <1>8
<1>10. FreeBlocks' = FreeBlocks \ {y} /\ ListsOK'
  BY <1>1, <1>2, <1>8, ListRemoveBlocks, ToggleType DEF free_pages_merge, ListsOK
<1>11. Extent(x) \cup Extent(y) = Extent(z)
  BY <1>5 DEF Extent
<1>12. x # y /\ z # x /\ z # y
  BY <1>2, <1>5
<1>13. z \notin AllBlocks \ {x, y} /\ Separate((AllBlocks \ {x, y}) \cup {z})
  <2>1. Separate(AllBlocks) /\ AllBlocks \subseteq Pages \X Orders
    BY <1>1, AllBlocksType DEF PagesDisjoint, Separate
  <2> HIDE DEF x, y, z
  <2>2. QED
    BY <1>3, <1>8, <1>9, <1>11, <1>12, <2>1, SeparateMerge
<1>14. owned' = owned /\ boot' = boot
  BY DEF free_pages_merge
<1>15. /\ FreeBlocks \cap owned = {} /\ x \notin FreeBlocks /\ x \notin owned
       /\ \A b \in AllBlocks : Extent(b) \cap boot = {}
  BY <1>1, <1>3 DEF PagesDisjoint
<1>16. AllBlocks' = (AllBlocks \ {x, y}) \cup {z}
  BY <1>3, <1>8, <1>10, <1>14, <1>15 DEF AllBlocks
<1>17. PagesDisjoint'
  <2>1. (FreeBlocks \cap owned = {})' /\ ((FreeBlocks \cup owned) \cap JobBlocks = {})'
    <3>1. z \notin AllBlocks
      BY <1>12, <1>13
    <3>2. QED
      BY <1>3, <1>10, <1>14, <1>15, <3>1 DEF AllBlocks
  <2>2. \A b \in AllBlocks' : Extent(b) \cap boot' = {}
    <3>1. Extent(x) \cap boot = {} /\ Extent(y) \cap boot = {}
      BY <1>3, <1>8, <1>15
    <3>2. QED
      BY <1>11, <1>14, <1>15, <1>16, <3>1
  <2>3. QED
    BY <1>13, <1>16, <2>1, <2>2 DEF PagesDisjoint, Separate
<1>18. BlocksAligned'
  <2>1. \A b \in AllBlocks : Aligned(b[1], b[2]) /\ Extent(b) \subseteq Pages \ {0}
    BY <1>1 DEF BlocksAligned
  <2>2. Aligned(z[1], z[2]) /\ Extent(z) \subseteq Pages \ {0}
    BY <1>3, <1>5, <1>8, <1>11, <2>1
  <2>3. QED
    BY <1>16, <2>1, <2>2 DEF BlocksAligned
<1>19. BitMatchesLists' /\ NeverBothListed'
  <2>1. free_lists' = list_remove(q, o) /\ buddy_map' = toggle_buddy_bit(p, o)
    BY DEF free_pages_merge
  <2>2. QED
    BY <1>1, <1>2, <1>5, <1>7, <1>8, <2>1, BitsPairChange, ListedAligned
<1>20. QED
  BY <1>2, <1>9, <1>10, <1>17, <1>18, <1>19 DEF Structure

\* The freed block is listed where no merge is possible.
LEMMA InsertStep ==
    ASSUME IInv, free_pages_insert
    PROVE  Structure'
<1>1. ListsOK /\ TypeOK /\ BlocksAligned /\ PagesDisjoint /\ BitMatchesLists /\ NeverBothListed
  BY DEF IInv, Structure
<1> DEFINE p == job.pfn
           o == job.ord
           x == <<p, o>>
<1>2. job.op = "free" /\ o \in Orders /\ p \in Pages /\ p \in Nat
  BY <1>1, PageFacts DEF free_pages_insert, TypeOK
<1>3. JobBlocks = {x} /\ x \in AllBlocks /\ JobBlocks' = {}
  BY <1>2 DEF JobBlocks, AllBlocks, free_pages_insert, NoJob
<1>4. Aligned(p, o)
  BY <1>1, <1>3 DEF BlocksAligned
<1>5. free_lists' = list_add(p, o) /\ owned' = owned /\ boot' = boot
      /\ (buddy_map' = toggle_buddy_bit(p, o) \/ buddy_map' = buddy_map)
  BY DEF free_pages_insert
<1>6. FreeBlocks' = FreeBlocks \cup {x} /\ ListsOK'
  BY <1>1, <1>2, <1>5, ListAddBlocks, ToggleType DEF ListsOK
<1>7. BlocksAligned' /\ PagesDisjoint'
  <2>1. x \notin FreeBlocks /\ x \notin owned /\ FreeBlocks \cap owned = {}
    BY <1>1, <1>3 DEF PagesDisjoint
  <2>2. AllBlocks' = AllBlocks
    BY <1>3, <1>5, <1>6 DEF AllBlocks
  <2>3. QED
    BY <1>1, <1>3, <1>5, <1>6, <2>1, <2>2, BlocksMove
<1>8. BitMatchesLists' /\ NeverBothListed'
  <2>1. CASE o < MaxOrder
    <3>1. p \notin free_lists[o]
      <4>1. x \notin FreeBlocks
        BY <1>1, <1>3 DEF PagesDisjoint
      <4>2. QED
        BY <1>1, <1>2, <4>1, ListedBlock
    <3>2. ~bit_is_one(p, o) /\ buddy_map' = toggle_buddy_bit(p, o)
      BY <1>2, <2>1, OrderAssumption DEF free_pages_insert, Orders
    <3>3. BuddyOf(p, o) \notin free_lists[o]
      <4>1. o \in 0..(MaxOrder - 1)
        BY <1>2, <2>1, OrderAssumption DEF Orders
      <4>2. QED
        BY <1>1, <1>2, <1>4, <3>1, <3>2, <4>1 DEF BitMatchesLists
    <3>4. QED
      BY <1>1, <1>2, <1>4, <1>5, <2>1, <3>1, <3>2, <3>3, BitsPairChange, ListedAligned
  <2>2. CASE o = MaxOrder
    <3>1. \A q \in Orders : q # MaxOrder => free_lists'[q] = free_lists[q]
      BY <1>1, <1>5, <2>2 DEF list_add, ListsOK
    <3>2. \A q \in Orders, i \in Pages :
             q # MaxOrder => (<<q, i>> \in buddy_map' <=> <<q, i>> \in buddy_map)
      BY <1>5, <2>2 DEF toggle_buddy_bit
    <3>3. QED
      BY <1>1, <3>1, <3>2, BitsMaxOrder
  <2>3. QED
    BY <1>2, <2>1, <2>2, PageFacts
<1>9. QED
  BY <1>6, <1>7, <1>8 DEF Structure

\* A block goes from the call to a caller or back; lists and bitmap stay.
LEMMA HandOverStep ==
    ASSUME IInv, free_lists' = free_lists, buddy_map' = buddy_map, boot' = boot,
           NEW x,
           \/ /\ JobBlocks = {x} /\ JobBlocks' = {} /\ owned' = owned \cup {x}
           \/ /\ JobBlocks = {} /\ JobBlocks' = {x} /\ x \in owned /\ owned' = owned \ {x}
    PROVE  Structure'
<1>1. Structure
  BY DEF IInv
<1>2. FreeBlocks' = FreeBlocks
  BY DEF FreeBlocks
<1>3. AllBlocks' = AllBlocks
  BY <1>2 DEF AllBlocks
<1>4. (FreeBlocks \cap owned = {})' /\ ((FreeBlocks \cup owned) \cap JobBlocks = {})'
  BY <1>1, <1>2 DEF Structure, PagesDisjoint
<1>5. BlocksAligned' /\ PagesDisjoint'
  BY <1>1, <1>3, <1>4, BlocksMove DEF Structure
<1>6. ListsOK' /\ BitMatchesLists' /\ NeverBothListed'
  BY <1>1 DEF Structure, ListsOK, BitMatchesLists, NeverBothListed, bit_is_one
<1>7. QED
  BY <1>5, <1>6 DEF Structure

\* A block that is nowhere yet enters through a call of free_pages or
\* free_pages_order: a block of the boot walk, or a page of a reclaimed region.
LEMMA EnterStep ==
    ASSUME IInv, free_lists' = free_lists, buddy_map' = buddy_map, owned' = owned,
           JobBlocks = {}, NEW x \in Pages \X Orders, JobBlocks' = {x},
           Aligned(x[1], x[2]), Extent(x) \subseteq Pages \ {0},
           \A b \in AllBlocks : Extent(b) \cap Extent(x) = {},
           boot' \subseteq boot, Extent(x) \cap boot' = {}
    PROVE  Structure'
<1>1. Structure /\ TypeOK
  BY DEF IInv
<1>2. FreeBlocks' = FreeBlocks
  BY DEF FreeBlocks
<1>3. AllBlocks' = AllBlocks \cup {x}
  BY <1>2 DEF AllBlocks
<1>4. AllBlocks \subseteq Pages \X Orders /\ Separate(AllBlocks)
  BY <1>1, AllBlocksType DEF Structure, PagesDisjoint, Separate
<1>5. x \notin AllBlocks /\ Separate(AllBlocks \cup {x})
  BY <1>4, SeparateAdd
<1>6. BlocksAligned'
  BY <1>1, <1>3 DEF Structure, BlocksAligned
<1>7. PagesDisjoint'
  <2>1. (FreeBlocks \cap owned = {})' /\ ((FreeBlocks \cup owned) \cap JobBlocks = {})'
    BY <1>1, <1>2, <1>5 DEF Structure, PagesDisjoint, AllBlocks
  <2>2. \A b \in AllBlocks' : Extent(b) \cap boot' = {}
    BY <1>1, <1>3 DEF Structure, PagesDisjoint
  <2>3. QED
    BY <1>3, <1>5, <2>1, <2>2 DEF PagesDisjoint, Separate
<1>8. ListsOK' /\ BitMatchesLists' /\ NeverBothListed'
  BY <1>1 DEF Structure, ListsOK, BitMatchesLists, NeverBothListed, bit_is_one
<1>9. QED
  BY <1>6, <1>7, <1>8 DEF Structure

\* Only the counters, the loop, the flag or the result change.
LEMMA QuietStep ==
    ASSUME IInv, UNCHANGED <<free_lists, buddy_map, job, owned>>, boot' \subseteq boot
    PROVE  Structure'
<1>1. FreeBlocks' = FreeBlocks /\ JobBlocks' = JobBlocks
  BY DEF FreeBlocks, JobBlocks
<1>2. AllBlocks' = AllBlocks
  BY <1>1 DEF AllBlocks
<1>3. QED
  BY <1>1, <1>2 DEF IInv, Structure, ListsOK, BlocksAligned, PagesDisjoint, BitMatchesLists,
        NeverBothListed, bit_is_one

-----------------------------------------------------------------------------
(* Every action preserves the invariant.                                   *)

\* The locals a call starts with.
LEMMA NoJobFacts ==
    /\ NoJob.op = "idle" /\ NoLoop.op = "idle"
    /\ NoJob \in [op : {"idle", "alloc", "specific", "free"}, pfn : Pages, ord : Orders,
                  want : Orders, target : Pages]
    /\ NoLoop \in [op : {"idle", "used", "free"}, next : Nat, end : Nat]
    /\ NoLoop.next..(NoLoop.end - 1) = {}
BY PageFacts DEF NoJob, NoLoop

LEMMA AllocStarts ==
    ASSUME IInv, NEW num \in 1..MaxRequest, alloc_pages(num)
    PROVE  IInv'
<1>1. Structure'
  BY QuietStep DEF alloc_pages
<1>2. asked' = num /\ num # 0 /\ num \in 0..MaxRequest
  BY RequestAssumption DEF alloc_pages
<1>3. TypeOK' /\ CallsConsistent'
  BY <1>2, NoJobFacts DEF IInv, TypeOK, CallsConsistent, alloc_pages, Idle
<1>4. QED
  BY <1>1, <1>3 DEF IInv

LEMMA AllocPops ==
    ASSUME IInv, alloc_pages_pop
    PROVE  IInv'
<1> DEFINE order == pages_to_order(asked)
<1>1. order \in Orders /\ job = NoJob /\ asked # 0
  BY DEF alloc_pages_pop
<1> PICK k \in Orders : \E p \in free_lists[k] :
         /\ alloc_pages_take(order, k)
         /\ free_lists' = list_remove(p, k)
         /\ buddy_map' = toggle_buddy_bit(p, k)
         /\ job' = [op |-> "alloc", pfn |-> p, ord |-> k, want |-> order, target |-> p]
  BY DEF alloc_pages_pop
<1>2. PICK p \in free_lists[k] :
         /\ alloc_pages_take(order, k)
         /\ free_lists' = list_remove(p, k)
         /\ buddy_map' = toggle_buddy_bit(p, k)
         /\ job' = [op |-> "alloc", pfn |-> p, ord |-> k, want |-> order, target |-> p]
  OBVIOUS
<1>3. UNCHANGED <<used_memory, free_memory, initialized_buddy, boot, loop, owned, ret, asked>>
  BY DEF alloc_pages_pop
<1>4. order <= k
  BY <1>1, <1>2, PageFacts DEF alloc_pages_take, NonEmpty
<1>5. p \in Pages
  BY ListedBlock DEF IInv, Structure
<1>6. Structure'
  BY <1>1, <1>2, <1>3, TakeStep
<1>7. TypeOK'
  BY <1>1, <1>2, <1>3, <1>5, <1>6 DEF IInv, TypeOK, Structure, ListsOK
<1>8. CallsConsistent'
  <2> HIDE DEF order
  <2>1. order = pages_to_order(asked)
    BY DEF order
  <2>2. QED
    BY <1>1, <1>2, <1>3, <1>4, <2>1, NoJobFacts DEF IInv, CallsConsistent
<1>9. QED
  BY <1>6, <1>7, <1>8 DEF IInv

LEMMA AllocFails ==
    ASSUME IInv, alloc_pages_fail
    PROVE  IInv'
<1>1. Structure'
  BY QuietStep DEF alloc_pages_fail
<1>2. TypeOK' /\ CallsConsistent'
  BY PageFacts, NoJobFacts, RequestAssumption DEF IInv, TypeOK, CallsConsistent, alloc_pages_fail
<1>3. QED
  BY <1>1, <1>2 DEF IInv

LEMMA AllocSplits ==
    ASSUME IInv, alloc_pages_split
    PROVE  IInv'
<1> DEFINE o == job.ord - 1
<1>1. /\ job.op = "alloc" /\ job.ord > job.want
      /\ free_lists' = list_add(BuddyOf(job.pfn, o), o)
      /\ buddy_map' = toggle_buddy_bit(job.pfn, o)
      /\ job' = [job EXCEPT !.ord = o]
      /\ UNCHANGED <<used_memory, free_memory, initialized_buddy, boot, loop, owned, ret, asked>>
  BY DEF alloc_pages_split
<1>2. TypeOK /\ CallsConsistent
  BY DEF IInv
<1>3. job.ord \in Orders /\ job.want \in Orders /\ job.ord \in Nat /\ job.want \in Nat
  BY <1>2, PageFacts DEF TypeOK
<1>4. job.ord > 0
  BY <1>1, <1>3
<1>5. /\ job'.op = "alloc" /\ job'.pfn = job.pfn /\ job'.ord = o /\ job'.want = job.want
      /\ job'.target = job.target
  BY <1>1, <1>2 DEF TypeOK
<1>6. Structure' /\ o \in Orders
  BY <1>1, <1>4, <1>5, SplitStep
<1>7. TypeOK'
  BY <1>1, <1>2, <1>6 DEF TypeOK, Structure, ListsOK
<1>8. CallsConsistent'
  BY <1>1, <1>2, <1>3, <1>5 DEF CallsConsistent
<1>9. QED
  BY <1>6, <1>7, <1>8 DEF IInv

LEMMA AllocReturns ==
    ASSUME IInv, alloc_pages_done
    PROVE  IInv'
<1>1. TypeOK /\ CallsConsistent
  BY DEF IInv
<1>2. /\ job.op = "alloc" /\ job.ord = job.want /\ job' = NoJob
      /\ owned' = owned \cup {<<job.pfn, job.want>>} /\ ret' = job.pfn
      /\ used_memory' = used_memory + Pow2[job.want]
      /\ free_memory' = free_memory - Pow2[job.want]
      /\ asked' = 0
      /\ UNCHANGED <<free_lists, buddy_map, initialized_buddy, boot, loop>>
  BY DEF alloc_pages_done
<1>3. JobBlocks = {<<job.pfn, job.want>>} /\ JobBlocks' = {}
  BY <1>2, NoJobFacts DEF JobBlocks
<1>4. Structure'
  BY <1>2, <1>3, HandOverStep
<1>5. job.want \in Orders /\ job.pfn \in Pages /\ Pow2[job.want] \in Nat
  BY <1>1, Pow2Facts DEF TypeOK
<1>6. TypeOK'
  BY <1>1, <1>2, <1>5, NoJobFacts, RequestAssumption DEF TypeOK
<1>7. CallsConsistent'
  BY <1>1, <1>2, NoJobFacts DEF CallsConsistent
<1>8. QED
  BY <1>4, <1>6, <1>7 DEF IInv

\* The step both callers of allocate_specific_page make.
LEMMA SpecificStarts ==
    ASSUME IInv, job = NoJob, NEW target \in Pages, allocate_specific_page(target),
           initialized_buddy, loop.op # "free", asked = 0,
           loop' = loop \/ loop' = [loop EXCEPT !.next = loop.next + 1],
           UNCHANGED <<used_memory, free_memory, initialized_buddy, boot, owned, ret, asked>>
    PROVE  IInv'
<1>1. TypeOK /\ CallsConsistent
  BY DEF IInv
<1> PICK k \in Orders : \E p \in free_lists[k] :
         /\ target \in Block(p, k)
         /\ free_lists' = list_remove(p, k)
         /\ buddy_map' = toggle_buddy_bit(p, k)
         /\ job' = [op |-> "specific", pfn |-> p, ord |-> k, want |-> 0, target |-> target]
  BY DEF allocate_specific_page
<1>2. PICK p \in free_lists[k] :
         /\ target \in Block(p, k)
         /\ free_lists' = list_remove(p, k)
         /\ buddy_map' = toggle_buddy_bit(p, k)
         /\ job' = [op |-> "specific", pfn |-> p, ord |-> k, want |-> 0, target |-> target]
  OBVIOUS
<1>3. p \in Pages
  BY ListedBlock DEF IInv, Structure
<1>4. Structure'
  BY <1>2, TakeStep
<1>5. /\ loop' \in [op : {"idle", "used", "free"}, next : Nat, end : Nat]
      /\ loop'.op = loop.op
      /\ loop'.next..(loop'.end - 1) \subseteq loop.next..(loop.end - 1)
  BY <1>1 DEF TypeOK
<1>6. TypeOK'
  BY <1>1, <1>2, <1>3, <1>4, <1>5, PageFacts DEF TypeOK, Structure, ListsOK
<1>7. CallsConsistent'
  <2>1. 0 <= k
    BY PageFacts
  <2>2. QED
    BY <1>1, <1>2, <1>5, <2>1 DEF CallsConsistent
<1>8. QED
  BY <1>4, <1>6, <1>7 DEF IInv

LEMMA SpecificSplits ==
    ASSUME IInv, allocate_specific_split
    PROVE  IInv'
<1> DEFINE o      == job.ord - 1
           buddy  == BuddyOf(job.pfn, o)
           inside == job.target \in Block(buddy, o)
           kept   == half_kept(job.target, job.pfn, o)
           given  == IF kept = job.pfn THEN buddy ELSE job.pfn
<1>1. /\ job.op = "specific" /\ job.ord > 0
      /\ free_lists' = list_add(given, o)
      /\ buddy_map' = toggle_buddy_bit(kept, o)
      /\ job' = [job EXCEPT !.ord = o, !.pfn = kept]
      /\ UNCHANGED <<used_memory, free_memory, initialized_buddy, boot, loop, owned, ret, asked>>
  BY DEF allocate_specific_split
<1>2. TypeOK /\ CallsConsistent
  BY DEF IInv
<1>3. /\ job'.op = "specific" /\ job'.pfn = kept /\ job'.ord = o /\ job'.want = job.want
      /\ job'.target = job.target
  BY <1>1, <1>2 DEF TypeOK
<1>4. \/ kept = job.pfn /\ given = BuddyOf(job.pfn, o)
      \/ kept = BuddyOf(job.pfn, o) /\ given = job.pfn
  BY DEF half_kept
<1>5. /\ Structure' /\ kept \in Pages /\ o \in Orders
      /\ Block(job.pfn, job.ord) = Block(kept, o) \cup Block(given, o)
  <2> HIDE DEF kept, given, o
  <2>1. job.op # "idle" /\ job'.op # "idle" /\ owned' = owned /\ boot' = boot
    BY <1>1, <1>3
  <2>2. o = job.ord - 1
    BY DEF o
  <2>3. QED
    BY <1>1, <1>3, <1>4, <2>1, <2>2, SplitStep
<1>6. TypeOK'
  BY <1>1, <1>2, <1>5 DEF TypeOK, Structure, ListsOK
<1>7. job.target \in Block(kept, o)
  <2>1. job.target \in Block(job.pfn, job.ord)
    BY <1>1, <1>2 DEF CallsConsistent
  <2>2. CASE inside
    BY <2>2 DEF half_kept
  <2>3. CASE ~inside
    <3>1. kept = job.pfn /\ given = buddy
      BY <2>3 DEF half_kept
    <3>2. job.target \in Block(kept, o) \/ job.target \in Block(buddy, o)
      BY <1>5, <2>1, <3>1
    <3>3. QED
      BY <2>3, <3>2
  <2>4. QED
    BY <2>2, <2>3
<1>8. job.want = 0 /\ 0 <= o
  BY <1>1, <1>2, <1>5, PageFacts DEF CallsConsistent
<1> HIDE DEF kept, given, o
<1>9. CallsConsistent'
  BY <1>1, <1>2, <1>3, <1>7, <1>8 DEF CallsConsistent
<1>10. QED
  BY <1>5, <1>6, <1>9 DEF IInv

LEMMA SpecificReturns ==
    ASSUME IInv, allocate_specific_done
    PROVE  IInv'
<1>1. TypeOK /\ CallsConsistent
  BY DEF IInv
<1>2. /\ job.op = "specific" /\ job.ord = 0 /\ job' = NoJob
      /\ owned' = owned \cup {<<job.pfn, 0>>}
      /\ ret' = IF loop.op = "idle" THEN job.target ELSE ret
      /\ used_memory' = used_memory + 1
      /\ free_memory' = free_memory - 1
      /\ UNCHANGED <<free_lists, buddy_map, initialized_buddy, boot, loop, asked>>
  BY DEF allocate_specific_done
<1>3. JobBlocks = {<<job.pfn, 0>>} /\ JobBlocks' = {}
  BY <1>2, NoJobFacts DEF JobBlocks
<1>4. Structure'
  BY <1>2, <1>3, HandOverStep
<1>5. job.target \in Pages /\ job.pfn \in Pages /\ 0 \in Orders
  BY <1>1, PageFacts DEF TypeOK
<1>6. TypeOK'
  BY <1>1, <1>2, <1>5, NoJobFacts DEF TypeOK
<1>7. CallsConsistent'
  BY <1>1, <1>2, NoJobFacts DEF CallsConsistent
<1>8. QED
  BY <1>4, <1>6, <1>7 DEF IInv

LEMMA FreeStarts ==
    ASSUME IInv, NEW b \in owned, free_pages(b)
    PROVE  IInv'
<1>1. TypeOK /\ CallsConsistent
  BY DEF IInv
<1>2. /\ initialized_buddy /\ job = NoJob /\ loop = NoLoop /\ asked = 0
      /\ job' = [op |-> "free", pfn |-> b[1], ord |-> b[2], want |-> b[2], target |-> b[1]]
      /\ owned' = owned \ {b}
      /\ UNCHANGED <<free_lists, buddy_map, used_memory, free_memory, initialized_buddy,
                     boot, loop, ret, asked>>
  BY DEF free_pages, start_free, Idle
<1>3. b \in Pages \X Orders /\ b = <<b[1], b[2]>> /\ b[2] \in Nat
  <2>1. b \in Pages \X Orders
    BY <1>1 DEF TypeOK
  <2>2. b = <<b[1], b[2]>> /\ b[2] \in Orders
    BY <2>1
  <2>3. QED
    BY <2>1, <2>2, PageFacts
<1>4. JobBlocks = {} /\ JobBlocks' = {b}
  BY <1>2, <1>3, NoJobFacts DEF JobBlocks
<1>5. Structure'
  BY <1>2, <1>4, HandOverStep
<1>6. TypeOK'
  BY <1>1, <1>2, <1>3 DEF TypeOK
<1>7. CallsConsistent'
  BY <1>1, <1>2, <1>3, NoJobFacts DEF CallsConsistent
<1>8. QED
  BY <1>5, <1>6, <1>7 DEF IInv

LEMMA FreeMerges ==
    ASSUME IInv, free_pages_merge
    PROVE  IInv'
<1>1. TypeOK /\ CallsConsistent
  BY DEF IInv
<1>2. /\ job.op = "free"
      /\ job' = [job EXCEPT !.pfn = PairBase(job.pfn, job.ord), !.ord = job.ord + 1]
      /\ UNCHANGED <<used_memory, free_memory, initialized_buddy, boot, loop, owned, ret, asked>>
  BY DEF free_pages_merge
<1>3. Structure' /\ job.ord + 1 \in Orders /\ PairBase(job.pfn, job.ord) \in Pages
  BY MergeStep
<1>4. /\ job'.op = "free" /\ job'.ord = job.ord + 1 /\ job'.want = job.want
      /\ job.ord \in Nat /\ job.want \in Nat
  BY <1>1, <1>2, PageFacts DEF TypeOK
<1>5. TypeOK'
  BY <1>1, <1>2, <1>3 DEF TypeOK, Structure, ListsOK
<1>6. CallsConsistent'
  BY <1>1, <1>2, <1>4 DEF CallsConsistent
<1>7. QED
  BY <1>3, <1>5, <1>6 DEF IInv

LEMMA FreeInserts ==
    ASSUME IInv, free_pages_insert
    PROVE  IInv'
<1>1. TypeOK /\ CallsConsistent
  BY DEF IInv
<1>2. /\ job.op = "free" /\ job' = NoJob
      /\ used_memory' = used_memory - Pow2[job.want]
      /\ free_memory' = free_memory + Pow2[job.want]
      /\ UNCHANGED <<initialized_buddy, boot, loop, owned, ret, asked>>
  BY DEF free_pages_insert
<1>3. Structure'
  BY InsertStep
<1>4. Pow2[job.want] \in Nat
  BY <1>1, Pow2Facts DEF TypeOK
<1>5. TypeOK'
  BY <1>1, <1>2, <1>3, <1>4, NoJobFacts DEF TypeOK, Structure, ListsOK
<1>6. CallsConsistent'
  BY <1>1, <1>2, NoJobFacts DEF CallsConsistent
<1>7. QED
  BY <1>3, <1>5, <1>6 DEF IInv

LEMMA BootFrees ==
    ASSUME IInv, NEW p \in Pages, NEW o \in Orders, initialize_buddy_free(p, o)
    PROVE  IInv'
<1>1. TypeOK /\ CallsConsistent /\ Structure
  BY DEF IInv
<1>2. /\ ~initialized_buddy /\ job = NoJob /\ loop = NoLoop /\ asked = 0
      /\ Aligned(p, o) /\ Block(p, o) \subseteq boot
      /\ job' = [op |-> "free", pfn |-> p, ord |-> o, want |-> o, target |-> p]
      /\ boot' = boot \ Block(p, o)
      /\ UNCHANGED <<free_lists, buddy_map, used_memory, free_memory, initialized_buddy,
                     loop, owned, ret, asked>>
  BY DEF initialize_buddy_free, walk_may_free, start_free, Idle
<1>3. JobBlocks = {} /\ JobBlocks' = {<<p, o>>} /\ o \in Nat
  BY <1>2, NoJobFacts, PageFacts DEF JobBlocks
<1>4. boot \subseteq Pages \ {0}
  BY <1>1 DEF CallsConsistent, TypeOK
<1>5. \A b \in AllBlocks : Extent(b) \cap Extent(<<p, o>>) = {}
  BY <1>1, <1>2 DEF Structure, PagesDisjoint, Extent
<1>6. Structure'
  <2>1. <<p, o>> \in Pages \X Orders /\ Extent(<<p, o>>) = Block(p, o)
    BY DEF Extent
  <2>2. boot' \subseteq boot /\ Extent(<<p, o>>) \cap boot' = {}
    BY <1>2, <2>1
  <2>3. Aligned(<<p, o>>[1], <<p, o>>[2]) /\ Extent(<<p, o>>) \subseteq Pages \ {0}
    BY <1>2, <1>4, <2>1
  <2>4. QED
    BY <1>2, <1>3, <1>5, <2>1, <2>2, <2>3, EnterStep
<1>7. TypeOK'
  BY <1>1, <1>2 DEF TypeOK
<1>8. CallsConsistent'
  BY <1>1, <1>2, <1>3, <1>4, NoJobFacts DEF CallsConsistent
<1>9. QED
  BY <1>6, <1>7, <1>8 DEF IInv

LEMMA EarlyReserves ==
    ASSUME IInv, NEW r, early_reserve(r)
    PROVE  IInv'
<1>1. Structure'
  BY QuietStep DEF early_reserve
<1>2. TypeOK' /\ CallsConsistent'
  BY NoJobFacts DEF IInv, TypeOK, CallsConsistent, early_reserve, Idle
<1>3. QED
  BY <1>1, <1>2 DEF IInv

LEMMA BootEnds ==
    ASSUME IInv, initialize_buddy_end
    PROVE  IInv'
<1>1. Structure'
  BY QuietStep DEF initialize_buddy_end
<1>2. TypeOK' /\ CallsConsistent'
  BY NoJobFacts DEF IInv, TypeOK, CallsConsistent, initialize_buddy_end, Idle
<1>3. QED
  BY <1>1, <1>2 DEF IInv

\* A free page is in no block that somebody holds.
LEMMA FreePageNotHeld ==
    ASSUME ListsOK, PagesDisjoint, NEW p, is_page_free(p), NEW b \in owned
    PROVE  p \notin Extent(b)
<1> PICK o \in Orders : \E q \in free_lists[o] : p \in Block(q, o)
  BY DEF is_page_free
<1>1. PICK q \in free_lists[o] : p \in Block(q, o)
  OBVIOUS
<1> DEFINE c == <<q, o>>
<1>2. c \in FreeBlocks /\ p \in Extent(c)
  BY <1>1, ListedBlock DEF Extent
<1> HIDE DEF c
<1>3. b # c /\ b \in AllBlocks /\ c \in AllBlocks
  BY <1>2 DEF PagesDisjoint, AllBlocks
<1>4. QED
  BY <1>2, <1>3 DEF PagesDisjoint

LEMMA MarkStarts ==
    ASSUME IInv,
           \/ \E r \in MarkRegions : mark_region_used(r)
           \/ \E r \in MarkRegions : mark_region_free(r)
           \/ reclaim_acpi_memory
    PROVE  IInv'
<1>1. TypeOK /\ CallsConsistent /\ Structure
  BY DEF IInv
<1>2. ASSUME NEW op \in {"used", "free"}, NEW r, r \in Pages \X Nat,
             RegionPages(r) \subseteq Pages, start_loop(op, r),
             op = "free" => \A p \in RegionPages(r) : \A b \in owned :
                                p \in Extent(b) => b = <<p, 0>>
      PROVE  IInv'
  <2>1. /\ initialized_buddy /\ job = NoJob /\ asked = 0
        /\ loop' = [op |-> op, next |-> r[1], end |-> r[2]]
        /\ UNCHANGED <<free_lists, buddy_map, used_memory, free_memory, initialized_buddy,
                       boot, job, owned, ret, asked>>
    BY <1>2 DEF start_loop, Idle
  <2>2. Structure'
    BY <2>1, QuietStep
  <2>3. r[1] \in Nat /\ r[2] \in Nat
    BY <1>2, PageFacts
  <2>4. TypeOK'
    BY <1>1, <2>1, <2>3 DEF TypeOK
  <2>5. CallsConsistent'
    BY <1>1, <1>2, <2>1, NoJobFacts DEF CallsConsistent, RegionPages
  <2>6. QED
    BY <2>2, <2>4, <2>5 DEF IInv
<1>3. ASSUME NEW r \in MarkRegions, mark_region_used(r)
      PROVE  IInv'
  <2>1. r \in Pages \X Nat /\ RegionPages(r) \subseteq Pages /\ start_loop("used", r)
    BY <1>3, RegionAssumption DEF mark_region_used
  <2>2. QED
    BY <1>2, <2>1
<1>4. ASSUME NEW r \in MarkRegions, mark_region_free(r)
      PROVE  IInv'
  <2>1. ASSUME NEW p \in RegionPages(r), NEW b \in owned, p \in Extent(b)
        PROVE  b = <<p, 0>>
    <3>1. p # 0
      BY <1>1, <2>1 DEF Structure, BlocksAligned, AllBlocks
    <3>2. ~is_page_free(p)
      BY <1>1, <2>1, FreePageNotHeld DEF Structure
    <3>3. <<p, 0>> \in owned
      BY <1>4, <3>1, <3>2 DEF mark_region_free
    <3>4. p \in Nat
      BY RegionAssumption, PageFacts
    <3>5. p \in Extent(<<p, 0>>)
      BY <3>4, BlockNonempty, PageFacts DEF Extent
    <3>6. QED
      BY <1>1, <2>1, <3>3, <3>5 DEF Structure, PagesDisjoint, AllBlocks
  <2>2. QED
    BY <1>2, <1>4, <2>1, RegionAssumption DEF mark_region_free
<1>5. ASSUME reclaim_acpi_memory
      PROVE  IInv'
  <2>1. Acpi \in Pages \X Nat /\ RegionPages(Acpi) \subseteq Pages
    BY RegionAssumption
  <2>2. \A p \in RegionPages(Acpi) : \A b \in owned : p \notin Extent(b)
    BY <1>5 DEF reclaim_acpi_memory
  <2>3. QED
    BY <1>2, <1>5, <2>1, <2>2 DEF reclaim_acpi_memory
<1>6. QED
  BY <1>3, <1>4, <1>5

LEMMA MarkUsedPage ==
    ASSUME IInv, mark_used_page
    PROVE  IInv'
<1>1. TypeOK /\ CallsConsistent
  BY DEF IInv
<1>2. /\ loop.op = "used" /\ loop.next < loop.end /\ job = NoJob
      /\ loop' = [loop EXCEPT !.next = loop.next + 1]
      /\ UNCHANGED <<used_memory, free_memory, initialized_buddy, boot, owned, ret, asked>>
  BY DEF mark_used_page, next_page
<1>3. loop.next \in Pages /\ initialized_buddy /\ asked = 0
  BY <1>1, <1>2, NoJobFacts DEF TypeOK, CallsConsistent
<1>4. CASE allocate_specific_page(loop.next)
  BY <1>2, <1>3, <1>4, SpecificStarts
<1>5. CASE UNCHANGED <<free_lists, buddy_map, job>>
  <2>1. Structure'
    BY <1>2, <1>5, QuietStep
  <2>2. TypeOK' /\ CallsConsistent'
    BY <1>1, <1>2, <1>3, <1>5, NoJobFacts DEF TypeOK, CallsConsistent
  <2>3. QED
    BY <2>1, <2>2 DEF IInv
<1>6. QED
  BY <1>4, <1>5 DEF mark_used_page

LEMMA MarkFreePage ==
    ASSUME IInv, mark_free_page
    PROVE  IInv'
<1>1. TypeOK /\ CallsConsistent /\ Structure
  BY DEF IInv
<1>2. /\ loop.op = "free" /\ loop.next < loop.end /\ job = NoJob
      /\ loop' = [loop EXCEPT !.next = loop.next + 1]
      /\ UNCHANGED <<free_lists, buddy_map, used_memory, free_memory, initialized_buddy,
                     boot, ret, asked>>
  BY DEF mark_free_page, next_page
<1> DEFINE n == loop.next
           x == <<n, 0>>
<1>3. /\ n \in Pages /\ n \in Nat /\ 0 \in Orders /\ x \in Pages \X Orders
      /\ initialized_buddy /\ boot = {}
  BY <1>1, <1>2, NoJobFacts, PageFacts DEF TypeOK, CallsConsistent
<1>4. Extent(x) = {n} /\ Aligned(n, 0)
  BY <1>3, Pow2Assumption DEF Extent, Block, Aligned
<1>5. JobBlocks = {}
  BY <1>2, NoJobFacts DEF JobBlocks
<1>6. /\ loop'.op = "free" /\ loop'.next = n + 1 /\ loop'.end = loop.end
      /\ loop' \in [op : {"idle", "used", "free"}, next : Nat, end : Nat]
      /\ n \in n..(loop.end - 1)
      /\ (n + 1)..(loop.end - 1) \subseteq n..(loop.end - 1)
  BY <1>1, <1>2, <1>3 DEF TypeOK
<1>7. CASE UNCHANGED <<job, owned>>
  <2>1. Structure'
    BY <1>2, <1>7, QuietStep
  <2>2. TypeOK' /\ CallsConsistent'
    BY <1>1, <1>2, <1>3, <1>6, <1>7, NoJobFacts DEF TypeOK, CallsConsistent
  <2>3. QED
    BY <2>1, <2>2 DEF IInv
<1>8. CASE ~left_alone(n) /\ start_free(n, 0) /\ owned' = owned \ {x}
  <2>1. job' = [op |-> "free", pfn |-> n, ord |-> 0, want |-> 0, target |-> n]
    BY <1>8 DEF start_free
  <2>2. JobBlocks' = {x}
    BY <2>1 DEF JobBlocks
  <2>3. Structure'
    <3>1. CASE x \in owned
      BY <1>2, <1>5, <1>8, <2>2, <3>1, HandOverStep
    <3>2. CASE x \notin owned
      <4>1. owned' = owned
        BY <1>8, <3>2
      <4>2. \A b \in owned : n \notin Extent(b)
        BY <1>1, <1>2, <1>6, <3>2 DEF CallsConsistent
      <4>3. \A b \in FreeBlocks : n \notin Extent(b)
        BY <1>8 DEF left_alone, is_page_free, FreeBlocks, Extent
      <4>4. \A b \in AllBlocks : Extent(b) \cap Extent(x) = {}
        BY <1>4, <1>5, <4>2, <4>3 DEF AllBlocks
      <4>5. Extent(x) \subseteq Pages \ {0} /\ Aligned(x[1], x[2])
        BY <1>3, <1>4, <1>8 DEF left_alone
      <4>6. boot' \subseteq boot /\ Extent(x) \cap boot' = {}
        BY <1>2, <1>3
      <4> HIDE DEF x
      <4>7. QED
        BY <1>2, <1>3, <1>5, <2>2, <4>1, <4>4, <4>5, <4>6, EnterStep
    <3>3. QED
      BY <3>1, <3>2
  <2>4. TypeOK'
    BY <1>1, <1>2, <1>3, <1>6, <1>8, <2>1 DEF TypeOK
  <2>5. CallsConsistent'
    BY <1>1, <1>2, <1>3, <1>6, <1>8, <2>1, NoJobFacts DEF CallsConsistent
  <2>6. QED
    BY <2>3, <2>4, <2>5 DEF IInv
<1>9. QED
  BY <1>7, <1>8 DEF mark_free_page

LEMMA MarkEnds ==
    ASSUME IInv, mark_region_end
    PROVE  IInv'
<1>1. Structure'
  BY QuietStep DEF mark_region_end
<1>2. TypeOK' /\ CallsConsistent'
  BY NoJobFacts DEF IInv, TypeOK, CallsConsistent, mark_region_end
<1>3. QED
  BY <1>1, <1>2 DEF IInv

LEMMA LowStarts ==
    ASSUME IInv, alloc_page_below_1mib
    PROVE  IInv'
<1>1. TypeOK /\ CallsConsistent
  BY DEF IInv
<1>2. /\ initialized_buddy /\ job = NoJob /\ loop = NoLoop /\ asked = 0
      /\ UNCHANGED <<used_memory, free_memory, initialized_buddy, boot, loop, owned, asked>>
  BY DEF alloc_page_below_1mib, Idle
<1>3. CASE ret' = 0 /\ UNCHANGED <<free_lists, buddy_map, job>>
  <2>1. Structure'
    BY <1>2, <1>3, QuietStep
  <2>2. TypeOK' /\ CallsConsistent'
    BY <1>1, <1>2, <1>3, PageFacts DEF TypeOK, CallsConsistent
  <2>3. QED
    BY <2>1, <2>2 DEF IInv
<1>4. ASSUME NEW page \in LowPages, allocate_specific_page(page), UNCHANGED ret
      PROVE  IInv'
  <2>1. page \in Pages /\ loop.op # "free"
    BY <1>2, LowAssumption, NoJobFacts
  <2>2. QED
    BY <1>2, <1>4, <2>1, SpecificStarts
<1>5. QED
  BY <1>3, <1>4 DEF alloc_page_below_1mib

-----------------------------------------------------------------------------
(* The theorems.                                                           *)

LEMMA InitInvariant == Init => IInv
<1> SUFFICES ASSUME Init PROVE IInv
  OBVIOUS
<1>1. FreeBlocks = {} /\ JobBlocks = {} /\ AllBlocks = {}
  BY NoJobFacts DEF Init, FreeBlocks, JobBlocks, AllBlocks
<1>2. TypeOK
  <2>1. free_lists \in [Orders -> SUBSET Pages] /\ buddy_map \subseteq Orders \X Pages
    BY DEF Init
  <2>2. used_memory \in Int /\ free_memory \in Int
    BY TotalAssumption DEF Init
  <2>3. boot \subseteq Pages /\ owned \subseteq Pages \X Orders /\ ret \in Pages
    BY UsableAssumption, PageFacts DEF Init
  <2>4. asked \in 0..MaxRequest
    BY RequestAssumption DEF Init
  <2>5. QED
    BY <2>1, <2>2, <2>3, <2>4, NoJobFacts DEF Init, TypeOK
<1>3. BitMatchesLists /\ NeverBothListed
  BY OrderAssumption DEF Init, BitMatchesLists, NeverBothListed, bit_is_one, Orders
<1>4. Structure
  BY <1>1, <1>2, <1>3 DEF Init, Structure, ListsOK, TypeOK, BlocksAligned, PagesDisjoint
<1>5. CallsConsistent
  BY UsableAssumption, NoJobFacts DEF Init, CallsConsistent
<1>6. QED
  BY <1>2, <1>4, <1>5 DEF IInv

LEMMA NextInvariant == IInv /\ [Next]_vars => IInv'
<1> SUFFICES ASSUME IInv, [Next]_vars PROVE IInv'
  OBVIOUS
<1>1. ASSUME NEW num \in 1..MaxRequest, alloc_pages(num) PROVE IInv'
  BY <1>1, AllocStarts
<1>2. CASE alloc_pages_pop
  BY <1>2, AllocPops
<1>22. CASE alloc_pages_fail
  BY <1>22, AllocFails
<1>3. CASE alloc_pages_split
  BY <1>3, AllocSplits
<1>4. CASE alloc_pages_done
  BY <1>4, AllocReturns
<1>5. CASE allocate_specific_split
  BY <1>5, SpecificSplits
<1>6. CASE allocate_specific_done
  BY <1>6, SpecificReturns
<1>7. CASE alloc_page_below_1mib
  BY <1>7, LowStarts
<1>8. ASSUME NEW b \in owned, free_pages(b) PROVE IInv'
  BY <1>8, FreeStarts
<1>9. CASE free_pages_merge
  BY <1>9, FreeMerges
<1>10. CASE free_pages_insert
  BY <1>10, FreeInserts
<1>11. ASSUME NEW p \in Pages, NEW o \in Orders, initialize_buddy_free(p, o) PROVE IInv'
  BY <1>11, BootFrees
<1>12. CASE initialize_buddy_end
  BY <1>12, BootEnds
<1>13. CASE \/ \E r \in MarkRegions : mark_region_used(r)
            \/ \E r \in MarkRegions : mark_region_free(r)
            \/ reclaim_acpi_memory
  BY <1>13, MarkStarts
<1>14. CASE mark_used_page
  BY <1>14, MarkUsedPage
<1>15. CASE mark_free_page
  BY <1>15, MarkFreePage
<1>16. CASE mark_region_end
  BY <1>16, MarkEnds
<1>17. CASE UNCHANGED vars
  <2>1. Structure'
    BY <1>17, QuietStep DEF vars
  <2>2. TypeOK' /\ CallsConsistent'
    BY <1>17 DEF IInv, TypeOK, CallsConsistent, vars
  <2>3. QED
    BY <2>1, <2>2 DEF IInv
<1>18. ASSUME NEW r \in EarlyRanges, early_reserve(r) PROVE IInv'
  BY <1>18, EarlyReserves
<1>19. QED
  BY <1>18, <1>1, <1>2, <1>22, <1>3, <1>4, <1>5, <1>6, <1>7, <1>8, <1>9, <1>10, <1>11, <1>12, <1>13,
     <1>14, <1>15, <1>16, <1>17 DEF Next

\* The whole inductive invariant of the allocator.
THEOREM BuddyInvariant == Spec => []IInv
BY InitInvariant, NextInvariant, PTL DEF Spec

\* The variables and the locals of the running call keep their types: in
\* particular every page put on a list or returned is a managed page.
THEOREM BuddyTypeOK == Spec => []TypeOK
<1>1. IInv => TypeOK
  BY DEF IInv
<1>2. QED
  BY <1>1, BuddyInvariant, PTL

\* No page is ever in two blocks: alloc_pages never hands out a page that is
\* listed, held by a caller, or still to be freed by initialize_buddy.
THEOREM NoPageTwice == Spec => []PagesDisjoint
<1>1. IInv => PagesDisjoint
  BY DEF IInv, Structure
<1>2. QED
  BY <1>1, BuddyInvariant, PTL

\* Every block is naturally aligned and none contains page 0.
THEOREM AlwaysAligned == Spec => []BlocksAligned
<1>1. IInv => BlocksAligned
  BY DEF IInv, Structure
<1>2. QED
  BY <1>1, BuddyInvariant, PTL

\* The bit free_pages decides on tells whether exactly one buddy is listed.
THEOREM BitmapExact == Spec => []BitMatchesLists
<1>1. IInv => BitMatchesLists
  BY DEF IInv, Structure
<1>2. QED
  BY <1>1, BuddyInvariant, PTL

\* Free buddies are always merged.
THEOREM AlwaysMerged == Spec => []NeverBothListed
<1>1. IInv => NeverBothListed
  BY DEF IInv, Structure
<1>2. QED
  BY <1>1, BuddyInvariant, PTL

\* A set bit of a pair means one listed buddy, a clear one none: what free_pages
\* concludes from the bit is so.
THEOREM BitDecidesMerge == Spec => []MergeBitExact
<1>1. BitMatchesLists /\ NeverBothListed => MergeBitExact
  BY DEF MergeBitExact
<1>2. QED
  BY <1>1, BitmapExact, AlwaysMerged, PTL

\* All blocks, listed, handed out or in a running call, are aligned and disjoint.
THEOREM BlocksAlwaysSound == Spec => []BlocksSound
<1>1. BlocksAligned /\ PagesDisjoint => BlocksSound
  BY DEF BlocksSound
<1>2. QED
  BY <1>1, NoPageTwice, AlwaysAligned, PTL

\* A running call respects the order and the page it was asked for, and a region
\* that is being freed meets no larger block that is in use.
THEOREM CallsAlwaysConsistent == Spec => []CallsConsistent
<1>1. IInv => CallsConsistent
  BY DEF IInv
<1>2. QED
  BY <1>1, BuddyInvariant, PTL

-----------------------------------------------------------------------------
(* The counters of the buddy allocator count what they say, and its lists  *)
(* and bitmap implement the abstract PageAllocator.  Both rest on what a   *)
(* step does to AbstractFree, the pages that are free from the callers'    *)
(* point of view: a split or a merge leaves it as it is, the last step of  *)
(* an allocation takes the block of the answer out of it, and the last     *)
(* step of a free puts the block of the caller into it.                    *)

\* The pages that may ever be on a list: those of the boot walk and the reclaimed ones.
Managed == Usable \cup RegionPages(Acpi)

\* The pages the caller of the running free gave back.
Returned == Block(job.target, job.want)

\* A merge only grows the block the caller gave back.
ReturnedInside ==
    job.op = "free" => Aligned(job.target, job.want) /\ Returned \subseteq Block(job.pfn, job.ord)

\* The running allocation has chosen a page the abstract allocator may choose, and no
\* page that has been freed or taken since would have been better.
ChoiceHolds ==
    /\ job.op = "alloc" => job.pfn \in BestFit(AbstractFree, job.want)
    /\ job.op = "specific" /\ loop.op = "idle" =>
         job.target \in LowPages /\ \A q \in AbstractFree \cap LowPages : job.target <= q

\* Between the steps of a call too, the counters say what is free for the callers.
Counted ==
    /\ free_memory = Cardinality(AbstractFree)
    /\ used_memory = TotalPages - free_memory

\* No page comes to the lists from outside the memory total_memory counts.
OnlyManaged ==
    /\ PagesOf(AllBlocks) \subseteq Managed /\ boot \subseteq Managed
    /\ loop.op = "free" => loop.next..(loop.end - 1) \subseteq Managed \cup {0}

RInv == IInv /\ ReturnedInside /\ ChoiceHolds /\ Counted /\ OnlyManaged

-----------------------------------------------------------------------------
(* The listed pages, and the block of the running call apart from them.    *)

LEMMA Parts ==
    ASSUME IInv
    PROVE  /\ TypeOK /\ ListsOK /\ BlocksAligned /\ PagesDisjoint
           /\ BitMatchesLists /\ NeverBothListed /\ CallsConsistent
BY DEF IInv, Structure

LEMMA ListedPages ==
    ASSUME ListsOK
    PROVE  /\ \A x \in FreePages : \E o \in Orders : \E p \in free_lists[o] : x \in Block(p, o)
           /\ \A o \in Orders : \A p \in free_lists[o] : Block(p, o) \subseteq FreePages
<1>1. \A b : b \in FreeBlocks <=> \E o \in Orders : \E p \in free_lists[o] : b = <<p, o>>
  BY DEF FreeBlocks, ListsOK
<1>2. \A p, o : Extent(<<p, o>>) = Block(p, o)
  BY DEF Extent
<1>3. \A x : x \in FreePages <=> \E b \in FreeBlocks : x \in Extent(b)
  BY DEF FreePages, PagesOf
<1>4. ASSUME NEW x \in FreePages
      PROVE  \E o \in Orders : \E p \in free_lists[o] : x \in Block(p, o)
  <2>1. PICK b \in FreeBlocks : x \in Extent(b)
    BY <1>3
  <2>2. PICK o \in Orders : \E p \in free_lists[o] : b = <<p, o>>
    BY <1>1
  <2>3. QED
    BY <1>2, <2>1, <2>2
<1>5. ASSUME NEW o \in Orders, NEW p \in free_lists[o]
      PROVE  Block(p, o) \subseteq FreePages
  <2>1. <<p, o>> \in FreeBlocks
    BY <1>1
  <2>2. QED
    BY <1>2, <1>3, <2>1
<1>6. QED
  BY <1>4, <1>5

\* list_add lists the pages of the block.
LEMMA PagesAdded ==
    ASSUME ListsOK, NEW p \in Pages, NEW o \in Orders, free_lists' = list_add(p, o)
    PROVE  FreePages' = FreePages \cup Block(p, o)
<1>1. FreeBlocks' = FreeBlocks \cup {<<p, o>>}
  BY ListAddBlocks
<1>2. Extent(<<p, o>>) = Block(p, o)
  BY DEF Extent
<1>3. QED
  BY <1>1, <1>2 DEF FreePages, PagesOf

\* list_remove takes the pages of the block away, and no page of another one.
LEMMA PagesRemoved ==
    ASSUME ListsOK, PagesDisjoint, NEW o \in Orders, NEW p \in free_lists[o],
           free_lists' = list_remove(p, o)
    PROVE  FreePages' = FreePages \ Block(p, o) /\ Block(p, o) \subseteq FreePages
<1>1. p \in Pages /\ <<p, o>> \in FreeBlocks /\ FreeBlocks \subseteq AllBlocks
  BY ListedBlock DEF AllBlocks
<1>2. FreeBlocks' = FreeBlocks \ {<<p, o>>}
  BY <1>1, ListRemoveBlocks
<1>3. \A b \in FreeBlocks \ {<<p, o>>} : Extent(b) \cap Extent(<<p, o>>) = {}
  BY <1>1 DEF PagesDisjoint
<1>4. Extent(<<p, o>>) = Block(p, o)
  BY DEF Extent
<1>5. QED
  BY <1>1, <1>2, <1>3, <1>4 DEF FreePages, PagesOf

\* The block of the running call is an aligned one of pages that nobody else has.
LEMMA JobBlockApart ==
    ASSUME IInv, job.op # "idle"
    PROVE  /\ job.pfn \in Pages /\ job.ord \in Orders /\ job.want \in Orders
           /\ job.target \in Pages
           /\ Aligned(job.pfn, job.ord)
           /\ Block(job.pfn, job.ord) \subseteq Pages \ {0}
           /\ Block(job.pfn, job.ord) \cap FreePages = {}
           /\ <<job.pfn, job.ord>> \in AllBlocks
<1>1. TypeOK /\ ListsOK /\ BlocksAligned /\ PagesDisjoint
  BY Parts
<1>2. job.pfn \in Pages /\ job.ord \in Orders /\ job.want \in Orders /\ job.target \in Pages
  BY <1>1 DEF TypeOK
<1> DEFINE x == <<job.pfn, job.ord>>
<1>3. JobBlocks = {x} /\ x \in AllBlocks
  BY DEF JobBlocks, AllBlocks
<1>4. Extent(x) = Block(job.pfn, job.ord)
  BY DEF Extent
<1>5. Aligned(job.pfn, job.ord) /\ Block(job.pfn, job.ord) \subseteq Pages \ {0}
  BY <1>1, <1>3, <1>4 DEF BlocksAligned
<1>6. \A b \in FreeBlocks : Extent(b) \cap Extent(x) = {}
  BY <1>1, <1>3 DEF PagesDisjoint, AllBlocks
<1>7. Block(job.pfn, job.ord) \cap FreePages = {}
  BY <1>4, <1>6 DEF FreePages, PagesOf
<1>8. QED
  BY <1>2, <1>3, <1>5, <1>7

\* AbstractFree by what is running.
LEMMA AbstractFreeCases ==
    /\ job.op = "idle" => AbstractFree = FreePages
    /\ job.op \in {"alloc", "specific"} =>
         AbstractFree = FreePages \cup Block(job.pfn, job.ord)
    /\ job.op = "free" =>
         AbstractFree = FreePages \cup (Block(job.pfn, job.ord) \ Returned)
BY DEF AbstractFree, Returned

\* AbstractFree is a finite set of pages without page 0.
LEMMA AbstractFreePages ==
    ASSUME IInv
    PROVE  /\ AbstractFree \subseteq Pages \ {0}
           /\ AbstractFree \subseteq PagesOf(AllBlocks)
           /\ IsFiniteSet(AbstractFree)
<1>1. TypeOK /\ BlocksAligned
  BY Parts
<1>2. AbstractFree \subseteq PagesOf(AllBlocks)
  <2>1. FreePages \subseteq PagesOf(AllBlocks)
    BY DEF FreePages, PagesOf, AllBlocks
  <2>2. job.op # "idle" => Block(job.pfn, job.ord) \subseteq PagesOf(AllBlocks)
    BY DEF PagesOf, AllBlocks, JobBlocks, Extent
  <2>3. job.op \in {"idle", "alloc", "specific", "free"}
    BY <1>1 DEF TypeOK
  <2>4. QED
    BY <2>1, <2>2, <2>3, AbstractFreeCases
<1>3. PagesOf(AllBlocks) \subseteq Pages \ {0}
  BY <1>1 DEF PagesOf, BlocksAligned
<1>4. IsFiniteSet(Pages)
  BY FS_Interval, PagesAssumption DEF Pages
<1>5. QED
  BY <1>2, <1>3, <1>4, FS_Subset

-----------------------------------------------------------------------------
(* What the steps do to AbstractFree.                                      *)

\* A block taken off its list by an allocation is still free for the callers.
LEMMA TakeKeeps ==
    ASSUME IInv, job = NoJob, NEW k \in Orders, NEW p \in free_lists[k],
           free_lists' = list_remove(p, k),
           job'.op \in {"alloc", "specific"}, job'.pfn = p, job'.ord = k
    PROVE  AbstractFree' = AbstractFree /\ AbstractFree = FreePages
<1>1. ListsOK /\ PagesDisjoint
  BY Parts
<1>2. AbstractFree = FreePages
  BY AbstractFreeCases, NoJobFacts
<1>3. FreePages' = FreePages \ Block(p, k) /\ Block(p, k) \subseteq FreePages
  BY <1>1, PagesRemoved
<1>4. AbstractFree' = FreePages' \cup Block(p, k)
  BY DEF AbstractFree
<1>5. QED
  BY <1>2, <1>3, <1>4

\* So are both halves of a split.
LEMMA SplitKeeps ==
    ASSUME IInv, job.op \in {"alloc", "specific"}, job.ord > 0, NEW o, o = job.ord - 1,
           NEW kept, NEW given,
           \/ kept = job.pfn /\ given = BuddyOf(job.pfn, o)
           \/ kept = BuddyOf(job.pfn, o) /\ given = job.pfn,
           free_lists' = list_add(given, o),
           job'.op = job.op, job'.pfn = kept, job'.ord = o
    PROVE  AbstractFree' = AbstractFree
<1>1. /\ job.pfn \in Pages /\ job.ord \in Orders /\ Aligned(job.pfn, job.ord)
      /\ Block(job.pfn, job.ord) \subseteq Pages \ {0} /\ ListsOK
  BY JobBlockApart, Parts
<1>2. o \in Orders /\ o < MaxOrder /\ o + 1 = job.ord /\ job.pfn \in Nat /\ o + 1 \in Orders
  <2>1. job.ord \in Nat /\ job.pfn \in Nat
    BY <1>1, PageFacts
  <2>2. job.ord - 1 \in Orders /\ job.ord - 1 < MaxOrder
    BY <1>1, PageFacts
  <2>3. QED
    BY <1>1, <2>1, <2>2
<1>3. Aligned(job.pfn, o) /\ PairBase(job.pfn, o) = job.pfn
  BY <1>1, <1>2, SplitFacts
<1>4. /\ BuddyOf(job.pfn, o) \in Nat
      /\ Block(job.pfn, job.ord) = Block(job.pfn, o) \cup Block(BuddyOf(job.pfn, o), o)
  BY <1>2, <1>3, BuddyFacts
<1>5. BuddyOf(job.pfn, o) \in Pages
  BY <1>1, <1>2, <1>4, BlockNonempty
<1>6. given \in Pages /\ Block(kept, o) \cup Block(given, o) = Block(job.pfn, job.ord)
  BY <1>1, <1>4, <1>5
<1>7. FreePages' = FreePages \cup Block(given, o)
  BY <1>1, <1>2, <1>6, PagesAdded
<1>8. AbstractFree' = FreePages' \cup Block(kept, o)
  BY DEF AbstractFree
<1>9. AbstractFree = FreePages \cup Block(job.pfn, job.ord)
  BY AbstractFreeCases
<1>10. QED
  BY <1>6, <1>7, <1>8, <1>9

\* The end of an allocation takes its block out, the whole of which was free.
LEMMA AnswerTaken ==
    ASSUME IInv, job.op \in {"alloc", "specific"}, free_lists' = free_lists, job' = NoJob
    PROVE  /\ AbstractFree' = AbstractFree \ Block(job.pfn, job.ord)
           /\ Block(job.pfn, job.ord) \subseteq AbstractFree
<1>1. Block(job.pfn, job.ord) \cap FreePages = {}
  BY JobBlockApart
<1>2. FreePages' = FreePages
  BY DEF FreePages, FreeBlocks
<1>3. AbstractFree' = FreePages'
  BY NoJobFacts DEF AbstractFree
<1>4. QED
  BY <1>1, <1>2, <1>3, AbstractFreeCases

\* A free takes its block from its caller, and so far nothing is free.
LEMMA FreeBegins ==
    ASSUME job = NoJob, NEW p, NEW o, start_free(p, o), free_lists' = free_lists
    PROVE  AbstractFree' = AbstractFree /\ (Aligned(p, o) => ReturnedInside')
<1>1. FreePages' = FreePages
  BY DEF FreePages, FreeBlocks
<1>2. job'.op = "free" /\ job'.pfn = p /\ job'.ord = o /\ job'.target = p /\ job'.want = o
  BY DEF start_free
<1>3. AbstractFree' = FreePages' \cup (Block(p, o) \ Block(p, o))
  BY <1>2 DEF AbstractFree
<1>4. Aligned(p, o) => ReturnedInside'
  BY <1>2 DEF ReturnedInside, Returned
<1>5. QED
  BY <1>1, <1>3, <1>4, AbstractFreeCases, NoJobFacts

\* A merge takes the buddy off its list but leaves it free for the callers.
LEMMA MergeKeeps ==
    ASSUME IInv, ReturnedInside, free_pages_merge
    PROVE  AbstractFree' = AbstractFree /\ ReturnedInside'
<1> DEFINE p == job.pfn
           o == job.ord
           q == BuddyOf(p, o)
<1>1. /\ ListsOK /\ PagesDisjoint /\ BitMatchesLists /\ TypeOK
      /\ job.op = "free" /\ o < MaxOrder /\ bit_is_one(p, o)
      /\ free_lists' = list_remove(q, o)
      /\ job' = [job EXCEPT !.pfn = PairBase(p, o), !.ord = o + 1]
  BY Parts DEF free_pages_merge
<1>2. /\ p \in Pages /\ p \in Nat /\ o \in Orders /\ Aligned(p, o)
      /\ Block(p, o) \cap FreePages = {}
  BY <1>1, JobBlockApart, PageFacts
<1>3. p \notin free_lists[o]
  BY <1>1, <1>2, ListedPages, BlockNonempty
<1>4. q \in free_lists[o]
  <2>1. o \in 0..(MaxOrder - 1)
    BY <1>1, <1>2, OrderAssumption DEF Orders
  <2>2. QED
    BY <1>1, <1>2, <1>3, <2>1 DEF BitMatchesLists
<1>5. /\ q \in Nat
      /\ Block(PairBase(p, o), o + 1) = Block(p, o) \cup Block(q, o)
  BY <1>1, <1>2, BuddyFacts
<1>6. FreePages' = FreePages \ Block(q, o) /\ Block(q, o) \subseteq FreePages
  BY <1>1, <1>2, <1>4, PagesRemoved
<1>7. /\ job'.op = "free" /\ job'.pfn = PairBase(p, o) /\ job'.ord = o + 1
      /\ job'.target = job.target /\ job'.want = job.want
  BY <1>1 DEF TypeOK
<1>8. Returned \subseteq Block(p, o) /\ Aligned(job.target, job.want)
  BY <1>1 DEF ReturnedInside
<1>9. ReturnedInside'
  BY <1>5, <1>7, <1>8 DEF ReturnedInside, Returned
<1>10. AbstractFree' = FreePages' \cup (Block(PairBase(p, o), o + 1) \ Returned)
  BY <1>7 DEF AbstractFree, Returned
<1>11. AbstractFree = FreePages \cup (Block(p, o) \ Returned)
  BY <1>1, AbstractFreeCases
<1> HIDE DEF p, o, q
<1>12. QED
  BY <1>2, <1>5, <1>6, <1>8, <1>9, <1>10, <1>11

\* The end of a free puts the block of the caller in, none of which was free before.
LEMMA BlockReturned ==
    ASSUME IInv, ReturnedInside, free_pages_insert
    PROVE  /\ AbstractFree' = AbstractFree \cup Returned
           /\ AbstractFree \cap Returned = {}
           /\ Returned \subseteq Pages \ {0}
<1>1. /\ ListsOK /\ job.op = "free" /\ free_lists' = list_add(job.pfn, job.ord)
      /\ job' = NoJob
  BY Parts DEF free_pages_insert
<1>2. /\ job.pfn \in Pages /\ job.ord \in Orders
      /\ Block(job.pfn, job.ord) \subseteq Pages \ {0}
      /\ Block(job.pfn, job.ord) \cap FreePages = {}
  BY <1>1, JobBlockApart
<1>3. FreePages' = FreePages \cup Block(job.pfn, job.ord)
  BY <1>1, <1>2, PagesAdded
<1>4. AbstractFree' = FreePages'
  BY <1>1, NoJobFacts DEF AbstractFree
<1>5. AbstractFree = FreePages \cup (Block(job.pfn, job.ord) \ Returned)
  BY <1>1, AbstractFreeCases
<1>6. Returned \subseteq Block(job.pfn, job.ord)
  BY <1>1 DEF ReturnedInside
<1>7. QED
  BY <1>2, <1>3, <1>4, <1>5, <1>6

-----------------------------------------------------------------------------
(* The listed blocks are the maximal ones.  The lists say only which pairs *)
(* are not merged; that no aligned run of free pages is spread over more   *)
(* than one listed block follows order by order.                           *)

\* An aligned run of listed pages lies in one listed block.
LEMMA RunInOneBlock ==
    ASSUME IInv, NEW o \in Orders, NEW p \in Nat, Aligned(p, o), Block(p, o) \subseteq FreePages
    PROVE  \E k \in Orders : \E q \in free_lists[k] : k >= o /\ Block(p, o) \subseteq Block(q, k)
<1> DEFINE Within(x, j) ==
               \E k \in Orders : \E q \in free_lists[k] : k >= j /\ Block(x, j) \subseteq Block(q, k)
           Bad == {j \in Orders : \E x \in Nat : /\ Aligned(x, j)
                                                 /\ Block(x, j) \subseteq FreePages
                                                 /\ ~Within(x, j)}
<1>1. ListsOK /\ BlocksAligned /\ NeverBothListed /\ Orders \in SUBSET Nat
  BY Parts, PageFacts
<1>2. SUFFICES ASSUME Bad # {} PROVE FALSE
  <2>1. Bad = {} => Within(p, o)
    BY PageFacts
  <2>2. QED
    BY <1>2, <2>1
<1>3. PICK j \in Bad : \A i \in Bad : j <= i
  <2>1. Bad \in SUBSET Nat
    BY <1>1
  <2>2. QED
    BY <1>2, <2>1, LeastOf
<1>4. PICK x \in Nat : Aligned(x, j) /\ Block(x, j) \subseteq FreePages /\ ~Within(x, j)
  BY <1>3
<1>5. j \in Orders /\ j \in Nat /\ x \in Block(x, j)
  BY <1>1, <1>3, BlockNonempty
\* A listed block of at least that order which has a page in common contains it.
<1>6. ASSUME NEW k \in Orders, NEW q \in free_lists[k], k >= j,
             NEW y \in Block(x, j), y \in Block(q, k)
      PROVE  FALSE
  <2>1. Aligned(q, k) /\ q \in Nat
    BY <1>1, ListedAligned, ListedBlock, PageFacts
  <2>2. j <= k
    BY <1>1, <1>5, <1>6
  <2>3. Block(x, j) \subseteq Block(q, k)
    BY <1>4, <1>5, <1>6, <2>1, <2>2, BlocksNest
  <2>4. QED
    BY <1>4, <1>6, <2>3
<1>7. CASE j = 0
  <2>1. PICK k \in Orders : \E q \in free_lists[k] : x \in Block(q, k)
    BY <1>1, <1>4, <1>5, ListedPages
  <2>2. PICK q \in free_lists[k] : x \in Block(q, k)
    BY <2>1
  <2>3. k \in Nat
    BY PageFacts
  <2>4. k >= j
    BY <1>7, <2>3
  <2>5. QED
    BY <1>5, <1>6, <2>2, <2>4
<1>8. CASE j # 0
  <2> DEFINE h == j - 1
             b == BuddyOf(x, h)
  <2>1. /\ h \in Orders /\ h < MaxOrder /\ h + 1 = j /\ h \in Nat /\ ~(j <= h)
        /\ h \in 0..(MaxOrder - 1)
    <3>1. j > 0
      BY <1>5, <1>8
    <3>2. j - 1 \in Orders /\ j - 1 < MaxOrder
      BY <1>5, <3>1, PageFacts
    <3>3. QED
      BY <1>1, <1>5, <3>2, OrderAssumption
  <2>2. Aligned(x, h) /\ PairBase(x, h) = x
    BY <1>4, <2>1, SplitFacts
  <2>3. b \in Nat /\ Aligned(b, h) /\ Block(x, j) = Block(x, h) \cup Block(b, h)
    BY <2>1, <2>2, BuddyFacts
  \* Each half is in a listed block, which can only be the half itself.
  <2>4. ASSUME NEW z \in {x, b} PROVE z \in free_lists[h]
    <3>1. z \in Nat /\ Aligned(z, h) /\ Block(z, h) \subseteq Block(x, j)
      BY <2>2, <2>3, <2>4
    <3>2. h \notin Bad
      BY <1>3, <2>1
    <3>3. Within(z, h)
      BY <1>4, <2>1, <3>1, <3>2
    <3>4. PICK k \in Orders : \E q \in free_lists[k] : k >= h /\ Block(z, h) \subseteq Block(q, k)
      BY <3>3
    <3>5. PICK q \in free_lists[k] : k >= h /\ Block(z, h) \subseteq Block(q, k)
      BY <3>4
    <3>6. z \in Block(z, h)
      BY <2>1, <3>1, BlockNonempty
    <3>7. ~(k >= j)
      BY <1>6, <3>1, <3>5, <3>6
    <3>8. k = h
      BY <1>1, <1>5, <2>1, <3>5, <3>7
    <3>9. q \in Nat
      BY <1>1, ListedBlock, PageFacts
    <3>10. z = q
      BY <2>1, <3>1, <3>5, <3>8, <3>9, SameOrderSame
    <3>11. QED
      BY <3>8, <3>10
  <2> HIDE DEF h
  <2>5. x \in free_lists[h] /\ b \in free_lists[h]
    BY <2>4
  <2>6. QED
    BY <1>1, <2>1, <2>5 DEF NeverBothListed
<1>9. QED
  BY <1>7, <1>8

\* What alloc_pages finds on the lists is what MaximalBlocks says of the pages.
LEMMA ListsAreMaximal ==
    ASSUME IInv
    PROVE  MaximalBlocks(FreePages) = FreeBlocks
<1>1. /\ ListsOK /\ BlocksAligned /\ PagesDisjoint /\ Orders \subseteq Nat /\ Pages \subseteq Nat
  BY Parts, PageFacts
<1>2. FreePages \subseteq Nat
  <2>1. \A b \in FreeBlocks : Extent(b) \subseteq Pages
    BY <1>1 DEF BlocksAligned, AllBlocks
  <2>2. QED
    BY <1>1, <2>1 DEF FreePages, PagesOf
<1>3. ASSUME NEW b \in FreeBlocks PROVE b \in MaximalBlocks(FreePages)
  <2>1. b \in Pages \X Orders /\ b[1] \in free_lists[b[2]] /\ b = <<b[1], b[2]>>
    BY DEF FreeBlocks
  <2> DEFINE p == b[1]
             o == b[2]
  <2>2. p \in Nat /\ o \in Orders /\ o \in Nat /\ Aligned(p, o) /\ Extent(b) = Block(p, o)
    BY <1>1, <2>1, ListedAligned DEF Extent
  <2>3. Block(p, o) \subseteq FreePages /\ p \in FreePages
    BY <1>1, <2>1, <2>2, ListedPages, BlockNonempty
  <2>4. ASSUME o # MaxOrder, Block(PairBase(p, o), o + 1) \subseteq FreePages
        PROVE  FALSE
    <3>1. o < MaxOrder /\ o + 1 \in Orders
      BY <2>2, <2>4, PageFacts
    <3>2. /\ PairBase(p, o) \in Nat /\ Aligned(PairBase(p, o), o + 1)
          /\ Block(p, o) \subseteq Block(PairBase(p, o), o + 1)
      BY <2>2, <3>1, BuddyFacts
    <3>3. PICK k \in Orders : \E q \in free_lists[k] :
            k >= o + 1 /\ Block(PairBase(p, o), o + 1) \subseteq Block(q, k)
      BY <2>4, <3>1, <3>2, RunInOneBlock
    <3>4. PICK q \in free_lists[k] :
            k >= o + 1 /\ Block(PairBase(p, o), o + 1) \subseteq Block(q, k)
      BY <3>3
    <3>5. <<q, k>> \in AllBlocks /\ b \in AllBlocks
      BY <1>1, ListedBlock DEF AllBlocks
    <3>6. k # o
      BY <1>1, <2>2, <3>4
    <3>7. b # <<q, k>>
      BY <2>1, <3>6
    <3>8. Extent(b) \cap Extent(<<q, k>>) = {}
      BY <1>1, <3>5, <3>7 DEF PagesDisjoint
    <3>9. Extent(<<q, k>>) = Block(q, k)
      BY DEF Extent
    <3>10. p \in Block(p, o)
      BY <2>2, BlockNonempty
    <3> HIDE DEF p, o
    <3>11. QED
      BY <2>2, <3>2, <3>4, <3>8, <3>9, <3>10
  <2>5. b \in AlignedBlocks(FreePages)
    BY <2>1, <2>2, <2>3 DEF AlignedBlocks
  <2>6. QED
    BY <2>4, <2>5 DEF MaximalBlocks
<1>4. ASSUME NEW b \in MaximalBlocks(FreePages) PROVE b \in FreeBlocks
  <2>1. b \in FreePages \X Orders /\ Aligned(b[1], b[2]) /\ Extent(b) \subseteq FreePages
    BY DEF MaximalBlocks, AlignedBlocks
  <2> DEFINE p == b[1]
             o == b[2]
  <2>2. p \in Nat /\ o \in Orders /\ o \in Nat /\ Block(p, o) \subseteq FreePages
        /\ Aligned(p, o) /\ b = <<p, o>>
    <3>1. p \in FreePages /\ o \in Orders /\ b = <<p, o>>
      BY <2>1
    <3>2. Extent(b) = Block(p, o)
      BY DEF Extent
    <3>3. QED
      BY <1>1, <1>2, <2>1, <3>1, <3>2
  <2>3. PICK k \in Orders : \E q \in free_lists[k] : k >= o /\ Block(p, o) \subseteq Block(q, k)
    BY <2>2, RunInOneBlock
  <2>4. PICK q \in free_lists[k] : k >= o /\ Block(p, o) \subseteq Block(q, k)
    BY <2>3
  <2>5. q \in Nat /\ k \in Nat /\ Aligned(q, k) /\ Block(q, k) \subseteq FreePages
        /\ <<q, k>> \in FreeBlocks
    BY <1>1, ListedAligned, ListedBlock, ListedPages
  <2>6. CASE k = o
    <3>1. p = q
      BY <2>2, <2>4, <2>5, <2>6, SameOrderSame
    <3>2. QED
      BY <2>2, <2>5, <2>6, <3>1
  <2>7. CASE k # o
    <3>1. o + 1 <= k
      BY <2>2, <2>4, <2>5, <2>7
    <3>2. o < MaxOrder /\ o # MaxOrder /\ o + 1 \in Orders
      BY <2>2, <3>1, OrderAssumption DEF Orders
    <3>3. /\ PairBase(p, o) \in Nat /\ Aligned(PairBase(p, o), o + 1)
          /\ Block(p, o) \subseteq Block(PairBase(p, o), o + 1)
      BY <2>2, <3>2, BuddyFacts
    <3>4. p \in Block(p, o)
      BY <2>2, BlockNonempty
    <3>5. p \in Block(PairBase(p, o), o + 1) /\ p \in Block(q, k)
      BY <2>4, <3>3, <3>4
    <3>6. Block(PairBase(p, o), o + 1) \subseteq Block(q, k)
      BY <2>5, <3>1, <3>2, <3>3, <3>5, BlocksNest
    <3>7. Block(PairBase(b[1], b[2]), b[2] + 1) \subseteq FreePages
      BY <2>5, <3>6
    <3>8. QED
      BY <3>2, <3>7 DEF MaximalBlocks
  <2>8. QED
    BY <2>6, <2>7
<1>5. QED
  BY <1>3, <1>4

\* The block alloc_pages takes is a best fit.
LEMMA TakenIsBestFit ==
    ASSUME IInv, NEW order \in Nat, NEW k \in Orders, NEW p \in free_lists[k],
           alloc_pages_take(order, k)
    PROVE  p \in BestFit(FreePages, order)
<1>1. ListsOK /\ Orders \subseteq Nat /\ MaximalBlocks(FreePages) = FreeBlocks
  BY Parts, PageFacts, ListsAreMaximal
<1> DEFINE fits == {b \in MaximalBlocks(FreePages) : b[2] >= order}
<1>2. k \in order..MaxOrder /\ \A o \in NonEmpty(order) : k <= o
  BY DEF alloc_pages_take, NonEmpty
<1>3. <<p, k>> \in fits
  BY <1>1, <1>2, ListedBlock
<1>4. ASSUME NEW d \in fits PROVE k <= d[2]
  <2>1. d[2] \in Orders /\ d[1] \in free_lists[d[2]] /\ d[2] >= order
    BY <1>1 DEF FreeBlocks
  <2>2. d[2] \in order..MaxOrder
    BY <1>1, <2>1, OrderAssumption DEF Orders
  <2>3. QED
    BY <1>2, <2>1, <2>2 DEF NonEmpty
<1>5. <<p, k>> \in {c \in fits : \A d \in fits : c[2] <= d[2]}
  BY <1>3, <1>4
<1>6. QED
  BY <1>5 DEF BestFit

\* alloc_pages refuses only when no aligned run of free pages is large enough.
LEMMA RefusedIsFull ==
    ASSUME IInv, NEW order \in Nat, NonEmpty(order) = {}
    PROVE  ~\E b \in AlignedBlocks(FreePages) : b[2] = order
<1> SUFFICES ASSUME NEW b \in AlignedBlocks(FreePages), b[2] = order
             PROVE  FALSE
  OBVIOUS
<1>1. ListsOK /\ Orders \subseteq Nat /\ Pages \subseteq Nat
  BY Parts, PageFacts
<1>2. /\ b[1] \in FreePages /\ order \in Orders /\ Aligned(b[1], order)
      /\ Block(b[1], order) \subseteq FreePages
  BY DEF AlignedBlocks, Extent
<1>3. b[1] \in Nat
  <2>1. \A c \in FreeBlocks : Extent(c) \subseteq Pages
    BY Parts DEF BlocksAligned, AllBlocks
  <2>2. QED
    BY <1>1, <1>2, <2>1 DEF FreePages, PagesOf
<1>4. PICK k \in Orders : \E q \in free_lists[k] :
        k >= order /\ Block(b[1], order) \subseteq Block(q, k)
  BY <1>2, <1>3, RunInOneBlock
<1>5. k \in order..MaxOrder /\ free_lists[k] # {}
  BY <1>1, <1>4, OrderAssumption DEF Orders
<1>6. QED
  BY <1>5 DEF NonEmpty

-----------------------------------------------------------------------------
(* The steps of PageAllocator, under the refinement mapping.               *)

AbstractStep ==
    \/ Allocator!AbstractNext
    \/ AbstractFree' = AbstractFree /\ asked' = asked /\ ret' = ret

LEMMA SameOperators ==
    /\ Allocator!Pages = Pages /\ Allocator!Orders = Orders
    /\ \A p, o : Allocator!Block(p, o) = Block(p, o)
    /\ \A p, o : Allocator!Aligned(p, o) = Aligned(p, o)
    /\ \A S : Allocator!AlignedBlocks(S) = AlignedBlocks(S)
    /\ \A S, o : Allocator!BestFit(S, o) = BestFit(S, o)
    /\ \A num : Allocator!pages_to_order(num) = pages_to_order(num)
<1>1. Allocator!Pages = Pages /\ Allocator!Orders = Orders
  BY DEF Allocator!Pages, Allocator!Orders, Pages, Orders
<1>2. \A p, o : Allocator!Block(p, o) = Block(p, o) /\ Allocator!Aligned(p, o) = Aligned(p, o)
  BY DEF Allocator!Block, Block, Allocator!Aligned, Aligned
<1>3. \A b : Allocator!Extent(b) = Extent(b)
  BY <1>2 DEF Allocator!Extent, Extent
<1>4. \A p, o : Allocator!PairBase(p, o) = PairBase(p, o)
  BY DEF Allocator!PairBase, PairBase
<1>5. \A S : Allocator!AlignedBlocks(S) = AlignedBlocks(S)
  BY <1>1, <1>2, <1>3 DEF Allocator!AlignedBlocks, AlignedBlocks
<1>6. \A S : Allocator!MaximalBlocks(S) = MaximalBlocks(S)
  BY <1>2, <1>4, <1>5 DEF Allocator!MaximalBlocks, MaximalBlocks
<1>7. \A S, o : Allocator!BestFit(S, o) = BestFit(S, o)
  BY <1>6 DEF Allocator!BestFit, BestFit
<1>8. \A num : Allocator!pages_to_order(num) = pages_to_order(num)
  BY <1>1 DEF Allocator!pages_to_order, pages_to_order
<1>9. QED
  BY <1>1, <1>2, <1>5, <1>7, <1>8

LEMMA AskStep ==
    ASSUME asked = 0, asked' \in Nat \ {0}, AbstractFree' = AbstractFree, ret' = ret
    PROVE  Allocator!AbstractNext
BY DEF Allocator!AbstractNext, Allocator!Ask

LEMMA AllocateStep ==
    ASSUME asked # 0, pages_to_order(asked) \in Orders, asked' = 0,
           NEW p \in BestFit(AbstractFree, pages_to_order(asked)),
           AbstractFree' = AbstractFree \ Block(p, pages_to_order(asked)), ret' = p
    PROVE  Allocator!AbstractNext
BY SameOperators DEF Allocator!AbstractNext, Allocator!Allocate, Allocator!Answer

LEMMA RefuseStep ==
    ASSUME asked # 0, asked' = 0,
           ~\E b \in AlignedBlocks(AbstractFree) : b[2] = pages_to_order(asked),
           AbstractFree' = AbstractFree, ret' = 0
    PROVE  Allocator!AbstractNext
BY SameOperators DEF Allocator!AbstractNext, Allocator!Refuse, Allocator!Answer

LEMMA RefuseLowStep ==
    ASSUME asked = 0, asked' = 0,
           AbstractFree \cap LowPages = {}, AbstractFree' = AbstractFree, ret' = 0
    PROVE  Allocator!AbstractNext
BY DEF Allocator!AbstractNext, Allocator!AllocateLow

LEMMA AllocateLowStep ==
    ASSUME asked = 0, asked' = 0,
           NEW p \in AbstractFree \cap LowPages, \A q \in AbstractFree \cap LowPages : p <= q,
           AbstractFree' = AbstractFree \ {p}, ret' = p
    PROVE  Allocator!AbstractNext
BY DEF Allocator!AbstractNext, Allocator!AllocateLow

LEMMA TakePageStep ==
    ASSUME asked = 0, asked' = 0,
           NEW p \in AbstractFree, p \in Pages, AbstractFree' = AbstractFree \ {p}, ret' = ret
    PROVE  Allocator!AbstractNext
BY SameOperators DEF Allocator!AbstractNext, Allocator!Take

LEMMA GiveStep ==
    ASSUME asked = 0, asked' = 0,
           NEW p \in Pages, NEW o \in Orders, Aligned(p, o),
           Block(p, o) \subseteq Pages \ (AbstractFree \cup {0}),
           AbstractFree' = AbstractFree \cup Block(p, o), ret' = ret
    PROVE  Allocator!AbstractNext
BY SameOperators DEF Allocator!AbstractNext, Allocator!Give

-----------------------------------------------------------------------------
(* Step by step: the invariant is kept, and the abstract allocator makes   *)
(* the same step or none.                                                  *)

RestHolds == ReturnedInside /\ ChoiceHolds /\ Counted /\ OnlyManaged

LEMMA ManagedParts ==
    ASSUME IInv, OnlyManaged
    PROVE  /\ AbstractFree \subseteq Managed /\ FreePages \subseteq Managed
           /\ boot \subseteq Managed
           /\ job.op # "idle" => Block(job.pfn, job.ord) \subseteq Managed
           /\ \A b \in owned : Extent(b) \subseteq Managed
<1>1. \A b \in AllBlocks : Extent(b) \subseteq Managed
  BY DEF OnlyManaged, PagesOf
<1>2. \A b \in owned : Extent(b) \subseteq Managed
  BY <1>1 DEF AllBlocks
<1>3. FreePages \subseteq Managed
  BY <1>1 DEF AllBlocks, FreePages, PagesOf
<1>4. job.op # "idle" => Block(job.pfn, job.ord) \subseteq Managed
  <2>1. job.op # "idle" => <<job.pfn, job.ord>> \in AllBlocks
    BY DEF AllBlocks, JobBlocks
  <2>2. Extent(<<job.pfn, job.ord>>) = Block(job.pfn, job.ord)
    BY DEF Extent
  <2>3. QED
    BY <1>1, <2>1, <2>2
<1>5. AbstractFree \subseteq Managed
  BY AbstractFreePages DEF OnlyManaged
<1>6. QED
  BY <1>2, <1>3, <1>4, <1>5 DEF OnlyManaged

LEMMA ManagedStep ==
    ASSUME OnlyManaged, job'.op \in {"idle", "alloc", "specific", "free"},
           AbstractFree' \subseteq Managed,
           job'.op = "free" => Block(job'.pfn, job'.ord) \subseteq Managed,
           \A b \in owned' : b \in owned \/ Extent(b) \subseteq Managed,
           boot' \subseteq boot,
           \/ loop' = loop \/ loop'.op # "free"
           \/ loop'.next..(loop'.end - 1) \subseteq Managed \cup {0}
    PROVE  OnlyManaged'
<1>1. FreePages' \subseteq Managed
  BY DEF AbstractFree
<1>2. job'.op # "idle" => Block(job'.pfn, job'.ord) \subseteq Managed
  BY DEF AbstractFree
<1>3. \A b \in owned' : Extent(b) \subseteq Managed
  BY DEF OnlyManaged, PagesOf, AllBlocks
<1>4. \A b \in FreeBlocks' : Extent(b) \subseteq Managed
  BY <1>1 DEF FreePages, PagesOf
<1>5. \A b \in JobBlocks' : Extent(b) \subseteq Managed
  BY <1>2 DEF JobBlocks, Extent
<1>6. (PagesOf(AllBlocks) \subseteq Managed)'
  BY <1>3, <1>4, <1>5 DEF PagesOf, AllBlocks
<1>7. boot' \subseteq Managed
  BY DEF OnlyManaged
<1>8. loop'.op = "free" => loop'.next..(loop'.end - 1) \subseteq Managed \cup {0}
  BY DEF OnlyManaged
<1>9. QED
  BY <1>6, <1>7, <1>8 DEF OnlyManaged, Managed

\* The steps that leave the free pages of the callers as they are.
LEMMA QuietRest ==
    ASSUME RInv, AbstractFree' = AbstractFree,
           UNCHANGED <<used_memory, free_memory, boot, loop>>, owned' \subseteq owned,
           job'.op \in {"idle", "alloc", "specific", "free"},
           ReturnedInside', ChoiceHolds',
           job'.op = "free" => Block(job'.pfn, job'.ord) \subseteq Managed
    PROVE  RestHolds'
<1>1. AbstractFree' \subseteq Managed
  BY ManagedParts DEF RInv
<1>2. OnlyManaged'
  BY <1>1, ManagedStep DEF RInv
<1>3. Counted'
  BY DEF RInv, Counted
<1>4. QED
  BY <1>2, <1>3 DEF RestHolds

\* The call itself only brings its parameter.
LEMMA AllocStartsRest ==
    ASSUME RInv, NEW num \in 1..MaxRequest, alloc_pages(num)
    PROVE  RestHolds' /\ AbstractStep
<1>1. /\ job = NoJob /\ asked = 0 /\ asked' = num /\ num \in Nat \ {0}
      /\ UNCHANGED <<free_lists, buddy_map, used_memory, free_memory, boot, job, loop,
                     owned, ret>>
  BY RequestAssumption DEF alloc_pages, Idle
<1>2. AbstractFree' = AbstractFree
  BY <1>1 DEF AbstractFree, FreePages, FreeBlocks
<1>3. RestHolds'
  BY <1>1, <1>2
     DEF RInv, RestHolds, ReturnedInside, Returned, ChoiceHolds, Counted, OnlyManaged,
         AllBlocks, FreeBlocks, JobBlocks
<1>4. Allocator!AbstractNext
  BY <1>1, <1>2, AskStep
<1>5. QED
  BY <1>3, <1>4 DEF AbstractStep

LEMMA AllocPopsRest ==
    ASSUME RInv, alloc_pages_pop
    PROVE  RestHolds' /\ AbstractStep
<1> DEFINE order == pages_to_order(asked)
<1>1. order \in Orders /\ job = NoJob
      /\ UNCHANGED <<used_memory, free_memory, boot, loop, owned, ret, asked>>
  BY DEF alloc_pages_pop
<1> PICK k \in Orders : \E p \in free_lists[k] :
         /\ alloc_pages_take(order, k)
         /\ free_lists' = list_remove(p, k)
         /\ buddy_map' = toggle_buddy_bit(p, k)
         /\ job' = [op |-> "alloc", pfn |-> p, ord |-> k, want |-> order, target |-> p]
  BY DEF alloc_pages_pop
<1> PICK p \in free_lists[k] :
         /\ alloc_pages_take(order, k)
         /\ free_lists' = list_remove(p, k)
         /\ buddy_map' = toggle_buddy_bit(p, k)
         /\ job' = [op |-> "alloc", pfn |-> p, ord |-> k, want |-> order, target |-> p]
  OBVIOUS
<1>2. job'.op = "alloc" /\ job'.pfn = p /\ job'.ord = k /\ job'.want = order
  OBVIOUS
<1>3. AbstractFree' = AbstractFree /\ AbstractFree = FreePages
  BY <1>1, <1>2, TakeKeeps DEF RInv
<1>4. order \in Nat
  BY <1>1, PageFacts
<1>5. p \in BestFit(FreePages, order)
  BY <1>4, TakenIsBestFit DEF RInv
<1>6. ReturnedInside' /\ ChoiceHolds'
  <2>1. ReturnedInside'
    BY <1>2 DEF ReturnedInside
  <2>2. job'.pfn \in BestFit(AbstractFree', job'.want)
    BY <1>2, <1>3, <1>5
  <2>3. BestFit(AbstractFree, job.want)' = BestFit(AbstractFree', job'.want)
    BY DEF BestFit, MaximalBlocks, AlignedBlocks
  <2>4. QED
    BY <1>2, <2>1, <2>2, <2>3 DEF ChoiceHolds
<1>7. QED
  BY <1>1, <1>2, <1>3, <1>6, QuietRest DEF AbstractStep

LEMMA AllocRefusedRest ==
    ASSUME RInv, alloc_pages_fail
    PROVE  RestHolds' /\ AbstractStep
<1>1. /\ job = NoJob /\ asked # 0 /\ asked' = 0 /\ NonEmpty(pages_to_order(asked)) = {} /\ ret' = 0
      /\ UNCHANGED <<free_lists, buddy_map, used_memory, free_memory, initialized_buddy,
                     boot, job, loop, owned>>
  BY DEF alloc_pages_fail
<1>2. AbstractFree' = AbstractFree
  BY <1>1 DEF AbstractFree, FreePages, FreeBlocks
<1>3. RestHolds'
  BY <1>1, <1>2
     DEF RInv, RestHolds, ReturnedInside, Returned, ChoiceHolds, Counted, OnlyManaged,
         AllBlocks, FreeBlocks, JobBlocks
<1>4. pages_to_order(asked) \in 0..(MaxOrder + 1)
  <2>1. asked \in Nat
    BY Parts, RequestAssumption DEF RInv, TypeOK
  <2>2. QED
    BY <2>1, OrderOfRequest
<1>5. ~\E b \in AlignedBlocks(FreePages) : b[2] = pages_to_order(asked)
  BY <1>1, <1>4, RefusedIsFull DEF RInv
<1>6. AbstractFree = FreePages
  BY <1>1, AbstractFreeCases, NoJobFacts
<1>7. Allocator!AbstractNext
  BY <1>1, <1>2, <1>5, <1>6, RefuseStep
<1>8. QED
  BY <1>3, <1>7 DEF AbstractStep

LEMMA AllocSplitsRest ==
    ASSUME RInv, alloc_pages_split
    PROVE  RestHolds' /\ AbstractStep
<1> DEFINE o == job.ord - 1
<1>1. /\ job.op = "alloc" /\ job.ord > job.want
      /\ free_lists' = list_add(BuddyOf(job.pfn, o), o)
      /\ job' = [job EXCEPT !.ord = o]
      /\ UNCHANGED <<used_memory, free_memory, initialized_buddy, boot, loop, owned, ret, asked>>
  BY DEF alloc_pages_split
<1>2. TypeOK /\ job.want \in Nat /\ job.ord \in Nat
  BY Parts, JobBlockApart, PageFacts, <1>1 DEF RInv
<1>3. job'.op = "alloc" /\ job'.pfn = job.pfn /\ job'.ord = o /\ job'.want = job.want
  BY <1>1, <1>2 DEF TypeOK
<1>4. AbstractFree' = AbstractFree
  BY <1>1, <1>2, <1>3, SplitKeeps DEF RInv
<1>5. ReturnedInside' /\ ChoiceHolds'
  BY <1>1, <1>3, <1>4
     DEF RInv, ReturnedInside, ChoiceHolds, BestFit, MaximalBlocks, AlignedBlocks
<1>6. QED
  BY <1>1, <1>3, <1>4, <1>5, QuietRest DEF AbstractStep

LEMMA SpecificSplitsRest ==
    ASSUME RInv, allocate_specific_split
    PROVE  RestHolds' /\ AbstractStep
<1> DEFINE o     == job.ord - 1
           buddy == BuddyOf(job.pfn, o)
           kept  == half_kept(job.target, job.pfn, o)
           given == IF kept = job.pfn THEN buddy ELSE job.pfn
<1>1. /\ job.op = "specific" /\ job.ord > 0
      /\ free_lists' = list_add(given, o)
      /\ job' = [job EXCEPT !.ord = o, !.pfn = kept]
      /\ UNCHANGED <<used_memory, free_memory, initialized_buddy, boot, loop, owned, ret, asked>>
  BY DEF allocate_specific_split
<1>2. TypeOK
  BY Parts DEF RInv
<1>3. job'.op = "specific" /\ job'.pfn = kept /\ job'.ord = o /\ job'.target = job.target
  BY <1>1, <1>2 DEF TypeOK
<1>4. kept = job.pfn \/ kept = buddy
  BY DEF half_kept
<1>5. \/ kept = job.pfn /\ given = buddy
      \/ kept = buddy /\ given = job.pfn
  BY <1>4
<1> HIDE DEF kept, given
<1>6. AbstractFree' = AbstractFree
  BY <1>1, <1>3, <1>5, SplitKeeps DEF RInv
<1>7. ReturnedInside' /\ ChoiceHolds'
  BY <1>1, <1>3, <1>6 DEF RInv, ReturnedInside, ChoiceHolds
<1>8. QED
  BY <1>1, <1>3, <1>6, <1>7, QuietRest DEF AbstractStep

LEMMA SizeWithout ==
    ASSUME NEW S, NEW T, IsFiniteSet(S), T \subseteq S
    PROVE  Cardinality(S \ T) = Cardinality(S) - Cardinality(T)
<1>1. S \cap T = T
  OBVIOUS
<1>2. Cardinality(S \ T) = Cardinality(S) - Cardinality(S \cap T)
  BY FS_Difference
<1>3. QED
  BY <1>1, <1>2

LEMMA SizeWith ==
    ASSUME NEW S, NEW T, IsFiniteSet(S), IsFiniteSet(T), S \cap T = {}
    PROVE  Cardinality(S \cup T) = Cardinality(S) + Cardinality(T)
<1>1. Cardinality(S \cup T) = Cardinality(S) + Cardinality(T) - Cardinality(S \cap T)
  BY FS_Union
<1>2. Cardinality(S \cap T) = 0
  BY FS_EmptySet
<1>3. Cardinality(S) \in Nat /\ Cardinality(T) \in Nat
  BY FS_CardinalityType
<1>4. QED
  BY <1>1, <1>2, <1>3

\* Taking a block of free pages off the count, and putting one back.
LEMMA CountAfterTake ==
    ASSUME IInv, Counted, NEW o \in Orders, NEW p \in Nat, Block(p, o) \subseteq AbstractFree,
           AbstractFree' = AbstractFree \ Block(p, o),
           used_memory' = used_memory + Pow2[o], free_memory' = free_memory - Pow2[o]
    PROVE  Counted'
<1>1. IsFiniteSet(AbstractFree) /\ Cardinality(AbstractFree) \in Nat
  BY AbstractFreePages, FS_CardinalityType
<1>2. IsFiniteSet(Block(p, o)) /\ Cardinality(Block(p, o)) = Pow2[o] /\ Pow2[o] \in Nat
  BY SizeOfBlock, Pow2Facts
<1>3. Cardinality(AbstractFree \ Block(p, o)) = Cardinality(AbstractFree) - Pow2[o]
  BY <1>1, <1>2, SizeWithout
<1>4. QED
  BY <1>1, <1>2, <1>3, TotalAssumption DEF Counted

LEMMA CountAfterGive ==
    ASSUME IInv, Counted, NEW o \in Orders, NEW p \in Nat,
           AbstractFree \cap Block(p, o) = {},
           AbstractFree' = AbstractFree \cup Block(p, o),
           used_memory' = used_memory - Pow2[o], free_memory' = free_memory + Pow2[o]
    PROVE  Counted'
<1>1. IsFiniteSet(AbstractFree) /\ Cardinality(AbstractFree) \in Nat
  BY AbstractFreePages, FS_CardinalityType
<1>2. IsFiniteSet(Block(p, o)) /\ Cardinality(Block(p, o)) = Pow2[o] /\ Pow2[o] \in Nat
  BY SizeOfBlock, Pow2Facts
<1>3. Cardinality(AbstractFree \cup Block(p, o)) = Cardinality(AbstractFree) + Pow2[o]
  BY <1>1, <1>2, SizeWith
<1>4. QED
  BY <1>1, <1>2, <1>3, TotalAssumption DEF Counted

LEMMA AllocReturnsRest ==
    ASSUME RInv, alloc_pages_done
    PROVE  RestHolds' /\ AbstractStep
<1>1. /\ job.op = "alloc" /\ job.ord = job.want /\ job' = NoJob
      /\ owned' = owned \cup {<<job.pfn, job.want>>} /\ ret' = job.pfn
      /\ used_memory' = used_memory + Pow2[job.want]
      /\ free_memory' = free_memory - Pow2[job.want]
      /\ asked' = 0
      /\ UNCHANGED <<free_lists, buddy_map, initialized_buddy, boot, loop>>
  BY DEF alloc_pages_done
<1>2. job.pfn \in Pages /\ job.pfn \in Nat /\ job.want \in Orders
  BY <1>1, JobBlockApart, PageFacts DEF RInv
<1>3. /\ AbstractFree' = AbstractFree \ Block(job.pfn, job.want)
      /\ Block(job.pfn, job.want) \subseteq AbstractFree
  BY <1>1, AnswerTaken DEF RInv
<1>4. Counted'
  BY <1>1, <1>2, <1>3, CountAfterTake DEF RInv
<1>5. AbstractFree \subseteq Managed
  BY ManagedParts DEF RInv
<1>6. \A b \in owned' : b \in owned \/ Extent(b) \subseteq Managed
  <2>1. Extent(<<job.pfn, job.want>>) = Block(job.pfn, job.want)
    BY DEF Extent
  <2>2. QED
    BY <1>1, <1>3, <1>5, <2>1
<1>7. OnlyManaged'
  BY <1>1, <1>3, <1>5, <1>6, ManagedStep, NoJobFacts DEF RInv
<1>8. ReturnedInside' /\ ChoiceHolds'
  BY <1>1, NoJobFacts DEF ReturnedInside, ChoiceHolds
<1>9. Allocator!AbstractNext
  <2>1. job.pfn \in BestFit(AbstractFree, job.want)
    BY <1>1 DEF RInv, ChoiceHolds
  <2>3. asked # 0 /\ job.want = pages_to_order(asked)
    BY <1>1, Parts DEF RInv, CallsConsistent
  <2>2. QED
    BY <1>1, <1>2, <1>3, <2>1, <2>3, AllocateStep
<1>10. QED
  BY <1>4, <1>7, <1>8, <1>9 DEF RestHolds, AbstractStep

LEMMA SpecificReturnsRest ==
    ASSUME RInv, allocate_specific_done
    PROVE  RestHolds' /\ AbstractStep
<1>1. /\ job.op = "specific" /\ job.ord = 0 /\ job' = NoJob
      /\ owned' = owned \cup {<<job.pfn, 0>>}
      /\ ret' = IF loop.op = "idle" THEN job.target ELSE ret
      /\ used_memory' = used_memory + 1 /\ free_memory' = free_memory - 1
      /\ UNCHANGED <<free_lists, buddy_map, initialized_buddy, boot, loop, asked>>
  BY DEF allocate_specific_done
<1>2. job.pfn \in Pages /\ job.pfn \in Nat /\ 0 \in Orders /\ job.target \in Pages
  BY <1>1, JobBlockApart, PageFacts DEF RInv
<1>3. Pow2[0] = 1 /\ Block(job.pfn, 0) = {job.pfn}
  <2>1. Pow2[0] = 1
    BY Pow2Assumption
  <2>2. QED
    BY <1>2, <2>1 DEF Block
<1>4. job.target = job.pfn /\ asked = 0
  BY <1>1, <1>3, Parts DEF RInv, CallsConsistent
<1>5. /\ AbstractFree' = AbstractFree \ Block(job.pfn, 0)
      /\ Block(job.pfn, 0) \subseteq AbstractFree
  BY <1>1, AnswerTaken DEF RInv
<1>6. Counted'
  BY <1>1, <1>2, <1>3, <1>5, CountAfterTake DEF RInv
<1>7. AbstractFree \subseteq Managed
  BY ManagedParts DEF RInv
<1>8. \A b \in owned' : b \in owned \/ Extent(b) \subseteq Managed
  <2>1. Extent(<<job.pfn, 0>>) = Block(job.pfn, 0)
    BY DEF Extent
  <2>2. QED
    BY <1>1, <1>5, <1>7, <2>1
<1>9. OnlyManaged'
  BY <1>1, <1>5, <1>7, <1>8, ManagedStep, NoJobFacts DEF RInv
<1>10. ReturnedInside' /\ ChoiceHolds'
  BY <1>1, NoJobFacts DEF ReturnedInside, ChoiceHolds
<1>11. Allocator!AbstractNext
  <2>1. job.target \in AbstractFree /\ AbstractFree' = AbstractFree \ {job.target}
    BY <1>3, <1>4, <1>5
  <2>2. CASE loop.op = "idle"
    <3>1. /\ job.target \in LowPages
          /\ \A q \in AbstractFree \cap LowPages : job.target <= q
      BY <1>1, <2>2 DEF RInv, ChoiceHolds
    <3>2. QED
      BY <1>1, <1>4, <2>1, <2>2, <3>1, AllocateLowStep
  <2>3. CASE loop.op # "idle"
    BY <1>1, <1>2, <1>4, <2>1, <2>3, TakePageStep
  <2>4. QED
    BY <2>2, <2>3
<1>12. QED
  BY <1>6, <1>9, <1>10, <1>11 DEF RestHolds, AbstractStep

LEMMA FreeStartsRest ==
    ASSUME RInv, NEW b \in owned, free_pages(b)
    PROVE  RestHolds' /\ AbstractStep
<1>1. /\ job = NoJob /\ start_free(b[1], b[2]) /\ owned' = owned \ {b}
      /\ UNCHANGED <<free_lists, buddy_map, used_memory, free_memory, initialized_buddy,
                     boot, loop, ret, asked>>
  BY DEF free_pages, Idle
<1>2. job'.op = "free" /\ job'.pfn = b[1] /\ job'.ord = b[2]
  BY <1>1 DEF start_free
<1>3. Aligned(b[1], b[2])
  BY Parts DEF RInv, BlocksAligned, AllBlocks
<1>4. AbstractFree' = AbstractFree /\ ReturnedInside'
  BY <1>1, <1>3, FreeBegins
<1>5. Block(b[1], b[2]) \subseteq Managed
  BY ManagedParts DEF RInv, Extent
<1>6. ChoiceHolds'
  BY <1>2 DEF ChoiceHolds
<1>7. QED
  BY <1>1, <1>2, <1>4, <1>5, <1>6, QuietRest DEF AbstractStep

LEMMA FreeMergesRest ==
    ASSUME RInv, free_pages_merge
    PROVE  RestHolds' /\ AbstractStep
<1>1. AbstractFree' = AbstractFree /\ ReturnedInside'
  BY MergeKeeps DEF RInv
<1> DEFINE p == job.pfn
           o == job.ord
<1>2. /\ job.op = "free" /\ o < MaxOrder
      /\ job' = [job EXCEPT !.pfn = PairBase(p, o), !.ord = o + 1]
      /\ UNCHANGED <<used_memory, free_memory, initialized_buddy, boot, loop, owned, ret, asked>>
  BY DEF free_pages_merge
<1>3. TypeOK
  BY Parts DEF RInv
<1>4. job'.op = "free" /\ job'.pfn = PairBase(p, o) /\ job'.ord = o + 1
  BY <1>2, <1>3 DEF TypeOK
<1>5. Block(PairBase(p, o), o + 1) \subseteq Managed
  <2>1. Returned \subseteq Block(p, o)
    BY <1>2 DEF RInv, ReturnedInside
  <2>2. Returned' = Returned
    BY <1>2, <1>3 DEF TypeOK, Returned
  <2>3. Block(PairBase(p, o), o + 1) \subseteq AbstractFree' \cup Returned
    BY <1>4, <2>2 DEF AbstractFree, Returned
  <2>4. Block(p, o) \subseteq Managed /\ AbstractFree \subseteq Managed
    BY <1>2, ManagedParts DEF RInv
  <2>5. QED
    BY <1>1, <2>1, <2>3, <2>4
<1>6. ChoiceHolds'
  BY <1>4 DEF ChoiceHolds
<1>7. QED
  BY <1>1, <1>2, <1>4, <1>5, <1>6, QuietRest DEF AbstractStep

LEMMA FreeInsertsRest ==
    ASSUME RInv, free_pages_insert
    PROVE  RestHolds' /\ AbstractStep
<1>1. /\ AbstractFree' = AbstractFree \cup Returned
      /\ AbstractFree \cap Returned = {} /\ Returned \subseteq Pages \ {0}
  BY BlockReturned DEF RInv
<1>2. /\ job.op = "free" /\ job' = NoJob
      /\ used_memory' = used_memory - Pow2[job.want]
      /\ free_memory' = free_memory + Pow2[job.want]
      /\ UNCHANGED <<initialized_buddy, boot, loop, owned, ret, asked>>
  BY DEF free_pages_insert
<1>3. /\ job.target \in Pages /\ job.target \in Nat /\ job.want \in Orders
      /\ Aligned(job.target, job.want) /\ Returned \subseteq Block(job.pfn, job.ord)
  BY <1>2, JobBlockApart, PageFacts DEF RInv, ReturnedInside
<1>4. Counted'
  BY <1>1, <1>2, <1>3, CountAfterGive DEF RInv, Returned
<1>5. AbstractFree' \subseteq Managed
  BY <1>1, <1>2, <1>3, ManagedParts DEF RInv
<1>6. OnlyManaged'
  BY <1>2, <1>5, ManagedStep, NoJobFacts DEF RInv
<1>7. ReturnedInside' /\ ChoiceHolds'
  BY <1>2, NoJobFacts DEF ReturnedInside, ChoiceHolds
<1>8. Allocator!AbstractNext
  <2>1. asked = 0
    BY <1>2, Parts DEF RInv, CallsConsistent
  <2>2. QED
    BY <1>1, <1>2, <1>3, <2>1, GiveStep DEF Returned
<1>9. QED
  BY <1>4, <1>6, <1>7, <1>8 DEF RestHolds, AbstractStep

\* The steps between two calls, which only move the boot walk or a region loop on.
LEMMA BetweenCallsRest ==
    ASSUME RInv, job = NoJob,
           UNCHANGED <<free_lists, used_memory, free_memory, job, owned, ret, asked>>,
           boot' \subseteq boot,
           \/ loop' = loop \/ loop'.op # "free"
           \/ loop'.next..(loop'.end - 1) \subseteq Managed \cup {0}
    PROVE  RestHolds' /\ AbstractStep
<1>1. AbstractFree' = AbstractFree
  BY DEF AbstractFree, FreePages, FreeBlocks
<1>2. AbstractFree' \subseteq Managed
  BY <1>1, ManagedParts DEF RInv
<1>3. job'.op = "idle"
  BY NoJobFacts
<1>4. OnlyManaged'
  BY <1>2, <1>3, ManagedStep DEF RInv
<1>5. ReturnedInside' /\ ChoiceHolds' /\ Counted'
  BY <1>1, <1>3 DEF ReturnedInside, ChoiceHolds, Counted, RInv
<1>6. QED
  BY <1>1, <1>4, <1>5 DEF RestHolds, AbstractStep

LEMMA BootFreesRest ==
    ASSUME RInv, NEW p \in Pages, NEW o \in Orders, initialize_buddy_free(p, o)
    PROVE  RestHolds' /\ AbstractStep
<1>1. /\ job = NoJob /\ Aligned(p, o) /\ Block(p, o) \subseteq boot /\ start_free(p, o)
      /\ boot' = boot \ Block(p, o)
      /\ UNCHANGED <<free_lists, buddy_map, used_memory, free_memory, initialized_buddy,
                     loop, owned, ret, asked>>
  BY DEF initialize_buddy_free, walk_may_free, Idle
<1>2. job'.op = "free" /\ job'.pfn = p /\ job'.ord = o
  BY <1>1 DEF start_free
<1>3. AbstractFree' = AbstractFree /\ ReturnedInside'
  BY <1>1, FreeBegins
<1>4. Block(p, o) \subseteq Managed /\ AbstractFree' \subseteq Managed
  BY <1>1, <1>3, ManagedParts DEF RInv
<1>5. OnlyManaged'
  BY <1>1, <1>2, <1>4, ManagedStep DEF RInv
<1>6. ChoiceHolds' /\ Counted'
  BY <1>1, <1>2, <1>3 DEF ChoiceHolds, Counted, RInv
<1>7. QED
  BY <1>1, <1>3, <1>5, <1>6 DEF RestHolds, AbstractStep

LEMMA PageFreeIs ==
    ASSUME ListsOK
    PROVE  \A x : is_page_free(x) <=> x \in FreePages
<1>1. \A x \in FreePages : is_page_free(x)
  BY ListedPages DEF is_page_free
<1>2. ASSUME NEW x, is_page_free(x) PROVE x \in FreePages
  BY <1>2, ListedPages DEF is_page_free
<1>3. QED
  BY <1>1, <1>2

\* The choice of a low page or of the page mark_region_used has come to.
LEMMA SpecificStartsRest ==
    ASSUME RInv, job = NoJob, NEW target, allocate_specific_page(target),
           UNCHANGED <<used_memory, free_memory, boot, owned, ret, asked>>,
           \/ /\ loop' = loop /\ target \in LowPages
              /\ \A q \in FreePages \cap LowPages : target <= q
           \/ loop'.op = "used"
    PROVE  RestHolds' /\ AbstractStep
<1> PICK k \in Orders : \E p \in free_lists[k] :
         /\ target \in Block(p, k)
         /\ free_lists' = list_remove(p, k)
         /\ buddy_map' = toggle_buddy_bit(p, k)
         /\ job' = [op |-> "specific", pfn |-> p, ord |-> k, want |-> 0, target |-> target]
  BY DEF allocate_specific_page
<1> PICK p \in free_lists[k] :
         /\ target \in Block(p, k)
         /\ free_lists' = list_remove(p, k)
         /\ buddy_map' = toggle_buddy_bit(p, k)
         /\ job' = [op |-> "specific", pfn |-> p, ord |-> k, want |-> 0, target |-> target]
  OBVIOUS
<1>1. job'.op = "specific" /\ job'.pfn = p /\ job'.ord = k /\ job'.target = target
  OBVIOUS
<1>2. AbstractFree' = AbstractFree /\ AbstractFree = FreePages
  BY <1>1, TakeKeeps DEF RInv
<1>3. AbstractFree' \subseteq Managed
  BY <1>2, ManagedParts DEF RInv
<1>4. OnlyManaged'
  BY <1>1, <1>3, ManagedStep DEF RInv
<1>5. ReturnedInside' /\ Counted'
  BY <1>1, <1>2 DEF ReturnedInside, Counted, RInv
<1>6. ChoiceHolds'
  BY <1>1, <1>2 DEF ChoiceHolds
<1>7. QED
  BY <1>2, <1>4, <1>5, <1>6 DEF RestHolds, AbstractStep

LEMMA LowStartsRest ==
    ASSUME RInv, alloc_page_below_1mib
    PROVE  RestHolds' /\ AbstractStep
<1> DEFINE low == {p \in LowPages : is_page_free(p)}
<1>1. /\ job = NoJob /\ loop = NoLoop /\ asked = 0
      /\ UNCHANGED <<used_memory, free_memory, initialized_buddy, boot, loop, owned, asked>>
  BY DEF alloc_page_below_1mib, Idle
<1>2. low = FreePages \cap LowPages
  BY Parts, PageFreeIs DEF RInv
<1>3. ASSUME low = {}, ret' = 0, UNCHANGED <<free_lists, buddy_map, job>>
      PROVE  RestHolds' /\ AbstractStep
  <2>1. AbstractFree' = AbstractFree /\ AbstractFree = FreePages
    BY <1>1, <1>3, AbstractFreeCases, NoJobFacts DEF AbstractFree, FreePages, FreeBlocks
  <2>2. Allocator!AbstractNext
    BY <1>1, <1>2, <1>3, <2>1, RefuseLowStep
  <2>3. RestHolds'
    <3>1. job'.op = "idle"
      BY <1>1, <1>3, NoJobFacts
    <3>2. AbstractFree' \subseteq Managed
      BY <2>1, ManagedParts DEF RInv
    <3>3. OnlyManaged'
      BY <1>1, <1>3, <3>1, <3>2, ManagedStep DEF RInv
    <3>4. ReturnedInside' /\ ChoiceHolds' /\ Counted'
      BY <1>1, <2>1, <3>1 DEF ReturnedInside, ChoiceHolds, Counted, RInv
    <3>5. QED
      BY <3>3, <3>4 DEF RestHolds
  <2>4. QED
    BY <2>2, <2>3 DEF AbstractStep
<1>4. ASSUME NEW page \in low, \A q \in low : page <= q, allocate_specific_page(page),
             UNCHANGED ret
      PROVE  RestHolds' /\ AbstractStep
  BY <1>1, <1>2, <1>4, SpecificStartsRest
<1>5. QED
  BY <1>3, <1>4 DEF alloc_page_below_1mib

\* A region that is to be freed holds managed pages, and perhaps page 0.
LEMMA MarkStartsRest ==
    ASSUME RInv,
           \/ \E r \in MarkRegions : mark_region_used(r)
           \/ \E r \in MarkRegions : mark_region_free(r)
           \/ reclaim_acpi_memory
    PROVE  RestHolds' /\ AbstractStep
<1>1. ASSUME NEW op, NEW r, start_loop(op, r),
             op # "free" \/ RegionPages(r) \subseteq Managed \cup {0}
      PROVE  RestHolds' /\ AbstractStep
  <2>1. /\ job = NoJob /\ loop' = [op |-> op, next |-> r[1], end |-> r[2]]
        /\ UNCHANGED <<free_lists, buddy_map, used_memory, free_memory, initialized_buddy,
                       boot, job, owned, ret, asked>>
    BY <1>1 DEF start_loop, Idle
  <2>2. loop'.op # "free" \/ loop'.next..(loop'.end - 1) \subseteq Managed \cup {0}
    BY <1>1, <2>1 DEF RegionPages
  <2>3. QED
    BY <2>1, <2>2, BetweenCallsRest
<1>2. ASSUME NEW r \in MarkRegions, mark_region_used(r) PROVE RestHolds' /\ AbstractStep
  BY <1>1, <1>2 DEF mark_region_used
<1>3. ASSUME NEW r \in MarkRegions, mark_region_free(r) PROVE RestHolds' /\ AbstractStep
  <2>1. ASSUME NEW p \in RegionPages(r) PROVE p \in Managed \cup {0}
    <3>1. p = 0 \/ is_page_free(p) \/ <<p, 0>> \in owned
      BY <1>3 DEF mark_region_free
    <3>2. is_page_free(p) => p \in Managed
      BY Parts, PageFreeIs, ManagedParts DEF RInv
    <3>3. ASSUME <<p, 0>> \in owned PROVE p \in Managed
      <4>1. <<p, 0>> \in Pages \X Orders
        BY <3>3, Parts DEF RInv, TypeOK
      <4>2. <<p, 0>>[1] = p
        OBVIOUS
      <4>3. p \in Extent(<<p, 0>>)
        BY <4>1, <4>2, ExtentNonempty
      <4>4. QED
        BY <3>3, <4>3, ManagedParts DEF RInv
    <3>4. QED
      BY <3>1, <3>2, <3>3
  <2>2. start_loop("free", r)
    BY <1>3 DEF mark_region_free
  <2>3. QED
    BY <1>1, <2>1, <2>2
<1>4. ASSUME reclaim_acpi_memory PROVE RestHolds' /\ AbstractStep
  BY <1>1, <1>4 DEF reclaim_acpi_memory, Managed
<1>5. QED
  BY <1>2, <1>3, <1>4

LEMMA MarkUsedRest ==
    ASSUME RInv, mark_used_page
    PROVE  RestHolds' /\ AbstractStep
<1>1. /\ loop.op = "used" /\ job = NoJob /\ loop' = [loop EXCEPT !.next = loop.next + 1]
      /\ UNCHANGED <<used_memory, free_memory, initialized_buddy, boot, owned, ret, asked>>
      /\ \/ allocate_specific_page(loop.next)
         \/ UNCHANGED <<free_lists, buddy_map, job>>
  BY DEF mark_used_page, next_page
<1>2. loop'.op = "used"
  BY <1>1, Parts DEF RInv, TypeOK
<1>3. QED
  BY <1>1, <1>2, SpecificStartsRest, BetweenCallsRest

LEMMA MarkFreeRest ==
    ASSUME RInv, mark_free_page
    PROVE  RestHolds' /\ AbstractStep
<1> DEFINE n == loop.next
<1>1. /\ loop.op = "free" /\ n < loop.end /\ job = NoJob
      /\ loop' = [loop EXCEPT !.next = n + 1]
      /\ UNCHANGED <<free_lists, buddy_map, used_memory, free_memory, initialized_buddy,
                     boot, ret, asked>>
      /\ \/ UNCHANGED <<job, owned>>
         \/ ~left_alone(n) /\ start_free(n, 0) /\ owned' = owned \ {<<n, 0>>}
  BY DEF mark_free_page, next_page
<1>2. TypeOK /\ n \in Nat /\ loop.end \in Nat
  BY Parts DEF RInv, TypeOK
<1>3. loop'.op = "free" /\ loop'.next = n + 1 /\ loop'.end = loop.end
  BY <1>1, <1>2 DEF TypeOK
<1>4. n..(loop.end - 1) \subseteq Managed \cup {0}
  BY <1>1 DEF RInv, OnlyManaged
<1>5. loop'.next..(loop'.end - 1) \subseteq Managed \cup {0}
  BY <1>2, <1>3, <1>4
<1>6. CASE UNCHANGED <<job, owned>>
  BY <1>1, <1>5, <1>6, BetweenCallsRest
<1>7. ASSUME ~left_alone(n), start_free(n, 0), owned' = owned \ {<<n, 0>>}
      PROVE  RestHolds' /\ AbstractStep
  <2>1. job'.op = "free" /\ job'.pfn = n /\ job'.ord = 0
    BY <1>7 DEF start_free
  <2>2. Pow2[0] = 1
    BY Pow2Assumption
  <2>3. Aligned(n, 0) /\ Block(n, 0) = {n}
    BY <1>2, <2>2 DEF Aligned, Block
  <2>4. n \in Managed
    BY <1>1, <1>2, <1>4, <1>7 DEF left_alone
  <2>5. AbstractFree' = AbstractFree /\ ReturnedInside'
    BY <1>1, <1>7, <2>3, FreeBegins
  <2>6. AbstractFree' \subseteq Managed
    BY <2>5, ManagedParts DEF RInv
  <2>7. OnlyManaged'
    BY <1>1, <1>5, <1>7, <2>1, <2>3, <2>4, <2>6, ManagedStep DEF RInv
  <2>8. ChoiceHolds' /\ Counted'
    BY <1>1, <2>1, <2>5 DEF ChoiceHolds, Counted, RInv
  <2>9. QED
    BY <1>1, <2>5, <2>7, <2>8 DEF RestHolds, AbstractStep
<1>8. QED
  BY <1>1, <1>6, <1>7

-----------------------------------------------------------------------------
(* The theorems.                                                           *)

LEMMA RInit == Init => RInv /\ AbstractFree = {} /\ asked = 0 /\ ret = 0
<1> SUFFICES ASSUME Init PROVE RInv /\ AbstractFree = {} /\ asked = 0 /\ ret = 0
  OBVIOUS
<1>1. IInv
  BY InitInvariant
<1>2. /\ free_lists = [o \in Orders |-> {}] /\ job = NoJob /\ loop = NoLoop /\ owned = {}
      /\ boot = Usable /\ used_memory = TotalPages /\ free_memory = 0 /\ ret = 0 /\ asked = 0
  BY DEF Init
<1>3. FreeBlocks = {}
  BY <1>2 DEF FreeBlocks
<1>4. FreePages = {} /\ AbstractFree = {}
  BY <1>2, <1>3, AbstractFreeCases, NoJobFacts DEF FreePages, PagesOf
<1>5. PagesOf(AllBlocks) = {}
  BY <1>2, <1>3, NoJobFacts DEF PagesOf, AllBlocks, JobBlocks
<1>6. Counted
  BY <1>2, <1>4, FS_EmptySet, TotalAssumption DEF Counted
<1>7. ReturnedInside /\ ChoiceHolds
  BY <1>2, NoJobFacts DEF ReturnedInside, ChoiceHolds
<1>8. OnlyManaged
  BY <1>2, <1>5, NoJobFacts DEF OnlyManaged, Managed
<1>9. QED
  BY <1>1, <1>2, <1>4, <1>6, <1>7, <1>8 DEF RInv

LEMMA RStep == RInv /\ [Next]_vars => RestHolds' /\ AbstractStep
<1> SUFFICES ASSUME RInv, [Next]_vars PROVE RestHolds' /\ AbstractStep
  OBVIOUS
<1>1. ASSUME NEW num \in 1..MaxRequest, alloc_pages(num) PROVE RestHolds' /\ AbstractStep
  BY <1>1, AllocStartsRest
<1>2. CASE alloc_pages_pop
  BY <1>2, AllocPopsRest
<1>22. CASE alloc_pages_fail
  BY <1>22, AllocRefusedRest
<1>3. CASE alloc_pages_split
  BY <1>3, AllocSplitsRest
<1>4. CASE alloc_pages_done
  BY <1>4, AllocReturnsRest
<1>5. CASE allocate_specific_split
  BY <1>5, SpecificSplitsRest
<1>6. CASE allocate_specific_done
  BY <1>6, SpecificReturnsRest
<1>7. CASE alloc_page_below_1mib
  BY <1>7, LowStartsRest
<1>8. ASSUME NEW b \in owned, free_pages(b) PROVE RestHolds' /\ AbstractStep
  BY <1>8, FreeStartsRest
<1>9. CASE free_pages_merge
  BY <1>9, FreeMergesRest
<1>10. CASE free_pages_insert
  BY <1>10, FreeInsertsRest
<1>11. ASSUME NEW p \in Pages, NEW o \in Orders, initialize_buddy_free(p, o)
       PROVE  RestHolds' /\ AbstractStep
  BY <1>11, BootFreesRest
<1>12. ASSUME NEW r \in EarlyRanges, early_reserve(r) PROVE RestHolds' /\ AbstractStep
  BY <1>12, BetweenCallsRest DEF early_reserve, Idle
<1>13. CASE initialize_buddy_end
  BY <1>13, BetweenCallsRest DEF initialize_buddy_end, Idle
<1>14. CASE \/ \E r \in MarkRegions : mark_region_used(r)
            \/ \E r \in MarkRegions : mark_region_free(r)
            \/ reclaim_acpi_memory
  BY <1>14, MarkStartsRest
<1>15. CASE mark_used_page
  BY <1>15, MarkUsedRest
<1>16. CASE mark_free_page
  BY <1>16, MarkFreeRest
<1>17. CASE mark_region_end
  BY <1>17, BetweenCallsRest, NoJobFacts DEF mark_region_end
<1>18. CASE UNCHANGED vars
  <2>1. AbstractFree' = AbstractFree /\ asked' = asked /\ ret' = ret
    BY <1>18 DEF vars, AbstractFree, FreePages, FreeBlocks
  <2>2. RestHolds'
    BY <1>18, <2>1
       DEF vars, RInv, RestHolds, ReturnedInside, Returned, ChoiceHolds, Counted, OnlyManaged,
           AllBlocks, FreeBlocks, JobBlocks
  <2>3. QED
    BY <2>1, <2>2 DEF AbstractStep
<1>19. QED
  BY <1>1, <1>2, <1>22, <1>3, <1>4, <1>5, <1>6, <1>7, <1>8, <1>9, <1>10, <1>11, <1>12, <1>13,
     <1>14, <1>15, <1>16, <1>17, <1>18 DEF Next

THEOREM RefinementInvariant == Spec => []RInv
<1>1. RInv /\ [Next]_vars => RInv'
  BY RStep, NextInvariant DEF RInv, RestHolds
<1>2. QED
  BY <1>1, RInit, PTL DEF Spec

\* free_memory is the number of listed pages whenever no call runs, used_memory what
\* is left of total_memory, and neither falls below zero, whatever is allocated, freed,
\* marked or reclaimed.
THEOREM CountersAlwaysExact == Spec => []CountersExact
<1>1. RInv => CountersExact
  <2> SUFFICES ASSUME RInv, Idle
               PROVE  /\ free_memory = Cardinality(FreePages)
                      /\ used_memory = TotalPages - free_memory
                      /\ used_memory >= 0
    BY DEF CountersExact
  <2>1. AbstractFree = FreePages
    BY AbstractFreeCases, NoJobFacts DEF Idle
  <2>2. IsFiniteSet(Usable) /\ IsFiniteSet(RegionPages(Acpi))
    <3>1. IsFiniteSet(Pages)
      BY FS_Interval, PagesAssumption DEF Pages
    <3>2. Usable \subseteq Pages /\ RegionPages(Acpi) \subseteq Pages
      BY UsableAssumption, RegionAssumption
    <3>3. QED
      BY <3>1, <3>2, FS_Subset
  <2>3. IsFiniteSet(Managed)
        /\ Cardinality(Managed) <= Cardinality(Usable) + Cardinality(RegionPages(Acpi))
    <3>1. IsFiniteSet(Usable \cap RegionPages(Acpi))
      BY <2>2, FS_Subset
    <3>2. /\ Cardinality(Usable) \in Nat /\ Cardinality(RegionPages(Acpi)) \in Nat
          /\ Cardinality(Usable \cap RegionPages(Acpi)) \in Nat
      BY <2>2, <3>1, FS_CardinalityType
    <3>3. /\ IsFiniteSet(Managed)
          /\ Cardinality(Managed) = Cardinality(Usable) + Cardinality(RegionPages(Acpi))
                                      - Cardinality(Usable \cap RegionPages(Acpi))
      BY <2>2, FS_Union DEF Managed
    <3>4. QED
      BY <3>2, <3>3
  <2>4. AbstractFree \subseteq Managed
    BY ManagedParts DEF RInv
  <2>5. Cardinality(AbstractFree) <= Cardinality(Managed)
    BY <2>3, <2>4, FS_Subset
  <2>6. /\ Cardinality(AbstractFree) \in Nat /\ Cardinality(Managed) \in Nat
        /\ Cardinality(Usable) \in Nat /\ Cardinality(RegionPages(Acpi)) \in Nat
    BY <2>2, <2>3, AbstractFreePages, FS_CardinalityType DEF RInv
  <2>7. Cardinality(AbstractFree) <= TotalPages
    BY <2>3, <2>5, <2>6, TotalAssumption, TotalCovers
  <2>8. free_memory = Cardinality(AbstractFree) /\ used_memory = TotalPages - free_memory
    BY DEF RInv, Counted
  <2>9. QED
    BY <2>1, <2>6, <2>7, <2>8, TotalAssumption
<1>2. QED
  BY <1>1, RefinementInvariant, PTL

\* The lists, the bitmap and the loops over them implement the abstract allocator:
\* alloc_pages answers a best fit and refuses only what no aligned run of free pages
\* could hold, a low page is the lowest, and a block given back is free whole.
THEOREM ListsImplementAllocator == Spec => ImplementsPageAllocator
<1>1. Init => Allocator!AbstractInit
  BY RInit DEF Allocator!AbstractInit
<1>2. RInv /\ [Next]_vars => [Allocator!AbstractNext]_<<AbstractFree, asked, ret>>
  BY RStep DEF AbstractStep
<1>3. QED
  BY <1>1, <1>2, RefinementInvariant, PTL
     DEF Spec, ImplementsPageAllocator, Allocator!AbstractSpec

-----------------------------------------------------------------------------
(* The boot sequence: the bump allocator and the walk, for every memory    *)
(* map, page size and sequence of early requests.  Addresses that are      *)
(* multiples of the page size are replaced by page numbers first; what     *)
(* remains is linear.                                                      *)

\* The pages of an entry, from the first whole one to the one after the last.
FirstPage(i) == (UsableEntries[i].addr + PageSize - 1) \div PageSize
EndPage(i)   == EntryEnd(UsableEntries[i]) \div PageSize
EntryPages(i) == FirstPage(i)..(EndPage(i) - 1)

\* The page the walk is at and the ones the reserved ranges are made of.
PageAt(a) == a \div PageSize
KernelFirst == PageAt(KernelStart)
ReservedEnd == PageAt(kernel_mbi_end)

\* The pages the walk has to free once the bump pointer stands still, and those of
\* the entries that are at or behind address p of entry i.
Due == Usable \ SkippedPages(bump_ptr_phys)
Ahead(i, p) ==
    {q \in Pages : \E j \in DOMAIN UsableEntries :
        q \in EntryPages(j) /\ (j > i \/ (j = i /\ q >= PageAt(p)))}

-----------------------------------------------------------------------------
(* Addresses and page numbers.                                             *)

LEMMA SizeType == PageSize \in Nat \ {0} /\ PageSize \in Int
BY BootAssumption

\* Multiples of the page size are ordered as their page numbers.
LEMMA Scale ==
    ASSUME NEW d \in Nat \ {0}, NEW a \in Int, NEW b \in Int
    PROVE  /\ a * d <= b * d <=> a <= b
           /\ a * d < b * d <=> a < b
           /\ (a + b) * d = a * d + b * d
           /\ a * d \in Int
<1>1. a * d \in Int /\ b * d \in Int /\ (a + b) * d = a * d + b * d
  OBVIOUS
<1>2. a <= b => a * d <= b * d
  OBVIOUS
<1>3. a < b => a * d < b * d
  OBVIOUS
<1>4. QED
  BY <1>1, <1>2, <1>3

LEMMA PageOfMultiple ==
    ASSUME NEW k \in Nat
    PROVE  PageAt(k * PageSize) = k /\ k * PageSize \in Nat /\ (k * PageSize) % PageSize = 0
<1>1. k * PageSize \in Nat
  BY SizeType
<1>2. QED
  BY <1>1, SizeType, MultipleFacts DEF PageAt

LEMMA MultipleOfPage ==
    ASSUME NEW a \in Nat, a % PageSize = 0
    PROVE  PageAt(a) \in Nat /\ a = PageAt(a) * PageSize
BY SizeType, DivModFacts DEF PageAt

\* The quotient of a number bounds it from both sides.
LEMMA QuotientBounds ==
    ASSUME NEW d \in Nat \ {0}, NEW a \in Nat
    PROVE  /\ a \div d \in Nat
           /\ (a \div d) * d <= a
           /\ a < (a \div d) * d + d
OBVIOUS

LEMMA RoundUp ==
    ASSUME NEW a \in Nat
    PROVE  /\ (a + PageSize - 1) \div PageSize \in Nat
           /\ align_up(a) = ((a + PageSize - 1) \div PageSize) * PageSize
           /\ align_up(a) \in Nat /\ a <= align_up(a) /\ align_up(a) < a + PageSize
           /\ PageAt(align_up(a)) = (a + PageSize - 1) \div PageSize
           /\ align_up(a) % PageSize = 0
<1> DEFINE k == (a + PageSize - 1) \div PageSize
<1>1. a + PageSize - 1 \in Nat
  BY SizeType
<1>2. k \in Nat /\ k * PageSize <= a + PageSize - 1 /\ a + PageSize - 1 < k * PageSize + PageSize
  BY <1>1, SizeType, QuotientBounds
<1>3. align_up(a) = k * PageSize
  BY DEF align_up
<1> HIDE DEF k
<1>4. k * PageSize \in Nat /\ PageAt(k * PageSize) = k /\ (k * PageSize) % PageSize = 0
  BY <1>2, PageOfMultiple
<1>5. a <= k * PageSize /\ k * PageSize < a + PageSize
  BY <1>2, <1>4, SizeType
<1>6. QED
  BY <1>2, <1>3, <1>4, <1>5 DEF k

LEMMA RoundDown ==
    ASSUME NEW a \in Nat
    PROVE  /\ PageAt(a) \in Nat
           /\ align_down(a) = PageAt(a) * PageSize
           /\ align_down(a) \in Nat /\ align_down(a) <= a /\ a < align_down(a) + PageSize
           /\ PageAt(align_down(a)) = PageAt(a)
<1>1. /\ PageAt(a) \in Nat /\ PageAt(a) * PageSize <= a
      /\ a < PageAt(a) * PageSize + PageSize
  BY SizeType, QuotientBounds DEF PageAt
<1>2. PageAt(a) * PageSize \in Nat /\ PageAt(PageAt(a) * PageSize) = PageAt(a)
  BY <1>1, PageOfMultiple
<1>3. align_down(a) = PageAt(a) * PageSize
  BY DEF align_down, PageAt
<1>4. QED
  BY <1>1, <1>2, <1>3

-----------------------------------------------------------------------------
(* The memory map, the kernel and the Multiboot data in pages.             *)

LEMMA EntryFacts ==
    /\ DOMAIN UsableEntries \subseteq Nat \ {0}
    /\ \A i \in Nat \ {0} : i \notin DOMAIN UsableEntries => \A j \in DOMAIN UsableEntries : j < i
    /\ \A i \in DOMAIN UsableEntries :
          /\ UsableEntries[i].addr \in Nat /\ EntryEnd(UsableEntries[i]) \in Nat
          /\ EntryEnd(UsableEntries[i]) <= NumPages * PageSize
<1>1. UsableEntries \in Seq([addr : Nat, len : Nat, usable : BOOLEAN])
  BY MmapAssumption
<1> DEFINE n == Len(UsableEntries)
<1>2. DOMAIN UsableEntries = 1..n /\ n \in Nat
  BY <1>1
<1>3. ASSUME NEW i \in DOMAIN UsableEntries
      PROVE  UsableEntries[i].addr \in Nat /\ EntryEnd(UsableEntries[i]) \in Nat
  <2>1. UsableEntries[i] \in [addr : Nat, len : Nat, usable : BOOLEAN]
    BY <1>1, <1>2, ElementOfSeq
  <2>2. UsableEntries[i].addr \in Nat /\ UsableEntries[i].len \in Nat
    BY <2>1
  <2>3. QED
    BY <2>2 DEF EntryEnd
<1>4. \A i \in DOMAIN UsableEntries : EntryEnd(UsableEntries[i]) <= NumPages * PageSize
  BY WalkAssumption
<1> HIDE DEF n
<1>5. QED
  BY <1>2, <1>3, <1>4

LEMMA EntryRanges ==
    ASSUME NEW i \in DOMAIN UsableEntries
    PROVE  /\ FirstPage(i) \in Nat /\ EndPage(i) \in Nat /\ EndPage(i) <= NumPages
           /\ align_up(UsableEntries[i].addr) = FirstPage(i) * PageSize
           /\ PageAt(align_up(UsableEntries[i].addr)) = FirstPage(i)
           /\ align_down(EntryEnd(UsableEntries[i])) = EndPage(i) * PageSize
           /\ PagesIn(align_up(UsableEntries[i].addr), align_down(EntryEnd(UsableEntries[i])))
                  = EntryPages(i)
           /\ EntryPages(i) \subseteq Pages
<1> DEFINE e == UsableEntries[i]
<1>1. /\ e.addr \in Nat /\ EntryEnd(e) \in Nat /\ EntryEnd(e) <= NumPages * PageSize
  BY EntryFacts
<1>2. /\ FirstPage(i) \in Nat /\ align_up(e.addr) = FirstPage(i) * PageSize
      /\ PageAt(align_up(e.addr)) = FirstPage(i)
  BY <1>1, RoundUp DEF FirstPage
<1>3. /\ EndPage(i) \in Nat /\ align_down(EntryEnd(e)) = EndPage(i) * PageSize
      /\ EndPage(i) * PageSize <= EntryEnd(e) /\ PageAt(align_down(EntryEnd(e))) = EndPage(i)
  BY <1>1, RoundDown DEF EndPage, PageAt
<1>4. EndPage(i) <= NumPages
  <2>1. NumPages \in Int /\ EndPage(i) \in Int
    BY <1>3, PagesAssumption
  <2>2. EndPage(i) * PageSize \in Int /\ NumPages * PageSize \in Int
    BY <2>1, SizeType
  <2>3. EndPage(i) * PageSize <= NumPages * PageSize
    BY <1>1, <1>3, <2>2
  <2>4. QED
    BY <2>1, <2>3, SizeType, Scale
<1>5. PagesIn(align_up(e.addr), align_down(EntryEnd(e))) = EntryPages(i)
  BY <1>2, <1>3 DEF PagesIn, PageAt, EntryPages
<1>6. EntryPages(i) \subseteq Pages
  BY <1>2, <1>3, <1>4, PagesAssumption DEF EntryPages, Pages
<1>7. QED
  BY <1>2, <1>3, <1>4, <1>5, <1>6

\* A page lies wholly in one entry only.
LEMMA EntriesApart ==
    ASSUME NEW i \in DOMAIN UsableEntries, NEW j \in DOMAIN UsableEntries, i # j
    PROVE  EntryPages(i) \cap EntryPages(j) = {}
<1>1. SUFFICES ASSUME NEW k \in DOMAIN UsableEntries, NEW l \in DOMAIN UsableEntries, k # l,
                      EntryEnd(UsableEntries[k]) <= UsableEntries[l].addr,
                      NEW q \in EntryPages(k), q \in EntryPages(l)
               PROVE  FALSE
  <2>1. i < j \/ j < i
    BY EntryFacts
  <2>2. \/ EntryEnd(UsableEntries[i]) <= UsableEntries[j].addr
        \/ EntryEnd(UsableEntries[j]) <= UsableEntries[i].addr
    BY <2>1, MmapAssumption
  <2>3. QED
    BY <1>1, <2>2
<1>2. /\ FirstPage(l) \in Nat /\ EndPage(k) \in Nat
      /\ align_up(UsableEntries[l].addr) = FirstPage(l) * PageSize
      /\ align_down(EntryEnd(UsableEntries[k])) = EndPage(k) * PageSize
  BY EntryRanges
<1>3. /\ FirstPage(l) <= q /\ q < EndPage(k) /\ q \in Int
  <2>1. FirstPage(k) \in Nat /\ EndPage(l) \in Nat
    BY EntryRanges
  <2>2. QED
    BY <1>1, <1>2, <2>1 DEF EntryPages
<1>4. /\ UsableEntries[l].addr <= FirstPage(l) * PageSize
      /\ EndPage(k) * PageSize <= EntryEnd(UsableEntries[k])
      /\ UsableEntries[l].addr \in Nat /\ EntryEnd(UsableEntries[k]) \in Nat
  BY <1>2, EntryFacts, RoundUp, RoundDown
<1>5. EndPage(k) * PageSize <= FirstPage(l) * PageSize
  <2>1. EndPage(k) * PageSize \in Int /\ FirstPage(l) * PageSize \in Int
    BY <1>2, SizeType
  <2>2. QED
    BY <1>1, <1>4, <2>1
<1>6. EndPage(k) <= FirstPage(l)
  BY <1>2, <1>5, SizeType, Scale
<1>7. QED
  BY <1>2, <1>3, <1>6

\* Where the kernel and the Multiboot data begin and end.
LEMMA ReservedFacts ==
    /\ KernelFirst \in Nat /\ KernelStart = KernelFirst * PageSize
    /\ ReservedEnd \in Nat /\ kernel_mbi_end = ReservedEnd * PageSize
    /\ highest_reserved_phys \in Nat /\ KernelEnd <= highest_reserved_phys
    /\ highest_reserved_phys <= kernel_mbi_end
    /\ kernel_mbi_end < highest_reserved_phys + PageSize
    /\ KernelFirst < ReservedEnd /\ ReservedEnd > 0
    /\ PagesIn(KernelStart, kernel_mbi_end) = KernelFirst..(ReservedEnd - 1)
<1>1. KernelStart \in Nat /\ KernelEnd \in Nat /\ MbiEnd \in Nat
      /\ KernelStart % PageSize = 0 /\ KernelStart < KernelEnd
  BY BootAssumption
<1>2. KernelFirst \in Nat /\ KernelStart = KernelFirst * PageSize
  BY <1>1, MultipleOfPage DEF KernelFirst
<1>3. highest_reserved_phys \in Nat /\ KernelEnd <= highest_reserved_phys
  BY <1>1 DEF highest_reserved_phys, LargerOf
<1>4. /\ ReservedEnd \in Nat /\ kernel_mbi_end = ReservedEnd * PageSize
      /\ highest_reserved_phys <= kernel_mbi_end
      /\ kernel_mbi_end < highest_reserved_phys + PageSize /\ kernel_mbi_end \in Nat
  BY <1>3, RoundUp DEF kernel_mbi_end, ReservedEnd
<1>5. KernelFirst < ReservedEnd
  <2>1. KernelFirst * PageSize < ReservedEnd * PageSize
    BY <1>1, <1>2, <1>3, <1>4
  <2>2. QED
    BY <1>2, <1>4, <2>1, SizeType, Scale
<1>6. QED
  BY <1>2, <1>3, <1>4, <1>5 DEF PagesIn, KernelFirst, ReservedEnd, PageAt

LEMMA UsablePages ==
    \A q : q \in Usable <=> /\ \E i \in DOMAIN UsableEntries : q \in EntryPages(i)
                            /\ q # 0 /\ q \notin KernelFirst..(ReservedEnd - 1)
<1>1. \A i \in DOMAIN UsableEntries :
         PagesIn(align_up(UsableEntries[i].addr), align_down(EntryEnd(UsableEntries[i])))
             = EntryPages(i)
  BY EntryRanges
<1>2. PagesIn(KernelStart, kernel_mbi_end) = KernelFirst..(ReservedEnd - 1)
  BY ReservedFacts
<1>3. Usable = (UNION {EntryPages(i) : i \in DOMAIN UsableEntries})
                   \ ({0} \cup (KernelFirst..(ReservedEnd - 1)))
  <2>1. {PagesIn(align_up(UsableEntries[i].addr), align_down(EntryEnd(UsableEntries[i]))) :
            i \in DOMAIN UsableEntries} = {EntryPages(i) : i \in DOMAIN UsableEntries}
    BY ONLY <1>1
  <2>2. QED
    BY <1>2, <2>1, WalkAssumption DEF WalkedPages
<1>4. QED
  BY ONLY <1>3

-----------------------------------------------------------------------------
(* The bump allocator.                                                     *)

\* The sizes the next call of alloc_pages_bump may have.
Requests == (IF Len(bumped) < MaxEarlyCalls THEN BumpSizes ELSE {}) \cup {bitmap_pages}

\* The search never goes back to a region that starts before the bump pointer.
NoRewind ==
    phase = "bump" =>
        \A num \in Requests : \A r \in bump_region(num * PageSize) : bump_ptr_phys <= r.start

BumpInv ==
    /\ bump_ptr_phys \in Nat /\ bump_ptr_phys % PageSize = 0
    /\ bump_region_end_phys \in Nat
    /\ bump_ptr_phys <= bump_region_end_phys /\ bump_region_end_phys <= NumPages * PageSize
    /\ bump_ptr_phys = 0 \/ kernel_mbi_end <= bump_ptr_phys
    /\ bumped \in Seq(SUBSET Pages)
    /\ BumpHandsOutOnce
    /\ BumpedPages \subseteq SkippedPages(bump_ptr_phys)

LEMMA RequestType ==
    ASSUME NEW num \in Requests
    PROVE  num \in Nat \ {0} /\ num * PageSize \in Nat
<1>1. num \in Nat \ {0}
  BY BootAssumption, BitmapAssumption DEF Requests
<1>2. QED
  BY <1>1, SizeType

LEMMA SkippedRange ==
    \A a : SkippedPages(a) = ReservedEnd..(PageAt(a) - 1)
BY DEF SkippedPages, PagesIn, ReservedEnd, PageAt

LEMMA PagesInRange ==
    \A a, b : PagesIn(a, b) = PageAt(a)..(PageAt(b) - 1)
BY DEF PagesIn, PageAt

\* Multiples of the page size are ordered as their pages.
LEMMA PageOrder ==
    ASSUME NEW a \in Nat, NEW b \in Nat, a % PageSize = 0, b % PageSize = 0
    PROVE  /\ a <= b <=> PageAt(a) <= PageAt(b)
           /\ a < b <=> PageAt(a) < PageAt(b)
           /\ PageAt(a) \in Nat /\ PageAt(b) \in Nat
<1>1. /\ PageAt(a) \in Nat /\ a = PageAt(a) * PageSize
      /\ PageAt(b) \in Nat /\ b = PageAt(b) * PageSize
  BY MultipleOfPage
<1> DEFINE k == PageAt(a)
           l == PageAt(b)
<1>2. k \in Int /\ l \in Int
  BY <1>1
<1> HIDE DEF k, l
<1>3. (k * PageSize <= l * PageSize <=> k <= l) /\ (k * PageSize < l * PageSize <=> k < l)
  BY <1>2, SizeType, Scale
<1>4. QED
  BY <1>1, <1>3 DEF k, l

\* A region starts on a page boundary behind the kernel and the Multiboot data, and
\* the request fits it.
LEMMA StartFacts ==
    ASSUME NEW i \in DOMAIN UsableEntries
    PROVE  /\ BumpStart(UsableEntries[i]) \in Nat
           /\ BumpStart(UsableEntries[i]) % PageSize = 0
           /\ kernel_mbi_end <= BumpStart(UsableEntries[i])
<1> DEFINE a == LargerOf(UsableEntries[i].addr, highest_reserved_phys)
           k == (a + PageSize - 1) \div PageSize
<1>1. a \in Nat /\ highest_reserved_phys <= a
  BY EntryFacts, ReservedFacts DEF LargerOf
<1>2. /\ k \in Nat /\ align_up(a) = k * PageSize /\ align_up(a) \in Nat
      /\ a <= align_up(a) /\ align_up(a) % PageSize = 0
  BY <1>1, RoundUp
<1>3. BumpStart(UsableEntries[i]) = align_up(a)
  BY DEF BumpStart
<1> HIDE DEF a, k
<1>4. ReservedEnd * PageSize < (k + 1) * PageSize
  <2>1. (k + 1) * PageSize = k * PageSize + PageSize
    BY <1>2, SizeType
  <2>2. ReservedEnd * PageSize < highest_reserved_phys + PageSize
    BY ReservedFacts
  <2>3. ReservedEnd * PageSize \in Nat /\ highest_reserved_phys \in Nat
    BY ReservedFacts, SizeType
  <2>4. highest_reserved_phys <= k * PageSize /\ k * PageSize \in Nat
    BY <1>1, <1>2, ReservedFacts
  <2>5. QED
    BY <2>1, <2>2, <2>3, <2>4, SizeType
<1>5. ReservedEnd <= k
  <2>1. ReservedEnd \in Int /\ k + 1 \in Int
    BY <1>2, ReservedFacts
  <2>2. ReservedEnd < k + 1
    BY <1>4, <2>1, SizeType, Scale
  <2>3. QED
    BY <1>2, <2>1, <2>2
<1>6. ReservedEnd * PageSize <= k * PageSize
  BY <1>2, <1>5, ReservedFacts, SizeType, Scale
<1>7. QED
  BY <1>2, <1>3, <1>6, ReservedFacts

LEMMA RegionFacts ==
    ASSUME BumpInv, NEW size \in Nat, NEW r \in bump_region(size)
    PROVE  /\ r.start \in Nat /\ r.start % PageSize = 0 /\ kernel_mbi_end <= r.start
           /\ r.end \in Nat /\ r.end <= NumPages * PageSize
           /\ r.start + size <= r.end
<1>1. CASE ~(bump_ptr_phys = 0 \/ bump_ptr_phys + size > bump_region_end_phys)
  <2>1. r = [start |-> bump_ptr_phys, end |-> bump_region_end_phys]
    BY <1>1 DEF bump_region
  <2>2. QED
    BY <1>1, <2>1 DEF BumpInv
<1>2. CASE bump_ptr_phys = 0 \/ bump_ptr_phys + size > bump_region_end_phys
  <2>1. r \in find_bump_alloc_region(size)
    BY <1>2 DEF bump_region
  <2>2. PICK i \in DOMAIN UsableEntries :
           /\ region_fits(UsableEntries[i], size)
           /\ r = [start |-> BumpStart(UsableEntries[i]),
                   end   |-> IF EntryEnd(UsableEntries[i]) > EarlyLimit
                             THEN EarlyLimit ELSE EntryEnd(UsableEntries[i])]
    BY <2>1 DEF find_bump_alloc_region
  <2>3. /\ r.start = BumpStart(UsableEntries[i])
        /\ r.end \in {EarlyLimit, EntryEnd(UsableEntries[i])}
        /\ r.end <= EntryEnd(UsableEntries[i]) /\ r.end \in Nat
    BY <2>2, EntryFacts, BootAssumption
  <2>4. r.start + size <= r.end
    BY <2>2, <2>3 DEF region_fits
  <2>5. NumPages * PageSize \in Nat
    BY PagesAssumption, SizeType
  <2>6. QED
    BY <2>3, <2>4, <2>5, StartFacts, EntryFacts
<1>3. QED
  BY <1>1, <1>2

\* A request moves the pointer over exactly the pages it hands out.
LEMMA BumpTakes ==
    ASSUME BumpInv, NEW num \in Nat, NEW r \in bump_region(num * PageSize),
           bump_ptr_phys <= r.start,
           bump_ptr_phys' = r.start + num * PageSize,
           bump_region_end_phys' = r.end,
           bumped' = Append(bumped, PagesIn(r.start, r.start + num * PageSize))
    PROVE  /\ BumpInv' /\ bump_ptr_phys <= bump_ptr_phys'
           /\ bump_ptr_phys' \in 0..(NumPages * PageSize)
           /\ SkippedPages(bump_ptr_phys) \subseteq SkippedPages(bump_ptr_phys')
<1> DEFINE size == num * PageSize
           end == r.start + size
<1>1. size \in Nat /\ size % PageSize = 0 /\ NumPages * PageSize \in Nat
  BY PageOfMultiple, PagesAssumption, SizeType
<1>2. /\ r.start \in Nat /\ r.start % PageSize = 0 /\ kernel_mbi_end <= r.start
      /\ r.end \in Nat /\ r.end <= NumPages * PageSize /\ end <= r.end
  BY <1>1, RegionFacts
<1>3. /\ bump_ptr_phys \in Nat /\ bump_ptr_phys % PageSize = 0
      /\ bumped \in Seq(SUBSET Pages)
      /\ BumpHandsOutOnce /\ BumpedPages \subseteq SkippedPages(bump_ptr_phys)
  BY DEF BumpInv
<1>4. end \in Nat /\ end % PageSize = 0 /\ r.start <= end
  <2>1. r.start = PageAt(r.start) * PageSize /\ PageAt(r.start) \in Nat
    BY <1>2, MultipleOfPage
  <2>2. end = (PageAt(r.start) + num) * PageSize /\ PageAt(r.start) + num \in Nat
    BY <2>1, SizeType
  <2>3. end \in Nat /\ end % PageSize = 0
    BY <2>2, PageOfMultiple
  <2>4. r.start <= end
    BY <1>1, <1>2
  <2>5. QED
    BY <2>3, <2>4
<1>5. /\ PageAt(bump_ptr_phys) <= PageAt(r.start) /\ PageAt(r.start) <= PageAt(end)
      /\ PageAt(bump_ptr_phys) \in Nat /\ PageAt(r.start) \in Nat /\ PageAt(end) \in Nat
  BY <1>2, <1>3, <1>4, PageOrder
<1>6. ReservedEnd <= PageAt(r.start) /\ ReservedEnd \in Nat
  <2>1. kernel_mbi_end \in Nat /\ kernel_mbi_end % PageSize = 0 /\ PageAt(kernel_mbi_end) = ReservedEnd
    BY ReservedFacts, PageOfMultiple DEF ReservedEnd
  <2>2. QED
    BY <1>2, <2>1, PageOrder
<1>7. PageAt(end) <= NumPages
  <2>1. /\ PageAt(NumPages * PageSize) = NumPages /\ NumPages * PageSize \in Nat
        /\ (NumPages * PageSize) % PageSize = 0
    BY PageOfMultiple, PagesAssumption
  <2>2. end <= NumPages * PageSize
    BY <1>1, <1>2, <1>4
  <2>3. QED
    BY <1>4, <2>1, <2>2, PageOrder
<1> DEFINE new == PageAt(r.start)..(PageAt(end) - 1)
<1> HIDE DEF size, end
<1>8. /\ new \subseteq Pages /\ new \cap SkippedPages(bump_ptr_phys) = {}
      /\ new \subseteq SkippedPages(end)
      /\ SkippedPages(bump_ptr_phys) \subseteq SkippedPages(end)
  BY <1>5, <1>6, <1>7, SkippedRange, PagesAssumption DEF Pages
<1>9. bump_ptr_phys' = end /\ bumped' = Append(bumped, new)
  BY PagesInRange DEF size, end
<1> HIDE DEF new
<1>10. /\ bumped' \in Seq(SUBSET Pages) /\ DOMAIN bumped' = (DOMAIN bumped) \cup {Len(bumped) + 1}
       /\ \A i \in DOMAIN bumped : bumped'[i] = bumped[i]
       /\ bumped'[Len(bumped) + 1] = new /\ Len(bumped) + 1 \notin DOMAIN bumped
  BY <1>3, <1>8, <1>9
<1>11. \A i \in DOMAIN bumped : bumped[i] \subseteq SkippedPages(bump_ptr_phys)
  BY <1>3 DEF BumpedPages
<1>12. BumpHandsOutOnce'
  BY <1>3, <1>8, <1>10, <1>11 DEF BumpHandsOutOnce
<1>13. (BumpedPages \subseteq SkippedPages(bump_ptr_phys))'
  <2>1. \A i \in DOMAIN bumped' : bumped'[i] \subseteq SkippedPages(end)
    BY <1>8, <1>10, <1>11
  <2>2. SkippedPages(bump_ptr_phys)' = SkippedPages(end)
    BY <1>9 DEF SkippedPages
  <2>3. QED
    BY <2>1, <2>2 DEF BumpedPages
<1>14. /\ end \in Nat /\ end % PageSize = 0 /\ end <= r.end /\ kernel_mbi_end <= end
       /\ bump_ptr_phys <= end
  BY <1>2, <1>3, <1>4, ReservedFacts DEF end
<1>15. BumpInv'
  <2>1. kernel_mbi_end' = kernel_mbi_end
    OBVIOUS
  <2>2. QED
    BY <1>2, <1>9, <1>10, <1>12, <1>13, <1>14 DEF BumpInv
<1>16. QED
  BY <1>1, <1>2, <1>8, <1>9, <1>14, <1>15

-----------------------------------------------------------------------------
(* What the walk has in front of it.                                       *)

LEMMA AheadIs ==
    ASSUME NEW i, NEW p, NEW q
    PROVE  q \in Ahead(i, p) <=>
              /\ q \in Pages
              /\ \E j \in DOMAIN UsableEntries :
                    q \in EntryPages(j) /\ (j > i \/ (j = i /\ q >= PageAt(p)))
BY DEF Ahead

LEMMA DueIs ==
    ASSUME NEW q
    PROVE  q \in Due <=>
              /\ \E i \in DOMAIN UsableEntries : q \in EntryPages(i)
              /\ q # 0 /\ q \notin KernelFirst..(ReservedEnd - 1)
              /\ q \notin ReservedEnd..(PageAt(bump_ptr_phys) - 1)
BY UsablePages, SkippedRange DEF Due

LEMMA DueType == Due \subseteq Pages \ {0} /\ Pages \subseteq Nat
BY UsableAssumption, PageFacts DEF Due

\* Everything lies ahead of the start of the walk.
LEMMA AllAhead == Due \cap Ahead(1, WalkAt(1).p) = Due
<1>1. ASSUME NEW q \in Due
      PROVE  q \in Ahead(1, WalkAt(1).p)
  <2>1. q \in Pages
    BY DueType
  <2>2. PICK j \in DOMAIN UsableEntries : q \in EntryPages(j)
    BY DueIs
  <2>3. j = 1 => q >= PageAt(WalkAt(1).p)
    <3>1. SUFFICES ASSUME j = 1 PROVE q >= PageAt(WalkAt(1).p)
      OBVIOUS
    <3>2. WalkAt(1).p = align_up(UsableEntries[1].addr)
      BY <3>1 DEF WalkAt
    <3>3. PageAt(WalkAt(1).p) = FirstPage(1) /\ FirstPage(1) \in Nat /\ EndPage(1) \in Nat
      BY <3>1, <3>2, EntryRanges
    <3>4. QED
      BY <2>2, <3>1, <3>3 DEF EntryPages
  <2>4. j > 1 \/ j = 1
    BY EntryFacts
  <2>5. QED
    BY <2>1, <2>2, <2>3, <2>4, AheadIs
<1>2. QED
  BY <1>1

\* A jump over pages that are not due changes nothing.
LEMMA JumpAhead ==
    ASSUME NEW i \in Nat, NEW p \in Nat, NEW t \in Nat,
           PageAt(p) \in Nat, PageAt(t) \in Nat, PageAt(p) <= PageAt(t),
           \A q \in Due : q >= PageAt(p) => q >= PageAt(t)
    PROVE  Due \cap Ahead(i, p) = Due \cap Ahead(i, t)
<1>1. ASSUME NEW q \in Due
      PROVE  q \in Ahead(i, p) <=> q \in Ahead(i, t)
  <2>1. q \in Nat
    BY DueType
  <2>2. q >= PageAt(p) <=> q >= PageAt(t)
    BY <2>1
  <2>3. QED
    BY <2>2, AheadIs
<1>2. QED
  BY <1>1

\* Past the end of an entry the next one comes.
LEMMA NextAhead ==
    ASSUME NEW i \in DOMAIN UsableEntries, NEW p \in Nat, PageAt(p) \in Nat,
           EndPage(i) <= PageAt(p)
    PROVE  Due \cap Ahead(i, p) = Due \cap Ahead(i + 1, WalkAt(i + 1).p)
<1>1. ASSUME NEW q \in Due
      PROVE  q \in Ahead(i, p) <=> q \in Ahead(i + 1, WalkAt(i + 1).p)
  <2>1. q \in Pages /\ q \in Nat /\ i \in Nat
    BY DueType, EntryFacts
  <2>2. ASSUME NEW j \in DOMAIN UsableEntries, q \in EntryPages(j)
        PROVE  /\ j \in Nat /\ ~(j = i /\ q >= PageAt(p))
               /\ j = i + 1 => q >= PageAt(WalkAt(i + 1).p)
    <3>1. /\ j \in Nat /\ FirstPage(j) \in Nat /\ EndPage(j) \in Nat
          /\ FirstPage(j) <= q /\ q < EndPage(j)
      <4>1. FirstPage(j) \in Nat /\ EndPage(j) \in Nat
        BY EntryRanges
      <4>2. QED
        BY <2>1, <2>2, <4>1, EntryFacts DEF EntryPages
    <3>2. j = i + 1 => PageAt(WalkAt(i + 1).p) = FirstPage(j)
      BY EntryRanges DEF WalkAt
    <3>3. QED
      BY <2>1, <3>1, <3>2
  <2>3. \A j \in DOMAIN UsableEntries : q \in EntryPages(j) =>
           ((j > i \/ (j = i /\ q >= PageAt(p))) <=>
            (j > i + 1 \/ (j = i + 1 /\ q >= PageAt(WalkAt(i + 1).p))))
    BY <2>1, <2>2
  <2>4. QED
    BY <2>1, <2>3, AheadIs
<1>2. QED
  BY <1>1

\* A block at the place of the walk is taken out of what lies ahead.
LEMMA TakeAhead ==
    ASSUME NEW i \in DOMAIN UsableEntries, NEW w \in Nat, NEW n \in Nat, NEW p, NEW t,
           PageAt(p) = w, PageAt(t) = w + n,
           w..(w + n - 1) \subseteq EntryPages(i)
    PROVE  (Due \cap Ahead(i, p)) \ (w..(w + n - 1)) = Due \cap Ahead(i, t)
<1>1. ASSUME NEW q \in Due
      PROVE  q \in Ahead(i, p) /\ q \notin w..(w + n - 1) <=> q \in Ahead(i, t)
  <2>1. q \in Pages /\ q \in Nat /\ i \in Nat
    BY DueType, EntryFacts
  <2>2. ASSUME NEW j \in DOMAIN UsableEntries, q \in EntryPages(j)
        PROVE  /\ j \in Nat
               /\ j # i => q \notin w..(w + n - 1)
    BY <2>2, EntriesApart, EntryFacts
  <2>3. q >= w + n <=> q >= w /\ q \notin w..(w + n - 1)
    BY <2>1
  <2>4. ASSUME q \in Ahead(i, p), q \notin w..(w + n - 1)
        PROVE  q \in Ahead(i, t)
    <3>1. PICK j \in DOMAIN UsableEntries :
             q \in EntryPages(j) /\ (j > i \/ (j = i /\ q >= w))
      BY <2>4, AheadIs
    <3>2. j > i \/ (j = i /\ q >= w + n)
      BY <2>3, <2>4, <3>1
    <3>3. QED
      BY <2>1, <3>1, <3>2, AheadIs
  <2>5. ASSUME q \in Ahead(i, t)
        PROVE  q \in Ahead(i, p) /\ q \notin w..(w + n - 1)
    <3>1. PICK j \in DOMAIN UsableEntries :
             q \in EntryPages(j) /\ (j > i \/ (j = i /\ q >= w + n))
      BY <2>5, AheadIs
    <3>2. (j > i \/ (j = i /\ q >= w)) /\ q \notin w..(w + n - 1)
      BY <2>1, <2>2, <2>3, <3>1
    <3>3. QED
      BY <2>1, <3>1, <3>2, AheadIs
  <2>6. QED
    BY <2>4, <2>5
<1>2. QED
  BY <1>1

\* Behind the last entry nothing is left.
LEMMA NothingAhead ==
    ASSUME NEW i \in Nat \ {0}, i \notin DOMAIN UsableEntries, NEW p
    PROVE  Ahead(i, p) = {}
<1>1. \A j \in DOMAIN UsableEntries : j < i /\ j \in Nat
  BY EntryFacts
<1>2. QED
  BY <1>1 DEF Ahead

-----------------------------------------------------------------------------
(* The inductive invariant of the boot sequence.  Each phase says what     *)
(* boot is: all that is due while the bump allocator works, and what lies  *)
(* ahead of the walk while it walks.                                       *)

WalkType == walk \in [ent : Nat \ {0}, p : Nat] /\ walk.p % PageSize = 0

\* Nothing of module Buddy but the walk's own frees is running.
OnlyWalkRuns ==
    /\ loop = NoLoop /\ owned = {} /\ asked = 0
    /\ job = NoJob \/ job.op = "free"
    /\ phase # "walk" => job = NoJob
    /\ phase # "done" => ~initialized_buddy

WalkHolds ==
    /\ boot = Due \cap Ahead(walk.ent, walk.p)
    /\ walk.ent \in DOMAIN UsableEntries => align_up(UsableEntries[walk.ent].addr) <= walk.p

\* What is due is either still to be freed or in a block; nothing else is.
AllAccounted == PagesOf(AllBlocks) \cup boot = Due

BootInv ==
    /\ phase \in {"bump", "walk", "done", "panic"}
    /\ BumpInv /\ WalkType /\ OnlyWalkRuns /\ AllAccounted
    /\ phase = "bump" => FreeBlocks = {} /\ boot = Due
    /\ phase = "walk" => WalkHolds
    /\ phase = "done" => boot = {}

\* No block is anywhere while no list holds one.
LEMMA NoBlocks ==
    ASSUME FreeBlocks = {}, owned = {}, job = NoJob
    PROVE  AllBlocks = {} /\ PagesOf(AllBlocks) = {}
BY NoJobFacts DEF AllBlocks, JobBlocks, PagesOf

LEMMA WalkAtType ==
    ASSUME NEW i \in Nat \ {0}
    PROVE  /\ WalkAt(i) \in [ent : Nat \ {0}, p : Nat] /\ WalkAt(i).p % PageSize = 0
           /\ WalkAt(i).ent = i
           /\ i \in DOMAIN UsableEntries => align_up(UsableEntries[i].addr) <= WalkAt(i).p
<1>1. CASE i \in DOMAIN UsableEntries
  <2>1. WalkAt(i) = [ent |-> i, p |-> align_up(UsableEntries[i].addr)]
    BY <1>1 DEF WalkAt
  <2>2. align_up(UsableEntries[i].addr) \in Nat /\ align_up(UsableEntries[i].addr) % PageSize = 0
    BY <1>1, EntryFacts, RoundUp
  <2>3. QED
    BY <2>1, <2>2
<1>2. CASE i \notin DOMAIN UsableEntries
  <2>1. WalkAt(i) = [ent |-> i, p |-> 0]
    BY <1>2 DEF WalkAt
  <2>2. 0 % PageSize = 0
    BY SizeType
  <2>3. QED
    BY <1>2, <2>1, <2>2
<1>3. QED
  BY <1>1, <1>2

\* What is due depends on the bump pointer only.
LEMMA DueSame ==
    ASSUME bump_ptr_phys' = bump_ptr_phys
    PROVE  Due' = Due
BY DEF Due, SkippedPages, PagesIn

LEMMA BlocksSame ==
    ASSUME UNCHANGED <<free_lists, owned, job>>
    PROVE  AllBlocks' = AllBlocks /\ FreeBlocks' = FreeBlocks
BY DEF AllBlocks, FreeBlocks, JobBlocks

LEMMA BumpInvSame ==
    ASSUME BumpInv, UNCHANGED bumpVars
    PROVE  BumpInv'
<1>1. kernel_mbi_end' = kernel_mbi_end
  OBVIOUS
<1>2. QED
  BY <1>1 DEF BumpInv, bumpVars, BumpHandsOutOnce, BumpedPages, SkippedPages, PagesIn

-----------------------------------------------------------------------------
(* Every step of the boot sequence is a step of module Buddy or none.      *)

\* A request of the early kernel, or the one for the bitmaps.
LEMMA BumpMaps ==
    ASSUME BootInv, NoRewind, phase = "bump", NEW num \in Requests,
           NEW next_phase \in {"bump", "walk"}, bump_step(num, next_phase),
           \/ next_phase = "bump" /\ walk' = walk
           \/ next_phase = "walk" /\ walk' = WalkAt(1)
    PROVE  BootInv' /\ [Next]_vars
<1>1. /\ BumpInv /\ WalkType /\ OnlyWalkRuns
      /\ job = NoJob /\ ~initialized_buddy /\ loop = NoLoop /\ owned = {} /\ asked = 0
      /\ FreeBlocks = {} /\ boot = Due
  BY DEF BootInv, OnlyWalkRuns
<1>2. WalkType'
  <2>1. walk' = walk \/ walk' = WalkAt(1)
    OBVIOUS
  <2>2. QED
    BY <1>1, <2>1, WalkAtType DEF WalkType
<1>3. CASE bump_region(num * PageSize) = {} /\ phase' = "panic" /\ UNCHANGED <<bumpVars, vars>>
  <2>1. UNCHANGED <<free_lists, owned, job, loop, boot, initialized_buddy, asked>> /\ vars' = vars
    BY <1>3 DEF vars
  <2>2. bump_ptr_phys' = bump_ptr_phys
    BY <1>3 DEF bumpVars
  <2>3. BumpInv'
    BY <1>1, <1>3, BumpInvSame
  <2>4. AllAccounted'
    BY <1>1, <2>1, <2>2, DueSame, BlocksSame, NoBlocks DEF AllAccounted
  <2>5. OnlyWalkRuns'
    BY <1>1, <1>3, <2>1 DEF OnlyWalkRuns
  <2>6. QED
    BY <1>2, <1>3, <2>1, <2>3, <2>4, <2>5 DEF BootInv
<1>4. ASSUME NEW r \in bump_region(num * PageSize),
             bump_ptr_phys' = bump_advance(r.start, num * PageSize),
             bump_region_end_phys' = r.end,
             bumped' = Append(bumped, PagesIn(r.start, r.start + num * PageSize)),
             boot' = Usable \ SkippedPages(bump_ptr_phys'),
             phase' = next_phase,
             UNCHANGED <<free_lists, buddy_map, used_memory, free_memory, initialized_buddy,
                         job, loop, owned, ret, asked>>
      PROVE  BootInv' /\ [Next]_vars
  <2>1. num \in Nat /\ bump_ptr_phys <= r.start
    BY RequestType DEF NoRewind
  <2>2. bump_ptr_phys' = r.start + num * PageSize
    BY <1>4 DEF bump_advance
  <2>3. /\ BumpInv' /\ bump_ptr_phys' \in 0..(NumPages * PageSize)
        /\ SkippedPages(bump_ptr_phys) \subseteq SkippedPages(bump_ptr_phys')
    BY <1>1, <1>4, <2>1, <2>2, BumpTakes
  <2>4. boot' = Due'
    BY <1>4 DEF Due, SkippedPages, PagesIn
  <2>5. early_reserve(SkippedPages(bump_ptr_phys'))
    <3>1. boot' = boot \ SkippedPages(bump_ptr_phys')
      BY <1>1, <1>4, <2>3 DEF Due
    <3>2. QED
      BY <1>1, <1>4, <3>1 DEF early_reserve, Idle
  <2>6. SkippedPages(bump_ptr_phys') \in EarlyRanges
    BY <2>3, EarlyRangesAssumption
  <2>7. [Next]_vars
    BY <2>5, <2>6 DEF Next
  <2>8. /\ FreeBlocks' = {} /\ PagesOf(AllBlocks)' = {}
    BY <1>1, <1>4, BlocksSame, NoBlocks
  <2>9. AllAccounted' /\ OnlyWalkRuns'
    BY <1>1, <1>4, <2>4, <2>8 DEF AllAccounted, OnlyWalkRuns
  <2>10. phase' = "walk" => WalkHolds'
    <3>1. SUFFICES ASSUME phase' = "walk" PROVE WalkHolds'
      OBVIOUS
    <3>2. walk' = WalkAt(1)
      BY <1>4, <3>1
    <3>3. Due' \cap Ahead(1, WalkAt(1).p) = Due'
      <4>1. (Due \cap Ahead(1, WalkAt(1).p) = Due)'
        BY AllAhead, PTL
      <4>2. QED
        BY <4>1 DEF Ahead, WalkAt
    <3>4. walk.ent' = 1 /\ (1 \in DOMAIN UsableEntries => align_up(UsableEntries[1].addr) <= walk'.p)
      BY <3>2, WalkAtType
    <3>5. Ahead(walk.ent, walk.p)' = Ahead(1, WalkAt(1).p)
      BY <3>2, <3>4 DEF Ahead
    <3>6. QED
      BY <2>4, <3>3, <3>4, <3>5 DEF WalkHolds
  <2>11. QED
    BY <1>2, <1>4, <2>3, <2>4, <2>7, <2>8, <2>9, <2>10 DEF BootInv
<1>5. QED
  BY <1>3, <1>4 DEF bump_step

\* The place the walk is at inside an entry, in pages.
LEMMA WalkPlace ==
    ASSUME BootInv, WalkInEntry
    PROVE  /\ phase = "walk" /\ job = NoJob /\ walk.ent \in DOMAIN UsableEntries
           /\ boot = Due \cap Ahead(walk.ent, walk.p)
           /\ walk.p \in Nat /\ walk.p % PageSize = 0
           /\ PageAt(walk.p) \in Nat /\ walk.p = PageAt(walk.p) * PageSize
           /\ FirstPage(walk.ent) <= PageAt(walk.p) /\ PageAt(walk.p) < EndPage(walk.ent)
           /\ FirstPage(walk.ent) \in Nat /\ EndPage(walk.ent) \in Nat
           /\ align_up(UsableEntries[walk.ent].addr) <= walk.p
           /\ region_end = EndPage(walk.ent) * PageSize
           /\ walk \in [ent : Nat \ {0}, p : Nat]
<1>1. /\ phase = "walk" /\ job = NoJob /\ walk.ent \in DOMAIN UsableEntries
      /\ walk.p < region_end
  BY DEF WalkInEntry, InWalk
<1>2. /\ boot = Due \cap Ahead(walk.ent, walk.p)
      /\ align_up(UsableEntries[walk.ent].addr) <= walk.p
      /\ walk \in [ent : Nat \ {0}, p : Nat] /\ walk.p % PageSize = 0
  BY <1>1 DEF BootInv, WalkHolds, WalkType
<1>3. walk.p \in Nat /\ PageAt(walk.p) \in Nat /\ walk.p = PageAt(walk.p) * PageSize
  BY <1>2, MultipleOfPage
<1>4. /\ FirstPage(walk.ent) \in Nat /\ EndPage(walk.ent) \in Nat
      /\ align_up(UsableEntries[walk.ent].addr) = FirstPage(walk.ent) * PageSize
      /\ region_end = EndPage(walk.ent) * PageSize
  BY <1>1, EntryRanges DEF region_end
<1>5. FirstPage(walk.ent) <= PageAt(walk.p) /\ PageAt(walk.p) < EndPage(walk.ent)
  <2> DEFINE f == FirstPage(walk.ent)
             w == PageAt(walk.p)
             e == EndPage(walk.ent)
  <2>1. f \in Int /\ w \in Int /\ e \in Int
    BY <1>3, <1>4
  <2>2. f * PageSize <= w * PageSize /\ w * PageSize < e * PageSize
    BY <1>1, <1>2, <1>3, <1>4
  <2> HIDE DEF f, w, e
  <2>3. f <= w /\ w < e
    BY <2>1, <2>2, SizeType, Scale
  <2>4. QED
    BY <2>3 DEF f, w, e
<1>6. QED
  BY <1>1, <1>2, <1>3, <1>4, <1>5

\* The steps of the walk that leave the blocks alone.
LEMMA WalkMoves ==
    ASSUME BootInv, UNCHANGED <<vars, bumpVars>>, phase' = "walk", phase = "walk",
           WalkType', WalkHolds'
    PROVE  BootInv' /\ [Next]_vars
<1>1. UNCHANGED <<free_lists, owned, job, loop, boot, initialized_buddy, asked>> /\ vars' = vars
  BY DEF vars
<1>2. BumpInv' /\ bump_ptr_phys' = bump_ptr_phys
  BY BumpInvSame DEF BootInv, bumpVars
<1>3. Due' = Due /\ AllBlocks' = AllBlocks
  BY <1>1, <1>2, DueSame, BlocksSame
<1>4. AllAccounted' /\ OnlyWalkRuns'
  BY <1>1, <1>3 DEF BootInv, AllAccounted, OnlyWalkRuns, PagesOf
<1>5. QED
  BY <1>1, <1>2, <1>4 DEF BootInv

LEMMA SkipMaps ==
    ASSUME BootInv, walk_skip
    PROVE  BootInv' /\ [Next]_vars
<1> DEFINE p == walk.p
           w == PageAt(p)
           i == walk.ent
           t == IF p = 0 THEN PageSize ELSE IF InKernel(p) THEN kernel_mbi_end ELSE bump_ptr_phys
<1>1. /\ WalkInEntry /\ walk' = [walk EXCEPT !.p = t]
      /\ p = 0 \/ InKernel(p) \/ InBump(p)
      /\ UNCHANGED <<vars, bumpVars, phase>>
  BY DEF walk_skip
<1>2. /\ phase = "walk" /\ i \in DOMAIN UsableEntries
      /\ boot = Due \cap Ahead(i, p)
      /\ p \in Nat /\ p % PageSize = 0 /\ w \in Nat /\ p = w * PageSize
      /\ align_up(UsableEntries[i].addr) <= p
      /\ walk \in [ent : Nat \ {0}, p : Nat] /\ i \in Nat
  BY <1>1, WalkPlace
<1>3. BumpInv
  BY DEF BootInv
<1> HIDE DEF w
<1>4. /\ t \in Nat /\ t % PageSize = 0 /\ p <= t
      /\ \A q \in Due : q >= w => q >= PageAt(t)
  <2>1. CASE p = 0
    <3>1. t = 1 * PageSize /\ t = PageSize
      BY <2>1, SizeType
    <3>2. PageAt(t) = 1 /\ t \in Nat /\ t % PageSize = 0
      <4>1. PageAt(1 * PageSize) = 1 /\ 1 * PageSize \in Nat /\ (1 * PageSize) % PageSize = 0
        BY PageOfMultiple
      <4>2. QED
        BY <3>1, <4>1
    <3>3. \A q \in Due : q >= 1
      BY DueType
    <3>4. QED
      BY <1>2, <2>1, <3>2, <3>3
  <2>2. CASE p # 0 /\ InKernel(p)
    <3>1. t = kernel_mbi_end /\ KernelStart <= p /\ p < kernel_mbi_end
      BY <2>2 DEF InKernel
    <3>2. /\ kernel_mbi_end = ReservedEnd * PageSize /\ ReservedEnd \in Nat
          /\ KernelStart = KernelFirst * PageSize /\ KernelFirst \in Nat
      BY ReservedFacts
    <3>3. /\ PageAt(t) = ReservedEnd /\ t \in Nat /\ t % PageSize = 0
          /\ KernelStart \in Nat /\ KernelStart % PageSize = 0 /\ PageAt(KernelStart) = KernelFirst
      BY <3>1, <3>2, PageOfMultiple
    <3>4. KernelFirst <= w
      BY <1>2, <3>1, <3>3, PageOrder DEF w
    <3>5. \A q \in Due : q >= w => q >= ReservedEnd
      <4>1. SUFFICES ASSUME NEW q \in Due, q >= w PROVE q >= ReservedEnd
        OBVIOUS
      <4>2. q \notin KernelFirst..(ReservedEnd - 1) /\ q \in Nat
        BY DueIs, DueType
      <4>3. QED
        BY <1>2, <3>2, <3>4, <4>1, <4>2
    <3>6. QED
      BY <1>2, <3>1, <3>3, <3>5
  <2>3. CASE p # 0 /\ ~InKernel(p) /\ InBump(p)
    <3>1. t = bump_ptr_phys /\ highest_reserved_phys <= p /\ p < bump_ptr_phys
      BY <2>3 DEF InBump
    <3>2. t \in Nat /\ t % PageSize = 0 /\ PageAt(t) \in Nat
      BY <1>3, <3>1, MultipleOfPage DEF BumpInv
    <3>3. ReservedEnd <= w /\ ReservedEnd \in Nat
      <4>1. /\ ReservedEnd \in Nat /\ ReservedEnd * PageSize < highest_reserved_phys + PageSize
            /\ highest_reserved_phys \in Nat
        BY ReservedFacts
      <4>2. (w + 1) * PageSize = p + PageSize
        BY <1>2, SizeType
      <4>3. ReservedEnd * PageSize < (w + 1) * PageSize
        <5>1. ReservedEnd * PageSize \in Int
          BY <4>1, SizeType
        <5>2. QED
          BY <1>2, <3>1, <4>1, <4>2, <5>1, SizeType
      <4>4. ReservedEnd < w + 1
        BY <1>2, <4>1, <4>3, SizeType, Scale
      <4>5. QED
        BY <1>2, <4>1, <4>4
    <3>4. \A q \in Due : q >= w => q >= PageAt(t)
      <4>1. SUFFICES ASSUME NEW q \in Due, q >= w PROVE q >= PageAt(t)
        OBVIOUS
      <4>2. q \notin ReservedEnd..(PageAt(bump_ptr_phys) - 1) /\ q \in Nat
        BY DueIs, DueType
      <4>3. QED
        BY <1>2, <3>1, <3>2, <3>3, <4>1, <4>2
    <3>5. QED
      BY <1>2, <3>1, <3>2, <3>4
  <2>4. QED
    BY <1>1, <2>1, <2>2, <2>3
<1> HIDE DEF t
<1>5. PageAt(t) \in Nat /\ w <= PageAt(t)
  BY <1>2, <1>4, PageOrder DEF w
<1>6. Due \cap Ahead(i, p) = Due \cap Ahead(i, t)
  BY <1>2, <1>4, <1>5, JumpAhead DEF w
<1>7. walk' = [ent |-> i, p |-> t] /\ walk'.ent = i /\ walk'.p = t
  BY <1>1, <1>2
<1>8. WalkType'
  BY <1>2, <1>4, <1>7 DEF WalkType
<1>9. boot' = boot /\ Due' = Due /\ phase' = phase
  BY <1>1, DueSame DEF vars, bumpVars
<1>10. WalkHolds'
  <2>1. Ahead(walk.ent, walk.p)' = Ahead(i, t)
    BY <1>7 DEF Ahead
  <2>2. align_up(UsableEntries[i].addr) <= t
    <3>1. align_up(UsableEntries[i].addr) \in Nat
      BY <1>2, EntryFacts, RoundUp
    <3>2. QED
      BY <1>2, <1>4, <3>1
  <2>3. QED
    BY <1>2, <1>6, <1>7, <1>9, <2>1, <2>2 DEF WalkHolds
<1>11. QED
  BY <1>1, <1>2, <1>8, <1>9, <1>10, WalkMoves

LEMMA NextEntryMaps ==
    ASSUME BootInv, walk_next_entry
    PROVE  BootInv' /\ [Next]_vars
<1> DEFINE p == walk.p
           i == walk.ent
<1>1. /\ phase = "walk" /\ i \in DOMAIN UsableEntries /\ p >= region_end
      /\ walk' = WalkAt(i + 1) /\ UNCHANGED <<vars, bumpVars, phase>>
  BY DEF walk_next_entry, InWalk
<1>2. /\ boot = Due \cap Ahead(i, p) /\ p \in Nat /\ p % PageSize = 0
      /\ i \in Nat \ {0} /\ i + 1 \in Nat \ {0}
  BY <1>1 DEF BootInv, WalkHolds, WalkType
<1>3. EndPage(i) <= PageAt(p) /\ PageAt(p) \in Nat
  <2>1. region_end = EndPage(i) * PageSize /\ EndPage(i) \in Nat
    BY <1>1, EntryRanges DEF region_end
  <2>2. region_end \in Nat /\ region_end % PageSize = 0 /\ PageAt(region_end) = EndPage(i)
    BY <2>1, PageOfMultiple
  <2>3. QED
    BY <1>1, <1>2, <2>2, PageOrder
<1>4. Due \cap Ahead(i, p) = Due \cap Ahead(i + 1, WalkAt(i + 1).p)
  BY <1>1, <1>2, <1>3, NextAhead
<1>5. WalkType' /\ walk'.ent = i + 1
  BY <1>1, <1>2, WalkAtType DEF WalkType
<1>6. boot' = boot /\ Due' = Due /\ phase' = phase
  BY <1>1, DueSame DEF vars, bumpVars
<1>7. WalkHolds'
  <2>1. Ahead(walk.ent, walk.p)' = Ahead(i + 1, WalkAt(i + 1).p)
    BY <1>1, <1>5 DEF Ahead
  <2>2. i + 1 \in DOMAIN UsableEntries => align_up(UsableEntries[i + 1].addr) <= walk'.p
    BY <1>1, <1>2, WalkAtType
  <2>3. QED
    BY <1>2, <1>4, <1>5, <1>6, <2>1, <2>2 DEF WalkHolds
<1>8. QED
  BY <1>1, <1>5, <1>6, <1>7, WalkMoves

\* Whatever order the inner loop of the walk stops at, the block is aligned, inside the
\* entry, and none of its pages is reserved.
LEMMA WalkBlock ==
    ASSUME BootInv, WalkInEntry, walk.p # 0, ~InKernel(walk.p), ~InBump(walk.p),
           NEW o \in WalkOrders(walk.p)
    PROVE  /\ o \in Orders /\ PageAt(walk.p) \in Pages
           /\ Aligned(PageAt(walk.p), o)
           /\ Block(PageAt(walk.p), o) \subseteq EntryPages(walk.ent)
           /\ Block(PageAt(walk.p), o) \subseteq Due
<1> DEFINE p == walk.p
           w == PageAt(p)
           i == walk.ent
           n == Pow2[o]
<1>1. /\ i \in DOMAIN UsableEntries
      /\ p \in Nat /\ p % PageSize = 0 /\ w \in Nat /\ p = w * PageSize
      /\ FirstPage(i) <= w /\ w < EndPage(i)
      /\ FirstPage(i) \in Nat /\ EndPage(i) \in Nat /\ region_end = EndPage(i) * PageSize
  BY WalkPlace
<1>2. o \in Orders /\ n \in Nat \ {0} /\ (o = 0 => n = 1)
  <2>1. o \in Orders
    BY PageFacts, OrderAssumption DEF WalkOrders, Orders
  <2>2. QED
    BY <2>1, Pow2Facts, Pow2Assumption
<1>3. w \in Pages
  <2>1. w \in EntryPages(i)
    BY <1>1 DEF EntryPages
  <2>2. QED
    BY <1>1, <2>1, EntryRanges
<1>4. w # 0
  BY <1>1, SizeType
<1>5. /\ bump_ptr_phys \in Nat /\ bump_ptr_phys % PageSize = 0
      /\ PageAt(bump_ptr_phys) \in Nat /\ bump_ptr_phys = PageAt(bump_ptr_phys) * PageSize
  BY MultipleOfPage DEF BootInv, BumpInv
<1>6. /\ KernelFirst \in Nat /\ KernelStart = KernelFirst * PageSize
      /\ ReservedEnd \in Nat /\ kernel_mbi_end = ReservedEnd * PageSize
      /\ highest_reserved_phys \in Nat /\ highest_reserved_phys <= kernel_mbi_end
  BY ReservedFacts
<1> DEFINE b == PageAt(bump_ptr_phys)
<1> HIDE DEF w, b, n
<1>7. /\ w + n <= EndPage(i) /\ Aligned(w, o)
      /\ w + n <= KernelFirst \/ ReservedEnd <= w
      /\ w + n <= ReservedEnd \/ b <= w
  <2>1. CASE o = 0
    <3>1. n = 1 /\ Aligned(w, o)
      <4>1. w % 1 = 0 /\ Pow2[0] = 1
        BY <1>1, Pow2Assumption
      <4>2. QED
        BY <1>2, <2>1, <4>1 DEF Aligned, n
    <3>2. (p < KernelStart \/ kernel_mbi_end <= p) /\ (p < kernel_mbi_end \/ bump_ptr_phys <= p)
      <4>1. KernelStart \in Nat /\ kernel_mbi_end \in Nat
        BY <1>6, SizeType
      <4>2. QED
        BY <1>1, <1>5, <1>6, <4>1 DEF InKernel, InBump
    <3>3. /\ p < KernelStart => w < KernelFirst
          /\ kernel_mbi_end <= p => ReservedEnd <= w
          /\ p < kernel_mbi_end => w < ReservedEnd
          /\ bump_ptr_phys <= p => b <= w
      <4>1. w \in Int /\ KernelFirst \in Int /\ ReservedEnd \in Int /\ b \in Int
        BY <1>1, <1>5, <1>6 DEF b
      <4>2. bump_ptr_phys = b * PageSize
        BY <1>5 DEF b
      <4>3. /\ w * PageSize < KernelFirst * PageSize => w < KernelFirst
            /\ w * PageSize < ReservedEnd * PageSize => w < ReservedEnd
        BY <4>1, SizeType, Scale
      <4>4. /\ ReservedEnd * PageSize <= w * PageSize => ReservedEnd <= w
            /\ b * PageSize <= w * PageSize => b <= w
        BY <4>1, SizeType, Scale
      <4>5. QED
        BY <1>1, <1>6, <4>2, <4>3, <4>4
    <3>4. QED
      BY <1>1, <1>5, <1>6, <3>1, <3>2, <3>3 DEF b
  <2>2. CASE o # 0
    <3>1. /\ p + n * PageSize <= region_end
          /\ p % (n * PageSize) = 0
          /\ ~check_overlap_with_reserved(p, n * PageSize)
      BY <2>2 DEF WalkOrders, n
    <3>2. p + n * PageSize = (w + n) * PageSize /\ w + n \in Nat
      BY <1>1, <1>2, SizeType
    <3>3. /\ kernel_mbi_end <= p \/ p + n * PageSize <= KernelStart
          /\ bump_ptr_phys <= p \/ p + n * PageSize <= kernel_mbi_end
      <4>1. KernelStart \in Nat /\ kernel_mbi_end \in Nat /\ p + n * PageSize \in Nat
        BY <1>6, <3>2, SizeType
      <4>2. QED
        BY <1>1, <1>5, <1>6, <3>1, <4>1 DEF check_overlap_with_reserved
    <3>4. /\ (w + n) * PageSize <= EndPage(i) * PageSize => w + n <= EndPage(i)
          /\ (w + n) * PageSize <= KernelFirst * PageSize => w + n <= KernelFirst
          /\ (w + n) * PageSize <= ReservedEnd * PageSize => w + n <= ReservedEnd
          /\ ReservedEnd * PageSize <= w * PageSize => ReservedEnd <= w
          /\ b * PageSize <= w * PageSize => b <= w
      <4>1. /\ w \in Int /\ KernelFirst \in Int /\ ReservedEnd \in Int /\ b \in Int
            /\ w + n \in Int /\ EndPage(i) \in Int
        BY <1>1, <1>5, <1>6, <3>2 DEF b
      <4>2. /\ (w + n) * PageSize <= EndPage(i) * PageSize => w + n <= EndPage(i)
            /\ (w + n) * PageSize <= KernelFirst * PageSize => w + n <= KernelFirst
            /\ (w + n) * PageSize <= ReservedEnd * PageSize => w + n <= ReservedEnd
        BY <4>1, SizeType, Scale
      <4>3. /\ ReservedEnd * PageSize <= w * PageSize => ReservedEnd <= w
            /\ b * PageSize <= w * PageSize => b <= w
        BY <4>1, SizeType, Scale
      <4>4. QED
        BY <4>2, <4>3
    <3>5. Aligned(w, o)
      <4> DEFINE d == n * PageSize
                 k == p \div d
      <4>1. d \in Nat \ {0}
        BY <1>2, SizeType
      <4>2. k \in Nat /\ p = k * d
        BY <1>1, <3>1, <4>1, DivModFacts
      <4> HIDE DEF k
      <4>3. (k * n) * PageSize = k * (n * PageSize) /\ k * n \in Nat
        BY <1>2, <4>2, SizeType
      <4>4. PageAt((k * n) * PageSize) = k * n
        BY <4>3, PageOfMultiple
      <4>5. w = k * n
        BY <4>2, <4>3, <4>4 DEF w
      <4>6. (k * n) % n = 0
        BY <1>2, <4>2, MultipleFacts
      <4>7. QED
        BY <4>5, <4>6 DEF Aligned, n
    <3>6. bump_ptr_phys = b * PageSize
      BY <1>5 DEF b
    <3>7. QED
      BY <1>1, <1>6, <3>1, <3>2, <3>3, <3>4, <3>5, <3>6
  <2>3. QED
    BY <2>1, <2>2
<1>8. Block(w, o) = w..(w + n - 1)
  BY DEF Block, n
<1>9. Block(w, o) \subseteq EntryPages(i)
  BY <1>1, <1>2, <1>7, <1>8 DEF EntryPages
<1>10. Block(w, o) \subseteq Due
  <2>1. SUFFICES ASSUME NEW q \in Block(w, o) PROVE q \in Due
    OBVIOUS
  <2>2. q \in Nat /\ w <= q /\ q < w + n
    BY <1>1, <1>2, <1>8, <2>1
  <2>3. q # 0 /\ q \notin KernelFirst..(ReservedEnd - 1) /\ q \notin ReservedEnd..(b - 1)
    BY <1>1, <1>2, <1>4, <1>5, <1>6, <1>7, <2>2 DEF b
  <2>4. QED
    BY <1>1, <1>9, <2>1, <2>3, DueIs DEF b
<1>11. QED
  BY <1>2, <1>3, <1>7, <1>9, <1>10 DEF w

LEMMA FreeMaps ==
    ASSUME BootInv, walk_free
    PROVE  BootInv' /\ [Next]_vars
<1> DEFINE p == walk.p
           w == PageAt(p)
           i == walk.ent
<1>1. /\ WalkInEntry /\ p # 0 /\ ~InKernel(p) /\ ~InBump(p)
      /\ UNCHANGED <<free_lists, buddy_map, used_memory, free_memory, initialized_buddy,
                     loop, owned, ret, asked, bumpVars, phase>>
  BY DEF walk_free
<1>2. PICK o \in WalkOrders(p) :
         /\ start_free(w, o)
         /\ boot' = boot \ Block(w, o)
         /\ walk' = [walk EXCEPT !.p = p + Pow2[o] * PageSize]
  BY DEF walk_free, PageAt
<1>3. /\ o \in Orders /\ w \in Pages /\ Aligned(w, o)
      /\ Block(w, o) \subseteq EntryPages(i) /\ Block(w, o) \subseteq Due
  BY <1>1, WalkBlock
<1>4. /\ phase = "walk" /\ job = NoJob /\ i \in DOMAIN UsableEntries
      /\ boot = Due \cap Ahead(i, p)
      /\ p \in Nat /\ w \in Nat /\ p = w * PageSize
      /\ align_up(UsableEntries[i].addr) <= p
      /\ walk \in [ent : Nat \ {0}, p : Nat]
  BY <1>1, WalkPlace
<1> HIDE DEF w
<1> DEFINE n == Pow2[o]
           t == p + n * PageSize
<1>5. n \in Nat \ {0} /\ Block(w, o) = w..(w + n - 1)
  BY <1>3, Pow2Facts DEF Block
<1> HIDE DEF n
<1>6. t \in Nat /\ t % PageSize = 0 /\ PageAt(t) = w + n /\ p <= t
  <2>1. t = (w + n) * PageSize /\ w + n \in Nat /\ n * PageSize \in Nat
    BY <1>4, <1>5, SizeType
  <2>2. QED
    BY <1>4, <2>1, PageOfMultiple
<1>7. walk'.ent = i /\ walk'.p = t /\ walk' \in [ent : Nat \ {0}, p : Nat]
  BY <1>2, <1>4, <1>6 DEF n
<1> HIDE DEF t
<1>8. boot \ Block(w, o) = Due \cap Ahead(i, t)
  <2>1. w..(w + n - 1) \subseteq EntryPages(i)
    BY <1>3, <1>5
  <2>2. (Due \cap Ahead(i, p)) \ (w..(w + n - 1)) = Due \cap Ahead(i, t)
    BY <1>4, <1>5, <1>6, <2>1, TakeAhead DEF w
  <2>3. QED
    BY <1>4, <1>5, <2>2
<1>9. Block(w, o) \subseteq boot
  <2>1. SUFFICES ASSUME NEW q \in Block(w, o) PROVE q \in Ahead(i, p)
    BY <1>3, <1>4
  <2>2. q \in Pages /\ q >= w
    BY <1>3, <1>4, <1>5, <2>1, DueType
  <2>3. QED
    BY <1>3, <1>4, <2>1, <2>2, AheadIs DEF w
<1>10. /\ BumpInv' /\ Due' = Due /\ phase' = "walk"
  BY <1>1, <1>4, BumpInvSame, DueSame DEF BootInv, bumpVars
<1>11. WalkType'
  BY <1>6, <1>7 DEF WalkType
<1>12. WalkHolds'
  <2>1. Ahead(walk.ent, walk.p)' = Ahead(i, t)
    BY <1>7 DEF Ahead
  <2>2. align_up(UsableEntries[i].addr) <= t
    <3>1. align_up(UsableEntries[i].addr) \in Nat
      BY <1>4, EntryFacts, RoundUp
    <3>2. QED
      BY <1>4, <1>6, <3>1
  <2>3. QED
    BY <1>2, <1>7, <1>8, <1>10, <2>1, <2>2 DEF WalkHolds
<1>13. /\ ~initialized_buddy /\ loop = NoLoop /\ owned = {} /\ asked = 0 /\ OnlyWalkRuns'
  <2>1. ~initialized_buddy /\ loop = NoLoop /\ owned = {} /\ asked = 0
    BY <1>4 DEF BootInv, OnlyWalkRuns
  <2>2. job'.op = "free"
    BY <1>2 DEF start_free
  <2>3. QED
    BY <1>1, <1>10, <2>1, <2>2 DEF OnlyWalkRuns
<1>14. AllAccounted'
  <2>1. PagesOf(AllBlocks) \cup boot = Due
    BY DEF BootInv, AllAccounted
  <2>2. FreeBlocks' = FreeBlocks /\ owned' = owned
    BY <1>1 DEF FreeBlocks
  <2>3. JobBlocks' = {<<w, o>>} /\ JobBlocks = {}
    BY <1>2, <1>4, NoJobFacts DEF start_free, JobBlocks
  <2>4. AllBlocks' = AllBlocks \cup {<<w, o>>}
    BY <2>2, <2>3 DEF AllBlocks
  <2>5. Extent(<<w, o>>) = Block(w, o)
    BY DEF Extent
  <2>6. (PagesOf(AllBlocks))' = PagesOf(AllBlocks) \cup Block(w, o)
    BY <2>4, <2>5 DEF PagesOf
  <2>7. QED
    BY <1>2, <1>3, <1>9, <1>10, <2>1, <2>6 DEF AllAccounted
<1>15. initialize_buddy_free(w, o)
  BY <1>1, <1>2, <1>3, <1>4, <1>9, <1>13 DEF initialize_buddy_free, walk_may_free, Idle
<1>16. [Next]_vars
  BY <1>3, <1>15 DEF Next
<1>17. QED
  BY <1>10, <1>11, <1>12, <1>13, <1>14, <1>16 DEF BootInv

\* A merge puts the pages of two blocks into one; no page comes or goes.
LEMMA MergeKeepsPages ==
    ASSUME IInv, free_pages_merge
    PROVE  PagesOf(AllBlocks)' = PagesOf(AllBlocks)
<1> DEFINE p == job.pfn
           o == job.ord
           q == BuddyOf(p, o)
<1>1. /\ ListsOK /\ PagesDisjoint /\ BitMatchesLists /\ TypeOK
      /\ job.op = "free" /\ o < MaxOrder /\ bit_is_one(p, o)
      /\ free_lists' = list_remove(q, o) /\ owned' = owned
      /\ job' = [job EXCEPT !.pfn = PairBase(p, o), !.ord = o + 1]
  BY Parts DEF free_pages_merge
<1>2. /\ p \in Pages /\ p \in Nat /\ o \in Orders /\ Aligned(p, o)
      /\ Block(p, o) \cap FreePages = {}
  BY <1>1, JobBlockApart, PageFacts
<1>3. p \notin free_lists[o]
  BY <1>1, <1>2, ListedPages, BlockNonempty
<1>4. q \in free_lists[o]
  <2>1. o \in 0..(MaxOrder - 1)
    BY <1>1, <1>2, OrderAssumption DEF Orders
  <2>2. QED
    BY <1>1, <1>2, <1>3, <2>1 DEF BitMatchesLists
<1>5. Block(PairBase(p, o), o + 1) = Block(p, o) \cup Block(q, o)
  BY <1>1, <1>2, BuddyFacts
<1>6. FreePages' = FreePages \ Block(q, o) /\ Block(q, o) \subseteq FreePages
  BY <1>1, <1>2, <1>4, PagesRemoved
<1>7. /\ job'.op = "free" /\ job'.pfn = PairBase(p, o) /\ job'.ord = o + 1
  BY <1>1 DEF TypeOK
<1> HIDE DEF p, o, q
<1>8. JobBlocks' = {<<PairBase(p, o), o + 1>>} /\ JobBlocks = {<<p, o>>}
  BY <1>1, <1>7 DEF JobBlocks, p, o
<1>9. \A S, b : PagesOf(S \cup {b}) = PagesOf(S) \cup Extent(b)
  BY DEF PagesOf
<1>10. PagesOf(FreeBlocks \cup owned) = FreePages \cup PagesOf(owned)
       /\ PagesOf(FreeBlocks' \cup owned) = FreePages' \cup PagesOf(owned)
  BY DEF PagesOf, FreePages
<1>11. /\ PagesOf(AllBlocks) = FreePages \cup PagesOf(owned) \cup Block(p, o)
       /\ PagesOf(AllBlocks)' = FreePages' \cup PagesOf(owned) \cup Block(PairBase(p, o), o + 1)
  <2>1. /\ AllBlocks = (FreeBlocks \cup owned) \cup {<<p, o>>}
        /\ AllBlocks' = (FreeBlocks' \cup owned) \cup {<<PairBase(p, o), o + 1>>}
    BY <1>1, <1>8 DEF AllBlocks
  <2>2. /\ Extent(<<p, o>>) = Block(p, o)
        /\ Extent(<<PairBase(p, o), o + 1>>) = Block(PairBase(p, o), o + 1)
    BY DEF Extent
  <2>3. PagesOf(AllBlocks)' = PagesOf(AllBlocks')
    BY DEF PagesOf
  <2>4. QED
    BY <1>9, <1>10, <2>1, <2>2, <2>3
<1>12. QED
  BY <1>5, <1>6, <1>11

\* Listing the block of the running free changes nothing but its place.
LEMMA InsertKeepsPages ==
    ASSUME IInv, free_pages_insert
    PROVE  AllBlocks' = AllBlocks
<1>1. /\ ListsOK /\ TypeOK /\ job.op = "free" /\ free_lists' = list_add(job.pfn, job.ord)
      /\ job' = NoJob /\ owned' = owned
  BY Parts DEF free_pages_insert
<1>2. job.pfn \in Pages /\ job.ord \in Orders
  BY <1>1 DEF TypeOK
<1>3. FreeBlocks' = FreeBlocks \cup {<<job.pfn, job.ord>>}
  BY <1>1, <1>2, ListAddBlocks
<1>4. JobBlocks' = {} /\ JobBlocks = {<<job.pfn, job.ord>>}
  BY <1>1, NoJobFacts DEF JobBlocks
<1>5. QED
  BY <1>1, <1>3, <1>4 DEF AllBlocks

LEMMA InsertMaps ==
    ASSUME IInv, BootInv, walk_insert
    PROVE  BootInv' /\ [Next]_vars
<1>1. /\ phase = "walk" /\ UNCHANGED <<bumpVars, phase, walk>>
      /\ free_pages_merge \/ free_pages_insert
  BY DEF walk_insert
<1>2. UNCHANGED <<boot, loop, owned, initialized_buddy, asked>>
  BY <1>1 DEF free_pages_merge, free_pages_insert
<1>3. job' = NoJob \/ job'.op = "free"
  <2>1. CASE free_pages_merge
    <3>1. /\ job.op = "free" /\ TypeOK
          /\ job' = [job EXCEPT !.pfn = PairBase(job.pfn, job.ord), !.ord = job.ord + 1]
      BY <2>1, Parts DEF free_pages_merge
    <3>2. QED
      BY <3>1 DEF TypeOK
  <2>2. CASE free_pages_insert
    BY <2>2 DEF free_pages_insert
  <2>3. QED
    BY <1>1, <2>1, <2>2
<1>4. BumpInv' /\ bump_ptr_phys' = bump_ptr_phys /\ Due' = Due
  BY <1>1, BumpInvSame, DueSame DEF BootInv, bumpVars
<1>5. PagesOf(AllBlocks)' = PagesOf(AllBlocks)
  <2>1. CASE free_pages_merge
    BY <2>1, MergeKeepsPages
  <2>2. CASE free_pages_insert
    BY <2>2, InsertKeepsPages DEF PagesOf
  <2>3. QED
    BY <1>1, <2>1, <2>2
<1>6. AllAccounted' /\ OnlyWalkRuns'
  BY <1>1, <1>2, <1>3, <1>4, <1>5 DEF BootInv, AllAccounted, OnlyWalkRuns
<1>7. WalkType' /\ WalkHolds'
  <2>1. WalkType /\ WalkHolds
    BY <1>1 DEF BootInv
  <2>2. Ahead(walk.ent, walk.p)' = Ahead(walk.ent, walk.p)
    BY <1>1 DEF Ahead
  <2>3. QED
    BY <1>1, <1>2, <1>4, <2>1, <2>2 DEF WalkType, WalkHolds
<1>8. [Next]_vars
  BY <1>1 DEF Next
<1>9. QED
  BY <1>1, <1>4, <1>6, <1>7, <1>8 DEF BootInv

\* When the last entry has been walked nothing is left to be freed.
LEMMA DoneMaps ==
    ASSUME BootInv, initialize_buddy_done
    PROVE  BootInv' /\ [Next]_vars
<1>1. /\ phase = "walk" /\ job = NoJob /\ walk.ent \notin DOMAIN UsableEntries
      /\ initialized_buddy' = TRUE /\ phase' = "done"
      /\ UNCHANGED <<free_lists, buddy_map, used_memory, free_memory, boot, job, loop,
                     owned, ret, asked, bumpVars, walk>>
  BY DEF initialize_buddy_done, InWalk
<1>2. /\ WalkType /\ WalkHolds /\ BumpInv /\ AllAccounted
      /\ ~initialized_buddy /\ loop = NoLoop /\ owned = {} /\ asked = 0
  BY <1>1 DEF BootInv, OnlyWalkRuns
<1>3. boot = {}
  BY <1>1, <1>2, NothingAhead DEF WalkHolds, WalkType
<1>4. initialize_buddy_end
  BY <1>1, <1>2, <1>3 DEF initialize_buddy_end, Idle
<1>5. BumpInv' /\ Due' = Due
  BY <1>1, <1>2, BumpInvSame, DueSame DEF bumpVars
<1>6. AllAccounted'
  BY <1>1, <1>2, <1>5, BlocksSame DEF AllAccounted, PagesOf
<1>7. WalkType' /\ OnlyWalkRuns'
  BY <1>1, <1>2 DEF WalkType, OnlyWalkRuns
<1>8. [Next]_vars
  BY <1>4 DEF Next
<1>9. QED
  BY <1>1, <1>3, <1>5, <1>6, <1>7, <1>8 DEF BootInv

LEMMA StillMaps ==
    ASSUME BootInv, UNCHANGED bootVars
    PROVE  BootInv' /\ [Next]_vars
<1>1. /\ UNCHANGED <<free_lists, owned, job, loop, boot, initialized_buddy, asked, walk, phase>>
      /\ UNCHANGED bumpVars /\ vars' = vars
  BY DEF bootVars, vars
<1>2. BumpInv' /\ Due' = Due
  BY <1>1, BumpInvSame, DueSame DEF BootInv, bumpVars
<1>3. AllBlocks' = AllBlocks /\ FreeBlocks' = FreeBlocks
  BY <1>1, BlocksSame
<1>4. AllAccounted' /\ OnlyWalkRuns' /\ WalkType'
  BY <1>1, <1>2, <1>3 DEF BootInv, AllAccounted, OnlyWalkRuns, WalkType, PagesOf
<1>5. WalkHolds => WalkHolds'
  <2>1. Ahead(walk.ent, walk.p)' = Ahead(walk.ent, walk.p)
    BY <1>1 DEF Ahead
  <2>2. QED
    BY <1>1, <1>2, <2>1 DEF WalkHolds
<1>6. QED
  BY <1>1, <1>2, <1>3, <1>4, <1>5 DEF BootInv

LEMMA BootStarts == BootInit => BootInv
<1> SUFFICES ASSUME BootInit PROVE BootInv
  OBVIOUS
<1>1. /\ Init /\ bump_ptr_phys = 0 /\ bump_region_end_phys = 0
      /\ phase = "bump" /\ walk = WalkAt(1) /\ bumped = <<>>
  BY DEF BootInit
<1>2. /\ boot = Usable /\ job = NoJob /\ loop = NoLoop /\ owned = {} /\ asked = 0 /\ ~initialized_buddy
      /\ free_lists = [o \in Orders |-> {}]
  BY <1>1 DEF Init
<1>3. FreeBlocks = {}
  BY <1>2 DEF FreeBlocks
<1>4. PageAt(0) = 0 /\ 0 % PageSize = 0
  BY PageOfMultiple, SizeType DEF PageAt
<1>5. SkippedPages(0) = {}
  BY <1>4, SkippedRange, ReservedFacts
<1>6. boot = Due
  BY <1>1, <1>2, <1>5 DEF Due
<1>7. DOMAIN bumped = {} /\ bumped \in Seq(SUBSET Pages) /\ BumpedPages = {}
  BY <1>1 DEF BumpedPages
<1>8. NumPages * PageSize \in Nat
  BY PagesAssumption, SizeType
<1>9. BumpInv
  BY <1>1, <1>4, <1>7, <1>8 DEF BumpInv, BumpHandsOutOnce
<1>10. WalkType
  BY <1>1, WalkAtType DEF WalkType
<1>11. AllAccounted
  BY <1>2, <1>3, <1>6, NoBlocks DEF AllAccounted
<1>12. OnlyWalkRuns
  BY <1>2 DEF OnlyWalkRuns
<1>13. QED
  BY <1>1, <1>3, <1>6, <1>9, <1>10, <1>11, <1>12 DEF BootInv

LEMMA BootSteps ==
    IInv /\ BootInv /\ NoRewind /\ [BootNext]_bootVars => BootInv' /\ [Next]_vars
<1> SUFFICES ASSUME IInv, BootInv, NoRewind, [BootNext]_bootVars
             PROVE  BootInv' /\ [Next]_vars
  OBVIOUS
<1>1. ASSUME NEW num \in BumpSizes, alloc_pages_bump(num) PROVE BootInv' /\ [Next]_vars
  <2>1. /\ phase = "bump" /\ Len(bumped) < MaxEarlyCalls
        /\ bump_step(num, "bump") /\ walk' = walk
    BY <1>1 DEF alloc_pages_bump
  <2>2. num \in Requests
    BY <2>1 DEF Requests
  <2>3. QED
    BY <2>1, <2>2, BumpMaps
<1>2. CASE initialize_buddy_bitmap
  <2>1. phase = "bump" /\ bump_step(bitmap_pages, "walk") /\ walk' = WalkAt(1)
    BY <1>2 DEF initialize_buddy_bitmap
  <2>2. bitmap_pages \in Requests
    BY DEF Requests
  <2>3. QED
    BY <2>1, <2>2, BumpMaps
<1>3. CASE walk_skip
  BY <1>3, SkipMaps
<1>4. CASE walk_free
  BY <1>4, FreeMaps
<1>5. CASE walk_insert
  BY <1>5, InsertMaps
<1>6. CASE walk_next_entry
  BY <1>6, NextEntryMaps
<1>7. CASE initialize_buddy_done
  BY <1>7, DoneMaps
<1>8. CASE boot_over \/ UNCHANGED bootVars
  BY <1>8, StillMaps DEF boot_over
<1>9. QED
  BY <1>1, <1>2, <1>3, <1>4, <1>5, <1>6, <1>7, <1>8 DEF BootNext

\* Both invariants hold while the search for a region never goes back.
THEOREM BootInvariant == BootSpec /\ []NoRewind => [](IInv /\ BootInv)
<1>1. BootInit => IInv /\ BootInv
  BY BootStarts, InitInvariant DEF BootInit
<1>2. (IInv /\ BootInv) /\ NoRewind /\ [BootNext]_bootVars => (IInv /\ BootInv)'
  BY BootSteps, NextInvariant
<1>3. QED
  BY <1>1, <1>2, PTL DEF BootSpec

\* The boot sequence implements module Buddy: each early request is a set of pages the
\* walk will leave out, each block the walk gives to free_pages_order is aligned and
\* made of pages that are still due, and initialize_buddy returns when none is left.
THEOREM BootImplementsBuddy == BootSpec /\ []NoRewind => ImplementsBuddy
<1>1. BootInit => Init
  BY DEF BootInit
<1>2. IInv /\ BootInv /\ NoRewind /\ [BootNext]_bootVars => [Next]_vars
  BY BootSteps
<1>3. QED
  BY <1>1, <1>2, BootInvariant, PTL DEF BootSpec, ImplementsBuddy, Spec

\* The pages alloc_pages_bump handed out (page tables, the bitmaps) are in no block of
\* the buddy allocator, and the walk frees none of them.
THEOREM BumpedStayLive == BootSpec /\ []NoRewind => []BumpPagesLive
<1>1. BootInv => BumpPagesLive
  <2> SUFFICES ASSUME BootInv PROVE BumpPagesLive
    OBVIOUS
  <2>1. BumpedPages \subseteq SkippedPages(bump_ptr_phys)
    BY DEF BootInv, BumpInv
  <2>2. PagesOf(AllBlocks) \cup boot = Usable \ SkippedPages(bump_ptr_phys)
    BY DEF BootInv, AllAccounted, Due
  <2>3. QED
    BY <2>1, <2>2 DEF BumpPagesLive
<1>2. QED
  BY <1>1, BootInvariant, PTL

\* When initialize_buddy returns, the lists hold every usable page that is neither
\* reserved nor handed out before, and no other.
THEOREM BootListsAll == BootSpec /\ []NoRewind => [](phase = "done" => FreePages = Due)
<1>1. IInv /\ BootInv => (phase = "done" => FreePages = Due)
  <2> SUFFICES ASSUME IInv, BootInv, phase = "done" PROVE FreePages = Due
    OBVIOUS
  <2>1. job = NoJob /\ owned = {}
    BY DEF BootInv, OnlyWalkRuns
  <2>2. AllBlocks = FreeBlocks
    BY <2>1, NoJobFacts DEF AllBlocks, JobBlocks
  <2>3. PagesOf(AllBlocks) \cup boot = Due
    BY DEF BootInv, AllAccounted
  <2>4. boot = {}
    BY DEF BootInv
  <2>5. QED
    BY <2>2, <2>3, <2>4 DEF FreePages
<1>2. QED
  BY <1>1, BootInvariant, PTL

-----------------------------------------------------------------------------
(* When the search never goes back: the first region with room for a page  *)
(* has room for everything that is asked for before the buddy allocator.   *)

RegionLimit(e) == IF EntryEnd(e) > EarlyLimit THEN EarlyLimit ELSE EntryEnd(e)

RoomIn(i, most) ==
    /\ \A num \in BumpSizes : num <= most
    /\ region_fits(UsableEntries[i], (MaxEarlyCalls * most + bitmap_pages) * PageSize)
    /\ \A j \in DOMAIN UsableEntries : j < i => ~region_fits(UsableEntries[j], PageSize)

RoomForAll == \E i \in DOMAIN UsableEntries, most \in Nat : RoomIn(i, most)

\* The pointer has moved by the requests so far, from the start of the first region.
InFirstRegion(i, most) ==
    /\ bumped \in Seq(SUBSET Int)
    /\ Len(bumped) <= MaxEarlyCalls
    /\ \/ bump_ptr_phys = 0
       \/ /\ bump_region_end_phys = RegionLimit(UsableEntries[i])
          /\ bump_ptr_phys \in Nat
          /\ bump_ptr_phys
                <= BumpStart(UsableEntries[i]) + (Len(bumped) * most) * PageSize

LEMMA FirstRegionServes ==
    ASSUME NEW i \in DOMAIN UsableEntries, NEW most \in Nat, RoomIn(i, most),
           InFirstRegion(i, most), NEW num \in Requests
    PROVE  /\ \/ bump_ptr_phys = 0
                 /\ bump_region(num * PageSize) =
                      {[start |-> BumpStart(UsableEntries[i]), end |-> RegionLimit(UsableEntries[i])]}
              \/ bump_ptr_phys \in Nat
                 /\ bump_region(num * PageSize) =
                      {[start |-> bump_ptr_phys, end |-> RegionLimit(UsableEntries[i])]}
           /\ num \in BumpSizes => num <= most
<1> DEFINE e == UsableEntries[i]
           b == BumpStart(e)
           len == Len(bumped)
           all == MaxEarlyCalls * most + bitmap_pages
<1>1. num \in Nat \ {0} /\ num * PageSize \in Nat
  BY RequestType
<1>2. len \in Nat /\ len <= MaxEarlyCalls /\ MaxEarlyCalls \in Nat /\ bitmap_pages \in Nat
      /\ b \in Nat /\ most \in Nat /\ RegionLimit(e) \in Nat
  BY BootAssumption, BitmapAssumption, StartFacts, EntryFacts DEF InFirstRegion, RegionLimit
<1>3. /\ num \in BumpSizes => num <= most
      /\ \/ num \in BumpSizes /\ num <= most /\ len + 1 <= MaxEarlyCalls
         \/ num = bitmap_pages
  BY <1>2 DEF RoomIn, Requests
<1> HIDE DEF len
<1>4. len * most \in Nat /\ MaxEarlyCalls * most \in Nat /\ all \in Nat
      /\ len * most + num <= all
  <2>1. len * most \in Nat /\ MaxEarlyCalls * most \in Nat
    BY <1>2
  <2>2. len * most <= MaxEarlyCalls * most
    BY <1>2
  <2>3. len + 1 <= MaxEarlyCalls => (len + 1) * most <= MaxEarlyCalls * most
    BY <1>2
  <2>4. (len + 1) * most = len * most + most
    BY <1>2
  <2>5. QED
    BY <1>1, <1>2, <1>3, <2>1, <2>2, <2>3, <2>4
<1> HIDE DEF all
<1>5. num * PageSize <= all * PageSize
  <2>1. num <= all
    BY <1>1, <1>4
  <2>2. QED
    BY <1>1, <1>4, <2>1, SizeType, Scale
<1>6. /\ e.addr # 0 /\ EntryEnd(e) > highest_reserved_phys
      /\ b + all * PageSize <= EarlyLimit /\ b + all * PageSize <= EntryEnd(e)
  BY DEF RoomIn, region_fits, all
<1>7. all * PageSize \in Nat /\ EntryEnd(e) \in Nat /\ EarlyLimit \in Nat
  BY <1>4, SizeType, EntryFacts, BootAssumption
<1>8. CASE bump_ptr_phys = 0
  <2>1. region_fits(e, num * PageSize)
    BY <1>1, <1>2, <1>5, <1>6, <1>7 DEF region_fits
  <2>2. ASSUME NEW j \in DOMAIN UsableEntries, region_fits(UsableEntries[j], num * PageSize)
        PROVE  i <= j
    <3>1. PageSize <= num * PageSize
      <4>1. 1 * PageSize <= num * PageSize
        BY <1>1, SizeType, Scale
      <4>2. QED
        BY <4>1, SizeType
    <3>2. BumpStart(UsableEntries[j]) \in Nat /\ EntryEnd(UsableEntries[j]) \in Nat
      BY StartFacts, EntryFacts
    <3>3. region_fits(UsableEntries[j], PageSize)
      BY <1>1, <1>7, <2>2, <3>1, <3>2, SizeType DEF region_fits
    <3>4. i \in Nat /\ j \in Nat
      BY EntryFacts
    <3>5. QED
      BY <3>3, <3>4 DEF RoomIn
  <2>3. i \in Nat /\ \A j \in DOMAIN UsableEntries : j \in Nat
    BY EntryFacts
  <2> DEFINE fits == {j \in DOMAIN UsableEntries : region_fits(UsableEntries[j], num * PageSize)}
  <2>4. {j \in fits : \A k \in fits : j <= k} = {i}
    BY <2>1, <2>2, <2>3
  <2>5. find_bump_alloc_region(num * PageSize) = {[start |-> b, end |-> RegionLimit(e)]}
    <3>1. find_bump_alloc_region(num * PageSize) =
             {[start |-> BumpStart(UsableEntries[k]), end |-> RegionLimit(UsableEntries[k])] :
                 k \in {j \in fits : \A k \in fits : j <= k}}
      BY DEF find_bump_alloc_region, RegionLimit
    <3> HIDE DEF fits
    <3>2. QED
      BY <2>4, <3>1
  <2>6. QED
    BY <1>3, <1>8, <2>5 DEF bump_region
<1>9. CASE bump_ptr_phys # 0
  <2>1. /\ bump_region_end_phys = RegionLimit(e) /\ bump_ptr_phys \in Nat
        /\ bump_ptr_phys <= b + (len * most) * PageSize
    BY <1>9 DEF InFirstRegion, len
  <2>2. (len * most) * PageSize + num * PageSize <= all * PageSize
    <3>1. (len * most + num) * PageSize = (len * most) * PageSize + num * PageSize
      BY <1>1, <1>4, SizeType
    <3>2. (len * most + num) * PageSize <= all * PageSize
      BY <1>1, <1>4, SizeType, Scale
    <3>3. QED
      BY <3>1, <3>2
  <2>3. b + all * PageSize <= RegionLimit(e)
    BY <1>6 DEF RegionLimit
  <2>4. (len * most) * PageSize \in Nat
    BY <1>4, SizeType
  <2>5. ~(bump_ptr_phys + num * PageSize > bump_region_end_phys)
    BY <1>1, <1>2, <1>7, <2>1, <2>2, <2>3, <2>4
  <2>6. QED
    BY <1>3, <1>9, <2>1, <2>5 DEF bump_region
<1>10. QED
  BY <1>8, <1>9

\* While the first region holds, every request is served where the last one ended.
LEMMA FirstRegionKept ==
    ASSUME NEW i \in DOMAIN UsableEntries, NEW most \in Nat, RoomIn(i, most),
           phase = "bump" => InFirstRegion(i, most), [BootNext]_bootVars
    PROVE  phase' = "bump" => InFirstRegion(i, most)'
<1> SUFFICES ASSUME phase' = "bump" PROVE InFirstRegion(i, most)'
  OBVIOUS
<1>1. ASSUME NEW num \in BumpSizes, alloc_pages_bump(num) PROVE InFirstRegion(i, most)'
  <2>1. phase = "bump" /\ Len(bumped) < MaxEarlyCalls /\ bump_step(num, "bump")
    BY <1>1 DEF alloc_pages_bump
  <2>2. PICK r \in bump_region(num * PageSize) :
           /\ bump_ptr_phys' = r.start + num * PageSize
           /\ bump_region_end_phys' = r.end
           /\ bumped' = Append(bumped, PagesIn(r.start, r.start + num * PageSize))
    BY <2>1 DEF bump_step, bump_advance
  <2>3. InFirstRegion(i, most) /\ num \in Requests
    BY <2>1 DEF Requests
  <2>4. /\ r.end = RegionLimit(UsableEntries[i])
        /\ num <= most /\ num \in Nat
        /\ \/ bump_ptr_phys = 0 /\ r.start = BumpStart(UsableEntries[i])
           \/ bump_ptr_phys \in Nat /\ r.start = bump_ptr_phys
    BY <2>3, FirstRegionServes, RequestType
  <2>5. /\ Len(bumped) \in Nat /\ BumpStart(UsableEntries[i]) \in Nat
        /\ MaxEarlyCalls \in Nat /\ PagesIn(r.start, r.start + num * PageSize) \in SUBSET Int
    BY <2>3, StartFacts, BootAssumption DEF InFirstRegion, PagesIn
  <2>6. /\ bumped' \in Seq(SUBSET Int) /\ Len(bumped') = Len(bumped) + 1
    BY <2>2, <2>3, <2>5 DEF InFirstRegion
  <2> DEFINE len == Len(bumped)
             b == BumpStart(UsableEntries[i])
  <2>7. /\ ((len + 1) * most) * PageSize = (len * most) * PageSize + most * PageSize
        /\ num * PageSize <= most * PageSize
        /\ num * PageSize \in Nat /\ most * PageSize \in Nat /\ (len * most) * PageSize \in Nat
    <3>1. len \in Nat /\ most \in Nat
      BY <2>5
    <3> HIDE DEF len
    <3>2. len * most \in Nat /\ (len + 1) * most = len * most + most
      BY <3>1
    <3>3. (len * most + most) * PageSize = (len * most) * PageSize + most * PageSize
      BY <3>1, <3>2, SizeType, Scale
    <3>4. num * PageSize <= most * PageSize
      BY <2>4, SizeType, Scale
    <3>5. QED
      BY <2>4, <3>1, <3>2, <3>3, <3>4, SizeType
  <2>8. r.start \in Nat /\ r.start <= b + (len * most) * PageSize
    <3>1. CASE r.start = b
      BY <2>5, <2>7, <3>1
    <3>2. CASE bump_ptr_phys # 0 /\ bump_ptr_phys \in Nat /\ r.start = bump_ptr_phys
      BY <2>3, <3>2 DEF InFirstRegion
    <3>3. CASE bump_ptr_phys = 0 /\ r.start = bump_ptr_phys
      BY <2>5, <2>7, <3>3
    <3>4. QED
      BY <2>4, <3>1, <3>2, <3>3
  <2> HIDE DEF len, b
  <2>9. bump_ptr_phys' \in Nat
        /\ bump_ptr_phys' <= b + ((len + 1) * most) * PageSize
    BY <2>2, <2>5, <2>7, <2>8 DEF b
  <2>10. QED
    BY <2>1, <2>2, <2>4, <2>5, <2>6, <2>9 DEF InFirstRegion, len, b
<1>2. CASE UNCHANGED bootVars \/ boot_over
  BY <1>2 DEF boot_over, bootVars, bumpVars, InFirstRegion
<1>3. CASE initialize_buddy_bitmap
  BY <1>3 DEF initialize_buddy_bitmap, bump_step
<1>4. CASE walk_skip \/ walk_free \/ walk_insert \/ walk_next_entry \/ initialize_buddy_done
  BY <1>4 DEF walk_skip, walk_free, walk_insert, walk_next_entry, initialize_buddy_done,
              WalkInEntry, InWalk
<1>5. QED
  BY <1>1, <1>2, <1>3, <1>4 DEF BootNext

\* With room for all the early requests in the first region that has room for one, the
\* search runs once and the allocator is the monotonic one its documentation describes.
THEOREM RoomIsEnough == RoomForAll => (BootSpec => []NoRewind)
<1> SUFFICES ASSUME NEW i \in DOMAIN UsableEntries, NEW most \in Nat, RoomIn(i, most)
             PROVE  BootSpec => []NoRewind
  BY DEF RoomForAll
<1> DEFINE F == phase = "bump" => InFirstRegion(i, most)
<1>1. BootInit => F
  BY BootAssumption DEF BootInit, InFirstRegion
<1>2. F /\ [BootNext]_bootVars => F'
  BY FirstRegionKept
<1>3. F => NoRewind
  <2> SUFFICES ASSUME InFirstRegion(i, most), NEW num \in Requests,
                      NEW r \in bump_region(num * PageSize)
               PROVE  bump_ptr_phys <= r.start
    BY DEF NoRewind
  <2>1. \/ bump_ptr_phys = 0 /\ r.start = BumpStart(UsableEntries[i])
        \/ bump_ptr_phys \in Nat /\ r.start = bump_ptr_phys
    BY FirstRegionServes
  <2>2. QED
    BY <2>1, StartFacts
<1>4. QED
  BY <1>1, <1>2, <1>3, PTL DEF BootSpec
=============================================================================
