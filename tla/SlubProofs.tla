----------------------------- MODULE SlubProofs -----------------------------
(***************************************************************************)
(* The slabs, the partial lists and the pages of the SLUB allocator, for   *)
(* every memory size, every set of caches and every number of processors,  *)
(* whatever callers write into what they allocate.  The header that a      *)
(* freed slab leaves in its page may be taken for a live one by kfree of a *)
(* large allocation: the theorems say exactly which pages this loses.      *)
(***************************************************************************)
EXTENDS Slub, FiniteSetTheorems, TLAPS

-----------------------------------------------------------------------------
(* What the PMM is asked for: blocks of 2^order pages (BuddyProofs says     *)
(* more of them).                                                           *)

\* The table of shifts: every entry is positive and the next one is its double.
LEMMA Pow2Facts ==
    ASSUME NEW o \in Orders
    PROVE  /\ Pow2[o] \in Nat \ {0}
           /\ Pow2[o + 1] \in Nat \ {0}
           /\ Pow2[o + 1] = 2 * Pow2[o]
BY Pow2Assumption, OrderAssumption DEF Orders

\* The page a block starts at is in the block.
LEMMA BlockNonempty ==
    ASSUME NEW o \in Orders, NEW p \in Nat
    PROVE  p \in Block(p, o)
BY Pow2Facts DEF Block

\* A set of natural numbers has a least element: the proofs below take the least
\* counterexample.
LEMMA LeastOf ==
    ASSUME NEW S \in SUBSET Nat, S # {}
    PROVE  \E x \in S : \A y \in S : x <= y
<1> DEFINE R == OpToRel(<, Nat)
<1>1. IsWellFoundedOn(R, Nat)
  BY NatLessThanWellFounded
<1>2. \A p \in Nat \X Nat : p[1] < p[2] => p \in R
  BY DEF OpToRel
<1> HIDE DEF R
<1>3. PICK x \in S : \A y \in S : ~(<<y, x>> \in R)
  BY <1>1, WFMin
<1>4. ASSUME NEW y \in S PROVE x <= y
  <2>1. x \in Nat /\ y \in Nat
    OBVIOUS
  <2>2. <<y, x>> \in Nat \X Nat /\ <<y, x>>[1] = y /\ <<y, x>>[2] = x
    BY <2>1
  <2>3. y < x => <<y, x>> \in R
    BY <1>2, <2>2, Zenon
  <2>4. QED
    BY <1>3, <2>1, <2>3
<1>5. QED
  BY <1>4

\* The size of a block divides the size of every larger one.
LEMMA PowersDivide ==
    ASSUME NEW o \in Orders, NEW k \in Orders, o <= k
    PROVE  \E m \in Nat \ {0} : Pow2[k] = m * Pow2[o]
<1> DEFINE Divides(j) == \E m \in Nat \ {0} : Pow2[j] = m * Pow2[o]
           Bad == {j \in o..k : ~Divides(j)}
<1>1. Orders \subseteq Nat /\ o \in Nat /\ k \in Nat /\ o..k \subseteq Orders
  BY OrderAssumption DEF Orders
<1>2. SUFFICES ASSUME Bad # {} PROVE FALSE
  <2>1. Bad = {} => Divides(k)
    BY <1>1
  <2>2. QED
    BY <1>2, <2>1
<1>3. PICK j \in Bad : \A i \in Bad : j <= i
  <2>1. Bad \in SUBSET Nat
    BY <1>1
  <2>2. QED
    BY <1>2, <2>1, LeastOf
<1>4. j \in o..k /\ ~Divides(j) /\ j \in Nat
  BY <1>1, <1>3
<1>5. Pow2[o] \in Nat \ {0}
  BY Pow2Facts
<1>6. j # o
  <2>1. Pow2[o] = 1 * Pow2[o]
    BY <1>5
  <2>2. QED
    BY <1>4, <2>1
<1>7. j - 1 \in o..k /\ j - 1 \in Orders /\ (j - 1) + 1 = j
  BY <1>1, <1>4, <1>6
<1>8. Divides(j - 1)
  <2>1. ~(j <= j - 1)
    BY <1>4
  <2>2. j - 1 \notin Bad
    BY <1>3, <2>1
  <2>3. QED
    BY <1>7, <2>2
<1>9. PICK m \in Nat \ {0} : Pow2[j - 1] = m * Pow2[o]
  BY <1>8
<1>10. Pow2[j] = (2 * m) * Pow2[o]
  <2>1. Pow2[j] = 2 * Pow2[j - 1]
    BY <1>7, Pow2Facts
  <2>2. QED
    BY <1>5, <1>9, <2>1
<1>11. QED
  BY <1>4, <1>9, <1>10

\* pages_to_order answers an order whose block holds the pages, or MaxOrder + 1.
LEMMA OrderOfRequest ==
    ASSUME NEW num \in Nat
    PROVE  /\ pages_to_order(num) \in 0..(MaxOrder + 1)
           /\ pages_to_order(num) \in Orders => num <= Pow2[pages_to_order(num)]
<1> DEFINE fits == {o \in Orders : num <= Pow2[o]}
<1>1. CASE num > Pow2[MaxOrder]
  <2>1. pages_to_order(num) = MaxOrder + 1
    BY <1>1 DEF pages_to_order
  <2>2. QED
    BY <2>1, OrderAssumption DEF Orders
<1>2. CASE ~(num > Pow2[MaxOrder])
  <2>1. MaxOrder \in Orders /\ Orders \subseteq Nat
    BY OrderAssumption DEF Orders
  <2>2. \A o \in Orders : Pow2[o] \in Nat
    BY Pow2Facts
  <2>3. MaxOrder \in fits
    BY <1>2, <2>1, <2>2
  <2>4. PICK o \in fits : \A q \in fits : o <= q
    BY <2>1, <2>3, LeastOf
  <2>5. \A q \in 0..(o - 1) : q \in Orders /\ ~(o <= q)
    BY <2>1, OrderAssumption DEF Orders
  <2>6. num <= Pow2[o] /\ \A q \in 0..(o - 1) : Pow2[q] < num
    BY <2>2, <2>4, <2>5
  <2> DEFINE Least(r) == num <= Pow2[r] /\ \A q \in 0..(r - 1) : Pow2[q] < num
             answer == CHOOSE r \in Orders : Least(r)
  <2>7. answer \in Orders /\ num <= Pow2[answer]
    BY <2>6, Zenon
  <2>8. pages_to_order(num) = answer
    BY <1>2 DEF pages_to_order
  <2>9. QED
    BY <2>7, <2>8, OrderAssumption DEF Orders
<1>3. QED
  BY <1>1, <1>2

-----------------------------------------------------------------------------
(* The headers and the lists.                                               *)

Header == [magic : {"slab", "large", "data"}, cache : Caches \cup {NoCache},
           freelist : SUBSET Nat, inuse : Nat, next : Pages, prev : Pages, num : Nat]

\* The neighbours on a doubly linked list of the slabs P that starts at head.
Linked(pg, head, P) ==
    /\ head = 0 <=> P = {}
    /\ head # 0 => head \in P
    /\ \A s \in P :
         /\ pg[s].next \in P \cup {0}
         /\ pg[s].next # 0 => pg[pg[s].next].prev = s
         /\ IF s = head THEN pg[s].prev = 0
            ELSE /\ pg[s].prev \in P
                 /\ pg[pg[s].prev].next = s

\* Every slab of the list is reached from its head.  Linked is kept by a removal of
\* the head only because of this: a ring of slabs apart from the head is Linked too.
FromHead(pg, head, P) ==
    \A Q \in SUBSET P :
        head \in Q /\ (\A q \in Q : pg[q].next \in Q \cup {0}) => Q = P

ProperList(pg, head, P) == 0 \notin P /\ Linked(pg, head, P) /\ FromHead(pg, head, P)

Lists == \A c \in Caches : ProperList(page, partial_list[c], PartialSlabs(c))

\* What a page says of itself, its links apart.
SameSlab(pg, qg, q) ==
    /\ qg[q].magic = pg[q].magic /\ qg[q].cache = pg[q].cache
    /\ qg[q].freelist = pg[q].freelist /\ qg[q].inuse = pg[q].inuse

\* A slab of a known cache whose header counts the objects that callers hold.
SlabOK(s) ==
    /\ page[s].magic = "slab"
    /\ page[s].cache \in Caches /\ page[s].cache[1] \in 0..registered
    /\ LiveObjs(s) \subseteq Objs(page[s].cache)
    /\ page[s].freelist = Objs(page[s].cache) \ LiveObjs(s)
    /\ page[s].inuse = Cardinality(LiveObjs(s))

\* The page before the one a caller of the large path got has the mark, and the page
\* itself is taken for a slab only if it looked like one when it was handed out.
MarkOK(b) ==
    /\ LargeOrder(b[2]) \in Orders
    /\ b[1] \in LargeBlock(b) /\ b[1] + 1 \in LargeBlock(b)
    /\ page[b[1]].magic = "large" /\ page[b[1]].num = b[2]
    /\ looks_like_slab(page, b[1] + 1) => b[3]

SetupOK ==
    /\ setup \in [core : Cores, at : {"idle", "ap_caches", "ap_pool", "push_back",
                                      "holder", "pools", "panic"}]
    /\ registered \in Nat /\ registered <= setup.core
    /\ setup.at \in {"ap_caches", "ap_pool", "push_back"} => registered < setup.core

LargeTyped == large \subseteq Pages \X (Nat \ {0, 1}) \X BOOLEAN

Typed ==
    /\ free \subseteq Pages \ {0}
    /\ page \in [Pages -> Header]
    /\ partial_list \in [Caches -> Pages]
    /\ small \subseteq (Pages \ {0}) \X Nat
    /\ LargeTyped

Memory ==
    /\ Typed
    /\ \A s \in Slabs : SlabOK(s)
    /\ Lists
    /\ NothingLost
    /\ \A b \in large : MarkOK(b)

\* kfree finds the allocation it is given.
EveryFreeFinds == panicked # "invalid free"

IInv == Memory /\ SetupOK /\ EveryFreeFinds

-----------------------------------------------------------------------------
(* Doubly linked lists, whatever the pages are.                            *)

\* A list is as it was when its members keep their links.
LEMMA ListUntouched ==
    ASSUME NEW pg, NEW qg, NEW head, NEW P,
           ProperList(pg, head, P),
           \A q \in P : qg[q].next = pg[q].next /\ qg[q].prev = pg[q].prev
    PROVE  ProperList(qg, head, P)
<1>1. Linked(qg, head, P)
  BY DEF ProperList, Linked
<1>2. FromHead(qg, head, P)
  BY DEF ProperList, FromHead
<1>3. QED
  BY <1>1, <1>2 DEF ProperList

\* A slab that is alone on its list.
LEMMA ListOfOne ==
    ASSUME NEW pg, NEW s, s # 0, pg[s].next = 0, pg[s].prev = 0
    PROVE  ProperList(pg, s, {s})
BY DEF ProperList, Linked, FromHead

\* Taking a slab out of a list gives the list without it: its neighbours are linked
\* to one another, and the head is the next one when the slab was the head.
LEMMA ListWithout ==
    ASSUME NEW pg, NEW qg, NEW head, NEW P, NEW s \in P,
           ProperList(pg, head, P),
           \A q \in P \ {s} : qg[q].next = IF q = pg[s].prev THEN pg[s].next ELSE pg[q].next,
           \A q \in P \ {s} : qg[q].prev = IF q = pg[s].next THEN pg[s].prev ELSE pg[q].prev
    PROVE  ProperList(qg, IF pg[s].prev # 0 THEN head ELSE pg[s].next, P \ {s})
<1> DEFINE a == pg[s].prev
           b == pg[s].next
           first == IF a # 0 THEN head ELSE b
           R == P \ {s}
<1>1. /\ 0 \notin P /\ head \in P /\ b \in P \cup {0}
      /\ s = head <=> a = 0
      /\ a # 0 => a \in P /\ pg[a].next = s
      /\ b # 0 => pg[b].prev = s
  BY DEF ProperList, Linked
<1>2. \A q \in P : /\ pg[q].next \in P \cup {0}
                   /\ pg[q].next # 0 => pg[pg[q].next].prev = q
                   /\ q = head => pg[q].prev = 0
                   /\ q # head => pg[q].prev \in P /\ pg[pg[q].prev].next = q
  BY DEF ProperList, Linked
<1>3. FromHead(pg, head, P)
  BY DEF ProperList
<1>4. FromHead(qg, first, R)
  <2> SUFFICES ASSUME NEW Q \in SUBSET R, first \in Q,
                      \A q \in Q : qg[q].next \in Q \cup {0}
               PROVE  Q = R
    BY DEF FromHead
  <2>1. CASE head \in Q /\ a \notin Q
    <3>1. \A q \in Q : pg[q].next \in Q \cup {0}
      BY <2>1
    <3>2. QED
      BY <2>1, <3>1, <1>3 DEF FromHead
  <2>2. CASE head \in Q /\ a \in Q
    <3>1. qg[a].next = b
      BY <2>2
    <3>2. \A q \in Q \cup {s} : pg[q].next \in Q \cup {s} \cup {0}
      BY <2>2, <3>1, <1>1
    <3>3. Q \cup {s} \in SUBSET P /\ head \in Q \cup {s}
      BY <2>2
    <3>4. Q \cup {s} = P
      BY <3>2, <3>3, <1>3, Zenon DEF FromHead
    <3>5. QED
      BY <3>4
  <2>3. CASE head \notin Q
    <3>1. a = 0 /\ s = head /\ b \in Q
      BY <2>3, <1>1
    <3>2. \A q \in Q \cup {s} : pg[q].next \in Q \cup {s} \cup {0}
      BY <3>1, <1>1
    <3>3. Q \cup {s} \in SUBSET P /\ head \in Q \cup {s}
      BY <3>1
    <3>4. Q \cup {s} = P
      BY <3>2, <3>3, <1>3, Zenon DEF FromHead
    <3>5. QED
      BY <3>4
  <2>4. QED
    BY <2>1, <2>2, <2>3
\* Nothing is left behind a head without a next slab.
<1>5. ASSUME a = 0, b = 0 PROVE R = {}
  <2>1. \A q \in {s} : pg[q].next \in {s} \cup {0}
    BY <1>5
  <2>2. {s} = P
    BY <2>1, <1>1, <1>3, <1>5 DEF FromHead
  <2>3. QED
    BY <2>2
<1>6. first = 0 <=> R = {}
  <2>1. CASE a # 0
    BY <2>1, <1>1
  <2>2. CASE a = 0 /\ b # 0
    <3>1. b # s
      BY <2>2, <1>1
    <3>2. QED
      BY <2>2, <3>1, <1>1
  <2>3. CASE a = 0 /\ b = 0
    BY <2>3, <1>5
  <2>4. QED
    BY <2>1, <2>2, <2>3
<1>7. first # 0 => first \in R
  <2>1. CASE a # 0
    BY <2>1, <1>1
  <2>2. CASE a = 0
    BY <2>2, <1>1
  <2>3. QED
    BY <2>1, <2>2
<1>8. ASSUME NEW q \in R
      PROVE  /\ qg[q].next \in R \cup {0}
             /\ qg[q].next # 0 => qg[qg[q].next].prev = q
             /\ q = first => qg[q].prev = 0
             /\ q # first => qg[q].prev \in R /\ qg[qg[q].prev].next = q
  <2>1. CASE q = a /\ q = b
    <3>1. pg[s].next = q /\ pg[q].next = s /\ pg[q].prev = s /\ pg[s].prev = q
      BY <2>1, <1>1
    <3>2. s # head /\ q # head
      BY <3>1, <1>1, <1>2, <1>8
    <3>3. qg[q].next = q /\ qg[q].prev = q
      BY <2>1
    <3>4. first # q
      BY <3>2, <1>1, <2>1
    <3>5. QED
      BY <3>3, <3>4
  <2>2. CASE q = a /\ q # b
    <3>1. qg[q].next = b /\ qg[q].prev = pg[q].prev /\ q # 0
      BY <2>2, <1>1
    <3>2. b # s
      BY <2>2, <1>1, <1>2
    <3>3. b # 0 => b \in R /\ qg[b].prev = a
      BY <3>2, <1>1
    <3>4. first = head
      BY <2>2, <3>1
    <3>5. q # head => pg[q].prev # s
      BY <2>2, <1>2, <3>2
    <3>6. q # head => qg[pg[q].prev].next = q
      BY <3>5, <1>2, <2>2, <1>1
    <3>7. QED
      BY <3>1, <3>3, <3>4, <3>5, <3>6, <2>2, <1>2
  <2>3. CASE q # a /\ q = b
    <3>1. qg[q].next = pg[q].next /\ qg[q].prev = a /\ q # 0
      BY <2>3, <1>1
    <3>2. pg[q].next # s
      BY <2>3, <1>1, <1>2
    <3>3. pg[q].next # 0 => pg[q].next # b
      BY <2>3, <1>1, <1>2
    <3>4. pg[q].next # 0 => qg[pg[q].next].prev = q
      BY <3>2, <3>3, <1>2
    <3>5. q # head
      BY <2>3, <1>1, <1>2
    <3>6. a # s
      BY <2>3, <1>1, <1>2
    <3>7. a # 0 => a \in R /\ qg[a].next = b
      BY <3>6, <1>1
    <3>8. QED
      BY <3>1, <3>2, <3>4, <3>5, <3>7, <2>3, <1>1, <1>2
  <2>4. CASE q # a /\ q # b
    <3>1. qg[q].next = pg[q].next /\ qg[q].prev = pg[q].prev
      BY <2>4
    <3>2. pg[q].next # s
      BY <2>4, <1>2, <1>1
    <3>3. pg[q].next # 0 => pg[q].next # b
      BY <1>2, <1>1, <2>4
    <3>4. pg[q].next # 0 => qg[pg[q].next].prev = q
      BY <3>2, <3>3, <1>2
    <3>5. q # head => pg[q].prev # s /\ pg[q].prev # a
      BY <2>4, <1>1, <1>2
    <3>6. q # head => qg[pg[q].prev].next = q
      BY <3>5, <1>2
    <3>7. q = first <=> q = head
      BY <2>4, <1>1
    <3>8. QED
      BY <3>1, <3>2, <3>4, <3>5, <3>6, <3>7, <1>2
  <2>5. QED
    BY <2>1, <2>2, <2>3, <2>4
<1>9. Linked(qg, first, R)
  BY <1>6, <1>7, <1>8 DEF Linked
<1>10. QED
  BY <1>1, <1>4, <1>9 DEF ProperList

\* A slab put in front of a list is its head.
LEMMA ListWithFront ==
    ASSUME NEW pg, NEW qg, NEW head, NEW P, NEW s, s # 0, s \notin P,
           ProperList(pg, head, P),
           qg[s].next = head, qg[s].prev = 0,
           \A q \in P : qg[q].next = pg[q].next,
           \A q \in P : qg[q].prev = IF q = head THEN s ELSE pg[q].prev
    PROVE  ProperList(qg, s, P \cup {s})
<1> DEFINE R == P \cup {s}
<1>1. /\ 0 \notin P
      /\ head = 0 <=> P = {}
      /\ head # 0 => head \in P
  BY DEF ProperList, Linked
<1>2. \A q \in P : /\ pg[q].next \in P \cup {0}
                   /\ pg[q].next # 0 => pg[pg[q].next].prev = q
                   /\ q = head => pg[q].prev = 0
                   /\ q # head => pg[q].prev \in P /\ pg[pg[q].prev].next = q
  BY DEF ProperList, Linked
<1>3. FromHead(qg, s, R)
  <2> SUFFICES ASSUME NEW Q \in SUBSET R, s \in Q,
                      \A q \in Q : qg[q].next \in Q \cup {0}
               PROVE  Q = R
    BY DEF FromHead
  <2>1. CASE P = {}
    BY <2>1
  <2>2. CASE P # {}
    <3>1. head \in Q \ {s}
      BY <2>2, <1>1
    <3>2. \A q \in Q \ {s} : pg[q].next \in (Q \ {s}) \cup {0}
      BY <1>2
    <3>3. FromHead(pg, head, P)
      BY DEF ProperList
    <3>4. Q \ {s} = P
      BY <3>1, <3>2, <3>3 DEF FromHead
    <3>5. QED
      BY <3>4
  <2>3. QED
    BY <2>1, <2>2
<1>4. ASSUME NEW q \in R
      PROVE  /\ qg[q].next \in R \cup {0}
             /\ qg[q].next # 0 => qg[qg[q].next].prev = q
             /\ q = s => qg[q].prev = 0
             /\ q # s => qg[q].prev \in R /\ qg[qg[q].prev].next = q
  <2>1. CASE q = s
    BY <2>1, <1>1
  <2>2. CASE q # s
    <3>1. q \in P /\ qg[q].next = pg[q].next
      BY <2>2
    <3>2. pg[q].next # 0 => pg[q].next # head
      BY <3>1, <1>1, <1>2
    <3>3. CASE q = head
      BY <3>1, <3>2, <3>3, <1>2, <2>2
    <3>4. CASE q # head
      BY <3>1, <3>2, <3>4, <1>2, <2>2
    <3>5. QED
      BY <3>3, <3>4
  <2>3. QED
    BY <2>1, <2>2
<1>5. Linked(qg, s, R)
  BY <1>4 DEF Linked
<1>6. QED
  BY <1>1, <1>3, <1>5 DEF ProperList
-----------------------------------------------------------------------------
(* What the PMM takes, gets back and writes nodes into.                    *)

LEMMA ShiftsGrow ==
    ASSUME NEW o \in Orders, NEW k \in Orders, o < k
    PROVE  Pow2[o] \in Nat \ {0} /\ Pow2[k] \in Nat /\ Pow2[o] < Pow2[k]
<1>1. o + 1 \in Orders /\ o + 1 <= k
  BY OrderAssumption DEF Orders
<1>2. /\ Pow2[o] \in Nat \ {0} /\ Pow2[k] \in Nat
      /\ Pow2[o + 1] = 2 * Pow2[o] /\ Pow2[o + 1] \in Nat
  BY Pow2Facts, <1>1
<1>3. PICK m \in Nat \ {0} : Pow2[k] = m * Pow2[o + 1]
  BY <1>1, PowersDivide
<1>4. Pow2[k] >= Pow2[o + 1]
  <2> DEFINE d == Pow2[o + 1]
  <2>1. d \in Nat /\ Pow2[k] = m * d
    BY <1>2, <1>3
  <2> HIDE DEF d
  <2>2. m * d >= d
    BY <2>1
  <2>3. QED
    BY <2>1, <2>2 DEF d
<1>5. QED
  BY <1>2, <1>4

\* An allocation takes free pages, and the nodes of the split are in other free pages.
LEMMA TakenBlock ==
    ASSUME free \subseteq Pages, NEW order \in Orders, NEW p \in BestFit(free, order)
    PROVE  /\ Block(p, order) \subseteq free /\ p \in Block(p, order)
           /\ SplitHeads(p, order) \subseteq free \ Block(p, order)
<1>1. PICK c \in MaximalBlocks(free) : c[1] = p /\ c[2] >= order
  BY Zenon DEF BestFit
<1>2. /\ c[1] \in free /\ c[2] \in Orders /\ Extent(c) \subseteq free
      /\ p \in Nat
  <2>1. c \in free \X Orders /\ Extent(c) \subseteq free
    BY DEF MaximalBlocks, AlignedBlocks
  <2>2. c[1] \in free /\ c[2] \in Orders
    BY <2>1
  <2>3. QED
    <3>1. p \in Pages
      BY <2>2, <1>1
    <3>2. QED
      BY <2>1, <2>2, <3>1, PagesAssumption DEF Pages
<1>3. Block(p, c[2]) \subseteq free
  BY <1>1, <1>2 DEF Extent
<1>4. Pow2[order] \in Nat \ {0} /\ Pow2[c[2]] \in Nat \ {0}
  BY <1>2, Pow2Facts
<1>5. Pow2[order] <= Pow2[c[2]]
  <2>1. CASE order = c[2]
    BY <2>1, <1>4
  <2>2. CASE order # c[2]
    <3>1. order < c[2]
      BY <2>2, <1>1, <1>2, OrderAssumption DEF Orders
    <3>2. QED
      BY <3>1, <1>2, <1>4, ShiftsGrow
  <2>3. QED
    BY <2>1, <2>2
<1>6. Block(p, order) \subseteq Block(p, c[2])
  BY <1>2, <1>4, <1>5 DEF Block
<1>7. p \in Block(p, order)
  BY <1>2, BlockNonempty
<1>8. ASSUME NEW h \in SplitHeads(p, order) PROVE h \in free \ Block(p, order)
  <2> DEFINE whole == CHOOSE b \in MaximalBlocks(free) : b[1] = p
  <2>1. whole \in MaximalBlocks(free) /\ whole[1] = p
    BY <1>1
  <2>2. whole[2] \in Orders /\ Extent(whole) \subseteq free
    BY <2>1 DEF MaximalBlocks, AlignedBlocks
  <2> HIDE DEF whole
  <2>3. PICK o \in order..(whole[2] - 1) : h = p + Pow2[o]
    BY <1>8 DEF SplitHeads, whole
  <2>4. o \in Orders /\ o < whole[2] /\ order <= o
    BY <2>2, <2>3, OrderAssumption DEF Orders
  <2>5. Pow2[o] \in Nat \ {0} /\ Pow2[whole[2]] \in Nat /\ Pow2[o] < Pow2[whole[2]]
    BY <2>2, <2>4, ShiftsGrow
  <2>6. Pow2[order] <= Pow2[o]
    <3>1. CASE order = o
      BY <3>1, <2>5
    <3>2. CASE order # o
      <4>1. order < o
        BY <3>2, <2>4, OrderAssumption DEF Orders
      <4>2. QED
        BY <4>1, <2>4, <2>5, <1>4, ShiftsGrow
    <3>3. QED
      BY <3>1, <3>2
  <2>7. h \in Extent(whole)
    BY <1>2, <2>1, <2>3, <2>5 DEF Extent, Block
  <2>8. h \notin Block(p, order)
    BY <1>2, <1>4, <2>3, <2>5, <2>6 DEF Block
  <2>9. QED
    BY <2>2, <2>7, <2>8
<1>9. QED
  BY <1>3, <1>6, <1>7, <1>8

\* The node of the returned block is in a page that is free afterwards.
LEMMA MergedInside ==
    ASSUME NEW p, NEW order
    PROVE  MergedHeads(p, order) \subseteq free \cup Block(p, order)
BY DEF MergedHeads, MaximalBlocks, AlignedBlocks

LEMMA DataIsHeader == Data \in Header
<1>1. 0 \in Pages
  BY PagesAssumption DEF Pages
<1>2. QED
  BY <1>1 DEF Data, Header

LEMMA NodesWritten ==
    ASSUME NEW pg \in [Pages -> Header], NEW heads
    PROVE  /\ WriteNodes(pg, heads) \in [Pages -> Header]
           /\ \A q \in Pages \ heads : WriteNodes(pg, heads)[q] = pg[q]
BY DataIsHeader DEF WriteNodes

\* A large block is large enough for the mark and the first page of the caller.
LEMMA LargeBlockFacts ==
    ASSUME NEW num \in Nat \ {0, 1}, NEW p \in Nat, LargeOrder(num) \in Orders
    PROVE  p \in Block(p, LargeOrder(num)) /\ p + 1 \in Block(p, LargeOrder(num))
<1> DEFINE o == LargeOrder(num)
<1>1. num <= Pow2[o] /\ Pow2[o] \in Nat
  <2>1. num <= Pow2[pages_to_order(num)]
    BY OrderOfRequest DEF LargeOrder
  <2>2. QED
    BY <2>1, Pow2Facts DEF LargeOrder
<1>2. QED
  BY <1>1 DEF Block
-----------------------------------------------------------------------------
(* The objects of a slab.                                                  *)

LEMMA CacheFacts ==
    ASSUME NEW c \in Caches
    PROVE  /\ c[2] \in Classes /\ c # NoCache
           /\ MaxObjs[c[2]] \in Nat \ {0} /\ MaxObjs[c[2]] < InuseModulus
           /\ InuseModulus \in Nat \ {0}
           /\ Objs(c) = 1..MaxObjs[c[2]] /\ Objs(c) # {} /\ Objs(c) \subseteq Nat \ {0}
<1>1. c \in Cores \X Classes /\ c[2] \in Classes
  BY DEF Caches
<1>2. 0 \notin Classes
  BY SlubAssumption
<1>3. c # NoCache
  BY <1>1, <1>2 DEF NoCache
<1>4. /\ MaxObjs[c[2]] \in Nat \ {0} /\ MaxObjs[c[2]] < InuseModulus
      /\ InuseModulus \in Nat \ {0}
  BY <1>1, SlubAssumption
<1>5. QED
  BY <1>1, <1>3, <1>4 DEF Objs

\* inuse tells an empty and a full slab from the others.
LEMMA LiveCount ==
    ASSUME NEW c \in Caches, NEW L \in SUBSET Objs(c)
    PROVE  /\ IsFiniteSet(L)
           /\ Cardinality(L) \in 0..MaxObjs[c[2]]
           /\ Cardinality(L) = 0 <=> L = {}
           /\ Cardinality(L) = MaxObjs[c[2]] <=> L = Objs(c)
<1>1. /\ MaxObjs[c[2]] \in Nat \ {0} /\ Objs(c) = 1..MaxObjs[c[2]]
  BY CacheFacts
<1>2. IsFiniteSet(Objs(c)) /\ Cardinality(Objs(c)) = MaxObjs[c[2]]
  <2> DEFINE n == MaxObjs[c[2]]
  <2>1. n \in Nat \ {0}
    BY <1>1
  <2> HIDE DEF n
  <2>2. IsFiniteSet(1..n) /\ Cardinality(1..n) = n
    BY <2>1, FS_Interval
  <2>3. QED
    BY <2>2, <1>1 DEF n
<1>3. /\ IsFiniteSet(L) /\ Cardinality(L) <= Cardinality(Objs(c))
      /\ Cardinality(L) = Cardinality(Objs(c)) => L = Objs(c)
  BY <1>2, FS_Subset
<1>4. Cardinality(L) \in Nat /\ (Cardinality(L) = 0 <=> L = {})
  BY <1>3, FS_CardinalityType, FS_EmptySet
<1>5. QED
  BY <1>1, <1>2, <1>3, <1>4

LEMMA CountWith ==
    ASSUME NEW L, NEW o, IsFiniteSet(L), o \notin L
    PROVE  Cardinality(L \cup {o}) = Cardinality(L) + 1
BY FS_AddElement

LEMMA CountWithout ==
    ASSUME NEW L, NEW o, IsFiniteSet(L), o \in L
    PROVE  Cardinality(L \ {o}) = Cardinality(L) - 1
BY FS_RemoveElement

\* A page has a live object exactly when it is a slab.
LEMMA SlabsHaveLive ==
    ASSUME NEW s
    PROVE  s \in Slabs <=> LiveObjs(s) # {}
BY DEF Slabs, LiveObjs

\* LiveObjs and Slabs of any set of objects.
LiveIn(held, s) == {x[2] : x \in {y \in held : y[1] = s}}
SlabsIn(held)   == {x[1] : x \in held}

LEMMA LivePairs ==
    ASSUME NEW A, NEW B, NEW held, held \subseteq A \X B
    PROVE  /\ \A q, n : n \in LiveIn(held, q) <=> <<q, n>> \in held
           /\ \A q : q \in SlabsIn(held) <=> \E n : <<q, n>> \in held
<1>1. \A x \in held : x = <<x[1], x[2]>>
  OBVIOUS
<1>2. ASSUME NEW q, NEW n
      PROVE  n \in LiveIn(held, q) <=> <<q, n>> \in held
  <2>1. n \in LiveIn(held, q) <=> \E x \in held : x[1] = q /\ x[2] = n
    BY DEF LiveIn
  <2>2. QED
    BY <1>1, <2>1
<1>3. ASSUME NEW q PROVE q \in SlabsIn(held) <=> \E n : <<q, n>> \in held
  <2>1. ASSUME NEW x \in held, x[1] = q PROVE <<q, x[2]>> \in held
    BY <1>1, <2>1
  <2>2. ASSUME NEW n, <<q, n>> \in held PROVE \E x \in held : x[1] = q
    BY <2>2
  <2>3. QED
    BY <2>1, <2>2 DEF SlabsIn
<1>4. QED
  BY <1>2, <1>3

LEMMA LiveNow ==
    /\ \A q : LiveObjs(q) = LiveIn(small, q) /\ LiveObjs(q)' = LiveIn(small', q)
    /\ Slabs = SlabsIn(small) /\ Slabs' = SlabsIn(small')
BY DEF LiveObjs, LiveIn, Slabs, SlabsIn

\* What handing out object o of slab s changes.
LEMMA LiveWith ==
    ASSUME NEW s, NEW o, NEW A, NEW B, small \subseteq A \X B, small' \subseteq A \X B,
           small' = small \cup {<<s, o>>}
    PROVE  /\ LiveObjs(s)' = LiveObjs(s) \cup {o}
           /\ \A q : q # s => LiveObjs(q)' = LiveObjs(q)
           /\ Slabs' = Slabs \cup {s}
<1>1. /\ \A q, n : n \in LiveObjs(q) <=> <<q, n>> \in small
      /\ \A q : q \in Slabs <=> \E n : <<q, n>> \in small
  BY LivePairs, LiveNow
<1>2. /\ \A q, n : n \in LiveObjs(q)' <=> <<q, n>> \in small'
      /\ \A q : q \in Slabs' <=> \E n : <<q, n>> \in small'
  <2>1. small' \subseteq A \X B
    OBVIOUS
  <2>2. /\ \A q, n : n \in LiveIn(small', q) <=> <<q, n>> \in small'
        /\ \A q : q \in SlabsIn(small') <=> \E n : <<q, n>> \in small'
    BY ONLY <2>1, LivePairs, Zenon
  <2>3. QED
    BY ONLY <2>2, LiveNow
<1>3. \A q, n : <<q, n>> \in small' <=> <<q, n>> \in small \/ (q = s /\ n = o)
  OBVIOUS
<1>4. \A q, n : n \in LiveObjs(q)' <=> n \in LiveObjs(q) \/ (q = s /\ n = o)
  BY <1>1, <1>2, <1>3
<1>5. LiveObjs(s)' = LiveObjs(s) \cup {o}
  BY <1>4
<1>6. \A q : q # s => LiveObjs(q)' = LiveObjs(q)
  <2>1. ASSUME NEW q, q # s, NEW n PROVE n \in LiveObjs(q)' <=> n \in LiveObjs(q)
    BY <1>4, <2>1
  <2>2. QED
    BY ONLY <2>1
<1>7. Slabs' = Slabs \cup {s}
  BY <1>1, <1>2, <1>3
<1>8. QED
  BY <1>5, <1>6, <1>7

\* What taking it back changes.
LEMMA LiveWithout ==
    ASSUME NEW s, NEW o, NEW A, NEW B, small \subseteq A \X B,
           small' = small \ {<<s, o>>}
    PROVE  /\ LiveObjs(s)' = LiveObjs(s) \ {o}
           /\ \A q : q # s => LiveObjs(q)' = LiveObjs(q)
           /\ Slabs' \ {s} = Slabs \ {s}
           /\ s \in Slabs' <=> LiveObjs(s)' # {}
<1>1. /\ \A q, n : n \in LiveObjs(q) <=> <<q, n>> \in small
      /\ \A q : q \in Slabs <=> \E n : <<q, n>> \in small
  BY LivePairs, LiveNow
<1>2. /\ \A q, n : n \in LiveObjs(q)' <=> <<q, n>> \in small'
      /\ \A q : q \in Slabs' <=> \E n : <<q, n>> \in small'
  <2>1. small' \subseteq A \X B
    OBVIOUS
  <2>2. /\ \A q, n : n \in LiveIn(small', q) <=> <<q, n>> \in small'
        /\ \A q : q \in SlabsIn(small') <=> \E n : <<q, n>> \in small'
    BY <2>1, LivePairs
  <2>3. QED
    BY ONLY <2>2, LiveNow
<1>3. \A q, n : <<q, n>> \in small' <=> <<q, n>> \in small /\ ~(q = s /\ n = o)
  OBVIOUS
<1>4. \A q, n : n \in LiveObjs(q)' <=> n \in LiveObjs(q) /\ ~(q = s /\ n = o)
  BY <1>1, <1>2, <1>3
<1>5. LiveObjs(s)' = LiveObjs(s) \ {o}
  BY <1>4
<1>6. \A q : q # s => LiveObjs(q)' = LiveObjs(q)
  <2>1. ASSUME NEW q, q # s, NEW n PROVE n \in LiveObjs(q)' <=> n \in LiveObjs(q)
    BY ONLY <1>4, <2>1
  <2>2. QED
    BY ONLY <2>1
<1>7. Slabs' \ {s} = Slabs \ {s}
  BY <1>1, <1>2, <1>3
<1>8. s \in Slabs' <=> LiveObjs(s)' # {}
  BY <1>2
<1>9. QED
  BY <1>5, <1>6, <1>7, <1>8

LEMMA PartialMember ==
    ASSUME NEW c, NEW s
    PROVE  s \in PartialSlabs(c) <=>
             s \in Slabs /\ page[s].cache = c /\ LiveObjs(s) # Objs(c)
BY DEF PartialSlabs
-----------------------------------------------------------------------------
(* What the operations on slabs do to pages.                               *)

LEMMA ZeroIsPage == 0 \in Pages
BY PagesAssumption DEF Pages

\* One field of one page.
LEMMA SetLinks ==
    ASSUME NEW pg \in [Pages -> Header], NEW s \in Pages, NEW n \in Pages
    PROVE  /\ [pg EXCEPT ![s].next = n] \in [Pages -> Header]
           /\ [pg EXCEPT ![s].next = n][s] = [pg[s] EXCEPT !.next = n]
           /\ \A q \in Pages \ {s} : [pg EXCEPT ![s].next = n][q] = pg[q]
           /\ [pg EXCEPT ![s].prev = n] \in [Pages -> Header]
           /\ [pg EXCEPT ![s].prev = n][s] = [pg[s] EXCEPT !.prev = n]
           /\ \A q \in Pages \ {s} : [pg EXCEPT ![s].prev = n][q] = pg[q]
<1>1. pg[s] \in Header
  OBVIOUS
<1>2. [pg[s] EXCEPT !.next = n] \in Header /\ [pg[s] EXCEPT !.prev = n] \in Header
  BY <1>1 DEF Header
<1>3. QED
  BY <1>1, <1>2

LEMMA LinkFields ==
    ASSUME NEW h \in Header, NEW n \in Pages
    PROVE  /\ [h EXCEPT !.next = n].next = n /\ [h EXCEPT !.next = n].prev = h.prev
           /\ [h EXCEPT !.prev = n].prev = n /\ [h EXCEPT !.prev = n].next = h.next
           /\ [h EXCEPT !.next = n].magic = h.magic /\ [h EXCEPT !.prev = n].magic = h.magic
           /\ [h EXCEPT !.next = n].cache = h.cache /\ [h EXCEPT !.prev = n].cache = h.cache
           /\ [h EXCEPT !.next = n].freelist = h.freelist
           /\ [h EXCEPT !.prev = n].freelist = h.freelist
           /\ [h EXCEPT !.next = n].inuse = h.inuse /\ [h EXCEPT !.prev = n].inuse = h.inuse
BY DEF Header

\* The same for every page at once.
SetNext(pg, s, n)    == [pg EXCEPT ![s].next = n]
SetPrev(pg, s, n)    == [pg EXCEPT ![s].prev = n]
SetBoth(pg, s, n, m) == [pg EXCEPT ![s].next = n, ![s].prev = m]

LEMMA NextSet ==
    ASSUME NEW pg \in [Pages -> Header], NEW s \in Pages, NEW n \in Pages
    PROVE  /\ SetNext(pg, s, n) \in [Pages -> Header]
           /\ \A q \in Pages : /\ SameSlab(pg, SetNext(pg, s, n), q)
                               /\ SetNext(pg, s, n)[q].prev = pg[q].prev
           /\ \A q \in Pages \ {s} : SetNext(pg, s, n)[q] = pg[q]
           /\ SetNext(pg, s, n)[s].next = n
<1> DEFINE qg == SetNext(pg, s, n)
<1>1. /\ qg \in [Pages -> Header] /\ qg[s] = [pg[s] EXCEPT !.next = n]
      /\ \A q \in Pages \ {s} : qg[q] = pg[q]
  BY SetLinks DEF SetNext
<1>2. pg[s] \in Header
  OBVIOUS
<1> HIDE DEF qg
<1>3. SameSlab(pg, qg, s) /\ qg[s].prev = pg[s].prev /\ qg[s].next = n
  BY ONLY <1>1, <1>2, n \in Pages, LinkFields DEF SameSlab
<1>4. \A q \in Pages \ {s} : SameSlab(pg, qg, q) /\ qg[q].prev = pg[q].prev
  BY ONLY <1>1 DEF SameSlab
<1>5. QED
  BY ONLY <1>1, <1>3, <1>4 DEF qg

LEMMA PrevSet ==
    ASSUME NEW pg \in [Pages -> Header], NEW s \in Pages, NEW n \in Pages
    PROVE  /\ SetPrev(pg, s, n) \in [Pages -> Header]
           /\ \A q \in Pages : /\ SameSlab(pg, SetPrev(pg, s, n), q)
                               /\ SetPrev(pg, s, n)[q].next = pg[q].next
           /\ \A q \in Pages \ {s} : SetPrev(pg, s, n)[q] = pg[q]
           /\ SetPrev(pg, s, n)[s].prev = n
<1> DEFINE qg == SetPrev(pg, s, n)
<1>1. /\ qg \in [Pages -> Header] /\ qg[s] = [pg[s] EXCEPT !.prev = n]
      /\ \A q \in Pages \ {s} : qg[q] = pg[q]
  BY SetLinks DEF SetPrev
<1>2. pg[s] \in Header
  OBVIOUS
<1> HIDE DEF qg
<1>3. SameSlab(pg, qg, s) /\ qg[s].next = pg[s].next /\ qg[s].prev = n
  BY ONLY <1>1, <1>2, n \in Pages, LinkFields DEF SameSlab
<1>4. \A q \in Pages \ {s} : SameSlab(pg, qg, q) /\ qg[q].next = pg[q].next
  BY ONLY <1>1 DEF SameSlab
<1>5. QED
  BY ONLY <1>1, <1>3, <1>4 DEF qg

\* Both links of one page.
LEMMA BothSet ==
    ASSUME NEW pg \in [Pages -> Header], NEW s \in Pages, NEW n \in Pages, NEW m \in Pages
    PROVE  /\ SetBoth(pg, s, n, m) \in [Pages -> Header]
           /\ \A q \in Pages : SameSlab(pg, SetBoth(pg, s, n, m), q)
           /\ \A q \in Pages \ {s} : SetBoth(pg, s, n, m)[q] = pg[q]
           /\ SetBoth(pg, s, n, m)[s].next = n /\ SetBoth(pg, s, n, m)[s].prev = m
<1> DEFINE rg == SetNext(pg, s, n)
           qg == SetPrev(rg, s, m)
<1>1. /\ rg \in [Pages -> Header]
      /\ \A q \in Pages : SameSlab(pg, rg, q)
      /\ \A q \in Pages \ {s} : rg[q] = pg[q]
      /\ rg[s].next = n
  BY NextSet
<1> HIDE DEF rg
<1>2. /\ qg \in [Pages -> Header]
      /\ \A q \in Pages : SameSlab(rg, qg, q) /\ qg[q].next = rg[q].next
      /\ \A q \in Pages \ {s} : qg[q] = rg[q]
      /\ qg[s].prev = m
  BY <1>1, PrevSet
<1>3. SetBoth(pg, s, n, m) = qg
  BY DEF SetBoth, SetNext, SetPrev, rg
<1> HIDE DEF qg
<1>4. \A q \in Pages : SameSlab(pg, qg, q)
  BY ONLY <1>1, <1>2 DEF SameSlab
<1>5. QED
  BY ONLY <1>1, <1>2, <1>3, <1>4, s \in Pages
\* The objects of one header.
SetObjs(h, F, n) == [h EXCEPT !.freelist = F, !.inuse = n]

LEMMA ObjsSet ==
    ASSUME NEW h \in Header, NEW F \in SUBSET Nat, NEW n \in Nat
    PROVE  /\ SetObjs(h, F, n) \in Header
           /\ SetObjs(h, F, n).freelist = F /\ SetObjs(h, F, n).inuse = n
           /\ SetObjs(h, F, n).magic = h.magic /\ SetObjs(h, F, n).cache = h.cache
           /\ SetObjs(h, F, n).next = h.next /\ SetObjs(h, F, n).prev = h.prev
<1> DEFINE r == [h EXCEPT !.freelist = F]
           t == [r EXCEPT !.inuse = n]
<1>1. /\ r \in Header /\ r.freelist = F /\ r.inuse = h.inuse
      /\ r.magic = h.magic /\ r.cache = h.cache /\ r.next = h.next /\ r.prev = h.prev
  BY DEF Header
<1>2. SetObjs(h, F, n) = t
  BY DEF SetObjs
<1> HIDE DEF r
<1>3. /\ t \in Header /\ t.freelist = r.freelist /\ t.inuse = n
      /\ t.magic = r.magic /\ t.cache = r.cache /\ t.next = r.next /\ t.prev = r.prev
  BY <1>1 DEF Header
<1> HIDE DEF t
<1>4. QED
  BY <1>1, <1>2, <1>3

LastFree(pg, s, o) == pg[s].freelist \ {o} = {}

\* A pop that leaves a free object.
LEMMA PopMore ==
    ASSUME NEW pg \in [Pages -> Header], NEW s \in Pages, NEW o,
           ~LastFree(pg, s, o)
    PROVE  pop(pg, s, o) =
             [page |-> [pg EXCEPT ![s] = SetObjs(pg[s], pg[s].freelist \ {o}, pg[s].inuse + 1)],
              head |-> s]
<1> DEFINE h == SetObjs(pg[s], pg[s].freelist \ {o}, pg[s].inuse + 1)
<1>1. /\ pg[s] \in Header /\ pg[s].freelist \ {o} \in SUBSET Nat
      /\ pg[s].inuse + 1 \in Nat
  BY DEF Header
<1>2. h \in Header /\ h.freelist = pg[s].freelist \ {o}
  BY <1>1, ObjsSet
<1>3. h = [pg[s] EXCEPT !.freelist = @ \ {o}, !.inuse = @ + 1]
  BY DEF SetObjs
<1> HIDE DEF h
<1>4. pop(pg, s, o) = [page |-> [pg EXCEPT ![s] = h], head |-> s]
  BY <1>2, <1>3 DEF pop, LastFree
<1>5. QED
  BY <1>4 DEF h

\* A pop of the last free object takes the slab off the list.
LEMMA PopFull ==
    ASSUME NEW pg \in [Pages -> Header], NEW s \in Pages, NEW o,
           LastFree(pg, s, o)
    PROVE  /\ pop(pg, s, o).head = pg[s].next
           /\ pop(pg, s, o).page \in [Pages -> Header]
           /\ \A q \in Pages \ {s} : /\ SameSlab(pg, pop(pg, s, o).page, q)
                                     /\ pop(pg, s, o).page[q].next = pg[q].next
           /\ \A q \in Pages \ {0, s} : pop(pg, s, o).page[q].prev =
                                          IF q = pg[s].next THEN 0 ELSE pg[q].prev
           /\ \A q \in Pages \ {s} : q # pg[s].next \/ q = 0 =>
                                       pop(pg, s, o).page[q] = pg[q]
           /\ pop(pg, s, o).page[s].magic = pg[s].magic
           /\ pop(pg, s, o).page[s].cache = pg[s].cache
           /\ pop(pg, s, o).page[s].freelist = {}
           /\ pop(pg, s, o).page[s].inuse = pg[s].inuse + 1
           /\ pop(pg, s, o).page[s].next = 0 /\ pop(pg, s, o).page[s].prev = 0
<1> DEFINE h    == SetObjs(pg[s], pg[s].freelist \ {o}, pg[s].inuse + 1)
           b    == pg[s].next
           rest == IF b = 0 THEN pg ELSE SetPrev(pg, b, 0)
           full == [h EXCEPT !.next = 0, !.prev = 0]
<1>1. /\ pg[s] \in Header /\ pg[s].freelist \ {o} \in SUBSET Nat
      /\ pg[s].inuse + 1 \in Nat /\ b \in Pages /\ 0 \in Pages
  BY ZeroIsPage DEF Header
<1>2. /\ h \in Header /\ h.freelist = {} /\ h.inuse = pg[s].inuse + 1
      /\ h.magic = pg[s].magic /\ h.cache = pg[s].cache /\ h.next = b
  BY <1>1, ObjsSet DEF LastFree
<1>3. h = [pg[s] EXCEPT !.freelist = @ \ {o}, !.inuse = @ + 1]
  BY DEF SetObjs
<1> HIDE DEF h, b
<1>4. /\ rest \in [Pages -> Header]
      /\ \A q \in Pages : SameSlab(pg, rest, q) /\ rest[q].next = pg[q].next
      /\ \A q \in Pages \ {0} : rest[q].prev = IF q = b THEN 0 ELSE pg[q].prev
      /\ \A q \in Pages : q # b \/ q = 0 => rest[q] = pg[q]
  <2>1. CASE b = 0
    BY <2>1 DEF SameSlab
  <2>2. CASE b # 0
    <3>1. rest = SetPrev(pg, b, 0)
      BY <2>2
    <3> HIDE DEF rest
    <3>2. /\ rest \in [Pages -> Header]
          /\ \A q \in Pages : SameSlab(pg, rest, q) /\ rest[q].next = pg[q].next
          /\ \A q \in Pages \ {b} : rest[q] = pg[q]
          /\ rest[b].prev = 0
      BY <1>1, <3>1, PrevSet
    <3>3. QED
      BY <2>2, <3>2
  <2>3. QED
    BY <2>1, <2>2
<1>5. rest = IF h.next = 0 THEN pg ELSE [pg EXCEPT ![h.next].prev = 0]
  BY <1>2 DEF SetPrev
<1> HIDE DEF rest
<1>6. /\ full \in Header /\ full.freelist = {} /\ full.inuse = h.inuse
      /\ full.magic = h.magic /\ full.cache = h.cache /\ full.next = 0 /\ full.prev = 0
  <2> DEFINE r == [h EXCEPT !.next = 0]
  <2>1. /\ r \in Header /\ r.next = 0 /\ r.freelist = {} /\ r.inuse = h.inuse
        /\ r.magic = h.magic /\ r.cache = h.cache
    BY <1>1, <1>2 DEF Header
  <2>2. full = [r EXCEPT !.prev = 0]
    OBVIOUS
  <2> HIDE DEF r, full
  <2>3. QED
    BY <1>1, <2>1, <2>2 DEF Header
<1>7. full = [h EXCEPT !.next = 0, !.prev = 0]
  OBVIOUS
<1> HIDE DEF full
<1>8. pop(pg, s, o) = [page |-> [rest EXCEPT ![s] = full], head |-> b]
  BY <1>2, <1>3, <1>5, <1>7 DEF pop
<1>9. pop(pg, s, o).page = [rest EXCEPT ![s] = full] /\ pop(pg, s, o).head = b
  BY <1>8
<1>10. /\ pop(pg, s, o).page \in [Pages -> Header]
       /\ pop(pg, s, o).page[s] = full
       /\ \A q \in Pages \ {s} : pop(pg, s, o).page[q] = rest[q]
  BY <1>4, <1>6, <1>9
<1>11. QED
  BY <1>2, <1>4, <1>6, <1>9, <1>10 DEF SameSlab, b
\* A slab linked in front of the list of cache c.
LEMMA FrontFacts ==
    ASSUME NEW pg \in [Pages -> Header], NEW s \in Pages, NEW c,
           partial_list[c] \in Pages, s # partial_list[c]
    PROVE  /\ link_front(pg, c, s) \in [Pages -> Header]
           /\ \A q \in Pages : SameSlab(pg, link_front(pg, c, s), q)
           /\ \A q \in Pages \ {s} : link_front(pg, c, s)[q].next = pg[q].next
           /\ \A q \in Pages \ {0, s} : link_front(pg, c, s)[q].prev =
                                          IF q = partial_list[c] THEN s ELSE pg[q].prev
           /\ \A q \in Pages \ {s} : q # partial_list[c] \/ q = 0 =>
                                       link_front(pg, c, s)[q] = pg[q]
           /\ link_front(pg, c, s)[s].next = partial_list[c]
           /\ link_front(pg, c, s)[s].prev = 0
<1> DEFINE old   == partial_list[c]
           front == SetBoth(pg, s, old, 0)
           done  == IF old = 0 THEN front ELSE SetPrev(front, old, s)
<1>1. /\ front \in [Pages -> Header]
      /\ \A q \in Pages : SameSlab(pg, front, q)
      /\ \A q \in Pages \ {s} : front[q] = pg[q]
      /\ front[s].next = old /\ front[s].prev = 0
  BY BothSet, ZeroIsPage
<1>2. link_front(pg, c, s) = done
  BY DEF link_front, SetBoth, SetPrev
<1>3. old \in Pages /\ s # old /\ 0 \in Pages
  BY ZeroIsPage
<1> HIDE DEF front, old
<1>4. CASE old = 0
  BY <1>1, <1>2, <1>3, <1>4 DEF old
<1>5. CASE old # 0
  <2>1. done = SetPrev(front, old, s)
    BY <1>5
  <2> HIDE DEF done
  <2>2. /\ done \in [Pages -> Header]
        /\ \A q \in Pages : SameSlab(front, done, q) /\ done[q].next = front[q].next
        /\ \A q \in Pages \ {old} : done[q] = front[q]
        /\ done[old].prev = s
    <3>1. front \in [Pages -> Header] /\ old \in Pages /\ s \in Pages
      BY <1>1, <1>3
    <3>2. QED
      BY ONLY <2>1, <3>1, PrevSet, SMTT(30)
  <2>3. \A q \in Pages : SameSlab(pg, done, q)
    BY <1>1, <2>2 DEF SameSlab
  <2>4. QED
    BY <1>1, <1>2, <1>3, <1>5, <2>2, <2>3 DEF old
<1>6. QED
  BY <1>4, <1>5

\* A slab taken off its list.
LEMMA UnlinkFacts ==
    ASSUME NEW pg \in [Pages -> Header], NEW s \in Pages
    PROVE  /\ unlink(pg, s) \in [Pages -> Header]
           /\ \A q \in Pages : SameSlab(pg, unlink(pg, s), q)
           /\ \A q \in Pages \ {0} : unlink(pg, s)[q].next =
                                       IF q = pg[s].prev THEN pg[s].next ELSE pg[q].next
           /\ \A q \in Pages \ {0} : unlink(pg, s)[q].prev =
                                       IF q = pg[s].next THEN pg[s].prev ELSE pg[q].prev
           /\ \A q \in Pages : q \notin {pg[s].prev, pg[s].next} \/ q = 0 =>
                                 unlink(pg, s)[q] = pg[q]
<1> DEFINE a    == pg[s].prev
           b    == pg[s].next
           fwd  == IF a = 0 THEN pg ELSE SetNext(pg, a, b)
           done == IF b = 0 THEN fwd ELSE SetPrev(fwd, b, a)
<1>1. pg[s] \in Header
  OBVIOUS
<1>2. a \in Pages /\ b \in Pages
  BY <1>1 DEF Header
<1>3. unlink(pg, s) = done
  BY DEF unlink, SetNext, SetPrev
<1> HIDE DEF a, b
<1>4. /\ fwd \in [Pages -> Header]
      /\ \A q \in Pages : SameSlab(pg, fwd, q) /\ fwd[q].prev = pg[q].prev
      /\ \A q \in Pages \ {0} : fwd[q].next = IF q = a THEN b ELSE pg[q].next
      /\ \A q \in Pages : q # a \/ q = 0 => fwd[q] = pg[q]
  <2>1. CASE a = 0
    BY <2>1 DEF SameSlab
  <2>2. CASE a # 0
    <3>1. fwd = SetNext(pg, a, b)
      BY <2>2
    <3> HIDE DEF fwd
    <3>2. /\ fwd \in [Pages -> Header]
          /\ \A q \in Pages : SameSlab(pg, fwd, q) /\ fwd[q].prev = pg[q].prev
          /\ \A q \in Pages \ {a} : fwd[q] = pg[q]
          /\ fwd[a].next = b
      BY <1>2, <3>1, NextSet
    <3>3. QED
      BY <2>2, <3>2
  <2>3. QED
    BY <2>1, <2>2
<1> HIDE DEF fwd
<1>5. /\ done \in [Pages -> Header]
      /\ \A q \in Pages : SameSlab(fwd, done, q) /\ done[q].next = fwd[q].next
      /\ \A q \in Pages \ {0} : done[q].prev = IF q = b THEN a ELSE fwd[q].prev
      /\ \A q \in Pages : q # b \/ q = 0 => done[q] = fwd[q]
  <2>1. CASE b = 0
    BY <1>4, <2>1 DEF SameSlab
  <2>2. CASE b # 0
    <3>1. done = SetPrev(fwd, b, a)
      BY <2>2
    <3> HIDE DEF done
    <3>2. /\ done \in [Pages -> Header]
          /\ \A q \in Pages : SameSlab(fwd, done, q) /\ done[q].next = fwd[q].next
          /\ \A q \in Pages \ {b} : done[q] = fwd[q]
          /\ done[b].prev = a
      <4>1. fwd \in [Pages -> Header]
        BY <1>4
      <4>2. /\ SetPrev(fwd, b, a) \in [Pages -> Header]
            /\ \A q \in Pages : /\ SameSlab(fwd, SetPrev(fwd, b, a), q)
                                /\ SetPrev(fwd, b, a)[q].next = fwd[q].next
            /\ \A q \in Pages \ {b} : SetPrev(fwd, b, a)[q] = fwd[q]
            /\ SetPrev(fwd, b, a)[b].prev = a
        BY ONLY <4>1, <1>2, PrevSet, SMTT(30)
      <4>3. QED
        BY ONLY <4>2, <3>1
    <3>3. QED
      BY <2>2, <3>2
  <2>3. QED
    BY <2>1, <2>2
<1> HIDE DEF done
<1>6. \A q \in Pages : SameSlab(pg, done, q)
  BY <1>4, <1>5 DEF SameSlab
<1>7. QED
  BY <1>3, <1>4, <1>5, <1>6 DEF a, b

\* An object pushed onto the free list of its slab.
Pushed(pg, s, o, n) == [pg EXCEPT ![s].freelist = @ \cup {o}, ![s].inuse = n]

LEMMA PushedFacts ==
    ASSUME NEW pg \in [Pages -> Header], NEW s \in Pages, NEW o \in Nat, NEW n \in Nat
    PROVE  /\ Pushed(pg, s, o, n) \in [Pages -> Header]
           /\ \A q \in Pages \ {s} : Pushed(pg, s, o, n)[q] = pg[q]
           /\ Pushed(pg, s, o, n)[s] = SetObjs(pg[s], pg[s].freelist \cup {o}, n)
<1> DEFINE h == SetObjs(pg[s], pg[s].freelist \cup {o}, n)
<1>1. pg[s] \in Header /\ pg[s].freelist \cup {o} \in SUBSET Nat
  BY DEF Header
<1>2. h \in Header
  BY <1>1, ObjsSet
<1>3. Pushed(pg, s, o, n) = [pg EXCEPT ![s] = h]
  BY DEF Pushed, SetObjs
<1> HIDE DEF h
<1>4. QED
  BY <1>2, <1>3 DEF h
-----------------------------------------------------------------------------
(* What a step leaves alone stays right.                                   *)

LEMMA SlabKept ==
    ASSUME NEW s, SlabOK(s), SameSlab(page, page', s), LiveObjs(s)' = LiveObjs(s),
           registered \in Nat, registered' \in Nat, registered <= registered'
    PROVE  SlabOK(s)'
<1>1. /\ page'[s].magic = "slab"
      /\ page'[s].cache = page[s].cache
      /\ page'[s].freelist = page[s].freelist /\ page'[s].inuse = page[s].inuse
  BY DEF SlabOK, SameSlab
<1>2. Objs(page'[s].cache) = Objs(page[s].cache)
  BY <1>1
<1>3. page'[s].cache \in Caches /\ page'[s].cache[1] \in 0..registered'
  BY <1>1 DEF SlabOK
<1>4. /\ LiveObjs(s)' \subseteq Objs(page'[s].cache)
      /\ page'[s].freelist = Objs(page'[s].cache) \ LiveObjs(s)'
      /\ page'[s].inuse = Cardinality(LiveObjs(s)')
  BY <1>1, <1>2 DEF SlabOK
<1>5. QED
  BY ONLY <1>1, <1>3, <1>4 DEF SlabOK, Objs, Caches, Cores

LEMMA MarkKept ==
    ASSUME NEW b, MarkOK(b), page'[b[1]] = page[b[1]], page'[b[1] + 1] = page[b[1] + 1]
    PROVE  MarkOK(b)'
BY DEF MarkOK, LargeBlock, LargeOrder, looks_like_slab

LEMMA ListKept ==
    ASSUME Lists, NEW c \in Caches, partial_list'[c] = partial_list[c],
           PartialSlabs(c)' = PartialSlabs(c),
           \A q \in PartialSlabs(c) :
             page'[q].next = page[q].next /\ page'[q].prev = page[q].prev
    PROVE  ProperList(page', partial_list'[c], PartialSlabs(c)')
<1>1. ProperList(page, partial_list[c], PartialSlabs(c))
  BY DEF Lists
<1>2. ProperList(page', partial_list[c], PartialSlabs(c))
  BY <1>1, ListUntouched
<1>3. QED
  BY <1>2

\* A slab that is not s is on the list it was on.
LEMMA PartialElsewhere ==
    ASSUME NEW s, NEW c, NEW q, q # s, Slabs' \ {s} = Slabs \ {s},
           page'[q].cache = page[q].cache, LiveObjs(q)' = LiveObjs(q)
    PROVE  q \in PartialSlabs(c)' <=> q \in PartialSlabs(c)
<1>1. q \in Slabs' <=> q \in Slabs
  OBVIOUS
<1>2. q \in PartialSlabs(c) <=> q \in Slabs /\ page[q].cache = c /\ LiveObjs(q) # Objs(c)
  BY PartialMember
<1>3. q \in PartialSlabs(c)' <=> q \in Slabs' /\ page'[q].cache = c /\ LiveObjs(q)' # Objs(c)
  BY DEF PartialSlabs, Objs
<1>4. QED
  BY <1>1, <1>2, <1>3

\* The pages of slabs, of large allocations and the free ones.
LEMMA Apart ==
    ASSUME Memory
    PROVE  /\ 0 \notin free /\ free \subseteq Pages
           /\ Slabs \subseteq Pages \ {0} /\ Slabs \cap free = {}
           /\ \A b \in large : /\ LargeBlock(b) \subseteq Pages \ {0}
                               /\ LargeBlock(b) \cap (free \cup Slabs) = {}
                               /\ b[1] \in LargeBlock(b) /\ b[1] + 1 \in LargeBlock(b)
           /\ \A c \in Caches : PartialSlabs(c) \subseteq Slabs
           /\ \A c \in Caches, d \in Caches :
                c # d => PartialSlabs(c) \cap PartialSlabs(d) = {}
<1>1. Typed /\ NothingLost /\ \A b \in large : MarkOK(b)
  BY DEF Memory
<1>2. /\ 0 \notin free /\ free \subseteq Pages
      /\ Slabs \subseteq Pages \ {0} /\ Slabs \cap free = {}
  BY <1>1 DEF Typed, NothingLost, Slabs
<1>3. ASSUME NEW b \in large
      PROVE  /\ LargeBlock(b) \subseteq Pages \ {0}
             /\ LargeBlock(b) \cap (free \cup Slabs) = {}
             /\ b[1] \in LargeBlock(b) /\ b[1] + 1 \in LargeBlock(b)
  <2>1. b \in Away
    BY DEF Away
  <2>2. LargeBlock(b) \subseteq UNION {LargeBlock(d) : d \in Away}
    BY <2>1
  <2>3. LargeBlock(b) \subseteq Pages \ ({0} \cup free)
    BY <1>1, <2>2 DEF NothingLost
  <2>4. QED
    BY <1>1, <2>1, <2>3 DEF NothingLost, MarkOK
<1>4. \A c \in Caches : PartialSlabs(c) \subseteq Slabs
  BY DEF PartialSlabs
<1>5. \A c \in Caches, d \in Caches : c # d => PartialSlabs(c) \cap PartialSlabs(d) = {}
  BY DEF PartialSlabs
<1>6. QED
  BY <1>2, <1>3, <1>4, <1>5
\* The head of a list, and the slabs it is linked to.
LEMMA HeadFacts ==
    ASSUME Memory, NEW c \in Caches
    PROVE  /\ partial_list[c] # 0 => /\ partial_list[c] \in PartialSlabs(c)
                                     /\ page[partial_list[c]].prev = 0
           /\ \A q \in PartialSlabs(c) :
                /\ q \in Slabs /\ SlabOK(q) /\ page[q].cache = c /\ LiveObjs(q) # Objs(c)
                /\ page[q].next \in PartialSlabs(c) \cup {0}
                /\ page[q].prev \in PartialSlabs(c) \cup {0}
<1>1. Linked(page, partial_list[c], PartialSlabs(c))
  BY DEF Memory, Lists, ProperList
<1>2. \A q \in PartialSlabs(c) :
        q \in Slabs /\ SlabOK(q) /\ page[q].cache = c /\ LiveObjs(q) # Objs(c)
  BY PartialMember DEF Memory
<1>3. QED
  BY <1>1, <1>2 DEF Linked

\* A slab that gets one more live object.
LEMMA SlabTaken ==
    ASSUME NEW s, NEW o, NEW c \in Caches, c[1] \in 0..registered',
           LiveObjs(s) \subseteq Objs(c), o \in Objs(c) \ LiveObjs(s),
           LiveObjs(s)' = LiveObjs(s) \cup {o},
           page'[s].magic = "slab", page'[s].cache = c,
           page'[s].freelist = (Objs(c) \ LiveObjs(s)) \ {o},
           page'[s].inuse = Cardinality(LiveObjs(s)) + 1
    PROVE  SlabOK(s)'
<1>1. Cardinality(LiveObjs(s)') = Cardinality(LiveObjs(s)) + 1
  <2>1. IsFiniteSet(LiveObjs(s))
    BY LiveCount
  <2>2. QED
    BY <2>1, CountWith
<1>2. LiveObjs(s)' \subseteq Objs(c) /\ page'[s].freelist = Objs(c) \ LiveObjs(s)'
  OBVIOUS
<1>3. QED
  BY <1>1, <1>2 DEF SlabOK, Objs, Caches, Cores

\* alloc from the head of the partial list.
LEMMA AllocHead ==
    ASSUME Memory, NEW c \in Caches, c[1] \in 0..registered,
           registered \in Nat, registered' \in Nat, registered <= registered',
           NEW s, NEW o, s = partial_list[c], s # 0, o \in page[s].freelist,
           page' = pop(page, s, o).page,
           partial_list' = [partial_list EXCEPT ![c] = pop(page, s, o).head],
           free' = free, large' = large, lost' = lost, small' = small \cup {<<s, o>>}
    PROVE  Memory'
<1> DEFINE P == PartialSlabs(c)
<1>1. /\ s \in P /\ s \in Slabs /\ SlabOK(s) /\ page[s].cache = c
      /\ page[s].next \in P \cup {0} /\ page[s].prev = 0
  BY HeadFacts
<1>2. /\ Typed /\ (\A q \in Slabs : SlabOK(q)) /\ Lists /\ NothingLost
      /\ (\A b \in large : MarkOK(b))
  BY DEF Memory
<1>3. /\ Slabs \subseteq Pages \ {0} /\ P \subseteq Slabs
      /\ \A b \in large : /\ LargeBlock(b) \subseteq Pages
                          /\ LargeBlock(b) \cap Slabs = {}
                          /\ b[1] \in LargeBlock(b) /\ b[1] + 1 \in LargeBlock(b)
      /\ \A d \in Caches : /\ PartialSlabs(d) \subseteq Slabs
                           /\ d # c => PartialSlabs(d) \cap P = {}
  BY Apart
<1>4. /\ page[s].magic = "slab" /\ LiveObjs(s) \subseteq Objs(c)
      /\ page[s].freelist = Objs(c) \ LiveObjs(s)
      /\ page[s].inuse = Cardinality(LiveObjs(s))
      /\ o \in Objs(c) \ LiveObjs(s)
  BY <1>1 DEF SlabOK
<1>5. /\ page \in [Pages -> Header] /\ partial_list \in [Caches -> Pages]
      /\ free \subseteq Pages \ {0} /\ small \subseteq (Pages \ {0}) \X Nat
      /\ LargeTyped
  BY <1>2 DEF Typed
<1>6. s \in Pages \ {0} /\ o \in Nat /\ page[s] \in Header
  BY <1>1, <1>3, <1>4, <1>5, CacheFacts
<1>7. small' \subseteq (Pages \ {0}) \X Nat
  BY <1>5, <1>6
<1>8. /\ LiveObjs(s)' = LiveObjs(s) \cup {o}
      /\ \A q : q # s => LiveObjs(q)' = LiveObjs(q)
      /\ Slabs' = Slabs
  <2>1. small \subseteq (Pages \ {0}) \X Nat /\ small' = small \cup {<<s, o>>}
    BY <1>5
  <2>2. /\ LiveObjs(s)' = LiveObjs(s) \cup {o}
        /\ \A q : q # s => LiveObjs(q)' = LiveObjs(q)
        /\ Slabs' = Slabs \cup {s}
    BY ONLY <1>7, <2>1, LiveWith
  <2>3. QED
    BY <1>1, <2>2
\* What happens to the pages.
<1>22. ASSUME ~LastFree(page, s, o)
       PROVE  /\ pop(page, s, o).head = s /\ page' \in [Pages -> Header]
              /\ \A q \in Pages \ {s} : page'[q] = page[q]
              /\ page'[s] = SetObjs(page[s], page[s].freelist \ {o}, page[s].inuse + 1)
  <2> DEFINE h == SetObjs(page[s], page[s].freelist \ {o}, page[s].inuse + 1)
  <2>1. page[s].freelist \ {o} \in SUBSET Nat /\ page[s].inuse + 1 \in Nat
    BY <1>6 DEF Header
  <2>2. h \in Header
    BY <1>6, <2>1, ObjsSet
  <2>3. pop(page, s, o) = [page |-> [page EXCEPT ![s] = h], head |-> s]
    BY <1>5, <1>6, <1>22, PopMore
  <2> HIDE DEF h
  <2>4. page' = [page EXCEPT ![s] = h] /\ pop(page, s, o).head = s
    BY <2>3
  <2>5. QED
    BY <1>5, <1>6, <2>2, <2>4 DEF h
<1>9. /\ page' \in [Pages -> Header] /\ pop(page, s, o).head \in Pages
      /\ \A q \in Pages \ {s} : SameSlab(page, page', q)
      /\ \A q \in Pages \ Slabs : page'[q] = page[q]
      /\ page'[s].magic = page[s].magic /\ page'[s].cache = c
      /\ page'[s].freelist = page[s].freelist \ {o} /\ page'[s].inuse = page[s].inuse + 1
  <2>1. CASE ~LastFree(page, s, o)
    <3>1. /\ pop(page, s, o).head = s /\ page' \in [Pages -> Header]
          /\ \A q \in Pages \ {s} : page'[q] = page[q]
          /\ page'[s] = SetObjs(page[s], page[s].freelist \ {o}, page[s].inuse + 1)
      BY <1>22, <2>1
    <3>2. page[s].freelist \ {o} \in SUBSET Nat /\ page[s].inuse + 1 \in Nat
      BY <1>6 DEF Header
    <3>3. QED
      BY <1>1, <1>6, <3>1, <3>2, ObjsSet DEF SameSlab
  <2>2. CASE LastFree(page, s, o)
    <3>1. /\ pop(page, s, o).head = page[s].next /\ page' \in [Pages -> Header]
          /\ \A q \in Pages \ {s} : SameSlab(page, page', q)
          /\ \A q \in Pages \ {s} : q # page[s].next \/ q = 0 => page'[q] = page[q]
          /\ page'[s].magic = page[s].magic /\ page'[s].cache = page[s].cache
          /\ page'[s].freelist = {} /\ page'[s].inuse = page[s].inuse + 1
      BY <1>5, <1>6, <2>2, PopFull
    <3>2. page[s].next \in Pages
      BY <1>6 DEF Header
    <3>3. \A q \in Pages \ Slabs : page'[q] = page[q]
      BY <1>1, <1>3, <3>1
    <3>4. QED
      BY <1>1, <2>2, <3>1, <3>2, <3>3 DEF LastFree
  <2>3. QED
    BY <2>1, <2>2
<1>10. SlabOK(s)'
  <2>1. c[1] \in 0..registered'
    OBVIOUS
  <2>2. QED
    BY ONLY <1>4, <1>8, <1>9, <2>1, c \in Caches, SlabTaken
<1>11. \A q \in Slabs' : SlabOK(q)'
  BY <1>2, <1>3, <1>8, <1>9, <1>10, SlabKept
<1>12. \A q \in P \ {s} : page'[q].cache = page[q].cache
  BY <1>3, <1>9 DEF SameSlab
<1>13. ASSUME NEW q, q # s, NEW d \in Caches
       PROVE  q \in PartialSlabs(d)' <=> q \in PartialSlabs(d)
  <2>1. CASE q \in Slabs
    <3>1. page'[q].cache = page[q].cache
      BY <1>3, <1>9, <1>13, <2>1 DEF SameSlab
    <3>2. QED
      BY <1>8, <1>13, <3>1, PartialElsewhere
  <2>2. CASE q \notin Slabs
    BY <1>8, <2>2 DEF PartialSlabs
  <2>3. QED
    BY <2>1, <2>2
<1>14. s \in PartialSlabs(c)' <=> ~LastFree(page, s, o)
  <2>1. s \in PartialSlabs(c)' <=> s \in Slabs' /\ page'[s].cache = c /\ LiveObjs(s)' # Objs(c)
    BY DEF PartialSlabs, Objs
  <2>2. QED
    BY <1>1, <1>4, <1>8, <1>9, <2>1 DEF LastFree
<1>15. ASSUME NEW d \in Caches, d # c
       PROVE  ProperList(page', partial_list'[d], PartialSlabs(d)')
  <2>1. s \notin PartialSlabs(d)' /\ s \notin PartialSlabs(d)
    BY <1>1, <1>9, <1>15 DEF PartialSlabs
  <2>2. PartialSlabs(d)' = PartialSlabs(d)
    BY <1>13, <2>1
  <2>3. \A q \in PartialSlabs(d) : page'[q] = page[q]
    <3>1. CASE ~LastFree(page, s, o)
      <4>1. \A q \in Pages \ {s} : page'[q] = page[q]
        BY <1>22, <3>1
      <4>2. QED
        BY <1>3, <2>1, <4>1
    <3>2. CASE LastFree(page, s, o)
      <4>1. \A q \in Pages \ {s} : q # page[s].next \/ q = 0 => page'[q] = page[q]
        BY <1>5, <1>6, <3>2, PopFull
      <4>2. QED
        BY <1>1, <1>3, <1>15, <2>1, <4>1
    <3>3. QED
      BY <3>1, <3>2
  <2>4. partial_list'[d] = partial_list[d]
    BY <1>5, <1>15
  <2>5. QED
    BY <1>2, <2>2, <2>3, <2>4, ListKept
<1>16. ProperList(page', partial_list'[c], PartialSlabs(c)')
  <2>1. partial_list'[c] = pop(page, s, o).head
    BY <1>5
  <2>2. CASE ~LastFree(page, s, o)
    <3>1. /\ pop(page, s, o).head = s
          /\ \A q \in Pages \ {s} : page'[q] = page[q]
          /\ page'[s] = SetObjs(page[s], page[s].freelist \ {o}, page[s].inuse + 1)
      BY <1>22, <2>2
    <3>2. page[s].freelist \ {o} \in SUBSET Nat /\ page[s].inuse + 1 \in Nat
      BY <1>6 DEF Header
    <3>3. page'[s].next = page[s].next /\ page'[s].prev = page[s].prev
      BY <1>6, <3>1, <3>2, ObjsSet
    <3>4. PartialSlabs(c)' = P
      <4>1. ASSUME NEW q PROVE q \in PartialSlabs(c)' <=> q \in P
        <5>1. CASE q = s
          BY <1>1, <1>14, <2>2, <5>1
        <5>2. CASE q # s
          BY <1>13, <5>2
        <5>3. QED
          BY <5>1, <5>2
      <4>2. QED
        BY ONLY <4>1
    <3>5. \A q \in P : page'[q].next = page[q].next /\ page'[q].prev = page[q].prev
      BY <1>3, <3>1, <3>3
    <3>6. QED
      BY <1>2, <2>1, <3>1, <3>4, <3>5, ListKept
  <2>3. CASE LastFree(page, s, o)
    <3>1. /\ pop(page, s, o).head = page[s].next
          /\ \A q \in Pages \ {s} : page'[q].next = page[q].next
          /\ \A q \in Pages \ {0, s} : page'[q].prev =
                                         IF q = page[s].next THEN 0 ELSE page[q].prev
      BY <1>5, <1>6, <2>3, PopFull
    <3>2. PartialSlabs(c)' = P \ {s}
      <4>1. ASSUME NEW q PROVE q \in PartialSlabs(c)' <=> q \in P \ {s}
        <5>1. CASE q = s
          BY <1>14, <2>3, <5>1
        <5>2. CASE q # s
          BY <1>13, <5>2
        <5>3. QED
          BY <5>1, <5>2
      <4>2. QED
        BY ONLY <4>1
    <3>3. /\ \A q \in P \ {s} : page'[q].next =
               IF q = page[s].prev THEN page[s].next ELSE page[q].next
          /\ \A q \in P \ {s} : page'[q].prev =
               IF q = page[s].next THEN page[s].prev ELSE page[q].prev
      BY <1>1, <1>3, <3>1
    <3>4. ProperList(page, partial_list[c], P)
      BY <1>2 DEF Lists
    <3> HIDE DEF P
    <3>5. ProperList(page', IF page[s].prev # 0 THEN partial_list[c] ELSE page[s].next, P \ {s})
      BY ONLY <1>1, <3>3, <3>4, ListWithout
    <3>6. QED
      BY <1>1, <2>1, <3>1, <3>2, <3>5
  <2>4. QED
    BY <2>2, <2>3
<1>17. Lists'
  BY <1>15, <1>16 DEF Lists, Caches, Cores
<1>18. NothingLost'
  BY <1>2, <1>8 DEF NothingLost, LargeBlock, Away
<1>19. \A b \in large' : MarkOK(b)'
  <2> SUFFICES ASSUME NEW b \in large PROVE MarkOK(b)'
    OBVIOUS
  <2>1. page'[b[1]] = page[b[1]] /\ page'[b[1] + 1] = page[b[1] + 1]
    BY <1>3, <1>9
  <2>2. QED
    BY <1>2, <2>1, MarkKept
<1>20. Typed'
  <2>1. partial_list' \in [Caches -> Pages]
    BY <1>5, <1>9
  <2>2. QED
    BY <1>5, <1>7, <1>9, <2>1 DEF Typed, LargeTyped, Caches, Cores, Header
<1>21. QED
  BY <1>11, <1>17, <1>18, <1>19, <1>20 DEF Memory
\* alloc from a page of the PMM, when no slab of the cache has a free object.
LEMMA AllocNew ==
    ASSUME Memory, NEW c \in Caches, c[1] \in 0..registered,
           registered \in Nat, registered' \in Nat, registered <= registered',
           NEW s \in PagesFor(0), NEW o \in Objs(c), partial_list[c] = 0,
           NEW new, new = [AfterTake(s, 0) EXCEPT ![s] = format_new_slab(c)],
           page' = pop(new, s, o).page,
           partial_list' = [partial_list EXCEPT ![c] = pop(new, s, o).head],
           free' = free \ {s}, large' = large, lost' = lost, small' = small \cup {<<s, o>>}
    PROVE  Memory'
<1>1. /\ Typed /\ (\A q \in Slabs : SlabOK(q)) /\ Lists /\ NothingLost
      /\ (\A b \in large : MarkOK(b))
  BY DEF Memory
<1>2. /\ Slabs \subseteq Pages \ {0} /\ Slabs \cap free = {} /\ free \subseteq Pages
      /\ 0 \notin free
      /\ \A b \in large : /\ LargeBlock(b) \subseteq Pages
                          /\ LargeBlock(b) \cap free = {}
                          /\ b[1] \in LargeBlock(b) /\ b[1] + 1 \in LargeBlock(b)
      /\ \A d \in Caches : PartialSlabs(d) \subseteq Slabs
  BY Apart
<1>3. /\ page \in [Pages -> Header] /\ partial_list \in [Caches -> Pages]
      /\ free \subseteq Pages \ {0} /\ small \subseteq (Pages \ {0}) \X Nat
      /\ LargeTyped
  BY <1>1 DEF Typed
<1>4. 0 \in Orders /\ 0 \in Pages
  BY OrderAssumption, ZeroIsPage DEF Orders
<1>5. /\ Block(s, 0) \subseteq free /\ s \in Block(s, 0)
      /\ SplitHeads(s, 0) \subseteq free \ Block(s, 0)
  BY <1>2, <1>4, TakenBlock DEF PagesFor
<1>6. s \in free /\ s \in Pages \ {0} /\ s \notin Slabs /\ s \notin SplitHeads(s, 0)
  BY <1>2, <1>5
<1>7. o \in Nat
  BY CacheFacts
\* The formatted page.
<1>8. /\ format_new_slab(c) \in Header
      /\ format_new_slab(c).freelist = Objs(c) /\ format_new_slab(c).inuse = 0
      /\ format_new_slab(c).magic = "slab" /\ format_new_slab(c).cache = c
      /\ format_new_slab(c).next = 0 /\ format_new_slab(c).prev = 0
  <2>1. Objs(c) \in SUBSET Nat
    BY CacheFacts
  <2>2. QED
    BY <1>4, <2>1 DEF format_new_slab, Header
<1>9. /\ new \in [Pages -> Header] /\ new[s] = format_new_slab(c)
      /\ \A q \in Pages \ free : new[q] = page[q]
  <2> DEFINE taken == WriteNodes(page, SplitHeads(s, 0))
  <2>1. /\ taken \in [Pages -> Header]
        /\ \A q \in Pages \ SplitHeads(s, 0) : taken[q] = page[q]
    BY <1>3, NodesWritten
  <2>2. new = [taken EXCEPT ![s] = format_new_slab(c)]
    BY DEF AfterTake
  <2> HIDE DEF taken
  <2>3. QED
    BY <1>5, <1>6, <1>8, <2>1, <2>2
<1>10. /\ page' \in [Pages -> Header]
       /\ pop(new, s, o).head = IF LastFree(new, s, o) THEN 0 ELSE s
       /\ \A q \in Pages \ free : page'[q] = page[q]
       /\ page'[s].magic = "slab" /\ page'[s].cache = c
       /\ page'[s].freelist = Objs(c) \ {o} /\ page'[s].inuse = 1
       /\ page'[s].next = 0 /\ page'[s].prev = 0
  <2>1. CASE ~LastFree(new, s, o)
    <3> DEFINE h == SetObjs(new[s], new[s].freelist \ {o}, new[s].inuse + 1)
    <3>1. new[s] \in Header /\ new[s].freelist \ {o} \in SUBSET Nat /\ new[s].inuse + 1 = 1
      BY <1>8, <1>9 DEF Header
    <3>2. /\ h \in Header /\ h.freelist = Objs(c) \ {o} /\ h.inuse = 1
          /\ h.magic = "slab" /\ h.cache = c /\ h.next = 0 /\ h.prev = 0
      BY <1>8, <1>9, <3>1, ObjsSet
    <3>3. pop(new, s, o) = [page |-> [new EXCEPT ![s] = h], head |-> s]
      BY <1>6, <1>9, <2>1, PopMore
    <3> HIDE DEF h
    <3>4. page' = [new EXCEPT ![s] = h] /\ pop(new, s, o).head = s
      BY <3>3
    <3>5. QED
      BY <1>6, <1>9, <2>1, <3>2, <3>4
  <2>2. CASE LastFree(new, s, o)
    <3>1. /\ pop(new, s, o).head = new[s].next
          /\ page' \in [Pages -> Header]
          /\ \A q \in Pages \ {s} : q # new[s].next \/ q = 0 => page'[q] = new[q]
          /\ page'[s].magic = new[s].magic /\ page'[s].cache = new[s].cache
          /\ page'[s].freelist = {} /\ page'[s].inuse = new[s].inuse + 1
          /\ page'[s].next = 0 /\ page'[s].prev = 0
      BY <1>6, <1>9, <2>2, PopFull
    <3>2. Objs(c) \ {o} = {}
      BY <1>8, <1>9, <2>2 DEF LastFree
    <3>3. \A q \in Pages \ free : page'[q] = page[q]
      BY <1>6, <1>8, <1>9, <3>1
    <3>4. QED
      BY <1>8, <1>9, <2>2, <3>1, <3>2, <3>3
  <2>3. QED
    BY <2>1, <2>2
\* The live objects.
<1>11. small' \subseteq (Pages \ {0}) \X Nat
  BY <1>3, <1>6, <1>7
<1>12. /\ LiveObjs(s)' = LiveObjs(s) \cup {o}
       /\ \A q : q # s => LiveObjs(q)' = LiveObjs(q)
       /\ Slabs' = Slabs \cup {s}
  BY <1>3, <1>11, LiveWith
<1>13. LiveObjs(s) = {} /\ Cardinality(LiveObjs(s)) = 0
  BY <1>6, SlabsHaveLive, FS_EmptySet
<1>14. SlabOK(s)'
  <2>1. c[1] \in 0..registered'
    OBVIOUS
  <2>2. /\ LiveObjs(s) \subseteq Objs(c) /\ o \in Objs(c) \ LiveObjs(s)
        /\ page'[s].freelist = (Objs(c) \ LiveObjs(s)) \ {o}
        /\ page'[s].inuse = Cardinality(LiveObjs(s)) + 1
    BY <1>10, <1>13
  <2>3. QED
    BY ONLY <1>10, <1>12, <2>1, <2>2, c \in Caches, SlabTaken
<1>15. \A q \in Slabs : page'[q] = page[q]
  BY <1>2, <1>10
<1>16. \A q \in Slabs' : SlabOK(q)'
  <2> SUFFICES ASSUME NEW q \in Slabs, q # s PROVE SlabOK(q)'
    BY <1>12, <1>14
  <2>1. SameSlab(page, page', q)
    BY <1>15 DEF SameSlab
  <2>2. QED
    BY <1>1, <1>12, <2>1, SlabKept
\* The lists.
<1>17. ASSUME NEW q, q # s, NEW d \in Caches
       PROVE  q \in PartialSlabs(d)' <=> q \in PartialSlabs(d)
  <2>1. CASE q \in Slabs
    <3>1. page'[q].cache = page[q].cache /\ Slabs' \ {s} = Slabs \ {s}
      BY <1>12, <1>15, <2>1
    <3>2. QED
      BY <1>12, <1>17, <3>1, PartialElsewhere
  <2>2. CASE q \notin Slabs
    BY <1>12, <1>17, <2>2 DEF PartialSlabs
  <2>3. QED
    BY <2>1, <2>2
<1>18. \A d \in Caches : s \notin PartialSlabs(d)
  BY <1>2, <1>6
<1>19. \A d \in Caches : s \in PartialSlabs(d)' <=> d = c /\ ~LastFree(new, s, o)
  <2>1. \A d \in Caches : s \in PartialSlabs(d)' <=>
          s \in Slabs' /\ page'[s].cache = d /\ LiveObjs(s)' # Objs(d)
    BY DEF PartialSlabs, Objs
  <2>2. LastFree(new, s, o) <=> Objs(c) \ {o} = {}
    BY <1>8, <1>9 DEF LastFree
  <2>3. LiveObjs(s)' = {o}
    BY <1>12, <1>13
  <2>4. LiveObjs(s)' # Objs(c) <=> ~LastFree(new, s, o)
    BY <2>2, <2>3
  <2>5. s \in Slabs' /\ page'[s].cache = c
    BY <1>10, <1>12
  <2>6. QED
    BY <2>1, <2>4, <2>5
<1>20. ASSUME NEW d \in Caches, d # c \/ LastFree(new, s, o)
       PROVE  ProperList(page', partial_list'[d], PartialSlabs(d)')
  <2>1. PartialSlabs(d)' = PartialSlabs(d)
    <3>1. s \notin PartialSlabs(d)' /\ s \notin PartialSlabs(d)
      BY <1>18, <1>19, <1>20
    <3>2. ASSUME NEW q PROVE q \in PartialSlabs(d)' <=> q \in PartialSlabs(d)
      BY <1>17, <3>1
    <3>3. QED
      BY ONLY <3>2
  <2>2. partial_list'[d] = partial_list[d]
    BY <1>3, <1>10, <1>20
  <2>3. \A q \in PartialSlabs(d) :
          page'[q].next = page[q].next /\ page'[q].prev = page[q].prev
    BY <1>2, <1>15
  <2>4. QED
    BY <1>1, <2>1, <2>2, <2>3, ListKept
<1>21. ASSUME ~LastFree(new, s, o)
       PROVE  ProperList(page', partial_list'[c], PartialSlabs(c)')
  <2>1. PartialSlabs(c) = {}
    BY <1>1 DEF Lists, ProperList, Linked
  <2>2. PartialSlabs(c)' = {s}
    BY <1>17, <1>19, <1>21, <2>1
  <2>3. partial_list'[c] = s
    BY <1>3, <1>10, <1>21
  <2>4. ProperList(page', s, {s})
    BY <1>6, <1>10, ListOfOne
  <2>5. QED
    BY <2>2, <2>3, <2>4
<1>22. Lists'
  <2>1. \A d \in Caches : ProperList(page', partial_list'[d], PartialSlabs(d)')
    BY <1>20, <1>21
  <2>2. QED
    BY <2>1 DEF Lists, Caches, Cores
<1>23. NothingLost'
  <2> DEFINE U == UNION {LargeBlock(b) : b \in Away}
  <2>1. /\ Pages \ ({0} \cup free) = Slabs \cup U
        /\ \A b \in Away : LargeBlock(b) \cap (free \cup Slabs) = {}
        /\ \A b \in Away : \A e \in Away : b # e => LargeBlock(b) \cap LargeBlock(e) = {}
        /\ large \cap lost = {} /\ \A b \in lost : b[3]
    BY <1>1 DEF NothingLost
  <2>2. Away' = Away /\ Slabs' = Slabs \cup {s} /\ free' = free \ {s}
    BY <1>12 DEF Away
  <2>3. U = UNION {LargeBlock(b) : b \in Away'}
    BY <2>2
  <2> HIDE DEF U
  <2>4. Pages \ ({0} \cup free') = Slabs' \cup U /\ free' \cap Slabs' = {}
    BY ONLY <1>2, <1>6, <2>1, <2>2
  <2>5. ASSUME NEW b \in Away PROVE LargeBlock(b) \cap (free' \cup Slabs') = {}
    BY ONLY <1>6, <2>1, <2>2, <2>5
  <2>6. large' \cap lost' = {} /\ \A b \in lost' : b[3]
    BY <2>1
  <2>7. QED
    BY ONLY <2>1, <2>2, <2>3, <2>4, <2>5, <2>6 DEF NothingLost, LargeBlock
<1>24. \A b \in large' : MarkOK(b)'
  <2> SUFFICES ASSUME NEW b \in large PROVE MarkOK(b)'
    OBVIOUS
  <2>1. page'[b[1]] = page[b[1]] /\ page'[b[1] + 1] = page[b[1] + 1]
    BY <1>2, <1>10
  <2>2. QED
    BY <1>1, <2>1, MarkKept
<1>25. Typed'
  <2>1. partial_list' \in [Caches -> Pages]
    BY <1>3, <1>4, <1>6, <1>10
  <2>2. QED
    BY <1>3, <1>10, <1>11, <2>1 DEF Typed, LargeTyped, Caches, Cores, Header
<1>26. QED
  BY <1>16, <1>22, <1>23, <1>24, <1>25 DEF Memory
LEMMA InLarge ==
    ASSUME NEW B, NEW x
    PROVE  x \in UNION {LargeBlock(b) : b \in B} <=> \E b \in B : x \in LargeBlock(b)
OBVIOUS

\* The large path of kmalloc: the block is marked, and its second page keeps what it
\* had or is written by the caller.
LEMMA AllocLarge ==
    ASSUME Memory, NEW num \in Nat \ {0, 1}, NEW p \in Pages,
           registered \in Nat, registered' \in Nat, registered <= registered',
           large_alloc(num, p), small' = small, lost' = lost,
           NEW t \in BOOLEAN, t = looks_like_slab(page', p + 1),
           large' = large \cup {<<p, num, t>>}
    PROVE  Memory'
<1> DEFINE o == LargeOrder(num)
           taken == WriteNodes(page, SplitHeads(p, o))
           mark == [Data EXCEPT !.magic = "large", !.num = num]
           meta == [taken EXCEPT ![p] = mark]
           d == <<p, num, t>>
<1>1. /\ Typed /\ (\A q \in Slabs : SlabOK(q)) /\ Lists /\ NothingLost
      /\ (\A b \in large : MarkOK(b))
  BY DEF Memory
<1>2. /\ Slabs \subseteq Pages \ {0} /\ Slabs \cap free = {} /\ free \subseteq Pages
      /\ 0 \notin free
      /\ \A b \in large : /\ LargeBlock(b) \subseteq Pages
                          /\ LargeBlock(b) \cap (free \cup Slabs) = {}
                          /\ b[1] \in LargeBlock(b) /\ b[1] + 1 \in LargeBlock(b)
      /\ \A c \in Caches : PartialSlabs(c) \subseteq Slabs
  BY Apart
<1>3. /\ page \in [Pages -> Header] /\ partial_list \in [Caches -> Pages]
      /\ free \subseteq Pages \ {0} /\ small \subseteq (Pages \ {0}) \X Nat
      /\ LargeTyped
  BY <1>1 DEF Typed
<1>4. /\ o \in Orders /\ p \in BestFit(free, o)
      /\ free' = free \ Block(p, o) /\ partial_list' = partial_list
      /\ page' \in {meta, [meta EXCEPT ![p + 1] = Data]}
  BY DEF large_alloc, PagesFor, AfterTake
<1>5. /\ Block(p, o) \subseteq free
      /\ SplitHeads(p, o) \subseteq free \ Block(p, o)
  BY <1>2, <1>4, TakenBlock
<1>6. p \in Nat /\ p \in Block(p, o) /\ p + 1 \in Block(p, o)
  <2>1. p \in Nat
    BY PagesAssumption DEF Pages
  <2>2. QED
    BY <1>4, <2>1, LargeBlockFacts
<1>7. p \in Pages \ {0} /\ p + 1 \in Pages /\ p + 1 # p
  BY <1>2, <1>5, <1>6
<1>8. mark \in Header /\ mark.magic = "large" /\ mark.num = num /\ Data \in Header
  BY ZeroIsPage, DataIsHeader DEF Data, Header
<1>9. /\ taken \in [Pages -> Header]
      /\ \A q \in Pages \ SplitHeads(p, o) : taken[q] = page[q]
  BY <1>3, NodesWritten
<1> HIDE DEF taken, mark
<1>10. /\ meta \in [Pages -> Header] /\ meta[p] = mark
       /\ \A q \in Pages \ {p} : meta[q] = taken[q]
  BY <1>7, <1>8, <1>9
<1> HIDE DEF meta
<1>11. /\ page' \in [Pages -> Header] /\ page'[p] = mark
       /\ \A q \in Pages \ {p, p + 1} : page'[q] = meta[q]
  BY <1>4, <1>7, <1>8, <1>10
<1>12. \A q \in Pages \ free : page'[q] = page[q]
  BY <1>5, <1>6, <1>9, <1>10, <1>11
<1>13. Slabs' = Slabs /\ \A q : LiveObjs(q)' = LiveObjs(q)
  BY DEF Slabs, LiveObjs
<1>14. \A q \in Slabs : page'[q] = page[q]
  BY <1>2, <1>12
<1>15. \A q \in Slabs' : SlabOK(q)'
  <2> SUFFICES ASSUME NEW q \in Slabs PROVE SlabOK(q)'
    BY <1>13
  <2>1. SameSlab(page, page', q)
    BY <1>14 DEF SameSlab
  <2>2. QED
    BY <1>1, <1>13, <2>1, SlabKept
<1>16. ASSUME NEW c \in Caches
       PROVE  ProperList(page', partial_list'[c], PartialSlabs(c)')
  <2>1. PartialSlabs(c)' = PartialSlabs(c)
    <3>1. ASSUME NEW q PROVE q \in PartialSlabs(c)' <=> q \in PartialSlabs(c)
      BY <1>13, <1>14 DEF PartialSlabs, Objs
    <3>2. QED
      BY ONLY <3>1
  <2>2. \A q \in PartialSlabs(c) :
          page'[q].next = page[q].next /\ page'[q].prev = page[q].prev
    BY <1>2, <1>14
  <2>3. QED
    BY <1>1, <1>4, <2>1, <2>2, ListKept
<1>17. Lists'
  BY <1>16 DEF Lists, Caches, Cores
\* The new block.
<1>18. /\ d[1] = p /\ d[2] = num /\ LargeBlock(d) = Block(p, o)
       /\ d[3] = looks_like_slab(page', p + 1) /\ d[3] \in BOOLEAN
  BY DEF LargeBlock
<1> HIDE DEF d
<1>19. large' = large \cup {d}
  BY DEF d
<1>20. MarkOK(d)'
  <2>1. LargeOrder(d[2]) \in Orders
    BY <1>4, <1>18
  <2>2. d[1] \in LargeBlock(d) /\ d[1] + 1 \in LargeBlock(d)
    BY <1>6, <1>18
  <2>3. page'[d[1]].magic = "large" /\ page'[d[1]].num = d[2]
    BY <1>8, <1>11, <1>18
  <2>4. looks_like_slab(page', d[1] + 1) => d[3]
    BY <1>18
  <2>5. QED
    BY ONLY <2>1, <2>2, <2>3, <2>4 DEF MarkOK, LargeOrder, LargeBlock, looks_like_slab
<1>21. \A b \in large' : MarkOK(b)'
  <2> SUFFICES ASSUME NEW b \in large PROVE MarkOK(b)'
    BY <1>19, <1>20
  <2>1. page'[b[1]] = page[b[1]] /\ page'[b[1] + 1] = page[b[1] + 1]
    BY <1>2, <1>12
  <2>2. QED
    BY <1>1, <2>1, MarkKept
<1>22. LargeBlock(d) \subseteq free /\ free' = free \ LargeBlock(d)
  BY <1>4, <1>5, <1>18
<1>23. NothingLost'
  <2>1. /\ Pages \ ({0} \cup free) = Slabs \cup UNION {LargeBlock(b) : b \in Away}
        /\ \A b \in Away : /\ LargeBlock(b) \cap (free \cup Slabs) = {}
                           /\ \A e \in Away : b # e => LargeBlock(b) \cap LargeBlock(e) = {}
        /\ large \cap lost = {} /\ \A b \in lost : b[3]
    BY <1>1 DEF NothingLost
  <2>2. Away' = Away \cup {d}
    BY <1>19 DEF Away
  <2>3. \A x : x \in UNION {LargeBlock(b) : b \in Away'} <=>
                x \in UNION {LargeBlock(b) : b \in Away} \/ x \in LargeBlock(d)
    BY ONLY <2>2, InLarge
  <2>4. \A x : x \in Pages \ ({0} \cup free') <=>
                x \in Pages \ ({0} \cup free) \/ x \in LargeBlock(d)
    BY ONLY <1>2, <1>22
  <2>5. Pages \ ({0} \cup free') = Slabs' \cup UNION {LargeBlock(b) : b \in Away'}
    <3> DEFINE U == UNION {LargeBlock(b) : b \in Away}
               V == UNION {LargeBlock(b) : b \in Away'}
    <3> HIDE DEF U, V
    <3>1. /\ Pages \ ({0} \cup free) = Slabs \cup U
          /\ \A x : x \in V <=> x \in U \/ x \in LargeBlock(d)
      BY <2>1, <2>3 DEF U, V
    <3>2. Pages \ ({0} \cup free') = Slabs' \cup V
      BY ONLY <1>13, <2>4, <3>1
    <3>3. QED
      BY <3>2 DEF V
  <2>6. free' \cap Slabs' = {}
    BY <1>2, <1>13, <1>22
  <2>7. \A e \in Away : LargeBlock(e) \cap LargeBlock(d) = {}
    BY <2>1, <1>22
  <2>8. ASSUME NEW b \in Away'
        PROVE  /\ LargeBlock(b) \cap (free' \cup Slabs') = {}
               /\ \A e \in Away' : b # e => LargeBlock(b) \cap LargeBlock(e) = {}
    <3>1. LargeBlock(b) \cap (free' \cup Slabs') = {}
      BY <1>2, <1>13, <2>1, <2>2, <1>22
    <3>2. QED
      BY <2>1, <2>2, <2>7, <3>1
\* The pages of a lost allocation are not free, those of the new one were.
  <2>9. large' \cap lost' = {} /\ \A b \in lost' : b[3]
    <3>1. d \notin lost
      <4>1. p \in LargeBlock(d)
        BY <1>6, <1>18
      <4>2. QED
        BY <2>7, <4>1 DEF Away
    <3>2. QED
      BY <1>19, <2>1, <3>1
  <2>10. QED
    BY ONLY <2>5, <2>6, <2>8, <2>9 DEF NothingLost, LargeBlock
<1>24. Typed'
  BY <1>3, <1>4, <1>11 DEF Typed, LargeTyped, Caches, Cores, Header
<1>25. QED
  BY <1>15, <1>17, <1>21, <1>23, <1>24 DEF Memory
-----------------------------------------------------------------------------
(* kfree.                                                                  *)

\* The slab after the push, and the list it is on then, whether it was full or not.
Relinked(s, o, n) ==
    IF n = MaxObjs[page[s].cache[2]] - 1
    THEN link_front(Pushed(page, s, o, n), page[s].cache, s)
    ELSE Pushed(page, s, o, n)

HeadThen(s, n) ==
    IF n = MaxObjs[page[s].cache[2]] - 1 THEN s ELSE partial_list[page[s].cache]

\* The page of slab s has the pushed object, and the list of its cache c has s.
FreedRight(s, o, c, n) ==
    /\ c \in Caches /\ n \in Nat /\ n = Cardinality(LiveObjs(s) \ {o})
    /\ HeadThen(s, n) \in Pages /\ Relinked(s, o, n) \in [Pages -> Header]
    /\ \A q \in Pages \ {s} : SameSlab(page, Relinked(s, o, n), q)
    /\ \A q \in Pages \ (PartialSlabs(c) \cup {s}) : Relinked(s, o, n)[q] = page[q]
    /\ Relinked(s, o, n)[s].magic = "slab" /\ Relinked(s, o, n)[s].cache = c
    /\ Relinked(s, o, n)[s].freelist = Objs(c) \ (LiveObjs(s) \ {o})
    /\ Relinked(s, o, n)[s].inuse = n
    /\ ProperList(Relinked(s, o, n), HeadThen(s, n), PartialSlabs(c) \cup {s})

LEMMA FreeLinked ==
    ASSUME Memory, NEW s \in Slabs, NEW o \in LiveObjs(s),
           NEW c, c = page[s].cache, NEW n, n = dec(page[s].inuse)
    PROVE  FreedRight(s, o, c, n)
<1> DEFINE L == LiveObjs(s)
           P == PartialSlabs(c)
           most == MaxObjs[c[2]]
           pushed == Pushed(page, s, o, n)
           linked == Relinked(s, o, n)
<1>1. /\ SlabOK(s) /\ Slabs \subseteq Pages \ {0} /\ P \subseteq Slabs
      /\ page \in [Pages -> Header] /\ partial_list \in [Caches -> Pages]
  <2>1. c \in Caches
    BY DEF Memory, SlabOK
  <2>2. QED
    BY <2>1, Apart DEF Memory, Typed
<1>2. /\ c \in Caches /\ page[s].magic = "slab" /\ L \subseteq Objs(c)
      /\ page[s].freelist = Objs(c) \ L /\ page[s].inuse = Cardinality(L)
  BY <1>1 DEF SlabOK
<1>3. /\ most \in Nat \ {0} /\ most < InuseModulus /\ InuseModulus \in Nat \ {0}
      /\ Objs(c) \subseteq Nat \ {0}
  BY <1>2, CacheFacts
<1>4. /\ IsFiniteSet(L) /\ Cardinality(L) \in 0..most /\ (Cardinality(L) = most <=> L = Objs(c))
  BY <1>2, LiveCount
<1>5. Cardinality(L) # 0 /\ Cardinality(L \ {o}) = Cardinality(L) - 1
  <2>1. Cardinality(L) # 0
    BY <1>2, LiveCount
  <2>2. QED
    BY <2>1, <1>4, CountWithout
<1>6. n = Cardinality(L) - 1 /\ n \in Nat
  <2> DEFINE k == Cardinality(L)
  <2>1. k \in 1..most /\ n = (k - 1) % InuseModulus
    BY <1>2, <1>4, <1>5 DEF dec
  <2> HIDE DEF k
  <2>2. n = k - 1
    BY <1>3, <2>1
  <2>3. QED
    BY <2>1, <2>2, <1>3 DEF k
<1>7. s \in Pages \ {0} /\ o \in Nat /\ page[s] \in Header
  BY <1>1, <1>2, <1>3
<1>8. /\ pushed \in [Pages -> Header]
      /\ \A q \in Pages \ {s} : pushed[q] = page[q]
      /\ pushed[s] = SetObjs(page[s], page[s].freelist \cup {o}, n)
  <2>1. page \in [Pages -> Header] /\ s \in Pages /\ o \in Nat /\ n \in Nat
    BY <1>1, <1>6, <1>7
  <2>2. QED
    BY ONLY <2>1, PushedFacts
<1>9. /\ pushed[s].magic = "slab" /\ pushed[s].cache = c
      /\ pushed[s].freelist = Objs(c) \ (L \ {o}) /\ pushed[s].inuse = n
      /\ pushed[s].next = page[s].next /\ pushed[s].prev = page[s].prev
  <2>1. page[s].freelist \cup {o} = Objs(c) \ (L \ {o})
    BY <1>2
  <2>2. page[s].freelist \cup {o} \in SUBSET Nat
    BY <1>7 DEF Header
  <2>3. QED
    BY <1>2, <1>6, <1>7, <1>8, <2>1, <2>2, ObjsSet
<1>10. s \in P <=> n # most - 1
  <2>1. s \in P <=> L # Objs(c)
    BY PartialMember
  <2>2. QED
    BY <2>1, <1>3, <1>4, <1>6
<1>11. ProperList(page, partial_list[c], P) /\ partial_list[c] \in P \cup {0}
  <2>1. ProperList(page, partial_list[c], P)
    BY <1>2 DEF Memory, Lists
  <2>2. QED
    BY <2>1 DEF ProperList, Linked
<1> HIDE DEF pushed, P, most
<1>12. CASE n # most - 1
  <2>1. linked = pushed /\ HeadThen(s, n) = partial_list[c]
    BY <1>12 DEF Relinked, HeadThen, pushed, most
  <2>2. \A q \in Pages \ {s} : SameSlab(page, linked, q)
    BY <1>8, <2>1 DEF SameSlab
  <2>3. P \cup {s} = P
    BY <1>10, <1>12
  <2>4. \A q \in P : linked[q].next = page[q].next /\ linked[q].prev = page[q].prev
    BY <1>1, <1>8, <1>9, <2>1
  <2>5. ProperList(linked, HeadThen(s, n), P \cup {s})
    BY <1>11, <2>1, <2>3, <2>4, ListUntouched
  <2>6. HeadThen(s, n) \in Pages
    BY <1>1, <1>2, <2>1
  <2>7. /\ linked \in [Pages -> Header]
        /\ \A q \in Pages \ (P \cup {s}) : linked[q] = page[q]
        /\ linked[s].magic = "slab" /\ linked[s].cache = c
        /\ linked[s].freelist = Objs(c) \ (L \ {o}) /\ linked[s].inuse = n
    BY <1>8, <1>9, <2>1
  <2> HIDE DEF linked
  <2>8. QED
    BY <1>2, <1>5, <1>6, <2>2, <2>5, <2>6, <2>7 DEF linked, P, FreedRight
<1>13. CASE n = most - 1
  <2>1. linked = link_front(pushed, c, s) /\ HeadThen(s, n) = s
    BY <1>13 DEF Relinked, HeadThen, pushed, most
  <2>2. s # partial_list[c] /\ s \notin P
    BY <1>7, <1>10, <1>11, <1>13
  <2>3. /\ linked \in [Pages -> Header]
        /\ \A q \in Pages : SameSlab(pushed, linked, q)
        /\ \A q \in Pages \ {s} : linked[q].next = pushed[q].next
        /\ \A q \in Pages \ {0, s} : linked[q].prev =
                                       IF q = partial_list[c] THEN s ELSE pushed[q].prev
        /\ \A q \in Pages \ {s} : q # partial_list[c] \/ q = 0 => linked[q] = pushed[q]
        /\ linked[s].next = partial_list[c] /\ linked[s].prev = 0
    BY <1>1, <1>2, <1>7, <1>8, <2>1, <2>2, FrontFacts
  <2> HIDE DEF linked
  <2>4. \A q \in Pages \ {s} : SameSlab(page, linked, q)
    BY <1>8, <2>3 DEF SameSlab
  <2>5. \A q \in Pages \ (P \cup {s}) : linked[q] = page[q]
    BY <1>8, <1>11, <2>3
  <2>6. /\ linked[s].magic = "slab" /\ linked[s].cache = c
        /\ linked[s].freelist = Objs(c) \ (L \ {o}) /\ linked[s].inuse = n
    BY <1>7, <1>9, <2>3 DEF SameSlab
  <2>7. /\ \A q \in P : linked[q].next = page[q].next
        /\ \A q \in P : linked[q].prev = IF q = partial_list[c] THEN s ELSE page[q].prev
    BY <1>1, <1>8, <2>2, <2>3
  <2>8. ProperList(linked, s, P \cup {s})
    BY <1>7, <1>11, <2>2, <2>3, <2>7, ListWithFront
  <2>9. HeadThen(s, n) \in Pages
    BY <1>7, <2>1
  <2>10. QED
    BY <1>2, <1>5, <1>6, <2>1, <2>3, <2>4, <2>5, <2>6, <2>8, <2>9 DEF linked, P, FreedRight
<1>14. QED
  BY <1>12, <1>13
\* A slab that has one live object less.
LEMMA SlabReturned ==
    ASSUME NEW s, NEW o, NEW c \in Caches, c[1] \in 0..registered',
           LiveObjs(s) \subseteq Objs(c), LiveObjs(s)' = LiveObjs(s) \ {o},
           page'[s].magic = "slab", page'[s].cache = c,
           page'[s].freelist = Objs(c) \ (LiveObjs(s) \ {o}),
           page'[s].inuse = Cardinality(LiveObjs(s) \ {o})
    PROVE  SlabOK(s)'
<1>1. /\ LiveObjs(s)' \subseteq Objs(c) /\ page'[s].freelist = Objs(c) \ LiveObjs(s)'
      /\ page'[s].inuse = Cardinality(LiveObjs(s)')
  OBVIOUS
<1>2. QED
  BY <1>1 DEF SlabOK, Objs, Caches, Cores

\* The first part of KmemCache::free, and its end when the slab keeps live objects.
LEMMA FreeKeepsSlab ==
    ASSUME Memory, NEW s \in Slabs, NEW o \in LiveObjs(s),
           NEW c, c = page[s].cache, NEW n, n = dec(page[s].inuse), n # 0,
           registered \in Nat, registered' = registered,
           page' = Relinked(s, o, n),
           partial_list' = [partial_list EXCEPT ![c] = HeadThen(s, n)],
           free' = free, large' = large, lost' = lost, small' = small \ {<<s, o>>}
    PROVE  Memory'
<1> DEFINE P == PartialSlabs(c)
<1>1. /\ Typed /\ (\A q \in Slabs : SlabOK(q)) /\ Lists /\ NothingLost
      /\ (\A b \in large : MarkOK(b))
  BY DEF Memory
<1>2. /\ c \in Caches /\ n \in Nat /\ n = Cardinality(LiveObjs(s) \ {o})
      /\ HeadThen(s, n) \in Pages /\ page' \in [Pages -> Header]
      /\ \A q \in Pages \ {s} : SameSlab(page, page', q)
      /\ \A q \in Pages \ (P \cup {s}) : page'[q] = page[q]
      /\ page'[s].magic = "slab" /\ page'[s].cache = c
      /\ page'[s].freelist = Objs(c) \ (LiveObjs(s) \ {o}) /\ page'[s].inuse = n
      /\ ProperList(page', HeadThen(s, n), P \cup {s})
  <2>1. FreedRight(s, o, c, n)
    BY FreeLinked
  <2>2. QED
    BY <2>1 DEF FreedRight
<1>3. /\ Slabs \subseteq Pages \ {0} /\ P \subseteq Slabs
      /\ \A b \in large : /\ LargeBlock(b) \subseteq Pages
                          /\ LargeBlock(b) \cap Slabs = {}
                          /\ b[1] \in LargeBlock(b) /\ b[1] + 1 \in LargeBlock(b)
      /\ \A d \in Caches : /\ PartialSlabs(d) \subseteq Slabs
                           /\ d # c => PartialSlabs(d) \cap P = {}
  BY <1>2, Apart
<1>4. /\ partial_list \in [Caches -> Pages]
      /\ free \subseteq Pages \ {0} /\ small \subseteq (Pages \ {0}) \X Nat
      /\ LargeTyped
  BY <1>1 DEF Typed
<1>5. /\ LiveObjs(s)' = LiveObjs(s) \ {o}
      /\ \A q : q # s => LiveObjs(q)' = LiveObjs(q)
      /\ Slabs' \ {s} = Slabs \ {s}
      /\ s \in Slabs' <=> LiveObjs(s)' # {}
  BY <1>4, LiveWithout
<1>6. Slabs' = Slabs
  <2>1. LiveObjs(s) \ {o} # {}
    BY <1>2, FS_EmptySet
  <2>2. s \in Slabs'
    BY <1>5, <2>1
  <2>3. ASSUME NEW q PROVE q \in Slabs' <=> q \in Slabs
    BY <1>5, <2>2
  <2>4. QED
    BY ONLY <2>3
<1>7. /\ SlabOK(s) /\ LiveObjs(s) \subseteq Objs(c)
      /\ c[1] \in 0..registered'
  BY <1>1 DEF SlabOK
<1>8. SlabOK(s)'
  BY ONLY <1>2, <1>5, <1>7, SlabReturned
<1>9. \A q \in Slabs' : SlabOK(q)'
  <2> SUFFICES ASSUME NEW q \in Slabs, q # s PROVE SlabOK(q)'
    BY <1>6, <1>8
  <2>1. SameSlab(page, page', q)
    BY <1>2, <1>3
  <2>2. QED
    BY <1>1, <1>5, <2>1, SlabKept
<1>10. ASSUME NEW q, q # s, NEW d \in Caches
       PROVE  q \in PartialSlabs(d)' <=> q \in PartialSlabs(d)
  <2>1. CASE q \in Slabs
    <3>1. page'[q].cache = page[q].cache
      BY <1>2, <1>3, <1>10, <2>1 DEF SameSlab
    <3>2. QED
      BY <1>5, <1>10, <3>1, PartialElsewhere
  <2>2. CASE q \notin Slabs
    BY <1>6, <2>2 DEF PartialSlabs
  <2>3. QED
    BY <2>1, <2>2
<1>11. s \in PartialSlabs(c)'
  <2>1. LiveObjs(s)' # Objs(c)
    BY <1>5, <1>7
  <2>2. s \in Slabs' /\ page'[s].cache = c
    BY <1>2, <1>6
  <2>3. QED
    BY <2>1, <2>2 DEF PartialSlabs, Objs
<1>12. ASSUME NEW d \in Caches, d # c
       PROVE  ProperList(page', partial_list'[d], PartialSlabs(d)')
  <2>1. s \notin PartialSlabs(d)' /\ s \notin PartialSlabs(d)
    BY <1>2, <1>12 DEF PartialSlabs
  <2>2. PartialSlabs(d)' = PartialSlabs(d)
    <3>1. ASSUME NEW q PROVE q \in PartialSlabs(d)' <=> q \in PartialSlabs(d)
      BY <1>10, <2>1
    <3>2. QED
      BY ONLY <3>1
  <2>3. \A q \in PartialSlabs(d) : page'[q] = page[q]
    BY <1>2, <1>3, <1>12, <2>1
  <2>4. partial_list'[d] = partial_list[d]
    BY <1>2, <1>4, <1>12
  <2>5. QED
    BY <1>1, <2>2, <2>3, <2>4, ListKept
<1>13. ProperList(page', partial_list'[c], PartialSlabs(c)')
  <2>1. partial_list'[c] = HeadThen(s, n)
    BY <1>2, <1>4
  <2>2. PartialSlabs(c)' = P \cup {s}
    <3>1. ASSUME NEW q PROVE q \in PartialSlabs(c)' <=> q \in P \cup {s}
      BY <1>2, <1>10, <1>11
    <3>2. QED
      BY ONLY <3>1
  <2>3. QED
    BY <1>2, <2>1, <2>2
<1>14. Lists'
  BY <1>12, <1>13 DEF Lists, Caches, Cores
<1>15. NothingLost'
  BY <1>1, <1>6 DEF NothingLost, LargeBlock, Away
<1>16. \A b \in large' : MarkOK(b)'
  <2> SUFFICES ASSUME NEW b \in large PROVE MarkOK(b)'
    OBVIOUS
  <2>1. b[1] \in Pages \ (P \cup {s}) /\ b[1] + 1 \in Pages \ (P \cup {s})
    BY <1>3
  <2> HIDE DEF P
  <2>2. page'[b[1]] = page[b[1]] /\ page'[b[1] + 1] = page[b[1] + 1]
    BY ONLY <1>2, <2>1
  <2>3. QED
    BY <1>1, <2>2, MarkKept
<1>17. Typed'
  <2>1. partial_list' \in [Caches -> Pages] /\ small' \subseteq (Pages \ {0}) \X Nat
    <3>1. partial_list' \in [Caches -> Pages]
      BY <1>2, <1>4
    <3>2. small' \subseteq (Pages \ {0}) \X Nat
      BY <1>4
    <3>3. QED
      BY ONLY <3>1, <3>2
  <2>2. QED
    BY <1>2, <1>4, <2>1 DEF Typed, LargeTyped, Caches, Cores, Header
<1>18. QED
  BY <1>9, <1>14, <1>15, <1>16, <1>17 DEF Memory
\* The end of KmemCache::free when the slab is empty: it leaves its list and its page
\* goes back to the PMM.
LEMMA FreeEmptiesSlab ==
    ASSUME Memory, NEW s \in Slabs, NEW o \in LiveObjs(s),
           NEW c, c = page[s].cache, NEW n, n = dec(page[s].inuse), n = 0,
           registered \in Nat, registered' = registered,
           NEW linked, linked = Relinked(s, o, n),
           partial_list' = [partial_list EXCEPT ![c] =
                              IF linked[s].prev # 0 THEN HeadThen(s, n) ELSE linked[s].next],
           page' = WriteNodes(SetBoth(unlink(linked, s), s, 0, 0), MergedHeads(s, 0)),
           free' = free \cup {s}, large' = large, lost' = lost, small' = small \ {<<s, o>>}
    PROVE  Memory'
<1> DEFINE P == PartialSlabs(c)
           off == unlink(linked, s)
           alone == SetBoth(off, s, 0, 0)
           head == IF linked[s].prev # 0 THEN HeadThen(s, n) ELSE linked[s].next
<1>1. /\ Typed /\ (\A q \in Slabs : SlabOK(q)) /\ Lists /\ NothingLost
      /\ (\A b \in large : MarkOK(b))
  BY DEF Memory
<1>2. /\ c \in Caches /\ n = Cardinality(LiveObjs(s) \ {o})
      /\ HeadThen(s, n) \in Pages /\ linked \in [Pages -> Header]
      /\ \A q \in Pages \ {s} : SameSlab(page, linked, q)
      /\ \A q \in Pages \ (P \cup {s}) : linked[q] = page[q]
      /\ ProperList(linked, HeadThen(s, n), P \cup {s})
  <2>1. FreedRight(s, o, c, n)
    BY FreeLinked
  <2>2. QED
    BY <2>1 DEF FreedRight
<1>3. /\ Slabs \subseteq Pages \ {0} /\ P \subseteq Slabs
      /\ free \subseteq Pages /\ 0 \notin free /\ Slabs \cap free = {}
      /\ \A b \in large : /\ LargeBlock(b) \subseteq Pages
                          /\ LargeBlock(b) \cap (free \cup Slabs) = {}
                          /\ b[1] \in LargeBlock(b) /\ b[1] + 1 \in LargeBlock(b)
      /\ \A d \in Caches : /\ PartialSlabs(d) \subseteq Slabs
                           /\ d # c => PartialSlabs(d) \cap P = {}
  BY <1>2, Apart
<1>4. /\ partial_list \in [Caches -> Pages]
      /\ free \subseteq Pages \ {0} /\ small \subseteq (Pages \ {0}) \X Nat
      /\ LargeTyped
  BY <1>1 DEF Typed
<1>5. /\ LiveObjs(s)' = LiveObjs(s) \ {o}
      /\ \A q : q # s => LiveObjs(q)' = LiveObjs(q)
      /\ Slabs' \ {s} = Slabs \ {s}
      /\ s \in Slabs' <=> LiveObjs(s)' # {}
  BY <1>4, LiveWithout
<1>6. Slabs' = Slabs \ {s}
  <2>1. LiveObjs(s) \subseteq Objs(c) /\ c \in Caches
    BY <1>1, <1>2 DEF SlabOK
  <2>2. LiveObjs(s) \ {o} \in SUBSET Objs(c)
    BY <2>1
  <2>3. LiveObjs(s) \ {o} = {}
    BY <1>2, <2>2, LiveCount
  <2>4. s \notin Slabs'
    BY <1>5, <2>3
  <2>5. ASSUME NEW q PROVE q \in Slabs' <=> q \in Slabs \ {s}
    BY <1>5, <2>4
  <2>6. QED
    BY ONLY <2>5
\* The pages.
<1>7. s \in Pages \ {0} /\ linked[s] \in Header
  BY <1>2, <1>3
<1>8. linked[s].prev \in P \cup {0, s} /\ linked[s].next \in P \cup {0, s}
  BY <1>2 DEF ProperList, Linked
<1>9. /\ off \in [Pages -> Header]
      /\ \A q \in Pages : SameSlab(linked, off, q)
      /\ \A q \in Pages \ {0} : off[q].next =
                                  IF q = linked[s].prev THEN linked[s].next ELSE linked[q].next
      /\ \A q \in Pages \ {0} : off[q].prev =
                                  IF q = linked[s].next THEN linked[s].prev ELSE linked[q].prev
      /\ \A q \in Pages : q \notin {linked[s].prev, linked[s].next} \/ q = 0 =>
                            off[q] = linked[q]
  BY <1>2, <1>7, UnlinkFacts
<1> HIDE DEF off
<1>10. /\ alone \in [Pages -> Header]
       /\ \A q \in Pages \ {s} : alone[q] = off[q]
  BY <1>7, <1>9, ZeroIsPage, BothSet
<1>11. page' = WriteNodes(alone, MergedHeads(s, 0))
  BY DEF alone, off
<1> HIDE DEF alone
<1>12. MergedHeads(s, 0) \subseteq free \cup {s}
  <2>1. Block(s, 0) = {s}
    <3>1. s \in Nat
      BY <1>7, PagesAssumption DEF Pages
    <3>2. QED
      BY <3>1, Pow2Assumption DEF Block
  <2>2. QED
    BY <2>1, MergedInside
<1>13. /\ page' \in [Pages -> Header]
       /\ \A q \in Pages \ (free \cup {s}) : page'[q] = off[q]
  BY <1>10, <1>11, <1>12, NodesWritten
<1>14. \A q \in Pages \ (free \cup {s} \cup P) : page'[q] = page[q]
  BY <1>2, <1>7, <1>8, <1>9, <1>13
<1>15. \A q \in Slabs \ {s} : page'[q] = off[q]
  BY <1>3, <1>13
<1>16. \A q \in Slabs \ {s} : SameSlab(page, page', q)
  BY <1>2, <1>3, <1>9, <1>15 DEF SameSlab
<1>17. \A q \in Slabs' : SlabOK(q)'
  <2> SUFFICES ASSUME NEW q \in Slabs, q # s PROVE SlabOK(q)'
    BY <1>6
  <2>1. SameSlab(page, page', q)
    BY <1>16
  <2>2. QED
    BY <1>1, <1>5, <2>1, SlabKept
\* The lists.
<1>18. ASSUME NEW q, q # s, NEW d \in Caches
       PROVE  q \in PartialSlabs(d)' <=> q \in PartialSlabs(d)
  <2>1. CASE q \in Slabs
    <3>1. page'[q].cache = page[q].cache
      BY <1>16, <1>18, <2>1 DEF SameSlab
    <3>2. QED
      BY <1>5, <1>18, <3>1, PartialElsewhere
  <2>2. CASE q \notin Slabs
    BY <1>6, <2>2 DEF PartialSlabs
  <2>3. QED
    BY <2>1, <2>2
<1>19. \A d \in Caches : s \notin PartialSlabs(d)'
  BY <1>6 DEF PartialSlabs
<1>20. ASSUME NEW d \in Caches, d # c
       PROVE  ProperList(page', partial_list'[d], PartialSlabs(d)')
  <2>1. s \notin PartialSlabs(d)
    BY <1>20 DEF PartialSlabs
  <2>2. PartialSlabs(d)' = PartialSlabs(d)
    <3>1. ASSUME NEW q PROVE q \in PartialSlabs(d)' <=> q \in PartialSlabs(d)
      BY <1>18, <1>19, <2>1
    <3>2. QED
      BY ONLY <3>1
  <2>3. \A q \in PartialSlabs(d) : page'[q] = page[q]
    BY <1>3, <1>14, <1>20, <2>1
  <2>4. partial_list'[d] = partial_list[d]
    BY <1>4, <1>20
  <2>5. QED
    BY <1>1, <2>2, <2>3, <2>4, ListKept
<1>21. ProperList(page', partial_list'[c], PartialSlabs(c)')
  <2> DEFINE R == P \cup {s}
  <2>1. s \in R /\ R \ {s} = P \ {s} /\ R \subseteq Slabs
    BY <1>3
  <2>2. /\ \A q \in R \ {s} : page'[q].next =
             IF q = linked[s].prev THEN linked[s].next ELSE linked[q].next
        /\ \A q \in R \ {s} : page'[q].prev =
             IF q = linked[s].next THEN linked[s].prev ELSE linked[q].prev
    BY <1>3, <1>9, <1>15, <2>1
  <2>3. ProperList(linked, HeadThen(s, n), R)
    BY <1>2
  <2> HIDE DEF R
  <2>4. ProperList(page', head, R \ {s})
    BY ONLY <2>1, <2>2, <2>3, ListWithout
  <2>5. partial_list'[c] = head
    BY <1>2, <1>4
  <2>6. PartialSlabs(c)' = R \ {s}
    <3>1. ASSUME NEW q PROVE q \in PartialSlabs(c)' <=> q \in P \ {s}
      BY <1>2, <1>18, <1>19
    <3>2. QED
      BY <2>1, <3>1
  <2>7. QED
    BY <2>4, <2>5, <2>6
<1>22. Lists'
  BY <1>20, <1>21 DEF Lists, Caches, Cores
<1>23. NothingLost'
  <2> DEFINE U == UNION {LargeBlock(b) : b \in Away}
  <2>1. /\ Pages \ ({0} \cup free) = Slabs \cup U
        /\ \A b \in Away : LargeBlock(b) \cap (free \cup Slabs) = {}
        /\ \A b \in Away : \A e \in Away : b # e => LargeBlock(b) \cap LargeBlock(e) = {}
        /\ large \cap lost = {} /\ \A b \in lost : b[3]
    BY <1>1 DEF NothingLost
  <2>2. s \notin U
    BY <2>1, InLarge
  <2>3. Away' = Away
    BY DEF Away
  <2>4. U = UNION {LargeBlock(b) : b \in Away'}
    BY <2>3
  <2> HIDE DEF U
  <2>5. Pages \ ({0} \cup free') = Slabs' \cup U
    <3>1. ASSUME NEW q PROVE q \in Pages \ ({0} \cup free') <=> q \in Slabs' \cup U
      BY <1>3, <1>6, <2>1, <2>2
    <3>2. QED
      BY ONLY <3>1
  <2>6. free' \cap Slabs' = {}
    BY <1>3, <1>6
  <2>7. ASSUME NEW b \in Away PROVE LargeBlock(b) \cap (free' \cup Slabs') = {}
    BY <1>6, <2>1
  <2>8. large' \cap lost' = {} /\ \A b \in lost' : b[3]
    BY <2>1
  <2>9. QED
    BY ONLY <2>1, <2>3, <2>4, <2>5, <2>6, <2>7, <2>8 DEF NothingLost, LargeBlock
<1>24. \A b \in large' : MarkOK(b)'
  <2> SUFFICES ASSUME NEW b \in large PROVE MarkOK(b)'
    OBVIOUS
  <2>1. page'[b[1]] = page[b[1]] /\ page'[b[1] + 1] = page[b[1] + 1]
    BY <1>3, <1>14
  <2>2. QED
    BY <1>1, <2>1, MarkKept
<1>25. Typed'
  <2>1. head \in Pages
    BY <1>2, <1>7 DEF Header
  <2>2. partial_list' = [partial_list EXCEPT ![c] = head]
    OBVIOUS
  <2> HIDE DEF head
  <2>3. partial_list' \in [Caches -> Pages] /\ small' \subseteq (Pages \ {0}) \X Nat
    <3>1. partial_list \in [Caches -> Pages] /\ small \subseteq (Pages \ {0}) \X Nat
      BY <1>4
    <3>2. partial_list' \in [Caches -> Pages]
      BY ONLY <2>1, <2>2, <3>1
    <3>3. small' \subseteq small
      OBVIOUS
    <3>4. QED
      BY ONLY <3>1, <3>2, <3>3
  <2>4. free' \subseteq Pages \ {0}
    BY <1>4, <1>7
  <2>5. QED
    BY <1>4, <1>13, <2>3, <2>4 DEF Typed, LargeTyped, Caches, Cores, Header
<1>26. QED
  BY <1>17, <1>22, <1>23, <1>24, <1>25 DEF Memory
\* KmemCache::free in these words.
LEMMA CacheFree ==
    ASSUME NEW s, NEW o, cache_free(page[s].cache, s, o)
    PROVE  LET c == page[s].cache
               n == dec(page[s].inuse)
               linked == Relinked(s, o, n)
           IN  IF n # 0
               THEN /\ page' = linked
                    /\ partial_list' = [partial_list EXCEPT ![c] = HeadThen(s, n)]
                    /\ free' = free
               ELSE /\ partial_list' = [partial_list EXCEPT ![c] =
                         IF linked[s].prev # 0 THEN HeadThen(s, n) ELSE linked[s].next]
                    /\ page' = WriteNodes(SetBoth(unlink(linked, s), s, 0, 0), MergedHeads(s, 0))
                    /\ free' = free \cup {s}
BY Zenon DEF cache_free, Relinked, HeadThen, Pushed, SetBoth

\* kfree of an object finds its slab and pushes it there.
LEMMA FreeSmall ==
    ASSUME Memory, registered \in Nat, registered' = registered,
           NEW ptr \in small, kfree_at(ptr[1], ptr[2]),
           small' = small \ {ptr}, large' = large, lost' = lost
    PROVE  Memory' /\ panicked' = panicked
<1> DEFINE s == ptr[1]
           o == ptr[2]
           c == page[s].cache
           n == dec(page[s].inuse)
           linked == Relinked(s, o, n)
<1>1. small \subseteq (Pages \ {0}) \X Nat
  BY DEF Memory, Typed
<1>2. ptr = <<s, o>>
  BY <1>1
<1>3. s \in Slabs /\ o \in LiveObjs(s)
  BY DEF Slabs, LiveObjs
<1>4. SlabOK(s)
  BY <1>3 DEF Memory
<1>5. is_slub_page(s) /\ o # 0
  <2>1. page[s].magic = "slab" /\ c \in Caches /\ c[1] \in 0..registered /\ o \in Objs(c)
    BY <1>3, <1>4 DEF SlabOK
  <2>2. QED
    BY <2>1, CacheFacts DEF is_slub_page, looks_like_slab
<1>6. cache_free(c, s, o) /\ panicked' = panicked
  BY <1>5 DEF kfree_at
<1>7. IF n # 0
      THEN /\ page' = linked
           /\ partial_list' = [partial_list EXCEPT ![c] = HeadThen(s, n)]
           /\ free' = free
      ELSE /\ partial_list' = [partial_list EXCEPT ![c] =
                IF linked[s].prev # 0 THEN HeadThen(s, n) ELSE linked[s].next]
           /\ page' = WriteNodes(SetBoth(unlink(linked, s), s, 0, 0), MergedHeads(s, 0))
           /\ free' = free \cup {s}
  BY <1>6, CacheFree, Zenon
<1>8. small' = small \ {<<s, o>>}
  BY <1>2
<1> HIDE DEF s, o, c, n, linked
<1>9. c = page[s].cache /\ n = dec(page[s].inuse) /\ linked = Relinked(s, o, n)
  BY DEF c, n, linked
<1>10. CASE n # 0
  <2>1. /\ page' = Relinked(s, o, n) /\ free' = free
        /\ partial_list' = [partial_list EXCEPT ![c] = HeadThen(s, n)]
    BY <1>7, <1>9, <1>10
  <2>2. QED
    BY <1>3, <1>6, <1>8, <1>9, <1>10, <2>1, FreeKeepsSlab
<1>11. CASE n = 0
  <2>1. /\ partial_list' = [partial_list EXCEPT ![c] =
             IF linked[s].prev # 0 THEN HeadThen(s, n) ELSE linked[s].next]
        /\ page' = WriteNodes(SetBoth(unlink(linked, s), s, 0, 0), MergedHeads(s, 0))
        /\ free' = free \cup {s}
    BY <1>7, <1>11, Zenon
  <2>2. QED
    BY <1>3, <1>6, <1>8, <1>9, <1>11, <2>1, FreeEmptiesSlab
<1>12. QED
  BY <1>10, <1>11

\* kfree of a large allocation that finds the mark gives back all its pages.
LEMMA FreeMarked ==
    ASSUME Memory, registered \in Nat, registered' = registered, NEW b \in large,
           free' = free \cup LargeBlock(b),
           page' = WriteNodes(page, MergedHeads(b[1], LargeOrder(b[2]))),
           partial_list' = partial_list,
           small' = small, large' = large \ {b}, lost' = lost
    PROVE  Memory'
<1>1. /\ Typed /\ (\A q \in Slabs : SlabOK(q)) /\ Lists /\ NothingLost
      /\ (\A e \in large : MarkOK(e))
  BY DEF Memory
<1>2. /\ Slabs \subseteq Pages \ {0} /\ Slabs \cap free = {} /\ free \subseteq Pages
      /\ 0 \notin free
      /\ \A e \in large : /\ LargeBlock(e) \subseteq Pages \ {0}
                          /\ LargeBlock(e) \cap (free \cup Slabs) = {}
                          /\ e[1] \in LargeBlock(e) /\ e[1] + 1 \in LargeBlock(e)
      /\ \A c \in Caches : PartialSlabs(c) \subseteq Slabs
  BY Apart
<1>3. /\ page \in [Pages -> Header] /\ partial_list \in [Caches -> Pages]
      /\ free \subseteq Pages \ {0} /\ small \subseteq (Pages \ {0}) \X Nat
      /\ LargeTyped
  BY <1>1 DEF Typed
<1>9. MergedHeads(b[1], LargeOrder(b[2])) \subseteq free \cup LargeBlock(b)
  BY MergedInside DEF LargeBlock
<1>10. /\ page' \in [Pages -> Header]
       /\ \A q \in Pages \ (free \cup LargeBlock(b)) : page'[q] = page[q]
  BY <1>3, <1>9, NodesWritten
<1>11. Slabs' = Slabs /\ \A q : LiveObjs(q)' = LiveObjs(q)
  BY DEF Slabs, LiveObjs
<1>12. \A q \in Slabs : page'[q] = page[q]
  BY <1>2, <1>10
<1>13. \A q \in Slabs' : SlabOK(q)'
  <2> SUFFICES ASSUME NEW q \in Slabs PROVE SlabOK(q)'
    BY <1>11
  <2>1. SameSlab(page, page', q)
    BY <1>12 DEF SameSlab
  <2>2. QED
    BY <1>1, <1>11, <2>1, SlabKept
<1>14. ASSUME NEW c \in Caches
       PROVE  ProperList(page', partial_list'[c], PartialSlabs(c)')
  <2>1. PartialSlabs(c)' = PartialSlabs(c)
    <3>1. ASSUME NEW q PROVE q \in PartialSlabs(c)' <=> q \in PartialSlabs(c)
      BY <1>11, <1>12 DEF PartialSlabs, Objs
    <3>2. QED
      BY ONLY <3>1
  <2>2. \A q \in PartialSlabs(c) :
          page'[q].next = page[q].next /\ page'[q].prev = page[q].prev
    BY <1>2, <1>12
  <2>3. QED
    BY <1>1, <2>1, <2>2, ListKept
<1>15. Lists'
  BY <1>14 DEF Lists, Caches, Cores
<1>16. b \in Away /\ Away' = Away \ {b} /\ large' \subseteq Away'
       /\ \A e \in Away' : LargeBlock(e) \cap LargeBlock(b) = {}
  <2>1. b \in Away /\ Away' = Away \ {b} /\ large' \subseteq Away'
    BY <1>1 DEF NothingLost, Away
  <2>2. QED
    BY <1>1, <2>1 DEF NothingLost
<1>17. \A e \in large' : MarkOK(e)'
  <2> SUFFICES ASSUME NEW e \in large' PROVE MarkOK(e)'
    OBVIOUS
  <2>1. e \in large /\ LargeBlock(e) \cap (free \cup LargeBlock(b)) = {}
    BY <1>2, <1>16
  <2>2. page'[e[1]] = page[e[1]] /\ page'[e[1] + 1] = page[e[1] + 1]
    BY <1>2, <1>10, <2>1
  <2>3. QED
    BY <1>1, <2>1, <2>2, MarkKept
<1>18. NothingLost'
  <2> DEFINE U == UNION {LargeBlock(e) : e \in Away}
             V == UNION {LargeBlock(e) : e \in Away'}
  <2>1. /\ Pages \ ({0} \cup free) = Slabs \cup U
        /\ \A d \in Away : /\ LargeBlock(d) \cap (free \cup Slabs) = {}
                           /\ \A e \in Away : d # e => LargeBlock(d) \cap LargeBlock(e) = {}
        /\ large \cap lost = {} /\ \A e \in lost : e[3]
    BY <1>1 DEF NothingLost
  <2>2. ASSUME NEW q PROVE q \in V <=> q \in U /\ q \notin LargeBlock(b)
    <3>1. /\ q \in U <=> \E e \in Away : q \in LargeBlock(e)
          /\ q \in V <=> \E e \in Away' : q \in LargeBlock(e)
      BY InLarge
    <3> HIDE DEF U, V
    <3>2. QED
      BY ONLY <1>16, <3>1
  <2> HIDE DEF U, V
  <2>3. Pages \ ({0} \cup free') = Slabs' \cup V
    <3>1. ASSUME NEW q PROVE q \in Pages \ ({0} \cup free') <=> q \in Slabs' \cup V
      BY <1>2, <1>11, <2>1, <2>2
    <3>2. QED
      BY ONLY <3>1
  <2>4. free' \cap Slabs' = {}
    BY <1>2, <1>11
  <2>5. ASSUME NEW e \in Away' PROVE LargeBlock(e) \cap (free' \cup Slabs') = {}
    BY <1>11, <1>16, <2>1
  <2>6. \A d \in Away' : \A e \in Away' : d # e => LargeBlock(d) \cap LargeBlock(e) = {}
    BY <1>16, <2>1
  <2>7. large' \cap lost' = {} /\ \A e \in lost' : e[3]
    BY <2>1
  <2>8. QED
    BY ONLY <2>3, <2>4, <2>5, <2>6, <2>7 DEF NothingLost, LargeBlock, V
<1>19. Typed'
  <2>1. free' \subseteq Pages \ {0}
    BY <1>2
  <2>2. QED
    BY <1>3, <1>10, <2>1 DEF Typed, LargeTyped, Caches, Cores, Header
<1>20. QED
  BY <1>13, <1>15, <1>17, <1>18, <1>19 DEF Memory

\* kfree of a large allocation whose page is taken for a slab: the pages stay away.
LEMMA FreeStale ==
    ASSUME Memory, registered \in Nat, registered' = registered, NEW b \in large, b[3],
           page' = [page EXCEPT ![b[1] + 1] = Data],
           free' = free, partial_list' = partial_list,
           small' = small, large' = large \ {b}, lost' = lost \cup {b}
    PROVE  Memory'
<1> DEFINE s == b[1] + 1
<1>1. /\ Typed /\ (\A q \in Slabs : SlabOK(q)) /\ Lists /\ NothingLost
      /\ (\A e \in large : MarkOK(e))
  BY DEF Memory
<1>2. /\ \A e \in large : /\ LargeBlock(e) \subseteq Pages \ {0}
                          /\ LargeBlock(e) \cap (free \cup Slabs) = {}
                          /\ e[1] \in LargeBlock(e) /\ e[1] + 1 \in LargeBlock(e)
      /\ \A c \in Caches : PartialSlabs(c) \subseteq Slabs
  BY Apart
<1>3. s \in Pages /\ s \notin Slabs
  BY <1>2
<1> HIDE DEF s
<1>4. page \in [Pages -> Header] /\ page' = [page EXCEPT ![s] = Data]
  BY <1>1 DEF Typed, s
<1>5. page' \in [Pages -> Header] /\ \A q \in Pages \ {s} : page'[q] = page[q]
  BY <1>3, <1>4, DataIsHeader
<1>6. Slabs' = Slabs /\ \A q : LiveObjs(q)' = LiveObjs(q)
  BY DEF Slabs, LiveObjs
<1>7. \A q \in Slabs : page'[q] = page[q]
  <2>1. Slabs \subseteq Pages
    BY Apart
  <2>2. QED
    BY <1>3, <1>5, <2>1
<1>8. \A q \in Slabs' : SlabOK(q)'
  <2> SUFFICES ASSUME NEW q \in Slabs PROVE SlabOK(q)'
    BY <1>6
  <2>1. SameSlab(page, page', q)
    BY <1>7 DEF SameSlab
  <2>2. SlabOK(q) /\ LiveObjs(q)' = LiveObjs(q)
    BY <1>1, <1>6
  <2>3. registered \in Nat /\ registered' \in Nat /\ registered <= registered'
    OBVIOUS
  <2>4. QED
    BY ONLY <2>1, <2>2, <2>3, SlabKept
<1>9. ASSUME NEW c \in Caches
      PROVE  ProperList(page', partial_list'[c], PartialSlabs(c)')
  <2>1. PartialSlabs(c)' = PartialSlabs(c)
    <3>1. ASSUME NEW q PROVE q \in PartialSlabs(c)' <=> q \in PartialSlabs(c)
      BY <1>6, <1>7 DEF PartialSlabs, Objs
    <3>2. QED
      BY ONLY <3>1
  <2>2. \A q \in PartialSlabs(c) :
          page'[q].next = page[q].next /\ page'[q].prev = page[q].prev
    BY <1>2, <1>7
  <2>3. QED
    BY <1>1, <2>1, <2>2, ListKept
<1>10. Lists'
  BY <1>9 DEF Lists, Caches, Cores
<1>11. Away' = Away /\ b \in Away
  BY DEF Away
<1>12. \A e \in large' : MarkOK(e)'
  <2> SUFFICES ASSUME NEW e \in large' PROVE MarkOK(e)'
    OBVIOUS
  <2>1. e \in large /\ e \in Away /\ e # b
    BY DEF Away
  <2>2. LargeBlock(e) \cap LargeBlock(b) = {}
    BY <1>1, <1>11, <2>1 DEF NothingLost
  <2>3. s \notin LargeBlock(e)
    BY <1>2, <2>2 DEF s
  <2>4. page'[e[1]] = page[e[1]] /\ page'[e[1] + 1] = page[e[1] + 1]
    BY <1>2, <1>5, <2>1, <2>3
  <2>5. QED
    BY <1>1, <2>1, <2>4, MarkKept
<1>13. NothingLost'
  BY <1>1, <1>6, <1>11 DEF NothingLost, LargeBlock
<1>14. Typed'
  BY <1>1, <1>5 DEF Typed, LargeTyped, Caches, Cores, Header
<1>15. QED
  BY <1>8, <1>10, <1>12, <1>13, <1>14 DEF Memory

\* kfree of a large allocation finds the mark, unless it takes the page for a slab.
LEMMA FreeLarge ==
    ASSUME Memory, registered \in Nat, NEW b \in large, kfree_large(b)
    PROVE  Memory' /\ panicked' = panicked
<1>1. /\ registered' = registered /\ small' = small /\ large' = large \ {b}
      /\ lost' = IF LargeBlock(b) \subseteq free' THEN lost ELSE lost \cup {b}
      /\ kfree_at(b[1] + 1, 0)
  BY DEF kfree_large
<1>2. /\ MarkOK(b) /\ b[1] \in LargeBlock(b) /\ LargeBlock(b) \cap free = {}
      /\ b[1] \in Nat
  <2>1. MarkOK(b) /\ b[1] \in Pages
    BY DEF Memory, Typed, LargeTyped
  <2>2. QED
    BY <2>1, Apart, PagesAssumption DEF Pages
<1>3. (b[1] + 1) - 1 = b[1]
  BY <1>2
<1>4. CASE is_slub_page(b[1] + 1)
  <2>1. b[3]
    BY <1>2, <1>4 DEF MarkOK, is_slub_page
  <2>2. /\ page' = [page EXCEPT ![b[1] + 1] = Data]
        /\ free' = free /\ partial_list' = partial_list /\ panicked' = panicked
    BY <1>1, <1>4 DEF kfree_at, cache_free_page
  <2>3. lost' = lost \cup {b}
    BY <1>1, <1>2, <2>2
  <2>4. QED
    BY <1>1, <2>1, <2>2, <2>3, FreeStale
<1>5. CASE ~is_slub_page(b[1] + 1)
  <2>1. page[b[1]].magic = "large" /\ page[b[1]].num = b[2]
    BY <1>2 DEF MarkOK
  <2>2. /\ free' = free \cup Block(b[1], freed_order(b[2]))
        /\ page' = WriteNodes(page, MergedHeads(b[1], freed_order(b[2])))
        /\ partial_list' = partial_list /\ panicked' = panicked
    BY <1>1, <1>3, <1>5, <2>1 DEF kfree_at
  <2>3. freed_order(b[2]) = LargeOrder(b[2])
    BY DEF freed_order, LargeOrder
  <2>4. /\ free' = free \cup LargeBlock(b)
        /\ page' = WriteNodes(page, MergedHeads(b[1], LargeOrder(b[2])))
    BY <2>2, <2>3 DEF LargeBlock
  <2>5. lost' = lost
    BY <1>1, <2>4
  <2>6. QED
    BY <1>1, <2>2, <2>4, <2>5, FreeMarked
<1>6. QED
  BY <1>4, <1>5
-----------------------------------------------------------------------------
(* The steps.                                                              *)

\* Nothing of the memory changes, and more caches may be known.
LEMMA MemoryStays ==
    ASSUME Memory, registered \in Nat, registered' \in Nat, registered <= registered',
           UNCHANGED <<free, page, partial_list, small, large, lost>>
    PROVE  Memory'
<1>1. Slabs' = Slabs /\ \A q : LiveObjs(q)' = LiveObjs(q)
  BY DEF Slabs, LiveObjs
<1>2. \A q \in Slabs' : SlabOK(q)'
  <2> SUFFICES ASSUME NEW q \in Slabs PROVE SlabOK(q)'
    BY <1>1
  <2>1. SameSlab(page, page', q)
    BY DEF SameSlab
  <2>2. QED
    BY <1>1, <2>1, SlabKept DEF Memory
<1>3. Lists'
  <2>1. ASSUME NEW c \in Caches PROVE PartialSlabs(c)' = PartialSlabs(c)
    BY <1>1 DEF PartialSlabs, Objs
  <2>2. QED
    BY <2>1 DEF Memory, Lists, Caches, Cores
<1>4. NothingLost'
  BY <1>1 DEF Memory, NothingLost, LargeBlock, Away
<1>5. \A b \in large' : MarkOK(b)'
  BY MarkKept DEF Memory
<1>6. Typed'
  <2>1. LargeTyped'
    BY DEF Memory, Typed, LargeTyped
  <2>2. QED
    BY <2>1 DEF Memory, Typed, Caches, Cores, Header
<1>7. QED
  BY <1>2, <1>3, <1>4, <1>5, <1>6 DEF Memory

LEMMA CoresAreNat == Cores \subseteq Nat
<1>1. Cardinality(APs) \in Nat
  BY SlubAssumption, FS_CardinalityType
<1>2. QED
  BY <1>1, SlubAssumption DEF Cores

\* A request that is served.
LEMMA Served ==
    ASSUME Memory, registered \in Nat, registered' \in Nat,
           registered <= registered',
           NEW core \in Cores, NEW class \in Classes \cup {0}, NEW num \in Nat \ {0, 1},
           lost' = lost, kmalloc_returns(core, class, num)
    PROVE  Memory'
<1> DEFINE c == get_kmalloc_cache(core, class)
<1>1. CASE c # NoCache
  <2>1. class # 0 /\ ~(core > registered) /\ c = <<core, class>>
    BY <1>1 DEF get_kmalloc_cache
  <2>2. c \in Caches /\ c[1] \in 0..registered
    BY <2>1, CoresAreNat DEF Caches
  <2>3. PICK s \in Pages, o \in Objs(c) :
          cache_alloc(c, s, o) /\ small' = small \cup {<<s, o>>} /\ large' = large
    BY <1>1 DEF kmalloc_returns
  <2> HIDE DEF c
  <2>4. CASE partial_list[c] # 0
    <3>1. /\ s = partial_list[c] /\ s # 0 /\ o \in page[s].freelist /\ free' = free
          /\ page' = pop(page, s, o).page
          /\ partial_list' = [partial_list EXCEPT ![c] = pop(page, s, o).head]
      BY <2>3, <2>4 DEF cache_alloc
    <3>2. QED
      BY <2>2, <2>3, <3>1, AllocHead
  <2>5. CASE partial_list[c] = 0
    <3> DEFINE new == [AfterTake(s, 0) EXCEPT ![s] = format_new_slab(c)]
    <3>1. /\ s \in PagesFor(0) /\ free' = free \ {s}
          /\ page' = pop(new, s, o).page
          /\ partial_list' = [partial_list EXCEPT ![c] = pop(new, s, o).head]
      BY <2>3, <2>5 DEF cache_alloc
    <3>2. new = [AfterTake(s, 0) EXCEPT ![s] = format_new_slab(c)]
      OBVIOUS
    <3> HIDE DEF new
    <3>3. QED
      BY <2>2, <2>3, <2>5, <3>1, <3>2, AllocNew
  <2>6. QED
    BY <2>4, <2>5
<1>2. CASE c = NoCache
  <2>1. PICK p \in Pages :
          /\ large_alloc(num, p)
          /\ large' = large \cup {<<p, num, looks_like_slab(page', p + 1)>>}
    BY <1>2 DEF kmalloc_returns
  <2>2. small' = small
    BY <1>2 DEF kmalloc_returns
  <2>3. PICK t \in BOOLEAN : t = looks_like_slab(page', p + 1)
    BY DEF looks_like_slab
  <2>4. large' = large \cup {<<p, num, t>>}
    BY <2>1, <2>3
  <2>5. QED
    BY <2>1, <2>2, <2>3, <2>4, AllocLarge
<1>3. QED
  BY <1>1, <1>2

\* Any request.
LEMMA Requested ==
    ASSUME Memory, registered \in Nat, registered' \in Nat,
           registered <= registered',
           NEW core \in Cores, NEW class \in Classes \cup {0}, NEW num \in Nat \ {0, 1},
           lost' = lost, kmalloc_returns(core, class, num) \/ kmalloc_null(core, class, num)
    PROVE  Memory'
<1>1. CASE kmalloc_returns(core, class, num)
  BY <1>1, Served
<1>2. CASE kmalloc_null(core, class, num)
  <2>1. UNCHANGED <<free, page, partial_list, small, large, lost>>
    BY <1>2 DEF kmalloc_null
  <2>2. QED
    BY <2>1, MemoryStays
<1>3. QED
  BY <1>1, <1>2

\* One request of initialize_slub_ap: it is answered or refused like any other, and the
\* setup goes on at one of the two places given for these outcomes.
LEMMA RequestOfAp ==
    ASSUME Memory, SetupOK, registered' \in Nat, registered <= registered',
           NEW at, NEW got, NEW null, ap_kmalloc(at, got, null)
    PROVE  /\ Memory' /\ panicked = "no" /\ setup.at = at
           /\ setup' \in {[setup EXCEPT !.at = got], [setup EXCEPT !.at = null]}
<1>1. PICK class \in Classes :
        \/ /\ kmalloc_returns(setup.core, class, 2)
           /\ setup' = [setup EXCEPT !.at = got]
        \/ /\ kmalloc_null(setup.core, class, 2)
           /\ setup' = [setup EXCEPT !.at = null]
  BY DEF ap_kmalloc
<1>2. setup.core \in Cores /\ registered \in Nat /\ 2 \in Nat \ {0, 1} /\ lost' = lost
  BY DEF SetupOK, ap_kmalloc
<1>3. Memory'
  BY <1>1, <1>2, Requested
<1>4. QED
  BY <1>1, <1>3 DEF ap_kmalloc

LEMMA InitIInv == Init => IInv
<1> SUFFICES ASSUME Init PROVE IInv
  OBVIOUS
<1> USE DEF Init
<1>1. Slabs = {} /\ \A c \in Caches : PartialSlabs(c) = {}
  BY DEF Slabs, PartialSlabs
<1>2. Typed
  BY ZeroIsPage, DataIsHeader DEF Typed, LargeTyped
<1>3. Lists
  <2>1. ASSUME NEW c \in Caches PROVE ProperList(page, 0, {})
    BY DEF ProperList, Linked, FromHead
  <2>2. QED
    BY <1>1, <2>1 DEF Lists
<1>4. NothingLost
  BY <1>1, ZeroIsPage DEF NothingLost, Away
<1>5. SetupOK
  BY CoresAreNat DEF SetupOK, NoSetup, Cores
<1>6. EveryFreeFinds
  BY DEF EveryFreeFinds
<1>7. QED
  BY <1>1, <1>2, <1>3, <1>4, <1>5, <1>6 DEF IInv, Memory

LEMMA NextIInv ==
    ASSUME IInv, [Next]_vars
    PROVE  IInv'
<1>1. Memory /\ SetupOK /\ EveryFreeFinds /\ registered \in Nat
  BY DEF IInv, SetupOK
<1>2. ASSUME NEW core \in Cores, NEW class \in Classes \cup {0}, NEW num \in Nat \ {0, 1},
             kmalloc(core, class, num)
      PROVE  IInv'
  <2>1. /\ registered' = registered /\ setup' = setup /\ panicked' = panicked
        /\ lost' = lost
    BY <1>2 DEF kmalloc
  <2>2. Memory'
    BY <1>1, <1>2, <2>1, Requested DEF kmalloc
  <2>3. QED
    BY <1>1, <2>1, <2>2 DEF IInv, SetupOK, EveryFreeFinds, Cores
<1>3. ASSUME NEW ptr \in small, kfree_small(ptr) PROVE IInv'
  <2>1. registered' = registered /\ setup' = setup
    BY <1>3 DEF kfree_small
  <2>2. Memory' /\ panicked' = panicked
    BY <1>1, <1>3, FreeSmall DEF kfree_small
  <2>3. QED
    BY <1>1, <2>1, <2>2 DEF IInv, SetupOK, EveryFreeFinds, Cores
<1>4. ASSUME NEW b \in large, kfree_large(b) PROVE IInv'
  <2>1. registered' = registered /\ setup' = setup
    BY <1>4 DEF kfree_large
  <2>2. Memory' /\ panicked' = panicked
    BY <1>1, <1>4, FreeLarge
  <2>3. QED
    BY <1>1, <2>1, <2>2 DEF IInv, SetupOK, EveryFreeFinds, Cores
<1>5. CASE ap_enter
  <2>1. /\ setup' = [core |-> setup.core + 1, at |-> "ap_caches"] /\ setup.core + 1 \in Cores
        /\ registered' = registered /\ panicked' = panicked
        /\ UNCHANGED <<free, page, partial_list, small, large, lost>>
    BY <1>5 DEF ap_enter, Cores
  <2>2. Memory'
    BY <1>1, <2>1, MemoryStays
  <2>3. SetupOK'
    BY <1>1, <2>1, CoresAreNat DEF SetupOK, Cores
  <2>4. QED
    BY <1>1, <2>1, <2>2, <2>3 DEF IInv, EveryFreeFinds
<1>6. CASE ap_first_requests
  <2>1. registered' = registered
    BY <1>6 DEF ap_first_requests
  <2>2. /\ Memory' /\ setup.at \in {"ap_caches", "ap_pool"}
        /\ setup' \in {[setup EXCEPT !.at = a] : a \in {"ap_pool", "push_back", "panic"}}
    <3>1. CASE ap_kmalloc("ap_caches", "ap_pool", "panic")
      BY <1>1, <2>1, <3>1, RequestOfAp
    <3>2. CASE ap_kmalloc("ap_pool", "push_back", "panic")
      BY <1>1, <2>1, <3>2, RequestOfAp
    <3>3. QED
      BY <1>6, <3>1, <3>2 DEF ap_first_requests
  <2>3. panicked' \in {"no memory", panicked}
    BY <1>6 DEF ap_first_requests
  <2>4. SetupOK'
    BY <1>1, <2>1, <2>2 DEF SetupOK, Cores
  <2>5. QED
    BY <1>1, <2>2, <2>3, <2>4 DEF IInv, EveryFreeFinds
<1>7. CASE ap_push_back
  <2>1. registered' \in {registered, registered + 1} /\ panicked' = panicked
    BY <1>7 DEF ap_push_back
  <2>2. /\ Memory' /\ setup.at = "push_back"
        /\ setup' = [setup EXCEPT !.at = "holder"]
    <3>1. ap_kmalloc("push_back", "holder", "holder")
      BY <1>7 DEF ap_push_back
    <3>2. registered' \in Nat /\ registered <= registered'
      BY <1>1, <2>1
    <3>3. QED
      BY <1>1, <3>1, <3>2, RequestOfAp
  <2>3. SetupOK'
    BY <1>1, <2>1, <2>2, CoresAreNat DEF SetupOK, Cores
  <2>4. QED
    BY <1>1, <2>1, <2>2, <2>3 DEF IInv, EveryFreeFinds
<1>8. CASE ap_last_requests
  <2>1. registered' = registered /\ panicked' = panicked
    BY <1>8 DEF ap_last_requests
  <2>2. /\ Memory'
        /\ setup' \in {[setup EXCEPT !.at = a] : a \in {"pools", "idle"}}
    <3>1. CASE ap_kmalloc("holder", "pools", "idle")
      BY <1>1, <2>1, <3>1, RequestOfAp
    <3>2. CASE ap_kmalloc("pools", "idle", "idle")
      BY <1>1, <2>1, <3>2, RequestOfAp
    <3>3. QED
      BY <1>8, <3>1, <3>2 DEF ap_last_requests
  <2>3. SetupOK'
    BY <1>1, <2>1, <2>2 DEF SetupOK, Cores
  <2>4. QED
    BY <1>1, <2>1, <2>2, <2>3 DEF IInv, EveryFreeFinds
<1>9. CASE kernel_panic \/ UNCHANGED vars
  <2>1. UNCHANGED vars
    BY <1>9 DEF kernel_panic
  <2>2. Memory'
    BY <1>1, <2>1, MemoryStays DEF vars
  <2>3. QED
    BY <1>1, <2>1, <2>2 DEF IInv, SetupOK, EveryFreeFinds, vars, Cores
<1>10. QED
  <2>1. 2 \in Nat \ {0, 1} /\ LargeSizes \subseteq Nat \ {0, 1}
    BY SlubAssumption
  <2>2. ASSUME NEW core \in Cores, NEW class \in Classes, kmalloc(core, class, 2) PROVE IInv'
    BY <1>2, <2>1, <2>2
  <2>3. ASSUME NEW core \in Cores, NEW num \in LargeSizes, kmalloc(core, 0, num) PROVE IInv'
    BY <1>2, <2>1, <2>3
  <2>4. QED
    BY <1>3, <1>4, <1>5, <1>6, <1>7, <1>8, <1>9, <2>2, <2>3 DEF Next

-----------------------------------------------------------------------------
(* The theorems.                                                           *)

\* The invariant of the allocator.
THEOREM SlubInvariant == Spec => []IInv
<1>1. IInv /\ [Next]_vars => IInv'
  BY NextIInv
<1>2. QED
  BY <1>1, InitIInv, PTL DEF Spec

\* The header of every slab counts exactly the objects that callers hold, and its free
\* list has exactly the others: KmemCache::alloc and free decide on these counts.
THEOREM ObjectsCounted == Spec => []ObjectsExact
<1>1. IInv => ObjectsExact
  BY DEF IInv, Memory, SlabOK, ObjectsExact
<1>2. QED
  BY <1>1, SlubInvariant, PTL

\* The partial list of every cache is a proper doubly linked list of exactly its slabs
\* that have a free object (KmemCache::alloc takes from its head, free unlinks from it).
THEOREM PartialListsProper == Spec => []PartialListExact
<1>1. IInv => PartialListExact
  BY DEF IInv, Memory, Lists, ProperList, Linked, PartialListExact
<1>2. QED
  BY <1>1, SlubInvariant, PTL

\* Every page but the null one is free, a slab or in one large allocation, and kfree
\* loses no pages but those of a large allocation that was never written and whose
\* first page for the caller still had the header of a freed slab (slub.cpp:266).
THEOREM PagesAccounted == Spec => []NothingLost
<1>1. IInv => NothingLost
  BY DEF IInv, Memory
<1>2. QED
  BY <1>1, SlubInvariant, PTL

\* kfree does not panic for callers that free only what kmalloc gave them, whatever
\* they wrote there: it finds the mark or, be it stale, the header of a slab.
THEOREM NoInvalidFree == Spec => []EveryFreeFinds
<1>1. IInv => EveryFreeFinds
  BY DEF IInv
<1>2. QED
  BY <1>1, SlubInvariant, PTL
=============================================================================
