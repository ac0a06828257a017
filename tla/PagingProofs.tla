---------------------------- MODULE PagingProofs ----------------------------
(***************************************************************************)
(* The page tables, for every number of entries of a table, every memory   *)
(* map and everything that is mapped and unmapped: they form one tree, the *)
(* direct map is exact and reaches every table, the processor's cached     *)
(* translations are those of the tables, and the tables implement a        *)
(* partial map.                                                            *)
(*                                                                         *)
(* The facts about tables are about any table tb, so that they can be used *)
(* of table and of table' alike.                                           *)
(***************************************************************************)
EXTENDS Paging, FiniteSetTheorems, TLAPS

-----------------------------------------------------------------------------
(* Addresses and their indexes.                                            *)

\* The number of the entry of level l that v lies below, counted from address 0.
Prefix(v, l) == v \div Span[l]

LEMMA DivMod ==
    ASSUME NEW a \in Nat, NEW d \in Nat \ {0}
    PROVE  /\ a \div d \in Nat /\ a % d \in 0..(d - 1)
           /\ a = (a \div d) * d + (a % d)
OBVIOUS

\* Quotient and remainder are unique.
LEMMA DivUnique ==
    ASSUME NEW d \in Nat \ {0}, NEW q \in Nat, NEW r \in 0..(d - 1)
    PROVE  (q * d + r) \div d = q /\ (q * d + r) % d = r
OBVIOUS

LEMMA MultipleMod ==
    ASSUME NEW d \in Nat \ {0}, NEW q \in Nat
    PROVE  (q * d) % d = 0
<1>1. (q * d + 0) % d = 0
  BY DivUnique
<1>2. q * d + 0 = q * d
  OBVIOUS
<1>3. QED
  BY <1>1, <1>2

LEMMA ProductType ==
    ASSUME NEW a \in Nat \ {0}, NEW b \in Nat \ {0}
    PROVE  a * b \in Nat \ {0}
OBVIOUS

\* Multiples are ordered as their factors.
LEMMA Factors ==
    ASSUME NEW a \in Nat, NEW b \in Nat, NEW d \in Nat \ {0}, a * d < b * d
    PROVE  a < b
<1>1. SUFFICES ASSUME b <= a PROVE FALSE
  OBVIOUS
<1>2. a - b \in Nat /\ a * d = b * d + (a - b) * d /\ (a - b) * d >= 0
  BY <1>1
<1>3. QED
  BY <1>2

LEMMA NextMultiple ==
    ASSUME NEW a \in Nat, NEW b \in Nat, NEW d \in Nat \ {0}, a < b
    PROVE  a * d + d <= b * d
<1>1. b - a - 1 \in Nat /\ b * d = a * d + d + (b - a - 1) * d /\ (b - a - 1) * d >= 0
  OBVIOUS
<1>2. QED
  BY <1>1

LEMMA MultipleOf ==
    ASSUME NEW a \in Nat, NEW d \in Nat \ {0}, a % d = 0
    PROVE  a \div d \in Nat /\ a = (a \div d) * d
<1>1. a = (a \div d) * d + (a % d) /\ a \div d \in Nat
  BY DivMod
<1>2. (a \div d) * d \in Nat
  BY <1>1
<1>3. QED
  BY <1>1, <1>2

LEMMA DivDiv ==
    ASSUME NEW a \in Nat, NEW d \in Nat \ {0}, NEW f \in Nat \ {0}
    PROVE  (a \div d) \div f = a \div (d * f)
<1> DEFINE q == a \div d
           r == a % d
           k == q \div f
           j == q % f
<1>1. q \in Nat /\ r \in 0..(d - 1) /\ a = q * d + r
  BY DivMod
<1>2. k \in Nat /\ j \in 0..(f - 1) /\ q = k * f + j
  BY <1>1, DivMod
<1> HIDE DEF q, r, k, j
<1>3. a = k * (d * f) + (j * d + r)
  <2>1. q * d = (k * f + j) * d
    BY <1>2
  <2>2. (k * f + j) * d = k * (d * f) + j * d
    BY <1>2
  <2>3. QED
    BY <1>1, <1>2, <2>1, <2>2
<1>4. j * d + r \in 0..(d * f - 1)
  <2>1. j * d <= (f - 1) * d
    BY <1>2
  <2>2. (f - 1) * d = d * f - d /\ d * f \in Nat /\ j * d \in Nat
    BY <1>2
  <2>3. QED
    BY <1>1, <2>1, <2>2
<1>5. d * f \in Nat \ {0}
  BY ProductType
<1>6. a \div (d * f) = k
  BY <1>2, <1>3, <1>4, <1>5, DivUnique
<1>7. QED
  BY <1>6 DEF k, q

LEMMA SpanFacts ==
    /\ Fan \in Nat \ {0, 1}
    /\ Span[1] = 1 /\ Span[2] = Fan
    /\ \A l \in 1..5 : Span[l] \in Nat \ {0}
    /\ \A l \in Levels : Span[l + 1] = Span[l] * Fan
<1>1. Fan \in Nat \ {0, 1}
  BY PagingAssumption
<1>2. /\ Fan * Fan \in Nat \ {0} /\ Fan * Fan * Fan \in Nat \ {0}
      /\ Fan * Fan * Fan * Fan \in Nat \ {0}
  BY <1>1, ProductType
<1>3. /\ Span[1] = 1 /\ Span[2] = Fan /\ Span[3] = Fan * Fan
      /\ Span[4] = Fan * Fan * Fan /\ Span[5] = Fan * Fan * Fan * Fan
  BY DEF Span
<1>4. \A l \in 1..5 : Span[l] \in Nat \ {0}
  BY <1>1, <1>2, <1>3
<1>5. \A l \in Levels : Span[l + 1] = Span[l] * Fan
  BY <1>1, <1>3 DEF Levels
<1>6. QED
  BY <1>1, <1>3, <1>4, <1>5

\* An address is a number; its prefix at a level is that of the level above and an index.
LEMMA PrefixFacts ==
    ASSUME NEW v \in VirtPages
    PROVE  /\ v \in Nat /\ Prefix(v, 1) = v /\ Prefix(v, 5) = 0
           /\ \A l \in 1..5 : Prefix(v, l) \in Nat
           /\ \A l \in Levels : /\ Prefix(v, l + 1) = Prefix(v, l) \div Fan
                                /\ decompose(v, l) = Prefix(v, l) % Fan
                                /\ decompose(v, l) \in Slots
                                /\ Prefix(v, l) = Prefix(v, l + 1) * Fan + decompose(v, l)
<1>1. v \in Nat /\ v < Span[5]
  BY SpanFacts DEF VirtPages
<1>2. \A l \in 1..5 : Prefix(v, l) \in Nat
  BY <1>1, SpanFacts, DivMod DEF Prefix
<1>3. Prefix(v, 1) = v
  BY <1>1, SpanFacts DEF Prefix
<1>4. Prefix(v, 5) = 0
  <2>1. Span[5] \in Nat \ {0}
    BY SpanFacts
  <2>2. v = 0 * Span[5] + v /\ v \in 0..(Span[5] - 1)
    BY <1>1, <2>1
  <2>3. (0 * Span[5] + v) \div Span[5] = 0
    BY <2>1, <2>2, DivUnique
  <2>4. QED
    BY <2>2, <2>3 DEF Prefix
<1>5. ASSUME NEW l \in Levels
      PROVE  /\ Prefix(v, l + 1) = Prefix(v, l) \div Fan
             /\ decompose(v, l) = Prefix(v, l) % Fan
             /\ decompose(v, l) \in Slots
             /\ Prefix(v, l) = Prefix(v, l + 1) * Fan + decompose(v, l)
  <2>1. l \in 1..5 /\ l + 1 \in 1..5
    BY DEF Levels
  <2>2. Span[l] \in Nat \ {0} /\ Span[l + 1] = Span[l] * Fan /\ Fan \in Nat \ {0}
    BY <2>1, SpanFacts
  <2>3. Prefix(v, l + 1) = Prefix(v, l) \div Fan
    BY <1>1, <2>2, DivDiv DEF Prefix
  <2>4. decompose(v, l) = Prefix(v, l) % Fan
    BY DEF decompose, Prefix
  <2>5. Prefix(v, l) % Fan \in Slots /\ Prefix(v, l) = (Prefix(v, l) \div Fan) * Fan + (Prefix(v, l) % Fan)
    BY <1>2, <2>1, <2>2, DivMod DEF Slots
  <2>6. QED
    BY <2>3, <2>4, <2>5
<1>6. QED
  BY <1>1, <1>2, <1>3, <1>4, <1>5

\* Prefixes that are equal at a level are equal above it, and so are the indexes.
LEMMA PrefixUp ==
    ASSUME NEW v \in VirtPages, NEW w \in VirtPages, NEW l \in Levels,
           Prefix(v, l) = Prefix(w, l)
    PROVE  \A k \in Levels : k >= l => /\ Prefix(v, k) = Prefix(w, k)
                                       /\ decompose(v, k) = decompose(w, k)
                                       /\ Prefix(v, k + 1) = Prefix(w, k + 1)
<1> DEFINE Same(k) == /\ Prefix(v, k) = Prefix(w, k)
                      /\ decompose(v, k) = decompose(w, k)
                      /\ Prefix(v, k + 1) = Prefix(w, k + 1)
<1>1. \A k \in Levels : Prefix(v, k) = Prefix(w, k) => Same(k)
  BY PrefixFacts
<1>2. l \in {1, 2, 3, 4} /\ Levels = {1, 2, 3, 4}
  BY DEF Levels
<1>3. CASE l = 1
  <2>1. Same(1) /\ Same(2) /\ Same(3) /\ Same(4)
    BY <1>1, <1>2, <1>3
  <2>2. QED
    BY <1>2, <2>1
<1>4. CASE l = 2
  <2>1. Same(2) /\ Same(3) /\ Same(4)
    BY <1>1, <1>2, <1>4
  <2>2. QED
    BY <1>2, <1>4, <2>1
<1>5. CASE l = 3
  <2>1. Same(3) /\ Same(4)
    BY <1>1, <1>2, <1>5
  <2>2. QED
    BY <1>2, <1>5, <2>1
<1>6. CASE l = 4
  BY <1>1, <1>2, <1>6
<1>7. QED
  BY <1>2, <1>3, <1>4, <1>5, <1>6

\* The same prefix above and the same index make the same prefix.
LEMMA PrefixDown ==
    ASSUME NEW v \in VirtPages, NEW w \in VirtPages, NEW l \in Levels,
           Prefix(v, l + 1) = Prefix(w, l + 1), decompose(v, l) = decompose(w, l)
    PROVE  Prefix(v, l) = Prefix(w, l)
<1>1. Prefix(v, l) = Prefix(v, l + 1) * Fan + decompose(v, l)
  BY PrefixFacts
<1>2. Prefix(w, l) = Prefix(w, l + 1) * Fan + decompose(w, l)
  BY PrefixFacts
<1>3. QED
  BY <1>1, <1>2

-----------------------------------------------------------------------------
(* Trees of tables.                                                        *)

Links(tb, S) == {x \in S \X Slots : has_subtable(tb[x[1]][x[2]])}
Target(tb, x) == tb[x[1]][x[2]].p
Below(tb, S) == {Target(tb, x) : x \in Links(tb, S)}

\* The tables of each level.
LV(tb) == <<Below(tb, Below(tb, Below(tb, {P4}))), Below(tb, Below(tb, {P4})),
            Below(tb, {P4}), {P4}>>

TypedTables(tb) ==
    /\ tb = [t \in DOMAIN tb |-> tb[t]]
    /\ DOMAIN tb \subseteq PhysPages
    /\ \A t \in DOMAIN tb : tb[t] \in [Slots -> Entries]

\* The places where boot.asm hangs p3_table and p2_table.
P3Places == {<<P4, HhdmSlot>>, <<P4, KernelSlot>>}
P2Places == {<<P3, 0>>, <<P3, KernelPdpt>>}
Twins(x, y) == {x, y} \subseteq P3Places \/ {x, y} \subseteq P2Places

BootLinks(tb) ==
    /\ {P4, P3, P2} \subseteq DOMAIN tb
    /\ \A x \in P3Places : tb[x[1]][x[2]] = make_table(P3, FALSE)
    /\ \A x \in P2Places : tb[x[1]][x[2]] = make_table(P2, FALSE)

LevelsCover(tb) ==
    /\ \A t \in DOMAIN tb : \E l \in Levels : t \in LV(tb)[l]
    /\ \A l \in Levels : LV(tb)[l] \subseteq DOMAIN tb

LevelsApart(tb) ==
    \A l, k \in Levels : \A t \in LV(tb)[l] : t \in LV(tb)[k] => l = k

LinksApart(tb) ==
    \A l, k \in 2..4 : \A x \in Links(tb, LV(tb)[l]), y \in Links(tb, LV(tb)[k]) :
        Target(tb, x) = Target(tb, y) => x = y \/ Twins(x, y)

LeafOk(e, l) ==
    /\ e.present /\ e.huge => l \in {2, 3}
    /\ IsLeaf(e, l) => e.p % Span[l] = 0

LeavesOk(tb) == \A l \in Levels : \A t \in LV(tb)[l], i \in Slots : LeafOk(tb[t][i], l)

Tree(tb) ==
    /\ TypedTables(tb) /\ BootLinks(tb)
    /\ LevelsCover(tb) /\ LevelsApart(tb) /\ LinksApart(tb) /\ LeavesOk(tb)

LEMMA LevelFacts ==
    ASSUME NEW tb
    PROVE  /\ LV(tb)[4] = {P4}
           /\ LV(tb)[3] = Below(tb, LV(tb)[4])
           /\ LV(tb)[2] = Below(tb, LV(tb)[3])
           /\ LV(tb)[1] = Below(tb, LV(tb)[2])
           /\ \A l \in 2..4 : LV(tb)[l - 1] = Below(tb, LV(tb)[l])
           /\ Levels = {1, 2, 3, 4} /\ 2..4 = {2, 3, 4}
<1>1. /\ LV(tb)[4] = {P4}
      /\ LV(tb)[3] = Below(tb, LV(tb)[4])
      /\ LV(tb)[2] = Below(tb, LV(tb)[3])
      /\ LV(tb)[1] = Below(tb, LV(tb)[2])
  BY DEF LV
<1>2. 2..4 = {2, 3, 4} /\ 4 - 1 = 3 /\ 3 - 1 = 2 /\ 2 - 1 = 1
  OBVIOUS
<1>3. \A l \in {2, 3, 4} : LV(tb)[l - 1] = Below(tb, LV(tb)[l])
  BY <1>1, <1>2
<1>4. QED
  BY <1>1, <1>2, <1>3 DEF Levels

\* The places of boot.asm are links of p4_table and p3_table, in the levels they are in.
LEMMA BootPlaces ==
    ASSUME NEW tb, BootLinks(tb), NEW x \in P3Places \cup P2Places
    PROVE  /\ x[1] \in DOMAIN tb /\ x[2] \in Slots /\ x[1] \in {P4, P3}
           /\ x = <<x[1], x[2]>>
           /\ has_subtable(tb[x[1]][x[2]])
           /\ x \in P3Places => x[1] = P4 /\ Target(tb, x) = P3
           /\ x \in P2Places => x[1] = P3 /\ Target(tb, x) = P2
<1>1. HhdmSlot \in Slots /\ KernelSlot \in Slots /\ KernelPdpt \in Slots /\ 0 \in Slots
  BY PagingAssumption DEF Slots
<1>2. x[2] \in Slots /\ x = <<x[1], x[2]>>
  BY <1>1 DEF P3Places, P2Places
<1>7. P4 # P3
  BY PagingAssumption
<1>5. (\A y \in P3Places : y[1] = P4) /\ (\A y \in P2Places : y[1] = P3)
  BY DEF P3Places, P2Places
<1>3. CASE x \in P3Places
  <2>1. x[1] = P4 /\ tb[x[1]][x[2]] = make_table(P3, FALSE)
    BY <1>3, <1>5 DEF BootLinks
  <2>2. x \notin P2Places
    BY <2>1, <1>5, <1>7
  <2>3. QED
    BY <1>2, <2>1, <2>2 DEF BootLinks, Target, make_table, has_subtable
<1>4. CASE x \in P2Places
  <2>1. x[1] = P3 /\ tb[x[1]][x[2]] = make_table(P2, FALSE)
    BY <1>4, <1>5 DEF BootLinks
  <2>2. x \notin P3Places
    BY <2>1, <1>5, <1>7
  <2>3. QED
    BY <1>2, <2>1, <2>2 DEF BootLinks, Target, make_table, has_subtable
<1>6. QED
  BY <1>3, <1>4

LEMMA BootLevels ==
    ASSUME NEW tb, BootLinks(tb)
    PROVE  P4 \in LV(tb)[4] /\ P3 \in LV(tb)[3] /\ P2 \in LV(tb)[2]
<1>1. P4 \in LV(tb)[4]
  BY LevelFacts
<1>2. P3 \in LV(tb)[3]
  <2> DEFINE x == <<P4, HhdmSlot>>
  <2>1. x \in P3Places
    BY DEF P3Places
  <2>2. x \in Links(tb, LV(tb)[4]) /\ Target(tb, x) = P3
    BY <1>1, <2>1, BootPlaces DEF Links
  <2> HIDE DEF x
  <2>3. LV(tb)[3] = Below(tb, LV(tb)[4])
    BY LevelFacts
  <2>4. QED
    BY <2>2, <2>3, Zenon DEF Below
<1>3. P2 \in LV(tb)[2]
  <2> DEFINE x == <<P3, 0>>
  <2>1. x \in P2Places
    BY DEF P2Places
  <2>2. x \in Links(tb, LV(tb)[3]) /\ Target(tb, x) = P2
    BY <1>2, <2>1, BootPlaces DEF Links
  <2> HIDE DEF x
  <2>3. LV(tb)[2] = Below(tb, LV(tb)[3])
    BY LevelFacts
  <2>4. QED
    BY <2>2, <2>3, Zenon DEF Below
<1>4. QED
  BY <1>1, <1>2, <1>3

-----------------------------------------------------------------------------
(* Writing one entry that is no link, before or after.                     *)

Rewrites(tb, tc, t, i) ==
    /\ TypedTables(tc) /\ DOMAIN tc = DOMAIN tb
    /\ \A s \in DOMAIN tb, j \in Slots : (s # t \/ j # i) => tc[s][j] = tb[s][j]

NoLink(tb, tc, t, i) == ~has_subtable(tb[t][i]) /\ ~has_subtable(tc[t][i])

LEMMA PutBelow ==
    ASSUME NEW tb, NEW tc, NEW t, NEW i, Rewrites(tb, tc, t, i),
           NEW S \in SUBSET DOMAIN tb, t \in S => NoLink(tb, tc, t, i)
    PROVE  /\ Links(tc, S) = Links(tb, S)
           /\ \A x \in Links(tb, S) : Target(tc, x) = Target(tb, x)
           /\ Below(tc, S) = Below(tb, S)
<1>1. ASSUME NEW x \in S \X Slots, has_subtable(tb[x[1]][x[2]]) \/ has_subtable(tc[x[1]][x[2]])
      PROVE  tc[x[1]][x[2]] = tb[x[1]][x[2]]
  <2>1. x[1] \in S /\ x[2] \in Slots /\ x[1] \in DOMAIN tb
    OBVIOUS
  <2>2. x[1] # t \/ x[2] # i
    BY <1>1, <2>1 DEF NoLink
  <2>3. QED
    BY <2>1, <2>2 DEF Rewrites
<1>2. Links(tc, S) = Links(tb, S)
  BY <1>1, Zenon DEF Links
<1>3. \A x \in Links(tb, S) : Target(tc, x) = Target(tb, x)
  BY <1>1, Zenon DEF Links, Target
<1>4. QED
  BY <1>2, <1>3 DEF Below

LEMMA PutLevels ==
    ASSUME NEW tb, NEW tc, NEW l \in Levels, NEW t \in LV(tb)[l], NEW i \in Slots,
           Tree(tb), Rewrites(tb, tc, t, i), l = 1 \/ NoLink(tb, tc, t, i)
    PROVE  /\ LV(tc) = LV(tb)
           /\ \A k \in 2..4 : /\ Links(tc, LV(tb)[k]) = Links(tb, LV(tb)[k])
                              /\ \A x \in Links(tb, LV(tb)[k]) : Target(tc, x) = Target(tb, x)
<1>1. ASSUME NEW k \in 2..4
      PROVE  /\ Links(tc, LV(tb)[k]) = Links(tb, LV(tb)[k])
             /\ \A x \in Links(tb, LV(tb)[k]) : Target(tc, x) = Target(tb, x)
             /\ Below(tc, LV(tb)[k]) = Below(tb, LV(tb)[k])
  <2>1. k \in Levels /\ k # 1
    BY DEF Levels
  <2>2. LV(tb)[k] \in SUBSET DOMAIN tb
    BY <2>1 DEF Tree, LevelsCover
  <2>3. t \in LV(tb)[k] => NoLink(tb, tc, t, i)
    BY <2>1 DEF Tree, LevelsApart
  <2>4. QED
    BY <2>2, <2>3, PutBelow
<1>2. LV(tc)[4] = LV(tb)[4]
  BY LevelFacts
<1>3. LV(tc)[3] = LV(tb)[3]
  BY <1>1, <1>2, LevelFacts
<1>4. LV(tc)[2] = LV(tb)[2]
  BY <1>1, <1>3, LevelFacts
<1>5. LV(tc)[1] = LV(tb)[1]
  BY <1>1, <1>4, LevelFacts
<1>6. LV(tc) = LV(tb)
  <2>1. LV(tc) = <<LV(tc)[1], LV(tc)[2], LV(tc)[3], LV(tc)[4]>>
    BY DEF LV
  <2>2. LV(tb) = <<LV(tb)[1], LV(tb)[2], LV(tb)[3], LV(tb)[4]>>
    BY DEF LV
  <2>3. QED
    BY <1>2, <1>3, <1>4, <1>5, <2>1, <2>2
<1>7. QED
  BY <1>1, <1>6

LEMMA PutTree ==
    ASSUME NEW tb, NEW tc, NEW l \in Levels, NEW t \in LV(tb)[l], NEW i \in Slots,
           Tree(tb), Rewrites(tb, tc, t, i), l = 1 \/ NoLink(tb, tc, t, i),
           LeafOk(tc[t][i], l)
    PROVE  Tree(tc)
<1>1. /\ LV(tc) = LV(tb)
      /\ \A k \in 2..4 : /\ Links(tc, LV(tb)[k]) = Links(tb, LV(tb)[k])
                         /\ \A x \in Links(tb, LV(tb)[k]) : Target(tc, x) = Target(tb, x)
  BY PutLevels
<1>2. TypedTables(tc) /\ DOMAIN tc = DOMAIN tb
  BY DEF Rewrites
<1>3. LevelsCover(tc) /\ LevelsApart(tc)
  BY <1>1, <1>2 DEF Tree, LevelsCover, LevelsApart
<1>4. LinksApart(tc)
  BY <1>1 DEF Tree, LinksApart
<1>5. LeavesOk(tc)
  <2> SUFFICES ASSUME NEW k \in Levels, NEW s \in LV(tb)[k], NEW j \in Slots
               PROVE  LeafOk(tc[s][j], k)
    BY <1>1 DEF LeavesOk
  <2>1. s \in DOMAIN tb /\ LeafOk(tb[s][j], k)
    BY DEF Tree, LevelsCover, LeavesOk
  <2>2. CASE s = t /\ j = i
    <3>1. k = l
      BY <2>2 DEF Tree, LevelsApart
    <3>2. QED
      BY <2>2, <3>1
  <2>3. CASE s # t \/ j # i
    <3>1. tc[s][j] = tb[s][j]
      BY <2>1, <2>3 DEF Rewrites
    <3>2. QED
      BY <2>1, <3>1
  <2>4. QED
    BY <2>2, <2>3
<1>6. BootLinks(tc)
  <2>1. P4 \in LV(tb)[4] /\ P3 \in LV(tb)[3]
    BY BootLevels DEF Tree
  <2>2. ASSUME NEW x \in P3Places \cup P2Places
        PROVE  tc[x[1]][x[2]] = tb[x[1]][x[2]]
    <3>1. x[1] \in DOMAIN tb /\ x[2] \in Slots /\ (x[1] \in LV(tb)[4] \/ x[1] \in LV(tb)[3])
      BY <2>1, BootPlaces DEF Tree
    <3>2. has_subtable(tb[x[1]][x[2]])
      BY BootPlaces DEF Tree
    <3>3. x[1] = t => l # 1
      BY <3>1 DEF Tree, LevelsApart, Levels
    <3>4. x[1] # t \/ x[2] # i
      BY <3>2, <3>3 DEF NoLink
    <3>5. QED
      BY <3>1, <3>4 DEF Rewrites
  <2>3. {P4, P3, P2} \subseteq DOMAIN tc
    BY <1>2 DEF Tree, BootLinks
  <2>4. \A x \in P3Places : tc[x[1]][x[2]] = make_table(P3, FALSE)
    BY <2>2, Zenon DEF Tree, BootLinks
  <2>5. \A x \in P2Places : tc[x[1]][x[2]] = make_table(P2, FALSE)
    BY <2>2, Zenon DEF Tree, BootLinks
  <2>6. QED
    BY <2>3, <2>4, <2>5 DEF BootLinks
<1>7. QED
  BY <1>2, <1>3, <1>4, <1>5, <1>6 DEF Tree

-----------------------------------------------------------------------------
(* Hanging a cleared table f in an entry that was not present.             *)

Hangs(tb, tc, t, i, f, user) ==
    /\ TypedTables(tc) /\ f \notin DOMAIN tb /\ DOMAIN tc = DOMAIN tb \cup {f}
    /\ \A s \in DOMAIN tb, j \in Slots : (s # t \/ j # i) => tc[s][j] = tb[s][j]
    /\ tc[f] = clear
    /\ ~tb[t][i].present /\ tc[t][i] = make_table(f, user)

LEMMA ClearLinks ==
    ASSUME NEW tc, NEW f, tc[f] = clear, NEW S
    PROVE  Links(tc, S \cup {f}) = Links(tc, S)
<1>1. \A j \in Slots : ~has_subtable(tc[f][j])
  BY DEF clear, Empty, has_subtable
<1>2. ASSUME NEW x \in (S \cup {f}) \X Slots, has_subtable(tc[x[1]][x[2]])
      PROVE  x \in S \X Slots
  <2>1. x[1] \in S \cup {f} /\ x[2] \in Slots /\ x = <<x[1], x[2]>>
    OBVIOUS
  <2>2. x[1] # f
    BY <1>1, <1>2, <2>1
  <2>3. QED
    BY <2>1, <2>2
<1>3. \A x \in S \X Slots : x \in (S \cup {f}) \X Slots
  OBVIOUS
<1>4. QED
  BY <1>2, <1>3, Zenon DEF Links

\* In a set of old tables without t nothing changes; in one with t the link is new.
HangsBelow(tb, tc, t, i, f, S) ==
    /\ Links(tc, S) = IF t \in S THEN Links(tb, S) \cup {<<t, i>>} ELSE Links(tb, S)
    /\ <<t, i>> \notin Links(tb, S)
    /\ Target(tc, <<t, i>>) = f
    /\ \A x \in Links(tb, S) : Target(tc, x) = Target(tb, x)
    /\ Below(tc, S) = IF t \in S THEN Below(tb, S) \cup {f} ELSE Below(tb, S)

LEMMA HangBelow ==
    ASSUME NEW tb, NEW tc, NEW t, NEW i \in Slots, NEW f, NEW user,
           Hangs(tb, tc, t, i, f, user), NEW S \in SUBSET DOMAIN tb
    PROVE  HangsBelow(tb, tc, t, i, f, S)
<1>1. has_subtable(tc[t][i]) /\ ~has_subtable(tb[t][i]) /\ tc[t][i].p = f
  BY DEF Hangs, make_table, has_subtable
<1>2. ASSUME NEW x \in S \X Slots, x # <<t, i>>
      PROVE  tc[x[1]][x[2]] = tb[x[1]][x[2]]
  <2>1. x[1] \in DOMAIN tb /\ x[2] \in Slots /\ x = <<x[1], x[2]>>
    OBVIOUS
  <2>2. x[1] # t \/ x[2] # i
    BY <1>2, <2>1
  <2>3. QED
    BY <2>1, <2>2 DEF Hangs
<1>3. <<t, i>>[1] = t /\ <<t, i>>[2] = i
  OBVIOUS
<1>4. <<t, i>> \notin Links(tb, S) /\ Target(tc, <<t, i>>) = f
  BY <1>1, <1>3 DEF Links, Target
<1>5. t \in S => <<t, i>> \in S \X Slots /\ <<t, i>> \in Links(tc, S)
  BY <1>1, <1>3 DEF Links
<1>6. t \notin S => <<t, i>> \notin S \X Slots
  OBVIOUS
<1>7. ASSUME NEW x \in S \X Slots, x # <<t, i>>
      PROVE  x \in Links(tc, S) <=> x \in Links(tb, S)
  BY <1>2, <1>7 DEF Links
<1>8. Links(tc, S) \subseteq S \X Slots /\ Links(tb, S) \subseteq S \X Slots
  BY DEF Links
<1>9. Links(tc, S) = IF t \in S THEN Links(tb, S) \cup {<<t, i>>} ELSE Links(tb, S)
  BY <1>4, <1>5, <1>6, <1>7, <1>8
<1>10. \A x \in Links(tb, S) : Target(tc, x) = Target(tb, x)
  <2> TAKE x \in Links(tb, S)
  <2>1. x \in S \X Slots /\ x # <<t, i>>
    BY <1>4, <1>8
  <2>2. QED
    BY <1>2, <2>1 DEF Target
<1>11. Below(tc, S) = IF t \in S THEN Below(tb, S) \cup {f} ELSE Below(tb, S)
  <2>1. CASE t \in S
    <3>1. Links(tc, S) = Links(tb, S) \cup {<<t, i>>}
      BY <1>9, <2>1
    <3>2. <<t, i>> \in Links(tc, S) /\ Target(tc, <<t, i>>) = f
      BY <1>4, <3>1
    <3>3. f \in Below(tc, S)
      BY <3>2 DEF Below
    <3>4. \A x \in Links(tb, S) : Target(tb, x) \in Below(tc, S)
      BY <1>10, <3>1 DEF Below
    <3>5. \A x \in Links(tc, S) : Target(tc, x) \in Below(tb, S) \cup {f}
      BY <1>10, <3>1, <3>2 DEF Below
    <3>6. Below(tb, S) \subseteq Below(tc, S)
      BY <3>4 DEF Below
    <3>7. Below(tc, S) \subseteq Below(tb, S) \cup {f}
      BY <3>5 DEF Below
    <3>8. QED
      BY <2>1, <3>3, <3>6, <3>7
  <2>2. CASE t \notin S
    <3>1. Links(tc, S) = Links(tb, S)
      BY <1>9, <2>2
    <3>2. QED
      BY <1>10, <2>2, <3>1 DEF Below
  <2>3. QED
    BY <2>1, <2>2
<1>12. QED
  BY <1>4, <1>9, <1>10, <1>11 DEF HangsBelow

HangsAt(tb, tc, t, i, f, l) ==
    /\ \A k \in Levels :
         LV(tc)[k] = IF k = l - 1 THEN LV(tb)[k] \cup {f} ELSE LV(tb)[k]
    /\ \A k \in 2..4 :
         Links(tc, LV(tc)[k]) =
             IF k = l THEN Links(tb, LV(tb)[k]) \cup {<<t, i>>} ELSE Links(tb, LV(tb)[k])

LEMMA HangLevels ==
    ASSUME NEW tb, NEW tc, NEW l \in 2..4, NEW t \in LV(tb)[l], NEW i \in Slots,
           NEW f, NEW user, Tree(tb), Hangs(tb, tc, t, i, f, user)
    PROVE  HangsAt(tb, tc, t, i, f, l)
<1>1. ASSUME NEW k \in 2..4
      PROVE  /\ Links(tc, LV(tb)[k]) =
                    IF k = l THEN Links(tb, LV(tb)[k]) \cup {<<t, i>>} ELSE Links(tb, LV(tb)[k])
             /\ Below(tc, LV(tb)[k]) =
                    IF k = l THEN Below(tb, LV(tb)[k]) \cup {f} ELSE Below(tb, LV(tb)[k])
  <2>1. k \in Levels /\ l \in Levels
    BY DEF Levels
  <2>2. LV(tb)[k] \in SUBSET DOMAIN tb
    BY <2>1 DEF Tree, LevelsCover
  <2>3. t \in LV(tb)[k] <=> k = l
    BY <2>1 DEF Tree, LevelsApart
  <2> DEFINE S == LV(tb)[k]
  <2>4. S \in SUBSET DOMAIN tb /\ (t \in S <=> k = l)
    BY <2>2, <2>3
  <2> HIDE DEF S
  <2>5. /\ Links(tc, S) = IF t \in S THEN Links(tb, S) \cup {<<t, i>>} ELSE Links(tb, S)
        /\ Below(tc, S) = IF t \in S THEN Below(tb, S) \cup {f} ELSE Below(tb, S)
    <3>1. HangsBelow(tb, tc, t, i, f, S)
      BY <2>4, HangBelow, Zenon
    <3>2. QED
      BY <3>1 DEF HangsBelow
  <2>6. QED
    BY <2>4, <2>5 DEF S
<1>2. ASSUME NEW k \in 2..4
      PROVE  /\ Links(tc, LV(tb)[k] \cup {f}) = Links(tc, LV(tb)[k])
             /\ Below(tc, LV(tb)[k] \cup {f}) = Below(tc, LV(tb)[k])
  <2>1. tc[f] = clear
    BY DEF Hangs
  <2>2. QED
    BY <2>1, ClearLinks DEF Below
<1> DEFINE New(k) == IF k = l - 1 THEN LV(tb)[k] \cup {f} ELSE LV(tb)[k]
<1>3. ASSUME NEW k \in 2..4
      PROVE  /\ Below(tc, New(k)) = Below(tc, LV(tb)[k])
             /\ Links(tc, New(k)) = Links(tc, LV(tb)[k])
  BY <1>2
<1>4. ASSUME NEW k \in 2..4, LV(tc)[k] = New(k)
      PROVE  LV(tc)[k - 1] = New(k - 1)
  <2>1. LV(tc)[k - 1] = Below(tc, LV(tc)[k]) /\ LV(tb)[k - 1] = Below(tb, LV(tb)[k])
    BY LevelFacts
  <2>2. LV(tc)[k - 1] = Below(tc, LV(tb)[k])
    BY <1>3, <1>4, <2>1
  <2>3. k - 1 = l - 1 <=> k = l
    OBVIOUS
  <2>4. QED
    BY <1>1, <2>1, <2>2, <2>3
<1>5. LV(tc)[4] = New(4)
  <2>1. 4 # l - 1
    OBVIOUS
  <2>2. QED
    BY <2>1, LevelFacts
<1> HIDE DEF New
<1>6. LV(tc)[3] = New(3)
  BY <1>4, <1>5
<1>7. LV(tc)[2] = New(2)
  BY <1>4, <1>6
<1>8. LV(tc)[1] = New(1)
  BY <1>4, <1>7
<1>9. \A k \in Levels : LV(tc)[k] = New(k)
  BY <1>5, <1>6, <1>7, <1>8, LevelFacts
<1>10. \A k \in 2..4 : Links(tc, LV(tc)[k]) = Links(tc, LV(tb)[k])
  <2> TAKE k \in 2..4
  <2>1. k \in Levels
    BY DEF Levels
  <2>2. QED
    BY <1>3, <1>9, <2>1
<1>11. QED
  BY <1>1, <1>9, <1>10 DEF New, HangsAt

LEMMA HangTree ==
    ASSUME NEW tb, NEW tc, NEW l \in 2..4, NEW t \in LV(tb)[l], NEW i \in Slots,
           NEW f, NEW user, Tree(tb), Hangs(tb, tc, t, i, f, user)
    PROVE  Tree(tc)
<1>0. HangsAt(tb, tc, t, i, f, l)
  BY HangLevels, Zenon
<1>1. \A k \in Levels :
         LV(tc)[k] = IF k = l - 1 THEN LV(tb)[k] \cup {f} ELSE LV(tb)[k]
  BY <1>0 DEF HangsAt
<1>2. \A k \in 2..4 : Links(tc, LV(tc)[k]) =
         IF k = l THEN Links(tb, LV(tb)[k]) \cup {<<t, i>>} ELSE Links(tb, LV(tb)[k])
  BY <1>0 DEF HangsAt
<1>3. l - 1 \in Levels /\ l \in Levels
  BY DEF Levels
<1>4. TypedTables(tc) /\ DOMAIN tc = DOMAIN tb \cup {f} /\ f \notin DOMAIN tb /\ t \in DOMAIN tb
  BY <1>3 DEF Hangs, Tree, LevelsCover
<1>5. \A k \in Levels : LV(tb)[k] \subseteq DOMAIN tb
  BY DEF Tree, LevelsCover
<1>6. LevelsCover(tc)
  <2>1. \A s \in DOMAIN tc : \E k \in Levels : s \in LV(tc)[k]
    <3> SUFFICES ASSUME NEW s \in DOMAIN tc PROVE \E k \in Levels : s \in LV(tc)[k]
      OBVIOUS
    <3>1. CASE s = f
      <4>1. s \in LV(tc)[l - 1]
        BY <1>1, <1>3, <3>1
      <4>2. QED
        BY <1>3, <4>1
    <3>2. CASE s # f
      <4>1. PICK k \in Levels : s \in LV(tb)[k]
        BY <1>4, <3>2 DEF Tree, LevelsCover
      <4>2. s \in LV(tc)[k]
        BY <1>1, <4>1
      <4>3. QED
        BY <4>2
    <3>3. QED
      BY <3>1, <3>2
  <2>2. \A k \in Levels : LV(tc)[k] \subseteq DOMAIN tc
    BY <1>1, <1>4, <1>5
  <2>3. QED
    BY <2>1, <2>2 DEF LevelsCover
<1>7. LevelsApart(tc)
  <2> SUFFICES ASSUME NEW k \in Levels, NEW m \in Levels, NEW s,
                      s \in LV(tc)[k], s \in LV(tc)[m]
               PROVE  k = m
    BY DEF LevelsApart
  <2>1. CASE s = f
    <3>1. f \notin LV(tb)[k] /\ f \notin LV(tb)[m]
      BY <1>4, <1>5
    <3>2. k = l - 1 /\ m = l - 1
      BY <1>1, <2>1, <3>1
    <3>3. QED
      BY <3>2
  <2>2. CASE s # f
    <3>1. s \in LV(tb)[k] /\ s \in LV(tb)[m]
      <4>1. \A j \in Levels : s \in LV(tc)[j] => s \in LV(tb)[j]
        BY <1>1, <2>2
      <4>2. QED
        BY <4>1
    <3>2. QED
      BY <3>1 DEF Tree, LevelsApart
  <2>3. QED
    BY <2>1, <2>2
<1>8. \A k \in 2..4 : /\ <<t, i>> \notin Links(tb, LV(tb)[k])
                      /\ \A x \in Links(tb, LV(tb)[k]) :
                            Target(tc, x) = Target(tb, x) /\ Target(tb, x) # f
  <2> SUFFICES ASSUME NEW k \in 2..4
               PROVE  /\ <<t, i>> \notin Links(tb, LV(tb)[k])
                      /\ \A x \in Links(tb, LV(tb)[k]) :
                            Target(tc, x) = Target(tb, x) /\ Target(tb, x) # f
    OBVIOUS
  <2>1. k \in Levels /\ k - 1 \in Levels
    BY DEF Levels
  <2>2. LV(tb)[k] \in SUBSET DOMAIN tb /\ LV(tb)[k - 1] \subseteq DOMAIN tb
    BY <1>5, <2>1
  <2>3. LV(tb)[k - 1] = Below(tb, LV(tb)[k])
    BY LevelFacts
  <2> DEFINE S == LV(tb)[k]
  <2>4. S \in SUBSET DOMAIN tb /\ Below(tb, S) \subseteq DOMAIN tb
    BY <2>2, <2>3
  <2> HIDE DEF S
  <2>5. <<t, i>> \notin Links(tb, S) /\ \A x \in Links(tb, S) : Target(tc, x) = Target(tb, x)
    <3>1. HangsBelow(tb, tc, t, i, f, S)
      BY <2>4, HangBelow, Zenon
    <3>2. QED
      BY <3>1 DEF HangsBelow
  <2>6. \A x \in Links(tb, S) : Target(tb, x) \in Below(tb, S)
    BY DEF Below
  <2>7. QED
    BY <1>4, <2>4, <2>5, <2>6 DEF S
<1>9. Target(tc, <<t, i>>) = f
  BY DEF Hangs, Target, make_table
<1>10. LinksApart(tc)
  <2> SUFFICES ASSUME NEW k \in 2..4, NEW m \in 2..4,
                      NEW x \in Links(tc, LV(tc)[k]), NEW y \in Links(tc, LV(tc)[m]),
                      Target(tc, x) = Target(tc, y)
               PROVE  x = y \/ Twins(x, y)
    BY DEF LinksApart
  <2>1. x = <<t, i>> \/ x \in Links(tb, LV(tb)[k])
    BY <1>2
  <2>2. y = <<t, i>> \/ y \in Links(tb, LV(tb)[m])
    BY <1>2
  <2>3. CASE x = <<t, i>> \/ y = <<t, i>>
    BY <1>8, <1>9, <2>1, <2>2, <2>3
  <2>4. CASE x \in Links(tb, LV(tb)[k]) /\ y \in Links(tb, LV(tb)[m])
    <3>1. Target(tb, x) = Target(tb, y)
      BY <1>8, <2>4
    <3>2. QED
      BY <2>4, <3>1 DEF Tree, LinksApart
  <2>5. QED
    BY <2>1, <2>2, <2>3, <2>4
<1>11. LeavesOk(tc)
  <2> SUFFICES ASSUME NEW k \in Levels, NEW s \in LV(tc)[k], NEW j \in Slots
               PROVE  LeafOk(tc[s][j], k)
    BY DEF LeavesOk
  <2>1. CASE s = f
    <3>1. tc[s][j] = Empty
      BY <2>1 DEF Hangs, clear
    <3>2. QED
      BY <3>1 DEF LeafOk, IsLeaf, Empty
  <2>2. CASE s = t /\ j = i
    <3>1. t \in LV(tb)[k]
      BY <1>1, <1>4, <2>2
    <3>2. k = l
      BY <1>3, <3>1 DEF Tree, LevelsApart
    <3>3. tc[s][j] = make_table(f, user) /\ k # 1
      BY <2>2, <3>2 DEF Hangs
    <3>4. QED
      BY <3>3 DEF LeafOk, IsLeaf, make_table
  <2>3. CASE s # f /\ (s # t \/ j # i)
    <3>1. s \in LV(tb)[k] /\ s \in DOMAIN tb
      BY <1>1, <1>5, <2>3
    <3>2. tc[s][j] = tb[s][j] /\ LeafOk(tb[s][j], k)
      BY <2>3, <3>1 DEF Hangs, Tree, LeavesOk
    <3>3. QED
      BY <3>2
  <2>4. QED
    BY <2>1, <2>2, <2>3
<1>12. BootLinks(tc)
  <2>1. \A x \in P3Places \cup P2Places : tc[x[1]][x[2]] = tb[x[1]][x[2]]
    <3> TAKE x \in P3Places \cup P2Places
    <3>1. x[1] \in DOMAIN tb /\ x[2] \in Slots /\ has_subtable(tb[x[1]][x[2]])
      BY BootPlaces DEF Tree
    <3>2. ~has_subtable(tb[t][i])
      BY DEF Hangs, has_subtable
    <3>3. x[1] # t \/ x[2] # i
      BY <3>1, <3>2
    <3>4. QED
      BY <3>1, <3>3 DEF Hangs
  <2>2. {P4, P3, P2} \subseteq DOMAIN tc
    BY <1>4 DEF Tree, BootLinks
  <2>3. \A x \in P3Places : tc[x[1]][x[2]] = make_table(P3, FALSE)
    BY <2>1, Zenon DEF Tree, BootLinks
  <2>4. \A x \in P2Places : tc[x[1]][x[2]] = make_table(P2, FALSE)
    BY <2>1, Zenon DEF Tree, BootLinks
  <2>5. QED
    BY <2>2, <2>3, <2>4 DEF BootLinks
<1>13. QED
  BY <1>4, <1>6, <1>7, <1>10, <1>11, <1>12 DEF Tree

-----------------------------------------------------------------------------
(* The walk for an address: the table it comes to at each level, the level *)
(* it ends at, and the mapping it finds there.                             *)

NoTable == Unmapped
Step(tb, t, i) ==
    IF t \in DOMAIN tb /\ has_subtable(tb[t][i]) THEN tb[t][i].p ELSE NoTable
Path(tb, v) ==
    LET t3 == Step(tb, P4, decompose(v, 4))
        t2 == Step(tb, t3, decompose(v, 3))
        t1 == Step(tb, t2, decompose(v, 2))
    IN  <<t1, t2, t3, P4>>
End(tb, v) ==
    CASE Path(tb, v)[3] \notin DOMAIN tb -> 4
      [] Path(tb, v)[3] \in DOMAIN tb /\ Path(tb, v)[2] \notin DOMAIN tb -> 3
      [] Path(tb, v)[3] \in DOMAIN tb /\ Path(tb, v)[2] \in DOMAIN tb
         /\ Path(tb, v)[1] \notin DOMAIN tb -> 2
      [] OTHER -> 1
EndEntry(tb, v) == tb[Path(tb, v)[End(tb, v)]][decompose(v, End(tb, v))]

NoLeaf == [v |-> 0, size |-> 0, p |-> 0]
LeafOf(e, v, l) ==
    IF e.present THEN [v |-> v - (v % Span[l]), size |-> l, p |-> e.p] ELSE NoLeaf
Leaf(tb, v) == LeafOf(EndEntry(tb, v), v, End(tb, v))

LEMMA PathSteps ==
    ASSUME NEW tb, NEW v
    PROVE  /\ Path(tb, v)[4] = P4
           /\ \A l \in 2..4 : Path(tb, v)[l - 1] = Step(tb, Path(tb, v)[l], decompose(v, l))
<1>1. /\ Path(tb, v)[4] = P4
      /\ Path(tb, v)[3] = Step(tb, Path(tb, v)[4], decompose(v, 4))
      /\ Path(tb, v)[2] = Step(tb, Path(tb, v)[3], decompose(v, 3))
      /\ Path(tb, v)[1] = Step(tb, Path(tb, v)[2], decompose(v, 2))
  BY DEF Path
<1>2. 2..4 = {2, 3, 4} /\ 4 - 1 = 3 /\ 3 - 1 = 2 /\ 2 - 1 = 1
  OBVIOUS
<1>3. \A l \in {2, 3, 4} : Path(tb, v)[l - 1] = Step(tb, Path(tb, v)[l], decompose(v, l))
  BY <1>1, <1>2
<1>4. QED
  BY <1>1, <1>2, <1>3

LEMMA NoTableFacts ==
    /\ PhysPages \subseteq Nat /\ NoTable \notin PhysPages /\ Unmapped \notin PhysPages
    /\ \A p \in PhysPages : p < Span[4] /\ p < Span[5] /\ p # Unmapped
    /\ Span[4] <= Span[5] /\ Span[4] \in Nat \ {0} /\ Span[5] \in Nat \ {0}
<1>1. Span[4] \in Nat \ {0} /\ Span[5] \in Nat \ {0} /\ Fan \in Nat \ {0} /\ Span[5] = Span[4] * Fan
  BY SpanFacts DEF Levels
<1>2. Span[4] <= Span[5]
  BY <1>1
<1>3. QED
  BY <1>1, <1>2 DEF PhysPages, NoTable, Unmapped

\* A walk is in a table of its level, or has ended above it.
LEMMA PathLevels ==
    ASSUME NEW tb, Tree(tb), NEW v \in VirtPages
    PROVE  /\ \A l \in Levels : Path(tb, v)[l] = NoTable \/ Path(tb, v)[l] \in LV(tb)[l]
           /\ NoTable \notin DOMAIN tb
           /\ \A l \in Levels : Path(tb, v)[l] \in DOMAIN tb => Path(tb, v)[l] \in LV(tb)[l]
<1>1. NoTable \notin DOMAIN tb
  BY NoTableFacts DEF Tree, TypedTables
<1>2. ASSUME NEW l \in 2..4, Path(tb, v)[l] = NoTable \/ Path(tb, v)[l] \in LV(tb)[l]
      PROVE  Path(tb, v)[l - 1] = NoTable \/ Path(tb, v)[l - 1] \in LV(tb)[l - 1]
  <2> DEFINE t == Path(tb, v)[l]
             i == decompose(v, l)
  <2>1. Path(tb, v)[l - 1] = Step(tb, t, i)
    BY PathSteps
  <2>2. LV(tb)[l - 1] = Below(tb, LV(tb)[l])
    BY LevelFacts
  <2>3. i \in Slots
    BY PrefixFacts DEF Levels
  <2> HIDE DEF t, i
  <2>4. CASE t \in DOMAIN tb /\ has_subtable(tb[t][i])
    <3>1. t \in LV(tb)[l]
      BY <1>1, <1>2, <2>4 DEF t
    <3>2. <<t, i>> \in Links(tb, LV(tb)[l]) /\ Target(tb, <<t, i>>) = tb[t][i].p
      BY <2>3, <2>4, <3>1 DEF Links, Target
    <3>3. tb[t][i].p \in Below(tb, LV(tb)[l])
      BY <3>2, Zenon DEF Below
    <3>4. QED
      BY <2>1, <2>2, <2>4, <3>3 DEF Step
  <2>5. CASE ~(t \in DOMAIN tb /\ has_subtable(tb[t][i]))
    BY <2>1, <2>5 DEF Step
  <2>6. QED
    BY <2>4, <2>5
<1> DEFINE Ok(l) == Path(tb, v)[l] = NoTable \/ Path(tb, v)[l] \in LV(tb)[l]
<1>3. Ok(4)
  BY PathSteps, LevelFacts
<1>4. \A l \in 2..4 : Ok(l) => Ok(l - 1)
  BY <1>2
<1> HIDE DEF Ok
<1>5. Ok(3) /\ Ok(2) /\ Ok(1)
  BY <1>3, <1>4
<1>6. \A l \in Levels : Ok(l)
  BY <1>3, <1>5, LevelFacts
<1>7. QED
  BY <1>1, <1>6 DEF Ok

\* Where a walk ends, and that it passes links until there.
LEMMA EndFacts ==
    ASSUME NEW tb, Tree(tb), NEW v \in VirtPages
    PROVE  /\ End(tb, v) \in Levels
           /\ Path(tb, v)[End(tb, v)] \in LV(tb)[End(tb, v)]
           /\ Path(tb, v)[End(tb, v)] \in DOMAIN tb
           /\ decompose(v, End(tb, v)) \in Slots
           /\ EndEntry(tb, v) \in Entries
           /\ End(tb, v) # 1 => ~has_subtable(EndEntry(tb, v))
           /\ \A k \in Levels : k > End(tb, v) =>
                 /\ Path(tb, v)[k] \in DOMAIN tb
                 /\ has_subtable(tb[Path(tb, v)[k]][decompose(v, k)])
                 /\ Path(tb, v)[k - 1] = tb[Path(tb, v)[k]][decompose(v, k)].p
           /\ \A k \in Levels : k < End(tb, v) => Path(tb, v)[k] = NoTable
<1> DEFINE Pt == Path(tb, v)
           In(k) == Pt[k] \in DOMAIN tb
           Sub(k) == has_subtable(tb[Pt[k]][decompose(v, k)])
<1>1. Pt[4] = P4 /\ In(4)
  BY PathSteps DEF Tree, BootLinks
<1>2. \A k \in Levels : In(k) \/ Pt[k] = NoTable
  BY PathLevels DEF Tree, LevelsCover
<1>3. NoTable \notin DOMAIN tb
  BY PathLevels
<1>4. \A k \in 2..4 : Pt[k - 1] = IF In(k) /\ Sub(k) THEN tb[Pt[k]][decompose(v, k)].p ELSE NoTable
  BY PathSteps DEF Step
<1>5. \A k \in 2..4 : In(k) /\ Sub(k) => In(k - 1)
  <2> TAKE k \in 2..4
  <2> HAVE In(k) /\ Sub(k)
  <2>1. k \in Levels /\ k - 1 \in Levels /\ decompose(v, k) \in Slots
    BY PrefixFacts DEF Levels
  <2>2. Pt[k] \in LV(tb)[k]
    BY <2>1, PathLevels
  <2> DEFINE x == <<Pt[k], decompose(v, k)>>
  <2>3. x \in Links(tb, LV(tb)[k]) /\ Target(tb, x) = tb[Pt[k]][decompose(v, k)].p
    BY <2>1, <2>2 DEF Links, Target
  <2> HIDE DEF x
  <2>4. Target(tb, x) \in Below(tb, LV(tb)[k])
    BY <2>3, Zenon DEF Below
  <2>5. LV(tb)[k - 1] = Below(tb, LV(tb)[k])
    BY LevelFacts
  <2>6. Target(tb, x) \in DOMAIN tb
    BY <2>1, <2>4, <2>5 DEF Tree, LevelsCover
  <2>7. QED
    BY <1>4, <2>3, <2>6
<1>6. \A k \in 2..4 : In(k - 1) <=> In(k) /\ Sub(k)
  BY <1>3, <1>4, <1>5
<1>7. End(tb, v) = CASE ~In(3) -> 4 [] In(3) /\ ~In(2) -> 3
                     [] In(3) /\ In(2) /\ ~In(1) -> 2 [] OTHER -> 1
  BY DEF End
<1> DEFINE n == End(tb, v)
<1>8. EndEntry(tb, v) = tb[Pt[n]][decompose(v, n)]
  BY DEF EndEntry
<1> HIDE DEF Pt, In, Sub, n
<1>9. (In(1) => In(2)) /\ (In(2) => In(3))
  <2>1. 2 \in 2..4 /\ 3 \in 2..4 /\ 2 - 1 = 1 /\ 3 - 1 = 2
    OBVIOUS
  <2>2. QED
    BY <1>6, <2>1
<1>10. /\ n \in Levels /\ In(n) /\ (n # 1 => ~Sub(n))
       /\ \A k \in Levels : k > n => In(k) /\ Sub(k)
       /\ \A k \in Levels : k < n => ~In(k)
  <2>0. (In(3) <=> In(4) /\ Sub(4)) /\ (In(2) <=> In(3) /\ Sub(3)) /\ (In(1) <=> In(2) /\ Sub(2))
    <3>1. 2 \in 2..4 /\ 3 \in 2..4 /\ 4 \in 2..4 /\ 2 - 1 = 1 /\ 3 - 1 = 2 /\ 4 - 1 = 3
      OBVIOUS
    <3>2. QED
      BY <1>6, <3>1
  <2>1. Levels = {1, 2, 3, 4}
    BY DEF Levels
  <2>2. CASE ~In(3)
    <3>1. n = 4
      BY <1>7, <2>2 DEF n
    <3>2. QED
      BY <1>1, <1>9, <2>0, <2>1, <2>2, <3>1
  <2>3. CASE In(3) /\ ~In(2)
    <3>1. n = 3
      BY <1>7, <2>3 DEF n
    <3>2. QED
      BY <1>1, <1>9, <2>0, <2>1, <2>3, <3>1
  <2>4. CASE In(3) /\ In(2) /\ ~In(1)
    <3>1. n = 2
      BY <1>7, <2>4 DEF n
    <3>2. QED
      BY <1>1, <1>9, <2>0, <2>1, <2>4, <3>1
  <2>5. CASE In(3) /\ In(2) /\ In(1)
    <3>1. n = 1
      BY <1>7, <2>5 DEF n
    <3>2. QED
      BY <1>1, <1>9, <2>0, <2>1, <2>5, <3>1
  <2>6. QED
    BY <2>2, <2>3, <2>4, <2>5
<1>11. \A k \in Levels : k > n => Pt[k - 1] = tb[Pt[k]][decompose(v, k)].p
  BY <1>4, <1>10 DEF Levels
<1>12. decompose(v, n) \in Slots
  BY <1>10, PrefixFacts
<1>13. Pt[n] \in DOMAIN tb /\ tb[Pt[n]] \in [Slots -> Entries]
  BY <1>10 DEF Tree, TypedTables, In
<1>14. Pt[n] \in LV(tb)[n]
  BY <1>10, PathLevels DEF In, Pt
<1>15. QED
  BY <1>2, <1>8, <1>10, <1>11, <1>12, <1>13, <1>14 DEF n, Pt, In, Sub

\* The walk of Paging ends there.
LEMMA WalkIs ==
    ASSUME Tree(table), NEW v \in VirtPages
    PROVE  walk(v) = [level |-> End(table, v), e |-> EndEntry(table, v)]
<1> DEFINE n == End(table, v)
           Pt == Path(table, v)
           Ent(k) == table[Pt[k]][decompose(v, k)]
<1>1. /\ n \in Levels /\ EndEntry(table, v) = Ent(n)
      /\ n # 1 => ~has_subtable(Ent(n))
      /\ \A k \in Levels : k > n => has_subtable(Ent(k)) /\ Pt[k - 1] = Ent(k).p
  BY EndFacts DEF EndEntry
<1>2. Pt[4] = P4
  BY PathSteps
<1>3. walk(v) = IF has_subtable(Ent(4)) THEN walk_pdpt(v, Ent(4).p)
                ELSE [level |-> 4, e |-> Ent(4)]
  BY <1>2 DEF walk
<1>4. walk_pdpt(v, Pt[3]) = IF has_subtable(Ent(3)) THEN walk_pd(v, Ent(3).p)
                            ELSE [level |-> 3, e |-> Ent(3)]
  BY DEF walk_pdpt
<1>5. walk_pd(v, Pt[2]) = IF has_subtable(Ent(2)) THEN walk_pt(v, Ent(2).p)
                          ELSE [level |-> 2, e |-> Ent(2)]
  BY DEF walk_pd
<1>6. walk_pt(v, Pt[1]) = [level |-> 1, e |-> Ent(1)]
  BY DEF walk_pt
<1>7. 4 \in Levels /\ 3 \in Levels /\ 2 \in Levels /\ 4 - 1 = 3 /\ 3 - 1 = 2 /\ 2 - 1 = 1
  BY DEF Levels
<1> HIDE DEF n, Pt, Ent
<1>8. n \in {1, 2, 3, 4}
  BY <1>1 DEF Levels
<1>9. CASE n = 4
  BY <1>1, <1>3, <1>9 DEF n
<1>10. CASE n = 3
  <2>1. has_subtable(Ent(4)) /\ Pt[3] = Ent(4).p
    BY <1>1, <1>7, <1>10
  <2>2. QED
    BY <1>1, <1>3, <1>4, <1>10, <2>1 DEF n
<1>11. CASE n = 2
  <2>1. /\ has_subtable(Ent(4)) /\ Pt[3] = Ent(4).p
        /\ has_subtable(Ent(3)) /\ Pt[2] = Ent(3).p
    BY <1>1, <1>7, <1>11
  <2>2. QED
    BY <1>1, <1>3, <1>4, <1>5, <1>11, <2>1 DEF n
<1>12. CASE n = 1
  <2>1. /\ has_subtable(Ent(4)) /\ Pt[3] = Ent(4).p
        /\ has_subtable(Ent(3)) /\ Pt[2] = Ent(3).p
        /\ has_subtable(Ent(2)) /\ Pt[1] = Ent(2).p
    BY <1>1, <1>7, <1>12
  <2>2. QED
    BY <1>1, <1>3, <1>4, <1>5, <1>6, <1>12, <2>1 DEF n
<1>13. QED
  BY <1>8, <1>9, <1>10, <1>11, <1>12

\* What a leaf holds: it is of level 1, 2 or 3, and page and address are aligned.
LEMMA LeafFacts ==
    ASSUME NEW tb, Tree(tb), NEW v \in VirtPages, EndEntry(tb, v).present
    PROVE  /\ End(tb, v) \in 1..3
           /\ Leaf(tb, v) = [v |-> v - (v % Span[End(tb, v)]), size |-> End(tb, v),
                             p |-> EndEntry(tb, v).p]
           /\ EndEntry(tb, v).p \in PhysPages
           /\ EndEntry(tb, v).p % Span[End(tb, v)] = 0
<1> DEFINE n == End(tb, v)
           e == EndEntry(tb, v)
<1>1. n \in Levels /\ e \in Entries /\ (n # 1 => ~has_subtable(e))
  BY EndFacts
<1>2. LeafOk(e, n)
  BY EndFacts DEF Tree, LeavesOk, EndEntry
<1> HIDE DEF n, e
<1>3. e.present
  BY DEF e
<1>4. n # 1 => e.huge
  BY <1>1, <1>3 DEF has_subtable
<1>5. n \in 1..3 /\ e.p % Span[n] = 0
  BY <1>1, <1>2, <1>3, <1>4 DEF LeafOk, IsLeaf, Levels
<1>6. e.p \in PhysPages
  BY <1>1 DEF Entries
<1>7. Leaf(tb, v) = [v |-> v - (v % Span[n]), size |-> n, p |-> e.p]
  BY <1>3 DEF Leaf, LeafOf, n, e
<1>8. QED
  BY <1>5, <1>6, <1>7 DEF n, e

LEMMA NoLeafFacts ==
    ASSUME NEW tb, NEW v, ~EndEntry(tb, v).present
    PROVE  Leaf(tb, v) = NoLeaf /\ Leaf(tb, v).size = 0
BY DEF Leaf, LeafOf, NoLeaf

\* A page of a mapping is a physical page.
LEMMA OffsetType ==
    ASSUME NEW p \in PhysPages, NEW l \in 1..3, p % Span[l] = 0, NEW o \in 0..(Span[l] - 1)
    PROVE  p + o \in PhysPages
<1>1. Span[l] \in Nat \ {0} /\ Span[4] \in Nat \ {0}
  BY SpanFacts
<1>2. \E m \in Nat : Span[4] = m * Span[l]
  <2>1. /\ Span[2] = Span[1] * Fan /\ Span[3] = Span[2] * Fan /\ Span[4] = Span[3] * Fan
        /\ Span[1] \in Nat /\ Span[2] \in Nat /\ Span[3] \in Nat /\ Fan \in Nat
    BY SpanFacts DEF Levels
  <2>2. CASE l = 3
    BY <2>1, <2>2
  <2>3. CASE l = 2
    <3>1. Span[4] = (Fan * Fan) * Span[2] /\ Fan * Fan \in Nat
      BY <2>1
    <3>2. QED
      BY <2>3, <3>1
  <2>4. CASE l = 1
    <3>1. Span[4] = (Fan * Fan * Fan) * Span[1] /\ Fan * Fan * Fan \in Nat
      BY <2>1
    <3>2. QED
      BY <2>4, <3>1
  <2>5. QED
    BY <2>2, <2>3, <2>4
<1>3. PICK m \in Nat : Span[4] = m * Span[l]
  BY <1>2
<1>4. p \in Nat /\ p < Span[4]
  BY NoTableFacts
<1> DEFINE k == p \div Span[l]
<1>5. k \in Nat /\ p = k * Span[l]
  BY <1>1, <1>4, MultipleOf
<1> HIDE DEF k
<1>6. k < m
  BY <1>1, <1>3, <1>4, <1>5, Factors
<1>8. k * Span[l] + Span[l] <= m * Span[l]
  BY <1>1, <1>5, <1>6, NextMultiple
<1>9. p + o < Span[4] /\ p + o \in Nat
  <2>1. o \in Nat /\ o < Span[l]
    BY <1>1
  <2>2. p + Span[l] <= Span[4]
    BY <1>3, <1>5, <1>8
  <2>3. QED
    BY <1>1, <1>4, <2>1, <2>2
<1>10. QED
  BY <1>1, <1>9 DEF PhysPages

LEMMA TranslateIs ==
    ASSUME Tree(table), NEW v \in VirtPages
    PROVE  /\ Leaf(table, v).size = 0 => translate(v) = Unmapped
           /\ Leaf(table, v).size # 0 =>
                 /\ Leaf(table, v).size \in 1..3
                 /\ translate(v) = Leaf(table, v).p + (v % Span[Leaf(table, v).size])
                 /\ translate(v) \in PhysPages /\ translate(v) # Unmapped
                 /\ Caches(v) = Leaf(table, v)
<1> DEFINE n == End(table, v)
           e == EndEntry(table, v)
           f == Leaf(table, v)
<1>1. walk(v) = [level |-> n, e |-> e]
  BY WalkIs
<1>2. CASE ~e.present
  BY <1>1, <1>2, NoLeafFacts DEF translate
<1>3. CASE e.present
  <2>1. /\ n \in 1..3 /\ f = [v |-> v - (v % Span[n]), size |-> n, p |-> e.p]
        /\ e.p \in PhysPages /\ e.p % Span[n] = 0
    BY <1>3, LeafFacts
  <2>2. translate(v) = e.p + (v % Span[n])
    BY <1>1, <1>3 DEF translate
  <2>3. v % Span[n] \in 0..(Span[n] - 1)
    <3>1. v \in Nat /\ Span[n] \in Nat \ {0}
      BY <2>1, PrefixFacts, SpanFacts
    <3>2. QED
      BY <3>1, DivMod
  <2>4. translate(v) \in PhysPages
    BY <2>1, <2>2, <2>3, OffsetType
  <2>5. Caches(v) = f
    BY <1>1, <2>1 DEF Caches
  <2>6. QED
    BY <2>1, <2>2, <2>4, <2>5, NoTableFacts
<1>4. QED
  BY <1>2, <1>3

LEMMA EndUnique ==
    ASSUME NEW tb, Tree(tb), NEW v \in VirtPages, NEW l \in Levels,
           Path(tb, v)[l] \in DOMAIN tb,
           l # 1 => ~has_subtable(tb[Path(tb, v)[l]][decompose(v, l)])
    PROVE  End(tb, v) = l
<1>1. End(tb, v) \in Levels /\ NoTable \notin DOMAIN tb
  BY EndFacts, PathLevels
<1>2. ~(l < End(tb, v))
  BY <1>1, EndFacts
<1>3. ~(l > End(tb, v))
  <2> SUFFICES ASSUME l > End(tb, v) PROVE FALSE
    OBVIOUS
  <2>1. has_subtable(tb[Path(tb, v)[l]][decompose(v, l)])
    BY EndFacts
  <2>2. l # 1
    BY <1>1 DEF Levels
  <2>3. QED
    BY <2>1, <2>2
<1>4. QED
  BY <1>1, <1>2, <1>3 DEF Levels

\* The walk for v ends at entry i of table t.
EndsIn(tb, v, t, i) == Path(tb, v)[End(tb, v)] = t /\ decompose(v, End(tb, v)) = i

\* Writing an entry that is no link, before or after, moves no walk.
Unmoved(tb, tc, t, i, v) ==
    /\ Path(tc, v) = Path(tb, v) /\ End(tc, v) = End(tb, v)
    /\ EndsIn(tb, v, t, i) => EndEntry(tc, v) = tc[t][i] /\ EndEntry(tb, v) = tb[t][i]
    /\ ~EndsIn(tb, v, t, i) => EndEntry(tc, v) = EndEntry(tb, v)

LEMMA PutPath ==
    ASSUME NEW tb, NEW tc, NEW l \in Levels, NEW t \in LV(tb)[l], NEW i \in Slots,
           Tree(tb), Rewrites(tb, tc, t, i), l = 1 \/ NoLink(tb, tc, t, i),
           NEW v \in VirtPages
    PROVE  Unmoved(tb, tc, t, i, v)
<1>1. DOMAIN tc = DOMAIN tb
  BY DEF Rewrites
<1>2. ASSUME NEW k \in 2..4, Path(tc, v)[k] = Path(tb, v)[k]
      PROVE  Path(tc, v)[k - 1] = Path(tb, v)[k - 1]
  <2> DEFINE s == Path(tb, v)[k]
             j == decompose(v, k)
  <2>1. Path(tc, v)[k - 1] = Step(tc, s, j) /\ Path(tb, v)[k - 1] = Step(tb, s, j)
    BY <1>2, PathSteps
  <2>2. s \in DOMAIN tb => s \in LV(tb)[k]
    BY PathLevels DEF Levels
  <2>3. j \in Slots /\ k \in Levels /\ k # 1
    BY PrefixFacts DEF Levels
  <2> HIDE DEF s, j
  <2>4. CASE s \in DOMAIN tb /\ s = t /\ j = i
    <3>1. k = l
      BY <2>2, <2>3, <2>4 DEF Tree, LevelsApart
    <3>2. QED
      BY <1>1, <2>1, <2>3, <2>4, <3>1 DEF Step, NoLink
  <2>5. CASE s \in DOMAIN tb /\ (s # t \/ j # i)
    <3>1. tc[s][j] = tb[s][j]
      BY <2>3, <2>5 DEF Rewrites
    <3>2. QED
      BY <1>1, <2>1, <3>1 DEF Step
  <2>6. CASE s \notin DOMAIN tb
    BY <1>1, <2>1, <2>6 DEF Step
  <2>7. QED
    BY <2>4, <2>5, <2>6
<1>3. Path(tc, v) = Path(tb, v)
  <2> DEFINE Same(k) == Path(tc, v)[k] = Path(tb, v)[k]
  <2>1. Same(4)
    BY PathSteps
  <2>2. \A k \in 2..4 : Same(k) => Same(k - 1)
    BY <1>2
  <2> HIDE DEF Same
  <2>3. Same(3) /\ Same(2) /\ Same(1)
    BY <2>1, <2>2
  <2>4. Path(tc, v) = <<Path(tc, v)[1], Path(tc, v)[2], Path(tc, v)[3], Path(tc, v)[4]>>
    BY DEF Path
  <2>5. Path(tb, v) = <<Path(tb, v)[1], Path(tb, v)[2], Path(tb, v)[3], Path(tb, v)[4]>>
    BY DEF Path
  <2>6. QED
    BY <2>1, <2>3, <2>4, <2>5 DEF Same
<1>4. End(tc, v) = End(tb, v)
  BY <1>1, <1>3 DEF End
<1>5. EndsIn(tb, v, t, i) => EndEntry(tc, v) = tc[t][i] /\ EndEntry(tb, v) = tb[t][i]
  BY <1>3, <1>4 DEF EndsIn, EndEntry
<1>6. ASSUME ~EndsIn(tb, v, t, i) PROVE EndEntry(tc, v) = EndEntry(tb, v)
  <2> DEFINE s == Path(tb, v)[End(tb, v)]
             j == decompose(v, End(tb, v))
  <2>1. s \in DOMAIN tb /\ j \in Slots
    BY EndFacts
  <2>2. s # t \/ j # i
    BY <1>6 DEF EndsIn
  <2>3. EndEntry(tc, v) = tc[s][j] /\ EndEntry(tb, v) = tb[s][j]
    BY <1>3, <1>4 DEF EndEntry
  <2> HIDE DEF s, j
  <2>4. QED
    BY <2>1, <2>2, <2>3 DEF Rewrites
<1>7. QED
  BY <1>3, <1>4, <1>5, <1>6 DEF Unmoved

PutsLeaf(tb, tc, l, t, i, v) ==
    /\ EndsIn(tb, v, t, i) =>
          /\ End(tb, v) = l
          /\ Leaf(tc, v) = LeafOf(tc[t][i], v, l)
          /\ Leaf(tb, v) = LeafOf(tb[t][i], v, l)
    /\ ~EndsIn(tb, v, t, i) => Leaf(tc, v) = Leaf(tb, v)

LEMMA PutLeaf ==
    ASSUME NEW tb, NEW tc, NEW l \in Levels, NEW t \in LV(tb)[l], NEW i \in Slots,
           Tree(tb), Rewrites(tb, tc, t, i), l = 1 \/ NoLink(tb, tc, t, i),
           NEW v \in VirtPages
    PROVE  PutsLeaf(tb, tc, l, t, i, v)
<1>1. /\ End(tc, v) = End(tb, v)
      /\ EndsIn(tb, v, t, i) => EndEntry(tc, v) = tc[t][i] /\ EndEntry(tb, v) = tb[t][i]
      /\ ~EndsIn(tb, v, t, i) => EndEntry(tc, v) = EndEntry(tb, v)
  <2>1. Unmoved(tb, tc, t, i, v)
    BY PutPath, Zenon
  <2>2. QED
    BY <2>1 DEF Unmoved
<1>2. EndsIn(tb, v, t, i) => End(tb, v) = l
  <2>1. End(tb, v) \in Levels /\ Path(tb, v)[End(tb, v)] \in LV(tb)[End(tb, v)]
    BY EndFacts
  <2>2. QED
    BY <2>1 DEF EndsIn, Tree, LevelsApart
<1>3. QED
  BY <1>1, <1>2 DEF Leaf, PutsLeaf

\* Hanging an empty table in a place that was not present maps nothing.
HangsLeaf(tb, tc, l, t, i, f, v) ==
    /\ Leaf(tc, v) = Leaf(tb, v)
    /\ \A k \in Levels : k >= l => Path(tc, v)[k] = Path(tb, v)[k]
    /\ Path(tb, v)[l] = t /\ decompose(v, l) = i => Path(tc, v)[l - 1] = f

LEMMA HangLeaf ==
    ASSUME NEW tb, NEW tc, NEW l \in 2..4, NEW t \in LV(tb)[l], NEW i \in Slots,
           NEW f, NEW user, Tree(tb), Hangs(tb, tc, t, i, f, user), NEW v \in VirtPages
    PROVE  HangsLeaf(tb, tc, l, t, i, f, v)
<1>1. Tree(tc)
  BY HangTree, Zenon
<1>2. /\ DOMAIN tc = DOMAIN tb \cup {f} /\ f \notin DOMAIN tb
      /\ NoTable \notin DOMAIN tb /\ NoTable \notin DOMAIN tc
  BY <1>1, PathLevels DEF Hangs
<1>3. l \in Levels /\ l - 1 \in Levels /\ t \in DOMAIN tb
  BY DEF Levels, Tree, LevelsCover
<1> DEFINE Same(k) == Path(tc, v)[k] = Path(tb, v)[k]
           Hits(k) == Path(tb, v)[k] = t /\ decompose(v, k) = i
<1>4. ASSUME NEW k \in 2..4, Same(k), ~Hits(k) PROVE Same(k - 1)
  <2> DEFINE s == Path(tb, v)[k]
             j == decompose(v, k)
  <2>1. Path(tc, v)[k - 1] = Step(tc, s, j) /\ Path(tb, v)[k - 1] = Step(tb, s, j)
    BY <1>4, PathSteps
  <2>2. j \in Slots /\ (s = NoTable \/ s \in DOMAIN tb)
    BY PrefixFacts, PathLevels DEF Levels, Tree, LevelsCover
  <2>3. s # t \/ j # i
    BY <1>4
  <2> HIDE DEF s, j
  <2>4. CASE s \in DOMAIN tb
    <3>1. tc[s][j] = tb[s][j]
      BY <2>2, <2>3, <2>4 DEF Hangs
    <3>2. QED
      BY <1>2, <2>1, <2>4, <3>1 DEF Step
  <2>5. CASE s = NoTable
    BY <1>2, <2>1, <2>5 DEF Step
  <2>6. QED
    BY <2>2, <2>4, <2>5
<1>5. \A k \in Levels : Hits(k) => k = l
  BY <1>3, PathLevels DEF Tree, LevelsApart
<1>6. Same(4)
  BY PathSteps
<1>7. Path(tb, v)[l] = t /\ decompose(v, l) = i => (Same(l) => Path(tc, v)[l - 1] = f)
  <2> SUFFICES ASSUME Path(tb, v)[l] = t, decompose(v, l) = i, Same(l)
               PROVE  Path(tc, v)[l - 1] = f
    OBVIOUS
  <2>1. Path(tc, v)[l - 1] = Step(tc, t, i)
    BY PathSteps
  <2>2. tc[t][i] = make_table(f, user) /\ t \in DOMAIN tc
    BY <1>2, <1>3 DEF Hangs
  <2>3. QED
    BY <2>1, <2>2 DEF Step, make_table, has_subtable
<1>8. \A k \in 2..4 : (Same(k) /\ ~Hits(k) => Same(k - 1)) /\ (Hits(k) => k = l)
  BY <1>4, <1>5 DEF Levels
<1>9. (Hits(l) <=> Path(tb, v)[l] = t /\ decompose(v, l) = i)
  OBVIOUS
<1> HIDE DEF Same, Hits
<1>10. \A k \in Levels : k >= l => Same(k)
  <2>1. Levels = {1, 2, 3, 4} /\ l \in {2, 3, 4}
    BY DEF Levels
  <2>2. CASE l = 4
    BY <1>6, <2>1, <2>2
  <2>3. CASE l = 3
    <3>1. Same(3)
      BY <1>6, <1>8, <2>3
    <3>2. QED
      BY <1>6, <2>1, <2>3, <3>1
  <2>4. CASE l = 2
    <3>1. Same(3)
      BY <1>6, <1>8, <2>4
    <3>2. Same(2)
      BY <1>8, <2>4, <3>1
    <3>3. QED
      BY <1>6, <2>1, <2>4, <3>1, <3>2
  <2>5. QED
    BY <2>1, <2>2, <2>3, <2>4
<1>11. Same(l)
  BY <1>3, <1>10 DEF Levels
<1>12. CASE Hits(l)
  <2>1. End(tb, v) = l
    <3>1. Path(tb, v)[l] = t /\ decompose(v, l) = i
      BY <1>9, <1>12
    <3>2. ~has_subtable(tb[t][i])
      BY DEF Hangs, has_subtable
    <3>3. QED
      BY <1>3, <3>1, <3>2, EndUnique
  <2>2. Leaf(tb, v) = NoLeaf
    <3>1. EndEntry(tb, v) = tb[t][i] /\ ~tb[t][i].present
      BY <1>9, <1>12, <2>1 DEF EndEntry, Hangs
    <3>2. QED
      BY <3>1, NoLeafFacts
  <2>3. Path(tc, v)[l - 1] = f /\ f \in DOMAIN tc
    BY <1>2, <1>7, <1>9, <1>11, <1>12
  <2>4. tc[f][decompose(v, l - 1)] = Empty
    BY <1>3, PrefixFacts DEF Hangs, clear
  <2>5. End(tc, v) = l - 1
    BY <1>1, <1>3, <2>3, <2>4, EndUnique DEF Empty, has_subtable
  <2>6. EndEntry(tc, v) = Empty
    BY <2>3, <2>4, <2>5 DEF EndEntry
  <2>7. Leaf(tc, v) = NoLeaf
    BY <2>6, NoLeafFacts DEF Empty
  <2>8. QED
    BY <1>7, <1>10, <1>11, <2>2, <2>7 DEF Same, HangsLeaf
<1>13. CASE ~Hits(l)
  <2>1. \A k \in 2..4 : ~Hits(k)
    BY <1>8, <1>13
  <2>2. Same(3) /\ Same(2) /\ Same(1)
    <3>1. Same(3)
      BY <1>6, <1>8, <2>1
    <3>2. Same(2)
      BY <1>8, <2>1, <3>1
    <3>3. QED
      BY <1>8, <2>1, <3>1, <3>2
  <2>3. \A k \in Levels : Same(k)
    BY <1>6, <2>2, LevelFacts
  <2>4. \A k \in Levels : Path(tb, v)[k] = NoTable \/ Path(tb, v)[k] \in DOMAIN tb
    BY PathLevels DEF Tree, LevelsCover
  <2>5. \A k \in Levels : Path(tc, v)[k] \in DOMAIN tc <=> Path(tb, v)[k] \in DOMAIN tb
    BY <1>2, <2>3, <2>4 DEF Same
  <2>6. End(tc, v) = End(tb, v)
    BY <2>5, LevelFacts DEF End
  <2>7. EndEntry(tc, v) = EndEntry(tb, v)
    <3> DEFINE n == End(tb, v)
               s == Path(tb, v)[n]
               j == decompose(v, n)
    <3>1. n \in Levels /\ s \in DOMAIN tb /\ j \in Slots
      BY EndFacts
    <3>2. s # t \/ j # i
      BY <1>5, <1>9, <1>13, <3>1 DEF Hits
    <3>3. EndEntry(tc, v) = tc[s][j] /\ EndEntry(tb, v) = tb[s][j]
      BY <2>3, <2>6, <3>1 DEF EndEntry, Same
    <3> HIDE DEF n, s, j
    <3>4. QED
      BY <3>1, <3>2, <3>3 DEF Hangs
  <2>8. Leaf(tc, v) = Leaf(tb, v)
    BY <2>6, <2>7 DEF Leaf
  <2>9. QED
    BY <1>7, <1>10, <1>11, <2>8 DEF Same, HangsLeaf
<1>14. QED
  BY <1>12, <1>13

-----------------------------------------------------------------------------
(* Which addresses share a table: those with the same prefix, and the      *)
(* copies that boot.asm makes of p3_table and p2_table.                    *)

\* Not one of the addresses at KernelSlot, which repeat those at HhdmSlot.
Canon(v) == decompose(v, 4) # KernelSlot

\* One of the addresses below p2_table.
Boot(v) == decompose(v, 4) \in {HhdmSlot, KernelSlot} /\ decompose(v, 3) \in {0, KernelPdpt}

\* p2_table is as boot.asm filled it.
KernelKept(tb) == tb[P2] = [i \in Slots |-> make_leaf(i * Span[2], FALSE, 2)]

LEMMA PathSame ==
    ASSUME NEW tb, NEW v \in VirtPages, NEW w \in VirtPages, NEW l \in Levels,
           Prefix(v, l) = Prefix(w, l)
    PROVE  \A k \in Levels : k >= l => Path(tb, v)[k] = Path(tb, w)[k]
<1> DEFINE Same(k) == Path(tb, v)[k] = Path(tb, w)[k]
<1>1. Same(4)
  BY PathSteps
<1>2. \A k \in 2..4 : Same(k) /\ k >= l => Same(k - 1)
  <2> TAKE k \in 2..4
  <2> HAVE Same(k) /\ k >= l
  <2>1. decompose(v, k) = decompose(w, k)
    BY PrefixUp DEF Levels
  <2>2. QED
    BY <2>1, PathSteps
<1> HIDE DEF Same
<1>3. Levels = {1, 2, 3, 4}
  BY DEF Levels
<1>4. 3 >= l => Same(3)
  BY <1>1, <1>2, <1>3
<1>5. 2 >= l => Same(2)
  BY <1>2, <1>3, <1>4
<1>6. 1 >= l => Same(1)
  BY <1>2, <1>3, <1>5
<1>7. \A k \in Levels : k >= l => Same(k)
  BY <1>1, <1>3, <1>4, <1>5, <1>6
<1>8. QED
  BY <1>7 DEF Same

\* A walk that is at a table has passed a link to it.
LEMMA PathLink ==
    ASSUME NEW tb, Tree(tb), NEW v \in VirtPages, NEW l \in 2..4,
           Path(tb, v)[l - 1] \in DOMAIN tb
    PROVE  /\ Path(tb, v)[l] \in DOMAIN tb
           /\ <<Path(tb, v)[l], decompose(v, l)>> \in Links(tb, LV(tb)[l])
           /\ Target(tb, <<Path(tb, v)[l], decompose(v, l)>>) = Path(tb, v)[l - 1]
<1> DEFINE s == Path(tb, v)[l]
           j == decompose(v, l)
<1>1. Path(tb, v)[l - 1] = Step(tb, s, j)
  BY PathSteps
<1>2. s \in DOMAIN tb /\ has_subtable(tb[s][j]) /\ Path(tb, v)[l - 1] = tb[s][j].p
  BY <1>1, PathLevels DEF Step
<1>3. s \in LV(tb)[l] /\ j \in Slots
  BY <1>2, PathLevels, PrefixFacts DEF Levels
<1> HIDE DEF s, j
<1>4. <<s, j>> \in Links(tb, LV(tb)[l]) /\ Target(tb, <<s, j>>) = tb[s][j].p
  BY <1>2, <1>3 DEF Links, Target
<1>5. QED
  BY <1>2, <1>4 DEF s, j

LEMMA BootLinksIn ==
    ASSUME NEW tb, Tree(tb)
    PROVE  /\ \A x \in P3Places : x \in Links(tb, LV(tb)[4]) /\ Target(tb, x) = P3
           /\ \A x \in P2Places : x \in Links(tb, LV(tb)[3]) /\ Target(tb, x) = P2
<1>1. BootLinks(tb) /\ P4 \in LV(tb)[4] /\ P3 \in LV(tb)[3]
  BY BootLevels DEF Tree
<1>2. ASSUME NEW x \in P3Places PROVE x \in Links(tb, LV(tb)[4]) /\ Target(tb, x) = P3
  <2>1. x[1] = P4 /\ x[2] \in Slots /\ x = <<x[1], x[2]>> /\ has_subtable(tb[x[1]][x[2]]) /\ Target(tb, x) = P3
    BY <1>1, BootPlaces
  <2>2. x \in LV(tb)[4] \X Slots
    BY <1>1, <2>1
  <2>3. QED
    BY <2>1, <2>2 DEF Links
<1>3. ASSUME NEW x \in P2Places PROVE x \in Links(tb, LV(tb)[3]) /\ Target(tb, x) = P2
  <2>1. x[1] = P3 /\ x[2] \in Slots /\ x = <<x[1], x[2]>> /\ has_subtable(tb[x[1]][x[2]]) /\ Target(tb, x) = P2
    BY <1>1, BootPlaces
  <2>2. x \in LV(tb)[3] \X Slots
    BY <1>1, <2>1
  <2>3. QED
    BY <2>1, <2>2 DEF Links
<1>4. QED
  BY <1>2, <1>3

\* Links to the same table are one link, or the two of boot.asm.
LEMMA SameTarget ==
    ASSUME NEW tb, Tree(tb), NEW l \in 2..4, NEW k \in 2..4,
           NEW x \in Links(tb, LV(tb)[l]), NEW y \in Links(tb, LV(tb)[k]),
           Target(tb, x) = Target(tb, y)
    PROVE  /\ x = y \/ ({x, y} \subseteq P3Places) \/ ({x, y} \subseteq P2Places)
           /\ y \in P3Places => x \in P3Places
           /\ y \in P2Places => x \in P2Places
<1>1. x = y \/ ({x, y} \subseteq P3Places) \/ ({x, y} \subseteq P2Places)
  BY DEF Tree, LinksApart, Twins
<1>2. \A z \in P3Places : z[1] = P4
  BY DEF P3Places
<1>3. \A z \in P2Places : z[1] = P3
  BY DEF P2Places
<1>4. P4 # P3
  BY PagingAssumption
<1>5. QED
  BY <1>1, <1>2, <1>3, <1>4

LEMMA PathP3 ==
    ASSUME NEW tb, Tree(tb), NEW v \in VirtPages, Path(tb, v)[3] = P3
    PROVE  decompose(v, 4) \in {HhdmSlot, KernelSlot}
<1> DEFINE x == <<Path(tb, v)[4], decompose(v, 4)>>
           y == <<P4, HhdmSlot>>
<1>1. 4 \in 2..4 /\ 4 - 1 = 3 /\ P3 \in DOMAIN tb
  BY DEF Tree, BootLinks
<1>2. x \in Links(tb, LV(tb)[4]) /\ Target(tb, x) = P3
  BY <1>1, PathLink
<1>3. y \in P3Places
  BY DEF P3Places
<1>4. y \in Links(tb, LV(tb)[4]) /\ Target(tb, y) = P3
  BY <1>3, BootLinksIn
<1> HIDE DEF x, y
<1>5. x \in P3Places
  BY <1>1, <1>2, <1>3, <1>4, SameTarget
<1>6. QED
  BY <1>5 DEF P3Places, x

LEMMA PathP2 ==
    ASSUME NEW tb, Tree(tb), NEW v \in VirtPages, Path(tb, v)[2] = P2
    PROVE  Boot(v)
<1> DEFINE x == <<Path(tb, v)[3], decompose(v, 3)>>
           y == <<P3, 0>>
<1>1. 3 \in 2..4 /\ 3 - 1 = 2 /\ P2 \in DOMAIN tb
  BY DEF Tree, BootLinks
<1>2. x \in Links(tb, LV(tb)[3]) /\ Target(tb, x) = P2
  BY <1>1, PathLink
<1>3. y \in P2Places
  BY DEF P2Places
<1>4. y \in Links(tb, LV(tb)[3]) /\ Target(tb, y) = P2
  BY <1>3, BootLinksIn
<1> HIDE DEF x, y
<1>5. x \in P2Places
  BY <1>1, <1>2, <1>3, <1>4, SameTarget
<1>6. Path(tb, v)[3] = P3 /\ decompose(v, 3) \in {0, KernelPdpt}
  BY <1>5 DEF P2Places, x
<1>7. QED
  BY <1>6, PathP3 DEF Boot

\* A leaf is no link, but for a level-1 leaf, which has the form of one.
LEMMA LeafIsNoLink ==
    ASSUME NEW p, NEW user, NEW l \in 1..3
    PROVE  /\ make_leaf(p, user, l).present /\ make_leaf(p, user, l).p = p
           /\ l # 1 => ~has_subtable(make_leaf(p, user, l)) /\ make_leaf(p, user, l).huge
           /\ l = 1 => ~make_leaf(p, user, l).huge
<1>1. /\ make_leaf(p, user, l).present /\ make_leaf(p, user, l).p = p
      /\ make_leaf(p, user, l).huge = (l > 1)
  BY DEF make_leaf
<1>2. (l > 1) <=> (l # 1)
  OBVIOUS
<1>3. QED
  BY <1>1, <1>2 DEF has_subtable

\* The walks below p2_table: they are at it, and find a 2 MiB page of the first gigabyte.
LEMMA BootWalk ==
    ASSUME NEW tb, Tree(tb), KernelKept(tb), NEW v \in VirtPages, Boot(v)
    PROVE  /\ Path(tb, v)[2] = P2 /\ End(tb, v) = 2 /\ EndEntry(tb, v).present
           /\ Path(tb, v)[1] = NoTable
           /\ has_subtable(tb[Path(tb, v)[3]][decompose(v, 3)])
           /\ has_subtable(tb[Path(tb, v)[4]][decompose(v, 4)])
           /\ Leaf(tb, v) = [v |-> v - (v % Span[2]), size |-> 2, p |-> decompose(v, 2) * Span[2]]
<1>1. Path(tb, v)[4] = P4 /\ P4 \in DOMAIN tb /\ P3 \in DOMAIN tb /\ P2 \in DOMAIN tb
  BY PathSteps DEF Tree, BootLinks
<1>2. Path(tb, v)[3] = P3 /\ has_subtable(tb[P4][decompose(v, 4)])
  <2> DEFINE x == <<P4, decompose(v, 4)>>
  <2>1. x \in P3Places
    BY DEF Boot, P3Places
  <2>2. tb[x[1]][x[2]] = make_table(P3, FALSE)
    BY <2>1 DEF Tree, BootLinks
  <2>3. tb[P4][decompose(v, 4)] = make_table(P3, FALSE)
    BY <2>2
  <2>4. Path(tb, v)[3] = Step(tb, P4, decompose(v, 4))
    BY DEF Path
  <2>5. QED
    BY <1>1, <2>3, <2>4 DEF Step, make_table, has_subtable
<1>3. Path(tb, v)[2] = P2 /\ has_subtable(tb[P3][decompose(v, 3)])
  <2> DEFINE x == <<P3, decompose(v, 3)>>
  <2>1. x \in P2Places
    BY DEF Boot, P2Places
  <2>2. tb[x[1]][x[2]] = make_table(P2, FALSE)
    BY <2>1 DEF Tree, BootLinks
  <2>3. tb[P3][decompose(v, 3)] = make_table(P2, FALSE)
    BY <2>2
  <2>4. Path(tb, v)[2] = Step(tb, Path(tb, v)[3], decompose(v, 3))
    BY DEF Path
  <2>5. QED
    BY <1>1, <1>2, <2>3, <2>4 DEF Step, make_table, has_subtable
<1>4. tb[P2][decompose(v, 2)] = make_leaf(decompose(v, 2) * Span[2], FALSE, 2)
  <2>1. decompose(v, 2) \in Slots
    BY PrefixFacts DEF Levels
  <2>2. QED
    BY <2>1 DEF KernelKept
<1>5. End(tb, v) = 2
  <2>1. 2 \in Levels /\ ~has_subtable(tb[P2][decompose(v, 2)])
    <3>1. 2 \in 1..3 /\ 2 # 1 /\ 2 \in Levels
      BY DEF Levels
    <3>2. ~has_subtable(make_leaf(decompose(v, 2) * Span[2], FALSE, 2))
      BY <3>1, LeafIsNoLink, Zenon
    <3>3. QED
      BY <1>4, <3>1, <3>2, Zenon
  <2>2. QED
    BY <1>1, <1>3, <2>1, EndUnique
<1>6. EndEntry(tb, v) = make_leaf(decompose(v, 2) * Span[2], FALSE, 2)
  BY <1>3, <1>4, <1>5 DEF EndEntry
<1>7. Path(tb, v)[1] = NoTable
  BY <1>5, EndFacts DEF Levels
<1>8. QED
  BY <1>1, <1>2, <1>3, <1>5, <1>6, <1>7 DEF Leaf, LeafOf, make_leaf

\* But for those copies, addresses whose walks are at the same table have the same prefix.
LEMMA PathUnique ==
    ASSUME NEW tb, Tree(tb), NEW v \in VirtPages, NEW w \in VirtPages,
           Canon(v), Canon(w), ~Boot(v), NEW l \in Levels,
           Path(tb, v)[l] = Path(tb, w)[l], Path(tb, v)[l] \in DOMAIN tb
    PROVE  Prefix(v, l + 1) = Prefix(w, l + 1)
<1> DEFINE Unique(k) == Path(tb, v)[k] = Path(tb, w)[k] /\ Path(tb, v)[k] \in DOMAIN tb
                            => Prefix(v, k + 1) = Prefix(w, k + 1)
<1>1. Unique(4)
  BY PrefixFacts
<1>2. ASSUME NEW k \in 2..4, Unique(k) PROVE Unique(k - 1)
  <2> SUFFICES ASSUME Path(tb, v)[k - 1] = Path(tb, w)[k - 1], Path(tb, v)[k - 1] \in DOMAIN tb
               PROVE  Prefix(v, k) = Prefix(w, k)
    OBVIOUS
  <2> DEFINE x == <<Path(tb, v)[k], decompose(v, k)>>
             y == <<Path(tb, w)[k], decompose(w, k)>>
  <2>1. /\ x \in Links(tb, LV(tb)[k]) /\ y \in Links(tb, LV(tb)[k])
        /\ Target(tb, x) = Path(tb, v)[k - 1] /\ Target(tb, y) = Path(tb, w)[k - 1]
        /\ Path(tb, v)[k] \in DOMAIN tb /\ Path(tb, v)[k] \in LV(tb)[k]
    <3>1. k \in Levels
      BY DEF Levels
    <3>2. x \in Links(tb, LV(tb)[k]) /\ Target(tb, x) = Path(tb, v)[k - 1] /\ Path(tb, v)[k] \in DOMAIN tb
      BY PathLink
    <3>3. y \in Links(tb, LV(tb)[k]) /\ Target(tb, y) = Path(tb, w)[k - 1]
      BY PathLink
    <3>4. Path(tb, v)[k] \in LV(tb)[k]
      BY <3>1, <3>2, PathLevels
    <3>5. QED
      BY <3>2, <3>3, <3>4
  <2>2. x = y \/ ({x, y} \subseteq P3Places) \/ ({x, y} \subseteq P2Places)
    <3> HIDE DEF x, y
    <3>1. QED
      BY <2>1, SameTarget
  <2>3. CASE x = y
    <3>1. Path(tb, v)[k] = Path(tb, w)[k] /\ decompose(v, k) = decompose(w, k)
      BY <2>3
    <3>2. Prefix(v, k + 1) = Prefix(w, k + 1)
      BY <1>2, <2>1, <3>1
    <3>3. QED
      BY <3>1, <3>2, PrefixDown DEF Levels
  <2>4. ASSUME {x, y} \subseteq P3Places PROVE x = y
    <3>1. Path(tb, v)[k] = P4 /\ Path(tb, w)[k] = P4
      BY <2>4 DEF P3Places
    <3>2. decompose(v, k) \in {HhdmSlot, KernelSlot} /\ decompose(w, k) \in {HhdmSlot, KernelSlot}
      BY <2>4 DEF P3Places
    <3>3. k = 4
      <4>1. P4 \in LV(tb)[4] /\ P4 \in LV(tb)[k] /\ k \in Levels /\ 4 \in Levels
        BY <2>1, <3>1, LevelFacts DEF Levels
      <4>2. QED
        BY <4>1 DEF Tree, LevelsApart
    <3>4. QED
      BY <3>1, <3>2, <3>3 DEF Canon
  <2>5. ASSUME {x, y} \subseteq P2Places PROVE FALSE
    <3>1. Path(tb, v)[k] = P3 /\ decompose(v, k) \in {0, KernelPdpt}
      BY <2>5 DEF P2Places
    <3>2. k = 3
      <4>1. P3 \in LV(tb)[3] /\ P3 \in LV(tb)[k] /\ k \in Levels /\ 3 \in Levels
        BY <2>1, <3>1, BootLevels DEF Levels, Tree
      <4>2. QED
        BY <4>1 DEF Tree, LevelsApart
    <3>3. decompose(v, 4) \in {HhdmSlot, KernelSlot}
      BY <3>1, <3>2, PathP3
    <3>4. QED
      BY <3>1, <3>2, <3>3 DEF Boot
  <2>6. QED
    BY <2>2, <2>3, <2>4, <2>5
<1> HIDE DEF Unique
<1>3. Unique(3) /\ Unique(2) /\ Unique(1)
  <2>1. 4 \in 2..4 /\ 3 \in 2..4 /\ 2 \in 2..4 /\ 4 - 1 = 3 /\ 3 - 1 = 2 /\ 2 - 1 = 1
    OBVIOUS
  <2>2. QED
    BY <1>1, <1>2, <2>1
<1>4. Unique(l)
  BY <1>1, <1>3 DEF Levels
<1>5. QED
  BY <1>4 DEF Unique

-----------------------------------------------------------------------------
(* What a write does to the mappings: of the addresses that are not copies  *)
(* at KernelSlot, those of the block of v alone.                            *)

Kept(v) == Canon(v) \/ Boot(v)
SameBlock(v, w, l) == Prefix(w, l) = Prefix(v, l)

Put(tb, tc, v, e) ==
    tc = [tb EXCEPT ![Path(tb, v)[End(tb, v)]][decompose(v, End(tb, v))] = e]

Remaps(tb, tc, v, e) ==
    \A w \in VirtPages : Kept(w) =>
        /\ SameBlock(v, w, End(tb, v)) =>
              /\ Leaf(tb, w) = LeafOf(EndEntry(tb, v), w, End(tb, v))
              /\ Leaf(tc, w) = LeafOf(e, w, End(tb, v))
        /\ ~SameBlock(v, w, End(tb, v)) => Leaf(tc, w) = Leaf(tb, w)

\* The walks that end where the walk for v does are those of the block of v.
LEMMA EndsInBlock ==
    ASSUME NEW tb, Tree(tb), KernelKept(tb), NEW v \in VirtPages, Canon(v), ~Boot(v),
           NEW w \in VirtPages, Kept(w)
    PROVE  EndsIn(tb, w, Path(tb, v)[End(tb, v)], decompose(v, End(tb, v)))
               <=> SameBlock(v, w, End(tb, v))
<1> DEFINE l == End(tb, v)
           t == Path(tb, v)[l]
           i == decompose(v, l)
<1>1. /\ l \in Levels /\ t \in LV(tb)[l] /\ t \in DOMAIN tb
      /\ l # 1 => ~has_subtable(tb[t][i])
  BY EndFacts DEF EndEntry
<1>2. ASSUME SameBlock(v, w, l) PROVE EndsIn(tb, w, t, i)
  <2>1. Path(tb, w)[l] = t /\ decompose(w, l) = i
    BY <1>1, <1>2, PathSame, PrefixUp DEF SameBlock, Levels
  <2>2. End(tb, w) = l
    BY <1>1, <2>1, EndUnique
  <2>3. QED
    BY <2>1, <2>2 DEF EndsIn
<1>3. ASSUME EndsIn(tb, w, t, i) PROVE SameBlock(v, w, l)
  <2>1. Path(tb, w)[End(tb, w)] = t /\ decompose(w, End(tb, w)) = i
    BY <1>3 DEF EndsIn
  <2>2. End(tb, w) = l
    <3>1. End(tb, w) \in Levels /\ t \in LV(tb)[End(tb, w)]
      BY <2>1, EndFacts
    <3>2. QED
      BY <1>1, <3>1 DEF Tree, LevelsApart
  <2>3. ~Boot(w)
    <3> SUFFICES ASSUME Boot(w) PROVE FALSE
      OBVIOUS
    <3>1. Path(tb, w)[2] = P2 /\ End(tb, w) = 2
      BY BootWalk
    <3>2. Path(tb, v)[2] = P2
      BY <2>1, <2>2, <3>1
    <3>3. QED
      BY <3>2, PathP2
  <2>4. Prefix(v, l + 1) = Prefix(w, l + 1)
    BY <1>1, <2>1, <2>2, <2>3, PathUnique DEF Kept
  <2>5. Prefix(v, l) = Prefix(w, l)
    BY <1>1, <2>1, <2>2, <2>4, PrefixDown
  <2>6. QED
    BY <2>5 DEF SameBlock
<1>4. QED
  BY <1>2, <1>3

LEMMA PutMaps ==
    ASSUME NEW tb, NEW tc, Tree(tb), KernelKept(tb), NEW v \in VirtPages, Canon(v), ~Boot(v),
           NEW e \in Entries, Put(tb, tc, v, e),
           LeafOk(e, End(tb, v)), End(tb, v) = 1 \/ ~has_subtable(e)
    PROVE  /\ Tree(tc) /\ KernelKept(tc) /\ DOMAIN tc = DOMAIN tb
           /\ Remaps(tb, tc, v, e)
<1> DEFINE l == End(tb, v)
           t == Path(tb, v)[l]
           i == decompose(v, l)
<1>1. /\ l \in Levels /\ t \in LV(tb)[l] /\ t \in DOMAIN tb /\ i \in Slots
      /\ l # 1 => ~has_subtable(tb[t][i])
      /\ EndEntry(tb, v) = tb[t][i]
  BY EndFacts DEF EndEntry
<1>2. TypedTables(tb)
  BY DEF Tree
<1>3. tc = [tb EXCEPT ![t][i] = e]
  BY DEF Put
<1>4. t # P2
  <2> SUFFICES ASSUME t = P2 PROVE FALSE
    OBVIOUS
  <2>1. P2 \in LV(tb)[2] /\ 2 \in Levels
    BY BootLevels DEF Levels, Tree
  <2>2. l = 2
    BY <1>1, <2>1 DEF Tree, LevelsApart
  <2>3. QED
    BY <2>2, PathP2
<1>5. P2 \in DOMAIN tb
  BY DEF Tree, BootLinks
<1> HIDE DEF l, t, i
<1>6. /\ DOMAIN tc = DOMAIN tb /\ tc = [s \in DOMAIN tb |-> tc[s]]
      /\ \A s \in DOMAIN tb : s # t => tc[s] = tb[s]
      /\ tc[t] = [tb[t] EXCEPT ![i] = e]
  BY <1>1, <1>2, <1>3 DEF TypedTables
<1>7. /\ tc[t] \in [Slots -> Entries] /\ tc[t][i] = e
      /\ \A j \in Slots : j # i => tc[t][j] = tb[t][j]
  BY <1>1, <1>2, <1>6 DEF TypedTables
<1>8. Rewrites(tb, tc, t, i)
  <2>1. TypedTables(tc)
    BY <1>2, <1>6, <1>7 DEF TypedTables
  <2>2. \A s \in DOMAIN tb, j \in Slots : (s # t \/ j # i) => tc[s][j] = tb[s][j]
    BY <1>6, <1>7
  <2>3. QED
    BY <1>6, <2>1, <2>2 DEF Rewrites
<1>9. l = 1 \/ NoLink(tb, tc, t, i)
  BY <1>1, <1>7 DEF NoLink, l
<1>10. Tree(tc)
  <2>1. LeafOk(tc[t][i], l)
    BY <1>7 DEF l
  <2>2. QED
    BY <1>1, <1>8, <1>9, <2>1, PutTree, Zenon
<1>11. KernelKept(tc)
  BY <1>4, <1>5, <1>6 DEF KernelKept
<1>12. ASSUME NEW w \in VirtPages, Kept(w)
       PROVE  /\ SameBlock(v, w, l) => /\ Leaf(tb, w) = LeafOf(EndEntry(tb, v), w, l)
                                       /\ Leaf(tc, w) = LeafOf(e, w, l)
              /\ ~SameBlock(v, w, l) => Leaf(tc, w) = Leaf(tb, w)
  <2>1. EndsIn(tb, w, t, i) <=> SameBlock(v, w, l)
    BY <1>12, EndsInBlock DEF l, t, i
  <2>2. /\ EndsIn(tb, w, t, i) => /\ Leaf(tc, w) = LeafOf(tc[t][i], w, l)
                                  /\ Leaf(tb, w) = LeafOf(tb[t][i], w, l)
        /\ ~EndsIn(tb, w, t, i) => Leaf(tc, w) = Leaf(tb, w)
    <3>1. PutsLeaf(tb, tc, l, t, i, w)
      BY <1>1, <1>8, <1>9, PutLeaf, Zenon
    <3>2. QED
      BY <3>1 DEF PutsLeaf
  <2>3. QED
    BY <1>1, <1>7, <2>1, <2>2
<1>13. Remaps(tb, tc, v, e)
  BY <1>12 DEF Remaps, l
<1>14. QED
  BY <1>6, <1>10, <1>11, <1>13

Hang(tb, tc, t, i, f, user) ==
    tc = [x \in DOMAIN tb \cup {f} |->
            IF x = f THEN clear ELSE [tb EXCEPT ![t][i] = make_table(f, user)][x]]

\* A call that hangs a new table at the end of its walk maps nothing, and is at it.
HangsMaps(tb, tc, v, l, f) ==
    /\ Tree(tc) /\ KernelKept(tc) /\ DOMAIN tc = DOMAIN tb \cup {f}
    /\ \A w \in VirtPages : Leaf(tc, w) = Leaf(tb, w)
    /\ Path(tc, v)[l - 1] = f

LEMMA HangMaps ==
    ASSUME NEW tb, NEW tc, Tree(tb), KernelKept(tb), NEW v \in VirtPages,
           NEW l \in 2..4, End(tb, v) = l, ~EndEntry(tb, v).present,
           NEW f \in PhysPages \ DOMAIN tb, NEW user \in BOOLEAN,
           Hang(tb, tc, Path(tb, v)[l], decompose(v, l), f, user)
    PROVE  HangsMaps(tb, tc, v, l, f)
<1> DEFINE t == Path(tb, v)[l]
           i == decompose(v, l)
<1>1. /\ t \in LV(tb)[l] /\ t \in DOMAIN tb /\ i \in Slots
      /\ EndEntry(tb, v) = tb[t][i]
  BY EndFacts DEF EndEntry
<1>2. TypedTables(tb) /\ P2 \in DOMAIN tb
  BY DEF Tree, BootLinks
<1>3. t # P2
  <2> SUFFICES ASSUME t = P2 PROVE FALSE
    OBVIOUS
  <2>1. P2 \in LV(tb)[2] /\ 2 \in Levels /\ l \in Levels
    BY BootLevels DEF Levels, Tree
  <2>2. l = 2
    BY <1>1, <2>1 DEF Tree, LevelsApart
  <2>3. Boot(v)
    BY <2>2, PathP2
  <2>4. QED
    BY <2>3, BootWalk
<1>4. tc = [x \in DOMAIN tb \cup {f} |->
              IF x = f THEN clear ELSE [tb EXCEPT ![t][i] = make_table(f, user)][x]]
  BY DEF Hang
<1>5. Path(tb, v)[l] = t /\ decompose(v, l) = i
  OBVIOUS
<1> HIDE DEF t, i
<1>6. make_table(f, user) \in Entries /\ clear \in [Slots -> Entries]
  <2>1. 0 \in PhysPages
    BY NoTableFacts DEF PhysPages
  <2>2. QED
    BY <2>1 DEF make_table, Entries, clear, Empty
<1>7. /\ DOMAIN tc = DOMAIN tb \cup {f} /\ tc = [s \in DOMAIN tc |-> tc[s]]
      /\ \A s \in DOMAIN tb : s # t => tc[s] = tb[s]
      /\ tc[t] = [tb[t] EXCEPT ![i] = make_table(f, user)]
      /\ tc[f] = clear
  BY <1>1, <1>2, <1>4 DEF TypedTables
<1>8. /\ tc[t] \in [Slots -> Entries] /\ tc[t][i] = make_table(f, user)
      /\ \A j \in Slots : j # i => tc[t][j] = tb[t][j]
  BY <1>1, <1>2, <1>6, <1>7 DEF TypedTables
<1>9. Hangs(tb, tc, t, i, f, user)
  <2>1. TypedTables(tc)
    BY <1>2, <1>6, <1>7, <1>8 DEF TypedTables
  <2>2. \A s \in DOMAIN tb, j \in Slots : (s # t \/ j # i) => tc[s][j] = tb[s][j]
    BY <1>7, <1>8
  <2>3. QED
    BY <1>1, <1>7, <1>8, <2>1, <2>2 DEF Hangs
<1>10. Tree(tc)
  BY <1>1, <1>9, HangTree, Zenon
<1>11. KernelKept(tc)
  BY <1>2, <1>3, <1>7 DEF KernelKept
<1>12. \A w \in VirtPages : HangsLeaf(tb, tc, l, t, i, f, w)
  BY <1>1, <1>9, HangLeaf, Zenon
<1>13. /\ \A w \in VirtPages : Leaf(tc, w) = Leaf(tb, w)
       /\ Path(tc, v)[l - 1] = f
  BY <1>5, <1>12 DEF HangsLeaf
<1>14. QED
  BY <1>7, <1>10, <1>11, <1>13 DEF HangsMaps

\* One level down along a walk.
LEMMA Descends ==
    ASSUME NEW tb, Tree(tb), NEW v \in VirtPages, NEW l \in 2..4, Path(tb, v)[l] \in DOMAIN tb,
           has_subtable(tb[Path(tb, v)[l]][decompose(v, l)])
    PROVE  /\ Path(tb, v)[l - 1] = tb[Path(tb, v)[l]][decompose(v, l)].p
           /\ Path(tb, v)[l - 1] \in DOMAIN tb
           /\ End(tb, v) # l
<1>1. End(tb, v) \in Levels /\ l \in Levels /\ l - 1 \in Levels /\ l # 1
  BY EndFacts DEF Levels
<1>2. End(tb, v) # l
  BY <1>1, EndFacts DEF EndEntry
<1>3. ~(l < End(tb, v))
  BY <1>1, EndFacts, PathLevels
<1>4. l > End(tb, v) /\ (l - 1 = End(tb, v) \/ l - 1 > End(tb, v))
  BY <1>1, <1>2, <1>3 DEF Levels
<1>5. Path(tb, v)[l - 1] = tb[Path(tb, v)[l]][decompose(v, l)].p
  BY <1>1, <1>4, EndFacts
<1>6. Path(tb, v)[l - 1] \in DOMAIN tb
  BY <1>1, <1>4, EndFacts
<1>7. QED
  BY <1>2, <1>5, <1>6

-----------------------------------------------------------------------------
(* Blocks of addresses, and the addresses of the HHDM.                      *)

LEMMA SpanMultiple ==
    ASSUME NEW l \in 1..4
    PROVE  \E m \in Nat : Span[4] = m * Span[l]
<1>1. /\ Span[2] = Span[1] * Fan /\ Span[3] = Span[2] * Fan /\ Span[4] = Span[3] * Fan
      /\ Span[1] \in Nat /\ Span[2] \in Nat /\ Span[3] \in Nat /\ Span[4] \in Nat /\ Fan \in Nat
  BY SpanFacts DEF Levels
<1>2. CASE l = 4
  <2>1. Span[4] = 1 * Span[4]
    BY <1>1
  <2>2. QED
    BY <1>2, <2>1
<1>3. CASE l = 3
  BY <1>1, <1>3
<1>4. CASE l = 2
  <2>1. Span[4] = (Fan * Fan) * Span[2] /\ Fan * Fan \in Nat
    BY <1>1
  <2>2. QED
    BY <1>4, <2>1
<1>5. CASE l = 1
  <2>1. Span[4] = (Fan * Fan * Fan) * Span[1] /\ Fan * Fan * Fan \in Nat
    BY <1>1
  <2>2. QED
    BY <1>5, <2>1
<1>6. QED
  BY <1>2, <1>3, <1>4, <1>5

Base(v, l) == v - (v % Span[l])
Block(v, l) == Base(v, l)..(Base(v, l) + Span[l] - 1)

\* The addresses below one entry are a block of consecutive ones.
LEMMA BlockFacts ==
    ASSUME NEW v \in VirtPages, NEW l \in 1..4
    PROVE  /\ Base(v, l) \in VirtPages /\ Base(v, l) % Span[l] = 0
           /\ Base(v, l) = Prefix(v, l) * Span[l]
           /\ v \in Block(v, l) /\ Block(v, l) \subseteq VirtPages
           /\ v % Span[l] = v - Base(v, l)
           /\ \A w \in Block(v, l) : Prefix(w, l) = Prefix(v, l)
<1> DEFINE s == Span[l]
           q == v \div s
           r == v % s
<1>1. v \in Nat /\ v < Span[5] /\ s \in Nat \ {0}
  BY SpanFacts DEF VirtPages
<1>2. q \in Nat /\ r \in 0..(s - 1) /\ v = q * s + r
  BY <1>1, DivMod
<1>3. PICK m \in Nat : Span[4] = m * s
  BY SpanMultiple
<1>4. Span[5] = Span[4] * Fan /\ Fan \in Nat /\ Span[5] \in Nat
  BY SpanFacts DEF Levels
<1>5. Span[5] = (m * Fan) * s /\ m * Fan \in Nat
  <2> HIDE DEF s
  <2>1. QED
    BY <1>1, <1>3, <1>4
<1>6. Prefix(v, l) = q
  BY DEF Prefix
<1>7. Base(v, l) = v - r
  BY DEF Base
<1> HIDE DEF s, q, r
<1>8. q * s \in Nat /\ Base(v, l) = q * s
  BY <1>1, <1>2, <1>7
<1>9. q * s + s <= (m * Fan) * s
  <2> DEFINE n == m * Fan
  <2>1. n \in Nat /\ q * s < n * s
    BY <1>1, <1>2, <1>5, <1>8
  <2> HIDE DEF n
  <2>2. q < n
    BY <1>1, <1>2, <2>1, Factors
  <2>3. q * s + s <= n * s
    BY <1>1, <1>2, <2>1, <2>2, NextMultiple
  <2>4. QED
    BY <2>3 DEF n
<1>10. Block(v, l) = (q * s)..(q * s + s - 1)
  BY <1>8 DEF Block, s
<1>11. Block(v, l) \subseteq VirtPages /\ v \in Block(v, l) /\ Base(v, l) \in VirtPages
  <2> DEFINE b == q * s
             e == (m * Fan) * s
  <2>1. b \in Nat /\ v = b + r /\ b + s <= e /\ Span[5] = e /\ Base(v, l) = b
    BY <1>2, <1>5, <1>8, <1>9
  <2>2. Block(v, l) = b..(b + s - 1)
    BY <1>10
  <2> HIDE DEF b, e
  <2>3. b + s <= Span[5] /\ r \in Nat /\ r < s
    BY <1>1, <1>2, <2>1
  <2>4. v \in Block(v, l) /\ b \in Block(v, l)
    BY <1>1, <2>1, <2>2, <2>3
  <2>5. Block(v, l) \subseteq VirtPages
    BY <1>1, <1>4, <2>1, <2>2, <2>3 DEF VirtPages
  <2>6. QED
    BY <2>1, <2>4, <2>5
<1>12. \A w \in Block(v, l) : w \div s = q
  <2> TAKE w \in Block(v, l)
  <2>1. w - q * s \in 0..(s - 1) /\ w = q * s + (w - q * s)
    BY <1>1, <1>8, <1>10
  <2> DEFINE o == w - q * s
  <2>2. o \in 0..(s - 1) /\ w = q * s + o
    BY <2>1
  <2> HIDE DEF o
  <2>3. QED
    BY <1>1, <1>2, <2>2, DivUnique
<1>13. Base(v, l) % s = 0
  <2>1. (q * s) % s = 0
    BY <1>1, <1>2, MultipleMod, Zenon
  <2>2. QED
    BY <1>8, <2>1, Zenon
<1>14. v % s = v - Base(v, l)
  BY <1>1, <1>2, <1>7 DEF r
<1>15. \A w \in Block(v, l) : Prefix(w, l) = Prefix(v, l)
  BY <1>6, <1>12 DEF Prefix, s
<1>16. QED
  BY <1>6, <1>8, <1>11, <1>13, <1>14, <1>15 DEF s

LEMMA SameBlockFacts ==
    ASSUME NEW v \in VirtPages, NEW w \in VirtPages, NEW l \in 1..3, SameBlock(v, w, l)
    PROVE  /\ Base(w, l) = Base(v, l) /\ w \in Block(v, l)
           /\ Canon(w) <=> Canon(v)
           /\ decompose(w, 4) = decompose(v, 4)
           /\ decompose(w, 3) = decompose(v, 3)
           /\ Boot(w) <=> Boot(v)
<1>1. l \in 1..4 /\ l \in Levels /\ 3 \in Levels /\ 4 \in Levels /\ 3 >= l /\ 4 >= l
  BY DEF Levels
<1>2. Base(w, l) = Base(v, l)
  <2>1. Base(v, l) = Prefix(v, l) * Span[l] /\ Base(w, l) = Prefix(w, l) * Span[l]
    BY <1>1, BlockFacts
  <2>2. Prefix(w, l) = Prefix(v, l)
    BY DEF SameBlock
  <2>3. QED
    BY <2>1, <2>2
<1>3. w \in Block(v, l)
  BY <1>1, <1>2, BlockFacts DEF Block
<1>4. decompose(w, 4) = decompose(v, 4) /\ decompose(w, 3) = decompose(v, 3)
  BY <1>1, PrefixUp DEF SameBlock
<1>5. QED
  BY <1>2, <1>3, <1>4 DEF Canon, Boot

\* HHDM_BASE + p has the index HhdmSlot in the PML4, and below it those of p.
LEMMA HhdmFacts ==
    ASSUME NEW p \in PhysPages
    PROVE  /\ HHDM_BASE + p \in VirtPages
           /\ decompose(HHDM_BASE + p, 4) = HhdmSlot
           /\ decompose(HHDM_BASE + p, 3) = p \div Span[3]
           /\ Canon(HHDM_BASE + p) /\ Kept(HHDM_BASE + p)
<1> DEFINE a == HHDM_BASE + p
<1>1. /\ Span[3] \in Nat \ {0} /\ Span[4] \in Nat \ {0} /\ Span[4] = Span[3] * Fan
      /\ Span[5] = Span[4] * Fan /\ Fan \in Nat \ {0}
  BY SpanFacts DEF Levels
<1>2. HhdmSlot \in 0..(Fan - 1) /\ HhdmSlot # KernelSlot
  BY PagingAssumption DEF Slots
<1>3. p \in 0..(Span[4] - 1) /\ p \in Nat
  BY <1>1 DEF PhysPages
<1>4. a = HhdmSlot * Span[4] + p /\ a \in Nat
  BY <1>1, <1>2, <1>3 DEF HHDM_BASE
<1> HIDE DEF a
<1>5. a \in VirtPages
  <2>1. HhdmSlot * Span[4] + Span[4] <= Fan * Span[4]
    BY <1>1, <1>2, NextMultiple
  <2>2. a < Fan * Span[4]
    <3> DEFINE x == HhdmSlot * Span[4]
               y == Fan * Span[4]
    <3>1. x \in Nat /\ y \in Nat /\ x + Span[4] <= y /\ a = x + p
      BY <1>1, <1>2, <1>4, <2>1
    <3> HIDE DEF x, y
    <3>2. a < y
      BY <1>1, <1>3, <3>1
    <3>3. QED
      BY <3>2 DEF y
  <2>3. Fan * Span[4] = Span[5] /\ Span[5] \in Nat
    BY <1>1
  <2>4. QED
    BY <1>4, <2>2, <2>3 DEF VirtPages
<1>6. Prefix(a, 4) = HhdmSlot
  <2>1. (HhdmSlot * Span[4] + p) \div Span[4] = HhdmSlot
    <3>1. HhdmSlot \in Nat
      BY <1>2
    <3>2. QED
      BY <1>1, <1>3, <3>1, DivUnique, Zenon
  <2>2. QED
    BY <1>4, <2>1, Zenon DEF Prefix
<1>7. decompose(a, 4) = HhdmSlot
  <2>1. Prefix(a, 4) = Prefix(a, 5) * Fan + decompose(a, 4) /\ Prefix(a, 5) = 0 /\ decompose(a, 4) \in Nat
    BY <1>5, PrefixFacts DEF Levels, Slots
  <2>2. QED
    BY <1>1, <1>6, <2>1
<1>8. decompose(a, 3) = p \div Span[3]
  <2> DEFINE q == p \div Span[3]
             r == p % Span[3]
  <2>1. q \in Nat /\ r \in 0..(Span[3] - 1) /\ p = q * Span[3] + r
    BY <1>1, <1>3, DivMod
  <2> HIDE DEF q, r
  <2>2. q < Fan
    <3>1. q * Span[3] < Fan * Span[3]
      <4> DEFINE x == q * Span[3]
                 y == Fan * Span[3]
      <4>1. x \in Nat /\ y = Span[4] /\ p = x + r
        BY <1>1, <2>1
      <4> HIDE DEF x, y
      <4>2. x < y
        BY <1>1, <1>3, <2>1, <4>1
      <4>3. QED
        BY <4>2 DEF x, y
    <3>2. QED
      BY <1>1, <2>1, <3>1, Factors
  <2>3. a = (HhdmSlot * Fan + q) * Span[3] + r
    <3>1. HhdmSlot * Span[4] = (HhdmSlot * Fan) * Span[3]
      BY <1>1, <1>2
    <3>2. (HhdmSlot * Fan + q) * Span[3] = (HhdmSlot * Fan) * Span[3] + q * Span[3]
      BY <1>1, <1>2, <2>1
    <3> DEFINE x == (HhdmSlot * Fan) * Span[3]
               y == q * Span[3]
    <3>3. x \in Nat /\ y \in Nat /\ HhdmSlot * Span[4] = x /\ (HhdmSlot * Fan + q) * Span[3] = x + y
      BY <1>1, <1>2, <2>1, <3>1, <3>2
    <3>4. p = y + r
      BY <2>1
    <3> HIDE DEF x, y
    <3>5. QED
      BY <1>4, <2>1, <3>3, <3>4
  <2>4. HhdmSlot * Fan + q \in Nat
    BY <1>1, <1>2, <2>1
  <2>5. Prefix(a, 3) = HhdmSlot * Fan + q
    BY <1>1, <2>1, <2>3, <2>4, DivUnique DEF Prefix
  <2>6. (HhdmSlot * Fan + q) % Fan = q
    BY <1>1, <1>2, <2>1, <2>2, DivUnique
  <2>7. decompose(a, 3) = Prefix(a, 3) % Fan
    BY DEF decompose, Prefix
  <2>8. QED
    BY <2>5, <2>6, <2>7 DEF q
<1>9. QED
  BY <1>2, <1>5, <1>7, <1>8 DEF a, Canon, Kept

\* Nothing else has that index.
LEMMA HhdmOnly ==
    ASSUME NEW v \in VirtPages, decompose(v, 4) = HhdmSlot
    PROVE  \E p \in PhysPages : v = HHDM_BASE + p
<1>1. v \in Nat /\ Span[4] \in Nat \ {0} /\ Fan \in Nat
  BY PrefixFacts, SpanFacts
<1>2. Prefix(v, 4) = Prefix(v, 5) * Fan + decompose(v, 4) /\ Prefix(v, 5) = 0
  BY PrefixFacts DEF Levels
<1>3. HhdmSlot \in Nat
  BY PagingAssumption DEF Slots
<1>4. v \div Span[4] = HhdmSlot
  <2>1. 0 * Fan = 0
    BY <1>1
  <2>2. QED
    BY <1>2, <1>3, <2>1 DEF Prefix
<1>5. v % Span[4] \in 0..(Span[4] - 1) /\ v = (v \div Span[4]) * Span[4] + (v % Span[4])
  BY <1>1, DivMod
<1> DEFINE p == v % Span[4]
<1>6. p \in PhysPages /\ v = HHDM_BASE + p
  BY <1>4, <1>5 DEF HHDM_BASE, PhysPages
<1> HIDE DEF p
<1>7. QED
  BY <1>6

-----------------------------------------------------------------------------
(* The tables and the running call, step by step.                           *)

TablesInv ==
    /\ Tree(table) /\ KernelKept(table)
    /\ free \subseteq Frames /\ to_map \subseteq Ram
    /\ DOMAIN table \cap free = {}
    /\ DOMAIN table \subseteq {P4, P3, P2} \cup Frames
    /\ to_map # {} => \A t \in DOMAIN table : t < EARLY_BOOT_MAP_LIMIT

Calls == [op : {"map", "unmap", "protect"}, v : VirtPages, p : PhysPages, size : 1..3,
          user : BOOLEAN, level : Levels, t : PhysPages]

\* A running call is at a table of the walk for its address.
CallInv ==
    call.op # "none" =>
        /\ call \in Calls
        /\ call.t \in DOMAIN table /\ call.t = Path(table, call.v)[call.level]
        /\ Canon(call.v)
        /\ call.op = "map" =>
              /\ call.v % Span[call.size] = 0 /\ call.p % Span[call.size] = 0
              /\ call.size <= call.level
              /\ decompose(call.v, 4) = HhdmSlot => call.v = HHDM_BASE + call.p
        /\ call.op # "map" => call.v \in UnmapCalls /\ ~Boot(call.v)
        /\ call.op = "protect" => ~EndEntry(table, call.v).huge

SameLeaves == \A w \in VirtPages : Kept(w) => Leaf(table', w) = Leaf(table, w)

MapsBlock ==
    \A w \in VirtPages : Kept(w) =>
        /\ SameBlock(call.v, w, call.size) =>
              /\ Leaf(table, w).size = 0
              /\ Leaf(table', w) = [v |-> call.v, size |-> call.size, p |-> call.p]
        /\ ~SameBlock(call.v, w, call.size) => Leaf(table', w) = Leaf(table, w)

UnmapsBlock ==
    \A w \in VirtPages : Kept(w) =>
        /\ SameBlock(call.v, w, call.level) =>
              /\ Leaf(table, w) = [v |-> Base(call.v, call.level), size |-> call.level,
                                   p |-> Entry.p]
              /\ Leaf(table', w).size = 0
        /\ ~SameBlock(call.v, w, call.level) => Leaf(table', w) = Leaf(table, w)

\* The entry that the call is at.
LEMMA AtEntry ==
    ASSUME TablesInv, CallInv, call.op # "none"
    PROVE  /\ call \in Calls /\ Entry \in Entries /\ decompose(call.v, call.level) \in Slots
           /\ ~has_subtable(Entry) \/ call.level = 1 =>
                 /\ End(table, call.v) = call.level
                 /\ EndEntry(table, call.v) = Entry
           /\ has_subtable(Entry) /\ call.level # 1 =>
                 /\ call.level - 1 \in Levels
                 /\ Path(table, call.v)[call.level - 1] = Entry.p
                 /\ Entry.p \in DOMAIN table
<1> DEFINE v == call.v
           l == call.level
           t == call.t
<1>1. /\ call \in Calls /\ v \in VirtPages /\ l \in Levels
      /\ t = Path(table, v)[l] /\ t \in DOMAIN table
  BY DEF CallInv, Calls
<1>2. decompose(v, l) \in Slots
  BY <1>1, PrefixFacts
<1>3. Tree(table) /\ table[t] \in [Slots -> Entries]
  BY <1>1 DEF TablesInv, Tree, TypedTables
<1>4. Entry = table[t][decompose(v, l)] /\ Entry \in Entries
  BY <1>2, <1>3 DEF Entry
<1> HIDE DEF v, l, t
<1>5. ASSUME ~has_subtable(Entry) \/ l = 1
      PROVE  End(table, v) = l /\ EndEntry(table, v) = Entry
  <2>1. End(table, v) = l
    BY <1>1, <1>3, <1>4, <1>5, EndUnique
  <2>2. QED
    BY <1>1, <1>4, <2>1 DEF EndEntry
<1>6. ASSUME has_subtable(Entry), l # 1
      PROVE  l - 1 \in Levels /\ Path(table, v)[l - 1] = Entry.p /\ Entry.p \in DOMAIN table
  <2>1. l \in 2..4 /\ l - 1 \in Levels
    BY <1>1, <1>6 DEF Levels
  <2>2. QED
    BY <1>1, <1>3, <1>4, <1>6, <2>1, Descends
<1>7. QED
  BY <1>1, <1>2, <1>4, <1>5, <1>6 DEF v, l

\* A call that goes on to the table below.
LEMMA DescendStep ==
    ASSUME TablesInv, CallInv, call.op # "none", descend, has_subtable(Entry), call.level # 1,
           call.op = "map" => call.level # call.size
    PROVE  TablesInv' /\ CallInv' /\ SameLeaves
<1>1. /\ call \in Calls /\ call.level - 1 \in Levels
      /\ Path(table, call.v)[call.level - 1] = Entry.p /\ Entry.p \in DOMAIN table
  BY AtEntry
<1>2. /\ call' = [call EXCEPT !.level = @ - 1, !.t = Entry.p]
      /\ table' = table /\ free' = free /\ to_map' = to_map
  BY DEF descend
<1>3. /\ call'.op = call.op /\ call'.v = call.v /\ call'.p = call.p /\ call'.size = call.size
      /\ call'.level = call.level - 1 /\ call'.t = Entry.p
      /\ call' = [op |-> call.op, v |-> call.v, p |-> call.p, size |-> call.size,
                  user |-> call.user, level |-> call.level - 1, t |-> Entry.p]
  BY <1>1, <1>2 DEF Calls
<1>4. TablesInv' /\ SameLeaves
  BY <1>2 DEF TablesInv, SameLeaves
<1>5. Entry.p \in PhysPages
  BY <1>1 DEF TablesInv, Tree, TypedTables
<1>6. call' \in Calls
  BY <1>1, <1>3, <1>5 DEF Calls
<1>7. call.op = "map" => call.size <= call.level - 1
  BY <1>1 DEF CallInv, Calls, Levels
<1>8. CallInv'
  BY <1>1, <1>2, <1>3, <1>6, <1>7 DEF CallInv
<1>9. QED
  BY <1>4, <1>8

\* A call that ends, and one that starts, on tables that stay.
LEMMA EndStep ==
    ASSUME TablesInv, CallInv, table' = table, free' = free, to_map' \subseteq to_map,
           call' = Idle
    PROVE  TablesInv' /\ CallInv' /\ SameLeaves
<1>1. call'.op = "none"
  BY DEF Idle
<1>2. CallInv'
  BY <1>1 DEF CallInv
<1>3. TablesInv' /\ SameLeaves
  BY DEF TablesInv, SameLeaves
<1>4. QED
  BY <1>2, <1>3

LEMMA StartStep ==
    ASSUME TablesInv, table' = table, free' \subseteq free, to_map' = to_map,
           NEW op \in {"map", "unmap", "protect"}, NEW v \in VirtPages, NEW p \in PhysPages,
           NEW size \in 1..3, NEW user \in BOOLEAN,
           start(op, v, p, size, user), Canon(v),
           op = "map" => /\ v % Span[size] = 0 /\ p % Span[size] = 0
                         /\ decompose(v, 4) = HhdmSlot => v = HHDM_BASE + p,
           op # "map" => v \in UnmapCalls /\ ~Boot(v),
           op = "protect" => ~EndEntry(table, v).huge
    PROVE  TablesInv' /\ CallInv' /\ SameLeaves
<1>1. call' = [op |-> op, v |-> v, p |-> p, size |-> size, user |-> user, level |-> 4, t |-> P4]
  BY DEF start
<1>2. TablesInv' /\ SameLeaves
  BY DEF TablesInv, SameLeaves
<1>3. P4 \in DOMAIN table /\ P4 \in PhysPages /\ Path(table, v)[4] = P4 /\ 4 \in Levels
  BY PagingAssumption, PathSteps DEF TablesInv, Tree, BootLinks, Levels
<1>4. call' \in Calls
  BY <1>1, <1>3 DEF Calls
<1>5. /\ call'.op = op /\ call'.v = v /\ call'.p = p /\ call'.size = size
      /\ call'.level = 4 /\ call'.t = P4
  BY <1>1
<1>6. CallInv'
  BY <1>3, <1>4, <1>5 DEF CallInv
<1>7. QED
  BY <1>2, <1>6

\* get_or_create_subtable hangs a new table.
LEMMA AllocStep ==
    ASSUME TablesInv, CallInv, map_alloc
    PROVE  TablesInv' /\ CallInv' /\ SameLeaves
<1> DEFINE v == call.v
           l == call.level
<1>1. PICK f \in pages_left :
         /\ free' = free \ {f}
         /\ table' = [x \in DOMAIN table \cup {f} |->
                        IF x = f THEN clear ELSE SetEntry(make_table(f, call.user))[x]]
         /\ call' = [call EXCEPT !.level = @ - 1, !.t = f]
  BY DEF map_alloc
<1>2. call.op = "map" /\ l # call.size /\ ~Entry.present /\ to_map' = to_map
  BY DEF map_alloc, Running
<1>3. /\ call \in Calls /\ ~has_subtable(Entry)
      /\ End(table, v) = l /\ EndEntry(table, v) = Entry
  BY <1>2, AtEntry DEF has_subtable
<1>4. /\ v \in VirtPages /\ call.user \in BOOLEAN /\ l \in 2..4 /\ call.size <= l - 1
      /\ l - 1 \in Levels
  BY <1>2, <1>3 DEF CallInv, Calls, Levels
<1>5. f \in PhysPages \ DOMAIN table /\ f \in free /\ f \in Frames
  BY <1>1, PagingAssumption DEF pages_left, TablesInv
<1>6. to_map # {} => f < EARLY_BOOT_MAP_LIMIT
  BY <1>1 DEF pages_left
<1>7. Hang(table, table', Path(table, v)[l], decompose(v, l), f, call.user)
  <2>1. call.t = Path(table, v)[l]
    BY <1>2 DEF CallInv
  <2>2. SetEntry(make_table(f, call.user))
          = [table EXCEPT ![Path(table, v)[l]][decompose(v, l)] = make_table(f, call.user)]
    BY <2>1 DEF SetEntry
  <2>3. QED
    BY <1>1, <2>2 DEF Hang
<1>8. HangsMaps(table, table', v, l, f)
  <2>1. Tree(table) /\ KernelKept(table)
    BY DEF TablesInv
  <2>2. ~EndEntry(table, v).present
    BY <1>2, <1>3
  <2> HIDE DEF v, l
  <2>3. QED
    BY <1>3, <1>4, <1>5, <1>7, <2>1, <2>2, HangMaps, Zenon
<1>9. SameLeaves
  BY <1>8 DEF HangsMaps, SameLeaves
<1>10. TablesInv'
  <2>1. Tree(table') /\ KernelKept(table') /\ DOMAIN table' = DOMAIN table \cup {f}
    BY <1>8 DEF HangsMaps
  <2>2. free' \subseteq Frames /\ to_map' \subseteq Ram /\ DOMAIN table' \cap free' = {}
    BY <1>1, <1>2, <2>1 DEF TablesInv
  <2>3. DOMAIN table' \subseteq {P4, P3, P2} \cup Frames
    BY <1>5, <2>1 DEF TablesInv
  <2>4. to_map' # {} => \A t \in DOMAIN table' : t < EARLY_BOOT_MAP_LIMIT
    BY <1>2, <1>6, <2>1 DEF TablesInv
  <2>5. QED
    BY <2>1, <2>2, <2>3, <2>4 DEF TablesInv
<1>11. /\ call'.op = "map" /\ call'.v = v /\ call'.p = call.p /\ call'.size = call.size
       /\ call'.level = l - 1 /\ call'.t = f
       /\ call' = [op |-> "map", v |-> v, p |-> call.p, size |-> call.size,
                   user |-> call.user, level |-> l - 1, t |-> f]
  BY <1>1, <1>2, <1>3 DEF Calls
<1>12. call' \in Calls
  BY <1>3, <1>4, <1>5, <1>11 DEF Calls
<1>13. f \in DOMAIN table' /\ Path(table', v)[l - 1] = f
  BY <1>8 DEF HangsMaps
<1>14. CallInv'
  BY <1>2, <1>4, <1>11, <1>12, <1>13 DEF CallInv
<1>15. QED
  BY <1>9, <1>10, <1>14

\* A call that writes the entry its walk ends at, which is none of p2_table.
LEMMA WriteStep ==
    ASSUME TablesInv, CallInv, call.op # "none", NEW e \in Entries, table' = SetEntry(e),
           free' = free, to_map' \subseteq to_map, call' = Idle,
           ~has_subtable(Entry) \/ call.level = 1, ~Boot(call.v),
           LeafOk(e, call.level), call.level = 1 \/ ~has_subtable(e)
    PROVE  /\ TablesInv' /\ CallInv'
           /\ End(table, call.v) = call.level /\ EndEntry(table, call.v) = Entry
           /\ Remaps(table, table', call.v, e)
<1> DEFINE v == call.v
           l == call.level
<1>1. call \in Calls /\ End(table, v) = l /\ EndEntry(table, v) = Entry
  BY AtEntry
<1>2. v \in VirtPages /\ l \in Levels /\ Canon(v)
  BY <1>1 DEF Calls, CallInv
<1>3. Put(table, table', v, e)
  <2>1. call.t = Path(table, v)[l]
    BY DEF CallInv
  <2>2. QED
    BY <1>1, <2>1 DEF Put, SetEntry
<1>4. /\ Tree(table') /\ KernelKept(table') /\ DOMAIN table' = DOMAIN table
      /\ Remaps(table, table', v, e)
  <2>1. Tree(table) /\ KernelKept(table)
    BY DEF TablesInv
  <2>2. LeafOk(e, End(table, v)) /\ (End(table, v) = 1 \/ ~has_subtable(e)) /\ ~Boot(v)
    BY <1>1
  <2> HIDE DEF v, l
  <2>3. QED
    BY <1>2, <1>3, <2>1, <2>2, PutMaps, Zenon
<1>5. TablesInv'
  BY <1>4 DEF TablesInv
<1>6. CallInv'
  <2>1. call'.op = "none"
    BY DEF Idle
  <2>2. QED
    BY <2>1 DEF CallInv
<1>7. QED
  BY <1>1, <1>4, <1>5, <1>6

LEMMA MapLeafStep ==
    ASSUME TablesInv, CallInv, map_leaf
    PROVE  /\ TablesInv' /\ CallInv' /\ MapsBlock
           /\ call \in Calls /\ call.level = call.size /\ ~Boot(call.v)
<1> DEFINE v == call.v
           l == call.level
           e == make_leaf(call.p, call.user, call.size)
<1>1. /\ call.op = "map" /\ l = call.size /\ ~blocks(Entry) /\ table' = SetEntry(e)
      /\ call' = Idle /\ to_map' = to_map \ {call.p} /\ free' = free
  BY DEF map_leaf, Running, LeafAllowed, returns, left_to_map
<1>2. call \in Calls /\ v \in VirtPages /\ l \in 1..3 /\ call.p \in PhysPages /\ call.user \in BOOLEAN
  BY <1>1, AtEntry DEF Calls
<1>3. ~Entry.present /\ ~has_subtable(Entry)
  BY <1>1 DEF blocks, has_subtable
<1>4. ~Boot(v)
  <2> SUFFICES ASSUME Boot(v) PROVE FALSE
    OBVIOUS
  <2>1. EndEntry(table, v).present
    BY <1>2, BootWalk DEF TablesInv
  <2>2. EndEntry(table, v) = Entry
    BY <1>1, <1>3, AtEntry
  <2>3. QED
    BY <1>3, <2>1, <2>2
<1>5. e.present /\ e.p = call.p /\ (l # 1 => ~has_subtable(e) /\ e.huge) /\ (l = 1 => ~e.huge)
  <2>1. call.size \in 1..3
    BY <1>1, <1>2
  <2>2. QED
    BY <1>1, <2>1, LeafIsNoLink
<1>6. e \in Entries
  BY <1>2 DEF make_leaf, Entries
<1>7. e.p % Span[l] = 0
  BY <1>1, <1>5 DEF CallInv
<1>8. LeafOk(e, l)
  <2> HIDE DEF e
  <2>1. e.huge => l \in {2, 3}
    BY <1>2, <1>5
  <2>2. QED
    BY <1>7, <2>1 DEF LeafOk
<1>9. /\ TablesInv' /\ CallInv'
      /\ End(table, v) = l /\ EndEntry(table, v) = Entry
      /\ Remaps(table, table', v, e)
  <2>1. call.op # "none" /\ to_map' \subseteq to_map
    BY <1>1
  <2>2. l = 1 \/ ~has_subtable(e)
    BY <1>5
  <2> HIDE DEF e
  <2>3. QED
    BY <1>1, <1>3, <1>4, <1>6, <1>8, <2>1, <2>2, WriteStep
<1> HIDE DEF e
<1>10. MapsBlock
  <2> SUFFICES ASSUME NEW w \in VirtPages, Kept(w)
               PROVE  /\ SameBlock(v, w, l) =>
                            /\ Leaf(table, w).size = 0
                            /\ Leaf(table', w) = [v |-> v, size |-> l, p |-> call.p]
                      /\ ~SameBlock(v, w, l) => Leaf(table', w) = Leaf(table, w)
    BY <1>1 DEF MapsBlock
  <2>1. /\ SameBlock(v, w, l) =>
              Leaf(table, w) = LeafOf(Entry, w, l) /\ Leaf(table', w) = LeafOf(e, w, l)
        /\ ~SameBlock(v, w, l) => Leaf(table', w) = Leaf(table, w)
    BY <1>9 DEF Remaps
  <2>2. LeafOf(Entry, w, l).size = 0
    BY <1>3 DEF LeafOf, NoLeaf
  <2>3. LeafOf(e, w, l) = [v |-> Base(w, l), size |-> l, p |-> call.p]
    BY <1>5 DEF LeafOf, Base
  <2>4. SameBlock(v, w, l) => Base(w, l) = v
    <3> SUFFICES ASSUME SameBlock(v, w, l) PROVE Base(w, l) = v
      OBVIOUS
    <3>1. Base(w, l) = Base(v, l)
      BY <1>2, SameBlockFacts
    <3>2. v % Span[l] = 0 /\ v \in Nat
      BY <1>1, <1>2, PrefixFacts DEF CallInv
    <3>3. QED
      BY <3>1, <3>2 DEF Base
  <2>5. QED
    BY <2>1, <2>2, <2>3, <2>4
<1>11. QED
  BY <1>1, <1>2, <1>4, <1>9, <1>10

LEMMA UnmapLeafStep ==
    ASSUME TablesInv, CallInv, unmap_leaf
    PROVE  /\ TablesInv' /\ CallInv' /\ UnmapsBlock
           /\ call \in Calls /\ call.level \in 1..3 /\ call.v \in UnmapCalls /\ ~Boot(call.v)
           /\ Entry.p \in PhysPages
<1> DEFINE v == call.v
           l == call.level
<1>1. /\ call.op = "unmap" /\ IsLeaf(Entry, l) /\ table' = SetEntry(Empty)
      /\ call' = Idle /\ to_map' = to_map /\ free' = free
  BY DEF unmap_leaf, Running, returns
<1>2. call \in Calls /\ v \in VirtPages /\ l \in Levels /\ v \in UnmapCalls /\ ~Boot(v)
  BY <1>1, AtEntry DEF Calls, CallInv
<1>3. Entry.present /\ (~has_subtable(Entry) \/ l = 1)
  BY <1>1 DEF IsLeaf, has_subtable
<1>4. Empty \in Entries /\ ~Empty.present
  <2>1. 0 \in PhysPages
    BY NoTableFacts DEF PhysPages
  <2>2. QED
    BY <2>1 DEF Empty, Entries
<1>5. LeafOk(Empty, l) /\ ~has_subtable(Empty)
  BY <1>4 DEF LeafOk, IsLeaf, has_subtable
<1>6. /\ TablesInv' /\ CallInv'
      /\ End(table, v) = l /\ EndEntry(table, v) = Entry
      /\ Remaps(table, table', v, Empty)
  <2>1. call.op # "none" /\ to_map' \subseteq to_map
    BY <1>1
  <2>2. QED
    BY <1>1, <1>2, <1>3, <1>4, <1>5, <2>1, WriteStep
<1>7. l \in 1..3 /\ Entry.p \in PhysPages
  <2>1. Tree(table) /\ EndEntry(table, v).present
    BY <1>3, <1>6 DEF TablesInv
  <2>2. End(table, v) \in 1..3 /\ EndEntry(table, v).p \in PhysPages
    BY <1>2, <2>1, LeafFacts
  <2>3. QED
    BY <1>6, <2>2
<1>8. UnmapsBlock
  <2> SUFFICES ASSUME NEW w \in VirtPages, Kept(w)
               PROVE  /\ SameBlock(v, w, l) =>
                            /\ Leaf(table, w) = [v |-> Base(v, l), size |-> l, p |-> Entry.p]
                            /\ Leaf(table', w).size = 0
                      /\ ~SameBlock(v, w, l) => Leaf(table', w) = Leaf(table, w)
    BY DEF UnmapsBlock
  <2>1. /\ SameBlock(v, w, l) =>
              Leaf(table, w) = LeafOf(Entry, w, l) /\ Leaf(table', w) = LeafOf(Empty, w, l)
        /\ ~SameBlock(v, w, l) => Leaf(table', w) = Leaf(table, w)
    BY <1>6 DEF Remaps
  <2>2. LeafOf(Empty, w, l).size = 0
    BY <1>4 DEF LeafOf, NoLeaf
  <2>3. LeafOf(Entry, w, l) = [v |-> Base(w, l), size |-> l, p |-> Entry.p]
    BY <1>3 DEF LeafOf, Base
  <2>4. SameBlock(v, w, l) => Base(w, l) = Base(v, l)
    BY <1>2, <1>7, SameBlockFacts
  <2>5. QED
    BY <2>1, <2>2, <2>3, <2>4
<1>9. QED
  BY <1>2, <1>6, <1>7, <1>8

LEMMA ProtectLeafStep ==
    ASSUME TablesInv, CallInv, protect_leaf
    PROVE  TablesInv' /\ CallInv' /\ SameLeaves
<1> DEFINE v == call.v
           e == make_leaf(Entry.p, call.user, 1)
<1>1. /\ call.op = "protect" /\ call.level = 1 /\ Entry.present /\ table' = SetEntry(e)
      /\ call' = Idle /\ to_map' = to_map /\ free' = free
  BY DEF protect_leaf, Running, returns, kept_page
<1>2. call \in Calls /\ v \in VirtPages /\ call.user \in BOOLEAN /\ ~Boot(v) /\ Entry.p \in PhysPages
  BY <1>1, AtEntry DEF Calls, CallInv, Entries
<1>3. e.present /\ e.p = Entry.p /\ ~e.huge
  BY LeafIsNoLink
<1>4. e \in Entries
  BY <1>2 DEF make_leaf, Entries
<1>5. LeafOk(e, 1)
  <2>1. Span[1] = 1 /\ Entry.p \in Nat
    BY <1>2, SpanFacts, NoTableFacts
  <2>2. Entry.p % 1 = 0
    BY <2>1
  <2> HIDE DEF e
  <2>3. QED
    BY <1>3, <2>1, <2>2 DEF LeafOk
<1>6. /\ TablesInv' /\ CallInv'
      /\ End(table, v) = 1 /\ EndEntry(table, v) = Entry
      /\ Remaps(table, table', v, e)
  <2>1. call.op # "none" /\ to_map' \subseteq to_map
    BY <1>1
  <2> HIDE DEF e
  <2>2. QED
    BY <1>1, <1>2, <1>4, <1>5, <2>1, WriteStep
<1> HIDE DEF e
<1>7. SameLeaves
  <2> SUFFICES ASSUME NEW w \in VirtPages, Kept(w)
               PROVE  Leaf(table', w) = Leaf(table, w)
    BY DEF SameLeaves
  <2>1. /\ SameBlock(v, w, 1) =>
              Leaf(table, w) = LeafOf(Entry, w, 1) /\ Leaf(table', w) = LeafOf(e, w, 1)
        /\ ~SameBlock(v, w, 1) => Leaf(table', w) = Leaf(table, w)
    BY <1>6 DEF Remaps
  <2>2. LeafOf(Entry, w, 1) = LeafOf(e, w, 1)
    BY <1>1, <1>3 DEF LeafOf
  <2>3. QED
    BY <2>1, <2>2
<1>8. QED
  BY <1>6, <1>7

-----------------------------------------------------------------------------
(* The range that uacpi_kernel_map maps.                                    *)

LEMMA AddDiv ==
    ASSUME NEW d \in Nat \ {0}, NEW q \in Nat, NEW x \in Nat
    PROVE  (q * d + x) \div d = q + (x \div d)
<1> DEFINE k == x \div d
           r == x % d
<1>1. k \in Nat /\ r \in 0..(d - 1) /\ x = k * d + r
  BY DivMod
<1> HIDE DEF k, r
<1>2. q * d + x = (q + k) * d + r
  BY <1>1
<1>3. q + k \in Nat
  BY <1>1
<1>4. ((q + k) * d + r) \div d = q + k
  BY <1>1, <1>3, DivUnique, Zenon
<1>5. QED
  BY <1>2, <1>4 DEF k

LEMMA DivMono ==
    ASSUME NEW d \in Nat \ {0}, NEW x \in Nat, NEW y \in Nat, x <= y
    PROVE  x \div d <= y \div d
<1> DEFINE k == x \div d
           m == y \div d
<1>1. k \in Nat /\ x % d \in 0..(d - 1) /\ x = k * d + (x % d)
  BY DivMod
<1>2. m \in Nat /\ y % d \in 0..(d - 1) /\ y = m * d + (y % d)
  BY DivMod
<1>3. SUFFICES ASSUME m < k PROVE FALSE
  BY <1>1, <1>2
<1> HIDE DEF k, m
<1>4. m * d + d <= k * d
  BY <1>1, <1>2, <1>3, NextMultiple
<1>5. m * d \in Nat /\ k * d \in Nat
  BY <1>1, <1>2
<1>6. QED
  BY <1>1, <1>2, <1>4, <1>5

PageAt(j) == region.addr \div PAGE_SIZE + j

Ranges == [at : {"loop", "mapped", "nullptr"}, addr : Nat, len : Nat \ {0}, i : Nat]

\* The pages of a range of bytes, none of which is outside the physical memory.
LEMMA RangePages ==
    ASSUME region \in Ranges, (region.addr + region.len - 1) \div PAGE_SIZE \in PhysPages
    PROVE  /\ num_pages(region) \in Nat \ {0}
           /\ \A j \in 0..(num_pages(region) - 1) : PageAt(j) \in PhysPages
           /\ \A b \in region.addr..(region.addr + region.len - 1) :
                 \E j \in 0..(num_pages(region) - 1) : b \div PAGE_SIZE = PageAt(j)
<1> DEFINE P == PAGE_SIZE
           q == region.addr \div P
           r == region.addr % P
           x == r + region.len - 1
           k == x \div P
<1>1. P \in Nat \ {0} /\ region.addr \in Nat /\ region.len \in Nat \ {0}
  BY PagingAssumption DEF Ranges
<1>2. q \in Nat /\ r \in 0..(P - 1) /\ region.addr = q * P + r
  BY <1>1, DivMod
<1> HIDE DEF q, r, P
<1>3. x \in Nat
  BY <1>1, <1>2
<1>4. k \in Nat
  BY <1>1, <1>3, DivMod
<1>5. num_pages(region) = k + 1
  <2>1. num_pages(region) = (region.len + r + P - 1) \div P
    BY DEF num_pages, r, P
  <2>2. region.len + r + P - 1 = 1 * P + x
    BY <1>1, <1>2
  <2> HIDE DEF x
  <2>3. (1 * P + x) \div P = 1 + (x \div P)
    BY <1>1, <1>3, AddDiv
  <2>4. QED
    BY <1>4, <2>1, <2>2, <2>3
<1>6. (region.addr + region.len - 1) \div P = q + k
  <2> DEFINE y == q * P
  <2>1. y \in Nat /\ region.addr = y + r
    BY <1>1, <1>2
  <2>2. region.addr + region.len - 1 = y + x
    <3> HIDE DEF y
    <3>1. QED
      BY <1>1, <1>2, <2>1
  <2> HIDE DEF x
  <2>3. (q * P + x) \div P = q + (x \div P)
    BY <1>1, <1>2, <1>3, AddDiv
  <2>4. QED
    BY <2>2, <2>3
<1>7. \A j \in 0..(num_pages(region) - 1) : PageAt(j) \in PhysPages
  <2> TAKE j \in 0..(num_pages(region) - 1)
  <2>1. PageAt(j) = q + j
    BY DEF PageAt, q, P
  <2>2. q + k \in PhysPages
    BY <1>6 DEF P
  <2> HIDE DEF k
  <2>3. j \in 0..k
    BY <1>4, <1>5
  <2>4. Span[4] \in Nat
    BY NoTableFacts
  <2>5. QED
    BY <1>2, <1>4, <2>1, <2>2, <2>3, <2>4 DEF PhysPages
<1>8. ASSUME NEW b \in region.addr..(region.addr + region.len - 1)
      PROVE  \E j \in 0..(num_pages(region) - 1) : b \div P = PageAt(j)
  <2> DEFINE y == q * P
             z == b - y
             j == z \div P
  <2>1. y \in Nat /\ region.addr = y + r
    BY <1>1, <1>2
  <2>2. z \in Nat /\ z <= x /\ b = y + z
    <3> HIDE DEF y
    <3>1. QED
      BY <1>1, <1>2, <2>1
  <2> HIDE DEF z, x
  <2>3. (q * P + z) \div P = q + (z \div P)
    BY <1>1, <1>2, <2>2, AddDiv
  <2>4. b \div P = q + j
    BY <2>2, <2>3
  <2>5. j \in Nat
    BY <1>1, <2>2, DivMod
  <2>6. j <= k
    BY <1>1, <1>3, <2>2, DivMono
  <2> HIDE DEF j, k, y
  <2>7. j \in 0..(num_pages(region) - 1)
    BY <1>4, <1>5, <2>5, <2>6
  <2>8. PageAt(j) = q + j
    BY DEF PageAt, q, P
  <2>9. QED
    BY <2>4, <2>7, <2>8
<1>9. QED
  BY <1>4, <1>5, <1>7, <1>8 DEF P

-----------------------------------------------------------------------------
(* The inductive invariant.                                                 *)

\* A leaf of the HHDM maps its address to the physical page it stands for.
HhdmOk(tb) ==
    \A v \in VirtPages :
        decompose(v, 4) = HhdmSlot /\ decompose(v, 3) # KernelPdpt /\ Leaf(tb, v).size # 0
            => Leaf(tb, v).v = HHDM_BASE + Leaf(tb, v).p

TlbInv ==
    \A e \in tlb : e.v \in VirtPages /\ Kept(e.v) /\ e.size \in 1..3 /\ Leaf(table, e.v) = e

\* While initialize runs nothing else does, and it maps pages of 4 KiB.
InitInv ==
    to_map # {} =>
        /\ region.at = "none"
        /\ call.op # "none" => /\ call.op = "map" /\ call.size = 1 /\ call.p \in to_map
                               /\ call.v = HHDM_BASE + call.p
        /\ \A v \in VirtPages : Canon(v) /\ ~Boot(v) => Leaf(table, v).size \in {0, 1}

\* By pages of 4 KiB: no unmap_page of another address takes them away.
RamInv ==
    \A p \in Ram \ to_map : p \div Span[3] # KernelPdpt =>
        HHDM_BASE + p \in UnmapCalls \/ Leaf(table, HHDM_BASE + p).size = 1

Done(j) == PageAt(j) \div Span[3] # KernelPdpt => Leaf(table, HHDM_BASE + PageAt(j)).size # 0

RegionInv ==
    /\ region.at \in {"none", "loop", "mapped", "nullptr"}
    /\ region.at # "none" =>
          /\ region \in Ranges /\ region.i <= num_pages(region) /\ to_map = {}
          /\ (region.addr + region.len - 1) \div PAGE_SIZE \in PhysPages
    /\ region.at = "loop" =>
          /\ \A j \in 0..(region.i - 1) :
                Done(j) \/ (j = region.i - 1 /\ (call.op # "none" \/ ~good(result)))
          /\ call.op # "none" => /\ call.op = "map" /\ call.size = 1 /\ region.i > 0
                                 /\ call.v = HHDM_BASE + PageAt(region.i - 1)
    /\ region.at \in {"mapped", "nullptr"} => call.op = "none"
    /\ region.at = "mapped" =>
          region.i = num_pages(region) /\ \A j \in 0..(region.i - 1) : Done(j)

IInv == TablesInv /\ CallInv /\ HhdmOk(table) /\ TlbInv /\ InitInv /\ RamInv /\ RegionInv

\* Every step keeps the mappings of all addresses, or maps one block or unmaps one.
LEMMA TablesStep ==
    ASSUME IInv, [Next]_vars
    PROVE  /\ TablesInv' /\ CallInv'
           /\ \/ SameLeaves
              \/ map_leaf /\ MapsBlock /\ call \in Calls /\ call.level = call.size
                 /\ ~Boot(call.v)
              \/ unmap_leaf /\ UnmapsBlock /\ call \in Calls /\ call.level \in 1..3
                 /\ call.v \in UnmapCalls /\ ~Boot(call.v) /\ Entry.p \in PhysPages
<1> USE DEF IInv
<1> DEFINE Quiet == TablesInv' /\ CallInv' /\ SameLeaves
<1>1. ASSUME table' = table, free' \subseteq free, to_map' = to_map, call' = call PROVE Quiet
  BY <1>1 DEF TablesInv, CallInv, SameLeaves
<1>2. CASE UNCHANGED vars
  BY <1>1, <1>2 DEF vars
<1>3. ASSUME initialize_map PROVE Quiet
  <2>1. PICK p \in to_map : start("map", HHDM_BASE + p, p, 1, FALSE)
    BY <1>3 DEF initialize_map
  <2>2. p \in PhysPages
    BY PagingAssumption DEF TablesInv
  <2>3. HHDM_BASE + p \in VirtPages /\ Canon(HHDM_BASE + p)
    BY <2>2, HhdmFacts
  <2>4. (HHDM_BASE + p) % Span[1] = 0 /\ p % Span[1] = 0
    <3>1. Span[1] = 1 /\ HHDM_BASE + p \in Nat /\ p \in Nat
      BY <2>2, <2>3, SpanFacts, NoTableFacts, PrefixFacts
    <3>2. QED
      BY <3>1
  <2>5. table' = table /\ free' \subseteq free /\ to_map' = to_map
    BY <1>3 DEF initialize_map
  <2>6. "map" \in {"map", "unmap", "protect"} /\ 1 \in 1..3 /\ FALSE \in BOOLEAN
    OBVIOUS
  <2>7. QED
    BY <2>1, <2>2, <2>3, <2>4, <2>5, <2>6, StartStep
<1>4. ASSUME NEW c \in MapCalls, map_page(c) PROVE Quiet
  <2>1. start("map", c.v, c.p, c.size, c.user) /\ table' = table /\ free' \subseteq free /\ to_map' = to_map
    BY <1>4 DEF map_page
  <2>2. /\ c.v \in VirtPages /\ c.p \in PhysPages /\ c.size \in 1..3 /\ c.user \in BOOLEAN
        /\ c.v % Span[c.size] = 0 /\ c.p % Span[c.size] = 0
    BY PagingAssumption
  <2>3. Canon(c.v) /\ (decompose(c.v, 4) = HhdmSlot => c.v = HHDM_BASE + c.p)
    BY CallersAssumption DEF Canon
  <2>4. QED
    BY <2>1, <2>2, <2>3, StartStep
<1>5. ASSUME NEW v \in UnmapCalls
      PROVE  v \in VirtPages /\ Canon(v) /\ ~Boot(v) /\ 0 \in PhysPages
  <2>1. v \in VirtPages
    BY PagingAssumption
  <2>2. Canon(v) /\ ~Boot(v)
    BY CallersAssumption DEF Canon, Boot
  <2>3. 0 \in PhysPages
    BY NoTableFacts DEF PhysPages
  <2>4. QED
    BY <2>1, <2>2, <2>3
<1>6. ASSUME NEW v \in UnmapCalls, unmap_page(v) PROVE Quiet
  <2>1. start("unmap", v, 0, 1, FALSE) /\ table' = table /\ free' \subseteq free /\ to_map' = to_map
    BY <1>6 DEF unmap_page
  <2>2. "unmap" \in {"map", "unmap", "protect"} /\ 1 \in 1..3 /\ FALSE \in BOOLEAN
    OBVIOUS
  <2>3. v \in VirtPages /\ Canon(v) /\ ~Boot(v) /\ 0 \in PhysPages
    BY <1>5
  <2>4. QED
    BY <2>1, <2>2, <2>3, StartStep
<1>7. ASSUME NEW v \in UnmapCalls, NEW user \in BOOLEAN, protect_page(v, user) PROVE Quiet
  <2>1. /\ start("protect", v, 0, 1, user) /\ table' = table /\ free' \subseteq free /\ to_map' = to_map
        /\ ~walk(v).e.huge
    BY <1>7 DEF protect_page
  <2>2. ~EndEntry(table, v).huge
    BY <1>5, <2>1, WalkIs DEF TablesInv
  <2>3. QED
    BY <1>5, <2>1, <2>2, StartStep
<1>8. ASSUME map_region_page PROVE Quiet
  <2> DEFINE p == PageAt(region.i)
  <2>1. /\ start("map", HHDM_BASE + p, p, 1, FALSE)
        /\ table' = table /\ free' \subseteq free /\ to_map' = to_map
        /\ region.at = "loop" /\ region.i < num_pages(region)
    BY <1>8 DEF map_region_page, PageAt
  <2>2. p \in PhysPages
    <3>1. /\ region \in Ranges /\ (region.addr + region.len - 1) \div PAGE_SIZE \in PhysPages
          /\ region.i \in Nat
      BY <2>1 DEF RegionInv, Ranges
    <3>2. region.i \in 0..(num_pages(region) - 1)
      BY <2>1, <3>1, RangePages
    <3>3. QED
      BY <3>1, <3>2, RangePages
  <2> HIDE DEF p
  <2>3. HHDM_BASE + p \in VirtPages /\ Canon(HHDM_BASE + p)
    BY <2>2, HhdmFacts
  <2>4. (HHDM_BASE + p) % Span[1] = 0 /\ p % Span[1] = 0
    <3>1. Span[1] = 1 /\ HHDM_BASE + p \in Nat /\ p \in Nat
      BY <2>2, <2>3, SpanFacts, NoTableFacts, PrefixFacts
    <3>2. QED
      BY <3>1
  <2>5. "map" \in {"map", "unmap", "protect"} /\ 1 \in 1..3 /\ FALSE \in BOOLEAN
    OBVIOUS
  <2>6. QED
    BY <2>1, <2>2, <2>3, <2>4, <2>5, StartStep
<1>9. ASSUME map_descend PROVE Quiet
  <2>1. call.op = "map" /\ call.level # call.size /\ has_subtable(Entry) /\ descend
    BY <1>9 DEF map_descend, Running
  <2>2. call.level # 1
    BY <2>1 DEF CallInv, Calls
  <2>3. QED
    BY <2>1, <2>2, DescendStep
<1>10. ASSUME unmap_descend PROVE Quiet
  <2>1. call.op = "unmap" /\ ~IsLeaf(Entry, call.level) /\ descend /\ Entry.present
    BY <1>10 DEF unmap_descend, Running, descend
  <2>2. has_subtable(Entry) /\ call.level # 1
    BY <2>1 DEF IsLeaf, has_subtable
  <2>3. QED
    BY <2>1, <2>2, DescendStep
<1>11. ASSUME protect_descend PROVE Quiet
  <2>1. call.op = "protect" /\ call.level # 1 /\ descend /\ Entry.present
    BY <1>11 DEF protect_descend, Running, descend
  <2>2. has_subtable(Entry)
    <3> SUFFICES ASSUME ~has_subtable(Entry) PROVE FALSE
      OBVIOUS
    <3>1. EndEntry(table, call.v) = Entry
      BY <2>1, AtEntry
    <3>2. Entry.huge
      BY <2>1 DEF has_subtable
    <3>3. QED
      BY <2>1, <3>1, <3>2 DEF CallInv
  <2>3. QED
    BY <2>1, <2>2, DescendStep
<1>12. ASSUME map_out_of_memory \/ map_fault \/ map_already \/ not_mapped PROVE Quiet
  <2>1. table' = table /\ free' = free /\ to_map' \subseteq to_map /\ call' = Idle
    BY <1>12 DEF map_out_of_memory, map_fault, map_already, not_mapped, returns, left_to_map
  <2>2. QED
    BY <2>1, EndStep
<1>13. ASSUME NEW r \in Regions, uacpi_kernel_map(r) PROVE Quiet
  BY <1>1, <1>13 DEF uacpi_kernel_map
<1>14. ASSUME map_region_returns PROVE Quiet
  BY <1>1, <1>14 DEF map_region_returns
<1>15. ASSUME NEW v \in Accesses, access(v) PROVE Quiet
  BY <1>1, <1>15 DEF access
<1>16. ASSUME others_allocate PROVE Quiet
  <2>1. table' = table /\ free' \subseteq free /\ to_map' = to_map /\ call' = call
    BY <1>16 DEF others_allocate
  <2>2. QED
    BY <1>1, <2>1
<1>17. CASE map_alloc
  BY <1>17, AllocStep
<1>18. CASE map_leaf
  BY <1>18, MapLeafStep
<1>19. CASE unmap_leaf
  BY <1>19, UnmapLeafStep
<1>20. CASE protect_leaf
  BY <1>20, ProtectLeafStep
<1> HIDE DEF IInv
<1>21. QED
  BY <1>2, <1>3, <1>4, <1>6, <1>7, <1>8, <1>9, <1>10, <1>11, <1>12, <1>13, <1>14, <1>15,
     <1>16, <1>17, <1>18, <1>19, <1>20 DEF Next

LEMMA HhdmStep ==
    ASSUME IInv, [Next]_vars
    PROVE  HhdmOk(table')
<1> SUFFICES ASSUME NEW v \in VirtPages, decompose(v, 4) = HhdmSlot, decompose(v, 3) # KernelPdpt,
                    Leaf(table', v).size # 0
             PROVE  Leaf(table', v).v = HHDM_BASE + Leaf(table', v).p
  BY DEF HhdmOk
<1>1. Kept(v)
  BY PagingAssumption DEF Kept, Canon
<1>2. Leaf(table, v).size # 0 => Leaf(table, v).v = HHDM_BASE + Leaf(table, v).p
  BY DEF IInv, HhdmOk
<1>3. CASE SameLeaves
  BY <1>1, <1>2, <1>3 DEF SameLeaves
<1>4. CASE map_leaf /\ MapsBlock /\ call \in Calls
  <2>1. CASE SameBlock(call.v, v, call.size)
    <3>1. Leaf(table', v) = [v |-> call.v, size |-> call.size, p |-> call.p]
      BY <1>1, <1>4, <2>1 DEF MapsBlock
    <3>2. decompose(call.v, 4) = HhdmSlot
      BY <1>4, <2>1, SameBlockFacts DEF Calls
    <3>3. call.v = HHDM_BASE + call.p
      BY <1>4, <3>2 DEF IInv, CallInv, map_leaf, Running
    <3>4. QED
      BY <3>1, <3>3
  <2>2. CASE ~SameBlock(call.v, v, call.size)
    BY <1>1, <1>2, <1>4, <2>2 DEF MapsBlock
  <2>3. QED
    BY <2>1, <2>2
<1>5. CASE unmap_leaf /\ UnmapsBlock
  BY <1>1, <1>2, <1>5 DEF UnmapsBlock
<1>6. QED
  BY <1>3, <1>4, <1>5, TablesStep

\* A leaf is one at the first address of its block, too.
LEMMA LeafAtBase ==
    ASSUME NEW tb, Tree(tb), NEW v \in VirtPages, Kept(v), Leaf(tb, v).size # 0
    PROVE  /\ Leaf(tb, v).size \in 1..3
           /\ Leaf(tb, v).v = Base(v, Leaf(tb, v).size)
           /\ Leaf(tb, v).v \in VirtPages /\ Kept(Leaf(tb, v).v)
           /\ Leaf(tb, Leaf(tb, v).v) = Leaf(tb, v)
<1> DEFINE l == End(tb, v)
           b == Base(v, l)
<1>1. EndEntry(tb, v).present
  BY NoLeafFacts
<1>2. /\ l \in 1..3 /\ l \in Levels /\ l \in 1..4
      /\ Leaf(tb, v) = [v |-> b, size |-> l, p |-> EndEntry(tb, v).p]
  BY <1>1, LeafFacts DEF Base, Levels
<1> HIDE DEF l, b
<1>3. b \in VirtPages /\ Prefix(b, l) = Prefix(v, l) /\ Base(b, l) = b
  <2>1. Base(v, l) \in VirtPages /\ v \in Nat /\ v % Span[l] = v - Base(v, l)
    BY <1>2, BlockFacts, PrefixFacts
  <2>2. Base(v, l) \in Block(v, l)
    <3>1. Base(v, l) \in Nat
      BY <2>1, PrefixFacts
    <3>2. l \in 1..5
      BY <1>2
    <3>3. Span[l] \in Nat \ {0}
      BY <3>2, SpanFacts
    <3>4. QED
      BY <3>1, <3>3 DEF Block
  <2>3. Prefix(Base(v, l), l) = Prefix(v, l)
    BY <1>2, <2>2, BlockFacts
  <2>4. Base(Base(v, l), l) = Base(v, l)
    <3>1. Base(v, l) % Span[l] = 0 /\ Base(v, l) \in Nat
      BY <1>2, <2>1, BlockFacts, PrefixFacts
    <3>2. QED
      BY <3>1 DEF Base
  <2>5. QED
    BY <2>1, <2>3, <2>4 DEF b
<1>4. Kept(b)
  BY <1>2, <1>3, SameBlockFacts DEF SameBlock, Kept
<1>5. Path(tb, b)[l] = Path(tb, v)[l] /\ decompose(b, l) = decompose(v, l)
  BY <1>2, <1>3, PathSame, PrefixUp
<1>6. End(tb, b) = l /\ EndEntry(tb, b) = EndEntry(tb, v)
  <2>1. /\ Path(tb, v)[l] \in DOMAIN tb
        /\ l # 1 => ~has_subtable(tb[Path(tb, v)[l]][decompose(v, l)])
        /\ EndEntry(tb, v) = tb[Path(tb, v)[l]][decompose(v, l)]
    BY EndFacts DEF EndEntry, l
  <2>2. End(tb, b) = l
    BY <1>2, <1>3, <1>5, <2>1, EndUnique
  <2>3. QED
    BY <1>5, <2>1, <2>2 DEF EndEntry
<1>7. Leaf(tb, b) = Leaf(tb, v)
  <2>1. Leaf(tb, b) = LeafOf(EndEntry(tb, v), b, l)
    BY <1>6 DEF Leaf
  <2>2. LeafOf(EndEntry(tb, v), b, l) = [v |-> Base(b, l), size |-> l, p |-> EndEntry(tb, v).p]
    BY <1>1 DEF LeafOf, Base
  <2>3. QED
    BY <1>2, <1>3, <2>1, <2>2
<1>8. QED
  BY <1>2, <1>3, <1>4, <1>7 DEF b

LEMMA TlbStep ==
    ASSUME IInv, [Next]_vars
    PROVE  TlbInv'
<1> USE DEF IInv
<1>1. SameLeaves \/ (map_leaf /\ MapsBlock) \/ (unmap_leaf /\ UnmapsBlock /\ call \in Calls /\ call.level \in 1..3)
  BY TablesStep
<1>2. ASSUME NEW e \in tlb
      PROVE  /\ e.v \in VirtPages /\ Kept(e.v) /\ e.size \in 1..3 /\ Leaf(table, e.v) = e
             /\ Leaf(table', e.v) = e \/ (unmap_leaf /\ call.v \in e.v..(e.v + Span[e.size] - 1))
  <2>1. e.v \in VirtPages /\ Kept(e.v) /\ e.size \in 1..3 /\ Leaf(table, e.v) = e
    BY DEF TlbInv
  <2>2. CASE SameLeaves
    BY <2>1, <2>2 DEF SameLeaves
  <2>3. CASE map_leaf /\ MapsBlock
    <3>1. e.size # 0
      BY <2>1
    <3>2. ~SameBlock(call.v, e.v, call.size)
      BY <2>1, <2>3, <3>1 DEF MapsBlock
    <3>3. QED
      BY <2>1, <2>3, <3>2 DEF MapsBlock
  <2>4. CASE unmap_leaf /\ UnmapsBlock /\ call \in Calls /\ call.level \in 1..3
    <3>1. CASE SameBlock(call.v, e.v, call.level)
      <4>1. e = [v |-> Base(call.v, call.level), size |-> call.level, p |-> Entry.p]
        BY <2>1, <2>4, <3>1 DEF UnmapsBlock
      <4>2. e.v = Base(call.v, call.level) /\ e.size = call.level
        BY <4>1
      <4>3. call.v \in Block(call.v, call.level)
        BY <2>4, BlockFacts DEF Calls
      <4>4. QED
        BY <2>1, <2>4, <4>2, <4>3 DEF Block
    <3>2. CASE ~SameBlock(call.v, e.v, call.level)
      BY <2>1, <2>4, <3>2 DEF UnmapsBlock
    <3>3. QED
      BY <3>1, <3>2
  <2>5. QED
    BY <1>1, <2>1, <2>2, <2>3, <2>4
<1>3. \/ tlb' \subseteq tlb /\ (unmap_leaf => tlb' = flush_tlb_page(call.v))
      \/ (\E v \in Accesses : access(v))
  BY DEF Next, vars, initialize_map, map_page, map_descend, map_alloc, map_out_of_memory,
         map_fault, map_already, map_leaf, unmap_page, unmap_descend, not_mapped, unmap_leaf,
         protect_page, protect_descend, protect_leaf, uacpi_kernel_map, map_region_page,
         map_region_returns, others_allocate, descend, flush_tlb_page
<1>4. CASE tlb' \subseteq tlb /\ (unmap_leaf => tlb' = flush_tlb_page(call.v))
  <2> SUFFICES ASSUME NEW e \in tlb'
               PROVE  e.v \in VirtPages /\ Kept(e.v) /\ e.size \in 1..3 /\ Leaf(table', e.v) = e
    BY DEF TlbInv
  <2>1. e \in tlb
    BY <1>4
  <2>2. unmap_leaf => call.v \notin e.v..(e.v + Span[e.size] - 1)
    BY <1>4 DEF flush_tlb_page
  <2>3. QED
    BY <1>2, <2>1, <2>2
<1>5. ASSUME NEW v \in Accesses, access(v) PROVE TlbInv'
  <2>1. translate(v) # Unmapped /\ tlb' = tlb \cup {Caches(v)} /\ table' = table
    BY <1>5 DEF access
  <2>2. v \in VirtPages /\ Tree(table)
    BY PagingAssumption DEF TablesInv
  <2>3. Kept(v)
    <3>1. decompose(v, 4) = KernelSlot => decompose(v, 3) = KernelPdpt
      BY CallersAssumption
    <3>2. QED
      BY <3>1 DEF Kept, Canon, Boot
  <2>4. Leaf(table, v).size # 0 /\ Caches(v) = Leaf(table, v)
    BY <2>1, <2>2, TranslateIs
  <2> DEFINE e == Leaf(table, v)
  <2>5. e.v \in VirtPages /\ Kept(e.v) /\ e.size \in 1..3 /\ Leaf(table, e.v) = e
    BY <2>2, <2>3, <2>4, LeafAtBase
  <2>6. tlb' = tlb \cup {e}
    BY <2>1, <2>4
  <2> HIDE DEF e
  <2>7. QED
    BY <2>1, <2>5, <2>6 DEF TlbInv
<1>6. QED
  BY <1>3, <1>4, <1>5

\* A page of RAM outside the first gigabyte has no place below p2_table.
LEMMA RamNotBoot ==
    ASSUME NEW p \in Ram, p \div Span[3] # KernelPdpt
    PROVE  /\ p \in PhysPages /\ ~Boot(HHDM_BASE + p)
           /\ HHDM_BASE + p \in VirtPages /\ Canon(HHDM_BASE + p) /\ Kept(HHDM_BASE + p)
<1>1. p \in PhysPages /\ p >= Span[3]
  BY PagingAssumption DEF EARLY_BOOT_MAP_LIMIT
<1>2. Span[3] \in Nat \ {0} /\ p \in Nat
  BY <1>1, SpanFacts, NoTableFacts
<1>3. p \div Span[3] # 0
  <2> SUFFICES ASSUME p \div Span[3] = 0 PROVE FALSE
    OBVIOUS
  <2>1. p = 0 * Span[3] + (p % Span[3]) /\ p % Span[3] \in 0..(Span[3] - 1)
    BY <1>2, DivMod
  <2>2. 0 * Span[3] = 0
    BY <1>2
  <2>3. QED
    BY <1>1, <1>2, <2>1, <2>2
<1>4. /\ HHDM_BASE + p \in VirtPages /\ Canon(HHDM_BASE + p) /\ Kept(HHDM_BASE + p)
      /\ decompose(HHDM_BASE + p, 3) = p \div Span[3]
  BY <1>1, HhdmFacts
<1>5. QED
  BY <1>1, <1>3, <1>4 DEF Boot

LEMMA InitStep ==
    ASSUME IInv, [Next]_vars
    PROVE  InitInv'
<1> USE DEF IInv
<1> SUFFICES ASSUME to_map' # {} PROVE
        /\ region'.at = "none"
        /\ call'.op # "none" => /\ call'.op = "map" /\ call'.size = 1 /\ call'.p \in to_map'
                                /\ call'.v = HHDM_BASE + call'.p
        /\ \A v \in VirtPages : Canon(v) /\ ~Boot(v) => Leaf(table', v).size \in {0, 1}
  BY DEF InitInv
<1>1. to_map' \subseteq to_map
  BY DEF Next, vars, initialize_map, map_page, map_descend, map_alloc, map_out_of_memory,
         map_fault, map_already, map_leaf, unmap_page, unmap_descend, not_mapped, unmap_leaf,
         protect_page, protect_descend, protect_leaf, uacpi_kernel_map, map_region_page,
         map_region_returns, others_allocate, descend, access, left_to_map
<1>2. to_map # {}
  BY <1>1
<1>3. /\ region.at = "none"
      /\ call.op # "none" => /\ call.op = "map" /\ call.size = 1 /\ call.p \in to_map
                             /\ call.v = HHDM_BASE + call.p
      /\ \A v \in VirtPages : Canon(v) /\ ~Boot(v) => Leaf(table, v).size \in {0, 1}
  BY <1>2 DEF InitInv
<1>4. \A v \in VirtPages : Canon(v) /\ ~Boot(v) => Leaf(table', v).size \in {0, 1}
  <2> SUFFICES ASSUME NEW v \in VirtPages, Canon(v), ~Boot(v)
               PROVE  Leaf(table', v).size \in {0, 1}
    OBVIOUS
  <2>1. Kept(v) /\ Leaf(table, v).size \in {0, 1}
    BY <1>3 DEF Kept
  <2>2. CASE SameLeaves
    BY <2>1, <2>2 DEF SameLeaves
  <2>3. CASE map_leaf /\ MapsBlock
    <3>1. call.size = 1
      BY <1>3, <2>3 DEF map_leaf, Running
    <3>2. QED
      BY <2>1, <2>3, <3>1 DEF MapsBlock
  <2>4. CASE unmap_leaf
    BY <1>3, <2>4 DEF unmap_leaf, Running
  <2>5. QED
    BY <2>2, <2>3, <2>4, TablesStep
<1>5. CASE UNCHANGED vars
  BY <1>3, <1>4, <1>5 DEF vars
<1>6. CASE initialize_map
  <2>1. PICK p \in to_map : start("map", HHDM_BASE + p, p, 1, FALSE)
    BY <1>6 DEF initialize_map
  <2>2. /\ call'.op = "map" /\ call'.size = 1 /\ call'.p = p /\ call'.v = HHDM_BASE + p
        /\ to_map' = to_map /\ region' = region
    BY <1>6, <2>1 DEF initialize_map, start
  <2>3. QED
    BY <1>3, <1>4, <2>2
<1>7. CASE map_descend \/ map_alloc
  <2>1. /\ region' = region /\ to_map' = to_map /\ call.op = "map"
        /\ \E f : call' = [call EXCEPT !.level = @ - 1, !.t = f]
    BY <1>7 DEF map_descend, map_alloc, descend, Running
  <2>2. call \in Calls
    BY <2>1 DEF CallInv
  <2>3. call'.op = call.op /\ call'.size = call.size /\ call'.p = call.p /\ call'.v = call.v
    BY <2>1, <2>2 DEF Calls
  <2>4. QED
    BY <1>3, <1>4, <2>1, <2>3
<1>8. CASE map_out_of_memory \/ map_fault \/ map_already \/ map_leaf
  <2>1. region' = region /\ call'.op = "none"
    BY <1>8 DEF map_out_of_memory, map_fault, map_already, map_leaf, returns, Idle
  <2>2. QED
    BY <1>3, <1>4, <2>1
<1>9. CASE \E v \in Accesses : access(v)
  <2>1. region' = region /\ call' = call /\ to_map' = to_map
    BY <1>9 DEF access
  <2>2. QED
    BY <1>3, <1>4, <2>1
<1>10. ~(unmap_descend \/ not_mapped \/ unmap_leaf \/ protect_descend \/ protect_leaf)
  BY <1>3 DEF unmap_descend, not_mapped, unmap_leaf, protect_descend, protect_leaf, Running
<1>11. /\ \A c \in MapCalls : ~map_page(c)
       /\ \A v \in UnmapCalls : ~unmap_page(v)
       /\ \A v \in UnmapCalls, user \in BOOLEAN : ~protect_page(v, user)
       /\ \A r \in Regions : ~uacpi_kernel_map(r)
  BY <1>2 DEF map_page, unmap_page, protect_page, uacpi_kernel_map, Ready
<1>12. ~map_region_page /\ ~map_region_returns /\ ~others_allocate
  BY <1>2, <1>3 DEF map_region_page, map_region_returns, others_allocate
<1>13. QED
  BY <1>5, <1>6, <1>7, <1>8, <1>9, <1>10, <1>11, <1>12 DEF Next

\* When map_page reports of a 4 KiB page success, or that it is mapped, it is mapped.  (Of a
\* huge page it says so, too, when a directory is in its place.)
LEMMA MapReturns ==
    ASSUME IInv, map_already \/ map_leaf, call.size = 1
    PROVE  /\ call.op = "map" /\ call \in Calls /\ call'.op = "none"
           /\ Leaf(table', call.v).size # 0
           /\ map_leaf => Leaf(table', call.v).size = 1
           /\ map_already => table' = table
           /\ to_map' = to_map \ {call.p}
<1> USE DEF IInv
<1>1. call.op = "map" /\ to_map' = to_map \ {call.p} /\ call'.op = "none"
  BY DEF map_already, map_leaf, Running, left_to_map, returns, Idle
<1>2. call \in Calls /\ call.v \in VirtPages /\ Canon(call.v) /\ Kept(call.v)
  BY <1>1 DEF CallInv, Calls, Kept
<1>3. CASE map_leaf
  <2>1. MapsBlock
    BY <1>3, MapLeafStep
  <2>2. Leaf(table', call.v) = [v |-> call.v, size |-> call.size, p |-> call.p]
    BY <1>2, <2>1 DEF MapsBlock, SameBlock
  <2>3. call.size \in 1..3
    BY <1>2 DEF Calls
  <2>4. ~map_already
    BY <1>3 DEF map_leaf, map_already, blocks
  <2>5. QED
    BY <1>1, <1>2, <2>2, <2>3, <2>4
<1>4. CASE map_already
  <2>1. table' = table
    BY <1>4 DEF map_already
  <2>2. Entry.present /\ (call.level = 1 \/ ~has_subtable(Entry))
    BY <1>4 DEF map_already, blocks, LeafAllowed, has_subtable
  <2>3. EndEntry(table, call.v).present
    BY <1>1, <2>2, AtEntry
  <2>4. End(table, call.v) \in 1..3 /\ Leaf(table, call.v).size = End(table, call.v)
    BY <1>2, <2>3, LeafFacts DEF TablesInv
  <2>5. ~map_leaf
    BY <1>4 DEF map_leaf, map_already, blocks
  <2>6. QED
    BY <1>1, <1>2, <2>1, <2>4, <2>5
<1>5. QED
  BY <1>3, <1>4

LEMMA RamStep ==
    ASSUME IInv, [Next]_vars
    PROVE  RamInv'
<1> USE DEF IInv
<1> SUFFICES ASSUME NEW p \in Ram, p \notin to_map', p \div Span[3] # KernelPdpt,
                    HHDM_BASE + p \notin UnmapCalls
             PROVE  Leaf(table', HHDM_BASE + p).size = 1
  BY DEF RamInv
<1> DEFINE a == HHDM_BASE + p
<1>1. p \in PhysPages /\ ~Boot(a) /\ a \in VirtPages /\ Canon(a) /\ Kept(a)
  BY RamNotBoot
<1>2. to_map' = to_map \/ map_already \/ map_leaf
  BY DEF Next, vars, initialize_map, map_page, map_descend, map_alloc, map_out_of_memory,
         map_fault, unmap_page, unmap_descend, not_mapped, unmap_leaf,
         protect_page, protect_descend, protect_leaf, uacpi_kernel_map, map_region_page,
         map_region_returns, others_allocate, descend, access
<1> SUFFICES Leaf(table', a).size = 1
  OBVIOUS
<1> HIDE DEF a
<1>3. CASE p \notin to_map
  <2>1. Leaf(table, a).size = 1
    BY <1>3 DEF RamInv, a
  <2>2. CASE SameLeaves
    BY <1>1, <2>1, <2>2 DEF SameLeaves
  <2>3. CASE map_leaf /\ MapsBlock
    BY <1>1, <2>1, <2>3 DEF MapsBlock
  <2>4. CASE unmap_leaf /\ UnmapsBlock /\ call \in Calls /\ call.level \in 1..3 /\ call.v \in UnmapCalls
    <3>1. CASE SameBlock(call.v, a, call.level)
      <4>1. call.level = 1
        BY <1>1, <2>1, <2>4, <3>1 DEF UnmapsBlock
      <4>2. a = call.v
        BY <1>1, <2>4, <3>1, <4>1, PrefixFacts DEF SameBlock, Calls
      <4>3. QED
        BY <2>4, <4>2 DEF a
    <3>2. CASE ~SameBlock(call.v, a, call.level)
      BY <1>1, <2>1, <2>4, <3>2 DEF UnmapsBlock
    <3>3. QED
      BY <3>1, <3>2
  <2>5. QED
    BY <2>2, <2>3, <2>4, TablesStep
<1>4. CASE p \in to_map
  <2>1. map_already \/ map_leaf
    BY <1>2, <1>4
  <2>2. /\ call.op = "map" /\ p = call.p /\ Leaf(table', call.v).size # 0
        /\ (map_leaf => Leaf(table', call.v).size = 1)
        /\ (map_already => table' = table)
    <3>1. call.size = 1 /\ call.op = "map"
      BY <1>4, <2>1 DEF InitInv, map_already, map_leaf, Running
    <3>2. /\ to_map' = to_map \ {call.p} /\ Leaf(table', call.v).size # 0
          /\ (map_leaf => Leaf(table', call.v).size = 1)
          /\ (map_already => table' = table)
      BY <2>1, <3>1, MapReturns
    <3>3. QED
      BY <1>4, <3>1, <3>2
  <2>3. /\ call.v = a
        /\ \A v \in VirtPages : Canon(v) /\ ~Boot(v) => Leaf(table, v).size \in {0, 1}
    BY <1>4, <2>2 DEF InitInv, a
  <2>4. Leaf(table', a).size # 0 /\ Leaf(table, a).size \in {0, 1}
    BY <1>1, <2>2, <2>3
  <2>5. QED
    BY <2>1, <2>2, <2>3, <2>4
<1>5. QED
  BY <1>3, <1>4

\* The loop of uacpi_kernel_map goes on only while its pages are mapped.
LEMMA RegionStep ==
    ASSUME IInv, [Next]_vars
    PROVE  RegionInv'
<1> USE DEF IInv
<1>1. CASE region' = NoRegion
  <2>1. region'.at = "none"
    BY <1>1 DEF NoRegion
  <2>2. QED
    BY <2>1 DEF RegionInv
<1>2. ASSUME NEW r \in Regions, uacpi_kernel_map(r) PROVE RegionInv'
  <2>1. /\ region' = [at |-> "loop", addr |-> r.addr, len |-> r.len, i |-> 0]
        /\ call' = call /\ call.op = "none" /\ to_map' = {}
    BY <1>2 DEF uacpi_kernel_map, Ready, Running
  <2>2. /\ r.addr \in Nat /\ r.len \in Nat \ {0}
        /\ (r.addr + r.len - 1) \div PAGE_SIZE \in PhysPages
    BY PagingAssumption
  <2>3. /\ region' \in Ranges /\ region'.at = "loop" /\ region'.i = 0
        /\ (region'.addr + region'.len - 1) \div PAGE_SIZE \in PhysPages
    BY <2>1, <2>2 DEF Ranges
  <2>4. num_pages(region)' \in Nat
    <3>1. PAGE_SIZE \in Nat \ {0} /\ region'.len \in Nat \ {0} /\ region'.addr \in Nat
      BY <2>3, PagingAssumption DEF Ranges
    <3>2. PICK j \in Nat : j = region'.addr % PAGE_SIZE
      BY <3>1, DivMod
    <3>3. PICK x \in Nat : x = region'.len + j + PAGE_SIZE - 1
      BY <3>1
    <3>4. num_pages(region') = x \div PAGE_SIZE
      BY <3>2, <3>3 DEF num_pages
    <3>5. x \div PAGE_SIZE \in Nat
      BY <3>1, DivMod
    <3>6. QED
      BY <3>4, <3>5
  <2>5. region'.i <= num_pages(region')
    BY <2>3, <2>4
  <2>6. \A j \in 0..(region'.i - 1) : FALSE
    BY <2>3
  <2>7. QED
    BY <2>1, <2>3, <2>5, <2>6 DEF RegionInv
<1>3. ASSUME map_region_page PROVE RegionInv'
  <2>1. /\ call.op = "none" /\ region.at = "loop" /\ region.i < num_pages(region)
        /\ region.i = 0 \/ good(result)
        /\ start("map", HHDM_BASE + PageAt(region.i), PageAt(region.i), 1, FALSE)
        /\ region' = [region EXCEPT !.i = @ + 1]
        /\ table' = table /\ to_map' = to_map
    BY <1>3 DEF map_region_page, Running, PageAt
  <2>2. /\ region \in Ranges /\ to_map = {} /\ region.i \in Nat
        /\ (region.addr + region.len - 1) \div PAGE_SIZE \in PhysPages
        /\ \A j \in 0..(region.i - 1) : Done(j) \/ (j = region.i - 1 /\ ~good(result))
    BY <2>1 DEF RegionInv, Ranges
  <2>3. /\ region' \in Ranges /\ region'.at = "loop" /\ region'.i = region.i + 1
        /\ region'.addr = region.addr /\ region'.len = region.len
    BY <2>1, <2>2 DEF Ranges
  <2>4. num_pages(region') = num_pages(region) /\ num_pages(region) \in Nat
    BY <2>2, <2>3, RangePages DEF num_pages
  <2>5. \A j \in 0..(region.i - 1) : Done(j)
    BY <2>1, <2>2
  <2>6. PageAt(region.i - 1)' = PageAt(region.i) /\ \A j \in 0..(region.i - 1) : Done(j)'
    <3>1. region.addr \div PAGE_SIZE \in Nat
      <4>1. region.addr \in Nat
        BY <2>2 DEF Ranges
      <4>2. QED
        BY <4>1, PagingAssumption, DivMod
    <3>2. region'.addr \div PAGE_SIZE = region.addr \div PAGE_SIZE
      BY <2>3
    <3>3. region'.i - 1 = region.i
      BY <2>2, <2>3
    <3>4. \A j \in 0..(region.i - 1) : PageAt(j)' = PageAt(j)
      BY <2>3 DEF PageAt
    <3>5. \A j \in 0..(region.i - 1) : Done(j)'
      BY <2>1, <2>5, <3>4 DEF Done
    <3>6. QED
      BY <3>2, <3>3, <3>5 DEF PageAt
  <2>7. call'.op = "map" /\ call'.size = 1 /\ call'.v = HHDM_BASE + PageAt(region.i)
    BY <2>1 DEF start
  <2>8. \A j \in 0..(region'.i - 1) : j \in 0..(region.i - 1) \/ j = region'.i - 1
    BY <2>2, <2>3
  <2>9. /\ region'.i > 0 /\ region'.i <= num_pages(region') /\ to_map' = {}
        /\ (region'.addr + region'.len - 1) \div PAGE_SIZE \in PhysPages
        /\ call'.v = HHDM_BASE + PageAt(region.i - 1)'
        /\ \A j \in 0..(region'.i - 1) : Done(j)' \/ (j = region'.i - 1 /\ call'.op # "none")
    BY <2>1, <2>2, <2>3, <2>4, <2>6, <2>7, <2>8
  <2>10. QED
    BY <2>3, <2>7, <2>9 DEF RegionInv
<1>4. ASSUME map_region_returns PROVE RegionInv'
  <2>1. /\ call.op = "none" /\ call' = call /\ region.at = "loop"
        /\ table' = table /\ to_map' = to_map /\ result' = result
    BY <1>4 DEF map_region_returns, Running
  <2>2. /\ region \in Ranges /\ to_map = {} /\ region.i \in Nat /\ region.i <= num_pages(region)
        /\ (region.addr + region.len - 1) \div PAGE_SIZE \in PhysPages
        /\ \A j \in 0..(region.i - 1) : Done(j) \/ (j = region.i - 1 /\ ~good(result))
    BY <2>1 DEF RegionInv, Ranges
  <2>3. CASE region.i = num_pages(region) /\ good(result) /\ region' = [region EXCEPT !.at = "mapped"]
    <3>1. /\ region' \in Ranges /\ region'.at = "mapped" /\ region'.i = region.i
          /\ region'.addr = region.addr /\ region'.len = region.len
      BY <2>2, <2>3 DEF Ranges
    <3>2. num_pages(region') = num_pages(region)
      BY <3>1 DEF num_pages
    <3>3. \A j \in 0..(region.i - 1) : Done(j)'
      BY <2>1, <2>2, <2>3, <3>1 DEF Done, PageAt
    <3>4. QED
      BY <2>1, <2>2, <2>3, <3>1, <3>2, <3>3 DEF RegionInv
  <2>4. CASE region' = [region EXCEPT !.at = "nullptr"]
    <3>1. /\ region' \in Ranges /\ region'.at = "nullptr" /\ region'.i = region.i
          /\ region'.addr = region.addr /\ region'.len = region.len
      BY <2>2, <2>4 DEF Ranges
    <3>2. num_pages(region') = num_pages(region)
      BY <3>1 DEF num_pages
    <3>3. QED
      BY <2>1, <2>2, <3>1, <3>2 DEF RegionInv
  <2>5. QED
    BY <1>4, <2>3, <2>4 DEF map_region_returns
<1>5. ASSUME region' = region, to_map' \subseteq to_map,
             \/ call.op = "none" /\ (call'.op = "none" \/ to_map # {}) /\ table' = table
                /\ result' = result
             \/ map_descend \/ map_alloc \/ map_out_of_memory \/ map_fault
             \/ map_already \/ map_leaf
             \/ unmap_descend \/ not_mapped \/ unmap_leaf \/ protect_descend \/ protect_leaf
             \/ call' = call /\ table' = table /\ result' = result
      PROVE  RegionInv'
  <2>1. CASE region.at = "none"
    BY <1>5, <2>1 DEF RegionInv
  <2>2. ASSUME region.at # "none"
        PROVE  /\ region \in Ranges /\ region.i \in Nat /\ region.i <= num_pages(region)
               /\ to_map = {} /\ to_map' = {} /\ num_pages(region) \in Nat
               /\ (region.addr + region.len - 1) \div PAGE_SIZE \in PhysPages
               /\ \A j \in 0..(region.i - 1) :
                     PageAt(j) \in PhysPages /\ HHDM_BASE + PageAt(j) \in VirtPages
                     /\ Kept(HHDM_BASE + PageAt(j))
    <3>1. /\ region \in Ranges /\ region.i <= num_pages(region) /\ to_map = {}
          /\ (region.addr + region.len - 1) \div PAGE_SIZE \in PhysPages
      BY <2>2 DEF RegionInv
    <3>2. region.i \in Nat
      BY <3>1 DEF Ranges
    <3>3. /\ num_pages(region) \in Nat
          /\ \A j \in 0..(num_pages(region) - 1) : PageAt(j) \in PhysPages
      BY <3>1, RangePages
    <3>4. \A j \in 0..(region.i - 1) : PageAt(j) \in PhysPages
      BY <3>1, <3>2, <3>3
    <3>5. QED
      BY <1>5, <3>1, <3>2, <3>3, <3>4, HhdmFacts
  <2>3. CASE region.at \in {"mapped", "nullptr"}
    <3>1. call.op = "none"
      BY <2>3 DEF RegionInv
    <3>2. call'.op = "none" /\ table' = table
      BY <1>5, <2>2, <2>3, <3>1 DEF map_descend, map_alloc, map_out_of_memory, map_fault,
           map_already, map_leaf, unmap_descend, not_mapped, unmap_leaf, protect_descend,
           protect_leaf, Running
    <3>3. region.at = "mapped" => \A j \in 0..(region.i - 1) : Done(j)'
      BY <1>5, <2>3, <3>2 DEF RegionInv, Done, PageAt
    <3>4. QED
      BY <1>5, <2>2, <2>3, <3>2, <3>3 DEF RegionInv
  <2>4. CASE region.at = "loop"
    <3>1. /\ \A j \in 0..(region.i - 1) :
                Done(j) \/ (j = region.i - 1 /\ (call.op # "none" \/ ~good(result)))
          /\ call.op # "none" => /\ call.op = "map" /\ call.size = 1 /\ region.i > 0
                                 /\ call.v = HHDM_BASE + PageAt(region.i - 1)
      BY <2>4 DEF RegionInv
    <3>2. ~unmap_descend /\ ~not_mapped /\ ~unmap_leaf /\ ~protect_descend /\ ~protect_leaf
      BY <3>1 DEF unmap_descend, not_mapped, unmap_leaf, protect_descend, protect_leaf, Running
    <3>3. ASSUME NEW j \in 0..(region.i - 1), Done(j) PROVE Done(j)'
      <4> DEFINE a == HHDM_BASE + PageAt(j)
      <4>1. a \in VirtPages /\ Kept(a) /\ PageAt(j)' = PageAt(j)
        BY <1>5, <2>2, <2>4 DEF PageAt
      <4>2. Leaf(table, a).size # 0 => Leaf(table', a).size # 0
        <5> HIDE DEF a
        <5>1. CASE SameLeaves
          BY <4>1, <5>1 DEF SameLeaves
        <5>2. CASE map_leaf /\ MapsBlock
          BY <4>1, <5>2 DEF MapsBlock
        <5>3. QED
          BY <3>2, <5>1, <5>2, TablesStep
      <4>3. QED
        BY <3>3, <4>1, <4>2 DEF Done
    <3>4. CASE map_descend \/ map_alloc
      <4>1. call.op = "map" /\ \E f : call' = [call EXCEPT !.level = @ - 1, !.t = f]
        BY <3>4 DEF map_descend, map_alloc, descend, Running
      <4>2. call \in Calls
        BY <4>1 DEF CallInv
      <4>3. call'.op = "map" /\ call'.size = call.size /\ call'.v = call.v
        BY <4>1, <4>2 DEF Calls
      <4>4. PageAt(region.i - 1)' = PageAt(region.i - 1)
        BY <1>5 DEF PageAt
      <4>5. QED
        BY <1>5, <2>2, <2>4, <3>1, <3>3, <4>1, <4>3, <4>4 DEF RegionInv
    <3>5. CASE map_out_of_memory \/ map_fault
      <4>1. call.op = "map" /\ call'.op = "none" /\ ~good(result')
        BY <3>5 DEF map_out_of_memory, map_fault, returns, Idle, Running, good
      <4>2. QED
        BY <1>5, <2>2, <2>4, <3>1, <3>3, <4>1 DEF RegionInv, good
    <3>6. CASE map_already \/ map_leaf
      <4>1. call.op = "map"
        BY <3>6 DEF map_already, map_leaf, Running
      <4>2. /\ call.size = 1 /\ region.i > 0 /\ call.v = HHDM_BASE + PageAt(region.i - 1)
        BY <3>1, <4>1
      <4>3. call'.op = "none" /\ Leaf(table', call.v).size # 0
        BY <3>6, <4>2, MapReturns
      <4>4. \A j \in 0..(region.i - 1) : j = region.i - 1 => Done(j)'
        BY <1>5, <4>2, <4>3 DEF Done, PageAt
      <4>5. \A j \in 0..(region.i - 1) : Done(j)'
        BY <3>1, <3>3, <4>4
      <4>6. QED
        BY <1>5, <2>2, <2>4, <4>3, <4>5 DEF RegionInv
    <3>7. CASE call'.op = "none" /\ call.op = "none" /\ table' = table /\ result' = result
      <4>1. \A j \in 0..(region.i - 1) : Done(j)' \/ (j = region.i - 1 /\ ~good(result'))
        BY <3>1, <3>3, <3>7
      <4>2. QED
        BY <1>5, <2>2, <2>4, <3>7, <4>1 DEF RegionInv, good
    <3>8. CASE call' = call /\ table' = table /\ result' = result
      <4>1. PageAt(region.i - 1)' = PageAt(region.i - 1)
        BY <1>5 DEF PageAt
      <4>2. QED
        BY <1>5, <2>2, <2>4, <3>1, <3>3, <3>8, <4>1 DEF RegionInv, good
    <3>9. QED
      BY <1>5, <2>2, <2>4, <3>2, <3>4, <3>5, <3>6, <3>7, <3>8
  <2>5. QED
    BY <2>1, <2>3, <2>4 DEF RegionInv
<1>6. QED
  <2>1. CASE UNCHANGED vars
    BY <1>5, <2>1 DEF vars
  <2>2. CASE initialize_map
    BY <1>5, <2>2 DEF initialize_map, Running, RegionInv
  <2>3. CASE \/ map_descend \/ map_alloc \/ map_out_of_memory \/ map_fault \/ map_already \/ map_leaf
             \/ unmap_descend \/ not_mapped \/ unmap_leaf \/ protect_descend \/ protect_leaf
    <3>1. region' = region /\ to_map' \subseteq to_map
      BY <2>3 DEF map_descend, map_alloc, map_out_of_memory, map_fault, map_already, map_leaf,
           unmap_descend, not_mapped, unmap_leaf, protect_descend, protect_leaf, descend, left_to_map
    <3>2. QED
      BY <1>5, <2>3, <3>1
  <2>4. CASE (\E v \in Accesses : access(v)) \/ others_allocate
    BY <1>5, <2>4 DEF access, others_allocate
  <2>5. ASSUME \/ \E c \in MapCalls : map_page(c)
               \/ \E v \in UnmapCalls : unmap_page(v)
               \/ \E v \in UnmapCalls, user \in BOOLEAN : protect_page(v, user)
        PROVE  RegionInv'
    BY <1>1, <2>5 DEF map_page, unmap_page, protect_page
  <2>6. QED
    BY <1>2, <1>3, <1>4, <2>1, <2>2, <2>3, <2>4, <2>5 DEF Next


\* What boot.asm leaves.
LEMMA BootEntries ==
    /\ DOMAIN BootTables = {P4, P3, P2}
    /\ \A i \in Slots :
         /\ BootTables[P2][i] = make_leaf(i * Span[2], FALSE, 2)
         /\ i * Span[2] \in PhysPages /\ (i * Span[2]) % Span[2] = 0
         /\ BootTables[P4][i] = IF i \in {HhdmSlot, KernelSlot} THEN make_table(P3, FALSE) ELSE Empty
         /\ BootTables[P3][i] = IF i \in {0, KernelPdpt} THEN make_table(P2, FALSE) ELSE Empty
    /\ KernelKept(BootTables)
    /\ TypedTables(BootTables)
<1>1. P4 # P3 /\ P4 # P2 /\ P3 # P2 /\ {P4, P3, P2} \subseteq PhysPages
  BY PagingAssumption
<1>2. DOMAIN BootTables = {P4, P3, P2}
  BY DEF BootTables
<1>3. ASSUME NEW i \in Slots
      PROVE  /\ BootTables[P2][i] = make_leaf(i * Span[2], FALSE, 2)
             /\ BootTables[P4][i] = IF i \in {HhdmSlot, KernelSlot} THEN make_table(P3, FALSE) ELSE Empty
             /\ BootTables[P3][i] = IF i \in {0, KernelPdpt} THEN make_table(P2, FALSE) ELSE Empty
  BY <1>1 DEF BootTables
<1>4. ASSUME NEW i \in Slots
      PROVE  i * Span[2] \in PhysPages /\ (i * Span[2]) % Span[2] = 0
  <2>1. /\ Span[2] \in Nat \ {0} /\ Span[3] = Span[2] * Fan /\ Span[4] = Span[3] * Fan
        /\ Span[3] \in Nat \ {0} /\ Span[4] \in Nat \ {0} /\ Fan \in Nat \ {0}
    BY SpanFacts DEF Levels
  <2>2. i \in Nat /\ i < Fan
    BY <2>1 DEF Slots
  <2>3. i * Span[2] + Span[2] <= Fan * Span[2]
    BY <2>1, <2>2, NextMultiple
  <2>4. Span[3] <= Span[4]
    BY <2>1
  <2>5. i * Span[2] \in Nat /\ Fan * Span[2] = Span[3]
    BY <2>1, <2>2
  <2>6. i * Span[2] < Span[4]
    BY <2>1, <2>3, <2>4, <2>5
  <2>7. (i * Span[2]) % Span[2] = 0
    BY <2>1, <2>2, MultipleMod, Zenon
  <2>8. QED
    BY <2>5, <2>6, <2>7, <2>1 DEF PhysPages
<1>5. KernelKept(BootTables)
  <2>1. BootTables[P2] = [i \in Slots |-> BootTables[P2][i]]
    BY <1>1 DEF BootTables
  <2>2. QED
    BY <1>3, <2>1 DEF KernelKept
<1>6. TypedTables(BootTables)
  <2>1. 0 \in PhysPages
    BY NoTableFacts DEF PhysPages
  <2>2. BootTables = [t \in DOMAIN BootTables |-> BootTables[t]]
    BY DEF BootTables
  <2>3. ASSUME NEW t \in {P4, P3, P2} PROVE BootTables[t] \in [Slots -> Entries]
    <3>1. BootTables[t] = [i \in Slots |-> BootTables[t][i]]
      BY DEF BootTables
    <3>2. ASSUME NEW i \in Slots PROVE BootTables[t][i] \in Entries
      <4>1. Empty \in Entries
        BY <2>1 DEF Empty, Entries
      <4>2. make_table(P3, FALSE) \in Entries /\ make_table(P2, FALSE) \in Entries
        BY <1>1 DEF make_table, Entries
      <4>3. make_leaf(i * Span[2], FALSE, 2) \in Entries
        BY <1>4 DEF make_leaf, Entries
      <4>4. QED
        BY <1>3, <4>1, <4>2, <4>3
    <3>3. QED
      BY <3>1, <3>2
  <2>4. QED
    BY <1>1, <1>2, <2>2, <2>3 DEF TypedTables
<1>7. QED
  BY <1>2, <1>3, <1>4, <1>5, <1>6

LEMMA BootTree ==
    /\ LV(BootTables)[1] = {} /\ LV(BootTables)[2] = {P2}
    /\ LV(BootTables)[3] = {P3} /\ LV(BootTables)[4] = {P4}
    /\ Tree(BootTables)
<1> DEFINE tb == BootTables
<1>1. P4 # P3 /\ P4 # P2 /\ P3 # P2 /\ {HhdmSlot, KernelSlot, KernelPdpt, 0} \subseteq Slots
  BY PagingAssumption DEF Slots
<1>2. /\ DOMAIN tb = {P4, P3, P2} /\ TypedTables(tb)
      /\ \A i \in Slots :
           /\ tb[P2][i] = make_leaf(i * Span[2], FALSE, 2)
           /\ i * Span[2] \in PhysPages /\ (i * Span[2]) % Span[2] = 0
           /\ tb[P4][i] = IF i \in {HhdmSlot, KernelSlot} THEN make_table(P3, FALSE) ELSE Empty
           /\ tb[P3][i] = IF i \in {0, KernelPdpt} THEN make_table(P2, FALSE) ELSE Empty
  BY BootEntries
<1> HIDE DEF tb
<1>3. /\ \A p : has_subtable(make_table(p, FALSE)) /\ make_table(p, FALSE).p = p
      /\ ~has_subtable(Empty)
      /\ \A i : ~has_subtable(make_leaf(i, FALSE, 2))
  <2>1. 2 \in 1..3 /\ 2 # 1
    OBVIOUS
  <2>2. \A i : ~has_subtable(make_leaf(i, FALSE, 2))
    BY <2>1, LeafIsNoLink, Zenon
  <2>3. /\ \A p : has_subtable(make_table(p, FALSE)) /\ make_table(p, FALSE).p = p
        /\ ~has_subtable(Empty)
    BY DEF has_subtable, make_table, Empty
  <2>4. QED
    BY <2>2, <2>3
<1>4. Links(tb, {P4}) = P3Places /\ \A x \in P3Places : Target(tb, x) = P3
  <2>1. \A x \in {P4} \X Slots : has_subtable(tb[x[1]][x[2]]) <=> x \in P3Places
    <3> TAKE x \in {P4} \X Slots
    <3>1. x = <<P4, x[2]>> /\ x[2] \in Slots
      OBVIOUS
    <3>2. x \in P3Places <=> x[2] \in {HhdmSlot, KernelSlot}
      BY <3>1 DEF P3Places
    <3>3. x[1] = P4 /\ x[2] \in Slots /\ tb[x[1]][x[2]] = tb[P4][x[2]]
      OBVIOUS
    <3>4. has_subtable(tb[P4][x[2]]) <=> x[2] \in {HhdmSlot, KernelSlot}
      <4>1. CASE x[2] \in {HhdmSlot, KernelSlot}
        <5>1. tb[P4][x[2]] = make_table(P3, FALSE)
          BY <1>2, <3>3, <4>1
        <5>2. QED
          BY <1>3, <4>1, <5>1, Zenon
      <4>2. CASE x[2] \notin {HhdmSlot, KernelSlot}
        <5>1. tb[P4][x[2]] = Empty
          BY <1>2, <3>3, <4>2
        <5>2. QED
          BY <1>3, <4>2, <5>1, Zenon
      <4>3. QED
        BY <4>1, <4>2
    <3>5. QED
      BY <3>2, <3>3, <3>4
  <2>2. P3Places \subseteq {P4} \X Slots
    BY <1>1 DEF P3Places
  <2>3. Links(tb, {P4}) = P3Places
    BY <2>1, <2>2 DEF Links
  <2>4. ASSUME NEW x \in P3Places PROVE Target(tb, x) = P3
    <3>1. x[1] = P4 /\ x[2] \in {HhdmSlot, KernelSlot} /\ x[2] \in Slots
      BY <1>1 DEF P3Places
    <3>2. QED
      BY <1>2, <1>3, <3>1 DEF Target
  <2>5. QED
    BY <2>3, <2>4
<1>5. Links(tb, {P3}) = P2Places /\ \A x \in P2Places : Target(tb, x) = P2
  <2>1. \A x \in {P3} \X Slots : has_subtable(tb[x[1]][x[2]]) <=> x \in P2Places
    <3> TAKE x \in {P3} \X Slots
    <3>1. x = <<P3, x[2]>> /\ x[2] \in Slots
      OBVIOUS
    <3>2. x \in P2Places <=> x[2] \in {0, KernelPdpt}
      BY <3>1 DEF P2Places
    <3>3. x[1] = P3 /\ x[2] \in Slots /\ tb[x[1]][x[2]] = tb[P3][x[2]]
      OBVIOUS
    <3>4. has_subtable(tb[P3][x[2]]) <=> x[2] \in {0, KernelPdpt}
      <4>1. CASE x[2] \in {0, KernelPdpt}
        <5>1. tb[P3][x[2]] = make_table(P2, FALSE)
          BY <1>2, <3>3, <4>1
        <5>2. QED
          BY <1>3, <4>1, <5>1, Zenon
      <4>2. CASE x[2] \notin {0, KernelPdpt}
        <5>1. tb[P3][x[2]] = Empty
          BY <1>2, <3>3, <4>2
        <5>2. QED
          BY <1>3, <4>2, <5>1, Zenon
      <4>3. QED
        BY <4>1, <4>2
    <3>5. QED
      BY <3>2, <3>3, <3>4
  <2>2. P2Places \subseteq {P3} \X Slots
    BY <1>1 DEF P2Places
  <2>3. Links(tb, {P3}) = P2Places
    BY <2>1, <2>2 DEF Links
  <2>4. ASSUME NEW x \in P2Places PROVE Target(tb, x) = P2
    <3>1. x[1] = P3 /\ x[2] \in {0, KernelPdpt} /\ x[2] \in Slots
      BY <1>1 DEF P2Places
    <3>2. QED
      BY <1>2, <1>3, <3>1 DEF Target
  <2>5. QED
    BY <2>3, <2>4
<1>6. Links(tb, {P2}) = {}
  <2>1. \A x \in {P2} \X Slots : ~has_subtable(tb[x[1]][x[2]])
    <3> TAKE x \in {P2} \X Slots
    <3>1. x[1] = P2 /\ x[2] \in Slots
      OBVIOUS
    <3>2. QED
      BY <1>2, <1>3, <3>1
  <2>2. QED
    BY <2>1 DEF Links
<1>7. LV(tb)[1] = {} /\ LV(tb)[2] = {P2} /\ LV(tb)[3] = {P3} /\ LV(tb)[4] = {P4}
  <2>1. LV(tb)[4] = {P4} /\ LV(tb)[3] = Below(tb, {P4})
    BY LevelFacts
  <2>2. Below(tb, {P4}) = {P3}
    <3>1. <<P4, HhdmSlot>> \in P3Places
      BY DEF P3Places
    <3>2. QED
      BY <1>4, <3>1 DEF Below
  <2>3. Below(tb, {P3}) = {P2}
    <3>1. <<P3, 0>> \in P2Places
      BY DEF P2Places
    <3>2. QED
      BY <1>5, <3>1 DEF Below
  <2>4. Below(tb, {P2}) = {}
    BY <1>6 DEF Below
  <2>5. QED
    BY <2>1, <2>2, <2>3, <2>4, LevelFacts
<1>8. BootLinks(tb)
  <2>1. \A x \in P3Places : x[1] = P4 /\ x[2] \in {HhdmSlot, KernelSlot}
    BY DEF P3Places
  <2>2. \A x \in P2Places : x[1] = P3 /\ x[2] \in {0, KernelPdpt}
    BY DEF P2Places
  <2>3. QED
    BY <1>1, <1>2, <2>1, <2>2 DEF BootLinks
<1>9. LevelsCover(tb) /\ LevelsApart(tb)
  BY <1>1, <1>2, <1>7, LevelFacts DEF LevelsCover, LevelsApart
<1>10. LinksApart(tb)
  <2>1. \A l \in 2..4 : Links(tb, LV(tb)[l]) \subseteq P3Places
                        \/ Links(tb, LV(tb)[l]) \subseteq P2Places
    BY <1>4, <1>5, <1>6, <1>7, LevelFacts
  <2>2. \A x \in P3Places, y \in P2Places : Target(tb, x) # Target(tb, y)
    BY <1>1, <1>4, <1>5
  <2>3. QED
    BY <2>1, <2>2 DEF LinksApart, Twins
<1>11. LeavesOk(tb)
  <2> SUFFICES ASSUME NEW l \in Levels, NEW t \in LV(tb)[l], NEW i \in Slots
               PROVE  LeafOk(tb[t][i], l)
    BY DEF LeavesOk
  <2>1. (l = 2 /\ t = P2) \/ (l = 3 /\ t = P3) \/ (l = 4 /\ t = P4)
    BY <1>7, LevelFacts
  <2>2. CASE l = 2 /\ t = P2
    <3>1. make_leaf(i * Span[2], FALSE, 2).p = i * Span[2]
      BY DEF make_leaf
    <3>2. QED
      BY <1>2, <2>2, <3>1 DEF LeafOk
  <2>3. \A p : LeafOk(make_table(p, FALSE), 3) /\ LeafOk(make_table(p, FALSE), 4)
    BY DEF LeafOk, IsLeaf, make_table
  <2>4. LeafOk(Empty, 3) /\ LeafOk(Empty, 4)
    BY DEF LeafOk, IsLeaf, Empty
  <2>5. QED
    BY <1>2, <2>1, <2>2, <2>3, <2>4
<1>12. QED
  BY <1>2, <1>7, <1>8, <1>9, <1>10, <1>11 DEF Tree, tb

LEMMA BootLeaf ==
    ASSUME NEW v \in VirtPages, ~Boot(v)
    PROVE  Leaf(BootTables, v).size = 0
<1> DEFINE tb == BootTables
           n == End(tb, v)
           t == Path(tb, v)[n]
           i == decompose(v, n)
<1>1. Tree(tb)
  BY BootTree
<1>2. /\ n \in Levels /\ t \in LV(tb)[n] /\ i \in Slots /\ EndEntry(tb, v) = tb[t][i]
      /\ n # 1 => ~has_subtable(tb[t][i])
  BY <1>1, EndFacts DEF EndEntry
<1>3. n # 1
  BY <1>2, BootTree
<1>4. n # 2
  <2> SUFFICES ASSUME n = 2 PROVE FALSE
    OBVIOUS
  <2>1. Path(tb, v)[2] = P2
    BY <1>2, BootTree
  <2>2. QED
    BY <1>1, <2>1, PathP2
<1>5. tb[t][i] = Empty
  <2>1. t = P3 \/ t = P4
    BY <1>2, <1>3, <1>4, BootTree, LevelFacts
  <2>2. \A p : has_subtable(make_table(p, FALSE))
    BY DEF has_subtable, make_table
  <2> HIDE DEF t, i, n
  <2>3. tb[t][i] = Empty \/ tb[t][i] = make_table(P3, FALSE) \/ tb[t][i] = make_table(P2, FALSE)
    <3>1. /\ tb[P4][i] = IF i \in {HhdmSlot, KernelSlot} THEN make_table(P3, FALSE) ELSE Empty
          /\ tb[P3][i] = IF i \in {0, KernelPdpt} THEN make_table(P2, FALSE) ELSE Empty
      BY <1>2, BootEntries
    <3> HIDE DEF tb
    <3>2. QED
      BY <2>1, <3>1
  <2>4. ~has_subtable(tb[t][i])
    BY <1>2, <1>3
  <2> HIDE DEF tb
  <2>5. QED
    BY <2>2, <2>3, <2>4, Zenon
<1>6. ~EndEntry(tb, v).present
  BY <1>2, <1>5 DEF Empty
<1>7. QED
  BY <1>6, NoLeafFacts

\* The first gigabyte of the HHDM, as p2_table maps it.
LEMMA BootExact ==
    ASSUME NEW v \in VirtPages, decompose(v, 4) = HhdmSlot, decompose(v, 3) = 0
    PROVE  v - (v % Span[2]) = HHDM_BASE + decompose(v, 2) * Span[2]
<1> DEFINE d == decompose(v, 2)
<1>1. /\ Span[2] = Fan /\ Span[3] = Fan * Fan /\ Span[4] = Fan * Fan * Fan /\ Fan \in Nat \ {0}
  BY SpanFacts DEF Span
<1>2. HhdmSlot \in Nat /\ d \in Nat
  BY PrefixFacts, PagingAssumption DEF Slots, Levels
<1>3. /\ Prefix(v, 5) = 0 /\ Prefix(v, 4) = Prefix(v, 5) * Fan + decompose(v, 4)
      /\ Prefix(v, 3) = Prefix(v, 4) * Fan + decompose(v, 3)
      /\ Prefix(v, 2) = Prefix(v, 3) * Fan + d
  BY PrefixFacts DEF Levels
<1>4. v - (v % Span[2]) = Prefix(v, 2) * Span[2]
  BY BlockFacts DEF Base
<1> HIDE DEF d
<1>5. Prefix(v, 4) = HhdmSlot
  <2>1. 0 * Fan = 0
    BY <1>1
  <2>2. QED
    BY <1>2, <1>3, <2>1
<1>6. Prefix(v, 3) = HhdmSlot * Fan
  <2>1. HhdmSlot * Fan \in Nat
    BY <1>1, <1>2
  <2>2. QED
    BY <1>3, <1>5, <2>1
<1>7. Prefix(v, 2) * Fan = (HhdmSlot * Fan * Fan) * Fan + d * Fan
  <2>1. Prefix(v, 2) = HhdmSlot * Fan * Fan + d
    BY <1>3, <1>6
  <2> DEFINE h == HhdmSlot * Fan * Fan
  <2>2. h \in Nat /\ Prefix(v, 2) = h + d
    BY <1>1, <1>2, <2>1
  <2> HIDE DEF h
  <2>3. Prefix(v, 2) * Fan = h * Fan + d * Fan
    BY <1>1, <1>2, <2>2
  <2>4. QED
    BY <2>3 DEF h
<1>8. (HhdmSlot * Fan * Fan) * Fan = HhdmSlot * (Fan * Fan * Fan)
  BY <1>1, <1>2
<1>9. QED
  BY <1>1, <1>4, <1>7, <1>8 DEF HHDM_BASE, d

LEMMA InitOk ==
    ASSUME Init
    PROVE  IInv
<1>1. /\ table = BootTables /\ free = Frames /\ call.op = "none"
      /\ to_map = Ram /\ region.at = "none" /\ tlb = {}
  BY DEF Init, Idle, NoRegion
<1>2. TablesInv
  <2>1. DOMAIN table = {P4, P3, P2} /\ KernelKept(table) /\ Tree(table)
    BY <1>1, BootEntries, BootTree
  <2>2. {P4, P3, P2} \cap Frames = {} /\ \A p \in {P4, P3, P2} : p < EARLY_BOOT_MAP_LIMIT
    BY PagingAssumption
  <2>3. QED
    BY <1>1, <2>1, <2>2 DEF TablesInv
<1>3. CallInv /\ TlbInv /\ RegionInv /\ RamInv
  BY <1>1 DEF CallInv, TlbInv, RegionInv, RamInv
<1>4. HhdmOk(table)
  <2> SUFFICES ASSUME NEW v \in VirtPages, decompose(v, 4) = HhdmSlot, decompose(v, 3) # KernelPdpt,
                      Leaf(table, v).size # 0
               PROVE  Leaf(table, v).v = HHDM_BASE + Leaf(table, v).p
    BY DEF HhdmOk
  <2>1. Boot(v)
    BY <1>1, BootLeaf
  <2>2. decompose(v, 3) = 0
    BY <2>1 DEF Boot
  <2>3. Leaf(table, v) = [v |-> v - (v % Span[2]), size |-> 2, p |-> decompose(v, 2) * Span[2]]
    BY <1>2, <2>1, BootWalk DEF TablesInv
  <2>4. QED
    BY <2>2, <2>3, BootExact
<1>5. InitInv
  BY <1>1, BootLeaf DEF InitInv
<1>6. QED
  BY <1>2, <1>3, <1>4, <1>5 DEF IInv

LEMMA InvStep ==
    ASSUME IInv, [Next]_vars
    PROVE  IInv'
<1>1. TablesInv' /\ CallInv'
  BY TablesStep
<1>2. HhdmOk(table)' /\ TlbInv' /\ InitInv' /\ RamInv' /\ RegionInv'
  BY HhdmStep, TlbStep, InitStep, RamStep, RegionStep
<1>3. QED
  BY <1>1, <1>2 DEF IInv

\* The inductive invariant holds in every state of the specification.
THEOREM Invariant == Spec => []IInv
<1>1. Init => IInv
  BY InitOk
<1>2. IInv /\ [Next]_vars => IInv'
  BY InvStep
<1>3. QED
  BY <1>1, <1>2, PTL DEF Spec


-----------------------------------------------------------------------------
(* What follows from it.                                                    *)

LEMMA InvUse ==
    ASSUME IInv
    PROVE  /\ Tree(table) /\ KernelKept(table) /\ TablesInv /\ CallInv /\ HhdmOk(table)
           /\ TlbInv /\ RamInv /\ RegionInv
BY DEF IInv, TablesInv

\* What is mapped in the HHDM is mapped where the kernel looks for it.
LEMMA HhdmAt ==
    ASSUME Tree(table), HhdmOk(table), NEW p \in PhysPages, p \div Span[3] # KernelPdpt
    PROVE  /\ Leaf(table, HHDM_BASE + p).size = 0 => translate(HHDM_BASE + p) = Unmapped
           /\ Leaf(table, HHDM_BASE + p).size # 0 => translate(HHDM_BASE + p) = p
<1> DEFINE a == HHDM_BASE + p
           f == Leaf(table, a)
<1>1. /\ a \in VirtPages /\ decompose(a, 4) = HhdmSlot /\ decompose(a, 3) = p \div Span[3]
      /\ Kept(a)
  BY HhdmFacts
<1>2. f.size = 0 => translate(a) = Unmapped
  BY <1>1, TranslateIs
<1>3. ASSUME f.size # 0 PROVE translate(a) = p
  <2>1. f.size \in 1..3 /\ translate(a) = f.p + (a % Span[f.size])
    BY <1>1, <1>3, TranslateIs
  <2>2. f.v = a - (a % Span[f.size])
    BY <1>1, <1>3, LeafAtBase DEF Base
  <2>3. f.v = HHDM_BASE + f.p
    BY <1>1, <1>3 DEF HhdmOk
  <2>4. f.p \in Nat
    <3>1. EndEntry(table, a).present
      BY <1>3, NoLeafFacts
    <3>2. f.p = EndEntry(table, a).p /\ EndEntry(table, a).p \in PhysPages
      BY <1>1, <3>1, LeafFacts
    <3>3. QED
      BY <3>2, NoTableFacts
  <2>5. a % Span[f.size] \in Nat
    <3>1. a \in Nat /\ f.size \in 1..5
      BY <1>1, <2>1, PrefixFacts
    <3>2. Span[f.size] \in Nat \ {0}
      BY <3>1, SpanFacts
    <3> HIDE DEF a, f
    <3>3. a % Span[f.size] \in 0..(Span[f.size] - 1)
      BY <3>1, <3>2, DivMod
    <3>4. QED
      BY <3>2, <3>3
  <2>6. HHDM_BASE \in Nat /\ p \in Nat
    <3>1. HhdmSlot \in Nat /\ Span[4] \in Nat
      BY PagingAssumption, SpanFacts DEF Slots
    <3>2. QED
      BY <3>1, NoTableFacts DEF HHDM_BASE
  <2>7. a = HHDM_BASE + p
    OBVIOUS
  <2> HIDE DEF a, f
  <2>8. f.p + (a % Span[f.size]) = p
    BY <2>2, <2>3, <2>4, <2>5, <2>6, <2>7
  <2>9. QED
    BY <2>1, <2>8
<1>4. QED
  BY <1>2, <1>3

\* The kernel's direct map is exact at every moment, between any two levels of any walk:
\* at HHDM_BASE + p is the page p, or nothing.
THEOREM DirectMapExact == Spec => []HhdmExact
<1>1. IInv => HhdmExact
  BY InvUse, HhdmAt DEF HhdmExact
<1>2. QED
  BY <1>1, Invariant, PTL

\* invlpg after unmap_page and protect_page, and none after map_page, is enough: what the
\* processor has cached is what a walk of the tables finds.
THEOREM CachedTranslationsHold == Spec => []TlbExact
<1>1. ASSUME IInv, NEW e \in tlb PROVE translate(e.v) # Unmapped /\ Caches(e.v) = e
  <2>1. e.v \in VirtPages /\ e.size \in 1..3 /\ Leaf(table, e.v) = e
    BY <1>1, InvUse DEF TlbInv
  <2>2. Leaf(table, e.v).size # 0
    BY <2>1
  <2>3. QED
    BY <1>1, <2>1, <2>2, InvUse, TranslateIs
<1>2. IInv => TlbExact
  BY <1>1 DEF TlbExact
<1>3. QED
  BY <1>2, Invariant, PTL


\* All RAM is below the 510th gigabyte, whose place in the HHDM is the kernel's.
RamInWindow == \A p \in Ram : p \div Span[3] # KernelPdpt

\* No caller unmaps from the HHDM a page that the PMM hands out.
FramesKept == \A f \in Frames : HHDM_BASE + f \notin UnmapCalls

\* A loop of map_page calls that has ended well has mapped every page it should have,
\* although initialize ignores every error and uacpi_kernel_map takes a page that is
\* mapped already for its own: the RAM after initialize, and each byte of the range that
\* uacpi_kernel_map returns.
THEOREM LoopsComplete ==
    ASSUME RamInWindow
    PROVE  Spec => []LoopsMapAll
<1>1. ASSUME IInv, to_map = {}, NEW p \in Ram, HHDM_BASE + p \notin UnmapCalls
      PROVE  translate(HHDM_BASE + p) = p
  <2>1. p \in PhysPages /\ p \div Span[3] # KernelPdpt /\ p \in Ram \ to_map
    BY <1>1, PagingAssumption DEF RamInWindow
  <2>2. Leaf(table, HHDM_BASE + p).size # 0
    BY <1>1, <2>1, InvUse DEF RamInv
  <2>3. QED
    BY <1>1, <2>1, <2>2, InvUse, HhdmAt
<1>2. ASSUME IInv, region.at = "mapped",
             NEW b \in region.addr..(region.addr + region.len - 1),
             (b \div PAGE_SIZE) \div Span[3] # KernelPdpt
      PROVE  translate(HHDM_BASE + (b \div PAGE_SIZE)) = b \div PAGE_SIZE
  <2>1. /\ region \in Ranges /\ (region.addr + region.len - 1) \div PAGE_SIZE \in PhysPages
        /\ region.i = num_pages(region) /\ \A j \in 0..(region.i - 1) : Done(j)
    BY <1>1, <1>2, InvUse DEF RegionInv
  <2>2. PICK j \in 0..(num_pages(region) - 1) : b \div PAGE_SIZE = PageAt(j)
    BY <2>1, RangePages
  <2>3. PageAt(j) \in PhysPages /\ Done(j)
    BY <2>1, <2>2, RangePages
  <2>4. PageAt(j) \div Span[3] # KernelPdpt
    BY <1>2, <2>2
  <2>5. Leaf(table, HHDM_BASE + PageAt(j)).size # 0
    BY <2>3, <2>4 DEF Done
  <2>6. translate(HHDM_BASE + PageAt(j)) = PageAt(j)
    BY <1>2, <2>3, <2>4, <2>5, InvUse, HhdmAt
  <2>7. QED
    BY <2>2, <2>6
<1>3. IInv => LoopsMapAll
  BY <1>1, <1>2 DEF LoopsMapAll, InitializeMapsRam, RegionMapped
<1>4. QED
  BY <1>3, Invariant, PTL

\* Every table is where phys_to_virt looks for it: those that initialize takes from the
\* bump allocator lie in boot.asm's first gigabyte, and those that come later in RAM
\* that initialize has mapped by then.
THEOREM TablesInHhdm ==
    ASSUME RamInWindow, FramesKept
    PROVE  Spec => []TablesReachable
<1>1. ASSUME IInv, NEW f \in DOMAIN table PROVE translate(HHDM_BASE + f) = f
  <2>1. /\ Tree(table) /\ KernelKept(table) /\ HhdmOk(table) /\ RamInv
        /\ f \in {P4, P3, P2} \cup Frames
        /\ to_map # {} => f < EARLY_BOOT_MAP_LIMIT
    BY <1>1, InvUse DEF TablesInv
  <2>2. f \in PhysPages /\ (f < EARLY_BOOT_MAP_LIMIT \/ f \in Ram)
    BY <2>1, PagingAssumption
  <2>3. CASE f < EARLY_BOOT_MAP_LIMIT
    <3>1. f \div Span[3] = 0
      <4>1. Span[3] \in Nat \ {0} /\ f \in Nat /\ f < Span[3]
        BY <2>2, <2>3, SpanFacts, NoTableFacts DEF EARLY_BOOT_MAP_LIMIT
      <4> HIDE DEF Span
      <4>2. f \in 0..(Span[3] - 1) /\ f = 0 * Span[3] + f
        BY <4>1
      <4>3. QED
        BY <4>1
    <3>2. f \div Span[3] # KernelPdpt
      BY <3>1, PagingAssumption
    <3>3. Boot(HHDM_BASE + f) /\ HHDM_BASE + f \in VirtPages
      BY <2>2, <3>1, HhdmFacts DEF Boot
    <3>4. Leaf(table, HHDM_BASE + f).size # 0
      BY <2>1, <3>3, BootWalk
    <3>5. QED
      BY <2>1, <2>2, <3>2, <3>4, HhdmAt
  <2>4. CASE ~(f < EARLY_BOOT_MAP_LIMIT)
    <3>1. f \in Ram \ to_map /\ f \in Frames
      BY <2>1, <2>2, <2>4, PagingAssumption
    <3>2. f \div Span[3] # KernelPdpt /\ HHDM_BASE + f \notin UnmapCalls
      BY <3>1 DEF RamInWindow, FramesKept
    <3>3. Leaf(table, HHDM_BASE + f).size # 0
      BY <2>1, <3>1, <3>2 DEF RamInv
    <3>4. QED
      BY <2>1, <2>2, <3>2, <3>3, HhdmAt
  <2>5. QED
    BY <2>3, <2>4
<1>2. IInv => TablesReachable
  BY <1>1 DEF TablesReachable
<1>3. QED
  BY <1>2, Invariant, PTL


LEMMA PairCardinality ==
    ASSUME NEW x, NEW y, x # y
    PROVE  Cardinality({x, y}) = 2
<1>1. IsFiniteSet({x}) /\ Cardinality({x}) = 1
  BY FS_Singleton
<1>2. y \notin {x} /\ {x, y} = {x} \cup {y}
  OBVIOUS
<1>3. Cardinality({x} \cup {y}) = 1 + 1
  BY <1>1, <1>2, FS_AddElement
<1>4. QED
  BY <1>2, <1>3

\* The links of level l that lead to table f.
LinksTo(l, f) == {x \in Links(table, LV(table)[l]) : Target(table, x) = f}

\* p3_table and p2_table hang in the two places of boot.asm, any other table in one.
LEMMA LinksToTable ==
    ASSUME Tree(table), NEW l \in 2..4, NEW f \in LV(table)[l - 1]
    PROVE  Cardinality(LinksTo(l, f)) = IF f \in {P3, P2} THEN 2 ELSE 1
<1>1. PICK x \in Links(table, LV(table)[l]) : f = Target(table, x)
  BY LevelFacts DEF Below
<1>2. /\ P4 # P3 /\ P4 # P2 /\ P3 # P2 /\ HhdmSlot # KernelSlot /\ KernelPdpt # 0
      /\ l - 1 \in Levels /\ 3 \in Levels /\ 2 \in Levels
  BY PagingAssumption DEF Levels
<1>3. /\ \A y \in P3Places : y \in Links(table, LV(table)[4]) /\ Target(table, y) = P3
      /\ \A y \in P2Places : y \in Links(table, LV(table)[3]) /\ Target(table, y) = P2
  BY BootLinksIn
<1>4. P3 \in LV(table)[3] /\ P2 \in LV(table)[2]
  BY BootLevels DEF Tree
<1>5. CASE f = P3
  <2>1. l - 1 = 3
    BY <1>2, <1>4, <1>5 DEF Tree, LevelsApart
  <2>2. l = 4 /\ 4 \in 2..4
    BY <2>1
  <2>3. <<P4, HhdmSlot>> \in P3Places
    BY DEF P3Places
  <2>4. \A z \in Links(table, LV(table)[4]) : Target(table, z) = P3 => z \in P3Places
    BY <1>3, <2>2, <2>3, SameTarget
  <2>5. LinksTo(l, f) = P3Places
    BY <1>3, <1>5, <2>2, <2>4 DEF LinksTo
  <2>6. <<P4, HhdmSlot>> # <<P4, KernelSlot>>
    BY <1>2
  <2>7. Cardinality(P3Places) = 2
    BY <2>6, PairCardinality DEF P3Places
  <2>8. QED
    BY <1>5, <2>5, <2>7
<1>6. CASE f = P2
  <2>1. l - 1 = 2
    BY <1>2, <1>4, <1>6 DEF Tree, LevelsApart
  <2>2. l = 3 /\ 3 \in 2..4
    BY <2>1
  <2>3. <<P3, 0>> \in P2Places
    BY DEF P2Places
  <2>4. \A z \in Links(table, LV(table)[3]) : Target(table, z) = P2 => z \in P2Places
    BY <1>3, <2>2, <2>3, SameTarget
  <2>5. LinksTo(l, f) = P2Places
    BY <1>3, <1>6, <2>2, <2>4 DEF LinksTo
  <2>6. <<P3, 0>> # <<P3, KernelPdpt>>
    BY <1>2
  <2>7. Cardinality(P2Places) = 2
    BY <2>6, PairCardinality DEF P2Places
  <2>8. QED
    BY <1>6, <2>5, <2>7
<1>7. CASE f \notin {P3, P2}
  <2>1. \A z \in Links(table, LV(table)[l]) : Target(table, z) = f => z = x
    <3> SUFFICES ASSUME NEW z \in Links(table, LV(table)[l]), Target(table, z) = f PROVE z = x
      OBVIOUS
    <3>1. x = z \/ {x, z} \subseteq P3Places \/ {x, z} \subseteq P2Places
      BY <1>1, SameTarget
    <3>2. x \notin P3Places /\ x \notin P2Places
      BY <1>1, <1>3, <1>7
    <3>3. QED
      BY <3>1, <3>2
  <2>2. LinksTo(l, f) = {x}
    BY <1>1, <2>1 DEF LinksTo
  <2>3. Cardinality({x}) = 1
    BY FS_Singleton
  <2>4. QED
    BY <1>7, <2>2, <2>3
<1>8. QED
  BY <1>5, <1>6, <1>7

\* The tables form one tree: each is of one level and hangs in one place, but for the two
\* of boot.asm, and the PMM can hand none of them out, however calls, failures and other
\* allocations interleave.
THEOREM OneTree == Spec => []TablesHangOnce
<1>1. ASSUME IInv PROVE TablesHangOnce
  <2>1. Tree(table) /\ DOMAIN table \cap free = {}
    BY <1>1, InvUse DEF TablesInv
  <2>2. \A S : Holders(S) = Links(table, S)
    BY DEF Holders, Links
  <2>3. \A S : Kids(S) = Below(table, S)
    BY <2>2 DEF Kids, Below, Target
  <2>4. TablesAt = LV(table)
    BY <2>3 DEF TablesAt, LV
  <2>5. DOMAIN table = UNION {TablesAt[l] : l \in Levels}
    BY <2>1, <2>4 DEF Tree, LevelsCover
  <2>6. \A l, k \in Levels : l # k => TablesAt[l] \cap TablesAt[k] = {}
    BY <2>1, <2>4 DEF Tree, LevelsApart
  <2>7. ASSUME NEW l \in 2..4, NEW f \in TablesAt[l - 1]
        PROVE  Cardinality({x \in Holders(TablesAt[l]) : table[x[1]][x[2]].p = f})
                  = IF f \in {P3, P2} THEN 2 ELSE 1
    <3>1. {x \in Holders(TablesAt[l]) : table[x[1]][x[2]].p = f} = LinksTo(l, f)
      BY <2>2, <2>4 DEF LinksTo, Target
    <3>2. f \in LV(table)[l - 1]
      BY <2>4, <2>7
    <3>3. QED
      BY <2>1, <3>1, <3>2, LinksToTable
  <2>8. QED
    BY <2>1, <2>5, <2>6, <2>7 DEF TablesHangOnce
<1>2. QED
  BY <1>1, Invariant, PTL


-----------------------------------------------------------------------------
(* The tables implement a partial map.                                      *)

\* translate, of any tables.
Trans(tb, v) ==
    IF Leaf(tb, v).size = 0 THEN Unmapped
    ELSE Leaf(tb, v).p + (v % Span[Leaf(tb, v).size])
Map(tb) == [v \in CanonPages |-> Trans(tb, v)]

LEMMA TransIs ==
    ASSUME Tree(table), NEW v \in VirtPages
    PROVE  translate(v) = Trans(table, v)
BY TranslateIs DEF Trans

\* ... and in the next state.
TranslateExact == Tree(table) => \A v \in VirtPages : translate(v) = Trans(table, v)
LEMMA TransIsNext ==
    TranslateExact'
<1>1. TranslateExact
  BY TransIs DEF TranslateExact
<1>2. QED
  BY <1>1, PTL


\* The pages of a block, which are all of CanonPages or none.
LEMMA BlockOfCanon ==
    ASSUME NEW v \in VirtPages, Canon(v), NEW l \in 1..3
    PROVE  /\ \A w \in Block(v, l) : /\ w \in CanonPages /\ w \in VirtPages /\ Kept(w)
                                     /\ SameBlock(v, w, l) /\ w \in Nat
                                     /\ w % Span[l] = w - Base(v, l)
           /\ \A w \in CanonPages : /\ w \in VirtPages /\ Kept(w)
                                    /\ w \notin Block(v, l) => ~SameBlock(v, w, l)
           /\ Base(v, l) \in Block(v, l) /\ Base(v, l) % Span[l] = 0 /\ Base(v, l) \in Nat
<1>1. l \in 1..4 /\ l \in 1..5
  OBVIOUS
<1>2. ASSUME NEW w \in Block(v, l)
      PROVE  /\ w \in CanonPages /\ w \in VirtPages /\ Kept(w) /\ SameBlock(v, w, l) /\ w \in Nat
             /\ w % Span[l] = w - Base(v, l)
  <2>1. w \in VirtPages /\ Prefix(w, l) = Prefix(v, l) /\ SameBlock(v, w, l)
    BY <1>1, BlockFacts DEF SameBlock
  <2>2. Canon(w) /\ Base(w, l) = Base(v, l)
    BY <2>1, SameBlockFacts
  <2>3. w % Span[l] = w - Base(w, l) /\ w \in Nat
    BY <1>1, <2>1, BlockFacts, PrefixFacts
  <2>4. QED
    BY <2>1, <2>2, <2>3 DEF Kept, CanonPages, Canon
<1>3. ASSUME NEW w \in CanonPages
      PROVE  w \in VirtPages /\ Kept(w) /\ (w \notin Block(v, l) => ~SameBlock(v, w, l))
  <2>1. w \in VirtPages /\ Canon(w)
    BY DEF CanonPages, Canon
  <2>2. QED
    BY <2>1, SameBlockFacts DEF Kept
<1>4. Base(v, l) \in Nat /\ Base(v, l) % Span[l] = 0
  BY <1>1, BlockFacts, PrefixFacts
<1>5. Span[l] \in Nat \ {0}
  BY <1>1, SpanFacts
<1>6. Base(v, l) \in Block(v, l)
  BY <1>4, <1>5 DEF Block
<1>7. QED
  BY <1>2, <1>3, <1>4, <1>6

\* The steps of AddressSpace, of two tables.
MapsRange(tb, tc, b, n) ==
    /\ b % n = 0
    /\ \A x \in b..(b + n - 1) : Map(tb)[x] = Unmapped
    /\ Map(tc)[b] \in PhysPages
    /\ Map(tc) = [x \in CanonPages |-> IF x \in b..(b + n - 1) THEN Map(tc)[b] + (x - b)
                                       ELSE Map(tb)[x]]
UnmapsRange(tb, tc, b, n) ==
    /\ b % n = 0
    /\ Map(tc)[b] = Unmapped
    /\ \A x \in b..(b + n - 1) : /\ Map(tb)[x] # Unmapped
                                 /\ Map(tb)[x] = Map(tb)[b] + (x - b)
    /\ Map(tc) = [x \in CanonPages |-> IF x \in b..(b + n - 1) THEN Unmapped ELSE Map(tb)[x]]
Maps(tb, tc) ==
    /\ Map(tc) # Map(tb)
    /\ \E b \in CanonPages :
        /\ Map(tc)[b] # Map(tb)[b]
        /\ \E n \in {Span[1], Span[2], Span[3]} :
              b..(b + n - 1) \subseteq CanonPages /\ (MapsRange(tb, tc, b, n) \/ UnmapsRange(tb, tc, b, n))

LEMMA SameMap ==
    ASSUME SameLeaves
    PROVE  Map(table') = Map(table)
<1>1. \A v \in CanonPages : v \in VirtPages /\ Kept(v)
  BY DEF CanonPages, Kept, Canon
<1>2. \A v \in CanonPages : Trans(table', v) = Trans(table, v)
  BY <1>1 DEF SameLeaves, Trans
<1>3. QED
  BY <1>2 DEF Map

LEMMA MapLeafMaps ==
    ASSUME MapsBlock, call \in Calls, call.size \in 1..3, Canon(call.v),
           call.v % Span[call.size] = 0
    PROVE  Maps(table, table')
<1> DEFINE v == call.v
           l == call.size
           p == call.p
           n == Span[l]
<1>1. v \in VirtPages /\ Canon(v) /\ p \in PhysPages /\ v \in Nat /\ p \in Nat /\ l \in 1..3 /\ p # Unmapped
  BY PrefixFacts, NoTableFacts DEF Calls
<1>2. Base(v, l) = v /\ Block(v, l) = v..(v + n - 1)
  BY <1>1 DEF Base, Block
<1> HIDE DEF n
<1>3. \A w \in v..(v + n - 1) : Map(table)[w] = Unmapped /\ Map(table')[w] = p + (w - v)
  <2> SUFFICES ASSUME NEW w \in v..(v + n - 1)
               PROVE  Map(table)[w] = Unmapped /\ Map(table')[w] = p + (w - v)
    OBVIOUS
  <2>1. w \in CanonPages /\ w \in VirtPages /\ Kept(w) /\ SameBlock(v, w, l) /\ w % Span[l] = w - v
    <3>1. w \in Block(v, l)
      BY <1>2
    <3> HIDE DEF v, l
    <3>2. /\ w \in CanonPages /\ w \in VirtPages /\ Kept(w) /\ SameBlock(v, w, l)
          /\ w % Span[l] = w - Base(v, l)
      BY <1>1, <3>1, BlockOfCanon
    <3>3. QED
      BY <1>2, <3>2
  <2>2. Leaf(table, w).size = 0 /\ Leaf(table', w) = [v |-> v, size |-> l, p |-> p]
    BY <2>1 DEF MapsBlock
  <2>3. Trans(table, w) = Unmapped /\ Trans(table', w) = p + (w - v)
    BY <1>1, <2>1, <2>2 DEF Trans
  <2>4. QED
    BY <2>1, <2>3 DEF Map
<1>4. \A w \in CanonPages : w \notin v..(v + n - 1) => Map(table')[w] = Map(table)[w]
  <2> SUFFICES ASSUME NEW w \in CanonPages, w \notin v..(v + n - 1)
               PROVE  Map(table')[w] = Map(table)[w]
    OBVIOUS
  <2>1. w \in VirtPages /\ Kept(w) /\ ~SameBlock(v, w, l)
    BY <1>1, <1>2, BlockOfCanon
  <2>2. Leaf(table', w) = Leaf(table, w)
    BY <2>1 DEF MapsBlock
  <2>3. QED
    BY <2>2 DEF Map, Trans
<1>5. v \in v..(v + n - 1) /\ v % n = 0 /\ v..(v + n - 1) \subseteq CanonPages
  <2> HIDE DEF v, l
  <2>1. Base(v, l) \in Block(v, l) /\ \A w \in Block(v, l) : w \in CanonPages
    BY <1>1, BlockOfCanon
  <2>2. v % n = 0
    BY DEF v, l, n
  <2>3. QED
    BY <1>2, <2>1, <2>2
<1>6. Map(table')[v] = p
  BY <1>1, <1>3, <1>5
<1>7. Map(table') = [x \in CanonPages |-> IF x \in v..(v + n - 1) THEN Map(table')[v] + (x - v)
                                          ELSE Map(table)[x]]
  <2>1. Map(table') = [x \in CanonPages |-> Map(table')[x]]
    BY DEF Map
  <2>2. QED
    BY <1>3, <1>4, <1>6, <2>1
<1>8. MapsRange(table, table', v, n)
  BY <1>1, <1>3, <1>5, <1>6, <1>7 DEF MapsRange
<1>9. n \in {Span[1], Span[2], Span[3]}
  BY <1>1 DEF n
<1>10. Map(table')[v] # Map(table)[v]
  BY <1>1, <1>3, <1>5, <1>6
<1>11. QED
  BY <1>5, <1>8, <1>9, <1>10 DEF Maps

LEMMA UnmapLeafMaps ==
    ASSUME Tree(table), UnmapsBlock, call \in Calls, call.level \in 1..3, Canon(call.v),
           Entry.p \in PhysPages
    PROVE  Maps(table, table')
<1> DEFINE l == call.level
           b == Base(call.v, l)
           p == Entry.p
           n == Span[l]
<1>1. call.v \in VirtPages /\ p \in PhysPages /\ p \in Nat /\ l \in 1..3
  BY NoTableFacts DEF Calls
<1>2. Block(call.v, l) = b..(b + n - 1)
  BY DEF Block
<1> HIDE DEF n, b, p
<1>3. b \in Nat /\ b \in b..(b + n - 1) /\ b % n = 0 /\ b..(b + n - 1) \subseteq CanonPages
  BY <1>1, <1>2, BlockOfCanon DEF b, n
<1>4. \A w \in b..(b + n - 1) : /\ Map(table)[w] = p + (w - b) /\ Map(table)[w] # Unmapped
                                /\ Map(table')[w] = Unmapped
  <2> SUFFICES ASSUME NEW w \in b..(b + n - 1)
               PROVE  /\ Map(table)[w] = p + (w - b) /\ Map(table)[w] # Unmapped
                      /\ Map(table')[w] = Unmapped
    OBVIOUS
  <2>1. /\ w \in CanonPages /\ w \in VirtPages /\ Kept(w) /\ SameBlock(call.v, w, l)
        /\ w % Span[l] = w - b
    BY <1>1, <1>2, BlockOfCanon DEF b
  <2>2. Leaf(table, w) = [v |-> b, size |-> l, p |-> p] /\ Leaf(table', w).size = 0
    BY <2>1 DEF UnmapsBlock, b, p
  <2>3. Trans(table, w) = p + (w - b) /\ Trans(table', w) = Unmapped /\ Leaf(table, w).size # 0
    BY <1>1, <2>1, <2>2 DEF Trans
  <2>4. Trans(table, w) # Unmapped
    BY <2>1, <2>3, TranslateIs, TransIs
  <2>5. QED
    BY <2>1, <2>3, <2>4 DEF Map
<1>5. \A w \in CanonPages : w \notin b..(b + n - 1) => Map(table')[w] = Map(table)[w]
  <2> SUFFICES ASSUME NEW w \in CanonPages, w \notin b..(b + n - 1)
               PROVE  Map(table')[w] = Map(table)[w]
    OBVIOUS
  <2>1. w \in VirtPages /\ Kept(w) /\ ~SameBlock(call.v, w, l)
    BY <1>1, <1>2, BlockOfCanon
  <2>2. Leaf(table', w) = Leaf(table, w)
    BY <2>1 DEF UnmapsBlock
  <2>3. QED
    BY <2>2 DEF Map, Trans
<1>6. Map(table)[b] = p /\ Map(table')[b] = Unmapped /\ Map(table)[b] # Unmapped
  BY <1>1, <1>3, <1>4
<1>7. Map(table') = [x \in CanonPages |-> IF x \in b..(b + n - 1) THEN Unmapped ELSE Map(table)[x]]
  <2>1. Map(table') = [x \in CanonPages |-> Map(table')[x]]
    BY DEF Map
  <2>2. QED
    BY <1>4, <1>5, <2>1
<1>8. UnmapsRange(table, table', b, n)
  BY <1>3, <1>4, <1>6, <1>7 DEF UnmapsRange
<1>9. n \in {Span[1], Span[2], Span[3]}
  BY <1>1 DEF n
<1>10. QED
  BY <1>3, <1>6, <1>8, <1>9 DEF Maps


\* The tables are a partial map that changes as AddressSpace says: every step of a walk, an
\* allocation, a failure or a cached translation leaves it alone, and map_page and
\* unmap_page, over several levels and several steps, each change one aligned range at
\* once.
THEOREM TablesImplementMap == Spec => ImplementsAddressSpace
<1> DEFINE maps == [v \in CanonPages |-> translate(v)]
<1>1. ASSUME IInv PROVE maps = Map(table)
  <2>1. \A v \in CanonPages : translate(v) = Trans(table, v)
    BY <1>1, InvUse, TransIs DEF CanonPages
  <2>2. QED
    BY <2>1 DEF Map
<1>2. ASSUME IInv' PROVE maps' = Map(table')
  <2>1. Tree(table')
    BY <1>2 DEF IInv, TablesInv
  <2>2. \A v \in CanonPages : translate(v)' = Trans(table', v)
    BY <2>1, TransIsNext DEF TranslateExact, CanonPages
  <2>3. QED
    BY <2>2 DEF Map
<1> HIDE DEF maps
<1>3. ASSUME IInv, [Next]_vars PROVE Maps(table, table') \/ Map(table') = Map(table)
  <2>1. CASE SameLeaves
    BY <2>1, SameMap
  <2>2. CASE map_leaf /\ MapsBlock /\ call \in Calls /\ call.level = call.size
    <3>1. Canon(call.v) /\ call.v % Span[call.size] = 0 /\ call.size \in 1..3
      BY <1>3, <2>2, InvUse DEF CallInv, map_leaf, Running, Calls
    <3>2. QED
      BY <2>2, <3>1, MapLeafMaps
  <2>3. CASE /\ unmap_leaf /\ UnmapsBlock /\ call \in Calls /\ call.level \in 1..3
             /\ Entry.p \in PhysPages
    <3>1. Canon(call.v)
      BY <1>3, <2>3, InvUse DEF CallInv, unmap_leaf, Running
    <3>2. QED
      BY <1>3, <2>3, <3>1, InvUse, UnmapLeafMaps
  <2>4. QED
    BY <1>3, <2>1, <2>2, <2>3, TablesStep
<1>4. ASSUME IInv PROVE Map(table) \in [CanonPages -> PhysPages \cup {Unmapped}]
  <2>1. \A v \in CanonPages : translate(v) \in PhysPages \cup {Unmapped}
    BY <1>4, InvUse, TranslateIs DEF CanonPages
  <2>2. \A v \in CanonPages : Trans(table, v) \in PhysPages \cup {Unmapped}
    BY <1>4, <2>1, InvUse, TransIs DEF CanonPages
  <2>3. QED
    BY <2>2 DEF Map
<1>5. Init => Space!Init
  BY <1>1, <1>4, InitOk DEF Space!Init, maps
<1>6. ASSUME IInv, IInv', [Next]_vars PROVE [Space!Next]_maps
  <2>1. maps = Map(table) /\ maps' = Map(table')
    BY <1>1, <1>2, <1>6
  <2>2. CASE Map(table') = Map(table)
    BY <2>1, <2>2
  <2>3. CASE Maps(table, table')
    <3>1. Space!Next
      BY <2>1, <2>3 DEF Maps, MapsRange, UnmapsRange, Space!Next, Space!Map, Space!Unmap,
         Space!Range, Space!Aligned, maps
    <3>2. QED
      BY <3>1
  <2>4. QED
    BY <1>3, <1>6, <2>2, <2>3
<1>7. QED
  BY <1>5, <1>6, Invariant, PTL DEF Spec, ImplementsAddressSpace, Space!Spec, maps
=============================================================================
