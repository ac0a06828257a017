------------------------------ MODULE PmmBoot ------------------------------
(***************************************************************************)
(* The boot half of kernel/mm/pmm.cpp: the bump allocator and the walk of  *)
(* initialize_buddy over the memory map, on byte addresses.  The merges of *)
(* free_pages_order are the steps of module Buddy, whose variables this    *)
(* module extends; the walk is shown to give Buddy exactly the aligned     *)
(* blocks its initialize_buddy_free asks for.                              *)
(*                                                                         *)
(* `boot` is the set of pages the walk has still to free, given what it    *)
(* would skip if it ran now.                                               *)
(***************************************************************************)
EXTENDS Buddy, Sequences

CONSTANTS PageSize,      \* PAGE_SIZE
          Mmap,          \* memory map: sequence of [addr, len, usable]
          KernelStart, KernelEnd,   \* kernel_start_phys, kernel_end_phys
          MbiEnd,        \* end of the Multiboot information
          EarlyLimit,    \* EARLY_BOOT_MAP_LIMIT
          BumpSizes,     \* sizes in pages the early kernel asks for
          MaxEarlyCalls  \* bound on the calls before initialize_buddy

ASSUME BootAssumption ==
    /\ PageSize \in Nat \ {0} /\ EarlyLimit \in Nat /\ MaxEarlyCalls \in Nat
    /\ BumpSizes \subseteq Nat \ {0}
    /\ {KernelStart, KernelEnd, MbiEnd} \subseteq Nat
    /\ KernelStart % PageSize = 0 /\ KernelStart < KernelEnd

align_up(a)   == ((a + PageSize - 1) \div PageSize) * PageSize
align_down(a) == (a \div PageSize) * PageSize
LargerOf(a, b) == IF a > b THEN a ELSE b

EntryEnd(e) == e.addr + e.len
PagesIn(from, to) == (from \div PageSize)..((to \div PageSize) - 1)

\* The entries the callbacks given to MmapIterator::for_each do not skip.
UsableEntries == SelectSeq(Mmap, LAMBDA e : e.usable)

\* The firmware's map does not list a byte twice.
ASSUME MmapAssumption ==
    /\ UsableEntries \in Seq([addr : Nat, len : Nat, usable : BOOLEAN])
    /\ \A i, j \in DOMAIN UsableEntries :
          i < j => \/ EntryEnd(UsableEntries[i]) <= UsableEntries[j].addr
                   \/ EntryEnd(UsableEntries[j]) <= UsableEntries[i].addr

\* initialize_bump: the higher of the end of the kernel and of the Multiboot data.
highest_reserved_phys == LargerOf(KernelEnd, MbiEnd)
kernel_mbi_end == align_up(highest_reserved_phys)

\* The whole pages of the usable entries, but page 0, the kernel and the Multiboot data.
WalkedPages ==
    (UNION {PagesIn(align_up(UsableEntries[i].addr), align_down(EntryEnd(UsableEntries[i]))) :
               i \in DOMAIN UsableEntries})
        \ ({0} \cup PagesIn(KernelStart, kernel_mbi_end))

ASSUME WalkAssumption ==
    /\ Usable = WalkedPages
    /\ \A i \in DOMAIN UsableEntries : EntryEnd(UsableEntries[i]) <= NumPages * PageSize
    /\ \E i \in DOMAIN UsableEntries : EntryEnd(UsableEntries[i]) > (NumPages - 1) * PageSize

\* Bytes of the bitmaps of all orders: one bit per pair, whole bytes per order.
BitmapBytes(order) == (PairIndex(NumPages - 1, order) + 1 + 7) \div 8
BytesUpTo[order \in Orders] ==
    BitmapBytes(order) + IF order = 0 THEN 0 ELSE BytesUpTo[order - 1]
bitmap_pages == align_up(BytesUpTo[MaxOrder]) \div PageSize

ASSUME BitmapAssumption == bitmap_pages \in Nat \ {0}

VARIABLES bump_ptr_phys, bump_region_end_phys,
          phase,     \* "bump", "walk", "done" or "panic"
          walk,      \* [ent, p]: the entry and the address the walk is at
          bumped     \* ghost: the page sets alloc_pages_bump returned, in order

bumpVars == <<bump_ptr_phys, bump_region_end_phys, bumped>>
bootVars == <<vars, bumpVars, phase, walk>>

-----------------------------------------------------------------------------
(* The bump allocator                                                      *)

BumpStart(e) == align_up(LargerOf(e.addr, highest_reserved_phys))

\* The conditions under which find_bump_alloc_region takes an entry.  The watermark
\* is highest_reserved_phys: it is not advanced when a region is left.
region_fits(e, size) ==
    /\ e.addr # 0 /\ EntryEnd(e) > highest_reserved_phys
    /\ BumpStart(e) + size <= EarlyLimit
    /\ BumpStart(e) + size <= EntryEnd(e)

\* The first entry that fits, as the region [start, end], or nothing.
find_bump_alloc_region(size) ==
    LET fits == {i \in DOMAIN UsableEntries : region_fits(UsableEntries[i], size)}
    IN  {[start |-> BumpStart(UsableEntries[i]),
          end   |-> IF EntryEnd(UsableEntries[i]) > EarlyLimit
                    THEN EarlyLimit ELSE EntryEnd(UsableEntries[i])] :
            i \in {j \in fits : \A k \in fits : j <= k}}

\* The region the loop of alloc_pages_bump ends with: the current one while it has
\* room.
bump_region(size) ==
    IF bump_ptr_phys = 0 \/ bump_ptr_phys + size > bump_region_end_phys
    THEN find_bump_alloc_region(size)
    ELSE {[start |-> bump_ptr_phys, end |-> bump_region_end_phys]}

\* The bump pointer after a request.
bump_advance(start, size) == start + size

\* Pages [highest_reserved_phys, bump_ptr_phys), which the walk skips.
SkippedPages(ptr) == PagesIn(kernel_mbi_end, ptr)

\* Module Buddy is told which sets of pages may be reserved before the walk.
ASSUME EarlyRangesAssumption ==
    \A ptr \in 0..(NumPages * PageSize) : SkippedPages(ptr) \in EarlyRanges

\* alloc_pages_bump(num): kernel_panic halts the core when no region is left.
bump_step(num, next_phase) ==
    LET size == num * PageSize IN
    \/ /\ bump_region(size) = {}
       /\ phase' = "panic"
       /\ UNCHANGED <<bumpVars, vars>>
    \/ \E r \in bump_region(size) :
          /\ bump_ptr_phys' = bump_advance(r.start, size)
          /\ bump_region_end_phys' = r.end
          /\ bumped' = Append(bumped, PagesIn(r.start, r.start + size))
          /\ boot' = Usable \ SkippedPages(bump_ptr_phys')
          /\ phase' = next_phase
          /\ UNCHANGED <<free_lists, buddy_map, used_memory, free_memory,
                         initialized_buddy, job, loop, owned, ret, asked>>

alloc_pages_bump(num) ==
    /\ phase = "bump" /\ Len(bumped) < MaxEarlyCalls
    /\ bump_step(num, "bump")
    /\ UNCHANGED walk

-----------------------------------------------------------------------------
(* initialize_buddy                                                        *)

WalkAt(i) ==
    IF i \in DOMAIN UsableEntries
    THEN [ent |-> i, p |-> align_up(UsableEntries[i].addr)]
    ELSE [ent |-> i, p |-> 0]

region_end == align_down(EntryEnd(UsableEntries[walk.ent]))

\* The bitmaps are the last bump allocation; then the walk starts.
initialize_buddy_bitmap ==
    /\ phase = "bump"
    /\ bump_step(bitmap_pages, "walk")
    /\ walk' = WalkAt(1)

InKernel(p)  == KernelStart <= p /\ p < kernel_mbi_end
\* The mutated form drops the check.
InBump_never(p) == FALSE
InBump(p)    == highest_reserved_phys <= p /\ p < bump_ptr_phys

\* Does [p, p + size) meet the kernel and Multiboot data, or the bump range?  The
\* mutated form looks at the first address of the block only.
check_overlap_first(p, size) == InKernel(p) \/ InBump(p)
check_overlap_with_reserved(p, size) ==
    \/ p < kernel_mbi_end /\ p + size > KernelStart
    \/ p < bump_ptr_phys /\ p + size > highest_reserved_phys

\* The order the inner loop stops at: the largest that fits, is aligned and does
\* not overlap, or 0.
WalkOrders(p) ==
    {0} \cup {o \in 1..MaxOrder :
                /\ p + Pow2[o] * PageSize <= region_end
                /\ p % (Pow2[o] * PageSize) = 0
                /\ ~check_overlap_with_reserved(p, Pow2[o] * PageSize)}

InWalk == phase = "walk" /\ job = NoJob

WalkInEntry == InWalk /\ walk.ent \in DOMAIN UsableEntries /\ walk.p < region_end

walk_skip ==
    /\ WalkInEntry
    /\ walk' = [walk EXCEPT !.p =
                  IF walk.p = 0 THEN PageSize
                  ELSE IF InKernel(walk.p) THEN kernel_mbi_end ELSE bump_ptr_phys]
    /\ walk.p = 0 \/ InKernel(walk.p) \/ InBump(walk.p)
    /\ UNCHANGED <<vars, bumpVars, phase>>

walk_free ==
    /\ WalkInEntry
    /\ walk.p # 0 /\ ~InKernel(walk.p) /\ ~InBump(walk.p)
    /\ \E o \in WalkOrders(walk.p) :
         LET pfn == walk.p \div PageSize IN
         /\ \A q \in WalkOrders(walk.p) : q <= o
         /\ start_free(pfn, o)
         /\ boot' = boot \ Block(pfn, o)
         /\ walk' = [walk EXCEPT !.p = walk.p + Pow2[o] * PageSize]
    /\ UNCHANGED <<free_lists, buddy_map, used_memory, free_memory, initialized_buddy,
                   loop, owned, ret, asked, bumpVars, phase>>

\* The loop of free_pages_order, step by step.
walk_insert ==
    /\ phase = "walk"
    /\ free_pages_merge \/ free_pages_insert
    /\ UNCHANGED <<bumpVars, phase, walk>>

walk_next_entry ==
    /\ InWalk /\ walk.ent \in DOMAIN UsableEntries /\ walk.p >= region_end
    /\ walk' = WalkAt(walk.ent + 1)
    /\ UNCHANGED <<vars, bumpVars, phase>>

initialize_buddy_done ==
    /\ InWalk /\ walk.ent \notin DOMAIN UsableEntries
    /\ initialized_buddy' = TRUE
    /\ phase' = "done"
    /\ UNCHANGED <<free_lists, buddy_map, used_memory, free_memory, boot, job, loop,
                   owned, ret, asked, bumpVars, walk>>

\* The kernel goes on with module Buddy, or has halted.
boot_over == phase \in {"done", "panic"} /\ UNCHANGED bootVars

BootInit ==
    /\ Init
    /\ bump_ptr_phys = 0 /\ bump_region_end_phys = 0
    /\ phase = "bump"
    /\ walk = WalkAt(1)
    /\ bumped = <<>>

BootNext ==
    \/ \E num \in BumpSizes : alloc_pages_bump(num)
    \/ initialize_buddy_bitmap
    \/ walk_skip
    \/ walk_free
    \/ walk_insert
    \/ walk_next_entry
    \/ initialize_buddy_done
    \/ boot_over

BootSpec == BootInit /\ [][BootNext]_bootVars

-----------------------------------------------------------------------------
(* Properties                                                              *)

BumpedPages == UNION {bumped[i] : i \in DOMAIN bumped}

\* What the documentation calls a monotonic allocator, whose search starts at or after
\* the last-used region: no page is handed out twice.  The code does not ensure it.
BumpHandsOutOnce ==
    \A i, j \in DOMAIN bumped : i # j => bumped[i] \cap bumped[j] = {}

\* What the bump allocator handed out (page tables, the bitmaps themselves) never
\* gets into the buddy allocator: it is not listed, and the walk will not free it.
BumpPagesLive == BumpedPages \cap (PagesOf(AllBlocks) \cup boot) = {}

\* The boot sequence implements module Buddy, the starting point of its proofs: each
\* block the walk frees is aligned and wholly made of pages that are still due, and
\* when the allocator is declared initialized none is left.
ImplementsBuddy == Spec
=============================================================================
