------------------------------- MODULE Buddy -------------------------------
(***************************************************************************)
(* The buddy half of the physical memory manager (kernel/mm/pmm.cpp).      *)
(*                                                                         *)
(* One step is one iteration of a loop of the code: a split in alloc_pages *)
(* or allocate_specific_page, a merge in free_pages or free_pages_order, a *)
(* page of mark_region_free or mark_region_used.  The block the running    *)
(* function has in its local variables (pfn, order) is `job`, so every     *)
(* intermediate state of the lists and the bitmap is a state of the model. *)
(* The PMM runs on one core at a time (module SmpBoot), so a call starts   *)
(* only when the previous one has returned.                                *)
(*                                                                         *)
(* A free list is a set: list_add pushes at the head and alloc_pages pops  *)
(* the head, and the model lets the pop return any member.  Sizes are in   *)
(* pages.  A returned physical address is its page frame number; 0 is      *)
(* nullptr, as in the code.                                                *)
(***************************************************************************)
EXTENDS PageBlocks

CONSTANTS Usable,      \* pages that initialize_buddy's walk frees
          Acpi,        \* pages of the ACPI-reclaimable region, <<first, end>>
          MarkRegions, \* regions given to mark_region_used / mark_region_free
          LowPages,    \* pages alloc_page_below_1mib looks at (8..255)
          EarlyRanges, \* sets of pages the bump allocator takes before the walk
          TotalPages,  \* total_memory
          MaxRequest   \* bound on num in alloc_pages

RegionPages(r) == r[1]..(r[2] - 1)

ASSUME UsableAssumption == Usable \subseteq Pages \ {0}
ASSUME RegionAssumption ==
    /\ Acpi \in (Pages \ {0}) \X Nat /\ RegionPages(Acpi) \subseteq Pages \ Usable
    /\ \A r \in MarkRegions : r \in Pages \X Nat /\ RegionPages(r) \subseteq Pages
ASSUME LowAssumption == LowPages \subseteq Pages
ASSUME RequestAssumption == MaxRequest \in Nat
\* total_memory counts every usable byte, the kernel image, the bump pages and
\* page 0 included: the reclaimed ACPI pages, which it does not count, are fewer.
ASSUME TotalAssumption == TotalPages \in Nat
ASSUME TotalCovers == TotalPages >= Cardinality(Usable) + Cardinality(RegionPages(Acpi))

VARIABLES free_lists,        \* free_lists[order]: first pages of its blocks
          buddy_map,         \* {<<order, pair>>: the bit is 1}
          used_memory, free_memory,
          initialized_buddy,
          boot,              \* pages initialize_buddy has still to free
          job,               \* locals of the allocation or free that is running
          loop,              \* locals of the running mark_region_* call
          owned,             \* ghost: blocks handed out and not returned
          ret,               \* last page returned by an allocation, 0 = nullptr
          asked              \* num of the alloc_pages call that is running, 0 = none

vars == <<free_lists, buddy_map, used_memory, free_memory, initialized_buddy,
          boot, job, loop, owned, ret, asked>>

NoJob  == [op |-> "idle", pfn |-> 0, ord |-> 0, want |-> 0, target |-> 0]
NoLoop == [op |-> "idle", next |-> 0, end |-> 0]
Idle   == job = NoJob /\ loop = NoLoop /\ asked = 0

FreeBlocks == {b \in Pages \X Orders : b[1] \in free_lists[b[2]]}
PagesOf(S) == UNION {Extent(b) : b \in S}
FreePages  == PagesOf(FreeBlocks)

-----------------------------------------------------------------------------
(* List and bitmap helpers.                                                *)

list_add(pfn, order)    == [free_lists EXCEPT ![order] = @ \cup {pfn}]
list_remove(pfn, order) == [free_lists EXCEPT ![order] = @ \ {pfn}]

bit_is_one(pfn, order) == <<order, PairIndex(pfn, order)>> \in buddy_map

\* The mutated form sets the bit (|= for ^=).
set_buddy_bit(pfn, order) == buddy_map \cup {<<order, PairIndex(pfn, order)>>}
toggle_buddy_bit(pfn, order) ==
    LET bit == {<<order, PairIndex(pfn, order)>>}
    IN  (buddy_map \ bit) \cup (bit \ buddy_map)

is_page_free(page) == \E o \in Orders : \E p \in free_lists[o] : page \in Block(p, o)

-----------------------------------------------------------------------------
(* alloc_pages                                                             *)

\* The orders alloc_pages may take a block from.  The mutated form ends the loop one
\* order early.
NonEmpty_below(order) == {o \in order..(MaxOrder - 1) : free_lists[o] # {}}
NonEmpty(order) == {o \in order..MaxOrder : free_lists[o] # {}}

alloc_pages_take(order, k) ==
    k \in NonEmpty(order) /\ \A o \in NonEmpty(order) : k <= o

\* The call; its parameter stays in the frame until it returns.
alloc_pages(num) ==
    /\ initialized_buddy /\ Idle
    /\ asked' = num
    /\ UNCHANGED <<free_lists, buddy_map, used_memory, free_memory, initialized_buddy,
                   boot, job, loop, owned, ret>>

alloc_pages_pop ==
    LET order == pages_to_order(asked) IN
    /\ asked # 0 /\ job = NoJob
    /\ order \in Orders
    /\ \E k \in Orders : \E p \in free_lists[k] :
          /\ alloc_pages_take(order, k)
          /\ free_lists' = list_remove(p, k)
          /\ buddy_map' = toggle_buddy_bit(p, k)
          /\ job' = [op |-> "alloc", pfn |-> p, ord |-> k, want |-> order, target |-> p]
    /\ UNCHANGED <<used_memory, free_memory, initialized_buddy, boot, loop, owned, ret, asked>>

\* The two returns of nullptr: the order is too large, or the lists from it on are empty.
alloc_pages_fail ==
    /\ asked # 0 /\ job = NoJob
    /\ NonEmpty(pages_to_order(asked)) = {}
    /\ ret' = 0
    /\ asked' = 0
    /\ UNCHANGED <<free_lists, buddy_map, used_memory, free_memory, initialized_buddy,
                   boot, job, loop, owned>>

alloc_pages_split ==
    LET o == job.ord - 1 IN
    /\ job.op = "alloc" /\ job.ord > job.want
    /\ free_lists' = list_add(BuddyOf(job.pfn, o), o)
    /\ buddy_map' = toggle_buddy_bit(job.pfn, o)
    /\ job' = [job EXCEPT !.ord = o]
    /\ UNCHANGED <<used_memory, free_memory, initialized_buddy, boot, loop, owned, ret, asked>>

alloc_pages_done ==
    /\ job.op = "alloc" /\ job.ord = job.want
    /\ used_memory' = used_memory + Pow2[job.want]
    /\ free_memory' = free_memory - Pow2[job.want]
    /\ owned' = owned \cup {<<job.pfn, job.want>>}
    /\ ret' = job.pfn
    /\ job' = NoJob
    /\ asked' = 0
    /\ UNCHANGED <<free_lists, buddy_map, initialized_buddy, boot, loop>>

-----------------------------------------------------------------------------
(* allocate_specific_page, which alloc_page_below_1mib and                 *)
(* mark_region_used call.                                                  *)

allocate_specific_page(target) ==
    \E k \in Orders : \E p \in free_lists[k] :
        /\ target \in Block(p, k)
        /\ free_lists' = list_remove(p, k)
        /\ buddy_map' = toggle_buddy_bit(p, k)
        /\ job' = [op |-> "specific", pfn |-> p, ord |-> k, want |-> 0, target |-> target]

\* The half that holds the target is kept, the other one goes to its list.
half_kept(target, pfn, o) ==
    IF target \in Block(BuddyOf(pfn, o), o) THEN BuddyOf(pfn, o) ELSE pfn

allocate_specific_split ==
    LET o     == job.ord - 1
        kept  == half_kept(job.target, job.pfn, o)
        given == IF kept = job.pfn THEN BuddyOf(job.pfn, o) ELSE job.pfn
    IN
    /\ job.op = "specific" /\ job.ord > 0
    /\ free_lists' = list_add(given, o)
    /\ buddy_map' = toggle_buddy_bit(kept, o)
    /\ job' = [job EXCEPT !.ord = o, !.pfn = kept]
    /\ UNCHANGED <<used_memory, free_memory, initialized_buddy, boot, loop, owned, ret, asked>>

allocate_specific_done ==
    /\ job.op = "specific" /\ job.ord = 0
    /\ used_memory' = used_memory + 1
    /\ free_memory' = free_memory - 1
    /\ owned' = owned \cup {<<job.pfn, 0>>}
    /\ ret' = IF loop.op = "idle" THEN job.target ELSE ret
    /\ job' = NoJob
    /\ UNCHANGED <<free_lists, buddy_map, initialized_buddy, boot, loop, asked>>

\* The scan from pfn 8 up stops at the first page that is free.
alloc_page_below_1mib ==
    LET low == {p \in LowPages : is_page_free(p)} IN
    /\ initialized_buddy /\ Idle
    /\ \/ /\ low = {}
          /\ ret' = 0
          /\ UNCHANGED <<free_lists, buddy_map, job>>
       \/ /\ \E page \in low : (\A p \in low : page <= p) /\ allocate_specific_page(page)
          /\ UNCHANGED ret
    /\ UNCHANGED <<used_memory, free_memory, initialized_buddy, boot, loop, owned, asked>>

-----------------------------------------------------------------------------
(* free_pages and free_pages_order, whose loops are the same.              *)

\* The locals pfn, order and original_order.  The mutated form forgets the last.
start_free_one(pfn, order) ==
    job' = [op |-> "free", pfn |-> pfn, ord |-> order, want |-> 0, target |-> pfn]
start_free(pfn, order) ==
    job' = [op |-> "free", pfn |-> pfn, ord |-> order, want |-> order, target |-> pfn]

\* A caller returns a block it holds, with the num it asked for.
free_pages(b) ==
    /\ initialized_buddy /\ Idle
    /\ b \in owned /\ b[1] # 0
    /\ start_free(b[1], b[2])
    /\ owned' = owned \ {b}
    /\ UNCHANGED <<free_lists, buddy_map, used_memory, free_memory, initialized_buddy,
                   boot, loop, ret, asked>>

\* The bit became 0: the buddy is free, both are merged.
free_pages_merge ==
    /\ job.op = "free" /\ job.ord < MaxOrder
    /\ bit_is_one(job.pfn, job.ord)
    /\ buddy_map' = toggle_buddy_bit(job.pfn, job.ord)
    /\ free_lists' = list_remove(BuddyOf(job.pfn, job.ord), job.ord)
    /\ job' = [job EXCEPT !.pfn = PairBase(job.pfn, job.ord), !.ord = job.ord + 1]
    /\ UNCHANGED <<used_memory, free_memory, initialized_buddy, boot, loop, owned, ret, asked>>

\* The bit became 1 (break), or the largest order is reached: the block is listed.
free_pages_insert ==
    /\ job.op = "free"
    /\ \/ /\ job.ord < MaxOrder
          /\ ~bit_is_one(job.pfn, job.ord)
          /\ buddy_map' = toggle_buddy_bit(job.pfn, job.ord)
       \/ job.ord = MaxOrder /\ UNCHANGED buddy_map
    /\ free_lists' = list_add(job.pfn, job.ord)
    /\ used_memory' = used_memory - Pow2[job.want]
    /\ free_memory' = free_memory + Pow2[job.want]
    /\ job' = NoJob
    /\ UNCHANGED <<initialized_buddy, boot, loop, owned, ret, asked>>

-----------------------------------------------------------------------------
(* initialize_buddy: the second walk frees aligned blocks of the usable    *)
(* memory that is not reserved.  Which block comes next is decided by      *)
(* module PmmBoot; here any order of aligned blocks is allowed.            *)

walk_may_free(pfn, order) == Aligned(pfn, order) /\ Block(pfn, order) \subseteq boot

initialize_buddy_free(pfn, order) ==
    /\ ~initialized_buddy /\ Idle
    /\ walk_may_free(pfn, order)
    /\ start_free(pfn, order)
    /\ boot' = boot \ Block(pfn, order)
    /\ UNCHANGED <<free_lists, buddy_map, used_memory, free_memory, initialized_buddy,
                   loop, owned, ret, asked>>

\* A call of the bump allocator before the walk: the walk will skip these pages.
early_reserve(r) ==
    /\ ~initialized_buddy /\ Idle
    /\ FreeBlocks = {}
    /\ boot' = boot \ r
    /\ UNCHANGED <<free_lists, buddy_map, used_memory, free_memory, initialized_buddy,
                   job, loop, owned, ret, asked>>

initialize_buddy_end ==
    /\ ~initialized_buddy /\ Idle /\ boot = {}
    /\ initialized_buddy' = TRUE
    /\ UNCHANGED <<free_lists, buddy_map, used_memory, free_memory, boot, job, loop,
                   owned, ret, asked>>

-----------------------------------------------------------------------------
(* mark_region_used, mark_region_free and reclaim_acpi_memory              *)

start_loop(op, r) ==
    /\ initialized_buddy /\ Idle
    /\ loop' = [op |-> op, next |-> r[1], end |-> r[2]]
    /\ UNCHANGED <<free_lists, buddy_map, used_memory, free_memory, initialized_buddy,
                   boot, job, owned, ret, asked>>

mark_region_used(r) == start_loop("used", r)

\* The caller gives back pages it holds one by one: none of them is part of a
\* larger block that is in use.
mark_region_free(r) ==
    /\ \A p \in RegionPages(r) : p = 0 \/ is_page_free(p) \/ <<p, 0>> \in owned
    /\ start_loop("free", r)

\* Nobody holds a page of the firmware's tables when they are reclaimed.
reclaim_acpi_memory ==
    /\ \A b \in owned : Extent(b) \cap RegionPages(Acpi) = {}
    /\ start_loop("free", Acpi)

next_page == loop' = [loop EXCEPT !.next = loop.next + 1]

mark_used_page ==
    /\ loop.op = "used" /\ loop.next < loop.end /\ job = NoJob
    /\ next_page
    /\ \/ allocate_specific_page(loop.next)
       \/ ~is_page_free(loop.next) /\ UNCHANGED <<free_lists, buddy_map, job>>
    /\ UNCHANGED <<used_memory, free_memory, initialized_buddy, boot, owned, ret, asked>>

\* Pages mark_region_free leaves alone: free_pages(nullptr) returns at once.
\* The mutated form does not ask whether the page is free.
left_alone_unchecked(page) == page = 0
left_alone(page) == is_page_free(page) \/ page = 0

mark_free_page ==
    /\ loop.op = "free" /\ loop.next < loop.end /\ job = NoJob
    /\ next_page
    /\ \/ left_alone(loop.next) /\ UNCHANGED <<job, owned>>
       \/ /\ ~left_alone(loop.next)
          /\ start_free(loop.next, 0)
          /\ owned' = owned \ {<<loop.next, 0>>}
    /\ UNCHANGED <<free_lists, buddy_map, used_memory, free_memory, initialized_buddy,
                   boot, ret, asked>>

mark_region_end ==
    /\ loop.op # "idle" /\ loop.next >= loop.end /\ job = NoJob
    /\ loop' = NoLoop
    /\ UNCHANGED <<free_lists, buddy_map, used_memory, free_memory, initialized_buddy,
                   boot, job, owned, ret, asked>>

-----------------------------------------------------------------------------
\* used_memory = total_memory and free_memory = 0, the lists and the bitmap empty.
Init ==
    /\ free_lists = [o \in Orders |-> {}]
    /\ buddy_map = {}
    /\ used_memory = TotalPages
    /\ free_memory = 0
    /\ initialized_buddy = FALSE
    /\ boot = Usable
    /\ job = NoJob
    /\ loop = NoLoop
    /\ owned = {}
    /\ ret = 0
    /\ asked = 0

Next ==
    \/ \E num \in 1..MaxRequest : alloc_pages(num)
    \/ alloc_pages_pop
    \/ alloc_pages_fail
    \/ alloc_pages_split
    \/ alloc_pages_done
    \/ allocate_specific_split
    \/ allocate_specific_done
    \/ alloc_page_below_1mib
    \/ \E b \in owned : free_pages(b)
    \/ free_pages_merge
    \/ free_pages_insert
    \/ \E p \in Pages, o \in Orders : initialize_buddy_free(p, o)
    \/ \E r \in EarlyRanges : early_reserve(r)
    \/ initialize_buddy_end
    \/ \E r \in MarkRegions : mark_region_used(r)
    \/ \E r \in MarkRegions : mark_region_free(r)
    \/ reclaim_acpi_memory
    \/ mark_used_page
    \/ mark_free_page
    \/ mark_region_end

Spec == Init /\ [][Next]_vars

-----------------------------------------------------------------------------
(* Properties                                                              *)

\* The values the PMM's variables and locals range over.
TypeOK ==
    /\ free_lists \in [Orders -> SUBSET Pages]
    /\ buddy_map \subseteq Orders \X Pages
    /\ used_memory \in Int
    /\ free_memory \in Int
    /\ initialized_buddy \in BOOLEAN
    /\ boot \subseteq Pages
    /\ job \in [op : {"idle", "alloc", "specific", "free"}, pfn : Pages, ord : Orders,
                want : Orders, target : Pages]
    /\ loop \in [op : {"idle", "used", "free"}, next : Nat, end : Nat]
    /\ owned \subseteq Pages \X Orders
    /\ ret \in Pages
    /\ asked \in 0..MaxRequest

\* Every block there is: listed, handed out, or in the locals of the running call.
JobBlocks == IF job.op = "idle" THEN {} ELSE {<<job.pfn, job.ord>>}

AllBlocks == FreeBlocks \cup owned \cup JobBlocks

\* Each block is naturally aligned and inside the managed pages, and none holds
\* page 0, whose address could not be told from nullptr.
BlocksAligned ==
    \A b \in AllBlocks : Aligned(b[1], b[2]) /\ Extent(b) \subseteq Pages \ {0}

\* No page is in two places: two listed blocks, a listed and a handed out one, or
\* the block of the running call never overlap, and neither does what the boot
\* walk still has to free.
PagesDisjoint ==
    /\ FreeBlocks \cap owned = {} /\ (FreeBlocks \cup owned) \cap JobBlocks = {}
    /\ \A b, c \in AllBlocks : b # c => Extent(b) \cap Extent(c) = {}
    /\ \A b \in AllBlocks : Extent(b) \cap boot = {}

\* Whatever alloc_pages and the frees run through, the blocks stay aligned and disjoint.
BlocksSound == BlocksAligned /\ PagesDisjoint

\* Below the largest order the bit of a pair is 1 exactly when one of the two
\* blocks is listed; together with NeverBothListed this is what lets free_pages
\* merge on the bit alone.
BitMatchesLists ==
    \A o \in 0..(MaxOrder - 1) : \A p \in Pages :
        Aligned(p, o) =>
            (bit_is_one(p, o) <=> (p \in free_lists[o]) # (BuddyOf(p, o) \in free_lists[o]))

\* Two free buddies are always merged: no list below the largest order holds both.
NeverBothListed ==
    \A o \in 0..(MaxOrder - 1) : \A p \in free_lists[o] : BuddyOf(p, o) \notin free_lists[o]

\* free_pages merges on the bit alone: for that a 1 must mean one listed buddy of the
\* two, and a 0 none.
MergeBitExact == BitMatchesLists /\ NeverBothListed

\* What the running call relies on.  A split never goes below the order asked for
\* and keeps the page asked for, a merge only grows; a region that is being freed
\* touches no block of several pages that somebody holds.
CallsConsistent ==
    /\ job.op = "idle" => job = NoJob
    /\ job.op # "idle" => job.want <= job.ord
    /\ job.op = "specific" => job.want = 0 /\ job.target \in Block(job.pfn, job.ord)
    /\ job.op \in {"alloc", "specific"} => initialized_buddy
    /\ job.op = "alloc" => asked # 0 /\ job.want = pages_to_order(asked)
    /\ asked # 0 => initialized_buddy /\ loop = NoLoop /\ job.op \in {"idle", "alloc"}
    /\ loop # NoLoop => initialized_buddy
    /\ loop.op = "free" => job.op \in {"idle", "free"}
    /\ 0 \notin boot /\ (initialized_buddy => boot = {})
    /\ loop.next..(loop.end - 1) \subseteq Pages
    /\ loop.op = "free" =>
         \A p \in loop.next..(loop.end - 1) : \A b \in owned :
             p \in Extent(b) => b = <<p, 0>>

\* free_memory counts the listed pages exactly and the two counters add up, so
\* neither wraps below zero.
CountersExact ==
    Idle => /\ free_memory = Cardinality(FreePages)
            /\ used_memory = TotalPages - free_memory
            /\ used_memory >= 0

\* The pages that are free from the callers' point of view: the listed ones, and
\* what the running call has taken off the lists without having allocated it.
AbstractFree ==
    FreePages \cup
        CASE job.op \in {"alloc", "specific"} -> Block(job.pfn, job.ord)
          [] job.op = "free" -> Block(job.pfn, job.ord) \ Block(job.target, job.want)
          [] OTHER -> {}

Allocator == INSTANCE PageAllocator WITH
    LowRange <- LowPages, free <- AbstractFree, request <- asked,
    result <- ret

\* The lists and the bitmap implement the abstract allocator: a call of alloc_pages(num)
\* gets a best-fitting free block of the order of its own num, and is refused only when
\* no aligned run of free pages is large enough for that num, that is, fragmentation
\* never hides a block from alloc_pages.
ImplementsPageAllocator == Allocator!AbstractSpec

\* The comment of toggle_buddy_bit, read for every order: a 0 says that the two
\* blocks of a pair are in the same state, a 1 that they differ.
BitTellsPairState ==
    \A o \in Orders : \A p \in Pages :
        Aligned(p, o) =>
            (bit_is_one(p, o) <=> (p \in free_lists[o]) # (BuddyOf(p, o) \in free_lists[o]))
=============================================================================
