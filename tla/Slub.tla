-------------------------------- MODULE Slub --------------------------------
(***************************************************************************)
(* The SLUB allocator, kmalloc and kfree (kernel/mm/slub.cpp) on top of    *)
(* the physical memory manager, which is used as module PageAllocator      *)
(* promises: the free lists hold the maximal aligned runs of free pages.   *)
(*                                                                         *)
(* What kfree decides on is the first bytes of pages, so the model keeps   *)
(* them: a SlabHeader, the 0xDEADBEEF mark of a large allocation, or other *)
(* data.  A page that the PMM puts at the head of a listed block loses     *)
(* them to a buddy_free_node; the other pages of the block keep them.      *)
(*                                                                         *)
(* A pointer is <<page, n>>: object n of a slab, or with n = 0 the start   *)
(* of the page.  Page 0 is the null pointer of the slab links.  The        *)
(* allocator is entered by one core at a time (module SmpBoot), so a call  *)
(* is one step.                                                            *)
(***************************************************************************)
EXTENDS PageBlocks

CONSTANTS Classes,      \* indices of the kmalloc caches
          MaxObjs,      \* MaxObjs[c]: objects of class c that fit in a page
          LargeSizes,   \* pages_needed of requests beyond the largest class
          APs,          \* 1..n: the application processors
          InuseModulus, \* 2^32 for the uint32_t inuse
          MaxLive       \* bound on the allocations callers hold at a time

ASSUME SlubAssumption ==
    /\ Classes \subseteq Nat \ {0} /\ MaxObjs \in [Classes -> Nat \ {0}]
    /\ LargeSizes \subseteq Nat \ {0, 1}
    /\ IsFiniteSet(APs) /\ APs = 1..Cardinality(APs)
    /\ InuseModulus \in Nat \ {0} /\ \A c \in Classes : MaxObjs[c] < InuseModulus

Cores  == {0} \cup APs
Caches == Cores \X Classes
NoCache == <<0, 0>>

Data == [magic |-> "data", cache |-> NoCache, freelist |-> {}, inuse |-> 0,
         next |-> 0, prev |-> 0, num |-> 0]

VARIABLES free,         \* the pages the PMM has
          page,         \* page[p]: the first bytes of page p
          partial_list, \* partial_list[cache]: its first slab, 0 = none
          registered,   \* how many elements ap_kmalloc_caches has
          setup,        \* the core in initialize_slub_ap and where it is
          small,        \* ghost: the live objects
          large,        \* ghost: live large allocations <<page, pages, stale>>
          permanent,    \* ghost: those allocations that are never freed
          lost,         \* ghost: large allocations whose kfree kept their pages
          panicked      \* "no", or why kernel_panic has stopped the core

vars == <<free, page, partial_list, registered, setup, small, large, permanent, lost,
          panicked>>

NoSetup == [core |-> 0, at |-> "idle"]

-----------------------------------------------------------------------------
(* What the PMM does to the contents of pages: list_add writes a node into *)
(* the first page of the block it lists.                                   *)

\* Heads of the upper halves that splitting down to the block leaves listed.
SplitHeads(p, order) ==
    LET whole == CHOOSE b \in MaximalBlocks(free) : b[1] = p
    IN  {p + Pow2[o] : o \in order..(whole[2] - 1)}

\* The head of the block the returned one is merged into.
MergedHeads(p, order) ==
    LET after == free \cup Block(p, order)
    IN  {b[1] : b \in {c \in MaximalBlocks(after) : p \in Extent(c)}}

WriteNodes(pg, heads) == [q \in Pages |-> IF q \in heads THEN Data ELSE pg[q]]

AfterTake(p, order) == WriteNodes(page, SplitHeads(p, order))

PagesFor(order) == BestFit(free, order)

-----------------------------------------------------------------------------
(* KmemCache::alloc                                                        *)

Objs(c) == 1..MaxObjs[c[2]]

\* format_new_slab, and the new slab is the only one of the partial list.
format_new_slab(c) ==
    [magic |-> "slab", cache |-> c, freelist |-> Objs(c), inuse |-> 0,
     next |-> 0, prev |-> 0, num |-> 0]

\* Pop object o off slab s, the head of the list.  When that was the last free
\* object the slab leaves the list.
pop(pg, s, o) ==
    LET h    == [pg[s] EXCEPT !.freelist = @ \ {o}, !.inuse = @ + 1]
        full == [h EXCEPT !.next = 0, !.prev = 0]
        rest == IF h.next = 0 THEN pg ELSE [pg EXCEPT ![h.next].prev = 0]
    IN  IF h.freelist # {} THEN [page |-> [pg EXCEPT ![s] = h], head |-> s]
        ELSE [page |-> [rest EXCEPT ![s] = full], head |-> h.next]

\* alloc from cache c hands out <<s, o>>.
cache_alloc(c, s, o) ==
    \/ /\ partial_list[c] # 0 /\ s = partial_list[c]
       /\ o \in page[s].freelist
       /\ page' = pop(page, s, o).page
       /\ partial_list' = [partial_list EXCEPT ![c] = pop(page, s, o).head]
       /\ UNCHANGED free
    \/ /\ partial_list[c] = 0
       /\ s \in PagesFor(0) /\ o \in Objs(c)
       /\ LET new == [AfterTake(s, 0) EXCEPT ![s] = format_new_slab(c)]
          IN  /\ page' = pop(new, s, o).page
              /\ partial_list' = [partial_list EXCEPT ![c] = pop(new, s, o).head]
       /\ free' = free \ {s}

cache_alloc_fails(c) == partial_list[c] = 0 /\ PagesFor(0) = {}

-----------------------------------------------------------------------------
(* kmalloc                                                                 *)

\* The cache of a class a core uses: a core that is not registered has none.
get_kmalloc_cache(core, class) ==
    IF class = 0 \/ core > registered THEN NoCache ELSE <<core, class>>

LargeOrder(num) == pages_to_order(num)
LargeBlock(b)   == Block(b[1], LargeOrder(b[2]))

\* The large path: the mark in the first page, the pointer to the second one, whose
\* old contents stay until the caller writes there, if it ever does.
large_alloc(num, p) ==
    LET o == LargeOrder(num)
        meta == [AfterTake(p, o) EXCEPT ![p] = [Data EXCEPT !.magic = "large", !.num = num]]
    IN  /\ o \in Orders /\ p \in PagesFor(o)
        /\ free' = free \ Block(p, o)
        /\ page' \in {meta, [meta EXCEPT ![p + 1] = Data]}
        /\ UNCHANGED partial_list

large_alloc_fails(num) == LargeOrder(num) \notin Orders \/ PagesFor(LargeOrder(num)) = {}

\* Does the page have the header of a slab, whether it still is one or not?
looks_like_slab(pg, s) == pg[s].magic = "slab"

\* A successful kmalloc; num is pages_needed should it take the large path.
kmalloc_returns(core, class, num) ==
    LET c == get_kmalloc_cache(core, class) IN
    \/ /\ c # NoCache
       /\ \E s \in Pages, o \in Objs(c) :
             cache_alloc(c, s, o) /\ small' = small \cup {<<s, o>>}
       /\ UNCHANGED large
    \/ /\ c = NoCache
       /\ \E p \in Pages :
             /\ large_alloc(num, p)
             /\ large' = large \cup {<<p, num, looks_like_slab(page', p + 1)>>}
       /\ UNCHANGED small

kmalloc_null(core, class, num) ==
    LET c == get_kmalloc_cache(core, class) IN
    /\ IF c # NoCache THEN cache_alloc_fails(c) ELSE large_alloc_fails(num)
    /\ UNCHANGED <<free, page, partial_list, small, large>>

Running == panicked = "no" /\ setup.at = "idle"

kmalloc(core, class, num) ==
    /\ Running /\ core \in 0..setup.core
    /\ Cardinality((small \cup large) \ permanent) < MaxLive
    /\ kmalloc_returns(core, class, num) \/ kmalloc_null(core, class, num)
    /\ UNCHANGED <<registered, setup, permanent, lost, panicked>>

-----------------------------------------------------------------------------
(* kfree                                                                   *)

\* Take slab s off the doubly linked list of its cache.
unlink(pg, s) ==
    LET a == pg[s].prev
        b == pg[s].next
        fwd == IF a = 0 THEN pg ELSE [pg EXCEPT ![a].next = b]
    IN  IF b = 0 THEN fwd ELSE [fwd EXCEPT ![b].prev = a]

\* Put slab s, which was full, at the front of the list.  The mutated form forgets
\* the back link of the old head.
link_front_forget(pg, c, s) == [pg EXCEPT ![s].next = partial_list[c], ![s].prev = 0]
link_front(pg, c, s) ==
    LET old   == partial_list[c]
        front == [pg EXCEPT ![s].next = old, ![s].prev = 0]
    IN  IF old = 0 THEN front ELSE [front EXCEPT ![old].prev = s]

\* header->inuse--; the mutated form forgets it.
dec_none(inuse) == inuse
dec(inuse) == (inuse - 1) % InuseModulus

\* KmemCache::free of object o > 0 of slab s.
cache_free(c, s, o) ==
    LET inuse    == dec(page[s].inuse)
        pushed   == [page EXCEPT ![s].freelist = @ \cup {o}, ![s].inuse = inuse]
        was_full == inuse = MaxObjs[c[2]] - 1
        linked   == IF was_full THEN link_front(pushed, c, s) ELSE pushed
        head     == IF was_full THEN s ELSE partial_list[c]
    IN  IF inuse # 0
        THEN /\ page' = linked
             /\ partial_list' = [partial_list EXCEPT ![c] = head]
             /\ UNCHANGED free
        ELSE /\ partial_list' =
                  [partial_list EXCEPT ![c] = IF linked[s].prev # 0 THEN head ELSE linked[s].next]
             /\ page' = WriteNodes([unlink(linked, s) EXCEPT ![s].next = 0, ![s].prev = 0],
                                   MergedHeads(s, 0))
             /\ free' = free \cup {s}

\* The start of a page pushed as an object: the free pointer overwrites the header,
\* whose inuse wraps, so that no list changes.
cache_free_page(s) ==
    /\ page' = [page EXCEPT ![s] = Data]
    /\ UNCHANGED <<free, partial_list>>

\* Does the page have the header of a slab of a known cache?
is_slub_page(s) == looks_like_slab(page, s) /\ page[s].cache[1] \in 0..registered

\* The order free_pages computes from the mark; the mutated form gives back only
\* the pages the caller asked for, without the one that holds the mark.
freed_order_short(num) == pages_to_order(num - 1)
freed_order(num) == pages_to_order(num)

kfree_at(s, o) ==
    \/ /\ is_slub_page(s)
       /\ IF o = 0 THEN cache_free_page(s) ELSE cache_free(page[s].cache, s, o)
       /\ UNCHANGED panicked
    \/ /\ ~is_slub_page(s) /\ page[s - 1].magic = "large"
       /\ LET order == freed_order(page[s - 1].num)
          IN  /\ free' = free \cup Block(s - 1, order)
              /\ page' = WriteNodes(page, MergedHeads(s - 1, order))
       /\ UNCHANGED <<partial_list, panicked>>
    \/ /\ ~is_slub_page(s) /\ page[s - 1].magic # "large"
       /\ panicked' = "invalid free"
       /\ UNCHANGED <<free, page, partial_list>>

kfree_small(ptr) ==
    /\ Running
    /\ ptr \in small \ permanent
    /\ kfree_at(ptr[1], ptr[2])
    /\ small' = small \ {ptr}
    /\ UNCHANGED <<registered, setup, large, permanent, lost>>

kfree_large(b) ==
    /\ Running
    /\ b \in large \ permanent
    /\ kfree_at(b[1] + 1, 0)
    /\ large' = large \ {b}
    /\ lost' = IF LargeBlock(b) \subseteq free' THEN lost ELSE lost \cup {b}
    /\ UNCHANGED <<registered, setup, small, permanent>>

-----------------------------------------------------------------------------
(* initialize_slub_ap on the next application processor.  Until the list   *)
(* has its element the core has no cache, so its first requests take the   *)
(* large path.  What all these requests return is never freed.             *)

ap_enter ==
    /\ Running /\ setup.core + 1 \in APs
    /\ setup' = [core |-> setup.core + 1, at |-> "ap_caches"]
    /\ UNCHANGED <<free, page, partial_list, registered, small, large, permanent, lost, panicked>>

\* The small request made at one place, of which class is left open, and where the
\* function is after it when it succeeds and when it returns null.
ap_kmalloc(at, got, null) ==
    /\ panicked = "no" /\ setup.at = at
    /\ \E class \in Classes :
         \/ /\ kmalloc_returns(setup.core, class, 2)
            /\ setup' = [setup EXCEPT !.at = got]
         \/ /\ kmalloc_null(setup.core, class, 2)
            /\ setup' = [setup EXCEPT !.at = null]
    /\ permanent' = permanent \cup (small' \ small) \cup (large' \ large)
    /\ UNCHANGED lost

\* The array of caches and their memory: kernel_panic without either.
ap_first_requests ==
    /\ \/ ap_kmalloc("ap_caches", "ap_pool", "panic")
       \/ ap_kmalloc("ap_pool", "push_back", "panic")
    /\ panicked' = IF setup'.at = "panic" THEN "no memory" ELSE panicked
    /\ UNCHANGED registered

\* ap_kmalloc_caches.push_back: without memory for the node it returns false, which
\* nobody looks at, and the core stays without caches.
ap_push_back ==
    /\ ap_kmalloc("push_back", "holder", "holder")
    /\ registered' = IF large' # large THEN registered + 1 ELSE registered
    /\ UNCHANGED panicked

\* The holder of the pool and its list node, both in the core's own caches if any.
ap_last_requests ==
    /\ \/ ap_kmalloc("holder", "pools", "idle")
       \/ ap_kmalloc("pools", "idle", "idle")
    /\ UNCHANGED <<registered, panicked>>

\* The core is in its halt loop.
kernel_panic == panicked # "no" /\ UNCHANGED vars

-----------------------------------------------------------------------------
Init ==
    /\ free = Pages \ {0}
    /\ page = [p \in Pages |-> Data]
    /\ partial_list = [c \in Caches |-> 0]
    /\ registered = 0
    /\ setup = NoSetup
    /\ small = {} /\ large = {} /\ permanent = {} /\ lost = {}
    /\ panicked = "no"

Next ==
    \/ \E core \in Cores, class \in Classes : kmalloc(core, class, 2)
    \/ \E core \in Cores, num \in LargeSizes : kmalloc(core, 0, num)
    \/ \E ptr \in small : kfree_small(ptr)
    \/ \E b \in large : kfree_large(b)
    \/ ap_enter
    \/ ap_first_requests
    \/ ap_push_back
    \/ ap_last_requests
    \/ kernel_panic

Spec == Init /\ [][Next]_vars

-----------------------------------------------------------------------------
(* Properties                                                              *)

\* The contents of pages keep their types; a slab has the objects that fit.
TypeOK ==
    /\ free \subseteq Pages
    /\ partial_list \in [Caches -> Pages]
    /\ registered \in 0..Cardinality(APs) /\ setup.core \in Cores
    /\ \A p \in Pages :
         /\ page[p].next \in Pages /\ page[p].prev \in Pages
         /\ page[p].inuse \in 0..(InuseModulus - 1)
         /\ page[p].magic = "slab" =>
              page[p].cache \in Caches /\ page[p].freelist \subseteq Objs(page[p].cache)

LiveObjs(s) == {ptr[2] : ptr \in {q \in small : q[1] = s}}
Slabs       == {ptr[1] : ptr \in small}
Away        == large \cup lost

\* Every object of a slab is either free or held by one caller, and inuse counts
\* the held ones: what free decides on when it links a slab or gives it back.
ObjectsExact ==
    \A s \in Slabs :
        /\ page[s].magic = "slab"
        /\ page[s].freelist = Objs(page[s].cache) \ LiveObjs(s)
        /\ page[s].inuse = Cardinality(LiveObjs(s))

\* The slabs that must be on the partial list of a cache.
PartialSlabs(c) ==
    {s \in Slabs : page[s].cache = c /\ LiveObjs(s) # Objs(c)}

\* The doubly linked partial list of a cache holds exactly its slabs that have a
\* free object, each linked back to its predecessor.
PartialListExact ==
    \A c \in Caches :
        /\ partial_list[c] = 0 <=> PartialSlabs(c) = {}
        /\ partial_list[c] # 0 => partial_list[c] \in PartialSlabs(c)
        /\ \A s \in PartialSlabs(c) :
             /\ page[s].next \in PartialSlabs(c) \cup {0}
             /\ page[s].next # 0 => page[page[s].next].prev = s
             /\ IF s = partial_list[c] THEN page[s].prev = 0
                ELSE /\ page[s].prev \in PartialSlabs(c)
                     /\ page[page[s].prev].next = s

\* Pages are not used twice: each one is free, a slab with an object in use, or in
\* exactly one large allocation that is live or lost.  Only one kind of kfree loses
\* pages: that of an allocation whose first page for the caller looked like a slab
\* when it was handed out and has not been written since.
NothingLost ==
    /\ Pages \ ({0} \cup free) = Slabs \cup UNION {LargeBlock(b) : b \in Away}
    /\ free \cap Slabs = {}
    /\ \A b \in Away :
         /\ LargeBlock(b) \cap (free \cup Slabs) = {}
         /\ \A d \in Away : b # d => LargeBlock(b) \cap LargeBlock(d) = {}
    /\ large \cap lost = {} /\ \A b \in lost : b[3]

\* The assertion of slub_tests.cpp, which frees what it never wrote: when the last
\* allocation has been freed, all its pages are back in the PMM.  The code does not
\* ensure it.
AllReturned == small = {} /\ large = {} => free = Pages \ {0}

\* The comment of initialize_slub_ap: the tracking array and the memory pool come
\* from the boot processor's SLUB.
ApSetupUsesSlub == setup.at \in {"ap_pool", "push_back"} => large = {}
=============================================================================
