------------------------------- MODULE Paging -------------------------------
(***************************************************************************)
(* PagingBackend (kernel/mm/paging.cpp, include/mm/paging.hpp) on the      *)
(* tables that boot/boot.asm leaves: four levels of tables in physical     *)
(* pages, walked and built by map_page, unmap_page and protect_page, and   *)
(* the translations the processor caches meanwhile.                        *)
(*                                                                         *)
(* Addresses are page numbers and a table has Fan entries (the code: 512), *)
(* so a 2 MiB page is Fan pages and a 1 GiB page Fan * Fan.  One step of a *)
(* call is one level of its walk: an interrupt, and the processor's own    *)
(* walk, may come between two of them.                                     *)
(***************************************************************************)
EXTENDS Naturals, FiniteSets

CONSTANTS Fan,          \* PT_ENTRY_COUNT
          HhdmSlot,     \* index of HHDM_BASE in the PML4 (256)
          KernelSlot,   \* index of the kernel's addresses in the PML4 (511)
          KernelPdpt,   \* index of the kernel's addresses in p3_table (510)
          P4, P3, P2,   \* the physical pages of p4_table, p3_table and p2_table
          Ram,          \* pages above EARLY_BOOT_MAP_LIMIT that the memory map lists
          Frames,       \* physical pages the PMM can hand out at first
          MapCalls,     \* [v, p, size, user]: what callers pass to map_page
          UnmapCalls,   \* what callers pass to unmap_page and protect_page
          Regions,      \* [addr, len], in bytes: what uACPI asks to map
          PAGE_SIZE,    \* bytes of a page
          Accesses      \* virtual pages the processor touches

Levels == 1..4
Span == <<1, Fan, Fan * Fan, Fan * Fan * Fan, Fan * Fan * Fan * Fan>>
        \* pages below one entry of level l; the last is the whole address space
Slots == 0..(Fan - 1)
VirtPages == 0..(Span[5] - 1)
PhysPages == 0..(Span[4] - 1)
HHDM_BASE == HhdmSlot * Span[4]
EARLY_BOOT_MAP_LIMIT == Span[3]

ASSUME PagingAssumption ==
    /\ Fan \in Nat \ {0, 1} /\ {HhdmSlot, KernelSlot, KernelPdpt} \subseteq Slots
    /\ 0 \notin {HhdmSlot, KernelSlot, KernelPdpt} /\ HhdmSlot # KernelSlot
    /\ {P4, P3, P2} \cup Frames \cup Ram \subseteq PhysPages
    /\ P4 # P3 /\ P4 # P2 /\ P3 # P2 /\ {P4, P3, P2} \cap Frames = {}
    \* the kernel is loaded at 1 MiB, and what the PMM hands out is in the memory map
    /\ \A p \in {P4, P3, P2} : p < EARLY_BOOT_MAP_LIMIT
    /\ \A p \in Ram : p >= EARLY_BOOT_MAP_LIMIT
    /\ \A f \in Frames : f < EARLY_BOOT_MAP_LIMIT \/ f \in Ram
    /\ MapCalls \subseteq [v : VirtPages, p : PhysPages, size : 1..3, user : BOOLEAN]
    \* "@pre phys must be 2 MiB aligned" (1 GiB: likewise), and the same for virt
    /\ \A c \in MapCalls : c.v % Span[c.size] = 0 /\ c.p % Span[c.size] = 0
    /\ UnmapCalls \cup Accesses \subseteq VirtPages
    /\ PAGE_SIZE \in Nat \ {0} /\ Regions \subseteq [addr : Nat, len : Nat \ {0}]
    /\ \A r \in Regions : (r.addr + r.len - 1) \div PAGE_SIZE \in PhysPages

VARIABLES table,        \* [tables -> [Slots -> entry]]: the tables, by physical page
          free,         \* pages the PMM can hand out
          call,         \* the running call: [op, v, p, size, user, level, t]
          result,       \* what the last call returned, "none" while one runs
          to_map,       \* initialize: pages it has still to map, {} afterwards
          region,       \* uacpi_kernel_map: its range, its loop index, where it is
          tlb,          \* cached leaves: [v, size, p]
          has_pdpe1gb   \* cpuid_cache.has_pdpe1gb

vars == <<table, free, call, result, to_map, region, tlb, has_pdpe1gb>>

-----------------------------------------------------------------------------
(* Entries and walks                                                       *)

Empty == [present |-> FALSE, huge |-> FALSE, user |-> FALSE, p |-> 0]
make_table(p, user) == [present |-> TRUE, huge |-> FALSE, user |-> user, p |-> p]
make_leaf(p, user, size) == [present |-> TRUE, huge |-> size > 1, user |-> user, p |-> p]
clear == [i \in Slots |-> Empty]

\* The field of a virtual address that indexes tables of level l.
decompose(v, l) == (v \div Span[l]) % Fan

\* Callers map at HHDM_BASE + phys or away from the HHDM, and none maps or unmaps the
\* kernel's own addresses or the HHDM's first gigabyte, which boot.asm has mapped; of
\* the addresses at KernelSlot the kernel uses those of its image.
ASSUME CallersAssumption ==
    /\ \A c \in MapCalls :
          /\ decompose(c.v, 4) # KernelSlot
          /\ decompose(c.v, 4) = HhdmSlot => c.v = HHDM_BASE + c.p
    /\ \A v \in UnmapCalls :
          /\ decompose(v, 4) # KernelSlot
          /\ decompose(v, 4) = HhdmSlot => decompose(v, 3) \notin {0, KernelPdpt}
    /\ \A a \in Accesses : decompose(a, 4) = KernelSlot => decompose(a, 3) = KernelPdpt

IsLeaf(e, l) == e.present /\ (e.huge \/ l = 1)

\* Where the walk for v ends that is at table t of level 1, 2, 3 or 4.
has_subtable(e) == e.present /\ ~e.huge
walk_pt(v, t) == [level |-> 1, e |-> table[t][decompose(v, 1)]]
walk_pd(v, t) ==
    LET e == table[t][decompose(v, 2)]
    IN  IF has_subtable(e) THEN walk_pt(v, e.p) ELSE [level |-> 2, e |-> e]
walk_pdpt(v, t) ==
    LET e == table[t][decompose(v, 3)]
    IN  IF has_subtable(e) THEN walk_pd(v, e.p) ELSE [level |-> 3, e |-> e]
walk(v) ==
    LET e == table[P4][decompose(v, 4)]
    IN  IF has_subtable(e) THEN walk_pdpt(v, e.p) ELSE [level |-> 4, e |-> e]

\* translate, and what the processor's own walk finds.
Unmapped == Span[5]
translate(v) ==
    LET w == walk(v) IN IF w.e.present THEN w.e.p + (v % Span[w.level]) ELSE Unmapped

-----------------------------------------------------------------------------
(* The processor                                                           *)

Caches(v) == [v |-> v - (v % Span[walk(v).level]), size |-> walk(v).level, p |-> walk(v).e.p]

access(v) ==
    /\ translate(v) # Unmapped
    /\ tlb' = tlb \cup {Caches(v)}
    /\ UNCHANGED <<table, free, call, result, to_map, region, has_pdpe1gb>>

\* invlpg drops the cached leaf that contains v, whatever its size.  The mutated form
\* is a forgotten flush.
flush_tlb_none(v) == tlb
flush_tlb_page(v) == {e \in tlb : v \notin e.v..(e.v + Span[e.size] - 1)}

-----------------------------------------------------------------------------
(* Calls                                                                   *)

Idle == [op |-> "none"]
NoRegion == [at |-> "none", addr |-> 0, len |-> 0, i |-> 0]
Running(op) == call.op = op
Entry == table[call.t][decompose(call.v, call.level)]
SetEntry(e) == [table EXCEPT ![call.t][decompose(call.v, call.level)] = e]

start(op, v, p, size, user) ==
    /\ call' = [op |-> op, v |-> v, p |-> p, size |-> size, user |-> user, level |-> 4, t |-> P4]
    /\ result' = "none"

returns(err) == call' = Idle /\ result' = err

\* get_or_create_subtable on an entry that is present.
descend ==
    /\ Entry.present
    /\ call' = [call EXCEPT !.level = @ - 1, !.t = Entry.p]
    /\ UNCHANGED <<table, free, result, to_map, region, tlb, has_pdpe1gb>>

map_descend == Running("map") /\ call.level # call.size /\ has_subtable(Entry) /\ descend

\* PMM::alloc_pages hands out a free page; the bump allocator, which serves initialize,
\* the lowest, and none from EARLY_BOOT_MAP_LIMIT on.  The mutated form has no such limit.
pages_left_any == free
pages_left ==
    IF to_map = {} THEN free
    ELSE {f \in free : f < EARLY_BOOT_MAP_LIMIT /\ \A g \in free : f <= g}

\* ... and on one that is not: alloc_page_table, then the entry.
map_alloc ==
    /\ Running("map") /\ call.level # call.size /\ ~Entry.present
    /\ \E f \in pages_left :
        /\ free' = free \ {f}
        /\ table' = [x \in DOMAIN table \cup {f} |->
                       IF x = f THEN clear ELSE SetEntry(make_table(f, call.user))[x]]
        /\ call' = [call EXCEPT !.level = @ - 1, !.t = f]
    /\ UNCHANGED <<result, to_map, region, tlb, has_pdpe1gb>>

\* At run time a missing page is an error; the tables installed above stay.  (The bump
\* allocator panics instead: there the model stops.)
map_out_of_memory ==
    /\ Running("map") /\ call.level # call.size /\ ~Entry.present /\ free = {} /\ to_map = {}
    /\ returns("OutOfMemory")
    /\ UNCHANGED <<table, free, to_map, region, tlb, has_pdpe1gb>>

\* A 1 GiB page on a processor that has none.
map_fault ==
    /\ Running("map") /\ call.level = 3 /\ call.size = 3 /\ ~has_pdpe1gb
    /\ ~(Entry.present /\ Entry.huge)
    /\ returns("HardwareFault")
    /\ UNCHANGED <<table, free, to_map, region, tlb, has_pdpe1gb>>

LeafAllowed == call.level = call.size /\ (call.size = 3 => has_pdpe1gb)

\* The mutated form does not look whether a directory is in the way of a huge page.
blocks_huge(e) == e.present /\ (e.huge \/ call.level = 1)
blocks(e) == e.present

\* The loop of initialize goes on with the next page.
left_to_map(p) == to_map \ {p}

map_already ==
    /\ Running("map")
    /\ \/ call.level # 1 /\ Entry.present /\ Entry.huge
       \/ LeafAllowed /\ blocks(Entry)
    /\ returns("AlreadyMapped")
    /\ to_map' = left_to_map(call.p)
    /\ UNCHANGED <<table, free, region, tlb, has_pdpe1gb>>

map_leaf ==
    /\ Running("map") /\ LeafAllowed /\ ~blocks(Entry)
    /\ table' = SetEntry(make_leaf(call.p, call.user, call.size))
    /\ returns("Success")
    /\ to_map' = left_to_map(call.p)
    /\ UNCHANGED <<free, region, tlb, has_pdpe1gb>>

\* initialize has cleared the identity map and calls map_page for one page after the
\* other; it ignores what map_page returns.
initialize_map ==
    /\ Running("none") /\ to_map # {}
    /\ \E p \in to_map :
        /\ \A q \in to_map : p <= q
        /\ start("map", HHDM_BASE + p, p, 1, FALSE)
    /\ UNCHANGED <<table, free, to_map, region, tlb, has_pdpe1gb>>

\* No loop is in the middle of its calls.
Ready == Running("none") /\ to_map = {} /\ region.at # "loop"

map_page(c) ==
    /\ Ready
    /\ start("map", c.v, c.p, c.size, c.user)
    /\ region' = NoRegion
    /\ UNCHANGED <<table, free, to_map, tlb, has_pdpe1gb>>

unmap_page(v) ==
    /\ Ready
    /\ start("unmap", v, 0, 1, FALSE)
    /\ region' = NoRegion
    /\ UNCHANGED <<table, free, to_map, tlb, has_pdpe1gb>>

unmap_descend == Running("unmap") /\ ~IsLeaf(Entry, call.level) /\ descend

not_mapped ==
    /\ Running("unmap") \/ Running("protect")
    /\ ~Entry.present
    /\ returns("NotMapped")
    /\ UNCHANGED <<table, free, to_map, region, tlb, has_pdpe1gb>>

unmap_leaf ==
    /\ Running("unmap") /\ IsLeaf(Entry, call.level)
    /\ table' = SetEntry(Empty)
    /\ tlb' = flush_tlb_page(call.v)
    /\ returns("Success")
    /\ UNCHANGED <<free, to_map, region, has_pdpe1gb>>

\* protect_page takes every present entry above level 1 for a table, so its caller
\* must not pass an address in a huge page.
protect_page(v, user) ==
    /\ Ready
    /\ ~walk(v).e.huge
    /\ start("protect", v, 0, 1, user)
    /\ region' = NoRegion
    /\ UNCHANGED <<table, free, to_map, tlb, has_pdpe1gb>>

protect_descend == Running("protect") /\ call.level # 1 /\ descend

\* The mutated form rebuilds the entry from the call instead of preserving its page.
kept_page_call(e) == call.p
kept_page(e) == e.p

protect_leaf ==
    /\ Running("protect") /\ call.level = 1 /\ Entry.present
    /\ table' = SetEntry(make_leaf(kept_page(Entry), call.user, 1))
    /\ tlb' = flush_tlb_page(call.v)
    /\ returns("Success")
    /\ UNCHANGED <<free, to_map, region, has_pdpe1gb>>

\* uacpi_kernel_map (arch/acpi/uacpi_osl.cpp) maps the pages of a range of bytes one by
\* one; a page that is mapped already is as good.  The mutated form counts the pages
\* as if the range began with one.
num_pages_aligned(r) == (r.len + PAGE_SIZE - 1) \div PAGE_SIZE
num_pages(r) == (r.len + (r.addr % PAGE_SIZE) + PAGE_SIZE - 1) \div PAGE_SIZE
good(err) == err \in {"Success", "AlreadyMapped"}

uacpi_kernel_map(r) ==
    /\ Ready
    /\ region' = [at |-> "loop", addr |-> r.addr, len |-> r.len, i |-> 0]
    /\ UNCHANGED <<table, free, call, result, to_map, tlb, has_pdpe1gb>>

map_region_page ==
    /\ Running("none") /\ region.at = "loop" /\ region.i < num_pages(region)
    /\ region.i = 0 \/ good(result)
    /\ LET p == region.addr \div PAGE_SIZE + region.i
       IN  start("map", HHDM_BASE + p, p, 1, FALSE)
    /\ region' = [region EXCEPT !.i = @ + 1]
    /\ UNCHANGED <<table, free, to_map, tlb, has_pdpe1gb>>

\* It returns the address of the range, or nullptr after the first error; the pages
\* mapped before it stay, and uacpi_kernel_unmap does nothing.
map_region_returns ==
    /\ Running("none") /\ region.at = "loop"
    /\ \/ region.i = num_pages(region) /\ good(result) /\ region' = [region EXCEPT !.at = "mapped"]
       \/ region.i > 0 /\ ~good(result) /\ region' = [region EXCEPT !.at = "nullptr"]
    /\ UNCHANGED <<table, free, call, result, to_map, tlb, has_pdpe1gb>>

\* The rest of the kernel takes pages from the PMM.
others_allocate ==
    /\ to_map = {}
    /\ \E f \in pages_left : free' = free \ {f}
    /\ UNCHANGED <<table, call, result, to_map, region, tlb, has_pdpe1gb>>

-----------------------------------------------------------------------------
\* boot.asm: PML4 entries HhdmSlot and KernelSlot share p3_table, whose entries 0 and
\* KernelPdpt share p2_table, which maps the first gigabyte by 2 MiB pages.  initialize
\* has cleared PML4[0].
BootTables == [t \in {P4, P3, P2} |-> [i \in Slots |->
    CASE t = P2 -> make_leaf(i * Span[2], FALSE, 2)
      [] t = P4 /\ i \in {HhdmSlot, KernelSlot} -> make_table(P3, FALSE)
      [] t = P3 /\ i \in {0, KernelPdpt} -> make_table(P2, FALSE)
      [] OTHER -> Empty]]

Init ==
    /\ table = BootTables /\ free = Frames
    /\ call = Idle /\ result = "none"
    /\ to_map = Ram /\ region = NoRegion
    /\ tlb = {}
    /\ has_pdpe1gb \in BOOLEAN

Next ==
    \/ initialize_map
    \/ \E c \in MapCalls : map_page(c)
    \/ map_descend \/ map_alloc \/ map_out_of_memory \/ map_fault \/ map_already \/ map_leaf
    \/ \E v \in UnmapCalls : unmap_page(v)
    \/ unmap_descend \/ not_mapped \/ unmap_leaf
    \/ \E v \in UnmapCalls, user \in BOOLEAN : protect_page(v, user)
    \/ protect_descend \/ protect_leaf
    \/ \E r \in Regions : uacpi_kernel_map(r)
    \/ map_region_page \/ map_region_returns
    \/ \E v \in Accesses : access(v)
    \/ others_allocate

Spec == Init /\ [][Next]_vars

-----------------------------------------------------------------------------
(* Properties                                                              *)

Entries == [present : BOOLEAN, huge : BOOLEAN, user : BOOLEAN, p : PhysPages]
Results == {"none", "Success", "OutOfMemory", "AlreadyMapped", "NotMapped", "HardwareFault"}

\* Types of the tables, of the locals of the running call and of the cached leaves.
TypeOK ==
    /\ \A t \in DOMAIN table : t \in PhysPages /\ table[t] \in [Slots -> Entries]
    /\ free \subseteq PhysPages /\ to_map \subseteq Ram
    /\ call.op # "none" => call.t \in DOMAIN table /\ call.level \in Levels
    /\ result \in Results /\ has_pdpe1gb \in BOOLEAN
    /\ tlb \subseteq [v : VirtPages, size : 1..3, p : PhysPages]
    /\ region.at \in {"none", "loop", "mapped", "nullptr"} /\ region.i \in Nat

\* Every table hangs in one place, but for the two of boot.asm that hang in two, and no
\* table is a page the PMM can hand out: what a call writes belongs to one range of
\* addresses (and its copy at KernelSlot).
Holders(ts) == {x \in ts \X Slots : has_subtable(table[x[1]][x[2]])}
Kids(ts) == {table[x[1]][x[2]].p : x \in Holders(ts)}
TablesAt == <<Kids(Kids(Kids({P4}))), Kids(Kids({P4})), Kids({P4}), {P4}>>

TablesHangOnce ==
    /\ DOMAIN table = UNION {TablesAt[l] : l \in Levels}
    /\ \A l, k \in Levels : l # k => TablesAt[l] \cap TablesAt[k] = {}
    /\ \A l \in 2..4 : \A f \in TablesAt[l - 1] :
          Cardinality({x \in Holders(TablesAt[l]) : table[x[1]][x[2]].p = f})
            = IF f \in {P3, P2} THEN 2 ELSE 1
    /\ DOMAIN table \cap free = {}

\* The kernel reaches a physical page p at HHDM_BASE + p: never is another page there.
\* (But for the pages whose addresses in the HHDM are the kernel's own.)
HhdmExact ==
    \A p \in PhysPages : p \div Span[3] # KernelPdpt =>
        translate(HHDM_BASE + p) \in {p, Unmapped}

\* phys_to_virt dereferences the HHDM address of every table.
TablesReachable == \A f \in DOMAIN table : translate(HHDM_BASE + f) = f

\* docs/arch/memory.md, of initialize: after this call the RAM is addressable through
\* the HHDM, as PMM and KmemCache assume.
InitializeMapsRam ==
    to_map = {} => \A p \in Ram : HHDM_BASE + p \in UnmapCalls \/ translate(HHDM_BASE + p) = p

\* The caller of uacpi_kernel_map finds at the address it got every byte it asked for,
\* although a page that map_page refuses because something is mapped there is taken
\* for mapped, and a range may begin and end inside a page (uacpi_osl.cpp 87-99).
RegionMapped ==
    region.at = "mapped" =>
        \A b \in region.addr..(region.addr + region.len - 1) :
            LET p == b \div PAGE_SIZE
            IN  p \div Span[3] # KernelPdpt => translate(HHDM_BASE + p) = p

\* A loop over map_page that reports success has mapped all it should have.
LoopsMapAll == InitializeMapsRam /\ RegionMapped

\* No processor keeps a translation that the tables no longer hold.
TlbExact == \A e \in tlb : translate(e.v) # Unmapped /\ Caches(e.v) = e

\* include/mm/paging.hpp, of get_or_create_subtable's user: "Whether the path must be
\* user-accessible".  The processor lets user mode through a page only if every entry of
\* the path has the bit.
user_path[v \in VirtPages, l \in Levels, t \in PhysPages] ==
    LET e == table[t][decompose(v, l)]
    IN e.user /\ (IsLeaf(e, l) \/ user_path[v, l - 1, e.p])
UserPathAccessible == \A v \in VirtPages : walk(v).e.user => user_path[v, 4, P4]

\* The tables implement a partial map; the addresses of KernelSlot repeat those of
\* HhdmSlot and are left out.
CanonPages == {v \in VirtPages : decompose(v, 4) # KernelSlot}
Space == INSTANCE AddressSpace WITH
    Pages <- CanonPages, Sizes <- {Span[1], Span[2], Span[3]},
    maps <- [v \in CanonPages |-> translate(v)]
ImplementsAddressSpace == Space!Spec
=============================================================================
