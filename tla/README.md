# MioOS in TLA+

TLA+ models of the MioOS kernel (`src/src/`), the TLC configurations that check them on
small instances, and theorems about them checked by TLAPS. Paths below are relative to
`src/src/` unless they start with `src/docs/`.

MioOS is an x86-64 kernel in C++ and assembly that boots through Multiboot2, sets up memory,
descriptor tables, interrupt controllers and clocks, starts the other processors and halts.
There is no scheduler and no user mode yet. What can go wrong in it is therefore mostly of
four kinds: allocators whose redundant structures must agree, start-up steps that depend on
each other's order, interrupts between two stores, and arithmetic at the edge of a word.

## 1. The system

| component | source | state | operations | interacts with |
|---|---|---|---|---|
| PMM, bump half | `kernel/mm/pmm.cpp` 29-130, 280-426 | the bump pointer and its region | `find_bump_alloc_region`, `alloc_pages_bump`, the walk of `initialize_buddy` | memory map, paging (tables), buddy half |
| PMM, buddy half | `kernel/mm/pmm.cpp` 130-270, 429-560 | free lists, one XOR bitmap per order, two counters | `alloc_pages`, `free_pages`, `alloc_page_below_1mib`, `mark_region_used/free`, `reclaim_acpi_memory` | SLUB, paging, TSS |
| SLUB | `kernel/mm/slub.cpp` | caches per core, slab headers in the pages themselves | `kmalloc`, `kfree`, `initialize_slub_ap` | PMM, every component that allocates |
| Paging | `kernel/mm/paging.cpp` | the tree of tables, the TLB | `initialize`, `map_page`, `map_huge_page`, `unmap_page`, `protect_page`, `translate` | PMM, devices' registers |
| SMP start-up | `kernel/smp.cpp`, `kernel/arch/ap_trampoline.asm` | the trampoline page, `ap_online_count` | `alloc_ap_cpus`, `smp_start_aps`, `ap_entry` | SLUB, CPU objects |
| CPU objects and tables | `kernel/cpu.cpp`, `gdt.cpp`, `tss.cpp`, `idt.cpp` | GS, GDT, TSS, IDT, per core | `init_cpu`, `GDT/TSS/IDT::initialize`, `IDT::load`, exceptions | SLUB, PMM, SMP start-up |
| Interrupt routing | `pic.cpp`, `lapic.cpp`, `ioapic.cpp`, `interrupts.cpp`, `uacpi_osl.cpp` 323-367 | handler table, redirection entries, uACPI slots | setting up and removing a line, `hw_irq_handler` | MADT, PIT, HPET, uACPI |
| Timekeeping | `timekeeping.cpp`, `pit.cpp`, `tsc.cpp`, `hpet.cpp`, `apic_timer.cpp`, `math.cpp` | source, accumulated time, baseline | upgrade of the source, `get_monotonic_ns`, `delay_us` | interrupts, power button |
| RTC | `rtc.cpp` | none | `get_unix_timestamp` | timekeeping |
| Power button | `power.cpp` | none | `on_system_powerdown` in an interrupt | timekeeping, uACPI |
| ACPI tables | `madt.cpp`, `fadt.cpp`, `rsdp.cpp` | `SystemTopology` lists | `parse_madt`, `find_sci_irq`, `find_sdp` | SMP, interrupt routing |
| uACPI host layer | `uacpi_osl.cpp`, `include/util/spinlock.hpp` | spinlocks with saved flags, stubs | lock and unlock, alloc and free, map, the interrupt flag | SLUB, paging, interrupt routing, power button |
| Boot code | `boot/` | the first page tables | checks, tags, memory maps | PMM, paging |
| Syscall entry | `syscalls/` | MSRs, the first words of the CPU object | `syscall_entry`, not reachable yet | CPU objects |
| Console, serial, framebuffer | `kernel_ui.cpp`, `draw_util.cpp`, `drivers/` | pixels, cursor of a text section | `KernelGUI::initialize`, `kprintf` | everything prints; number conversion |
| Library | `lib/`, `include/util/` | none | `utoa`, `itoa`, `sprintf`, lists, atomics, spinlock | console, uACPI host layer |

`kernel_main` (`kernel/kernel_main.cpp` 71-175) is one thread that calls them in this order:
serial port, CPU object, bump allocator, paging, framebuffer, GDT, PIC, early IDT, buddy
allocator, the trampoline's page, SLUB, TSS, IDT, syscall registers, FPU, PIT, TSC, ACPI
tables, PIC off, LAPIC, I/O APICs, PIT's redirection entry, interrupts on, uACPI, power button,
APIC timer, HPET, and the APs one after the other.

Concurrency comes from three places: interrupt handlers on the boot processor (from line 150
on, with interrupts off inside a handler), the APs while they start, and exceptions
(non-maskable interrupts, machine checks, faults) at any moment on any core.

What makes each component correct:

* PMM: no page is handed out twice or lost; the XOR bit of a pair and the lists agree; the
  counters are the sizes of what they count; what the bump allocator gave away stays away from
  the buddy allocator.
* SLUB: an object is live or free, never both; the partial list is a proper doubly linked list
  of the slabs with room; every page is accounted for; `kfree` sends a pointer where it came from.
* Paging: the tables form one tree; the direct map is exact and reaches all RAM and all tables;
  no translation outlives its entry; a call does to the address space what its result says.
* SMP: each AP starts with its own stack and object, no two cores are in the allocator, the boot
  ends.
* CPU tables: once a core has its IDT, an exception on it can be delivered; no stack is shared.
* Interrupts: the handler, the slot, the redirection entry and the wiring of a line agree, also
  while it is being installed; the end-of-interrupt goes to who delivered.
* Time: monotonic time never falls back and advances at the right rate; delays last; the
  power-button handler ends.
* RTC: the date arithmetic is that of the calendar, and a read is right while the clock runs.
* uACPI host layer: no holder of a lock is made to wait for itself, the interrupt flag comes back
  as it was, the power button is served; a mapped range is mapped to its last byte.
* Console: the screen shows the last rows of the text; nobody prints outside the section.
* Syscalls: the state of the user is built on the kernel stack and comes back as it was.

## 2. Modules

| module | models | checked by | proofs |
|---|---|---|---|
| `PageBlocks` | block and pair arithmetic of the buddy allocator | with `MCBuddy` | in `BuddyProofs` |
| `Buddy` | the buddy half of the PMM | `MCBuddy` | `BuddyProofs` |
| `PageAllocator` | what the PMM promises a caller: a block of the order of its request, best fit over maximal aligned runs, refused only when there is none | as a refinement of `Buddy` | `BuddyProofs` |
| `PmmBoot` (extends `Buddy`) | bump allocator, boot walk | `MCPmmBoot` (two configurations) | `BuddyProofs` |
| `Slub` (extends `PageBlocks`) | SLUB on top of what `PageAllocator` promises | `MCSlub` | `SlubProofs` |
| `AddressSpace` | what paging promises: a partial map | as a refinement of `Paging` | `PagingProofs` |
| `Paging` | tables, walks, TLB | `MCPaging` | `PagingProofs` |
| `CpuSetup` | MADT, CPU objects, GDT, TSS, IDT, exceptions: each processor for itself, the APs one after the other | as a refinement of `SmpBoot` | `StartupProofs` |
| `SmpBoot` (extends `CpuSetup`) | trampoline and handshake around it, the power button while the boot processor waits | `MCSmpBoot` | `StartupProofs` |
| `IrqRouting` | from PIC to APICs, uACPI's handlers, EOI | `MCIrqRouting` | `IrqRoutingProofs` |
| `TimeArith` | `mul_div_u64` | with `MCKernelTime` | in `KernelTimeProofs` |
| `KernelTime` | clock sources, their upgrade, delays, power button | `MCKernelTime` | `KernelTimeProofs` |
| `Rtc` | BCD, CMOS fields, Unix time | `MCRtc` | in `KernelTimeProofs` |
| `Printf` | `utoa`, `itoa`, `sprintf` against positional notation | with `MCConsole` | in `ConsoleProofs` |
| `Console` (extends `Printf`) | `kprintf` from the format to pixels, three writers | `MCConsole` | `ConsoleProofs` |
| `UacpiHost` | locks, memory and interrupt flag for uACPI, way of the power button | `MCUacpiHost` | `UacpiHostProofs` |
| `Syscall` | `syscall_entry` on one processor | itself | |

How state and actions correspond to the code:

* **Buddy.** `free_lists[o]` holds the first pages of the listed blocks (a list's order does
  not matter: a pop takes any element). `buddy_map` is the set of (order, pair) whose bit is 1.
  A call is entered in one step (`alloc_pages_take`, `free_pages`, ...) and then runs one loop
  iteration per step through the record `job` (the locals `pfn`, `order`), so the properties
  hold between iterations too. `mark_region_used`, `mark_region_free` and `reclaim_acpi_memory`
  run page by page through `loop`. `owned` is a ghost: the blocks callers hold. `boot` are the
  pages the boot walk still owes. `asked` is the argument of the running `alloc_pages`. It is the
  `request` of `PageAllocator`, whose actions `Ask`, `Allocate` and `Refuse` answer just this request.
* **PmmBoot** adds byte addresses and the memory map. The walk's blocks go through `Buddy`'s
  `free_pages_order`, and the module is shown to implement `Buddy` with its one abstract action
  "free an aligned block of what is left". The search for a region may go back to one that is
  used up, as in the code; the run `pmm_boot_reuse` shows it.
* **Slub.** The contents of pages decide what `kfree` does, so the model keeps the first bytes
  of each page, including what the PMM writes there (`list_add`). A caller writes a large allocation
  or does not; `lost` is a ghost, the large allocations whose `kfree` took the first page for a slab
  and kept the pages. A call is one step, since one core at a time is in the allocator; that is
  `AllocatorExclusive` of `SmpBoot`, and section 6 says where it stops being true.
* **Paging.** A call takes one step per level; `call` is its program counter. The processor
  walks the same tables between any two steps and fills `tlb`.
* **CpuSetup.** `at[c]` is the call a core is in; `raise(c, v)` may come between any two.
  Each request for memory may be refused: the AP's stack, its segments, the three stacks of a TSS,
  the nodes of the lists. `initialize_slub_ap` panics, appends its caches, or loses them to a
  refused node, after which the identifiers and the list are out of step (`dropped`). A stack is
  named after its owner.
* **SmpBoot** adds to it the boot processor's loop with one store to the trampoline page per step and the
  APs with one load per step; INIT and the SIPIs may be noticed late. A processor that the firmware
  lists as only capable of coming online is started like the others and never answers. While the boot
  processor waits its interrupts are on: `power_button` enters the handler, which allocates.
* **IrqRouting.** `main` is `kernel_main`'s place with the locals of the call; an interrupt runs
  to its end between two steps when the flag is set. The wiring of lines is a constant, and so is
  whether the firmware left the redirection entries masked.
* **KernelTime.** `now` is real time; counters are functions of it; 64-bit products are taken
  modulo `Word`. The upgrade in `KernelTime::initialize` is one assignment per step, and a handler may
  read the clock between any two steps at which interrupts are on. The ghost `read` is the last reading
  with what is needed to judge it: whether it was torn (taken between those assignments), how often the
  products of the PIT and the HPET had wrapped, and by how much the HPET lagged because `hpet.start`
  was not yet in force. `tick` lets no time pass while a polling loop is due to end, see section 4.
* **Paging**, the loop of `uacpi_kernel_map`: `region` is its range in bytes with its loop index;
  each iteration is a whole call of `map_page`, level by level. It ends in `mapped` or `nullptr`.
* **Console.** A print is the text its format yields; `writer[w]` is where in `kputchar` the writer
  is, with the register of the `++` it is in. Every load and store of `curr_cords` is a step; a
  test right after a `++` may read the register or the memory again, as the compiler likes. The
  ghost `log` is the text as the formats mean it, from reference definitions of numerals. `mixed` and `raced` note that
  prints have overlapped, on one processor or on two.
* **UacpiHost.** Two frames on the boot processor: `main` from `sti` to `haltloop`, and the
  system control interrupt on top of it. `main` makes uACPI's calls in any order that releases
  what it takes; the handler makes those of `SciCalls` in order. `pushfq`, `cli`, the spin and
  `popfq` are steps of their own, and so are taking and giving back the cache's lock.
* **Syscall.** Registers hold names of values, so that a register that comes back with another's
  value is seen. The CPU object is its first three words, by offset, as the assembly uses it.
* **Rtc** walks the calendar one day at a time next to the code's formula; `ReadOn` picks the
  dates at which some hours, minutes and seconds are read too, with a tick between any two registers.

## 3. Runs

Passing runs:

| run | instance | why it is enough | states |
|---|---|---|---|
| `buddy` | 8 pages, orders 0 to 2, page 6 in an ACPI region reclaimed later, requests of 1 to 5 pages, two regions to mark of which one holds page 0 | a block splits twice and merges twice, the two blocks of the top order are never merged, one request exceeds the largest order, and the regions meet listed, owned and never freed pages | 120 600 |
| `pmm_boot` | 32 pages of 2 bytes, three usable entries of awkward sizes, the kernel inside the second, a limit of the early mapping inside the third, up to two early requests of 1, 3 or 13 pages | page 0, ends inside a page, the two skips of the walk, bump pages in either region and blocks of all orders 0 to 3 occur | 147 |
| `slub` | 10 pages, caches with 1 and 2 objects a slab, a large size of three pages, written or not, boot processor and an AP, four live allocations | full, partial and empty slabs; lists of several slabs; an out-of-memory in every place; a large allocation over a freed slab; an AP that frees what another core allocated | 58 300 |
| `paging` | tables of 3 entries, 3 PML4 slots, six frames, four kinds of mapping with huge pages of both sizes, a range of three bytes across the end of a page | every level is created, found or refused; a walk meets a huge leaf; the range's pages are found mapped, mapped, or refused half way; the device page in the HHDM is used and unmapped again | 34 900 |
| `smp_boot` | a MADT of five processors: the boot processor second, one disabled, the last one only capable of coming online; every request may be refused but the nodes of the MADT's list (a refused one comes to a shorter MADT); exceptions on any core and the power button at any time | two APs that start at any speed, after which the boot processor waits for good; the second sees what the first left | 65 600 |
| `irq_routing` | two I/O APICs of 7 and 9 inputs; the PIT, an unused line, and a line of uACPI on the first, on the second and on none of them; two slots, overrides, HPET timer on 6 or 7 or absent, TSC invariant or not | installation, removal and reuse of two slots under interrupts; each way in which an installed line is dead | 48 200 |
| `kernel_time` | all five machines (PIT alone, TSC with and without a known frequency, HPET, both); 12 units and 6 microseconds a second, PIT 3 Hz, HPET 9 Hz, words that end at 33, 16 units | two upgrades in a row, delays across ticks, reads between any two stores; the products of the PIT and the HPET wrap, the TSC's does not; the HPET's frequency is no multiple of the microseconds, as in real ones | 3 190 000 |
| `rtc` | every day from 1970 to 2069, reads at times with small and large fields | the whole range of the two-digit year | 46 600 |
| `console` | numbers of 5 bits, a section of 2 columns and 2 rows with a line to spare, prints by `kernel_main` (two), an AP and the interrupt, early prints of every number | every value of a word is printed in both bases and signs; wraps, newlines and scrolls meet each other in every order | 1 230 000 |
| `uacpi_host` | two spinlocks, one mutex, a cache with two objects, eight calls of `kernel_main`, two presses | two nested locks, an out-of-memory in either frame, an interrupt between any two steps | 20 000 |

What the properties say is in the comment above each. The ones that carry most weight:

* `BlocksSound`, `MergeBitExact`, `CountersExact` and the refinement `ImplementsPageAllocator`:
  the XOR bit alone is enough for a merge to be right.
* `ObjectsExact`, `PartialListExact`, `NothingLost`: the lists through the slab headers never
  disagree with the objects callers hold.
* `ImplementsAddressSpace`, `HhdmExact`, `TablesReachable`, `TlbExact`: each call maps what its
  result says, while the processor uses the tables.
* `AllocatorExclusive`, `OwnContext`, `TrampolineStable`, `ImplementsCpuSetup`: the handshake is enough
  to share one page and, but for the power button, an unlocked allocator.
* `SurvivesOnceLoaded`, `StacksPrivate`: no exception finds a gate whose stack is not loaded.
* `TrampolineComplete`, `InstalledServed`, `EoiToDeliverer`, `PitTicks`.
* `BootEnds`: whatever memory is refused, nothing but a stopped core or a silent processor keeps
  the boot from ending.
* `LoopsMapAll`: a mapping that is reported as done reaches the last byte.
* `TextExact`, `FrameIntact`, `CursorSettles`: conversion, wrap and scroll together give the text;
  races for the cursor stay inside the margin and are undone.
* `SpinlockNeverSelfWaits`, `FlagFollowsLocks`, `PowerButtonServed`: the saved flags are enough
  for uACPI's spinlocks, and the button is served.
* `NeverBackwards`, `RateExact`, `PowerdownInTime`, `TscDelayKept`, `UnixDaysExact`.

The runs that show a disagreement between the code and what the repository says of it:

| run | what it shows |
|---|---|
| `pmm_boot_reuse` | `bump_watermark` is never advanced: when a region is exhausted, the search finds one already used and pages are handed out twice (`pmm.cpp` 47; `src/docs/arch/memory.md` 63 and 79 describe a monotonic bump allocator) |
| `syscall` | `syscall_entry` takes its stack from the first word of the CPU object, the self pointer, and saves the user's RSP over the kernel stack's address (`syscall_entry.asm` 23-24, `cpu.hpp` 75-77; `src/docs/arch/cpu_structures.md` 37 says the register state is built on the kernel stack) |

Where a passing run meets other places at which the code does not do what one would expect, the
property states the exception, and the run reaches it:

* `NothingLost`: the pages of a large allocation that was never written, and that begins with the header
  of a freed slab, are lost by its `kfree`.
* `AllocatorExclusive`: the power button's handler allocates while an AP does.
* `CacheIndexMatches`: after a refused node an AP's caches stand before its index.
* `SurvivesOnceLoaded`, `BootEnds`: a core that was refused its stacks, a panic, a silent processor.
* `InstalledServed`: uACPI is told OK for lines that are never delivered.
* `NeverBackwards`, `RateExact`: torn reads and wrapped products (the HPET's at 14.318 MHz every
  21 minutes, the PIT's after 213 days), and readings of the HPET before it is initialized.
* `PowerdownInTime`: on the PIT the handler waits for ever.
* `SmallFieldsExact`: a read is right exactly if every field was below 16 at its first register.
* `FrameIntact` looks at the frame as long as two processors have not printed at once, and
  `PowerButtonServed` asks for the button to be served once `kernel_main` has halted.

Further configurations, to be run by hand with `tlc -config <cfg> <module>`; each ends in a
counterexample:

| configuration | what it shows |
|---|---|
| `MCSlubStale.cfg` | a freed slab page keeps its magic word; a large allocation over it that is freed unwritten is taken for a slab and lost (`slub.cpp` 266; the in-kernel test `slub_tests.cpp` 85 asserts the contrary) |
| `MCSlubApPath.cfg` | an AP's first allocations, before its caches are registered, bypass SLUB and take whole pages |
| `MCPagingUser.cfg` | a user page mapped below an existing kernel table stays out of reach (`paging.cpp` 61) |
| `MCPagingBigRam.cfg` | RAM at the part of the direct map that shares its tables with the kernel is not mapped, and the error is dropped (`paging.cpp` 120) |

More of them need no file of their own: in the configuration of a run, change the constants
named here and put the property in the place of the properties (and `Spec` in the place of
`FairSpec`).

| property | in | what it shows |
|---|---|---|
| `BitTellsPairState` | `MCBuddy.cfg` | the comment on the bitmap (1: exactly one buddy is in use) does not hold at the largest order, whose bit `alloc_pages` toggles and `free_pages` does not |
| `PitRteOnlyWhileOn` | `MCIrqRouting.cfg` | a demoted PIT gets or keeps an unmasked entry (`pit.cpp` 51: a bool is taken for a line) |
| `LintMasked` | `MCIrqRouting.cfg` | LINT0 stays as the firmware set it (`lapic.cpp`: registers are written before `initialized` is set) |
| `TimestampRight` | `MCRtc.cfg` | CMOS fields are decoded twice, so the boot-time wall clock is wrong (`rtc.cpp` 15, 24) |
| `MaskedByDefault` | `MCIrqRouting.cfg` with `FirmwareMasks = FALSE` | redirection entries the firmware unmasked stay so (`ioapic.cpp` 116-121: `initialized` is set after the loop) |
| `NoDanglingHandler` | `MCIrqRouting.cfg` | a line no I/O APIC owns is installed with status OK, where the comment speaks of a rollback (`uacpi_osl.cpp` 337-339: the result is never -1) |
| `UpgradeKeepsTime` | `MCKernelTime.cfg` with `Word = 1024` | the time between `PIT::initialize` and the TSC's takeover is never counted (`tsc.cpp` 42) |
| `DelayKept` | `MCKernelTime.cfg` with `Word = 1024` | delays on the PIT and the HPET end early (`pit.cpp` 66, `hpet.cpp` 123) |
| `CacheNeverSelfWaits` | `MCUacpiHost.cfg` | the power button's handler allocates while the code it interrupted holds the cache's lock, and spins for ever (`slub.cpp` 47) |
| `MutexExclusive` | `MCUacpiHost.cfg` | the interrupt is granted the mutex of the code it interrupted (`uacpi_osl.cpp` 296) |
| `FrameKept` | `MCConsole.cfg` | an AP and the interrupt that print at once lose updates of the column, and a glyph lands on the frame (`kernel_ui.cpp` 65) |
| `UserStateKept` | `Syscall.cfg` with `TableLen = 2` | `rbx` and `rbp` come back exchanged (`syscall_entry.asm` 39-40, 72-73) |
| `BadNumbersRefused` | `Syscall.cfg` | with the empty table every number passes the comparison and is called (`syscalls.cpp` 17; `src/docs/arch/cpu_structures.md` 39) |

Every property of a passing run has a mutant in `PROJECT.json`: a small operator next to the
mapped one, with a plausible bug, under which TLC finds the property violated.

## 4. Bounds and fairness

Each bound is a constant with a name and is used in a guard: `MaxRequest` (pages), `MaxLive`
(allocations), `MaxEarlyCalls`, `MaxDelay`, `MaxNow`, `MaxCalls` (of `kernel_main` into uACPI's
hooks), `MaxPresses` (of the button), `MaxPrints` (per writer), `Objects` (in a cache),
`HandlerSlots` (8 in the code), `Word`, `Bits` and `InuseModulus` (the width of an integer),
`PAGE_SIZE` (in the bytes of `uacpi_kernel_map`'s range). `Pow2` is a constant function, since the
provers have no exponentiation, and so is `SciDepth`, the number of locks the interrupt holds before each
of its calls; their assumptions fix them. In `Printf` the powers are the recursive function `Power`.
`Characters` is what texts are made of; the run's are those it prints.

* `SmpBoot!SmpFairSpec`: weak fairness of each AP's step and of the return from the power button's
  handler, strong fairness of the boot processor's step, which the button may interrupt again and again but
  not keep from ever executing another instruction. Each is a processor that executes its next
  instruction; nothing preempts it. A SIPI is noticed eventually because an AP in that state has nothing
  else to do. An AP that is only capable of coming online never takes a step, and nothing makes an
  exception come. `BootEnds` needs it, and names both as ways not to end.
* `IrqRouting!FairSpec`: weak fairness of `kernel_main`, and of the PIT's interrupt while it is
  enabled to arrive: the PIT in rate mode keeps raising its line, and `kernel_main` halts with
  interrupts on. `PitTicks` needs it.
* `UacpiHost!FairSpec`: weak fairness of the interrupt and of its handler: a pending interrupt
  is taken when the flag stays on, and the handler has the processor to itself. Nothing is
  assumed of `kernel_main`, which may stay in uACPI for ever. `PowerButtonServed` needs it.
* `KernelTime` states its timing properties as safety: time does not pass while a polling loop
  whose target is reached has still to notice it. That is the assumption that the loop is fast
  against a unit of time; without it every upper bound on a delay would be false.

Deadlock is checked in all passing runs but three. In `smp_boot` a core may be halted for good by
`kernel_panic`, and the boot processor waits without a timeout for a processor that never
answers. In `console` every writer has made its prints, and in `uacpi_host` the machine is off,
or the processor is halted with interrupts off or no press left, or spins for the cache's lock
its own interrupt keeps (the hazard of `CacheNeverSelfWaits`). The other modules end in an explicit
stuttering step (`halted`, `time_ends`, `boot_over`, ...).

## 5. Proofs

`tlapm` proves, for every value of the constants that satisfies the assumptions of the modules:

* **`BuddyProofs`**: `BuddyTypeOK`, `BlocksAlwaysSound`, `BitDecidesMerge` and
  `CallsAlwaysConsistent`. The inductive invariant is the conjunction of `TypeOK`,
  `BlocksAligned`, `PagesDisjoint`, `BitMatchesLists`, `NeverBothListed` and `CallsConsistent`. None is inductive
  alone: a merge removes the buddy from its list because the bit says so (`BitMatchesLists`),
  which leaves blocks disjoint only if the buddy was listed as a whole block, which in turn is
  why both halves are never listed. The module begins with the arithmetic this rests on: a
  block and its buddy are disjoint and make up the block above, each pair has one index, a block
  that has a page in common with a larger one lies in it. The assumptions are those of `PageBlocks` and `Buddy`
  (`Pow2` doubles, orders and pages are natural numbers, regions lie in memory, `total_memory`
  covers what is ever freed).
  From this invariant and four more facts about a running call come `CountersAlwaysExact` and
  `ListsImplementAllocator`, that is `Spec => ImplementsPageAllocator`: the block given back
  lies inside the block it has been merged into, what an allocation has chosen is what the
  abstract allocator may choose for what this call asked, the counters count the abstract free pages, and no page comes
  to the lists from outside what `total_memory` counts. Each step is shown to be one of
  `PageAllocator` or a stutter, by what it does to `AbstractFree`. The argument that matters is
  `RunInOneBlock`: if no list holds two buddies, every aligned run of free pages lies inside one
  listed block (by the least order at which it would not), so the lists are exactly the
  maximal blocks, a best fit is found and a refusal is justified.
  The last part of the module is about `PmmBoot`: `BootImplementsBuddy` (the refinement of `Buddy` the
  run checks), `BumpedStayLive`, and `BootListsAll`: when `initialize_buddy` returns, the
  lists hold exactly the usable pages that are neither reserved nor handed out before. The memory map, the
  page size and the early requests are arbitrary. The proof first turns byte addresses into page
  numbers; then `boot` is what is due and lies ahead of the walk (`WalkHolds`), a block at which the inner
  loop stops is aligned, inside the entry and clear of every reserved page, and since entries do not
  overlap, freeing it takes from `boot` just its pages. `AllAccounted` says that the pages in blocks and
  those in `boot` are together what is due. `BootInv` and the invariant of `Buddy` are proved
  together, because the merges of a walk's block need the latter. These three have the hypothesis
  `NoRewind` (the search for a bump region never returns one that starts below the bump pointer), which the
  code does not ensure: nothing advances `bump_watermark`, and the run `pmm_boot_reuse` shows the
  reuse. `RoomIsEnough` says on which machines it holds, as a condition on the memory map alone: the first
  region with room for a page has room for all the early requests and the bitmaps (`RoomForAll`).
  That the bump allocator hands no page out twice is not a theorem, since it is false. The assumptions are
  that the firmware's map lists no byte twice, that the bitmaps take at least a page (`BitmapAssumption`),
  and that `EarlyRanges` are the runs of pages a bump pointer can have passed.
* **`SlubProofs`**: `SlubInvariant`, and from it `ObjectsCounted`, `PartialListsProper`,
  `PagesAccounted` and `NoInvalidFree`, for any memory size, object sizes and
  number of APs, and whatever callers write. The invariant is over the headers in the pages:
  every slab's free list and count are those of the objects callers hold (`SlabOK`), the links are a proper list (`ProperList`), the
  page before the one a caller of the large path got has the mark, and the caller's page looks like a slab
  only if it did when it was handed out (`MarkOK`), every page is free, a slab, a caller's or
  lost (`NothingLost`),
  and a running `initialize_slub_ap` is where the caches of the cores it needs exist or not
  (`SetupOK`). `PartialListExact` is not inductive: it allows a ring of slabs apart from the head,
  and a removal of the head would leave only the ring. `FromHead` excludes it: a set that
  holds the head and the successors of its members is the whole list. What
  `slub_tests.cpp` 85 asserts, that all pages return, is not a theorem: `MCSlubStale.cfg` refutes it.
  `PagesAccounted` says which pages do not return. `Slub` uses the PMM as
  `PageAllocator` promises it, and `ListsImplementAllocator` shows that `Buddy` keeps that promise.
* **`PagingProofs`**: `OneTree`, `DirectMapExact`, `TablesInHhdm`, `LoopsComplete`,
  `CachedTranslationsHold` and the refinement `TablesImplementMap`, for any number of entries of a
  table, any memory map and whatever callers map and unmap. The facts about tables are about
  any table function, so that they serve before and after a step. `Tree` says that every
  table is of one level, that two links to one table are the two boot.asm made (`Twins`) or are
  the same, and that huge leaves are aligned and of level 2 or 3; hanging an empty table below
  an empty entry keeps it (`HangTree`), and so does writing a leaf (`PutTree`). From it follows which addresses
  share an entry (`PathUnique`): those of one aligned block, and their copies at `KernelSlot`; the
  addresses below `p2_table` are in two blocks, and no call writes there. So a write at the end of a
  walk changes the mappings of one block and of no other address (`PutMaps`, `HangMaps`).
  `CallInv` says that a call between two levels is still at a table of its own address's walk.
  The invariant then adds that leaves of the HHDM map their own address (`HhdmOk`), that a cached
  leaf is the leaf of its address (`TlbInv`), that during `initialize` nothing else runs
  and all is mapped by pages of 4 KiB (`InitInv`), that what it has passed is mapped by such a page
  unless a caller unmaps just that page (`RamInv`: a larger leaf could be lost to an `unmap_page` of
  a neighbour), and which pages of a range are mapped at each turn of `uacpi_kernel_map` (`RegionInv`).
  `CallersAssumption` is what the callers in `src/` do: the APICs, the HPET, the framebuffer and uACPI
  map at `HHDM_BASE` + physical address, the trampoline at its own address, and nobody unmaps
  the kernel. `LoopsComplete` and `TablesInHhdm` have the hypothesis `RamInWindow` (no RAM
  at 510 GiB and above), which the code needs: `MCPagingBigRam.cfg` is the counterexample without it.
  `TablesInHhdm` also needs that nobody unmaps from the HHDM a page the PMM owns (`FramesKept`). The
  instance of the run satisfies both.
* **`StartupProofs`**, for any MADT and whatever memory is refused. First that `SmpBoot` implements
  `CpuSetup` (`StartupImplements`): each step is one of `CpuSetup`'s or leaves its variables alone, so the
  theorems on `CpuSetup` hold of the start through the shared page: `ExceptionsSurvived` and
  `StacksNeverShared`. The invariant goes by the place each core is in: from where on GS is its
  own object (`OwnObject`), its object has its own stack (`OwnStack`), its TSS is filled
  (`OwnTss`), and that gates name stacks, and APs load the IDT, only after that (`GatesAfterTss`).
  Then what the handshake is for: `SmpTypes`, `OneCoreAllocates`, `ApOwnContext`, `ApCacheIndex` and the
  action property `PatchesNeverRace`. An AP runs `ap_entry` only when those before it are online
  (`InOrder`); identifiers increase along `ap_cpus`, and an AP that has not yet appended its caches
  has an identifier larger than the list is long (`Numbered`, `Listed`), so its caches never stand behind
  its index, and stand at it unless a node was refused. `InLoop` says where the APs before, at and
  after the one being started are, and which fields of the trampoline already hold its values. That
  no two cores allocate excepts the boot processor in the handler of the power button.
* **`IrqRoutingProofs`**: `IrqTypes`, `TrampolineFindsOwn`, `SlotsUnambiguous`,
  `AcknowledgedWhereDelivered`, `InstalledLinesServed`, at every instruction boundary of
  `kernel_main` and for any lines, overrides and number of slots. The invariant relates the slot
  that is being filled or emptied (`SlotOfMain`) to the place of `kernel_main`, gives every other slot in
  use to an installed line (`SlotsOfLines`), and keeps the order PIC, LAPIC, I/O APICs (`Stages`).
  `InstalledLinesServed`
  rests on a second one: no entry of any I/O APIC holds the vector of an installed line
  but at the index of its input (`NoStray`), and the entry of an I/O APIC that starts at input 0 has it
  unless another line, the HPET or the demotion of the PIT takes the entry (`Routed`, `Contested`). From
  that follow both halves: such a line is delivered, and a line behind any other I/O APIC, or behind none,
  never is. It holds of every board. `AcknowledgedWhereDelivered` alone has a hypothesis,
  `FirmwareQuiet` (the firmware left the redirection entries masked, or the boot processor's
  local APIC is not number 0), since `initialize` does not mask them. The instance of the run satisfies it.
* **`UacpiHostProofs`**: `NeverWaitsBelow` and `FlagNeverLost`, for any locks, calls and presses.
  `MainFollows` says what the saved flags of the locks `kernel_main` holds are (only the outermost has it on) and what the
  flag is at each step of entering and leaving one; `SciFollows` the same of the handler, by
  its depth; `MainHolds` that a lock word is set only for a lock that was entered. The assumption on `SciCalls`
  is that uACPI gives back each lock it takes, and holds none where it allocates or writes
  the sleep registers.
* **`KernelTimeProofs`**: `MulDivExact`, that `mul_div_u64` is the exact quotient, and
  `RawQuotientFits`, that its 128-by-64-bit division cannot trap; on them, for every frequency of the
  sources, `DelayOnTscLasts`, `PowerdownEnds`, `ClockNeverBackwards` and `ClockRateExact`. `Stage` says which
  source is in place at each step of the boot, and which of them run. `DelaysFollow` says that a
  delay's target is the count at its beginning plus the ticks asked for, and that the handler's loop was short
  of its target a unit ago, wherever in the boot the button was pressed. `Accounts` says that the nanoseconds
  accumulated and those at the last switch are in the past. `Readings` says that the latest reading is at most
  what the clock would say now (`Clock`, which inside `KernelTime::initialize` stands still at the
  accumulated value), unless it was torn or a product has wrapped since, and how far a reading of the
  HPET is behind. `Interruptible` is where an interrupt may come in. `PowerdownEnds` has no hypothesis: on the
  PIT alone the handler never ends, and the property says so. The two theorems on the clock have one,
  `UptimeFits`: the time itself, in nanoseconds, fits a word twice over, 292 years. The products may wrap
  any number of times.
  The TSC's rate is a whole number of counts a unit; at any
  other, `TSC::delay_us` is short by less than one count.
  On `Rtc`: `DaysExact`, the day formula on every day from 1970 on, without an upper year, and
  `SmallReadsExact`. The formula's three divisions are shown to count the leap days (`Leaps`): from one year
  to the next they grow by one exactly if the year is a leap year (`NextLeaps`); so a step of the calendar,
  within a month, over its end or over the year's end, adds one day (`NextDateCounts`). `Reading` says that
  what a read has so far are the fields of its first register's time, each decoded twice, but for a
  minute that may have rolled over (`ReadSoFar`). A field of 16 or more loses at least six in the second
  decoding and gains nothing (`TwiceIs`), so no error makes up for another (`TimeWrong`, `DateWrong`),
  and a read is right exactly if all fields are small. `SmallReadsExact` has the hypothesis that the walk ends
  between 1970 and 2069, since the code keeps two digits of the year.
* **`ConsoleProofs`**: `CursorComesBack` and `FrameStays`, for any screen and font with room for the title, the
  frame and one character (`ConsoleAssumption`), and whatever is printed. `Watched` says that a cursor
  beyond the section is watched by a writer that is about to compare what it has itself stored, or has
  done so and will put it back: a writer that another overtakes leaves its duty to that
  one. `Calm` is what holds until two processors have printed at once: an AP prints alone, a
  writer outside the interrupt stores at most one column and one row beyond the section, and so the
  cursor is there too unless the interrupt itself watches it; what is drawn at such a cursor
  stays inside the frame. `FrameIntact` alone says nothing of the cursor and is not inductive.
  `TextShown` is about the text, and so about all of `Printf` and `kputchar` together. `Undisturbed` says
  that the log is the text shown so far and what the one who prints has left of it, and `InPlace` what the
  section and the cursor are at each step of `kputchar`, for the page before the character (`rows`) and the
  character: the glyph is drawn in the cell behind the last one (`DrawShows`), a row that is full or ends at a
  newline begins the next (`NextPage`), and at the last row the scroll moves every pixel up a row and blanks
  the last (`ScrollShows`); the frame and the title leave the section blank (`DecoratedShows`). Before the screen is
  set up it is the serial port that has the log (`OnlySerial`). `NumbersExact` is that `utoa`,
  `itoa` and `sprintf` write what the formats mean, for any width of a word: the digits of the loop are
  those of the quotients (`LowestStep`), and a number has one length in a base (`LengthOf`, `OneLength`).
  The assumptions are that a format's arguments are those its items take (`MessagesAssumption`), that texts have
  no terminator inside, and, as in the model, that a print to the serial port fits its buffer of 1024.

`BuddyTypeOK`, `SmpTypes` and `IrqTypes` are type invariants; the configurations leave `TypeOK` out
in favour of properties that say more.

Every safety property of a passing run is a theorem. What a recursive function computes would
be an induction, and the library's induction theorems take an operator, which no installed prover can
instantiate. `ConsoleProofs` does without: a set of numbers has a least one (`LeastOf`), so a
least counterexample serves as the induction step, and `Recursion` and `SameRecursion` say that a function
defined by recursion exists and satisfies its definition; `Power`, the digits of `utoa`, the texts of a
format, the rows of a page and the letters of the title are treated so. Out of the provers' reach is
liveness (`BootEnds`, `PitTicks`, `PowerButtonServed`). Not proved is what
`BytesUpTo` computes, of which the proofs use only what `BitmapAssumption` says and TLC evaluates,
and `user_path` of `Paging`, which only `MCPagingUser.cfg` uses. `Syscall` has no theorem: its run and the
rows of section 3 are counterexamples.

## 6. What is not modelled, and why

* **Interrupts inside the allocators.** `Slub` and `Buddy` have no interrupt. What an interrupt
  can meet there, the cache's lock, is in `UacpiHost`, with the cache reduced to its count of
  objects. The PMM's lock is declared and never taken, so two callers at once are kept apart only
  by what `AllocatorExclusive` of `SmpBoot` says: never two cores, unless the power button is pressed while
  an AP starts. What happens to the lists then is not modelled.
* **TLBs of several cores.** No mapping changes after the APs are up.
* **uACPI itself** is a submodule that is not in the repository; its calls are modelled from the
  host layer's side. Its PCI hooks return OK and do nothing, its events and deferred work are empty
  functions, and `stall` and `sleep` poll monotonic time the way the modelled delays do.
* **The links of `util::List`.** `CpuSetup` and `Slub` have the lists they use as sequences; only
  the refusal of `push_back` is a step of its own. One caller at a time is on any list.
* **Pitch and depth of the framebuffer**, and the loop that maps it: `Console` draws on a grid of
  pixels, and the mapping calls are those `Paging` already makes.
* **Register frames of the interrupt stubs.** A handler is a step between two steps of what it
  interrupts; that the stubs push and pop the same registers is read off the assembly. `Syscall`
  follows its registers, since there they do not come back.
* **Device registers with no protocol** (serial port, CMOS ports), CPUID feature bits, RSDP
  checksums, the search for multiboot tags, functions that copy and compare bytes: straight-line
  code without state that outlives a call.
* **The in-kernel tests** are sequences of calls of operations that are modelled.

## 7. Plan

Proofs: the refinement of one component by another where one now rests on the other's promise by
argument only, first `AllocatorExclusive` of `SmpBoot` under the one-step calls of `Slub`.

Modelling: the links of `util::List` against a sequence; the walk over the multiboot tags.
