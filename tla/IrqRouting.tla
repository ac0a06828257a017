----------------------------- MODULE IrqRouting -----------------------------
(***************************************************************************)
(* How a device line reaches a C++ handler while the boot processor moves  *)
(* from the 8259A PIC to the Local and I/O APICs: the software table of    *)
(* handlers (interrupts.cpp), the redirection tables (ioapic.cpp), the     *)
(* PIT's demotion (pit.cpp), the handler slots lent to uACPI               *)
(* (uacpi_osl.cpp), and the order in which kernel_main sets them up.       *)
(*                                                                         *)
(* kernel_main is one thread, `main'; an interrupt is taken between any    *)
(* two of its steps when the interrupt flag is set, and its handler runs   *)
(* to the end first (every gate is an interrupt gate, isr.asm has cli).    *)
(*                                                                         *)
(* A GSI, an IRQ and a vector are numbers as in the code.  Polarity and    *)
(* trigger flags are left out.                                             *)
(***************************************************************************)
EXTENDS Naturals, Sequences, FiniteSets, FiniteSetsExt

CONSTANTS
    Irqs,           \* the legacy lines with a device on them; 0 is the PIT
    UacpiIrqs,      \* the lines uACPI installs handlers for (the SCI, GPEs)
    Wire,           \* [Irqs -> GSI]: the I/O APIC input of each line
    Overrides,      \* SystemTopology::overrides, in the order of the MADT
    Ioapics,        \* the I/O APICs: a sequence of [gsib, max_entries]
    HpetGsis,       \* the inputs HPET timer 0 may be routed to
    BspId,          \* local APIC id of the boot processor
    HandlerSlots,   \* UACPI_MAX_HANDLERS, 8 in the code
    FirmwareMasks,  \* the firmware left every redirection entry masked
    AllInvariant    \* only processors with an invariant TSC are considered

CPU_IRQ_NUM == 32
PIT_VECTOR == 32
HPET_SYSTEM_TIMER_VECTOR == 34
TIMER_INT_VECTOR == 64
NONE == 255

\* The MADT describes the wiring: a line is listed with the input it is wired
\* to, or is wired to the input of its own number.  IRQ 2 is the cascade of the
\* two PICs: no device is on it.
ASSUME WiringAssumption ==
    /\ Irqs \subseteq 0 .. 15 \ {2} /\ 0 \in Irqs
    /\ UacpiIrqs \subseteq Irqs \ {0}
    /\ Wire \in [Irqs -> Nat]
    /\ Overrides \in Seq([irq_source : Nat, gsi : Nat])
    /\ \A i \in Irqs :
        IF \E k \in DOMAIN Overrides : Overrides[k].irq_source = i
        THEN \A k \in DOMAIN Overrides :
                Overrides[k].irq_source = i => Overrides[k].gsi = Wire[i]
        ELSE Wire[i] = i
ASSUME IoapicAssumption ==
    /\ Ioapics \in Seq([gsib : Nat, max_entries : Nat])
    /\ \A j, k \in DOMAIN Ioapics : j < k =>
        Ioapics[j].gsib + Ioapics[j].max_entries <= Ioapics[k].gsib
ASSUME BoardAssumption ==
    /\ HpetGsis \subseteq 0 .. 31 /\ BspId \in Nat /\ HandlerSlots \in Nat
    /\ FirmwareMasks \in BOOLEAN /\ AllInvariant \in BOOLEAN

VARIABLES
    main,       \* kernel_main: [at, irq, slot, gsi, vec, rax, ret]
    iflag,      \* the boot processor's interrupt flag
    handlers,   \* interrupt_handlers: vector |-> who is registered
    slots,      \* g_uacpi_handlers
    rte,        \* the redirection entries of each I/O APIC
    up,         \* io_apic_objs: the number of initialized I/O APICs
    pic_disabled, lapic,
    pit,        \* [on: PIT::initialized, gsi: PIT::pit_gsi, mode: of channel 0]
    hpet,       \* [present, gsi: chosen_gsi once timer 0 is set up]
    installed,  \* lines for which uACPI was told OK
    ticks,      \* PIT::ticks, modulo 2
    last        \* the latest interrupt: [line, via, vec, ran, ctx, eoi]
vars == <<main, iflag, handlers, slots, rte, up, pic_disabled, lapic, pit, hpet,
          installed, ticks, last>>

Vec(irq) == CPU_IRQ_NUM + irq
Vectors == {Vec(i) : i \in Irqs}
             \cup {PIT_VECTOR, HPET_SYSTEM_TIMER_VECTOR, TIMER_INT_VECTOR}
EmptySlot == [in_use |-> FALSE, handler |-> NONE, ctx |-> NONE, vector |-> 0]

-----------------------------------------------------------------------------
\* The redirection table hardware: input g is entry g - gsib of the I/O APIC
\* whose range holds it.
HwEntries(g) ==
    {rte[k][g - Ioapics[k].gsib] : k \in {j \in DOMAIN Ioapics :
        Ioapics[j].gsib <= g /\ g < Ioapics[j].gsib + Ioapics[j].max_entries}}
Reaches(g) == {e.vector : e \in {f \in HwEntries(g) : ~f.mask /\ f.dest = BspId}}

get_gsi_for_irq_ident(irq) == irq
get_gsi_for_irq(irq) ==
    LET hits == {k \in DOMAIN Overrides : Overrides[k].irq_source = irq}
    IN  IF hits = {} THEN irq ELSE Overrides[Min(hits)].gsi

\* The first initialized I/O APIC that owns the input, or 0.
get_ioapic_for_gsi(gsi) ==
    LET own == {k \in 1 .. up : /\ Ioapics[k].gsib <= gsi
                                /\ gsi < Ioapics[k].gsib + Ioapics[k].max_entries}
    IN  IF own = {} THEN 0 ELSE Min(own)

\* Register writes of I/O APIC k: the entry's index is the gsi itself.
WriteLow(tbl, k, gsi, vec, masked) ==
    IF gsi \in DOMAIN tbl[k]
    THEN [tbl EXCEPT ![k][gsi] = [@ EXCEPT !.vector = vec, !.mask = masked]]
    ELSE tbl
WriteHigh(tbl, k, gsi, dest) ==
    IF gsi \in DOMAIN tbl[k] THEN [tbl EXCEPT ![k][gsi].dest = dest] ELSE tbl
mask_gsi(tbl, k, gsi) ==
    IF gsi \in DOMAIN tbl[k] THEN [tbl EXCEPT ![k][gsi].mask = TRUE] ELSE tbl

\* write_rte does nothing before the object is initialized, and the masking
\* loop of IOAPIC::initialize runs just before that.
mask_loop(tbl, k, initialized) ==
    IF ~initialized THEN tbl
    ELSE [tbl EXCEPT ![k] = [g \in DOMAIN @ |-> [vector |-> 0, mask |-> TRUE, dest |-> 0]]]

get_uacpi_entry(vec) == {s \in DOMAIN slots : slots[s].in_use /\ slots[s].vector = vec}

-----------------------------------------------------------------------------
\* kernel_main, in order.  Every step says what it changes.
Goto(from, to) == main.at = from /\ main' = [main EXCEPT !.at = to]

pit_initialize ==
    /\ Goto("pit", "tsc")
    /\ iflag' = FALSE
    /\ handlers' = [handlers EXCEPT ![PIT_VECTOR] = "pit"]
    /\ pit' = [pit EXCEPT !.on = TRUE, !.mode = "rate"]
    /\ UNCHANGED <<slots, rte, up, pic_disabled, lapic, hpet, installed, ticks, last>>

\* PIT::demote: one more interrupt may come (mode 0, count 0xFFFF).
demote ==
    IF pit.on
    THEN LET k == get_ioapic_for_gsi(pit.gsi)
         IN  /\ pit' = [pit EXCEPT !.on = FALSE, !.mode = "once"]
             /\ rte' = IF k = 0 THEN rte ELSE mask_gsi(rte, k, pit.gsi)
             /\ handlers' = [handlers EXCEPT ![PIT_VECTOR] = "none"]
    ELSE UNCHANGED <<pit, rte, handlers>>

tsc_calibrate ==
    /\ Goto("tsc", "pic")
    /\ \E invariant \in {TRUE, AllInvariant} :
        IF invariant THEN demote /\ iflag' = TRUE
        ELSE UNCHANGED <<pit, rte, handlers, iflag>>
    /\ UNCHANGED <<slots, up, pic_disabled, lapic, hpet, installed, ticks, last>>

pic_disable ==
    /\ Goto("pic", "lapic")
    /\ pic_disabled' = TRUE
    /\ UNCHANGED <<iflag, handlers, slots, rte, up, lapic, pit, hpet, installed, ticks, last>>

\* LAPIC::write_reg drops what is written before `initialized' is set, and
\* initialize sets it last.
lapic_write(regs, initialized, reg, value) ==
    IF initialized THEN [regs EXCEPT ![reg] = value] ELSE regs
lapic_initialize ==
    /\ Goto("lapic", "ioapic")
    /\ lapic' = [lapic_write(lapic_write(lapic, lapic.initialized, "lint0", "masked"),
                             lapic.initialized, "timer", "masked")
                   EXCEPT !.initialized = TRUE]
    /\ UNCHANGED <<iflag, handlers, slots, rte, up, pic_disabled, pit, hpet,
                   installed, ticks, last>>

ioapic_initialize ==
    /\ main.at = "ioapic" /\ up < Len(Ioapics)
    /\ up' = up + 1
    /\ rte' = mask_loop(rte, up + 1, FALSE)
    /\ UNCHANGED <<main, iflag, handlers, slots, pic_disabled, lapic, pit, hpet,
                   installed, ticks, last>>

write_rte_for_pit ==
    /\ main.at = "ioapic" /\ up = Len(Ioapics)
    /\ main' = [main EXCEPT !.at = "find", !.vec = PIT_VECTOR, !.ret = "pit_gsi"]
    /\ UNCHANGED <<iflag, handlers, slots, rte, up, pic_disabled, lapic, pit, hpet,
                   installed, ticks, last>>

\* IOAPIC::find_gsi_and_write_rte returns a bool through an int.
found_result(ok) == IF ok THEN 1 ELSE 0
find_gsi ==
    /\ main.at = "find"
    /\ LET gsi == get_gsi_for_irq(main.vec - CPU_IRQ_NUM)
           ok  == get_ioapic_for_gsi(gsi) # 0
       IN  main' = [main EXCEPT !.at = IF ok THEN "low" ELSE main.ret,
                                !.gsi = gsi, !.rax = found_result(ok)]
    /\ UNCHANGED <<iflag, handlers, slots, rte, up, pic_disabled, lapic, pit, hpet,
                   installed, ticks, last>>
write_rte_masked_on == TRUE
write_rte_masked == FALSE
write_rte_low ==
    /\ Goto("low", "high")
    /\ rte' = WriteLow(rte, get_ioapic_for_gsi(main.gsi), main.gsi, main.vec,
                       write_rte_masked)
    /\ UNCHANGED <<iflag, handlers, slots, up, pic_disabled, lapic, pit, hpet,
                   installed, ticks, last>>
write_rte_high ==
    /\ Goto("high", main.ret)
    /\ rte' = WriteHigh(rte, get_ioapic_for_gsi(main.gsi), main.gsi, BspId)
    /\ UNCHANGED <<iflag, handlers, slots, up, pic_disabled, lapic, pit, hpet,
                   installed, ticks, last>>

\* The test pit_gsi == -1 is never true of a uint8_t; then kernel_main's sti.
pit_rte_written ==
    /\ Goto("pit_gsi", "uacpi")
    /\ pit' = [pit EXCEPT !.gsi = main.rax]
    /\ iflag' = TRUE
    /\ UNCHANGED <<handlers, slots, rte, up, pic_disabled, lapic, hpet, installed,
                   ticks, last>>

-----------------------------------------------------------------------------
\* uacpi_kernel_install_interrupt_handler, one assignment at a time; uACPI
\* installs at most one handler for a line.
install_order_early == [alloc |-> "register", register |-> "handler",
                        handler |-> "ctx", ctx |-> "find"]
install_order == [alloc |-> "handler", handler |-> "ctx", ctx |-> "register",
                  register |-> "find"]

install(i) ==
    /\ main.at \in {"uacpi", "idle"}
    /\ i \notin installed
    /\ LET free == {s \in DOMAIN slots : ~slots[s].in_use}
       IN  IF free = {} THEN UNCHANGED <<slots, main>>
           ELSE /\ slots' = [slots EXCEPT ![Min(free)].in_use = TRUE,
                                          ![Min(free)].vector = Vec(i)]
                /\ main' = [main EXCEPT !.at = install_order.alloc, !.irq = i,
                              !.slot = Min(free), !.vec = Vec(i),
                              !.ret = "check", !.back = main.at]
    /\ UNCHANGED <<iflag, handlers, rte, up, pic_disabled, lapic, pit, hpet,
                   installed, ticks, last>>
install_handler ==
    /\ Goto("handler", install_order.handler)
    /\ slots' = [slots EXCEPT ![main.slot].handler = main.irq]
    /\ UNCHANGED <<iflag, handlers, rte, up, pic_disabled, lapic, pit, hpet,
                   installed, ticks, last>>
install_ctx ==
    /\ Goto("ctx", install_order.ctx)
    /\ slots' = [slots EXCEPT ![main.slot].ctx = main.irq]
    /\ UNCHANGED <<iflag, handlers, rte, up, pic_disabled, lapic, pit, hpet,
                   installed, ticks, last>>
install_register ==
    /\ Goto("register", install_order.register)
    /\ handlers' = [handlers EXCEPT ![main.vec] = "uacpi"]
    /\ UNCHANGED <<iflag, slots, rte, up, pic_disabled, lapic, pit, hpet, installed,
                   ticks, last>>

\* The rollback waits for a -1 (here NONE) that find_gsi never answers.
install_check ==
    /\ Goto("check", main.back)
    /\ IF main.rax = NONE
       THEN /\ handlers' = [handlers EXCEPT ![main.vec] = "none"]
            /\ slots' = [slots EXCEPT ![main.slot] = EmptySlot]
            /\ UNCHANGED installed
       ELSE installed' = installed \cup {main.irq} /\ UNCHANGED <<handlers, slots>>
    /\ UNCHANGED <<iflag, rte, up, pic_disabled, lapic, pit, hpet, ticks, last>>

\* uacpi_kernel_uninstall_interrupt_handler: the redirection entry stays.
uninstall(i) ==
    /\ main.at = "idle" /\ i \in installed
    /\ \E s \in get_uacpi_entry(Vec(i)) :
        /\ slots[s].handler = i
        /\ main' = [main EXCEPT !.at = "unregister", !.irq = i, !.slot = s,
                      !.vec = Vec(i), !.back = "idle"]
    /\ installed' = installed \ {i}
    /\ UNCHANGED <<iflag, handlers, slots, rte, up, pic_disabled, lapic, pit, hpet,
                   ticks, last>>
uninstall_unregister ==
    /\ Goto("unregister", "release")
    /\ handlers' = [handlers EXCEPT ![main.vec] = "none"]
    /\ UNCHANGED <<iflag, slots, rte, up, pic_disabled, lapic, pit, hpet, installed,
                   ticks, last>>
release_slot(slot) == EmptySlot
uninstall_release ==
    /\ Goto("release", main.back)
    /\ slots' = [slots EXCEPT ![main.slot] = release_slot(@)]
    /\ UNCHANGED <<iflag, handlers, rte, up, pic_disabled, lapic, pit, hpet,
                   installed, ticks, last>>

-----------------------------------------------------------------------------
\* APICTimer::initialize and HPET::initialize, setup_system_timer.
apic_timer_initialize ==
    /\ Goto("uacpi", "hpet")
    /\ handlers' = [handlers EXCEPT ![TIMER_INT_VECTOR] = "apic"]
    /\ lapic' = lapic_write(lapic, lapic.initialized, "timer", "on")
    /\ UNCHANGED <<iflag, slots, rte, up, pic_disabled, pit, hpet, installed, ticks, last>>

hpet_absent ==
    /\ Goto("hpet", "idle") /\ ~hpet.present
    /\ UNCHANGED <<iflag, handlers, slots, rte, up, pic_disabled, lapic, pit, hpet,
                   installed, ticks, last>>
hpet_initialize ==
    /\ Goto("hpet", "timer0") /\ hpet.present
    /\ demote
    /\ UNCHANGED <<iflag, slots, up, pic_disabled, lapic, hpet, installed, ticks, last>>

\* valid_irq_mask: the routings of timer 0 that some I/O APIC has a pin for.
max_ioapic_entry == Max({Ioapics[k].max_entries : k \in 1 .. up})
valid_irq_mask == {g \in HpetGsis : g < max_ioapic_entry}
chosen_gsi == IF valid_irq_mask = {} THEN 2 ELSE Min(valid_irq_mask)
setup_system_timer ==
    /\ main.at = "timer0"
    /\ handlers' = [handlers EXCEPT ![HPET_SYSTEM_TIMER_VECTOR] = "hpet"]
    /\ IF get_ioapic_for_gsi(chosen_gsi) = 0
       THEN main' = [main EXCEPT !.at = "idle"] /\ UNCHANGED hpet
       ELSE /\ main' = [main EXCEPT !.at = "low", !.gsi = chosen_gsi,
                          !.vec = HPET_SYSTEM_TIMER_VECTOR, !.ret = "idle"]
            /\ hpet' = [hpet EXCEPT !.gsi = chosen_gsi]
    /\ UNCHANGED <<iflag, slots, rte, up, pic_disabled, lapic, pit, installed, ticks, last>>

main_step ==
    \/ pit_initialize \/ tsc_calibrate \/ pic_disable \/ lapic_initialize
    \/ ioapic_initialize \/ write_rte_for_pit \/ find_gsi \/ write_rte_low
    \/ write_rte_high \/ pit_rte_written
    \/ install_handler \/ install_ctx \/ install_register \/ install_check
    \/ uninstall_unregister \/ uninstall_release
    \/ apic_timer_initialize \/ hpet_absent \/ hpet_initialize \/ setup_system_timer
uacpi_calls == \E i \in UacpiIrqs : install(i) \/ uninstall(i)

-----------------------------------------------------------------------------
\* hw_irq_handler on vector v for a device line, from the controller `via'.
\* The trampoline looks its slot up by the vector; the first match counts.
ran_by(v) ==
    IF handlers[v] = "uacpi" /\ get_uacpi_entry(v) # {}
    THEN LET s == slots[Min(get_uacpi_entry(v))] IN [who |-> "uacpi", h |-> s.handler, ctx |-> s.ctx]
    ELSE [who |-> handlers[v], h |-> NONE, ctx |-> NONE]
eoi_sent_pic(v) == IF v \in 32 .. 47 THEN "pic" ELSE "lapic"
eoi_sent(v) ==
    IF pic_disabled THEN (IF lapic.initialized THEN "lapic" ELSE "dropped")
    ELSE IF v \in 32 .. 47 THEN "pic" ELSE "none"
take(line, via, v) ==
    /\ iflag
    /\ last' = [line |-> line, via |-> via, vec |-> v, ran |-> ran_by(v), eoi |-> eoi_sent(v)]
    /\ ticks' = IF handlers[v] = "pit" THEN 1 - ticks ELSE ticks
    /\ UNCHANGED <<main, iflag, handlers, slots, rte, up, pic_disabled, lapic, hpet, installed>>

\* A device raises its line; the PIT only while channel 0 counts.
Fires(i) == i = 0 => pit.mode # "off"
AfterFire(i) == pit' = IF i = 0 /\ pit.mode = "once" THEN [pit EXCEPT !.mode = "off"] ELSE pit
irq_by_pic(i) == /\ ~pic_disabled /\ Fires(i) /\ take(i, "pic", Vec(i)) /\ AfterFire(i)
irq_by_ioapic(i) ==
    \E v \in Reaches(Wire[i]) : Fires(i) /\ take(i, "lapic", v) /\ AfterFire(i)
irq_by_hpet ==
    \E v \in (IF hpet.gsi = NONE THEN {} ELSE Reaches(hpet.gsi)) :
        take(CPU_IRQ_NUM, "lapic", v) /\ UNCHANGED pit
irq_by_apic_timer ==
    lapic.timer = "on" /\ take(CPU_IRQ_NUM + 1, "lapic", TIMER_INT_VECTOR) /\ UNCHANGED pit
interrupt ==
    \/ \E i \in Irqs : irq_by_pic(i) \/ irq_by_ioapic(i)
    \/ irq_by_hpet \/ irq_by_apic_timer

NoInterrupt == [line |-> NONE, via |-> "none", vec |-> NONE,
                ran |-> [who |-> "none", h |-> NONE, ctx |-> NONE], eoi |-> "none"]
FirmwareEntry == {[vector |-> PIT_VECTOR, mask |-> m, dest |-> 0] : m \in {TRUE, FirmwareMasks}}
Init ==
    /\ main = [at |-> "pit", irq |-> NONE, slot |-> NONE, gsi |-> NONE, vec |-> NONE,
               rax |-> 0, ret |-> "pit", back |-> "idle"]
    /\ iflag = FALSE
    /\ handlers = [v \in Vectors |-> "none"]
    /\ slots = [s \in 1 .. HandlerSlots |-> EmptySlot]
    /\ \E e \in FirmwareEntry :
        rte = [k \in DOMAIN Ioapics |-> [g \in 0 .. Ioapics[k].max_entries - 1 |-> e]]
    /\ up = 0 /\ pic_disabled = FALSE
    /\ lapic = [initialized |-> FALSE, lint0 |-> "firmware", timer |-> "firmware"]
    /\ pit = [on |-> FALSE, gsi |-> 0, mode |-> "off"]
    /\ hpet \in [present : BOOLEAN, gsi : {NONE}]
    /\ installed = {} /\ ticks = 0 /\ last = NoInterrupt

Next == main_step \/ uacpi_calls \/ interrupt
Spec == Init /\ [][Next]_vars
FairSpec == Spec /\ WF_vars(main_step) /\ WF_vars(irq_by_pic(0) \/ irq_by_ioapic(0))

-----------------------------------------------------------------------------
(* Properties *)

Places == {"pit", "tsc", "pic", "lapic", "ioapic", "find", "low", "high", "pit_gsi", "uacpi",
           "handler", "ctx", "register", "check", "unregister", "release", "hpet", "timer0",
           "idle"}

\* The variables keep their types.
TypeOK ==
    /\ main \in [at : Places, irq : UacpiIrqs \cup {NONE}, slot : Nat, gsi : Nat, vec : Nat,
                 rax : {0, 1}, ret : {"pit", "pit_gsi", "check", "idle"},
                 back : {"uacpi", "idle"}]
    /\ iflag \in BOOLEAN /\ pic_disabled \in BOOLEAN /\ ticks \in 0 .. 1
    /\ handlers \in [Vectors -> {"none", "pit", "hpet", "apic", "uacpi"}]
    /\ slots \in [1 .. HandlerSlots -> [in_use : BOOLEAN, handler : UacpiIrqs \cup {NONE},
                                        ctx : UacpiIrqs \cup {NONE}, vector : Nat]]
    /\ DOMAIN rte = DOMAIN Ioapics
    /\ \A k \in DOMAIN Ioapics : rte[k] \in [0 .. Ioapics[k].max_entries - 1 ->
                                             [vector : Nat, mask : BOOLEAN, dest : Nat]]
    /\ up \in 0 .. Len(Ioapics) /\ installed \subseteq UacpiIrqs
    /\ lapic \in [initialized : BOOLEAN, lint0 : {"firmware", "masked"},
                  timer : {"firmware", "masked", "on"}]
    /\ pit \in [on : BOOLEAN, gsi : {0, 1}, mode : {"off", "rate", "once"}]
    /\ hpet \in [present : BOOLEAN, gsi : Nat]

\* The uACPI slots in use are at most one per vector, so the trampoline's search
\* by vector (get_uacpi_entry) is unambiguous.
OneSlotPerVector ==
    \A s, t \in DOMAIN slots :
        slots[s].in_use /\ slots[t].in_use /\ slots[s].vector = slots[t].vector => s = t

\* Whenever the trampoline is registered for a vector, its slot is complete:
\* install fills handler and context before it registers, uninstall
\* unregisters before it empties the slot (uacpi_osl.cpp 329-335, 361-365), so
\* an interrupt between two of those assignments never runs a stale handler
\* or passes a stale context.
TrampolineComplete ==
    \A i \in UacpiIrqs : handlers[Vec(i)] = "uacpi" =>
        \E s \in get_uacpi_entry(Vec(i)) : slots[s].handler = i /\ slots[s].ctx = i

\* write_rte writes entry gsi of the I/O APIC that owns gsi, and that is the
\* entry of input gsi only where the I/O APIC starts at input 0.
OwnEntry(i) == \E k \in DOMAIN Ioapics : Ioapics[k].gsib = 0 /\ Wire[i] < Ioapics[k].max_entries
\* Somebody else may have written or masked the entry of line i: another line
\* or HPET timer 0 on the same input, or PIT::demote, which takes what
\* found_result answered for the PIT's input.
Contested(i) ==
    \/ \E j \in Irqs \ {i} : Wire[j] = Wire[i]
    \/ hpet.gsi # NONE /\ hpet.gsi = Wire[i]
    \/ ~pit.on /\ pit.gsi = Wire[i]

\* What `OK' from install_interrupt_handler is worth (uacpi_osl.cpp 323-350):
\* the handler table and the slot lead to the line's own handler and context,
\* and the line is delivered if write_rte can write its entry, whatever else
\* kernel_main sets up afterwards.  uACPI is told OK as well for a line behind
\* an I/O APIC that does not start at input 0, or behind none, and no
\* interrupt of such a line ever arrives (ioapic.cpp 32, 95), although the
\* comment at uacpi_osl.cpp 338-339 says that this is rolled back.
InstalledServed ==
    \A i \in installed :
        /\ ran_by(Vec(i)) = [who |-> "uacpi", h |-> i, ctx |-> i]
        /\ OwnEntry(i) => Reaches(Wire[i]) = {Vec(i)} \/ Contested(i)
        /\ Vec(i) \in Reaches(Wire[i]) => OwnEntry(i)

\* Every interrupt is acknowledged to the controller that delivered it, also
\* across the change from the PIC to the APICs (interrupts.cpp 83-91).
EoiToDeliverer == last.eoi = last.via

\* While the PIT is the time source, its interrupts keep reaching
\* tick_handler once interrupts are enabled, so PIT::delay_us ends; this is
\* what write_rte_for_pit is for.
PitTicks == [](main.at = "idle" /\ pit.on => <>(ticks = 0) /\ <>(ticks = 1))

\* ioapic.cpp 116: after its initialization an I/O APIC's entries are masked
\* until the kernel writes one.
MaskedByDefault ==
    main.at = "ioapic" =>
        \A k \in 1 .. up : \A g \in DOMAIN rte[k] : rte[k][g].mask

\* uacpi_osl.cpp 338-339: no installed handler without a redirection entry
\* that carries its vector.
NoDanglingHandler ==
    \A i \in installed : \E k \in 1 .. up : \E g \in DOMAIN rte[k] :
        rte[k][g].vector = Vec(i) /\ ~rte[k][g].mask

\* pit.hpp 38-39: the PIT gets a redirection entry only if it has not been
\* disabled by then.
PitRteOnlyWhileOn ==
    (\E k \in 1 .. up : \E g \in DOMAIN rte[k] :
        rte[k][g].vector = PIT_VECTOR /\ ~rte[k][g].mask) => pit.on

\* interrupts.md 21: LINT0 is masked once the local APIC is set up.
LintMasked == lapic.initialized => lapic.lint0 = "masked"

=============================================================================
