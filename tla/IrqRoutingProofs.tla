--------------------------- MODULE IrqRoutingProofs ---------------------------
(***************************************************************************)
(* For any lines, overrides and I/O APICs, and at every instruction        *)
(* boundary of kernel_main: the trampoline finds the handler of the line,  *)
(* an interrupt is acknowledged where it came from unless the firmware     *)
(* left an entry open, and of the lines uACPI was told OK those are served *)
(* whose entry write_rte can write.                                        *)
(***************************************************************************)
EXTENDS IrqRouting, WellFoundedInduction, SequenceTheorems, TLAPS

\* The part of kernel_main that installs or uninstalls a handler.
Busy ==
    \/ main.at \in {"handler", "ctx", "register", "check", "unregister", "release"}
    \/ main.at \in {"find", "low", "high"} /\ main.ret = "check"

Complete(i) == [in_use |-> TRUE, handler |-> i, ctx |-> i, vector |-> Vec(i)]

\* The slot kernel_main works on, filled as far as it has come.
SlotOfMain ==
    Busy =>
        /\ main.irq \in UacpiIrqs \ installed
        /\ main.slot \in DOMAIN slots
        /\ slots[main.slot].in_use
        /\ slots[main.slot].vector = Vec(main.irq) /\ main.vec = Vec(main.irq)
        /\ main.at # "handler" => slots[main.slot].handler = main.irq
        /\ main.at \notin {"handler", "ctx"} => slots[main.slot].ctx = main.irq
        /\ main.at \notin {"unregister", "release"} => main.ret = "check"
        /\ main.at = "release" => handlers[main.vec] # "uacpi"

\* The other slots belong to the installed lines.
SlotsOfLines ==
    /\ \A s \in DOMAIN slots : slots[s].in_use =>
        (Busy /\ s = main.slot) \/ \E i \in installed : slots[s] = Complete(i)
    /\ \A i \in installed : \E s \in DOMAIN slots : slots[s] = Complete(i)

\* The order of kernel_main: the PIC is masked, then the Local APIC comes up, then
\* the I/O APICs.
Stages ==
    /\ main.at \notin {"pit", "tsc", "pic"} => pic_disabled
    /\ main.at \notin {"pit", "tsc", "pic", "lapic"} => lapic.initialized
    /\ main.at \notin {"pit", "tsc", "pic", "lapic", "ioapic"} => up = Len(Ioapics)
    /\ main.at \in {"find", "low", "high"} => main.ret # "pit"
    /\ main.at = "find" => \/ main.ret = "check"
                           \/ main.ret = "pit_gsi" /\ main.vec = PIT_VECTOR
    /\ main.at \in {"low", "high"} => get_ioapic_for_gsi(main.gsi) # 0

\* The firmware leaves no entry that interrupts the boot processor.
FirmwareQuiet == FirmwareMasks \/ BspId # 0

\* Before the APICs are up nothing reaches the processor through them.
QuietBefore ==
    ~(pic_disabled /\ lapic.initialized) =>
        /\ lapic.timer # "on"
        /\ \A k \in DOMAIN rte : \A g \in DOMAIN rte[k] :
            rte[k][g].mask \/ rte[k][g].dest # BspId

SlotInv ==
    /\ OneSlotPerVector
    /\ SlotOfMain
    /\ SlotsOfLines
    /\ TrampolineComplete

IInv ==
    /\ TypeOK
    /\ SlotInv
    /\ Stages
    /\ FirmwareQuiet => QuietBefore /\ EoiToDeliverer

\* I/O APIC k starts at input 0 and has the input of line i, so that write_rte's
\* index is the one of the line's own entry there.
Home(k, i) == Ioapics[k].gsib = 0 /\ Wire[i] < Ioapics[k].max_entries
EntryOf(k, i) == rte[k][Wire[i]]
Routed(i) ==
    \A k \in DOMAIN Ioapics : Home(k, i) =>
        EntryOf(k, i) = [vector |-> Vec(i), mask |-> FALSE, dest |-> BspId]

\* The routing setup_system_timer chooses, which it does with every I/O APIC up.
FinalGsi ==
    LET pins == {g \in HpetGsis :
                    g < Max({Ioapics[k].max_entries : k \in 1 .. Len(Ioapics)})}
    IN  IF pins = {} THEN 2 ELSE Min(pins)

\* What find_gsi_and_write_rte works on, by its caller.
WritesEntry ==
    main.at \in {"low", "high"} =>
        /\ main.ret = "pit_gsi" => main.gsi = Wire[0] /\ main.vec = PIT_VECTOR
        /\ main.ret = "check" => /\ main.gsi = Wire[main.irq] /\ main.vec = Vec(main.irq)
                                /\ main.irq \in UacpiIrqs \ installed
        /\ main.ret = "idle" => /\ main.gsi = hpet.gsi /\ main.vec = HPET_SYSTEM_TIMER_VECTOR
                               /\ hpet.gsi # NONE

\* Before kernel_main comes to uACPI no line is installed.
Early ==
    \/ main.at \in {"pit", "tsc", "pic", "lapic", "ioapic", "pit_gsi"}
    \/ main.at \in {"find", "low", "high"} /\ main.ret = "pit_gsi"

RMain ==
    /\ Busy /\ main.at \in {"find", "low", "high", "check"} => handlers[main.vec] = "uacpi"
    /\ Busy /\ main.at = "high" =>
        \A k \in DOMAIN Ioapics : Home(k, main.irq) =>
            EntryOf(k, main.irq).vector = main.vec /\ EntryOf(k, main.irq).mask = FALSE
    /\ main.at = "check" => Routed(main.irq)

\* The vector of a line is found in no entry but those with the number of its input.
NoStray ==
    \A i \in UacpiIrqs : \A k \in DOMAIN rte : \A g \in DOMAIN rte[k] :
        rte[k][g].vector = Vec(i) => g = Wire[i]

RInv ==
    /\ Early => installed = {}
    /\ hpet.gsi \in {NONE, FinalGsi}
    /\ WritesEntry
    /\ RMain
    /\ NoStray
    /\ \A i \in installed : handlers[Vec(i)] = "uacpi" /\ (Routed(i) \/ Contested(i))

-----------------------------------------------------------------------------
(* Operators.                                                               *)

LEMMA MinOf ==
    ASSUME NEW S \in SUBSET Nat, S # {}
    PROVE  Min(S) \in S /\ \A y \in S : Min(S) <= y
<1> DEFINE R == OpToRel(<, Nat)
<1>1. IsWellFoundedOn(R, Nat)
  BY NatLessThanWellFounded
<1>2. \A p \in Nat \X Nat : p[1] < p[2] => p \in R
  BY DEF OpToRel
<1> HIDE DEF R
<1>3. PICK x \in S : \A y \in S : ~(<<y, x>> \in R)
  BY <1>1, WFMin
<1>4. ASSUME NEW y \in S PROVE x <= y
  <2>1. x \in Nat /\ y \in Nat
    OBVIOUS
  <2>2. <<y, x>> \in Nat \X Nat /\ <<y, x>>[1] = y /\ <<y, x>>[2] = x
    BY <2>1
  <2>3. y < x => <<y, x>> \in R
    BY <1>2, <2>2, Zenon
  <2>4. QED
    BY <1>3, <2>1, <2>3
<1>5. QED
  BY <1>4 DEF Min

\* get_gsi_for_irq finds the input the line is wired to.
LEMMA GsiOfLine ==
    ASSUME NEW i \in Irqs
    PROVE  get_gsi_for_irq(i) = Wire[i]
<1> DEFINE hits == {k \in DOMAIN Overrides : Overrides[k].irq_source = i}
<1>1. hits \subseteq Nat
  BY WiringAssumption
<1>2. CASE hits = {}
  BY <1>2, WiringAssumption DEF get_gsi_for_irq
<1>3. CASE hits # {}
  <2>1. Min(hits) \in hits
    BY <1>1, <1>3, MinOf
  <2>2. get_gsi_for_irq(i) = Overrides[Min(hits)].gsi
    BY <1>3 DEF get_gsi_for_irq
  <2>3. QED
    BY <2>1, <2>2, WiringAssumption
<1>4. QED
  BY <1>2, <1>3

LEMMA LineVectors ==
    /\ \A i \in Irqs : i \in 0 .. 15 /\ Vec(i) \in Vectors /\ Vec(i) \in 32 .. 47
    /\ UacpiIrqs \subseteq Irqs /\ 0 \notin UacpiIrqs /\ NONE \notin UacpiIrqs
    /\ {PIT_VECTOR, HPET_SYSTEM_TIMER_VECTOR, TIMER_INT_VECTOR} \subseteq Vectors
    /\ Vectors \subseteq Nat
<1>1. \A i \in Irqs : i \in 0 .. 15 /\ i \in Nat
  BY WiringAssumption
<1>2. \A i \in Irqs : Vec(i) \in Vectors /\ Vec(i) \in 32 .. 47
  BY <1>1 DEF Vectors, Vec, CPU_IRQ_NUM
<1>3. {PIT_VECTOR, HPET_SYSTEM_TIMER_VECTOR, TIMER_INT_VECTOR} \subseteq Vectors
  BY DEF Vectors
<1>4. Vectors \subseteq Nat
  BY <1>1 DEF Vectors, Vec, CPU_IRQ_NUM, PIT_VECTOR, HPET_SYSTEM_TIMER_VECTOR,
              TIMER_INT_VECTOR
<1>5. UacpiIrqs \subseteq Irqs /\ 0 \notin UacpiIrqs /\ NONE \notin UacpiIrqs
  BY <1>1, WiringAssumption DEF NONE
<1>6. QED
  BY <1>1, <1>2, <1>3, <1>4, <1>5

LEMMA VecsDiffer ==
    \A i, j \in UacpiIrqs : Vec(i) = Vec(j) => i = j
BY WiringAssumption DEF Vec, CPU_IRQ_NUM

\* No line of uACPI has the vector of a timer.
LEMMA LineNotTimer ==
    ASSUME NEW i \in UacpiIrqs
    PROVE  Vec(i) # PIT_VECTOR /\ Vec(i) # HPET_SYSTEM_TIMER_VECTOR /\ Vec(i) # TIMER_INT_VECTOR
<1>1. i \in 1 .. 15 /\ i # 2
  BY WiringAssumption
<1>2. QED
  BY <1>1 DEF Vec, CPU_IRQ_NUM, PIT_VECTOR, TIMER_INT_VECTOR, HPET_SYSTEM_TIMER_VECTOR

LEMMA HpetInputs == HpetGsis \subseteq Nat /\ HpetGsis \subseteq 0 .. 31
<1>1. HpetGsis \subseteq 0 .. 31
  BY BoardAssumption
<1>2. QED
  BY <1>1

LEMMA IoapicTypes ==
    \A k \in DOMAIN Ioapics : Ioapics[k].gsib \in Nat /\ Ioapics[k].max_entries \in Nat
<1> SUFFICES ASSUME NEW k \in DOMAIN Ioapics
             PROVE  Ioapics[k].gsib \in Nat /\ Ioapics[k].max_entries \in Nat
  OBVIOUS
<1>1. Ioapics \in Seq([gsib : Nat, max_entries : Nat]) /\ k \in 1 .. Len(Ioapics)
  BY IoapicAssumption
<1>2. Ioapics[k] \in [gsib : Nat, max_entries : Nat]
  BY <1>1, ElementOfSeq
<1>3. QED
  BY <1>2

\* An I/O APIC that owns an input is one of those that are up.
LEMMA OwnerIsUp ==
    ASSUME TypeOK, NEW gsi \in Nat, get_ioapic_for_gsi(gsi) # 0
    PROVE  /\ get_ioapic_for_gsi(gsi) \in 1 .. up
           /\ get_ioapic_for_gsi(gsi) \in DOMAIN Ioapics
<1> DEFINE own == {k \in 1 .. up : /\ Ioapics[k].gsib <= gsi
                                   /\ gsi < Ioapics[k].gsib + Ioapics[k].max_entries}
<1>1. own \subseteq Nat /\ own # {} /\ get_ioapic_for_gsi(gsi) = Min(own)
  BY DEF get_ioapic_for_gsi
<1>2. Min(own) \in own
  BY <1>1, MinOf
<1>3. up \in 0 .. Len(Ioapics) /\ DOMAIN Ioapics = 1 .. Len(Ioapics) /\ Len(Ioapics) \in Nat
  BY IoapicAssumption DEF TypeOK
<1>4. QED
  BY <1>1, <1>2, <1>3

-----------------------------------------------------------------------------
(* Types: every action, and what a Goto leaves alone.                        *)

MainType == [at : Places, irq : UacpiIrqs \cup {NONE}, slot : Nat, gsi : Nat, vec : Nat,
             rax : {0, 1}, ret : {"pit", "pit_gsi", "check", "idle"},
             back : {"uacpi", "idle"}]
SlotType == [in_use : BOOLEAN, handler : UacpiIrqs \cup {NONE},
             ctx : UacpiIrqs \cup {NONE}, vector : Nat]
EntryType == [vector : Nat, mask : BOOLEAN, dest : Nat]
Names == {"none", "pit", "hpet", "apic", "uacpi"}

\* kernel_main is where it was but for its place.
Moved(from, to) ==
    /\ main.at = from /\ main'.at = to /\ main' \in MainType
    /\ main'.irq = main.irq /\ main'.slot = main.slot /\ main'.gsi = main.gsi
    /\ main'.vec = main.vec /\ main'.rax = main.rax /\ main'.ret = main.ret
    /\ main'.back = main.back

LEMMA GotoMoves ==
    ASSUME TypeOK, NEW from, NEW to \in Places, Goto(from, to)
    PROVE  Moved(from, to)
BY DEF TypeOK, Goto, Moved, MainType

RteTypes ==
    /\ DOMAIN rte = DOMAIN Ioapics
    /\ \A k \in DOMAIN Ioapics : rte[k] \in [0 .. Ioapics[k].max_entries - 1 -> EntryType]

\* The tables differ at most in entry g of I/O APIC k, which becomes e.
Wrote(k, g, e) ==
    \A j \in DOMAIN Ioapics :
        /\ DOMAIN rte'[j] = DOMAIN rte[j]
        /\ \A h \in DOMAIN rte[j] :
            rte'[j][h] = IF j = k /\ h = g THEN e ELSE rte[j][h]

LEMMA Registered ==
    ASSUME TypeOK, NEW v, NEW who \in Names
    PROVE  [handlers EXCEPT ![v] = who] \in [Vectors -> Names]
BY DEF TypeOK, Names

LEMMA EntryWrites ==
    ASSUME TypeOK, NEW k \in DOMAIN Ioapics, NEW g, NEW e,
           g \in DOMAIN rte[k] => e \in EntryType,
           rte' = IF g \in DOMAIN rte[k] THEN [rte EXCEPT ![k][g] = e] ELSE rte
    PROVE  RteTypes' /\ Wrote(k, g, e)
<1>1. RteTypes
  BY DEF TypeOK, RteTypes, EntryType
<1>2. CASE g \notin DOMAIN rte[k]
  BY <1>1, <1>2 DEF RteTypes, Wrote
<1>3. CASE g \in DOMAIN rte[k]
  BY <1>1, <1>3 DEF RteTypes, Wrote
<1>4. QED
  BY <1>2, <1>3

\* The three writes of the kernel.
LEMMA LowWrites ==
    ASSUME TypeOK, NEW k \in DOMAIN Ioapics, NEW g \in Nat, NEW v \in Nat, NEW m \in BOOLEAN,
           rte' = WriteLow(rte, k, g, v, m)
    PROVE  RteTypes' /\ Wrote(k, g, [rte[k][g] EXCEPT !.vector = v, !.mask = m])
<1> DEFINE e == [rte[k][g] EXCEPT !.vector = v, !.mask = m]
<1>1. g \in DOMAIN rte[k] => e \in EntryType
  <2>1. g \in DOMAIN rte[k] => rte[k][g] \in EntryType
    BY DEF TypeOK, EntryType
  <2>2. QED
    BY <2>1 DEF EntryType
<1>2. rte' = IF g \in DOMAIN rte[k] THEN [rte EXCEPT ![k][g] = e] ELSE rte
  BY DEF WriteLow
<1> HIDE DEF e
<1>3. RteTypes' /\ Wrote(k, g, e)
  BY <1>1, <1>2, EntryWrites
<1>4. QED
  BY <1>3 DEF e

LEMMA HighWrites ==
    ASSUME TypeOK, NEW k \in DOMAIN Ioapics, NEW g \in Nat, NEW d \in Nat,
           rte' = WriteHigh(rte, k, g, d)
    PROVE  RteTypes' /\ Wrote(k, g, [rte[k][g] EXCEPT !.dest = d])
<1> DEFINE e == [rte[k][g] EXCEPT !.dest = d]
<1>1. g \in DOMAIN rte[k] => e \in EntryType
  <2>1. g \in DOMAIN rte[k] => rte[k][g] \in EntryType
    BY DEF TypeOK, EntryType
  <2>2. QED
    BY <2>1 DEF EntryType
<1>2. rte' = IF g \in DOMAIN rte[k] THEN [rte EXCEPT ![k][g] = e] ELSE rte
  BY DEF WriteHigh
<1> HIDE DEF e
<1>3. RteTypes' /\ Wrote(k, g, e)
  BY <1>1, <1>2, EntryWrites
<1>4. QED
  BY <1>3 DEF e

LEMMA MaskWrites ==
    ASSUME TypeOK, NEW k \in DOMAIN Ioapics, NEW g \in Nat, rte' = mask_gsi(rte, k, g)
    PROVE  RteTypes' /\ Wrote(k, g, [rte[k][g] EXCEPT !.mask = TRUE])
<1> DEFINE e == [rte[k][g] EXCEPT !.mask = TRUE]
<1>1. g \in DOMAIN rte[k] => e \in EntryType
  <2>1. g \in DOMAIN rte[k] => rte[k][g] \in EntryType
    BY DEF TypeOK, EntryType
  <2>2. QED
    BY <2>1 DEF EntryType
<1>2. rte' = IF g \in DOMAIN rte[k] THEN [rte EXCEPT ![k][g] = e] ELSE rte
  BY DEF mask_gsi
<1> HIDE DEF e
<1>3. RteTypes' /\ Wrote(k, g, e)
  BY <1>1, <1>2, EntryWrites
<1>4. QED
  BY <1>3 DEF e

\* PIT::demote takes the PIT's handler and masks the entry of pit_gsi, no more.
LEMMA DemoteWrites ==
    ASSUME TypeOK, demote
    PROVE  /\ pit' \in [on : BOOLEAN, gsi : {0, 1}, mode : {"off", "rate", "once"}]
           /\ handlers' \in [Vectors -> Names]
           /\ \A v \in Vectors : v # PIT_VECTOR => handlers'[v] = handlers[v]
           /\ handlers'[PIT_VECTOR] # "uacpi" \/ handlers' = handlers
           /\ RteTypes'
           /\ \A k \in DOMAIN rte : \A g \in DOMAIN rte[k] :
                \/ rte'[k][g] = rte[k][g]
                \/ /\ g \in {0, 1} /\ g = pit.gsi
                   /\ rte'[k][g] = [rte[k][g] EXCEPT !.mask = TRUE]
           /\ pit'.gsi = pit.gsi /\ ~pit'.on
<1>1. /\ handlers \in [Vectors -> Names] /\ RteTypes
      /\ pit \in [on : BOOLEAN, gsi : {0, 1}, mode : {"off", "rate", "once"}]
      /\ PIT_VECTOR \in Vectors
  BY LineVectors DEF TypeOK, Names, RteTypes, EntryType
<1>2. CASE ~pit.on
  BY <1>1, <1>2 DEF demote, RteTypes
<1>3. CASE pit.on
  <2> DEFINE k == get_ioapic_for_gsi(pit.gsi)
  <2>1. /\ pit' = [pit EXCEPT !.on = FALSE, !.mode = "once"]
        /\ rte' = IF k = 0 THEN rte ELSE mask_gsi(rte, k, pit.gsi)
        /\ handlers' = [handlers EXCEPT ![PIT_VECTOR] = "none"]
    BY <1>3 DEF demote
  <2>2. pit.gsi \in {0, 1} /\ pit.gsi \in Nat
    BY <1>1
  <2>3. k # 0 => k \in DOMAIN Ioapics
    BY <2>2, OwnerIsUp
  <2>4. /\ RteTypes'
        /\ \A j \in DOMAIN rte : \A g \in DOMAIN rte[j] :
            \/ rte'[j][g] = rte[j][g]
            \/ /\ g \in {0, 1} /\ g = pit.gsi
               /\ rte'[j][g] = [rte[j][g] EXCEPT !.mask = TRUE]
    <3> HIDE DEF k
    <3>1. CASE k = 0
      BY <1>1, <2>1, <3>1 DEF RteTypes
    <3>2. CASE k # 0
      <4>1. RteTypes' /\ Wrote(k, pit.gsi, [rte[k][pit.gsi] EXCEPT !.mask = TRUE])
        BY <2>1, <2>2, <2>3, <3>2, MaskWrites
      <4>2. QED
        BY <1>1, <2>2, <4>1, ZenonT(30) DEF Wrote, RteTypes
    <3>3. QED
      BY <3>1, <3>2
  <2>5. handlers' \in [Vectors -> Names]
    BY <2>1, Registered DEF Names
  <2>6. pit' \in [on : BOOLEAN, gsi : {0, 1}, mode : {"off", "rate", "once"}]
    BY <1>1, <2>1
  <2>7. QED
    BY <1>1, <2>1, <2>4, <2>5, <2>6
<1>4. QED
  BY <1>2, <1>3

LEMMA SlotWrites ==
    ASSUME TypeOK, NEW s \in DOMAIN slots, NEW e \in SlotType
    PROVE  /\ [slots EXCEPT ![s] = e] \in [1 .. HandlerSlots -> SlotType]
           /\ [slots EXCEPT ![s] = e][s] = e
           /\ \A t \in DOMAIN slots : t # s => [slots EXCEPT ![s] = e][t] = slots[t]
BY DEF TypeOK, SlotType

LEMMA SlotFilled ==
    ASSUME TypeOK, NEW s \in Nat, NEW x \in UacpiIrqs \cup {NONE}
    PROVE  /\ [slots EXCEPT ![s].handler = x] \in [1 .. HandlerSlots -> SlotType]
           /\ [slots EXCEPT ![s].ctx = x] \in [1 .. HandlerSlots -> SlotType]
<1>1. slots \in [1 .. HandlerSlots -> SlotType]
  BY DEF TypeOK, SlotType
<1>2. ASSUME s \in 1 .. HandlerSlots
      PROVE  /\ [slots[s] EXCEPT !.handler = x] \in SlotType
             /\ [slots[s] EXCEPT !.ctx = x] \in SlotType
  <2>1. slots[s] \in SlotType
    BY <1>1, <1>2
  <2>2. QED
    BY <2>1 DEF SlotType
<1> HIDE DEF SlotType
<1>3. QED
  BY <1>1, <1>2, Zenon

LEMMA MainTypes ==
    ASSUME IInv, main_step
    PROVE  TypeOK'
<1>a. TypeOK /\ main \in MainType
  BY DEF IInv, TypeOK, MainType
<1>b. /\ iflag \in BOOLEAN /\ pic_disabled \in BOOLEAN /\ ticks \in 0 .. 1
      /\ handlers \in [Vectors -> Names] /\ slots \in [1 .. HandlerSlots -> SlotType]
  BY <1>a DEF TypeOK, Names, SlotType
<1>c. Len(Ioapics) \in Nat /\ DOMAIN Ioapics = 1 .. Len(Ioapics) /\ RteTypes
      /\ up \in 0 .. Len(Ioapics)
  BY <1>a, IoapicAssumption DEF TypeOK, RteTypes, EntryType
<1>1. CASE pit_initialize
  <2>1. Moved("pit", "tsc")
    BY <1>1, <1>a, GotoMoves DEF pit_initialize, Places, MainType
  <2>2. QED
    BY <1>1, <1>a, <1>b, <2>1, Registered DEF pit_initialize, Moved, MainType, TypeOK, Names
<1>2. CASE pic_disable
  <2>1. Moved("pic", "lapic")
    BY <1>2, <1>a, GotoMoves DEF pic_disable, Places, MainType
  <2>2. QED
    BY <1>2, <1>a, <1>b, <2>1 DEF pic_disable, Moved, MainType, TypeOK
<1>3. CASE lapic_initialize
  <2>1. Moved("lapic", "ioapic")
    BY <1>3, <1>a, GotoMoves DEF lapic_initialize, Places, MainType
  <2>2. QED
    BY <1>3, <1>a, <1>b, <2>1 DEF lapic_initialize, Moved, MainType, TypeOK, lapic_write
<1>4. CASE pit_rte_written
  <2>1. Moved("pit_gsi", "uacpi")
    BY <1>4, <1>a, GotoMoves DEF pit_rte_written, Places, MainType
  <2>2. QED
    BY <1>4, <1>a, <1>b, <2>1 DEF pit_rte_written, Moved, MainType, TypeOK
<1>5. CASE install_handler
  <2>1. Moved("handler", install_order.handler)
    BY <1>5, <1>a, GotoMoves DEF install_handler, Places, install_order, MainType
  <2>2. slots' \in [1 .. HandlerSlots -> SlotType]
    BY <1>5, <1>a, SlotFilled DEF install_handler, MainType
  <2>3. QED
    BY <1>5, <1>a, <1>b, <2>1, <2>2 DEF install_handler, Moved, MainType, TypeOK, SlotType
<1>6. CASE install_ctx
  <2>1. Moved("ctx", install_order.ctx)
    BY <1>6, <1>a, GotoMoves DEF install_ctx, Places, install_order, MainType
  <2>2. slots' \in [1 .. HandlerSlots -> SlotType]
    BY <1>6, <1>a, SlotFilled DEF install_ctx, MainType
  <2>3. QED
    BY <1>6, <1>a, <1>b, <2>1, <2>2 DEF install_ctx, Moved, MainType, TypeOK, SlotType
<1>7. CASE install_register
  <2>1. Moved("register", install_order.register)
    BY <1>7, <1>a, GotoMoves DEF install_register, Places, install_order, MainType
  <2>2. QED
    BY <1>7, <1>a, <1>b, <2>1, Registered DEF install_register, Moved, MainType, TypeOK, Names
<1>8. CASE uninstall_unregister
  <2>1. Moved("unregister", "release")
    BY <1>8, <1>a, GotoMoves DEF uninstall_unregister, Places, MainType
  <2>2. QED
    BY <1>8, <1>a, <1>b, <2>1, Registered DEF uninstall_unregister, Moved, MainType, TypeOK, Names
<1>9. CASE uninstall_release
  <2>1. Moved("release", main.back)
    BY <1>9, <1>a, GotoMoves DEF uninstall_release, Places, MainType
  <2>2. QED
    BY <1>9, <1>a, <1>b, <2>1, ZenonT(60)
       DEF uninstall_release, Moved, MainType, TypeOK, SlotType, release_slot, EmptySlot
<1>10. CASE apic_timer_initialize
  <2>1. Moved("uacpi", "hpet")
    BY <1>10, <1>a, GotoMoves DEF apic_timer_initialize, Places, MainType
  <2>2. QED
    BY <1>10, <1>a, <1>b, <2>1, Registered
       DEF apic_timer_initialize, Moved, MainType, TypeOK, Names, lapic_write
<1>11. CASE hpet_absent
  <2>1. Moved("hpet", "idle")
    BY <1>11, <1>a, GotoMoves DEF hpet_absent, Places, MainType
  <2>2. QED
    BY <1>11, <1>a, <1>b, <2>1 DEF hpet_absent, Moved, MainType, TypeOK
<1>12. CASE tsc_calibrate
  <2>1. Moved("tsc", "pic")
    BY <1>12, <1>a, GotoMoves DEF tsc_calibrate, Places
  <2>2. /\ pit' \in [on : BOOLEAN, gsi : {0, 1}, mode : {"off", "rate", "once"}]
        /\ handlers' \in [Vectors -> Names] /\ RteTypes' /\ iflag' \in BOOLEAN
    <3>1. (demote /\ iflag' = TRUE) \/ UNCHANGED <<pit, rte, handlers, iflag>>
      BY <1>12 DEF tsc_calibrate
    <3>2. QED
      BY <3>1, <1>a, <1>b, <1>c, DemoteWrites DEF TypeOK, RteTypes
  <2>3. QED
    BY <1>12, <1>a, <1>b, <2>1, <2>2
       DEF tsc_calibrate, Moved, MainType, TypeOK, Names, RteTypes, EntryType
<1>13. CASE ioapic_initialize
  <2>1. /\ up' \in 0 .. Len(Ioapics)
        /\ UNCHANGED <<main, iflag, handlers, slots, rte, pic_disabled, lapic, pit, hpet,
                       installed, ticks, last>>
    BY <1>13, <1>c DEF ioapic_initialize, mask_loop
  <2>2. QED
    BY <1>a, <2>1 DEF TypeOK
<1>14. CASE write_rte_for_pit
  <2>1. main' \in MainType
    BY <1>14, <1>a DEF write_rte_for_pit, MainType, Places, PIT_VECTOR
  <2>2. QED
    BY <1>14, <1>a, <2>1 DEF write_rte_for_pit, MainType, TypeOK
<1>15. CASE find_gsi
  <2> DEFINE gsi == get_gsi_for_irq(main.vec - CPU_IRQ_NUM)
             ok == get_ioapic_for_gsi(gsi) # 0
  <2>1. main' = [main EXCEPT !.at = IF ok THEN "low" ELSE main.ret,
                             !.gsi = gsi, !.rax = found_result(ok)]
    BY <1>15 DEF find_gsi
  <2>2. gsi \in Nat
    <3>1. main.vec - CPU_IRQ_NUM \in Irqs
      <4>1. main.at = "find" /\ (main.ret = "check" \/ main.vec = PIT_VECTOR)
        BY <1>15 DEF find_gsi, IInv, Stages
      <4>2. main.ret = "check" => main.irq \in Irqs /\ main.vec = Vec(main.irq)
        BY <4>1, LineVectors DEF IInv, SlotInv, SlotOfMain, Busy
      <4>3. \A i \in Irqs : i \in Nat
        BY LineVectors
      <4>4. \/ main.vec = 32 /\ 0 \in Irqs
            \/ main.irq \in Irqs /\ main.vec = 32 + main.irq
        BY <4>1, <4>2, WiringAssumption DEF Vec, CPU_IRQ_NUM, PIT_VECTOR
      <4>5. main.vec - 32 \in Irqs
        BY ONLY <4>3, <4>4
      <4>6. QED
        BY <4>5 DEF CPU_IRQ_NUM
    <3>2. \A i \in Irqs : Wire[i] \in Nat
      BY WiringAssumption
    <3>3. QED
      BY <3>1, <3>2, GsiOfLine
  <2>3. found_result(ok) \in {0, 1}
    BY DEF found_result
  <2> HIDE DEF gsi, ok
  <2>4. main' \in MainType
    BY <1>a, <2>1, <2>2, <2>3 DEF MainType, Places
  <2>5. QED
    BY <1>15, <1>a, <2>4 DEF find_gsi, MainType, TypeOK
<1>16. CASE write_rte_low
  <2>1. Moved("low", "high") /\ main.gsi \in Nat /\ main.vec \in Nat
    BY <1>16, <1>a, GotoMoves DEF write_rte_low, Places, MainType
  <2>2. get_ioapic_for_gsi(main.gsi) \in DOMAIN Ioapics
    BY <1>a, <2>1, OwnerIsUp DEF IInv, Stages, Moved
  <2>3. RteTypes'
    BY <1>16, <1>a, <2>1, <2>2, LowWrites DEF write_rte_low, write_rte_masked
  <2>4. QED
    BY <1>16, <1>a, <2>1, <2>3
       DEF write_rte_low, Moved, MainType, TypeOK, RteTypes, EntryType
<1>17. CASE write_rte_high
  <2>1. Moved("high", main.ret) /\ main.gsi \in Nat
    BY <1>17, <1>a, GotoMoves DEF write_rte_high, Places, MainType
  <2>2. get_ioapic_for_gsi(main.gsi) \in DOMAIN Ioapics
    BY <1>a, <2>1, OwnerIsUp DEF IInv, Stages, Moved
  <2>3. RteTypes'
    BY <1>17, <1>a, <2>1, <2>2, HighWrites, BoardAssumption DEF write_rte_high
  <2>4. QED
    BY <1>17, <1>a, <2>1, <2>3
       DEF write_rte_high, Moved, MainType, TypeOK, RteTypes, EntryType
<1>18. CASE install_check
  <2>1. Moved("check", main.back)
    BY <1>18, <1>a, GotoMoves DEF install_check, Places, MainType
  <2>2. main.rax # NONE /\ main.irq \in UacpiIrqs
    BY <1>a, <2>1 DEF MainType, NONE, Moved, IInv, SlotInv, SlotOfMain, Busy
  <2>3. QED
    BY <1>18, <1>a, <2>1, <2>2 DEF install_check, Moved, MainType, TypeOK
<1>19. CASE hpet_initialize
  <2>1. Moved("hpet", "timer0") /\ demote
    BY <1>19, <1>a, GotoMoves DEF hpet_initialize, Places
  <2>2. QED
    BY <1>19, <1>a, <2>1, DemoteWrites
       DEF hpet_initialize, Moved, MainType, TypeOK, Names, RteTypes, EntryType
<1>20. CASE setup_system_timer
  <2>1. chosen_gsi \in Nat
    <3>1. valid_irq_mask \subseteq Nat
      BY HpetInputs DEF valid_irq_mask
    <3>2. QED
      BY <3>1, MinOf DEF chosen_gsi
  <2>2. main' \in MainType
    <3> DEFINE set == [main EXCEPT !.at = "low", !.gsi = chosen_gsi,
                                   !.vec = HPET_SYSTEM_TIMER_VECTOR, !.ret = "idle"]
    <3>1. main' = [main EXCEPT !.at = "idle"] \/ main' = set
      BY <1>20 DEF setup_system_timer
    <3>2. [main EXCEPT !.at = "idle"] \in MainType /\ set \in MainType
      BY <1>a, <2>1 DEF MainType, Places, HPET_SYSTEM_TIMER_VECTOR
    <3>3. QED
      BY <3>1, <3>2, Zenon
  <2>3. hpet' \in [present : BOOLEAN, gsi : Nat]
    BY <1>20, <1>a, <2>1 DEF setup_system_timer, TypeOK
  <2>4. handlers' \in [Vectors -> Names]
    BY <1>20, <1>a, Registered DEF setup_system_timer, Names
  <2>5. QED
    BY <1>20, <1>a, <2>2, <2>3, <2>4 DEF setup_system_timer, MainType, TypeOK, Names
<1>21. QED
  BY <1>1, <1>2, <1>3, <1>4, <1>5, <1>6, <1>7, <1>8, <1>9, <1>10, <1>11, <1>12, <1>13, <1>14,
     <1>15, <1>16, <1>17, <1>18, <1>19, <1>20 DEF main_step

\* What install(i) does: it takes a free slot, or returns an error.
LEMMA InstallTakes ==
    ASSUME IInv, NEW i \in UacpiIrqs, install(i)
    PROVE  /\ main.at \in {"uacpi", "idle"} /\ i \notin installed /\ main' \in MainType
           /\ UNCHANGED <<iflag, handlers, rte, up, pic_disabled, lapic, pit, hpet,
                          installed, ticks, last>>
           /\ \/ UNCHANGED <<slots, main>>
              \/ \E s \in DOMAIN slots :
                    /\ ~slots[s].in_use
                    /\ slots' = [slots EXCEPT ![s] = [slots[s] EXCEPT !.in_use = TRUE,
                                                                      !.vector = Vec(i)]]
                    /\ slots' \in [1 .. HandlerSlots -> SlotType]
                    /\ main' = [main EXCEPT !.at = "handler", !.irq = i, !.slot = s,
                                  !.vec = Vec(i), !.ret = "check", !.back = main.at]
<1> DEFINE free == {s \in DOMAIN slots : ~slots[s].in_use}
<1>1. main \in MainType /\ slots \in [1 .. HandlerSlots -> SlotType]
  BY DEF IInv, TypeOK, MainType, SlotType
<1>2. /\ main.at \in {"uacpi", "idle"} /\ i \notin installed
      /\ UNCHANGED <<iflag, handlers, rte, up, pic_disabled, lapic, pit, hpet,
                     installed, ticks, last>>
  BY DEF install
<1>3. CASE free = {}
  BY <1>1, <1>2, <1>3 DEF install
<1>4. CASE free # {}
  <2> DEFINE s == Min(free)
  <2>1. free \in SUBSET Nat
    BY <1>1
  <2>2. s \in free
    BY <1>4, <2>1, MinOf
  <2>3. /\ slots' = [slots EXCEPT ![s].in_use = TRUE, ![s].vector = Vec(i)]
        /\ main' = [main EXCEPT !.at = "handler", !.irq = i, !.slot = s,
                      !.vec = Vec(i), !.ret = "check", !.back = main.at]
    BY <1>4 DEF install, install_order
  <2> HIDE DEF s
  <2>4. s \in DOMAIN slots /\ ~slots[s].in_use /\ s \in Nat /\ Vec(i) \in Nat
    BY <2>1, <2>2, LineVectors
  <2>5. slots' = [slots EXCEPT ![s] = [slots[s] EXCEPT !.in_use = TRUE, !.vector = Vec(i)]]
    BY <1>1, <2>3, <2>4
  <2>6. [slots[s] EXCEPT !.in_use = TRUE, !.vector = Vec(i)] \in SlotType
    <3>1. slots[s] \in SlotType
      BY <1>1, <2>4
    <3>2. QED
      BY <2>4, <3>1 DEF SlotType
  <2>7. slots' \in [1 .. HandlerSlots -> SlotType]
    BY <1>1, <2>5, <2>6
  <2>8. main' \in MainType
    BY <1>1, <1>2, <2>3, <2>4 DEF MainType, Places
  <2>9. QED
    BY <1>2, <2>3, <2>4, <2>5, <2>7, <2>8
<1>5. QED
  BY <1>3, <1>4

LEMMA InstallGoes ==
    ASSUME IInv, NEW i \in UacpiIrqs, install(i)
    PROVE  main'.at \in {"uacpi", "idle", "handler"}
<1>1. main.at \in {"uacpi", "idle"}
  BY InstallTakes
<1>2. main \in MainType
  BY DEF IInv, TypeOK, MainType
<1>3. CASE UNCHANGED main
  BY <1>1, <1>3
<1>4. CASE ~UNCHANGED main
  <2>1. PICK s \in DOMAIN slots :
          main' = [main EXCEPT !.at = "handler", !.irq = i, !.slot = s,
                              !.vec = Vec(i), !.ret = "check", !.back = main.at]
    BY <1>4, InstallTakes, Zenon
  <2>2. main'.at = "handler"
    BY <1>2, <2>1 DEF MainType
  <2>3. QED
    BY <2>2
<1>5. QED
  BY <1>3, <1>4

LEMMA UninstallTakes ==
    ASSUME IInv, NEW i \in UacpiIrqs, uninstall(i)
    PROVE  /\ main.at = "idle" /\ i \in installed /\ main' \in MainType
           /\ installed' = installed \ {i}
           /\ UNCHANGED <<iflag, handlers, slots, rte, up, pic_disabled, lapic, pit, hpet,
                          ticks, last>>
           /\ \E s \in DOMAIN slots :
                /\ slots[s].in_use /\ slots[s].vector = Vec(i)
                /\ main' = [main EXCEPT !.at = "unregister", !.irq = i, !.slot = s,
                              !.vec = Vec(i), !.back = "idle"]
<1>1. main \in MainType /\ slots \in [1 .. HandlerSlots -> SlotType]
  BY DEF IInv, TypeOK, MainType, SlotType
<1>2. PICK s \in get_uacpi_entry(Vec(i)) :
        main' = [main EXCEPT !.at = "unregister", !.irq = i, !.slot = s,
                              !.vec = Vec(i), !.back = "idle"]
  BY DEF uninstall
<1>3. s \in DOMAIN slots /\ slots[s].in_use /\ slots[s].vector = Vec(i)
  BY DEF get_uacpi_entry
<1>4. main' \in MainType
  <2>1. s \in Nat /\ Vec(i) \in Nat
    BY <1>1, <1>3, LineVectors
  <2>2. QED
    BY <1>1, <1>2, <2>1 DEF MainType, Places
<1>5. QED
  BY <1>2, <1>3, <1>4 DEF uninstall

\* An interrupt leaves kernel_main and its tables as they are.
LEMMA InterruptKeeps ==
    ASSUME TypeOK, interrupt
    PROVE  /\ UNCHANGED <<main, iflag, handlers, slots, rte, up, pic_disabled, lapic, hpet,
                          installed>>
           /\ ticks' \in 0 .. 1
           /\ pit' \in [on : BOOLEAN, gsi : {0, 1}, mode : {"off", "rate", "once"}]
           /\ pit'.on = pit.on /\ pit'.gsi = pit.gsi
<1>1. ASSUME NEW line, NEW via, NEW v, take(line, via, v)
      PROVE  /\ UNCHANGED <<main, iflag, handlers, slots, rte, up, pic_disabled, lapic, hpet,
                            installed>>
             /\ ticks' \in 0 .. 1
  BY <1>1 DEF take, TypeOK
<1>2. ASSUME NEW i, AfterFire(i)
      PROVE  /\ pit' \in [on : BOOLEAN, gsi : {0, 1}, mode : {"off", "rate", "once"}]
             /\ pit'.on = pit.on /\ pit'.gsi = pit.gsi
  BY <1>2 DEF AfterFire, TypeOK
<1>3. ASSUME NEW i \in Irqs, irq_by_pic(i) \/ irq_by_ioapic(i)
      PROVE  (\E line, via, v : take(line, via, v)) /\ AfterFire(i)
  BY <1>3 DEF irq_by_pic, irq_by_ioapic
<1>4. CASE irq_by_hpet \/ irq_by_apic_timer
  <2>1. (\E line, via, v : take(line, via, v)) /\ UNCHANGED pit
    BY <1>4 DEF irq_by_hpet, irq_by_apic_timer
  <2>2. QED
    BY <1>1, <2>1 DEF TypeOK
<1>5. QED
  BY <1>1, <1>2, <1>3, <1>4 DEF interrupt

LEMMA NextTypes ==
    ASSUME IInv, [Next]_vars
    PROVE  TypeOK'
<1>1. TypeOK
  BY DEF IInv
<1>2. CASE main_step
  BY <1>2, MainTypes
<1>3. ASSUME NEW i \in UacpiIrqs, install(i)
      PROVE  TypeOK'
  <2>1. main' \in MainType /\ slots' \in [1 .. HandlerSlots -> SlotType]
    BY <1>1, <1>3, InstallTakes, ZenonT(30) DEF TypeOK, SlotType
  <2>2. UNCHANGED <<iflag, handlers, rte, up, pic_disabled, lapic, pit, hpet,
                    installed, ticks, last>>
    BY <1>3, InstallTakes
  <2>3. QED
    BY <1>1, <2>1, <2>2 DEF TypeOK, MainType, SlotType
<1>4. ASSUME NEW i \in UacpiIrqs, uninstall(i)
      PROVE  TypeOK'
  <2>1. /\ main' \in MainType /\ installed' = installed \ {i}
        /\ UNCHANGED <<iflag, handlers, slots, rte, up, pic_disabled, lapic, pit, hpet,
                       ticks, last>>
    BY <1>4, UninstallTakes
  <2>2. QED
    BY <1>1, <2>1 DEF TypeOK, MainType
<1>5. CASE interrupt
  BY <1>1, <1>5, InterruptKeeps DEF TypeOK
<1>6. CASE UNCHANGED vars
  BY <1>1, <1>6 DEF vars, TypeOK
<1>7. QED
  BY <1>2, <1>3, <1>4, <1>5, <1>6 DEF Next, uacpi_calls

-----------------------------------------------------------------------------
(* The slots: steps that do not touch them, then the eight that do.         *)

LEMMA SlotsKept ==
    ASSUME IInv, UNCHANGED <<slots, installed>>,
           \A i \in UacpiIrqs : handlers'[Vec(i)] = "uacpi" => handlers[Vec(i)] = "uacpi",
           Busy' <=> Busy,
           Busy => /\ main.at \in {"find", "low", "high"} /\ main'.at # "release"
                   /\ main'.irq = main.irq /\ main'.slot = main.slot /\ main'.vec = main.vec
                   /\ main'.ret = main.ret
    PROVE  SlotInv'
<1>1. SlotInv
  BY DEF IInv
<1>2. OneSlotPerVector'
  BY <1>1 DEF SlotInv, OneSlotPerVector
<1>3. SlotOfMain'
  BY <1>1 DEF SlotInv, SlotOfMain
<1>4. SlotsOfLines'
  BY <1>1 DEF SlotInv, SlotsOfLines
<1>5. TrampolineComplete'
  BY <1>1 DEF SlotInv, TrampolineComplete, get_uacpi_entry
<1>6. QED
  BY <1>2, <1>3, <1>4, <1>5 DEF SlotInv

\* One field of the slot of main is filled with the line it is for, or the place of
\* main moves on: what the three middle steps of install have in common.
LEMMA SlotsFill ==
    ASSUME IInv, NEW from \in {"handler", "ctx", "register"},
           NEW to \in {"ctx", "register", "find"},
           Moved(from, to),
           UNCHANGED installed,
           DOMAIN slots' = DOMAIN slots,
           \A s \in DOMAIN slots : s # main.slot => slots'[s] = slots[s],
           slots'[main.slot].in_use, slots'[main.slot].vector = Vec(main.irq),
           slots'[main.slot].handler = main.irq,
           slots'[main.slot].ctx \in {slots[main.slot].ctx, main.irq},
           from # "handler" => slots'[main.slot].ctx = main.irq,
           to # "ctx" => from # "handler",
           \A i \in UacpiIrqs : handlers'[Vec(i)] = "uacpi" =>
                handlers[Vec(i)] = "uacpi" \/ (i = main.irq /\ from = "register")
    PROVE  SlotInv'
<1>1. SlotInv /\ main.at = from
  BY DEF IInv, Moved
<1>2. Busy /\ main.ret = "check" /\ main'.ret = "check" /\ Busy'
  <2>1. Busy
    BY DEF Busy, Moved
  <2>2. main.ret = "check"
    BY <1>1, <2>1 DEF SlotInv, SlotOfMain
  <2>3. QED
    BY <2>1, <2>2 DEF Busy, Moved
<1>3. /\ main'.irq = main.irq /\ main'.slot = main.slot /\ main'.vec = main.vec
      /\ main'.at = to
  BY DEF Moved
<1>4. /\ main.irq \in UacpiIrqs /\ main.irq \notin installed
      /\ main.slot \in DOMAIN slots /\ slots[main.slot].in_use
      /\ slots[main.slot].vector = Vec(main.irq) /\ main.vec = Vec(main.irq)
  BY <1>1, <1>2 DEF SlotInv, SlotOfMain
<1>5. OneSlotPerVector'
  BY <1>1, <1>4 DEF SlotInv, OneSlotPerVector
<1>6. SlotOfMain'
  BY <1>2, <1>3, <1>4 DEF SlotOfMain
<1>7. \A i \in installed : \A s \in DOMAIN slots :
            slots[s] = Complete(i) => s # main.slot
  <2> SUFFICES ASSUME NEW i \in installed, slots[main.slot] = Complete(i) PROVE FALSE
    OBVIOUS
  <2>1. Vec(i) = Vec(main.irq)
    BY <1>4 DEF Complete
  <2>2. i \in UacpiIrqs
    BY DEF IInv, TypeOK
  <2>3. i = main.irq
    BY <1>4, <2>1, <2>2, VecsDiffer
  <2>4. QED
    BY <1>4, <2>3
<1>8. SlotsOfLines'
  <2>1. \A s \in DOMAIN slots' : slots'[s].in_use =>
            s = main.slot \/ \E i \in installed : slots'[s] = Complete(i)
    BY <1>1 DEF SlotInv, SlotsOfLines
  <2>2. \A i \in installed : \E s \in DOMAIN slots : slots'[s] = Complete(i)
    BY <1>1, <1>7 DEF SlotInv, SlotsOfLines
  <2>3. QED
    BY <1>2, <1>3, <2>1, <2>2 DEF SlotsOfLines
<1>9. TrampolineComplete'
  <2> SUFFICES ASSUME NEW i \in UacpiIrqs, handlers'[Vec(i)] = "uacpi"
               PROVE  \E s \in DOMAIN slots' :
                        /\ slots'[s].in_use /\ slots'[s].vector = Vec(i)
                        /\ slots'[s].handler = i /\ slots'[s].ctx = i
    BY DEF TrampolineComplete, get_uacpi_entry
  <2>1. CASE i = main.irq /\ from = "register"
    BY <1>4, <2>1
  <2>2. CASE handlers[Vec(i)] = "uacpi"
    <3>1. PICK s \in DOMAIN slots : /\ slots[s].in_use /\ slots[s].vector = Vec(i)
                                   /\ slots[s].handler = i /\ slots[s].ctx = i
      BY <1>1, <2>2 DEF SlotInv, TrampolineComplete, get_uacpi_entry
    <3>2. CASE s # main.slot
      BY <3>1, <3>2
    <3>3. CASE s = main.slot
      <4>1. i = main.irq
        BY <1>4, <3>1, <3>3, VecsDiffer
      <4>2. slots'[main.slot].ctx = main.irq
        BY <3>1, <3>3, <4>1
      <4>3. QED
        BY <1>4, <4>1, <4>2
    <3>4. QED
      BY <3>2, <3>3
  <2>3. QED
    BY <2>1, <2>2
<1>10. QED
  BY <1>5, <1>6, <1>8, <1>9 DEF SlotInv

LEMMA InstallSteps ==
    ASSUME IInv, install_handler \/ install_ctx \/ install_register
    PROVE  SlotInv'
<1>1. TypeOK /\ SlotInv /\ main \in MainType /\ slots \in [1 .. HandlerSlots -> SlotType]
  BY DEF IInv, TypeOK, MainType, SlotType
<1>2. Busy => /\ main.irq \in UacpiIrqs /\ main.slot \in DOMAIN slots
              /\ slots[main.slot].in_use /\ slots[main.slot].vector = Vec(main.irq)
              /\ main.vec = Vec(main.irq)
              /\ main.at # "handler" => slots[main.slot].handler = main.irq
              /\ main.at \notin {"handler", "ctx"} => slots[main.slot].ctx = main.irq
  BY <1>1 DEF SlotInv, SlotOfMain
<1>3. slots[main.slot] \in SlotType \/ main.slot \notin DOMAIN slots
  BY <1>1
<1>4. CASE install_handler
  <2>1. Moved("handler", "ctx") /\ Busy /\ UNCHANGED <<handlers, installed>>
    BY <1>1, <1>4, GotoMoves DEF install_handler, Places, install_order, Busy, Moved
  <2>2. /\ slots' = [slots EXCEPT ![main.slot] = [slots[main.slot] EXCEPT !.handler = main.irq]]
        /\ main.at = "handler"
    BY <1>4, <2>1 DEF install_handler, Moved
  <2>3. slots[main.slot] \in SlotType /\ main.slot \in DOMAIN slots
    BY <1>2, <1>3, <2>1
  <2>4. /\ DOMAIN slots' = DOMAIN slots
        /\ \A s \in DOMAIN slots : s # main.slot => slots'[s] = slots[s]
        /\ slots'[main.slot] = [slots[main.slot] EXCEPT !.handler = main.irq]
    BY <1>1, <2>2, <2>3
  <2>5. /\ slots'[main.slot].in_use /\ slots'[main.slot].vector = Vec(main.irq)
        /\ slots'[main.slot].handler = main.irq
        /\ slots'[main.slot].ctx = slots[main.slot].ctx
    BY <1>2, <2>1, <2>3, <2>4 DEF SlotType
  <2>6. /\ DOMAIN slots' = DOMAIN slots /\ installed' = installed /\ handlers' = handlers
        /\ \A s \in DOMAIN slots : s # main.slot => slots'[s] = slots[s]
    BY <2>1, <2>4
  <2>7. QED
    BY <2>1, <2>5, <2>6, SlotsFill
<1>5. CASE install_ctx
  <2>1. Moved("ctx", "register") /\ Busy /\ UNCHANGED <<handlers, installed>>
    BY <1>1, <1>5, GotoMoves DEF install_ctx, Places, install_order, Busy, Moved
  <2>2. /\ slots' = [slots EXCEPT ![main.slot] = [slots[main.slot] EXCEPT !.ctx = main.irq]]
        /\ main.at = "ctx"
    BY <1>5, <2>1 DEF install_ctx, Moved
  <2>3. slots[main.slot] \in SlotType /\ main.slot \in DOMAIN slots
    BY <1>2, <1>3, <2>1
  <2>4. /\ DOMAIN slots' = DOMAIN slots
        /\ \A s \in DOMAIN slots : s # main.slot => slots'[s] = slots[s]
        /\ slots'[main.slot] = [slots[main.slot] EXCEPT !.ctx = main.irq]
    BY <1>1, <2>2, <2>3
  <2>5. /\ slots'[main.slot].in_use /\ slots'[main.slot].vector = Vec(main.irq)
        /\ slots'[main.slot].handler = main.irq
        /\ slots'[main.slot].ctx = main.irq
    BY <1>2, <2>1, <2>2, <2>3, <2>4 DEF SlotType
  <2>6. /\ DOMAIN slots' = DOMAIN slots /\ installed' = installed /\ handlers' = handlers
        /\ \A s \in DOMAIN slots : s # main.slot => slots'[s] = slots[s]
    BY <2>1, <2>4
  <2>7. QED
    BY <2>1, <2>5, <2>6, SlotsFill
<1>6. CASE install_register
  <2>1. Moved("register", "find") /\ Busy /\ main.at = "register"
        /\ UNCHANGED <<slots, installed>>
    BY <1>1, <1>6, GotoMoves DEF install_register, Places, install_order, Busy, Moved
  <2>2. handlers' = [handlers EXCEPT ![Vec(main.irq)] = "uacpi"] /\ main.irq \in UacpiIrqs
    BY <1>2, <1>6, <2>1 DEF install_register
  <2>3. \A i \in UacpiIrqs : i # main.irq => handlers'[Vec(i)] = handlers[Vec(i)]
    <3>1. \A i \in UacpiIrqs : i # main.irq => Vec(i) # Vec(main.irq)
      BY <2>2, VecsDiffer
    <3>2. handlers \in [Vectors -> Names]
      BY <1>1 DEF TypeOK, Names
    <3>3. \A i \in UacpiIrqs : Vec(i) \in Vectors
      BY LineVectors
    <3>4. QED
      BY <2>2, <3>1, <3>2, <3>3
  <2>4. QED
    BY <1>2, <2>1, <2>3, SlotsFill
<1>7. QED
  BY <1>4, <1>5, <1>6

LEMMA CheckStep ==
    ASSUME IInv, install_check
    PROVE  SlotInv'
<1>1. TypeOK /\ SlotInv /\ main \in MainType /\ slots \in [1 .. HandlerSlots -> SlotType]
  BY DEF IInv, TypeOK, MainType, SlotType
<1>2. Moved("check", main.back) /\ main.back \in {"uacpi", "idle"} /\ main.rax # NONE
  BY <1>1, GotoMoves DEF install_check, Places, MainType, NONE
<1>3. Busy /\ ~Busy'
  BY <1>2 DEF Busy, Moved
<1>4. /\ UNCHANGED <<handlers, slots>> /\ installed' = installed \cup {main.irq}
      /\ main.at = "check"
  BY <1>2 DEF install_check, Moved
<1>5. slots[main.slot] = Complete(main.irq) /\ main.slot \in DOMAIN slots
  <2>1. /\ main.slot \in DOMAIN slots
        /\ slots[main.slot].in_use /\ slots[main.slot].vector = Vec(main.irq)
        /\ slots[main.slot].handler = main.irq /\ slots[main.slot].ctx = main.irq
    BY <1>1, <1>3, <1>4 DEF SlotInv, SlotOfMain
  <2>2. slots[main.slot] \in SlotType
    BY <1>1, <2>1
  <2>3. QED
    BY <2>1, <2>2 DEF SlotType, Complete
<1>6. OneSlotPerVector' /\ TrampolineComplete'
  BY <1>1, <1>4 DEF SlotInv, OneSlotPerVector, TrampolineComplete, get_uacpi_entry
<1>7. SlotOfMain'
  BY <1>3 DEF SlotOfMain
<1>8. SlotsOfLines'
  BY <1>1, <1>3, <1>4, <1>5 DEF SlotInv, SlotsOfLines
<1>9. QED
  BY <1>6, <1>7, <1>8 DEF SlotInv

LEMMA InstallStep ==
    ASSUME IInv, NEW i \in UacpiIrqs, install(i)
    PROVE  SlotInv'
<1>1. TypeOK /\ SlotInv /\ main \in MainType /\ slots \in [1 .. HandlerSlots -> SlotType]
  BY DEF IInv, TypeOK, MainType, SlotType
<1>2. /\ main.at \in {"uacpi", "idle"} /\ i \notin installed
      /\ UNCHANGED <<handlers, installed>> /\ ~Busy
  BY InstallTakes DEF Busy
<1>3. CASE UNCHANGED <<slots, main>>
  BY <1>2, <1>3, SlotsKept DEF Busy
<1>4. ASSUME NEW s \in DOMAIN slots,
             ~slots[s].in_use,
             slots' = [slots EXCEPT ![s] = [slots[s] EXCEPT !.in_use = TRUE,
                                                               !.vector = Vec(i)]],
             main' = [main EXCEPT !.at = "handler", !.irq = i, !.slot = s,
                           !.vec = Vec(i), !.ret = "check", !.back = main.at]
      PROVE  SlotInv'
  <2>1. /\ main'.at = "handler" /\ main'.irq = i /\ main'.slot = s /\ main'.vec = Vec(i)
        /\ main'.ret = "check"
    BY <1>1, <1>4 DEF MainType
  <2>2. slots[s] \in SlotType
    BY <1>1
  <2>3. /\ DOMAIN slots' = DOMAIN slots
        /\ \A t \in DOMAIN slots : t # s => slots'[t] = slots[t]
        /\ slots'[s] = [slots[s] EXCEPT !.in_use = TRUE, !.vector = Vec(i)]
    BY <1>1, <1>4
  <2>4. slots'[s].in_use /\ slots'[s].vector = Vec(i)
    BY <2>2, <2>3 DEF SlotType
  <2>5. Busy'
    BY <2>1 DEF Busy
  <2>6. \A t \in DOMAIN slots : slots[t].in_use => slots[t].vector # Vec(i)
    <3> SUFFICES ASSUME NEW t \in DOMAIN slots, slots[t].in_use, slots[t].vector = Vec(i)
                 PROVE  FALSE
      OBVIOUS
    <3>1. PICK j \in installed : slots[t] = Complete(j)
      BY <1>1, <1>2 DEF SlotInv, SlotsOfLines
    <3>2. Vec(j) = Vec(i)
      BY <3>1 DEF Complete
    <3>3. j \in UacpiIrqs
      BY <1>1 DEF TypeOK
    <3>4. QED
      BY <1>2, <3>2, <3>3, VecsDiffer
  <2>7. OneSlotPerVector'
    BY <1>1, <2>3, <2>4, <2>6, ZenonT(60) DEF SlotInv, OneSlotPerVector
  <2>8. SlotOfMain'
    BY <1>2, <2>1, <2>3, <2>4 DEF SlotOfMain
  <2>9. SlotsOfLines'
    <3>1. \A j : Complete(j).in_use
      BY DEF Complete
    <3>2. QED
      BY <1>1, <1>2, <1>4, <2>1, <2>3, <2>5, <3>1 DEF SlotInv, SlotsOfLines
  <2>10. TrampolineComplete'
    BY <1>1, <1>2, <1>4, <2>3 DEF SlotInv, TrampolineComplete, get_uacpi_entry
  <2>11. QED
    BY <2>7, <2>8, <2>9, <2>10 DEF SlotInv
<1>5. QED
  BY <1>3, <1>4, InstallTakes

LEMMA UninstallStep ==
    ASSUME IInv, NEW i \in UacpiIrqs, uninstall(i)
    PROVE  SlotInv'
<1>1. TypeOK /\ SlotInv /\ main \in MainType /\ slots \in [1 .. HandlerSlots -> SlotType]
  BY DEF IInv, TypeOK, MainType, SlotType
<1>2. /\ i \in installed /\ installed' = installed \ {i} /\ ~Busy
      /\ UNCHANGED <<handlers, slots>>
  BY UninstallTakes DEF Busy
<1>3. PICK s \in DOMAIN slots :
            /\ slots[s].in_use /\ slots[s].vector = Vec(i)
            /\ main' = [main EXCEPT !.at = "unregister", !.irq = i, !.slot = s,
                          !.vec = Vec(i), !.back = "idle"]
  BY UninstallTakes
<1>4. main'.at = "unregister" /\ main'.irq = i /\ main'.slot = s /\ main'.vec = Vec(i)
  BY <1>1, <1>3 DEF MainType
<1>5. Busy'
  BY <1>4 DEF Busy
<1>6. slots[s] = Complete(i)
  <2>1. PICK j \in installed : slots[s] = Complete(j)
    BY <1>1, <1>2, <1>3 DEF SlotInv, SlotsOfLines
  <2>2. Vec(j) = Vec(i) /\ j \in UacpiIrqs
    BY <1>1, <1>3, <2>1 DEF Complete, TypeOK
  <2>3. QED
    BY <2>1, <2>2, VecsDiffer
<1>7. OneSlotPerVector' /\ TrampolineComplete'
  BY <1>1, <1>2 DEF SlotInv, OneSlotPerVector, TrampolineComplete, get_uacpi_entry
<1>8. SlotOfMain'
  BY <1>2, <1>4, <1>6 DEF SlotOfMain, Complete
<1>9. SlotsOfLines'
  <2>1. \A t \in DOMAIN slots : slots[t] = Complete(i) => t = s
    BY <1>1, <1>6 DEF SlotInv, OneSlotPerVector, Complete
  <2>2. \A t \in DOMAIN slots : slots[t].in_use =>
            t = s \/ \E j \in installed \ {i} : slots[t] = Complete(j)
    BY <1>1, <1>2, <2>1 DEF SlotInv, SlotsOfLines
  <2>3. \A j \in installed : \E t \in DOMAIN slots : slots[t] = Complete(j)
    BY <1>1 DEF SlotInv, SlotsOfLines
  <2>4. QED
    BY <1>2, <1>4, <1>5, <2>2, <2>3 DEF SlotsOfLines
<1>10. QED
  BY <1>7, <1>8, <1>9 DEF SlotInv

LEMMA UnregisterStep ==
    ASSUME IInv, uninstall_unregister
    PROVE  SlotInv'
<1>1. TypeOK /\ SlotInv /\ handlers \in [Vectors -> Names]
  BY DEF IInv, TypeOK, Names
<1>2. Moved("unregister", "release") /\ UNCHANGED <<slots, installed>>
      /\ handlers' = [handlers EXCEPT ![main.vec] = "none"]
  BY <1>1, GotoMoves DEF uninstall_unregister, Places
<1>3. Busy /\ Busy' /\ main.at = "unregister" /\ main'.at = "release"
      /\ main'.irq = main.irq /\ main'.slot = main.slot /\ main'.vec = main.vec
  BY <1>2 DEF Busy, Moved
<1>4. OneSlotPerVector'
  BY <1>1, <1>2 DEF SlotInv, OneSlotPerVector
<1>5. main.vec = Vec(main.irq) /\ main.irq \in UacpiIrqs
  BY <1>1, <1>3 DEF SlotInv, SlotOfMain
<1>6. handlers'[main.vec] = "none"
  BY <1>1, <1>2, <1>5, LineVectors
<1>7. SlotOfMain'
  <2>1. handlers'[main'.vec] # "uacpi"
    BY <1>3, <1>6
  <2>2. QED
    BY <1>1, <1>2, <1>3, <2>1 DEF SlotInv, SlotOfMain
<1>8. SlotsOfLines'
  BY <1>1, <1>2, <1>3 DEF SlotInv, SlotsOfLines
<1>9. TrampolineComplete'
  <2>1. \A v \in Vectors : handlers'[v] = "uacpi" => handlers[v] = "uacpi"
    BY <1>1, <1>2
  <2>2. QED
    BY <1>1, <1>2, <2>1, LineVectors DEF SlotInv, TrampolineComplete, get_uacpi_entry
<1>10. QED
  BY <1>4, <1>7, <1>8, <1>9 DEF SlotInv

LEMMA ReleaseStep ==
    ASSUME IInv, uninstall_release
    PROVE  SlotInv'
<1>1. TypeOK /\ SlotInv /\ main \in MainType /\ slots \in [1 .. HandlerSlots -> SlotType]
  BY DEF IInv, TypeOK, MainType, SlotType
<1>2. Moved("release", main.back) /\ main.back \in {"uacpi", "idle"}
      /\ UNCHANGED <<handlers, installed>>
      /\ slots' = [slots EXCEPT ![main.slot] = EmptySlot]
  BY <1>1, GotoMoves DEF uninstall_release, release_slot, Places, MainType
<1>3. Busy /\ ~Busy' /\ main.at = "release"
  BY <1>2 DEF Busy, Moved
<1>4. /\ main.irq \in UacpiIrqs \ installed /\ main.slot \in DOMAIN slots
      /\ slots[main.slot].vector = Vec(main.irq)
      /\ handlers[Vec(main.irq)] # "uacpi"
  BY <1>1, <1>3 DEF SlotInv, SlotOfMain
<1>5. /\ DOMAIN slots' = DOMAIN slots /\ ~slots'[main.slot].in_use
      /\ \A s \in DOMAIN slots : s # main.slot => slots'[s] = slots[s]
  BY <1>1, <1>2, <1>4 DEF EmptySlot
<1>6. OneSlotPerVector'
  BY <1>1, <1>5 DEF SlotInv, OneSlotPerVector
<1>7. SlotOfMain'
  BY <1>3 DEF SlotOfMain
<1>8. SlotsOfLines'
  <2>1. \A s \in DOMAIN slots' : slots'[s].in_use =>
            \E i \in installed : slots'[s] = Complete(i)
    BY <1>1, <1>5 DEF SlotInv, SlotsOfLines
  <2>2. ASSUME NEW i \in installed PROVE \E s \in DOMAIN slots : slots'[s] = Complete(i)
    <3>1. PICK s \in DOMAIN slots : slots[s] = Complete(i)
      BY <1>1 DEF SlotInv, SlotsOfLines
    <3>2. i \in UacpiIrqs
      BY <1>1 DEF TypeOK
    <3>3. slots[s].vector = Vec(i)
      BY <3>1 DEF Complete
    <3>4. s # main.slot
      BY <1>4, <3>2, <3>3, VecsDiffer
    <3>5. QED
      BY <1>5, <3>1, <3>4
  <2>3. QED
    BY <1>2, <1>5, <2>1, <2>2 DEF SlotsOfLines
<1>9. TrampolineComplete'
  <2> SUFFICES ASSUME NEW i \in UacpiIrqs, handlers[Vec(i)] = "uacpi"
               PROVE  \E s \in DOMAIN slots' :
                        /\ slots'[s].in_use /\ slots'[s].vector = Vec(i)
                        /\ slots'[s].handler = i /\ slots'[s].ctx = i
    BY <1>2 DEF TrampolineComplete, get_uacpi_entry
  <2>1. PICK s \in DOMAIN slots : /\ slots[s].in_use /\ slots[s].vector = Vec(i)
                                 /\ slots[s].handler = i /\ slots[s].ctx = i
    BY <1>1 DEF SlotInv, TrampolineComplete, get_uacpi_entry
  <2>2. s # main.slot
    BY <1>4, <2>1, VecsDiffer
  <2>3. QED
    BY <1>5, <2>1, <2>2
<1>10. QED
  BY <1>6, <1>7, <1>8, <1>9 DEF SlotInv

-----------------------------------------------------------------------------
(* The other steps of kernel_main: its stages, and that they leave the slots *)
(* alone.                                                                   *)

Elsewhere ==
    /\ UNCHANGED <<slots, installed>>
    /\ \A i \in UacpiIrqs : handlers'[Vec(i)] = "uacpi" => handlers[Vec(i)] = "uacpi"
    /\ Busy' <=> Busy
    /\ Busy => /\ main.at \in {"find", "low", "high"} /\ main'.at # "release"
               /\ main'.irq = main.irq /\ main'.slot = main.slot /\ main'.vec = main.vec
               /\ main'.ret = main.ret

LEMMA TakenByKernel ==
    ASSUME TypeOK, NEW v, NEW who \in Names \ {"uacpi"},
           handlers' = [handlers EXCEPT ![v] = who]
    PROVE  \A i \in UacpiIrqs : handlers'[Vec(i)] = "uacpi" => handlers[Vec(i)] = "uacpi"
<1>1. \A i \in UacpiIrqs : Vec(i) \in DOMAIN handlers
  BY LineVectors DEF TypeOK
<1>2. QED
  BY <1>1 DEF TypeOK, Names

LEMMA PlainSteps ==
    ASSUME IInv,
           \/ pit_initialize \/ tsc_calibrate \/ pic_disable \/ lapic_initialize
           \/ ioapic_initialize \/ write_rte_for_pit \/ find_gsi \/ write_rte_low
           \/ write_rte_high \/ pit_rte_written \/ apic_timer_initialize \/ hpet_absent
           \/ hpet_initialize \/ setup_system_timer
    PROVE  Elsewhere /\ Stages'
<1>a. TypeOK /\ Stages /\ main \in MainType
  BY DEF IInv, TypeOK, MainType
<1>b. lapic \in [initialized : BOOLEAN, lint0 : {"firmware", "masked"},
                 timer : {"firmware", "masked", "on"}]
  BY <1>a DEF TypeOK
<1>c. Len(Ioapics) \in Nat /\ up \in 0 .. Len(Ioapics)
  BY <1>a, IoapicAssumption DEF TypeOK
<1>1. CASE pit_initialize
  <2>1. Moved("pit", "tsc")
    BY <1>1, <1>a, GotoMoves DEF pit_initialize, Places, MainType
  <2>2. Elsewhere
    BY <1>1, <1>a, <2>1, TakenByKernel DEF pit_initialize, Moved, Elsewhere, Busy, Names
  <2>3. Stages'
    BY <1>1, <1>a, <1>b, <2>1 DEF pit_initialize, Moved, Stages
  <2>4. QED
    BY <2>2, <2>3
<1>2. CASE pic_disable
  <2>1. Moved("pic", "lapic")
    BY <1>2, <1>a, GotoMoves DEF pic_disable, Places, MainType
  <2>2. Elsewhere
    BY <1>2, <1>a, <2>1 DEF pic_disable, Moved, Elsewhere, Busy, Names
  <2>3. Stages'
    BY <1>2, <1>a, <1>b, <2>1 DEF pic_disable, Moved, Stages
  <2>4. QED
    BY <2>2, <2>3
<1>3. CASE lapic_initialize
  <2>1. Moved("lapic", "ioapic")
    BY <1>3, <1>a, GotoMoves DEF lapic_initialize, Places, MainType
  <2>2. Elsewhere
    BY <1>3, <1>a, <2>1 DEF lapic_initialize, Moved, Elsewhere, Busy, Names
  <2>3. Stages'
    BY <1>3, <1>a, <1>b, <2>1 DEF lapic_initialize, Moved, Stages, lapic_write
  <2>4. QED
    BY <2>2, <2>3
<1>4. CASE apic_timer_initialize
  <2>1. Moved("uacpi", "hpet")
    BY <1>4, <1>a, GotoMoves DEF apic_timer_initialize, Places, MainType
  <2>2. Elsewhere
    BY <1>4, <1>a, <2>1, TakenByKernel DEF apic_timer_initialize, Moved, Elsewhere, Busy, Names
  <2>3. Stages'
    BY <1>4, <1>a, <1>b, <2>1 DEF apic_timer_initialize, Moved, Stages, lapic_write
  <2>4. QED
    BY <2>2, <2>3
<1>5. CASE hpet_absent
  <2>1. Moved("hpet", "idle")
    BY <1>5, <1>a, GotoMoves DEF hpet_absent, Places, MainType
  <2>2. Elsewhere
    BY <1>5, <1>a, <2>1 DEF hpet_absent, Moved, Elsewhere, Busy, Names
  <2>3. Stages'
    BY <1>5, <1>a, <1>b, <2>1 DEF hpet_absent, Moved, Stages
  <2>4. QED
    BY <2>2, <2>3
<1>6. CASE pit_rte_written
  <2>1. Moved("pit_gsi", "uacpi")
    BY <1>6, <1>a, GotoMoves DEF pit_rte_written, Places, MainType
  <2>2. Elsewhere
    BY <1>6, <1>a, <2>1 DEF pit_rte_written, Moved, Elsewhere, Busy, Names
  <2>3. Stages'
    BY <1>6, <1>a, <1>b, <2>1 DEF pit_rte_written, Moved, Stages
  <2>4. QED
    BY <2>2, <2>3
<1>7. CASE tsc_calibrate
  <2>1. Moved("tsc", "pic")
    BY <1>7, <1>a, GotoMoves DEF tsc_calibrate, Places
  <2>2. \A i \in UacpiIrqs : handlers'[Vec(i)] = "uacpi" => handlers[Vec(i)] = "uacpi"
    <3>1. demote \/ UNCHANGED handlers
      BY <1>7 DEF tsc_calibrate
    <3>2. \A i \in UacpiIrqs : Vec(i) # PIT_VECTOR /\ Vec(i) \in Vectors
      BY LineVectors, WiringAssumption DEF Vec, CPU_IRQ_NUM, PIT_VECTOR
    <3>3. QED
      BY <1>a, <3>1, <3>2, DemoteWrites
  <2>3. Elsewhere
    BY <1>7, <2>1, <2>2 DEF tsc_calibrate, Moved, Elsewhere, Busy
  <2>4. Stages'
    BY <2>1 DEF Moved, Stages
  <2>5. QED
    BY <2>3, <2>4
<1>8. CASE hpet_initialize
  <2>1. Moved("hpet", "timer0")
    BY <1>8, <1>a, GotoMoves DEF hpet_initialize, Places
  <2>2. \A i \in UacpiIrqs : handlers'[Vec(i)] = "uacpi" => handlers[Vec(i)] = "uacpi"
    <3>1. demote
      BY <1>8 DEF hpet_initialize
    <3>2. \A i \in UacpiIrqs : Vec(i) # PIT_VECTOR /\ Vec(i) \in Vectors
      BY LineVectors, WiringAssumption DEF Vec, CPU_IRQ_NUM, PIT_VECTOR
    <3>3. QED
      BY <1>a, <3>1, <3>2, DemoteWrites
  <2>3. Elsewhere
    BY <1>8, <2>1, <2>2 DEF hpet_initialize, Moved, Elsewhere, Busy
  <2>4. Stages'
    BY <1>8, <1>a, <2>1 DEF hpet_initialize, Moved, Stages
  <2>5. QED
    BY <2>3, <2>4
<1>9. CASE ioapic_initialize
  <2>1. main.at = "ioapic" /\ UNCHANGED <<main, handlers, slots, installed, pic_disabled, lapic>>
    BY <1>9 DEF ioapic_initialize
  <2>2. Elsewhere
    BY <2>1 DEF Elsewhere, Busy
  <2>3. Stages'
    BY <1>a, <2>1 DEF Stages
  <2>4. QED
    BY <2>2, <2>3
<1>10. CASE write_rte_for_pit
  <2>1. /\ main.at = "ioapic" /\ main'.at = "find" /\ main'.vec = PIT_VECTOR
        /\ main'.ret = "pit_gsi" /\ up = Len(Ioapics)
        /\ UNCHANGED <<handlers, slots, installed, pic_disabled, lapic, up>>
    BY <1>10, <1>a DEF write_rte_for_pit, MainType
  <2>2. Elsewhere
    BY <2>1 DEF Elsewhere, Busy
  <2>3. Stages'
    BY <1>a, <2>1 DEF Stages
  <2>4. QED
    BY <2>2, <2>3
<1>11. CASE find_gsi
  <2> DEFINE gsi == get_gsi_for_irq(main.vec - CPU_IRQ_NUM)
             ok == get_ioapic_for_gsi(gsi) # 0
  <2>1. /\ main.at = "find" /\ main'.at = (IF ok THEN "low" ELSE main.ret)
        /\ main'.gsi = gsi /\ main'.irq = main.irq /\ main'.slot = main.slot
        /\ main'.vec = main.vec /\ main'.ret = main.ret
        /\ UNCHANGED <<handlers, slots, installed, pic_disabled, lapic, up>>
    BY <1>11, <1>a DEF find_gsi, MainType
  <2>2. ok => (get_ioapic_for_gsi(main.gsi))' # 0
    BY <2>1 DEF get_ioapic_for_gsi
  <2> HIDE DEF gsi, ok
  <2>3. main.ret \in {"pit_gsi", "check", "idle"}
    BY <1>a, <2>1 DEF Stages, MainType
  <2>4. Elsewhere
    BY <2>1, <2>3 DEF Elsewhere, Busy
  <2>5. Stages'
    BY <1>a, <2>1, <2>2, <2>3 DEF Stages
  <2>6. QED
    BY <2>4, <2>5
<1>12. CASE write_rte_low
  <2>1. Moved("low", "high") /\ UNCHANGED <<handlers, slots, installed, pic_disabled, lapic, up>>
    BY <1>12, <1>a, GotoMoves DEF write_rte_low, Places, MainType
  <2>2. main.ret \in {"pit_gsi", "check", "idle"} /\ main.at = "low"
    BY <1>a, <2>1 DEF Stages, MainType, Moved
  <2>3. get_ioapic_for_gsi(main.gsi) # 0 /\ (get_ioapic_for_gsi(main.gsi))' # 0
    <3>1. get_ioapic_for_gsi(main.gsi) # 0
      BY <1>a, <2>2 DEF Stages
    <3>2. main'.gsi = main.gsi /\ up' = up
      BY <2>1 DEF Moved
    <3>3. QED
      BY <3>1, <3>2 DEF get_ioapic_for_gsi
  <2>4. Elsewhere
    BY <2>1, <2>2 DEF Moved, Elsewhere, Busy
  <2>5. Stages'
    BY <1>a, <2>1, <2>2, <2>3 DEF Moved, Stages
  <2>6. QED
    BY <2>4, <2>5
<1>13. CASE write_rte_high
  <2>1. Moved("high", main.ret) /\ UNCHANGED <<handlers, slots, installed, pic_disabled, lapic, up>>
    BY <1>13, <1>a, GotoMoves DEF write_rte_high, Places, MainType
  <2>2. main.ret \in {"pit_gsi", "check", "idle"} /\ main.at = "high"
    BY <1>a, <2>1 DEF Stages, MainType, Moved
  <2>3. get_ioapic_for_gsi(main.gsi) # 0 /\ (get_ioapic_for_gsi(main.gsi))' # 0
    <3>1. get_ioapic_for_gsi(main.gsi) # 0
      BY <1>a, <2>2 DEF Stages
    <3>2. main'.gsi = main.gsi /\ up' = up
      BY <2>1 DEF Moved
    <3>3. QED
      BY <3>1, <3>2 DEF get_ioapic_for_gsi
  <2>4. Elsewhere
    BY <2>1, <2>2 DEF Moved, Elsewhere, Busy
  <2>5. Stages'
    BY <1>a, <2>1, <2>2, <2>3 DEF Moved, Stages
  <2>6. QED
    BY <2>4, <2>5
<1>14. CASE setup_system_timer
  <2>1. /\ main.at = "timer0"
        /\ \/ main'.at = "idle"
           \/ /\ main'.at = "low" /\ main'.ret = "idle" /\ main'.gsi = chosen_gsi
              /\ get_ioapic_for_gsi(chosen_gsi) # 0
        /\ UNCHANGED <<slots, installed, pic_disabled, lapic, up>>
        /\ handlers' = [handlers EXCEPT ![HPET_SYSTEM_TIMER_VECTOR] = "hpet"]
    BY <1>14, <1>a DEF setup_system_timer, MainType
  <2>2. main'.at = "low" => (get_ioapic_for_gsi(main.gsi))' # 0
    <3>1. up' = up
      BY <2>1
    <3>2. CASE main'.at = "low"
      <4> DEFINE g == chosen_gsi
      <4>1. main'.gsi = g /\ get_ioapic_for_gsi(g) # 0
        BY <2>1, <3>2
      <4> HIDE DEF g
      <4>2. QED
        BY <3>1, <4>1 DEF get_ioapic_for_gsi
    <3>3. QED
      BY <3>2
  <2>3. Elsewhere
    BY <1>a, <2>1, TakenByKernel DEF Elsewhere, Busy, Names
  <2>4. Stages'
    BY <1>a, <2>1, <2>2 DEF Stages
  <2>5. QED
    BY <2>3, <2>4
<1>15. QED
  BY <1>1, <1>2, <1>3, <1>4, <1>5, <1>6, <1>7, <1>8, <1>9, <1>10, <1>11, <1>12, <1>13, <1>14

Plain ==
    \/ pit_initialize \/ tsc_calibrate \/ pic_disable \/ lapic_initialize
    \/ ioapic_initialize \/ write_rte_for_pit \/ find_gsi \/ write_rte_low
    \/ write_rte_high \/ pit_rte_written \/ apic_timer_initialize \/ hpet_absent
    \/ hpet_initialize \/ setup_system_timer
OnSlots ==
    \/ install_handler \/ install_ctx \/ install_register \/ install_check
    \/ uninstall_unregister \/ uninstall_release \/ uacpi_calls

LEMMA NextSlots ==
    ASSUME IInv, [Next]_vars
    PROVE  SlotInv'
<1>1. CASE Plain
  <2>1. Elsewhere
    BY <1>1, PlainSteps DEF Plain
  <2>2. QED
    BY <2>1, SlotsKept DEF Elsewhere
<1>2. CASE OnSlots
  BY <1>2, InstallSteps, CheckStep, UnregisterStep, ReleaseStep, InstallStep, UninstallStep
     DEF OnSlots, uacpi_calls
<1>3. CASE interrupt \/ UNCHANGED vars
  <2>1. UNCHANGED <<main, handlers, slots, installed>>
    BY <1>3, InterruptKeeps DEF vars, IInv
  <2>2. SlotInv
    BY DEF IInv
  <2>3. QED
    BY <2>1, <2>2 DEF SlotInv, OneSlotPerVector, SlotOfMain, SlotsOfLines, TrampolineComplete,
                      get_uacpi_entry, Busy
<1>4. QED
  BY <1>1, <1>2, <1>3 DEF Next, main_step, Plain, OnSlots

LEMMA NextStages ==
    ASSUME IInv, [Next]_vars
    PROVE  Stages'
<1>a. TypeOK /\ Stages /\ main \in MainType
  BY DEF IInv, TypeOK, MainType
<1>1. CASE Plain
  BY <1>1, PlainSteps DEF Plain
<1>2. CASE OnSlots
  <2>1. /\ main.at \notin {"pit", "tsc", "pic", "lapic", "ioapic"}
        /\ UNCHANGED <<pic_disabled, lapic, up>>
        /\ main'.at \notin {"low", "high"}
        /\ main'.at = "find" => main'.ret = "check"
    <3>1. CASE install_handler
      BY <1>a, <3>1 DEF install_handler, Goto, MainType, install_order
    <3>2. CASE install_ctx
      BY <1>a, <3>2 DEF install_ctx, Goto, MainType, install_order
    <3>3. CASE install_register
      <4>1. main.at = "register" /\ main.ret = "check"
        BY <3>3 DEF install_register, Goto, IInv, SlotInv, SlotOfMain, Busy
      <4>2. QED
        BY <1>a, <3>3, <4>1 DEF install_register, Goto, MainType, install_order
    <3>4. CASE install_check
      BY <1>a, <3>4 DEF install_check, Goto, MainType
    <3>5. CASE uninstall_unregister
      BY <1>a, <3>5 DEF uninstall_unregister, Goto, MainType
    <3>6. CASE uninstall_release
      BY <1>a, <3>6 DEF uninstall_release, Goto, MainType
    <3>7. ASSUME NEW i \in UacpiIrqs, install(i)
          PROVE  /\ main.at \notin {"pit", "tsc", "pic", "lapic", "ioapic"}
                 /\ UNCHANGED <<pic_disabled, lapic, up>>
                 /\ main'.at \notin {"low", "high"}
                 /\ main'.at = "find" => main'.ret = "check"
      <4>1. main'.at \in {main.at, "handler"}
        BY <1>a, <3>7, InstallTakes, ZenonT(30) DEF MainType
      <4>2. QED
        BY <3>7, <4>1, InstallTakes
    <3>8. ASSUME NEW i \in UacpiIrqs, uninstall(i)
          PROVE  /\ main.at \notin {"pit", "tsc", "pic", "lapic", "ioapic"}
                 /\ UNCHANGED <<pic_disabled, lapic, up>>
                 /\ main'.at \notin {"low", "high"}
                 /\ main'.at = "find" => main'.ret = "check"
      <4>1. main'.at = "unregister"
        BY <1>a, <3>8, UninstallTakes DEF MainType
      <4>2. QED
        BY <3>8, <4>1, UninstallTakes
    <3>9. QED
      BY <1>2, <3>1, <3>2, <3>3, <3>4, <3>5, <3>6, <3>7, <3>8 DEF OnSlots, uacpi_calls
  <2>2. QED
    BY <1>a, <2>1 DEF Stages
<1>3. CASE interrupt \/ UNCHANGED vars
  <2>1. UNCHANGED <<main, pic_disabled, lapic, up>>
    BY <1>a, <1>3, InterruptKeeps DEF vars
  <2>2. QED
    BY <1>a, <2>1 DEF Stages, get_ioapic_for_gsi
<1>4. QED
  BY <1>1, <1>2, <1>3 DEF Next, main_step, Plain, OnSlots

-----------------------------------------------------------------------------
(* Who acknowledges an interrupt.                                           *)

Armed == pic_disabled /\ lapic.initialized

\* An input reaches the processor through the I/O APICs only once the APICs are up.
LEMMA ReachesArmed ==
    ASSUME TypeOK, QuietBefore, NEW g \in Nat, Reaches(g) # {}
    PROVE  Armed
<1>1. PICK e \in HwEntries(g) : ~e.mask /\ e.dest = BspId
  BY DEF Reaches
<1>2. PICK k \in DOMAIN Ioapics :
        /\ Ioapics[k].gsib <= g /\ g < Ioapics[k].gsib + Ioapics[k].max_entries
        /\ e = rte[k][g - Ioapics[k].gsib]
  BY <1>1 DEF HwEntries
<1>3. Ioapics[k].gsib \in Nat /\ Ioapics[k].max_entries \in Nat
  BY IoapicTypes
<1>4. g - Ioapics[k].gsib \in 0 .. Ioapics[k].max_entries - 1
  BY <1>2, <1>3
<1>5. k \in DOMAIN rte /\ g - Ioapics[k].gsib \in DOMAIN rte[k]
  BY <1>4, ZenonT(30) DEF TypeOK
<1>6. QED
  BY <1>1, <1>2, <1>5 DEF QuietBefore, Armed

LEMMA InterruptAcknowledged ==
    ASSUME TypeOK, QuietBefore, EoiToDeliverer, interrupt
    PROVE  EoiToDeliverer'
<1>1. \A i \in Irqs : Vec(i) \in 32 .. 47 /\ Wire[i] \in Nat
  BY LineVectors, WiringAssumption
<1>2. ASSUME NEW i \in Irqs, irq_by_pic(i) PROVE EoiToDeliverer'
  <2>1. ~pic_disabled /\ take(i, "pic", Vec(i))
    BY <1>2 DEF irq_by_pic
  <2>2. eoi_sent(Vec(i)) = "pic"
    BY <1>1, <2>1 DEF eoi_sent
  <2>3. QED
    BY <2>1, <2>2 DEF take, EoiToDeliverer
<1>3. ASSUME NEW line, NEW v, take(line, "lapic", v), Armed PROVE EoiToDeliverer'
  <2>1. eoi_sent(v) = "lapic"
    BY <1>3 DEF eoi_sent, Armed
  <2>2. QED
    BY <1>3, <2>1 DEF take, EoiToDeliverer
<1>4. ASSUME NEW i \in Irqs, irq_by_ioapic(i) PROVE EoiToDeliverer'
  <2>1. PICK v \in Reaches(Wire[i]) : take(i, "lapic", v)
    BY <1>4 DEF irq_by_ioapic
  <2>2. Armed
    BY <1>1, <2>1, ReachesArmed
  <2>3. QED
    BY <1>3, <2>1, <2>2
<1>5. CASE irq_by_hpet
  <2>1. PICK v \in Reaches(hpet.gsi) : take(CPU_IRQ_NUM, "lapic", v)
    BY <1>5 DEF irq_by_hpet
  <2>2. hpet.gsi \in Nat
    BY DEF TypeOK
  <2>3. Armed
    BY <2>1, <2>2, ReachesArmed
  <2>4. QED
    BY <1>3, <2>1, <2>3
<1>6. CASE irq_by_apic_timer
  <2>1. lapic.timer = "on" /\ take(CPU_IRQ_NUM + 1, "lapic", TIMER_INT_VECTOR)
    BY <1>6 DEF irq_by_apic_timer
  <2>2. Armed
    BY <2>1 DEF QuietBefore, Armed
  <2>3. QED
    BY <1>3, <2>1, <2>2
<1>7. QED
  BY <1>2, <1>4, <1>5, <1>6 DEF interrupt

LEMMA NextQuiet ==
    ASSUME IInv, QuietBefore, [Next]_vars
    PROVE  QuietBefore'
<1>a. TypeOK /\ Stages /\ main \in MainType
  BY DEF IInv, TypeOK, MainType
<1>b. lapic \in [initialized : BOOLEAN, lint0 : {"firmware", "masked"},
                 timer : {"firmware", "masked", "on"}]
  BY <1>a DEF TypeOK
<1>1. CASE pic_disable
  <2>1. UNCHANGED <<lapic, rte>>
    BY <1>1 DEF pic_disable
  <2>2. ~lapic.initialized \/ Armed'
    BY <1>1, <2>1 DEF pic_disable, Armed
  <2>3. QED
    BY <2>1, <2>2 DEF QuietBefore, Armed
<1>2. CASE lapic_initialize
  <2>1. main.at = "lapic"
    BY <1>2 DEF lapic_initialize, Goto
  <2>2. pic_disabled' /\ lapic'.initialized
    BY <1>2, <1>a, <1>b, <2>1 DEF lapic_initialize, lapic_write, Stages
  <2>3. QED
    BY <2>2 DEF QuietBefore
<1>3. CASE pit_initialize \/ interrupt \/ UNCHANGED vars
  <2>1. UNCHANGED <<pic_disabled, lapic, rte>>
    BY <1>3, <1>a, InterruptKeeps DEF pit_initialize, vars
  <2>2. QED
    BY <2>1 DEF QuietBefore
<1>4. CASE tsc_calibrate
  <2>1. UNCHANGED <<pic_disabled, lapic>>
    BY <1>4 DEF tsc_calibrate
  <2>2. demote \/ UNCHANGED rte
    BY <1>4 DEF tsc_calibrate
  <2>3. CASE UNCHANGED rte
    BY <2>1, <2>3 DEF QuietBefore
  <2>4. CASE demote
    <3>1. /\ DOMAIN rte' = DOMAIN rte
          /\ \A k \in DOMAIN rte : DOMAIN rte'[k] = DOMAIN rte[k]
      BY <1>a, <2>4, DemoteWrites DEF TypeOK, RteTypes
    <3>2. \A k \in DOMAIN rte : \A g \in DOMAIN rte[k] :
            rte'[k][g] = rte[k][g] \/ rte'[k][g].mask
      <4> SUFFICES ASSUME NEW k \in DOMAIN rte, NEW g \in DOMAIN rte[k]
                   PROVE  rte'[k][g] = rte[k][g] \/ rte'[k][g].mask
        OBVIOUS
      <4>1. RteTypes
        BY <1>a DEF TypeOK, RteTypes, EntryType
      <4>2. rte[k][g] \in EntryType
        BY <4>1 DEF RteTypes
      <4>3. [rte[k][g] EXCEPT !.mask = TRUE].mask
        BY <4>2, Zenon DEF EntryType
      <4>4. rte'[k][g] = rte[k][g] \/ rte'[k][g] = [rte[k][g] EXCEPT !.mask = TRUE]
        BY <1>a, <2>4, DemoteWrites
      <4>5. QED
        BY <4>3, <4>4, Zenon
    <3>3. QED
      BY <2>1, <3>1, <3>2 DEF QuietBefore
  <2>5. QED
    BY <2>2, <2>3, <2>4
<1>5. CASE OnSlots \/ (Plain /\ ~pit_initialize /\ ~tsc_calibrate /\ ~pic_disable
                           /\ ~lapic_initialize)
  <2>1. main.at \notin {"pit", "tsc", "pic", "lapic"}
    <3>1. ASSUME NEW i \in UacpiIrqs, install(i) \/ uninstall(i)
          PROVE  main.at \in {"uacpi", "idle"}
      BY <3>1 DEF install, uninstall
    <3>2. QED
      BY <1>5, <3>1
         DEF OnSlots, Plain, uacpi_calls, Goto, install_handler, install_ctx, install_register,
             install_check, uninstall_unregister, uninstall_release, ioapic_initialize,
             write_rte_for_pit, find_gsi, write_rte_low, write_rte_high, pit_rte_written,
             apic_timer_initialize, hpet_absent, hpet_initialize, setup_system_timer
  <2>2. Armed
    BY <1>a, <2>1 DEF Stages, Armed
  <2>3. Armed'
    BY <1>b, <1>5, <2>2
       DEF OnSlots, Plain, uacpi_calls, install, uninstall, install_handler, install_ctx,
           install_register, install_check, uninstall_unregister, uninstall_release,
           ioapic_initialize, write_rte_for_pit, find_gsi, write_rte_low, write_rte_high,
           pit_rte_written, apic_timer_initialize, hpet_absent, hpet_initialize,
           setup_system_timer, lapic_write, Armed
  <2>4. QED
    BY <2>3 DEF QuietBefore, Armed
<1>6. QED
  BY <1>1, <1>2, <1>3, <1>4, <1>5 DEF Next, main_step, Plain, OnSlots

\* Only an interrupt acknowledges.
LEMMA OnlyInterrupts ==
    ASSUME [Next]_vars, ~interrupt
    PROVE  UNCHANGED last
BY DEF Next, main_step, uacpi_calls, vars, install, uninstall, install_handler, install_ctx,
       install_register, install_check, uninstall_unregister, uninstall_release,
       ioapic_initialize, write_rte_for_pit, find_gsi, write_rte_low, write_rte_high,
       pit_rte_written, apic_timer_initialize, hpet_absent, hpet_initialize,
       setup_system_timer, pit_initialize, tsc_calibrate, pic_disable, lapic_initialize

-----------------------------------------------------------------------------
(* The lines uACPI was told OK: what every entry holds.                     *)

\* No other I/O APIC owns the input of a line that is at home at I/O APIC k.
LEMMA HomeOwns ==
    ASSUME TypeOK, NEW i \in UacpiIrqs, NEW k \in DOMAIN Ioapics, Home(k, i)
    PROVE  /\ Wire[i] \in Nat /\ k \in DOMAIN rte /\ Wire[i] \in DOMAIN rte[k]
           /\ EntryOf(k, i) \in EntryType
           /\ up = Len(Ioapics) => get_ioapic_for_gsi(Wire[i]) = k
           /\ HwEntries(Wire[i]) = {EntryOf(k, i)}
<1> DEFINE owns(j) == /\ Ioapics[j].gsib <= Wire[i]
                      /\ Wire[i] < Ioapics[j].gsib + Ioapics[j].max_entries
<1>1. Wire[i] \in Nat /\ Ioapics[k].gsib = 0 /\ Wire[i] < Ioapics[k].max_entries
  BY WiringAssumption DEF Home
<1>2. /\ DOMAIN Ioapics = 1 .. Len(Ioapics) /\ Len(Ioapics) \in Nat
      /\ \A j \in DOMAIN Ioapics : Ioapics[j].gsib \in Nat /\ Ioapics[j].max_entries \in Nat
  BY IoapicAssumption, IoapicTypes
<1>3. owns(k)
  BY <1>1, <1>2
<1>4. ASSUME NEW j \in DOMAIN Ioapics, owns(j) PROVE j = k
  <2>1. CASE j < k
    <3>1. Ioapics[j].gsib + Ioapics[j].max_entries <= Ioapics[k].gsib
      BY <2>1, IoapicAssumption
    <3>2. QED
      BY <1>1, <1>2, <1>4, <3>1
  <2>2. CASE k < j
    <3>1. Ioapics[k].gsib + Ioapics[k].max_entries <= Ioapics[j].gsib
      BY <2>2, IoapicAssumption
    <3>2. QED
      BY <1>1, <1>2, <1>4, <3>1
  <2>3. QED
    BY <1>2, <2>1, <2>2
<1>5. k \in DOMAIN rte /\ Wire[i] \in DOMAIN rte[k] /\ EntryOf(k, i) \in EntryType
  <2>1. /\ k \in DOMAIN rte
        /\ rte[k] \in [0 .. Ioapics[k].max_entries - 1 -> EntryType]
    BY DEF TypeOK, EntryType
  <2>2. Wire[i] \in 0 .. Ioapics[k].max_entries - 1
    BY <1>1, <1>2
  <2>3. QED
    BY <2>1, <2>2 DEF EntryOf
<1>6. ASSUME up = Len(Ioapics) PROVE get_ioapic_for_gsi(Wire[i]) = k
  <2> DEFINE own == {j \in 1 .. up : /\ Ioapics[j].gsib <= Wire[i]
                                     /\ Wire[i] < Ioapics[j].gsib + Ioapics[j].max_entries}
  <2>1. own = {k}
    BY <1>2, <1>3, <1>4, <1>6
  <2>2. k \in Nat
    BY <1>2
  <2>3. Min(own) \in own
    BY <2>1, <2>2, MinOf
  <2>4. get_ioapic_for_gsi(Wire[i]) = Min(own)
    BY <2>1 DEF get_ioapic_for_gsi
  <2>5. QED
    BY <2>1, <2>3, <2>4
<1>7. HwEntries(Wire[i]) = {EntryOf(k, i)}
  <2>1. {j \in DOMAIN Ioapics : Ioapics[j].gsib <= Wire[i] /\
                                Wire[i] < Ioapics[j].gsib + Ioapics[j].max_entries} = {k}
    BY <1>3, <1>4
  <2>2. Wire[i] - Ioapics[k].gsib = Wire[i]
    BY <1>1
  <2>3. QED
    BY <2>1, <2>2 DEF HwEntries, EntryOf
<1>8. QED
  BY <1>1, <1>5, <1>6, <1>7

\* The four steps that write redirection entries.
LEMMA RteSteps ==
    ASSUME IInv, [Next]_vars
    PROVE  \/ UNCHANGED rte
           \/ demote
           \/ /\ write_rte_low /\ main.at = "low"
              /\ \E k \in DOMAIN Ioapics :
                    /\ k = get_ioapic_for_gsi(main.gsi)
                    /\ Wrote(k, main.gsi, [rte[k][main.gsi] EXCEPT !.vector = main.vec,
                                                                   !.mask = FALSE])
           \/ /\ write_rte_high /\ main.at = "high"
              /\ \E k \in DOMAIN Ioapics :
                    /\ k = get_ioapic_for_gsi(main.gsi)
                    /\ Wrote(k, main.gsi, [rte[k][main.gsi] EXCEPT !.dest = BspId])
<1>a. TypeOK /\ Stages /\ main.gsi \in Nat /\ main.vec \in Nat
  BY DEF IInv, TypeOK
<1>1. ASSUME write_rte_low
      PROVE  /\ main.at = "low"
             /\ \E k \in DOMAIN Ioapics :
                    /\ k = get_ioapic_for_gsi(main.gsi)
                    /\ Wrote(k, main.gsi, [rte[k][main.gsi] EXCEPT !.vector = main.vec,
                                                                   !.mask = FALSE])
  <2> DEFINE k == get_ioapic_for_gsi(main.gsi)
  <2>1. main.at = "low" /\ k # 0
    BY <1>1, <1>a DEF write_rte_low, Goto, Stages
  <2>2. k \in DOMAIN Ioapics
    BY <1>a, <2>1, OwnerIsUp
  <2>3. rte' = WriteLow(rte, k, main.gsi, main.vec, FALSE)
    BY <1>1 DEF write_rte_low, write_rte_masked
  <2> HIDE DEF k
  <2>4. Wrote(k, main.gsi, [rte[k][main.gsi] EXCEPT !.vector = main.vec, !.mask = FALSE])
    BY <1>a, <2>2, <2>3, LowWrites
  <2>5. QED
    BY <2>1, <2>2, <2>4 DEF k
<1>2. ASSUME write_rte_high
      PROVE  /\ main.at = "high"
             /\ \E k \in DOMAIN Ioapics :
                    /\ k = get_ioapic_for_gsi(main.gsi)
                    /\ Wrote(k, main.gsi, [rte[k][main.gsi] EXCEPT !.dest = BspId])
  <2> DEFINE k == get_ioapic_for_gsi(main.gsi)
  <2>1. main.at = "high" /\ k # 0
    BY <1>2, <1>a DEF write_rte_high, Goto, Stages
  <2>2. k \in DOMAIN Ioapics
    BY <1>a, <2>1, OwnerIsUp
  <2>3. rte' = WriteHigh(rte, k, main.gsi, BspId)
    BY <1>2 DEF write_rte_high
  <2> HIDE DEF k
  <2>4. Wrote(k, main.gsi, [rte[k][main.gsi] EXCEPT !.dest = BspId])
    BY <1>a, <2>2, <2>3, HighWrites, BoardAssumption
  <2>5. QED
    BY <2>1, <2>2, <2>4 DEF k
<1>3. ASSUME NEW j \in UacpiIrqs, install(j) \/ uninstall(j) PROVE UNCHANGED rte
  BY <1>3 DEF install, uninstall
<1>4. CASE OnSlots
  BY <1>3, <1>4
     DEF OnSlots, uacpi_calls, install_handler, install_ctx, install_register, install_check,
         uninstall_unregister, uninstall_release
<1>5. CASE Plain
  <2>1. CASE write_rte_low \/ write_rte_high
    BY <1>1, <1>2, <2>1
  <2>2. CASE ~(write_rte_low \/ write_rte_high)
    BY <1>5, <2>2
       DEF Plain, pit_initialize, tsc_calibrate, pic_disable, lapic_initialize,
           ioapic_initialize, mask_loop, write_rte_for_pit, find_gsi, pit_rte_written,
           apic_timer_initialize, hpet_absent, hpet_initialize, setup_system_timer
  <2>3. QED
    BY <2>1, <2>2
<1>6. CASE interrupt \/ UNCHANGED vars
  BY <1>6, <1>a, InterruptKeeps DEF vars
<1>7. QED
  BY <1>4, <1>5, <1>6 DEF Next, main_step, Plain, OnSlots

\* What such a step does to the entry of a line: nothing, unless it is the write of
\* that input or the mask of PIT::demote.
LEMMA EntryKept ==
    ASSUME IInv, [Next]_vars, NEW i \in UacpiIrqs, NEW k \in DOMAIN Ioapics, Home(k, i),
           main.at \in {"low", "high"} => main.gsi # Wire[i]
    PROVE  \/ EntryOf(k, i)' = EntryOf(k, i)
           \/ ~pit'.on /\ pit'.gsi = Wire[i]
<1>a. TypeOK /\ k \in DOMAIN rte /\ Wire[i] \in DOMAIN rte[k]
  BY HomeOwns DEF IInv
<1>1. CASE demote
  BY <1>1, <1>a, DemoteWrites DEF EntryOf
<1>2. CASE UNCHANGED rte
  BY <1>2 DEF EntryOf
<1>3. ASSUME NEW j \in DOMAIN Ioapics, NEW e, Wrote(j, main.gsi, e), main.at \in {"low", "high"}
      PROVE  EntryOf(k, i)' = EntryOf(k, i)
  BY <1>3, <1>a DEF Wrote, EntryOf
<1>4. QED
  BY <1>1, <1>2, <1>3, RteSteps

LEMMA StrayStep ==
    ASSUME IInv, RInv, [Next]_vars
    PROVE  NoStray'
<1> SUFFICES ASSUME NEW i \in UacpiIrqs, NEW k \in DOMAIN rte', NEW g \in DOMAIN rte'[k],
                    rte'[k][g].vector = Vec(i)
             PROVE  g = Wire[i]
  BY DEF NoStray, Vec
<1>a. /\ TypeOK /\ TypeOK' /\ Stages /\ NoStray /\ WritesEntry
      /\ main.ret \in {"pit", "pit_gsi", "check", "idle"}
  BY NextTypes DEF IInv, RInv, TypeOK
<1>b. /\ k \in DOMAIN Ioapics /\ k \in DOMAIN rte /\ DOMAIN rte'[k] = DOMAIN rte[k]
      /\ g \in DOMAIN rte[k]
  BY <1>a DEF TypeOK
<1>c. rte[k][g] \in EntryType
  <2>1. rte[k] \in [0 .. Ioapics[k].max_entries - 1 -> EntryType]
    BY <1>a, <1>b DEF TypeOK, EntryType
  <2>2. QED
    BY <1>b, <2>1
<1>1. CASE rte'[k][g].vector = rte[k][g].vector
  BY <1>1, <1>a, <1>b DEF NoStray
<1>2. CASE demote
  <2>1. rte'[k][g] = rte[k][g] \/ rte'[k][g] = [rte[k][g] EXCEPT !.mask = TRUE]
    BY <1>2, <1>a, <1>b, DemoteWrites
  <2>2. rte'[k][g].vector = rte[k][g].vector
    BY <1>c, <2>1 DEF EntryType
  <2>3. QED
    BY <1>1, <2>2
<1>3. CASE UNCHANGED rte
  BY <1>1, <1>3
<1>4. ASSUME NEW j \in DOMAIN Ioapics,
             Wrote(j, main.gsi, [rte[j][main.gsi] EXCEPT !.dest = BspId])
      PROVE  g = Wire[i]
  <2>1. rte'[k][g] = rte[k][g] \/ rte'[k][g] = [rte[k][g] EXCEPT !.dest = BspId]
    BY <1>b, <1>4 DEF Wrote
  <2>2. rte'[k][g].vector = rte[k][g].vector
    BY <1>c, <2>1 DEF EntryType
  <2>3. QED
    BY <1>1, <2>2
<1>5. ASSUME main.at = "low", NEW j \in DOMAIN Ioapics,
             Wrote(j, main.gsi, [rte[j][main.gsi] EXCEPT !.vector = main.vec, !.mask = FALSE])
      PROVE  g = Wire[i]
  <2>1. \/ rte'[k][g] = rte[k][g]
        \/ /\ g = main.gsi
           /\ rte'[k][g] = [rte[k][g] EXCEPT !.vector = main.vec, !.mask = FALSE]
    BY <1>b, <1>5 DEF Wrote
  <2>2. CASE rte'[k][g] = rte[k][g]
    BY <1>1, <2>2
  <2>3. CASE g = main.gsi /\ rte'[k][g] = [rte[k][g] EXCEPT !.vector = main.vec, !.mask = FALSE]
    <3>1. main.vec = Vec(i)
      BY <1>c, <2>3 DEF EntryType
    <3>2. Vec(i) # PIT_VECTOR /\ Vec(i) # HPET_SYSTEM_TIMER_VECTOR
      BY LineNotTimer
    <3>3. main.ret = "check"
      BY <1>a, <1>5, <3>1, <3>2 DEF WritesEntry, Stages
    <3>4. main.irq \in UacpiIrqs /\ Vec(main.irq) = Vec(i) /\ main.gsi = Wire[main.irq]
      BY <1>a, <1>5, <3>1, <3>3 DEF WritesEntry
    <3>5. main.irq = i
      BY <3>4, VecsDiffer
    <3>6. QED
      BY <2>3, <3>4, <3>5
  <2>4. QED
    BY <2>1, <2>2, <2>3
<1>6. QED
  BY <1>2, <1>3, <1>4, <1>5, RteSteps

\* Nobody takes the vector of a line but the call that uninstalls its handler.
LEMMA HandlerKept ==
    ASSUME IInv, [Next]_vars, NEW i \in UacpiIrqs, handlers[Vec(i)] = "uacpi",
           main.at = "unregister" => main.vec # Vec(i)
    PROVE  handlers'[Vec(i)] = "uacpi"
<1>a. TypeOK /\ handlers \in [Vectors -> Names] /\ Vec(i) \in Vectors
  BY LineVectors DEF IInv, TypeOK, Names
<1>b. Vec(i) # PIT_VECTOR /\ Vec(i) # HPET_SYSTEM_TIMER_VECTOR /\ Vec(i) # TIMER_INT_VECTOR
  BY LineNotTimer
<1>1. ASSUME NEW v, NEW who \in Names, handlers' = [handlers EXCEPT ![v] = who],
             v # Vec(i) \/ who = "uacpi"
      PROVE  handlers'[Vec(i)] = "uacpi"
  BY <1>1, <1>a
<1>2. CASE UNCHANGED handlers
  BY <1>2
<1>3. CASE demote
  BY <1>3, <1>a, <1>b, DemoteWrites
<1>4. CASE OnSlots
  <2>1. ASSUME NEW j \in UacpiIrqs, install(j) \/ uninstall(j) PROVE UNCHANGED handlers
    BY <2>1 DEF install, uninstall
  <2>2. CASE install_register
    BY <1>1, <2>2 DEF install_register, Names
  <2>3. CASE uninstall_unregister
    <3>1. main.at = "unregister" /\ handlers' = [handlers EXCEPT ![main.vec] = "none"]
      BY <2>3 DEF uninstall_unregister, Goto
    <3>2. QED
      BY <1>1, <3>1 DEF Names
  <2>4. CASE install_check
    <3>1. main.rax # NONE
      BY <1>a DEF TypeOK, NONE
    <3>2. QED
      BY <1>2, <2>4, <3>1 DEF install_check
  <2>5. QED
    BY <1>2, <1>4, <2>1, <2>2, <2>3, <2>4
       DEF OnSlots, uacpi_calls, install_handler, install_ctx, uninstall_release
<1>5. CASE Plain
  <2>1. CASE pit_initialize
    BY <1>1, <1>b, <2>1 DEF pit_initialize, Names
  <2>2. CASE apic_timer_initialize
    BY <1>1, <1>b, <2>2 DEF apic_timer_initialize, Names
  <2>3. CASE setup_system_timer
    BY <1>1, <1>b, <2>3 DEF setup_system_timer, Names
  <2>4. CASE tsc_calibrate \/ hpet_initialize
    BY <1>2, <1>3, <2>4 DEF tsc_calibrate, hpet_initialize
  <2>5. QED
    BY <1>2, <1>5, <2>1, <2>2, <2>3, <2>4
       DEF Plain, pic_disable, lapic_initialize, ioapic_initialize, write_rte_for_pit, find_gsi,
           write_rte_low, write_rte_high, pit_rte_written, hpet_absent
<1>6. CASE interrupt \/ UNCHANGED vars
  BY <1>2, <1>6, <1>a, InterruptKeeps DEF vars
<1>7. QED
  BY <1>4, <1>5, <1>6 DEF Next, main_step, Plain, OnSlots

\* The steps that do not end inside find_gsi_and_write_rte or at the check, and the others.
Outside == main.at \notin {"find", "low", "high", "check"}

LEMMA Lands ==
    ASSUME IInv, [Next]_vars
    PROVE  \/ Outside'
           \/ UNCHANGED <<main, handlers, rte, installed, hpet, up>>
           \/ install_register \/ write_rte_for_pit \/ setup_system_timer \/ find_gsi
           \/ write_rte_low \/ write_rte_high
<1>a. TypeOK /\ main \in MainType
  BY DEF IInv, TypeOK, MainType
<1>1. CASE interrupt \/ UNCHANGED vars
  BY <1>1, <1>a, InterruptKeeps DEF vars
<1>2. CASE OnSlots /\ ~install_register
  <2>1. main.back \in {"uacpi", "idle"}
    BY <1>a DEF MainType
  <2>2. ASSUME NEW i \in UacpiIrqs, install(i) PROVE Outside'
    <3>1. main'.at \in {"uacpi", "idle", "handler"}
      BY <2>2, InstallGoes
    <3>2. QED
      BY <3>1 DEF Outside
  <2>3. ASSUME NEW i \in UacpiIrqs, uninstall(i) PROVE Outside'
    <3>1. main'.at = "unregister"
      BY <1>a, <2>3, UninstallTakes DEF MainType
    <3>2. QED
      BY <3>1 DEF Outside
  <2>4. ASSUME install_handler PROVE Outside'
    BY <1>a, <2>4 DEF install_handler, install_order, Goto, MainType, Outside
  <2>5. ASSUME install_ctx PROVE Outside'
    BY <1>a, <2>5 DEF install_ctx, install_order, Goto, MainType, Outside
  <2>6. ASSUME install_check PROVE Outside'
    BY <1>a, <2>1, <2>6 DEF install_check, Goto, MainType, Outside
  <2>7. ASSUME uninstall_unregister PROVE Outside'
    BY <1>a, <2>7 DEF uninstall_unregister, Goto, MainType, Outside
  <2>8. ASSUME uninstall_release PROVE Outside'
    BY <1>a, <2>1, <2>8 DEF uninstall_release, Goto, MainType, Outside
  <2>9. QED
    BY <1>2, <2>2, <2>3, <2>4, <2>5, <2>6, <2>7, <2>8 DEF OnSlots, uacpi_calls
<1>3. CASE Plain /\ ~write_rte_for_pit /\ ~setup_system_timer /\ ~find_gsi /\ ~write_rte_low
            /\ ~write_rte_high
  <2>1. CASE ioapic_initialize
    BY <2>1 DEF ioapic_initialize, Outside
  <2>2. CASE ~ioapic_initialize
    BY <1>a, <1>3, <2>2
       DEF Plain, pit_initialize, tsc_calibrate, pic_disable, lapic_initialize,
           pit_rte_written, apic_timer_initialize, hpet_absent, hpet_initialize, Goto,
           MainType, Outside
  <2>3. QED
    BY <2>1, <2>2
<1>4. QED
  BY <1>1, <1>2, <1>3 DEF Next, main_step, Plain, OnSlots

\* setup_system_timer finds every I/O APIC up.
LEMMA ChosenOnce ==
    ASSUME Stages, main.at = "timer0"
    PROVE  chosen_gsi = FinalGsi /\ chosen_gsi \in Nat \ {NONE}
<1>1. up = Len(Ioapics)
  BY DEF Stages
<1>2. chosen_gsi = FinalGsi
  BY <1>1 DEF chosen_gsi, valid_irq_mask, max_ioapic_entry, FinalGsi
<1>3. valid_irq_mask \in SUBSET Nat /\ valid_irq_mask \subseteq 0 .. 31
  BY HpetInputs DEF valid_irq_mask
<1>4. CASE valid_irq_mask = {}
  BY <1>2, <1>4 DEF chosen_gsi, NONE
<1>5. CASE valid_irq_mask # {}
  <2>1. chosen_gsi \in 0 .. 31
    BY <1>3, <1>5, MinOf DEF chosen_gsi
  <2>2. QED
    BY <1>2, <2>1 DEF NONE
<1>6. QED
  BY <1>4, <1>5

\* uACPI's lines come after the PIT's: no step on the slots is early.
LEMMA EarlyStep ==
    ASSUME IInv, Early => installed = {}, [Next]_vars
    PROVE  Early' => installed' = {}
<1>a. TypeOK /\ Stages /\ main \in MainType
  BY DEF IInv, TypeOK, MainType
<1>1. CASE interrupt \/ UNCHANGED vars
  BY <1>1, <1>a, InterruptKeeps DEF vars, Early
<1>2. CASE OnSlots
  <2>1. main.back \in {"uacpi", "idle"}
    BY <1>a DEF MainType
  <2>2. ASSUME NEW i \in UacpiIrqs, install(i) PROVE ~Early'
    <3>1. main'.at \in {"uacpi", "idle", "handler"}
      BY <2>2, InstallGoes
    <3>2. QED
      BY <3>1 DEF Early
  <2>3. ASSUME NEW i \in UacpiIrqs, uninstall(i) PROVE ~Early'
    <3>1. main'.at = "unregister"
      BY <1>a, <2>3, UninstallTakes DEF MainType
    <3>2. QED
      BY <3>1 DEF Early
  <2>4. ASSUME install_register PROVE ~Early'
    <3>1. main.at = "register" /\ main.ret = "check"
      BY <2>4 DEF install_register, Goto, IInv, SlotInv, SlotOfMain, Busy
    <3>2. QED
      BY <1>a, <2>4, <3>1 DEF install_register, Goto, install_order, MainType, Early
  <2>5. ASSUME install_handler \/ install_ctx PROVE ~Early'
    BY <1>a, <2>5 DEF install_handler, install_ctx, install_order, Goto, MainType, Early
  <2>6. ASSUME install_check \/ uninstall_unregister \/ uninstall_release PROVE ~Early'
    BY <1>a, <2>1, <2>6
       DEF install_check, uninstall_unregister, uninstall_release, Goto, MainType, Early
  <2>7. QED
    BY <1>2, <2>2, <2>3, <2>4, <2>5, <2>6 DEF OnSlots, uacpi_calls
<1>3. CASE Plain
  <2>1. installed' = installed
    BY <1>3
       DEF Plain, pit_initialize, tsc_calibrate, pic_disable, lapic_initialize,
           ioapic_initialize, write_rte_for_pit, find_gsi, write_rte_low, write_rte_high,
           pit_rte_written, apic_timer_initialize, hpet_absent, hpet_initialize,
           setup_system_timer
  <2>2. CASE pit_initialize \/ tsc_calibrate \/ pic_disable \/ lapic_initialize
             \/ ioapic_initialize \/ write_rte_for_pit \/ pit_rte_written
    <3>1. Early
      BY <2>2 DEF pit_initialize, tsc_calibrate, pic_disable, lapic_initialize,
                  ioapic_initialize, write_rte_for_pit, pit_rte_written, Goto, Early
    <3>2. QED
      BY <2>1, <3>1
  <2>3. CASE find_gsi
    <3>1. /\ main.at = "find" /\ main'.at \in {"low", main.ret} /\ main'.ret = main.ret
          /\ main.ret \in {"check", "pit_gsi"}
      BY <1>a, <2>3 DEF find_gsi, MainType, Stages
    <3>2. QED
      BY <2>1, <3>1 DEF Early
  <2>4. CASE write_rte_low
    BY <1>a, <2>1, <2>4 DEF write_rte_low, Goto, MainType, Early
  <2>5. CASE write_rte_high
    <3>1. /\ main.at = "high" /\ main'.at = main.ret /\ main'.ret = main.ret
          /\ main.ret \in {"check", "pit_gsi", "idle"}
      BY <1>a, <2>5 DEF write_rte_high, Goto, MainType, Stages
    <3>2. QED
      BY <2>1, <3>1 DEF Early
  <2>6. CASE apic_timer_initialize \/ hpet_absent \/ hpet_initialize
    BY <1>a, <2>6
       DEF apic_timer_initialize, hpet_absent, hpet_initialize, Goto, MainType, Early
  <2>7. CASE setup_system_timer
    <3>1. main'.at = "idle" \/ (main'.at = "low" /\ main'.ret = "idle")
      BY <1>a, <2>7 DEF setup_system_timer, MainType
    <3>2. QED
      BY <3>1 DEF Early
  <2>8. QED
    BY <1>3, <2>2, <2>3, <2>4, <2>5, <2>6, <2>7 DEF Plain
<1>4. QED
  BY <1>1, <1>2, <1>3 DEF Next, main_step, Plain, OnSlots

\* HPET timer 0 is routed once, and a demoted PIT stays so once the lines are there.
LEMMA TimersStay ==
    ASSUME IInv, RInv, [Next]_vars
    PROVE  /\ hpet'.gsi \in {NONE, FinalGsi}
           /\ hpet.gsi # NONE => hpet'.gsi = hpet.gsi
           /\ ~Early /\ ~pit.on => ~pit'.on /\ pit'.gsi = pit.gsi
<1>a. /\ TypeOK /\ Stages /\ hpet.gsi \in {NONE, FinalGsi}
      /\ hpet \in [present : BOOLEAN, gsi : Nat]
  BY DEF IInv, RInv, TypeOK
<1>1. ASSUME NEW j \in UacpiIrqs, install(j) \/ uninstall(j) PROVE UNCHANGED <<hpet, pit>>
  BY <1>1 DEF install, uninstall
<1>2. CASE OnSlots
  <2>1. UNCHANGED <<hpet, pit>>
    BY <1>1, <1>2
       DEF OnSlots, uacpi_calls, install_handler, install_ctx, install_register, install_check,
           uninstall_unregister, uninstall_release
  <2>2. QED
    BY <1>a, <2>1
<1>3. CASE Plain
  <2>1. /\ hpet'.gsi \in {NONE, FinalGsi}
        /\ hpet.gsi # NONE => hpet'.gsi = hpet.gsi
    <3>1. CASE setup_system_timer
      <4>1. main.at = "timer0" /\ (UNCHANGED hpet \/ hpet' = [hpet EXCEPT !.gsi = chosen_gsi])
        BY <3>1 DEF setup_system_timer
      <4>2. hpet'.gsi \in {hpet.gsi, FinalGsi}
        BY <1>a, <4>1, ChosenOnce
      <4>3. QED
        BY <1>a, <4>2
    <3>2. CASE ~setup_system_timer
      BY <1>3, <1>a, <3>2
         DEF Plain, pit_initialize, tsc_calibrate, pic_disable, lapic_initialize,
             ioapic_initialize, write_rte_for_pit, find_gsi, write_rte_low, write_rte_high,
             pit_rte_written, apic_timer_initialize, hpet_absent, hpet_initialize
    <3>3. QED
      BY <3>1, <3>2
  <2>2. ASSUME ~Early, ~pit.on PROVE ~pit'.on /\ pit'.gsi = pit.gsi
    <3>1. CASE demote
      BY <1>a, <3>1, DemoteWrites
    <3>2. CASE ~demote
      BY <1>3, <2>2, <3>2
         DEF Plain, pit_initialize, tsc_calibrate, pic_disable, lapic_initialize,
             ioapic_initialize, write_rte_for_pit, find_gsi, write_rte_low, write_rte_high,
             pit_rte_written, apic_timer_initialize, hpet_absent, hpet_initialize,
             setup_system_timer, Goto, Early
    <3>3. QED
      BY <3>1, <3>2
  <2>3. QED
    BY <2>1, <2>2
<1>4. CASE interrupt \/ UNCHANGED vars
  BY <1>4, <1>a, InterruptKeeps DEF vars
<1>5. QED
  BY <1>2, <1>3, <1>4 DEF Next, main_step, Plain, OnSlots

LEMMA ContestedStays ==
    ASSUME IInv, RInv, [Next]_vars, NEW i \in installed, Contested(i)
    PROVE  Contested(i)'
<1>1. ~Early
  BY DEF RInv
<1>2. QED
  BY <1>1, TimersStay DEF Contested

LEMMA WritesStep ==
    ASSUME IInv, RInv, [Next]_vars
    PROVE  WritesEntry'
<1>a. TypeOK /\ Stages /\ WritesEntry /\ main \in MainType
  BY DEF IInv, RInv, TypeOK, MainType
<1>1. CASE Outside'
  BY <1>1 DEF Outside, WritesEntry
<1>2. CASE UNCHANGED <<main, handlers, rte, installed, hpet, up>>
  BY <1>2, <1>a DEF WritesEntry, Vec
<1>3. CASE install_register \/ write_rte_for_pit
  <2>1. main'.at = "find"
    BY <1>3, <1>a DEF install_register, write_rte_for_pit, install_order, Goto, MainType
  <2>2. QED
    BY <2>1 DEF WritesEntry
<1>4. CASE setup_system_timer
  <2>1. main.at = "timer0" /\ chosen_gsi # NONE
    BY <1>4, <1>a, ChosenOnce DEF setup_system_timer
  <2>2. \/ main'.at = "idle"
        \/ /\ main'.at = "low" /\ main'.ret = "idle" /\ main'.gsi = chosen_gsi
           /\ main'.vec = HPET_SYSTEM_TIMER_VECTOR /\ hpet'.gsi = chosen_gsi
    <3>1. \/ main' = [main EXCEPT !.at = "idle"]
          \/ /\ main' = [main EXCEPT !.at = "low", !.gsi = chosen_gsi,
                           !.vec = HPET_SYSTEM_TIMER_VECTOR, !.ret = "idle"]
             /\ hpet' = [hpet EXCEPT !.gsi = chosen_gsi]
      BY <1>4 DEF setup_system_timer
    <3>2. hpet \in [present : BOOLEAN, gsi : Nat]
      BY <1>a DEF TypeOK
    <3>3. QED
      BY <1>a, <3>1, <3>2 DEF MainType
  <2>3. QED
    BY <2>1, <2>2 DEF WritesEntry
<1>5. CASE find_gsi
  <2> DEFINE gsi == get_gsi_for_irq(main.vec - CPU_IRQ_NUM)
  <2>1. /\ main.at = "find" /\ main'.at \in {"low", main.ret}
        /\ main'.gsi = gsi /\ main'.irq = main.irq /\ main'.vec = main.vec
        /\ main'.ret = main.ret /\ UNCHANGED <<hpet, installed>>
    BY <1>5, <1>a DEF find_gsi, MainType
  <2>2. CASE main.ret = "check"
    <3>1. main.irq \in UacpiIrqs \ installed /\ main.vec = Vec(main.irq)
      BY <2>1, <2>2 DEF IInv, SlotInv, SlotOfMain, Busy
    <3>2. main.irq \in Irqs /\ main.vec - CPU_IRQ_NUM = main.irq
      <4>1. main.irq \in Irqs /\ main.irq \in Nat
        BY <3>1, LineVectors
      <4>2. QED
        BY <3>1, <4>1 DEF Vec, CPU_IRQ_NUM
    <3>3. gsi = Wire[main.irq]
      BY <3>2, GsiOfLine
    <3> HIDE DEF gsi
    <3>4. QED
      BY <2>1, <2>2, <3>1, <3>3 DEF WritesEntry, Vec
  <2>3. CASE main.ret = "pit_gsi" /\ main.vec = PIT_VECTOR
    <3>1. gsi = Wire[0]
      <4>1. main.vec - CPU_IRQ_NUM = 0
        BY <2>3 DEF PIT_VECTOR, CPU_IRQ_NUM
      <4>2. QED
        BY <4>1, GsiOfLine, WiringAssumption
    <3> HIDE DEF gsi
    <3>2. QED
      BY <2>1, <2>3, <3>1 DEF WritesEntry
  <2>4. QED
    BY <1>a, <2>1, <2>2, <2>3 DEF Stages
<1>6. CASE write_rte_low
  <2>1. Moved("low", "high") /\ UNCHANGED <<hpet, installed>>
    BY <1>6, <1>a, GotoMoves DEF write_rte_low, Places
  <2>2. QED
    BY <1>a, <2>1 DEF WritesEntry, Moved, Vec
<1>7. CASE write_rte_high
  <2>1. main'.at = main.ret /\ main.ret \in {"pit_gsi", "check", "idle"}
    BY <1>7, <1>a DEF write_rte_high, Goto, MainType, Stages
  <2>2. QED
    BY <2>1 DEF WritesEntry
<1>8. QED
  BY <1>1, <1>2, <1>3, <1>4, <1>5, <1>6, <1>7, Lands

LEMMA RMainStep ==
    ASSUME IInv, RInv, [Next]_vars
    PROVE  RMain'
<1>a. TypeOK /\ Stages /\ RMain /\ WritesEntry /\ main \in MainType
  BY DEF IInv, RInv, TypeOK, MainType
<1>b. Busy => main.irq \in UacpiIrqs /\ main.vec = Vec(main.irq) /\ main.irq \in Irqs
  BY LineVectors DEF IInv, SlotInv, SlotOfMain
<1>c. main.at \in {"find", "low", "high"} => up = Len(Ioapics)
  BY <1>a DEF Stages
<1>1. CASE Outside'
  BY <1>1 DEF Outside, RMain
<1>2. CASE UNCHANGED <<main, handlers, rte, installed, hpet, up>>
  BY <1>2, <1>a DEF RMain, Busy, Routed, EntryOf, Home, Vec
<1>3. CASE install_register
  <2>1. main'.at = "find" /\ main'.vec = main.vec /\ Busy
    BY <1>3, <1>a DEF install_register, install_order, Goto, MainType, Busy
  <2>2. handlers' = [handlers EXCEPT ![main.vec] = "uacpi"] /\ main.vec \in Vectors
    BY <1>3, <1>b, <2>1, LineVectors DEF install_register
  <2>3. handlers'[main.vec] = "uacpi"
    BY <1>a, <2>2 DEF TypeOK
  <2>4. QED
    BY <2>1, <2>3 DEF RMain
<1>4. CASE write_rte_for_pit
  <2>1. main'.at = "find" /\ main'.ret = "pit_gsi"
    BY <1>4, <1>a DEF write_rte_for_pit, MainType
  <2>2. QED
    BY <2>1 DEF RMain, Busy
<1>5. CASE setup_system_timer
  <2>1. main'.at = "idle" \/ (main'.at = "low" /\ main'.ret = "idle")
    BY <1>5, <1>a DEF setup_system_timer, MainType
  <2>2. QED
    BY <2>1 DEF RMain, Busy
<1>6. CASE find_gsi
  <2> DEFINE gsi == get_gsi_for_irq(main.vec - CPU_IRQ_NUM)
             ok == get_ioapic_for_gsi(gsi) # 0
  <2>1. /\ main.at = "find" /\ main'.at = (IF ok THEN "low" ELSE main.ret)
        /\ main'.irq = main.irq /\ main'.vec = main.vec /\ main'.ret = main.ret
        /\ UNCHANGED <<handlers, rte>>
    BY <1>6, <1>a DEF find_gsi, MainType
  <2>2. CASE main.ret = "check"
    <3>1. Busy
      BY <2>1, <2>2 DEF Busy
    <3>2. gsi = Wire[main.irq]
      <4>1. main.irq \in Nat
        BY <1>b, <3>1, LineVectors
      <4>2. main.vec - CPU_IRQ_NUM = main.irq
        BY <1>b, <3>1, <4>1 DEF Vec, CPU_IRQ_NUM
      <4>3. QED
        BY <1>b, <3>1, <4>2, GsiOfLine
    <3>3. ASSUME ~ok PROVE Routed(main.irq)
      <4> SUFFICES ASSUME NEW k \in DOMAIN Ioapics, Home(k, main.irq) PROVE FALSE
        BY DEF Routed
      <4>1. get_ioapic_for_gsi(Wire[main.irq]) = k
        BY <1>a, <1>b, <1>c, <2>1, <3>1, HomeOwns
      <4>2. 0 \notin DOMAIN Ioapics
        BY IoapicAssumption
      <4>3. QED
        BY <3>2, <3>3, <4>1, <4>2
    <3> HIDE DEF gsi, ok
    <3>4. handlers'[main'.vec] = "uacpi"
      BY <1>a, <2>1, <3>1 DEF RMain
    <3>5. Routed(main.irq) => Routed(main.irq)'
      BY <2>1 DEF Routed, EntryOf, Home, Vec
    <3>6. main'.at = "low" \/ (main'.at = "check" /\ Routed(main.irq)')
      BY <2>1, <2>2, <3>3, <3>5
    <3>7. QED
      BY <2>1, <3>4, <3>6 DEF RMain, Routed
  <2>3. CASE main.ret = "pit_gsi"
    <3> HIDE DEF gsi, ok
    <3>1. main'.at \in {"low", "pit_gsi"} /\ main'.ret = "pit_gsi"
      BY <2>1, <2>3
    <3>2. QED
      BY <3>1 DEF RMain, Busy
  <2>4. QED
    BY <1>a, <2>1, <2>2, <2>3 DEF Stages
<1>7. CASE write_rte_low
  <2>1. Moved("low", "high") /\ handlers' = handlers /\ main.gsi \in Nat /\ main.vec \in Nat
    BY <1>7, <1>a, GotoMoves DEF write_rte_low, Places, MainType
  <2>2. CASE main.ret # "check"
    BY <2>1, <2>2 DEF RMain, Moved, Busy
  <2>3. CASE main.ret = "check"
    <3>1. Busy /\ main.at = "low" /\ main.gsi = Wire[main.irq] /\ main.irq \in UacpiIrqs
      BY <1>a, <1>b, <2>1, <2>3 DEF Busy, Moved, WritesEntry
    <3>2. ASSUME NEW k \in DOMAIN Ioapics, Home(k, main.irq)
          PROVE  EntryOf(k, main.irq)'.vector = main'.vec /\ EntryOf(k, main.irq)'.mask = FALSE
      <4>1. /\ get_ioapic_for_gsi(main.gsi) = k
            /\ k \in DOMAIN rte /\ main.gsi \in DOMAIN rte[k] /\ rte[k][main.gsi] \in EntryType
        BY <1>a, <1>c, <3>1, <3>2, HomeOwns DEF EntryOf
      <4>2. rte' = WriteLow(rte, k, main.gsi, main.vec, FALSE)
        BY <1>7, <4>1 DEF write_rte_low, write_rte_masked
      <4>3. Wrote(k, main.gsi, [rte[k][main.gsi] EXCEPT !.vector = main.vec, !.mask = FALSE])
        BY <1>a, <2>1, <4>2, LowWrites
      <4>4. rte'[k][main.gsi] = [rte[k][main.gsi] EXCEPT !.vector = main.vec, !.mask = FALSE]
        BY <4>1, <4>3 DEF Wrote
      <4> DEFINE e == rte[k][main.gsi]
                 f == rte'[k][main.gsi]
      <4>5. e \in EntryType /\ f = [e EXCEPT !.vector = main.vec, !.mask = FALSE]
        BY <4>1, <4>4
      <4> HIDE DEF e, f
      <4>6. f.vector = main.vec /\ f.mask = FALSE
        BY <4>5 DEF EntryType
      <4>7. QED
        BY <2>1, <3>1, <4>6 DEF EntryOf, Moved, f
    <3>3. handlers'[main'.vec] = "uacpi"
      BY <1>a, <2>1, <3>1 DEF RMain, Moved
    <3>4. main'.irq = main.irq /\ main'.at = "high"
      BY <2>1 DEF Moved
    <3>5. QED
      BY <3>2, <3>3, <3>4 DEF RMain, Home, EntryOf
  <2>4. QED
    BY <2>2, <2>3
<1>8. CASE write_rte_high
  <2>1. Moved("high", main.ret) /\ handlers' = handlers /\ main.gsi \in Nat
    BY <1>8, <1>a, GotoMoves DEF write_rte_high, Places, MainType
  <2>2. main.ret \in {"pit_gsi", "check", "idle"} /\ main'.at = main.ret /\ main.at = "high"
    BY <1>a, <2>1 DEF Moved, Stages, MainType
  <2>3. CASE main.ret # "check"
    <3>1. Outside'
      BY <2>2, <2>3 DEF Outside
    <3>2. QED
      BY <1>1, <3>1
  <2>4. CASE main.ret = "check"
    <3>1. Busy /\ main.gsi = Wire[main.irq] /\ main.irq \in UacpiIrqs
      BY <1>a, <1>b, <2>2, <2>4 DEF Busy, WritesEntry
    <3>2. ASSUME NEW k \in DOMAIN Ioapics, Home(k, main.irq)
          PROVE  EntryOf(k, main.irq)' = [vector |-> Vec(main.irq), mask |-> FALSE, dest |-> BspId]
      <4>1. /\ get_ioapic_for_gsi(main.gsi) = k
            /\ k \in DOMAIN rte /\ main.gsi \in DOMAIN rte[k] /\ rte[k][main.gsi] \in EntryType
        BY <1>a, <1>c, <2>2, <3>1, <3>2, HomeOwns DEF EntryOf
      <4>2. rte' = WriteHigh(rte, k, main.gsi, BspId)
        BY <1>8, <4>1 DEF write_rte_high
      <4>3. Wrote(k, main.gsi, [rte[k][main.gsi] EXCEPT !.dest = BspId])
        BY <1>a, <2>1, <4>2, HighWrites, BoardAssumption
      <4>4. rte'[k][main.gsi] = [rte[k][main.gsi] EXCEPT !.dest = BspId]
        BY <4>1, <4>3 DEF Wrote
      <4>5. rte[k][main.gsi].vector = Vec(main.irq) /\ rte[k][main.gsi].mask = FALSE
        BY <1>a, <1>b, <2>2, <3>1, <3>2 DEF RMain, EntryOf
      <4> DEFINE e == rte[k][main.gsi]
                 f == rte'[k][main.gsi]
      <4>6. /\ e \in EntryType /\ f = [e EXCEPT !.dest = BspId]
            /\ e.vector = Vec(main.irq) /\ e.mask = FALSE
        BY <4>1, <4>4, <4>5
      <4> HIDE DEF e, f
      <4>7. f = [vector |-> Vec(main.irq), mask |-> FALSE, dest |-> BspId]
        BY <4>6 DEF EntryType
      <4>8. QED
        BY <2>1, <3>1, <4>7 DEF EntryOf, Moved, f
    <3>3. main'.irq = main.irq /\ main'.vec = main.vec
      BY <2>1 DEF Moved
    <3>4. Routed(main.irq)'
      BY <3>2, <3>3 DEF Routed, Home, EntryOf, Vec
    <3>5. handlers'[main'.vec] = "uacpi"
      BY <1>a, <2>1, <2>2, <3>1 DEF RMain, Moved
    <3>6. QED
      BY <2>2, <2>4, <3>4, <3>5 DEF RMain
  <2>5. QED
    BY <2>3, <2>4
<1>9. QED
  BY <1>1, <1>2, <1>3, <1>4, <1>5, <1>6, <1>7, <1>8, Lands

\* A write to the input of an installed line is somebody else's.
LEMMA NotOurs ==
    ASSUME IInv, RInv, NEW i \in installed, main.at \in {"low", "high"}, main.gsi = Wire[i]
    PROVE  Contested(i)
<1>1. i \in UacpiIrqs /\ UacpiIrqs \subseteq Irqs /\ 0 \in Irqs /\ i # 0
  BY LineVectors, WiringAssumption DEF IInv, TypeOK
<1>2. WritesEntry /\ main.ret \in {"pit_gsi", "check", "idle"}
  BY DEF RInv, IInv, Stages, TypeOK
<1>3. QED
  BY <1>1, <1>2 DEF WritesEntry, Contested

LEMMA RInvStep ==
    ASSUME IInv, RInv, [Next]_vars
    PROVE  RInv'
<1>1. ASSUME NEW i \in installed', i \in installed
      PROVE  handlers'[Vec(i)] = "uacpi" /\ (Routed(i)' \/ Contested(i)')
  <2>1. i \in UacpiIrqs /\ handlers[Vec(i)] = "uacpi" /\ (Routed(i) \/ Contested(i))
    BY <1>1 DEF RInv, IInv, TypeOK
  <2>2. ASSUME Contested(i) PROVE Contested(i)'
    BY <1>1, <2>2, ContestedStays
  <2>3. ASSUME Routed(i), ~Contested(i) PROVE Routed(i)' \/ Contested(i)'
    <3>1. main.at \in {"low", "high"} => main.gsi # Wire[i]
      BY <1>1, <2>3, NotOurs
    <3>2. CASE ~pit'.on /\ pit'.gsi = Wire[i]
      BY <3>2 DEF Contested
    <3>3. CASE ~(~pit'.on /\ pit'.gsi = Wire[i])
      <4>1. ASSUME NEW k \in DOMAIN Ioapics, Home(k, i) PROVE EntryOf(k, i)' = EntryOf(k, i)
        BY <2>1, <3>1, <3>3, <4>1, EntryKept
      <4>2. QED
        BY <2>3, <4>1 DEF Routed, Home, EntryOf, Vec
    <3>4. QED
      BY <3>2, <3>3
  <2>4. main.at = "unregister" => main.vec # Vec(i)
    <3>1. main.at = "unregister" => main.irq \in UacpiIrqs \ installed /\ main.vec = Vec(main.irq)
      BY DEF IInv, SlotInv, SlotOfMain, Busy
    <3>2. QED
      BY <1>1, <2>1, <3>1, VecsDiffer
  <2>5. handlers'[Vec(i)] = "uacpi"
    BY <2>1, <2>4, HandlerKept
  <2>6. QED
    BY <2>1, <2>2, <2>3, <2>5
<1>2. ASSUME NEW i \in installed', i \notin installed
      PROVE  handlers'[Vec(i)] = "uacpi" /\ Routed(i)'
  <2>1. installed' # installed
    BY <1>2
  <2>2. install_check
    <3>1. ASSUME NEW j \in UacpiIrqs, install(j) \/ uninstall(j) PROVE FALSE
      BY <1>2, <3>1 DEF install, uninstall
    <3>2. ~interrupt /\ ~UNCHANGED vars
      BY <2>1, InterruptKeeps DEF IInv, vars
    <3>3. QED
      BY <2>1, <3>1, <3>2
         DEF Next, main_step, uacpi_calls, install_handler, install_ctx, install_register,
             uninstall_unregister, uninstall_release, ioapic_initialize, write_rte_for_pit,
             find_gsi, write_rte_low, write_rte_high, pit_rte_written, apic_timer_initialize,
             hpet_absent, hpet_initialize, setup_system_timer, pit_initialize, tsc_calibrate,
             pic_disable, lapic_initialize
  <2>3. main.at = "check" /\ i = main.irq /\ rte' = rte
    BY <1>2, <2>2 DEF install_check, Goto
  <2>4. main.rax # NONE
    BY DEF IInv, TypeOK, NONE
  <2>5. handlers' = handlers
    BY <2>2, <2>4 DEF install_check
  <2>6. Routed(i) /\ handlers[Vec(i)] = "uacpi"
    BY <2>3 DEF RInv, RMain, Busy, IInv, SlotInv, SlotOfMain
  <2>7. QED
    BY <2>3, <2>5, <2>6 DEF Routed, EntryOf, Home, Vec
<1>3. \A i \in installed' : handlers'[Vec(i)] = "uacpi" /\ (Routed(i)' \/ Contested(i)')
  BY <1>1, <1>2
<1>4. Early' => installed' = {}
  BY EarlyStep DEF RInv
<1>5. hpet'.gsi \in {NONE, FinalGsi}
  BY TimersStay
<1>6. QED
  BY <1>3, <1>4, <1>5, WritesStep, RMainStep, StrayStep DEF RInv, Vec, FinalGsi

\* A routed line with its handler is served, and a line that is served is routed.
LEMMA ServedLine ==
    ASSUME IInv, RInv, NEW i \in installed
    PROVE  /\ ran_by(Vec(i)) = [who |-> "uacpi", h |-> i, ctx |-> i]
           /\ OwnEntry(i) => Reaches(Wire[i]) = {Vec(i)} \/ Contested(i)
           /\ Vec(i) \in Reaches(Wire[i]) => OwnEntry(i)
<1>1. /\ i \in UacpiIrqs /\ handlers[Vec(i)] = "uacpi" /\ (Routed(i) \/ Contested(i))
      /\ TypeOK /\ Wire[i] \in Nat
  BY WiringAssumption DEF IInv, RInv, TypeOK
<1>2. PICK s \in get_uacpi_entry(Vec(i)) : slots[s].handler = i /\ slots[s].ctx = i
  BY <1>1 DEF IInv, SlotInv, TrampolineComplete
<1>3. Min(get_uacpi_entry(Vec(i))) = s
  <2>1. get_uacpi_entry(Vec(i)) \in SUBSET Nat
    BY <1>1 DEF get_uacpi_entry, TypeOK
  <2>2. \A t \in get_uacpi_entry(Vec(i)) : t = s
    BY DEF get_uacpi_entry, IInv, SlotInv, OneSlotPerVector
  <2>3. QED
    BY <2>1, <2>2, MinOf
<1>4. ran_by(Vec(i)) = [who |-> "uacpi", h |-> i, ctx |-> i]
  BY <1>1, <1>2, <1>3 DEF ran_by
<1>5. ASSUME OwnEntry(i), ~Contested(i) PROVE Reaches(Wire[i]) = {Vec(i)}
  <2>1. PICK k \in DOMAIN Ioapics : Home(k, i)
    BY <1>5 DEF OwnEntry, Home
  <2>2. EntryOf(k, i) = [vector |-> Vec(i), mask |-> FALSE, dest |-> BspId]
    BY <1>1, <1>5, <2>1 DEF Routed
  <2>3. HwEntries(Wire[i]) = {EntryOf(k, i)}
    BY <1>1, <2>1, HomeOwns
  <2>4. ~EntryOf(k, i).mask /\ EntryOf(k, i).dest = BspId /\ EntryOf(k, i).vector = Vec(i)
    BY <2>2
  <2>5. QED
    BY <2>3, <2>4 DEF Reaches
<1>6. ASSUME Vec(i) \in Reaches(Wire[i]) PROVE OwnEntry(i)
  <2>1. PICK e \in HwEntries(Wire[i]) : e.vector = Vec(i)
    BY <1>6 DEF Reaches
  <2>2. PICK k \in DOMAIN Ioapics :
            /\ Ioapics[k].gsib <= Wire[i] /\ Wire[i] < Ioapics[k].gsib + Ioapics[k].max_entries
            /\ e = rte[k][Wire[i] - Ioapics[k].gsib]
    BY <2>1 DEF HwEntries
  <2>3. Ioapics[k].gsib \in Nat /\ Ioapics[k].max_entries \in Nat
    BY IoapicTypes
  <2>4. Wire[i] - Ioapics[k].gsib \in 0 .. Ioapics[k].max_entries - 1
    BY <1>1, <2>2, <2>3
  <2>5. k \in DOMAIN rte /\ Wire[i] - Ioapics[k].gsib \in DOMAIN rte[k]
    BY <1>1, <2>4, ZenonT(30) DEF TypeOK
  <2>6. Wire[i] - Ioapics[k].gsib = Wire[i]
    BY <1>1, <2>1, <2>2, <2>5 DEF RInv, NoStray
  <2>7. Ioapics[k].gsib = 0 /\ Wire[i] < Ioapics[k].max_entries
    BY <1>1, <2>2, <2>3, <2>6
  <2>8. QED
    BY <2>7 DEF OwnEntry
<1>7. QED
  BY <1>4, <1>5, <1>6

-----------------------------------------------------------------------------
(* The theorems.                                                            *)

LEMMA InitIInv == Init => IInv
<1> SUFFICES ASSUME Init PROVE IInv
  OBVIOUS
<1>1. PICK e \in FirmwareEntry :
        rte = [k \in DOMAIN Ioapics |-> [g \in 0 .. Ioapics[k].max_entries - 1 |-> e]]
  BY DEF Init
<1>2. e \in EntryType /\ e.dest = 0 /\ (FirmwareMasks => e.mask = TRUE)
  <2>1. PICK m \in {TRUE, FirmwareMasks} : e = [vector |-> PIT_VECTOR, mask |-> m, dest |-> 0]
    BY DEF FirmwareEntry
  <2>2. m \in BOOLEAN /\ (FirmwareMasks => m = TRUE)
    BY BoardAssumption, Zenon
  <2>3. e.mask = m /\ e.dest = 0
    BY <2>1
  <2>4. e \in EntryType
    BY <2>1, <2>2 DEF EntryType, PIT_VECTOR
  <2>5. QED
    BY <2>2, <2>3, <2>4, Zenon
<1>3. RteTypes
  BY <1>1, <1>2 DEF RteTypes
<1>4. handlers \in [Vectors -> Names] /\ slots \in [1 .. HandlerSlots -> SlotType]
  BY DEF Init, Names, SlotType, EmptySlot
<1>5. TypeOK
  <2>1. main \in MainType
    BY DEF Init, MainType, Places, NONE
  <2>2. 0 \in 0 .. Len(Ioapics)
    BY IoapicAssumption
  <2>3. /\ lapic \in [initialized : BOOLEAN, lint0 : {"firmware", "masked"},
                      timer : {"firmware", "masked", "on"}]
        /\ pit \in [on : BOOLEAN, gsi : {0, 1}, mode : {"off", "rate", "once"}]
        /\ hpet \in [present : BOOLEAN, gsi : Nat]
    BY DEF Init, NONE
  <2>4. /\ up \in 0 .. Len(Ioapics) /\ installed \subseteq UacpiIrqs /\ ticks \in 0 .. 1
        /\ iflag \in BOOLEAN /\ pic_disabled \in BOOLEAN
    <3>1. iflag = FALSE /\ pic_disabled = FALSE /\ up = 0 /\ installed = {} /\ ticks = 0
      BY DEF Init
    <3>2. up \in 0 .. Len(Ioapics) /\ ticks \in 0 .. 1
      BY ONLY <2>2, <3>1
    <3>3. QED
      BY <3>1, <3>2, Zenon
  <2>5. /\ DOMAIN rte = DOMAIN Ioapics
        /\ \A k \in DOMAIN Ioapics : rte[k] \in [0 .. Ioapics[k].max_entries - 1 ->
                                                 [vector : Nat, mask : BOOLEAN, dest : Nat]]
    BY <1>3 DEF RteTypes, EntryType
  <2>6. /\ slots \in [1 .. HandlerSlots -> [in_use : BOOLEAN, handler : UacpiIrqs \cup {NONE},
                                            ctx : UacpiIrqs \cup {NONE}, vector : Nat]]
        /\ handlers \in [Vectors -> {"none", "pit", "hpet", "apic", "uacpi"}]
    BY <1>4 DEF SlotType, Names
  <2>7. main \in [at : Places, irq : UacpiIrqs \cup {NONE}, slot : Nat, gsi : Nat, vec : Nat,
                  rax : {0, 1}, ret : {"pit", "pit_gsi", "check", "idle"},
                  back : {"uacpi", "idle"}]
    BY <2>1 DEF MainType
  <2>8. QED
    BY <2>3, <2>4, <2>5, <2>6, <2>7, Zenon DEF TypeOK
<1>6. SlotInv
  <2>1. main.at = "pit" /\ installed = {}
    BY DEF Init
  <2>2. \A s \in DOMAIN slots : ~slots[s].in_use
    BY DEF Init, EmptySlot
  <2>3. \A i \in UacpiIrqs : handlers[Vec(i)] = "none"
    BY LineVectors DEF Init
  <2>4. ~Busy
    BY <2>1 DEF Busy
  <2>5. QED
    BY <2>1, <2>2, <2>3, <2>4
       DEF SlotInv, OneSlotPerVector, SlotOfMain, SlotsOfLines, TrampolineComplete
<1>7. Stages
  BY DEF Init, Stages
<1>8. FirmwareQuiet => QuietBefore /\ EoiToDeliverer
  <2>1. lapic.timer = "firmware" /\ last.eoi = last.via
    BY DEF Init, NoInterrupt
  <2>2. \A k \in DOMAIN rte : \A g \in DOMAIN rte[k] : rte[k][g] = e
    BY <1>1
  <2>3. QED
    BY <1>2, <2>1, <2>2, BoardAssumption DEF FirmwareQuiet, QuietBefore, EoiToDeliverer
<1>9. QED
  BY <1>5, <1>6, <1>7, <1>8 DEF IInv

LEMMA NextIInv == IInv /\ [Next]_vars => IInv'
<1> SUFFICES ASSUME IInv, [Next]_vars PROVE IInv'
  OBVIOUS
<1>1. TypeOK' /\ SlotInv' /\ Stages'
  BY NextTypes, NextSlots, NextStages
<1>2. ASSUME FirmwareQuiet PROVE QuietBefore' /\ EoiToDeliverer'
  <2>1. TypeOK /\ QuietBefore /\ EoiToDeliverer
    BY <1>2 DEF IInv
  <2>2. QuietBefore'
    BY <2>1, NextQuiet
  <2>3. CASE interrupt
    BY <2>1, <2>2, <2>3, InterruptAcknowledged
  <2>4. CASE ~interrupt
    BY <2>1, <2>2, <2>4, OnlyInterrupts DEF EoiToDeliverer
  <2>5. QED
    BY <2>3, <2>4
<1>3. FirmwareQuiet' <=> FirmwareQuiet
  BY DEF FirmwareQuiet
<1>4. QED
  BY <1>1, <1>2, <1>3 DEF IInv

\* The inductive invariant of kernel_main's set-up of the interrupts, with the
\* interrupts taken between any two of its steps.
THEOREM IrqInvariant == Spec => []IInv
<1>1. QED
  BY InitIInv, NextIInv, PTL DEF Spec

\* The types, of which pit.gsi \in {0, 1} says that PIT::pit_gsi never holds the
\* PIT's input but what find_gsi_and_write_rte answered.
THEOREM IrqTypes == Spec => []TypeOK
<1>1. IInv => TypeOK
  BY DEF IInv
<1>2. QED
  BY <1>1, IrqInvariant, PTL

\* uacpi_trampoline never finds its slot half filled or half emptied: whenever it is
\* registered for the vector of a line, the slot it looks up holds that line's handler
\* and context.
THEOREM TrampolineFindsOwn == Spec => []TrampolineComplete
<1>1. IInv => TrampolineComplete
  BY DEF IInv, SlotInv
<1>2. QED
  BY <1>1, IrqInvariant, PTL

\* get_uacpi_entry compares vectors only, and that is enough: no two slots in use have
\* the same one.
THEOREM SlotsUnambiguous == Spec => []OneSlotPerVector
<1>1. IInv => OneSlotPerVector
  BY DEF IInv, SlotInv
<1>2. QED
  BY <1>1, IrqInvariant, PTL

\* An interrupt is acknowledged to the controller that delivered it (hw_irq_handler
\* chooses by pic_disabled alone), provided the firmware left the redirection entries
\* masked or the boot processor's local APIC is not number 0, the destination of a
\* reset entry.
THEOREM AcknowledgedWhereDelivered ==
    ASSUME FirmwareQuiet
    PROVE  Spec => []EoiToDeliverer
<1>1. IInv => EoiToDeliverer
  BY FirmwareQuiet DEF IInv
<1>2. QED
  BY <1>1, IrqInvariant, PTL

\* What uACPI may make of the OK of uacpi_kernel_install_interrupt_handler, on every
\* board: the line's own handler is in place; a line whose entry write_rte can write is
\* delivered, unless another device of the machine shares its input; and no other line
\* is, though uACPI was told OK for it as well.
THEOREM InstalledLinesServed == Spec => []InstalledServed
<1>1. Init => RInv
  <2> SUFFICES ASSUME Init PROVE RInv
    OBVIOUS
  <2>1. main.at = "pit" /\ installed = {} /\ hpet.gsi = NONE
    BY DEF Init
  <2>2. NoStray
    <3>1. PICK e \in FirmwareEntry :
            rte = [k \in DOMAIN Ioapics |-> [g \in 0 .. Ioapics[k].max_entries - 1 |-> e]]
      BY DEF Init
    <3>2. e.vector = PIT_VECTOR
      BY <3>1 DEF FirmwareEntry
    <3>3. \A k \in DOMAIN rte : \A g \in DOMAIN rte[k] : rte[k][g].vector = PIT_VECTOR
      BY <3>1, <3>2
    <3>4. QED
      BY <3>3, LineNotTimer DEF NoStray
  <2>3. QED
    BY <2>1, <2>2 DEF RInv, RMain, WritesEntry
<1>2. IInv /\ RInv /\ [Next]_vars => RInv'
  BY RInvStep
<1>3. IInv /\ RInv => InstalledServed
  BY ServedLine DEF InstalledServed
<1>4. QED
  BY <1>1, <1>2, <1>3, IrqInvariant, PTL DEF Spec
=============================================================================
