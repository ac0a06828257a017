------------------------------ MODULE CpuSetup ------------------------------
(***************************************************************************)
(* What a processor needs to survive an exception: its CPU object, found   *)
(* through GS (cpu.cpp), its GDT and TSS (gdt.cpp, tss.cpp) with the stack *)
(* of each critical exception, and the one IDT all processors share        *)
(* (idt.cpp).  The boot processor, core 0, builds them between the steps   *)
(* of kernel_main; the application processors (APs) are those of the MADT  *)
(* (madt.cpp) and build theirs, and their caches of kmalloc (slub.cpp), in *)
(* ap_entry (smp.cpp).  Here each waits for its predecessor to be online;  *)
(* module SmpBoot shows that the handshake makes it so.  A non-maskable    *)
(* interrupt, a machine check or a fault may come at any moment, on any    *)
(* core.                                                                   *)
(***************************************************************************)
EXTENDS Naturals, Sequences, FiniteSets

CONSTANTS Madt,     \* the local APIC entries of the MADT, in order: [id, flags]
          BspApic,  \* the local APIC id of the boot processor
          Refused   \* the requests for memory that may be refused

\* The local APIC ids differ; they have eight bits, as ap_id_counter has.
ASSUME MadtAssumption ==
    /\ Madt \in Seq([id : 0..255, flags : SUBSET {"enabled", "online_capable"}])
    /\ \A i, j \in DOMAIN Madt : Madt[i].id = Madt[j].id => i = j

Cores   == 0..Len(Madt)
Vectors == {2, 8, 14, 18}   \* NMI, double fault, page fault, machine check
Ordered == <<2, 8, 14, 18>> \* the order in which IDT::initialize sets their gates
None    == Len(Madt) + 1    \* no CPU object

VARIABLES at,        \* at[c]: the call core c is in
          parsed,    \* entries the loop of parse_madt or alloc_ap_cpus is through with
          cpu_infos, \* the APIC ids parse_madt recorded
          ap_cpus,   \* the CPU objects of the APs: [cpu_id, lapic_id, kernel_stack]
          ap_id_counter, \* the cpu_id of the next one
          caches,    \* ap_kmalloc_caches: the cpu_id of the core that appended each
          dropped,   \* ghost: has ap_cpus or ap_kmalloc_caches been refused a node?
          gs,        \* gs[c]: the CPU object core c reaches through GS
          tss_desc,  \* tss_desc[c]: the CPU object whose TSS its GDT names
          tss,       \* tss[c]: what the TSS in CPU object c holds
          tr,        \* tr[c]: the CPU object whose TSS core c has loaded
          gate,      \* gate[v]: the IST number in the IDT's entry of vector v
          gates_set, \* gates IDT::initialize is through with
          idtr,      \* idtr[c]: has core c loaded the IDT?
          short,     \* ghost: the cores whose setup was refused memory
          fate       \* fate[c]: "runs", "panic" or "reset"

boot   == <<parsed, cpu_infos, ap_cpus, ap_id_counter, caches, dropped>>
tables == <<tss_desc, tss, tr>>
idt    == <<gate, gates_set, idtr>>
vars   == <<at, boot, gs, tables, idt, short, fate>>

-----------------------------------------------------------------------------
(* Each request for memory is granted a place of its own (modules Buddy and *)
(* Slub), so a stack is named after who asked for it.                       *)
Granted(what) == IF what \in Refused THEN BOOLEAN ELSE {TRUE}
KernelStack(c) == <<"kernel", c, 0>>
LowStack == <<"kernel", None, 0>>   \* nullptr + 16384
Ist(c, k) == <<"ist", c, k>>
StackOf(c) == IF c = 0 THEN KernelStack(0) ELSE ap_cpus[c].kernel_stack

\* kernel_panic halts the core that called it and no other.
kernel_panic(c) == [fate EXCEPT ![c] = "panic"]

\* The machine is up, core c is not in kernel_panic and is in this call.
Up == \A c \in Cores : fate[c] # "reset"
In(c, call) == Up /\ fate[c] = "runs" /\ at[c] = call
Goes(c, call) == at' = [at EXCEPT ![c] = call]

-----------------------------------------------------------------------------
(* object->init_cpu, on core c: GS and the control registers.                *)
init_cpu(c, object) ==
    /\ In(c, "init_cpu")
    /\ gs' = [gs EXCEPT ![c] = object]
    /\ Goes(c, "gdt")
    /\ UNCHANGED <<boot, tables, idt, short, fate>>

\* The TSS a core's GDT describes is that of CPU::get().  The mutated form names
\* that of the boot processor.
described_tss_bsp(c) == 0
described_tss(c) == gs[c]

\* GDT::initialize.  An AP's segments come from kmalloc; a null pointer is filled in
\* all the same, and page 0 is not mapped.
gdt_initialize(c) ==
    /\ In(c, "gdt")
    /\ \E ok \in IF c = 0 THEN {TRUE} ELSE Granted("segs") :
          /\ tss_desc' = IF ok THEN [tss_desc EXCEPT ![c] = described_tss(c)] ELSE tss_desc
          /\ short' = IF ok THEN short ELSE short \cup {c}
          /\ fate' = IF ok THEN fate ELSE [fate EXCEPT ![c] = "reset"]
    /\ Goes(c, IF c = 0 THEN "early_idt" ELSE "slub")
    /\ UNCHANGED <<boot, gs, tss, tr, idt>>

\* IDT::early_initialize: no gate has a stack of its own.  The mutated form writes
\* the final gates at once.
ist_of(v) == CASE v = 8 -> 1 [] v = 2 -> 2 [] v = 18 -> 3 [] OTHER -> 0
early_ist_final(v) == ist_of(v)
early_ist(v) == 0

early_initialize ==
    /\ In(0, "early_idt")
    /\ gate' = [v \in Vectors |-> early_ist(v)]
    /\ idtr' = [idtr EXCEPT ![0] = TRUE]
    /\ Goes(0, "tss")
    /\ UNCHANGED <<boot, gs, tables, gates_set, short, fate>>

\* TSS::initialize: three stacks, each allocated if those before were; only with
\* all three is the TSS filled in and loaded.
tss_initialize(c) ==
    /\ In(c, "tss")
    /\ \E got \in [1..3 -> Granted("ist")] :
         LET ok == \A k \in 1..3 : got[k] IN
         /\ tss' = IF ok THEN [tss EXCEPT ![c] = {StackOf(gs[c])} \cup {Ist(c, k) : k \in 1..3}]
                   ELSE tss
         /\ tr' = IF ok THEN [tr EXCEPT ![c] = tss_desc[c]] ELSE tr
         /\ short' = IF ok THEN short ELSE short \cup {c}
    /\ Goes(c, IF c = 0 THEN "idt" ELSE "load")
    /\ UNCHANGED <<boot, gs, tss_desc, idt, fate>>

\* IDT::initialize rewrites the gates one by one, in the table already in use.
idt_gate ==
    /\ In(0, "idt")
    /\ LET v == Ordered[gates_set + 1] IN gate' = [gate EXCEPT ![v] = ist_of(v)]
    /\ gates_set' = gates_set + 1
    /\ Goes(0, IF gates_set + 1 = Len(Ordered) THEN "madt" ELSE "idt")
    /\ UNCHANGED <<boot, gs, tables, idtr, short, fate>>

-----------------------------------------------------------------------------
(* The application processors.  A util::List that is refused its node leaves *)
(* the value out, and nobody looks at what push_back returns.                *)
push_back(list, val, what) ==
    {IF node THEN Append(list, val) ELSE list : node \in Granted(what)}

\* MADT::parse_madt records a processor that is enabled or may be brought online.
\* The mutated form does not look at the flags.
listed_always(flags) == TRUE
listed(flags) == flags # {}

parse_madt ==
    /\ In(0, "madt")
    /\ IF parsed = Len(Madt)
       THEN Goes(0, "trampoline") /\ parsed' = 0 /\ UNCHANGED cpu_infos
       ELSE /\ parsed' = parsed + 1
            /\ IF listed(Madt[parsed + 1].flags)
               THEN cpu_infos' \in push_back(cpu_infos, Madt[parsed + 1].id, "info_node")
               ELSE UNCHANGED cpu_infos
            /\ UNCHANGED at
    /\ UNCHANGED <<ap_cpus, ap_id_counter, caches, dropped, gs, tables, idt, short, fate>>

\* cpu::ap_trampoline_setup: without its page, or refused its mapping, no AP is started.
ap_trampoline_setup ==
    /\ In(0, "trampoline")
    /\ \E ok \in Granted("trampoline") : Goes(0, IF ok THEN "alloc" ELSE "halt")
    /\ UNCHANGED <<boot, gs, tables, idt, short, fate>>

\* cpu::alloc_ap_cpus, one recorded processor at a time, and CPU::prepare_ap, which
\* adds 16384 to whatever kmalloc returns.  A core is named after its place in ap_cpus,
\* and its stack after the core.  ap_id_counter++ hands out the cpu_id before push_back
\* is refused its node or not; the mutated form increments it first.
is_bsp(id) == id = BspApic
next_id_pre(counter) == counter + 1
next_id(counter) == counter

prepare_ap(id, ok) ==
    [cpu_id |-> next_id(ap_id_counter), lapic_id |-> id,
     kernel_stack |-> IF ok THEN KernelStack(Len(ap_cpus) + 1) ELSE LowStack]

alloc_ap_cpu ==
    /\ In(0, "alloc")
    /\ IF parsed = Len(cpu_infos)
       THEN Goes(0, "start") /\ UNCHANGED <<parsed, ap_cpus, ap_id_counter, dropped, fate>>
       ELSE LET id == cpu_infos[parsed + 1] IN
            /\ parsed' = parsed + 1
            /\ \/ is_bsp(id) /\ UNCHANGED <<ap_cpus, ap_id_counter, dropped, fate>>
               \/ /\ ~ is_bsp(id) /\ FALSE \in Granted("cpu")
                  /\ fate' = kernel_panic(0)
                  /\ UNCHANGED <<ap_cpus, ap_id_counter, dropped>>
               \/ /\ ~ is_bsp(id)
                  /\ \E stack \in Granted("kernel_stack") :
                        ap_cpus' \in push_back(ap_cpus, prepare_ap(id, stack), "cpu_node")
                  /\ ap_id_counter' = ap_id_counter + 1
                  /\ dropped' = (dropped \/ ap_cpus' = ap_cpus)
                  /\ UNCHANGED fate
            /\ UNCHANGED at
    /\ UNCHANGED <<cpu_infos, caches, gs, tables, idt, short>>

\* cpu::smp_start_aps: the next processor enters ap_entry once its predecessor is
\* online, if the firmware enabled it; the boot processor may have stopped since it
\* sent the SIPI.  The page below the low stack is not mapped, so that the call of
\* ap_entry faults there.
MadtFlags(id) == UNION {Madt[i].flags : i \in {j \in DOMAIN Madt : Madt[j].id = id}}
Answers(c) == "enabled" \in MadtFlags(ap_cpus[c].lapic_id)

call_ap_entry(c, stack) ==
    /\ In(c, "asleep")
    /\ IF stack = LowStack
       THEN short' = short \cup {c} /\ fate' = [fate EXCEPT ![c] = "reset"]
       ELSE UNCHANGED <<short, fate>>
    /\ Goes(c, "init_cpu")
    /\ UNCHANGED <<boot, gs, tables, idt>>

start_ap(c) ==
    /\ at[0] = "start" /\ c \in DOMAIN ap_cpus /\ Answers(c)
    /\ \A d \in 1..(c - 1) : at[d] = "online"
    /\ call_ap_entry(c, ap_cpus[c].kernel_stack)

\* mem::initialize_slub_ap: the array of the core's caches and their pool, and the list
\* get_kmalloc_cache looks them up in; nothing reads the list of the pools.
initialize_slub_ap(c) ==
    /\ In(c, "slub")
    /\ \/ /\ caches' \in push_back(caches, ap_cpus[gs[c]].cpu_id, "caches_node")
          /\ dropped' = (dropped \/ caches' = caches)
          /\ Goes(c, "tss")
          /\ UNCHANGED fate
       \/ /\ FALSE \in Granted("caches")
          /\ fate' = kernel_panic(c)
          /\ UNCHANGED <<caches, dropped, at>>
    /\ UNCHANGED <<parsed, cpu_infos, ap_cpus, ap_id_counter, gs, tables, idt, short>>

\* IDT::load, then FPU_X87::initialize and the count the boot processor waits for.
idt_load(c) ==
    /\ In(c, "load")
    /\ idtr' = [idtr EXCEPT ![c] = TRUE]
    /\ Goes(c, "fpu")
    /\ UNCHANGED <<boot, gs, tables, gate, gates_set, short, fate>>

ap_confirm(c) ==
    /\ In(c, "fpu")
    /\ Goes(c, "online")
    /\ UNCHANGED <<boot, gs, tables, idt, short, fate>>

-----------------------------------------------------------------------------
(* smp_start_aps returns when all are online, and kernel_main halts.         *)
all_booted ==
    /\ In(0, "start")
    /\ \A c \in DOMAIN ap_cpus : at[c] = "online"
    /\ Goes(0, "halt")
    /\ UNCHANGED <<boot, gs, tables, idt, short, fate>>

(* An exception of vector v on core c.  Without an IDT, or through a gate    *)
(* whose stack the task register does not name, the fault cannot be          *)
(* delivered and the machine resets; otherwise cpu_irq_handler panics, which *)
(* halts this core alone.  An AP that has been started may be in the         *)
(* trampoline.                                                               *)
Delivered(c, v) == idtr[c] /\ (gate[v] = 0 \/ tr[c] # None)

raise(c, v) ==
    /\ Up /\ fate[c] = "runs"
    /\ at[c] = "asleep" => at[0] = "start" /\ c \in DOMAIN ap_cpus
    /\ fate' = IF Delivered(c, v) THEN kernel_panic(c) ELSE [fate EXCEPT ![c] = "reset"]
    /\ UNCHANGED <<at, boot, gs, tables, idt, short>>

Init ==
    /\ at = [c \in Cores |-> IF c = 0 THEN "init_cpu" ELSE "asleep"]
    /\ parsed = 0 /\ cpu_infos = <<>> /\ ap_cpus = <<>> /\ ap_id_counter = 1
    /\ caches = <<>> /\ dropped = FALSE
    /\ gs = [c \in Cores |-> None] /\ tss_desc = gs /\ tr = gs
    /\ tss = [c \in Cores |-> {}]
    /\ gate = [v \in Vectors |-> 0] /\ gates_set = 0
    /\ idtr = [c \in Cores |-> FALSE]
    /\ short = {} /\ fate = [c \in Cores |-> "runs"]

kernel_main == init_cpu(0, 0) \/ gdt_initialize(0) \/ early_initialize \/ tss_initialize(0)
                 \/ idt_gate \/ parse_madt \/ ap_trampoline_setup \/ alloc_ap_cpu
ap_entry(c) == init_cpu(c, c) \/ gdt_initialize(c) \/ initialize_slub_ap(c)
                 \/ tss_initialize(c) \/ idt_load(c) \/ ap_confirm(c)

Next ==
    \/ kernel_main
    \/ \E c \in Cores \ {0} : start_ap(c) \/ ap_entry(c)
    \/ all_booted
    \/ \E c \in Cores, v \in Vectors : raise(c, v)

Spec == Init /\ [][Next]_vars

-----------------------------------------------------------------------------
(* The CPU objects in ap_cpus are those of recorded processors other than    *)
(* the one running kernel_main, and every core's place is one it can be in.  *)
TypeOK ==
    /\ at \in [Cores -> {"asleep", "init_cpu", "gdt", "early_idt", "slub", "tss", "idt", "madt",
                         "trampoline", "alloc", "start", "halt", "load", "fpu", "online"}]
    /\ parsed \in 0..Len(Madt) /\ gates_set \in 0..Len(Ordered)
    /\ \A i \in DOMAIN ap_cpus :
          /\ ap_cpus[i].lapic_id \in {cpu_infos[j] : j \in DOMAIN cpu_infos} \ {BspApic}
          /\ ap_cpus[i].kernel_stack \in {KernelStack(i), LowStack}
          /\ ap_cpus[i].cpu_id \in i..(ap_id_counter - 1)
    /\ ap_id_counter \in Nat /\ caches \in Seq(Nat) /\ dropped \in BOOLEAN
    /\ {gs, tss_desc, tr} \subseteq [Cores -> Cores \cup {None}]
    /\ gate \in [Vectors -> 0..3] /\ idtr \in [Cores -> BOOLEAN]
    /\ short \subseteq Cores /\ fate \in [Cores -> {"runs", "panic", "reset"}]

(* Once a core has loaded the IDT, no exception on it resets the machine: at *)
(* every moment between the early gates and the final ones, and on every AP, *)
(* a gate names a stack only where a TSS with that stack is loaded           *)
(* (kernel_main, ap_entry: TSS before the gates).  The exception is a core   *)
(* that was refused memory for its stacks and went on all the same           *)
(* (tss.cpp:24-42, cpu.cpp:23).                                              *)
SurvivesOnceLoaded ==
    \A c \in Cores : fate[c] = "reset" => ~ idtr[c] \/ c \in short

(* Two cores that have loaded a TSS share none of its stacks, and the stack  *)
(* for entries into the kernel is the one allocated for the core itself.     *)
(* It spans prepare_ap on the boot processor, GS in init_cpu, the descriptor *)
(* in the GDT and ltr, each of which goes through CPU::get().                *)
StacksPrivate ==
    \A c \in Cores : tr[c] # None =>
        /\ KernelStack(c) \in tss[tr[c]]
        /\ \A d \in Cores \ {c} : tr[d] # None => tss[tr[c]] \cap tss[tr[d]] = {}

(* get_kmalloc_cache looks for the caches of core cpu_id at index cpu_id - 1  *)
(* of a list every AP appends to (slub.cpp 29-31).  They are there unless a  *)
(* list was refused a node before (smp.cpp:56, slub.cpp:218): then they      *)
(* stand too early, never too late, and a core finds those of a later one or *)
(* none.                                                                     *)
CacheIndexMatches ==
    \A i \in DOMAIN caches : caches[i] >= i /\ (caches[i] = i \/ dropped)
=============================================================================
