------------------------------ MODULE SmpBoot ------------------------------
(***************************************************************************)
(* Starting the application processors: cpu::smp_start_aps and ap_entry    *)
(* (smp.cpp) and the trampoline (ap_trampoline.asm), around what each      *)
(* processor sets up for itself (module CpuSetup).  There is one           *)
(* trampoline page with one set of patched fields, and nothing but the     *)
(* handshake on ap_online_count keeps the processors from reading each     *)
(* other's, and from being in the unlocked allocators (modules Buddy and   *)
(* Slub) together.                                                         *)
(*                                                                         *)
(* The boot processor's (BSP's) delays between the IPIs are not modelled:  *)
(* a processor may be slow and need not have run when the next IPI comes.  *)
(* The BSP has its interrupts on (kernel_main.cpp:150); the only handler   *)
(* that allocates is that of the power button, through uACPI.              *)
(*                                                                         *)
(* The initial predicate, the next-state relation and the specification    *)
(* carry the prefix Smp.                                                   *)
(***************************************************************************)
EXTENDS CpuSetup

APs == Cores \ {0}

\* What the trampoline page is patched with: 0 before the first patch, else the
\* AP whose CPU object the field is from.
Fields == {"cr3", "rsp", "entry", "cpu_ptr"}

VARIABLES bsp,      \* [pc, ap]: where the BSP is in smp_start_aps, and at which AP
          field,    \* field[f]: the AP a field of the trampoline is patched for
          wake,     \* wake[c]: how far AP c is on its way to ap_entry
          rsp, cpu, \* rsp[c], cpu[c]: whose stack and CPU object AP c has loaded
          online,   \* ap_online_count
          sci       \* is the BSP in the handler of the power button?

setupVars == vars
smpVars   == <<setupVars, bsp, field, wake, rsp, cpu, online, sci>>

-----------------------------------------------------------------------------
(* The BSP                                                                 *)

\* The BSP is at this place of smp_start_aps, and not in an interrupt handler.
BspAt(place) == In(0, "start") /\ bsp.pc = place /\ ~sci
BspGoes(place) == bsp' = [bsp EXCEPT !.pc = place]

\* kernel_main up to smp_start_aps.
set_up ==
    /\ kernel_main
    /\ UNCHANGED <<bsp, field, wake, rsp, cpu, online, sci>>

\* The head of the loop: the next AP of ap_cpus, or kernel_main's halt.
next_ap ==
    /\ BspAt("next")
    /\ IF bsp.ap < Len(ap_cpus)
       THEN bsp' = [pc |-> "cr3", ap |-> bsp.ap + 1] /\ UNCHANGED at
       ELSE Goes(0, "halt") /\ UNCHANGED bsp
    /\ UNCHANGED <<boot, gs, tables, idt, short, fate, field, wake, rsp, cpu, online, sci>>

\* The four writes into the trampoline page, in the order of the code.
AfterPatch(f) ==
    CASE f = "cr3" -> "rsp" [] f = "rsp" -> "entry" [] f = "entry" -> "cpu_ptr"
      [] f = "cpu_ptr" -> "init"

patch_trampoline ==
    \E f \in Fields :
        /\ BspAt(f)
        /\ field' = [field EXCEPT ![f] = bsp.ap]
        /\ BspGoes(AfterPatch(f))
        /\ UNCHANGED <<setupVars, wake, rsp, cpu, online, sci>>

\* INIT resets the target, whatever it does: it is asleep again.
send_init ==
    /\ BspAt("init")
    /\ wake' = [wake EXCEPT ![bsp.ap] = "wait_sipi"]
    /\ Goes(bsp.ap, "asleep")
    /\ BspGoes("sipi1")
    /\ UNCHANGED <<boot, gs, tables, idt, short, fate, field, rsp, cpu, online, sci>>

\* A SIPI starts a processor that waits for one; a running one ignores it, and one the
\* firmware did not enable does not answer.
send_sipi ==
    /\ BspAt("sipi1") \/ BspAt("sipi2")
    /\ wake' = IF wake[bsp.ap] = "wait_sipi" /\ Answers(bsp.ap)
               THEN [wake EXCEPT ![bsp.ap] = "trampoline"] ELSE wake
    /\ BspGoes(IF bsp.pc = "sipi1" THEN "sipi2" ELSE "wait")
    /\ UNCHANGED <<setupVars, field, rsp, cpu, online, sci>>

\* ap_online_count.load() >= expected_aps; nothing bounds the wait.  The mutated form
\* compares before expected_aps is incremented.
all_confirmed_before(ap) == online >= ap - 1
all_confirmed(ap) == online >= ap

wait_for_ap ==
    /\ BspAt("wait") /\ all_confirmed(bsp.ap)
    /\ BspGoes("next")
    /\ UNCHANGED <<setupVars, field, wake, rsp, cpu, online, sci>>

bsp_step == set_up \/ next_ap \/ patch_trampoline \/ send_init \/ send_sipi \/ wait_for_ap

\* The power button, while the BSP is in smp_start_aps: the handler allocates, and it
\* returns when the machine could not be switched off.
power_button ==
    /\ In(0, "start") /\ ~sci
    /\ sci' = TRUE
    /\ UNCHANGED <<setupVars, bsp, field, wake, rsp, cpu, online>>

power_button_return ==
    /\ In(0, "start") /\ sci
    /\ sci' = FALSE
    /\ UNCHANGED <<setupVars, bsp, field, wake, rsp, cpu, online>>

-----------------------------------------------------------------------------
(* An AP                                                                   *)

ApAt(c, place) == In(c, "asleep") /\ wake[c] = place
ApGoes(c, place) == wake' = [wake EXCEPT ![c] = place]

\* The trampoline, from real mode to long mode: it loads the page tables ...
load_cr3(c) ==
    /\ ApAt(c, "trampoline") /\ ApGoes(c, "load_rsp")
    /\ UNCHANGED <<setupVars, bsp, field, rsp, cpu, online, sci>>

\* ... the stack ...
load_rsp(c) ==
    /\ ApAt(c, "load_rsp") /\ ApGoes(c, "load_cpu")
    /\ rsp' = [rsp EXCEPT ![c] = field["rsp"]]
    /\ UNCHANGED <<setupVars, bsp, field, cpu, online, sci>>

\* ... and the pointer to the CPU object, and calls ap_entry.
load_cpu_ptr(c) ==
    /\ ApAt(c, "load_cpu") /\ ApGoes(c, "entered")
    /\ cpu' = [cpu EXCEPT ![c] = field["cpu_ptr"]]
    /\ call_ap_entry(c, ap_cpus[rsp[c]].kernel_stack)
    /\ UNCHANGED <<bsp, field, rsp, online, sci>>

\* ap_entry up to the count: what the core sets up for itself, in its CPU object.
ap_set_up(c) ==
    /\ \/ init_cpu(c, cpu[c]) \/ gdt_initialize(c) \/ initialize_slub_ap(c)
       \/ tss_initialize(c) \/ idt_load(c)
    /\ UNCHANGED <<bsp, field, wake, rsp, cpu, online, sci>>

\* ap_online_count++, atomic.  The mutated form forgets it.
count_up_none == online
count_up == online + 1

ap_online(c) ==
    /\ ap_confirm(c)
    /\ online' = count_up
    /\ UNCHANGED <<bsp, field, wake, rsp, cpu, sci>>

ap_step(c) == load_cr3(c) \/ load_rsp(c) \/ load_cpu_ptr(c) \/ ap_set_up(c) \/ ap_online(c)

\* An exception on any core that runs; one that waits for its SIPI has none.
InTrampoline == {"trampoline", "load_rsp", "load_cpu"}

exception(c, v) ==
    /\ c # 0 => wake[c] \in InTrampoline \cup {"entered"}
    /\ raise(c, v)
    /\ UNCHANGED <<bsp, field, wake, rsp, cpu, online, sci>>

-----------------------------------------------------------------------------
SmpInit ==
    /\ Init
    /\ bsp = [pc |-> "next", ap |-> 0]
    /\ field = [f \in Fields |-> 0]
    /\ wake = [c \in APs |-> "off"]
    /\ rsp = [c \in APs |-> 0] /\ cpu = [c \in APs |-> 0]
    /\ online = 0 /\ sci = FALSE

SmpNext ==
    \/ bsp_step
    \/ power_button \/ power_button_return
    \/ \E c \in APs : ap_step(c)
    \/ \E c \in Cores, v \in Vectors : exception(c, v)

SmpSpec == SmpInit /\ [][SmpNext]_smpVars

\* A core executes its next instruction: nothing suspends it before its halt loop, and
\* the handler of the power button comes to an end; however often it is pressed, the BSP
\* gets to its loop in between.  Nothing makes an exception come, or the button be pressed.
SmpFairSpec ==
    /\ SmpSpec
    /\ SF_smpVars(bsp_step) /\ WF_smpVars(power_button_return)
    /\ \A c \in APs : WF_smpVars(ap_step(c))

-----------------------------------------------------------------------------
(* Properties                                                              *)

BspPlaces == {"next", "init", "sipi1", "sipi2", "wait"} \cup Fields
ApPlaces  == {"off", "wait_sipi", "entered"} \cup InTrampoline

\* Types of the processors' places and of what they have loaded; ap_online_count never
\* exceeds the number of processors started.
SmpTypeOK ==
    /\ bsp \in [pc : BspPlaces, ap : 0..Len(ap_cpus)]
    /\ field \in [Fields -> Cores]
    /\ wake \in [APs -> ApPlaces]
    /\ rsp \in [APs -> Cores] /\ cpu \in [APs -> Cores]
    /\ online \in 0..bsp.ap
    /\ sci \in BOOLEAN

(* The allocators have no lock that would protect the PMM (pmm.cpp:277).  A  *)
(* core may be in them where it calls kmalloc or PMM::alloc_pages: at its    *)
(* segments, caches, TSS stacks and lists, and the BSP when it serves the    *)
(* power button.  Never are two cores in them together, except that the BSP, *)
(* with its interrupts on while it waits, serves the button while an AP      *)
(* allocates: that race the code does not exclude.                           *)
Allocates(c) ==
    \/ c # 0 /\ (In(c, "gdt") \/ In(c, "slub") \/ In(c, "tss"))
    \/ c = 0 /\ (In(0, "tss") \/ In(0, "madt") \/ In(0, "trampoline") \/ In(0, "alloc"))
    \/ c = 0 /\ In(0, "start") /\ sci
AllocatorExclusive ==
    \A c, d \in Cores :
        Allocates(c) /\ Allocates(d) /\ c # d => 0 \in {c, d} /\ sci

(* An AP that runs ap_entry has the stack and the CPU object that were       *)
(* allocated for it, though all of them read the same fields.                *)
OwnContext ==
    \A c \in APs : wake[c] = "entered" => rsp[c] = c /\ cpu[c] = c

(* The BSP never patches a field between an AP's start and its last read of  *)
(* the trampoline, nor resets an AP that runs kernel code: neither the       *)
(* stores nor the IPIs carry such a check.                                   *)
TrampolineStable ==
    [][\A c \in APs :
          /\ wake[c] \in InTrampoline => UNCHANGED field
          /\ wake[c] = "entered" => wake'[c] = "entered"]_smpVars

(* The handshake gives every AP what CpuSetup assumes: its own CPU object    *)
(* and stack, and a start only when its predecessor is online.               *)
ImplementsCpuSetup == Spec

(* kernel_main comes to its halt with every processor it has an object for   *)
(* online, whatever memory was refused, unless a core has panicked or reset  *)
(* the machine, or the firmware lists a processor that is only capable of    *)
(* coming online: that one is started, never answers, and smp_start_aps      *)
(* waits for it without a timeout (madt.cpp 45, smp.cpp 164-168).            *)
Silent(c) == MadtFlags(ap_cpus[c].lapic_id) = {"online_capable"}
BootEnds ==
    <>(\/ \E c \in Cores : fate[c] # "runs"
       \/ at[0] = "halt" /\ \A c \in DOMAIN ap_cpus : at[c] = "online"
       \/ \E d \in DOMAIN ap_cpus : Silent(d) /\ \A c \in 1..(d - 1) : at[c] = "online")
=============================================================================
