---------------------------- MODULE StartupProofs ----------------------------
(***************************************************************************)
(* What holds of the start of the cores, for every MADT and whatever       *)
(* memory is refused, in three parts.                                      *)
(*                                                                         *)
(* What a core sets up for itself (module CpuSetup): a core that has       *)
(* loaded the IDT survives an exception unless it was refused memory for   *)
(* its stacks, and no two cores share a stack.                             *)
(*                                                                         *)
(* The order of module CpuSetup: the APs set themselves up one after the   *)
(* other, so that one core is in the allocators at a time and the list of  *)
(* the caches is in the order of the cores.                                *)
(*                                                                         *)
(* The handshake of module SmpBoot brings about that order: while the boot *)
(* processor is in the loop of smp_start_aps, the APs before the current   *)
(* one are online and those after it have not run.  So SmpBoot implements  *)
(* CpuSetup, and one core reads the trampoline at a time.                  *)
(***************************************************************************)
EXTENDS SmpBoot, TLAPS

-----------------------------------------------------------------------------
(* CPU objects, descriptor tables and exceptions: module CpuSetup          *)

OfBsp == {"init_cpu", "gdt", "early_idt", "tss", "idt", "madt", "trampoline", "alloc", "start",
          "halt"}
OfAp  == {"asleep", "init_cpu", "gdt", "slub", "tss", "load", "fpu", "online"}

\* The places before a core has its segments, and before it has its TSS.
BeforeGdt == {"asleep", "init_cpu", "gdt"}
BeforeTss == BeforeGdt \cup {"early_idt", "slub", "tss"}

Stacks == {KernelStack(i) : i \in Nat} \cup {LowStack}
Cpus   == [cpu_id : Nat, lapic_id : Nat, kernel_stack : Stacks]

\* The types the other parts need: of what a core has, and of the lists.
CoreTypes ==
    /\ at \in [Cores -> OfBsp \cup OfAp]
    /\ at[0] \in OfBsp /\ \A c \in Cores \ {0} : at[c] \in OfAp
    /\ gs \in [Cores -> Cores \cup {None}]
    /\ tss_desc \in [Cores -> Cores \cup {None}]
    /\ tr \in [Cores -> Cores \cup {None}]
    /\ tss = [c \in Cores |-> tss[c]]
    /\ gate \in [Vectors -> 0..3]
    /\ idtr \in [Cores -> BOOLEAN]
    /\ fate \in [Cores -> {"runs", "panic", "reset"}]

BootTypes ==
    /\ cpu_infos \in Seq(Nat) /\ ap_cpus \in Seq(Cpus)
    /\ parsed \in Nat /\ ap_id_counter \in Nat
    /\ at[0] \in BeforeTss \cup {"idt", "trampoline"} => parsed = 0
    /\ at[0] = "madt" => parsed <= Len(Madt)
    /\ at[0] = "alloc" => parsed <= Len(cpu_infos)

Types == CoreTypes /\ BootTypes

\* A core reaches its own object, its GDT describes its own TSS, and it loads that.
OwnObject ==
    \A c \in Cores :
        /\ at[c] \notin {"asleep", "init_cpu"} => gs[c] = c
        /\ Up /\ at[c] \notin BeforeGdt => tss_desc[c] = c
        /\ tr[c] \in {c, None}
        /\ at[c] \notin BeforeTss => tr[c] = c \/ c \in short

\* The stack of an AP's object is its own or the one that faults.
OwnStack ==
    /\ \A i \in DOMAIN ap_cpus : ap_cpus[i].kernel_stack \in {KernelStack(i), LowStack}
    /\ \A c \in Cores \ {0} : Up /\ at[c] # "asleep" =>
          c \in DOMAIN ap_cpus /\ ap_cpus[c].kernel_stack = KernelStack(c)

\* What a loaded TSS holds.
OwnTss == \A c \in Cores : tr[c] = c => tss[c] = {KernelStack(c)} \cup {Ist(c, k) : k \in 1..3}

\* A gate names a stack, and an AP loads the IDT, only after the TSS.
GatesAfterTss ==
    /\ \A v \in Vectors : gate[v] # 0 => at[0] \notin BeforeTss
    /\ \A c \in Cores \ {0} : idtr[c] => at[c] \notin BeforeTss

IInv ==
    /\ Types
    /\ OwnObject
    /\ OwnStack
    /\ OwnTss
    /\ GatesAfterTss
    /\ SurvivesOnceLoaded

-----------------------------------------------------------------------------
LEMMA CoreNumbers ==
    /\ Len(Madt) \in Nat /\ Cores = 0..Len(Madt) /\ 0 \in Cores
    /\ None \notin Cores /\ None \in Nat
BY MadtAssumption DEF Cores, None

USE DEF In, Up, Goes, kernel_panic, boot, tables, idt

LEMMA GetsObject ==
    ASSUME IInv, NEW c \in Cores, init_cpu(c, c)
    PROVE  IInv'
<1>1. Types'
  BY CoreNumbers DEF init_cpu, IInv, Types, CoreTypes, BootTypes, OfBsp, OfAp, BeforeTss, BeforeGdt
<1>2. OwnObject'
  BY DEF init_cpu, IInv, Types, CoreTypes, BootTypes, OwnObject, BeforeTss, BeforeGdt
<1>3. OwnStack'
  BY DEF init_cpu, IInv, Types, CoreTypes, BootTypes, OwnStack
<1>4. OwnTss'
  BY DEF init_cpu, IInv, OwnTss
<1>5. GatesAfterTss'
  BY DEF init_cpu, IInv, Types, CoreTypes, BootTypes, GatesAfterTss, BeforeTss, BeforeGdt
<1>6. SurvivesOnceLoaded'
  BY DEF init_cpu, IInv, SurvivesOnceLoaded
<1>7. QED
  BY <1>1, <1>2, <1>3, <1>4, <1>5, <1>6 DEF IInv

LEMMA GetsSegments ==
    ASSUME IInv, NEW c \in Cores, gdt_initialize(c)
    PROVE  IInv'
<1>1. PICK ok \in BOOLEAN :
         /\ c = 0 => ok
         /\ tss_desc' = IF ok THEN [tss_desc EXCEPT ![c] = gs[c]] ELSE tss_desc
         /\ short' = IF ok THEN short ELSE short \cup {c}
         /\ fate' = IF ok THEN fate ELSE [fate EXCEPT ![c] = "reset"]
  BY DEF gdt_initialize, Granted, described_tss
<1>2. Types'
  BY <1>1, CoreNumbers DEF gdt_initialize, IInv, Types, CoreTypes, BootTypes, OfBsp, OfAp, BeforeTss, BeforeGdt
<1>3. OwnObject'
  BY <1>1 DEF gdt_initialize, IInv, Types, CoreTypes, BootTypes, OwnObject, BeforeTss, BeforeGdt
<1>4. OwnStack'
  BY <1>1 DEF gdt_initialize, IInv, Types, CoreTypes, BootTypes, OwnStack
<1>5. OwnTss'
  BY DEF gdt_initialize, IInv, OwnTss
<1>6. GatesAfterTss'
  BY DEF gdt_initialize, IInv, Types, CoreTypes, BootTypes, GatesAfterTss, BeforeTss, BeforeGdt
<1>7. SurvivesOnceLoaded'
  BY <1>1 DEF gdt_initialize, IInv, Types, CoreTypes, BootTypes, SurvivesOnceLoaded
<1>8. QED
  BY <1>2, <1>3, <1>4, <1>5, <1>6, <1>7 DEF IInv

LEMMA EarlyGates ==
    ASSUME IInv, early_initialize
    PROVE  IInv'
<1>1. Types'
  BY CoreNumbers DEF early_initialize, early_ist, IInv, Types, CoreTypes, BootTypes, OfBsp, OfAp, BeforeTss, BeforeGdt
<1>2. OwnObject'
  BY CoreNumbers DEF early_initialize, IInv, Types, CoreTypes, BootTypes, OwnObject, BeforeTss, BeforeGdt
<1>3. OwnStack'
  BY DEF early_initialize, IInv, Types, CoreTypes, BootTypes, OwnStack
<1>4. OwnTss'
  BY DEF early_initialize, IInv, OwnTss
<1>5. GatesAfterTss'
  BY DEF early_initialize, early_ist, IInv, Types, CoreTypes, BootTypes, GatesAfterTss
<1>6. SurvivesOnceLoaded'
  BY CoreNumbers DEF early_initialize, IInv, Types, CoreTypes, BootTypes, SurvivesOnceLoaded
<1>7. QED
  BY <1>1, <1>2, <1>3, <1>4, <1>5, <1>6 DEF IInv

LEMMA GetsTss ==
    ASSUME IInv, NEW c \in Cores, tss_initialize(c)
    PROVE  IInv'
<1>1. PICK ok \in BOOLEAN :
         /\ tss' = IF ok THEN [tss EXCEPT ![c] = {StackOf(gs[c])} \cup {Ist(c, k) : k \in 1..3}]
                   ELSE tss
         /\ tr' = IF ok THEN [tr EXCEPT ![c] = tss_desc[c]] ELSE tr
         /\ short' = IF ok THEN short ELSE short \cup {c}
  BY DEF tss_initialize
<1>2. /\ at[c] = "tss" /\ fate[c] = "runs" /\ Up
      /\ at' = [at EXCEPT ![c] = IF c = 0 THEN "idt" ELSE "load"]
      /\ UNCHANGED <<boot, gs, tss_desc, idt, fate>>
  BY DEF tss_initialize
<1>3. gs[c] = c /\ tss_desc[c] = c /\ StackOf(gs[c]) = KernelStack(c)
  BY <1>2 DEF IInv, OwnObject, OwnStack, StackOf, BeforeGdt
<1>4. Types'
  <2>1. CoreTypes'
    BY <1>1, <1>2, <1>3, CoreNumbers DEF IInv, Types, CoreTypes, OfBsp, OfAp
  <2>2. BootTypes'
    BY <1>2, CoreNumbers DEF IInv, Types, CoreTypes, BootTypes, BeforeTss, BeforeGdt
  <2>3. QED
    BY <2>1, <2>2 DEF Types
<1>5. OwnObject'
  BY <1>1, <1>2, <1>3 DEF IInv, Types, CoreTypes, BootTypes, OwnObject, BeforeTss, BeforeGdt
<1>6. OwnStack'
  BY <1>2 DEF IInv, Types, CoreTypes, BootTypes, OwnStack
<1>7. OwnTss'
  BY <1>1, <1>2, <1>3, CoreNumbers DEF IInv, Types, CoreTypes, BootTypes, OwnTss
<1>8. GatesAfterTss'
  BY <1>2 DEF IInv, Types, CoreTypes, BootTypes, GatesAfterTss, BeforeTss, BeforeGdt
<1>9. SurvivesOnceLoaded'
  BY <1>1, <1>2 DEF IInv, Types, CoreTypes, BootTypes, SurvivesOnceLoaded
<1>10. QED
  BY <1>4, <1>5, <1>6, <1>7, <1>8, <1>9 DEF IInv

LEMMA FinalGate ==
    ASSUME IInv, idt_gate
    PROVE  IInv'
<1>1. PICK v : gate' = [gate EXCEPT ![v] = ist_of(v)]
  BY DEF idt_gate
<1>2. ist_of(v) \in 0..3
  BY DEF ist_of
<1>3. /\ at[0] = "idt" /\ at' = [at EXCEPT ![0] = at'[0]] /\ at'[0] \in {"idt", "madt"}
      /\ UNCHANGED <<boot, gs, tables, idtr, short, fate>>
  BY CoreNumbers DEF idt_gate, IInv, Types, CoreTypes, BootTypes
<1>4. Types'
  <2>1. gate' \in [Vectors -> 0..3]
    BY <1>1, <1>2 DEF IInv, Types, CoreTypes
  <2>2. CoreTypes'
    <3>1. at' \in [Cores -> OfBsp \cup OfAp]
      BY <1>3, CoreNumbers DEF IInv, Types, CoreTypes, OfBsp
    <3>2. at'[0] \in OfBsp /\ \A c \in Cores \ {0} : at'[c] \in OfAp
      BY <1>3 DEF IInv, Types, CoreTypes, OfBsp
    <3>3. QED
      BY <1>3, <2>1, <3>1, <3>2 DEF IInv, Types, CoreTypes
  <2>3. BootTypes'
    BY <1>3, CoreNumbers DEF IInv, Types, CoreTypes, BootTypes, BeforeTss, BeforeGdt
  <2>4. QED
    BY <2>2, <2>3 DEF Types
<1>5. OwnObject'
  BY <1>3 DEF IInv, Types, CoreTypes, BootTypes, OwnObject, BeforeTss, BeforeGdt
<1>6. OwnStack'
  BY <1>3 DEF IInv, Types, CoreTypes, BootTypes, OwnStack
<1>7. OwnTss' /\ SurvivesOnceLoaded'
  BY <1>3 DEF IInv, OwnTss, SurvivesOnceLoaded
<1>8. GatesAfterTss'
  BY <1>3, CoreNumbers DEF IInv, Types, CoreTypes, BootTypes, GatesAfterTss, BeforeTss, BeforeGdt
<1>9. QED
  BY <1>4, <1>5, <1>6, <1>7, <1>8 DEF IInv

-----------------------------------------------------------------------------
(* The steps that change the lists of processors.                            *)

LEMMA ElementOf ==
    ASSUME NEW S, NEW list \in Seq(S), NEW i \in 1..Len(list)
    PROVE  list[i] \in S
OBVIOUS

LEMMA Pushed ==
    ASSUME NEW S, NEW list \in Seq(S), NEW x \in S, NEW what, NEW new \in push_back(list, x, what)
    PROVE  /\ new \in Seq(S) /\ Len(list) \in Nat /\ Len(new) >= Len(list)
           /\ new = list \/ new = Append(list, x)
<1>1. new = list \/ new = Append(list, x)
  BY DEF push_back
<1>2. QED
  BY <1>1

LEMMA Parses ==
    ASSUME IInv, parse_madt
    PROVE  IInv'
<1>1. /\ at[0] = "madt" /\ Up /\ at' = [at EXCEPT ![0] = at'[0]]
      /\ UNCHANGED <<ap_cpus, ap_id_counter, gs, tables, idt, short, fate>>
  BY CoreNumbers DEF parse_madt, IInv, Types, CoreTypes, BootTypes
<1>2. /\ at'[0] \in {"madt", "trampoline"} /\ parsed' \in Nat /\ cpu_infos' \in Seq(Nat)
      /\ at'[0] = "trampoline" => parsed' = 0
      /\ at'[0] = "madt" => parsed' <= Len(Madt)
  <2>1. parsed \in Nat /\ parsed <= Len(Madt) /\ cpu_infos \in Seq(Nat)
    BY <1>1 DEF IInv, Types, CoreTypes, BootTypes
  <2>2. CASE parsed = Len(Madt)
    BY <1>1, <2>1, <2>2, CoreNumbers DEF parse_madt, IInv, Types, CoreTypes, BootTypes
  <2>3. CASE parsed # Len(Madt)
    <3>1. Madt[parsed + 1].id \in Nat
      <4>1. parsed + 1 \in 1..Len(Madt)
        BY <2>1, <2>3, CoreNumbers
      <4>2. Madt[parsed + 1] \in [id : 0..255, flags : SUBSET {"enabled", "online_capable"}]
        BY <4>1, MadtAssumption, ElementOf, Zenon
      <4>3. QED
        BY <4>2
    <3>2. cpu_infos' \in Seq(Nat)
      <4>1. \/ cpu_infos' = cpu_infos
            \/ cpu_infos' \in push_back(cpu_infos, Madt[parsed + 1].id, "info_node")
        BY <2>3 DEF parse_madt
      <4>2. QED
        BY <2>1, <3>1, <4>1, Pushed
    <3>3. QED
      BY <1>1, <2>1, <2>3, <3>2, CoreNumbers DEF parse_madt
  <2>4. QED
    BY <2>2, <2>3
<1>3. Types'
  <2>1. CoreTypes'
    <3>1. at' \in [Cores -> OfBsp \cup OfAp]
      BY <1>1, <1>2, CoreNumbers DEF IInv, Types, CoreTypes, OfBsp
    <3>2. at'[0] \in OfBsp /\ \A c \in Cores \ {0} : at'[c] \in OfAp
      BY <1>1, <1>2 DEF IInv, Types, CoreTypes, OfBsp
    <3>3. QED
      BY <1>1, <3>1, <3>2 DEF IInv, Types, CoreTypes
  <2>2. BootTypes'
    BY <1>1, <1>2 DEF IInv, Types, BootTypes, BeforeTss, BeforeGdt
  <2>3. QED
    BY <2>1, <2>2 DEF Types
<1>4. OwnObject' /\ OwnStack'
  BY <1>1, <1>2 DEF IInv, Types, CoreTypes, BootTypes, OwnObject, OwnStack, BeforeTss, BeforeGdt
<1>5. OwnTss' /\ SurvivesOnceLoaded'
  BY <1>1 DEF IInv, OwnTss, SurvivesOnceLoaded
<1>6. GatesAfterTss'
  BY <1>1, <1>2, CoreNumbers DEF IInv, Types, CoreTypes, BootTypes, GatesAfterTss, BeforeTss, BeforeGdt
<1>7. QED
  BY <1>3, <1>4, <1>5, <1>6 DEF IInv

LEMMA TrampolineSetUp ==
    ASSUME IInv, ap_trampoline_setup
    PROVE  IInv'
<1>1. /\ at[0] = "trampoline" /\ at' = [at EXCEPT ![0] = at'[0]]
      /\ at'[0] \in {"alloc", "halt"}
      /\ UNCHANGED <<boot, gs, tables, idt, short, fate>>
  BY CoreNumbers DEF ap_trampoline_setup, IInv, Types, CoreTypes
<1>2. Types'
  <2>1. CoreTypes'
    <3>1. at' \in [Cores -> OfBsp \cup OfAp] /\ \A c \in Cores \ {0} : at'[c] = at[c]
      BY <1>1, CoreNumbers DEF IInv, Types, CoreTypes, OfBsp
    <3>2. at'[0] \in OfBsp /\ \A c \in Cores \ {0} : at'[c] \in OfAp
      BY <1>1, <3>1 DEF IInv, Types, CoreTypes, OfBsp
    <3>3. QED
      BY <1>1, <3>1, <3>2 DEF IInv, Types, CoreTypes
  <2>2. BootTypes'
    <3>1. Len(cpu_infos) \in Nat
      BY DEF IInv, Types, BootTypes
    <3>2. QED
      BY <1>1, <3>1 DEF IInv, Types, BootTypes, BeforeTss, BeforeGdt
  <2>3. QED
    BY <2>1, <2>2 DEF Types
<1>3. OwnObject' /\ OwnStack'
  BY <1>1 DEF IInv, Types, CoreTypes, OwnObject, OwnStack, BeforeTss, BeforeGdt
<1>4. OwnTss' /\ SurvivesOnceLoaded'
  BY <1>1 DEF IInv, OwnTss, SurvivesOnceLoaded
<1>5. GatesAfterTss'
  BY <1>1, CoreNumbers DEF IInv, Types, CoreTypes, GatesAfterTss, BeforeTss, BeforeGdt
<1>6. QED
  BY <1>2, <1>3, <1>4, <1>5 DEF IInv

\* One step of alloc_ap_cpus: the loop ends or skips the boot processor or panics, or a
\* node is refused, or the object of one more AP is appended.
LEMMA AllocStep ==
    ASSUME IInv, alloc_ap_cpu
    PROVE  /\ at[0] = "alloc" /\ Up /\ fate[0] = "runs" /\ at' = [at EXCEPT ![0] = at'[0]]
           /\ at'[0] \in {"alloc", "start"}
           /\ UNCHANGED <<cpu_infos, caches, gs, tables, idt, short>>
           /\ fate' = fate \/ fate' = [fate EXCEPT ![0] = "panic"]
           /\ parsed' \in Nat /\ parsed <= parsed'
           /\ at'[0] = "alloc" => parsed' <= Len(cpu_infos)
           /\ \/ UNCHANGED <<ap_cpus, ap_id_counter, dropped>>
              \/ /\ parsed' = parsed + 1 /\ ap_id_counter' = ap_id_counter + 1
                 /\ \/ ap_cpus' = ap_cpus /\ dropped'
                    \/ /\ dropped' => dropped
                       /\ \E e \in Cpus :
                             /\ ap_cpus' = Append(ap_cpus, e)
                             /\ e.cpu_id = ap_id_counter
                             /\ e.kernel_stack \in {KernelStack(Len(ap_cpus) + 1), LowStack}
<1>1. /\ at[0] = "alloc" /\ Up /\ fate[0] = "runs" /\ at' = [at EXCEPT ![0] = at'[0]]
      /\ at'[0] \in {"alloc", "start"}
      /\ UNCHANGED <<cpu_infos, caches, gs, tables, idt, short>>
      /\ fate' = fate \/ fate' = [fate EXCEPT ![0] = "panic"]
  <2>1. at[0] = "alloc" /\ 0 \in DOMAIN at /\ at = [at EXCEPT ![0] = at[0]]
    BY CoreNumbers DEF alloc_ap_cpu, IInv, Types, CoreTypes
  <2>2. UNCHANGED at \/ at' = [at EXCEPT ![0] = "start"]
    BY DEF alloc_ap_cpu
  <2>3. at' = [at EXCEPT ![0] = at'[0]] /\ at'[0] \in {"alloc", "start"}
    BY <2>1, <2>2
  <2>4. /\ Up /\ fate[0] = "runs" /\ UNCHANGED <<cpu_infos, caches, gs, tables, idt, short>>
        /\ fate' = fate \/ fate' = [fate EXCEPT ![0] = "panic"]
    BY DEF alloc_ap_cpu
  <2>5. QED
    BY <2>1, <2>3, <2>4
<1>2. /\ parsed \in Nat /\ parsed <= Len(cpu_infos) /\ cpu_infos \in Seq(Nat)
      /\ ap_cpus \in Seq(Cpus) /\ ap_id_counter \in Nat /\ Len(ap_cpus) \in Nat
  BY <1>1 DEF IInv, Types, CoreTypes, BootTypes
<1>3. /\ parsed' \in Nat /\ parsed <= parsed'
      /\ at'[0] = "alloc" => parsed' <= Len(cpu_infos)
  <2>1. CASE parsed = Len(cpu_infos)
    <3>1. parsed' = parsed
      BY <2>1 DEF alloc_ap_cpu
    <3>2. QED
      BY ONLY <1>2, <2>1, <3>1
  <2>2. CASE parsed # Len(cpu_infos)
    <3>1. parsed' = parsed + 1
      BY <2>2 DEF alloc_ap_cpu
    <3>2. Len(cpu_infos) \in Nat
      BY <1>2
    <3>3. QED
      BY ONLY <1>2, <2>2, <3>1, <3>2
  <2>3. QED
    BY <2>1, <2>2
<1>4. ASSUME ~ UNCHANGED <<ap_cpus, ap_id_counter, dropped>>
      PROVE  /\ parsed' = parsed + 1 /\ ap_id_counter' = ap_id_counter + 1
             /\ \/ ap_cpus' = ap_cpus /\ dropped'
                \/ /\ dropped' => dropped
                   /\ \E e \in Cpus :
                         /\ ap_cpus' = Append(ap_cpus, e)
                         /\ e.cpu_id = ap_id_counter
                         /\ e.kernel_stack \in {KernelStack(Len(ap_cpus) + 1), LowStack}
  <2> DEFINE id == cpu_infos[parsed + 1]
  <2>1. /\ parsed # Len(cpu_infos) /\ parsed' = parsed + 1
        /\ ap_id_counter' = ap_id_counter + 1 /\ dropped' = (dropped \/ ap_cpus' = ap_cpus)
        /\ \E stack \in Granted("kernel_stack") :
              ap_cpus' \in push_back(ap_cpus, prepare_ap(id, stack), "cpu_node")
    BY <1>4 DEF alloc_ap_cpu
  <2>2. PICK stack \in BOOLEAN : ap_cpus' \in push_back(ap_cpus, prepare_ap(id, stack), "cpu_node")
    BY <2>1 DEF Granted
  <2> DEFINE e == prepare_ap(id, stack)
  <2>3. parsed + 1 \in 1..Len(cpu_infos)
    BY ONLY <1>2, <2>1
  <2>4. id \in Nat
    BY <1>2, <2>3, ElementOf, Zenon
  <2>5. /\ e \in Cpus /\ e.cpu_id = ap_id_counter
        /\ e.kernel_stack \in {KernelStack(Len(ap_cpus) + 1), LowStack}
    BY <1>2, <2>4 DEF prepare_ap, next_id, Cpus, Stacks
  <2> HIDE DEF e
  <2>6. ap_cpus' = ap_cpus \/ ap_cpus' = Append(ap_cpus, e)
    BY <2>2 DEF push_back, e
  <2>7. CASE ap_cpus' = ap_cpus
    BY <2>1, <2>7
  <2>8. CASE ap_cpus' # ap_cpus
    BY <2>1, <2>5, <2>6, <2>8
  <2>9. QED
    BY <2>1, <2>7, <2>8
<1>5. QED
  BY <1>1, <1>3, <1>4

LEMMA ObjectsAllocated ==
    ASSUME IInv, alloc_ap_cpu
    PROVE  IInv'
<1>1. /\ at[0] = "alloc" /\ Up /\ fate[0] = "runs" /\ at' = [at EXCEPT ![0] = at'[0]]
      /\ at'[0] \in {"alloc", "start"}
      /\ UNCHANGED <<cpu_infos, caches, gs, tables, idt, short>>
      /\ fate' = fate \/ fate' = [fate EXCEPT ![0] = "panic"]
  BY AllocStep
<1>2. /\ ap_cpus \in Seq(Cpus) /\ ap_id_counter \in Nat
  BY <1>1 DEF IInv, Types, CoreTypes, BootTypes
<1>3. /\ parsed' \in Nat /\ ap_id_counter' \in Nat
      /\ at'[0] = "alloc" => parsed' <= Len(cpu_infos)
  BY <1>2, AllocStep
<1>5. /\ ap_cpus' \in Seq(Cpus)
      /\ \A i \in DOMAIN ap_cpus : i \in DOMAIN ap_cpus' /\ ap_cpus'[i] = ap_cpus[i]
      /\ \A i \in DOMAIN ap_cpus' : i \notin DOMAIN ap_cpus =>
            ap_cpus'[i].kernel_stack \in {KernelStack(i), LowStack}
  <2>1. CASE ap_cpus' = ap_cpus
    BY <1>2, <2>1
  <2>2. CASE ap_cpus' # ap_cpus
    <3>1. PICK e \in Cpus : /\ ap_cpus' = Append(ap_cpus, e)
                            /\ e.kernel_stack \in {KernelStack(Len(ap_cpus) + 1), LowStack}
      BY <2>2, AllocStep
    <3>2. /\ DOMAIN ap_cpus = 1..Len(ap_cpus) /\ Len(ap_cpus) \in Nat
          /\ DOMAIN ap_cpus' = 1..(Len(ap_cpus) + 1)
          /\ ap_cpus' \in Seq(Cpus) /\ ap_cpus'[Len(ap_cpus) + 1] = e
          /\ \A i \in 1..Len(ap_cpus) : ap_cpus'[i] = ap_cpus[i]
      BY <1>2, <3>1
    <3>3. QED
      BY <3>1, <3>2
  <2>3. QED
    BY <2>1, <2>2
<1>6. Types'
  <2>1. CoreTypes'
    <3>1. at' \in [Cores -> OfBsp \cup OfAp]
      BY <1>1, CoreNumbers DEF IInv, Types, CoreTypes, OfBsp
    <3>2. at'[0] \in OfBsp /\ \A c \in Cores \ {0} : at'[c] \in OfAp
      BY <1>1 DEF IInv, Types, CoreTypes, OfBsp
    <3>3. fate' \in [Cores -> {"runs", "panic", "reset"}]
      BY <1>1 DEF IInv, Types, CoreTypes
    <3>4. QED
      BY <1>1, <3>1, <3>2, <3>3 DEF IInv, Types, CoreTypes
  <2>2. BootTypes'
    BY <1>1, <1>3, <1>5 DEF IInv, Types, BootTypes, BeforeTss, BeforeGdt
  <2>3. QED
    BY <2>1, <2>2 DEF Types
<1>7. Up'
  BY <1>1, CoreNumbers DEF IInv, Types, CoreTypes, BootTypes
<1>8. OwnObject'
  BY <1>1, <1>7 DEF IInv, Types, CoreTypes, BootTypes, OwnObject, BeforeTss, BeforeGdt
<1>9. OwnStack'
  BY <1>1, <1>5, <1>7 DEF IInv, Types, CoreTypes, BootTypes, OwnStack
<1>10. OwnTss' /\ SurvivesOnceLoaded'
  BY <1>1, <1>7 DEF IInv, OwnTss, SurvivesOnceLoaded
<1>11. GatesAfterTss'
  BY <1>1, CoreNumbers DEF IInv, Types, CoreTypes, BootTypes, GatesAfterTss, BeforeTss, BeforeGdt
<1>12. QED
  BY <1>6, <1>8, <1>9, <1>10, <1>11 DEF IInv

-----------------------------------------------------------------------------
(* The application processors' own steps, and exceptions.                    *)

LEMMA Wakes ==
    ASSUME IInv, NEW c \in Cores \ {0}, start_ap(c)
    PROVE  IInv'
<1>1. /\ at[0] = "start" /\ at[c] = "asleep" /\ Up /\ c \in DOMAIN ap_cpus
      /\ at' = [at EXCEPT ![c] = "init_cpu"]
      /\ UNCHANGED <<boot, gs, tables, idt>>
      /\ IF ap_cpus[c].kernel_stack = LowStack
         THEN short' = short \cup {c} /\ fate' = [fate EXCEPT ![c] = "reset"]
         ELSE UNCHANGED <<short, fate>>
  BY DEF start_ap, call_ap_entry
<1>2. Types'
  <2>1. CoreTypes'
    BY <1>1 DEF IInv, Types, CoreTypes, OfBsp, OfAp
  <2>2. BootTypes'
    BY <1>1 DEF IInv, Types, CoreTypes, BootTypes
  <2>3. QED
    BY <2>1, <2>2 DEF Types
<1>3. Up' => ap_cpus[c].kernel_stack = KernelStack(c)
  BY <1>1 DEF IInv, Types, CoreTypes, OwnStack
<1>4. Up' => Up /\ UNCHANGED <<short, fate>>
  BY <1>1 DEF IInv, Types, CoreTypes
<1>5. OwnObject'
  BY <1>1, <1>4 DEF IInv, Types, CoreTypes, OwnObject, BeforeGdt, BeforeTss
<1>6. OwnStack'
  BY <1>1, <1>3, <1>4 DEF IInv, Types, CoreTypes, OwnStack
<1>7. OwnTss'
  BY <1>1 DEF IInv, OwnTss
<1>8. GatesAfterTss'
  BY <1>1 DEF IInv, Types, CoreTypes, GatesAfterTss, BeforeGdt, BeforeTss
<1>9. SurvivesOnceLoaded'
  BY <1>1 DEF IInv, Types, CoreTypes, SurvivesOnceLoaded
<1>10. QED
  BY <1>2, <1>5, <1>6, <1>7, <1>8, <1>9 DEF IInv

LEMMA GetsCaches ==
    ASSUME IInv, NEW c \in Cores \ {0}, initialize_slub_ap(c)
    PROVE  IInv'
<1>1. /\ at[c] = "slub" /\ Up /\ fate[c] = "runs"
      /\ UNCHANGED <<parsed, cpu_infos, ap_cpus, ap_id_counter, gs, tables, idt, short>>
      /\ \/ at' = [at EXCEPT ![c] = "tss"] /\ UNCHANGED fate
         \/ UNCHANGED at /\ fate' = [fate EXCEPT ![c] = "panic"]
  BY DEF initialize_slub_ap
<1>2. Types'
  <2>1. CoreTypes'
    <3>1. at' \in [Cores -> OfBsp \cup OfAp] /\ \A d \in Cores : at'[d] \in {at[d], "tss"}
      BY <1>1 DEF IInv, Types, CoreTypes, OfAp
    <3>2. at'[0] = at[0] /\ at'[0] \in OfBsp /\ \A d \in Cores \ {0} : at'[d] \in OfAp
      BY <1>1, <3>1, CoreNumbers DEF IInv, Types, CoreTypes, OfAp
    <3>3. fate' \in [Cores -> {"runs", "panic", "reset"}]
      BY <1>1 DEF IInv, Types, CoreTypes
    <3>4. QED
      BY <1>1, <3>1, <3>2, <3>3 DEF IInv, Types, CoreTypes
  <2>2. BootTypes'
    <3>1. at'[0] = at[0]
      BY <1>1, CoreNumbers DEF IInv, Types, CoreTypes
    <3>2. QED
      BY <1>1, <3>1 DEF IInv, Types, BootTypes
  <2>3. QED
    BY <2>1, <2>2 DEF Types
<1>3. Up'
  BY <1>1 DEF IInv, Types, CoreTypes
<1>4. OwnObject'
  BY <1>1, <1>3 DEF IInv, Types, CoreTypes, OwnObject, BeforeGdt, BeforeTss
<1>5. OwnStack'
  BY <1>1, <1>3 DEF IInv, Types, CoreTypes, OwnStack
<1>6. OwnTss'
  BY <1>1 DEF IInv, OwnTss
<1>7. GatesAfterTss'
  BY <1>1, CoreNumbers DEF IInv, Types, CoreTypes, GatesAfterTss, BeforeGdt, BeforeTss
<1>8. SurvivesOnceLoaded'
  BY <1>1 DEF IInv, Types, CoreTypes, SurvivesOnceLoaded
<1>9. QED
  BY <1>2, <1>4, <1>5, <1>6, <1>7, <1>8 DEF IInv

LEMMA AllBooted ==
    ASSUME IInv, all_booted
    PROVE  IInv'
<1>1. /\ at[0] = "start" /\ at' = [at EXCEPT ![0] = "halt"]
      /\ UNCHANGED <<boot, gs, tables, idt, short, fate>>
  BY DEF all_booted
<1>2. Types'
  BY <1>1, CoreNumbers DEF IInv, Types, CoreTypes, BootTypes, OfBsp, OfAp, BeforeTss, BeforeGdt
<1>3. OwnObject' /\ OwnStack'
  BY <1>1 DEF IInv, Types, CoreTypes, OwnObject, OwnStack, BeforeTss, BeforeGdt
<1>4. OwnTss' /\ SurvivesOnceLoaded'
  BY <1>1 DEF IInv, OwnTss, SurvivesOnceLoaded
<1>5. GatesAfterTss'
  BY <1>1, CoreNumbers DEF IInv, Types, CoreTypes, GatesAfterTss, BeforeTss, BeforeGdt
<1>6. QED
  BY <1>2, <1>3, <1>4, <1>5 DEF IInv

LEMMA LoadsOrConfirms ==
    ASSUME IInv, NEW c \in Cores \ {0}, idt_load(c) \/ ap_confirm(c)
    PROVE  IInv'
<1>1. /\ at[c] \in {"load", "fpu"} /\ Up /\ fate[c] = "runs"
      /\ at'[c] \in {"fpu", "online"} /\ at' = [at EXCEPT ![c] = at'[c]]
      /\ idtr' \in {idtr, [idtr EXCEPT ![c] = TRUE]}
      /\ UNCHANGED <<boot, gs, tables, gate, short, fate>>
  BY DEF idt_load, ap_confirm, IInv, Types, CoreTypes
<1>2. Types'
  <2>1. CoreTypes'
    <3>1. at' \in [Cores -> OfBsp \cup OfAp]
      BY <1>1 DEF IInv, Types, CoreTypes, OfAp
    <3>2. at'[0] \in OfBsp /\ \A d \in Cores \ {0} : at'[d] \in OfAp
      BY <1>1, CoreNumbers DEF IInv, Types, CoreTypes, OfAp
    <3>3. QED
      BY <1>1, <3>1, <3>2 DEF IInv, Types, CoreTypes
  <2>2. BootTypes'
    BY <1>1, CoreNumbers DEF IInv, Types, CoreTypes, BootTypes
  <2>3. QED
    BY <2>1, <2>2 DEF Types
<1>3. OwnObject'
  BY <1>1 DEF IInv, Types, CoreTypes, OwnObject, BeforeGdt, BeforeTss
<1>4. OwnStack'
  BY <1>1 DEF IInv, Types, CoreTypes, OwnStack
<1>5. OwnTss'
  BY <1>1 DEF IInv, OwnTss
<1>6. GatesAfterTss'
  <2>1. at'[0] = at[0] /\ UNCHANGED gate
    BY <1>1, CoreNumbers DEF IInv, Types, CoreTypes
  <2>2. ASSUME NEW d \in Cores \ {0}, idtr'[d]
        PROVE  at'[d] \notin BeforeTss
    <3>1. CASE d = c
      BY <1>1, <3>1 DEF IInv, Types, CoreTypes, BeforeGdt, BeforeTss
    <3>2. CASE d # c
      BY <1>1, <2>2, <3>2 DEF IInv, Types, CoreTypes, GatesAfterTss
    <3>3. QED
      BY <3>1, <3>2
  <2>3. QED
    BY <2>1, <2>2 DEF IInv, GatesAfterTss
<1>7. SurvivesOnceLoaded'
  BY <1>1 DEF IInv, Types, CoreTypes, SurvivesOnceLoaded
<1>8. QED
  BY <1>2, <1>3, <1>4, <1>5, <1>6, <1>7 DEF IInv

LEMMA Raises ==
    ASSUME IInv, NEW c \in Cores, NEW v \in Vectors, raise(c, v)
    PROVE  IInv'
<1>1. /\ fate[c] = "runs" /\ Up
      /\ fate' = IF Delivered(c, v) THEN [fate EXCEPT ![c] = "panic"]
                 ELSE [fate EXCEPT ![c] = "reset"]
      /\ UNCHANGED <<at, boot, gs, tables, idt, short>>
  BY DEF raise
<1>2. Types'
  BY <1>1 DEF IInv, Types, CoreTypes, BootTypes
<1>3. OwnObject' /\ OwnStack' /\ OwnTss' /\ GatesAfterTss'
  BY <1>1 DEF IInv, OwnObject, OwnStack, OwnTss, GatesAfterTss
<1>4. SurvivesOnceLoaded'
  <2>1. idtr[c] /\ c \notin short => Delivered(c, v)
    <3> SUFFICES ASSUME idtr[c], c \notin short, gate[v] # 0
                 PROVE  tr[c] # None
      BY DEF Delivered
    <3>1. at[c] \notin BeforeTss
      BY DEF IInv, GatesAfterTss
    <3>2. tr[c] = c
      BY <3>1 DEF IInv, OwnObject
    <3>3. QED
      BY <3>2, CoreNumbers
  <2>2. QED
    BY <1>1, <2>1 DEF IInv, Types, CoreTypes, SurvivesOnceLoaded
<1>5. QED
  BY <1>2, <1>3, <1>4 DEF IInv

-----------------------------------------------------------------------------
LEMMA InitHolds == Init => IInv
<1> SUFFICES ASSUME Init
             PROVE  IInv
  OBVIOUS
<1>1. CoreTypes
  BY CoreNumbers DEF Init, CoreTypes, OfBsp, OfAp
<1>2. BootTypes
  BY CoreNumbers DEF Init, BootTypes
<1>3. OwnObject /\ OwnTss /\ GatesAfterTss /\ SurvivesOnceLoaded
  BY CoreNumbers DEF Init, OwnObject, OwnTss, GatesAfterTss, SurvivesOnceLoaded, BeforeTss, BeforeGdt
<1>4. OwnStack
  BY DEF Init, OwnStack
<1>5. QED
  BY <1>1, <1>2, <1>3, <1>4 DEF IInv, Types

LEMMA NextHolds == IInv /\ [Next]_vars => IInv'
<1> SUFFICES ASSUME IInv, [Next]_vars
             PROVE  IInv'
  OBVIOUS
<1>1. CASE kernel_main
  BY <1>1, CoreNumbers, GetsObject, GetsSegments, EarlyGates, GetsTss, FinalGate, Parses,
     TrampolineSetUp, ObjectsAllocated
  DEF kernel_main
<1>2. CASE \E c \in Cores \ {0} : start_ap(c) \/ ap_entry(c)
  BY <1>2, Wakes, GetsObject, GetsSegments, GetsCaches, GetsTss, LoadsOrConfirms DEF ap_entry
<1>3. CASE \E c \in Cores, v \in Vectors : raise(c, v)
  BY <1>3, Raises
<1>4. CASE UNCHANGED vars
  BY <1>4 DEF vars, IInv, Types, CoreTypes, BootTypes, OwnObject, OwnStack, OwnTss, GatesAfterTss,
              SurvivesOnceLoaded
<1>5. QED
  BY <1>1, <1>2, <1>3, <1>4, AllBooted DEF Next

-----------------------------------------------------------------------------
(* The order in which the APs set themselves up.                             *)

InLists == {"alloc", "start", "halt"}

\* No list is longer than what it is made from, and none is made before its time.
Lengths ==
    /\ at[0] \in BeforeTss \cup {"idt"} => cpu_infos = <<>>
    /\ at[0] = "madt" => Len(cpu_infos) <= parsed
    /\ Len(cpu_infos) <= Len(Madt)
    /\ at[0] \notin InLists => ap_cpus = <<>>
    /\ at[0] = "alloc" => Len(ap_cpus) <= parsed
    /\ Len(ap_cpus) <= Len(cpu_infos)

\* An AP runs ap_entry only when all before it are online.
InOrder ==
    /\ at[0] \notin {"start", "halt"} => \A c \in APs : at[c] = "asleep"
    /\ \A c \in APs : at[c] # "asleep" =>
          c \in DOMAIN ap_cpus /\ \A d \in 1..(c - 1) : at[d] = "online"
    /\ at[0] = "halt" => \A c \in APs : at[c] \in {"asleep", "online"}

\* The identifiers increase along ap_cpus, without a gap unless a node was refused.
Numbered ==
    /\ Len(ap_cpus) < ap_id_counter
    /\ \A i \in DOMAIN ap_cpus : i <= ap_cpus[i].cpu_id /\ ap_cpus[i].cpu_id < ap_id_counter
    /\ \A i, j \in DOMAIN ap_cpus : i < j => ap_cpus[i].cpu_id < ap_cpus[j].cpu_id
    /\ ~dropped => /\ ap_id_counter = Len(ap_cpus) + 1
                   /\ \A i \in DOMAIN ap_cpus : ap_cpus[i].cpu_id = i

\* An AP that has not appended its caches has a larger identifier than the list has
\* elements; without a refused node the list holds the caches of the first APs.
BeforeCaches == {"asleep", "init_cpu", "gdt", "slub"}
Listed ==
    /\ caches \in Seq(Nat)
    /\ at[0] \notin {"start", "halt"} => caches = <<>>
    /\ CacheIndexMatches
    /\ \A c \in DOMAIN ap_cpus : at[c] \in BeforeCaches => Len(caches) < ap_cpus[c].cpu_id
    /\ ~dropped => \A c \in DOMAIN ap_cpus : at[c] \in BeforeCaches <=> Len(caches) < c

OInv == Lengths /\ InOrder /\ Numbered /\ Listed

LEMMA ListFacts ==
    ASSUME IInv, OInv
    PROVE  /\ cpu_infos \in Seq(Nat) /\ ap_cpus \in Seq(Cpus) /\ caches \in Seq(Nat)
           /\ Len(cpu_infos) \in Nat /\ Len(ap_cpus) \in Nat /\ Len(caches) \in Nat
           /\ DOMAIN ap_cpus = 1..Len(ap_cpus) /\ DOMAIN caches = 1..Len(caches)
           /\ parsed \in Nat /\ ap_id_counter \in Nat
           /\ DOMAIN ap_cpus \subseteq APs /\ APs = 1..Len(Madt)
           /\ \A i \in DOMAIN ap_cpus : ap_cpus[i].cpu_id \in Nat
<1>1. /\ cpu_infos \in Seq(Nat) /\ ap_cpus \in Seq(Cpus) /\ caches \in Seq(Nat)
      /\ parsed \in Nat /\ ap_id_counter \in Nat
  BY DEF IInv, Types, BootTypes, OInv, Listed
<1>2. /\ Len(cpu_infos) \in Nat /\ Len(ap_cpus) \in Nat /\ Len(caches) \in Nat
      /\ DOMAIN ap_cpus = 1..Len(ap_cpus) /\ DOMAIN caches = 1..Len(caches)
  BY <1>1
<1>3. APs = 1..Len(Madt)
  BY CoreNumbers DEF APs
<1>4. Len(ap_cpus) <= Len(Madt)
  BY <1>2, CoreNumbers DEF OInv, Lengths
<1>5. ASSUME NEW i \in DOMAIN ap_cpus PROVE ap_cpus[i].cpu_id \in Nat
  <2>1. ap_cpus[i] \in Cpus
    BY <1>1, <1>2, <1>5, ElementOf
  <2>2. QED
    BY <2>1 DEF Cpus
<1>6. QED
  BY <1>1, <1>2, <1>3, <1>4, <1>5, CoreNumbers

\* A step that moves no AP and leaves the lists of the APs alone.
LEMMA ListsKept ==
    ASSUME IInv, OInv, UNCHANGED <<ap_cpus, ap_id_counter, caches, dropped>>,
           \A c \in APs : at'[c] = at[c],
           \/ at[0] \notin {"start", "halt"} /\ at'[0] \in InLists \cup {"trampoline", "madt"} \cup BeforeTss \cup {"idt"}
           \/ at'[0] = at[0]
    PROVE  Numbered' /\ Listed' /\ (at'[0] # "halt" => InOrder')
<1>1. DOMAIN ap_cpus \subseteq APs /\ \A c \in APs : \A d \in 1..(c - 1) : d \in APs
  BY ListFacts, CoreNumbers
<1>2. Numbered'
  BY DEF OInv, Numbered
<1>3. Listed'
  BY <1>1 DEF OInv, Listed, CacheIndexMatches
<1>4. at'[0] # "halt" => InOrder'
  BY <1>1 DEF OInv, InOrder
<1>5. QED
  BY <1>2, <1>3, <1>4

\* The steps of kernel_main that set up the boot processor itself.
LEMMA BspInOrder ==
    ASSUME IInv, OInv,
           init_cpu(0, 0) \/ gdt_initialize(0) \/ early_initialize \/ tss_initialize(0) \/ idt_gate
    PROVE  OInv'
<1>1. /\ at[0] \in BeforeTss \cup {"idt"} /\ at'[0] \in BeforeTss \cup {"idt", "madt"}
      /\ \A c \in APs : at'[c] = at[c]
      /\ UNCHANGED boot
  BY CoreNumbers DEF init_cpu, gdt_initialize, early_initialize, tss_initialize, idt_gate, IInv,
                     Types, CoreTypes, BeforeTss, BeforeGdt, APs
<1>2. Lengths'
  <2>1. Len(cpu_infos) \in Nat /\ Len(cpu_infos) <= Len(Madt) /\ cpu_infos = <<>> /\ ap_cpus = <<>>
        /\ parsed = 0 /\ Len(ap_cpus) <= Len(cpu_infos)
    BY <1>1, ListFacts DEF OInv, Lengths, IInv, Types, BootTypes, InLists, BeforeTss, BeforeGdt
  <2>2. UNCHANGED <<cpu_infos, ap_cpus, parsed>> /\ at'[0] \notin InLists
    BY <1>1 DEF InLists, BeforeTss, BeforeGdt
  <2>3. QED
    BY <2>1, <2>2 DEF Lengths, InLists
<1>3. at[0] \notin {"start", "halt"} /\ at'[0] # "halt"
  BY <1>1 DEF BeforeTss, BeforeGdt
<1>4. QED
  BY <1>1, <1>2, <1>3, ListsKept DEF OInv

LEMMA MadtInOrder ==
    ASSUME IInv, OInv, parse_madt
    PROVE  OInv'
<1>1. /\ at[0] = "madt" /\ at'[0] \in {"madt", "trampoline"}
      /\ \A c \in APs : at'[c] = at[c]
      /\ UNCHANGED <<ap_cpus, ap_id_counter, caches, dropped>>
  BY CoreNumbers DEF parse_madt, IInv, Types, CoreTypes, APs
<1>2. /\ Len(cpu_infos) <= parsed /\ parsed <= Len(Madt) /\ ap_cpus = <<>>
      /\ cpu_infos \in Seq(Nat) /\ parsed \in Nat /\ Len(Madt) \in Nat
  BY <1>1, ListFacts, CoreNumbers DEF OInv, Lengths, IInv, Types, BootTypes, InLists
<1>3. /\ Len(cpu_infos') <= Len(Madt) /\ Len(cpu_infos') \in Nat
      /\ at'[0] = "madt" => Len(cpu_infos') <= parsed'
  <2>1. CASE parsed = Len(Madt)
    <3>1. at'[0] = "trampoline" /\ UNCHANGED cpu_infos
      BY <2>1, CoreNumbers DEF parse_madt, IInv, Types, CoreTypes
    <3>2. QED
      BY <1>2, <2>1, <3>1
  <2>2. CASE parsed # Len(Madt)
    <3> DEFINE x == Madt[parsed + 1].id
    <3>1. parsed' = parsed + 1 /\ \/ cpu_infos' = cpu_infos
                                  \/ cpu_infos' = Append(cpu_infos, x)
      BY <2>2 DEF parse_madt, push_back
    <3> HIDE DEF x
    <3>2. Len(cpu_infos') \in {Len(cpu_infos), Len(cpu_infos) + 1}
      BY <1>2, <3>1
    <3>3. QED
      BY <1>2, <2>2, <3>1, <3>2
  <2>3. QED
    BY <2>1, <2>2
<1>4. Lengths'
  BY <1>1, <1>2, <1>3 DEF Lengths, InLists, BeforeTss, BeforeGdt
<1>5. QED
  BY <1>1, <1>4, ListsKept DEF OInv

LEMMA TrampolineInOrder ==
    ASSUME IInv, OInv, ap_trampoline_setup
    PROVE  OInv'
<1>1. /\ at[0] = "trampoline" /\ at'[0] \in {"alloc", "halt"}
      /\ \A c \in APs : at'[c] = at[c]
      /\ UNCHANGED boot
  BY CoreNumbers DEF ap_trampoline_setup, IInv, Types, CoreTypes, APs
<1>2. Lengths'
  <2>1. ap_cpus = <<>> /\ parsed = 0 /\ Len(cpu_infos) <= Len(Madt) /\ Len(ap_cpus) <= Len(cpu_infos)
    BY <1>1 DEF OInv, Lengths, IInv, Types, BootTypes, InLists
  <2>2. QED
    BY <1>1, <2>1 DEF Lengths, InLists, BeforeTss, BeforeGdt
<1>3. InOrder'
  BY <1>1 DEF OInv, InOrder
<1>4. QED
  BY <1>1, <1>2, <1>3, ListsKept DEF OInv, InLists

LEMMA ObjectsInOrder ==
    ASSUME IInv, OInv, alloc_ap_cpu
    PROVE  OInv'
<1>1. /\ at[0] = "alloc" /\ at'[0] \in {"alloc", "start"}
      /\ \A c \in APs : at'[c] = at[c] /\ at[c] = "asleep"
      /\ UNCHANGED <<cpu_infos, caches>> /\ caches = <<>>
      /\ parsed' \in Nat /\ parsed <= parsed' /\ Len(ap_cpus) <= parsed
      /\ at'[0] = "alloc" => parsed' <= Len(cpu_infos)
  <2>1. /\ at[0] = "alloc" /\ at'[0] \in {"alloc", "start"}
        /\ \A c \in APs : at'[c] = at[c]
    BY AllocStep, CoreNumbers DEF IInv, Types, CoreTypes, APs
  <2>2. QED
    BY <2>1, AllocStep DEF OInv, InOrder, Listed, Lengths
<1>2. /\ Len(ap_cpus) \in Nat /\ Len(cpu_infos) \in Nat /\ ap_id_counter \in Nat /\ parsed \in Nat
      /\ DOMAIN ap_cpus = 1..Len(ap_cpus) /\ ap_cpus \in Seq(Cpus)
      /\ \A i \in DOMAIN ap_cpus : ap_cpus[i].cpu_id \in Nat
      /\ Len(cpu_infos) <= Len(Madt) /\ Len(ap_cpus) <= Len(cpu_infos) /\ Len(Madt) \in Nat
  BY ListFacts, CoreNumbers DEF OInv, Lengths
<1>3. CASE UNCHANGED <<ap_cpus, ap_id_counter, dropped>>
  <2>1. Lengths'
    BY <1>1, <1>2, <1>3 DEF OInv, Lengths, InLists, BeforeTss, BeforeGdt
  <2>2. QED
    BY <1>1, <1>3, <2>1, ListsKept DEF OInv, InLists
<1>4. CASE /\ parsed' = parsed + 1 /\ ap_id_counter' = ap_id_counter + 1
           /\ ap_cpus' = ap_cpus /\ dropped'
  <2>1. Lengths'
    BY <1>1, <1>2, <1>4 DEF OInv, Lengths, InLists, BeforeTss, BeforeGdt
  <2>2. Numbered'
    BY <1>2, <1>4 DEF OInv, Numbered
  <2>3. Listed' /\ InOrder'
    <3>1. DOMAIN ap_cpus \subseteq APs
      BY ListFacts
    <3>2. QED
      BY <1>1, <1>4, <3>1 DEF OInv, Listed, CacheIndexMatches, InOrder
  <2>4. QED
    BY <2>1, <2>2, <2>3 DEF OInv
<1>5. CASE /\ parsed' = parsed + 1 /\ ap_id_counter' = ap_id_counter + 1
           /\ dropped' => dropped
           /\ \E e \in Cpus : ap_cpus' = Append(ap_cpus, e) /\ e.cpu_id = ap_id_counter
  <2>1. PICK e \in Cpus : ap_cpus' = Append(ap_cpus, e) /\ e.cpu_id = ap_id_counter
    BY <1>5
  <2> DEFINE n == Len(ap_cpus) + 1
  <2>2. /\ Len(ap_cpus') = n /\ DOMAIN ap_cpus' = 1..n
        /\ ap_cpus'[n].cpu_id = ap_id_counter
        /\ \A i \in DOMAIN ap_cpus : ap_cpus'[i] = ap_cpus[i]
    BY <1>2, <2>1
  <2>3. Len(ap_cpus) < Len(cpu_infos)
    <3>1. parsed # Len(cpu_infos)
      <4> SUFFICES ASSUME parsed = Len(cpu_infos) PROVE FALSE
        OBVIOUS
      <4>1. parsed' = parsed
        BY DEF alloc_ap_cpu
      <4>2. QED
        BY ONLY <1>2, <1>5, <4>1
    <3>2. parsed <= Len(cpu_infos)
      BY <1>1 DEF IInv, Types, BootTypes
    <3>3. QED
      BY <1>1, <1>2, <3>1, <3>2
  <2>4. Lengths'
    BY <1>1, <1>2, <1>5, <2>2, <2>3 DEF Lengths, InLists, BeforeTss, BeforeGdt
  <2>5. \A i \in 1..n : i \in DOMAIN ap_cpus \/ i = n
    BY <1>2
  <2>6. Numbered'
    <3>1. Len(ap_cpus') < ap_id_counter'
      BY <1>2, <1>5, <2>2 DEF OInv, Numbered
    <3>2. ASSUME NEW i \in DOMAIN ap_cpus'
          PROVE  i <= ap_cpus'[i].cpu_id /\ ap_cpus'[i].cpu_id < ap_id_counter'
      <4>1. CASE i \in DOMAIN ap_cpus
        BY <1>2, <1>5, <2>2, <4>1 DEF OInv, Numbered
      <4>2. CASE i = n
        BY <1>2, <1>5, <2>2, <4>2 DEF OInv, Numbered
      <4>3. QED
        BY <2>2, <2>5, <4>1, <4>2
    <3>3. ASSUME NEW i \in DOMAIN ap_cpus', NEW j \in DOMAIN ap_cpus', i < j
          PROVE  ap_cpus'[i].cpu_id < ap_cpus'[j].cpu_id
      <4>1. i \in DOMAIN ap_cpus
        BY <1>2, <2>2, <3>3
      <4>2. CASE j \in DOMAIN ap_cpus
        BY <2>2, <3>3, <4>1, <4>2 DEF OInv, Numbered
      <4>3. CASE j = n
        BY <2>2, <4>1, <4>3 DEF OInv, Numbered
      <4>4. QED
        BY <2>2, <2>5, <4>2, <4>3
    <3>4. ASSUME ~dropped'
          PROVE  /\ ap_id_counter' = Len(ap_cpus') + 1
                 /\ \A i \in DOMAIN ap_cpus' : ap_cpus'[i].cpu_id = i
      <4>1. ~dropped
        BY <1>1, <3>4, <2>1, <1>2 DEF alloc_ap_cpu
      <4>2. ap_id_counter = n /\ \A i \in DOMAIN ap_cpus : ap_cpus[i].cpu_id = i
        BY <4>1 DEF OInv, Numbered
      <4>3. QED
        BY <1>2, <1>5, <2>2, <2>5, <4>2
    <3>5. QED
      BY <3>1, <3>2, <3>3, <3>4 DEF Numbered
  <2>7. Listed' /\ InOrder'
    <3>1. DOMAIN ap_cpus' \subseteq APs
      BY <1>2, <2>2, <2>3, ListFacts
    <3>2. /\ caches' = <<>> /\ Len(caches') = 0 /\ DOMAIN caches' = {}
          /\ \A i \in DOMAIN ap_cpus' : at'[i] = "asleep" /\ 0 < i
      BY <1>1, <2>2, <3>1
    <3>3. \A i \in DOMAIN ap_cpus' : ap_cpus'[i].cpu_id \in Nat /\ ap_cpus'[i].cpu_id > 0
      <4>1. \A i \in DOMAIN ap_cpus : ap_cpus[i].cpu_id > 0
        BY <1>2 DEF OInv, Numbered
      <4>2. ap_id_counter > 0
        BY <1>2 DEF OInv, Numbered
      <4>3. QED
        BY <1>2, <2>2, <2>5, <4>1, <4>2
    <3>4. Listed'
      BY <3>2, <3>3 DEF Listed, CacheIndexMatches, BeforeCaches
    <3>5. InOrder'
      BY <1>1 DEF InOrder
    <3>6. QED
      BY <3>4, <3>5
  <2>8. QED
    BY <2>4, <2>6, <2>7 DEF OInv
<1>6. QED
  BY <1>3, <1>4, <1>5, AllocStep

\* Steps of an AP: when its place changes from one side of the list of caches to the same.
LEMMA ApInOrder ==
    ASSUME IInv, OInv, NEW c \in APs, UNCHANGED boot,
           at[c] \notin {"asleep", "online"}, at' = [at EXCEPT ![c] = at'[c]],
           at'[c] # "asleep", at'[c] \in BeforeCaches <=> at[c] \in BeforeCaches
    PROVE  OInv'
<1>1. /\ at'[0] = at[0] /\ \A d \in APs : d # c => at'[d] = at[d]
      /\ 0 \notin APs /\ c \in Cores
  BY CoreNumbers DEF IInv, Types, CoreTypes, APs
<1>2. DOMAIN ap_cpus \subseteq APs /\ \A d \in APs : \A e \in 1..(d - 1) : e \in APs
  BY ListFacts, CoreNumbers
<1>3. at[0] \notin {"halt"} /\ at[0] = "start"
  BY DEF OInv, InOrder
<1>4. Lengths' /\ Numbered'
  BY <1>1 DEF OInv, Lengths, Numbered
<1>5. Listed'
  <2>1. \A d \in DOMAIN ap_cpus : at'[d] \in BeforeCaches <=> at[d] \in BeforeCaches
    BY <1>1, <1>2
  <2>2. QED
    BY <1>1, <2>1 DEF OInv, Listed, CacheIndexMatches
<1>6. InOrder'
  <2>1. ASSUME NEW d \in APs, at'[d] # "asleep"
        PROVE  d \in DOMAIN ap_cpus' /\ \A e \in 1..(d - 1) : at'[e] = "online"
    <3>1. at[d] # "asleep"
      BY <1>1, <2>1
    <3>2. d \in DOMAIN ap_cpus /\ \A e \in 1..(d - 1) : at[e] = "online"
      BY <3>1 DEF OInv, InOrder
    <3>3. \A e \in 1..(d - 1) : e # c /\ e \in APs
      BY <1>2, <3>2
    <3>4. QED
      BY <1>1, <3>2, <3>3
  <2>2. QED
    BY <1>1, <1>3, <2>1 DEF InOrder
<1>7. QED
  BY <1>4, <1>5, <1>6 DEF OInv

LEMMA WakesInOrder ==
    ASSUME IInv, OInv, NEW c \in APs, start_ap(c)
    PROVE  OInv'
<1>1. /\ at[0] = "start" /\ at[c] = "asleep" /\ c \in DOMAIN ap_cpus
      /\ at' = [at EXCEPT ![c] = "init_cpu"] /\ UNCHANGED boot
      /\ \A d \in 1..(c - 1) : at[d] = "online"
  BY DEF start_ap, call_ap_entry
<1>2. /\ at'[0] = at[0] /\ at'[c] = "init_cpu" /\ \A d \in APs : d # c => at'[d] = at[d]
  BY <1>1, CoreNumbers DEF IInv, Types, CoreTypes, APs
<1>3. DOMAIN ap_cpus \subseteq APs /\ \A d \in APs : \A e \in 1..(d - 1) : e \in APs
  BY ListFacts, CoreNumbers
<1>4. Lengths' /\ Numbered'
  BY <1>1, <1>2 DEF OInv, Lengths, Numbered
<1>5. Listed'
  <2>1. \A d \in DOMAIN ap_cpus : at'[d] \in BeforeCaches <=> at[d] \in BeforeCaches
    BY <1>1, <1>2, <1>3 DEF BeforeCaches
  <2>2. QED
    BY <1>1, <1>2, <2>1 DEF OInv, Listed, CacheIndexMatches
<1>6. InOrder'
  <2>1. ASSUME NEW d \in APs, at'[d] # "asleep"
        PROVE  d \in DOMAIN ap_cpus' /\ \A e \in 1..(d - 1) : at'[e] = "online"
    <3>1. d \in DOMAIN ap_cpus /\ \A e \in 1..(d - 1) : at[e] = "online"
      BY <1>1, <1>2, <2>1 DEF OInv, InOrder
    <3>2. \A e \in 1..(d - 1) : e # c /\ e \in APs
      BY <1>1, <1>3, <3>1
    <3>3. QED
      BY <1>1, <1>2, <3>1, <3>2
  <2>2. QED
    BY <1>1, <1>2, <2>1 DEF InOrder
<1>7. QED
  BY <1>4, <1>5, <1>6 DEF OInv

\* An AP appends its caches behind those of the APs before it.
LEMMA CachesInOrder ==
    ASSUME IInv, OInv, NEW c \in APs, initialize_slub_ap(c)
    PROVE  OInv'
<1>1. /\ at[c] = "slub" /\ Up /\ gs[c] = c
      /\ UNCHANGED <<parsed, cpu_infos, ap_cpus, ap_id_counter>>
  BY CoreNumbers DEF initialize_slub_ap, IInv, OwnObject, APs
<1>2. /\ at[0] = "start" /\ c \in DOMAIN ap_cpus /\ \A d \in 1..(c - 1) : at[d] = "online"
  BY <1>1 DEF OInv, InOrder
<1>3. /\ DOMAIN ap_cpus \subseteq APs /\ APs \subseteq Nat \ {0}
      /\ \A d \in APs : \A e \in 1..(d - 1) : e \in APs
      /\ caches \in Seq(Nat) /\ Len(caches) \in Nat
      /\ \A i \in DOMAIN ap_cpus : ap_cpus[i].cpu_id \in Nat
      /\ DOMAIN ap_cpus = 1..Len(ap_cpus) /\ Len(ap_cpus) \in Nat
  BY ListFacts, CoreNumbers
<1>4. CASE UNCHANGED <<caches, dropped, at>>
  BY <1>1, <1>4 DEF OInv, Lengths, InOrder, Numbered, Listed, CacheIndexMatches
<1>5. CASE ~ UNCHANGED <<caches, dropped, at>>
  <2> DEFINE id == ap_cpus[c].cpu_id
  <2>1. /\ caches' = caches \/ caches' = Append(caches, id)
        /\ dropped' = (dropped \/ caches' = caches)
        /\ at' = [at EXCEPT ![c] = "tss"]
    BY <1>1, <1>5 DEF initialize_slub_ap, push_back
  <2>2. /\ at'[0] = at[0] /\ at'[c] = "tss" /\ \A d \in APs : d # c => at'[d] = at[d]
    BY <2>1, CoreNumbers DEF IInv, Types, CoreTypes, APs
  <2>3. Lengths'
    BY <1>1, <2>2 DEF OInv, Lengths
  <2>4. Numbered'
    BY <1>1, <2>1 DEF OInv, Numbered
  <2>5. InOrder'
    <3>1. ASSUME NEW d \in APs, at'[d] # "asleep"
          PROVE  d \in DOMAIN ap_cpus' /\ \A e \in 1..(d - 1) : at'[e] = "online"
      <4>1. d \in DOMAIN ap_cpus /\ \A e \in 1..(d - 1) : at[e] = "online"
        BY <1>1, <2>2, <3>1 DEF OInv, InOrder
      <4>2. \A e \in 1..(d - 1) : e # c /\ e \in APs
        BY <1>1, <1>3, <4>1
      <4>3. QED
        BY <1>1, <2>2, <4>1, <4>2
    <3>2. QED
      BY <1>2, <2>2, <3>1 DEF InOrder
  <2>6. /\ Len(caches) < id /\ id \in Nat
        /\ \A d \in DOMAIN ap_cpus : at[d] \in BeforeCaches /\ d # c => c < d /\ id < ap_cpus[d].cpu_id
    <3>1. Len(caches) < id /\ id \in Nat
      BY <1>1, <1>2, <1>3 DEF OInv, Listed, BeforeCaches
    <3>2. ASSUME NEW d \in DOMAIN ap_cpus, at[d] \in BeforeCaches, d # c
          PROVE  c < d
      <4>1. d \notin 1..(c - 1)
        BY <1>2, <3>2 DEF BeforeCaches
      <4>2. c \in Nat /\ d \in Nat /\ d > 0
        BY <1>2, <1>3
      <4>3. QED
        BY <3>2, <4>1, <4>2
    <3>3. QED
      BY <1>2, <3>1, <3>2 DEF OInv, Numbered
  <2>7. CASE caches' = caches
    <3>1. dropped'
      BY <2>1, <2>7
    <3>2. \A d \in DOMAIN ap_cpus : at'[d] \in BeforeCaches => at[d] \in BeforeCaches
      BY <1>3, <2>2 DEF BeforeCaches
    <3>3. Listed'
      BY <1>1, <1>2, <2>2, <2>7, <3>1, <3>2 DEF OInv, Listed, CacheIndexMatches
    <3>4. QED
      BY <2>3, <2>4, <2>5, <3>3 DEF OInv
  <2>8. CASE caches' = Append(caches, id) /\ caches' # caches
    <3>1. dropped' <=> dropped
      BY <2>1, <2>8
    <3> DEFINE n == Len(caches) + 1
    <3>2. /\ caches' \in Seq(Nat) /\ Len(caches') = n /\ DOMAIN caches' = 1..n /\ caches'[n] = id
          /\ \A i \in DOMAIN caches : caches'[i] = caches[i]
          /\ DOMAIN caches = 1..Len(caches)
      BY <1>3, <2>6, <2>8
    <3>3. ~dropped => n = c /\ id = c
      <4> SUFFICES ASSUME ~dropped PROVE n = c /\ id = c
        OBVIOUS
      <4>1. id = c
        BY <1>2 DEF OInv, Numbered
      <4>2. Len(caches) < c
        BY <2>6, <4>1
      <4>3. c = 1 \/ c - 1 \in DOMAIN ap_cpus
        BY <1>2, <1>3
      <4>4. c = 1 \/ ~(Len(caches) < c - 1)
        BY <1>2, <1>3, <4>3 DEF OInv, Listed, BeforeCaches
      <4>5. c \in Nat
        BY <1>2, <1>3
      <4>6. QED
        BY <1>3, <4>1, <4>2, <4>4, <4>5
    <3>4. CacheIndexMatches'
      <4>1. ASSUME NEW i \in DOMAIN caches'
            PROVE  caches'[i] >= i /\ (caches'[i] = i \/ dropped')
        <5>1. CASE i \in DOMAIN caches
          BY <3>1, <3>2, <5>1 DEF OInv, Listed, CacheIndexMatches
        <5>2. CASE i = n
          BY <1>3, <2>6, <3>1, <3>2, <3>3, <5>2
        <5>3. QED
          BY <1>3, <3>2, <5>1, <5>2
      <4>2. QED
        BY <4>1 DEF CacheIndexMatches
    <3>5. \A d \in DOMAIN ap_cpus : at'[d] \in BeforeCaches <=> (at[d] \in BeforeCaches /\ d # c)
      BY <1>2, <1>3, <2>2 DEF BeforeCaches
    <3>6. \A d \in DOMAIN ap_cpus : at'[d] \in BeforeCaches => Len(caches') < ap_cpus[d].cpu_id
      BY <1>3, <2>6, <3>2, <3>5
    <3>7. ASSUME ~dropped', NEW d \in DOMAIN ap_cpus
          PROVE  at'[d] \in BeforeCaches <=> Len(caches') < d
      <4>1. ~dropped /\ n = c /\ d \in Nat /\ c \in Nat
        BY <1>2, <1>3, <3>1, <3>3, <3>7
      <4>2. at[d] \in BeforeCaches <=> Len(caches) < d
        BY <3>7, <4>1 DEF OInv, Listed
      <4>3. QED
        BY <1>3, <3>2, <3>5, <4>1, <4>2
    <3>8. Listed'
      BY <1>1, <1>2, <2>2, <3>2, <3>4, <3>6, <3>7 DEF Listed
    <3>9. QED
      BY <2>3, <2>4, <2>5, <3>8 DEF OInv
  <2>9. QED
    BY <2>1, <2>7, <2>8
<1>6. QED
  BY <1>4, <1>5

LEMMA BootedInOrder ==
    ASSUME IInv, OInv, all_booted
    PROVE  OInv'
<1>1. /\ at[0] = "start" /\ at'[0] = "halt" /\ \A c \in APs : at'[c] = at[c]
      /\ UNCHANGED boot /\ \A c \in DOMAIN ap_cpus : at[c] = "online"
  BY CoreNumbers DEF all_booted, IInv, Types, CoreTypes, APs
<1>2. DOMAIN ap_cpus \subseteq APs /\ \A c \in APs : \A d \in 1..(c - 1) : d \in APs
  BY ListFacts, CoreNumbers
<1>3. Lengths' /\ Numbered'
  BY <1>1 DEF OInv, Lengths, Numbered, InLists, BeforeTss, BeforeGdt
<1>4. Listed'
  BY <1>1, <1>2 DEF OInv, Listed, CacheIndexMatches
<1>5. InOrder'
  BY <1>1, <1>2 DEF OInv, InOrder
<1>6. QED
  BY <1>3, <1>4, <1>5 DEF OInv

LEMMA InitOrder == Init => OInv
<1> SUFFICES ASSUME Init
             PROVE  OInv
  OBVIOUS
<1>1. Lengths /\ Numbered /\ Listed
  BY CoreNumbers DEF Init, Lengths, Numbered, Listed, CacheIndexMatches, InLists, BeforeTss, BeforeGdt
<1>2. InOrder
  BY CoreNumbers DEF Init, InOrder, APs
<1>3. QED
  BY <1>1, <1>2 DEF OInv

LEMMA NextOrder ==
    ASSUME IInv, OInv, [Next]_vars
    PROVE  OInv'
<1>1. ASSUME UNCHANGED <<at, boot>> PROVE OInv'
  BY <1>1 DEF OInv, Lengths, InOrder, Numbered, Listed, CacheIndexMatches
<1>2. CASE kernel_main
  BY <1>2, BspInOrder, MadtInOrder, TrampolineInOrder, ObjectsInOrder DEF kernel_main
<1>3. ASSUME NEW c \in Cores \ {0}, start_ap(c) \/ ap_entry(c)
      PROVE  OInv'
  <2>1. c \in APs
    BY DEF APs
  <2>2. CASE start_ap(c)
    BY <2>1, <2>2, WakesInOrder
  <2>3. CASE initialize_slub_ap(c)
    BY <2>1, <2>3, CachesInOrder
  <2>4. CASE init_cpu(c, c) \/ gdt_initialize(c) \/ tss_initialize(c) \/ idt_load(c) \/ ap_confirm(c)
    <3>1. /\ at[c] \notin {"asleep", "online"} /\ at' = [at EXCEPT ![c] = at'[c]]
          /\ at'[c] # "asleep"
          /\ at'[c] \in BeforeCaches <=> at[c] \in BeforeCaches
          /\ UNCHANGED boot
      BY <2>4, CoreNumbers DEF init_cpu, gdt_initialize, tss_initialize, idt_load, ap_confirm,
                               BeforeCaches, IInv, Types, CoreTypes
    <3>2. QED
      BY <2>1, <3>1, ApInOrder
  <2>5. QED
    BY <1>3, <2>2, <2>3, <2>4 DEF ap_entry
<1>4. CASE \E c \in Cores, v \in Vectors : raise(c, v)
  BY <1>1, <1>4 DEF raise
<1>5. CASE UNCHANGED vars
  BY <1>1, <1>5 DEF vars
<1>6. QED
  BY <1>2, <1>3, <1>4, <1>5, BootedInOrder DEF Next

-----------------------------------------------------------------------------
(* The handshake: module SmpBoot                                             *)

Cur == bsp.ap

NotBegun ==
    /\ bsp = [pc |-> "next", ap |-> 0]
    /\ \A c \in APs : wake[c] = "off"
    /\ online = 0

\* In the loop: the APs before the current one are online, those after it are off, and
\* the current one is as far as the IPIs it has been sent.
InLoop ==
    /\ Cur \in 0..Len(ap_cpus)
    /\ bsp.pc # "next" => Cur > 0
    /\ \A c \in APs : /\ c < Cur => at[c] = "online"
                      /\ c > Cur => wake[c] = "off"
    /\ bsp.pc = "next" /\ Cur > 0 => at[Cur] = "online"
    /\ bsp.pc \in Fields \cup {"init"} => wake[Cur] = "off"
    /\ bsp.pc = "sipi1" => wake[Cur] = "wait_sipi"
    /\ bsp.pc \in {"sipi2", "wait"} => wake[Cur] \in {"wait_sipi", "entered"} \cup InTrampoline
    /\ bsp.pc \in {"sipi2", "wait"} /\ wake[Cur] \in InTrampoline => Answers(Cur)
    /\ bsp.pc \notin {"next", "cr3", "rsp"} => field["rsp"] = Cur
    /\ bsp.pc \notin {"next", "cr3", "rsp", "entry", "cpu_ptr"} => field["cpu_ptr"] = Cur
    /\ online = IF Cur > 0 /\ at[Cur] # "online" THEN Cur - 1 ELSE Cur

Finished == \A c \in APs : wake[c] \in {"off", "entered"}

SmpInv ==
    /\ SmpTypeOK
    /\ at[0] \notin {"start", "halt"} => NotBegun
    /\ at[0] = "start" => InLoop
    /\ at[0] = "halt" => Finished
    /\ \A c \in APs : wake[c] = "entered" <=> at[c] # "asleep"
    /\ \A c \in APs : wake[c] = "load_cpu" => rsp[c] = c
    /\ OwnContext

Inv == IInv /\ OInv /\ SmpInv

\* Only the current AP can move, and only after its SIPI.
LEMMA MovingAp ==
    ASSUME Inv, NEW a \in APs, wake[a] \in InTrampoline \/ at[a] \notin {"asleep", "online"}
    PROVE  /\ at[0] = "start" /\ bsp.pc \in {"sipi2", "wait"} /\ a = Cur /\ InLoop
           /\ a \in DOMAIN ap_cpus
<1>1. at[0] = "start" /\ InLoop
  BY DEF Inv, SmpInv, NotBegun, Finished, InTrampoline, OInv, InOrder
<1>2. /\ DOMAIN ap_cpus = 1..Len(ap_cpus) /\ Len(ap_cpus) \in Nat
      /\ APs = 1..Len(Madt) /\ Len(Madt) \in Nat /\ Cur \in Nat
  BY <1>1, ListFacts, CoreNumbers DEF Inv, InLoop
<1>3. a = Cur
  <2>1. wake[a] # "off" /\ at[a] # "online"
    BY DEF Inv, SmpInv, InTrampoline
  <2>2. ~(a < Cur) /\ ~(a > Cur)
    BY <1>1, <2>1 DEF InLoop
  <2>3. QED
    BY <1>2, <2>2
<1>4. bsp.pc \in {"sipi2", "wait"}
  <2>1. bsp.pc \in BspPlaces
    BY DEF Inv, SmpInv, SmpTypeOK
  <2>2. wake[Cur] \notin {"off", "wait_sipi"} /\ at[Cur] # "online" /\ Cur > 0
    BY <1>2, <1>3 DEF Inv, SmpInv, InTrampoline
  <2>3. QED
    BY <1>1, <2>1, <2>2 DEF InLoop, BspPlaces
<1>5. a \in DOMAIN ap_cpus
  BY <1>1, <1>2, <1>3 DEF InLoop
<1>6. QED
  BY <1>1, <1>3, <1>4, <1>5

LEMMA CurIsAp ==
    ASSUME Inv, at[0] = "start", bsp.pc # "next"
    PROVE  InLoop /\ Cur \in APs /\ Cur \in DOMAIN ap_cpus /\ Cur \in Nat /\ Cur > 0 /\ Cur # 0
<1>1. /\ DOMAIN ap_cpus = 1..Len(ap_cpus) /\ Len(ap_cpus) \in Nat
      /\ DOMAIN ap_cpus \subseteq APs
  BY ListFacts DEF Inv
<1>2. InLoop
  BY DEF Inv, SmpInv
<1>3. Cur \in Nat /\ Cur > 0 /\ Cur # 0 /\ Cur <= Len(ap_cpus)
  BY <1>1, <1>2 DEF InLoop
<1>4. Cur \in DOMAIN ap_cpus
  BY <1>1, <1>3
<1>5. QED
  BY <1>1, <1>2, <1>3, <1>4

\* A step of the current AP on its way through the trampoline and ap_entry.
LEMMA ApMoves ==
    ASSUME Inv, NEW a \in APs, wake[a] \in InTrampoline \/ at[a] \notin {"asleep", "online"},
           UNCHANGED <<ap_cpus, bsp, field, sci>>,
           at' = [at EXCEPT ![a] = at'[a]], wake' = [wake EXCEPT ![a] = wake'[a]],
           rsp' = [rsp EXCEPT ![a] = rsp'[a]], cpu' = [cpu EXCEPT ![a] = cpu'[a]],
           wake'[a] \in InTrampoline \cup {"entered"},
           (wake'[a] = "entered") <=> (at'[a] # "asleep"),
           wake'[a] \in InTrampoline => wake[a] \in InTrampoline,
           rsp'[a] \in Cores, cpu'[a] \in Cores,
           wake'[a] = "load_cpu" => rsp'[a] = a,
           wake'[a] = "entered" => rsp'[a] = a /\ cpu'[a] = a,
           online' = IF at'[a] = "online" THEN a ELSE a - 1
    PROVE  SmpInv'
<1>1. at[0] = "start" /\ bsp.pc \in {"sipi2", "wait"} /\ a = Cur /\ InLoop
  BY MovingAp
<1>2. /\ at'[0] = at[0] /\ \A b \in APs : b # a => at'[b] = at[b]
      /\ \A b \in APs : b # a => wake'[b] = wake[b]
      /\ wake' \in [APs -> ApPlaces] /\ rsp' \in [APs -> Cores] /\ cpu' \in [APs -> Cores]
      /\ \A b \in APs : b # a => rsp'[b] = rsp[b] /\ cpu'[b] = cpu[b]
      /\ a \in Cores /\ a # 0
  <2>1. a \in Cores /\ a # 0 /\ APs \subseteq Cores /\ 0 \in Cores
    BY CoreNumbers DEF APs
  <2>2. at \in [Cores -> OfBsp \cup OfAp]
    BY DEF Inv, IInv, Types, CoreTypes
  <2>3. /\ wake \in [APs -> ApPlaces] /\ rsp \in [APs -> Cores] /\ cpu \in [APs -> Cores]
        /\ wake'[a] \in ApPlaces
    BY DEF Inv, SmpInv, SmpTypeOK, ApPlaces
  <2>4. at'[0] = at[0] /\ \A b \in APs : b # a => at'[b] = at[b]
    BY <2>1, <2>2
  <2>5. wake' \in [APs -> ApPlaces] /\ \A b \in APs : b # a => wake'[b] = wake[b]
    BY <2>3
  <2>6. rsp' \in [APs -> Cores] /\ \A b \in APs : b # a => rsp'[b] = rsp[b]
    BY <2>3
  <2>7. cpu' \in [APs -> Cores] /\ \A b \in APs : b # a => cpu'[b] = cpu[b]
    BY <2>3
  <2>8. QED
    BY <2>1, <2>3, <2>4, <2>5, <2>6, <2>7
<1>3. a \in Nat /\ \A b \in APs : b \in Nat
  BY CoreNumbers DEF APs
<1>4. SmpTypeOK'
  <2>1. online' \in 0..bsp'.ap
    BY <1>1, <1>2, <1>3 DEF Cur
  <2>2. QED
    BY <1>2, <2>1 DEF Inv, SmpInv, SmpTypeOK
<1>5. InLoop'
  BY <1>1, <1>2, <1>3 DEF InLoop, Answers, MadtFlags, Cur, Fields
<1>6. OwnContext' /\ \A c \in APs : wake'[c] = "load_cpu" => rsp'[c] = c
  BY <1>2 DEF Inv, SmpInv, OwnContext
<1>7. \A c \in APs : (wake'[c] = "entered") <=> (at'[c] # "asleep")
  BY <1>2 DEF Inv, SmpInv
<1>8. QED
  BY <1>1, <1>2, <1>4, <1>5, <1>6, <1>7 DEF SmpInv

LEMMA ApStep ==
    ASSUME Inv, NEW a \in APs, ap_step(a)
    PROVE  SmpInv' /\ (UNCHANGED vars \/ start_ap(a) \/ ap_entry(a))
<1>1. /\ at = [at EXCEPT ![a] = at[a]] /\ wake = [wake EXCEPT ![a] = wake[a]]
      /\ rsp = [rsp EXCEPT ![a] = rsp[a]] /\ cpu = [cpu EXCEPT ![a] = cpu[a]]
      /\ rsp[a] \in Cores /\ cpu[a] \in Cores /\ a \in Cores /\ a # 0
      /\ a \in DOMAIN at /\ a \in DOMAIN wake /\ a \in DOMAIN rsp /\ a \in DOMAIN cpu
  BY DEF Inv, IInv, Types, CoreTypes, SmpInv, SmpTypeOK, APs
<1>2. ASSUME wake[a] \in InTrampoline \/ at[a] \notin {"asleep", "online"}
      PROVE  /\ at[0] = "start" /\ bsp.pc \in {"sipi2", "wait"} /\ a = Cur /\ a \in DOMAIN ap_cpus
             /\ at[a] # "online" /\ online = a - 1
             /\ field["rsp"] = a /\ field["cpu_ptr"] = a
             /\ wake[a] \in InTrampoline => Answers(a)
             /\ \A d \in 1..(a - 1) : at[d] = "online"
  <2>1. at[0] = "start" /\ bsp.pc \in {"sipi2", "wait"} /\ a = Cur /\ InLoop /\ a \in DOMAIN ap_cpus
    BY <1>2, MovingAp
  <2>2. at[a] # "online"
    BY <1>2 DEF Inv, SmpInv, InTrampoline
  <2>3. a \in Nat /\ a > 0 /\ \A d \in 1..(a - 1) : d \in APs /\ d < a
    BY CoreNumbers DEF APs
  <2>4. QED
    BY <2>1, <2>2, <2>3 DEF InLoop, Fields
<1>3. CASE load_cr3(a)
  <2>1. wake[a] = "trampoline" /\ wake' = [wake EXCEPT ![a] = "load_rsp"] /\ UNCHANGED vars
        /\ UNCHANGED <<bsp, field, rsp, cpu, online, sci>> /\ at[a] = "asleep"
    BY <1>3 DEF load_cr3, ApAt, ApGoes, setupVars
  <2>2. SmpInv'
    BY <1>1, <1>2, <2>1, ApMoves DEF InTrampoline, vars
  <2>3. QED
    BY <2>1, <2>2
<1>4. CASE load_rsp(a)
  <2>1. wake[a] = "load_rsp" /\ wake' = [wake EXCEPT ![a] = "load_cpu"] /\ UNCHANGED vars
        /\ rsp' = [rsp EXCEPT ![a] = field["rsp"]] /\ at[a] = "asleep"
        /\ UNCHANGED <<bsp, field, cpu, online, sci>>
    BY <1>4 DEF load_rsp, ApAt, ApGoes, setupVars
  <2>2. SmpInv'
    BY <1>1, <1>2, <2>1, ApMoves DEF InTrampoline, vars
  <2>3. QED
    BY <2>1, <2>2
<1>5. CASE load_cpu_ptr(a)
  <2>1. /\ wake[a] = "load_cpu" /\ wake' = [wake EXCEPT ![a] = "entered"]
        /\ cpu' = [cpu EXCEPT ![a] = field["cpu_ptr"]]
        /\ call_ap_entry(a, ap_cpus[rsp[a]].kernel_stack)
        /\ at' = [at EXCEPT ![a] = "init_cpu"]
        /\ UNCHANGED <<bsp, field, rsp, online, sci, ap_cpus>> /\ at[a] = "asleep"
    BY <1>5 DEF load_cpu_ptr, ApAt, ApGoes, call_ap_entry
  <2>2. rsp[a] = a
    BY <2>1 DEF Inv, SmpInv
  <2>3. SmpInv'
    BY <1>1, <1>2, <2>1, <2>2, ApMoves DEF InTrampoline
  <2>4. start_ap(a)
    BY <1>2, <2>1, <2>2 DEF start_ap, InTrampoline
  <2>5. QED
    BY <2>3, <2>4
<1>6. CASE ap_set_up(a)
  <2>1. at[a] \in {"init_cpu", "gdt", "slub", "tss", "load"}
        /\ UNCHANGED <<bsp, field, wake, rsp, cpu, online, sci, ap_cpus>>
    BY <1>6 DEF ap_set_up, init_cpu, gdt_initialize, initialize_slub_ap, tss_initialize, idt_load
  <2>2. at' = [at EXCEPT ![a] = at'[a]] /\ at'[a] \notin {"asleep", "online"}
    BY <1>1, <1>6, <2>1 DEF ap_set_up, init_cpu, gdt_initialize, initialize_slub_ap, tss_initialize, idt_load
  <2>3. wake[a] = "entered" /\ rsp[a] = a /\ cpu[a] = a
    BY <2>1 DEF Inv, SmpInv, OwnContext
  <2>4. SmpInv'
    BY <1>1, <1>2, <2>1, <2>2, <2>3, ApMoves DEF InTrampoline
  <2>5. ap_entry(a)
    BY <1>6, <2>3 DEF ap_set_up, ap_entry
  <2>6. QED
    BY <2>4, <2>5
<1>7. CASE ap_online(a)
  <2>1. at[a] = "fpu" /\ at' = [at EXCEPT ![a] = "online"] /\ online' = online + 1
        /\ UNCHANGED <<bsp, field, wake, rsp, cpu, sci, ap_cpus>> /\ ap_entry(a)
    BY <1>7 DEF ap_online, ap_confirm, ap_entry, count_up
  <2>2. wake[a] = "entered" /\ rsp[a] = a /\ cpu[a] = a
    BY <2>1 DEF Inv, SmpInv, OwnContext
  <2>3. online' = a
    BY <1>2, <2>1, CoreNumbers DEF APs
  <2>4. SmpInv'
    BY <1>1, <1>2, <2>1, <2>2, <2>3, ApMoves DEF InTrampoline
  <2>5. QED
    BY <2>1, <2>4
<1>8. QED
  BY <1>3, <1>4, <1>5, <1>6, <1>7 DEF ap_step

\* kernel_main up to smp_start_aps: no AP has been started.
LEMMA SetUpStep ==
    ASSUME Inv, set_up, IInv', OInv'
    PROVE  SmpInv'
<1>1. /\ at[0] \notin {"start", "halt"} /\ \A c \in APs : at'[c] = at[c]
      /\ UNCHANGED <<bsp, field, wake, rsp, cpu, online, sci>>
  <2>1. kernel_main /\ UNCHANGED <<bsp, field, wake, rsp, cpu, online, sci>>
    BY DEF set_up
  <2>2. at[0] \notin {"start", "halt"}
    BY <2>1 DEF kernel_main, init_cpu, gdt_initialize, early_initialize, tss_initialize, idt_gate,
                parse_madt, ap_trampoline_setup, alloc_ap_cpu
  <2>3. \A c \in APs : at'[c] = at[c]
    <3>1. at' = [at EXCEPT ![0] = at'[0]] \/ UNCHANGED at
      <4>1. at = [at EXCEPT ![0] = at[0]] /\ 0 \in DOMAIN at
        BY CoreNumbers DEF Inv, IInv, Types, CoreTypes
      <4>2. CASE init_cpu(0, 0) \/ gdt_initialize(0) \/ early_initialize \/ tss_initialize(0)
                   \/ idt_gate
        BY <4>1, <4>2 DEF init_cpu, gdt_initialize, early_initialize, tss_initialize, idt_gate
      <4>3. CASE parse_madt
        BY <4>1, <4>3 DEF parse_madt
      <4>4. CASE ap_trampoline_setup
        BY <4>1, <4>4 DEF ap_trampoline_setup
      <4>5. CASE alloc_ap_cpu
        BY <4>1, <4>5 DEF alloc_ap_cpu
      <4>6. QED
        BY <2>1, <4>2, <4>3, <4>4, <4>5 DEF kernel_main
    <3>2. QED
      BY <3>1, CoreNumbers DEF Inv, IInv, Types, CoreTypes, APs
  <2>4. QED
    BY <2>1, <2>2, <2>3
<1>2. NotBegun
  BY <1>1 DEF Inv, SmpInv
<1>3. Len(ap_cpus') \in Nat /\ Len(ap_cpus) \in Nat
  <2>1. ap_cpus' \in Seq(Cpus) /\ ap_cpus \in Seq(Cpus)
    BY DEF Inv, IInv, Types, BootTypes
  <2>2. QED
    BY <2>1
<1>4. SmpTypeOK'
  BY <1>1, <1>2, <1>3 DEF Inv, SmpInv, SmpTypeOK, NotBegun
<1>5. NotBegun' /\ Finished'
  BY <1>1, <1>2 DEF NotBegun, Finished
<1>6. InLoop'
  <2>1. Cur' = 0 /\ bsp'.pc = "next" /\ online' = 0
    BY <1>1, <1>2 DEF NotBegun, Cur
  <2>2. \A c \in APs : c \in Nat /\ ~(c < 0)
    BY CoreNumbers DEF APs
  <2>3. QED
    BY <1>1, <1>2, <1>3, <2>1, <2>2 DEF InLoop, NotBegun, Fields
<1>7. OwnContext' /\ \A c \in APs : /\ (wake'[c] = "entered") <=> (at'[c] # "asleep")
                                    /\ wake'[c] = "load_cpu" => rsp'[c] = c
  BY <1>1 DEF Inv, SmpInv, OwnContext
<1>8. QED
  BY <1>4, <1>5, <1>6, <1>7 DEF SmpInv

LEMMA NextApStep ==
    ASSUME Inv, next_ap
    PROVE  SmpInv' /\ (UNCHANGED vars \/ all_booted)
<1>1. /\ at[0] = "start" /\ bsp.pc = "next" /\ InLoop /\ bsp.ap = Cur
      /\ UNCHANGED <<boot, gs, tables, idt, short, fate, field, wake, rsp, cpu, online, sci>>
  BY DEF next_ap, BspAt, Inv, SmpInv, Cur
<1>2. /\ DOMAIN ap_cpus = 1..Len(ap_cpus) /\ Len(ap_cpus) \in Nat /\ Cur \in 0..Len(ap_cpus)
      /\ DOMAIN ap_cpus \subseteq APs /\ \A c \in APs : c \in Nat /\ c > 0
  BY <1>1, ListFacts, CoreNumbers DEF Inv, InLoop
<1>3. online = Cur
  BY <1>1, <1>2 DEF InLoop
<1>4. CASE Cur < Len(ap_cpus)
  <2> DEFINE n == Cur + 1
  <2>1. bsp' = [pc |-> "cr3", ap |-> n] /\ UNCHANGED at
    BY <1>1, <1>4 DEF next_ap
  <2>2. n \in 1..Len(ap_cpus) /\ n \in APs /\ n > Cur /\ n \in Nat /\ n # 0 /\ Cur' = n
    BY <1>2, <1>4, <2>1 DEF Cur
  <2>3. wake[n] = "off" /\ at[n] = "asleep"
    BY <1>1, <2>2 DEF InLoop, Inv, SmpInv
  <2>4. \A c \in APs : /\ c < n => at[c] = "online"
                       /\ c > n => wake[c] = "off"
    <3>1. ASSUME NEW c \in APs, c < n PROVE at[c] = "online"
      <4>1. c < Cur \/ c = Cur
        BY <1>2, <2>2, <3>1
      <4>2. QED
        BY <1>1, <1>2, <3>1, <4>1 DEF InLoop
    <3>2. ASSUME NEW c \in APs, c > n PROVE wake[c] = "off"
      <4>1. c > Cur
        BY <1>2, <2>2, <3>2
      <4>2. QED
        BY <1>1, <3>2, <4>1 DEF InLoop
    <3>3. QED
      BY <3>1, <3>2
  <2>5. online = n - 1
    BY <1>2, <1>3
  <2>6. InLoop'
    <3> HIDE DEF n
    <3>1. bsp'.pc = "cr3"
      BY <2>1
    <3>2. QED
      BY <1>1, <2>1, <2>2, <2>3, <2>4, <2>5, <3>1 DEF InLoop, Fields
  <2>7. SmpTypeOK'
    <3>1. bsp' \in [pc : BspPlaces, ap : 0..Len(ap_cpus)] /\ online \in 0..bsp'.ap
      BY <1>2, <1>3, <2>1, <2>2 DEF BspPlaces, Fields
    <3>2. QED
      BY <1>1, <3>1 DEF Inv, SmpInv, SmpTypeOK
  <2>8. SmpInv'
    BY <1>1, <2>1, <2>6, <2>7 DEF Inv, SmpInv, OwnContext
  <2>9. QED
    BY <1>1, <2>1, <2>8 DEF vars
<1>5. CASE ~(Cur < Len(ap_cpus))
  <2>1. at' = [at EXCEPT ![0] = "halt"] /\ UNCHANGED bsp /\ Up /\ fate[0] = "runs"
    BY <1>1, <1>5 DEF next_ap, BspAt
  <2>2. at'[0] = "halt" /\ \A c \in APs : at'[c] = at[c]
    BY <2>1, CoreNumbers DEF Inv, IInv, Types, CoreTypes, APs
  <2>3. \A c \in DOMAIN ap_cpus : at[c] = "online"
    <3>1. ASSUME NEW c \in DOMAIN ap_cpus PROVE at[c] = "online"
      <4>1. c \in APs /\ (c < Cur \/ c = Cur)
        BY <1>2, <1>5
      <4>2. QED
        BY <1>1, <1>2, <4>1 DEF InLoop
    <3>2. QED
      BY <3>1
  <2>4. all_booted
    BY <1>1, <2>1, <2>3 DEF all_booted
  <2>5. Finished
    <3>1. ASSUME NEW c \in APs PROVE wake[c] \in {"off", "entered"}
      <4>1. CASE c \in DOMAIN ap_cpus
        BY <2>3, <4>1 DEF Inv, SmpInv
      <4>2. CASE c \notin DOMAIN ap_cpus
        BY <1>1, <1>2, <4>2 DEF InLoop
      <4>3. QED
        BY <4>1, <4>2
    <3>2. QED
      BY <3>1 DEF Finished
  <2>6. SmpInv'
    BY <1>1, <2>1, <2>2, <2>5 DEF Inv, SmpInv, SmpTypeOK, OwnContext, Finished
  <2>7. QED
    BY <2>4, <2>6
<1>6. QED
  BY <1>4, <1>5

\* The steps between the head of the loop and its end.
LEMMA LoopStep ==
    ASSUME Inv, patch_trampoline \/ send_init \/ send_sipi \/ wait_for_ap
    PROVE  SmpInv' /\ UNCHANGED vars
<1>1. /\ at[0] = "start" /\ bsp.pc # "next" /\ bsp.ap = Cur
      /\ bsp.pc \in {"init", "sipi1", "sipi2", "wait"} \cup Fields
  BY DEF patch_trampoline, send_init, send_sipi, wait_for_ap, BspAt, Cur, Fields
<1>2. InLoop /\ Cur \in APs /\ Cur \in DOMAIN ap_cpus /\ Cur \in Nat /\ Cur > 0 /\ Cur \in Cores
  BY <1>1, CurIsAp DEF APs
<1>3. /\ wake \in [APs -> ApPlaces] /\ at \in [Cores -> OfBsp \cup OfAp]
      /\ field \in [Fields -> Cores] /\ bsp \in [pc : BspPlaces, ap : 0..Len(ap_cpus)]
      /\ \A c \in APs : c \in Nat
  BY CoreNumbers DEF Inv, SmpInv, SmpTypeOK, IInv, Types, CoreTypes, APs
<1>4. CASE patch_trampoline
  <2>1. PICK f \in Fields : /\ bsp.pc = f
                            /\ field' = [field EXCEPT ![f] = Cur]
                            /\ bsp' = [bsp EXCEPT !.pc = AfterPatch(f)]
                            /\ UNCHANGED <<vars, wake, rsp, cpu, online, sci>>
    BY <1>1, <1>4 DEF patch_trampoline, BspAt, BspGoes, setupVars
  <2>2. UNCHANGED <<at, ap_cpus, Madt>>
    BY <2>1 DEF vars
  <2>3. /\ Cur' = Cur /\ bsp'.pc = AfterPatch(f) /\ bsp'.ap = bsp.ap
        /\ bsp' \in [pc : BspPlaces, ap : 0..Len(ap_cpus)] /\ field' \in [Fields -> Cores]
    BY <1>2, <1>3, <2>1 DEF Cur, AfterPatch, BspPlaces, Fields
  <2>4. field'[f] = Cur /\ \A g \in Fields : g # f => field'[g] = field[g]
    BY <1>3, <2>1
  <2>5. InLoop'
    BY <1>1, <1>2, <2>1, <2>2, <2>3, <2>4 DEF InLoop, AfterPatch, Fields
  <2>6. SmpInv'
    BY <1>1, <2>1, <2>2, <2>3, <2>5 DEF Inv, SmpInv, SmpTypeOK, OwnContext
  <2>7. QED
    BY <2>1, <2>6
<1>5. CASE send_init
  <2>1. /\ bsp.pc = "init" /\ wake' = [wake EXCEPT ![Cur] = "wait_sipi"]
        /\ at' = [at EXCEPT ![Cur] = "asleep"] /\ bsp' = [bsp EXCEPT !.pc = "sipi1"]
        /\ UNCHANGED <<boot, gs, tables, idt, short, fate, field, rsp, cpu, online, sci>>
    BY <1>1, <1>5 DEF send_init, BspAt, BspGoes
  <2>2. wake[Cur] = "off" /\ at[Cur] = "asleep"
    BY <1>2, <2>1 DEF InLoop, Inv, SmpInv
  <2>3. at' = at
    BY <1>2, <1>3, <2>1, <2>2
  <2>4. /\ Cur' = Cur /\ bsp'.pc = "sipi1" /\ bsp'.ap = bsp.ap
        /\ bsp' \in [pc : BspPlaces, ap : 0..Len(ap_cpus)] /\ wake' \in [APs -> ApPlaces]
        /\ wake'[Cur] = "wait_sipi" /\ \A c \in APs : c # Cur => wake'[c] = wake[c]
    BY <1>2, <1>3, <2>1 DEF Cur, BspPlaces, ApPlaces
  <2>5. InLoop'
    BY <1>2, <1>3, <2>1, <2>3, <2>4 DEF InLoop, Fields
  <2>6. SmpInv'
    BY <1>1, <1>2, <2>1, <2>2, <2>3, <2>4, <2>5 DEF Inv, SmpInv, SmpTypeOK, OwnContext
  <2>7. QED
    BY <2>1, <2>3, <2>6 DEF vars
<1>6. CASE send_sipi
  <2>1. /\ bsp.pc \in {"sipi1", "sipi2"}
        /\ \/ UNCHANGED wake
           \/ /\ wake[Cur] = "wait_sipi" /\ Answers(Cur)
              /\ wake' = [wake EXCEPT ![Cur] = "trampoline"]
        /\ bsp' = [bsp EXCEPT !.pc = IF bsp.pc = "sipi1" THEN "sipi2" ELSE "wait"]
        /\ UNCHANGED <<vars, field, rsp, cpu, online, sci>>
    BY <1>1, <1>6 DEF send_sipi, BspAt, BspGoes, setupVars
  <2>2. UNCHANGED <<at, ap_cpus>>
    BY <2>1 DEF vars
  <2>3. /\ Cur' = Cur /\ bsp'.pc \in {"sipi2", "wait"} /\ bsp'.ap = bsp.ap
        /\ bsp' \in [pc : BspPlaces, ap : 0..Len(ap_cpus)] /\ wake' \in [APs -> ApPlaces]
        /\ \A c \in APs : c # Cur => wake'[c] = wake[c]
        /\ wake'[Cur] = wake[Cur] \/ (/\ wake[Cur] = "wait_sipi" /\ Answers(Cur)
                                      /\ wake'[Cur] = "trampoline")
    BY <1>2, <1>3, <2>1 DEF Cur, BspPlaces, ApPlaces, InTrampoline
  <2>4. wake[Cur] \in {"wait_sipi", "entered"} \cup InTrampoline
    BY <1>2, <2>1 DEF InLoop
  <2>5. wake[Cur] \in InTrampoline => Answers(Cur)
    BY <1>2, <2>1 DEF InLoop, InTrampoline
  <2>6. InLoop'
    <3>1. Answers(Cur)' = Answers(Cur)
      BY <2>2, <2>3 DEF Answers, MadtFlags
    <3>2. wake'[Cur] \in {"wait_sipi", "entered"} \cup InTrampoline
          /\ (wake'[Cur] \in InTrampoline => Answers(Cur))
      BY <2>3, <2>4, <2>5 DEF InTrampoline
    <3>3. field["rsp"] = Cur /\ field["cpu_ptr"] = Cur
      BY <1>2, <2>1 DEF InLoop
    <3>4. QED
      BY <1>2, <1>3, <2>1, <2>2, <2>3, <3>1, <3>2, <3>3 DEF InLoop, Fields
  <2>7. wake[Cur] = "entered" <=> wake'[Cur] = "entered"
    BY <2>3
  <2>8. \A c \in APs : /\ (wake'[c] = "entered") <=> (at'[c] # "asleep")
                       /\ wake'[c] = "load_cpu" => rsp'[c] = c
    BY <1>2, <2>1, <2>2, <2>3 DEF Inv, SmpInv
  <2>9. OwnContext'
    BY <2>1, <2>3 DEF Inv, SmpInv, OwnContext
  <2>10. SmpTypeOK'
    BY <2>1, <2>2, <2>3 DEF Inv, SmpInv, SmpTypeOK
  <2>11. QED
    BY <1>1, <2>1, <2>2, <2>6, <2>8, <2>9, <2>10 DEF SmpInv
<1>7. CASE wait_for_ap
  <2>1. /\ bsp.pc = "wait" /\ online >= Cur /\ bsp' = [bsp EXCEPT !.pc = "next"]
        /\ UNCHANGED <<vars, field, wake, rsp, cpu, online, sci>>
    BY <1>1, <1>7 DEF wait_for_ap, BspAt, BspGoes, all_confirmed, setupVars
  <2>2. UNCHANGED <<at, ap_cpus>>
    BY <2>1 DEF vars
  <2>3. at[Cur] = "online" /\ online = Cur
    BY <1>2, <2>1 DEF InLoop
  <2>4. /\ Cur' = Cur /\ bsp'.pc = "next" /\ bsp'.ap = bsp.ap
        /\ bsp' \in [pc : BspPlaces, ap : 0..Len(ap_cpus)]
    BY <1>3, <2>1 DEF Cur, BspPlaces
  <2>5. InLoop'
    BY <1>2, <2>1, <2>2, <2>3, <2>4 DEF InLoop, Fields
  <2>6. SmpInv'
    BY <1>1, <2>1, <2>2, <2>4, <2>5 DEF Inv, SmpInv, SmpTypeOK, OwnContext
  <2>7. QED
    BY <2>1, <2>6
<1>8. QED
  BY <1>4, <1>5, <1>6, <1>7

LEMMA SmpInitHolds == SmpInit => Inv
<1> SUFFICES ASSUME SmpInit
             PROVE  Inv
  OBVIOUS
<1>1. IInv /\ OInv
  BY InitHolds, InitOrder DEF SmpInit
<1>2. at[0] = "init_cpu" /\ \A c \in APs : at[c] = "asleep"
  BY CoreNumbers DEF SmpInit, Init, APs
<1>3. SmpTypeOK
  <2>1. ap_cpus = <<>>
    BY DEF SmpInit, Init
  <2>2. Len(ap_cpus) = 0 /\ 0 \in 0..Len(ap_cpus) /\ 0 \in 0..0
    BY <2>1
  <2>3. bsp \in [pc : BspPlaces, ap : 0..Len(ap_cpus)] /\ online \in 0..bsp.ap /\ sci \in BOOLEAN
    BY <2>2 DEF SmpInit, BspPlaces
  <2>4. /\ field \in [Fields -> Cores] /\ wake \in [APs -> ApPlaces]
        /\ rsp \in [APs -> Cores] /\ cpu \in [APs -> Cores]
    BY CoreNumbers DEF SmpInit, ApPlaces
  <2>5. QED
    BY <2>3, <2>4 DEF SmpTypeOK
<1>4. NotBegun /\ OwnContext
  BY DEF SmpInit, NotBegun, OwnContext
<1>5. SmpInv
  BY <1>2, <1>3, <1>4 DEF SmpInit, SmpInv
<1>6. QED
  BY <1>1, <1>5 DEF Inv

\* Every step of the handshake is one of CpuSetup or leaves it alone.
LEMMA SmpStep ==
    ASSUME Inv, [SmpNext]_smpVars
    PROVE  Inv' /\ [Next]_vars
<1>1. ASSUME UNCHANGED <<at, ap_cpus, bsp, field, wake, rsp, cpu, online>>, sci' \in BOOLEAN
      PROVE  SmpInv'
  BY <1>1 DEF Inv, SmpInv, SmpTypeOK, NotBegun, InLoop, Finished, OwnContext, Cur, Answers, MadtFlags
<1>2. ASSUME [Next]_vars PROVE IInv' /\ OInv'
  BY <1>2, NextHolds, NextOrder DEF Inv
<1>3. CASE UNCHANGED smpVars
  <2>1. UNCHANGED vars /\ sci' \in BOOLEAN /\ UNCHANGED <<at, ap_cpus, bsp, field, wake, rsp, cpu, online>>
    BY <1>3 DEF smpVars, setupVars, vars, Inv, SmpInv, SmpTypeOK
  <2>2. QED
    BY <1>1, <1>2, <2>1 DEF Inv
<1>4. CASE power_button \/ power_button_return
  <2>1. UNCHANGED vars /\ sci' \in BOOLEAN /\ UNCHANGED <<at, ap_cpus, bsp, field, wake, rsp, cpu, online>>
    BY <1>4 DEF power_button, power_button_return, setupVars, vars
  <2>2. QED
    BY <1>1, <1>2, <2>1 DEF Inv
<1>5. CASE \E c \in Cores, v \in Vectors : exception(c, v)
  <2>1. Next
    BY <1>5 DEF exception, Next
  <2>2. sci' \in BOOLEAN /\ UNCHANGED <<at, ap_cpus, bsp, field, wake, rsp, cpu, online>>
    BY <1>5 DEF exception, raise, Inv, SmpInv, SmpTypeOK
  <2>3. QED
    BY <1>1, <1>2, <2>1, <2>2 DEF Inv
<1>6. ASSUME NEW a \in APs, ap_step(a)
      PROVE  Inv' /\ [Next]_vars
  <2>1. SmpInv' /\ (UNCHANGED vars \/ start_ap(a) \/ ap_entry(a))
    BY <1>6, ApStep
  <2>2. [Next]_vars
    BY <2>1 DEF Next, APs
  <2>3. QED
    BY <1>2, <2>1, <2>2 DEF Inv
<1>7. CASE set_up
  <2>1. Next
    BY <1>7 DEF set_up, Next
  <2>2. QED
    BY <1>2, <1>7, <2>1, SetUpStep DEF Inv
<1>8. CASE next_ap
  <2>1. SmpInv' /\ [Next]_vars
    BY <1>8, NextApStep DEF Next
  <2>2. QED
    BY <1>2, <2>1 DEF Inv
<1>9. CASE patch_trampoline \/ send_init \/ send_sipi \/ wait_for_ap
  BY <1>2, <1>9, LoopStep DEF Inv
<1>10. QED
  BY <1>3, <1>4, <1>5, <1>6, <1>7, <1>8, <1>9 DEF SmpNext, bsp_step

LEMMA AlwaysInv == SmpSpec => []Inv
BY SmpInitHolds, SmpStep, PTL DEF SmpSpec

\* The handshake of smp_start_aps makes the APs set themselves up one after the other, each
\* with its own stack and CPU object: what module CpuSetup has in its steps.
THEOREM StartupImplements == SmpSpec => ImplementsCpuSetup
<1>1. SmpInit => Init
  BY DEF SmpInit
<1>2. Inv /\ [SmpNext]_smpVars => [Next]_vars
  BY SmpStep
<1>3. SmpSpec => Spec
  BY <1>1, <1>2, AlwaysInv, PTL DEF SmpSpec, Spec
<1>4. QED
  BY <1>3 DEF ImplementsCpuSetup

\* Whatever exceptions come, and whatever requests for memory are refused, a core that has
\* loaded the IDT is not reset by one unless its own set-up was refused memory: kernel_main
\* and ap_entry load a TSS before any gate names one of its stacks (idt.cpp, tss.cpp).
THEOREM ExceptionsSurvived == SmpSpec => []SurvivesOnceLoaded
<1>1. Inv => SurvivesOnceLoaded
  BY DEF Inv, IInv
<1>2. QED
  BY <1>1, AlwaysInv, PTL

\* No two cores that have loaded a TSS share a stack, and each enters the kernel on the one
\* prepare_ap allocated for it (cpu.cpp, gdt.cpp, tss.cpp).
THEOREM StacksNeverShared == SmpSpec => []StacksPrivate
<1>1. ASSUME Inv
      PROVE  StacksPrivate
  <2> SUFFICES ASSUME NEW c \in Cores, tr[c] # None
               PROVE  /\ KernelStack(c) \in tss[tr[c]]
                      /\ \A d \in Cores \ {c} : tr[d] # None => tss[tr[c]] \cap tss[tr[d]] = {}
    BY DEF StacksPrivate
  <2>1. \A d \in Cores : tr[d] # None =>
           tr[d] = d /\ tss[d] = {KernelStack(d)} \cup {Ist(d, k) : k \in 1..3}
    BY <1>1 DEF Inv, IInv, OwnObject, OwnTss
  <2>2. ASSUME NEW d \in Cores \ {c}, tr[d] # None
        PROVE  tss[c] \cap tss[d] = {}
    <3>1. \A x \in tss[c] : x[2] = c
      BY <2>1 DEF KernelStack, Ist
    <3>2. \A x \in tss[d] : x[2] = d
      BY <2>1, <2>2 DEF KernelStack, Ist
    <3>3. QED
      BY <3>1, <3>2
  <2>3. QED
    BY <2>1, <2>2
<1>2. QED
  BY <1>1, AlwaysInv, PTL

\* The fields of SmpTypeOK, of which online \in 0..bsp.ap says that ap_online_count never
\* exceeds the number of processors that were started.
THEOREM SmpTypes == SmpSpec => []SmpTypeOK
<1>1. Inv => SmpTypeOK
  BY DEF Inv, SmpInv
<1>2. QED
  BY <1>1, AlwaysInv, PTL

\* The handshake keeps the cores apart in kmalloc and the PMM, whose functions take no lock,
\* while each AP allocates its segments, caches and TSS stacks; the one overlap left is that
\* of the boot processor serving the power button while it waits.
THEOREM OneCoreAllocates == SmpSpec => []AllocatorExclusive
<1>1. ASSUME Inv
      PROVE  AllocatorExclusive
  <2>1. ASSUME NEW a \in APs, Allocates(a)
        PROVE  at[0] = "start" /\ a = Cur
    <3>1. at[a] \notin {"asleep", "online"}
      BY <2>1 DEF Allocates, APs
    <3>2. QED
      BY <1>1, <3>1, MovingAp
  <2>2. SUFFICES ASSUME NEW c \in Cores, NEW d \in Cores, Allocates(c), Allocates(d), c # d
                 PROVE  0 \in {c, d} /\ sci
    BY DEF AllocatorExclusive
  <2>3. c = 0 \/ d = 0
    BY <2>1, <2>2 DEF APs
  <2>4. at[0] = "start" /\ Allocates(0)
    BY <2>1, <2>2, <2>3 DEF APs
  <2>5. sci
    BY <2>4 DEF Allocates
  <2>6. QED
    BY <2>3, <2>5
<1>2. QED
  BY <1>1, AlwaysInv, PTL

\* The trampoline hands every AP the stack and the CPU object of its own, although all
\* of them read the same fields.
THEOREM ApOwnContext == SmpSpec => []OwnContext
<1>1. Inv => OwnContext
  BY DEF Inv, SmpInv
<1>2. QED
  BY <1>1, AlwaysInv, PTL

\* get_kmalloc_cache finds the caches of core cpu_id at index cpu_id - 1 as long as no list
\* was refused a node; after that a core's caches stand too early, never too late.
THEOREM ApCacheIndex == SmpSpec => []CacheIndexMatches
<1>1. Inv => CacheIndexMatches
  BY DEF Inv, OInv, Listed
<1>2. QED
  BY <1>1, AlwaysInv, PTL

\* What one step does to an AP that reads the trampoline, and to one that has left it.
LEMMA StableStep ==
    ASSUME Inv, [SmpNext]_smpVars, NEW a \in APs
    PROVE  /\ wake[a] \in InTrampoline => UNCHANGED field
           /\ wake[a] = "entered" => wake'[a] = "entered"
<1>1. wake \in [APs -> ApPlaces] /\ bsp.ap = Cur
  BY DEF Inv, SmpInv, SmpTypeOK, Cur
<1>2. CASE UNCHANGED <<field, wake>>
  BY <1>2
<1>3. ASSUME NEW b \in APs, ap_step(b)
      PROVE  UNCHANGED field /\ (wake[a] = "entered" => wake'[a] = "entered")
  <2>1. UNCHANGED field
    BY <1>3 DEF ap_step, load_cr3, load_rsp, load_cpu_ptr, ap_set_up, ap_online
  <2>2. \/ UNCHANGED wake
        \/ wake[b] # "entered" /\ wake' = [wake EXCEPT ![b] = wake'[b]]
    BY <1>1, <1>3 DEF ap_step, load_cr3, load_rsp, load_cpu_ptr, ap_set_up, ap_online, ApAt, ApGoes
  <2>3. QED
    BY <1>1, <2>1, <2>2
<1>4. CASE patch_trampoline
  <2>1. bsp.pc \in Fields /\ UNCHANGED wake
    BY <1>4 DEF patch_trampoline, BspAt
  <2>2. wake[a] \notin InTrampoline
    BY <2>1, MovingAp DEF Fields
  <2>3. QED
    BY <2>1, <2>2
<1>5. CASE send_init
  <2>1. UNCHANGED field /\ bsp.pc = "init" /\ wake' = [wake EXCEPT ![Cur] = "wait_sipi"]
        /\ at[0] = "start"
    BY <1>1, <1>5 DEF send_init, BspAt
  <2>2. wake[Cur] = "off"
    BY <2>1 DEF Inv, SmpInv, InLoop
  <2>3. QED
    BY <1>1, <2>1, <2>2
<1>6. CASE send_sipi
  <2>1. /\ UNCHANGED field
        /\ UNCHANGED wake \/ (wake[Cur] = "wait_sipi" /\ wake' = [wake EXCEPT ![Cur] = "trampoline"])
    BY <1>1, <1>6 DEF send_sipi
  <2>2. QED
    BY <1>1, <2>1
<1>7. CASE set_up \/ next_ap \/ wait_for_ap \/ power_button \/ power_button_return
           \/ (\E c \in Cores, v \in Vectors : exception(c, v)) \/ UNCHANGED smpVars
  <2>1. UNCHANGED <<field, wake>>
    BY <1>7 DEF set_up, next_ap, wait_for_ap, power_button, power_button_return, exception, smpVars
  <2>2. QED
    BY <2>1
<1>8. QED
  BY <1>3, <1>4, <1>5, <1>6, <1>7 DEF SmpNext, bsp_step

\* smp_start_aps patches the one trampoline page again only after the previous AP has
\* read it for the last time, and its INIT and SIPI never hit an AP that runs kernel
\* code: the IPIs carry no such check, the wait for ap_online_count is what excludes it.
THEOREM PatchesNeverRace == SmpSpec => TrampolineStable
<1> DEFINE Stable == \A c \in APs :
                        /\ wake[c] \in InTrampoline => UNCHANGED field
                        /\ wake[c] = "entered" => wake'[c] = "entered"
<1>1. Inv /\ [SmpNext]_smpVars => Stable
  BY StableStep
<1> HIDE DEF Stable
<1>2. SmpSpec => [][Stable]_smpVars
  BY <1>1, AlwaysInv, PTL DEF SmpSpec
<1>3. QED
  BY <1>2, PTL DEF TrampolineStable, Stable
=============================================================================
