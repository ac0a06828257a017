---------------------------- MODULE MCIrqRouting ----------------------------
(***************************************************************************)
(* An instance of IrqRouting for TLC: the PIT on IRQ 0, overridden to input *)
(* 2 as on most machines; IRQ 1 without a handler of uACPI; and three lines *)
(* of uACPI on a board with two I/O APICs: 3 overridden to input 4 of the   *)
(* first one, 4 to input 8 of the second, 5 to input 16, which no I/O APIC  *)
(* owns.  Timer 0 of the HPET may be routed to 6 or 7.                      *)
(***************************************************************************)
EXTENDS IrqRouting

MCIrqs == {0, 1, 3, 4, 5}
MCUacpiIrqs == {3, 4, 5}
MCWire == [i \in MCIrqs |-> CASE i = 0 -> 2 [] i = 3 -> 4 [] i = 4 -> 8 [] i = 5 -> 16 [] OTHER -> i]
MCOverrides == <<[irq_source |-> 0, gsi |-> 2], [irq_source |-> 3, gsi |-> 4],
                 [irq_source |-> 4, gsi |-> 8], [irq_source |-> 5, gsi |-> 16]>>
TwoIoapics == <<[gsib |-> 0, max_entries |-> 7], [gsib |-> 7, max_entries |-> 9]>>
HpetHigh == {6, 7}
=============================================================================
