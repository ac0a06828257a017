---------------------------- MODULE MCKernelTime ----------------------------
(***************************************************************************)
(* Instances of KernelTime for TLC: 12 units and nanoseconds a second, 6   *)
(* microseconds, a PIT of 3 Hz, an HPET of 9 Hz (not a multiple of the     *)
(* microseconds, like the real 14.318 MHz), and words so short that the    *)
(* products of the PIT and the HPET wrap.                                  *)
(***************************************************************************)
EXTENDS KernelTime

\* Machines with nothing but the PIT, with a TSC whose frequency CPUID knows or
\* the PIT measures, with an HPET, and with both.
EveryMachine == {{}, {"tsc"}, {"tsc", "cpuid"}, {"tsc", "hpet"}, {"hpet"}}
=============================================================================
