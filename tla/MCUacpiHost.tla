----------------------------- MODULE MCUacpiHost -----------------------------
(* The calls of uACPI for the power button: clear the status under the lock  *)
(* of the registers, run the methods that prepare S5 with memory and the     *)
(* namespace mutex, write the sleep registers with interrupts off.           *)
EXTENDS UacpiHost

MCSciCalls == <<Call("lock", "regs"), Call("clear", Nobody), Call("unlock", Nobody),
                Call("acquire", "namespace"), Call("alloc", Nobody), Call("free", Nobody),
                Call("release", "namespace"), Call("disable", Nobody),
                Call("lock", "regs"), Call("unlock", Nobody),
                Call("enter", Nobody), Call("restore", Nobody)>>
MCSciDepth == [i \in 1..13 |-> IF i \in {2, 3, 10} THEN 1 ELSE 0]
=============================================================================
