------------------------------- MODULE Syscall -------------------------------
(***************************************************************************)
(* The entry of system calls (syscalls/syscall_entry.asm, syscalls.cpp) on *)
(* one processor, from the syscall instruction of user mode to sysret.     *)
(* Registers hold names of values: <<"user", r>> is what the user had in   *)
(* r.  The processor's CPU object (include/cpu.hpp) is what the kernel's   *)
(* GS points to.  The table of calls is still empty (TableLen = 0), and    *)
(* nothing enters user mode yet: user is how that code will find it.       *)
(***************************************************************************)
EXTENDS Naturals, Sequences, SequencesExt

CONSTANTS TableLen,   \* elements of syscall_table
          Words,      \* 2^64
          Numbers     \* system call numbers the user tries

Saved    == <<"rsp", "r11", "rcx", "rax", "rdi", "rsi", "rdx", "r10", "r8", "r9",
              "rbx", "rbp", "r12", "r13", "r14", "r15">>
Restored == <<"r15", "r14", "r13", "r12", "rbx", "rbp", "r9", "r8", "r10", "rdx",
              "rsi", "rdi", "skipped", "rcx", "r11", "rsp">>
Registers == ToSet(Saved)
CallerSaved == {"rax", "rcx", "rdx", "rsi", "rdi", "r8", "r9", "r10", "r11"}
User(r) == <<"user", r>>

\* cpu_local_data_t: what its first three quadwords hold.
Object == <<"CPU object", 0>>
KernelStack == <<"kernel stack", 0>>
self == 0
kernel_stack == 8
user_stack == 16
cpu_local_data == [o \in {self, kernel_stack, user_stack} |->
                      CASE o = self -> Object [] o = kernel_stack -> KernelStack
                        [] OTHER -> <<"none", 0>>]

\* (sizeof table / sizeof element) - 1, unsigned.
NR_syscall_max == (TableLen + Words - 1) % Words

VARIABLES at,      \* where the processor is
          reg,     \* [Registers -> value]
          gs,      \* whose data GS points to: "user" or "kernel"
          iflag,   \* RFLAGS.IF
          cpu,     \* the quadwords of the CPU object
          base,    \* where RSP pointed before the first push
          stack    \* what has been pushed

vars == <<at, reg, gs, iflag, cpu, base, stack>>

Init ==
    /\ at = "user" /\ gs = "user" /\ iflag = TRUE
    /\ reg = [r \in Registers |-> User(r)]
    /\ cpu = cpu_local_data
    /\ base = KernelStack /\ stack = <<>>

Goes(from, to) == at = from /\ at' = to

\* The instruction: RIP and RFLAGS go to registers, and FMASK (syscall_msr_init)
\* turns interrupts off.
syscall(n) ==
    /\ Goes("user", "swapgs")
    /\ reg' = [reg EXCEPT !["rcx"] = User("rip"), !["r11"] = User("rflags"),
                          !["rax"] = <<"number", n>>]
    /\ iflag' = FALSE
    /\ UNCHANGED <<gs, cpu, base, stack>>

swapgs ==
    /\ Goes("swapgs", "switch")
    /\ gs' = "kernel"
    /\ UNCHANGED <<reg, iflag, cpu, base, stack>>

\* mov [gs:0x08], rsp; mov rsp, [gs:0x00]
switch_stack ==
    /\ Goes("switch", "push")
    /\ cpu' = [cpu EXCEPT ![8] = reg["rsp"]]
    /\ base' = cpu'[0]
    /\ UNCHANGED <<reg, gs, iflag, stack>>

push ==
    /\ Goes("push", "dispatch")
    /\ stack' = [i \in DOMAIN Saved |-> IF i = 1 THEN cpu[8] ELSE reg[Saved[i]]]
    /\ UNCHANGED <<reg, gs, iflag, cpu, base>>

\* The comparison with __NR_syscall_max, and the call through the table with
\* interrupts on: to a function, or to whatever lies behind the table.
call ==
    /\ at = "dispatch" /\ reg["rax"][2] <= NR_syscall_max
    /\ at' = IF reg["rax"][2] < TableLen THEN "function" ELSE "astray"
    /\ iflag' = TRUE
    /\ UNCHANGED <<reg, gs, cpu, base, stack>>

bad ==
    /\ Goes("dispatch", "pop") /\ reg["rax"][2] > NR_syscall_max
    /\ reg' = [reg EXCEPT !["rax"] = <<"-ENOSYS", 0>>]
    /\ UNCHANGED <<gs, iflag, cpu, base, stack>>

\* A function keeps what the System V ABI lets it not clobber.
function_returns ==
    /\ Goes("function", "pop")
    /\ reg' = [r \in Registers |-> IF r = "rax" THEN <<"result", 0>>
                                   ELSE IF r \in CallerSaved THEN <<"clobbered", 0>> ELSE reg[r]]
    /\ iflag' = FALSE
    /\ UNCHANGED <<gs, cpu, base, stack>>

\* The pops take the last push first.
pop ==
    /\ Goes("pop", "sysret")
    /\ reg' = [r \in Registers |->
                 IF r \in ToSet(Restored)
                 THEN Reverse(stack)[CHOOSE i \in DOMAIN Restored : Restored[i] = r]
                 ELSE reg[r]]
    /\ stack' = <<>>
    /\ UNCHANGED <<gs, iflag, cpu, base>>

\* swapgs; sysret: RFLAGS come back from r11.
sysret ==
    /\ Goes("sysret", "user")
    /\ gs' = "user" /\ iflag' = TRUE
    /\ UNCHANGED <<reg, cpu, base, stack>>

Next ==
    \/ \E n \in Numbers : syscall(n)
    \/ swapgs \/ switch_stack \/ push \/ call \/ bad \/ function_returns \/ pop \/ sysret

Spec == Init /\ [][Next]_vars

-----------------------------------------------------------------------------
(* Properties.                                                               *)

\* docs/arch/cpu_structures.md 37 and the comment at syscall_entry.asm 26: the
\* register state is built on the kernel stack.
OnKernelStack == stack # <<>> => base = KernelStack

\* syscall_entry.asm 43-48 save callee-saved registers: back in user mode every
\* register holds what the user had in it, but for the result and the two that the
\* instruction itself overwrites.
UserStateKept ==
    at = "user" => \A r \in Registers \ {"rax", "rcx", "r11"} : reg[r] = User(r)

\* docs/arch/cpu_structures.md 39: a number above the limit returns -ENOSYS; no
\* number calls past the table.
BadNumbersRefused == at # "astray"

=============================================================================
