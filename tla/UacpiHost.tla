------------------------------ MODULE UacpiHost ------------------------------
(***************************************************************************)
(* The services the kernel gives to uACPI (arch/acpi/uacpi_osl.cpp) when   *)
(* the system control interrupt calls them in the middle of kernel_main:   *)
(* spinlocks that save the interrupt flag, mutexes that always succeed,    *)
(* memory from the kmalloc cache of the boot processor, whose lock         *)
(* (mm/slub.cpp, util/spinlock.hpp) leaves interrupts alone, and the way   *)
(* of the power button to sleep state S5 (power/power.cpp).                *)
(*                                                                         *)
(* Both frames run on the boot processor: "main" from the sti of           *)
(* kernel_main to its haltloop, and "sci" on top of it.  An application    *)
(* processor has caches of its own and calls nothing of uACPI.             *)
(***************************************************************************)
EXTENDS Naturals, Sequences, SequencesExt

CONSTANTS Spinlocks,  \* the spinlocks uACPI has created
          Mutexes,    \* and its mutexes
          SciCalls,   \* the calls uACPI makes for the power button, in order
          SciDepth,   \* how many spinlocks it holds before each of them, and after
          MaxCalls,   \* bound on the calls of main
          MaxPresses, \* bound on how often the button is pressed
          Objects     \* objects the PMM can still provide to the cache

Frames == {"main", "sci"}
Cache  == "cache_lock"
Locks  == Spinlocks \cup {Cache}
Nobody == "nobody"

Calls == [call : {"lock"}, on : Spinlocks] \cup [call : {"acquire", "release"}, on : Mutexes]
            \cup [call : {"unlock", "alloc", "free", "clear", "disable", "enter", "restore"},
                  on : {Nobody}]

ASSUME UacpiHostAssumption ==
    /\ Cache \notin Spinlocks
    /\ SciCalls \in Seq(Calls)
    /\ MaxCalls \in Nat /\ MaxPresses \in Nat /\ Objects \in Nat

\* For the power button uACPI gives back every spinlock it takes, and holds none
\* where it allocates, which may end its work, or restores the interrupt flag.
ASSUME SciDepthAssumption ==
    /\ SciDepth \in [1..(Len(SciCalls) + 1) -> Nat]
    /\ SciDepth[1] = 0 /\ SciDepth[Len(SciCalls) + 1] = 0
    /\ \A i \in DOMAIN SciCalls :
          /\ SciCalls[i].call = "lock" => SciDepth[i + 1] = SciDepth[i] + 1
          /\ SciCalls[i].call = "unlock" => SciDepth[i] = SciDepth[i + 1] + 1
          /\ SciCalls[i].call \notin {"lock", "unlock"} => SciDepth[i + 1] = SciDepth[i]
          /\ SciCalls[i].call \in {"alloc", "restore"} => SciDepth[i] = 0

VARIABLES iflag,     \* RFLAGS.IF of the boot processor
          word,      \* word[l]: Nobody, or the frame that has set the lock's word
          at,        \* at[f]: where frame f is
          want,      \* want[f]: the lock its call is about
          held,      \* held[f]: the spinlocks it holds with the flags they saved
          mutex,     \* mutex[m]: the frames that have been granted mutex m
          avail,     \* objects the cache can still hand out
          objects,   \* objects[f]: the ones frame f has
          installed, \* is the power button's handler installed?
          pending,   \* is the button's status bit set?
          pc,        \* the next of SciCalls
          power,     \* "on" or "off"
          called, presses

vars == <<iflag, word, at, want, held, mutex, avail, objects, installed, pending, pc, power,
          called, presses>>
memory == <<avail, objects>>
button == <<installed, pending, presses>>

Init ==
    /\ iflag = TRUE
    /\ word = [l \in Locks |-> Nobody]
    /\ at = [main |-> "run", sci |-> "none"]
    /\ want = [f \in Frames |-> Nobody]
    /\ held = [f \in Frames |-> <<>>]
    /\ mutex = [m \in Mutexes |-> {}]
    /\ avail = Objects /\ objects = [f \in Frames |-> 0]
    /\ installed = FALSE /\ pending = FALSE
    /\ pc = 1 /\ power = "on"
    /\ called = 0 /\ presses = 0

\* The frame on top has the processor.
Running == IF at["sci"] = "none" THEN "main" ELSE "sci"
At(f, where) == power = "on" /\ Running = f /\ at[f] = where
Goes(f, where) == at' = [at EXCEPT ![f] = where]

\* The frame is free to make the call c next.
Calling(f, c) ==
    /\ At(f, "run")
    /\ \/ f = "main" /\ called < MaxCalls /\ called' = called + 1 /\ pc' = pc
       \/ f = "sci" /\ pc <= Len(SciCalls) /\ SciCalls[pc] = c /\ pc' = pc + 1
          /\ called' = called
Call(name, on) == [call |-> name, on |-> on]
Within(f, where) == At(f, where) /\ UNCHANGED <<called, pc>>

-----------------------------------------------------------------------------
(* uacpi_kernel_lock_spinlock and uacpi_kernel_unlock_spinlock.              *)

\* pushfq.
lock_spinlock(f, l) ==
    /\ Calling(f, Call("lock", l))
    /\ \A i \in DOMAIN held[f] : held[f][i].lock # l
    /\ held' = [held EXCEPT ![f] = Append(@, [lock |-> l, flags |-> iflag])]
    /\ want' = [want EXCEPT ![f] = l]
    /\ Goes(f, "cli")
    /\ UNCHANGED <<iflag, word, mutex, memory, button, power>>

\* cli; the mutated form has none.
masked_not(flag) == flag
masked(flag) == FALSE

lock_cli(f) ==
    /\ Within(f, "cli")
    /\ iflag' = masked(iflag)
    /\ Goes(f, "spin")
    /\ UNCHANGED <<word, want, held, mutex, memory, button, power>>

\* Spinlock::lock.  As long as the word is set the frame spins.
spin(f) ==
    /\ Within(f, "spin")
    /\ word[want[f]] = Nobody
    /\ word' = [word EXCEPT ![want[f]] = f]
    /\ want' = [want EXCEPT ![f] = Nobody]
    /\ Goes(f, "run")
    /\ UNCHANGED <<iflag, held, mutex, memory, button, power>>

unlock_spinlock(f) ==
    /\ Calling(f, Call("unlock", Nobody))
    /\ held[f] # <<>>
    /\ word' = [word EXCEPT ![Last(held[f]).lock] = Nobody]
    /\ Goes(f, "popfq")
    /\ UNCHANGED <<iflag, want, held, mutex, memory, button, power>>

\* popfq of the flags the lock saved; the mutated form is an sti.
restored_on(f) == TRUE
restored(f) == Last(held[f]).flags

unlock_popfq(f) ==
    /\ Within(f, "popfq")
    /\ iflag' = restored(f)
    /\ held' = [held EXCEPT ![f] = Front(@)]
    /\ Goes(f, "run")
    /\ UNCHANGED <<word, want, mutex, memory, button, power>>

\* uacpi_kernel_acquire_mutex and release: granted whoever has it.
acquire_mutex(f, m) ==
    /\ Calling(f, Call("acquire", m))
    /\ mutex' = [mutex EXCEPT ![m] = @ \cup {f}]
    /\ UNCHANGED <<iflag, word, at, want, held, memory, button, power>>

release_mutex(f, m) ==
    /\ Calling(f, Call("release", m)) /\ f \in mutex[m]
    /\ mutex' = [mutex EXCEPT ![m] = @ \ {f}]
    /\ UNCHANGED <<iflag, word, at, want, held, memory, button, power>>

-----------------------------------------------------------------------------
(* uacpi_kernel_alloc and free, also for the spinlocks themselves:           *)
(* KmemCache::alloc and free between acquire_lock and release_lock.          *)

cache_call(f, name, where) ==
    /\ Calling(f, Call(name, Nobody))
    /\ name = "free" => objects[f] > 0
    /\ Goes(f, where)
    /\ UNCHANGED <<iflag, word, want, held, mutex, memory, button, power>>

acquire_lock(f, from, to) ==
    /\ Within(f, from)
    /\ word[Cache] = Nobody
    /\ word' = [word EXCEPT ![Cache] = f]
    /\ Goes(f, to)
    /\ UNCHANGED <<iflag, want, held, mutex, memory, button, power>>

release_lock == [word EXCEPT ![Cache] = Nobody]

alloc(f) ==
    /\ Within(f, "alloc")
    /\ avail > 0
    /\ avail' = avail - 1 /\ objects' = [objects EXCEPT ![f] = @ + 1]
    /\ word' = release_lock
    /\ Goes(f, "run")
    /\ UNCHANGED <<iflag, want, held, mutex, button, power>>

\* What the way out of alloc without memory does to the lock; the mutated form
\* leaves it set.
release_on_failure_not == word
release_on_failure == release_lock

\* Out of memory: for uACPI the sleep state cannot be prepared; of the handler's
\* calls only the release of its mutexes is made.
alloc_fails(f) ==
    /\ At(f, "alloc")
    /\ avail = 0
    /\ word' = release_on_failure
    /\ \/ f = "main" /\ UNCHANGED <<pc, mutex>>
       \/ /\ f = "sci" /\ pc' = Len(SciCalls) + 1
          /\ mutex' = [m \in Mutexes |-> mutex[m] \ {f}]
    /\ Goes(f, "run")
    /\ UNCHANGED <<iflag, want, held, memory, button, power, called>>

free(f) ==
    /\ Within(f, "free")
    /\ avail' = avail + 1 /\ objects' = [objects EXCEPT ![f] = @ - 1]
    /\ word' = release_lock
    /\ Goes(f, "run")
    /\ UNCHANGED <<iflag, want, held, mutex, button, power>>

-----------------------------------------------------------------------------
(* The power button.                                                         *)

\* PowerManager::install_sci_handler, between two calls of main.
install_sci_handler ==
    /\ At("main", "run") /\ held["main"] = <<>> /\ ~installed
    /\ installed' = TRUE
    /\ UNCHANGED <<iflag, word, at, want, held, mutex, memory, pending, pc, power, called, presses>>

\* The user.
press ==
    /\ power = "on" /\ installed /\ presses < MaxPresses
    /\ pending' = TRUE /\ presses' = presses + 1
    /\ UNCHANGED <<iflag, word, at, want, held, mutex, memory, installed, pc, power, called>>

\* The interrupt gate clears IF.  A second one is held back until the EOI.
interrupt ==
    /\ power = "on" /\ at["sci"] = "none"
    /\ pending /\ iflag
    /\ iflag' = FALSE
    /\ Goes("sci", "run") /\ pc' = 1
    /\ UNCHANGED <<word, want, held, mutex, memory, button, power, called>>

\* The handler returns: EOI, and iretq brings the flag of the interrupted frame back.
iretq ==
    /\ At("sci", "run") /\ pc > Len(SciCalls)
    /\ iflag' = TRUE
    /\ Goes("sci", "none")
    /\ pc' = 1
    /\ UNCHANGED <<word, want, held, mutex, memory, button, power, called>>

\* uACPI clears the button's status bit.
clear_status ==
    /\ Calling("sci", Call("clear", Nobody))
    /\ pending' = FALSE
    /\ UNCHANGED <<iflag, word, at, want, held, mutex, memory, installed, presses, power>>

\* uacpi_kernel_disable_interrupts around the write to the sleep registers.
disable_interrupts ==
    /\ Calling("sci", Call("disable", Nobody))
    /\ iflag' = FALSE
    /\ UNCHANGED <<word, at, want, held, mutex, memory, button, power>>

\* The firmware may not go to S5.
enter_sleep_state ==
    /\ Calling("sci", Call("enter", Nobody))
    /\ power' \in {"on", "off"}
    /\ UNCHANGED <<iflag, word, at, want, held, mutex, memory, button>>

\* uacpi_kernel_restore_interrupts: on, whatever they were.
restore_interrupts ==
    /\ Calling("sci", Call("restore", Nobody))
    /\ iflag' = TRUE
    /\ UNCHANGED <<word, at, want, held, mutex, memory, button, power>>

\* kernel_main has come to its haltloop, or uacpi_init to a kernel_panic.
haltloop ==
    /\ At("main", "run") /\ held["main"] = <<>>
    /\ Goes("main", "halt")
    /\ UNCHANGED <<iflag, word, want, held, mutex, memory, button, pc, power, called>>

Step(f) ==
    \/ \E l \in Spinlocks : lock_spinlock(f, l)
    \/ lock_cli(f) \/ spin(f) \/ unlock_spinlock(f) \/ unlock_popfq(f)
    \/ \E m \in Mutexes : acquire_mutex(f, m) \/ release_mutex(f, m)
    \/ cache_call(f, "alloc", "to_alloc") \/ acquire_lock(f, "to_alloc", "alloc")
    \/ cache_call(f, "free", "to_free") \/ acquire_lock(f, "to_free", "free")
    \/ alloc(f) \/ alloc_fails(f) \/ free(f)

Handler == Step("sci") \/ clear_status \/ disable_interrupts \/ enter_sleep_state
             \/ restore_interrupts \/ iretq

Next == Step("main") \/ install_sci_handler \/ haltloop \/ press \/ interrupt \/ Handler

\* The processor goes on with the interrupt and with its handler.
Fairness == WF_vars(interrupt) /\ WF_vars(Handler)

Spec == Init /\ [][Next]_vars
FairSpec == Spec /\ Fairness

-----------------------------------------------------------------------------
(* Properties.                                                               *)

TypeOK ==
    /\ iflag \in BOOLEAN /\ installed \in BOOLEAN /\ pending \in BOOLEAN
    /\ word \in [Locks -> Frames \cup {Nobody}]
    /\ at \in [Frames -> {"run", "cli", "spin", "popfq", "to_alloc", "alloc", "to_free", "free",
                          "halt", "none"}]
    /\ held \in [Frames -> Seq([lock : Spinlocks, flags : BOOLEAN])]
    /\ want \in [Frames -> Locks \cup {Nobody}]
    /\ mutex \in [Mutexes -> SUBSET Frames]
    /\ objects \in [Frames -> Nat] /\ avail \in Nat
    /\ \A f \in Frames : at[f] \in {"to_free", "free"} => objects[f] > 0
    /\ power \in {"on", "off"} /\ pc \in 1..(Len(SciCalls) + 1)

\* Does frame sci spin on a lock that main, which it keeps from running, has set?
WaitsForMain(l) == word[l] = "main" /\ \/ at["sci"] = "spin" /\ want["sci"] = l
                                       \/ at["sci"] \in {"to_alloc", "to_free"} /\ l = Cache

\* The interrupt never spins on a uACPI spinlock of the code it has interrupted:
\* whoever holds one has interrupts off from before it is taken until after it is
\* given back, nested locks included (uacpi_osl.cpp 385-418).
SpinlockNeverSelfWaits == \A l \in Spinlocks : ~WaitsForMain(l)

\* The same of the lock of the kmalloc cache, which does not disable interrupts.
CacheNeverSelfWaits == ~WaitsForMain(Cache)

\* The interrupt flag is off while a spinlock is held and comes back on when the
\* last one is given back, to the frame that had it on, whatever interrupted it
\* in between: a lost flag would leave the machine deaf to the power button.
FlagFollowsLocks ==
    /\ \A f \in Frames : at[f] = "run" /\ Running = f /\ held[f] # <<>> => ~iflag
    /\ at["main"] \in {"run", "halt"} /\ Running = "main" => iflag = (held["main"] = <<>>)

\* A mutex of uACPI is held by one frame at a time.
MutexExclusive == \A m \in Mutexes : Cardinality(mutex[m]) <= 1

\* The power button is served once kernel_main has halted: the machine is off, or
\* uACPI could not do it and the handler has returned, although main may have run
\* out of memory or been interrupted anywhere before (power.cpp 16-23).
PowerButtonServed ==
    (pending /\ at["main"] = "halt") ~> (power = "off" \/ (at["sci"] = "none" /\ ~pending))

=============================================================================
