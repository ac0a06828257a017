------------------------------ MODULE KernelTime ------------------------------
(***************************************************************************)
(* KernelTime (timekeeping.cpp) over the three time sources it is handed   *)
(* during boot: the PIT, which counts interrupts, the TSC, and the HPET.   *)
(*                                                                         *)
(* `now' is real time; the sources count at fixed rates, so a second is NS *)
(* units of it (the code's 10^9, scaled), and a microsecond NS / US units. *)
(* uint64_t arithmetic is modulo Word.  KernelTime::initialize is taken    *)
(* assignment by assignment, because the SCI handler reads the clock (uACPI *)
(* asks for nanoseconds since boot) and delays in interrupts between any    *)
(* two of them.                                                            *)
(***************************************************************************)
EXTENDS Integers, TimeArith

CONSTANTS
    NS, US,         \* nanoseconds and microseconds in a second
    PitFreq,        \* DEFAULT_FREQ, interrupts per second; divides NS
    TscPerUnit,     \* counts of the TSC in one unit
    HpetFreq,       \* hpet_frequency
    Word,           \* 2^64 in the code
    Window,         \* the units PIT::poll_10ms takes
    Machines,       \* sets of what a machine has: "tsc" (invariant),
                    \* "cpuid" (the TSC's frequency), "hpet"
    Powerdowns,     \* the power button may be pressed
    MaxDelay,       \* bound: longest delay asked for, in microseconds
    MaxNow          \* bound: units of time modelled

ASSUME TimeAssumption ==
    /\ NS \in Nat \ {0} /\ US \in Nat \ {0} /\ PitFreq \in Nat \ {0}
    /\ TscPerUnit \in Nat \ {0} /\ HpetFreq \in Nat \ {0} /\ Word \in Nat \ {0}
    /\ NS % PitFreq = 0 /\ NS % US = 0
    /\ Window \in Nat /\ MaxDelay \in Nat /\ MaxNow \in Nat
    /\ Machines \subseteq SUBSET {"tsc", "cpuid", "hpet"}
    /\ Powerdowns \in BOOLEAN

VARIABLES
    now,
    has,        \* the machine
    began,      \* when the first source was installed
    main,       \* kernel_main: [at, until] and the delay it is in
    iflag,
    src,        \* source_timer: "none", "pit", "tsc" or "hpet"
    acc,        \* accumulated_monotonic_ns
    boot_ns,
    pit,        \* [on: PIT::initialized, rate: channel 0 counts, ticks,
                \* pending: IRQ 0 is latched]
    tsc_hz,
    hpet,       \* [start, init]: when the counter was reset, HPET::initialized
    handler,    \* the power-button handler: "none" or the delay it is in
    read        \* the latest value returned, and what it was read from:
                \* [val, at, src, torn, wraps, lag]
vars == <<now, has, began, main, iflag, src, acc, boot_ns, pit, tsc_hz, hpet, handler, read>>

NoDelay == [us |-> 0, from |-> 0, target |-> 0]
PitPeriod == NS \div PitFreq

-----------------------------------------------------------------------------
\* The sources' get_ns and the counters they read.
rdtsc == now * TscPerUnit
main_counter == ((now - hpet.start) * HpetFreq) \div NS
hpet_get_ticks == IF hpet.init THEN main_counter ELSE 0

pit_get_ns == ((pit.ticks * NS) % Word) \div PitFreq
mul_div_wraps(a, b, c) == ((a * b) % Word) \div c
mul_div(a, b, c) == mul_div_u64(a, b, c)
tsc_get_ns == mul_div(rdtsc, NS, tsc_hz)
hpet_get_ns == ((hpet_get_ticks * NS) % Word) \div HpetFreq
get_ns(s) == CASE s = "pit" -> pit_get_ns [] s = "tsc" -> tsc_get_ns
               [] s = "hpet" -> hpet_get_ns [] OTHER -> 0

Minus(a, b) == (a + Word - b) % Word
get_monotonic_ns == IF src = "none" THEN 0 ELSE (acc + Minus(get_ns(src), boot_ns)) % Word

-----------------------------------------------------------------------------
\* Boot, in the order of kernel_main.  A place "init_*" is inside
\* KernelTime::initialize; main.new is the source it installs.
Goto(from, to) == main.at = from /\ main' = [main EXCEPT !.at = to]
Enter(from, new, back) ==
    main.at = from /\ main' = [main EXCEPT !.at = "init_acc", !.new = new, !.back = back]
WaitWindow(from, to) ==
    main.at = from /\ main' = [main EXCEPT !.at = to, !.until = now + Window]

preserved_none(total, elapsed) == total
preserved(total, elapsed) == (total + elapsed) % Word
init_acc ==
    /\ Goto("init_acc", "init_src")
    /\ acc' = IF src = "none" THEN acc ELSE preserved(acc, Minus(get_ns(src), boot_ns))
    /\ UNCHANGED <<has, began, now, iflag, src, boot_ns, pit, tsc_hz, hpet, handler, read>>
init_src ==
    /\ Goto("init_src", "init_boot")
    /\ src' = main.new
    /\ UNCHANGED <<has, began, now, iflag, acc, boot_ns, pit, tsc_hz, hpet, handler, read>>
init_boot ==
    /\ Goto("init_boot", main.back)
    /\ boot_ns' = get_ns(src)
    /\ began' = IF src = "pit" THEN now ELSE began
    /\ UNCHANGED <<has, now, iflag, src, acc, pit, tsc_hz, hpet, handler, read>>

pit_initialize ==
    /\ Enter("pit", "pit", "warmup")
    /\ iflag' = FALSE
    /\ pit' = [pit EXCEPT !.rate = TRUE]
    /\ UNCHANGED <<has, began, now, src, acc, boot_ns, tsc_hz, hpet, handler, read>>
pit_warmup ==
    /\ WaitWindow("warmup", "warm")
    /\ UNCHANGED <<has, began, now, iflag, src, acc, boot_ns, pit, tsc_hz, hpet, handler, read>>
pit_initialized ==
    /\ main.at = "warm" /\ now >= main.until
    /\ main' = [main EXCEPT !.at = "tsc", !.until = 0]
    /\ pit' = [pit EXCEPT !.on = TRUE]
    /\ UNCHANGED <<has, began, now, iflag, src, acc, boot_ns, tsc_hz, hpet, handler, read>>

\* TSC::calibrate: interrupts off, the PIT demoted, then CPUID or a PIT window.
demoted(p) == [p EXCEPT !.on = FALSE, !.rate = FALSE]
tsc_absent ==
    /\ Goto("tsc", "sti") /\ "tsc" \notin has
    /\ UNCHANGED <<has, began, now, iflag, src, acc, boot_ns, pit, tsc_hz, hpet, handler, read>>
tsc_demote ==
    /\ "tsc" \in has
    /\ IF "cpuid" \in has THEN Goto("tsc", "tsc_hz") ELSE WaitWindow("tsc", "tsc_hz")
    /\ iflag' = FALSE
    /\ pit' = demoted(pit)
    /\ UNCHANGED <<has, began, now, src, acc, boot_ns, tsc_hz, hpet, handler, read>>
tsc_calibrated ==
    /\ main.at = "tsc_hz" /\ now >= main.until
    /\ main' = [main EXCEPT !.at = "init_acc", !.new = "tsc", !.back = "sti", !.until = 0]
    /\ tsc_hz' = NS * TscPerUnit
    /\ UNCHANGED <<has, began, now, iflag, src, acc, boot_ns, pit, hpet, handler, read>>

sti ==
    /\ Goto("sti", IF "hpet" \in has THEN "hpet" ELSE "idle")
    /\ iflag' = TRUE
    /\ UNCHANGED <<has, began, now, src, acc, boot_ns, pit, tsc_hz, hpet, handler, read>>

\* HPET::initialize resets and starts the counter, takes over from the PIT if
\* that is still on, demotes it, and only then sets HPET::initialized.
hpet_start_inverted ==
    /\ IF ~pit.on THEN Enter("hpet", "hpet", "hpet_demote") ELSE Goto("hpet", "hpet_init")
    /\ hpet' = [hpet EXCEPT !.start = now]
    /\ UNCHANGED <<has, began, now, iflag, src, acc, boot_ns, pit, tsc_hz, handler, read>>
hpet_start ==
    /\ IF pit.on THEN Enter("hpet", "hpet", "hpet_demote") ELSE Goto("hpet", "hpet_init")
    /\ hpet' = [hpet EXCEPT !.start = now]
    /\ UNCHANGED <<has, began, now, iflag, src, acc, boot_ns, pit, tsc_hz, handler, read>>
hpet_demote ==
    /\ Goto("hpet_demote", "hpet_init")
    /\ pit' = demoted(pit)
    /\ UNCHANGED <<has, began, now, iflag, src, acc, boot_ns, tsc_hz, hpet, handler, read>>
hpet_initialized ==
    /\ Goto("hpet_init", "idle")
    /\ hpet' = [hpet EXCEPT !.init = TRUE]
    /\ UNCHANGED <<has, began, now, iflag, src, acc, boot_ns, pit, tsc_hz, handler, read>>

boot_step == handler = NoDelay /\ (
    \/ pit_initialize \/ pit_warmup \/ pit_initialized \/ tsc_absent \/ tsc_demote
    \/ tsc_calibrated \/ sti \/ hpet_start \/ hpet_demote \/ hpet_initialized
    \/ init_acc \/ init_src \/ init_boot)

-----------------------------------------------------------------------------
\* delay_us of the source in place: a target count, then a loop on the counter.
Counter(s) == CASE s = "pit" -> pit.ticks [] s = "tsc" -> rdtsc [] OTHER -> hpet_get_ticks
TscTicks_early(us) == (us - 1) * (tsc_hz \div US)
TscTicks(us) == mul_div(us, tsc_hz, US)
HpetTicks(us) == us * (HpetFreq \div US)
TicksFor(s, us) ==
    CASE s = "pit" -> IF pit.on THEN ((us * PitFreq) % Word) \div US ELSE 0
      [] s = "tsc" -> TscTicks(us)
      [] OTHER     -> IF hpet.init THEN HpetTicks(us) ELSE 0
Delay(us) == [us |-> us, from |-> now, target |-> Counter(src) + TicksFor(src, us)]

delay_us(us) ==
    /\ main.at = "idle" /\ handler = NoDelay
    /\ main' = [main EXCEPT !.at = "delay", !.wait = Delay(us)]
    /\ UNCHANGED <<has, began, now, iflag, src, acc, boot_ns, pit, tsc_hz, hpet, handler, read>>
delay_over ==
    /\ main.at = "delay" /\ handler = NoDelay
    /\ main' = [main EXCEPT !.at = "idle", !.wait = NoDelay]
    /\ Counter(src) >= main.wait.target
    /\ UNCHANGED <<has, began, now, iflag, src, acc, boot_ns, pit, tsc_hz, hpet, handler, read>>

\* PowerManager::on_system_powerdown: the SCI interrupt, whose gate clears the
\* interrupt flag, waits MaxDelay and then switches the machine off.  Its handler
\* is installed (kernel_main.cpp 152) before HPET::initialize, with interrupts on.
on_system_powerdown ==
    /\ Powerdowns /\ iflag /\ handler = NoDelay
    /\ iflag' = FALSE
    /\ handler' = Delay(MaxDelay)
    /\ UNCHANGED <<has, began, now, main, src, acc, boot_ns, pit, tsc_hz, hpet, read>>
enter_sleep_state ==
    /\ handler # NoDelay /\ Counter(src) >= handler.target
    /\ main' = [main EXCEPT !.at = "off"]
    /\ handler' = NoDelay
    /\ UNCHANGED <<has, began, now, iflag, src, acc, boot_ns, pit, tsc_hz, hpet, read>>

-----------------------------------------------------------------------------
\* get_monotonic_ns by kernel_main between its calls, or by an interrupt handler
\* anywhere.  A value is torn when its interrupt came between the stores of
\* timekeeping.cpp 36 and 42; `wraps' is how often the 64-bit products of
\* pit.cpp:60 and hpet.cpp:117 have wrapped, `lag' the time the HPET has counted
\* while get_ticks still answers 0 (hpet.cpp:111).
Torn == main.at = "init_src" /\ src # "none"
Wraps == [pit  |-> (pit.ticks * NS) \div Word,
          hpet |-> IF src = "hpet" THEN (hpet_get_ticks * NS) \div Word ELSE 0]
Lag == IF src = "hpet" /\ ~hpet.init THEN now - hpet.start ELSE 0
read_time ==
    /\ handler = NoDelay
    /\ main.at \in {"warmup", "tsc", "sti", "hpet", "idle"} \/ iflag
    /\ read' = [val |-> get_monotonic_ns, at |-> now, src |-> src,
                torn |-> Torn, wraps |-> Wraps, lag |-> Lag]
    /\ UNCHANGED <<has, began, now, main, iflag, src, acc, boot_ns, pit, tsc_hz, hpet, handler>>

\* A unit of time passes; a loop that polls a counter notices its target
\* within the unit, an interrupt that can be taken is.  Channel 0 of the PIT
\* latches at most one interrupt.
Due == \/ handler # NoDelay /\ Counter(src) >= handler.target
       \/ main.at = "delay" /\ handler = NoDelay /\ Counter(src) >= main.wait.target
       \/ iflag /\ pit.pending
       \/ main.at \in {"warm", "tsc_hz"} /\ now >= main.until
tick ==
    /\ now < MaxNow /\ main.at \notin {"pit", "off"} /\ ~Due
    /\ now' = now + 1
    /\ pit' = [pit EXCEPT !.pending = @ \/ (pit.rate /\ (now + 1) % PitPeriod = 0)]
    /\ UNCHANGED <<has, began, main, iflag, src, acc, boot_ns, tsc_hz, hpet, handler, read>>
tick_handler ==
    /\ iflag /\ pit.pending
    /\ pit' = [pit EXCEPT !.pending = FALSE, !.ticks = @ + (IF pit.rate THEN 1 ELSE 0)]
    /\ UNCHANGED <<has, began, now, main, iflag, src, acc, boot_ns, tsc_hz, hpet, handler, read>>
time_ends == (now = MaxNow \/ main.at = "off") /\ UNCHANGED vars

Init ==
    /\ now = 0 /\ has \in Machines /\ began = 0 /\ iflag = FALSE /\ src = "none" /\ acc = 0 /\ boot_ns = 0 /\ tsc_hz = 0
    /\ main = [at |-> "pit", until |-> 0, new |-> "none", back |-> "pit", wait |-> NoDelay]
    /\ pit = [on |-> FALSE, rate |-> FALSE, ticks |-> 0, pending |-> FALSE]
    /\ hpet = [start |-> 0, init |-> FALSE]
    /\ handler = NoDelay
    /\ read = [val |-> 0, at |-> 0, src |-> "none", torn |-> FALSE,
               wraps |-> [pit |-> 0, hpet |-> 0], lag |-> 0]

Next ==
    \/ boot_step \/ read_time \/ tick \/ tick_handler \/ time_ends
    \/ (\E us \in 0 .. MaxDelay : delay_us(us)) \/ delay_over
    \/ on_system_powerdown \/ enter_sleep_state
Spec == Init /\ [][Next]_vars

-----------------------------------------------------------------------------
(* Properties *)

\* The variables keep their types, every 64-bit value fits its word, and
\* PIT::initialized is set only while channel 0 counts.
TypeOK ==
    /\ now \in 0 .. MaxNow /\ iflag \in BOOLEAN /\ has \in Machines
    /\ src \in {"none", "pit", "tsc", "hpet"}
    /\ acc \in 0 .. Word - 1 /\ boot_ns \in 0 .. Word - 1 /\ read.val \in 0 .. Word - 1
    /\ pit.on => pit.rate
    /\ pit \in [on : BOOLEAN, rate : BOOLEAN, ticks : 0 .. MaxNow, pending : BOOLEAN]

\* get_monotonic_ns returns less than it did before in two cases only: the
\* earlier value was read between the stores of KernelTime::initialize, or a
\* 64-bit product has wrapped since (the HPET's after 21 minutes at 14.318 MHz, the
\* PIT's after 213 days).  timekeeping.md 10 guarantees that it never does; where
\* the TSC is the source neither case occurs, through every change of source.
NeverBackwards ==
    [][read'.val < read.val => read.torn \/ read'.wraps # read.wraps]_read

\* Two reads of the TSC, or of the HPET, differ by the time that passed between
\* them, to one count of the source and its rounding.  An HPET value is behind by
\* Word / HpetFreq units for each wrap of its product, and, read by an interrupt
\* before HPET::initialized, by all the time since the counter was started; the
\* TSC's product never wraps.
Elapsed(r) == r.val + r.lag + (IF r.src = "hpet" THEN (r.wraps.hpet * Word) \div HpetFreq ELSE 0)
RateExact ==
    [][LET passed == read'.at - read.at
           grain  == IF src = "hpet" THEN 2 + NS \div HpetFreq ELSE 1
       IN  (read.src = read'.src /\ src \in {"tsc", "hpet"}) =>
            /\ Elapsed(read') - Elapsed(read) <= passed + grain
            /\ Elapsed(read') - Elapsed(read) >= passed - grain]_read

\* A delay on the TSC lasts at least as long as asked.
Lasted == (now - main.wait.from) * US >= main.wait.us * NS
TscDelayKept == [][main.at = "delay" /\ main'.at = "idle" /\ src = "tsc" => Lasted]_vars

\* timekeeping.md 12: any delay lasts at least as long as asked.
DelayKept == [][main.at = "delay" /\ main'.at = "idle" => Lasted]_vars

\* timekeeping.md 3: an upgrade does not lose track of elapsed time; after the
\* switch to the TSC the clock lags real time by no more than one PIT tick.
UpgradeKeepsTime ==
    read.src = "tsc" => read.at - began - read.val <= PitPeriod

\* The power-button handler's delay, with interrupts off, ends when it should,
\* to a tick of the PIT, except where it waits for the PIT: the machine has nothing
\* better, or the button is pressed before HPET::initialize has put the HPET in
\* place.  There the handler waits for ticks its own interrupt gate keeps out and the
\* machine never powers off, although PIT::initialize is to "guarantee a working
\* delay/tick system" (timekeeping.md 58).
OnPitOnly == has \cap {"tsc", "hpet"} = {} \/ main.at \in {"hpet", "init_acc", "init_src"}
PowerdownInTime ==
    handler # NoDelay =>
        \/ (now - handler.from) * US <= handler.us * NS + PitPeriod * US
        \/ src = "pit" /\ OnPitOnly
=============================================================================
