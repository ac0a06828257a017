-------------------------- MODULE KernelTimeProofs --------------------------
(***************************************************************************)
(* The clock and the delays of KernelTime, for every frequency of the      *)
(* sources, every machine and every width of a word, and the exactness of  *)
(* the scaled multiplication they use (TimeArith).  The last part is about *)
(* the battery-backed clock, module Rtc.                                   *)
(***************************************************************************)
EXTENDS KernelTime, Rtc, TLAPS

Sources == {"none", "pit", "tsc", "hpet"}
Installing == {"init_acc", "init_src", "init_boot"}
Resting == {"idle", "delay"}
Places == {"pit", "warmup", "warm", "tsc", "tsc_hz", "sti", "hpet", "hpet_demote",
           "hpet_init", "off"} \cup Installing \cup Resting

DelayType == [us : Nat, from : Nat, target : Nat]

MainType == [at : Places, until : Nat, new : Sources, back : Places, wait : DelayType]

ReadType == [val : Nat, at : Nat, src : Sources, torn : BOOLEAN,
             wraps : [pit : Nat, hpet : Nat], lag : Nat]

Types ==
    /\ now \in 0..MaxNow /\ has \in Machines /\ iflag \in BOOLEAN
    /\ main \in MainType
    /\ src \in Sources /\ acc \in Nat /\ boot_ns \in Nat /\ tsc_hz \in Nat
    /\ pit \in [on : BOOLEAN, rate : BOOLEAN, ticks : Nat, pending : BOOLEAN]
    /\ hpet \in [start : Nat, init : BOOLEAN] /\ hpet.start <= now
    /\ handler \in DelayType
    /\ read \in ReadType /\ read.at <= now

\* The source in place once the TSC was looked for, and after the HPET was.
AfterTsc == IF "tsc" \in has THEN "tsc" ELSE "pit"
AfterHpet == IF "tsc" \in has THEN "tsc" ELSE IF "hpet" \in has THEN "hpet" ELSE "pit"

\* Where kernel_main runs with interrupts on, once it has enabled them.
Interruptible ==
    \/ main.at \in {"hpet", "hpet_demote", "hpet_init"} \cup Resting
    \/ main.at \in Installing /\ main.new = "hpet"

\* Which source is in place where in kernel_main, and which of them run.
Stage ==
    /\ main.at = "pit" => src = "none"
    /\ main.at \in {"warmup", "warm", "tsc", "tsc_hz"} => src = "pit"
    /\ main.at = "tsc_hz" => "tsc" \in has /\ ~pit.on
    /\ main.at \in {"sti", "hpet"} => src = AfterTsc
    /\ main.at \in {"hpet", "hpet_demote", "hpet_init"} => "hpet" \in has
    /\ main.at = "tsc" => pit.on
    /\ main.at \in {"sti", "hpet"} => (pit.on <=> "tsc" \notin has)
    /\ main.at \in {"hpet_demote", "hpet_init"} \cup Resting => src = AfterHpet
    /\ main.at \in Installing =>
         /\ <<main.new, main.back>> \in {<<"pit", "warmup">>, <<"tsc", "sti">>,
                                         <<"hpet", "hpet_demote">>}
         /\ main.new = "tsc" => "tsc" \in has /\ ~pit.on
         /\ main.new = "hpet" => "hpet" \in has /\ "tsc" \notin has
         /\ src = IF main.at = "init_boot" THEN main.new
                  ELSE IF main.new = "pit" THEN "none" ELSE "pit"
    /\ src = "tsc" \/ (main.at \in Installing /\ main.new = "tsc") => tsc_hz = NS * TscPerUnit
    /\ hpet.init => main.at \in Resting \cup {"off"}
    /\ main.at \in Resting /\ "hpet" \in has => hpet.init
    /\ iflag \/ handler # NoDelay => Interruptible
    /\ handler # NoDelay => ~iflag

-----------------------------------------------------------------------------
(* What the counters are at a time t, and what a delay begun then waits for. *)

TscAt(t) == t * TscPerUnit
HpetAt(start, t) == ((t - start) * HpetFreq) \div NS
CountAt(s, start, t) == IF s = "tsc" THEN TscAt(t) ELSE HpetAt(start, t)
WaitOf(s, us) == IF s = "tsc" THEN (us * (NS \div US)) * TscPerUnit ELSE HpetTicks(us)

\* The delay d on source s began when its time says and waits for its ticks.
Begun(d, s, start, t) ==
    s \in {"tsc", "hpet"} =>
        /\ d.from <= t /\ (s = "hpet" => start <= d.from)
        /\ d.target = CountAt(s, start, d.from) + WaitOf(s, d.us)

\* The loop had not reached its target a unit of time before t.
Running(d, s, start, t) ==
    s \in {"tsc", "hpet"} => t = d.from \/ CountAt(s, start, t - 1) < d.target

\* The source in place counts: an HPET does not before HPET::initialized.
Counts == src = "hpet" => hpet.init

DelaysFollow ==
    /\ main.at = "delay" => Begun(main.wait, src, hpet.start, now)
    /\ handler # NoDelay /\ Counts => /\ Begun(handler, src, hpet.start, now)
                                      /\ Running(handler, src, hpet.start, now)
    /\ handler # NoDelay /\ ~Counts => handler.target = 0 /\ handler.from = now

-----------------------------------------------------------------------------
(* The clock.                                                               *)

\* The uptime in nanoseconds fits a word twice over: 292 years.
UptimeFits == 2 * MaxNow < Word

Pending == IF pit.pending THEN 1 ELSE 0
HpetNsAt(start, t) == (HpetAt(start, t) * NS) \div HpetFreq
AfterTscPlaces == {"sti", "hpet", "hpet_demote", "hpet_init"} \cup Resting

\* The time that has been counted: while a source is replaced, what is saved.
Passed == main.at \in {"init_src", "init_boot"} \/ src = "none"
Clock == IF Passed THEN acc ELSE acc + get_ns(src) - boot_ns

\* What the saved time and the new source's baseline can be.
Accounts == main.at # "off" =>
    /\ (pit.ticks + Pending) * PitPeriod <= now
    /\ ~Interruptible => pit.ticks = 0
    /\ acc <= now
    /\ src = "none" \/ (src = "pit" /\ main.at # "init_src") => acc = 0
    /\ src # "tsc" \/ main.at = "init_boot" => boot_ns = 0
    /\ src = "tsc" => boot_ns <= now

\* The latest value read is of no use as a bound for later ones.
Excused == read.torn \/ read.wraps # Wraps

HpetGrain == 2 + NS \div HpetFreq
Readings == main.at # "off" =>
    /\ Excused \/ read.val <= Clock
    /\ read.wraps.pit <= Wraps.pit /\ read.wraps.hpet <= Wraps.hpet
    /\ read.src = "tsc" => /\ src = "tsc" /\ main.at \in AfterTscPlaces
                           /\ read.val = acc + read.at - boot_ns /\ read.lag = 0
    /\ read.src = "hpet" => /\ src = "hpet" /\ hpet.start <= read.at
                            /\ Elapsed(read) <= acc + read.at - hpet.start
                            /\ Elapsed(read) >= acc + read.at - hpet.start - HpetGrain

-----------------------------------------------------------------------------
(* The scaled multiplication.                                               *)

\* Adding a multiple of the divisor to the dividend adds the factor to the
\* quotient.
LEMMA DivOfSum ==
    ASSUME NEW k \in Nat, NEW r \in Nat, NEW c \in Nat \ {0}
    PROVE  (c * k + r) \div c = k + r \div c
  OBVIOUS

LEMMA DivMod ==
    ASSUME NEW a \in Nat, NEW c \in Nat \ {0}
    PROVE  /\ a \div c \in Nat /\ a % c \in 0 .. c - 1
           /\ a = c * (a \div c) + (a % c)
  OBVIOUS

\* mul_div_u64 (math.cpp 24-28) is exact: splitting off the quotient before the
\* multiplication loses nothing of floor(a * b / c), so TSC::get_ns is the
\* floor of the true time for every counter value and frequency.
THEOREM MulDivExact ==
    ASSUME NEW a \in Nat, NEW b \in Nat, NEW c \in Nat \ {0}
    PROVE  mul_div_u64(a, b, c) = (a * b) \div c
  <1> DEFINE q == a \div c  r == a % c
  <1>1. q \in Nat /\ r \in 0 .. c - 1 /\ a = c * q + r
    BY DivMod
  <1> HIDE DEF q, r
  <1>2. r * b \in Nat /\ q * b \in Nat
    BY <1>1
  <1>3. a * b = c * (q * b) + r * b
    BY <1>1
  <1>4. (c * (q * b) + r * b) \div c = q * b + (r * b) \div c
    BY <1>2, DivOfSum
  <1> QED
    BY <1>3, <1>4 DEF mul_div_u64, mul_div_u64_raw, q, r

\* The 128-by-64-bit division of mul_div_u64_raw never overflows: its quotient
\* is at most the second factor, so divq raises no #DE.
THEOREM RawQuotientFits ==
    ASSUME NEW a \in Nat, NEW b \in Nat, NEW c \in Nat \ {0}
    PROVE  mul_div_u64_raw(a % c, b, c) \in 0 .. b
  <1> DEFINE r == a % c  z == (r * b) \div c  s == (r * b) % c
  <1>1. r \in 0 .. c - 1
    BY DivMod
  <1>2. r * b \in Nat
    BY <1>1
  <1>3. z \in Nat /\ s \in 0 .. c - 1 /\ r * b = c * z + s
    BY <1>2, DivMod
  <1> HIDE DEF r, z, s
  <1>4. r * b <= c * b
    BY <1>1
  <1>5. c * z <= c * b
    BY <1>2, <1>3, <1>4
  <1>6. z <= b
    BY <1>3, <1>5
  <1> QED
    BY <1>3, <1>6 DEF mul_div_u64_raw, r, z

-----------------------------------------------------------------------------
(* Arithmetic of rates.                                                     *)

LEMMA MulMono ==
    ASSUME NEW a \in Int, NEW b \in Int, NEW k \in Nat, a <= b
    PROVE  a * k <= b * k
OBVIOUS

LEMMA MulCancel ==
    ASSUME NEW a \in Int, NEW b \in Int, NEW k \in Nat \ {0}
    PROVE  /\ a * k <= b * k => a <= b
           /\ a * k < b * k => a < b
<1>1. a > b => a * k > b * k
  OBVIOUS
<1>2. a >= b => a * k >= b * k
  OBVIOUS
<1>3. QED
  BY <1>1, <1>2

\* The quotient is the whole number of times the divisor goes into the dividend.
LEMMA DivBounds ==
    ASSUME NEW a \in Nat, NEW c \in Nat \ {0}
    PROVE  a \div c \in Nat /\ c * (a \div c) <= a /\ a < c * (a \div c) + c
<1> DEFINE q == a \div c
           r == a % c
<1>1. q \in Nat /\ r \in 0..c - 1 /\ a = c * q + r
  BY DivMod
<1> HIDE DEF q, r
<1>2. c * q \in Nat
  BY <1>1
<1>3. QED
  BY <1>1, <1>2 DEF q

LEMMA DivMono ==
    ASSUME NEW a \in Nat, NEW b \in Nat, NEW c \in Nat \ {0}, a <= b
    PROVE  a \div c <= b \div c
OBVIOUS

LEMMA DivExact ==
    ASSUME NEW a \in Nat, NEW c \in Nat \ {0}
    PROVE  (a * c) \div c = a
<1>1. c * a + 0 = a * c
  OBVIOUS
<1>2. (c * a + 0) \div c = a + 0 \div c
  BY DivOfSum
<1>3. 0 \div c = 0
  OBVIOUS
<1>4. QED
  BY <1>1, <1>2, <1>3

\* The nanoseconds of a whole number of a coarser unit are a whole number of it.
LEMMA Units ==
    ASSUME NEW n \in Nat, NEW u \in Nat \ {0}, n % u = 0
    PROVE  n \div u \in Nat /\ n = (n \div u) * u
BY DivMod

\* The time a count stands for is at most the time, by at most one count and one unit.
LEMMA CountToTime ==
    ASSUME NEW x \in Nat, NEW h \in Nat \ {0}, NEW ns \in Nat \ {0}
    PROVE  LET v == (((x * h) \div ns) * ns) \div h
           IN  v \in Nat /\ v <= x /\ x - v <= 1 + ns \div h
<1> DEFINE q == (x * h) \div ns
           v == (q * ns) \div h
           e == x - v
           g == ns \div h
<1>1. x * h \in Nat
  OBVIOUS
<1>2. q \in Nat /\ ns * q <= x * h /\ x * h < ns * q + ns
  BY <1>1, DivBounds
<1> HIDE DEF q
<1>3. q * ns \in Nat /\ q * ns = ns * q
  BY <1>2
<1>4. v \in Nat /\ h * v <= q * ns /\ q * ns < h * v + h
  BY <1>3, DivBounds
<1> HIDE DEF v
<1>5. h * v = v * h /\ v * h \in Nat
  BY <1>4
<1>6. v * h <= x * h
  BY ONLY <1>1, <1>2, <1>3, <1>4, <1>5
<1>7. v <= x
  BY <1>4, <1>6, MulCancel
<1>8. x * h < v * h + h + ns
  BY ONLY <1>1, <1>2, <1>3, <1>4, <1>5, ns \in Nat, h \in Nat
<1>9. g \in Nat /\ ns < h * g + h
  BY DivBounds
<1> HIDE DEF g
<1>10. (v + g + 2) * h = v * h + h * g + h + h
  BY <1>4, <1>9
<1>11. x * h < (v + g + 2) * h
  <2>1. h * g \in Nat
    BY <1>9
  <2>2. QED
    BY ONLY <1>1, <1>5, <1>8, <1>9, <1>10, <2>1, ns \in Nat, h \in Nat
<1>12. x < v + g + 2
  <2>1. v + g + 2 \in Int
    BY <1>4, <1>9
  <2>2. QED
    BY <1>11, <2>1, MulCancel
<1>13. v \in Nat /\ v <= x /\ x - v <= 1 + g
  BY <1>4, <1>7, <1>9, <1>12
<1>14. QED
  BY <1>13 DEF v, q, g

-----------------------------------------------------------------------------
(* The delays in these rates.                                               *)

\* A microsecond and a tick of the PIT are whole numbers of units.
LEMMA WholeUnits ==
    /\ NS \in Nat \ {0} /\ US \in Nat \ {0} /\ PitFreq \in Nat \ {0}
    /\ NS \div US \in Nat \ {0} /\ NS = (NS \div US) * US
    /\ PitPeriod \in Nat \ {0} /\ NS = PitPeriod * PitFreq
<1>1. NS \div US \in Nat /\ NS = (NS \div US) * US
  BY TimeAssumption, Units
<1>2. PitPeriod \in Nat /\ NS = PitPeriod * PitFreq
  BY TimeAssumption, Units DEF PitPeriod
<1>3. NS \div US # 0
  BY <1>1, TimeAssumption
<1>4. PitPeriod # 0
  BY <1>2, TimeAssumption
<1>5. QED
  BY <1>1, <1>2, <1>3, <1>4, TimeAssumption

\* The counts of the TSC that TSC::delay_us waits for are those of whole units.
LEMMA TscTicksExact ==
    ASSUME NEW us \in Nat, tsc_hz = NS * TscPerUnit
    PROVE  TscTicks(us) \in Nat /\ TscTicks(us) = (us * (NS \div US)) * TscPerUnit
<1> DEFINE k == NS \div US
<1>1. k \in Nat /\ NS = k * US /\ US \in Nat \ {0} /\ TscPerUnit \in Nat
  BY WholeUnits, TimeAssumption
<1> HIDE DEF k
<1>2. tsc_hz \in Nat
  BY <1>1
<1>3. TscTicks(us) = (us * tsc_hz) \div US
  BY <1>1, <1>2, MulDivExact DEF TscTicks, mul_div
<1>4. us * tsc_hz = ((us * k) * TscPerUnit) * US
  BY <1>1
<1>5. (us * k) * TscPerUnit \in Nat
  BY <1>1
<1>6. QED
  BY <1>1, <1>3, <1>4, <1>5, DivExact DEF k

\* A loop on the TSC that has reached its target has lasted.
LEMMA TscLasts ==
    ASSUME NEW n \in Nat, NEW f \in Nat, NEW us \in Nat,
           TscAt(n) >= TscAt(f) + (us * (NS \div US)) * TscPerUnit
    PROVE  (n - f) * US >= us * NS
<1> DEFINE k == NS \div US
<1>1. k \in Nat /\ NS = k * US /\ US \in Nat \ {0} /\ TscPerUnit \in Nat \ {0}
  BY WholeUnits, TimeAssumption
<1>2. n * TscPerUnit >= f * TscPerUnit + (us * k) * TscPerUnit
  BY DEF TscAt
<1> HIDE DEF k
<1>3. us * k \in Nat
  BY <1>1
<1>4. (f + us * k) * TscPerUnit = f * TscPerUnit + (us * k) * TscPerUnit
  BY <1>1, <1>3
<1>5. (f + us * k) * TscPerUnit <= n * TscPerUnit
  BY <1>1, <1>2, <1>3, <1>4
<1>6. f + us * k <= n
  BY <1>1, <1>3, <1>5, MulCancel
<1>7. us * k <= n - f
  BY <1>3, <1>6
<1>8. (us * k) * US <= (n - f) * US
  BY <1>1, <1>3, <1>7, MulMono
<1>9. (us * k) * US = us * NS
  BY <1>1
<1>10. us * NS \in Nat /\ (n - f) * US \in Int
  BY <1>1
<1>11. QED
  BY ONLY <1>8, <1>9, <1>10

\* One that has not reached it is not over its time.
LEMMA TscEnds ==
    ASSUME NEW n \in Nat, NEW f \in Nat, NEW us \in Nat,
           TscAt(n) < TscAt(f) + (us * (NS \div US)) * TscPerUnit
    PROVE  (n + 1 - f) * US <= us * NS
<1> DEFINE k == NS \div US
<1>1. k \in Nat /\ NS = k * US /\ US \in Nat \ {0} /\ TscPerUnit \in Nat \ {0}
  BY WholeUnits, TimeAssumption
<1>2. n * TscPerUnit < f * TscPerUnit + (us * k) * TscPerUnit
  BY DEF TscAt
<1> HIDE DEF k
<1>3. us * k \in Nat
  BY <1>1
<1>4. (f + us * k) * TscPerUnit = f * TscPerUnit + (us * k) * TscPerUnit
  BY <1>1, <1>3
<1>5. n * TscPerUnit < (f + us * k) * TscPerUnit
  BY <1>1, <1>2, <1>3, <1>4
<1>6. n < f + us * k
  BY <1>1, <1>3, <1>5, MulCancel
<1>7. n + 1 - f <= us * k
  BY <1>3, <1>6
<1>8. (n + 1 - f) * US <= (us * k) * US
  BY <1>1, <1>3, <1>7, MulMono
<1>9. (us * k) * US = us * NS
  BY <1>1
<1>10. us * NS \in Nat /\ (n + 1 - f) * US \in Int
  BY <1>1
<1>11. QED
  BY ONLY <1>8, <1>9, <1>10

\* The same of a loop on the HPET, whose ticks are counted in whole ones a microsecond.
LEMMA HpetEnds ==
    ASSUME NEW n \in Nat, NEW f \in Nat, NEW us \in Nat, NEW start \in Nat,
           start <= f, f <= n, HpetAt(start, n) < HpetAt(start, f) + HpetTicks(us)
    PROVE  (n + 1 - f) * US <= us * NS + US
<1> DEFINE a == (n - start) * HpetFreq
           b == (f - start) * HpetFreq
           g == HpetFreq \div US
           d == n - f
<1>1. /\ NS \in Nat \ {0} /\ US \in Nat \ {0} /\ HpetFreq \in Nat \ {0}
      /\ d \in Nat
  BY TimeAssumption
<1>2. a \in Nat /\ b \in Nat /\ a = b + d * HpetFreq
  BY <1>1
<1>3. g \in Nat /\ US * g <= HpetFreq
  BY <1>1, DivBounds
<1>4. a \div NS < b \div NS + us * g
  BY DEF HpetAt, HpetTicks
<1> HIDE DEF a, b, g
<1> DEFINE p == a \div NS
           q == b \div NS
<1>5. /\ p \in Nat /\ a < NS * p + NS
      /\ q \in Nat /\ NS * q <= b
  BY <1>1, <1>2, DivBounds
<1>6. p < q + us * g
  BY <1>4
<1> HIDE DEF p, q
<1>7. us * g \in Nat
  BY <1>3
<1>8. (p + 1) * NS <= (q + us * g) * NS
  BY <1>1, <1>5, <1>6, <1>7, MulMono
<1>9. (p + 1) * NS = NS * p + NS /\ (q + us * g) * NS = NS * q + NS * (us * g)
  BY <1>1, <1>5, <1>7
<1> DEFINE m == d * HpetFreq
           w == NS * (us * g)
<1>10. m \in Nat /\ w \in Nat /\ NS * p \in Nat /\ NS * q \in Nat
  BY <1>1, <1>5, <1>7
<1>11. m < w
  BY ONLY <1>1, <1>2, <1>5, <1>8, <1>9, <1>10
<1>12. m * US < w * US
  BY <1>1, <1>10, <1>11
<1>13. m * US = (d * US) * HpetFreq
  BY <1>1
<1>14. w * US = (US * g) * (us * NS)
  BY <1>1, <1>3, <1>7
<1>15. (US * g) * (us * NS) <= HpetFreq * (us * NS)
  BY <1>1, <1>3, MulMono
<1>16. HpetFreq * (us * NS) = (us * NS) * HpetFreq /\ (us * NS) * HpetFreq \in Nat
       /\ m * US \in Nat /\ w * US \in Nat
  BY <1>1, <1>10
<1>17. (d * US) * HpetFreq < (us * NS) * HpetFreq
  BY ONLY <1>12, <1>13, <1>14, <1>15, <1>16
<1>18. d * US \in Nat /\ us * NS \in Nat
  BY <1>1
<1>19. d * US < us * NS
  BY <1>1, <1>17, <1>18, MulCancel
<1>20. (n + 1 - f) * US = d * US + US
  BY <1>1
<1>21. QED
  BY <1>1, <1>18, <1>19, <1>20

-----------------------------------------------------------------------------
(* Types.                                                                   *)

LEMMA WrapNat ==
    ASSUME NEW a \in Int
    PROVE  a % Word \in 0..Word - 1
BY TimeAssumption

LEMMA MulDivNat ==
    ASSUME NEW a \in Nat, NEW b \in Nat, NEW c \in Nat \ {0}
    PROVE  mul_div(a, b, c) \in Nat /\ mul_div(a, b, c) = (a * b) \div c
<1>1. a * b \in Nat
  OBVIOUS
<1>2. QED
  BY <1>1, MulDivExact, DivBounds DEF mul_div

LEMMA HpetCounts ==
    ASSUME NEW start \in Nat, NEW t \in Nat, start <= t
    PROVE  HpetAt(start, t) \in Nat /\ HpetNsAt(start, t) \in Nat
<1>1. NS \in Nat \ {0} /\ HpetFreq \in Nat \ {0}
  BY TimeAssumption
<1>2. (t - start) * HpetFreq \in Nat
  BY <1>1
<1>3. HpetAt(start, t) \in Nat
  BY <1>1, <1>2, DivBounds DEF HpetAt
<1>4. HpetAt(start, t) * NS \in Nat
  BY <1>1, <1>3
<1>5. QED
  BY <1>1, <1>3, <1>4, DivBounds DEF HpetNsAt

LEMMA TicksNat ==
    ASSUME Types
    PROVE  hpet_get_ticks \in Nat /\ rdtsc \in Nat /\ now \in Nat
<1>1. now \in Nat
  BY TimeAssumption DEF Types
<1>2. rdtsc \in Nat
  BY <1>1, TimeAssumption DEF rdtsc
<1>3. HpetAt(hpet.start, now) \in Nat
  BY <1>1, HpetCounts DEF Types
<1>4. QED
  BY <1>1, <1>2, <1>3 DEF hpet_get_ticks, main_counter, HpetAt

\* The source in place answers a count, a number of ticks and nanoseconds.
LEMMA SourceTypes ==
    ASSUME Types, src = "tsc" => tsc_hz = NS * TscPerUnit
    PROVE  /\ Counter(src) \in Nat /\ get_ns(src) \in Nat
           /\ \A us \in Nat : TicksFor(src, us) \in Nat
<1>1. /\ NS \in Nat \ {0} /\ US \in Nat \ {0} /\ PitFreq \in Nat \ {0}
      /\ TscPerUnit \in Nat \ {0} /\ HpetFreq \in Nat \ {0} /\ Word \in Nat \ {0}
      /\ pit.ticks \in Nat /\ src \in Sources
  BY TimeAssumption DEF Types
<1>2. hpet_get_ticks \in Nat /\ rdtsc \in Nat
  BY TicksNat
<1>3. Counter(src) \in Nat
  BY <1>1, <1>2 DEF Counter
<1>4. pit_get_ns \in Nat /\ hpet_get_ns \in Nat
  <2>1. pit.ticks * NS \in Int /\ hpet_get_ticks * NS \in Int
    BY <1>1, <1>2
  <2>2. (pit.ticks * NS) % Word \in Nat /\ (hpet_get_ticks * NS) % Word \in Nat
    BY <1>1, <2>1, WrapNat
  <2>3. QED
    BY <1>1, <2>2, DivBounds DEF pit_get_ns, hpet_get_ns
<1>5. src = "tsc" => tsc_get_ns \in Nat
  <2>1. NS * TscPerUnit \in Nat \ {0}
    BY <1>1
  <2>2. QED
    BY <1>1, <1>2, <2>1, MulDivNat DEF tsc_get_ns
<1>6. get_ns(src) \in Nat
  BY <1>1, <1>4, <1>5 DEF get_ns, Sources
<1>7. ASSUME NEW us \in Nat PROVE TicksFor(src, us) \in Nat
  <2>1. CASE src = "tsc"
    BY <2>1, TscTicksExact DEF TicksFor
  <2>2. CASE src = "pit"
    <3>1. us * PitFreq \in Int
      BY <1>1
    <3>2. ((us * PitFreq) % Word) \in Nat
      BY <1>1, <3>1, WrapNat
    <3>3. ((us * PitFreq) % Word) \div US \in Nat
      BY <1>1, <3>2, DivBounds
    <3>4. QED
      BY <2>2, <3>3 DEF TicksFor
  <2>3. CASE src \notin {"tsc", "pit"}
    <3>1. HpetFreq \div US \in Nat
      BY <1>1, DivBounds
    <3>2. HpetTicks(us) \in Nat
      BY <3>1 DEF HpetTicks
    <3>3. QED
      BY <2>3, <3>2 DEF TicksFor
  <2>4. QED
    BY <2>1, <2>2, <2>3
<1>8. QED
  BY <1>3, <1>6, <1>7

LEMMA DelayTypes ==
    ASSUME Types, src = "tsc" => tsc_hz = NS * TscPerUnit, NEW us \in Nat
    PROVE  Delay(us) \in DelayType
<1>1. now \in Nat /\ Counter(src) \in Nat /\ TicksFor(src, us) \in Nat
  BY SourceTypes, TicksNat
<1>2. Counter(src) + TicksFor(src, us) \in Nat
  BY <1>1
<1>3. QED
  BY <1>1, <1>2 DEF Delay, DelayType

LEMMA MonotonicNat ==
    ASSUME NEW a \in Nat, NEW b \in Nat, NEW c \in Nat
    PROVE  Minus(a, b) \in Nat /\ (c + Minus(a, b)) % Word \in Nat
<1>1. Word \in Nat \ {0}
  BY TimeAssumption
<1>2. Minus(a, b) \in Nat
  BY <1>1, WrapNat DEF Minus
<1>3. QED
  BY <1>1, <1>2, WrapNat

LEMMA WrapsNat ==
    ASSUME Types
    PROVE  Wraps \in [pit : Nat, hpet : Nat] /\ Lag \in Nat
<1>1. /\ pit.ticks \in Nat /\ hpet_get_ticks \in Nat /\ now \in Nat /\ hpet.start \in Nat
      /\ hpet.start <= now /\ NS \in Nat /\ Word \in Nat \ {0}
  BY TicksNat, TimeAssumption DEF Types
<1>2. pit.ticks * NS \in Nat /\ hpet_get_ticks * NS \in Nat
  BY <1>1
<1>3. (pit.ticks * NS) \div Word \in Nat /\ (hpet_get_ticks * NS) \div Word \in Nat
  BY <1>1, <1>2, DivBounds
<1>4. QED
  BY <1>1, <1>3 DEF Wraps, Lag

\* The ways kernel_main's place changes.
LEMMA MainGoes ==
    ASSUME Types, NEW place, NEW to \in Places, Goto(place, to)
    PROVE  /\ main' \in MainType /\ main.at = place /\ main'.at = to
           /\ main'.new = main.new /\ main'.back = main.back /\ main'.wait = main.wait
BY DEF Types, Goto, MainType

LEMMA MainEnters ==
    ASSUME Types, NEW place, NEW new \in Sources, NEW back \in Places, Enter(place, new, back)
    PROVE  /\ main' \in MainType /\ main.at = place /\ main'.at = "init_acc"
           /\ main'.new = new /\ main'.back = back /\ main'.wait = main.wait
BY DEF Types, Enter, MainType, Places, Installing

LEMMA MainWaits ==
    ASSUME Types, NEW place, NEW to \in Places, WaitWindow(place, to)
    PROVE  /\ main' \in MainType /\ main.at = place /\ main'.at = to
           /\ main'.new = main.new /\ main'.back = main.back /\ main'.wait = main.wait
<1>1. now + Window \in Nat
  BY TicksNat, TimeAssumption
<1>2. QED
  BY <1>1 DEF Types, WaitWindow, MainType

-----------------------------------------------------------------------------
(* Which source is in place.                                                *)

Base == Types /\ Stage

LEMMA InitBase == Init => Base
<1> SUFFICES ASSUME Init PROVE Base
  OBVIOUS
<1>1. main \in MainType /\ main.at = "pit"
  BY DEF Init, MainType, Places, Sources, DelayType, NoDelay
<1>2. Types
  <2>1. NoDelay \in DelayType /\ 0 \in 0..MaxNow
    BY TimeAssumption DEF NoDelay, DelayType
  <2>2. /\ hpet \in [start : Nat, init : BOOLEAN] /\ hpet.start = 0
        /\ read \in ReadType /\ read.at = 0
        /\ pit \in [on : BOOLEAN, rate : BOOLEAN, ticks : Nat, pending : BOOLEAN]
    BY DEF Init, Sources, ReadType
  <2>3. now \in 0..MaxNow /\ hpet.start <= now /\ read.at <= now
    BY <2>1, <2>2 DEF Init
  <2>4. acc \in Nat /\ boot_ns \in Nat /\ tsc_hz \in Nat /\ src \in Sources
    BY DEF Init, Sources
  <2>5. QED
    BY <1>1, <2>1, <2>2, <2>3, <2>4, Zenon DEF Init, Types
<1>3. Stage
  BY <1>1 DEF Init, Stage, Interruptible, Installing, Resting
<1>4. QED
  BY <1>2, <1>3 DEF Base

LEMMA BaseInitAcc == ASSUME Base, init_acc PROVE Base'
<1>1. Types /\ Stage
  BY DEF Base
<1>2. src = "tsc" => tsc_hz = NS * TscPerUnit
  BY <1>1 DEF Stage
<1>3. get_ns(src) \in Nat /\ acc \in Nat /\ boot_ns \in Nat
  BY <1>1, <1>2, SourceTypes DEF Types
<1>4. acc' \in Nat
  BY <1>1, <1>3, MonotonicNat DEF init_acc, preserved
<1>5. /\ main' \in MainType /\ main.at = "init_acc" /\ main'.at = "init_src"
      /\ main'.new = main.new /\ main'.back = main.back
  BY <1>1, MainGoes DEF init_acc, Places, Installing, Resting
<1>6. Types'
  BY <1>1, <1>2, <1>3, <1>4, <1>5, TimeAssumption DEF init_acc, Types
<1>7. Stage'
  BY <1>1, <1>2, <1>3, <1>4, <1>5 DEF init_acc, Stage, Interruptible, AfterTsc, AfterHpet, Installing, Resting
<1>8. QED
  BY <1>6, <1>7 DEF Base

LEMMA BaseInitSrc == ASSUME Base, init_src PROVE Base'
<1>1. Types /\ Stage
  BY DEF Base
<1>2. /\ main' \in MainType /\ main.at = "init_src" /\ main'.at = "init_boot"
      /\ main'.new = main.new /\ main'.back = main.back
  BY <1>1, MainGoes DEF init_src, Places, Installing, Resting
<1>3. main.new \in Sources
  BY <1>1 DEF Types, MainType
<1>4. Types'
  BY <1>1, <1>2, <1>3, TimeAssumption DEF init_src, Types
<1>5. Stage'
  BY <1>1, <1>2, <1>3 DEF init_src, Stage, Interruptible, AfterTsc, AfterHpet, Installing, Resting
<1>6. QED
  BY <1>4, <1>5 DEF Base

LEMMA BaseInitBoot == ASSUME Base, init_boot PROVE Base'
<1>1. Types /\ Stage
  BY DEF Base
<1>2. src = "tsc" => tsc_hz = NS * TscPerUnit
  BY <1>1 DEF Stage
<1>3. get_ns(src) \in Nat /\ acc \in Nat /\ boot_ns \in Nat
  BY <1>1, <1>2, SourceTypes DEF Types
<1>4. main.back \in Places
  BY <1>1 DEF Types, MainType
<1>5. /\ main' \in MainType /\ main.at = "init_boot" /\ main'.at = main.back
      /\ main'.new = main.new /\ main'.back = main.back
  BY <1>1, <1>4, MainGoes DEF init_boot
<1>6. boot_ns' \in Nat
  BY <1>3 DEF init_boot
<1>7. /\ src = main.new /\ ~hpet.init
      /\ iflag \/ handler # NoDelay => main.new = "hpet"
      /\ handler # NoDelay => ~iflag
      /\ \/ main.new = "pit" /\ main.back = "warmup"
         \/ main.new = "tsc" /\ main.back = "sti" /\ "tsc" \in has /\ ~pit.on
         \/ main.new = "hpet" /\ main.back = "hpet_demote" /\ "hpet" \in has /\ "tsc" \notin has
  BY <1>1, <1>5 DEF Stage, Interruptible, Installing, Resting
<1>8. UNCHANGED <<has, src, pit, tsc_hz, hpet, handler, iflag>>
  BY DEF init_boot
<1>9. Types'
  BY <1>1, <1>2, <1>3, <1>4, <1>5, <1>6, <1>7, <1>8, TimeAssumption DEF init_boot, Types
<1>10. Stage'
  BY ONLY <1>2, <1>5, <1>7, <1>8 DEF init_boot, Stage, Interruptible, AfterTsc, AfterHpet, Installing, Resting
<1>11. QED
  BY <1>9, <1>10 DEF Base

LEMMA BasePit == ASSUME Base, pit_initialize PROVE Base'
<1>1. Types /\ Stage
  BY DEF Base
<1>2. main' \in MainType /\ main.at = "pit" /\ main'.at = "init_acc"
      /\ main'.new = "pit" /\ main'.back = "warmup"
  BY <1>1, MainEnters DEF pit_initialize, Places, Sources, Installing
<1>3. Types'
  BY <1>1, <1>2, TimeAssumption DEF pit_initialize, Types
<1>4. Stage'
  BY <1>1, <1>2 DEF pit_initialize, Stage, Interruptible, AfterTsc, AfterHpet, Installing, Resting
<1>5. QED
  BY <1>3, <1>4 DEF Base

LEMMA BaseWarmup == ASSUME Base, pit_warmup PROVE Base'
<1>1. Types /\ Stage
  BY DEF Base
<1>2. /\ main' \in MainType /\ main.at = "warmup" /\ main'.at = "warm"
      /\ main'.new = main.new /\ main'.back = main.back
  BY <1>1, MainWaits DEF pit_warmup, Places, Installing, Resting
<1>3. Types'
  BY <1>1, <1>2, TimeAssumption DEF pit_warmup, Types
<1>4. Stage'
  BY <1>1, <1>2 DEF pit_warmup, Stage, Interruptible, AfterTsc, AfterHpet, Installing, Resting
<1>5. QED
  BY <1>3, <1>4 DEF Base

LEMMA BasePitOn == ASSUME Base, pit_initialized PROVE Base'
<1>1. Types /\ Stage
  BY DEF Base
<1>2. /\ main' \in MainType /\ main.at = "warm" /\ main'.at = "tsc"
      /\ main'.new = main.new /\ main'.back = main.back
  BY <1>1 DEF pit_initialized, Types, MainType, Places
<1>3. pit'.on /\ pit' \in [on : BOOLEAN, rate : BOOLEAN, ticks : Nat, pending : BOOLEAN]
  BY <1>1 DEF pit_initialized, Types
<1>4. Types'
  BY <1>1, <1>2, <1>3, TimeAssumption DEF pit_initialized, Types
<1>5. Stage'
  BY <1>1, <1>2, <1>3 DEF pit_initialized, Stage, Interruptible, AfterTsc, AfterHpet, Installing, Resting
<1>6. QED
  BY <1>4, <1>5 DEF Base

LEMMA BaseTscAbsent == ASSUME Base, tsc_absent PROVE Base'
<1>1. Types /\ Stage
  BY DEF Base
<1>2. /\ main' \in MainType /\ main.at = "tsc" /\ main'.at = "sti"
      /\ main'.new = main.new /\ main'.back = main.back
  BY <1>1, MainGoes DEF tsc_absent, Places, Installing, Resting
<1>3. Types'
  BY <1>1, <1>2, TimeAssumption DEF tsc_absent, Types
<1>4. Stage'
  BY <1>1, <1>2 DEF tsc_absent, Stage, Interruptible, AfterTsc, AfterHpet, Installing, Resting
<1>5. QED
  BY <1>3, <1>4 DEF Base

LEMMA BaseTscDemote == ASSUME Base, tsc_demote PROVE Base'
<1>1. Types /\ Stage
  BY DEF Base
<1>2. /\ main' \in MainType /\ main.at = "tsc" /\ main'.at = "tsc_hz"
      /\ main'.new = main.new /\ main'.back = main.back
  BY <1>1, MainGoes, MainWaits DEF tsc_demote, Places, Installing, Resting
<1>3. ~pit'.on /\ pit' \in [on : BOOLEAN, rate : BOOLEAN, ticks : Nat, pending : BOOLEAN]
  BY <1>1 DEF tsc_demote, demoted, Types
<1>4. Types'
  BY <1>1, <1>2, <1>3, TimeAssumption DEF tsc_demote, Types
<1>5. Stage'
  BY <1>1, <1>2, <1>3 DEF tsc_demote, Stage, Interruptible, AfterTsc, AfterHpet, Installing, Resting
<1>6. QED
  BY <1>4, <1>5 DEF Base

LEMMA BaseTscCalibrated == ASSUME Base, tsc_calibrated PROVE Base'
<1>1. Types /\ Stage
  BY DEF Base
<1>2. /\ main' \in MainType /\ main.at = "tsc_hz" /\ main'.at = "init_acc"
      /\ main'.new = "tsc" /\ main'.back = "sti"
  BY <1>1 DEF tsc_calibrated, Types, MainType, Places, Installing, Sources
<1>3. NS * TscPerUnit \in Nat
  BY TimeAssumption
<1>4. Types'
  BY <1>1, <1>2, <1>3, TimeAssumption DEF tsc_calibrated, Types
<1>5. Stage'
  BY <1>1, <1>2, <1>3 DEF tsc_calibrated, Stage, Interruptible, AfterTsc, AfterHpet, Installing, Resting
<1>6. QED
  BY <1>4, <1>5 DEF Base

LEMMA BaseSti == ASSUME Base, sti PROVE Base'
<1>1. Types /\ Stage
  BY DEF Base
<1>2. /\ main' \in MainType /\ main.at = "sti"
      /\ main'.at = IF "hpet" \in has THEN "hpet" ELSE "idle"
      /\ main'.new = main.new /\ main'.back = main.back
  BY <1>1, MainGoes DEF sti, Places, Resting
<1>3. Types'
  BY <1>1, <1>2, TimeAssumption DEF sti, Types
<1>4. Stage'
  BY <1>1, <1>2 DEF sti, Stage, Interruptible, AfterTsc, AfterHpet, Installing, Resting
<1>5. QED
  BY <1>3, <1>4 DEF Base

LEMMA BaseHpetStart == ASSUME Base, hpet_start PROVE Base'
<1>1. Types /\ Stage
  BY DEF Base
<1>2. /\ main' \in MainType /\ main.at = "hpet"
      /\ IF pit.on THEN main'.at = "init_acc" /\ main'.new = "hpet" /\ main'.back = "hpet_demote"
         ELSE main'.at = "hpet_init"
  BY <1>1, MainGoes, MainEnters DEF hpet_start, Places, Sources, Installing
<1>3. /\ now \in Nat /\ hpet' \in [start : Nat, init : BOOLEAN] /\ hpet'.start = now
      /\ hpet'.init = hpet.init
  BY <1>1, TicksNat DEF hpet_start, Types
<1>4. Types'
  BY <1>1, <1>2, <1>3, TimeAssumption DEF hpet_start, Types
<1>5. Stage'
  BY <1>1, <1>2, <1>3 DEF hpet_start, Stage, Interruptible, AfterTsc, AfterHpet, Installing, Resting
<1>6. QED
  BY <1>4, <1>5 DEF Base

LEMMA BaseHpetDemote == ASSUME Base, hpet_demote PROVE Base'
<1>1. Types /\ Stage
  BY DEF Base
<1>2. /\ main' \in MainType /\ main.at = "hpet_demote" /\ main'.at = "hpet_init"
      /\ main'.new = main.new /\ main'.back = main.back
  BY <1>1, MainGoes DEF hpet_demote, Places, Installing, Resting
<1>3. ~pit'.on /\ pit' \in [on : BOOLEAN, rate : BOOLEAN, ticks : Nat, pending : BOOLEAN]
  BY <1>1 DEF hpet_demote, demoted, Types
<1>4. Types'
  BY <1>1, <1>2, <1>3, TimeAssumption DEF hpet_demote, Types
<1>5. Stage'
  BY <1>1, <1>2, <1>3 DEF hpet_demote, Stage, Interruptible, AfterTsc, AfterHpet, Installing, Resting
<1>6. QED
  BY <1>4, <1>5 DEF Base

LEMMA BaseHpetOn == ASSUME Base, hpet_initialized PROVE Base'
<1>1. Types /\ Stage
  BY DEF Base
<1>2. /\ main' \in MainType /\ main.at = "hpet_init" /\ main'.at = "idle"
      /\ main'.new = main.new /\ main'.back = main.back
  BY <1>1, MainGoes DEF hpet_initialized, Places, Installing, Resting
<1>3. /\ hpet' \in [start : Nat, init : BOOLEAN] /\ hpet'.start = hpet.start
      /\ hpet'.init
  BY <1>1 DEF hpet_initialized, Types
<1>4. Types'
  BY <1>1, <1>2, <1>3, TimeAssumption DEF hpet_initialized, Types
<1>5. Stage'
  BY <1>1, <1>2, <1>3 DEF hpet_initialized, Stage, Interruptible, AfterTsc, AfterHpet, Installing, Resting
<1>6. QED
  BY <1>4, <1>5 DEF Base

LEMMA BaseRead == ASSUME Base, read_time PROVE Base'
<1>1. Types /\ Stage
  BY DEF Base
<1>2. src = "tsc" => tsc_hz = NS * TscPerUnit
  BY <1>1 DEF Stage
<1>3. get_ns(src) \in Nat /\ acc \in Nat /\ boot_ns \in Nat
  BY <1>1, <1>2, SourceTypes DEF Types
<1>4. get_monotonic_ns \in Nat /\ now \in Nat
  BY <1>1, <1>3, TicksNat, MonotonicNat DEF get_monotonic_ns
<1>5. read' \in ReadType /\ read'.at = now
  <2>1. Wraps \in [pit : Nat, hpet : Nat] /\ Lag \in Nat
    BY <1>1, WrapsNat
  <2>2. QED
    BY <1>1, <1>4, <2>1 DEF read_time, Types, ReadType, Torn
<1>6. Types'
  BY <1>1, <1>2, <1>3, <1>4, <1>5, TimeAssumption DEF read_time, Types
<1>7. Stage'
  BY <1>1, <1>2, <1>3, <1>4, <1>5 DEF read_time, Stage, Interruptible, AfterTsc, AfterHpet, Installing, Resting
<1>8. QED
  BY <1>6, <1>7 DEF Base

LEMMA BaseTick == ASSUME Base, tick PROVE Base'
<1>1. Types /\ Stage
  BY DEF Base
<1>2. now \in Nat
  BY <1>1, TicksNat
<1>3. pit'.on = pit.on /\ pit' \in [on : BOOLEAN, rate : BOOLEAN, ticks : Nat, pending : BOOLEAN]
  BY <1>1 DEF tick, Types
<1>4. Types'
  <2>1. /\ UNCHANGED <<has, main, iflag, src, acc, boot_ns, tsc_hz, hpet, handler, read>>
        /\ now' = now + 1 /\ now < MaxNow
    BY DEF tick
  <2>2. now' \in 0..MaxNow /\ hpet.start <= now' /\ read.at <= now'
    BY ONLY <1>1, <1>2, <2>1, TimeAssumption DEF Types, ReadType
  <2>3. QED
    BY ONLY <1>1, <1>3, <2>1, <2>2 DEF Types
<1>5. UNCHANGED <<main, has, iflag, src, tsc_hz, hpet, handler>>
  BY DEF tick
<1>7. Stage'
  BY ONLY <1>1, <1>3, <1>5 DEF Stage, Interruptible, AfterTsc, AfterHpet, Installing, Resting
<1>8. QED
  BY <1>4, <1>7 DEF Base

LEMMA BaseTickHandler == ASSUME Base, tick_handler PROVE Base'
<1>1. Types /\ Stage
  BY DEF Base
<1>2. pit.ticks + (IF pit.rate THEN 1 ELSE 0) \in Nat
  BY <1>1 DEF Types
<1>3. pit'.on = pit.on /\ pit' \in [on : BOOLEAN, rate : BOOLEAN, ticks : Nat, pending : BOOLEAN]
  BY <1>1, <1>2 DEF tick_handler, Types
<1>4. Types'
  BY <1>1, <1>2, <1>3, TimeAssumption DEF tick_handler, Types
<1>5. Stage'
  BY <1>1, <1>2, <1>3 DEF tick_handler, Stage, Interruptible, AfterTsc, AfterHpet, Installing, Resting
<1>6. QED
  BY <1>4, <1>5 DEF Base

LEMMA BaseDelay == ASSUME Base, NEW us \in Nat, delay_us(us) PROVE Base'
<1>1. Types /\ Stage
  BY DEF Base
<1>2. src = "tsc" => tsc_hz = NS * TscPerUnit
  BY <1>1 DEF Stage
<1>3. Delay(us) \in DelayType
  BY <1>1, <1>2, DelayTypes
<1>4. main' \in MainType /\ main.at = "idle" /\ main'.at = "delay"
  BY <1>1, <1>3 DEF delay_us, Types, MainType, Places, Resting
<1>5. Types'
  BY <1>1, <1>2, <1>3, <1>4, TimeAssumption DEF delay_us, Types
<1>6. Stage'
  BY <1>1, <1>2, <1>3, <1>4 DEF delay_us, Stage, Interruptible, AfterTsc, AfterHpet, Installing, Resting
<1>7. QED
  BY <1>5, <1>6 DEF Base

LEMMA BaseDelayOver == ASSUME Base, delay_over PROVE Base'
<1>1. Types /\ Stage
  BY DEF Base
<1>2. NoDelay \in DelayType
  BY DEF NoDelay, DelayType
<1>3. main' \in MainType /\ main.at = "delay" /\ main'.at = "idle"
  BY <1>1, <1>2 DEF delay_over, Types, MainType, Places, Resting
<1>4. Types'
  BY <1>1, <1>2, <1>3, TimeAssumption DEF delay_over, Types
<1>5. Stage'
  BY <1>1, <1>2, <1>3 DEF delay_over, Stage, Interruptible, AfterTsc, AfterHpet, Installing, Resting
<1>6. QED
  BY <1>4, <1>5 DEF Base

LEMMA BasePowerdown == ASSUME Base, on_system_powerdown PROVE Base'
<1>1. Types /\ Stage
  BY DEF Base
<1>2. src = "tsc" => tsc_hz = NS * TscPerUnit
  BY <1>1 DEF Stage
<1>3. Delay(MaxDelay) \in DelayType
  BY <1>1, <1>2, DelayTypes, TimeAssumption
<1>4. Types'
  BY <1>1, <1>2, <1>3, TimeAssumption DEF on_system_powerdown, Types
<1>5. Stage'
  BY <1>1, <1>2, <1>3 DEF on_system_powerdown, Stage, Interruptible, AfterTsc, AfterHpet, Installing, Resting
<1>6. QED
  BY <1>4, <1>5 DEF Base

LEMMA BaseSleep == ASSUME Base, enter_sleep_state PROVE Base'
<1>1. Types /\ Stage
  BY DEF Base
<1>2. NoDelay \in DelayType
  BY DEF NoDelay, DelayType
<1>3. main' \in MainType /\ main.at \in Places /\ main'.at = "off"
  BY <1>1 DEF enter_sleep_state, Types, MainType, Places, Resting
<1>4. Types'
  BY <1>1, <1>2, <1>3, TimeAssumption DEF enter_sleep_state, Types
<1>5. Stage'
  BY <1>1, <1>2, <1>3 DEF enter_sleep_state, Stage, Interruptible, AfterTsc, AfterHpet, Installing, Resting
<1>6. QED
  BY <1>4, <1>5 DEF Base

LEMMA NextBase == Base /\ [Next]_vars => Base'
<1> SUFFICES ASSUME Base, [Next]_vars PROVE Base'
  OBVIOUS
<1>1. CASE boot_step
  BY <1>1, BaseInitAcc, BaseInitSrc, BaseInitBoot, BasePit, BaseWarmup, BasePitOn, BaseTscAbsent,
     BaseTscDemote, BaseTscCalibrated, BaseSti, BaseHpetStart, BaseHpetDemote, BaseHpetOn
     DEF boot_step
<1>2. CASE UNCHANGED vars
  BY <1>2 DEF vars, Base, Types, Stage, Interruptible, AfterTsc, AfterHpet
<1>3. CASE \E us \in 0..MaxDelay : delay_us(us)
  BY <1>3, TimeAssumption, BaseDelay
<1>4. QED
  BY <1>1, <1>2, <1>3, BaseRead, BaseTick, BaseTickHandler, BaseDelayOver, BasePowerdown, BaseSleep
     DEF Next, time_ends

-----------------------------------------------------------------------------
(* The delays.                                                              *)

\* A TSC or an HPET that counts is what a delay waits for.
LEMMA CounterIs ==
    ASSUME Base, Counts, src \in {"tsc", "hpet"}
    PROVE  /\ Counter(src) = CountAt(src, hpet.start, now)
           /\ \A us \in Nat : TicksFor(src, us) = WaitOf(src, us)
<1>1. src = "tsc" => tsc_hz = NS * TscPerUnit
  BY DEF Base, Stage
<1>2. Counter(src) = CountAt(src, hpet.start, now)
  BY DEF Counts, Counter, CountAt, TscAt, HpetAt, rdtsc, hpet_get_ticks, main_counter
<1>3. ASSUME NEW us \in Nat PROVE TicksFor(src, us) = WaitOf(src, us)
  BY <1>1, TscTicksExact DEF Counts, TicksFor, WaitOf
<1>4. QED
  BY <1>2, <1>3

\* Once kernel_main is through with the sources, the one in place counts.
LEMMA RestingCounts == ASSUME Base, main.at \in Resting PROVE Counts
BY DEF Base, Stage, AfterHpet, Counts

LEMMA DelayBegins ==
    ASSUME Base, Counts, NEW us \in Nat
    PROVE  Begun(Delay(us), src, hpet.start, now) /\ Running(Delay(us), src, hpet.start, now)
<1>1. now \in Nat /\ hpet.start <= now
  BY TicksNat DEF Base, Types
<1>2. /\ Delay(us).us = us /\ Delay(us).from = now
      /\ Delay(us).target = Counter(src) + TicksFor(src, us)
  BY DEF Delay
<1>3. QED
  BY <1>1, <1>2, CounterIs DEF Begun, Running

\* A unit of time passes only while the loop has not reached its target.
LEMMA DelayRuns ==
    ASSUME Base, Counts, NEW d \in DelayType, Begun(d, src, hpet.start, now)
    PROVE  /\ Begun(d, src, hpet.start, now + 1)
           /\ Counter(src) < d.target => Running(d, src, hpet.start, now + 1)
<1>1. now \in Nat /\ d.from \in Nat /\ (now + 1) - 1 = now
  BY TicksNat DEF Base, DelayType
<1>2. Begun(d, src, hpet.start, now + 1)
  BY <1>1 DEF Begun
<1>3. Counter(src) < d.target => Running(d, src, hpet.start, now + 1)
  BY <1>1, CounterIs DEF Running
<1>4. QED
  BY <1>2, <1>3

LEMMA BootDelays == ASSUME Base, DelaysFollow, boot_step PROVE DelaysFollow'
<1>1. handler' = NoDelay
  BY DEF boot_step, pit_initialize, pit_warmup, pit_initialized, tsc_absent, tsc_demote,
     tsc_calibrated, sti, hpet_start, hpet_demote, hpet_initialized, init_acc, init_src, init_boot
<1>2. main'.at # "delay"
  <2>1. main.at = "init_boot" => main.back \in {"warmup", "sti", "hpet_demote"}
    BY DEF Base, Stage, Installing
  <2>2. main \in MainType
    BY DEF Base, Types
  <2>3. QED
    BY <2>1, <2>2 DEF MainType, boot_step, pit_initialize, pit_warmup, pit_initialized, tsc_absent,
       tsc_demote, tsc_calibrated, sti, hpet_start, hpet_demote, hpet_initialized, init_acc,
       init_src, init_boot, Goto, Enter, WaitWindow
<1>3. QED
  BY <1>1, <1>2 DEF DelaysFollow

LEMMA TickDelays == ASSUME Base, DelaysFollow, tick PROVE DelaysFollow'
<1>1. main \in MainType /\ handler \in DelayType
  BY DEF Base, Types
<1>2. now' = now + 1 /\ UNCHANGED <<main, src, hpet, handler>> /\ ~Due
  BY DEF tick
<1>3. Counter(src) \in Nat /\ (Counts' <=> Counts)
  BY <1>2, SourceTypes DEF Base, Stage, Counts
<1>4. main.at = "delay" => Begun(main.wait, src, hpet.start, now + 1)
  <2>1. SUFFICES ASSUME main.at = "delay"
                 PROVE  Begun(main.wait, src, hpet.start, now + 1)
    OBVIOUS
  <2>2. main.wait \in DelayType /\ main.at \in Resting
    BY <1>1, <2>1 DEF MainType, Resting
  <2>3. QED
    BY <2>1, <2>2, RestingCounts, DelayRuns DEF DelaysFollow
<1>5. handler # NoDelay => Counter(src) < handler.target
  BY <1>1, <1>2, <1>3 DEF Due, DelayType
<1>6. handler # NoDelay /\ Counts => /\ Begun(handler, src, hpet.start, now + 1)
                                     /\ Running(handler, src, hpet.start, now + 1)
  BY <1>1, <1>5, DelayRuns DEF DelaysFollow
<1>7. ~(handler # NoDelay /\ ~Counts)
  <2>1. SUFFICES ASSUME handler # NoDelay, ~Counts PROVE FALSE
    OBVIOUS
  <2>2. Counter(src) < 0
    BY <1>5, <2>1 DEF DelaysFollow
  <2>3. QED
    BY ONLY <1>3, <2>2
<1>8. QED
  BY <1>2, <1>3, <1>4, <1>6, <1>7 DEF DelaysFollow

LEMMA DelayDelays == ASSUME Base, DelaysFollow, NEW us \in Nat, delay_us(us) PROVE DelaysFollow'
<1>1. main.at = "idle" /\ handler' = NoDelay /\ UNCHANGED <<src, hpet, now>>
  BY DEF delay_us
<1>2. main \in MainType /\ main.at \in Resting
  BY <1>1 DEF Base, Types, Resting
<1>3. main'.wait = Delay(us)
  BY <1>2 DEF delay_us, MainType
<1>4. Begun(Delay(us), src, hpet.start, now)
  BY <1>2, RestingCounts, DelayBegins
<1>5. QED
  BY <1>1, <1>3, <1>4 DEF DelaysFollow

LEMMA PowerdownDelays == ASSUME Base, DelaysFollow, on_system_powerdown PROVE DelaysFollow'
<1>1. /\ handler' = Delay(MaxDelay) /\ UNCHANGED <<main, src, hpet, now>>
      /\ (Counts' <=> Counts)
  BY DEF on_system_powerdown, Counts
<1>2. Counts => /\ Begun(Delay(MaxDelay), src, hpet.start, now)
                /\ Running(Delay(MaxDelay), src, hpet.start, now)
  BY DelayBegins, TimeAssumption
<1>3. ~Counts => Delay(MaxDelay).target = 0 /\ Delay(MaxDelay).from = now
  BY DEF Counts, Delay, Counter, TicksFor, hpet_get_ticks
<1>4. QED
  BY <1>1, <1>2, <1>3 DEF DelaysFollow

LEMMA NextDelays == Base /\ DelaysFollow /\ [Next]_vars => DelaysFollow'
<1> SUFFICES ASSUME Base, DelaysFollow, [Next]_vars PROVE DelaysFollow'
  OBVIOUS
<1>1. main \in MainType
  BY DEF Base, Types
<1>2. CASE delay_over \/ enter_sleep_state
  <2>1. handler' = NoDelay /\ main'.at # "delay"
    BY <1>1, <1>2 DEF delay_over, enter_sleep_state, MainType
  <2>2. QED
    BY <2>1 DEF DelaysFollow
<1>3. CASE read_time \/ tick_handler \/ UNCHANGED vars
  <2>1. UNCHANGED <<main, src, hpet, handler, now>>
    BY <1>3 DEF read_time, tick_handler, vars
  <2>2. QED
    BY <2>1 DEF DelaysFollow, Counts
<1>4. CASE \E us \in 0..MaxDelay : delay_us(us)
  BY <1>4, TimeAssumption, DelayDelays
<1>5. QED
  BY <1>2, <1>3, <1>4, BootDelays, TickDelays, PowerdownDelays DEF Next, time_ends

LEMMA DelayInv == Spec => [](Base /\ DelaysFollow)
<1>1. Init => DelaysFollow
  BY DEF Init, DelaysFollow
<1>2. Base /\ DelaysFollow /\ [Next]_vars => (Base /\ DelaysFollow)'
  BY NextBase, NextDelays
<1>3. QED
  BY <1>1, <1>2, InitBase, PTL DEF Spec

\* TSC::delay_us (tsc.cpp): a delay of kernel_main that ends on the TSC has
\* lasted as long as asked, whatever the frequency and however long it is.
THEOREM DelayOnTscLasts == Spec => TscDelayKept
<1>1. ASSUME Base, DelaysFollow, [Next]_vars, main.at = "delay", main'.at = "idle", src = "tsc"
      PROVE  Lasted
  <2>1. delay_over
    <3>1. main.at \notin Installing \cup {"pit", "warmup", "warm", "tsc", "tsc_hz", "sti", "hpet",
                                       "hpet_demote", "hpet_init", "idle"}
      BY <1>1 DEF Installing
    <3>2. ~boot_step
      BY <3>1 DEF boot_step, pit_initialize, pit_warmup, pit_initialized, tsc_absent, tsc_demote,
         tsc_calibrated, sti, hpet_start, hpet_demote, hpet_initialized, init_acc, init_src,
         init_boot, Goto, Enter, WaitWindow, Installing
    <3>3. main \in MainType
      BY <1>1 DEF Base, Types
    <3>4. QED
      BY <1>1, <3>2, <3>3 DEF Next, vars, read_time, tick, tick_handler, time_ends, delay_us,
         on_system_powerdown, enter_sleep_state, MainType
  <2>2. /\ main.wait.us \in Nat /\ main.wait.from \in Nat /\ now \in Nat
        /\ main.at \in Resting
    BY <1>1, TicksNat DEF Base, Types, MainType, DelayType, Resting
  <2>3. Counter(src) = TscAt(now)
    BY <1>1, <2>2, RestingCounts, CounterIs DEF CountAt
  <2>4. main.wait.target = TscAt(main.wait.from) + (main.wait.us * (NS \div US)) * TscPerUnit
    BY <1>1 DEF DelaysFollow, Begun, CountAt, WaitOf
  <2>5. TscAt(now) >= TscAt(main.wait.from) + (main.wait.us * (NS \div US)) * TscPerUnit
    BY <2>1, <2>3, <2>4 DEF delay_over
  <2>6. QED
    BY <2>2, <2>5, TscLasts DEF Lasted
<1>2. Base /\ DelaysFollow /\ [Next]_vars =>
        [main.at = "delay" /\ main'.at = "idle" /\ src = "tsc" => Lasted]_vars
  BY <1>1
<1>3. QED
  BY <1>2, DelayInv, PTL DEF Spec, TscDelayKept

\* PowerManager::on_system_powerdown on every machine, wherever in the boot the
\* button is pressed: the handler's delay, with interrupts off, is over when it
\* should be, to a tick of the PIT, unless the PIT is the source and there is no
\* better one, or the HPET has not taken over yet.
THEOREM PowerdownEnds == Spec => []PowerdownInTime
<1>1. ASSUME Base, DelaysFollow PROVE PowerdownInTime
  <2>1. SUFFICES ASSUME handler # NoDelay, ~(src = "pit" /\ OnPitOnly)
                 PROVE  (now - handler.from) * US <= handler.us * NS + PitPeriod * US
    BY DEF PowerdownInTime
  <2>2. src # "none" /\ (src = "pit" => OnPitOnly)
    <3>1. Stage /\ Interruptible
      BY <1>1, <2>1 DEF Base, Stage
    <3>2. CASE main.at \in {"hpet", "hpet_demote", "hpet_init"} \cup Resting
      BY <3>1, <3>2 DEF Stage, AfterTsc, AfterHpet, OnPitOnly, Resting
    <3>3. CASE main.at \in Installing /\ main.new = "hpet"
      BY <3>1, <3>3 DEF Stage, OnPitOnly, Installing
    <3>4. QED
      BY <3>1, <3>2, <3>3 DEF Interruptible
  <2>3. src \in {"tsc", "hpet"} /\ US \in Nat \ {0} /\ PitPeriod \in Nat \ {0}
    BY <1>1, <2>1, <2>2, WholeUnits DEF Base, Types, Sources
  <2>10. ASSUME ~Counts PROVE (now - handler.from) * US <= handler.us * NS + PitPeriod * US
    <3>1. now = handler.from /\ now \in Nat /\ handler.us \in Nat /\ NS \in Nat
      BY <1>1, <2>1, <2>10, TicksNat, TimeAssumption DEF DelaysFollow, Base, Types, DelayType
    <3>2. (now - handler.from) * US = 0 /\ handler.us * NS \in Nat /\ PitPeriod * US \in Nat
      BY <2>3, <3>1
    <3>3. QED
      BY <3>2
  <2>11. SUFFICES ASSUME Counts
                  PROVE  (now - handler.from) * US <= handler.us * NS + PitPeriod * US
    BY <2>10
  <2>4. /\ handler.us \in Nat /\ handler.from \in Nat /\ now \in Nat /\ hpet.start \in Nat
        /\ handler.from <= now
    BY <1>1, <2>1, <2>3, <2>11, TicksNat DEF Base, Types, DelayType, DelaysFollow, Begun
  <2>5. PitPeriod \in Nat \ {0} /\ US \in Nat \ {0} /\ NS \in Nat \ {0}
    BY WholeUnits
  <2>6. US <= PitPeriod * US /\ handler.us * NS \in Nat /\ PitPeriod * US \in Nat
    BY <2>4, <2>5
  <2>7. CASE now = handler.from
    <3>1. (now - handler.from) * US = 0
      BY <2>4, <2>5, <2>7
    <3>2. QED
      BY <2>6, <3>1
  <2>8. CASE now # handler.from
    <3> DEFINE n == now - 1
    <3>1. n \in Nat /\ handler.from <= n /\ n + 1 - handler.from = now - handler.from
      BY <2>4, <2>8
    <3>2. CountAt(src, hpet.start, n)
            < CountAt(src, hpet.start, handler.from) + WaitOf(src, handler.us)
      BY <1>1, <2>1, <2>3, <2>8, <2>11 DEF DelaysFollow, Begun, Running
    <3>3. src = "hpet" => hpet.start <= handler.from
      BY <1>1, <2>1, <2>11 DEF DelaysFollow, Begun
    <3> HIDE DEF n
    <3>4. (n + 1 - handler.from) * US <= handler.us * NS + US
      <4>1. CASE src = "tsc"
        <5>1. (n + 1 - handler.from) * US <= handler.us * NS
          BY <2>4, <3>1, <3>2, <4>1, TscEnds DEF CountAt, WaitOf
        <5>2. (n + 1 - handler.from) * US \in Int
          BY <2>4, <2>5, <3>1
        <5>3. QED
          BY <2>5, <2>6, <5>1, <5>2
      <4>2. CASE src = "hpet"
        BY <2>4, <3>1, <3>2, <3>3, <4>2, HpetEnds DEF CountAt, WaitOf
      <4>3. QED
        BY <2>3, <4>1, <4>2
    <3>5. (now - handler.from) * US <= handler.us * NS + US
      BY <3>1, <3>4
    <3>6. (now - handler.from) * US \in Int
      BY <2>4, <2>5
    <3>7. QED
      BY ONLY <2>5, <2>6, <3>5, <3>6
  <2>9. QED
    BY <2>7, <2>8
<1>2. QED
  BY <1>1, DelayInv, PTL

-----------------------------------------------------------------------------
(* What the sources answer.                                                 *)

LEMMA SmallMod ==
    ASSUME NEW a \in Nat, a < Word
    PROVE  a % Word = a
BY TimeAssumption

\* What is left of a product in its word.
LEMMA WordParts ==
    ASSUME NEW a \in Nat
    PROVE  /\ a \div Word \in Nat /\ a % Word \in Nat /\ a % Word <= a
           /\ a = Word * (a \div Word) + (a % Word)
<1> DEFINE q == a \div Word
           r == a % Word
<1>1. Word \in Nat \ {0}
  BY TimeAssumption
<1>2. q \in Nat /\ r \in 0..Word - 1 /\ a = Word * q + r
  BY <1>1, DivMod
<1> HIDE DEF q, r
<1>3. Word * q \in Nat
  BY <1>1, <1>2
<1>4. r <= a
  BY <1>1, <1>2, <1>3
<1>5. q \in Nat /\ r \in Nat /\ r <= a /\ a = Word * q + r
  BY <1>1, <1>2, <1>4
<1>6. QED
  BY <1>5 DEF q, r

\* Between two wraps the quotient of a product grows with it.
LEMMA WrapMono ==
    ASSUME NEW a \in Nat, NEW b \in Nat, NEW c \in Nat \ {0}, a <= b
    PROVE  /\ a \div Word <= b \div Word
           /\ a \div Word = b \div Word => (a % Word) \div c <= (b % Word) \div c
<1>1. Word \in Nat \ {0}
  BY TimeAssumption
<1>2. a \div Word <= b \div Word
  BY <1>1, DivMono
<1>3. ASSUME a \div Word = b \div Word PROVE (a % Word) \div c <= (b % Word) \div c
  <2> DEFINE q == a \div Word
             x == a % Word
             y == b % Word
  <2>1. q \in Nat /\ x \in Nat /\ y \in Nat /\ a = Word * q + x /\ b = Word * q + y
    BY <1>3, WordParts
  <2> HIDE DEF q, x, y
  <2>2. Word * q \in Nat
    BY <1>1, <2>1
  <2>3. x <= y
    BY <2>1, <2>2
  <2>4. x \div c <= y \div c
    BY <2>1, <2>3, DivMono
  <2>5. QED
    BY <2>4 DEF x, y
<1>4. QED
  BY <1>2, <1>3

\* The wraps of a product account for what its quotient has lost.
LEMMA LostToWraps ==
    ASSUME NEW a \in Nat, NEW c \in Nat \ {0}
    PROVE  /\ (a % Word) \div c + ((a \div Word) * Word) \div c <= a \div c
           /\ (a % Word) \div c + ((a \div Word) * Word) \div c >= a \div c - 1
<1> DEFINE r == a % Word
           w == (a \div Word) * Word
           p == r \div c
           q == w \div c
           s == a \div c
<1>1. r \in Nat /\ w \in Nat /\ a = w + r
  BY WordParts, TimeAssumption
<1> HIDE DEF r, w
<1>2. /\ p \in Nat /\ c * p <= r /\ r < c * p + c
      /\ q \in Nat /\ c * q <= w /\ w < c * q + c
      /\ s \in Nat /\ c * s <= a /\ a < c * s + c
  BY <1>1, DivBounds
<1> HIDE DEF p, q, s
<1>3. c * p \in Nat /\ c * q \in Nat /\ c * s \in Nat
  BY <1>2
<1>4. (p + q) * c = c * p + c * q /\ (s + 1) * c = c * s + c
      /\ s * c = c * s /\ (p + q + 2) * c = c * p + c * q + c + c
  BY <1>2
<1>5. (p + q) * c < (s + 1) * c /\ s * c < (p + q + 2) * c
  BY ONLY <1>1, <1>2, <1>3, <1>4, c \in Nat
<1>6. p + q < s + 1 /\ s < p + q + 2
  <2>1. p + q \in Int /\ s + 1 \in Int /\ s \in Int /\ p + q + 2 \in Int
    BY <1>2
  <2>2. QED
    BY <1>5, <2>1, MulCancel
<1>7. p + q <= s /\ p + q >= s - 1
  BY <1>2, <1>6
<1>8. QED
  BY <1>7 DEF p, q, s, r, w

\* PIT::get_ns is at most the ticks' time; a latched interrupt is not yet counted.
LEMMA PitNs ==
    ASSUME Types, (pit.ticks + Pending) * PitPeriod <= now
    PROVE  /\ pit_get_ns \in Nat /\ pit_get_ns <= now
           /\ pit.ticks = 0 => pit_get_ns = 0
<1>1. /\ pit.ticks \in Nat /\ Pending \in Nat /\ now \in Nat /\ PitPeriod \in Nat
      /\ PitFreq \in Nat \ {0} /\ NS = PitPeriod * PitFreq /\ NS \in Nat
  BY TicksNat, WholeUnits, TimeAssumption DEF Types, Pending
<1> DEFINE a == pit.ticks * PitPeriod
           b == pit.ticks * NS
<1>2. a \in Nat /\ a <= now
  <2>1. (pit.ticks + Pending) * PitPeriod = a + Pending * PitPeriod
    BY <1>1
  <2>2. a \in Nat /\ Pending * PitPeriod \in Nat
    BY <1>1
  <2>3. QED
    BY ONLY <1>1, <2>1, <2>2, (pit.ticks + Pending) * PitPeriod <= now
<1>3. b \in Nat /\ b = a * PitFreq /\ (pit.ticks = 0 => a = 0)
  BY <1>1
<1>4. pit_get_ns = (b % Word) \div PitFreq
  BY DEF pit_get_ns
<1> HIDE DEF a, b
<1>5. b % Word \in Nat /\ b % Word <= b
  BY <1>3, WordParts
<1>6. (b % Word) \div PitFreq \in Nat /\ (b % Word) \div PitFreq <= b \div PitFreq
  BY <1>1, <1>3, <1>5, DivMono, DivBounds
<1>7. b \div PitFreq = a
  BY <1>1, <1>2, <1>3, DivExact
<1>8. QED
  BY <1>1, <1>2, <1>3, <1>4, <1>6, <1>7

\* TSC::get_ns is the time.
LEMMA TscNs ==
    ASSUME Types, tsc_hz = NS * TscPerUnit
    PROVE  tsc_get_ns = now
<1>1. now \in Nat /\ rdtsc \in Nat /\ NS \in Nat \ {0} /\ TscPerUnit \in Nat \ {0}
  BY TicksNat, TimeAssumption
<1>2. tsc_hz \in Nat \ {0}
  BY <1>1
<1>3. tsc_get_ns = (rdtsc * NS) \div tsc_hz
  BY <1>1, <1>2, MulDivNat DEF tsc_get_ns
<1>4. rdtsc * NS = now * tsc_hz
  BY <1>1 DEF rdtsc
<1>5. QED
  BY <1>1, <1>2, <1>3, <1>4, DivExact

\* The time the HPET's count stands for is that since its reset, less a count at most.
LEMMA HpetNsIs ==
    ASSUME NEW start \in Nat, NEW t \in Nat, start <= t
    PROVE  /\ HpetNsAt(start, t) \in Nat /\ HpetNsAt(start, t) <= t - start
           /\ (t - start) - HpetNsAt(start, t) <= 1 + NS \div HpetFreq
<1> DEFINE x == t - start
<1>1. x \in Nat /\ NS \in Nat \ {0} /\ HpetFreq \in Nat \ {0}
  BY TimeAssumption
<1>2. HpetNsAt(start, t) = (((x * HpetFreq) \div NS) * NS) \div HpetFreq
  BY DEF HpetNsAt, HpetAt
<1> HIDE DEF x
<1>3. LET v == (((x * HpetFreq) \div NS) * NS) \div HpetFreq
      IN  v \in Nat /\ v <= x /\ x - v <= 1 + NS \div HpetFreq
  BY <1>1, CountToTime
<1>4. /\ HpetNsAt(start, t) \in Nat /\ HpetNsAt(start, t) <= x
      /\ x - HpetNsAt(start, t) <= 1 + NS \div HpetFreq
  BY <1>2, <1>3
<1>5. QED
  BY <1>4 DEF x

\* HPET::get_ns with what its wraps have lost and the time before
\* HPET::initialized is the time since the reset, less a count and its rounding.
LEMMA HpetNs ==
    ASSUME Types
    PROVE  /\ hpet_get_ns \in Nat /\ hpet_get_ns <= now
           /\ ~hpet.init => hpet_get_ns = 0 /\ Wraps.hpet = 0
           /\ src = "hpet" =>
                LET e == hpet_get_ns + Lag + (Wraps.hpet * Word) \div HpetFreq
                IN  e <= now - hpet.start /\ e >= now - hpet.start - HpetGrain
<1>1. /\ NS \in Nat \ {0} /\ HpetFreq \in Nat \ {0} /\ now \in Nat /\ Word \in Nat \ {0}
      /\ hpet.start \in Nat /\ hpet.start <= now
  BY TimeAssumption, TicksNat DEF Types
<1> DEFINE g == NS \div HpetFreq
<1>2. g \in Nat /\ HpetGrain = 2 + g
  BY <1>1, DivBounds DEF HpetGrain
<1>3. CASE ~hpet.init
  <2>1. hpet_get_ticks = 0 /\ (src = "hpet" => Lag = now - hpet.start)
    BY <1>3 DEF hpet_get_ticks, Lag
  <2>2. 0 * NS = 0 /\ 0 % Word = 0 /\ 0 \div HpetFreq = 0 /\ 0 \div Word = 0 /\ 0 * Word = 0
    BY <1>1
  <2>3. hpet_get_ns = 0 /\ Wraps.hpet = 0
    BY <2>1, <2>2 DEF hpet_get_ns, Wraps
  <2> HIDE DEF g
  <2>4. QED
    BY <1>1, <1>2, <1>3, <2>1, <2>2, <2>3
<1>4. CASE hpet.init
  <2> DEFINE b == HpetAt(hpet.start, now) * NS
             v == b \div HpetFreq
             h == (b % Word) \div HpetFreq
             l == ((b \div Word) * Word) \div HpetFreq
  <2>1. HpetAt(hpet.start, now) \in Nat
    BY <1>1, HpetCounts
  <2>2. b \in Nat /\ hpet_get_ticks * NS = b
    BY <1>1, <1>4, <2>1 DEF hpet_get_ticks, main_counter, HpetAt
  <2>3. v = HpetNsAt(hpet.start, now)
    BY DEF HpetNsAt
  <2>4. hpet_get_ns = h /\ (src = "hpet" => Wraps.hpet = b \div Word /\ Lag = 0)
    BY <1>4, <2>2 DEF hpet_get_ns, Wraps, Lag
  <2> HIDE DEF b
  <2>5. v \in Nat /\ v <= now - hpet.start /\ (now - hpet.start) - v <= 1 + g
    BY <1>1, <2>3, HpetNsIs
  <2>6. h + l <= v /\ h + l >= v - 1
    BY <1>1, <2>2, LostToWraps
  <2>7. b % Word \in Nat /\ b % Word <= b /\ (b \div Word) * Word \in Nat
    BY <1>1, <2>2, WordParts
  <2>8. h \in Nat /\ l \in Nat /\ h <= v
    BY <1>1, <2>2, <2>7, DivBounds, DivMono
  <2>9. src = "hpet" => (Wraps.hpet * Word) \div HpetFreq = l
    BY <2>4
  <2> HIDE DEF v, h, l, g
  <2>10. hpet_get_ns \in Nat /\ hpet_get_ns <= now
    BY <1>1, <2>4, <2>5, <2>8
  <2>11. ASSUME src = "hpet"
         PROVE  LET e == hpet_get_ns + Lag + (Wraps.hpet * Word) \div HpetFreq
                IN  e <= now - hpet.start /\ e >= now - hpet.start - HpetGrain
    <3>1. hpet_get_ns + Lag + (Wraps.hpet * Word) \div HpetFreq = h + 0 + l
      BY <2>4, <2>9, <2>11
    <3>2. h + 0 + l <= now - hpet.start /\ h + 0 + l >= now - hpet.start - HpetGrain
      BY <1>1, <1>2, <2>5, <2>6, <2>8
    <3>3. QED
      BY <3>1, <3>2
  <2>12. QED
    BY <1>4, <2>10, <2>11
<1>5. QED
  BY <1>3, <1>4

\* The source in place answers a time that is not past real time.
LEMMA NsIs ==
    Base /\ Accounts /\ main.at # "off" =>
      /\ get_ns(src) \in Nat /\ get_ns(src) <= now
      /\ src = "tsc" => get_ns(src) = now
      /\ src = "pit" /\ pit.ticks = 0 => get_ns(src) = 0
      /\ src = "hpet" /\ ~hpet.init => get_ns(src) = 0
<1> SUFFICES ASSUME Base, Accounts, main.at # "off"
             PROVE  /\ get_ns(src) \in Nat /\ get_ns(src) <= now
                    /\ src = "tsc" => get_ns(src) = now
                    /\ src = "pit" /\ pit.ticks = 0 => get_ns(src) = 0
                    /\ src = "hpet" /\ ~hpet.init => get_ns(src) = 0
  OBVIOUS
<1>1. Types /\ src \in Sources /\ now \in Nat
  BY TicksNat DEF Base, Types
<1>2. CASE src = "none"
  BY <1>1, <1>2 DEF get_ns
<1>3. CASE src = "pit"
  BY <1>1, <1>3, PitNs DEF get_ns, Accounts
<1>4. CASE src = "tsc"
  <2>1. tsc_hz = NS * TscPerUnit
    BY <1>4 DEF Base, Stage
  <2>2. QED
    BY <1>1, <1>4, <2>1, TscNs DEF get_ns
<1>5. CASE src = "hpet"
  BY <1>1, <1>5, HpetNs DEF get_ns
<1>6. QED
  BY <1>1, <1>2, <1>3, <1>4, <1>5 DEF Sources

\* A sum of time passed is not wrapped.
LEMMA SinceIs ==
    ASSUME UptimeFits, NEW a \in Nat, NEW b \in Nat, NEW c \in Nat, b <= a, a <= MaxNow, c <= MaxNow
    PROVE  Minus(a, b) = a - b /\ (c + Minus(a, b)) % Word = c + a - b
<1>1. MaxNow \in Nat /\ Word \in Nat \ {0} /\ 2 * MaxNow < Word
  BY TimeAssumption DEF UptimeFits
<1>2. a - b \in Nat /\ a - b < Word
  BY <1>1
<1>3. a + Word - b = Word * 1 + (a - b)
  BY <1>1
<1>4. (a + Word - b) % Word = a - b
  <2> DEFINE d == a - b
  <2>1. d \in 0..Word - 1 /\ a + Word - b = d + Word
    BY <1>1, <1>2
  <2> HIDE DEF d
  <2>2. (d + Word) % Word = d
    BY <1>1, <2>1
  <2>3. QED
    BY <2>1, <2>2 DEF d
<1>5. Minus(a, b) = a - b
  BY <1>4 DEF Minus
<1>6. c + (a - b) \in Nat /\ c + (a - b) < Word /\ c + (a - b) = c + a - b
  BY <1>1, <1>2
<1>7. QED
  BY <1>5, <1>6, SmallMod

\* The numbers of the clock where the source in place is read.
LEMMA ClockParts ==
    ASSUME UptimeFits, Base, Accounts, main.at # "off"
    PROVE  /\ acc \in Nat /\ boot_ns \in Nat /\ now \in Nat /\ acc <= now /\ now <= MaxNow
           /\ get_ns(src) \in Nat /\ get_ns(src) <= now /\ boot_ns <= get_ns(src)
           /\ (acc + Minus(get_ns(src), boot_ns)) % Word = acc + get_ns(src) - boot_ns
<1>1. acc \in Nat /\ boot_ns \in Nat /\ now \in Nat /\ acc <= now /\ now <= MaxNow /\ MaxNow \in Nat
  BY TicksNat, TimeAssumption DEF Base, Types, Accounts
<1>2. get_ns(src) \in Nat /\ get_ns(src) <= now /\ (src = "tsc" => get_ns(src) = now)
  BY NsIs
<1>3. boot_ns <= get_ns(src)
  BY <1>1, <1>2 DEF Accounts
<1>4. get_ns(src) <= MaxNow /\ acc <= MaxNow
  BY <1>1, <1>2
<1>5. QED
  BY <1>1, <1>2, <1>3, <1>4, SinceIs

-----------------------------------------------------------------------------
(* The saved time and the baseline.                                         *)

\* The interrupt latched when the time comes to a tick's boundary is the next one.
LEMMA NextTick ==
    ASSUME NEW n \in Nat, NEW k \in Nat, NEW p \in Nat \ {0}, k * p <= n, (n + 1) % p = 0
    PROVE  (k + 1) * p <= n + 1
<1> DEFINE q == (n + 1) \div p
<1>1. q \in Nat /\ n + 1 = q * p
  BY Units
<1> HIDE DEF q
<1>2. k * p < q * p
  BY <1>1
<1>3. k < q
  BY <1>1, <1>2, MulCancel
<1>4. (k + 1) * p <= q * p
  BY <1>1, <1>3, MulMono
<1>5. QED
  BY <1>1, <1>4

LEMMA TickAccounts == ASSUME Base, Accounts, tick PROVE Accounts'
<1>1. /\ UNCHANGED <<main, src, acc, boot_ns, hpet, read>> /\ now' = now + 1 /\ main.at # "off"
      /\ pit' = [pit EXCEPT !.pending = @ \/ (pit.rate /\ (now + 1) % PitPeriod = 0)]
  BY DEF tick
<1>2. /\ now \in Nat /\ pit.ticks \in Nat /\ acc \in Nat /\ boot_ns \in Nat
      /\ PitPeriod \in Nat \ {0}
  BY TicksNat, WholeUnits DEF Base, Types
<1>3. /\ pit'.ticks = pit.ticks
      /\ pit'.pending => pit.pending \/ (now + 1) % PitPeriod = 0
  BY <1>1 DEF Base, Types
<1>4. (pit'.ticks + Pending') * PitPeriod <= now'
  <2>1. CASE Pending' = 0 \/ Pending = 1
    <3>1. Pending' \in {0, 1} /\ Pending \in {0, 1} /\ Pending' <= Pending
      BY <2>1 DEF Pending
    <3>2. (pit.ticks + Pending') * PitPeriod <= (pit.ticks + Pending) * PitPeriod
      BY <1>2, <3>1, MulMono
    <3>3. /\ (pit.ticks + Pending') * PitPeriod \in Nat
          /\ (pit.ticks + Pending) * PitPeriod \in Nat
      BY <1>2, <3>1
    <3>4. (pit.ticks + Pending) * PitPeriod <= now
      BY <1>1 DEF Accounts
    <3>5. QED
      BY ONLY <1>1, <1>2, <1>3, <3>2, <3>3, <3>4
  <2>2. CASE Pending' = 1 /\ Pending = 0
    <3>1. (now + 1) % PitPeriod = 0
      BY <1>3, <2>2 DEF Pending
    <3>2. pit.ticks * PitPeriod <= now
      BY <1>1, <1>2, <2>2 DEF Accounts
    <3>3. QED
      BY <1>1, <1>2, <1>3, <2>2, <3>1, <3>2, NextTick
  <2>3. QED
    BY <2>1, <2>2 DEF Pending
<1>5. Interruptible' <=> Interruptible
  BY <1>1 DEF Interruptible
<1>6. QED
  BY <1>1, <1>2, <1>3, <1>4, <1>5 DEF Accounts

LEMMA TickHandlerAccounts == ASSUME Base, Accounts, tick_handler PROVE Accounts'
<1>1. /\ UNCHANGED <<now, main, src, acc, boot_ns, hpet, read>> /\ pit.pending /\ iflag
      /\ pit' = [pit EXCEPT !.pending = FALSE, !.ticks = @ + (IF pit.rate THEN 1 ELSE 0)]
  BY DEF tick_handler
<1>2. now \in Nat /\ pit.ticks \in Nat /\ PitPeriod \in Nat \ {0}
  BY TicksNat, WholeUnits DEF Base, Types
<1>3. pit'.ticks \in {pit.ticks, pit.ticks + 1} /\ Pending = 1 /\ Pending' = 0
  BY <1>1 DEF Base, Types, Pending
<1>4. pit'.ticks + Pending' <= pit.ticks + Pending
  BY <1>2, <1>3
<1>5. (pit'.ticks + Pending') * PitPeriod <= (pit.ticks + Pending) * PitPeriod
  <2>1. pit.ticks + Pending \in Nat /\ pit'.ticks + Pending' \in Nat
    BY <1>2, <1>3
  <2>2. QED
    BY <1>2, <1>4, <2>1, MulMono
<1>6. /\ (pit'.ticks + Pending') * PitPeriod \in Nat /\ (pit.ticks + Pending) * PitPeriod \in Nat
  BY <1>2, <1>3
<1>7. Interruptible' /\ Interruptible
  BY <1>1 DEF Interruptible, Base, Stage
<1>8. main.at # "off" => (pit.ticks + Pending) * PitPeriod <= now
  BY DEF Accounts
<1>9. main.at # "off" => (pit'.ticks + Pending') * PitPeriod <= now
  BY ONLY <1>2, <1>5, <1>6, <1>8
<1>10. QED
  BY <1>1, <1>7, <1>9 DEF Accounts

LEMMA InitAccAccounts == ASSUME UptimeFits, Base, Accounts, init_acc PROVE Accounts'
<1>1. /\ main.at = "init_acc" /\ main'.at = "init_src" /\ main'.new = main.new
      /\ UNCHANGED <<now, src, boot_ns, hpet, read, pit>>
  BY MainGoes DEF init_acc, Base, Places, Installing
<1>2. src \in {"none", "pit"} /\ acc = 0 /\ boot_ns = 0
  BY <1>1 DEF Base, Stage, Installing, Accounts
<1>3. src = "none" => acc' = 0
  BY <1>2 DEF init_acc
<1>4. acc' <= now
  BY <1>1, <1>2, ClockParts DEF init_acc, preserved
<1>5. Pending' = Pending /\ (Interruptible' <=> Interruptible)
  BY <1>1 DEF Pending, Interruptible, Installing, Resting
<1>6. QED
  BY <1>1, <1>2, <1>3, <1>4, <1>5 DEF Accounts

LEMMA InitSrcAccounts == ASSUME Base, Accounts, init_src PROVE Accounts'
<1>1. /\ main.at = "init_src" /\ main'.at = "init_boot" /\ src' = main.new
      /\ main'.new = main.new /\ UNCHANGED <<now, acc, boot_ns, hpet, read, pit>>
  BY MainGoes DEF init_src, Base, Places, Installing
<1>2. src \in {"none", "pit"} /\ main.new # "none" /\ (main.new = "pit" => src = "none")
  BY <1>1 DEF Base, Stage, Installing
<1>3. boot_ns = 0 /\ (main.new = "pit" => acc = 0) /\ now \in Nat
  BY <1>1, <1>2, TicksNat DEF Accounts, Base
<1>4. Pending' = Pending /\ (Interruptible' <=> Interruptible)
  BY <1>1 DEF Pending, Interruptible, Installing, Resting
<1>5. QED
  BY <1>1, <1>2, <1>3, <1>4 DEF Accounts

LEMMA InitBootAccounts == ASSUME Base, Accounts, init_boot PROVE Accounts'
<1>1. /\ main.at = "init_boot" /\ main'.at = main.back /\ boot_ns' = get_ns(src)
      /\ UNCHANGED <<now, acc, src, hpet, read, pit>>
  BY DEF init_boot, Goto, Base, Types, MainType
<1>2. /\ src = main.new /\ ~hpet.init /\ src # "none" /\ main.back # "init_boot"
      /\ src = "hpet" => main.back = "hpet_demote"
      /\ src # "hpet" => main.back \notin {"init_src", "off"} /\ ~Interruptible
  BY <1>1 DEF Base, Stage, Installing, Resting, Interruptible
<1>3. /\ get_ns(src) \in Nat /\ get_ns(src) <= now
      /\ src = "pit" => pit.ticks = 0 /\ get_ns(src) = 0
      /\ src = "hpet" => get_ns(src) = 0
  BY <1>1, <1>2, NsIs DEF Accounts
<1>4. src \in {"pit", "tsc", "hpet"}
  BY <1>2 DEF Base, Types, Sources
<1>5. Pending' = Pending /\ (~Interruptible' => ~Interruptible)
  BY <1>1, <1>2 DEF Pending, Interruptible
<1>6. QED
  BY <1>1, <1>2, <1>3, <1>4, <1>5 DEF Accounts

\* The other steps of boot leave the saved time and the baseline as they are.
LEMMA BootAccounts ==
    ASSUME Base, Accounts,
           pit_initialize \/ pit_warmup \/ pit_initialized \/ tsc_absent \/ tsc_demote
             \/ tsc_calibrated \/ sti \/ hpet_start \/ hpet_demote \/ hpet_initialized
    PROVE  Accounts'
<1>1. main \in MainType /\ pit \in [on : BOOLEAN, rate : BOOLEAN, ticks : Nat, pending : BOOLEAN]
  BY DEF Base, Types
<1>2. /\ UNCHANGED <<now, src, acc, boot_ns, read>>
      /\ pit'.ticks = pit.ticks /\ pit'.pending = pit.pending
  BY <1>1 DEF pit_initialize, pit_warmup, pit_initialized, tsc_absent, tsc_demote, tsc_calibrated,
     sti, hpet_start, hpet_demote, hpet_initialized, demoted
<1>3. /\ <<main.at, main'.at>> \in {<<"pit", "init_acc">>, <<"warmup", "warm">>, <<"warm", "tsc">>,
           <<"tsc", "sti">>, <<"tsc", "tsc_hz">>, <<"tsc_hz", "init_acc">>, <<"sti", "hpet">>,
           <<"sti", "idle">>, <<"hpet", "init_acc">>, <<"hpet", "hpet_init">>,
           <<"hpet_demote", "hpet_init">>, <<"hpet_init", "idle">>}
      /\ <<main.at, main'.at>> = <<"hpet", "init_acc">> => main'.new = "hpet"
  BY <1>1 DEF pit_initialize, pit_warmup, pit_initialized, tsc_absent, tsc_demote, tsc_calibrated,
     sti, hpet_start, hpet_demote, hpet_initialized, Goto, Enter, WaitWindow, MainType
<1>4. Interruptible => Interruptible'
  BY <1>3 DEF Interruptible, Installing, Resting
<1>5. Pending' = Pending
  BY <1>2 DEF Pending
<1>6. main.at \notin {"off", "init_src", "init_boot"} /\ main'.at \notin {"off", "init_src", "init_boot"}
  BY <1>3
<1>7. QED
  BY <1>2, <1>4, <1>5, <1>6 DEF Accounts

\* So do the steps of the rest of kernel_main and the handlers.
LEMMA RestSteps ==
    ASSUME Base,
           (\E us \in 0..MaxDelay : delay_us(us)) \/ delay_over \/ on_system_powerdown
             \/ enter_sleep_state \/ read_time \/ UNCHANGED vars
    PROVE  /\ UNCHANGED <<now, src, acc, boot_ns, hpet, pit>>
           /\ main' = main \/ (main.at \in Resting /\ main'.at \in Resting) \/ main'.at = "off"
<1>1. main \in MainType
  BY DEF Base, Types
<1>2. UNCHANGED <<now, src, acc, boot_ns, hpet, pit>>
  BY DEF delay_us, delay_over, on_system_powerdown, enter_sleep_state, read_time, vars
<1>3. main' = main \/ (main.at \in Resting /\ main'.at \in Resting) \/ main'.at = "off"
  BY <1>1 DEF delay_us, delay_over, on_system_powerdown, enter_sleep_state, read_time, vars,
     MainType, Resting
<1>4. QED
  BY <1>2, <1>3

LEMMA RestAccounts ==
    ASSUME Base, Accounts,
           (\E us \in 0..MaxDelay : delay_us(us)) \/ delay_over \/ on_system_powerdown
             \/ enter_sleep_state \/ read_time \/ UNCHANGED vars
    PROVE  Accounts'
<1>1. /\ UNCHANGED <<now, src, acc, boot_ns, hpet, pit>>
      /\ main' = main \/ (main.at \in Resting /\ main'.at \in Resting) \/ main'.at = "off"
  BY RestSteps
<1>2. Pending' = Pending
  BY <1>1 DEF Pending
<1>3. CASE main' = main
  <2>1. Interruptible' <=> Interruptible
    BY <1>3 DEF Interruptible
  <2>2. QED
    BY <1>1, <1>2, <1>3, <2>1 DEF Accounts
<1>4. CASE main.at \in Resting /\ main'.at \in Resting
  <2>1. Interruptible' /\ Interruptible
    BY <1>4 DEF Interruptible
  <2>2. QED
    BY <1>1, <1>2, <1>4, <2>1 DEF Accounts, Resting
<1>5. CASE main'.at = "off"
  BY <1>5 DEF Accounts
<1>6. QED
  BY <1>1, <1>3, <1>4, <1>5

LEMMA NextAccounts ==
    ASSUME UptimeFits PROVE Base /\ Accounts /\ [Next]_vars => Accounts'
<1> SUFFICES ASSUME Base, Accounts, [Next]_vars PROVE Accounts'
  OBVIOUS
<1>1. CASE boot_step
  BY <1>1, InitAccAccounts, InitSrcAccounts, InitBootAccounts, BootAccounts DEF boot_step
<1>2. QED
  BY <1>1, TickAccounts, TickHandlerAccounts, RestAccounts DEF Next, time_ends

LEMMA InitAccounts == Init => Accounts
<1> SUFFICES ASSUME Init PROVE Accounts
  OBVIOUS
<1>1. Pending = 0 /\ PitPeriod \in Nat /\ 0 * PitPeriod = 0
  BY WholeUnits DEF Init, Pending
<1>2. QED
  BY <1>1 DEF Init, Accounts

-----------------------------------------------------------------------------
(* The readings.                                                            *)

LEMMA WrapsAre == Types => Wraps \in [pit : Nat, hpet : Nat] /\ Lag \in Nat
BY WrapsNat

LEMMA WrapsNext == (Types => Wraps \in [pit : Nat, hpet : Nat] /\ Lag \in Nat)'
BY WrapsAre, PTL

LEMMA NsIsNext ==
    (Base /\ Accounts /\ main.at # "off" =>
      /\ get_ns(src) \in Nat /\ get_ns(src) <= now
      /\ src = "tsc" => get_ns(src) = now
      /\ src = "pit" /\ pit.ticks = 0 => get_ns(src) = 0
      /\ src = "hpet" /\ ~hpet.init => get_ns(src) = 0)'
BY NsIs, PTL

\* A step that leaves the source in place alone leaves what it answers.
LEMMA SameSource ==
    ASSUME UNCHANGED <<now, src, pit.ticks>>, src = "tsc" => UNCHANGED tsc_hz,
           src = "hpet" => UNCHANGED hpet
    PROVE  get_ns(src)' = get_ns(src) /\ Wraps' = Wraps
<1>1. pit_get_ns' = pit_get_ns
  BY DEF pit_get_ns
<1>2. src = "tsc" => tsc_get_ns' = tsc_get_ns
  BY DEF tsc_get_ns, rdtsc, mul_div, mul_div_u64, mul_div_u64_raw
<1>3. src = "hpet" => hpet_get_ticks' = hpet_get_ticks
  BY DEF hpet_get_ticks, main_counter
<1>4. src = "hpet" => hpet_get_ns' = hpet_get_ns
  BY <1>3 DEF hpet_get_ns
<1>5. get_ns(src)' = get_ns(src)
  BY <1>1, <1>2, <1>4 DEF get_ns
<1>6. Wraps' = Wraps
  BY <1>3 DEF Wraps
<1>7. QED
  BY <1>5, <1>6

\* The latest value read still counts after a step if time went on or a product
\* has wrapped, and its source's saved time and baseline are those it was read with.
LEMMA ReadingsKept ==
    ASSUME Base, Base', Accounts, Accounts', Readings, main.at # "off", UNCHANGED read,
           Wraps.pit <= Wraps'.pit, Wraps.hpet <= Wraps'.hpet,
           Wraps' = Wraps /\ main'.at # "off" => Clock <= Clock',
           read.src = "tsc" => UNCHANGED <<src, acc, boot_ns>> /\ main'.at \in AfterTscPlaces,
           read.src = "hpet" => UNCHANGED <<src, acc>> /\ hpet'.start = hpet.start
    PROVE  Readings'
<1>0. SUFFICES ASSUME main'.at # "off" PROVE Readings'
  BY DEF Readings
<1>1. /\ read \in ReadType /\ read.wraps \in [pit : Nat, hpet : Nat] /\ read.val \in Nat
      /\ read' = read
  BY DEF Base, Types, ReadType
<1>2. Wraps \in [pit : Nat, hpet : Nat] /\ Wraps' \in [pit : Nat, hpet : Nat]
  BY WrapsAre, WrapsNext DEF Base
<1>3. acc \in Nat /\ boot_ns \in Nat /\ acc' \in Nat /\ boot_ns' \in Nat
  BY DEF Base, Types
<1>4. get_ns(src) \in Nat /\ get_ns(src)' \in Nat
  BY <1>0, NsIs, NsIsNext
<1>5. Clock \in Int
  BY <1>3, <1>4 DEF Clock
<1>6. Clock' \in Int
  BY <1>3, <1>4 DEF Clock
<1>7. /\ Excused \/ read.val <= Clock
      /\ read.wraps.pit <= Wraps.pit /\ read.wraps.hpet <= Wraps.hpet
  BY DEF Readings
<1>8. read.wraps.pit <= Wraps'.pit /\ read.wraps.hpet <= Wraps'.hpet
  BY <1>1, <1>2, <1>7
<1>9. Excused' \/ read.val <= Clock'
  <2>1. CASE read.torn
    BY <1>1, <2>1 DEF Excused
  <2>2. CASE read.wraps # Wraps
    <3>1. ~(read.wraps.pit = Wraps.pit /\ read.wraps.hpet = Wraps.hpet)
      BY <1>1, <1>2, <2>2
    <3>2. ~(read.wraps.pit = Wraps'.pit /\ read.wraps.hpet = Wraps'.hpet)
      BY <1>1, <1>2, <1>7, <3>1
    <3>3. read.wraps # Wraps'
      BY <3>2
    <3>4. QED
      BY <1>1, <3>3 DEF Excused
  <2>3. CASE read.wraps = Wraps /\ ~read.torn
    <3>1. read.val <= Clock
      BY <1>7, <2>3 DEF Excused
    <3>2. CASE Wraps' = Wraps
      BY <1>0, <1>1, <1>5, <1>6, <3>1, <3>2
    <3>3. CASE Wraps' # Wraps
      BY <1>1, <2>3, <3>3 DEF Excused
    <3>4. QED
      BY <3>2, <3>3
  <2>4. QED
    BY <2>1, <2>2, <2>3
<1>10. read'.src = "tsc" => /\ src' = "tsc" /\ main'.at \in AfterTscPlaces
                            /\ read'.val = acc' + read'.at - boot_ns' /\ read'.lag = 0
  BY <1>1 DEF Readings
<1>11. read'.src = "hpet" => /\ src' = "hpet" /\ hpet'.start <= read'.at
                             /\ Elapsed(read') <= acc' + read'.at - hpet'.start
                             /\ Elapsed(read') >= acc' + read'.at - hpet'.start - HpetGrain
  BY <1>1 DEF Readings
<1>12. QED
  BY <1>1, <1>8, <1>9, <1>10, <1>11 DEF Readings

LEMMA InitAccReadings ==
    ASSUME UptimeFits, Base, Base', Accounts, Accounts', Readings, init_acc PROVE Readings'
<1>1. /\ main.at = "init_acc" /\ main'.at = "init_src"
      /\ UNCHANGED <<now, src, boot_ns, hpet, read, pit, tsc_hz>>
  BY MainGoes DEF init_acc, Base, Places, Installing
<1>2. src \in {"none", "pit"} /\ read.src \notin {"tsc", "hpet"}
  BY <1>1 DEF Base, Stage, Installing, Readings
<1>3. Wraps' = Wraps
  BY <1>1, <1>2, SameSource
<1>4. acc' = Clock /\ Passed'
  BY <1>1, <1>2, ClockParts DEF init_acc, preserved, Clock, Passed
<1>5. Clock' = Clock
  BY <1>4 DEF Clock
<1>6. Wraps.pit \in Nat /\ Wraps.hpet \in Nat /\ Clock \in Int
  BY <1>4, WrapsAre DEF Base, Types
<1>7. QED
  BY <1>1, <1>2, <1>3, <1>5, <1>6, ReadingsKept

LEMMA InitSrcReadings ==
    ASSUME Base, Base', Accounts, Accounts', Readings, init_src PROVE Readings'
<1>1. /\ main.at = "init_src" /\ main'.at = "init_boot" /\ src' = main.new
      /\ UNCHANGED <<now, acc, boot_ns, hpet, read, pit>>
  BY MainGoes DEF init_src, Base, Places, Installing
<1>2. src \in {"none", "pit"} /\ read.src \notin {"tsc", "hpet"}
  BY <1>1 DEF Base, Stage, Installing, Readings, AfterTscPlaces, Resting
<1>3. Wraps.hpet = 0 /\ Wraps'.pit = Wraps.pit
  BY <1>1, <1>2 DEF Wraps
<1>4. Wraps'.hpet \in Nat /\ Wraps.pit \in Nat
  BY WrapsAre, WrapsNext DEF Base
<1>5. Clock = acc /\ Clock' = acc' /\ acc \in Nat
  BY <1>1 DEF Clock, Passed, Base, Types
<1>6. QED
  BY <1>1, <1>2, <1>3, <1>4, <1>5, ReadingsKept

LEMMA InitBootReadings ==
    ASSUME Base, Base', Accounts, Accounts', Readings, init_boot PROVE Readings'
<1>1. /\ main.at = "init_boot" /\ main'.at = main.back /\ boot_ns' = get_ns(src)
      /\ UNCHANGED <<now, acc, src, hpet, read, pit, tsc_hz>>
  BY DEF init_boot, Goto, Base, Types, MainType
<1>2. read.src # "tsc" /\ main'.at \notin {"init_src", "init_boot"} /\ src # "none"
  BY <1>1 DEF Base, Stage, Installing, Readings, AfterTscPlaces, Resting
<1>3. Wraps' = Wraps /\ get_ns(src)' = get_ns(src)
  BY <1>1, SameSource
<1>4. acc \in Nat /\ get_ns(src) \in Nat
  BY <1>1, NsIs DEF Base, Types
<1>5. ~Passed' /\ Passed
  BY <1>1, <1>2 DEF Passed
<1>6. Clock = acc
  BY <1>5 DEF Clock
<1>7. Clock' = acc' + get_ns(src)' - boot_ns'
  BY <1>5 DEF Clock
<1>8. Clock' = acc
  BY <1>1, <1>3, <1>4, <1>7
<1>9. Wraps.pit \in Nat /\ Wraps.hpet \in Nat
  BY WrapsAre DEF Base
<1>10. QED
  BY <1>1, <1>2, <1>3, <1>4, <1>6, <1>8, <1>9, ReadingsKept

\* From HPET::initialized on the HPET's time is no longer 0.
LEMMA HpetOnReadings ==
    ASSUME Base, Base', Accounts, Accounts', Readings, hpet_initialized PROVE Readings'
<1>1. /\ main.at = "hpet_init" /\ main'.at = "idle" /\ hpet'.start = hpet.start /\ ~hpet.init
      /\ UNCHANGED <<now, acc, boot_ns, src, read, pit, tsc_hz>>
  BY DEF hpet_initialized, Goto, Base, Types, MainType, Stage, Resting
<1>2. src # "none" /\ ~Passed /\ ~Passed'
  BY <1>1 DEF Base, Stage, AfterHpet, Passed
<1>3. /\ acc \in Nat /\ boot_ns \in Nat /\ get_ns(src) \in Nat /\ get_ns(src)' \in Nat
      /\ src = "hpet" => get_ns(src) = 0
  BY <1>1, NsIs, NsIsNext DEF Base, Types
<1>4. Clock = acc + get_ns(src) - boot_ns
  BY <1>2 DEF Clock
<1>5. Clock' = acc' + get_ns(src)' - boot_ns'
  BY <1>2 DEF Clock
<1>6. /\ Wraps \in [pit : Nat, hpet : Nat] /\ Wraps' \in [pit : Nat, hpet : Nat]
  BY WrapsAre, WrapsNext DEF Base
<1>7. CASE src = "hpet"
  <2>1. Clock <= Clock'
    BY <1>1, <1>3, <1>4, <1>5, <1>7
  <2>2. Wraps.hpet = 0 /\ Wraps'.pit = Wraps.pit
    <3>1. hpet_get_ticks = 0 /\ 0 * NS = 0 /\ 0 \div Word = 0
      BY <1>1, TimeAssumption DEF hpet_get_ticks
    <3>2. QED
      BY <1>1, <3>1 DEF Wraps
  <2>3. read.src # "tsc"
    BY <1>1, <1>7 DEF Readings
  <2>4. QED
    BY <1>1, <1>6, <2>1, <2>2, <2>3, ReadingsKept
<1>8. CASE src # "hpet"
  <2>1. Wraps' = Wraps /\ get_ns(src)' = get_ns(src)
    BY <1>1, <1>8, SameSource
  <2>2. Clock <= Clock'
    BY <1>1, <1>3, <1>4, <1>5, <2>1
  <2>3. main'.at \in AfterTscPlaces
    BY <1>1 DEF AfterTscPlaces, Resting
  <2>4. QED
    BY <1>1, <1>6, <2>1, <2>2, <2>3, ReadingsKept
<1>9. QED
  BY <1>7, <1>8

\* The other steps of boot leave the source in place as it is.
LEMMA BootReadings ==
    ASSUME Base, Base', Accounts, Accounts', Readings,
           pit_initialize \/ pit_warmup \/ pit_initialized \/ tsc_absent \/ tsc_demote
             \/ tsc_calibrated \/ sti \/ hpet_start \/ hpet_demote
    PROVE  Readings'
<1>1. main \in MainType /\ pit \in [on : BOOLEAN, rate : BOOLEAN, ticks : Nat, pending : BOOLEAN]
  BY DEF Base, Types
<1>2. UNCHANGED <<now, src, acc, boot_ns, read>> /\ pit'.ticks = pit.ticks
  BY <1>1 DEF pit_initialize, pit_warmup, pit_initialized, tsc_absent, tsc_demote, tsc_calibrated,
     sti, hpet_start, hpet_demote, demoted
<1>3. /\ <<main.at, main'.at>> \in {<<"pit", "init_acc">>, <<"warmup", "warm">>, <<"warm", "tsc">>,
           <<"tsc", "sti">>, <<"tsc", "tsc_hz">>, <<"tsc_hz", "init_acc">>, <<"sti", "hpet">>,
           <<"sti", "idle">>, <<"hpet", "init_acc">>, <<"hpet", "hpet_init">>,
           <<"hpet_demote", "hpet_init">>}
      /\ <<main.at, main'.at>> = <<"hpet", "init_acc">> => pit.on
  BY <1>1 DEF pit_initialize, pit_warmup, pit_initialized, tsc_absent, tsc_demote, tsc_calibrated,
     sti, hpet_start, hpet_demote, Goto, Enter, WaitWindow, MainType
<1>4. /\ main.at = "tsc_hz" => src = "pit"
      /\ main.at = "hpet" => src # "hpet" /\ (pit.on => src = "pit")
  BY DEF Base, Stage, AfterTsc
<1>5. /\ main.at # "tsc_hz" => UNCHANGED tsc_hz
      /\ main.at # "hpet" => UNCHANGED hpet
  BY DEF pit_initialize, pit_warmup, pit_initialized, tsc_absent, tsc_demote, tsc_calibrated,
     sti, hpet_start, hpet_demote, Goto, Enter, WaitWindow
<1>6. get_ns(src)' = get_ns(src) /\ Wraps' = Wraps
  BY <1>2, <1>4, <1>5, SameSource
<1>7. (Passed' <=> Passed) /\ main.at # "off"
  BY <1>2, <1>3 DEF Passed
<1>8. Clock' = Clock /\ Clock \in Int
  BY <1>2, <1>6, <1>7, NsIs DEF Clock, Base, Types
<1>9. Wraps.pit \in Nat /\ Wraps.hpet \in Nat
  BY WrapsAre DEF Base
<1>10. read.src = "tsc" => main'.at \in AfterTscPlaces
  BY <1>3, <1>4, <1>7 DEF Readings, AfterTscPlaces, Resting
<1>11. read.src = "hpet" => hpet'.start = hpet.start
  BY <1>4, <1>5, <1>7 DEF Readings
<1>12. QED
  BY <1>2, <1>6, <1>7, <1>8, <1>9, <1>10, <1>11, ReadingsKept

LEMMA TickReadings ==
    ASSUME Base, Base', Accounts, Accounts', Readings, tick PROVE Readings'
<1>1. /\ UNCHANGED <<main, src, acc, boot_ns, hpet, read, tsc_hz>> /\ now' = now + 1
      /\ main.at # "off" /\ pit'.ticks = pit.ticks
  BY DEF tick, Base, Types
<1>2. /\ now \in Nat /\ acc \in Nat /\ boot_ns \in Nat /\ src \in Sources
      /\ hpet.start \in Nat /\ hpet.start <= now
      /\ NS \in Nat \ {0} /\ HpetFreq \in Nat \ {0} /\ Word \in Nat \ {0}
  BY TicksNat, TimeAssumption DEF Base, Types
<1>3. /\ get_ns(src) \in Nat /\ get_ns(src)' \in Nat
      /\ src = "tsc" => get_ns(src) = now /\ get_ns(src)' = now'
  BY <1>1, NsIs, NsIsNext
<1>4. Wraps.pit \in Nat /\ Wraps.hpet \in Nat
  BY WrapsAre DEF Base
<1>5. /\ Wraps.pit <= Wraps'.pit /\ Wraps.hpet <= Wraps'.hpet
      /\ Wraps' = Wraps => get_ns(src) <= get_ns(src)'
  <2>1. CASE src = "hpet" /\ hpet.init
    <3> DEFINE a == (now - hpet.start) * HpetFreq
               b == (now + 1 - hpet.start) * HpetFreq
               p == a \div NS
               q == b \div NS
    <3>1. a \in Nat /\ b = a + HpetFreq /\ b \in Nat
      BY <1>2
    <3>2. hpet_get_ticks = p /\ hpet_get_ticks' = q
      <4>1. hpet_get_ticks = p
        BY <2>1 DEF hpet_get_ticks, main_counter
      <4>2. now' = now + 1 /\ hpet' = hpet /\ hpet.init
        BY <1>1, <2>1
      <4>3. hpet_get_ticks' = ((now' - hpet'.start) * HpetFreq) \div NS
        BY <4>2 DEF hpet_get_ticks, main_counter
      <4>4. now' - hpet'.start = now + 1 - hpet.start
        BY <1>2, <4>2
      <4>5. QED
        BY <4>1, <4>3, <4>4
    <3> HIDE DEF a, b
    <3>3. p \in Nat /\ q \in Nat /\ p <= q
      BY <1>2, <3>1, DivBounds, DivMono
    <3>4. /\ get_ns(src) = ((p * NS) % Word) \div HpetFreq
          /\ get_ns(src)' = ((q * NS) % Word) \div HpetFreq
      BY <1>1, <2>1, <3>2 DEF get_ns, hpet_get_ns
    <3>5. /\ Wraps.hpet = (p * NS) \div Word /\ Wraps'.hpet = (q * NS) \div Word
          /\ Wraps'.pit = Wraps.pit
      BY <1>1, <2>1, <3>2 DEF Wraps
    <3> HIDE DEF p, q
    <3>6. p * NS \in Nat /\ q * NS \in Nat /\ p * NS <= q * NS
      BY <1>2, <3>3, MulMono
    <3>7. QED
      BY <1>2, <1>4, <3>4, <3>5, <3>6, WrapMono
  <2>2. CASE src = "hpet" /\ ~hpet.init
    <3>1. hpet_get_ticks' = hpet_get_ticks
      BY <1>1, <2>2 DEF hpet_get_ticks
    <3>2. get_ns(src)' = get_ns(src) /\ Wraps' = Wraps
      BY <1>1, <2>2, <3>1 DEF get_ns, hpet_get_ns, Wraps
    <3>3. QED
      BY <1>3, <1>4, <3>2
  <2>3. CASE src = "tsc"
    <3>1. Wraps' = Wraps
      BY <1>1, <2>3 DEF Wraps
    <3>2. QED
      BY <1>1, <1>2, <1>3, <1>4, <2>3, <3>1
  <2>4. CASE src \in {"none", "pit"}
    <3>1. get_ns(src)' = get_ns(src) /\ Wraps' = Wraps
      BY <1>1, <2>4 DEF get_ns, pit_get_ns, Wraps
    <3>2. QED
      BY <1>3, <1>4, <3>1
  <2>5. QED
    BY <1>2, <2>1, <2>2, <2>3, <2>4 DEF Sources
<1>6. Passed' <=> Passed
  BY <1>1 DEF Passed
<1>7. Clock = IF Passed THEN acc ELSE acc + get_ns(src) - boot_ns
  BY DEF Clock
<1>8. Clock' = IF Passed THEN acc ELSE acc + get_ns(src)' - boot_ns
  BY <1>1, <1>6 DEF Clock
<1>9. Wraps' = Wraps => Clock <= Clock'
  BY <1>2, <1>3, <1>5, <1>7, <1>8
<1>10. read.src = "tsc" => main'.at \in AfterTscPlaces
  BY <1>1 DEF Readings
<1>11. QED
  BY <1>1, <1>5, <1>9, <1>10, ReadingsKept

LEMMA TickHandlerReadings ==
    ASSUME Base, Base', Accounts, Accounts', Readings, tick_handler PROVE Readings'
<1>1. /\ UNCHANGED <<now, main, src, acc, boot_ns, hpet, read, tsc_hz>> /\ iflag
      /\ pit'.ticks \in {pit.ticks, pit.ticks + 1} /\ pit.ticks \in Nat
  BY DEF tick_handler, Base, Types
<1>2. main.at # "off"
  BY <1>1 DEF Base, Stage, Interruptible, Installing, Resting
<1>3. /\ acc \in Nat /\ boot_ns \in Nat /\ NS \in Nat /\ PitFreq \in Nat \ {0}
      /\ get_ns(src) \in Nat /\ get_ns(src)' \in Nat
  BY <1>1, <1>2, NsIs, NsIsNext, TimeAssumption DEF Base, Types
<1>4. Wraps.pit \in Nat /\ Wraps.hpet \in Nat
  BY WrapsAre DEF Base
<1> DEFINE a == pit.ticks * NS
           b == pit'.ticks * NS
<1>5. a \in Nat /\ b \in Nat /\ a <= b
  <2>1. pit'.ticks \in Nat /\ pit.ticks <= pit'.ticks
    BY <1>1
  <2>2. QED
    BY <1>1, <1>3, <2>1, MulMono
<1>6. Wraps.pit = a \div Word /\ Wraps'.pit = b \div Word /\ Wraps'.hpet = Wraps.hpet
  BY <1>1 DEF Wraps, hpet_get_ticks, main_counter
<1>7. src = "pit" => /\ get_ns(src) = (a % Word) \div PitFreq
                     /\ get_ns(src)' = (b % Word) \div PitFreq
  BY <1>1 DEF get_ns, pit_get_ns
<1>8. src # "pit" => get_ns(src)' = get_ns(src)
  BY <1>1 DEF get_ns, tsc_get_ns, rdtsc, mul_div, mul_div_u64, mul_div_u64_raw, hpet_get_ns,
     hpet_get_ticks, main_counter
<1> HIDE DEF a, b
<1>9. /\ Wraps.pit <= Wraps'.pit /\ Wraps.hpet <= Wraps'.hpet
      /\ Wraps' = Wraps => get_ns(src) <= get_ns(src)'
  BY <1>3, <1>4, <1>5, <1>6, <1>7, <1>8, WrapMono
<1>10. Passed' <=> Passed
  BY <1>1 DEF Passed
<1>11. Clock = IF Passed THEN acc ELSE acc + get_ns(src) - boot_ns
  BY DEF Clock
<1>12. Clock' = IF Passed THEN acc ELSE acc + get_ns(src)' - boot_ns
  BY <1>1, <1>10 DEF Clock
<1>13. Wraps' = Wraps => Clock <= Clock'
  BY <1>3, <1>9, <1>11, <1>12
<1>14. read.src = "tsc" => main'.at \in AfterTscPlaces
  BY <1>1, <1>2 DEF Readings
<1>15. QED
  BY <1>1, <1>2, <1>9, <1>13, <1>14, ReadingsKept

LEMMA RestReadings ==
    ASSUME Base, Base', Accounts, Accounts', Readings,
           (\E us \in 0..MaxDelay : delay_us(us)) \/ delay_over \/ on_system_powerdown
             \/ enter_sleep_state \/ UNCHANGED vars
    PROVE  Readings'
<1>1. /\ UNCHANGED <<now, src, acc, boot_ns, hpet, pit>>
      /\ main' = main \/ (main.at \in Resting /\ main'.at \in Resting) \/ main'.at = "off"
  BY RestSteps
<1>2. UNCHANGED <<read, tsc_hz>>
  BY DEF delay_us, delay_over, on_system_powerdown, enter_sleep_state, vars
<1>3. SUFFICES ASSUME main'.at # "off" PROVE Readings'
  BY DEF Readings
<1>4. main.at # "off"
  BY <1>1, <1>3 DEF Resting
<1>5. get_ns(src)' = get_ns(src) /\ Wraps' = Wraps
  BY <1>1, <1>2, SameSource
<1>6. (Passed' <=> Passed) /\ (main.at \in AfterTscPlaces => main'.at \in AfterTscPlaces)
  BY <1>1, <1>3 DEF Passed, AfterTscPlaces, Resting
<1>7. Clock' = Clock /\ Clock \in Int
  BY <1>1, <1>4, <1>5, <1>6, NsIs DEF Clock, Base, Types
<1>8. Wraps.pit \in Nat /\ Wraps.hpet \in Nat
  BY WrapsAre DEF Base
<1>9. read.src = "tsc" => main'.at \in AfterTscPlaces
  BY <1>4, <1>6 DEF Readings
<1>10. QED
  BY <1>1, <1>2, <1>4, <1>5, <1>7, <1>8, <1>9, ReadingsKept

\* What read_time returns: the clock, or more if the stores are half done.
LEMMA ReadIs ==
    ASSUME UptimeFits, Base, Accounts, read_time
    PROVE  /\ main.at # "off" /\ src # "none" /\ get_monotonic_ns \in Nat
           /\ get_monotonic_ns = acc + get_ns(src) - boot_ns
           /\ Clock <= get_monotonic_ns /\ (~Torn => get_monotonic_ns = Clock)
<1>1. main.at \in {"warmup", "tsc", "sti", "hpet", "idle"} \/ Interruptible
  BY DEF read_time, Base, Stage
<1>2. main.at # "off" /\ src # "none"
  BY <1>1 DEF Interruptible, Base, Stage, AfterTsc, AfterHpet, Installing, Resting
<1>3. /\ acc \in Nat /\ boot_ns \in Nat /\ get_ns(src) \in Nat /\ boot_ns <= get_ns(src)
      /\ (acc + Minus(get_ns(src), boot_ns)) % Word = acc + get_ns(src) - boot_ns
  BY <1>2, ClockParts
<1>4. get_monotonic_ns = acc + get_ns(src) - boot_ns
  BY <1>2, <1>3 DEF get_monotonic_ns
<1>5. main.at = "init_boot" => get_ns(src) = 0 /\ boot_ns = 0
  <2>1. SUFFICES ASSUME main.at = "init_boot" PROVE get_ns(src) = 0 /\ boot_ns = 0
    OBVIOUS
  <2>2. src = "hpet" /\ ~hpet.init
    BY <1>1, <2>1 DEF Interruptible, Base, Stage, Installing, Resting
  <2>3. QED
    BY <2>1, <2>2, NsIs DEF Accounts
<1>6. main.at = "init_src" => Torn
  BY <1>2 DEF Torn
<1>7. CASE main.at = "init_boot"
  BY <1>2, <1>3, <1>4, <1>5, <1>7 DEF Clock, Passed
<1>8. CASE main.at = "init_src"
  BY <1>2, <1>3, <1>4, <1>6, <1>8 DEF Clock, Passed
<1>9. CASE main.at \notin {"init_src", "init_boot"}
  BY <1>2, <1>3, <1>4, <1>9 DEF Clock, Passed
<1>10. QED
  BY <1>2, <1>3, <1>4, <1>7, <1>8, <1>9

LEMMA ReadReadings ==
    ASSUME UptimeFits, Base, Base', Accounts, Accounts', Readings, read_time PROVE Readings'
<1>1. /\ UNCHANGED <<now, main, src, acc, boot_ns, pit, hpet, tsc_hz>>
      /\ read' = [val |-> get_monotonic_ns, at |-> now, src |-> src,
                  torn |-> Torn, wraps |-> Wraps, lag |-> Lag]
  BY DEF read_time
<1>2. /\ main.at # "off" /\ src # "none" /\ get_monotonic_ns \in Nat
      /\ get_monotonic_ns = acc + get_ns(src) - boot_ns
      /\ Clock <= get_monotonic_ns /\ (~Torn => get_monotonic_ns = Clock)
  BY ReadIs
<1>3. get_ns(src)' = get_ns(src) /\ Wraps' = Wraps
  BY <1>1, SameSource
<1>4. /\ Wraps.pit \in Nat /\ Wraps.hpet \in Nat /\ acc \in Nat /\ boot_ns \in Nat
      /\ now \in Nat /\ hpet.start \in Nat /\ hpet.start <= now /\ get_ns(src) \in Nat
  BY <1>2, WrapsAre, TicksNat, NsIs DEF Base, Types
<1>5. (Passed' <=> Passed)
  BY <1>1 DEF Passed
<1>6. Clock' = Clock /\ Clock \in Int
  BY <1>1, <1>3, <1>4, <1>5 DEF Clock
<1>7. Excused' \/ read'.val <= Clock'
  <2>1. CASE Torn
    BY <1>1, <2>1 DEF Excused
  <2>2. CASE ~Torn
    BY <1>1, <1>2, <1>6, <2>2
  <2>3. QED
    BY <2>1, <2>2
<1>8. read'.wraps.pit <= Wraps'.pit /\ read'.wraps.hpet <= Wraps'.hpet
  BY <1>1, <1>3, <1>4
<1>9. src = "tsc" => /\ main.at \in AfterTscPlaces /\ get_monotonic_ns = acc + now - boot_ns
                     /\ Lag = 0
  <2>1. SUFFICES ASSUME src = "tsc"
                 PROVE  main.at \in AfterTscPlaces /\ get_ns(src) = now /\ Lag = 0
    BY <1>2
  <2>2. main.at \in {"warmup", "tsc", "sti", "hpet", "idle"} \/ Interruptible
    BY DEF read_time, Base, Stage
  <2>3. main.at \in AfterTscPlaces
    BY <2>1, <2>2 DEF Base, Stage, Interruptible, Installing, Resting, AfterTscPlaces
  <2>4. QED
    BY <1>2, <2>1, <2>3, NsIs DEF Lag
<1>10. src = "hpet" => LET e == get_monotonic_ns + Lag + (Wraps.hpet * Word) \div HpetFreq
                       IN  e <= acc + now - hpet.start /\ e >= acc + now - hpet.start - HpetGrain
  <2> SUFFICES ASSUME src = "hpet"
               PROVE  LET e == get_monotonic_ns + Lag + (Wraps.hpet * Word) \div HpetFreq
                      IN  e <= acc + now - hpet.start /\ e >= acc + now - hpet.start - HpetGrain
    OBVIOUS
  <2> DEFINE l == (Wraps.hpet * Word) \div HpetFreq
  <2>1. get_ns(src) = hpet_get_ns /\ boot_ns = 0
    BY <1>2 DEF get_ns, Accounts
  <2>2. /\ hpet_get_ns + Lag + l <= now - hpet.start
        /\ hpet_get_ns + Lag + l >= now - hpet.start - HpetGrain
    BY HpetNs DEF Base
  <2>3. l \in Nat /\ Lag \in Nat /\ HpetGrain \in Nat
    <3>1. Wraps.hpet * Word \in Nat
      BY <1>4, TimeAssumption
    <3>2. NS \div HpetFreq \in Nat
      BY TimeAssumption, DivBounds
    <3>3. QED
      BY <3>1, <3>2, DivBounds, WrapsAre, TimeAssumption DEF Base, HpetGrain
  <2> HIDE DEF l
  <2>4. /\ get_monotonic_ns + Lag + l <= acc + now - hpet.start
        /\ get_monotonic_ns + Lag + l >= acc + now - hpet.start - HpetGrain
    BY <1>2, <1>4, <2>1, <2>2, <2>3
  <2>5. QED
    BY <2>4 DEF l
<1>11. read'.src = "tsc" => /\ src' = "tsc" /\ main'.at \in AfterTscPlaces
                            /\ read'.val = acc' + read'.at - boot_ns' /\ read'.lag = 0
  BY <1>1, <1>9
<1>12. read'.src = "hpet" => /\ src' = "hpet" /\ hpet'.start <= read'.at
                             /\ Elapsed(read') <= acc' + read'.at - hpet'.start
                             /\ Elapsed(read') >= acc' + read'.at - hpet'.start - HpetGrain
  BY <1>1, <1>4, <1>10 DEF Elapsed
<1>13. QED
  BY <1>7, <1>8, <1>11, <1>12 DEF Readings

LEMMA InitReadings == Init => Readings
<1> SUFFICES ASSUME Init PROVE Readings
  OBVIOUS
<1>1. Clock = 0
  BY DEF Init, Clock, Passed
<1>2. Wraps.pit \in Nat /\ Wraps.hpet \in Nat
  BY InitBase, WrapsAre DEF Base
<1>3. QED
  BY <1>1, <1>2 DEF Init, Readings

LEMMA NextReadings ==
    ASSUME UptimeFits
    PROVE  Base /\ Base' /\ Accounts /\ Accounts' /\ Readings /\ [Next]_vars => Readings'
<1> SUFFICES ASSUME Base, Base', Accounts, Accounts', Readings, [Next]_vars PROVE Readings'
  OBVIOUS
<1>1. CASE boot_step
  BY <1>1, InitAccReadings, InitSrcReadings, InitBootReadings, HpetOnReadings, BootReadings
     DEF boot_step
<1>2. QED
  BY <1>1, TickReadings, TickHandlerReadings, RestReadings, ReadReadings DEF Next, time_ends

LEMMA ClockInv == ASSUME UptimeFits PROVE Spec => [](Base /\ Accounts /\ Readings)
<1>1. Base /\ Accounts /\ Readings /\ [Next]_vars => (Base /\ Accounts /\ Readings)'
  BY NextBase, NextAccounts, NextReadings
<1>2. QED
  BY <1>1, InitBase, InitAccounts, InitReadings, PTL DEF Spec

\* A step that changes the latest value returned is a read of the clock.
LEMMA ReadsClock ==
    ASSUME [Next]_vars, read' # read
    PROVE  read_time
BY DEF Next, vars, boot_step, pit_initialize, pit_warmup, pit_initialized, tsc_absent,
   tsc_demote, tsc_calibrated, sti, hpet_start, hpet_demote, hpet_initialized, init_acc, init_src,
   init_boot, tick, tick_handler, time_ends, delay_us, delay_over, on_system_powerdown,
   enter_sleep_state

\* KernelTime::get_monotonic_ns (timekeeping.cpp) on every machine, through every
\* change of source and read by interrupts anywhere: no reading is less than the
\* one before it, unless that one was taken between the stores of
\* KernelTime::initialize or a 64-bit product has wrapped in between.
THEOREM ClockNeverBackwards == ASSUME UptimeFits PROVE Spec => NeverBackwards
<1> DEFINE Kept == read'.val < read.val => read.torn \/ read'.wraps # read.wraps
<1>1. ASSUME Base, Accounts, Readings, [Next]_vars, read' # read PROVE Kept
  <2>1. read_time
    BY <1>1, ReadsClock
  <2>2. read'.val = get_monotonic_ns /\ read'.wraps = Wraps
    BY <2>1 DEF read_time
  <2>3. main.at # "off" /\ get_monotonic_ns \in Nat /\ Clock <= get_monotonic_ns
    BY <1>1, <2>1, ReadIs
  <2>4. Excused \/ read.val <= Clock
    BY <1>1, <2>3 DEF Readings
  <2>5. read.val \in Nat /\ Clock \in Int
    BY <1>1, <2>3, NsIs DEF Base, Types, ReadType, Clock
  <2>6. QED
    BY <2>2, <2>3, <2>4, <2>5 DEF Excused
<1>2. Base /\ Accounts /\ Readings /\ [Next]_vars => [Kept]_read
  BY <1>1
<1>3. QED
  BY <1>2, ClockInv, PTL DEF Spec, NeverBackwards

\* Two readings of one TSC or HPET, by anyone and at any time, differ by the time
\* between them, to one count and its rounding, once an HPET's are corrected for
\* the wraps of its product and the time before HPET::initialized.
THEOREM ClockRateExact == ASSUME UptimeFits PROVE Spec => RateExact
<1> DEFINE grain == IF src = "hpet" THEN 2 + NS \div HpetFreq ELSE 1
           Exact == (read.src = read'.src /\ src \in {"tsc", "hpet"}) =>
                      /\ Elapsed(read') - Elapsed(read) <= (read'.at - read.at) + grain
                      /\ Elapsed(read') - Elapsed(read) >= (read'.at - read.at) - grain
<1>1. ASSUME Base, Accounts, Readings, Base', Readings', [Next]_vars, read' # read PROVE Exact
  <2> SUFFICES ASSUME read.src = read'.src, src \in {"tsc", "hpet"}
               PROVE  /\ Elapsed(read') - Elapsed(read) <= (read'.at - read.at) + grain
                      /\ Elapsed(read') - Elapsed(read) >= (read'.at - read.at) - grain
    OBVIOUS
  <2>1. read_time
    BY <1>1, ReadsClock
  <2>2. /\ UNCHANGED <<main, src, acc, boot_ns, hpet>>
        /\ read'.src = src /\ read'.at = now
    BY <2>1 DEF read_time
  <2>3. main.at # "off" /\ main'.at # "off"
    BY <1>1, <2>1, <2>2, ReadIs
  <2>4. /\ now \in Nat /\ read \in ReadType /\ read' \in ReadType /\ acc \in Nat /\ boot_ns \in Nat
        /\ hpet.start \in Nat
    BY <1>1, TicksNat DEF Base, Types
  <2>5. CASE src = "tsc"
    <3>1. /\ read.val = acc + read.at - boot_ns /\ read.lag = 0
          /\ read'.val = acc + read'.at - boot_ns /\ read'.lag = 0
      BY <1>1, <2>2, <2>3, <2>5 DEF Readings
    <3>2. Elapsed(read) = read.val + 0 + 0 /\ Elapsed(read') = read'.val + 0 + 0
      BY <2>2, <2>5, <3>1 DEF Elapsed
    <3>3. QED
      BY <2>4, <2>5, <3>1, <3>2 DEF ReadType
  <2>6. CASE src = "hpet"
    <3> DEFINE e == Elapsed(read)
               f == Elapsed(read')
    <3>1. /\ e <= acc + read.at - hpet.start /\ e >= acc + read.at - hpet.start - HpetGrain
          /\ f <= acc + read'.at - hpet.start /\ f >= acc + read'.at - hpet.start - HpetGrain
      BY <1>1, <2>2, <2>3, <2>6 DEF Readings
    <3>2. e \in Nat /\ f \in Nat
      <4>1. Word \in Nat \ {0} /\ HpetFreq \in Nat \ {0}
        BY TimeAssumption
      <4>2. ASSUME NEW r \in ReadType PROVE Elapsed(r) \in Nat
        <5>1. r.wraps.hpet * Word \in Nat
          BY <4>1 DEF ReadType
        <5>2. (r.wraps.hpet * Word) \div HpetFreq \in Nat
          BY <4>1, <5>1, DivBounds
        <5>3. QED
          BY <5>2 DEF Elapsed, ReadType
      <4>3. QED
        BY <2>4, <4>2
    <3>3. HpetGrain \in Nat /\ grain = HpetGrain
      BY <2>6, TimeAssumption, DivBounds DEF HpetGrain
    <3>4. read.at \in Nat /\ read'.at \in Nat
      BY <2>4 DEF ReadType
    <3> HIDE DEF e, f, grain
    <3>5. f - e <= (read'.at - read.at) + grain /\ f - e >= (read'.at - read.at) - grain
      BY ONLY <2>4, <3>1, <3>2, <3>3, <3>4
    <3>6. QED
      BY <3>5 DEF e, f
  <2>7. QED
    BY <2>5, <2>6
<1>2. /\ Base /\ Accounts /\ Readings /\ Base' /\ Readings' /\ [Next]_vars => [Exact]_read
  BY <1>1
<1>3. QED
  BY <1>2, ClockInv, PTL DEF Spec, RateExact

-----------------------------------------------------------------------------
(* The battery-backed clock: module Rtc.                                    *)

\* The clock shows a day of the calendar.
Dates == [y : Nat, mo : 1..12, d : 1..31, h : Nat, mi : Nat, s : Nat]
Dated(c) ==
    /\ c \in Dates
    /\ c.y >= 1970 /\ c.d <= DaysIn(c.y, c.mo)

DaysMatch ==
    /\ Dated(clock) /\ days \in Int /\ UnixDaysExact
    /\ LastYear \in Nat /\ LastYear >= 1970 => clock.y <= LastYear

-----------------------------------------------------------------------------
(* The day formula.                                                        *)

LEMMA LeapIs == ASSUME NEW y \in Nat PROVE is_leap(y) <=> Leap(y)
  BY DEF is_leap, Leap

\* The leap days before a year.
Leaps(y) == (y - 1969) \div 4 - (y - 1901) \div 100 + (y - 1601) \div 400

LEMMA LeapsInt == ASSUME NEW y \in Nat PROVE Leaps(y) \in Int
  BY DEF Leaps

LEMMA NextLeaps ==
    ASSUME NEW y \in Nat, y >= 1970, NEW next, next = y + 1
    PROVE  /\ Leaps(y) \in Int /\ Leaps(next) \in Int
           /\ Leaps(next) = Leaps(y) + (IF Leap(y) THEN 1 ELSE 0)
  BY DEF Leaps, Leap

LEMMA MonthTable ==
    /\ days_before_month[1] = 0 /\ days_before_month[2] = 31
    /\ days_before_month[3] = 59 /\ days_before_month[4] = 90
    /\ days_before_month[5] = 120 /\ days_before_month[6] = 151
    /\ days_before_month[7] = 181 /\ days_before_month[8] = 212
    /\ days_before_month[9] = 243 /\ days_before_month[10] = 273
    /\ days_before_month[11] = 304 /\ days_before_month[12] = 334
  BY DEF days_before_month

LEMMA MonthDays ==
    ASSUME NEW mo \in 1..12
    PROVE  days_before_month[mo] \in Nat
<1>1. mo \in {1, 2, 3, 4, 5, 6, 7, 8, 9, 10, 11, 12}
  OBVIOUS
<1>2. QED
  BY <1>1, MonthTable

\* The days of a year before a month.
Before(y, mo) == days_before_month[mo] + (IF Leap(y) /\ mo > 2 THEN 1 ELSE 0)

LEMMA MonthBefore ==
    ASSUME NEW y \in Nat, NEW mo \in 1..12
    PROVE  /\ mo = 1 => Before(y, mo) = 0
           /\ mo = 12 => Before(y, mo) = 334 + (IF Leap(y) THEN 1 ELSE 0)
<1>1. mo \in {1, 2, 3, 4, 5, 6, 7, 8, 9, 10, 11, 12}
  OBVIOUS
<1>2. QED
  BY <1>1, MonthTable DEF Before

LEMMA BeforeNat ==
    ASSUME NEW y \in Nat, NEW mo \in 1..12
    PROVE  Before(y, mo) \in Nat
  BY MonthDays DEF Before

LEMMA NextMonth ==
    ASSUME NEW y \in Nat, NEW mo \in 1..11, NEW next, next = mo + 1
    PROVE  Before(y, next) = Before(y, mo) + DaysIn(y, mo)
<1>1. mo \in {1, 2, 3, 4, 5, 6, 7, 8, 9, 10, 11}
  OBVIOUS
<1>2. QED
  BY <1>1, MonthTable DEF DaysIn, Before

UnixDays(c) == unix_days(c.y, c.mo, c.d)

LEMMA UnixDaysIs ==
    ASSUME NEW c, Dated(c)
    PROVE  /\ UnixDays(c) \in Int
           /\ UnixDays(c) = (c.y - 1970) * 365 + Leaps(c.y) + Before(c.y, c.mo) + c.d - 1
<1>1. /\ c.y \in Nat /\ c.y >= 1970 /\ c.d \in 1..31 /\ c.mo \in 1..12
      /\ Leaps(c.y) \in Int
  <2>1. c.y \in Nat /\ c.y >= 1970 /\ c.d \in 1..31 /\ c.mo \in 1..12
    BY DEF Dated, Dates
  <2>2. QED
    BY ONLY <2>1, LeapsInt
<1>2. days_before_month[c.mo] \in Nat /\ Before(c.y, c.mo) \in Nat
  <2>1. days_before_month[c.mo] \in Nat
    BY ONLY <1>1, MonthDays
  <2>2. Before(c.y, c.mo) \in Nat
    <3>1. c.y \in Nat /\ c.mo \in 1..12
      BY <1>1
    <3>2. QED
      BY ONLY <3>1, BeforeNat, Zenon
  <2>3. QED
    BY <2>1, <2>2
<1>3. is_leap(c.y) <=> Leap(c.y)
  BY <1>1, LeapIs
<1>4. /\ (c.y - 1969) \div 4 \in Int /\ (c.y - 1901) \div 100 \in Int
      /\ (c.y - 1601) \div 400 \in Int
  BY <1>1
<1>5. UnixDays(c) = (c.y - 1970) * 365 + Leaps(c.y) + Before(c.y, c.mo) + c.d - 1
  BY ONLY <1>1, <1>2, <1>3, <1>4 DEF UnixDays, unix_days, Leaps, Before
<1>6. QED
  BY ONLY <1>1, <1>2, <1>5

LEMMA DateOf ==
    ASSUME NEW c \in Dates
    PROVE  c = [y |-> c.y, mo |-> c.mo, d |-> c.d, h |-> c.h, mi |-> c.mi, s |-> c.s]
  BY DEF Dates

LEMMA NextDateCounts ==
    ASSUME NEW c, Dated(c)
    PROVE  /\ Dated(NextDate(c)) /\ UnixDays(NextDate(c)) = UnixDays(c) + 1
           /\ \/ NextDate(c).y = c.y
              \/ NextDate(c).y = c.y + 1 /\ c.mo = 12 /\ c.d = 31
<1> DEFINE n == NextDate(c)
<1>1. /\ c.y \in Nat /\ c.y >= 1970 /\ c.d \in 1..31 /\ c.mo \in 1..12
      /\ c.d <= DaysIn(c.y, c.mo) /\ DaysIn(c.y, c.mo) \in 28..31
      /\ Leaps(c.y) \in Int /\ Before(c.y, c.mo) \in Nat
  BY LeapsInt, BeforeNat DEF Dated, Dates, DaysIn
<1>2. /\ UnixDays(c) \in Int
      /\ UnixDays(c) = (c.y - 1970) * 365 + Leaps(c.y) + Before(c.y, c.mo) + c.d - 1
  BY UnixDaysIs
<1>3. Dated(n) =>
        /\ UnixDays(n) \in Int
        /\ UnixDays(n) = (n.y - 1970) * 365 + Leaps(n.y) + Before(n.y, n.mo) + n.d - 1
  BY UnixDaysIs
<1>4. CASE c.d < DaysIn(c.y, c.mo)
  <2>1. n = [c EXCEPT !.d = c.d + 1]
    BY <1>4 DEF NextDate
  <2> HIDE DEF n
  <2>2. n.y = c.y /\ n.mo = c.mo /\ n.d = c.d + 1 /\ Dated(n)
    <3>1. n.y = c.y /\ n.mo = c.mo /\ n.d = c.d + 1
      BY <1>1, <2>1 DEF Dated, Dates
    <3>2. n.d \in 1..31 /\ n.d <= DaysIn(n.y, n.mo)
      BY <1>1, <1>4, <3>1
    <3>3. c.d + 1 \in 1..31 /\ n.y >= 1970
      BY <1>1, <3>1, <3>2
    <3>4. QED
      BY <2>1, <3>1, <3>2, <3>3 DEF Dated, Dates
  <2>3. UnixDays(n) = UnixDays(c) + 1
    BY ONLY <1>1, <1>2, <1>3, <2>2
  <2>4. QED
    BY <2>2, <2>3 DEF n
<1>5. CASE c.d = DaysIn(c.y, c.mo) /\ c.mo < 12
  <2>1. n = [c EXCEPT !.d = 1, !.mo = @ + 1]
    BY <1>1, <1>5 DEF NextDate
  <2> HIDE DEF n
  <2>2. n.y = c.y /\ n.mo = c.mo + 1 /\ n.d = 1
    BY <1>1, <2>1 DEF Dated, Dates
  <2>3. n.mo \in 1..12 /\ DaysIn(n.y, n.mo) \in 28..31
    BY <1>1, <1>5, <2>2 DEF DaysIn
  <2>4. Dated(n)
    <3>1. c.mo + 1 \in 1..12 /\ n.y >= 1970 /\ n.d <= DaysIn(n.y, n.mo) /\ 1 \in 1..31
      BY <1>1, <1>5, <2>2, <2>3
    <3>2. n \in Dates
      <4>1. n = [y |-> c.y, mo |-> c.mo + 1, d |-> 1, h |-> c.h, mi |-> c.mi, s |-> c.s]
        <5>1. c = [y |-> c.y, mo |-> c.mo, d |-> c.d, h |-> c.h, mi |-> c.mi, s |-> c.s]
          BY DateOf DEF Dated
        <5>2. QED
          BY ONLY <2>1, <5>1
      <4>2. c.y \in Nat /\ c.h \in Nat /\ c.mi \in Nat /\ c.s \in Nat
        BY DEF Dated, Dates
      <4>3. QED
        BY ONLY <3>1, <4>1, <4>2 DEF Dates
    <3>3. QED
      BY ONLY <3>1, <3>2 DEF Dated
  <2>5. Before(n.y, n.mo) = Before(c.y, c.mo) + c.d
    <3>1. c.mo \in 1..11
      BY ONLY <1>1, <1>5
    <3>2. QED
      BY ONLY <1>1, <1>5, <2>2, <3>1, NextMonth
  <2>6. UnixDays(n) = UnixDays(c) + 1
    BY ONLY <1>1, <1>2, <1>3, <2>2, <2>4, <2>5
  <2>7. QED
    BY <2>2, <2>4, <2>6 DEF n
<1>6. CASE c.d = DaysIn(c.y, c.mo) /\ c.mo = 12
  <2>1. n = [c EXCEPT !.d = 1, !.mo = 1, !.y = c.y + 1]
    BY <1>1, <1>6 DEF NextDate
  <2> HIDE DEF n
  <2>2. n.y = c.y + 1 /\ n.mo = 1 /\ n.d = 1
    BY <1>1, <2>1 DEF Dated, Dates
  <2>3. Dated(n)
    <3>1. DaysIn(n.y, n.mo) = 31
      BY <2>2 DEF DaysIn
    <3>2. c.y + 1 \in Nat /\ n.y >= 1970 /\ n.d <= DaysIn(n.y, n.mo)
      BY <1>1, <2>2, <3>1
    <3>3. n \in Dates
      <4>1. n = [y |-> c.y + 1, mo |-> 1, d |-> 1, h |-> c.h, mi |-> c.mi, s |-> c.s]
        <5>1. c = [y |-> c.y, mo |-> c.mo, d |-> c.d, h |-> c.h, mi |-> c.mi, s |-> c.s]
          BY DateOf DEF Dated
        <5>2. QED
          BY ONLY <2>1, <5>1
      <4>2. c.h \in Nat /\ c.mi \in Nat /\ c.s \in Nat /\ 1 \in 1..12 /\ 1 \in 1..31
        BY DEF Dated, Dates
      <4>3. QED
        BY ONLY <3>2, <4>1, <4>2 DEF Dates
    <3>4. QED
      BY ONLY <3>2, <3>3 DEF Dated
  <2>4. /\ c.d = 31 /\ Before(n.y, n.mo) = 0
        /\ Before(c.y, c.mo) = 334 + (IF Leap(c.y) THEN 1 ELSE 0)
    <3>1. n.y \in Nat /\ n.mo \in 1..12
      BY <1>1, <2>2
    <3>2. QED
      BY <1>1, <1>6, <2>2, <3>1, MonthBefore DEF DaysIn
  <2>5. Leaps(n.y) \in Int /\ Leaps(n.y) = Leaps(c.y) + (IF Leap(c.y) THEN 1 ELSE 0)
    BY <1>1, <2>2, NextLeaps
  <2>6. UnixDays(n) = UnixDays(c) + 1
    BY ONLY <1>1, <1>2, <1>3, <1>6, <2>2, <2>3, <2>4, <2>5
  <2>7. QED
    BY <1>6, <2>2, <2>3, <2>4, <2>6 DEF n
<1>7. QED
  BY <1>1, <1>4, <1>5, <1>6

\* The days do not depend on the time of day.
LEMMA SameDay ==
    ASSUME NEW c, Dated(c), NEW h \in Nat, NEW mi \in Nat, NEW s \in Nat, NEW n,
           n = [y |-> c.y, mo |-> c.mo, d |-> c.d, h |-> h, mi |-> mi, s |-> s]
    PROVE  Dated(n) /\ UnixDays(n) = UnixDays(c)
<1>1. n.y = c.y /\ n.mo = c.mo /\ n.d = c.d
  OBVIOUS
<1>2. n \in Dates
  BY DEF Dated, Dates
<1>3. Dated(n)
  BY <1>1, <1>2 DEF Dated
<1>4. QED
  BY <1>1, <1>3 DEF UnixDays

-----------------------------------------------------------------------------
(* Reading the registers.                                                  *)

\* A field decoded twice: six less for every sixteen, so fields below 16 survive.
Twice(n) == bcd_to_bin(read_reg(n))

LEMMA DecodedOnce ==
    ASSUME NEW n \in Nat
    PROVE  read_reg(n) = n
<1> DEFINE q == n \div 10
           r == n % 10
<1>1. q \in Nat /\ r \in 0..9 /\ n = 10 * q + r
  OBVIOUS
<1>2. Bcd(n) = q * 16 + r
  BY DEF Bcd
<1> HIDE DEF q, r
<1>3. (q * 16 + r) \div 16 = q /\ (q * 16 + r) % 16 = r
  BY <1>1
<1>4. read_reg(n) = ((q * 16 + r) \div 16) * 10 + ((q * 16 + r) % 16)
  BY <1>2 DEF read_reg, bcd_to_bin
<1>5. QED
  BY <1>1, <1>3, <1>4

LEMMA TwiceIs ==
    ASSUME NEW n \in Nat
    PROVE  /\ Twice(n) \in Nat /\ n \div 16 \in Nat /\ Twice(n) = n - 6 * (n \div 16)
           /\ n < 16 => Twice(n) = n
           /\ n >= 16 => Twice(n) <= n - 6
<1> DEFINE q == n \div 16
           r == n % 16
<1>1. q \in Nat /\ r \in 0..15 /\ n = 16 * q + r /\ (n < 16 => q = 0) /\ (n >= 16 => q >= 1)
  OBVIOUS
<1>2. Twice(n) = q * 10 + r
  BY DecodedOnce DEF Twice, bcd_to_bin
<1> HIDE DEF r
<1>3. q = n \div 16
  OBVIOUS
<1> HIDE DEF q
<1>4. Twice(n) = n - 6 * q /\ Twice(n) \in Nat
  BY <1>1, <1>2
<1>5. QED
  BY <1>1, <1>3, <1>4

\* Since the first read, at second s0 and minute m0: the clock has moved on by a
\* second at most, and what is read so far is decoded twice.
FieldOf(c, i) == IF i = 1 THEN c.s ELSE IF i = 2 THEN c.mi ELSE IF i = 3 THEN c.h
                 ELSE IF i = 4 THEN c.d ELSE IF i = 5 THEN c.mo ELSE c.y % 100
ReadSoFar(s0, m0) ==
    /\ from.ts = Timestamp(days, clock.h, m0, s0)
    /\ from.small <=> s0 < 16 /\ m0 < 16 /\ clock.h < 16 /\ clock.d < 16
                      /\ clock.mo < 16 /\ clock.y % 100 < 16
    /\ reg[1] = Twice(s0)
    /\ \/ clock.mi = m0 /\ (from.still => clock.s = s0)
       \/ clock.mi = m0 + 1 /\ ~from.still /\ s0 = 59
    /\ Len(reg) >= 2 => reg[2] = Twice(m0) \/ (s0 = 59 /\ reg[2] = Twice(m0 + 1))
    /\ \A i \in 3..Len(reg) : reg[i] = Twice(FieldOf(clock, i))

Reading ==
    /\ reg \in Seq(Int) /\ Len(reg) <= 6 /\ clock.s <= 59
    /\ DOMAIN from = {"ts", "small", "still"}
    /\ reg # <<>> => \E s0 \in 0..59, m0 \in Nat : ReadSoFar(s0, m0)

RtcInv == DaysMatch /\ Reading

\* What one read returns.
LEMMA RegisterOf ==
    ASSUME Dated(clock), NEW i \in 1..6
    PROVE  register(Fields[i]) = Twice(FieldOf(clock, i)) /\ FieldOf(clock, i) \in Nat
<1>1. /\ Fields[1] = "s" /\ Fields[2] = "mi" /\ Fields[3] = "h"
      /\ Fields[4] = "d" /\ Fields[5] = "mo" /\ Fields[6] = "y"
  BY DEF Fields
<1>2. i \in {1, 2, 3, 4, 5, 6}
  OBVIOUS
<1>3. clock \in Dates
  BY DEF Dated
<1>4. /\ clock.s \in Nat /\ clock.mi \in Nat /\ clock.h \in Nat
      /\ clock.d \in Nat /\ clock.mo \in Nat /\ clock.y % 100 \in Nat
  BY <1>3 DEF Dates
<1>5. register(Fields[i]) = Twice(FieldOf(clock, i))
  BY <1>1, <1>2 DEF register, FieldOf, Twice
<1>6. QED
  BY <1>2, <1>4, <1>5 DEF FieldOf

-----------------------------------------------------------------------------
(* The steps.                                                              *)

LEMMA DayPasses ==
    ASSUME RtcInv, next_day
    PROVE  RtcInv'
<1> DEFINE n == NextDate(clock)
<1>1. /\ Dated(clock) /\ days \in Int /\ UnixDays(clock) = days /\ Reading
      /\ LastYear \in Nat /\ LastYear >= 1970 => clock.y <= LastYear
  BY DEF RtcInv, DaysMatch, UnixDaysExact, UnixDays
<1>2. /\ Dated(n) /\ UnixDays(n) = UnixDays(clock) + 1
      /\ n.y = clock.y \/ (n.y = clock.y + 1 /\ clock.mo = 12 /\ clock.d = 31)
  BY <1>1, NextDateCounts
<1>3. /\ reg = <<>> /\ clock' = [n EXCEPT !.h = 0, !.mi = 0, !.s = 0] /\ days' = days + 1
      /\ reg' = reg /\ from' = from
      /\ ~(clock.y = LastYear /\ clock.mo = 12 /\ clock.d = 31)
  BY DEF next_day
<1> HIDE DEF n
<1>4. clock' = [y |-> n.y, mo |-> n.mo, d |-> n.d, h |-> 0, mi |-> 0, s |-> 0]
  <2>1. n = [y |-> n.y, mo |-> n.mo, d |-> n.d, h |-> n.h, mi |-> n.mi, s |-> n.s]
    BY <1>2, DateOf DEF Dated
  <2>2. QED
    BY ONLY <1>3, <2>1
<1>5. Dated(clock') /\ UnixDays(clock') = UnixDays(n) /\ clock'.y = n.y
  BY <1>2, <1>4, SameDay
<1>6. LastYear \in Nat /\ LastYear >= 1970 => clock'.y <= LastYear
  <2>1. clock.y \in Nat
    BY <1>1 DEF Dated, Dates
  <2>2. QED
    BY <1>1, <1>2, <1>3, <1>5, <2>1
<1>7. DaysMatch'
  BY <1>1, <1>2, <1>3, <1>5, <1>6 DEF DaysMatch, UnixDaysExact, UnixDays
<1>8. Reading'
  BY <1>1, <1>3, <1>4 DEF Reading
<1>9. QED
  BY <1>7, <1>8 DEF RtcInv

LEMMA TimePasses ==
    ASSUME RtcInv, NEW h \in Nat, NEW mi \in Nat, NEW s \in 0..59, pass_time(h, mi, s)
    PROVE  RtcInv'
<1>1. DaysMatch /\ Reading /\ Dated(clock)
  BY DEF RtcInv, DaysMatch
<1>2. /\ reg = <<>> /\ clock' = [clock EXCEPT !.h = h, !.mi = mi, !.s = s]
      /\ UNCHANGED <<days, reg, from>>
  BY DEF pass_time
<1>3. clock' = [y |-> clock.y, mo |-> clock.mo, d |-> clock.d, h |-> h, mi |-> mi, s |-> s]
  <2>1. clock = [y |-> clock.y, mo |-> clock.mo, d |-> clock.d,
                 h |-> clock.h, mi |-> clock.mi, s |-> clock.s]
    BY <1>1, DateOf DEF Dated
  <2>2. QED
    BY ONLY <1>2, <2>1
<1>4. Dated(clock') /\ UnixDays(clock') = UnixDays(clock) /\ clock'.y = clock.y
  BY <1>1, <1>3, SameDay
<1>5. DaysMatch'
  BY <1>1, <1>2, <1>4 DEF DaysMatch, UnixDaysExact, UnixDays
<1>6. Reading'
  <2>1. clock'.s = s
    BY ONLY <1>3
  <2>2. s <= 59
    OBVIOUS
  <2>3. reg' = reg /\ from' = from /\ reg = <<>>
    BY <1>2
  <2>4. QED
    BY <1>1, <2>1, <2>2, <2>3 DEF Reading
<1>7. QED
  BY <1>5, <1>6 DEF RtcInv

LEMMA ClockTicks ==
    ASSUME RtcInv, second_passes
    PROVE  RtcInv'
<1>1. DaysMatch /\ Reading /\ Dated(clock)
  BY DEF RtcInv, DaysMatch
<1>2. /\ reg # <<>> /\ from.still /\ clock.mi < 59
      /\ clock' = IF clock.s < 59 THEN [clock EXCEPT !.s = @ + 1]
                  ELSE [clock EXCEPT !.s = 0, !.mi = @ + 1]
      /\ from' = [from EXCEPT !.still = FALSE] /\ UNCHANGED <<days, reg>>
  BY DEF second_passes
<1>3. clock = [y |-> clock.y, mo |-> clock.mo, d |-> clock.d,
               h |-> clock.h, mi |-> clock.mi, s |-> clock.s]
  BY <1>1, DateOf DEF Dated
<1>4. clock.s \in Nat /\ clock.mi \in Nat /\ clock.h \in Nat
  BY <1>1 DEF Dated, Dates
<1>5. PICK s \in Nat, mi \in Nat :
        /\ clock' = [y |-> clock.y, mo |-> clock.mo, d |-> clock.d,
                     h |-> clock.h, mi |-> mi, s |-> s]
        /\ s <= 59
        /\ mi = clock.mi \/ (mi = clock.mi + 1 /\ ~(clock.s < 59))
  <2>1. CASE clock.s < 59
    <3>1. clock' = [y |-> clock.y, mo |-> clock.mo, d |-> clock.d,
                    h |-> clock.h, mi |-> clock.mi, s |-> clock.s + 1]
      <4>1. clock' = [clock EXCEPT !.s = clock.s + 1]
        BY ONLY <1>2, <2>1
      <4>2. QED
        BY ONLY <1>3, <4>1
    <3>2. clock.s + 1 \in Nat /\ clock.s + 1 <= 59
      BY <1>4, <2>1
    <3>3. QED
      BY ONLY <1>4, <3>1, <3>2
  <2>2. CASE ~(clock.s < 59)
    <3>1. clock' = [y |-> clock.y, mo |-> clock.mo, d |-> clock.d,
                    h |-> clock.h, mi |-> clock.mi + 1, s |-> 0]
      <4>1. clock' = [clock EXCEPT !.s = 0, !.mi = clock.mi + 1]
        BY ONLY <1>2, <2>2
      <4>2. QED
        BY ONLY <1>3, <4>1
    <3>2. QED
      BY <1>4, <2>2, <3>1
  <2>3. QED
    BY <2>1, <2>2
<1>6. /\ Dated(clock') /\ UnixDays(clock') = UnixDays(clock) /\ clock'.y = clock.y
      /\ clock'.mo = clock.mo /\ clock'.d = clock.d /\ clock'.h = clock.h
      /\ clock'.mi = mi /\ clock'.s = s
  BY <1>1, <1>4, <1>5, SameDay
<1>7. DaysMatch'
  BY <1>1, <1>2, <1>6 DEF DaysMatch, UnixDaysExact, UnixDays
<1>8. Reading'
  <2>1. /\ DOMAIN from' = {"ts", "small", "still"} /\ from'.still = FALSE
        /\ from'.ts = from.ts /\ from'.small = from.small
    BY <1>1, <1>2 DEF Reading
  <2>2. PICK s0 \in 0..59, m0 \in Nat : ReadSoFar(s0, m0)
    BY <1>1, <1>2 DEF Reading
  <2>3. /\ clock.s = s0 /\ clock.mi = m0
        /\ mi = m0 \/ (mi = m0 + 1 /\ s0 = 59)
    <3>1. clock.s = s0 /\ clock.mi = m0 /\ clock.s <= 59
      BY <1>1, <1>2, <2>2 DEF Reading, ReadSoFar
    <3>2. mi = clock.mi \/ (mi = clock.mi + 1 /\ ~(clock.s < 59))
      BY <1>5
    <3>3. QED
      BY <1>4, <3>1, <3>2
  <2>4. ASSUME NEW i \in 3..Len(reg) PROVE FieldOf(clock', i) = FieldOf(clock, i)
    <3>1. i # 1 /\ i # 2
      BY <1>1 DEF Reading
    <3>2. QED
      BY ONLY <1>6, <3>1 DEF FieldOf
  <2>5. ReadSoFar(s0, m0)'
    <3>1. reg' = reg /\ days' = days
      BY <1>2
    <3>2. \A i \in 3..Len(reg) : reg'[i] = Twice(FieldOf(clock', i))
      BY <2>2, <2>4, <3>1 DEF ReadSoFar
    <3>3. clock'.mi = m0 \/ (clock'.mi = m0 + 1 /\ ~from'.still /\ s0 = 59)
      BY <1>6, <2>1, <2>3
    <3>4. QED
      BY ONLY <1>6, <2>1, <2>2, <3>1, <3>2, <3>3 DEF ReadSoFar
  <2>6. clock'.s <= 59
    BY <1>5, <1>6
  <2>7. QED
    BY <1>1, <1>2, <2>1, <2>5, <2>6 DEF Reading
<1>9. QED
  BY <1>7, <1>8 DEF RtcInv

LEMMA Reads ==
    ASSUME RtcInv, get_unix_timestamp
    PROVE  RtcInv'
<1> DEFINE i == Len(reg) + 1
           v == register(Fields[i])
<1>1. DaysMatch /\ Reading /\ Dated(clock) /\ reg \in Seq(Int) /\ Len(reg) \in Nat
  BY DEF RtcInv, DaysMatch, Reading
<1>2. /\ Len(reg) < 6 /\ reg' = Append(reg, v)
      /\ from' = IF reg # <<>> THEN from
                 ELSE [NoRead EXCEPT !.small = Small(clock),
                                     !.ts = Timestamp(days, clock.h, clock.mi, clock.s)]
      /\ UNCHANGED <<clock, days>>
  BY DEF get_unix_timestamp
<1>3. i \in 1..6
  BY <1>1, <1>2
<1>4. v = Twice(FieldOf(clock, i)) /\ FieldOf(clock, i) \in Nat
  BY <1>1, <1>3, RegisterOf
<1>5. v \in Int
  BY <1>4, TwiceIs
<1> HIDE DEF v
<1>6. /\ reg' \in Seq(Int) /\ Len(reg') = i /\ reg' # <<>> /\ reg'[i] = v
      /\ \A j \in 1..Len(reg) : reg'[j] = reg[j]
  BY <1>1, <1>2, <1>5
<1>7. DaysMatch'
  BY <1>1, <1>2 DEF DaysMatch, UnixDaysExact
<1>8. clock'.s <= 59 /\ Len(reg') <= 6
  BY <1>1, <1>2, <1>3, <1>6 DEF Reading
<1>9. ASSUME reg = <<>> PROVE Reading'
  <2>1. /\ DOMAIN from' = {"ts", "small", "still"} /\ from'.still = TRUE
        /\ from'.small = Small(clock)
        /\ from'.ts = Timestamp(days, clock.h, clock.mi, clock.s)
    BY <1>2, <1>9 DEF NoRead
  <2>2. i = 1 /\ FieldOf(clock, i) = clock.s /\ Len(reg') = 1
    BY <1>6, <1>9 DEF FieldOf
  <2>3. clock.s \in 0..59 /\ clock.mi \in Nat
    <3>1. clock.s \in Nat /\ clock.mi \in Nat /\ clock.s <= 59
      BY <1>1 DEF Reading, Dated, Dates
    <3>2. QED
      BY <3>1
  <2>4. Small(clock) <=> clock.s < 16 /\ clock.mi < 16 /\ clock.h < 16 /\ clock.d < 16
                         /\ clock.mo < 16 /\ clock.y % 100 < 16
    BY DEF Small
  <2>5. reg'[1] = Twice(clock.s)
    BY <1>4, <1>6, <2>2
  <2>6. ReadSoFar(clock.s, clock.mi)'
    <3>1. clock' = clock /\ days' = days
      BY <1>2
    <3>2. QED
      BY ONLY <2>1, <2>2, <2>4, <2>5, <3>1 DEF ReadSoFar
  <2>7. \E s0 \in 0..59, m0 \in Nat : ReadSoFar(s0, m0)'
    BY <1>2, <2>3, <2>6
  <2>8. QED
    BY <1>6, <1>8, <2>1, <2>7, Zenon DEF Reading
<1>10. ASSUME reg # <<>> PROVE Reading'
  <2>1. from' = from /\ i >= 2 /\ 1 \in 1..Len(reg)
    BY <1>1, <1>2, <1>10
  <2>2. PICK s0 \in 0..59, m0 \in Nat : ReadSoFar(s0, m0)
    BY <1>1, <1>10 DEF Reading
  <2>3. ASSUME NEW j \in 3..Len(reg') PROVE reg'[j] = Twice(FieldOf(clock, j))
    <3>1. CASE j = i
      BY <1>4, <1>6, <3>1
    <3>2. CASE j # i
      <4>1. j \in 3..Len(reg) /\ j \in 1..Len(reg)
        BY <1>1, <1>6, <2>3, <3>2
      <4>2. QED
        BY <1>6, <2>2, <4>1 DEF ReadSoFar
    <3>3. QED
      BY <3>1, <3>2
  <2>4. reg'[1] = reg[1]
    BY <1>6, <2>1
  <2>5. Len(reg') >= 2 => reg'[2] = Twice(m0) \/ (s0 = 59 /\ reg'[2] = Twice(m0 + 1))
    <3>1. CASE i = 2
      <4>1. reg'[2] = Twice(clock.mi)
        BY <1>4, <1>6, <3>1 DEF FieldOf
      <4>2. QED
        BY <2>2, <4>1 DEF ReadSoFar
    <3>2. CASE i # 2
      <4>1. 2 \in 1..Len(reg) /\ Len(reg) >= 2
        BY <1>1, <2>1, <3>2
      <4>2. QED
        BY <1>6, <2>2, <4>1 DEF ReadSoFar
    <3>3. QED
      BY <3>1, <3>2
  <2>6. ReadSoFar(s0, m0)'
    <3>1. clock' = clock /\ days' = days
      BY <1>2
    <3>2. QED
      BY ONLY <2>1, <2>2, <2>3, <2>4, <2>5, <3>1 DEF ReadSoFar
  <2>7. \E s \in 0..59, m \in Nat : ReadSoFar(s, m)'
    BY <2>6
  <2>8. DOMAIN from' = {"ts", "small", "still"}
    BY <1>1, <2>1 DEF Reading
  <2>9. QED
    BY <1>6, <1>8, <2>7, <2>8, Zenon DEF Reading
<1>11. QED
  BY <1>7, <1>9, <1>10 DEF RtcInv

LEMMA InitRtc == RtcInit => RtcInv
<1> SUFFICES ASSUME RtcInit PROVE RtcInv
  OBVIOUS
<1>1. /\ clock = [y |-> 1970, mo |-> 1, d |-> 1, h |-> 0, mi |-> 0, s |-> 0]
      /\ days = 0 /\ reg = <<>> /\ from = NoRead
  BY DEF RtcInit
<1>2. Dated(clock)
  BY <1>1 DEF Dated, Dates, DaysIn
<1>3. unix_days(1970, 1, 1) = 0
  BY MonthTable DEF unix_days
<1>4. DaysMatch
  BY <1>1, <1>2, <1>3 DEF DaysMatch, UnixDaysExact
<1>5. Reading
  BY <1>1 DEF Reading, NoRead
<1>6. QED
  BY <1>4, <1>5 DEF RtcInv

LEMMA NextRtc == RtcInv /\ [RtcNext]_rtcVars => RtcInv'
<1> SUFFICES ASSUME RtcInv, [RtcNext]_rtcVars PROVE RtcInv'
  OBVIOUS
<1>1. CASE next_day
  BY <1>1, DayPasses
<1>2. ASSUME NEW h \in {10, 23}, NEW mi \in {9, 15}, NEW s \in {0, 14, 59},
             pass_time(h, mi, s)
      PROVE  RtcInv'
  <2>1. h \in Nat /\ mi \in Nat /\ s \in 0..59
    BY ONLY h \in {10, 23}, mi \in {9, 15}, s \in {0, 14, 59}
  <2>2. QED
    BY <1>2, <2>1, TimePasses
<1>3. CASE second_passes
  BY <1>3, ClockTicks
<1>4. CASE get_unix_timestamp
  BY <1>4, Reads
<1>5. CASE UNCHANGED rtcVars
  BY <1>5 DEF rtcVars, RtcInv, DaysMatch, Reading, ReadSoFar, UnixDaysExact
<1>6. CASE done
  BY <1>5, <1>6 DEF done
<1>7. QED
  BY <1>1, <1>2, <1>3, <1>4, <1>5, <1>6 DEF RtcNext

LEMMA RtcInvariant == RtcSpec => []RtcInv
<1>1. QED
  BY InitRtc, NextRtc, PTL DEF RtcSpec

LEMMA TwoDigits ==
    ASSUME NEW y \in 1970..2069, y % 100 < 16
    PROVE  y \in 2000..2015
  OBVIOUS

-----------------------------------------------------------------------------
(* What the fields decoded twice amount to.                                *)

\* No error of one field makes up for that of another: all of them make the value
\* smaller, but for the minute read after the clock has rolled over, and then
\* the second was read as 41.
Seconds == 0..59
SecondOf(h, m, s) == (h * 60 + m) * 60 + s
SmallTime(h, m, s) == h < 16 /\ m < 16 /\ s < 16
Rolled(m0, m1, s0) == m1 = m0 \/ (m1 = m0 + 1 /\ s0 = 59)
Within(t, t0) == t - t0 \in 0..1

LEMMA TimeWrong ==
    ASSUME NEW h \in Nat, NEW m0 \in Nat, NEW s0 \in Seconds, NEW m1 \in Nat, Rolled(m0, m1, s0),
           Within(SecondOf(Twice(h), Twice(m1), Twice(s0)), SecondOf(h, m0, s0))
    PROVE  SmallTime(h, m0, s0)
<1> DEFINE a == Twice(h)
           b == Twice(m1)
           c == Twice(s0)
<1>0. s0 \in 0..59
  BY DEF Seconds
<1>1. /\ a \in Nat /\ (h < 16 => a = h) /\ (h >= 16 => a <= h - 6)
      /\ b \in Nat /\ (m1 < 16 => b = m1) /\ (m1 >= 16 => b <= m1 - 6)
      /\ c \in Nat /\ (s0 < 16 => c = s0) /\ (s0 >= 16 => c <= s0 - 6)
  BY <1>0, TwiceIs
<1>2. s0 = 59 => c = 41
  BY <1>0, TwiceIs
<1>3. ((a * 60 + b) * 60 + c) - ((h * 60 + m0) * 60 + s0) \in 0..1
  BY DEF Within, SecondOf
<1> HIDE DEF a, b, c
<1>4. m1 = m0
  BY <1>0, <1>1, <1>2, <1>3 DEF Rolled
<1>5. QED
  BY <1>0, <1>1, <1>3, <1>4 DEF SmallTime

YearDays(y) == (y - 1970) * 365 + (y - 1969) \div 4 - (y - 1901) \div 100 + (y - 1601) \div 400

LEMMA YearsApart ==
    ASSUME NEW x \in 1970..2069, NEW y \in 1970..2069, x >= y + 6
    PROVE  /\ YearDays(x) \in Int /\ YearDays(y) \in Int
           /\ YearDays(x) >= YearDays(y) + 2000
<1>1. /\ (x - 1969) \div 4 \in Int /\ (y - 1969) \div 4 \in Int
      /\ (x - 1969) \div 4 >= (y - 1969) \div 4
  BY DivMono
<1>2. /\ (x - 1901) \div 100 \in 0..1 /\ (y - 1901) \div 100 \in 0..1
  OBVIOUS
<1>3. /\ (x - 1601) \div 400 \in 0..1 /\ (y - 1601) \div 400 \in 0..1
  OBVIOUS
<1>4. (x - 1970) * 365 >= (y - 1970) * 365 + 2190
  OBVIOUS
<1>5. QED
  BY <1>1, <1>2, <1>3, <1>4 DEF YearDays

Covered == 1970..2069
SmallDate(y, d) == y % 100 < 16 /\ d < 16
DayRead(y, mo, d) == unix_days(century(Twice(y % 100)), mo, Twice(d))

LEMMA DateWrong ==
    ASSUME NEW y \in Covered, NEW mo \in 1..12, NEW d \in 1..31,
           DayRead(y, mo, d) = unix_days(y, mo, d)
    PROVE  SmallDate(y, d)
<1> DEFINE yy == y % 100
           t  == Twice(yy)
           e  == Twice(d)
           x  == century(t)
           B  == days_before_month[mo]
           L(z) == IF is_leap(z) /\ mo > 2 THEN 1 ELSE 0
<1>1. /\ yy \in 0..99 /\ (y = 1900 + yy \/ y = 2000 + yy) /\ (y = 1900 + yy <=> yy >= 70)
  BY DEF Covered
<1>2. /\ t \in Nat /\ t = yy - 6 * (yy \div 16)
      /\ (yy < 16 => t = yy) /\ (yy >= 16 => t <= yy - 6)
  <2>1. yy \in Nat
    BY <1>1
  <2> HIDE DEF yy
  <2>2. QED
    BY <2>1, TwiceIs
<1>2a. e \in Nat /\ (d < 16 => e = d) /\ (d >= 16 => e <= d - 6)
  BY TwiceIs
<1>3. yy >= 70 => t \in 46..65
  <2> HIDE DEF yy, t
  <2>1. QED
    BY <1>1, <1>2
<1>4. x = IF t < 70 THEN t + 2000 ELSE t + 1900
  BY DEF century
<1>5. B \in Int /\ L(x) \in 0..1 /\ L(y) \in 0..1
  BY MonthTable
<1>6. /\ unix_days(x, mo, e) = YearDays(x) + B + L(x) + e - 1
      /\ unix_days(y, mo, d) = YearDays(y) + B + L(y) + d - 1
  BY DEF unix_days, YearDays
<1> HIDE DEF yy, t, e, x, B, L
<1>7. /\ x \in 1970..2069 /\ y \in 1970..2069
      /\ (yy < 16 => x = y) /\ (yy >= 16 => x >= y + 6 \/ y >= x + 6)
  BY <1>1, <1>2, <1>3, <1>4 DEF Covered
<1>8. YearDays(x) \in Int /\ YearDays(y) \in Int
  BY <1>7 DEF YearDays
<1>9. YearDays(x) + B + L(x) + e - 1 = YearDays(y) + B + L(y) + d - 1
  BY <1>6 DEF x, t, e, yy, DayRead
<1>10. e <= 31 /\ e >= 0
  BY <1>2a
<1>11. yy < 16
  <2>1. CASE x >= y + 6
    <3>1. YearDays(x) >= YearDays(y) + 2000
      BY <1>7, <2>1, YearsApart
    <3>2. QED
      BY <1>2a, <1>5, <1>8, <1>9, <1>10, <3>1
  <2>2. CASE y >= x + 6
    <3>1. YearDays(y) >= YearDays(x) + 2000
      BY <1>7, <2>2, YearsApart
    <3>2. QED
      BY <1>2a, <1>5, <1>8, <1>9, <1>10, <3>1
  <2>3. QED
    BY <1>1, <1>7, <2>1, <2>2
<1>12. d < 16
  <2>1. x = y
    BY <1>7, <1>11
  <2>2. e = d
    BY <1>2a, <1>5, <1>8, <1>9, <2>1
  <2>3. QED
    BY <1>2a, <2>2
<1>13. QED
  BY <1>11, <1>12 DEF yy, SmallDate

\* The day formula agrees with the calendar on every day from 1970 on, whatever
\* year the walk ends in (rtc.cpp 41-49).
THEOREM DaysExact == RtcSpec => []UnixDaysExact
<1>1. RtcInv => UnixDaysExact
  BY DEF RtcInv, DaysMatch
<1>2. QED
  BY <1>1, RtcInvariant, PTL

\* A read is right exactly if all fields were below 16 at its first register, as
\* long as two digits tell the year, although the clock may tick and its minute
\* roll over between the registers (rtc.cpp 15, 24-29).
THEOREM SmallReadsExact ==
    ASSUME LastYear \in 1970..2069
    PROVE  RtcSpec => []SmallFieldsExact
<1>1. RtcInv => SmallFieldsExact
  <2> SUFFICES ASSUME RtcInv, Len(reg) = 6 PROVE InTheCall <=> from.small
    BY DEF SmallFieldsExact
  <2>1. Dated(clock) /\ Reading /\ days = unix_days(clock.y, clock.mo, clock.d)
        /\ clock.y <= LastYear /\ days \in Int
    BY DEF RtcInv, DaysMatch, UnixDaysExact
  <2>2. reg # <<>>
    OBVIOUS
  <2>3. PICK s0 \in 0..59, m0 \in Nat : ReadSoFar(s0, m0)
    BY <2>1, <2>2 DEF Reading
  <2>4. /\ clock.y \in 1970..2069 /\ clock.mo \in 1..12 /\ clock.d \in 1..31
        /\ clock.h \in Nat /\ clock.mi \in Nat
    BY <2>1 DEF Dated, Dates
  <2>5. PICK m1 \in Nat : /\ m1 = m0 \/ (m1 = m0 + 1 /\ s0 = 59)
                          /\ reg[2] = Twice(m1)
    BY <2>3 DEF ReadSoFar
  <2>6. /\ reg[1] = Twice(s0) /\ reg[3] = Twice(clock.h) /\ reg[4] = Twice(clock.d)
        /\ reg[5] = clock.mo /\ reg[6] = Twice(clock.y % 100)
    <3>1. 3 \in 3..Len(reg) /\ 4 \in 3..Len(reg) /\ 5 \in 3..Len(reg) /\ 6 \in 3..Len(reg)
      OBVIOUS
    <3>2. reg[5] = Twice(clock.mo)
      BY <2>3, <3>1 DEF ReadSoFar, FieldOf
    <3>3. Twice(clock.mo) = clock.mo
      <4>1. clock.mo \in Nat /\ clock.mo < 16
        BY <2>4
      <4>2. QED
        BY ONLY <4>1, TwiceIs
    <3>4. QED
      BY <2>3, <3>1, <3>2, <3>3 DEF ReadSoFar, FieldOf
  <2>7. timestamp(reg) = <<DayRead(clock.y, clock.mo, clock.d),
                          SecondOf(Twice(clock.h), Twice(m1), Twice(s0))>>
    BY <2>5, <2>6 DEF timestamp, Timestamp, DayRead, SecondOf
  <2>8. from.ts = <<unix_days(clock.y, clock.mo, clock.d), SecondOf(clock.h, m0, s0)>>
    BY <2>1, <2>3 DEF ReadSoFar, Timestamp, SecondOf
  <2>9. from.small <=> SmallTime(clock.h, m0, s0) /\ SmallDate(clock.y, clock.d)
    BY <2>3, <2>4 DEF ReadSoFar, SmallTime, SmallDate
  <2>10. InTheCall <=>
           /\ DayRead(clock.y, clock.mo, clock.d) = unix_days(clock.y, clock.mo, clock.d)
           /\ Within(SecondOf(Twice(clock.h), Twice(m1), Twice(s0)), SecondOf(clock.h, m0, s0))
    BY <2>7, <2>8 DEF InTheCall, Within
  <2>11. ASSUME InTheCall PROVE from.small
    <3>1. Rolled(m0, m1, s0) /\ clock.y \in Covered
      BY <2>4, <2>5 DEF Rolled, Covered
    <3>2. SmallDate(clock.y, clock.d)
      <4>1. DayRead(clock.y, clock.mo, clock.d) = unix_days(clock.y, clock.mo, clock.d)
        BY <2>10, <2>11
      <4>2. clock.mo \in 1..12 /\ clock.d \in 1..31
        BY <2>4
      <4>3. QED
        BY <3>1, <4>1, <4>2, DateWrong
    <3>3. SmallTime(clock.h, m0, s0)
      <4>1. Within(SecondOf(Twice(clock.h), Twice(m1), Twice(s0)), SecondOf(clock.h, m0, s0))
        BY <2>10, <2>11
      <4>2. clock.h \in Nat /\ m0 \in Nat /\ m1 \in Nat /\ s0 \in Seconds
        BY <2>4 DEF Seconds
      <4>3. QED
        BY ONLY <3>1, <4>1, <4>2, TimeWrong
    <3>4. QED
      BY <2>9, <3>2, <3>3
  <2>12. ASSUME from.small PROVE InTheCall
    <3>0. /\ s0 < 16 /\ m0 < 16 /\ clock.h < 16 /\ clock.d < 16 /\ clock.y % 100 < 16
      BY <2>9, <2>12 DEF SmallTime, SmallDate
    <3>1. clock.y % 100 \in Nat /\ clock.d \in Nat /\ s0 \in Nat /\ m1 = m0
      BY <2>4, <2>5, <3>0
    <3>2. \A n \in Nat : n < 16 => Twice(n) = n
      BY TwiceIs
    <3>3. /\ Twice(clock.y % 100) = clock.y % 100 /\ Twice(clock.d) = clock.d
          /\ Twice(clock.h) = clock.h /\ Twice(m1) = m0 /\ Twice(s0) = s0
      BY <2>4, <3>0, <3>1, <3>2
    <3>4. clock.y \in 2000..2015
      BY <2>4, <3>0, TwoDigits
    <3>5. century(clock.y % 100) = clock.y
      BY ONLY <3>4 DEF century
    <3>6. DayRead(clock.y, clock.mo, clock.d) = unix_days(clock.y, clock.mo, clock.d)
      BY <3>3, <3>5 DEF DayRead
    <3>7. SecondOf(clock.h, m0, s0) \in Int
      BY <2>4 DEF SecondOf
    <3>8. QED
      BY <2>10, <3>3, <3>6, <3>7 DEF Within
  <2>13. QED
    BY <2>11, <2>12
<1>2. QED
  BY <1>1, RtcInvariant, PTL
=============================================================================
