--------------------------------- MODULE Rtc ---------------------------------
(***************************************************************************)
(* RTC::get_unix_timestamp (rtc.cpp): six CMOS registers, each the two BCD *)
(* digits of its field, read one after the other from a clock that runs on *)
(* and turned into seconds since 1970.                                     *)
(* The initial predicate, the next-state relation and the specification    *)
(* carry the prefix Rtc: KernelTimeProofs extends KernelTime too.          *)
(***************************************************************************)
EXTENDS Integers, Sequences

CONSTANTS LastYear,     \* bound: the calendar is walked from 1970 to its end
          ReadOn(_)     \* the days on which the clock is read

VARIABLES clock,    \* [y, mo, d, h, mi, s], the time the CMOS clock shows
          days,     \* days since 1970, counted by the calendar
          reg,      \* the fields read so far, as get_unix_timestamp has them
          from      \* [ts, small, still]: the true time at the first read, whether
                    \* its fields were small, whether the clock has stood still since
rtcVars == <<clock, days, reg, from>>

-----------------------------------------------------------------------------
\* The calendar.
Leap(y) == (y % 4 = 0 /\ y % 100 # 0) \/ y % 400 = 0
DaysIn(y, mo) == CASE mo = 2 -> IF Leap(y) THEN 29 ELSE 28
                   [] mo \in {4, 6, 9, 11} -> 30 [] OTHER -> 31
NextDate(c) ==
    IF c.d < DaysIn(c.y, c.mo) THEN [c EXCEPT !.d = @ + 1]
    ELSE IF c.mo < 12 THEN [c EXCEPT !.d = 1, !.mo = @ + 1]
    ELSE [c EXCEPT !.d = 1, !.mo = 1, !.y = @ + 1]

\* A timestamp is kept as its days and the seconds left over: the code's number of
\* seconds, computed in uint32_t and widened on return, holds every moment through
\* 2069 (and on to 2106), but passes what TLC can count in 2038.
Timestamp(day, h, mi, s) == <<day, (h * 60 + mi) * 60 + s>>

\* The CMOS cell of a field: tens in the upper four bits, units in the lower.
Bcd(n) == (n \div 10) * 16 + (n % 10)
Fields == <<"s", "mi", "h", "d", "mo", "y">>

-----------------------------------------------------------------------------
bcd_to_bin(val) == (val \div 16) * 10 + (val % 16)
read_reg(n) == bcd_to_bin(Bcd(n))
register(f) == bcd_to_bin(read_reg(IF f = "y" THEN clock.y % 100 ELSE clock[f]))
century_none(year) == year + 1900
century(year) == IF year < 70 THEN year + 2000 ELSE year + 1900

days_before_month == <<0, 31, 59, 90, 120, 151, 181, 212, 243, 273, 304, 334>>
is_leap_century(year) == year % 4 = 0 /\ year % 100 # 0
is_leap(year) == year % 4 = 0 /\ (year % 100 # 0 \/ year % 400 = 0)
unix_days(year, month, day) ==
    (year - 1970) * 365 + (year - 1969) \div 4 - (year - 1901) \div 100
        + (year - 1601) \div 400 + days_before_month[month]
        + (IF is_leap(year) /\ month > 2 THEN 1 ELSE 0) + day - 1
timestamp(r) ==
    Timestamp(unix_days(century(r[6]), r[5], r[4]), r[3], r[2], r[1])

-----------------------------------------------------------------------------
NoRead == [ts |-> <<0, 0>>, small |-> FALSE, still |-> TRUE]
Small(c) == (\A f \in {"s", "mi", "h", "d", "mo"} : c[f] < 16) /\ c.y % 100 < 16
RtcInit ==
    /\ clock = [y |-> 1970, mo |-> 1, d |-> 1, h |-> 0, mi |-> 0, s |-> 0]
    /\ days = 0 /\ reg = <<>> /\ from = NoRead

\* The clock jumps to the next midnight while nobody reads it ...
next_day ==
    /\ reg = <<>> /\ ~(clock.y = LastYear /\ clock.mo = 12 /\ clock.d = 31)
    /\ clock' = [NextDate(clock) EXCEPT !.h = 0, !.mi = 0, !.s = 0]
    /\ days' = days + 1 /\ UNCHANGED <<reg, from>>
\* ... is looked at at some hour of a day it is read on ...
pass_time(h, mi, s) ==
    /\ reg = <<>> /\ ReadOn(clock) /\ clock.h = 0
    /\ clock' = [clock EXCEPT !.h = h, !.mi = mi, !.s = s]
    /\ UNCHANGED <<days, reg, from>>
\* ... and goes on by a second, into the next minute too, during the read.
second_passes ==
    /\ reg # <<>> /\ Len(reg) < 6 /\ from.still /\ clock.mi < 59
    /\ clock' = IF clock.s < 59 THEN [clock EXCEPT !.s = @ + 1]
                ELSE [clock EXCEPT !.s = 0, !.mi = @ + 1]
    /\ from' = [from EXCEPT !.still = FALSE] /\ UNCHANGED <<days, reg>>

get_unix_timestamp ==
    /\ clock.h # 0 /\ Len(reg) < 6
    /\ reg' = Append(reg, register(Fields[Len(reg) + 1]))
    /\ from' = IF reg # <<>> THEN from
                ELSE [NoRead EXCEPT !.small = Small(clock),
                                    !.ts = Timestamp(days, clock.h, clock.mi, clock.s)]
    /\ UNCHANGED <<clock, days>>
\* It is called once, in early boot.
done ==
    /\ Len(reg) = 6 \/ (clock.y = LastYear /\ clock.mo = 12 /\ clock.d = 31)
    /\ UNCHANGED rtcVars

RtcNext == \/ next_day \/ second_passes \/ get_unix_timestamp \/ done
           \/ \E h \in {10, 23}, mi \in {9, 15}, s \in {0, 14, 59} : pass_time(h, mi, s)
RtcSpec == RtcInit /\ [][RtcNext]_rtcVars

-----------------------------------------------------------------------------
\* The day formula of get_unix_timestamp (rtc.cpp 41-49) agrees with the
\* calendar on every day of the walk, leap years and the century included.
UnixDaysExact == unix_days(clock.y, clock.mo, clock.d) = days

\* Is the value returned the time at some moment of the call, which takes at most
\* a second here?
InTheCall == /\ timestamp(reg)[1] = from.ts[1]
             /\ timestamp(reg)[2] - from.ts[2] \in 0..1

\* Every register is decoded twice (rtc.cpp 15, 24-29), and none is read at the same
\* moment as another.  The value returned is right exactly if every field was below
\* 16 when the first register was read: then no tick does harm, and otherwise no
\* error makes up for another.
SmallFieldsExact == Len(reg) = 6 => (InTheCall <=> from.small)

\* rtc.hpp 23: the value returned is the seconds since 1970.
TimestampRight == Len(reg) = 6 => InTheCall
=============================================================================
