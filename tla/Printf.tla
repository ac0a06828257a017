------------------------------- MODULE Printf --------------------------------
(***************************************************************************)
(* The number conversions and the format loop of lib/string_util.cpp,      *)
(* which kvprintf (kernel_ui.cpp) repeats for the screen.  A text is a     *)
(* sequence of characters; a format is the sequence of its items, each     *)
(* with the argument it takes, and numbers are words of Bits bits.         *)
(***************************************************************************)
EXTENDS Integers, SequencesExt

CONSTANTS Bits,       \* the width of int64_t and uint64_t
          Characters  \* what a text is made of

ASSUME BitsAssumption == Bits \in Nat \ {0}

\* Power(b)[n] is b to the n; the provers have no exponentiation of their own.
Power(base) ==
    LET power[n \in Nat] == IF n = 0 THEN 1 ELSE base * power[n - 1]
    IN  power

Word    == 0..(Power(2)[Bits] - 1)
Int_t   == (-Power(2)[Bits - 1])..(Power(2)[Bits - 1] - 1)
ToWord(v) == IF v < 0 THEN v + Power(2)[Bits] ELSE v
Chars   == <<"0", "1", "2", "3", "4", "5", "6", "7",
             "8", "9", "A", "B", "C", "D", "E", "F">>
Digit(d) == Chars[d + 1]

ASSUME CharactersAssumption ==
    Range(Chars) \cup {"-", "%", "(", "n", ")"} \subseteq Characters

-----------------------------------------------------------------------------
(* utoa: the digits are extracted from the lowest one up, with 0 handled on *)
(* its own, and the text is then reversed in place.                         *)
backwards(base) ==
    LET digits[v \in Word] ==
            IF v = 0 THEN <<>> ELSE <<Digit(v % base)>> \o digits[v \div base]
    IN  digits

utoa(value, base) ==
    IF value = 0 THEN <<"0">> ELSE Reverse(backwards(base)[value])

\* itoa: a sign in base 10 only.  Negating the smallest number overflows; the
\* negate instruction leaves it as it is, and its word is the magnitude.
itoa(value, base) ==
    IF base = 10 /\ value < 0
    THEN <<"-">> \o utoa(ToWord(-value) % Power(2)[Bits], base)
    ELSE utoa(ToWord(value), base)

\* One item of the format: a conversion, or characters that stand for themselves.
\* A null %s prints (null); an unknown conversion prints itself.
Null == <<"null">>
converted(item) ==
    CASE item.kind = "d" -> itoa(item.arg, 10)
      [] item.kind = "u" -> utoa(item.arg, 10)
      [] item.kind = "x" -> utoa(item.arg, 16)
      [] item.kind = "s" -> IF item.arg = Null THEN <<"(", "n", ")">> ELSE item.arg
      [] item.kind = "c" -> <<item.arg>>
      [] item.kind = "%" -> <<"%">>
      [] item.kind = "unknown" -> <<"%", item.arg>>

\* What a caller may pass: the argument its conversion takes.
Argument(item) ==
    \/ item.kind = "d" /\ item.arg \in Int_t
    \/ item.kind \in {"u", "x"} /\ item.arg \in Word
    \/ item.kind = "s" /\ (item.arg = Null \/ item.arg \in Seq(Characters))
    \/ item.kind \in {"c", "unknown"} /\ item.arg \in Characters
    \/ item.kind = "%"
Format(fmt) == /\ Len(fmt) \in Nat /\ DOMAIN fmt = 1..Len(fmt)
               /\ \A i \in DOMAIN fmt : Argument(fmt[i])

sprintf(fmt) == FlattenSeq([i \in DOMAIN fmt |-> converted(fmt[i])])

-----------------------------------------------------------------------------
(* What the conversions are for: positional notation, highest digit first,  *)
(* without leading zeros.                                                   *)
Length(value, base) == CHOOSE n \in 1..(Bits + 1) :
                          /\ value < Power(base)[n]
                          /\ n = 1 \/ Power(base)[n - 1] <= value
Numeral(value, base) ==
    LET n == Length(value, base)
    IN  [k \in 1..n |-> Digit((value \div Power(base)[n - k]) % base)]
Signed(value) == IF value < 0 THEN <<"-">> \o Numeral(-value, 10) ELSE Numeral(value, 10)

Meaning(item) ==
    CASE item.kind = "d" -> Signed(item.arg)
      [] item.kind = "u" -> Numeral(item.arg, 10)
      [] item.kind = "x" -> Numeral(item.arg, 16)
      [] OTHER           -> converted(item)
Text(fmt) == FlattenSeq([i \in DOMAIN fmt |-> Meaning(fmt[i])])

=============================================================================
