------------------------------ MODULE TimeArith ------------------------------
(***************************************************************************)
(* The scaled multiplication the TSC's nanoseconds and delays are computed *)
(* with (kernel/lib/math.cpp): a * b / c without forming a * b.            *)
(***************************************************************************)
EXTENDS Integers

mul_div_u64_raw(a, b, c) == (a * b) \div c

mul_div_u64(a, b, c) == (a \div c) * b + mul_div_u64_raw(a % c, b, c)
=============================================================================
