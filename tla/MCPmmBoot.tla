----------------------------- MODULE MCPmmBoot -----------------------------
(* Thirty-two pages of two bytes: a first region that starts at address 0   *)
(* and ends inside a page, a second one that holds the kernel and has two   *)
(* pages left behind it, a hole, and a third one that crosses the limit of  *)
(* the early mapping.                                                       *)
EXTENDS PmmBoot

Entry(a, l, u) == [addr |-> a, len |-> l, usable |-> u]

MCMmap == <<Entry(0, 7, TRUE), Entry(7, 1, FALSE), Entry(8, 23, TRUE),
            Entry(31, 4, FALSE), Entry(35, 29, TRUE)>>
MCPow2        == [n \in 0..(MaxOrder + 1) |-> 2^n]
MCUsable      == WalkedPages
MCAcpi        == <<16, 17>>
MCMarkRegions == {}
MCEarlyRanges == {i..j : i \in Pages, j \in Pages}
MCLowPages    == {}
=============================================================================
