------------------------------ MODULE MCBuddy ------------------------------
(* Eight pages, blocks of up to four pages.                                 *)
EXTENDS Buddy

MCPow2        == [n \in 0..(MaxOrder + 1) |-> 2^n]
MCUsable      == {1, 2, 3, 4, 5, 7}
MCAcpi        == <<6, 7>>
MCMarkRegions == {<<0, 2>>, <<5, 7>>}
MCEarlyRanges == {{3, 4}}
MCLowPages    == {2, 3}
=============================================================================
