------------------------------ MODULE MCPaging ------------------------------
(* Tables of three entries: one PML4 entry for user addresses, one for the    *)
(* HHDM and one for the kernel, whose pages are the last third of p3_table.   *)
EXTENDS Paging

MCRam == {9, 10, 12}
MCRamBig == {9, 10, 18}     \* reaches the pages whose place in the HHDM is the kernel's
MCFrames == {4, 5, 6, 7, 8, 10}

\* A device page in the HHDM, the trampoline's identity page, huge pages of both sizes.
MCMapCalls ==
    {[v |-> 27 + 15, p |-> 15, size |-> 1, user |-> FALSE],
     [v |-> 1, p |-> 1, size |-> 1, user |-> FALSE],
     [v |-> 27 + 15, p |-> 15, size |-> 2, user |-> FALSE],
     [v |-> 9, p |-> 9, size |-> 3, user |-> FALSE]}
MCUserCalls ==
    {[v |-> 1, p |-> 1, size |-> 1, user |-> FALSE],
     [v |-> 2, p |-> 10, size |-> 1, user |-> TRUE]}
\* Three bytes across the end of a page.
MCRegions == {[addr |-> 63, len |-> 3]}
MCNoRegions == {}
MCUnmapCalls == {27 + 15}
MCAccesses == {27 + 15}
=============================================================================
