------------------------------- MODULE MCSlub -------------------------------
(* A cache whose slabs hold one object (kmalloc-2048) and one of two.       *)
EXTENDS Slub

MCPow2    == [n \in 0..(MaxOrder + 1) |-> 2^n]
MCMaxObjs == [c \in Classes |-> c]
=============================================================================
