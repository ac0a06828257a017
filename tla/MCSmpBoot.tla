----------------------------- MODULE MCSmpBoot -----------------------------
(***************************************************************************)
(* Instance of SmpBoot for TLC: a MADT of five processors with the boot    *)
(* processor in the middle, one processor the firmware disabled and, last, *)
(* one that is only capable of coming online and so never answers.  Every  *)
(* request for memory may be refused but those of the nodes of cpu_infos,  *)
(* which come to a shorter MADT.                                           *)
(***************************************************************************)
EXTENDS SmpBoot

MCMadt == <<[id |-> 4, flags |-> {"enabled"}],
            [id |-> 0, flags |-> {"enabled", "online_capable"}],
            [id |-> 6, flags |-> {}],
            [id |-> 2, flags |-> {"enabled"}],
            [id |-> 8, flags |-> {"online_capable"}]>>
MCRefused == {"segs", "ist", "trampoline", "cpu", "kernel_stack", "cpu_node", "caches",
               "caches_node"}
=============================================================================
