--------------------------- MODULE MCKernelCache ---------------------------
(* Two callers of one kernel and an eviction, over a launch site and a plan   *)
(* cache.                                                                     *)
EXTENDS KernelCache

Routing == [t \in Threads |-> IF t = "t1" THEN {"plan", "warm"} ELSE {"plan", "site"}]
=============================================================================
