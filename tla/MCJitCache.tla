---------------------------- MODULE MCJitCache ----------------------------
(* Two processes launch one kernel over a store that already holds another    *)
(* and has room for one of the two.                                           *)
EXTENDS JitCache

Asked == [p \in Procs |-> {"k1"}]
Sizes == [k \in Keys |-> 1]
=============================================================================
