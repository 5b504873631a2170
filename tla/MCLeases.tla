------------------------------ MODULE MCLeases ------------------------------
(* Instances of Leases: a graph captured on s1 with an update of it, a launch *)
(* on s2 and another operation there; or an operation alone.                  *)
EXTENDS Leases

StreamOfSub == [u \in Subs |-> CASE u \in {"op1", "graph", "update"} -> "s1"
                                 [] u \in {"op2", "launch2"} -> "s2"]
KindOfSub == [u \in Subs |-> CASE u \in {"op1", "op2"} -> "op"
                               [] u = "graph" -> "capture"
                               [] u = "update" -> "update"
                               [] u = "launch2" -> "launch"]
GraphOfSub == [u \in Subs |-> IF u \in {"op1", "op2"} THEN u ELSE "graph"]
=============================================================================
