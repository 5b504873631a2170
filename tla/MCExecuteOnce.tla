--------------------------- MODULE MCExecuteOnce ---------------------------
(* Three threads execute clones of two operations on two streams: a1 and a2  *)
(* of a, where the closure of a1 re-enters a, and b1 of b, whose closure     *)
(* executes a.                                                               *)
EXTENDS ExecuteOnce

Op == [c \in Calls |-> IF c = "b1" THEN "b" ELSE "a"]
Thread == [c \in Calls |-> CASE c \in {"a1", "re-enter"} -> "t1"
                             [] c = "a2" -> "t2"
                             [] c \in {"b1", "in b1"} -> "t3"]
Stream == [c \in Calls |-> IF c \in {"a1", "re-enter"} THEN "s1" ELSE "s2"]
Parent == [c \in Calls |-> CASE c = "re-enter" -> "a1"
                             [] c = "in b1" -> "b1"
                             [] OTHER -> c]
=============================================================================
