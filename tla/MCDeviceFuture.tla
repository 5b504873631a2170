--------------------------- MODULE MCDeviceFuture ---------------------------
(* Instances of DeviceFuture for TLC. *)
EXTENDS DeviceFuture, TLC

CONSTANTS f1, f2, s1, c1

\* Two futures share a stream: the one's work may hide behind the other's.
SharedStream == (f1 :> s1) @@ (f2 :> s1)
Alone == (f1 :> s1)
OneContext == (s1 :> c1)

\* The futures of one stream are interchangeable.
Interchangeable == Permutations({f1, f2})
=============================================================================
