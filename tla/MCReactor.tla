----------------------------- MODULE MCReactor -----------------------------
(* Instances of Reactor for TLC: which registration uses which stream. *)
EXTENDS Reactor, TLC

CONSTANTS r1, r2, r3, s1, s2, c1, c2

\* Two registrations queue up on one stream, a third uses another.
ThreeOnTwo == (r1 :> s1) @@ (r2 :> s1) @@ (r3 :> s2)
\* One registration per stream.
OneEach == (r1 :> s1) @@ (r2 :> s2)
\* Both streams on one device.
OneContext == (s1 :> c1) @@ (s2 :> c1)
\* A device for each stream: a fault leaves the other one alive.
TwoContexts == (s1 :> c1) @@ (s2 :> c2)

\* r1 and r2 use the same stream and may be exchanged.
SameStream == Permutations({r1, r2})
=============================================================================
