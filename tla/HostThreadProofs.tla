-------------------------- MODULE HostThreadProofs --------------------------
(***************************************************************************)
(* Proofs about HostThread: whatever a thread nests, and however deep, its   *)
(* execution flag says whether an operation is in force, and the context map *)
(* it started with keeps its pools and its rotation of streams.              *)
(***************************************************************************)
EXTENDS HostThread, TLAPS

-----------------------------------------------------------------------------
(* The rotation: division by the number of streams.                           *)

LEMMA Division ==
    ASSUME NEW n \in Nat, NEW k \in Nat \ {0}
    PROVE  /\ n = k * (n \div k) + (n % k)
           /\ n % k \in 0..(k - 1)
           /\ n \div k \in Nat
BY Z3

LEMMA Remainder ==
    ASSUME NEW n \in Nat, NEW k \in Nat \ {0}, NEW q \in Nat, NEW r \in 0..(k - 1),
           n = k * q + r
    PROVE  n % k = r
BY Division, Z3

LEMMA RemainderOfNext ==
    ASSUME NEW n \in Nat, NEW k \in Nat \ {0}
    PROVE  (n + 1) % k = ((n % k) + 1) % k
<1> DEFINE q == n \div k
           r == n % k
<1> HIDE DEF q, r
<1>1. n = k * q + r /\ r \in 0..(k - 1) /\ q \in Nat
    BY Division DEF q, r
<1>2. CASE r + 1 < k
    <2>1. n + 1 = k * q + (r + 1)
        BY <1>1
    <2>2. (n + 1) % k = r + 1
        BY <1>1, <1>2, <2>1, n + 1 \in Nat, r + 1 \in 0..(k - 1), Remainder
    <2>3. (r + 1) % k = r + 1
        BY <1>1, <1>2, Remainder
    <2> QED
        BY <2>2, <2>3 DEF r
<1>3. CASE r + 1 = k
    <2>1. n + 1 = k * (q + 1) + 0
        BY <1>1, <1>3
    <2>2. (n + 1) % k = 0
        BY <1>1, <1>3, <2>1, n + 1 \in Nat, q + 1 \in Nat, 0 \in 0..(k - 1), Remainder
    <2>3. (r + 1) % k = 0
        BY <1>1, <1>3, Remainder
    <2> QED
        BY <2>2, <2>3 DEF r
<1> QED
    BY <1>1, <1>2, <1>3

\* next_stream hands out the stream after the one it handed out before, over
\* the wrap of its counter too.
LEMMA Rotation ==
    ASSUME NEW n \in 0..(CounterModulus - 1)
    PROVE  /\ Bumped(n) \in 0..(CounterModulus - 1)
           /\ StreamAt(n) \in 0..(NumStreams - 1)
           /\ StreamAt(Bumped(n)) = (StreamAt(n) + 1) % NumStreams
<1> USE HostAssumption
<1>1. StreamAt(n) \in 0..(NumStreams - 1)
    BY Division DEF StreamAt
<1>2. (n + 1) % NumStreams = (StreamAt(n) + 1) % NumStreams
    <2>1. (n + 1) % NumStreams = ((n % NumStreams) + 1) % NumStreams
        BY n \in Nat, NumStreams \in Nat \ {0}, RemainderOfNext
    <2> QED
        BY <2>1 DEF StreamAt
<1>3. CASE n + 1 < CounterModulus
    <2>1. Bumped(n) = n + 1
        BY <1>3, n + 1 = CounterModulus * 0 + (n + 1), Remainder DEF Bumped
    <2> QED
        BY <1>1, <1>2, <1>3, <2>1 DEF StreamAt
<1>4. CASE n + 1 = CounterModulus
    <2>1. Bumped(n) = 0
        BY <1>4, n + 1 = CounterModulus * 1 + 0, Remainder DEF Bumped
    <2>2. StreamAt(0) = 0
        BY 0 = NumStreams * 0 + 0, Remainder DEF StreamAt
    <2> QED
        BY <1>1, <1>2, <1>4, <2>1, <2>2
<1> QED
    BY <1>1, <1>3, <1>4

-----------------------------------------------------------------------------
(* The execution lock.                                                        *)

Frame == [kind : {"executing", "unguarded"}]
    \cup [kind : {"release"}, held : BOOLEAN]
    \cup {f \in [kind : {"lease"}, map : ContextMap, device : Devices] : f.device \in DOMAIN f.map}

\* The innermost of the first i frames that bears on the lock holds it.
InForce(s, i) ==
    \E h \in 1..i : /\ s[h].kind = "executing"
                    /\ \A k \in 1..i : s[k].kind = "release" => k < h

\* Each guard found the lock as it has to give it back.
Guarded(s) ==
    \A i \in 1..Len(s) :
        /\ s[i].kind = "executing" => ~InForce(s, i - 1)
        /\ s[i].kind = "release" => (s[i].held <=> InForce(s, i - 1))

LEMMA SamePrefix ==
    ASSUME NEW s, NEW t, NEW i \in Nat,
           \A k \in 1..i : s[k].kind = t[k].kind
    PROVE  InForce(s, i) <=> InForce(t, i)
BY DEF InForce

LEMMA OneMore ==
    ASSUME NEW s, NEW i \in Nat \ {0}
    PROVE  /\ s[i].kind = "executing" => InForce(s, i)
           /\ s[i].kind = "release" => ~InForce(s, i)
           /\ s[i].kind \notin {"executing", "release"} => (InForce(s, i) <=> InForce(s, i - 1))
<1>1. ASSUME s[i].kind = "executing"
      PROVE  InForce(s, i)
    <2>1. i \in 1..i /\ \A k \in 1..i : s[k].kind = "release" => k < i
        BY <1>1
    <2> QED
        BY <1>1, <2>1 DEF InForce
<1>2. ASSUME s[i].kind = "release"
      PROVE  ~InForce(s, i)
    BY <1>2 DEF InForce
<1>3. ASSUME s[i].kind \notin {"executing", "release"}
      PROVE  InForce(s, i) <=> InForce(s, i - 1)
    <2>1. ASSUME InForce(s, i)
          PROVE  InForce(s, i - 1)
        <3>1. PICK h \in 1..i : s[h].kind = "executing"
                                /\ \A k \in 1..i : s[k].kind = "release" => k < h
            BY <2>1 DEF InForce
        <3>2. h \in 1..(i - 1)
            BY <1>3, <3>1
        <3> QED
            BY <3>1, <3>2 DEF InForce
    <2>2. ASSUME InForce(s, i - 1)
          PROVE  InForce(s, i)
        <3>1. PICK h \in 1..(i - 1) : s[h].kind = "executing"
                                /\ \A k \in 1..(i - 1) : s[k].kind = "release" => k < h
            BY <2>2 DEF InForce
        <3>2. \A k \in 1..i : s[k].kind = "release" => k < h
            BY <1>3, <3>1
        <3> QED
            BY <3>1, <3>2 DEF InForce
    <2> QED
        BY <2>1, <2>2
<1> QED
    BY <1>1, <1>2, <1>3

\* The first n elements of a sequence.
LEMMA Prefix ==
    ASSUME NEW S, NEW s, NEW n \in Nat, \A i \in 1..n : s[i] \in S
    PROVE  /\ SubSeq(s, 1, n) \in Seq(S)
           /\ Len(SubSeq(s, 1, n)) = n
           /\ \A i \in 1..n : SubSeq(s, 1, n)[i] = s[i]
<1>1. Len(SubSeq(s, 1, n)) = n
    OBVIOUS
<1>2. SubSeq(s, 1, n) \in Seq(S)
    OBVIOUS
<1>3. \A i \in 1..n : SubSeq(s, 1, n)[i] = s[i]
    OBVIOUS
<1> QED
    BY <1>1, <1>2, <1>3

\* All frames but the last.
LEMMA Rest ==
    ASSUME NEW s \in Seq(Frame), s # <<>>,
           NEW t, t = SubSeq(s, 1, Len(s) - 1)
    PROVE  /\ Len(s) \in Nat \ {0}
           /\ t \in Seq(Frame)
           /\ Len(t) = Len(s) - 1
           /\ \A i \in 1..(Len(s) - 1) : t[i] = s[i]
<1>1. Len(s) \in Nat \ {0}
    OBVIOUS
<1>2. PICK n \in Nat : n = Len(s) - 1
    BY <1>1
<1>3. \A i \in 1..n : s[i] \in Frame
    BY <1>1, <1>2
<1>4. t \in Seq(Frame) /\ Len(t) = n /\ \A i \in 1..n : t[i] = s[i]
    <2>1. t = SubSeq(s, 1, n)
        BY <1>2
    <2>2. /\ SubSeq(s, 1, n) \in Seq(Frame)
          /\ Len(SubSeq(s, 1, n)) = n
          /\ \A i \in 1..n : SubSeq(s, 1, n)[i] = s[i]
        BY <1>3, Prefix, SMTT(30)
    <2> QED
        BY <2>1, <2>2, Zenon
<1> QED
    BY <1>1, <1>2, <1>4, Zenon

\* Dropping the innermost guard.
LEMMA Popped ==
    ASSUME NEW s \in Seq(Frame), s # <<>>, Guarded(s),
           NEW t, t = SubSeq(s, 1, Len(s) - 1)
    PROVE  /\ t \in Seq(Frame)
           /\ Len(t) = Len(s) - 1
           /\ \A i \in 1..(Len(s) - 1) : t[i] = s[i]
           /\ Guarded(t)
           /\ InForce(t, Len(t)) <=> InForce(s, Len(s) - 1)
<1>1. /\ t \in Seq(Frame) /\ Len(t) = Len(s) - 1
      /\ \A i \in 1..(Len(s) - 1) : t[i] = s[i]
    BY Rest
<1>2. ASSUME NEW i \in 0..(Len(s) - 1)
      PROVE  InForce(t, i) <=> InForce(s, i)
    <2>1. i \in Nat /\ \A k \in 1..i : t[k].kind = s[k].kind
        BY <1>1
    <2> QED
        BY <2>1, SamePrefix
<1>3. Guarded(t)
    BY <1>1, <1>2 DEF Guarded
<1> QED
    BY <1>1, <1>2, <1>3

\* Entering a guarded region.
LEMMA Pushed ==
    ASSUME NEW s \in Seq(Frame), Guarded(s),
           NEW f \in Frame,
           f.kind = "executing" => ~InForce(s, Len(s)),
           f.kind = "release" => (f.held <=> InForce(s, Len(s))),
           NEW t, t = Append(s, f)
    PROVE  /\ t \in Seq(Frame)
           /\ Len(t) = Len(s) + 1
           /\ t[Len(t)] = f
           /\ \A i \in 1..Len(s) : t[i] = s[i]
           /\ Guarded(t)
           /\ f.kind = "executing" => InForce(t, Len(t))
           /\ f.kind = "release" => ~InForce(t, Len(t))
           /\ f.kind \notin {"executing", "release"} => (InForce(t, Len(t)) <=> InForce(s, Len(s)))
<1>1. /\ t \in Seq(Frame) /\ Len(t) = Len(s) + 1 /\ t[Len(t)] = f
      /\ \A i \in 1..Len(s) : t[i] = s[i]
    OBVIOUS
<1>2. ASSUME NEW i \in 0..Len(s)
      PROVE  InForce(t, i) <=> InForce(s, i)
    <2>1. i \in Nat /\ \A k \in 1..i : t[k].kind = s[k].kind
        BY <1>1
    <2> QED
        BY <2>1, SamePrefix
<1>3. Guarded(t)
    <2> SUFFICES ASSUME NEW i \in 1..Len(t)
                 PROVE  /\ t[i].kind = "executing" => ~InForce(t, i - 1)
                        /\ t[i].kind = "release" => (t[i].held <=> InForce(t, i - 1))
        BY DEF Guarded
    <2>1. CASE i \in 1..Len(s)
        <3>1. i - 1 \in 0..Len(s)
            BY <2>1
        <3> QED
            BY <1>1, <1>2, <2>1, <3>1 DEF Guarded
    <2>2. CASE i = Len(s) + 1
        <3>1. i - 1 = Len(s) /\ Len(s) \in 0..Len(s)
            BY <2>2
        <3> QED
            BY <1>1, <1>2, <2>2, <3>1
    <2> QED
        BY <1>1, <2>1, <2>2
<1>4. Len(t) \in Nat \ {0} /\ Len(t) - 1 = Len(s) /\ Len(s) \in 0..Len(s)
    BY <1>1
<1>5. /\ f.kind = "executing" => InForce(t, Len(t))
      /\ f.kind = "release" => ~InForce(t, Len(t))
      /\ f.kind \notin {"executing", "release"} => (InForce(t, Len(t)) <=> InForce(t, Len(s)))
    <2>1. /\ t[Len(t)].kind = "executing" => InForce(t, Len(t))
          /\ t[Len(t)].kind = "release" => ~InForce(t, Len(t))
          /\ t[Len(t)].kind \notin {"executing", "release"}
                 => (InForce(t, Len(t)) <=> InForce(t, Len(t) - 1))
        BY <1>4, OneMore, Zenon
    <2> QED
        BY <1>1, <1>4, <2>1, Zenon
<1>6. InForce(t, Len(s)) <=> InForce(s, Len(s))
    BY <1>2, <1>4
<1> QED
    BY <1>1, <1>3, <1>5, <1>6

\* The lock is held exactly where the frames say so.
Locked == executing \in BOOLEAN /\ Guarded(frames) /\ (executing <=> InForce(frames, Len(frames)))

\* Locked and the kinds of the frames give ExclusiveExecution.
LEMMA LockedExcludes ==
    ASSUME frames \in Seq(Frame), Locked
    PROVE  ExclusiveExecution
<1> DEFINE n == Len(frames)
           held == {i \in DOMAIN frames : frames[i].kind = "executing"}
           open == {i \in DOMAIN frames : frames[i].kind = "release"}
<1>1. DOMAIN frames = 1..n /\ n \in Nat
    OBVIOUS
<1>2. ASSUME NEW i \in held, NEW j \in held, i < j
      PROVE  \E k \in open : i < k /\ k < j
    <2>1. ~InForce(frames, j - 1)
        BY <1>1 DEF Locked, Guarded
    <2>2. i \in 1..(j - 1)
        BY <1>1, <1>2
    <2>3. PICK k \in 1..(j - 1) : frames[k].kind = "release" /\ ~(k < i)
        BY <2>1, <2>2 DEF InForce
    <2>4. k # i
        BY <2>3
    <2>5. k \in open /\ i < k /\ k < j
        BY <1>1, <2>2, <2>3, <2>4
    <2> QED
        BY <2>5
<1>3. InForce(frames, n) <=> \E i \in held : \A k \in open : k < i
    BY <1>1 DEF InForce
<1> QED
    BY <1>2, <1>3 DEF ExclusiveExecution, Locked

-----------------------------------------------------------------------------
(* The context maps.                                                          *)

LEMMA MapFacts ==
    ASSUME NEW map
    PROVE  map \in ContextMap <=>
               /\ DOMAIN map \subseteq Devices
               /\ map = [d \in DOMAIN map |-> map[d]]
               /\ \A d \in DOMAIN map : map[d] \in Context
BY DEF ContextMap

LEMMA FreshFacts ==
    /\ Fresh \in Context /\ Fresh.pool = None /\ Fresh.next = 0
    /\ NoContexts \in ContextMap /\ DOMAIN NoContexts = {}
<1>1. Fresh \in Context /\ Fresh.pool = None /\ Fresh.next = 0
    BY HostAssumption DEF Fresh, Context
<1>2. DOMAIN NoContexts = {} /\ NoContexts = [d \in DOMAIN NoContexts |-> NoContexts[d]]
    BY DEF NoContexts
<1> QED
    BY <1>1, <1>2, MapFacts

\* What a lookup adds to a map.
LEMMA EnsuredFacts ==
    ASSUME NEW map \in ContextMap, NEW d \in Devices
    PROVE  /\ Ensured(map, d) \in ContextMap
           /\ DOMAIN Ensured(map, d) = DOMAIN map \cup {d}
           /\ \A e \in DOMAIN map : Ensured(map, d)[e] = map[e]
           /\ d \notin DOMAIN map => Ensured(map, d)[d] = Fresh
           /\ d \in DOMAIN map => Ensured(map, d) = map
<1> DEFINE E == Ensured(map, d)
<1>1. DOMAIN E = DOMAIN map \cup {d} /\ E = [e \in DOMAIN E |-> E[e]]
    BY DEF Ensured
<1>2. \A e \in DOMAIN map : E[e] = map[e]
    BY DEF Ensured
<1>3. d \notin DOMAIN map => E[d] = Fresh
    BY DEF Ensured
<1>4. \A e \in DOMAIN E : E[e] \in Context
    BY <1>1, <1>2, <1>3, MapFacts, FreshFacts
<1>5. E \in ContextMap
    BY <1>1, <1>4, MapFacts
<1>6. d \in DOMAIN map => E = map
    BY <1>1, <1>2, MapFacts
<1> QED
    BY <1>1, <1>2, <1>3, <1>5, <1>6

LEMMA PickedFacts ==
    ASSUME NEW map \in ContextMap, NEW d \in DOMAIN map
    PROVE  /\ Picked(map, d) \in ContextMap
           /\ DOMAIN Picked(map, d) = DOMAIN map
           /\ \A e \in DOMAIN map \ {d} : Picked(map, d)[e] = map[e]
           /\ Picked(map, d)[d].pool = map[d].pool
           /\ Picked(map, d)[d].next = Bumped(map[d].next)
<1> DEFINE P == Picked(map, d)
<1>1. DOMAIN P = DOMAIN map /\ P = [e \in DOMAIN P |-> P[e]]
    BY DEF Picked
<1>2. \A e \in DOMAIN map \ {d} : P[e] = map[e]
    BY DEF Picked
<1>3. map[d] \in Context
    BY MapFacts
<1>4. P[d] = [map[d] EXCEPT !.next = Bumped(map[d].next)]
    BY DEF Picked
<1>5. P[d].pool = map[d].pool /\ P[d].next = Bumped(map[d].next) /\ P[d] \in Context
    BY <1>3, <1>4, Rotation DEF Context
<1>6. P \in ContextMap
    BY <1>1, <1>2, <1>5, MapFacts
<1> QED
    BY <1>1, <1>2, <1>5, <1>6

LEMMA PoolFacts ==
    ASSUME NEW map \in ContextMap, NEW d \in DOMAIN map, NEW p \in Pool \cup {None}
    PROVE  LET new == [map EXCEPT ![d].pool = p]
           IN  /\ new \in ContextMap
               /\ DOMAIN new = DOMAIN map
               /\ \A e \in DOMAIN map \ {d} : new[e] = map[e]
               /\ new[d].pool = p
               /\ new[d].next = map[d].next
<1> DEFINE new == [map EXCEPT ![d].pool = p]
<1>1. DOMAIN new = DOMAIN map /\ new = [e \in DOMAIN new |-> new[e]]
    OBVIOUS
<1>2. \A e \in DOMAIN map \ {d} : new[e] = map[e]
    OBVIOUS
<1>3. map[d] \in Context
    BY MapFacts
<1>4. new[d] = [map[d] EXCEPT !.pool = p]
    OBVIOUS
<1>5. new[d].pool = p /\ new[d].next = map[d].next /\ new[d] \in Context
    BY <1>3, <1>4 DEF Context
<1> HIDE DEF new
<1>6. new \in ContextMap
    BY <1>1, <1>2, <1>5, MapFacts
<1> QED
    BY <1>1, <1>2, <1>5, <1>6 DEF new

\* The map a thread had when its outermost closure began, or has now: the one
\* its outermost lease will put back.
LeasesOf(s) == {i \in DOMAIN s : s[i].kind = "lease"}
Outermost(s, i) == i \in LeasesOf(s) /\ \A j \in LeasesOf(s) : i <= j
MapOf(s, m) ==
    IF LeasesOf(s) # {} THEN s[CHOOSE i \in LeasesOf(s) : \A j \in LeasesOf(s) : i <= j].map
    ELSE IF m = None THEN NoContexts ELSE m
\* There is an outermost lease if there is one.
Rooted(s) == LeasesOf(s) # {} => \E i \in LeasesOf(s) : Outermost(s, i)

LEMMA ThreadMapIs == /\ ThreadMap = MapOf(frames, devices)
                     /\ ThreadMap' = MapOf(frames', devices')
                     /\ InClosure <=> LeasesOf(frames) # {}
                     /\ Leases = LeasesOf(frames)
BY DEF ThreadMap, MapOf, LeasesOf, Leases, InClosure, Taken

LEMMA MapOfOutermost ==
    ASSUME NEW s \in Seq(Frame), NEW i, Outermost(s, i), NEW m
    PROVE  MapOf(s, m) = s[i].map
<1> DEFINE c == CHOOSE x \in LeasesOf(s) : \A j \in LeasesOf(s) : x <= j
<1>1. c \in LeasesOf(s) /\ \A j \in LeasesOf(s) : c <= j
    BY DEF Outermost
<1>2. LeasesOf(s) \subseteq Int
    BY DEF LeasesOf
<1>3. c = i
    BY <1>1, <1>2 DEF Outermost
<1>4. LeasesOf(s) # {}
    BY <1>1
<1> QED
    BY <1>3, <1>4 DEF MapOf

\* Adding a frame on top, of any kind but a lease, leaves the map alone.
LEMMA MapUnderFrame ==
    ASSUME NEW s \in Seq(Frame), Rooted(s), NEW f \in Frame, f.kind # "lease", NEW m
    PROVE  Rooted(Append(s, f)) /\ MapOf(Append(s, f), m) = MapOf(s, m)
           /\ LeasesOf(Append(s, f)) = LeasesOf(s)
<1> DEFINE t == Append(s, f)
<1>1. LeasesOf(t) = LeasesOf(s)
    BY DEF LeasesOf
<1>2. Rooted(t)
    BY <1>1 DEF Rooted, Outermost
<1>3. CASE LeasesOf(s) = {}
    BY <1>1, <1>2, <1>3 DEF MapOf
<1>4. CASE LeasesOf(s) # {}
    <2>1. PICK i \in LeasesOf(s) : Outermost(s, i)
        BY <1>4 DEF Rooted
    <2>2. Outermost(t, i) /\ t[i] = s[i] /\ t \in Seq(Frame)
        BY <1>1, <2>1 DEF Outermost, LeasesOf
    <2> QED
        BY <1>1, <1>2, <2>1, <2>2, MapOfOutermost
<1> QED
    BY <1>3, <1>4

\* A lease on top is the outermost one, or hides behind it.
LEMMA MapUnderLease ==
    ASSUME NEW s \in Seq(Frame), Rooted(s), NEW f \in Frame, f.kind = "lease", NEW m, NEW o
    PROVE  /\ Rooted(Append(s, f))
           /\ LeasesOf(s) = {} => MapOf(Append(s, f), m) = f.map
           /\ LeasesOf(s) # {} => MapOf(Append(s, f), m) = MapOf(s, o)
<1> DEFINE t == Append(s, f)
<1>1. LeasesOf(t) = LeasesOf(s) \cup {Len(s) + 1} /\ t \in Seq(Frame)
    BY DEF LeasesOf
<1>2. CASE LeasesOf(s) = {}
    <2>1. Outermost(t, Len(s) + 1) /\ t[Len(s) + 1] = f
        BY <1>1, <1>2 DEF Outermost
    <2> QED
        BY <1>1, <1>2, <2>1, MapOfOutermost DEF Rooted, Outermost
<1>3. CASE LeasesOf(s) # {}
    <2>1. PICK i \in LeasesOf(s) : Outermost(s, i)
        BY <1>3 DEF Rooted
    <2>2. i \in 1..Len(s)
        BY DEF LeasesOf
    <2>3. Outermost(t, i) /\ t[i] = s[i]
        BY <1>1, <2>1, <2>2 DEF Outermost
    <2>4. MapOf(t, m) = s[i].map /\ MapOf(s, o) = s[i].map
        BY <1>1, <2>1, <2>3, MapOfOutermost
    <2> QED
        BY <1>3, <2>3, <2>4 DEF Rooted, Outermost
<1> QED
    BY <1>2, <1>3

\* Dropping the innermost guard puts its map back, if it has one.
LEMMA MapOfRest ==
    ASSUME NEW s \in Seq(Frame), s # <<>>, Rooted(s), NEW m,
           NEW t, t = SubSeq(s, 1, Len(s) - 1)
    PROVE  /\ Rooted(t)
           /\ s[Len(s)].kind = "lease" => MapOf(t, s[Len(s)].map) = MapOf(s, m)
           /\ s[Len(s)].kind # "lease" => MapOf(t, m) = MapOf(s, m)
<1>1. /\ t \in Seq(Frame) /\ Len(t) = Len(s) - 1 /\ Len(s) \in Nat \ {0}
      /\ \A i \in 1..(Len(s) - 1) : t[i] = s[i]
    BY Rest
<1>2. LeasesOf(t) = LeasesOf(s) \ {Len(s)}
    BY <1>1 DEF LeasesOf
<1>3. CASE LeasesOf(t) = {}
    <2>1. Rooted(t)
        BY <1>3 DEF Rooted
    <2>2. ASSUME s[Len(s)].kind = "lease"
          PROVE  MapOf(t, s[Len(s)].map) = MapOf(s, m)
        <3>1. LeasesOf(s) = {Len(s)}
            BY <1>1, <1>2, <1>3, <2>2 DEF LeasesOf
        <3>2. Outermost(s, Len(s))
            BY <1>1, <3>1 DEF Outermost
        <3>3. s[Len(s)] \in Frame
            BY <1>1
        <3>4. s[Len(s)].map # None
            BY <2>2, <3>3, HostAssumption DEF Frame
        <3> QED
            BY <1>3, <3>2, <3>4, MapOfOutermost DEF MapOf
    <2>3. ASSUME s[Len(s)].kind # "lease"
          PROVE  MapOf(t, m) = MapOf(s, m)
        <3>1. LeasesOf(s) = {}
            BY <1>2, <1>3, <2>3 DEF LeasesOf
        <3> QED
            BY <1>3, <3>1 DEF MapOf
    <2> QED
        BY <2>1, <2>2, <2>3
<1>4. CASE LeasesOf(t) # {}
    <2>1. PICK i \in LeasesOf(s) : Outermost(s, i)
        BY <1>2, <1>4 DEF Rooted
    <2>2. PICK j \in LeasesOf(t) : TRUE
        BY <1>4
    <2>3. j \in 1..(Len(s) - 1) /\ i <= j /\ i \in 1..Len(s)
        BY <1>1, <1>2, <2>1 DEF Outermost, LeasesOf
    <2>4. Outermost(t, i) /\ t[i] = s[i]
        BY <1>1, <1>2, <2>1, <2>3 DEF Outermost
    <2>5. ASSUME NEW x
          PROVE  MapOf(t, x) = s[i].map /\ MapOf(s, x) = s[i].map
        <3>1. MapOf(t, x) = t[i].map
            BY <1>1, <2>4, MapOfOutermost, Zenon
        <3>2. MapOf(s, x) = s[i].map
            BY <2>1, MapOfOutermost, Zenon
        <3> QED
            BY <2>4, <3>1, <3>2, Zenon
    <2>6. MapOf(t, s[Len(s)].map) = MapOf(s, m) /\ MapOf(t, m) = MapOf(s, m)
        BY <2>5
    <2>7. Rooted(t)
        BY <2>4 DEF Rooted, Outermost
    <2> QED
        BY <2>6, <2>7
<1> QED
    BY <1>3, <1>4

-----------------------------------------------------------------------------
(* The inductive invariant.                                                   *)

Typed ==
    /\ default \in Devices
    /\ devices \in ContextMap \cup {None}
    /\ frames \in Seq(Frame)
    /\ registered \in [Devices -> Pool \cup {None}]
    /\ latest \in [Devices -> 0..(NumStreams - 1)]

\* The map agrees with the pools that were registered and the streams that
\* were handed out; a device without a context has had neither.
Agrees(map, reg, lat) ==
    \A d \in Devices :
        /\ d \in DOMAIN map => /\ map[d].pool = reg[d]
                               /\ StreamAt(map[d].next) = (lat[d] + 1) % NumStreams
        /\ d \notin DOMAIN map => reg[d] = None /\ lat[d] = NumStreams - 1

IInv == Typed /\ Locked /\ Rooted(frames) /\ Agrees(ThreadMap, registered, latest)

LEMMA FirstTurn == StreamAt(0) = 0 /\ ((NumStreams - 1) + 1) % NumStreams = 0
<1> USE HostAssumption
<1>1. StreamAt(0) = 0
    BY 0 = NumStreams * 0 + 0, Remainder DEF StreamAt
<1>2. NumStreams % NumStreams = 0
    BY NumStreams = NumStreams * 1 + 0, Remainder
<1>3. (NumStreams - 1) + 1 = NumStreams
    OBVIOUS
<1> QED
    BY <1>1, <1>2, <1>3

LEMMA AgreesEnsured ==
    ASSUME NEW map \in ContextMap, NEW reg, NEW lat, NEW d \in Devices, Agrees(map, reg, lat)
    PROVE  Agrees(Ensured(map, d), reg, lat)
<1> DEFINE E == Ensured(map, d)
<1>1. /\ DOMAIN E = DOMAIN map \cup {d}
      /\ \A e \in DOMAIN map : E[e] = map[e]
      /\ d \notin DOMAIN map => E[d] = Fresh
    BY EnsuredFacts
<1> HIDE DEF E
<1>2. Agrees(E, reg, lat)
    BY <1>1, FirstTurn, FreshFacts DEF Agrees
<1> QED
    BY <1>2 DEF E

LEMMA AgreesPicked ==
    ASSUME NEW map \in ContextMap, NEW reg, NEW lat \in [Devices -> 0..(NumStreams - 1)],
           NEW d \in DOMAIN map, Agrees(map, reg, lat)
    PROVE  LET new == [lat EXCEPT ![d] = StreamAt(map[d].next)]
           IN  Agrees(Picked(map, d), reg, new) /\ new \in [Devices -> 0..(NumStreams - 1)]
<1> DEFINE P == Picked(map, d)
           new == [lat EXCEPT ![d] = StreamAt(map[d].next)]
<1>1. /\ DOMAIN P = DOMAIN map
      /\ \A e \in DOMAIN map \ {d} : P[e] = map[e]
      /\ P[d].pool = map[d].pool
      /\ P[d].next = Bumped(map[d].next)
    BY PickedFacts
<1>2. map[d].next \in 0..(CounterModulus - 1) /\ d \in Devices
    BY MapFacts DEF Context
<1>3. /\ StreamAt(map[d].next) \in 0..(NumStreams - 1)
      /\ StreamAt(P[d].next) = (StreamAt(map[d].next) + 1) % NumStreams
    BY <1>1, <1>2, Rotation
<1>4. new \in [Devices -> 0..(NumStreams - 1)] /\ new[d] = StreamAt(map[d].next)
      /\ \A e \in Devices \ {d} : new[e] = lat[e]
    BY <1>2, <1>3
<1> HIDE DEF P, new
<1>5. Agrees(P, reg, new)
    BY <1>1, <1>2, <1>3, <1>4 DEF Agrees
<1> QED
    BY <1>4, <1>5 DEF P, new

LEMMA AgreesPool ==
    ASSUME NEW map \in ContextMap, NEW reg \in [Devices -> Pool \cup {None}], NEW lat,
           NEW d \in DOMAIN map, NEW p \in Pool \cup {None}, Agrees(map, reg, lat)
    PROVE  Agrees([map EXCEPT ![d].pool = p], [reg EXCEPT ![d] = p], lat)
<1> DEFINE new == [map EXCEPT ![d].pool = p]
           now == [reg EXCEPT ![d] = p]
<1>1. /\ DOMAIN new = DOMAIN map
      /\ \A e \in DOMAIN map \ {d} : new[e] = map[e]
      /\ new[d].pool = p
      /\ new[d].next = map[d].next
    BY PoolFacts
<1>2. d \in Devices
    BY MapFacts
<1>3. now[d] = p /\ \A e \in Devices \ {d} : now[e] = reg[e]
    BY <1>2
<1> HIDE DEF new, now
<1>4. Agrees(new, now, lat)
    BY <1>1, <1>2, <1>3 DEF Agrees
<1> QED
    BY <1>4 DEF new, now

\* The maps at hand are maps; outside closures the cell holds the thread's.
LEMMA MapsTyped ==
    ASSUME Typed, Rooted(frames)
    PROVE  /\ Taken \in ContextMap
           /\ ThreadMap \in ContextMap
           /\ ~InClosure => ThreadMap = Taken
<1>1. Taken \in ContextMap
    BY FreshFacts DEF Taken, Typed
<1>2. ~InClosure => ThreadMap = Taken
    BY DEF ThreadMap
<1>3. ASSUME InClosure
      PROVE  ThreadMap \in ContextMap
    <2>1. PICK i \in LeasesOf(frames) : Outermost(frames, i)
        BY <1>3, ThreadMapIs DEF Rooted
    <2>2. ThreadMap = frames[i].map
        BY <2>1, ThreadMapIs, MapOfOutermost DEF Typed
    <2>3. frames[i] \in Frame /\ frames[i].kind = "lease"
        BY DEF LeasesOf, Typed
    <2>4. frames[i].map \in ContextMap
        BY <2>3 DEF Frame
    <2> QED
        BY <2>2, <2>4
<1> QED
    BY <1>1, <1>2, <1>3

\* A map put in the cell is the thread's outside closures, and is hidden by the
\* outermost lease inside.
LEMMA CellMap ==
    ASSUME Typed, Rooted(frames), NEW m \in ContextMap
    PROVE  /\ ~InClosure => MapOf(frames, m) = m
           /\ InClosure => MapOf(frames, m) = ThreadMap
<1>1. ASSUME ~InClosure
      PROVE  MapOf(frames, m) = m
    BY <1>1, ThreadMapIs, HostAssumption DEF MapOf
<1>2. ASSUME InClosure
      PROVE  MapOf(frames, m) = ThreadMap
    <2>1. PICK i \in LeasesOf(frames) : Outermost(frames, i)
        BY <1>2, ThreadMapIs DEF Rooted
    <2> QED
        BY <2>1, ThreadMapIs, MapOfOutermost DEF Typed
<1> QED
    BY <1>1, <1>2

\* What a lookup leaves in the cell.
LEMMA LookedUp ==
    ASSUME IInv, NEW d \in Devices, NEW m, m = Ensured(Taken, d) \/ m = Taken
    PROVE  m \in ContextMap /\ Agrees(MapOf(frames, m), registered, latest)
<1>1. Taken \in ContextMap /\ (~InClosure => ThreadMap = Taken)
    BY MapsTyped DEF IInv
<1>2. m \in ContextMap
    BY <1>1, EnsuredFacts
<1>3. CASE InClosure
    BY <1>2, <1>3, CellMap DEF IInv
<1>4. CASE ~InClosure
    <2>1. MapOf(frames, m) = m
        BY <1>2, <1>4, CellMap DEF IInv
    <2>2. Agrees(Taken, registered, latest)
        BY <1>1, <1>4 DEF IInv
    <2> QED
        BY <1>1, <1>2, <2>1, <2>2, AgreesEnsured
<1> QED
    BY <1>2, <1>3, <1>4

\* What a call that takes a stream leaves there, and in the history.
LEMMA HandedOut ==
    ASSUME IInv, NEW d \in Devices, NEW m, m = Picked(Ensured(Taken, d), d),
           NextStream(Ensured(Taken, d), d)
    PROVE  /\ m \in ContextMap
           /\ latest' \in [Devices -> 0..(NumStreams - 1)]
           /\ Agrees(MapOf(frames, m), registered, latest')
<1> DEFINE E == Ensured(Taken, d)
<1>1. Taken \in ContextMap /\ (~InClosure => ThreadMap = Taken)
    BY MapsTyped DEF IInv
<1>2. E \in ContextMap /\ d \in DOMAIN E
    BY <1>1, EnsuredFacts
<1>3. m \in ContextMap
    BY <1>2, PickedFacts
<1>4. CASE InClosure
    <2>1. latest' = latest
        BY <1>4 DEF NextStream
    <2>2. MapOf(frames, m) = ThreadMap
        BY <1>3, <1>4, CellMap DEF IInv
    <2> QED
        BY <1>3, <2>1, <2>2 DEF IInv, Typed
<1>5. CASE ~InClosure
    <2>1. latest' = [latest EXCEPT ![d] = StreamAt(E[d].next)]
        BY <1>5 DEF NextStream, HandOut
    <2>2. MapOf(frames, m) = m
        BY <1>3, <1>5, CellMap DEF IInv
    <2>3. Agrees(Taken, registered, latest)
        BY <1>1, <1>5 DEF IInv
    <2>4. Agrees(E, registered, latest)
        BY <1>1, <2>3, AgreesEnsured
    <2>5. latest \in [Devices -> 0..(NumStreams - 1)]
        BY DEF IInv, Typed
    <2> HIDE DEF E
    <2>6. Agrees(Picked(E, d), registered, latest') /\ latest' \in [Devices -> 0..(NumStreams - 1)]
        BY <1>2, <2>1, <2>4, <2>5, AgreesPicked
    <2> QED
        BY <1>3, <2>2, <2>6 DEF E
<1> QED
    BY <1>4, <1>5

LEMMA FailedLookup ==
    ASSUME NEW d, LookupFails(d)
    PROVE  devices' = Taken
BY DEF LookupFails, MapAfterFailure

\* The frames a call may push.
LEMMA FrameTyped ==
    /\ Executing \in Frame /\ Executing.kind = "executing"
    /\ Unguarded \in Frame /\ Unguarded.kind = "unguarded"
    /\ \A h \in BOOLEAN : Release(h) \in Frame /\ Release(h).kind = "release" /\ Release(h).held = h
    /\ \A map \in ContextMap : \A d \in DOMAIN map : d \in Devices =>
          /\ Lease(map, d) \in Frame /\ Lease(map, d).kind = "lease"
          /\ Lease(map, d).map = map /\ Lease(map, d).device = d
BY DEF Executing, Unguarded, Release, Lease, Frame

\* The lock over a pushed frame, and the map under one that is no lease.
LEMMA PushKeeps ==
    ASSUME IInv, NEW f \in Frame, frames' = Append(frames, f), executing' \in BOOLEAN,
           \/ f.kind = "executing" /\ ~executing /\ executing'
           \/ f.kind = "release" /\ (f.held <=> executing) /\ ~executing'
           \/ f.kind \in {"unguarded", "lease"} /\ executing' = executing
    PROVE  /\ Locked' /\ frames' \in Seq(Frame)
           /\ f.kind # "lease" => Rooted(frames') /\ \A m : MapOf(frames', m) = MapOf(frames, m)
<1> DEFINE s == frames
           t == frames'
<1>1. /\ s \in Seq(Frame) /\ Guarded(s) /\ executing \in BOOLEAN
      /\ executing <=> InForce(s, Len(s))
      /\ Rooted(s)
    BY DEF IInv, Typed, Locked
<1>2. f.kind = "executing" => ~InForce(s, Len(s))
    BY <1>1, Zenon
<1>3. f.kind = "release" => (f.held <=> InForce(s, Len(s)))
    BY <1>1, Zenon
<1>4. t = Append(s, f)
    OBVIOUS
<1>5. f.kind # "lease" => Rooted(t) /\ \A m : MapOf(t, m) = MapOf(s, m)
    <2> SUFFICES ASSUME f.kind # "lease"
                 PROVE  Rooted(t) /\ \A m : MapOf(t, m) = MapOf(s, m)
        OBVIOUS
    <2> QED
        BY <1>1, <1>4, MapUnderFrame, Zenon
<1> HIDE DEF s, t
<1>6. /\ t \in Seq(Frame) /\ Guarded(t)
      /\ f.kind = "executing" => InForce(t, Len(t))
      /\ f.kind = "release" => ~InForce(t, Len(t))
      /\ f.kind \notin {"executing", "release"} => (InForce(t, Len(t)) <=> InForce(s, Len(s)))
    BY <1>1, <1>2, <1>3, <1>4, Pushed, Zenon
<1>7. executing' <=> InForce(t, Len(t))
    <2>1. CASE f.kind = "executing"
        BY <1>6, <2>1, Zenon
    <2>2. CASE f.kind = "release"
        BY <1>6, <2>2, Zenon
    <2>3. CASE f.kind \in {"unguarded", "lease"}
        BY <1>1, <1>6, <2>3, Zenon
    <2> QED
        BY <2>1, <2>2, <2>3, Zenon
<1> QED
    BY <1>5, <1>6, <1>7, Zenon DEF Locked, s, t

\* The lock and the map when the innermost frame goes.
LEMMA ExitKeeps ==
    ASSUME IInv, Exit
    PROVE  IInv'
<1> DEFINE s == frames
           t == frames'
           n == Len(frames)
           f == frames[n]
<1>1. /\ s \in Seq(Frame) /\ s # <<>> /\ Guarded(s) /\ Rooted(s)
      /\ executing \in BOOLEAN /\ (executing <=> InForce(s, n))
      /\ t = SubSeq(s, 1, Len(s) - 1)
      /\ devices \in ContextMap \cup {None}
    BY DEF IInv, Typed, Locked, Exit
<1>2. n \in Nat \ {0} /\ f \in Frame
    BY <1>1
<1>3. executing' = FlagAfter(f) /\ devices' = DevicesAfter(f)
    BY DEF Exit, Top
<1>4. /\ f.kind \in {"executing", "unguarded", "release", "lease"}
      /\ f.kind = "release" => f.held \in BOOLEAN
      /\ f.kind = "lease" => f.map \in ContextMap
    BY <1>2 DEF Frame
<1>5. /\ f.kind = "executing" => ~InForce(s, n - 1)
      /\ f.kind = "release" => (f.held <=> InForce(s, n - 1))
    BY <1>1, <1>2 DEF Guarded
<1>6. f.kind \notin {"executing", "release"} => (InForce(s, n) <=> InForce(s, n - 1))
    BY <1>2, OneMore, Zenon
<1>7. MapOf(t, devices') = MapOf(s, devices) /\ devices' \in ContextMap \cup {None} /\ Rooted(t)
    <2>1. /\ Rooted(t)
          /\ f.kind = "lease" => MapOf(t, f.map) = MapOf(s, devices)
          /\ f.kind # "lease" => MapOf(t, devices) = MapOf(s, devices)
        BY <1>1, MapOfRest, Zenon
    <2>2. devices' = IF f.kind = "lease" THEN f.map ELSE devices
        BY <1>3, Zenon DEF DevicesAfter
    <2> HIDE DEF s, t, f, n
    <2> QED
        BY <1>1, <1>4, <2>1, <2>2
<1>8. t \in Seq(Frame) /\ Guarded(t) /\ (InForce(t, Len(t)) <=> InForce(s, n - 1))
    BY <1>1, Popped, Zenon
<1>9. executing' \in BOOLEAN /\ (executing' <=> InForce(t, Len(t)))
    <2>1. CASE f.kind = "executing"
        <3>1. executing' = FALSE
            BY <1>3, <2>1 DEF FlagAfter
        <3> QED
            BY <1>5, <1>8, <2>1, <3>1, Zenon
    <2>2. CASE f.kind = "release"
        <3>1. executing' = f.held
            BY <1>3, <2>2 DEF FlagAfter
        <3> QED
            BY <1>4, <1>5, <1>8, <2>2, <3>1, Zenon
    <2>3. CASE f.kind \in {"unguarded", "lease"}
        <3>1. executing' = executing /\ f.kind \notin {"executing", "release"}
            BY <1>3, <2>3 DEF FlagAfter
        <3> QED
            BY <1>1, <1>6, <1>8, <3>1, Zenon
    <2> QED
        BY <1>4, <2>1, <2>2, <2>3, Zenon
<1>10. Typed'
    BY <1>7, <1>8 DEF Typed, IInv, Exit
<1>11. Locked'
    BY <1>8, <1>9, Zenon DEF Locked
<1>12. Agrees(ThreadMap', registered', latest')
    <2>1. ThreadMap' = ThreadMap
        BY <1>7, ThreadMapIs
    <2> QED
        BY <2>1 DEF IInv, Exit
<1> QED
    BY <1>7, <1>10, <1>11, <1>12 DEF IInv

\* A call that is one step: it changes the cell and the history.
LEMMA CellKeeps ==
    ASSUME IInv, frames' = frames, executing' = executing, default' \in Devices,
           devices' \in ContextMap,
           registered' \in [Devices -> Pool \cup {None}],
           latest' \in [Devices -> 0..(NumStreams - 1)],
           Agrees(MapOf(frames, devices'), registered', latest')
    PROVE  IInv'
<1>1. ThreadMap' = MapOf(frames, devices')
    BY ThreadMapIs
<1>2. Typed'
    BY DEF IInv, Typed
<1>3. Locked'
    BY DEF IInv, Locked
<1> QED
    BY <1>1, <1>2, <1>3 DEF IInv

\* A call that enters a region of the lock, or an operation without it.
LEMMA RegionKeeps ==
    ASSUME IInv, NEW f \in Frame, frames' = Append(frames, f), executing' \in BOOLEAN,
           \/ f.kind = "executing" /\ ~executing /\ executing'
           \/ f.kind = "release" /\ (f.held <=> executing) /\ ~executing'
           \/ f.kind = "unguarded" /\ executing' = executing,
           default' = default, devices' \in ContextMap \cup {None}, registered' = registered,
           latest' \in [Devices -> 0..(NumStreams - 1)],
           Agrees(MapOf(frames, devices'), registered, latest')
    PROVE  IInv'
<1>1. f.kind # "lease"
    OBVIOUS
<1>2. /\ Locked' /\ frames' \in Seq(Frame)
      /\ Rooted(frames') /\ \A m : MapOf(frames', m) = MapOf(frames, m)
    BY <1>1, PushKeeps, Zenon
<1>3. ThreadMap' = MapOf(frames, devices')
    BY <1>2, ThreadMapIs, Zenon
<1>4. Typed'
    BY <1>2 DEF IInv, Typed
<1> QED
    BY <1>2, <1>3, <1>4 DEF IInv

LEMMA LookKeeps ==
    ASSUME IInv, NEW d \in Devices, Look(d)
    PROVE  IInv'
<1>1. devices' = Ensured(Taken, d) \/ devices' = Taken
    BY FailedLookup DEF Look
<1>2. devices' \in ContextMap /\ Agrees(MapOf(frames, devices'), registered, latest)
    BY <1>1, LookedUp, Zenon
<1> QED
    BY <1>2, CellKeeps DEF Look, IInv, Typed

LEMMA WithContextKeeps ==
    ASSUME IInv, NEW d \in Devices, WithContext(d)
    PROVE  IInv'
<1> DEFINE E == Ensured(Taken, d)
           f == Lease(E, d)
<1>1. CASE LookupFails(d) /\ UNCHANGED frames
    <2>1. devices' = Taken
        BY <1>1, FailedLookup
    <2>2. devices' \in ContextMap /\ Agrees(MapOf(frames, devices'), registered, latest)
        BY <2>1, LookedUp, Zenon
    <2> QED
        BY <1>1, <2>2, CellKeeps DEF WithContext, IInv, Typed
<1>2. CASE Push(f) /\ devices' = None
    <2>1. Taken \in ContextMap /\ (~InClosure => ThreadMap = Taken)
        BY MapsTyped DEF IInv
    <2>2. E \in ContextMap /\ d \in DOMAIN E
        BY <2>1, EnsuredFacts
    <2>3. f \in Frame /\ f.kind = "lease" /\ f.map = E
        BY <2>2, FrameTyped
    <2> HIDE DEF f, E
    <2>4. frames' = Append(frames, f) /\ executing' = executing /\ devices' = None
        BY <1>2 DEF Push, WithContext
    <2>5. executing' \in BOOLEAN /\ frames \in Seq(Frame) /\ Rooted(frames)
        BY <2>4 DEF IInv, Locked, Typed
    <2>6. Locked' /\ frames' \in Seq(Frame)
        BY <2>3, <2>4, <2>5, PushKeeps
    <2>7. /\ Rooted(frames')
          /\ LeasesOf(frames) = {} => MapOf(frames', None) = E
          /\ LeasesOf(frames) # {} => MapOf(frames', None) = MapOf(frames, devices)
        BY <2>3, <2>4, <2>5, MapUnderLease, Zenon
    <2>8. Agrees(ThreadMap', registered, latest)
        <3>1. CASE InClosure
            BY <2>4, <2>7, <3>1, ThreadMapIs DEF IInv
        <3>2. CASE ~InClosure
            <4>1. ThreadMap' = E
                BY <2>4, <2>7, <3>2, ThreadMapIs
            <4>2. Agrees(Taken, registered, latest)
                BY <2>1, <3>2 DEF IInv
            <4>3. Agrees(E, registered, latest)
                BY <2>1, <4>2, AgreesEnsured DEF E
            <4> QED
                BY <4>1, <4>3
        <3> QED
            BY <3>1, <3>2
    <2>9. Typed'
        BY <2>4, <2>6 DEF WithContext, IInv, Typed
    <2> QED
        BY <2>6, <2>7, <2>8, <2>9 DEF IInv, WithContext
<1> QED
    BY <1>1, <1>2 DEF WithContext

LEMMA InitKeeps ==
    ASSUME IInv, NEW d \in Devices, InitDeviceContexts(d)
    PROVE  IInv'
<1>1. devices' = Taken
    BY DEF InitDeviceContexts, Taken
<1>2. devices' \in ContextMap /\ Agrees(MapOf(frames, devices'), registered, latest)
    BY <1>1, LookedUp, Zenon
<1> QED
    BY <1>2, CellKeeps DEF InitDeviceContexts, IInv, Typed

LEMMA SetDefaultKeeps ==
    ASSUME IInv, NEW d \in Devices, SetDefaultDevice(d)
    PROVE  IInv'
<1>1. ThreadMap' = ThreadMap
    BY ThreadMapIs DEF SetDefaultDevice
<1> QED
    BY <1>1 DEF SetDefaultDevice, IInv, Typed, Locked

LEMMA SetPoolKeeps ==
    ASSUME IInv, NEW d \in Devices, NEW p \in Pools[d] \cup {None}, SetDevicePool(d, p)
    PROVE  IInv'
<1> DEFINE E == Ensured(Taken, d)
           m == [E EXCEPT ![d].pool = p]
<1>1. CASE LookupFails(d) /\ UNCHANGED registered
    <2>1. devices' = Taken
        BY <1>1, FailedLookup
    <2>2. devices' \in ContextMap /\ Agrees(MapOf(frames, devices'), registered, latest)
        BY <2>1, LookedUp, Zenon
    <2> QED
        BY <1>1, <2>2, CellKeeps DEF SetDevicePool, IInv, Typed
<1>2. CASE /\ devices' = m
           /\ registered' = IF InClosure THEN registered ELSE [registered EXCEPT ![d] = p]
    <2>1. Taken \in ContextMap /\ (~InClosure => ThreadMap = Taken)
        BY MapsTyped DEF IInv
    <2>2. E \in ContextMap /\ d \in DOMAIN E
        BY <2>1, EnsuredFacts
    <2>3. p \in Pool \cup {None}
        BY DEF Pool
    <2> HIDE DEF E
    <2>4. m \in ContextMap
        BY <2>2, <2>3, PoolFacts
    <2>5. registered \in [Devices -> Pool \cup {None}]
        BY DEF IInv, Typed
    <2>6. registered' \in [Devices -> Pool \cup {None}]
        BY <1>2, <2>3, <2>5
    <2>7. Agrees(MapOf(frames, m), registered', latest)
        <3> HIDE DEF m
        <3>1. CASE InClosure
            <4>1. MapOf(frames, m) = ThreadMap
                BY <2>4, <3>1, CellMap DEF IInv
            <4> QED
                BY <1>2, <3>1, <4>1 DEF IInv
        <3>2. CASE ~InClosure
            <4>1. MapOf(frames, m) = m
                BY <2>4, <3>2, CellMap DEF IInv
            <4>2. Agrees(Taken, registered, latest)
                BY <2>1, <3>2 DEF IInv
            <4>3. Agrees(E, registered, latest)
                BY <2>1, <4>2, AgreesEnsured DEF E
            <4>4. Agrees(m, [registered EXCEPT ![d] = p], latest)
                BY <2>2, <2>3, <2>5, <4>3, AgreesPool DEF m
            <4> QED
                BY <1>2, <3>2, <4>1, <4>4
        <3> QED
            BY <3>1, <3>2
    <2> HIDE DEF m
    <2> QED
        BY <1>2, <2>4, <2>6, <2>7, CellKeeps DEF SetDevicePool, IInv, Typed
<1> QED
    BY <1>1, <1>2 DEF SetDevicePool

\* schedule and both kinds of into_future: a stream, or a failed lookup.
LEMMA TakesStreamKeeps ==
    ASSUME IInv, NEW d \in Devices,
           \/ devices' = Picked(Ensured(Taken, d), d) /\ NextStream(Ensured(Taken, d), d)
           \/ LookupFails(d) /\ UNCHANGED latest,
           UNCHANGED <<executing, default, frames, registered>>
    PROVE  IInv'
<1>1. CASE devices' = Picked(Ensured(Taken, d), d) /\ NextStream(Ensured(Taken, d), d)
    <2>1. /\ devices' \in ContextMap
          /\ latest' \in [Devices -> 0..(NumStreams - 1)]
          /\ Agrees(MapOf(frames, devices'), registered, latest')
        BY <1>1, HandedOut, Zenon
    <2> QED
        BY <2>1, CellKeeps DEF IInv, Typed
<1>2. CASE LookupFails(d) /\ UNCHANGED latest
    <2>1. devices' = Taken
        BY <1>2, FailedLookup
    <2>2. devices' \in ContextMap /\ Agrees(MapOf(frames, devices'), registered, latest)
        BY <2>1, LookedUp, Zenon
    <2> QED
        BY <1>2, <2>2, CellKeeps DEF IInv, Typed
<1> QED
    BY <1>1, <1>2

\* sync_on, async_on and what is like them: a lookup under a pushed frame.
LEMMA LooksUnderFrame ==
    ASSUME IInv, NEW d \in Devices, NEW f \in Frame, frames' = Append(frames, f),
           executing' \in BOOLEAN,
           \/ f.kind = "executing" /\ ~executing /\ executing'
           \/ f.kind = "unguarded" /\ executing' = executing,
           devices' = Ensured(Taken, d) \/ LookupFails(d),
           UNCHANGED <<default, registered, latest>>
    PROVE  IInv'
<1>1. devices' = Ensured(Taken, d) \/ devices' = Taken
    BY FailedLookup
<1>2. devices' \in ContextMap /\ Agrees(MapOf(frames, devices'), registered, latest)
    BY <1>1, LookedUp, Zenon
<1>3. default' = default /\ registered' = registered /\ latest' = latest
      /\ latest' \in [Devices -> 0..(NumStreams - 1)]
    BY DEF IInv, Typed
<1>4. devices' \in ContextMap \cup {None} /\ Agrees(MapOf(frames, devices'), registered, latest')
    BY <1>2, <1>3
<1> QED
    BY <1>3, <1>4, RegionKeeps, Zenon

LEMMA SyncOnKeeps ==
    ASSUME IInv, NEW d \in Devices, SyncOn(d)
    PROVE  IInv'
<1>1. /\ ~executing /\ executing' = TRUE /\ frames' = Append(frames, Executing)
      /\ devices' = Ensured(Taken, d) \/ LookupFails(d)
      /\ UNCHANGED <<default, registered, latest>>
    BY DEF SyncOn, Acquire, Push
<1> QED
    BY <1>1, FrameTyped, LooksUnderFrame, Zenon

LEMMA AsyncOnKeeps ==
    ASSUME IInv, NEW d \in Devices, AsyncOn(d)
    PROVE  IInv'
<1>1. /\ executing' = executing /\ frames' = Append(frames, Unguarded)
      /\ devices' = Ensured(Taken, d) \/ LookupFails(d)
      /\ UNCHANGED <<default, registered, latest>>
    BY DEF AsyncOn, Push
<1>2. executing' \in BOOLEAN
    BY <1>1 DEF IInv, Locked
<1> QED
    BY <1>1, <1>2, FrameTyped, LooksUnderFrame, Zenon

\* A region entered without touching the context map.
LEMMA PollKeeps ==
    ASSUME IInv, Poll
    PROVE  IInv'
<1>1. /\ ~executing /\ executing' = TRUE /\ frames' = Append(frames, Executing)
      /\ UNCHANGED <<default, devices, registered, latest>>
    BY DEF Poll, Acquire, Push
<1>2. /\ devices' \in ContextMap \cup {None} /\ latest' \in [Devices -> 0..(NumStreams - 1)]
      /\ default' = default /\ registered' = registered
    BY <1>1 DEF IInv, Typed
<1>3. Agrees(MapOf(frames, devices'), registered, latest')
    BY <1>1, ThreadMapIs DEF IInv
<1> QED
    BY <1>1, <1>2, <1>3, FrameTyped, RegionKeeps, Zenon

LEMMA ThenKeeps ==
    ASSUME IInv, ThenUnchecked
    PROVE  IInv'
<1> DEFINE f == Release(executing)
<1>1. /\ executing' = FALSE /\ frames' = Append(frames, f)
      /\ UNCHANGED <<default, devices, registered, latest>>
    BY DEF ThenUnchecked, Push
<1>2. /\ devices' \in ContextMap \cup {None} /\ latest' \in [Devices -> 0..(NumStreams - 1)]
      /\ default' = default /\ registered' = registered
    BY <1>1 DEF IInv, Typed
<1>3. Agrees(MapOf(frames, devices'), registered, latest')
    BY <1>1, ThreadMapIs DEF IInv
<1>4. f \in Frame /\ f.kind = "release" /\ f.held = executing
    BY FrameTyped, Zenon DEF IInv, Locked
<1> HIDE DEF f
<1>5. executing' \in BOOLEAN /\ ~executing' /\ (f.held <=> executing)
    BY <1>1, <1>4, Zenon
<1> QED
    BY <1>1, <1>2, <1>3, <1>4, <1>5, RegionKeeps, Zenon

LEMMA SyncKeeps ==
    ASSUME IInv, Sync
    PROVE  IInv'
<1> DEFINE E == Ensured(Taken, default)
<1>1. default \in Devices
    BY DEF IInv, Typed
<1>2. CASE /\ devices' = Picked(E, default) /\ NextStream(E, default)
           /\ Acquire
    <2>1. /\ devices' \in ContextMap
          /\ latest' \in [Devices -> 0..(NumStreams - 1)]
          /\ Agrees(MapOf(frames, devices'), registered, latest')
        BY <1>1, <1>2, HandedOut, Zenon
    <2>2. /\ ~executing /\ executing' = TRUE /\ frames' = Append(frames, Executing)
          /\ default' = default /\ registered' = registered
          /\ devices' \in ContextMap \cup {None}
        BY <1>2, <2>1 DEF Sync, Acquire, Push
    <2> QED
        BY <2>1, <2>2, FrameTyped, RegionKeeps, Zenon
<1>3. CASE /\ \/ devices' = Picked(E, default) /\ NextStream(E, default)
              \/ LookupFails(default) /\ UNCHANGED latest
           /\ UNCHANGED <<executing, frames>>
    <2>1. UNCHANGED <<executing, default, frames, registered>>
        BY <1>3 DEF Sync
    <2> QED
        BY <1>1, <1>3, <2>1, TakesStreamKeeps, Zenon
<1> QED
    BY <1>2, <1>3 DEF Sync

\* next_stream on the policy of the innermost lease.
LEMMA ClosureKeeps ==
    ASSUME IInv, NextStreamInClosure
    PROVE  IInv'
<1> DEFINE n == Len(frames)
           f == frames[n]
           P == Picked(f.map, f.device)
           t == frames'
<1>1. /\ frames \in Seq(Frame) /\ frames # <<>> /\ Guarded(frames) /\ Rooted(frames)
      /\ f.kind = "lease"
      /\ t = [frames EXCEPT ![n].map = P]
      /\ IF Leases = {n} THEN HandOut(f.map, f.device) ELSE UNCHANGED latest
      /\ UNCHANGED <<executing, default, devices, registered, missed>>
    BY DEF IInv, Typed, Locked, NextStreamInClosure, Top
<1>2. n \in Nat \ {0} /\ f \in Frame
    BY <1>1
<1>3. f.map \in ContextMap /\ f.device \in DOMAIN f.map /\ f.device \in Devices
    BY <1>1, <1>2 DEF Frame
<1>4. P \in ContextMap /\ DOMAIN P = DOMAIN f.map
    BY <1>3, PickedFacts
<1>5. [f EXCEPT !.map = P] \in Frame /\ [f EXCEPT !.map = P].kind = "lease"
      /\ [f EXCEPT !.map = P].map = P
    <2> HIDE DEF P
    <2>1. f = [kind |-> "lease", map |-> f.map, device |-> f.device]
        BY <1>1, <1>2 DEF Frame
    <2> HIDE DEF f
    <2>2. [f EXCEPT !.map = P] = Lease(P, f.device)
        BY <2>1 DEF Lease
    <2>3. /\ Lease(P, f.device) \in Frame /\ Lease(P, f.device).kind = "lease"
          /\ Lease(P, f.device).map = P
        <3>1. P \in ContextMap /\ f.device \in DOMAIN P /\ f.device \in Devices
            BY <1>3, <1>4
        <3> QED
            BY <3>1, FrameTyped, Zenon
    <2> QED
        BY <2>2, <2>3, Zenon
<1>6. /\ t \in Seq(Frame) /\ Len(t) = n
      /\ \A i \in 1..n : t[i].kind = frames[i].kind
      /\ \A i \in 1..n : i # n => t[i] = frames[i]
      /\ t[n].map = P
      /\ \A i \in 1..n : t[i].kind = "release" => t[i].held = frames[i].held
    <2> HIDE DEF P
    <2>1. t = [i \in 1..n |-> IF i = n THEN [f EXCEPT !.map = P] ELSE frames[i]]
        <3> DEFINE g == [f EXCEPT !.map = P]
        <3>1. t = [frames EXCEPT ![n] = g]
            BY <1>1
        <3>2. DOMAIN frames = 1..n
            BY <1>1
        <3> HIDE DEF g, f, n, t
        <3>3. t = [i \in 1..n |-> IF i = n THEN g ELSE frames[i]]
            BY <3>1, <3>2
        <3> QED
            BY <3>3 DEF g
    <2>2. \A i \in 1..n : frames[i] \in Frame
        BY <1>1
    <2>3. n \in 1..n
        BY <1>2
    <2> HIDE DEF f
    <2>4. t \in Seq(Frame) /\ Len(t) = n
        BY <1>2, <1>5, <2>1, <2>2
    <2>5. t[n] = [f EXCEPT !.map = P] /\ \A i \in 1..n : i # n => t[i] = frames[i]
        BY <2>1, <2>3
    <2>6. t[n].kind = "lease" /\ t[n].map = P
        BY <1>5, <2>5
    <2> QED
        BY <1>1, <2>4, <2>5, <2>6, Zenon DEF f
<1> HIDE DEF t
<1>7. ASSUME NEW i \in 0..n
      PROVE  InForce(t, i) <=> InForce(frames, i)
    <2>1. i \in Nat /\ \A k \in 1..i : t[k].kind = frames[k].kind
        BY <1>2, <1>6
    <2> QED
        BY <2>1, SamePrefix
<1>8. Guarded(t)
    <2> SUFFICES ASSUME NEW i \in 1..n
                 PROVE  /\ t[i].kind = "executing" => ~InForce(t, i - 1)
                        /\ t[i].kind = "release" => (t[i].held <=> InForce(t, i - 1))
        BY <1>6 DEF Guarded
    <2>1. i - 1 \in 0..n /\ i \in 1..Len(frames)
        BY <1>2
    <2>2. /\ frames[i].kind = "executing" => ~InForce(frames, i - 1)
          /\ frames[i].kind = "release" => (frames[i].held <=> InForce(frames, i - 1))
        BY <1>1, <2>1, Zenon DEF Guarded
    <2>3. InForce(t, i - 1) <=> InForce(frames, i - 1)
        BY <1>7, <2>1
    <2>4. t[i].kind = frames[i].kind /\ (t[i].kind = "release" => t[i].held = frames[i].held)
        BY <1>6
    <2> QED
        BY <2>2, <2>3, <2>4, Zenon
<1>9. Locked'
    <2>1. InForce(t, n) <=> InForce(frames, n)
        BY <1>2, <1>7
    <2> QED
        BY <1>1, <1>6, <1>8, <2>1, Zenon DEF IInv, Locked, t
<1>10. LeasesOf(t) = LeasesOf(frames) /\ n \in LeasesOf(frames)
    <2>1. DOMAIN t = 1..n /\ DOMAIN frames = 1..n
        BY <1>1, <1>6
    <2> QED
        BY <1>1, <1>2, <1>6, <2>1 DEF LeasesOf
<1>11. Rooted(t)
    BY <1>1, <1>10 DEF Rooted, Outermost
<1>12. PICK o \in LeasesOf(frames) : Outermost(frames, o)
    BY <1>1, <1>10 DEF Rooted
<1>13. o \in 1..n /\ Outermost(t, o)
    BY <1>1, <1>10, <1>12 DEF Outermost, LeasesOf
<1>14. ThreadMap = frames[o].map /\ ThreadMap' = t[o].map
    <2>1. MapOf(frames, devices) = frames[o].map
        BY <1>1, <1>12, MapOfOutermost, Zenon
    <2>2. MapOf(t, devices') = t[o].map
        BY <1>6, <1>13, MapOfOutermost, Zenon
    <2> QED
        BY <2>1, <2>2, ThreadMapIs DEF t
<1>15. latest' \in [Devices -> 0..(NumStreams - 1)] /\ Agrees(ThreadMap', registered, latest')
    <2>1. latest \in [Devices -> 0..(NumStreams - 1)] /\ Agrees(ThreadMap, registered, latest)
        BY DEF IInv, Typed
    <2>2. CASE o = n
        <3>1. Leases = {n}
            <4>1. \A j \in LeasesOf(frames) : j \in 1..n /\ n <= j
                BY <1>1, <1>12, <2>2 DEF Outermost, LeasesOf
            <4>2. LeasesOf(frames) = {n}
                BY <1>2, <1>10, <4>1
            <4> QED
                BY <4>2, ThreadMapIs
        <3>2. latest' = [latest EXCEPT ![f.device] = StreamAt(f.map[f.device].next)]
            BY <1>1, <3>1 DEF HandOut
        <3>3. Agrees(f.map, registered, latest)
            BY <1>14, <2>1, <2>2
        <3> HIDE DEF f
        <3>4. Agrees(P, registered, latest') /\ latest' \in [Devices -> 0..(NumStreams - 1)]
            BY <1>3, <2>1, <3>2, <3>3, AgreesPicked
        <3> HIDE DEF P
        <3>5. ThreadMap' = P
            BY <1>6, <1>14, <2>2
        <3> QED
            BY <3>4, <3>5
    <2>3. CASE o # n
        <3>1. Leases # {n}
            BY <1>12, <2>3, ThreadMapIs
        <3>2. latest' = latest
            BY <1>1, <3>1
        <3>3. ThreadMap' = ThreadMap
            BY <1>6, <1>13, <1>14, <2>3
        <3> QED
            BY <2>1, <3>2, <3>3
    <2> QED
        BY <2>2, <2>3
<1>16. Typed'
    BY <1>1, <1>6, <1>15 DEF IInv, Typed, t
<1> QED
    BY <1>1, <1>9, <1>11, <1>15, <1>16 DEF IInv, t

-----------------------------------------------------------------------------
(* The theorems.                                                              *)

LEMMA Start == Init => IInv
<1> SUFFICES ASSUME Init
             PROVE  IInv
    OBVIOUS
<1>1. Typed
    BY HostAssumption DEF Init, Typed
<1>2. frames = <<>> /\ LeasesOf(frames) = {} /\ Len(frames) = 0
    BY DEF Init, LeasesOf
<1>3. Locked
    <2>1. ~InForce(frames, 0) /\ Guarded(frames)
        BY <1>2 DEF Guarded, InForce
    <2>2. executing = FALSE
        BY DEF Init
    <2> QED
        BY <1>2, <2>1, <2>2, Zenon DEF Locked
<1>4. ThreadMap = NoContexts
    BY <1>2, ThreadMapIs DEF Init, MapOf
<1>5. Agrees(ThreadMap, registered, latest)
    BY <1>4, FreshFacts DEF Init, Agrees
<1> QED
    BY <1>1, <1>2, <1>3, <1>5 DEF IInv, Rooted

LEMMA StepKeeps == IInv /\ [Next]_vars => IInv'
<1> SUFFICES ASSUME IInv, [Next]_vars
             PROVE  IInv'
    OBVIOUS
<1>1. CASE Exit
    BY <1>1, ExitKeeps
<1>2. CASE NextStreamInClosure
    BY <1>2, ClosureKeeps
<1>3. CASE IntoFutureInLease
    <2>1. /\ \/ devices' = Picked(Ensured(Taken, default), default)
                /\ NextStream(Ensured(Taken, default), default)
             \/ LookupFails(default) /\ UNCHANGED latest
          /\ UNCHANGED <<executing, default, frames, registered>>
          /\ default \in Devices
        BY <1>3 DEF IntoFutureInLease, IInv, Typed
    <2> QED
        BY <2>1, TakesStreamKeeps, Zenon
<1>4. CASE Sync
    BY <1>4, SyncKeeps
<1>5. CASE Poll
    BY <1>5, PollKeeps
<1>6. CASE ThenUnchecked
    BY <1>6, ThenKeeps
<1>7. ASSUME NEW d \in Devices, Look(d)
      PROVE  IInv'
    BY <1>7, LookKeeps
<1>8. ASSUME NEW d \in Devices, WithContext(d)
      PROVE  IInv'
    BY <1>8, WithContextKeeps
<1>9. ASSUME NEW d \in Devices, InitDeviceContexts(d)
      PROVE  IInv'
    BY <1>9, InitKeeps
<1>10. ASSUME NEW d \in Devices, SetDefaultDevice(d)
       PROVE  IInv'
    BY <1>10, SetDefaultKeeps
<1>11. ASSUME NEW d \in Devices, Schedule(d)
       PROVE  IInv'
    <2>1. /\ \/ devices' = Picked(Ensured(Taken, d), d) /\ NextStream(Ensured(Taken, d), d)
             \/ LookupFails(d) /\ UNCHANGED latest
          /\ UNCHANGED <<executing, default, frames, registered>>
        BY <1>11 DEF Schedule
    <2> QED
        BY <2>1, TakesStreamKeeps, Zenon
<1>12. ASSUME NEW d \in Devices, SyncOn(d)
       PROVE  IInv'
    BY <1>12, SyncOnKeeps
<1>13. ASSUME NEW d \in Devices, AsyncOn(d)
       PROVE  IInv'
    BY <1>13, AsyncOnKeeps
<1>14. ASSUME NEW d \in Devices, NEW p \in Pools[d] \cup {None}, SetDevicePool(d, p)
       PROVE  IInv'
    BY <1>14, SetPoolKeeps
<1>15. CASE UNCHANGED vars
    <2>1. ThreadMap' = ThreadMap
        BY <1>15, ThreadMapIs DEF vars
    <2> QED
        BY <1>15, <2>1 DEF vars, IInv, Typed, Locked
<1> QED
    BY <1>1, <1>2, <1>3, <1>4, <1>5, <1>6, <1>7, <1>8, <1>9, <1>10, <1>11, <1>12, <1>13,
       <1>14, <1>15 DEF Next

\* Every state of the thread satisfies the inductive invariant: the guards on
\* its stack remember the lock as they found it, and the outermost map agrees
\* with the pools registered and the streams handed out.
THEOREM Inductive == Spec => []IInv
BY Start, StepKeeps, PTL DEF Spec

\* Whatever then_unchecked closures, errors and panics nest, one operation of a
\* thread is in force at a time and the flag says so.
THEOREM LockSound == Spec => []ExclusiveExecution
<1>1. IInv => ExclusiveExecution
    BY LockedExcludes DEF IInv, Typed
<1> QED
    BY <1>1, Inductive, PTL

\* No call, nested, failed or refused, loses the pool set_device_pool registered.
THEOREM PoolSound == Spec => []PoolKept
<1>1. ASSUME IInv
      PROVE  PoolKept
    <2>1. ThreadMap # None
        BY <1>1, MapsTyped, HostAssumption DEF IInv
    <2> QED
        BY <1>1, <2>1 DEF IInv, Agrees, PoolKept, PoolIn
<1> QED
    BY <1>1, Inductive, PTL

\* A context's streams are handed out in rotation, for every size of the stream
\* pool that divides the range of the counter.
THEOREM RotationSound == Spec => []TakesTurns
<1>1. ASSUME IInv
      PROVE  TakesTurns
    <2>1. DOMAIN ThreadMap \subseteq Devices
        BY <1>1, MapsTyped, MapFacts DEF IInv
    <2> QED
        BY <1>1, <2>1 DEF IInv, Agrees, TakesTurns
<1> QED
    BY <1>1, Inductive, PTL
=============================================================================
