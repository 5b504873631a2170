------------------------- MODULE ExecuteOnceProofs -------------------------
(***************************************************************************)
(* Proofs about ExecuteOnce: for any operations, callers, threads and        *)
(* streams, whatever calls whatever, an operation runs once, its outcome is  *)
(* final, and a consumer's use of the value executes after the work that     *)
(* produced it.                                                              *)
(***************************************************************************)
EXTENDS ExecuteOnce, TLAPS

Items == [kind : {"work", "event", "wait", "use"}, call : Calls]
At == {"idle", "lock", "wait", "run", "record", "settle"} \cup Returned
InRun == {"run", "record", "settle"}

-----------------------------------------------------------------------------
(* The inductive invariant.                                                   *)

\* Whoever runs an operation took it, and an operation that was taken is
\* Pending no more: nobody takes it again.
Taken ==
    /\ \A c \in Calls : at[c] \in InRun => c \in ran
    /\ \A c \in ran : state[OpOf[c]] # "Pending"
    /\ RunsOnce

\* After the first n items of a stream q, with W worked, o has worked: its work
\* is among them, or a wait for its event is.
Covers(W, q, n, o) ==
    \/ o \in W
    \/ \E i \in 1..n : q[i].kind \in {"work", "wait"} /\ OpOf[q[i].call] = o

\* What is enqueued on c's stream from now on executes after c's operation.
CoveredFor(c) == Covers(worked, queue[StreamOf[c]], Len(queue[StreamOf[c]]), OpOf[c])

\* Each event and each use has its operation's work or a wait for it ahead.
QueueOrdered(W, q) ==
    \A n \in 1..Len(q) : q[n].kind \in {"event", "use"} =>
        Covers(W, q, n - 1, OpOf[q[n].call])

\* The value is handed out behind the work, on the producer's stream or through
\* an event on another.
Ordered ==
    /\ recorded \subseteq worked
    /\ \A st \in Streams : QueueOrdered(worked, queue[st])
    /\ \A c \in Calls : at[c] \in {"record", "settle", "ok"} => CoveredFor(c)
    /\ \A o \in Ops : state[o] = "Done" =>
          \/ producer[o] = "none" /\ o \in worked
          \/ producer[o] \in Streams
             /\ Covers(worked, queue[producer[o]], Len(queue[producer[o]]), o)
    /\ UseAfterWork

IInv == TypeOK /\ Taken /\ Ordered

-----------------------------------------------------------------------------
(* Queues.                                                                    *)

LEMMA AppendItem ==
    ASSUME NEW q \in Seq(Items), NEW e \in Items
    PROVE  /\ Append(q, e) \in Seq(Items)
           /\ Len(Append(q, e)) = Len(q) + 1
           /\ \A i \in 1..Len(q) : Append(q, e)[i] = q[i]
           /\ Append(q, e)[Len(q) + 1] = e
OBVIOUS

LEMMA TailItem ==
    ASSUME NEW q \in Seq(Items), q # <<>>
    PROVE  /\ Tail(q) \in Seq(Items) /\ Head(q) \in Items /\ Head(q) = q[1]
           /\ Len(Tail(q)) = Len(q) - 1 /\ Len(q) \in Nat \ {0}
           /\ \A i \in 1..Len(Tail(q)) : Tail(q)[i] = q[i + 1]
OBVIOUS

LEMMA CoversGrows ==
    ASSUME NEW W, NEW X, W \subseteq X, NEW q, NEW m \in Nat, NEW n \in Nat, m <= n, NEW o,
           Covers(W, q, m, o)
    PROVE  Covers(X, q, n, o)
BY DEF Covers

LEMMA CoversAppend ==
    ASSUME NEW W, NEW q \in Seq(Items), NEW e \in Items, NEW n \in 0..Len(q), NEW o,
           Covers(W, q, n, o)
    PROVE  Covers(W, Append(q, e), n, o)
<1>1. \A i \in 1..n : Append(q, e)[i] = q[i]
    BY AppendItem
<1> QED
    BY <1>1 DEF Covers

\* An item that orders what follows it after the work of o.
LEMMA CoversByLast ==
    ASSUME NEW W, NEW q \in Seq(Items), NEW e \in Items, e.kind \in {"work", "wait"}
    PROVE  Covers(W, Append(q, e), Len(q) + 1, OpOf[e.call])
<1>1. Len(q) + 1 \in 1..(Len(q) + 1) /\ Append(q, e)[Len(q) + 1] = e
    BY AppendItem
<1> QED
    BY <1>1 DEF Covers

\* The stream passes its head: a work item has worked, and a wait only if its
\* event has happened.
LEMMA CoversTail ==
    ASSUME NEW W, NEW X, W \subseteq X, NEW q \in Seq(Items), q # <<>>, NEW n \in 1..Len(q), NEW o,
           Covers(W, q, n, o),
           Head(q).kind \in {"work", "wait"} => OpOf[Head(q).call] \in X
    PROVE  Covers(X, Tail(q), n - 1, o)
<1>1. CASE o \in W
    BY <1>1 DEF Covers
<1>2. CASE o \notin W
    <2>1. PICK i \in 1..n : q[i].kind \in {"work", "wait"} /\ OpOf[q[i].call] = o
        BY <1>2 DEF Covers
    <2>2. CASE i = 1
        BY <2>1, <2>2, TailItem DEF Covers
    <2>3. CASE i # 1
        <3>1. i - 1 \in 1..(n - 1) /\ i - 1 \in 1..Len(Tail(q))
            BY <2>3, TailItem
        <3>2. Tail(q)[i - 1] = q[i]
            BY <3>1, TailItem
        <3> QED
            BY <2>1, <3>1, <3>2 DEF Covers
    <2> QED
        BY <2>2, <2>3
<1> QED
    BY <1>1, <1>2

LEMMA QueueOrderedAppend ==
    ASSUME NEW W, NEW q \in Seq(Items), NEW e \in Items, QueueOrdered(W, q),
           e.kind \in {"event", "use"} => Covers(W, q, Len(q), OpOf[e.call])
    PROVE  QueueOrdered(W, Append(q, e))
<1> DEFINE r == Append(q, e)
<1> SUFFICES ASSUME NEW n \in 1..Len(r), r[n].kind \in {"event", "use"}
             PROVE  Covers(W, r, n - 1, OpOf[r[n].call])
    BY DEF QueueOrdered
<1> HIDE DEF r
<1>1. Len(r) = Len(q) + 1 /\ r[Len(q) + 1] = e /\ \A i \in 1..Len(q) : r[i] = q[i]
    BY AppendItem DEF r
<1>2. n - 1 \in 0..Len(q)
    BY <1>1
<1>3. CASE n = Len(q) + 1
    <2>1. Covers(W, q, n - 1, OpOf[r[n].call])
        BY <1>1, <1>3
    <2> QED
        BY <1>2, <2>1, CoversAppend DEF r
<1>4. CASE n # Len(q) + 1
    <2>1. n \in 1..Len(q) /\ r[n] = q[n]
        BY <1>1, <1>4
    <2>2. Covers(W, q, n - 1, OpOf[r[n].call])
        BY <2>1 DEF QueueOrdered
    <2> QED
        BY <1>2, <2>2, CoversAppend DEF r
<1> QED
    BY <1>3, <1>4

LEMMA QueueOrderedTail ==
    ASSUME NEW W, NEW X, W \subseteq X, NEW q \in Seq(Items), q # <<>>, QueueOrdered(W, q),
           Head(q).kind \in {"work", "wait"} => OpOf[Head(q).call] \in X
    PROVE  QueueOrdered(X, Tail(q))
<1> SUFFICES ASSUME NEW n \in 1..Len(Tail(q)), Tail(q)[n].kind \in {"event", "use"}
             PROVE  Covers(X, Tail(q), n - 1, OpOf[Tail(q)[n].call])
    BY DEF QueueOrdered
<1>1. n + 1 \in 1..Len(q) /\ n \in 1..Len(q) /\ Tail(q)[n] = q[n + 1]
    BY TailItem
<1>2. Covers(W, q, (n + 1) - 1, OpOf[q[n + 1].call])
    BY <1>1 DEF QueueOrdered
<1>3. Covers(W, q, n, OpOf[Tail(q)[n].call])
    BY <1>1, <1>2
<1> QED
    BY <1>1, <1>3, CoversTail

LEMMA QueueOrderedGrows ==
    ASSUME NEW W, NEW X, W \subseteq X, NEW q \in Seq(Items), QueueOrdered(W, q)
    PROVE  QueueOrdered(X, q)
BY DEF QueueOrdered, Covers

-----------------------------------------------------------------------------
(* Steps of the device's side.                                                *)

\* Nothing that was ordered after an operation's work loses its place.
Flows ==
    /\ queue' \in [Streams -> Seq(Items)]
    /\ worked \subseteq worked' /\ worked' \subseteq Ops
    /\ recorded' \subseteq worked'
    /\ used' \subseteq Calls
    /\ \A st \in Streams : QueueOrdered(worked', queue'[st])
    /\ \A st \in Streams, o \in Ops : Covers(worked, queue[st], Len(queue[st]), o)
          => Covers(worked', queue'[st], Len(queue'[st]), o)
    /\ UseAfterWork'

LEMMA StandsStill ==
    ASSUME IInv, UNCHANGED device
    PROVE  Flows
BY DEF IInv, TypeOK, Ordered, Flows, device, UseAfterWork, Items

LEMMA PushFlows ==
    ASSUME IInv, NEW c \in Calls, NEW kind \in {"work", "event", "wait", "use"},
           Push(c, kind), UNCHANGED <<recorded, worked, used>>,
           kind \in {"event", "use"} => CoveredFor(c)
    PROVE  /\ Flows
           /\ kind \in {"work", "wait"} => CoveredFor(c)'
<1> DEFINE e == [kind |-> kind, call |-> c]
           s == StreamOf[c]
<1>1. e \in Items /\ e.kind = kind /\ e.call = c
    BY DEF Items
<1> HIDE DEF e
<1>2. s \in Streams /\ OpOf[c] \in Ops
    BY OnceAssumption
<1>3. queue \in [Streams -> Seq(Items)] /\ queue[s] \in Seq(Items)
    BY <1>2 DEF IInv, TypeOK, Items
<1>4. queue' = [queue EXCEPT ![s] = Append(queue[s], e)]
    BY DEF Push, e
<1> HIDE DEF s
<1>5. queue'[s] = Append(queue[s], e) /\ \A st \in Streams : st # s => queue'[st] = queue[st]
    BY <1>2, <1>3, <1>4
<1>6. Append(queue[s], e) \in Seq(Items) /\ Len(Append(queue[s], e)) = Len(queue[s]) + 1
    BY <1>1, <1>3, AppendItem
<1>7. queue' \in [Streams -> Seq(Items)]
    BY <1>3, <1>4, <1>6
<1>8. ASSUME NEW st \in Streams
      PROVE  QueueOrdered(worked', queue'[st])
    <2>1. QueueOrdered(worked, queue[st])
        BY DEF IInv, Ordered
    <2>2. CASE st = s
        <3>1. e.kind \in {"event", "use"} => Covers(worked, queue[s], Len(queue[s]), OpOf[e.call])
            BY <1>1 DEF CoveredFor, s
        <3> QED
            BY <1>1, <1>3, <1>5, <2>1, <2>2, <3>1, QueueOrderedAppend
    <2>3. CASE st # s
        BY <1>5, <2>1, <2>3
    <2> QED
        BY <2>2, <2>3
<1>9. ASSUME NEW st \in Streams, NEW o \in Ops, Covers(worked, queue[st], Len(queue[st]), o)
      PROVE  Covers(worked', queue'[st], Len(queue'[st]), o)
    <2>1. CASE st = s
        <3>1. Len(queue[s]) \in 0..Len(queue[s]) /\ Len(queue[s]) \in Nat /\ Len(queue[s]) + 1 \in Nat
            BY <1>3
        <3>2. Covers(worked, queue'[s], Len(queue[s]), o)
            BY <1>1, <1>3, <1>5, <1>9, <2>1, <3>1, CoversAppend
        <3>3. Len(queue[s]) <= Len(queue[s]) + 1 /\ worked \subseteq worked
            BY <3>1
        <3>4. Covers(worked, queue'[s], Len(queue[s]) + 1, o)
            BY <3>1, <3>2, <3>3, CoversGrows, Zenon
        <3> QED
            BY <1>5, <1>6, <2>1, <3>4
    <2>2. CASE st # s
        BY <1>5, <1>9, <2>2
    <2> QED
        BY <2>1, <2>2
<1>10. ASSUME kind \in {"work", "wait"}
       PROVE  CoveredFor(c)'
    <2>1. Covers(worked, Append(queue[s], e), Len(queue[s]) + 1, OpOf[c])
        BY <1>1, <1>3, <1>10, CoversByLast
    <2> QED
        BY <1>5, <1>6, <2>1 DEF CoveredFor, s
<1>11. worked' \subseteq Ops /\ used' \subseteq Calls /\ recorded' \subseteq worked' /\ UseAfterWork'
    BY DEF IInv, TypeOK, Ordered, UseAfterWork
<1> QED
    BY <1>7, <1>8, <1>9, <1>10, <1>11 DEF Flows

LEMMA RunFlows ==
    ASSUME IInv, NEW s \in Streams, Run(s)
    PROVE  Flows
<1> DEFINE q == queue[s]
           e == Head(queue[s])
<1>1. queue \in [Streams -> Seq(Items)] /\ q \in Seq(Items) /\ q # <<>>
    BY DEF IInv, TypeOK, Run, Items
<1>2. e \in Items /\ e = q[1] /\ Tail(q) \in Seq(Items) /\ 1 \in 1..Len(q)
      /\ Len(Tail(q)) = Len(q) - 1 /\ Len(q) \in 1..Len(q)
    BY <1>1, TailItem
<1>3. e.call \in Calls /\ e.kind \in {"work", "event", "wait", "use"} /\ OpOf[e.call] \in Ops
    BY <1>2, OnceAssumption DEF Items
<1>4. /\ e.kind = "wait" => OpOf[e.call] \in recorded
      /\ recorded' = recorded \cup (IF e.kind = "event" THEN {OpOf[e.call]} ELSE {})
      /\ worked' = worked \cup (IF e.kind = "work" THEN {OpOf[e.call]} ELSE {})
      /\ used' = used \cup (IF e.kind = "use" THEN {e.call} ELSE {})
      /\ queue' = [queue EXCEPT ![s] = Tail(q)]
    BY DEF Run
<1>5. /\ recorded \subseteq worked /\ worked \subseteq Ops /\ used \subseteq Calls
      /\ QueueOrdered(worked, q) /\ UseAfterWork
    BY DEF IInv, TypeOK, Ordered
<1> HIDE DEF q, e
<1>6. e.kind \in {"event", "use"} => OpOf[e.call] \in worked
    <2>1. e.kind \in {"event", "use"} => Covers(worked, q, 1 - 1, OpOf[q[1].call])
        BY <1>2, <1>5 DEF QueueOrdered
    <2> QED
        BY <1>2, <2>1 DEF Covers
<1>7. e.kind \in {"work", "wait"} => OpOf[e.call] \in worked'
    BY <1>4, <1>5
<1>8. worked \subseteq worked' /\ worked' \subseteq Ops /\ used' \subseteq Calls
    BY <1>3, <1>4, <1>5
<1>9. recorded' \subseteq worked'
    BY <1>4, <1>5, <1>6
<1>10. UseAfterWork'
    BY <1>4, <1>5, <1>6 DEF UseAfterWork
<1>11. queue'[s] = Tail(q) /\ \A st \in Streams : st # s => queue'[st] = queue[st]
    BY <1>1, <1>4
<1>12. queue' \in [Streams -> Seq(Items)]
    BY <1>1, <1>2, <1>4
<1>13. ASSUME NEW st \in Streams
       PROVE  QueueOrdered(worked', queue'[st])
    <2>1. CASE st = s
        BY <1>1, <1>5, <1>7, <1>8, <1>11, <2>1, QueueOrderedTail DEF e, q
    <2>2. CASE st # s
        <3>1. QueueOrdered(worked, queue[st]) /\ queue[st] \in Seq(Items)
            BY <1>1 DEF IInv, Ordered
        <3> QED
            BY <1>8, <1>11, <2>2, <3>1, QueueOrderedGrows
    <2> QED
        BY <2>1, <2>2
<1>14. ASSUME NEW st \in Streams, NEW o \in Ops, Covers(worked, queue[st], Len(queue[st]), o)
       PROVE  Covers(worked', queue'[st], Len(queue'[st]), o)
    <2>1. CASE st = s
        BY <1>1, <1>2, <1>7, <1>8, <1>11, <1>14, <2>1, CoversTail DEF e, q
    <2>2. CASE st # s
        <3>1. Len(queue[st]) \in Nat
            BY <1>1
        <3> QED
            BY <1>8, <1>11, <1>14, <2>2, <3>1, CoversGrows
    <2> QED
        BY <2>1, <2>2
<1> QED
    BY <1>8, <1>9, <1>10, <1>12, <1>13, <1>14 DEF Flows

-----------------------------------------------------------------------------
(* Each part of the invariant over a step.                                    *)

LEMMA OrderedKeeps ==
    ASSUME IInv, Flows,
           \A c \in Calls : at'[c] \in {"record", "settle", "ok"} =>
               at[c] \in {"record", "settle", "ok"} \/ CoveredFor(c)',
           \A o \in Ops : state'[o] = "Done" =>
               \/ state[o] = "Done" /\ producer'[o] = producer[o]
               \/ producer'[o] \in Streams
                  /\ Covers(worked, queue[producer'[o]], Len(queue[producer'[o]]), o)
    PROVE  Ordered'
<1>1. ASSUME NEW c \in Calls, CoveredFor(c)
      PROVE  CoveredFor(c)'
    BY <1>1, OnceAssumption DEF CoveredFor, Flows
<1>2. \A c \in Calls : at'[c] \in {"record", "settle", "ok"} => CoveredFor(c)'
    BY <1>1 DEF IInv, Ordered
<1>3. ASSUME NEW o \in Ops, state'[o] = "Done"
      PROVE  \/ producer'[o] = "none" /\ o \in worked'
             \/ producer'[o] \in Streams
                /\ Covers(worked', queue'[producer'[o]], Len(queue'[producer'[o]]), o)
    <2>1. \/ producer'[o] = "none" /\ o \in worked
          \/ producer'[o] \in Streams
             /\ Covers(worked, queue[producer'[o]], Len(queue[producer'[o]]), o)
        BY <1>3 DEF IInv, Ordered
    <2> QED
        BY <2>1 DEF Flows
<1> QED
    BY <1>2, <1>3 DEF Ordered, Flows

\* A step in which no operation is taken and c at most goes to l.
LEMMA TakenKeeps ==
    ASSUME IInv, UNCHANGED ran,
           \A c \in Calls : at'[c] \in InRun => at[c] \in InRun,
           \A o \in Ops : state'[o] = "Pending" => state[o] = "Pending"
    PROVE  Taken'
BY OnceAssumption DEF IInv, TypeOK, Taken, RunsOnce

LEMMA TypeKeeps ==
    ASSUME IInv, Flows,
           state' \in [Ops -> {"Pending", "Running", "Done", "Failed"}],
           runner' \in [Ops -> Threads],
           producer' \in [Ops -> Streams \cup {"none"}],
           at' \in [Calls -> At],
           ran' \subseteq Calls, recorded' \subseteq Ops,
           \A c \in Calls : at'[c] \in InRun =>
               state'[OpOf[c]] = "Running" /\ runner'[OpOf[c]] = ThreadOf[c]
    PROVE  TypeOK'
BY DEF TypeOK, Flows, Items, At, InRun

-----------------------------------------------------------------------------
(* One lemma per kind of step.                                                *)

\* A step that moves only c, to a place where it runs nothing.
LEMMA GotoKeeps ==
    ASSUME IInv, NEW c \in Calls, NEW l \in At \ InRun, Goto(c, l),
           UNCHANGED <<once, ran, device>>, l = "ok" => CoveredFor(c)
    PROVE  IInv'
<1>1. Flows
    BY StandsStill
<1>2. at \in [Calls -> At] /\ at' = [at EXCEPT ![c] = l]
    BY DEF IInv, TypeOK, Goto, At
<1>3. /\ at' \in [Calls -> At] /\ \A d \in Calls : at'[d] \in InRun => at'[d] = at[d]
      /\ at'[c] = l /\ \A d \in Calls : d # c => at'[d] = at[d]
    BY <1>2
<1>4. UNCHANGED <<state, runner, producer, recorded>>
    BY DEF once, device
<1>5. Ordered'
    <2>1. l = "ok" => CoveredFor(c)'
        BY DEF CoveredFor, device
    <2> QED
        BY <1>1, <1>3, <1>4, <2>1, OrderedKeeps DEF InRun
<1>6. Taken'
    BY <1>3, <1>4, TakenKeeps
<1>7. TypeOK'
    BY <1>1, <1>3, <1>4, TypeKeeps DEF IInv, TypeOK, InRun
<1> QED
    BY <1>5, <1>6, <1>7 DEF IInv

LEMMA TakeOpKeeps ==
    ASSUME IInv, NEW c \in Calls, TakeOp(c)
    PROVE  IInv'
<1> DEFINE o == OpOf[c]
<1>1. o \in Ops /\ ThreadOf[c] \in Threads
    BY OnceAssumption
<1>2. /\ state[o] = "Pending" /\ at[c] = "lock" /\ UNCHANGED <<producer, device>>
      /\ state' = [state EXCEPT ![o] = "Running"] /\ runner' = [runner EXCEPT ![o] = ThreadOf[c]]
      /\ at' = [at EXCEPT ![c] = "run"] /\ ran' = ran \cup {c}
    BY DEF TakeOp, Takes, Goto
<1>3. /\ state \in [Ops -> {"Pending", "Running", "Done", "Failed"}] /\ runner \in [Ops -> Threads]
      /\ at \in [Calls -> At] /\ ran \subseteq Calls
    BY DEF IInv, TypeOK, At
<1>4. Flows
    BY <1>2, StandsStill
<1>5. \A d \in ran : OpOf[d] # o
    BY <1>2 DEF IInv, Taken
<1> HIDE DEF o
<1>6. /\ state'[o] = "Running" /\ \A p \in Ops : p # o => state'[p] = state[p]
      /\ at'[c] = "run" /\ \A d \in Calls : d # c => at'[d] = at[d]
      /\ runner'[o] = ThreadOf[c] /\ \A p \in Ops : p # o => runner'[p] = runner[p]
    BY <1>1, <1>2, <1>3
<1>7. /\ state' \in [Ops -> {"Pending", "Running", "Done", "Failed"}] /\ runner' \in [Ops -> Threads]
      /\ at' \in [Calls -> At] /\ ran' \subseteq Calls
    BY <1>1, <1>2, <1>3 DEF At
<1>8. Ordered'
    BY <1>2, <1>4, <1>6, OrderedKeeps
<1>9. Taken'
    <2>1. \A d \in Calls : at'[d] \in InRun => d \in ran'
        BY <1>2, <1>6 DEF IInv, Taken
    <2>2. \A d \in ran' : state'[OpOf[d]] # "Pending"
        BY <1>2, <1>3, <1>6, OnceAssumption DEF IInv, Taken, o
    <2>3. RunsOnce'
        BY <1>2, <1>5 DEF IInv, Taken, RunsOnce, o
    <2> QED
        BY <2>1, <2>2, <2>3 DEF Taken
<1>10. ASSUME NEW d \in Calls, at'[d] \in InRun
       PROVE  state'[OpOf[d]] = "Running" /\ runner'[OpOf[d]] = ThreadOf[d]
    <2>1. CASE d = c
        BY <1>6, <2>1 DEF o
    <2>2. CASE d # c
        <3>1. at[d] \in InRun
            BY <1>6, <1>10, <2>2
        <3>2. d \in ran /\ OpOf[d] \in Ops /\ OpOf[d] # o
            BY <1>5, <3>1, OnceAssumption DEF IInv, Taken
        <3>3. state[OpOf[d]] = "Running" /\ runner[OpOf[d]] = ThreadOf[d]
            BY <3>1 DEF IInv, TypeOK, InRun
        <3> QED
            BY <1>6, <3>2, <3>3
    <2> QED
        BY <2>1, <2>2
<1>11. TypeOK'
    BY <1>2, <1>4, <1>7, <1>10, TypeKeeps DEF IInv, TypeOK, device
<1> QED
    BY <1>8, <1>9, <1>11 DEF IInv

\* A step that enqueues an item of c and moves c on.
LEMMA PushKeeps ==
    ASSUME IInv, NEW c \in Calls, NEW kind \in {"work", "event", "wait", "use"}, NEW l \in At,
           Push(c, kind), Goto(c, l), UNCHANGED <<once, ran, recorded, worked, used>>,
           kind \in {"event", "use"} => CoveredFor(c),
           l \in InRun => at[c] \in InRun,
           l \in {"record", "settle", "ok"} =>
               at[c] \in {"record", "settle", "ok"} \/ kind \in {"work", "wait"}
    PROVE  IInv'
<1>1. Flows /\ (kind \in {"work", "wait"} => CoveredFor(c)')
    BY PushFlows
<1>2. at \in [Calls -> At] /\ at' = [at EXCEPT ![c] = l]
    BY DEF IInv, TypeOK, Goto, At
<1>3. at' \in [Calls -> At] /\ at'[c] = l /\ \A d \in Calls : d # c => at'[d] = at[d]
    BY <1>2
<1>4. UNCHANGED <<state, runner, producer>>
    BY DEF once
<1>5. Ordered'
    BY <1>1, <1>3, <1>4, OrderedKeeps
<1>6. Taken'
    BY <1>3, <1>4, TakenKeeps
<1>7. \A d \in Calls : at'[d] \in InRun =>
           state'[OpOf[d]] = "Running" /\ runner'[OpOf[d]] = ThreadOf[d]
    BY <1>3, <1>4 DEF IInv, TypeOK, InRun
<1>8. TypeOK'
    BY <1>1, <1>3, <1>4, <1>7, TypeKeeps DEF IInv, TypeOK
<1> QED
    BY <1>5, <1>6, <1>8 DEF IInv

\* The caller that ran the operation stores its outcome and wakes the waiters.
LEMMA SettleKeeps ==
    ASSUME IInv, NEW c \in Calls, NEW outcome \in {"Done", "Failed"},
           NEW l \in {"lock", "panicked"}, at[c] \in InRun, Settle(c, outcome, l), UNCHANGED device,
           \/ outcome = "Failed" /\ UNCHANGED producer
           \/ /\ outcome = "Done" /\ at[c] = "settle"
              /\ producer' = [producer EXCEPT ![OpOf[c]] = StreamOf[c]]
    PROVE  IInv'
<1> DEFINE o == OpOf[c]
<1>1. o \in Ops /\ StreamOf[c] \in Streams
    BY OnceAssumption
<1>2. /\ state' = [state EXCEPT ![o] = outcome] /\ at' = [Notified(o) EXCEPT ![c] = l]
      /\ UNCHANGED <<runner, ran>>
    BY DEF Settle
<1>3. /\ state \in [Ops -> {"Pending", "Running", "Done", "Failed"}]
      /\ at \in [Calls -> At] /\ producer \in [Ops -> Streams \cup {"none"}]
    BY DEF IInv, TypeOK, At
<1>4. Flows
    BY StandsStill
<1> HIDE DEF o
<1>5. Notified(o) \in [Calls -> At]
      /\ \A d \in Calls : Notified(o)[d] = at[d] \/ Notified(o)[d] = "lock"
    BY <1>3 DEF Notified, At
<1>6. at' \in [Calls -> At] /\ at'[c] = l /\ \A d \in Calls : d # c => at'[d] \in {at[d], "lock"}
    BY <1>2, <1>5 DEF At, Returned
<1>7. /\ state' \in [Ops -> {"Pending", "Running", "Done", "Failed"}]
      /\ state'[o] = outcome /\ \A p \in Ops : p # o => state'[p] = state[p]
    BY <1>1, <1>2, <1>3
<1>8. \A d \in Calls : at'[d] \in InRun => d # c /\ at'[d] = at[d]
    BY <1>6 DEF InRun
<1>9. \A d \in Calls : at'[d] \in InRun => OpOf[d] # o
    <2>1. c \in ran /\ RunsOnce /\ \A d \in Calls : at[d] \in InRun => d \in ran
        BY DEF IInv, Taken
    <2> QED
        BY <1>8, <2>1 DEF RunsOnce, o
<1>10. Taken'
    BY <1>2, <1>7, <1>8, TakenKeeps
<1>11. \A d \in Calls : at'[d] \in InRun =>
           state'[OpOf[d]] = "Running" /\ runner'[OpOf[d]] = ThreadOf[d]
    BY <1>2, <1>7, <1>8, <1>9, OnceAssumption DEF IInv, TypeOK, InRun
<1>12. producer' \in [Ops -> Streams \cup {"none"}]
    BY <1>1, <1>3 DEF o
<1>13. TypeOK'
    BY <1>2, <1>4, <1>6, <1>7, <1>11, <1>12, TypeKeeps DEF IInv, TypeOK, device
<1>14. Ordered'
    <2>1. \A d \in Calls : at'[d] \in {"record", "settle", "ok"} => at[d] \in {"record", "settle", "ok"}
        BY <1>6
    <2>2. ASSUME NEW p \in Ops, state'[p] = "Done"
          PROVE  \/ state[p] = "Done" /\ producer'[p] = producer[p]
                 \/ producer'[p] \in Streams
                    /\ Covers(worked, queue[producer'[p]], Len(queue[producer'[p]]), p)
        <3>1. CASE p = o
            <4>1. outcome = "Done" /\ at[c] = "settle" /\ producer'[p] = StreamOf[c]
                BY <1>1, <1>3, <1>7, <2>2, <3>1 DEF o
            <4>2. CoveredFor(c)
                BY <4>1 DEF IInv, Ordered
            <4> QED
                BY <1>1, <3>1, <4>1, <4>2 DEF CoveredFor, o
        <3>2. CASE p # o
            BY <1>3, <1>7, <2>2, <3>2 DEF o
        <3> QED
            BY <3>1, <3>2
    <2> QED
        BY <1>4, <2>1, <2>2, OrderedKeeps
<1> QED
    BY <1>10, <1>13, <1>14 DEF IInv

LEMMA GetsValueKeeps ==
    ASSUME IInv, NEW c \in Calls, GetsValue(c)
    PROVE  IInv'
<1>1. at[c] = "lock" /\ state[OpOf[c]] = "Done" /\ Goto(c, "ok")
      /\ UNCHANGED <<once, ran, recorded, worked, used>>
    BY DEF GetsValue
<1>2. CASE Joins(c)
    BY <1>1, <1>2, PushKeeps DEF GetsValue, At, InRun, Returned
<1>3. CASE ~Joins(c)
    <2>1. UNCHANGED device
        BY <1>1, <1>3 DEF GetsValue, device
    <2>2. producer[OpOf[c]] \in {"none", StreamOf[c]} /\ OpOf[c] \in Ops
        BY <1>3, OnceAssumption DEF Joins
    <2>3. CoveredFor(c)
        BY <1>1, <2>2, OnceAssumption DEF IInv, Ordered, CoveredFor, Covers
    <2> QED
        BY <1>1, <2>1, <2>3, GotoKeeps DEF At, InRun, Returned
<1> QED
    BY <1>2, <1>3

LEMMA RunKeeps ==
    ASSUME IInv, NEW s \in Streams, Run(s)
    PROVE  IInv'
<1>1. Flows
    BY RunFlows
<1>2. UNCHANGED <<state, runner, producer, at, ran>>
    BY DEF Run, once
<1>3. Ordered' /\ Taken'
    BY <1>1, <1>2, OrderedKeeps, TakenKeeps
<1>4. TypeOK'
    <2>1. recorded' \subseteq Ops
        BY <1>1 DEF Flows
    <2> QED
        BY <1>1, <1>2, <2>1, TypeKeeps DEF IInv, TypeOK, At, InRun
<1> QED
    BY <1>3, <1>4 DEF IInv

LEMMA StepKeeps ==
    ASSUME IInv, [Next]_vars
    PROVE  IInv'
<1>1. ASSUME NEW c \in Calls, Call(c) \/ Reenter(c) \/ Wait(c) \/ SpuriousWakeup(c)
                               \/ GetsError(c) \/ JoinFails(c)
      PROVE  IInv'
    <2>1. \E l \in {"lock", "reentered", "wait", "error", "refused"} :
             Goto(c, l) /\ UNCHANGED <<once, ran, device>>
        BY <1>1 DEF Call, Reenter, Wait, SpuriousWakeup, GetsError, JoinFails
    <2> QED
        BY <2>1, GotoKeeps DEF At, InRun, Returned
<1>2. ASSUME NEW c \in Calls, TakeOp(c)
      PROVE  IInv'
    BY <1>2, TakeOpKeeps
<1>3. ASSUME NEW c \in Calls, GetsValue(c)
      PROVE  IInv'
    BY <1>3, GetsValueKeeps
<1>4. ASSUME NEW c \in Calls, RunWork(c)
      PROVE  IInv'
    BY <1>4, PushKeeps DEF RunWork, At, InRun
<1>5. ASSUME NEW c \in Calls, RunFails(c)
      PROVE  IInv'
    BY <1>5, SettleKeeps DEF RunFails, InRun
<1>6. ASSUME NEW c \in Calls, RunPanics(c)
      PROVE  IInv'
    BY <1>6, SettleKeeps DEF RunPanics, InRun
<1>7. ASSUME NEW c \in Calls, RecordEvent(c)
      PROVE  IInv'
    <2>1. CoveredFor(c)
        BY <1>7 DEF RecordEvent, IInv, Ordered
    <2> QED
        BY <1>7, <2>1, PushKeeps DEF RecordEvent, At, InRun
<1>8. ASSUME NEW c \in Calls, SettleDone(c)
      PROVE  IInv'
    BY <1>8, SettleKeeps DEF SettleDone, InRun
<1>9. ASSUME NEW c \in Calls, Consume(c)
      PROVE  IInv'
    <2>1. CoveredFor(c)
        BY <1>9 DEF Consume, IInv, Ordered
    <2> QED
        BY <1>9, <2>1, PushKeeps DEF Consume, At, InRun, Returned
<1>10. ASSUME NEW s \in Streams, Run(s)
       PROVE  IInv'
    BY <1>10, RunKeeps
<1>11. CASE UNCHANGED vars
    <2>1. UNCHANGED <<state, runner, producer, at, ran, recorded>> /\ Flows
        BY <1>11, StandsStill DEF vars, once, device
    <2>2. Ordered' /\ Taken'
        BY <2>1, OrderedKeeps, TakenKeeps
    <2>3. TypeOK'
        BY <2>1, TypeKeeps DEF IInv, TypeOK, At, InRun
    <2> QED
        BY <2>2, <2>3 DEF IInv
<1> QED
    BY <1>1, <1>2, <1>3, <1>4, <1>5, <1>6, <1>7, <1>8, <1>9, <1>10, <1>11 DEF Next, Execute

LEMMA Start ==
    ASSUME Init
    PROVE  IInv
<1>1. TypeOK
    BY OnceAssumption DEF Init, TypeOK, Returned
<1>2. Taken
    BY DEF Init, Taken, RunsOnce, InRun
<1>3. Ordered
    <2>1. recorded = {} /\ used = {} /\ \A st \in Streams : queue[st] = <<>>
        BY DEF Init
    <2>2. \A st \in Streams : QueueOrdered(worked, queue[st])
        BY <2>1 DEF QueueOrdered
    <2>3. \A c \in Calls : at[c] \notin {"record", "settle", "ok"}
        BY DEF Init
    <2>4. \A o \in Ops : state[o] = "Done" => producer[o] = "none" /\ o \in worked
        BY DEF Init
    <2> QED
        BY <2>1, <2>2, <2>3, <2>4 DEF Ordered, UseAfterWork
<1> QED
    BY <1>1, <1>2, <1>3 DEF IInv

-----------------------------------------------------------------------------
(* Theorems.                                                                  *)

LEMMA Invariance == Spec => []IInv
BY Start, StepKeeps, PTL DEF Spec

\* Every variable keeps its type, and a call inside run, settle_done or the
\* guard that settles on unwinding belongs to the thread Running names.
THEOREM TypeCorrect == Spec => []TypeOK
BY Invariance, PTL DEF IInv

\* Of any number of concurrent or nested executions of the clones of an
\* operation, one takes it out of Pending and runs it.
THEOREM OperationRunsOnce == Spec => []RunsOnce
<1>1. IInv => RunsOnce
    BY DEF IInv, Taken
<1> QED
    BY <1>1, Invariance, PTL

\* Producer::join and the event recorded before the value is stored order every
\* consumer's work after the producer's, on any stream.
THEOREM ConsumersFollowProducer == Spec => []UseAfterWork
<1>1. IInv => UseAfterWork
    BY DEF IInv, Ordered
<1> QED
    BY <1>1, Invariance, PTL

\* Done and Failed are final: neither a late panic guard nor another caller
\* settles an operation again.
THEOREM OutcomeIsFinal == Spec => OutcomeFinal
<1>1. ASSUME IInv, [Next]_vars
      PROVE  [\A o \in Ops : state[o] \in {"Done", "Failed"} => state'[o] = state[o]]_vars
    <2> SUFFICES ASSUME NEW o \in Ops, state[o] \in {"Done", "Failed"}
                 PROVE  state'[o] = state[o]
        OBVIOUS
    <2>1. state \in [Ops -> {"Pending", "Running", "Done", "Failed"}]
        BY <1>1 DEF IInv, TypeOK
    <2>2. CASE UNCHANGED state
        BY <2>2
    <2>3. ASSUME NEW c \in Calls, NEW v, state[OpOf[c]] \in {"Pending", "Running"},
                 state' = [state EXCEPT ![OpOf[c]] = v]
          PROVE  state'[o] = state[o]
        BY <2>1, <2>3, OnceAssumption
    <2>4. ASSUME NEW c \in Calls, TakeOp(c)
          PROVE  state'[o] = state[o]
        BY <2>3, <2>4 DEF TakeOp, Takes
    <2>5. ASSUME NEW c \in Calls, RunFails(c) \/ RunPanics(c) \/ SettleDone(c)
          PROVE  state'[o] = state[o]
        <3>1. at[c] \in InRun
            BY <2>5 DEF RunFails, RunPanics, SettleDone, InRun
        <3>2. state[OpOf[c]] = "Running"
            BY <1>1, <3>1 DEF IInv, TypeOK, InRun
        <3>3. PICK v : state' = [state EXCEPT ![OpOf[c]] = v]
            BY <2>5 DEF RunFails, RunPanics, SettleDone, Settle
        <3> QED
            BY <2>3, <3>2, <3>3
    <2>6. CASE UNCHANGED vars
        BY <2>2, <2>6 DEF vars, once
    <2>7. ASSUME NEW c \in Calls, Call(c) \/ Reenter(c) \/ Wait(c) \/ SpuriousWakeup(c)
                \/ GetsError(c) \/ JoinFails(c) \/ GetsValue(c) \/ RunWork(c) \/ RecordEvent(c)
                \/ Consume(c)
          PROVE  UNCHANGED state
        BY <2>7 DEF Call, Reenter, Wait, SpuriousWakeup, GetsError, JoinFails, GetsValue, RunWork,
                    RecordEvent, Consume, once
    <2>8. ASSUME NEW s \in Streams, Run(s)
          PROVE  UNCHANGED state
        BY <2>8 DEF Run, once
    <2> QED
        BY <1>1, <2>2, <2>4, <2>5, <2>6, <2>7, <2>8 DEF Next, Execute
<1> QED
    BY <1>1, Invariance, PTL DEF Spec, OutcomeFinal
=============================================================================
