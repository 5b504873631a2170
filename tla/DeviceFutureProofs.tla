------------------------ MODULE DeviceFutureProofs ------------------------
(***************************************************************************)
(* Proofs about DeviceFuture: for any futures, streams and contexts, however *)
(* polls, drops, faults, captures and completions interleave, nothing the    *)
(* device may still use is given up, no completion leaves its task asleep,   *)
(* and no result leaks unreported unless the caller was told of the fault.   *)
(***************************************************************************)
EXTENDS DeviceFuture, TLAPS

Item(kind, f) == [kind |-> kind, fut |-> f]
Has(q, e) == \E i \in 1..Len(q) : q[i] = e

\* f's work is ahead of the device, as InFlight says.
WorkIn(f) == Has(queue[StreamOf[f]], Item("work", f))
\* So is the flag write or the callback that announces f's completion.
FlagIn(f) == Has(queue[StreamOf[f]], Item("flag", f))
HostIn(f) == Has(queue[StreamOf[f]], Item("host", f))

-----------------------------------------------------------------------------
(* The inductive invariant.                                                   *)

\* A future's items are on its own stream, its work before what announces its
\* completion.
HomeIn(q, st) == \A i \in 1..Len(q) : StreamOf[q[i].fut] = st
WorkFirst(q) == \A i, j \in 1..Len(q), f \in Futures :
    q[i] = Item("work", f) /\ q[j] \in {Item("flag", f), Item("host", f)} => i < j
QueueInv == \A st \in Streams : HomeIn(queue[st], st) /\ WorkFirst(queue[st])

\* The future has not registered for its completion.
Unregistered(f) == state[f] = "Idle" /\ at[f] \in {"out", "lock", "execute", "spin", "register"}
\* Its operation has not run.
Unexecuted(f) == state[f] = "Idle" /\ at[f] \in {"out", "lock", "execute"}

\* Completion is announced once the future registered, when its work is over.
Announced(f) ==
    /\ Unregistered(f) =>
          /\ ~complete[f] /\ f \notin executed /\ f \notin waking /\ phase[f] = "new"
          /\ ~FlagIn(f) /\ ~HostIn(f)
    /\ complete[f] \/ f \in executed => ~WorkIn(f)

\* What the operation stored and registered stays while its work is in flight.
Kept(f) ==
    /\ Unexecuted(f) => result[f] = "none" /\ owners[f] = "none"
    /\ WorkIn(f) => result[f] \notin {"delivered", "dropped"} /\ owners[f] # "released"

\* A future between polls, or about to return Pending, has its task's waker
\* registered or its task told to poll.
Awake(f) ==
    /\ at[f] \in {"execute", "spin", "register"} => waker[f] = "current"
    /\ at[f] \in {"out", "recheck"} /\ state[f] = "Executing" =>
          notified[f] \/ waker[f] = "current"
    /\ at[f] = "out" /\ state[f] = "Executing" /\ complete[f] =>
          notified[f] \/ (waker[f] = "current" /\ (f \in waking \/ HostIn(f)))

\* A leak without a report follows a fault that was handed out, and a future
\* whose fault was handed out is Complete for good.
Told(f) ==
    /\ fault_delivered[f] => state[f] = "Complete" /\ ready[f] = "fault"
    /\ result[f] = "leaked" => fault_delivered[f]

FutureInv(f) == Announced(f) /\ Kept(f) /\ Awake(f) /\ Told(f)

IInv == TypeOK /\ QueueInv /\ \A f \in Futures : FutureInv(f)

-----------------------------------------------------------------------------
(* Queues.                                                                    *)

LEMMA ItemType ==
    /\ \A kind \in {"work", "flag", "host"}, f \in Futures :
          Item(kind, f) \in Items /\ Item(kind, f).kind = kind /\ Item(kind, f).fut = f
    /\ \A e \in Items : /\ e.kind \in {"work", "flag", "host"} /\ e.fut \in Futures
                         /\ e = Item(e.kind, e.fut)
BY DEF Item, Items

LEMMA AppendItem ==
    ASSUME NEW q \in Seq(Items), NEW e \in Items
    PROVE  /\ Append(q, e) \in Seq(Items)
           /\ Len(Append(q, e)) = Len(q) + 1 /\ Len(q) \in Nat
           /\ \A i \in 1..Len(q) : Append(q, e)[i] = q[i]
           /\ Append(q, e)[Len(q) + 1] = e
OBVIOUS

LEMMA TailItem ==
    ASSUME NEW q \in Seq(Items), q # <<>>
    PROVE  /\ Tail(q) \in Seq(Items) /\ Head(q) \in Items /\ Head(q) = q[1]
           /\ Len(Tail(q)) = Len(q) - 1 /\ Len(q) \in Nat \ {0}
           /\ \A i \in 1..Len(Tail(q)) : Tail(q)[i] = q[i + 1]
OBVIOUS

LEMMA HasAppend ==
    ASSUME NEW q \in Seq(Items), NEW e \in Items, NEW x
    PROVE  Has(Append(q, e), x) <=> Has(q, x) \/ x = e
<1>1. ASSUME Has(Append(q, e), x)
      PROVE  Has(q, x) \/ x = e
    <2>1. PICK i \in 1..(Len(q) + 1) : Append(q, e)[i] = x
        BY <1>1, AppendItem DEF Has
    <2>2. i \in 1..Len(q) \/ i = Len(q) + 1
        BY AppendItem
    <2> QED
        BY <2>1, <2>2, AppendItem DEF Has
<1>2. ASSUME Has(q, x)
      PROVE  Has(Append(q, e), x)
    <2>1. PICK i \in 1..Len(q) : q[i] = x
        BY <1>2 DEF Has
    <2>2. i \in 1..Len(Append(q, e))
        BY AppendItem
    <2> QED
        BY <2>1, <2>2, AppendItem DEF Has
<1>3. Has(Append(q, e), e)
    <2>1. Len(q) + 1 \in 1..Len(Append(q, e))
        BY AppendItem
    <2> QED
        BY <2>1, AppendItem DEF Has
<1> QED
    BY <1>1, <1>2, <1>3

LEMMA HasTail ==
    ASSUME NEW q \in Seq(Items), q # <<>>, NEW x
    PROVE  /\ Has(Tail(q), x) => Has(q, x)
           /\ Has(q, x) => Has(Tail(q), x) \/ x = Head(q)
<1>1. ASSUME Has(Tail(q), x)
      PROVE  Has(q, x)
    <2>1. PICK i \in 1..Len(Tail(q)) : Tail(q)[i] = x
        BY <1>1 DEF Has
    <2>2. i + 1 \in 1..Len(q) /\ q[i + 1] = x
        BY <2>1, TailItem
    <2> QED
        BY <2>2 DEF Has
<1>2. ASSUME Has(q, x), x # Head(q)
      PROVE  Has(Tail(q), x)
    <2>1. PICK i \in 1..Len(q) : q[i] = x
        BY <1>2 DEF Has
    <2>2. i # 1
        BY <1>2, <2>1, TailItem
    <2>3. i - 1 \in 1..Len(Tail(q)) /\ (i - 1) + 1 = i
        BY <2>2, TailItem
    <2>4. Tail(q)[i - 1] = x
        BY <2>1, <2>3, TailItem
    <2> QED
        BY <2>3, <2>4 DEF Has
<1> QED
    BY <1>1, <1>2

LEMMA OrderAppend ==
    ASSUME NEW q \in Seq(Items), NEW e \in Items, NEW st, HomeIn(q, st), WorkFirst(q),
           StreamOf[e.fut] = st,
           e.kind = "work" => ~Has(q, Item("flag", e.fut)) /\ ~Has(q, Item("host", e.fut))
    PROVE  HomeIn(Append(q, e), st) /\ WorkFirst(Append(q, e))
<1> DEFINE r == Append(q, e)
<1>1. Len(r) = Len(q) + 1 /\ r[Len(q) + 1] = e /\ Len(q) \in Nat
      /\ \A i \in 1..Len(q) : r[i] = q[i]
    BY AppendItem
<1> HIDE DEF r
<1>2. \A i \in 1..Len(r) : i \in 1..Len(q) \/ i = Len(q) + 1
    BY <1>1
<1>3. HomeIn(r, st)
    BY <1>1, <1>2 DEF HomeIn
<1>4. ASSUME NEW i \in 1..Len(r), NEW j \in 1..Len(r), NEW f \in Futures,
             r[i] = Item("work", f), r[j] \in {Item("flag", f), Item("host", f)}
      PROVE  i < j
    <2>1. CASE i \in 1..Len(q) /\ j \in 1..Len(q)
        <3>1. q[i] = Item("work", f) /\ q[j] \in {Item("flag", f), Item("host", f)}
            BY <1>1, <1>4, <2>1
        <3> QED
            BY <2>1, <3>1 DEF WorkFirst
    <2>2. CASE i = Len(q) + 1
        <3>1. e = Item("work", f) /\ e.kind = "work" /\ e.fut = f
            BY <1>1, <1>4, <2>2, ItemType
        <3>2. j \in 1..Len(q)
            BY <1>1, <1>2, <1>4, <3>1 DEF Item
        <3> QED
            BY <1>1, <1>4, <3>1, <3>2 DEF Has
    <2>3. CASE i \in 1..Len(q) /\ j = Len(q) + 1
        BY <1>1, <2>3
    <2> QED
        BY <1>2, <2>1, <2>2, <2>3
<1> QED
    BY <1>3, <1>4 DEF WorkFirst, r

LEMMA OrderTail ==
    ASSUME NEW q \in Seq(Items), q # <<>>, NEW st, HomeIn(q, st), WorkFirst(q)
    PROVE  HomeIn(Tail(q), st) /\ WorkFirst(Tail(q))
<1> DEFINE r == Tail(q)
<1>1. \A i \in 1..Len(r) : i + 1 \in 1..Len(q) /\ r[i] = q[i + 1]
    BY TailItem
<1> HIDE DEF r
<1>2. HomeIn(r, st)
    BY <1>1 DEF HomeIn
<1>3. ASSUME NEW i \in 1..Len(r), NEW j \in 1..Len(r), NEW f \in Futures,
             r[i] = Item("work", f), r[j] \in {Item("flag", f), Item("host", f)}
      PROVE  i < j
    <2>1. i + 1 < j + 1
        BY <1>1, <1>3 DEF WorkFirst
    <2> QED
        BY <2>1
<1> QED
    BY <1>2, <1>3 DEF WorkFirst, r

\* A stream that has reached what announces f's completion is past f's work.
LEMMA AnnouncedLast ==
    ASSUME NEW q \in Seq(Items), q # <<>>, WorkFirst(q), NEW f \in Futures,
           Head(q) \in {Item("flag", f), Item("host", f)}
    PROVE  ~Has(q, Item("work", f))
<1> SUFFICES ASSUME NEW i \in 1..Len(q), q[i] = Item("work", f)
             PROVE  FALSE
    BY DEF Has
<1>1. 1 \in 1..Len(q) /\ q[1] \in {Item("flag", f), Item("host", f)}
    BY TailItem
<1>2. i < 1
    BY <1>1 DEF WorkFirst
<1> QED
    BY <1>2

-----------------------------------------------------------------------------
(* What a step does to the queues, as far as one future can tell.             *)

QueueType == queue \in [Streams -> Seq(Items)]
\* Nothing of g was enqueued or executed.
Same(g) ==
    /\ WorkIn(g)' <=> WorkIn(g)
    /\ FlagIn(g)' <=> FlagIn(g)
    /\ HostIn(g)' <=> HostIn(g)

LEMMA InFlightIsWorkIn ==
    ASSUME QueueType, NEW f \in Futures
    PROVE  InFlight(f) <=> WorkIn(f)
<1>1. queue[StreamOf[f]] \in Seq(Items)
    BY FutureAssumption DEF QueueType
<1>2. DOMAIN queue[StreamOf[f]] = 1..Len(queue[StreamOf[f]])
    BY <1>1
<1> QED
    BY <1>2 DEF InFlight, WorkIn, Has, Item

LEMMA QueueStill ==
    ASSUME QueueType, QueueInv, UNCHANGED queue
    PROVE  QueueType' /\ QueueInv' /\ \A g \in Futures : Same(g)
BY DEF QueueType, QueueInv, Same, WorkIn, FlagIn, HostIn

LEMMA EnqueueStep ==
    ASSUME QueueType, QueueInv, NEW f \in Futures, NEW kind \in {"work", "flag", "host"},
           Enqueue(f, kind), kind = "work" => ~FlagIn(f) /\ ~HostIn(f)
    PROVE  /\ QueueType' /\ QueueInv' /\ \A g \in Futures \ {f} : Same(g)
           /\ WorkIn(f)' <=> WorkIn(f) \/ kind = "work"
           /\ FlagIn(f)' <=> FlagIn(f) \/ kind = "flag"
           /\ HostIn(f)' <=> HostIn(f) \/ kind = "host"
<1> DEFINE e == Item(kind, f)
           s == StreamOf[f]
           q == queue[s]
<1>1. e \in Items /\ e.kind = kind /\ e.fut = f
    BY ItemType
<1>2. s \in Streams /\ queue \in [Streams -> Seq(Items)] /\ q \in Seq(Items)
    BY FutureAssumption DEF QueueType
<1>3. queue' = [queue EXCEPT ![s] = Append(q, e)]
    BY DEF Enqueue, Item
<1>4. HomeIn(q, s) /\ WorkFirst(q)
    BY <1>2 DEF QueueInv
<1>5. kind = "work" => ~Has(q, Item("flag", f)) /\ ~Has(q, Item("host", f))
    BY DEF FlagIn, HostIn
<1>6. s = StreamOf[f]
    OBVIOUS
<1> HIDE DEF e, s, q
<1>7. queue'[s] = Append(q, e) /\ \A st \in Streams : st # s => queue'[st] = queue[st]
    BY <1>2, <1>3
<1>8. Append(q, e) \in Seq(Items)
    BY <1>1, <1>2, AppendItem
<1>9. QueueType'
    BY <1>2, <1>3, <1>8 DEF QueueType
<1>10. HomeIn(Append(q, e), s) /\ WorkFirst(Append(q, e))
    BY <1>1, <1>2, <1>4, <1>5, <1>6, OrderAppend
<1>11. QueueInv'
    BY <1>7, <1>10 DEF QueueInv
<1>12. ASSUME NEW g \in Futures, NEW k \in {"work", "flag", "host"}
       PROVE  Has(queue'[StreamOf[g]], Item(k, g)) <=>
                  Has(queue[StreamOf[g]], Item(k, g)) \/ (g = f /\ k = kind)
    <2>1. (Item(k, g) = e) <=> (g = f /\ k = kind)
        BY <1>1, ItemType DEF e
    <2>2. CASE StreamOf[g] = s
        <3>1. Has(queue'[s], Item(k, g)) <=> Has(q, Item(k, g)) \/ Item(k, g) = e
            BY <1>1, <1>2, <1>7, HasAppend
        <3> QED
            BY <2>1, <2>2, <3>1 DEF q
    <2>3. CASE StreamOf[g] # s
        <3>1. StreamOf[g] \in Streams /\ g # f
            BY <1>6, <2>3, FutureAssumption
        <3> QED
            BY <1>7, <2>3, <3>1
    <2> QED
        BY <2>2, <2>3
<1>13. \A g \in Futures \ {f} : Same(g)
    BY <1>12, Zenon DEF Same, WorkIn, FlagIn, HostIn
<1>14. /\ WorkIn(f)' <=> WorkIn(f) \/ kind = "work"
       /\ FlagIn(f)' <=> FlagIn(f) \/ kind = "flag"
       /\ HostIn(f)' <=> HostIn(f) \/ kind = "host"
    BY <1>12 DEF WorkIn, FlagIn, HostIn
<1> QED
    BY <1>9, <1>11, <1>13, <1>14

LEMMA HeadStep ==
    ASSUME QueueType, QueueInv, NEW s \in Streams, queue[s] # <<>>
    PROVE  LET e == Head(queue[s])
           IN  /\ e.fut \in Futures /\ e.kind \in {"work", "flag", "host"}
               /\ StreamOf[e.fut] = s
               /\ e.kind = "flag" => FlagIn(e.fut) /\ ~WorkIn(e.fut)
               /\ e.kind = "host" => HostIn(e.fut) /\ ~WorkIn(e.fut)
<1> DEFINE q == queue[s]
           e == Head(q)
           f == e.fut
<1>1. q \in Seq(Items) /\ q # <<>> /\ HomeIn(q, s) /\ WorkFirst(q)
    BY DEF QueueType, QueueInv
<1>2. e \in Items /\ e = q[1] /\ 1 \in 1..Len(q)
    BY <1>1, TailItem
<1>3. f \in Futures /\ e.kind \in {"work", "flag", "host"} /\ e = Item(e.kind, f)
    BY <1>2, ItemType
<1> HIDE DEF f, e
<1>4. StreamOf[f] = s
    BY <1>1, <1>2 DEF HomeIn, f
<1>5. Has(q, Item(e.kind, f))
    BY <1>2, <1>3 DEF Has
<1>6. e.kind \in {"flag", "host"} => ~Has(q, Item("work", f))
    BY <1>1, <1>3, AnnouncedLast DEF e
<1> QED
    BY <1>3, <1>4, <1>5, <1>6 DEF FlagIn, HostIn, WorkIn, f, e

LEMMA PopStep ==
    ASSUME QueueType, QueueInv, NEW s \in Streams, queue[s] # <<>>, Pop(s),
           NEW f, f = Head(queue[s]).fut
    PROVE  /\ QueueType' /\ QueueInv' /\ \A g \in Futures \ {f} : Same(g)
           /\ WorkIn(f)' => WorkIn(f)
           /\ FlagIn(f)' => FlagIn(f)
           /\ HostIn(f)' => HostIn(f)
           /\ Head(queue[s]).kind # "host" /\ HostIn(f) => HostIn(f)'
<1> DEFINE q == queue[s]
           e == Head(q)
<1>1. /\ queue \in [Streams -> Seq(Items)] /\ q \in Seq(Items) /\ q # <<>>
      /\ HomeIn(q, s) /\ WorkFirst(q) /\ queue' = [queue EXCEPT ![s] = Tail(q)]
    BY DEF QueueType, QueueInv, Pop
<1>2. e \in Items /\ Tail(q) \in Seq(Items)
    BY <1>1, TailItem
<1>3. f \in Futures /\ e.kind \in {"work", "flag", "host"} /\ StreamOf[f] = s
    BY HeadStep
<1> HIDE DEF e
<1>4. queue'[s] = Tail(q) /\ \A st \in Streams : st # s => queue'[st] = queue[st]
    BY <1>1
<1>5. QueueType'
    BY <1>1, <1>2 DEF QueueType
<1>6. HomeIn(Tail(q), s) /\ WorkFirst(Tail(q))
    BY <1>1, OrderTail
<1> HIDE DEF q
<1>7. QueueInv'
    BY <1>4, <1>6 DEF QueueInv
<1>8. ASSUME NEW g \in Futures, NEW k \in {"work", "flag", "host"}
      PROVE  /\ Has(queue'[StreamOf[g]], Item(k, g)) => Has(queue[StreamOf[g]], Item(k, g))
             /\ Has(queue[StreamOf[g]], Item(k, g)) =>
                    Has(queue'[StreamOf[g]], Item(k, g)) \/ (g = f /\ k = e.kind)
    <2>1. Item(k, g) = e => g = f /\ k = e.kind
        BY ItemType DEF e, q
    <2>2. CASE StreamOf[g] = s
        <3>1. /\ Has(Tail(q), Item(k, g)) => Has(q, Item(k, g))
              /\ Has(q, Item(k, g)) => Has(Tail(q), Item(k, g)) \/ Item(k, g) = e
            BY <1>1, HasTail DEF e
        <3> QED
            BY <1>4, <2>1, <2>2, <3>1 DEF q
    <2>3. CASE StreamOf[g] # s
        BY <1>4, <2>3, FutureAssumption
    <2> QED
        BY <2>2, <2>3
<1>9. \A g \in Futures \ {f} : Same(g)
    BY <1>8, Zenon DEF Same, WorkIn, FlagIn, HostIn
<1>10. /\ WorkIn(f)' => WorkIn(f)
       /\ FlagIn(f)' => FlagIn(f)
       /\ HostIn(f)' => HostIn(f)
       /\ e.kind # "host" /\ HostIn(f) => HostIn(f)'
    BY <1>3, <1>8 DEF WorkIn, FlagIn, HostIn
<1> QED
    BY <1>5, <1>7, <1>9, <1>10 DEF e, q

-----------------------------------------------------------------------------
(* A step is about one future; the others keep what they had.                 *)

Only(F) == \A g \in Futures \ F :
    /\ Same(g)
    /\ state'[g] = state[g] /\ result'[g] = result[g]
    /\ fault_delivered'[g] = fault_delivered[g] /\ owners'[g] = owners[g]
    /\ waker'[g] = waker[g] /\ complete'[g] = complete[g]
    /\ at'[g] = at[g] /\ notified'[g] = notified[g] /\ ready'[g] = ready[g]
    /\ phase'[g] = phase[g]
    /\ (g \in executed') <=> (g \in executed)
    /\ (g \in waking') <=> (g \in waking)

LEMMA OthersKeep ==
    ASSUME NEW F, Only(F), NEW g \in Futures \ F, FutureInv(g)
    PROVE  FutureInv(g)'
BY DEF Only, Same, FutureInv, Announced, Unregistered, Unexecuted, Kept, Awake, Told

LEMMA StepOf ==
    ASSUME IInv, NEW F, Only(F), \A f \in F : FutureInv(f)', QueueInv', TypeOK'
    PROVE  IInv'
BY OthersKeep DEF IInv

LEMMA Typed ==
    ASSUME IInv
    PROVE  TypeOK /\ QueueType /\ QueueInv
BY DEF IInv, TypeOK, QueueType

\* A stream that is found idle is past all work.
LEMMA IdleIsDone ==
    ASSUME NEW f \in Futures, Health(StreamOf[f]) = "Idle"
    PROVE  ~WorkIn(f)
<1>1. queue[StreamOf[f]] = <<>>
    BY DEF Health
<1> QED
    BY <1>1 DEF WorkIn, Has

-----------------------------------------------------------------------------
(* poll.                                                                      *)

LEMMA PollKeeps ==
    ASSUME IInv, NEW f \in Futures, Poll(f)
    PROVE  IInv'
<1> USE DEF Poll, Goto, Set, Arm, future, stream, service
<1>1. QueueInv' /\ \A g \in Futures : Same(g)
    BY Typed, QueueStill
<1>2. TypeOK'
    BY Typed DEF TypeOK
<1>3. Only({f})
    BY Typed, <1>1 DEF Only, TypeOK
<1>4. FutureInv(f)'
    BY Typed, <1>1 DEF IInv, TypeOK, Same, FutureInv, Announced, Unregistered, Unexecuted,
                     Kept, Awake, Told
<1> QED
    BY <1>1, <1>2, <1>3, <1>4, StepOf

LEMMA PollFailedKeeps ==
    ASSUME IInv, NEW f \in Futures, PollFailed(f)
    PROVE  IInv'
<1> USE DEF PollFailed, ResolveError, Resolve, Goto, Set, stream, service
<1>1. QueueInv' /\ \A g \in Futures : Same(g)
    BY Typed, QueueStill
<1>2. TypeOK'
    BY Typed DEF TypeOK
<1>3. Only({f})
    BY Typed, <1>1 DEF Only, TypeOK
<1>4. FutureInv(f)'
    BY Typed, <1>1 DEF IInv, TypeOK, Same, FutureInv, Announced, Unregistered, Unexecuted,
                     Kept, Awake, Told
<1> QED
    BY <1>1, <1>2, <1>3, <1>4, StepOf

LEMMA LockHeldKeeps ==
    ASSUME IInv, NEW f \in Futures, LockHeld(f)
    PROVE  IInv'
<1> USE DEF LockHeld, ResolveError, Resolve, Goto, Set, stream, service
<1>1. QueueInv' /\ \A g \in Futures : Same(g)
    BY Typed, QueueStill
<1>2. TypeOK'
    BY Typed DEF TypeOK
<1>3. Only({f})
    BY Typed, <1>1 DEF Only, TypeOK
<1>4. FutureInv(f)'
    BY Typed, <1>1 DEF IInv, TypeOK, Same, FutureInv, Announced, Unregistered, Unexecuted,
                     Kept, Awake, Told
<1> QED
    BY <1>1, <1>2, <1>3, <1>4, StepOf

LEMMA RegisterWakerKeeps ==
    ASSUME IInv, NEW f \in Futures, RegisterWaker(f)
    PROVE  IInv'
<1> USE DEF RegisterWaker, Step, Goto, Set, future, stream, service
<1>1. QueueInv' /\ \A g \in Futures : Same(g)
    BY Typed, QueueStill
<1>2. TypeOK'
    BY Typed DEF TypeOK
<1>3. Only({f})
    BY Typed, <1>1 DEF Only, TypeOK
<1>4. FutureInv(f)'
    BY Typed, <1>1 DEF IInv, TypeOK, Same, FutureInv, Announced, Unregistered, Unexecuted,
                     Kept, Awake, Told
<1> QED
    BY <1>1, <1>2, <1>3, <1>4, StepOf

LEMMA SpinDoneKeeps ==
    ASSUME IInv, NEW f \in Futures, SpinDone(f)
    PROVE  IInv'
<1> USE DEF SpinDone, ResolveOk, Resolve, Goto, Set, stream, service
<1>1. QueueInv' /\ \A g \in Futures : Same(g)
    BY Typed, QueueStill
<1>2. TypeOK'
    BY Typed DEF TypeOK
<1>3. Only({f})
    BY Typed, <1>1 DEF Only, TypeOK
<1>4. FutureInv(f)'
    BY Typed, <1>1, IdleIsDone DEF IInv, TypeOK, Same, FutureInv, Announced, Unregistered, Unexecuted,
                     Kept, Awake, Told
<1> QED
    BY <1>1, <1>2, <1>3, <1>4, StepOf

LEMMA SpinFaultsKeeps ==
    ASSUME IInv, NEW f \in Futures, SpinFaults(f)
    PROVE  IInv'
<1> USE DEF SpinFaults, ResolveFault, Resolve, Goto, Set, stream, service
<1>1. QueueInv' /\ \A g \in Futures : Same(g)
    BY Typed, QueueStill
<1>2. TypeOK'
    BY Typed DEF TypeOK
<1>3. Only({f})
    BY Typed, <1>1 DEF Only, TypeOK
<1>4. FutureInv(f)'
    BY Typed, <1>1 DEF IInv, TypeOK, Same, FutureInv, Announced, Unregistered, Unexecuted,
                     Kept, Awake, Told
<1> QED
    BY <1>1, <1>2, <1>3, <1>4, StepOf

LEMMA SpinGivesUpKeeps ==
    ASSUME IInv, NEW f \in Futures, SpinGivesUp(f)
    PROVE  IInv'
<1> USE DEF SpinGivesUp, Step, Goto, Set, future, stream, service
<1>1. QueueInv' /\ \A g \in Futures : Same(g)
    BY Typed, QueueStill
<1>2. TypeOK'
    BY Typed DEF TypeOK
<1>3. Only({f})
    BY Typed, <1>1 DEF Only, TypeOK
<1>4. FutureInv(f)'
    BY Typed, <1>1 DEF IInv, TypeOK, Same, FutureInv, Announced, Unregistered, Unexecuted,
                     Kept, Awake, Told
<1> QED
    BY <1>1, <1>2, <1>3, <1>4, StepOf

LEMMA RegisterFailsKeeps ==
    ASSUME IInv, NEW f \in Futures, RegisterFails(f)
    PROVE  IInv'
<1> USE DEF RegisterFails, ResolveError, Resolve, Goto, Set, stream, Reactor!Refuse,
           Reactor!Move
<1>1. QueueInv' /\ \A g \in Futures : Same(g)
    BY Typed, QueueStill
<1>2. TypeOK'
    BY Typed DEF TypeOK
<1>3. Only({f})
    BY Typed, <1>1 DEF Only, TypeOK
<1>4. FutureInv(f)'
    BY Typed, <1>1 DEF IInv, TypeOK, Same, FutureInv, Announced, Unregistered, Unexecuted,
                     Kept, Awake, Told
<1> QED
    BY <1>1, <1>2, <1>3, <1>4, StepOf

LEMMA LoadKeeps ==
    ASSUME IInv, NEW f \in Futures, Load(f)
    PROVE  IInv'
<1> USE DEF Load, ResolveOk, Resolve, Step, Goto, Set, future, stream, service
<1>1. QueueInv' /\ \A g \in Futures : Same(g)
    BY Typed, QueueStill
<1>2. TypeOK'
    <2>1. CASE complete[f] /\ ResolveOk(f)
        BY Typed, <2>1 DEF TypeOK
    <2>2. CASE Step(f, "probe") /\ UNCHANGED future
        BY Typed, <2>2 DEF TypeOK
    <2> QED
        BY <2>1, <2>2
<1>3. Only({f})
    BY Typed, <1>1 DEF Only, TypeOK
<1>4. FutureInv(f)'
    BY Typed, <1>1 DEF IInv, TypeOK, Same, FutureInv, Announced, Unregistered, Unexecuted,
                     Kept, Awake, Told
<1> QED
    BY <1>1, <1>2, <1>3, <1>4, StepOf

LEMMA ProbeKeeps ==
    ASSUME IInv, NEW f \in Futures, Probe(f)
    PROVE  IInv'
<1> USE DEF Probe, Undecided, ResolveOk, ResolveFault, Resolve, Step, Goto, Set, future, stream,
           service
<1>1. QueueInv' /\ \A g \in Futures : Same(g)
    BY Typed, QueueStill
<1>2. TypeOK'
    <2>1. CASE ResolveFault(f)
        BY Typed, <2>1 DEF TypeOK
    <2>2. CASE ResolveOk(f)
        BY Typed, <2>2 DEF TypeOK
    <2>3. CASE Step(f, "update_waker") /\ UNCHANGED future
        BY Typed, <2>3 DEF TypeOK
    <2> QED
        BY <2>1, <2>2, <2>3
<1>3. Only({f})
    BY Typed, <1>1 DEF Only, TypeOK
<1>4. FutureInv(f)'
    BY Typed, <1>1, IdleIsDone DEF IInv, TypeOK, Same, FutureInv, Announced, Unregistered, Unexecuted,
                     Kept, Awake, Told
<1> QED
    BY <1>1, <1>2, <1>3, <1>4, StepOf

LEMMA UpdateWakerKeeps ==
    ASSUME IInv, NEW f \in Futures, UpdateWaker(f)
    PROVE  IInv'
<1> USE DEF UpdateWaker, Step, Goto, Set, future, stream, service
<1>1. QueueInv' /\ \A g \in Futures : Same(g)
    BY Typed, QueueStill
<1>2. TypeOK'
    BY Typed DEF TypeOK
<1>3. Only({f})
    BY Typed, <1>1 DEF Only, TypeOK
<1>4. FutureInv(f)'
    BY Typed, <1>1 DEF IInv, TypeOK, Same, FutureInv, Announced, Unregistered, Unexecuted,
                     Kept, Awake, Told
<1> QED
    BY <1>1, <1>2, <1>3, <1>4, StepOf

LEMMA RecheckKeeps ==
    ASSUME IInv, NEW f \in Futures, Recheck(f)
    PROVE  IInv'
<1> USE DEF Recheck, Done, ResolveOk, Resolve, Pending, Goto, Set, future, stream, service
<1>1. QueueInv' /\ \A g \in Futures : Same(g)
    BY Typed, QueueStill
<1>2. TypeOK'
    <2>1. CASE ResolveOk(f)
        BY Typed, <2>1 DEF TypeOK
    <2>2. CASE Pending(f) /\ UNCHANGED future
        BY Typed, <2>2 DEF TypeOK
    <2> QED
        BY <2>1, <2>2
<1>3. Only({f})
    BY Typed, <1>1 DEF Only, TypeOK
<1>4. FutureInv(f)'
    BY Typed, <1>1 DEF IInv, TypeOK, Same, FutureInv, Announced, Unregistered, Unexecuted,
                     Kept, Awake, Told
<1> QED
    BY <1>1, <1>2, <1>3, <1>4, StepOf

-----------------------------------------------------------------------------
(* drop.                                                                      *)

LEMMA DropKeeps ==
    ASSUME IInv, NEW f \in Futures, Drop(f)
    PROVE  IInv'
<1> USE DEF Drop, Goto, Set, future, stream, service
<1>1. QueueInv' /\ \A g \in Futures : Same(g)
    BY Typed, QueueStill
<1>2. TypeOK'
    BY Typed DEF TypeOK
<1>3. Only({f})
    BY Typed, <1>1 DEF Only, TypeOK
<1>4. FutureInv(f)'
    BY Typed, <1>1 DEF IInv, TypeOK, Same, FutureInv, Announced, Unregistered, Unexecuted,
                     Kept, Awake, Told
<1> QED
    BY <1>1, <1>2, <1>3, <1>4, StepOf

LEMMA SettleKeeps ==
    ASSUME IInv, NEW f \in Futures, NEW proved \in BOOLEAN, Settle(f, proved),
           proved => Health(StreamOf[f]) = "Idle"
    PROVE  IInv'
<1> USE DEF Settle, LeakKind, Step, Goto, Set, stream, service
<1>1. QueueInv' /\ \A g \in Futures : Same(g)
    BY Typed, QueueStill
<1>2. TypeOK'
    <2>1. CASE at[f] \in {"drop_result", "wait_result"}
        <3>1. PICK v \in {"dropped", "leaked", "leak_reported"} :
                 /\ result' = Set(result, f, v) /\ at' = Set(at, f, "drop_owners")
                 /\ UNCHANGED <<owners, notified, ready, moves>>
            BY <2>1
        <3>2. UNCHANGED <<state, fault_delivered, waker, complete, stream, service, waking>>
            OBVIOUS
        <3> HIDE DEF Settle
        <3> QED
            BY Typed, <2>1, <3>1, <3>2 DEF TypeOK
    <2>2. CASE at[f] \in {"drop_owners", "wait_owners"}
        <3>1. PICK v \in {"released", "leaked"} :
                 /\ owners' = Set(owners, f, v) /\ at' = Set(at, f, "gone")
                 /\ UNCHANGED <<result, notified, ready, moves>>
            BY <2>2
        <3>2. UNCHANGED <<state, fault_delivered, waker, complete, stream, service, waking>>
            OBVIOUS
        <3> HIDE DEF Settle
        <3> QED
            BY Typed, <2>2, <3>1, <3>2 DEF TypeOK
    <2> QED
        BY <2>1, <2>2
<1>3. Only({f})
    BY Typed, <1>1 DEF Only, TypeOK
<1>4. FutureInv(f)'
    BY Typed, <1>1, IdleIsDone DEF IInv, TypeOK, Same, FutureInv, Announced, Unregistered,
                     Unexecuted, Kept, Awake, Told
<1> QED
    BY <1>1, <1>2, <1>3, <1>4, StepOf

LEMMA DropBusyKeeps ==
    ASSUME IInv, NEW f \in Futures, DropBusy(f)
    PROVE  IInv'
<1> USE DEF DropBusy, InHand, Step, Goto, Set, future, stream, service
<1>1. QueueInv' /\ \A g \in Futures : Same(g)
    BY Typed, QueueStill
<1>2. TypeOK'
    BY Typed DEF TypeOK
<1>3. Only({f})
    BY Typed, <1>1 DEF Only, TypeOK
<1>4. FutureInv(f)'
    BY Typed, <1>1 DEF IInv, TypeOK, Same, FutureInv, Announced, Unregistered, Unexecuted,
                     Kept, Awake, Told
<1> QED
    BY <1>1, <1>2, <1>3, <1>4, StepOf

LEMMA DropNothingKeeps ==
    ASSUME IInv, NEW f \in Futures, DropNothing(f)
    PROVE  IInv'
<1> USE DEF DropNothing, Step, Goto, Set, future, stream, service
<1>1. QueueInv' /\ \A g \in Futures : Same(g)
    BY Typed, QueueStill
<1>2. TypeOK'
    BY Typed DEF TypeOK
<1>3. Only({f})
    BY Typed, <1>1 DEF Only, TypeOK
<1>4. FutureInv(f)'
    BY Typed, <1>1 DEF IInv, TypeOK, Same, FutureInv, Announced, Unregistered, Unexecuted,
                     Kept, Awake, Told
<1> QED
    BY <1>1, <1>2, <1>3, <1>4, StepOf

-----------------------------------------------------------------------------
(* The surroundings.                                                          *)

LEMMA MoveTaskKeeps ==
    ASSUME IInv, NEW f \in Futures, MoveTask(f)
    PROVE  IInv'
<1> USE DEF MoveTask, Set, future, stream, service
<1>1. QueueInv' /\ \A g \in Futures : Same(g)
    BY Typed, QueueStill
<1>2. TypeOK'
    BY Typed, FutureAssumption DEF TypeOK
<1>3. Only({f})
    BY Typed, <1>1 DEF Only, TypeOK
<1>4. FutureInv(f)'
    BY Typed, <1>1 DEF IInv, TypeOK, Same, FutureInv, Announced, Unregistered, Unexecuted,
                     Kept, Awake, Told
<1> QED
    BY <1>1, <1>2, <1>3, <1>4, StepOf

LEMMA ReactorSignalKeeps ==
    ASSUME IInv, NEW f \in Futures, ReactorSignal(f)
    PROVE  IInv'
<1> USE DEF ReactorSignal, Reactor!Signal, Reactor!Move, Set, future, task, stream
<1>1. QueueInv' /\ \A g \in Futures : Same(g)
    BY Typed, QueueStill
<1>2. TypeOK'
    BY Typed DEF TypeOK
<1>3. Only({f})
    BY Typed, <1>1 DEF Only, TypeOK
<1>4. FutureInv(f)'
    BY Typed, <1>1 DEF IInv, TypeOK, Same, FutureInv, Announced, Unregistered, Unexecuted,
                     Kept, Awake, Told
<1> QED
    BY <1>1, <1>2, <1>3, <1>4, StepOf

LEMMA SignalWakesKeeps ==
    ASSUME IInv, NEW f \in Futures, SignalWakes(f)
    PROVE  IInv'
<1> USE DEF SignalWakes, Wake, Set, future, stream, service
<1>1. QueueInv' /\ \A g \in Futures : Same(g)
    BY Typed, QueueStill
<1>2. TypeOK'
    BY Typed DEF TypeOK
<1>3. Only({f})
    BY Typed, <1>1 DEF Only, TypeOK
<1>4. FutureInv(f)'
    BY Typed, <1>1 DEF IInv, TypeOK, Same, FutureInv, Announced, Unregistered, Unexecuted,
                     Kept, Awake, Told
<1> QED
    BY <1>1, <1>2, <1>3, <1>4, StepOf

LEMMA ReactorWakeKeeps ==
    ASSUME IInv, NEW f \in Futures, ReactorWake(f)
    PROVE  IInv'
<1> USE DEF ReactorWake, Reactor!Wake, Reactor!Move, Wake, Set, future, stream
<1>1. QueueInv' /\ \A g \in Futures : Same(g)
    BY Typed, QueueStill
<1>2. TypeOK'
    BY Typed DEF TypeOK
<1>3. Only({f})
    BY Typed, <1>1 DEF Only, TypeOK
<1>4. FutureInv(f)'
    BY Typed, <1>1 DEF IInv, TypeOK, Same, FutureInv, Announced, Unregistered, Unexecuted,
                     Kept, Awake, Told
<1> QED
    BY <1>1, <1>2, <1>3, <1>4, StepOf

-----------------------------------------------------------------------------
(* Steps that enqueue.                                                        *)

LEMMA ExecuteKeeps ==
    ASSUME IInv, NEW f \in Futures, Execute(f)
    PROVE  IInv'
<1> USE DEF Execute, Step, Goto, Set, service
<1>1. Unregistered(f) /\ ~FlagIn(f) /\ ~HostIn(f) /\ Enqueue(f, "work")
    BY Typed DEF IInv, TypeOK, FutureInv, Announced, Unregistered
<1>2. /\ QueueType' /\ QueueInv' /\ \A g \in Futures \ {f} : Same(g)
      /\ WorkIn(f)' <=> WorkIn(f) \/ "work" = "work"
      /\ FlagIn(f)' <=> FlagIn(f) \/ "work" = "flag"
      /\ HostIn(f)' <=> HostIn(f) \/ "work" = "host"
    BY <1>1, Typed, EnqueueStep
<1>3. TypeOK'
    BY Typed, <1>2 DEF TypeOK, QueueType
<1>4. Only({f})
    BY Typed, <1>2 DEF Only, TypeOK
<1>5. FutureInv(f)'
    BY Typed, <1>1, <1>2 DEF IInv, TypeOK, FutureInv, Announced, Unregistered,
                     Unexecuted, Kept, Awake, Told
<1> QED
    BY <1>2, <1>3, <1>4, <1>5, StepOf

LEMMA ExecuteFailsKeeps ==
    ASSUME IInv, NEW f \in Futures, ExecuteFails(f)
    PROVE  IInv'
<1> USE DEF ExecuteFails, Resolve, Goto, Set, service
<1>1. Unregistered(f) /\ ~FlagIn(f) /\ ~HostIn(f)
    BY Typed DEF IInv, TypeOK, FutureInv, Announced, Unregistered
<1>2. /\ QueueType' /\ QueueInv' /\ \A g \in Futures \ {f} : Same(g)
      /\ \/ UNCHANGED owners /\ (WorkIn(f)' <=> WorkIn(f))
         \/ owners' = Set(owners, f, "held")
    <2>1. CASE UNCHANGED <<owners, queue>>
        BY <2>1, Typed, QueueStill DEF Same
    <2>2. CASE owners' = Set(owners, f, "held") /\ Enqueue(f, "work")
        BY <1>1, <2>2, Typed, EnqueueStep
    <2> QED
        BY <2>1, <2>2
<1>3. TypeOK'
    <2>1. owners' \in [Futures -> {"none", "held", "released", "leaked"}]
        BY Typed, <1>2 DEF TypeOK
    <2>2. /\ state' = [state EXCEPT ![f] = "Complete"] /\ ready' = [ready EXCEPT ![f] = "error"]
          /\ at' = [at EXCEPT ![f] = "out"]
          /\ UNCHANGED <<result, fault_delivered, waker, complete, notified, moves, capture,
                         phase, executed, dead, waking>>
        OBVIOUS
    <2> HIDE DEF ExecuteFails
    <2> QED
        BY Typed, <1>2, <2>1, <2>2 DEF TypeOK, QueueType
<1>4. Only({f})
    BY Typed, <1>2 DEF Only, TypeOK
<1>5. FutureInv(f)'
    BY Typed, <1>1, <1>2 DEF IInv, TypeOK, FutureInv, Announced, Unregistered,
                     Unexecuted, Kept, Awake, Told
<1> QED
    BY <1>2, <1>3, <1>4, <1>5, StepOf

LEMMA RegisterCallbackKeeps ==
    ASSUME IInv, NEW f \in Futures, RegisterCallback(f)
    PROVE  IInv'
<1> USE DEF RegisterCallback, Registered, Pending, Goto, Set, Reactor!Move, Reactor!Submit
<1>1. Unregistered(f) /\ ~FlagIn(f) /\ ~HostIn(f) /\ Enqueue(f, "flag")
    BY Typed DEF IInv, TypeOK, FutureInv, Announced, Unregistered
<1>2. /\ QueueType' /\ QueueInv' /\ \A g \in Futures \ {f} : Same(g)
      /\ WorkIn(f)' <=> WorkIn(f) \/ "flag" = "work"
      /\ FlagIn(f)' <=> FlagIn(f) \/ "flag" = "flag"
      /\ HostIn(f)' <=> HostIn(f) \/ "flag" = "host"
    BY <1>1, Typed, EnqueueStep
<1>3. TypeOK'
    BY Typed, <1>2 DEF TypeOK, QueueType
<1>4. Only({f})
    BY Typed, <1>2 DEF Only, TypeOK
<1>5. FutureInv(f)'
    BY Typed, <1>1, <1>2 DEF IInv, TypeOK, FutureInv, Announced, Unregistered,
                     Unexecuted, Kept, Awake, Told
<1> QED
    BY <1>2, <1>3, <1>4, <1>5, StepOf

LEMMA HostCallbackKeeps ==
    ASSUME IInv, NEW f \in Futures, HostCallback(f)
    PROVE  IInv'
<1> USE DEF HostCallback, Registered, Pending, Goto, Set, Reactor!Move, Reactor!Refuse
<1>1. Unregistered(f) /\ ~FlagIn(f) /\ ~HostIn(f) /\ Enqueue(f, "host")
    BY Typed DEF IInv, TypeOK, FutureInv, Announced, Unregistered
<1>2. /\ QueueType' /\ QueueInv' /\ \A g \in Futures \ {f} : Same(g)
      /\ WorkIn(f)' <=> WorkIn(f) \/ "host" = "work"
      /\ FlagIn(f)' <=> FlagIn(f) \/ "host" = "flag"
      /\ HostIn(f)' <=> HostIn(f) \/ "host" = "host"
    BY <1>1, Typed, EnqueueStep
<1>3. TypeOK'
    BY Typed, <1>2 DEF TypeOK, QueueType
<1>4. Only({f})
    BY Typed, <1>2 DEF Only, TypeOK
<1>5. FutureInv(f)'
    BY Typed, <1>1, <1>2 DEF IInv, TypeOK, FutureInv, Announced, Unregistered,
                     Unexecuted, Kept, Awake, Told
<1> QED
    BY <1>2, <1>3, <1>4, <1>5, StepOf

-----------------------------------------------------------------------------
(* Steps of the streams and of the device.                                    *)

LEMMA RunWorkKeeps ==
    ASSUME IInv, NEW s \in Streams, RunWork(s)
    PROVE  IInv'
<1> USE DEF RunWork, AtHead, future, task, service
<1>1. PICK f \in Futures : f = Head(queue[s]).fut /\ Head(queue[s]).kind = "work"
    BY Typed, HeadStep
<1>2. /\ QueueType' /\ QueueInv' /\ \A g \in Futures \ {f} : Same(g)
      /\ WorkIn(f)' => WorkIn(f)
      /\ FlagIn(f)' => FlagIn(f)
      /\ HostIn(f)' <=> HostIn(f)
    BY <1>1, Typed, PopStep
<1>3. TypeOK'
    BY Typed, <1>2 DEF TypeOK, QueueType
<1>4. Only({f})
    BY <1>2 DEF Only
<1>5. FutureInv(f)'
    BY Typed, <1>2 DEF IInv, TypeOK, FutureInv, Announced, Unregistered,
                     Unexecuted, Kept, Awake, Told
<1> QED
    BY <1>2, <1>3, <1>4, <1>5, StepOf

LEMMA RunFlagKeeps ==
    ASSUME IInv, NEW s \in Streams, RunFlag(s)
    PROVE  IInv'
<1> USE DEF RunFlag, AtHead, future, task, Reactor!Execute
<1>1. PICK f \in Futures : f = Head(queue[s]).fut /\ Head(queue[s]).kind = "flag"
                          /\ FlagIn(f) /\ ~WorkIn(f)
    BY Typed, HeadStep
<1>2. /\ QueueType' /\ QueueInv' /\ \A g \in Futures \ {f} : Same(g)
      /\ WorkIn(f)' => WorkIn(f)
      /\ HostIn(f)' <=> HostIn(f)
    BY <1>1, Typed, PopStep
<1>3. executed' = executed \cup {f} /\ UNCHANGED <<phase, dead>>
    BY <1>1
<1>4. TypeOK'
    BY Typed, <1>2, <1>3 DEF TypeOK, QueueType
<1>5. Only({f})
    BY <1>2, <1>3 DEF Only
<1>6. FutureInv(f)'
    BY Typed, <1>1, <1>2, <1>3 DEF IInv, TypeOK, FutureInv, Announced, Unregistered,
                     Unexecuted, Kept, Awake, Told
<1> QED
    BY <1>2, <1>4, <1>5, <1>6, StepOf

LEMMA RunHostKeeps ==
    ASSUME IInv, NEW s \in Streams, RunHost(s)
    PROVE  IInv'
<1> USE DEF RunHost, AtHead, future, task, stream, service, Set
<1>1. PICK f \in Futures : f = Head(queue[s]).fut /\ Head(queue[s]).kind = "host"
                          /\ HostIn(f) /\ ~WorkIn(f)
    BY Typed, HeadStep
<1>2. QueueInv' /\ \A g \in Futures : Same(g)
    BY Typed, QueueStill
<1>3. complete' = [complete EXCEPT ![f] = TRUE]
      /\ UNCHANGED <<state, result, fault_delivered, owners, waker, at, notified, ready, moves,
                     queue, capture, phase, executed, dead, waking>>
    BY <1>1
<1>4. TypeOK'
    <2> HIDE DEF RunHost
    <2> QED
        BY Typed, <1>3 DEF TypeOK
<1>5. Only({f})
    <2> HIDE DEF RunHost
    <2> QED
        BY Typed, <1>2, <1>3 DEF Only, TypeOK
<1>6. FutureInv(f)'
    BY Typed, <1>1, <1>2, <1>3 DEF IInv, TypeOK, Same, FutureInv, Announced, Unregistered,
                     Unexecuted, Kept, Awake, Told
<1> QED
    BY <1>2, <1>4, <1>5, <1>6, StepOf

LEMMA HostWakesKeeps ==
    ASSUME IInv, NEW s \in Streams, HostWakes(s)
    PROVE  IInv'
<1> USE DEF HostWakes, AtHead, future, service, Set
<1>1. PICK f \in Futures : f = Head(queue[s]).fut /\ HostIn(f)
    BY Typed, HeadStep
<1>2. /\ QueueType' /\ QueueInv' /\ \A g \in Futures \ {f} : Same(g)
      /\ WorkIn(f)' => WorkIn(f)
      /\ FlagIn(f)' => FlagIn(f)
      /\ HostIn(f)' => HostIn(f)
    BY <1>1, Typed, PopStep
<1>3. /\ waker' = [waker EXCEPT ![f] = "none"]
      /\ notified' = IF waker[f] = "current" THEN [notified EXCEPT ![f] = TRUE] ELSE notified
      /\ UNCHANGED <<at, ready, moves>>
    BY <1>1 DEF Wake
<1>4. TypeOK'
    BY Typed, <1>2, <1>3 DEF TypeOK, QueueType
<1>5. Only({f})
    BY Typed, <1>2, <1>3 DEF Only, TypeOK
<1>6. FutureInv(f)'
    BY Typed, <1>1, <1>2, <1>3 DEF IInv, TypeOK, FutureInv, Announced, Unregistered,
                     Unexecuted, Kept, Awake, Told
<1> QED
    BY <1>2, <1>4, <1>5, <1>6, StepOf

\* A fault, a capture's beginning or end, and a step of nobody.
LEMMA SurroundingsKeep ==
    ASSUME IInv, UNCHANGED <<future, waker, complete, task, queue, phase, executed, waking>>,
           capture' \in [Streams -> {"not_yet", "capturing", "ended"}], dead' \subseteq Contexts
    PROVE  IInv'
<1> USE DEF future, task
<1>1. QueueInv' /\ \A g \in Futures : Same(g)
    BY Typed, QueueStill
<1>2. TypeOK'
    BY Typed DEF TypeOK
<1>3. Only({})
    BY <1>1 DEF Only
<1> QED
    BY <1>1, <1>2, <1>3, StepOf

-----------------------------------------------------------------------------
(* Every step, and the first state.                                           *)

LEMMA FutureStepKeeps ==
    ASSUME IInv, NEW f \in Futures, Poll(f) \/ Drop(f) \/ FutureStep(f)
    PROVE  IInv'
<1>1. CASE Poll(f) \/ PollFailed(f) \/ LockHeld(f) \/ RegisterWaker(f) \/ SpinGivesUp(f)
    BY <1>1, PollKeeps, PollFailedKeeps, LockHeldKeeps, RegisterWakerKeeps, SpinGivesUpKeeps
<1>2. CASE Execute(f) \/ ExecuteFails(f) \/ SpinDone(f) \/ SpinFaults(f)
    BY <1>2, ExecuteKeeps, ExecuteFailsKeeps, SpinDoneKeeps, SpinFaultsKeeps
<1>3. CASE RegisterCallback(f) \/ HostCallback(f) \/ RegisterFails(f)
    BY <1>3, RegisterCallbackKeeps, HostCallbackKeeps, RegisterFailsKeeps
<1>4. CASE Load(f) \/ Probe(f) \/ UpdateWaker(f) \/ Recheck(f)
    BY <1>4, LoadKeeps, ProbeKeeps, UpdateWakerKeeps, RecheckKeeps
<1>5. CASE Drop(f) \/ DropBusy(f) \/ DropNothing(f)
    BY <1>5, DropKeeps, DropBusyKeeps, DropNothingKeeps
<1>6. CASE DropProbe(f) \/ DropSynchronized(f) \/ DropBindFails(f)
    <2>1. PICK proved \in BOOLEAN :
             Settle(f, proved) /\ (proved => Health(StreamOf[f]) = "Idle")
        BY <1>6 DEF DropProbe, DropSynchronized, DropBindFails, Proves
    <2> QED
        BY <2>1, SettleKeeps
<1> QED
    BY <1>1, <1>2, <1>3, <1>4, <1>5, <1>6 DEF FutureStep, PollStep, DropStep

LEMMA StepKeeps ==
    ASSUME IInv, [Next]_vars
    PROVE  IInv'
<1>1. ASSUME NEW f \in Futures, Poll(f) \/ Drop(f) \/ FutureStep(f)
      PROVE  IInv'
    BY <1>1, FutureStepKeeps
<1>2. ASSUME NEW f \in Futures, MoveTask(f) \/ ReactorSignal(f) \/ SignalWakes(f) \/ ReactorWake(f)
      PROVE  IInv'
    BY <1>2, MoveTaskKeeps, ReactorSignalKeeps, SignalWakesKeeps, ReactorWakeKeeps
<1>3. ASSUME NEW s \in Streams, RunWork(s) \/ RunFlag(s) \/ RunHost(s) \/ HostWakes(s)
      PROVE  IInv'
    BY <1>3, RunWorkKeeps, RunFlagKeeps, RunHostKeeps, HostWakesKeeps
<1>4. ASSUME NEW s \in Streams, BeginCapture(s) \/ EndCapture(s)
      PROVE  IInv'
    <2>1. UNCHANGED <<future, waker, complete, task, queue, phase, executed, dead, waking>>
        BY <1>4 DEF BeginCapture, EndCapture, service
    <2>2. capture' \in [Streams -> {"not_yet", "capturing", "ended"}]
        BY <1>4, Typed DEF BeginCapture, EndCapture, Set, TypeOK
    <2>3. dead' \subseteq Contexts
        BY <2>1, Typed DEF TypeOK
    <2> QED
        BY <2>1, <2>2, <2>3, SurroundingsKeep
<1>5. ASSUME NEW c \in Contexts, Fault(c)
      PROVE  IInv'
    <2>1. UNCHANGED <<future, waker, complete, task, queue, capture, phase, executed, waking>>
        BY <1>5 DEF Fault, Reactor!Fault, stream
    <2>2. capture' \in [Streams -> {"not_yet", "capturing", "ended"}]
        BY <2>1, Typed DEF TypeOK
    <2>3. dead' \subseteq Contexts
        BY <1>5, Typed DEF Fault, Reactor!Fault, TypeOK
    <2> QED
        BY <2>1, <2>2, <2>3, SurroundingsKeep
<1>6. CASE UNCHANGED vars
    <2>1. UNCHANGED <<future, waker, complete, task, queue, capture, phase, executed, dead, waking>>
        BY <1>6 DEF vars, stream, service
    <2>2. /\ capture' \in [Streams -> {"not_yet", "capturing", "ended"}]
          /\ dead' \subseteq Contexts
        BY <2>1, Typed DEF TypeOK
    <2> QED
        BY <2>1, <2>2, SurroundingsKeep
<1> QED
    BY <1>1, <1>2, <1>3, <1>4, <1>5, <1>6 DEF Next, Surroundings

LEMMA Start ==
    ASSUME Init
    PROVE  IInv
<1>1. \A st \in Streams : queue[st] = <<>>
    BY DEF Init
<1>2. TypeOK
    BY FutureAssumption DEF Init, TypeOK, Reactor!Init
<1>3. QueueInv
    BY <1>1 DEF QueueInv, HomeIn, WorkFirst
<1>4. ASSUME NEW f \in Futures
      PROVE  ~WorkIn(f) /\ ~FlagIn(f) /\ ~HostIn(f)
    BY <1>1, FutureAssumption DEF WorkIn, FlagIn, HostIn, Has
<1>5. ASSUME NEW f \in Futures
      PROVE  FutureInv(f)
    BY <1>4 DEF Init, Reactor!Init, FutureInv, Announced, Unregistered, Unexecuted, Kept, Awake, Told
<1> QED
    BY <1>2, <1>3, <1>5 DEF IInv

-----------------------------------------------------------------------------
(* Theorems.                                                                  *)

LEMMA Invariance == Spec => []IInv
BY Start, StepKeeps, PTL DEF Spec

\* Every variable keeps its type and a poll runs the arm of the state it found:
\* the operation is executed by the first poll only.
THEOREM TypeCorrect == Spec => []TypeOK
BY Invariance, PTL DEF IInv

\* Nothing the device may still use is handed out or freed: poll and drop give
\* up a result, its owners and its access leases only on a proof that the
\* stream is past the work.
THEOREM InFlightIsKept == Spec => []KeptWhileInFlight
<1>1. IInv => KeptWhileInFlight
    BY Typed, InFlightIsWorkIn DEF IInv, FutureInv, Kept, KeptWhileInFlight
<1> QED
    BY <1>1, Invariance, PTL

\* A future that returned Pending although its completion was stored has its
\* task told to poll, or its task's waker about to be called, for any number
\* of moves between tasks.
THEOREM WakeupIsNotLost == Spec => []NoLostWakeup
<1>1. IInv => NoLostWakeup
    <2> SUFFICES ASSUME IInv, NEW f \in Futures, at[f] = "out", state[f] = "Executing", complete[f],
                        ~notified[f]
                 PROVE  waker[f] = "current" /\ (f \in waking \/ \E i \in DOMAIN queue[StreamOf[f]] :
                            queue[StreamOf[f]][i] = [kind |-> "host", fut |-> f])
        BY DEF NoLostWakeup
    <2>1. waker[f] = "current" /\ (f \in waking \/ HostIn(f))
        BY DEF IInv, FutureInv, Awake
    <2>2. DOMAIN queue[StreamOf[f]] = 1..Len(queue[StreamOf[f]])
        BY Typed, FutureAssumption DEF QueueType
    <2> QED
        BY <2>1, <2>2 DEF HostIn, Has, Item
<1> QED
    BY <1>1, Invariance, PTL

\* leak_result reports every leak, except after poll handed the stream's fault
\* to the caller.
THEOREM QuietLeakFollowsFault == Spec => []QuietLeakAfterFault
<1>1. IInv => QuietLeakAfterFault
    BY DEF IInv, FutureInv, Told, QuietLeakAfterFault
<1> QED
    BY <1>1, Invariance, PTL
=============================================================================
