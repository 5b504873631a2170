---------------------------- MODULE ExecuteOnce ----------------------------
(***************************************************************************)
(* ExecuteOnce of cuda-async (device_operation.rs): the memoized operations *)
(* behind SharedDeviceOp and unzip.  Many callers, on threads and streams   *)
(* of their own, execute clones of one operation; the first runs it, the    *)
(* others wait, and a caller on another stream is ordered after the work.   *)
(*                                                                          *)
(* A call may be made by the closure of another call while that one runs    *)
(* (ParentOf), on the same thread.  A step is one critical section of the   *)
(* state's mutex or one driver call.                                        *)
(***************************************************************************)
EXTENDS Integers, Sequences, FiniteSets

CONSTANTS
    Ops,        \* the memoized operations
    Calls,      \* the executions of their clones or halves
    Threads, Streams,
    OpOf, ThreadOf, StreamOf,
    ParentOf    \* the call that makes this one; itself if none does

ASSUME OnceAssumption ==
    /\ OpOf \in [Calls -> Ops]
    /\ ThreadOf \in [Calls -> Threads]
    /\ StreamOf \in [Calls -> Streams]
    /\ "none" \notin Streams
    /\ Threads # {}
    /\ ParentOf \in [Calls -> Calls]
    /\ \A c \in Calls : ThreadOf[ParentOf[c]] = ThreadOf[c]

VARIABLES
    state,      \* OnceState of each operation
    runner,     \* Running { thread }
    producer,   \* the stream of Done's Producer
    at,         \* where each call is in execute
    ran,        \* calls that took an operation and ran it (history)
    queue,      \* what is enqueued on each stream and not executed
    recorded,   \* operations whose completion event has happened
    worked,     \* operations whose work has executed
    used        \* calls whose use of the value has executed

once == <<state, runner, producer>>
device == <<queue, recorded, worked, used>>
vars == <<once, at, ran, device>>

\* shared(value) starts out Done, with no work behind it.
Init ==
    /\ state \in [Ops -> {"Pending", "Done"}]
    /\ runner = [o \in Ops |-> CHOOSE t \in Threads : TRUE]
    /\ producer = [o \in Ops |-> "none"]
    /\ at = [c \in Calls |-> "idle"]
    /\ ran = {}
    /\ queue = [st \in Streams |-> <<>>]
    /\ recorded = {}
    /\ worked = {o \in Ops : state[o] = "Done"}
    /\ used = {}

Returned == {"ok", "consumed", "error", "reentered", "refused", "panicked"}
Goto(c, l) == at' = [at EXCEPT ![c] = l]
Push(c, kind) ==
    queue' = [queue EXCEPT ![StreamOf[c]] = Append(@, [kind |-> kind, call |-> c])]
IsRoot(c) == ParentOf[c] = c
Children(c) == {d \in Calls : ParentOf[d] = c /\ d # c}

-----------------------------------------------------------------------------
(* execute *)

\* A thread makes one call at a time; a closure makes its calls in turn.
Call(c) ==
    /\ at[c] = "idle"
    /\ IF IsRoot(c)
       THEN \A d \in Calls : ThreadOf[d] = ThreadOf[c] => at[d] \in {"idle"} \cup Returned
       ELSE /\ at[ParentOf[c]] = "run"
            /\ \A d \in Children(ParentOf[c]) : at[d] \in {"idle"} \cup Returned
    /\ Goto(c, "lock")
    /\ UNCHANGED <<once, ran, device>>

MutantTakes(c) == at[c] = "lock" /\ state[OpOf[c]] \in {"Pending", "Running"}
Takes(c) == at[c] = "lock" /\ state[OpOf[c]] = "Pending"

\* The first to see Pending takes the operation and runs it unlocked.
TakeOp(c) ==
    /\ Takes(c)
    /\ state' = [state EXCEPT ![OpOf[c]] = "Running"]
    /\ runner' = [runner EXCEPT ![OpOf[c]] = ThreadOf[c]]
    /\ Goto(c, "run")
    /\ ran' = ran \cup {c}
    /\ UNCHANGED <<producer, device>>

Running(c) == at[c] = "lock" /\ state[OpOf[c]] = "Running"

OwnThread(c) == runner[OpOf[c]] = ThreadOf[c]

Reenter(c) ==
    /\ Running(c) /\ OwnThread(c)
    /\ Goto(c, "reentered")
    /\ UNCHANGED <<once, ran, device>>

Wait(c) ==
    /\ Running(c) /\ ~OwnThread(c)
    /\ Goto(c, "wait")
    /\ UNCHANGED <<once, ran, device>>

SpuriousWakeup(c) ==
    /\ at[c] = "wait"
    /\ Goto(c, "lock")
    /\ UNCHANGED <<once, ran, device>>

GetsError(c) ==
    /\ at[c] = "lock" /\ state[OpOf[c]] = "Failed"
    /\ Goto(c, "error")
    /\ UNCHANGED <<once, ran, device>>

\* Producer::join: a consumer on another stream waits for the event.
MutantJoins(c) == FALSE
Joins(c) == producer[OpOf[c]] \notin {"none", StreamOf[c]}

\* The value is handed out: the caller may enqueue work that uses it.
MutantGetsValue(c) ==   \* SettleOnUnwind is still armed when execute returns
    /\ at[c] = "lock" /\ state[OpOf[c]] = "Done"
    /\ state' = [state EXCEPT ![OpOf[c]] = IF c \in ran THEN "Failed" ELSE @]
    /\ Goto(c, "ok")
    /\ UNCHANGED <<runner, producer, ran, device>>
GetsValue(c) ==
    /\ at[c] = "lock" /\ state[OpOf[c]] = "Done"
    /\ IF Joins(c) THEN Push(c, "wait") ELSE UNCHANGED queue
    /\ Goto(c, "ok")
    /\ UNCHANGED <<once, ran, recorded, worked, used>>

JoinFails(c) ==
    /\ at[c] = "lock" /\ state[OpOf[c]] = "Done" /\ Joins(c)
    /\ Goto(c, "refused")
    /\ UNCHANGED <<once, ran, device>>

(* The first caller, running the operation *)

Idle(c) == \A d \in Children(c) : at[d] \in {"idle"} \cup Returned

RunWork(c) ==
    /\ at[c] = "run" /\ Idle(c)
    /\ Push(c, "work")
    /\ Goto(c, "record")
    /\ UNCHANGED <<once, ran, recorded, worked, used>>

\* notify_all, with the state stored under the lock.
MutantNotified(o) == at
Notified(o) == [d \in Calls |-> IF at[d] = "wait" /\ OpOf[d] = o THEN "lock" ELSE at[d]]

Settle(c, outcome, l) ==
    /\ state' = [state EXCEPT ![OpOf[c]] = outcome]
    /\ at' = [Notified(OpOf[c]) EXCEPT ![c] = l]
    /\ UNCHANGED <<runner, ran>>

\* run fails, before or after it enqueued work.
RunFails(c) ==
    /\ at[c] \in {"run", "record"} /\ Idle(c)
    /\ Settle(c, "Failed", "lock")
    /\ UNCHANGED <<producer, device>>

\* It unwinds: SettleOnUnwind.
RunPanics(c) ==
    /\ at[c] \in {"run", "record"} /\ Idle(c)
    /\ Settle(c, "Failed", "panicked")
    /\ UNCHANGED <<producer, device>>

\* settle_done: record the event, then store the value.
MutantRecordEvent(c) ==
    /\ at[c] = "record"
    /\ Goto(c, "settle")
    /\ UNCHANGED <<once, ran, device>>
RecordEvent(c) ==
    /\ at[c] = "record"
    /\ Push(c, "event")
    /\ Goto(c, "settle")
    /\ UNCHANGED <<once, ran, recorded, worked, used>>

SettleDone(c) ==
    /\ at[c] = "settle"
    /\ Settle(c, "Done", "lock")
    /\ producer' = [producer EXCEPT ![OpOf[c]] = StreamOf[c]]
    /\ UNCHANGED device

Execute(c) ==
    \/ TakeOp(c) \/ Reenter(c) \/ Wait(c) \/ GetsError(c) \/ GetsValue(c)
    \/ JoinFails(c) \/ RunWork(c) \/ RunFails(c) \/ RunPanics(c)
    \/ RecordEvent(c) \/ SettleDone(c)

-----------------------------------------------------------------------------
(* The caller's use of the value and the device *)

Consume(c) ==
    /\ at[c] = "ok"
    /\ Push(c, "use")
    /\ Goto(c, "consumed")
    /\ UNCHANGED <<once, ran, recorded, worked, used>>

\* The stream executes its head; a wait is passed once the event happened.
Run(st) ==
    /\ queue[st] # <<>>
    /\ LET item == Head(queue[st]) IN
        /\ item.kind = "wait" => OpOf[item.call] \in recorded
        /\ recorded' = recorded \cup (IF item.kind = "event" THEN {OpOf[item.call]} ELSE {})
        /\ worked' = worked \cup (IF item.kind = "work" THEN {OpOf[item.call]} ELSE {})
        /\ used' = used \cup (IF item.kind = "use" THEN {item.call} ELSE {})
    /\ queue' = [queue EXCEPT ![st] = Tail(@)]
    /\ UNCHANGED <<once, at, ran>>

Next ==
    \/ \E c \in Calls : Call(c) \/ Execute(c) \/ SpuriousWakeup(c) \/ Consume(c)
    \/ \E st \in Streams : Run(st)

Spec == Init /\ [][Next]_vars

\* Threads and streams make progress; nobody need call or consume.
Fairness ==
    /\ \A c \in Calls : WF_vars(Execute(c))
    /\ \A st \in Streams : WF_vars(Run(st))

LiveSpec == Spec /\ Fairness

-----------------------------------------------------------------------------
(* Properties *)

\* The state is well typed; Running names the thread of the call that runs
\* the operation.
TypeOK ==
    /\ state \in [Ops -> {"Pending", "Running", "Done", "Failed"}]
    /\ runner \in [Ops -> Threads]
    /\ producer \in [Ops -> Streams \cup {"none"}]
    /\ at \in [Calls -> {"idle", "lock", "wait", "run", "record", "settle"}
                            \cup Returned]
    /\ ran \subseteq Calls
    /\ queue \in [Streams -> Seq([kind : {"work", "event", "wait", "use"}, call : Calls])]
    /\ recorded \subseteq Ops /\ worked \subseteq Ops /\ used \subseteq Calls
    /\ \A c \in Calls : at[c] \in {"run", "record", "settle"} =>
           state[OpOf[c]] = "Running" /\ runner[OpOf[c]] = ThreadOf[c]

\* However many callers there are, one of them runs the operation.
RunsOnce == \A c, d \in ran : OpOf[c] = OpOf[d] => c = d

\* A consumer's use of the value executes after the work that produces it,
\* on whichever stream it was enqueued.
UseAfterWork == \A c \in used : OpOf[c] \in worked

\* The outcome all clones see is final.
OutcomeFinal ==
    [][\A o \in Ops : state[o] \in {"Done", "Failed"} => state'[o] = state[o]]_vars

\* "a bug reported as an error, not a deadlock" (OnceState::Running): every
\* call returns, one that re-enters its own operation included.
CallsReturn == \A c \in Calls : (at[c] = "lock") ~> (at[c] \in Returned)

\* No stream waits for ever for an event: whatever is enqueued is executed.
StreamsDrain == \A st \in Streams : []<>(queue[st] = <<>>)
=============================================================================
