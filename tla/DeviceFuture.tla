---------------------------- MODULE DeviceFuture ----------------------------
(***************************************************************************)
(* DeviceFuture of cuda-async (device_future.rs): poll, drop and the        *)
(* submission whose owners it releases, composed with the completion        *)
(* service (module Completion, which Reactor implements).                   *)
(*                                                                          *)
(* A future is polled by the task that owns it, one poll at a time.  A step *)
(* of a poll or of a drop is one access to state another thread can see:    *)
(* the AtomicWaker, the `complete` flag, a driver call.  The stream runs    *)
(* its items in order; the reactor or a host callback signals completion.   *)
(*                                                                          *)
(* Assumed of the surroundings: a future is not polled after it is ready    *)
(* (poll panics), and nothing is submitted to a stream while a graph is     *)
(* being recorded on it.                                                    *)
(***************************************************************************)
EXTENDS Integers, Sequences, FiniteSets

CONSTANTS
    Futures,      \* the DeviceFutures; each registers at most once
    Streams, Contexts, StreamOf, ContextOf,
    Capturable,   \* streams some thread records a graph on, once
    MaxMoves      \* bound: how often futures change hands between tasks

ASSUME FutureAssumption ==
    /\ StreamOf \in [Futures -> Streams]
    /\ ContextOf \in [Streams -> Contexts]
    /\ Capturable \subseteq Streams
    /\ MaxMoves \in Nat

VARIABLES
    (* the fields of the future *)
    state,      \* DeviceFutureState
    result,     \* the stored output and what became of it
    fault_delivered,
    owners,     \* the submission's owners and access leases
    (* its shared StreamCallbackState *)
    waker,      \* whose waker is registered: the owning task's, a stale one
    complete,
    (* the task that owns it *)
    at,         \* where poll or drop is; "out" between polls
    notified,   \* the owning task has been woken and will poll
    ready,      \* what poll resolved to
    moves,      \* moves between tasks so far
    (* the streams *)
    queue,      \* items not yet executed: work, a flag write, a callback
    capture,
    (* the completion service *)
    phase, executed, dead,
    waking      \* futures whose `signal` has yet to call the waker

future == <<state, result, fault_delivered, owners>>
task == <<at, notified, ready, moves>>
stream == <<queue, capture>>
service == <<phase, executed, dead>>
vars == <<future, waker, complete, task, stream, service, waking>>

Reactor == INSTANCE Completion WITH Regs <- Futures

\* A future starts out scheduled, or already failed (its scheduling did).
Init ==
    /\ state \in [Futures -> {"Idle", "Failed"}]
    /\ result = [f \in Futures |-> "none"]
    /\ fault_delivered = [f \in Futures |-> FALSE]
    /\ owners = [f \in Futures |-> "none"]
    /\ waker = [f \in Futures |-> "none"]
    /\ complete = [f \in Futures |-> FALSE]
    /\ at = [f \in Futures |-> "out"]
    /\ notified = [f \in Futures |-> TRUE]
    /\ ready = [f \in Futures |-> "no"]
    /\ moves = 0
    /\ queue = [st \in Streams |-> <<>>]
    /\ capture = [st \in Streams |-> IF st \in Capturable THEN "not_yet" ELSE "ended"]
    /\ Reactor!Init
    /\ waking = {}

Set(x, f, v) == [x EXCEPT ![f] = v]
Goto(f, l) == at' = Set(at, f, l)
Enqueue(f, kind) ==
    queue' = [queue EXCEPT ![StreamOf[f]] = Append(@, [kind |-> kind, fut |-> f])]

\* probe_stream
Health(st) ==
    IF capture[st] = "capturing" THEN "Capturing"
    ELSE IF ContextOf[st] \in dead THEN "Faulted"
    ELSE IF queue[st] = <<>> THEN "Idle" ELSE "Busy"

-----------------------------------------------------------------------------
(* poll *)

\* poll returns Ready(v); the future is Complete.
Resolve(f, v) ==
    /\ state' = Set(state, f, "Complete")
    /\ ready' = Set(ready, f, v)
    /\ Goto(f, "out")
    /\ UNCHANGED <<notified, moves>>

\* Ready(Err(e)) with the result, if any, still stored for the drop.
ResolveError(f, v) ==
    /\ Resolve(f, v)
    /\ UNCHANGED <<result, fault_delivered, owners>>

\* Ready(Err(fault)): the drop may then leak without a report.
ResolveFault(f) ==
    /\ Resolve(f, "fault")
    /\ fault_delivered' = Set(fault_delivered, f, TRUE)
    /\ UNCHANGED <<result, owners>>

\* take_completed_result: complete the submission, hand out the result.
ResolveOk(f) ==
    /\ Resolve(f, "ok")
    /\ owners' = Set(owners, f, "released")
    /\ result' = Set(result, f, "delivered")
    /\ UNCHANGED fault_delivered

Pending(f) == Goto(f, "out") /\ UNCHANGED <<notified, ready, moves>>
Step(f, l) == Goto(f, l) /\ UNCHANGED <<notified, ready, moves>>

Arm(f) == IF state[f] = "Idle" THEN "lock" ELSE "load"

\* An executor polls a task it was told to poll, or any task it pleases.
Poll(f) ==
    /\ at[f] = "out" /\ state[f] \in {"Idle", "Executing"}
    /\ Goto(f, Arm(f))
    /\ notified' = Set(notified, f, FALSE)
    /\ UNCHANGED <<future, waker, complete, ready, moves, stream, service,
                   waking>>

PollFailed(f) ==
    /\ at[f] = "out" /\ state[f] = "Failed"
    /\ ResolveError(f, "error")
    /\ UNCHANGED <<waker, complete, stream, service, waking>>

\* Another DeviceOp is executing on this thread.
LockHeld(f) ==
    /\ at[f] = "lock"
    /\ ResolveError(f, "error")
    /\ UNCHANGED <<waker, complete, stream, service, waking>>

RegisterWaker(f) ==
    /\ at[f] = "lock"
    /\ waker' = Set(waker, f, "current")
    /\ Step(f, "execute")
    /\ UNCHANGED <<future, complete, stream, service, waking>>

\* The operation registers its owners, then enqueues its work.
Execute(f) ==
    /\ at[f] = "execute" /\ capture[StreamOf[f]] # "capturing"
    /\ owners' = Set(owners, f, "held")
    /\ Enqueue(f, "work")
    /\ result' = Set(result, f, "stored")
    /\ Step(f, "spin")
    /\ UNCHANGED <<state, fault_delivered, waker, complete, capture, service,
                   waking>>

\* It fails before, or after part of its work was enqueued.
ExecuteFails(f) ==
    /\ at[f] = "execute" /\ capture[StreamOf[f]] # "capturing"
    /\ \/ UNCHANGED <<owners, queue>>
       \/ owners' = Set(owners, f, "held") /\ Enqueue(f, "work")
    /\ Resolve(f, "error")
    /\ UNCHANGED <<result, fault_delivered, waker, complete, capture, service,
                   waking>>

\* The inline spin sees the stream drained, or its fault, or gives up.
SpinDone(f) ==
    /\ at[f] = "spin" /\ Health(StreamOf[f]) = "Idle"
    /\ ResolveOk(f)
    /\ UNCHANGED <<waker, complete, stream, service, waking>>

SpinFaults(f) ==
    /\ at[f] = "spin" /\ Health(StreamOf[f]) = "Faulted"
    /\ ResolveFault(f)
    /\ UNCHANGED <<waker, complete, stream, service, waking>>

SpinGivesUp(f) ==
    /\ at[f] = "spin"
    /\ Step(f, "register")
    /\ UNCHANGED <<future, waker, complete, stream, service, waking>>

Registered(f) ==
    /\ state' = Set(state, f, "Executing")
    /\ Pending(f)
    /\ UNCHANGED <<result, fault_delivered, owners, waker, complete, capture,
                   waking>>

\* register_callback: the reactor accepts, ...
RegisterCallback(f) ==
    /\ at[f] = "register" /\ capture[StreamOf[f]] # "capturing"
    /\ Reactor!Submit(f)
    /\ Enqueue(f, "flag")
    /\ Registered(f)

\* ... or refuses (or CUDA_ASYNC_HOST_SYNC bypasses it) and the driver will
\* call back, ...
HostCallback(f) ==
    /\ at[f] = "register" /\ capture[StreamOf[f]] # "capturing"
    /\ Reactor!Refuse(f)
    /\ Enqueue(f, "host")
    /\ Registered(f)

\* ... or that fails too: with the stream's fault, if it has one.
RegisterFails(f) ==
    /\ at[f] = "register"
    /\ Reactor!Refuse(f)
    /\ ResolveError(f, IF ContextOf[StreamOf[f]] \in dead THEN "fault" ELSE "error")
    /\ UNCHANGED <<waker, complete, stream, waking>>

Load(f) ==
    /\ at[f] = "load"
    /\ \/ complete[f] /\ ResolveOk(f)
       \/ ~complete[f] /\ Step(f, "probe") /\ UNCHANGED future
    /\ UNCHANGED <<waker, complete, stream, service, waking>>

MutantUndecided(health) == health # "Idle"
Undecided(health) == health \in {"Busy", "Capturing"}

Probe(f) ==
    /\ at[f] = "probe"
    /\ LET health == Health(StreamOf[f]) IN
        \/ health = "Faulted" /\ ResolveFault(f)
        \/ health = "Idle" /\ ResolveOk(f)
        \/ Undecided(health) /\ Step(f, "update_waker") /\ UNCHANGED future
    /\ UNCHANGED <<waker, complete, stream, service, waking>>

UpdateWaker(f) ==
    /\ at[f] = "update_waker"
    /\ waker' = Set(waker, f, "current")
    /\ Step(f, "recheck")
    /\ UNCHANGED <<future, complete, stream, service, waking>>

MutantDone(f) == FALSE
Done(f) == complete[f]

Recheck(f) ==
    /\ at[f] = "recheck"
    /\ \/ Done(f) /\ ResolveOk(f)
       \/ ~Done(f) /\ Pending(f) /\ UNCHANGED future
    /\ UNCHANGED <<waker, complete, stream, service, waking>>

PollStep(f) ==
    \/ PollFailed(f) \/ LockHeld(f) \/ RegisterWaker(f) \/ Execute(f)
    \/ ExecuteFails(f) \/ SpinDone(f) \/ SpinFaults(f) \/ SpinGivesUp(f)
    \/ RegisterCallback(f) \/ HostCallback(f) \/ RegisterFails(f)
    \/ Load(f) \/ Probe(f) \/ UpdateWaker(f) \/ Recheck(f)

-----------------------------------------------------------------------------
(* drop: release_in_flight_result, then the submission's own drop *)

\* has_undelivered_submission
Undelivered(f) == state[f] \in {"Executing", "Complete"} /\ result[f] = "stored"

Drop(f) ==
    /\ at[f] = "out"
    /\ Goto(f, IF Undelivered(f) THEN "drop_result" ELSE "drop_owners")
    /\ UNCHANGED <<future, waker, complete, notified, ready, moves, stream,
                   service, waking>>

MutantLeakKind(f) == "leaked"
LeakKind(f) == IF fault_delivered[f] THEN "leaked" ELSE "leak_reported"

\* Whatever is being dropped is freed when the stream proved its work done,
\* and leaked when it did not.
Settle(f, proved) ==
    /\ \/ /\ at[f] \in {"drop_result", "wait_result"}
          /\ result' = Set(result, f, IF proved THEN "dropped" ELSE LeakKind(f))
          /\ Step(f, "drop_owners")
          /\ UNCHANGED owners
       \/ /\ at[f] \in {"drop_owners", "wait_owners"}
          /\ owners' = Set(owners, f, IF proved THEN "released" ELSE "leaked")
          /\ Step(f, "gone")
          /\ UNCHANGED result
    /\ UNCHANGED <<state, fault_delivered, waker, complete, stream, service,
                   waking>>

\* Something is left to drop at this stage.
InHand(f) == at[f] = "drop_result" \/ (at[f] = "drop_owners" /\ owners[f] = "held")

MutantProves(health) == health # "Busy"
Proves(health) == health = "Idle"

DropProbe(f) ==
    /\ InHand(f) /\ Health(StreamOf[f]) # "Busy"
    /\ Settle(f, Proves(Health(StreamOf[f])))

DropBindFails(f) == InHand(f) /\ Settle(f, FALSE)

DropBusy(f) ==
    /\ InHand(f) /\ Health(StreamOf[f]) = "Busy"
    /\ Step(f, IF at[f] = "drop_result" THEN "wait_result" ELSE "wait_owners")
    /\ UNCHANGED <<future, waker, complete, stream, service, waking>>

\* synchronize returns once the stream is drained, or with an error.
DropSynchronized(f) ==
    /\ at[f] \in {"wait_result", "wait_owners"}
    /\ Health(StreamOf[f]) # "Busy"
    /\ Settle(f, Proves(Health(StreamOf[f])))

\* A completed or empty submission has nothing to wait for.
DropNothing(f) ==
    /\ at[f] = "drop_owners" /\ owners[f] # "held"
    /\ Step(f, "gone")
    /\ UNCHANGED <<future, waker, complete, stream, service, waking>>

DropStep(f) ==
    \/ DropProbe(f) \/ DropBindFails(f) \/ DropBusy(f) \/ DropSynchronized(f)
    \/ DropNothing(f)

-----------------------------------------------------------------------------
(* The surroundings: tasks, completion service, device *)

\* Another task takes the future over and polls it (external).
MoveTask(f) ==
    /\ at[f] = "out" /\ ready[f] = "no" /\ moves < MaxMoves
    /\ waker' = Set(waker, f, IF waker[f] = "none" THEN "none" ELSE "stale")
    /\ notified' = Set(notified, f, TRUE)
    /\ moves' = moves + 1
    /\ UNCHANGED <<future, complete, at, ready, stream, service, waking>>

\* AtomicWaker::wake takes the waker; a stale one polls some other task.
Wake(f) ==
    /\ waker' = Set(waker, f, "none")
    /\ notified' = IF waker[f] = "current" THEN Set(notified, f, TRUE) ELSE notified
    /\ UNCHANGED <<at, ready, moves>>

\* The reactor signals an executed flag: store `complete`, then wake.
ReactorSignal(f) ==
    /\ Reactor!Signal(f)
    /\ complete' = Set(complete, f, TRUE)
    /\ waking' = waking \cup {f}
    /\ UNCHANGED <<future, waker, task, stream>>

SignalWakes(f) ==
    /\ f \in waking
    /\ Wake(f)
    /\ waking' = waking \ {f}
    /\ UNCHANGED <<future, complete, stream, service>>

\* The reactor found the stream faulted, so not capturing (WokenOnlyOnFault
\* of Reactor): it wakes and completes nothing.
ReactorWake(f) ==
    /\ Reactor!Wake(f) /\ Health(StreamOf[f]) = "Faulted"
    /\ Wake(f)
    /\ UNCHANGED <<future, complete, stream, waking>>

AtHead(st, kind) == queue[st] # <<>> /\ Head(queue[st]).kind = kind
Pop(st) == queue' = [queue EXCEPT ![st] = Tail(@)]

\* The device finishes the operation's work (external).
RunWork(st) ==
    /\ AtHead(st, "work") /\ ContextOf[st] \notin dead
    /\ Pop(st)
    /\ UNCHANGED <<future, waker, complete, task, capture, service, waking>>

RunFlag(st) ==
    /\ AtHead(st, "flag")
    /\ Reactor!Execute(Head(queue[st]).fut)
    /\ Pop(st)
    /\ UNCHANGED <<future, waker, complete, task, capture, waking>>

\* A driver thread runs the host callback: `signal`, in two steps.
RunHost(st) ==
    /\ AtHead(st, "host") /\ ContextOf[st] \notin dead
    /\ LET f == Head(queue[st]).fut IN
        /\ ~complete[f]
        /\ complete' = Set(complete, f, TRUE)
    /\ UNCHANGED <<future, waker, task, stream, service, waking>>

HostWakes(st) ==
    /\ AtHead(st, "host") /\ complete[Head(queue[st]).fut]
    /\ Wake(Head(queue[st]).fut)
    /\ Pop(st)
    /\ UNCHANGED <<future, complete, capture, service, waking>>

Fault(c) ==
    /\ c \notin dead
    /\ Reactor!Fault(c)
    /\ UNCHANGED <<future, waker, complete, task, stream, waking>>

BeginCapture(st) ==
    /\ capture[st] = "not_yet" /\ ContextOf[st] \notin dead
    /\ \A f \in Futures : StreamOf[f] = st => at[f] \notin {"spin", "register"}
    /\ capture' = Set(capture, st, "capturing")
    /\ UNCHANGED <<future, waker, complete, task, queue, service, waking>>

EndCapture(st) ==
    /\ capture[st] = "capturing"
    /\ capture' = Set(capture, st, "ended")
    /\ UNCHANGED <<future, waker, complete, task, queue, service, waking>>

FutureStep(f) == PollStep(f) \/ DropStep(f)

Surroundings ==
    \/ \E f \in Futures : \/ MoveTask(f) \/ ReactorSignal(f) \/ SignalWakes(f)
                           \/ ReactorWake(f)
    \/ \E st \in Streams : \/ RunWork(st) \/ RunFlag(st) \/ RunHost(st)
                            \/ HostWakes(st) \/ BeginCapture(st) \/ EndCapture(st)
    \/ \E c \in Contexts : Fault(c)

Next ==
    \/ \E f \in Futures : Poll(f) \/ Drop(f) \/ FutureStep(f)
    \/ Surroundings

Spec == Init /\ [][Next]_vars

\* An executor polls what it was told to poll, a poll that began goes on, the
\* driver and the reactor make progress on what the device has reached, a
\* capture ends.  Kernels may run forever, nobody need poll unasked.
Fairness ==
    /\ \A f \in Futures :
        /\ WF_vars(notified[f] /\ Poll(f)) /\ WF_vars(FutureStep(f))
        /\ WF_vars(ReactorSignal(f)) /\ WF_vars(SignalWakes(f))
        /\ WF_vars(ReactorWake(f))
    /\ \A st \in Streams :
        /\ WF_vars(RunFlag(st)) /\ WF_vars(RunHost(st)) /\ WF_vars(HostWakes(st))
        /\ WF_vars(EndCapture(st))

FairSpec == Spec /\ Fairness

-----------------------------------------------------------------------------
(* Properties *)

Items == [kind : {"work", "flag", "host"}, fut : Futures]
Elems(q) == {q[i] : i \in 1..Len(q)}

\* Every variable holds a value of its kind, and a poll runs the arm of the
\* state it found: an operation is executed by the first poll only.
TypeOK ==
    /\ \A f \in Futures :
        /\ at[f] \in {"lock", "execute", "spin", "register"} => state[f] = "Idle"
        /\ at[f] \in {"load", "probe", "update_waker", "recheck"} => state[f] = "Executing"
    /\ state \in [Futures -> {"Failed", "Idle", "Executing", "Complete"}]
    /\ result \in [Futures -> {"none", "stored", "delivered", "dropped", "leaked",
                              "leak_reported"}]
    /\ fault_delivered \in [Futures -> BOOLEAN]
    /\ owners \in [Futures -> {"none", "held", "released", "leaked"}]
    /\ waker \in [Futures -> {"none", "current", "stale"}]
    /\ complete \in [Futures -> BOOLEAN]
    /\ at \in [Futures -> {"out", "lock", "execute", "spin", "register", "load",
                           "probe", "update_waker", "recheck", "drop_result",
                           "wait_result", "drop_owners", "wait_owners", "gone"}]
    /\ notified \in [Futures -> BOOLEAN]
    /\ ready \in [Futures -> {"no", "ok", "error", "fault"}]
    /\ moves \in 0..MaxMoves
    /\ queue \in [Streams -> Seq(Items)]
    /\ capture \in [Streams -> {"not_yet", "capturing", "ended"}]
    /\ phase \in [Futures -> {"new", "submitted", "refused", "signalled", "woken"}]
    /\ executed \subseteq Futures /\ dead \subseteq Contexts
    /\ waking \subseteq Futures

\* Work of f is still ahead of the device.
InFlight(f) == \E i \in DOMAIN queue[StreamOf[f]] :
                  queue[StreamOf[f]][i] = [kind |-> "work", fut |-> f]

\* Nothing the device may still use is given up: while an operation's work is
\* in flight its result is neither handed out nor dropped and its owners and
\* access leases stay, however polls, drops, faults and captures interleave.
KeptWhileInFlight ==
    \A f \in Futures : InFlight(f) =>
        result[f] \notin {"delivered", "dropped"} /\ owners[f] # "released"

\* No lost wake-up: a future asleep between polls although its completion was
\* stored is about to be woken or has been, whoever owns it by now (this is
\* what the second load of `complete` in poll is for).
NoLostWakeup ==
    \A f \in Futures :
        at[f] = "out" /\ state[f] = "Executing" /\ complete[f] =>
            \/ notified[f]
            \/ waker[f] = "current" /\
               (f \in waking \/ \E i \in DOMAIN queue[StreamOf[f]] :
                    queue[StreamOf[f]][i] = [kind |-> "host", fut |-> f])

\* A result leaks without a report only when poll gave the caller the fault.
QuietLeakAfterFault ==
    \A f \in Futures : result[f] = "leaked" => ready[f] = "fault"

\* The caller has the future's outcome, or has given the future up.
Settled(f) ==
    \/ ready[f] # "no"
    \/ at[f] \in {"drop_result", "wait_result", "drop_owners", "wait_owners", "gone"}

\* A completion that was stored reaches its caller, unless the future is
\* dropped first, even if it changes hands; and so does a fault the reactor
\* wakes the future for, if it had not changed hands by then.
OutcomeObserved ==
    \A f \in Futures :
        (complete[f] \/ (phase[f] = "woken" /\ moves = 0)) ~> Settled(f)

\* A future whose stream faulted after the reactor accepted it resolves: it
\* "is woken without being marked complete, so its next poll observes the
\* driver error itself" (reactor.rs:31-33).
FaultObserved ==
    \A f \in Futures : phase[f] = "woken" ~> Settled(f)
=============================================================================
