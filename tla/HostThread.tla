----------------------------- MODULE HostThread -----------------------------
(***************************************************************************)
(* What one host thread of cuda-async keeps for itself: the execution lock  *)
(* (device_operation.rs), the device contexts with the pool registered for   *)
(* each (device_context.rs) and the round robin of each context's streams    *)
(* (scheduling_policies.rs), under every nesting of calls.                   *)
(*                                                                          *)
(* The thread is its stack of frames that own a guard or run a closure of    *)
(* the program; the program's code runs on top of it and may call anything.  *)
(* A call that runs no such closure is one step.  A closure returns, returns *)
(* an error or panics: each drops the guards of its frame, which is Exit,    *)
(* and a panic is a run of Exits.  A call refused by the lock before it      *)
(* changed anything is no step.                                             *)
(***************************************************************************)
EXTENDS Integers, Sequences

CONSTANTS
    Devices,          \* ordinals, with or without a device behind them
    DefaultDeviceId,
    Pools,            \* Pools[d]: the memory pools created on d
    None,
    NumStreams,       \* DEFAULT_ROUND_ROBIN_STREAM_POOL_SIZE
    CounterModulus,   \* 2^w, w the width of next_stream_idx
    MaxDepth          \* bound: frames on the stack

\* A map of contexts: the pool and next_stream_idx of each device in it.
Pool == UNION {Pools[d] : d \in Devices}
Context == [pool : Pool \cup {None}, next : 0..(CounterModulus - 1)]
ContextMap == UNION {[D -> Context] : D \in SUBSET Devices}

\* The width is a power of two and so is the default size of the stream pool.
ASSUME HostAssumption ==
    /\ DefaultDeviceId \in Devices
    /\ None \notin Pool \cup ContextMap
    /\ NumStreams \in Nat \ {0}
    /\ CounterModulus \in Nat \ {0}
    /\ CounterModulus % NumStreams = 0

VARIABLES
    executing,   \* DEVICE_OP_EXECUTING
    default,     \* DEVICE_CONTEXTS.default_device
    devices,     \* DEVICE_CONTEXTS.devices: a map, or None while it is leased
    frames,      \* the stack, innermost last
    registered,  \* history: the pool set last for each device, outside closures
    missed,      \* history: the last ExecutionContext made outside closures has another pool
    latest       \* history: the stream each of the thread's contexts handed out last

vars == <<executing, default, devices, frames, registered, missed, latest>>

Fresh == [pool |-> None, next |-> 0]
NoContexts == [d \in {} |-> Fresh]

Init ==
    /\ executing = FALSE
    /\ default = DefaultDeviceId
    /\ devices = None
    /\ frames = <<>>
    /\ registered = [d \in Devices |-> None]
    /\ missed = FALSE
    /\ latest = [d \in Devices |-> NumStreams - 1]

-----------------------------------------------------------------------------
(* Frames and the guards they own.                                            *)

\* ExecutionLockGuard; a frame of an operation run without it; ExecutionLockRelease; MapLease.
Executing == [kind |-> "executing"]
Unguarded == [kind |-> "unguarded"]
Release(held) == [kind |-> "release", held |-> held]
Lease(map, d) == [kind |-> "lease", map |-> map, device |-> d]

Top == frames[Len(frames)]
Push(f) == Len(frames) < MaxDepth /\ frames' = Append(frames, f)

\* The program's closures that hold the thread's context map.
Leases == {i \in DOMAIN frames : frames[i].kind = "lease"}
InClosure == Leases # {}

\* The flag and the map once the guard of frame f is dropped.
MutantFlagAfter(f) == CASE f.kind = "executing" -> FALSE
                        [] f.kind = "release" -> TRUE
                        [] OTHER -> executing
FlagAfter(f) == CASE f.kind = "executing" -> FALSE
                  [] f.kind = "release" -> f.held
                  [] OTHER -> executing
DevicesAfter(f) == IF f.kind = "lease" THEN f.map ELSE devices

\* A closure or an operation is over, in whatever way.
Exit ==
    /\ frames # <<>>
    /\ frames' = SubSeq(frames, 1, Len(frames) - 1)
    /\ executing' = FlagAfter(Top)
    /\ devices' = DevicesAfter(Top)
    /\ UNCHANGED <<default, registered, missed, latest>>

-----------------------------------------------------------------------------
(* The context map.                                                           *)

\* with_context_map takes the map out of the cell, or starts an empty one.
Taken == IF devices = None THEN NoContexts ELSE devices

\* ensure_device_context.
Ensured(map, d) ==
    [e \in DOMAIN map \cup {d} |-> IF e \in DOMAIN map THEN map[e] ELSE Fresh]

\* The device cannot be initialised: the lease puts the map back as it was.
MutantMapAfterFailure == None
MapAfterFailure == Taken
LookupFails(d) == d \notin DOMAIN Taken /\ devices' = MapAfterFailure

\* with_global_device_context for a closure of this crate that only reads:
\* get_device_pool, global_policy, the free of a dropped DeviceBuffer.
Look(d) ==
    /\ devices' = Ensured(Taken, d) \/ LookupFails(d)
    /\ UNCHANGED <<executing, default, frames, registered, missed, latest>>

\* with_global_device_context, with_device_policy, with_deallocator_stream or
\* with_default_device_policy for a closure of the program.
WithContext(d) ==
    /\ \/ Push(Lease(Ensured(Taken, d), d)) /\ devices' = None
       \/ LookupFails(d) /\ UNCHANGED frames
    /\ UNCHANGED <<executing, default, registered, missed, latest>>

\* init_device_contexts: an error once there is a map to see.
InitDeviceContexts(d) ==
    /\ devices = None
    /\ devices' = NoContexts
    /\ default' = d
    /\ UNCHANGED <<executing, frames, registered, missed, latest>>

SetDefaultDevice(d) ==
    /\ default' = d
    /\ UNCHANGED <<executing, devices, frames, registered, missed, latest>>

\* set_device_pool, clear_device_pool (p = None); a pool of another device is refused.
SetDevicePool(d, p) ==
    /\ \/ /\ devices' = [Ensured(Taken, d) EXCEPT ![d].pool = p]
          /\ registered' = IF InClosure THEN registered ELSE [registered EXCEPT ![d] = p]
       \/ LookupFails(d) /\ UNCHANGED registered
    /\ UNCHANGED <<executing, default, frames, missed, latest>>

-----------------------------------------------------------------------------
(* Scheduling.                                                                *)

\* next_stream_idx after fetch_add, and the stream its old value names.
MutantBumped(n) == IF n = CounterModulus - 1 THEN n ELSE n + 1
Bumped(n) == (n + 1) % CounterModulus
StreamAt(n) == n % NumStreams

\* The policy of device d's context in map hands out its next stream.
Picked(map, d) == [map EXCEPT ![d].next = Bumped(@)]
HandOut(map, d) == latest' = [latest EXCEPT ![d] = StreamAt(map[d].next)]
\* Only the outermost map's contexts outlive the call: they are the ones followed.
NextStream(map, d) == IF InClosure THEN UNCHANGED latest ELSE HandOut(map, d)

\* pool_for_stream, in ExecutionContext::new, against the given map; an
\* ordinal without a context there has no pool.
PoolIn(map, d) == IF map # None /\ d \in DOMAIN map THEN map[d].pool ELSE None
Resolve(map, d) ==
    missed' = (~InClosure /\ PoolIn(map, d) # registered[d])

\* policy.next_stream() by a closure that was handed the policy.
NextStreamInClosure ==
    /\ frames # <<>>
    /\ LET f == Top
       IN  /\ f.kind = "lease"
           /\ frames' = [frames EXCEPT ![Len(frames)].map = Picked(f.map, f.device)]
           /\ IF Leases = {Len(frames)} THEN HandOut(f.map, f.device) ELSE UNCHANGED latest
    /\ UNCHANGED <<executing, default, devices, registered, missed>>

\* schedule on global_policy(d); into_future of a combinator, for which d is the
\* default device.  The context is created once the lease on the map is over.
Schedule(d) ==
    /\ LET map == Ensured(Taken, d)
       IN  \/ /\ devices' = Picked(map, d)
              /\ NextStream(map, d)
              /\ Resolve(devices', d)
           \/ LookupFails(d) /\ UNCHANGED <<latest, missed>>
    /\ UNCHANGED <<executing, default, frames, registered>>

\* into_future of a kernel launch, a graph launch or an operation of api.rs:
\* ExecutionContext::new runs inside the closure handed to
\* with_default_device_policy, where the cell is empty.  The map it makes up is
\* overwritten when the outer lease ends.
IntoFutureInLease ==
    /\ LET map == Ensured(Taken, default)
       IN  \/ /\ devices' = Picked(map, default)
              /\ NextStream(map, default)
              /\ Resolve(Ensured(NoContexts, default), default)
           \/ LookupFails(default) /\ UNCHANGED <<latest, missed>>
    /\ UNCHANGED <<executing, default, frames, registered>>

-----------------------------------------------------------------------------
(* Execution.                                                                 *)

\* acquire_execution_lock.
Acquire == ~executing /\ executing' = TRUE /\ Push(Executing)

\* sync_on, CudaGraph::capture, scope and update on a stream of device d.
SyncOn(d) ==
    /\ Acquire
    /\ devices' = Ensured(Taken, d) \/ LookupFails(d)
    /\ Resolve(devices', d)
    /\ UNCHANGED <<default, registered, latest>>

\* sync and graph: a stream of the default device first, then sync_on.
Sync ==
    /\ LET map == Ensured(Taken, default)
       IN  \/ /\ devices' = Picked(map, default)
              /\ NextStream(map, default)
              /\ \/ Acquire /\ Resolve(devices', default)
                 \/ executing /\ UNCHANGED <<executing, frames, missed>>
           \/ LookupFails(default) /\ UNCHANGED <<executing, frames, missed, latest>>
    /\ UNCHANGED <<default, registered>>

\* async_on takes no lock.
AsyncOn(d) ==
    /\ Push(Unguarded)
    /\ devices' = Ensured(Taken, d) \/ LookupFails(d)
    /\ Resolve(devices', d)
    /\ UNCHANGED <<executing, default, registered, latest>>

\* DeviceFuture::poll executes an idle future, whose context was created before.
Poll ==
    /\ Acquire
    /\ UNCHANGED <<default, devices, registered, missed, latest>>

\* An AndThenUnchecked runs its closure.
ThenUnchecked ==
    /\ frames # <<>>
    /\ Top.kind \in {"executing", "unguarded"}
    /\ Push(Release(executing))
    /\ executing' = FALSE
    /\ UNCHANGED <<default, devices, registered, missed, latest>>

-----------------------------------------------------------------------------
Next ==
    \/ Exit \/ NextStreamInClosure \/ IntoFutureInLease
    \/ Sync \/ Poll \/ ThenUnchecked
    \/ \E d \in Devices :
          \/ Look(d) \/ WithContext(d) \/ InitDeviceContexts(d) \/ SetDefaultDevice(d)
          \/ Schedule(d) \/ SyncOn(d) \/ AsyncOn(d)
          \/ \E p \in Pools[d] \cup {None} : SetDevicePool(d, p)

Spec == Init /\ [][Next]_vars

-----------------------------------------------------------------------------
(* Properties.                                                                *)

\* The map of the thread outside its closures, leased or not.
ThreadMap == IF InClosure THEN frames[CHOOSE i \in Leases : \A j \in Leases : i <= j].map
             ELSE Taken

\* "On any given thread, only one DeviceOp may be executing at a time": between
\* two regions that hold the execution lock lies a then_unchecked closure, and
\* the flag is set exactly where the innermost of them is still in force, so an
\* error, a panic or a nested chain leaves a thread neither locked for good nor
\* unlocked while it executes.  (async_on, an unsafe call, takes no lock.)
ExclusiveExecution ==
    LET held == {i \in DOMAIN frames : frames[i].kind = "executing"}
        open == {i \in DOMAIN frames : frames[i].kind = "release"}
    IN  /\ \A i, j \in held : i < j => \E k \in open : i < k /\ k < j
        /\ executing <=> \E i \in held : \A k \in open : k < i

\* The context a thread has for a device is never lost, nor is the pool
\* registered for it last, to a call that failed, panicked, was refused or was
\* nested in another.
PoolKept == \A d \in Devices : PoolIn(ThreadMap, d) = registered[d]

\* The streams of a context are handed out in rotation, over the wrap of its
\* counter and over every call that failed, nested or panicked in between: as
\* many operations in a row as there are streams run on different ones.
TakesTurns ==
    \A d \in DOMAIN ThreadMap : StreamAt(ThreadMap[d].next) = (latest[d] + 1) % NumStreams

\* set_device_pool: "Subsequent allocations on this device will use the given
\* pool ... resolved at scheduling time (`.sync()`, `.await`, ...)".
AwaitedPool == ~missed
=============================================================================
