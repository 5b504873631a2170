# A TLA+ verification project for cuTile Rust

cuTile Rust runs tile kernels on a GPU from Rust. The host side is a small
asynchronous runtime (`cuda-async`) over a driver binding (`cuda-core`), with
tensors, launch plans and a tuner on top (`cutile`) and a JIT compiler below them
(`cutile-compiler`, `cutile-ir`, `cutile-macro`). The runtime is where the hard
behaviour is: threads, tasks, a device that runs behind the host's back, faults
that never report themselves, and memory that must outlive work nobody waits for.
This project models that runtime, and the two caches of compiled kernels that threads
and processes share.

## 1. Inventory

| Part | Source | State | Operations | Hard because | What makes it correct |
|---|---|---|---|---|---|
| Slot table and reactor | `cuda-async/src/slot_table.rs`, `reactor.rs` | pinned flags, active bitmap, payload cells, free list, armed count, park token | `register`, `scan_inner`, `scan_loop`, stale probe | lock-free hand-off between registrants, scanner and device; slot reuse; faults; park/unpark | a completion belongs to the registration it is given to; no slot or wake-up is lost; faults are resolved |
| Device future | `device_future.rs`, `submission.rs`, `leak.rs` | future state, stored result, owners, waker, `complete` | `poll`, `drop`, `register_callback`, `signal`, `wake` | poll races the reactor, the driver and a change of task; drop races the device | nothing is released while in flight; every completion or fault reaches the caller |
| Access leases | `submission.rs`, `device_operation.rs` (`ExecutionContext`), `cutile/src/tensor.rs` (`Storage`) | in-flight accesses per storage, owners per submission | `retain`, `register_access`, `release_access`, `complete` | leases survive `mem::forget`, partial failure and stream clean-up | conflicting accesses on two streams are refused as long as one may run |
| CUDA graphs | `cuda_graph.rs` | captured resources, pending updates | `capture`, `update`, `launch`, `Scope::record` | a replay re-acquires leases; updates are enqueued without waiting | replays obey the lease rules; a capture always ends |
| Shared execution | `device_operation.rs` (`ExecuteOnce`, `SharedDeviceOp`, `Select`) | Pending / Running / Done / Failed, condvar | `run`, `settle_done`, `SettleOnUnwind` | concurrent consumers, re-entry, panics | the shared operation runs once; every waiter gets its outcome |
| Execution lock | `device_operation.rs` 20-90 | one thread-local flag | acquire, release, suspend for `then_unchecked` | nesting and unwinding | one operation per thread; the flag survives panics |
| Device contexts and scheduling | `device_context.rs`, `scheduling_policies.rs` | per-thread map of contexts with their pools, policy cursor | `with_context_map`, `set_device_pool`, `next_stream` | the map is out of its cell while closures run; initialisation fails | no pool or context is lost; round robin visits every stream |
| simt runtime | `cuda-async/src/simt/*` | event-gated limbo, future states | park, reclaim, poll, drop | late reclamation on a background thread | nothing is freed before its event |
| Driver binding | `cuda-core/src/*` | streams, events, buffers, pools, VMM maps | create, record, wait, destroy | ownership of raw handles | handles die after their last user |
| In-memory kernel cache | `cutile/src/tile_kernel.rs`, `plan.rs` | slots per specialization, epoch, launch sites, plan caches | look up, compile or wait, store, evict | four kinds of holders of a function, emptied one after the other while callers store into them | one live instance per key; no holder keeps or serves an evicted one |
| JIT disk cache | `cutile-compiler/src/jit_cache.rs`, `cuda_tile_runtime_utils.rs` | entries and temporary files in a shared directory | `get`, `put`, `delete`, `clear`, `evict` | several processes, failing calls, crashes, power loss | readers see whole entries; no error of the store fails a launch; eviction keeps its bound |
| Plans and tuner | `cutile/src/plan.rs`, `tune.rs` | what a plan recorded, tuning records | record, replay, search | stale plans, budget edges | a plan replays only what it was made for |
| Partitions, predicates, bounds | `cutile/src/tensor.rs`, `cuda-async/src/predicate.rs`, `cutile-compiler/src/bounds.rs` | none (pure) | grid arithmetic, interval arithmetic | overflow, division at the edges | agrees with a reference definition |
| Compiler passes, IR, macros | `cutile-compiler`, `cutile-ir`, `cutile-macro` | syntax trees | translation | size, not concurrency | out of TLC's reach |

How the parts interact. `cutile` builds `DeviceOp`s. A future (or `sync_on`) takes
the thread's execution lock and executes the operation on a stream; the operation
first retains its owners and leases with the execution context's submission and
then enqueues work. The future registers with the reactor, which enqueues a write
of 1 to a pinned flag behind that work, and one scanner thread for the process
turns flags into wake-ups. Completion releases the submission. A drop in flight
asks the driver, waits if it must, and leaks what it cannot prove finished.

## 2. Modules

| Module | Models |
|---|---|
| `Completion` | what the reactor promises a future: each registration is refused or submitted; a submitted one is signalled only after its flag write executed, or woken uncompleted only when its context is dead |
| `Reactor` | the slot table and the reactor, step by step; refines `Completion` |
| `ReactorProofs` | the TLAPS proofs about `Reactor` |
| `DeviceFuture` | `poll`, `drop` and the submission, composed with `Completion` |
| `DeviceFutureProofs` | the TLAPS proofs about `DeviceFuture` |
| `Leases` | the access registry of storages, submissions with their leases, CUDA graphs |
| `LeasesProofs` | the TLAPS proofs about `Leases` |
| `ExecuteOnce` | memoized operations: the first caller runs, the others wait, consumers on other streams join an event |
| `ExecuteOnceProofs` | the TLAPS proofs about `ExecuteOnce` |
| `HostThread` | what one thread keeps: the execution lock, the context map with its pools, the rotation of streams, under every nesting of calls |
| `HostThreadProofs` | the TLAPS proofs about `HostThread` |
| `KernelCache` | compiled kernels in memory: single-flight compilation, launch sites, plan caches, the epoch and evictions |
| `KernelCacheProofs` | the TLAPS proofs about `KernelCache` |
| `JitCache` | the directory of compiled kernels that processes share, and a launch that goes through it |
| `JitCacheProofs` | the TLAPS proofs about `JitCache` |
| `MCReactor`, `MCDeviceFuture`, `MCLeases`, `MCExecuteOnce`, `MCHostThread`, `MCKernelCache`, `MCJitCache` | instances for TLC |

A definition called `Mutant...` is a plausible bug in the operation that follows
it. No action uses one: a property is tried against it to see that it can fail.

### Reactor

A member of `Regs` is one call of `register` on a thread of its own. `pc` walks it
through claim, flag reset, arm, payload write, count, bit and unpark, one shared
access per step; `PoolExhausted` and `ArmFails` are the early returns. The failure
of `reactor()` itself to start (pinned allocation refused) is not a separate
step: the caller sees a refusal, as with an exhausted pool. The scanner's `spc` follows
`scan_inner` (`LoadWord`, `ReadFlag`, `JudgeStale`, `ClearBit`, `Take`, `Recycle`,
`CountOut`) and `scan_loop` (`Signal`, `WakeFaulted`, `Delivered`, `ParkGate`,
`KeepScanning`, `ParkReturns`). `woken` and `faulted` are sets because a
`Registration` is moved into them. `elapsed` abstracts the probe interval,
`idle_passes` keeps its width through `PassModulus`. The device and the driver are external:
each stream executes its flag writes in order until its context is dead; a thread
may record a graph on a stream once; binding a device may fail. Memory is
sequentially consistent: the orderings of the atomics are what the repository's loom
tests are about.

### DeviceFuture

`at` is the position inside a poll or a drop, one step per access to the
`AtomicWaker`, the `complete` flag or the driver. `waker` says whose waker is
registered: the owning task's, a previous owner's (`stale`), or nobody's.
`MoveTask` hands the future to another task, which polls it. The stream's `queue`
holds work, flag writes and host callbacks in order; `complete` is stored before
the waker is called, in two steps, by the reactor or by the driver's callback
thread. The reactor is `Completion` itself (`INSTANCE ... WITH Regs <- Futures`):
`RegisterCallback` is its `Submit`, `RunFlag` its `Execute`, `ReactorSignal` and
`ReactorWake` its `Signal` and `Wake`. That a wake for a fault finds the stream not
capturing is `WokenOnlyOnFault` of `Reactor`. `Drop` follows
`release_in_flight_result` and then the submission's own drop; `result` and `owners`
record what became of each. Assumed of the surroundings: nobody polls a future
that is ready (the code panics), and nothing is submitted to a stream while
a graph is being recorded on it.

### Leases

A member of `Subs` is one `ExecutionContext` with its submission, on a thread of its
own: of an operation, of a graph's capture (which stands for the graph too), of an
update, or of a launch on any stream. `accesses` is the registry, `leases` what
submissions (or a graph) hold; the two are taken in two steps (`RegisterAccess`
under the storage's lock, `CloneStorage`) and returned in two (`ReleaseAccess`,
`DropLease`), as in the code. What a graph recorded, or failed to record, is returned in one step: between
the two halves `is_unique` could only err on the safe side. `stage` is how far
a submission is, `owner` who holds the context of an update: the graph, or the
launch that took it over (`TakePending`). `Kept` is the deduplication of
`adopt_capture`, `nodes` what a replay really does. `Drained` is what the drop of a submission waits
for, `Leak` everything that keeps it from knowing: a forgotten future, a bind that
fails, a dead context, a capture. Assumed: work uses only what its context
retained (operations retain before they enqueue), nothing else is submitted to a
stream under capture, a launch is not itself recorded, all streams are of one
device, and the unsafe `async_on` is not used. Two accesses of one submission to
one storage in one mode are one entry.

### ExecuteOnce

A member of `Calls` is one `execute` of a clone or a half; `at` is its place
in the loop, `ParentOf` says whose closure makes it, on the same thread. `state`
and `runner` are `OnceState`, `producer` the stream of `Producer`. `Settle` stores
the outcome and notifies in one step, since waiters need the lock anyway.
`RunFails` and `RunPanics` may come before or after work was enqueued, and a
failed `Producer::record` is such a failure. A stream executes what is enqueued in
order and passes a wait once its event happened.

### HostThread

The state is one thread's: `executing` is `DEVICE_OP_EXECUTING`, `default` and
`devices` the two cells of `DEVICE_CONTEXTS`, and `frames` the stack of calls that own
a guard (`ExecutionLockGuard`, `ExecutionLockRelease`, `MapLease`) or run an operation
without one (`async_on`). Code of the program runs on top of the stack and may call
anything; a call that runs no closure of the program is one step. Returning, failing
and panicking all drop the guards of the top frame, which is `Exit`, so a panic is a
run of `Exit`s. A call the lock refuses before it changed anything is no step; `Sync`
is refused after it took a stream and so has such a step. A device's initialisation may
fail wherever its context is not in the map at hand. `registered`, `missed` and `latest`
are histories of what happened outside closures. Inside one, the cell is empty
and a nested call makes up a map that is overwritten when the lease ends, which is how
the code behaves and what `host_pool` is about. Left out: contexts with a policy of the
program's own, which no public function puts in the map, and streams of a device
made elsewhere. `CounterModulus` is a multiple of `NumStreams`, as it is for the
default pool size, a power of two.

### KernelCache

A slot is an `Arc<OnceCell<CompiledKernel>>` and the one kernel compiled into it. `at`
is a caller's place in the lookup chain: plan cache, epoch, launch site, slot, cell,
compilation, registration and storing on the way back. A step is one critical section of
a shard or lock, or one atomic access. `Register` and `SetFlag` are the two halves of joining
`LAUNCH_SITES`; `CheckEpoch` and `Write` are under the cache's lock. `DropSlot`
and `RemoveIfAbandoned` are what a failed compilation does, with `strong_count` as
`HeldBy`. An eviction removes keys one by one, bumps the epoch if it removed any, then
empties sites and plan caches under their locks. A panic inside a compilation and the
eviction meant for the crate's own tests are left out. A comment at `store` says that two
current resolutions of one probe resolve the same entry; as `CurrentIsCached` states it,
that holds outside the window in which an eviction has removed the key and not yet bumped the epoch.

### JitCache

A file is a name and the state of its bytes: absent, partial, whole, or torn by a power
loss (nothing is synced). A step is one system call. Every call may fail except the
reading of a directory whose eviction lock is held and the removal of one's own temporary
file. `Begin` to `Finish` is a launch: read and validate, else delete and compile, store,
load the module, load the function. Whether a store is installed is free. A launch begins with its bytecode; what
fails before that is left out.

The two loads fail differently. A stored image whose module the driver rejects is deleted and
compiled again without the store (`Load`, `Reject`). One whose module it takes but finds no function in
(`LoadFunction`) fails the launch as a fresh one would, and the entry stays in the store for
the next launch to fail on: `load_function` returns its error whatever the source. The comment that a disk-served image the
driver rejects "must not fail the launch" (`tile_kernel.rs:1072-1073`) is about the first. So `NeverFailsLaunch`
does not say that a launch fails only where it would fail without a cache: `excuse` records what tileiras and the driver
said of the launch, and the property lets it fail if tileiras did, if the driver refused what tileiras made in
that launch, or in that one case. No failing read, write, rename, eviction or removal is among them.

Modification times are left out: eviction deletes in
any order and may take any temporary file for a stale one, the one a slow process is still
writing included. A comment in `evict` says that its scan covers the writes of those who
lost the lock; that is true of what the scan has not passed, so `EvictionFits` bounds only what
was there when the scan began.

## 3. Runs

| Run | Question | Bounds |
|---|---|---|
| `reactor_safety` | is the slot protocol intact, and does the reactor implement `Completion`? | 3 registrations on 2 streams of one context, 2 slots in 2 bitmap words, 1 spin pass, a pass counter of width 2 that traps |
| `reactor_live` | is every accepted registration delivered, and does the scanner go back to sleep? | 2 registrations on streams of 2 contexts, 1 slot, one stream capturable, a counter that wraps |
| `future_safety` | are results and leases kept while in flight, is any completion slept through, are silent leaks justified? | 2 futures on one stream, one capture, one change of task, drops and faults anywhere |
| `future_live` | does a stored completion reach its caller, and a fault, if the future had not changed tasks? | 2 futures on one stream, one change of task |
| `future_lost_wake` (violation) | and if it changes tasks? | 1 future, 1 move |
| `leases` | can operations and replays of two streams race on a storage or free it early, does a shared storage look unique, do the leases of an update come back once its graph is dropped? | a graph, its update and a launch on the other stream, 1 storage, 2 tensors, 1 item per stream |
| `leases_unique` (violation) | can `is_unique` overlook a tensor while a lease is taken? | 1 operation, 2 tensors |
| `once` | is a shared operation run once, its outcome final, its value used after its work; does every call return and every stream drain? | 2 operations, 5 calls on 3 threads and 2 streams, two of them nested |
| `host_thread` | do the flag, the pools and the rotation survive every nesting of calls, errors and panics? | 2 devices, 1 pool, 2 streams, a counter of 2 values, 3 frames deep |
| `host_pool` (violation) | does an awaited operation see the registered pool? | as above, 1 frame deep |
| `kernel_cache` | does any holder keep or serve an evicted function, is a slot orphaned, does every call return? | 1 kernel, 2 callers by 3 routes, 1 eviction, 1 failed compilation or cleared or dropped plan cache |
| `jit_cache` | are published entries whole, what may a launch fail over, does eviction keep its bound, does every launch return? | 2 processes, 2 entries in room for 1, 1 clear, 1 crash or power loss, any failing call |

Why the bounds are enough. Three registrations and two slots reuse a slot while
another is armed and exhaust the pool; two words exercise the scan order; two
registrations on one stream exercise the order of its writes. One spin pass reaches the
probe, and width 2 reaches the overflow. A future interacts with
another one only through the stream they share and the context they die with, so
two futures on a stream show every interaction; one move suffices to make a waker
stale. Storages are independent of each other except through the work that uses
them, so one storage with a reader and a writer on either stream shows every conflict:
the capture and the update on one stream, the replay on the other, in any order; the proofs
cover every number of them. In `ExecuteOnce` the first
runner, a waiter on another thread and stream, a re-entering call and an operation nested in
another are all present. Three frames hold an operation, an unchecked closure in it and what that
closure calls, or a lease nested in another under an operation; two streams and a counter of
two values wrap at every second call. One eviction against two callers shows every order of
removal, bump and emptying against every stage of a lookup; different keys
meet only in the lists of holders. Two processes and one entry to launch show every race for a file name,
the stored one gives eviction something to delete. The runs allow deadlock because the system may stop: every call returned,
every future dropped, the reactor thread dead.

Fairness. `Reactor`: threads the operating system runs make progress, time passes, a capture
ends, and a device can be bound sooner or later (strong fairness of a verdict on a
registration's stream, since a failed bind may precede it any number of times).
`DeviceFuture`: an executor polls a task that was woken, a poll or a drop that began goes on,
the driver executes a flag write or callback it has reached, and the reactor
delivers, which is what `reactor_live` shows of it. Nothing is assumed of kernels:
they may run forever, and a task nobody woke need never be polled.
`Leases`: an execute that began returns, the host drops what it is done with and the device
makes progress; nobody need launch or update. `ExecuteOnce`: a call that began goes
on, and streams execute; nobody need call or consume, and no spurious wake-up is assumed.
`KernelCache`: a call or an eviction that began goes on, and a compilation ends.
`JitCache`: a process that does not crash goes on.
In `ExecuteOnce` the nesting of operations has no cycle across threads: two operations that execute
each other, first run by two threads at once, do wait for each other, and the code
promises an error only to a thread that re-enters its own operation.

### What the violations show

* `future_lost_wake`: the fault wake-up marks nothing complete. If it comes after
  poll probed the stream and before poll registered a new task's waker, it goes to the old
  task, the second look at `complete` finds nothing and the future sleeps forever.
* `leases_unique`: `retain` registers the access, lets go of the storage's lock and only
  then clones the `Arc`. A thread that asks `is_unique` through another tensor in
  between counts two references, expects two (itself and one lease) and takes the
  storage for its own. `UniqueSound` is what does hold: no alias is overlooked unless a
  lease is being taken at that moment.
* `host_pool`: `into_future` of a kernel launch, a graph launch and the operations of `api.rs` makes
  the execution context inside the closure that leases the thread's map. The pool is
  then looked up in an empty map, so the awaited operation allocates from the
  default pool whatever `set_device_pool` registered. `sync`, `schedule` and awaited combinators
  make the context outside the lease and do see it.

The liveness of the reactor is checked with a pass counter that wraps, as in a release build.
`idle_passes` is a `u32` that grows on every pass without a completion, so a build with
overflow checks panics the only reactor thread after 2^32 of them and `ExecutedDelivered` does
not hold there; `reactor_safety` includes that panic.

## 4. Proofs

`ReactorProofs` proves, for every set of registrations, streams and contexts, any
number of slots and any word size, under `ReactorAssumption` only:

| Theorem | States |
|---|---|
| `TypeCorrect` | `Spec => []TypeOK` |
| `CompletionSound` | `Spec => []SignalledExecuted` |
| `FaultSound` | `Spec => []WokenOnlyOnFault` |
| `RaceFree` | `Spec => []NoPayloadRace` |
| `CountSound` | `Spec => []ArmedCountExact` |
| `UnparkSound` | `Spec => []NoLostUnpark` |
| `SlotsSound` | `Spec => []SlotsConserved` |
| `DecisionFinal` | `Spec => DecidedOnce` |
| `Refinement` | `Spec => ImplementsCompletion` |

All rest on `Invariance`, `Spec => []IInv`. None of the properties is inductive: that a flag reading 1
belongs to the slot's present owner depends on who may still write it. `IInv` says,
besides types:

* `Ownership`: free, held, armed and retiring slots are disjoint and without duplicates;
* `Payloads`: a watched slot holds the registration that published it, and each
  registration is in one place;
* `Writes`: a flag write still queued on a live stream targets a slot its
  registration still holds, so a slot is never recycled under a pending write,
  except on a dead context where it never executes; a flag at 1 in a watched slot
  means its registration executed;
* `Verdicts`: what the scanner believes about the slot at hand (landed or lost) is
  true and stays true, the memo included;
* `Counted`, `ArmedCountExact`, `Waking`: the armed count, and who will unpark.

Each action has a step of its own in the lemma of each conjunct. Cardinalities are
handled by a few lemmas over `FiniteSetTheorems`.

`LeasesProofs` proves, for every set of storages, streams and submissions, any
assignment of kinds, graphs and streams, under `LeasesAssumption` only:

| Theorem | States |
|---|---|
| `TypeCorrect` | `Spec => []TypeOK` |
| `RaceFree` | `Spec => []NoDeviceRace` |
| `MemorySafe` | `Spec => []NoUseAfterFree` |
| `UniqueCorrect` | `Spec => []UniqueSound` |

They rest on `Inductive`, `Spec => []IInv`. The registry excludes conflicting
entries, but the property is about work in flight, so the invariant has to tie the two:

* `ExclusionOK`: registered accesses that conflict, recordings aside, are on one stream;
* `RegistryOK`: entry and lease come in pairs, except while one is taken or returned;
* `FlightOK`: every item in flight is covered by leases of its own submission, which
  has not begun to return them;
* `CaptureOK`, `LaunchOK`: what a replay does is covered by what the graph kept, and by
  what the launch retained before it launches: here the deduplication matters;
* `StageOK`: which kinds of submission reach which stage; a launch that is not done
  keeps its graph instantiated;
* `FiniteOK`: the sets `is_unique` counts are finite.

`UniqueCorrect` turns the pairing into an inequality of cardinalities.

`HostThreadProofs` proves, for any devices, pools, depth of nesting and size of the stream
pool, under `HostAssumption` only:

| Theorem | States |
|---|---|
| `LockSound` | `Spec => []ExclusiveExecution` |
| `PoolSound` | `Spec => []PoolKept` |
| `RotationSound` | `Spec => []TakesTurns` |

They rest on `Inductive`, `Spec => []IInv`. What the stack looks like now says nothing about
the state its guards will restore, so `IInv` says it of every frame:

* `Guarded`: each guard of the lock, when it was pushed, found the lock as `InForce` computes it from the
  frames below it; so dropping it restores exactly that, and `Locked` ties the flag to the whole stack;
* `Rooted`: if maps are leased there is an outermost lease, whose map `MapOf` names; a nested lease, or
  whatever nested calls leave in the cell, never reaches it;
* `Agrees`: that map has the pools that were registered and, for each context, the stream after
  the one handed out last; a device without a context had neither.

The rotation over the wrap of the counter is `Rotation`, from a few facts about division; it is where
the assumption that the number of streams divides the counter's range is needed.

`DeviceFutureProofs` proves, for any futures, streams and contexts, any number of moves between
tasks, under `FutureAssumption` only:

| Theorem | States |
|---|---|
| `TypeCorrect` | `Spec => []TypeOK` |
| `InFlightIsKept` | `Spec => []KeptWhileInFlight` |
| `WakeupIsNotLost` | `Spec => []NoLostWakeup` |
| `QuietLeakFollowsFault` | `Spec => []QuietLeakAfterFault` |

A future gives its result up because it saw `complete`, or asked the driver; that either means the work is
over is a fact about the order of a queue, so `IInv` has one part about queues and four about each future:

* `QueueInv`: a future's items are on its own stream, its work ahead of the flag write or callback that
  announces it;
* `Announced`: nothing announces a future that has not registered, and one that is announced has no
  work left in the queue;
* `Kept`: what is in flight is kept, and before the execution there is nothing to keep;
* `Awake`: a future between polls, or about to return `Pending`, has its own task's waker registered or the
  task already told: `NoLostWakeup` alone says nothing of the steps between the new waker and the second
  look at `complete`;
* `Told`: a fault that was handed out is final.

`ExecuteOnceProofs` proves, for any operations, calls, threads and streams and any nesting of calls, under
`OnceAssumption` only:

| Theorem | States |
|---|---|
| `TypeCorrect` | `Spec => []TypeOK` |
| `OperationRunsOnce` | `Spec => []RunsOnce` |
| `ConsumersFollowProducer` | `Spec => []UseAfterWork` |
| `OutcomeIsFinal` | `Spec => OutcomeFinal` |

`Taken` says that whoever runs an operation took it and that a taken operation is never `Pending` again.
`UseAfterWork` is about what streams have executed, so `Ordered` says it of what they have yet to execute:
`Covers` holds of a prefix of a queue after which an operation has worked, because its work is in it or a
wait for its event is; every event and use has such a prefix ahead, and what is enqueued next for a call that
has the value will have one. The lemmas say how `Covers` changes when an item is appended or executed.
The acyclic nesting that the liveness of `once` needs is not assumed here.

`KernelCacheProofs` proves, for any keys, slots, callers and concurrent evictions, under `CacheAssumption` only:

| Theorem | States |
|---|---|
| `TypeCorrect` | `Spec => []TypeOK` |
| `EpochMeansCached` | `Spec => []CurrentIsCached` |
| `EvictionReachesAll` | `Spec => []NoStaleEntry` |
| `EmptySlotHasOwner` | `Spec => []NoDeadSlot` |
| `LookupServesCached` | `Spec => HitIsCached` |

What a cache keeps was resolved and registered by a caller many steps earlier, so `IInv` follows the slot on its way:

* `OneKey`: the map holds a slot under one key;
* `CallInv`: a caller's slot belongs to its key; while the epoch it read is current the slot is in the map or
  in the hands of an eviction that has not bumped (`Removing`); from the epoch check to the store,
  under the cache's lock, it is in the map or some eviction still has that cache to empty
  (`Emptying`); and the cache was listed before anything is stored in it, so an eviction finds it;
* `EntryInv`: the same of every stored entry.

The bump is the step that matters: it makes every stamp an old one and has to come after the removal and
before the emptying; `RemoveKeyKeeps`, `BumpKeeps` and `EmptyKeeps` are those three arguments.

`JitCacheProofs` proves, for any processes, entries, sizes and watermarks and any number of crashes, under `JitAssumption` only:

| Theorem | States |
|---|---|
| `TypeCorrect` | `Spec => []TypeOK` |
| `EntriesAreWhole` | `Spec => []PublishedWhole` |
| `DriverGetsWholeImages` | `Spec => []LoadsWhole` |
| `StoreFailsNoLaunch` | `Spec => []NeverFailsLaunch` |
| `OnlyCrashesLeaveTemps` | `Spec => []TempsOwned` |
| `EvictionReachesLowMark` | `Spec => []EvictionFits` |

`IInv` says of each process what it has at each place (`ProcInv`): at the rename its temporary file is whole or
was taken by an eviction, and an image that is said to come from tileiras was made in this very launch, which is what
`StoreFailsNoLaunch` needs at the loads. The first rests on `OwnTemps`, no two processes write to one file, and that on
`FreshName`: a put always finds a name nobody uses. The code's names never repeat; the model has
`Cardinality(Procs) * (1 + MaxCrashes)` of them, and `FewOrphans`, at most one orphan for each process at
every crash, makes that enough.

`EvictionFits` needs `CollectOK` on top: the process that holds the lock has visited, found or
failed to delete every old entry, and its total is at least the size of what it found and did not
delete. It may be more, since an entry that appears during the scan may be visited twice. The sum of the sizes is a fold, and what a fold computes
cannot be proved by induction here. `SumIs` takes another way: `Units(S)` is a set with `Size[k]` members for each
`k` of `S`, and the sum of a finite set is its cardinality, because among the sets where it is not there would be a
minimal one (`WFMin`) and removing the entry that the fold picks gives a smaller one.

The assumptions on constants are finiteness, disjointness and non-emptiness of the sets involved
(`Keys # {}`, `Threads # {}`, `"none" \notin Streams`, finite `Procs` and `Temps`) and the relations the code
itself establishes between them.

Only model-checked: liveness (`ExecutedDelivered`, `FaultResolved`, `ScannerParks`,
`OutcomeObserved`, `PendingReturned`, `CallsReturn`,
`StreamsDrain`, `AllReturn`, `LaunchReturns`), because fairness and `ENABLED` are out of the
prover's reach. Every safety property of a passing run is a theorem.

## 5. Plan

Done: the reactor, the device future, leases with graphs, shared execution, the host thread, the
kernel cache and the disk cache, each with its proofs.

1. An abstract specification of race-free access that `Leases` implements, its refinement proved, and
   `Leases` composed with `ExecuteOnce`.
2. `Reclaim`: the limbo of the simt runtime and the future that parks its result there, with payloads whose
   own drop sweeps.
3. Pure algorithms against reference definitions: partition grids, predicates, bounds.

Not modelled, and why: procedural macros, type inference, operator lowering, the IR
printer and the bytecode op writer are large sequential translations whose
correctness is a relation between programs, not between states; the kernel library, examples
and benchmarks are programs for the system; the driver bindings are generated or thin
calls into CUDA, which the models treat as external. Together they are by far the largest
part of the repository's lines; what has state that several actors share is the part modelled here.
The tuner's search is a sequential loop around measurements. What a plan records and replays is
a function of its arguments; only the cache that holds plans is modelled.
