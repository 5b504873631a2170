------------------------------- MODULE Leases -------------------------------
(***************************************************************************)
(* Who may touch which tensor storage, on which stream, and until when: the *)
(* access registry of a Storage (cutile tensor.rs), the Submission that     *)
(* holds its leases (cuda-async submission.rs) and the CudaGraph that       *)
(* records accesses and takes them again on every replay (cuda_graph.rs).   *)
(*                                                                          *)
(* A member of Subs is one ExecutionContext with its submission: of an      *)
(* operation, of a graph's capture (which stands for the graph as well), of *)
(* an update of a graph or of a launch of it.  Each runs on a thread of its *)
(* own; a step is one critical section or one driver call.  Two accesses of *)
(* one submission to the same storage in the same mode are one entry: they  *)
(* are released together.                                                   *)
(*                                                                          *)
(* Assumed: work uses only what its context retained, nothing else is       *)
(* submitted to a stream under capture, a launch is not itself recorded,    *)
(* and all streams and storages are of one device.                          *)
(***************************************************************************)
EXTENDS Integers, Sequences, FiniteSets

CONSTANTS
    Storages, Streams, Subs,
    StreamOf,     \* the stream of each submission
    Kind,         \* op, capture, update or launch
    GraphOf,      \* of an update or a launch: the capture of its graph
    MaxAliases,   \* bound: user-visible tensors over one storage
    MaxQueue      \* bound: items in flight on one stream

ASSUME LeasesAssumption ==
    /\ StreamOf \in [Subs -> Streams]
    /\ Kind \in [Subs -> {"op", "capture", "update", "launch"}]
    /\ GraphOf \in [Subs -> Subs]
    /\ \A u \in Subs : Kind[u] \in {"update", "launch"} => Kind[GraphOf[u]] = "capture"
    /\ \A u \in Subs : Kind[u] = "update" => StreamOf[u] = StreamOf[GraphOf[u]]
    /\ MaxAliases \in Nat \ {0}
    /\ MaxQueue \in Nat

VARIABLES
    accesses,   \* the StorageAccess entries of every storage
    leases,     \* the leases: each holds an Arc of its storage
    aliases,    \* the tensors and views the program has over a storage
    stage,      \* how far each submission is
    owner,      \* who holds the context of an update; itself if nobody
    nodes,      \* what the instantiated graph does when it is replayed
    graphs,     \* the CudaGraphs the program still has
    queue,      \* the work in flight on each stream
    dead        \* the device has faulted

vars == <<accesses, leases, aliases, stage, owner, nodes, graphs, queue, dead>>

Use == [storage : Storages, write : BOOLEAN]
Access == [sub : Subs, storage : Storages, write : BOOLEAN]
Item == [sub : Subs, uses : SUBSET Use]
Captures == {g \in Subs : Kind[g] = "capture"}

Init ==
    /\ accesses = {} /\ leases = {}
    /\ aliases = [s \in Storages |-> 1]
    /\ stage = [u \in Subs |-> "new"]
    /\ owner = [u \in Subs |-> u]
    /\ nodes = [g \in Subs |-> {}]
    /\ graphs = {}
    /\ queue = [st \in Streams |-> <<>>]
    /\ dead = FALSE

Lease(u, x) == [sub |-> u, storage |-> x.storage, write |-> x.write]
Of(set, u) == {a \in set : a.sub = u}
On(set, s) == {a \in set : a.storage = s}
Uses(u) == {[storage |-> a.storage, write |-> a.write] : a \in Of(leases, u)}

IsRecording(u) == Kind[u] = "capture"
Capturing(st) == \E g \in Captures : StreamOf[g] = st /\ stage[g] \in {"executing", "cloning"}
Move(u, from, to) == stage[u] = from /\ stage' = [stage EXCEPT ![u] = to]
InFlight(u) == \E i \in 1 .. Len(queue[StreamOf[u]]) : queue[StreamOf[u]][i].sub = u
Enqueue(u, uses) ==
    queue' = [queue EXCEPT ![StreamOf[u]] = Append(@, [sub |-> u, uses |-> uses])]

-----------------------------------------------------------------------------
(* Execution: retain what the work touches, then enqueue it *)

\* ExecutionContext::new or ::for_capture; update and launch need the graph.
Begin(u) ==
    /\ Move(u, "new", "executing")
    /\ ~Capturing(StreamOf[u])
    /\ Kind[u] \in {"update", "launch"} => GraphOf[u] \in graphs
    /\ Kind[u] = "capture" => \A v \in Subs :
           StreamOf[v] = StreamOf[u] => stage[v] \notin {"executing", "cloning", "launching"}
    /\ UNCHANGED <<accesses, leases, aliases, owner, nodes, graphs, queue, dead>>

Conflict(u, x) ==
    /\ ~IsRecording(u)
    /\ \E a \in On(accesses, x.storage) :
        ~IsRecording(a.sub) /\ StreamOf[a.sub] # StreamOf[u] /\ (x.write \/ a.write)

\* What u may retain: a tensor of the program, or for a launch what its
\* graph captured.
Reachable(u, x) ==
    IF Kind[u] = "launch" THEN Lease(GraphOf[u], x) \in leases
    ELSE aliases[x.storage] > 0

\* Storage::retain: register the access under the lock of the storage, ...
RegisterAccess(u, x) ==
    /\ Move(u, "executing", "cloning")
    /\ Reachable(u, x) /\ Lease(u, x) \notin accesses /\ ~Conflict(u, x)
    /\ accesses' = accesses \cup {Lease(u, x)}
    /\ UNCHANGED <<leases, aliases, owner, nodes, graphs, queue, dead>>

\* ... then clone the Arc into a lease, or into a recorded resource.
CloneStorage(u) ==
    /\ Move(u, "cloning", "executing")
    /\ leases' = leases \cup Of(accesses, u)
    /\ UNCHANGED <<accesses, aliases, owner, nodes, graphs, queue, dead>>

\* execute has returned, well or not; update leaves its context to the graph.
Return(u, from) ==
    /\ Move(u, from, IF Kind[u] = "update" THEN "owned" ELSE "executed")
    /\ owner' = [owner EXCEPT ![u] = IF Kind[u] = "update" THEN GraphOf[u] ELSE u]
    /\ UNCHANGED <<accesses, leases, aliases, nodes, graphs, dead>>

RetainRefused(u, x) ==
    /\ Reachable(u, x) /\ Conflict(u, x)
    /\ Return(u, "executing")
    /\ UNCHANGED queue

\* The kernel or the copy is enqueued.
Submit(u) ==
    /\ stage[u] = "executing" /\ Kind[u] \in {"op", "update"}
    /\ Len(queue[StreamOf[u]]) < MaxQueue
    /\ Enqueue(u, Uses(u))
    /\ UNCHANGED <<accesses, leases, aliases, stage, owner, nodes, graphs, dead>>

Executed(u) == Kind[u] # "capture" /\ Return(u, "executing") /\ UNCHANGED queue

\* A panic unwinds through update, which then keeps nothing.
UpdatePanics(u) ==
    /\ Kind[u] = "update" /\ Move(u, "executing", "executed")
    /\ UNCHANGED <<accesses, leases, aliases, owner, nodes, graphs, queue, dead>>

-----------------------------------------------------------------------------
(* Graphs *)

\* adopt_capture keeps one resource per storage: a write subsumes a read.
MutantKept(g) == {a \in Of(leases, g) : \A b \in Of(leases, g) :
                     b.storage = a.storage /\ a.write => b.write}
Kept(g) == {a \in Of(leases, g) : \A b \in Of(leases, g) :
                     b.storage = a.storage /\ b.write => a.write}

Keep(g, kept) ==
    /\ accesses' = (accesses \ Of(accesses, g)) \cup kept
    /\ leases' = (leases \ Of(leases, g)) \cup kept

AdoptCapture(g) ==
    /\ Kind[g] = "capture" /\ Move(g, "executing", "ready")
    /\ Keep(g, Kept(g))
    /\ nodes' = [nodes EXCEPT ![g] = Uses(g)]
    /\ graphs' = graphs \cup {g}
    /\ UNCHANGED <<aliases, owner, queue, dead>>

\* capture_on fails: the recorded resources are dropped with the context.
CaptureFails(g) ==
    /\ Kind[g] = "capture" /\ Move(g, "executing", "done")
    /\ Keep(g, {})
    /\ UNCHANGED <<aliases, owner, nodes, graphs, queue, dead>>

\* GraphLaunch::execute: once every captured access is retained, take the
\* contexts of pending updates, ...
Retained(u) == \A a \in Of(leases, GraphOf[u]) : [a EXCEPT !.sub = u] \in leases

TakePending(u) ==
    /\ Kind[u] = "launch" /\ Move(u, "executing", "launching")
    /\ Retained(u)
    /\ owner' = [v \in Subs |-> IF owner[v] = GraphOf[u] /\ stage[v] = "owned" THEN u
                                ELSE owner[v]]
    /\ UNCHANGED <<accesses, leases, aliases, nodes, graphs, queue, dead>>

\* ... then cuGraphLaunch, which may fail.
GraphLaunch(u) ==
    /\ Len(queue[StreamOf[u]]) < MaxQueue
    /\ Return(u, "launching")
    /\ Enqueue(u, nodes[GraphOf[u]])

GraphLaunchFails(u) == Return(u, "launching") /\ UNCHANGED queue

\* Not while update borrows it.
DropGraph(g) ==
    /\ g \in graphs
    /\ \A u \in Subs : Kind[u] = "update" /\ GraphOf[u] = g =>
           stage[u] \notin {"executing", "cloning"}
    /\ graphs' = graphs \ {g}
    /\ UNCHANGED <<accesses, leases, aliases, stage, owner, nodes, queue, dead>>

\* What a dropped owner held is dropped in turn.
MutantOrphan(u, to) == stage' = [stage EXCEPT ![u] = to]
Orphan(u, to) ==
    stage' = [v \in Subs |-> IF v = u THEN to
                             ELSE IF owner[v] = u /\ stage[v] = "owned" THEN "executed"
                             ELSE stage[v]]
MutantDisown(u) == owner' = owner
Disown(u) == owner' = [v \in Subs |-> IF owner[v] = u THEN v ELSE owner[v]]

\* The last Arc of the GraphExecHandle goes.
Unreferenced(g) ==
    /\ g \notin graphs
    /\ \A u \in Subs : Kind[u] = "launch" /\ GraphOf[u] = g => stage[u] \in {"new", "done"}

DestroyGraph(g) ==
    /\ Kind[g] = "capture" /\ stage[g] = "ready"
    /\ Unreferenced(g)
    /\ Keep(g, {})
    /\ Orphan(g, "done") /\ Disown(g)
    /\ UNCHANGED <<aliases, nodes, graphs, queue, dead>>

-----------------------------------------------------------------------------
(* Completion: Submission::complete, or its drop *)

\* A future proved its work done, or sync_on its stream drained.
Complete(u) ==
    /\ Kind[u] \in {"op", "launch"} /\ Move(u, "executed", "releasing")
    /\ ~InFlight(u)
    /\ UNCHANGED <<accesses, leases, aliases, owner, nodes, graphs, queue, dead>>

\* OwnerSet::is_empty: a launch holds its graph.
HoldsNothing(u) == Kind[u] # "launch" /\ Of(leases, u) = {}

DropEmpty(u) ==
    /\ HoldsNothing(u) /\ Move(u, "executed", "done")
    /\ UNCHANGED <<accesses, leases, aliases, owner, nodes, graphs, queue, dead>>

\* The stream is drained at the probe, or once synchronize returns.
MutantDrained(st) == TRUE
Drained(st) == queue[st] = <<>> /\ ~dead /\ ~Capturing(st)

DropReleases(u) ==
    /\ ~HoldsNothing(u) /\ Move(u, "executed", "releasing")
    /\ Drained(StreamOf[u])
    /\ UNCHANGED <<accesses, leases, aliases, owner, nodes, graphs, queue, dead>>

\* Its future was forgotten, or the drop could not bind the context, found
\* it dead or the stream under capture: everything it holds is forgotten.
Leak(u) ==
    /\ ~HoldsNothing(u) /\ stage[u] = "executed"
    /\ stage' = [v \in Subs |-> IF v = u \/ owner[v] = u THEN "leaked" ELSE stage[v]]
    /\ UNCHANGED <<accesses, leases, aliases, owner, nodes, graphs, queue, dead>>

\* AccessLease::drop: the entry goes first, then the Arc, one lease at a time.
MutantReleaseAccess(u, a) ==
    /\ stage[u] = "releasing" /\ Of(leases, u) \subseteq accesses
    /\ a \in Of(accesses, u)
    /\ leases' = leases \ {a} /\ accesses' = accesses
    /\ UNCHANGED <<aliases, stage, owner, nodes, graphs, queue, dead>>
ReleaseAccess(u, a) ==
    /\ stage[u] = "releasing" /\ Of(leases, u) \subseteq accesses
    /\ a \in Of(accesses, u)
    /\ accesses' = accesses \ {a}
    /\ UNCHANGED <<leases, aliases, stage, owner, nodes, graphs, queue, dead>>

DropLease(u) ==
    /\ stage[u] = "releasing" /\ ~(Of(leases, u) \subseteq accesses)
    /\ leases' = leases \ {a \in Of(leases, u) : a \notin accesses}
    /\ UNCHANGED <<accesses, aliases, stage, owner, nodes, graphs, queue, dead>>

ReleaseDone(u) ==
    /\ stage[u] = "releasing" /\ Of(leases, u) = {}
    /\ Orphan(u, "done") /\ Disown(u)
    /\ UNCHANGED <<accesses, leases, aliases, nodes, graphs, queue, dead>>

-----------------------------------------------------------------------------
(* The program's tensors and the device *)

Alias(s) ==
    /\ aliases[s] \in 1 .. MaxAliases - 1
    /\ aliases' = [aliases EXCEPT ![s] = @ + 1]
    /\ UNCHANGED <<accesses, leases, stage, owner, nodes, graphs, queue, dead>>

Cloning(s) == \E a \in On(accesses, s) : stage[a.sub] = "cloning" /\ a \notin leases

\* The last tensor is not dropped while a thread is cloning its storage.
DropAlias(s) ==
    /\ aliases[s] > 0 /\ (aliases[s] = 1 => ~Cloning(s))
    /\ aliases' = [aliases EXCEPT ![s] = @ - 1]
    /\ UNCHANGED <<accesses, leases, stage, owner, nodes, graphs, queue, dead>>

Run(st) ==
    /\ queue[st] # <<>> /\ ~dead
    /\ queue' = [queue EXCEPT ![st] = Tail(@)]
    /\ UNCHANGED <<accesses, leases, aliases, stage, owner, nodes, graphs, dead>>

Fault ==
    /\ ~dead /\ dead' = TRUE
    /\ UNCHANGED <<accesses, leases, aliases, stage, owner, nodes, graphs, queue>>

Execution(u) ==
    \/ Begin(u) \/ Submit(u) \/ UpdatePanics(u) \/ TakePending(u)
    \/ \E x \in Use : RegisterAccess(u, x) \/ RetainRefused(u, x)

Ending(u) ==
    \/ CloneStorage(u) \/ Executed(u) \/ AdoptCapture(u) \/ CaptureFails(u)
    \/ GraphLaunch(u) \/ GraphLaunchFails(u)

Completion(u) ==
    \/ Complete(u) \/ DropEmpty(u) \/ DropReleases(u) \/ DropLease(u)
    \/ ReleaseDone(u) \/ DestroyGraph(u)
    \/ \E a \in accesses : ReleaseAccess(u, a)

Next ==
    \/ \E u \in Subs : \/ Execution(u) \/ Ending(u) \/ Completion(u) \/ Leak(u)
                        \/ DropGraph(u)
    \/ \E s \in Storages : Alias(s) \/ DropAlias(s)
    \/ \E st \in Streams : Run(st)
    \/ Fault

Spec == Init /\ [][Next]_vars

\* Every execute returns, the host drops what it is done with and the device
\* makes progress.
Fairness ==
    /\ \A u \in Subs : WF_vars(Ending(u)) /\ WF_vars(Completion(u))
    /\ \A st \in Streams : WF_vars(Run(st))

LiveSpec == Spec /\ Fairness

-----------------------------------------------------------------------------
(* Properties *)

Stages == {"new", "executing", "cloning", "launching", "executed", "owned",
           "ready", "releasing", "done", "leaked"}

\* The state is well typed, and only an update that was left to its graph or
\* leaked with its launch has another owner than itself.
TypeOK ==
    /\ accesses \subseteq Access /\ leases \subseteq Access
    /\ aliases \in [Storages -> 0 .. MaxAliases]
    /\ stage \in [Subs -> Stages]
    /\ owner \in [Subs -> Subs]
    /\ nodes \in [Subs -> SUBSET Use]
    /\ graphs \subseteq Captures
    /\ queue \in [Streams -> Seq(Item)]
    /\ dead \in BOOLEAN
    /\ \A v \in Subs : owner[v] # v => Kind[v] = "update" /\ stage[v] \in {"owned", "leaked"}

Items(st) == {queue[st][i] : i \in 1 .. Len(queue[st])}

\* Work in flight on two streams never touches one storage with a write
\* among the accesses, replays of graphs included (register_access).
NoDeviceRace ==
    \A st1, st2 \in Streams : st1 # st2 =>
        \A i \in Items(st1), j \in Items(st2) :
            \A x \in i.uses, y \in j.uses :
                x.storage = y.storage => ~x.write /\ ~y.write

Live(s) == aliases[s] > 0 \/ On(leases, s) # {}

\* Whatever work in flight uses is still allocated, and the graph of a
\* launch in flight is still instantiated.
NoUseAfterFree ==
    \A st \in Streams : \A i \in Items(st) :
        /\ \A x \in i.uses : Live(x.storage)
        /\ Kind[i.sub] = "launch" => stage[GraphOf[i.sub]] = "ready"

\* Storage::is_unique, asked through one of the program's tensors
IsUnique(s) ==
    aliases[s] + Cardinality(On(leases, s)) = 1 + Cardinality(On(accesses, s))

\* is_unique never overlooks an alias while leases are released, only (see
\* UniqueNeverOverlooks) while one is being taken.
UniqueSound == \A s \in Storages : IsUnique(s) /\ ~Cloning(s) => aliases[s] <= 1

\* "uniqueness checks ... can never overlook a real alias" (release_access)
UniqueNeverOverlooks == \A s \in Storages : IsUnique(s) => aliases[s] <= 1

\* The leases of an update left to a graph are returned once the graph is
\* dropped, whether a replay took the update over or not, unless the device
\* faults or a leaked submission keeps the graph or the update for good.
PendingReturned ==
    \A v \in Subs :
        (stage[v] = "owned" /\ GraphOf[v] \notin graphs)
            ~> (Of(leases, v) = {} \/ dead \/ \E u \in Subs : stage[u] = "leaked")
=============================================================================
