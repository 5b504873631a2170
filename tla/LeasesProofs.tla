---------------------------- MODULE LeasesProofs ----------------------------
(***************************************************************************)
(* Proofs about Leases, for any set of submissions, storages and streams.   *)
(* The inductive invariant says what ties the pieces together: the registry *)
(* and the leases agree except while a lease is being taken or released,    *)
(* registered accesses never conflict, and every item in flight is covered  *)
(* by leases of its own submission.                                         *)
(***************************************************************************)
EXTENDS Leases, FiniteSetTheorems, TLAPS

RegistryOK ==
    /\ \A a \in accesses : a \in leases \/ stage[a.sub] = "cloning"
    /\ \A a \in leases : a \in accesses \/ stage[a.sub] = "releasing"

FiniteOK == IsFiniteSet(accesses) /\ IsFiniteSet(leases)

ExclusionOK ==
    \A a, b \in accesses :
        a.storage = b.storage /\ ~IsRecording(a.sub) /\ ~IsRecording(b.sub)
            /\ (a.write \/ b.write)
        => StreamOf[a.sub] = StreamOf[b.sub]

StageOK ==
    \A u \in Subs :
        /\ Kind[u] = "capture" =>
               stage[u] \in {"new", "executing", "cloning", "ready", "done"}
        /\ stage[u] = "launching" => Kind[u] = "launch"
        /\ stage[u] = "ready" => Kind[u] = "capture"
        /\ stage[u] = "owned" => Kind[u] = "update"
        /\ u \in graphs => stage[u] = "ready"
        /\ Kind[u] = "launch" /\ stage[u] \notin {"new", "done"} =>
               stage[GraphOf[u]] = "ready"

Covers(u, x) ==
    \E a \in leases : a.sub = u /\ a.storage = x.storage /\ (x.write => a.write)

CaptureOK ==
    \A g \in Subs : stage[g] = "ready" => \A x \in nodes[g] : Covers(g, x)

LaunchOK ==
    \A u \in Subs : stage[u] = "launching" => \A x \in nodes[GraphOf[u]] : Covers(u, x)

Flying == {"executing", "cloning", "launching", "executed", "owned", "leaked"}

FlightOK ==
    \A st \in Streams : \A i \in 1 .. Len(queue[st]) :
        /\ StreamOf[queue[st][i].sub] = st
        /\ Kind[queue[st][i].sub] # "capture"
        /\ \A x \in queue[st][i].uses : Covers(queue[st][i].sub, x)
        /\ queue[st][i].uses # {} \/ Kind[queue[st][i].sub] = "launch" =>
               stage[queue[st][i].sub] \in Flying

IInv ==
    /\ TypeOK /\ RegistryOK /\ FiniteOK /\ ExclusionOK /\ StageOK
    /\ CaptureOK /\ LaunchOK /\ FlightOK

-----------------------------------------------------------------------------
(* Each part of the invariant is preserved by every step *)

\* execute returns: an update is left to its graph, anything else to itself.
LEMMA ReturnTyped ==
    ASSUME IInv, NEW u \in Subs, NEW from \in Stages \ {"owned", "leaked"}, Return(u, from)
    PROVE  /\ stage' \in [Subs -> Stages] /\ owner' \in [Subs -> Subs]
           /\ \A v \in Subs : owner'[v] # v =>
                  Kind[v] = "update" /\ stage'[v] \in {"owned", "leaked"}
<1>1. stage' \in [Subs -> Stages] /\ owner' \in [Subs -> Subs]
  BY LeasesAssumption DEF IInv, TypeOK, Return, Move, Stages
<1>2. ASSUME NEW v \in Subs, owner'[v] # v
      PROVE  Kind[v] = "update" /\ stage'[v] \in {"owned", "leaked"}
  <2>1. CASE v = u
    BY <1>2, <2>1 DEF IInv, TypeOK, Return, Move
  <2>2. CASE v # u
    BY <1>2, <2>2 DEF IInv, TypeOK, Return, Move
  <2>3. QED
    BY <2>1, <2>2
<1>3. QED
  BY <1>1, <1>2

\* An item in flight names a submission and what it uses.
LEMMA ItemTyped == IInv => \A st \in Streams : \A i \in 1 .. Len(queue[st]) :
                       queue[st][i].sub \in Subs /\ queue[st][i].uses \subseteq Use
<1>. SUFFICES ASSUME IInv, NEW st \in Streams, NEW i \in 1 .. Len(queue[st])
              PROVE  queue[st][i].sub \in Subs /\ queue[st][i].uses \subseteq Use
  OBVIOUS
<1>1. queue[st] \in Seq(Item)
  BY DEF IInv, TypeOK
<1>2. queue[st][i] \in Item
  BY <1>1
<1>3. QED
  BY <1>2 DEF Item

\* Every step keeps the state well typed, owners of updates included.
LEMMA TypeStep == IInv /\ [Next]_vars => TypeOK'
<1>. SUFFICES ASSUME IInv, [Next]_vars PROVE TypeOK'
  OBVIOUS
<1>1. ASSUME NEW u \in Subs, Begin(u) PROVE TypeOK'
  BY <1>1, LeasesAssumption DEF IInv, TypeOK, Stages, Begin, Move
<1>2. ASSUME NEW u \in Subs, CloneStorage(u) PROVE TypeOK'
  BY <1>2 DEF IInv, TypeOK, Stages, CloneStorage, Move, Of
<1>3. ASSUME NEW u \in Subs, Submit(u) PROVE TypeOK'
  <2>1. [sub |-> u, uses |-> Uses(u)] \in Item
    BY DEF IInv, TypeOK, Uses, Of, Use, Access, Item
  <2>2. QED
    BY <1>3, <2>1, LeasesAssumption DEF IInv, TypeOK, Submit, Enqueue
<1>4. ASSUME NEW u \in Subs, Executed(u) PROVE TypeOK'
  <2>1. Return(u, "executing") /\ queue' = queue
    BY <1>4 DEF Executed
  <2>2. QED
    BY <2>1, ReturnTyped DEF IInv, TypeOK, Stages, Return
<1>5. ASSUME NEW u \in Subs, UpdatePanics(u) PROVE TypeOK'
  BY <1>5, LeasesAssumption DEF IInv, TypeOK, Stages, UpdatePanics, Move
<1>6. ASSUME NEW u \in Subs, TakePending(u) PROVE TypeOK'
  <2>1. stage' \in [Subs -> Stages] /\ owner' \in [Subs -> Subs]
    BY <1>6 DEF IInv, TypeOK, Stages, TakePending, Move
  <2>2. ASSUME NEW v \in Subs, owner'[v] # v
        PROVE  Kind[v] = "update" /\ stage'[v] \in {"owned", "leaked"}
    BY <1>6, <2>2 DEF IInv, TypeOK, StageOK, TakePending, Move
  <2>3. QED
    BY <1>6, <2>1, <2>2 DEF IInv, TypeOK, TakePending
<1>7. ASSUME NEW u \in Subs, AdoptCapture(u) PROVE TypeOK'
  <2>1. Uses(u) \in SUBSET Use
    BY DEF IInv, TypeOK, Uses, Of, Use, Access
  <2>2. Kept(u) \subseteq leases
    BY DEF Kept, Of
  <2>3. QED
    BY <1>7, <2>1, <2>2 DEF IInv, TypeOK, Stages, AdoptCapture, Move, Keep, Captures
<1>8. ASSUME NEW u \in Subs, CaptureFails(u) PROVE TypeOK'
  BY <1>8, LeasesAssumption
     DEF IInv, TypeOK, Stages, CaptureFails, Move, Keep, Of
<1>9. ASSUME NEW u \in Subs, GraphLaunch(u) PROVE TypeOK'
  <2>1. [sub |-> u, uses |-> nodes[GraphOf[u]]] \in Item
    BY LeasesAssumption DEF IInv, TypeOK, Item
  <2>2. queue' \in [Streams -> Seq(Item)]
    BY <1>9, <2>1, LeasesAssumption DEF IInv, TypeOK, GraphLaunch, Enqueue
  <2>3. Return(u, "launching")
    BY <1>9 DEF GraphLaunch
  <2>4. QED
    BY <2>2, <2>3, ReturnTyped DEF IInv, TypeOK, Stages, Return
<1>10. ASSUME NEW u \in Subs, GraphLaunchFails(u) PROVE TypeOK'
  <2>1. Return(u, "launching") /\ queue' = queue
    BY <1>10 DEF GraphLaunchFails
  <2>2. QED
    BY <2>1, ReturnTyped DEF IInv, TypeOK, Stages, Return
<1>11. ASSUME NEW u \in Subs, Complete(u) PROVE TypeOK'
  BY <1>11, LeasesAssumption DEF IInv, TypeOK, Stages, Complete, Move
<1>12. ASSUME NEW u \in Subs, DropEmpty(u) PROVE TypeOK'
  BY <1>12, LeasesAssumption DEF IInv, TypeOK, Stages, DropEmpty, Move
<1>13. ASSUME NEW u \in Subs, DropReleases(u) PROVE TypeOK'
  BY <1>13, LeasesAssumption DEF IInv, TypeOK, Stages, DropReleases, Move
<1>14. ASSUME NEW u \in Subs, DropLease(u) PROVE TypeOK'
  BY <1>14, LeasesAssumption
     DEF IInv, TypeOK, Stages, DropLease, Of
<1>15. ASSUME NEW u \in Subs, ReleaseDone(u) PROVE TypeOK'
  BY <1>15, LeasesAssumption
     DEF IInv, TypeOK, Stages, ReleaseDone, Orphan, Disown, Of
<1>16. ASSUME NEW u \in Subs, DestroyGraph(u) PROVE TypeOK'
  BY <1>16, LeasesAssumption
     DEF IInv, TypeOK, Stages, DestroyGraph, Keep, Orphan, Disown, Of
<1>17. ASSUME NEW u \in Subs, Leak(u) PROVE TypeOK'
  BY <1>17, LeasesAssumption
     DEF IInv, TypeOK, Stages, Leak
<1>18. ASSUME NEW u \in Subs, DropGraph(u) PROVE TypeOK'
  BY <1>18, LeasesAssumption
     DEF IInv, TypeOK, Stages, DropGraph
<1>19. ASSUME NEW u \in Subs, NEW x \in Use, RegisterAccess(u, x) PROVE TypeOK'
  <2>1. Lease(u, x) \in Access
    BY DEF Lease, Use, Access
  <2>2. QED
    BY <1>19, <2>1 DEF IInv, TypeOK, Stages, RegisterAccess, Move
<1>20. ASSUME NEW u \in Subs, NEW x \in Use, RetainRefused(u, x) PROVE TypeOK'
  <2>1. Return(u, "executing") /\ queue' = queue
    BY <1>20 DEF RetainRefused
  <2>2. QED
    BY <2>1, ReturnTyped DEF IInv, TypeOK, Stages, Return
<1>21. ASSUME NEW u \in Subs, NEW a \in accesses, ReleaseAccess(u, a) PROVE TypeOK'
  BY <1>21, LeasesAssumption
     DEF IInv, TypeOK, Stages, ReleaseAccess, Of
<1>22. ASSUME NEW s \in Storages, Alias(s) PROVE TypeOK'
  BY <1>22, LeasesAssumption DEF IInv, TypeOK, Alias
<1>23. ASSUME NEW s \in Storages, DropAlias(s) PROVE TypeOK'
  BY <1>23, LeasesAssumption DEF IInv, TypeOK, DropAlias
<1>24. ASSUME NEW st \in Streams, Run(st) PROVE TypeOK'
  <2>1. Tail(queue[st]) \in Seq(Item)
    BY <1>24 DEF IInv, TypeOK, Run
  <2>2. QED
    BY <1>24, <2>1 DEF IInv, TypeOK, Run
<1>25. ASSUME Fault PROVE TypeOK'
  BY <1>25, LeasesAssumption
     DEF IInv, TypeOK, Stages, Fault
<1>26. CASE UNCHANGED vars
  BY <1>26 DEF IInv, vars, TypeOK, Stages
<1>27. QED
  BY <1>1, <1>2, <1>3, <1>4, <1>5, <1>6, <1>7, <1>8, <1>9, <1>10, <1>11,
     <1>12, <1>13, <1>14, <1>15, <1>16, <1>17, <1>18, <1>19, <1>20, <1>21,
     <1>22, <1>23, <1>24, <1>25, <1>26
     DEF Next, Execution, Ending, Completion

\* Registry and leases agree except while a lease is taken or released.
LEMMA RegistryStep == IInv /\ [Next]_vars => RegistryOK'
<1>. SUFFICES ASSUME IInv, [Next]_vars PROVE RegistryOK'
  OBVIOUS
<1>1. ASSUME NEW u \in Subs, Begin(u) PROVE RegistryOK'
  BY <1>1, LeasesAssumption
     DEF IInv, TypeOK, Access, RegistryOK, StageOK, Begin, Move
<1>2. ASSUME NEW u \in Subs, CloneStorage(u) PROVE RegistryOK'
  BY <1>2 DEF IInv, TypeOK, RegistryOK, CloneStorage, Move, Of, Access
<1>3. ASSUME NEW u \in Subs, Submit(u) PROVE RegistryOK'
  BY <1>3, LeasesAssumption
     DEF IInv, TypeOK, Access, RegistryOK, StageOK, Submit, Enqueue, Uses, Of
<1>4. ASSUME NEW u \in Subs, Executed(u) PROVE RegistryOK'
  BY <1>4, LeasesAssumption
     DEF IInv, TypeOK, Access, RegistryOK, StageOK, Executed, Return, Move
<1>5. ASSUME NEW u \in Subs, UpdatePanics(u) PROVE RegistryOK'
  BY <1>5, LeasesAssumption
     DEF IInv, TypeOK, Access, RegistryOK, StageOK, UpdatePanics, Move
<1>6. ASSUME NEW u \in Subs, TakePending(u) PROVE RegistryOK'
  BY <1>6, LeasesAssumption
     DEF IInv, TypeOK, Access, RegistryOK, StageOK, TakePending, Move
<1>7. ASSUME NEW u \in Subs, AdoptCapture(u) PROVE RegistryOK'
  <2>1. Kept(u) \subseteq Of(leases, u)
    BY DEF Kept
  <2>2. QED
    BY <1>7, <2>1 DEF IInv, TypeOK, RegistryOK, AdoptCapture, Move, Keep, Of, Access
<1>8. ASSUME NEW u \in Subs, CaptureFails(u) PROVE RegistryOK'
  BY <1>8, LeasesAssumption
     DEF IInv, TypeOK, Access, RegistryOK, StageOK, CaptureFails, Move, Keep, Of
<1>9. ASSUME NEW u \in Subs, GraphLaunch(u) PROVE RegistryOK'
  BY <1>9, LeasesAssumption
     DEF IInv, TypeOK, Access, RegistryOK, StageOK, GraphLaunch, Return, Move, Enqueue
<1>10. ASSUME NEW u \in Subs, GraphLaunchFails(u) PROVE RegistryOK'
  BY <1>10, LeasesAssumption
     DEF IInv, TypeOK, Access, RegistryOK, StageOK, GraphLaunchFails, Return, Move
<1>11. ASSUME NEW u \in Subs, Complete(u) PROVE RegistryOK'
  BY <1>11, LeasesAssumption
     DEF IInv, TypeOK, Access, RegistryOK, StageOK, Complete, Move
<1>12. ASSUME NEW u \in Subs, DropEmpty(u) PROVE RegistryOK'
  BY <1>12, LeasesAssumption
     DEF IInv, TypeOK, Access, RegistryOK, StageOK, DropEmpty, Move
<1>13. ASSUME NEW u \in Subs, DropReleases(u) PROVE RegistryOK'
  BY <1>13, LeasesAssumption
     DEF IInv, TypeOK, Access, RegistryOK, StageOK, DropReleases, Move
<1>14. ASSUME NEW u \in Subs, DropLease(u) PROVE RegistryOK'
  BY <1>14, LeasesAssumption
     DEF IInv, TypeOK, Access, RegistryOK, StageOK, DropLease, Of
<1>15. ASSUME NEW u \in Subs, ReleaseDone(u) PROVE RegistryOK'
  BY <1>15, LeasesAssumption
     DEF IInv, TypeOK, Access, RegistryOK, StageOK, ReleaseDone, Orphan, Disown, Of
<1>16. ASSUME NEW u \in Subs, DestroyGraph(u) PROVE RegistryOK'
  BY <1>16, LeasesAssumption
     DEF IInv, TypeOK, Access, RegistryOK, StageOK, DestroyGraph, Keep, Orphan, Disown, Of
<1>17. ASSUME NEW u \in Subs, Leak(u) PROVE RegistryOK'
  <2>1. \A v \in Subs : stage[v] \in {"cloning", "releasing"} => stage'[v] = stage[v]
    BY <1>17 DEF IInv, TypeOK, Leak
  <2>2. \A a \in accesses \cup leases : a.sub \in Subs
    BY DEF IInv, TypeOK, Access
  <2>3. QED
    BY <1>17, <2>1, <2>2 DEF IInv, RegistryOK, Leak
<1>18. ASSUME NEW u \in Subs, DropGraph(u) PROVE RegistryOK'
  BY <1>18, LeasesAssumption
     DEF IInv, TypeOK, Access, RegistryOK, StageOK, DropGraph
<1>19. ASSUME NEW u \in Subs, NEW x \in Use, RegisterAccess(u, x) PROVE RegistryOK'
  BY <1>19, LeasesAssumption
     DEF IInv, TypeOK, Access, RegistryOK, StageOK, RegisterAccess, Move, Lease
<1>20. ASSUME NEW u \in Subs, NEW x \in Use, RetainRefused(u, x) PROVE RegistryOK'
  BY <1>20, LeasesAssumption
     DEF IInv, TypeOK, Access, RegistryOK, StageOK, RetainRefused, Return, Move
<1>21. ASSUME NEW u \in Subs, NEW a \in accesses, ReleaseAccess(u, a) PROVE RegistryOK'
  BY <1>21, LeasesAssumption
     DEF IInv, TypeOK, Access, RegistryOK, StageOK, ReleaseAccess, Of
<1>22. ASSUME NEW s \in Storages, Alias(s) PROVE RegistryOK'
  BY <1>22, LeasesAssumption
     DEF IInv, TypeOK, Access, RegistryOK, StageOK, Alias
<1>23. ASSUME NEW s \in Storages, DropAlias(s) PROVE RegistryOK'
  BY <1>23, LeasesAssumption
     DEF IInv, TypeOK, Access, RegistryOK, StageOK, DropAlias
<1>24. ASSUME NEW st \in Streams, Run(st) PROVE RegistryOK'
  BY <1>24, LeasesAssumption
     DEF IInv, TypeOK, Access, RegistryOK, StageOK, Run
<1>25. ASSUME Fault PROVE RegistryOK'
  BY <1>25, LeasesAssumption
     DEF IInv, TypeOK, Access, RegistryOK, StageOK, Fault
<1>26. CASE UNCHANGED vars
  BY <1>26 DEF IInv, vars, TypeOK, Access, RegistryOK, StageOK
<1>27. QED
  BY <1>1, <1>2, <1>3, <1>4, <1>5, <1>6, <1>7, <1>8, <1>9, <1>10, <1>11,
     <1>12, <1>13, <1>14, <1>15, <1>16, <1>17, <1>18, <1>19, <1>20, <1>21,
     <1>22, <1>23, <1>24, <1>25, <1>26
     DEF Next, Execution, Ending, Completion

\* Only finitely many accesses are ever registered or leased.
LEMMA FiniteStep == IInv /\ [Next]_vars => FiniteOK'
<1>. SUFFICES ASSUME IInv, [Next]_vars PROVE FiniteOK'
  OBVIOUS
<1>1. ASSUME NEW u \in Subs, Begin(u) PROVE FiniteOK'
  BY <1>1
     DEF IInv, FiniteOK, Begin, Move
<1>2. ASSUME NEW u \in Subs, CloneStorage(u) PROVE FiniteOK'
  <2>1. Of(accesses, u) \subseteq accesses
    BY DEF Of
  <2>2. QED
    BY <1>2, <2>1, FS_Subset, FS_Union DEF IInv, FiniteOK, CloneStorage
<1>3. ASSUME NEW u \in Subs, Submit(u) PROVE FiniteOK'
  BY <1>3
     DEF IInv, FiniteOK, Submit, Enqueue, Uses, Of
<1>4. ASSUME NEW u \in Subs, Executed(u) PROVE FiniteOK'
  BY <1>4
     DEF IInv, FiniteOK, Executed, Return, Move
<1>5. ASSUME NEW u \in Subs, UpdatePanics(u) PROVE FiniteOK'
  BY <1>5
     DEF IInv, FiniteOK, UpdatePanics, Move
<1>6. ASSUME NEW u \in Subs, TakePending(u) PROVE FiniteOK'
  BY <1>6
     DEF IInv, FiniteOK, TakePending, Move
<1>7. ASSUME NEW u \in Subs, AdoptCapture(u) PROVE FiniteOK'
  <2>1. Kept(u) \subseteq leases
    BY DEF Kept, Of
  <2>2. accesses' \subseteq accesses \cup leases /\ leases' \subseteq leases
    BY <1>7, <2>1 DEF AdoptCapture, Keep
  <2>3. QED
    BY <2>2, FS_Subset, FS_Union DEF IInv, FiniteOK
<1>8. ASSUME NEW u \in Subs, CaptureFails(u) PROVE FiniteOK'
  <2>1. accesses' \subseteq accesses /\ leases' \subseteq leases
    BY <1>8 DEF CaptureFails, Keep
  <2>2. QED
    BY <2>1, FS_Subset DEF IInv, FiniteOK
<1>9. ASSUME NEW u \in Subs, GraphLaunch(u) PROVE FiniteOK'
  BY <1>9
     DEF IInv, FiniteOK, GraphLaunch, Return, Move, Enqueue
<1>10. ASSUME NEW u \in Subs, GraphLaunchFails(u) PROVE FiniteOK'
  BY <1>10
     DEF IInv, FiniteOK, GraphLaunchFails, Return, Move
<1>11. ASSUME NEW u \in Subs, Complete(u) PROVE FiniteOK'
  BY <1>11
     DEF IInv, FiniteOK, Complete, Move
<1>12. ASSUME NEW u \in Subs, DropEmpty(u) PROVE FiniteOK'
  BY <1>12
     DEF IInv, FiniteOK, DropEmpty, Move
<1>13. ASSUME NEW u \in Subs, DropReleases(u) PROVE FiniteOK'
  BY <1>13
     DEF IInv, FiniteOK, DropReleases, Move
<1>14. ASSUME NEW u \in Subs, DropLease(u) PROVE FiniteOK'
  <2>1. leases' \subseteq leases /\ accesses' = accesses
    BY <1>14 DEF DropLease
  <2>2. QED
    BY <2>1, FS_Subset DEF IInv, FiniteOK
<1>15. ASSUME NEW u \in Subs, ReleaseDone(u) PROVE FiniteOK'
  BY <1>15
     DEF IInv, FiniteOK, ReleaseDone, Orphan, Disown, Of
<1>16. ASSUME NEW u \in Subs, DestroyGraph(u) PROVE FiniteOK'
  <2>1. accesses' \subseteq accesses /\ leases' \subseteq leases
    BY <1>16 DEF DestroyGraph, Keep
  <2>2. QED
    BY <2>1, FS_Subset DEF IInv, FiniteOK
<1>17. ASSUME NEW u \in Subs, Leak(u) PROVE FiniteOK'
  BY <1>17
     DEF IInv, FiniteOK, Leak
<1>18. ASSUME NEW u \in Subs, DropGraph(u) PROVE FiniteOK'
  BY <1>18
     DEF IInv, FiniteOK, DropGraph
<1>19. ASSUME NEW u \in Subs, NEW x \in Use, RegisterAccess(u, x) PROVE FiniteOK'
  BY <1>19, FS_AddElement DEF IInv, FiniteOK, RegisterAccess
<1>20. ASSUME NEW u \in Subs, NEW x \in Use, RetainRefused(u, x) PROVE FiniteOK'
  BY <1>20
     DEF IInv, FiniteOK, RetainRefused, Return, Move
<1>21. ASSUME NEW u \in Subs, NEW a \in accesses, ReleaseAccess(u, a) PROVE FiniteOK'
  <2>1. accesses' \subseteq accesses /\ leases' = leases
    BY <1>21 DEF ReleaseAccess
  <2>2. QED
    BY <2>1, FS_Subset DEF IInv, FiniteOK
<1>22. ASSUME NEW s \in Storages, Alias(s) PROVE FiniteOK'
  BY <1>22
     DEF IInv, FiniteOK, Alias
<1>23. ASSUME NEW s \in Storages, DropAlias(s) PROVE FiniteOK'
  BY <1>23
     DEF IInv, FiniteOK, DropAlias
<1>24. ASSUME NEW st \in Streams, Run(st) PROVE FiniteOK'
  BY <1>24
     DEF IInv, FiniteOK, Run
<1>25. ASSUME Fault PROVE FiniteOK'
  BY <1>25
     DEF IInv, FiniteOK, Fault
<1>26. CASE UNCHANGED vars
  BY <1>26 DEF IInv, vars, FiniteOK
<1>27. QED
  BY <1>1, <1>2, <1>3, <1>4, <1>5, <1>6, <1>7, <1>8, <1>9, <1>10, <1>11,
     <1>12, <1>13, <1>14, <1>15, <1>16, <1>17, <1>18, <1>19, <1>20, <1>21,
     <1>22, <1>23, <1>24, <1>25, <1>26
     DEF Next, Execution, Ending, Completion

\* register_access admits no access that conflicts with another stream's.
LEMMA ExclusionStep == IInv /\ [Next]_vars => ExclusionOK'
<1>. SUFFICES ASSUME IInv, [Next]_vars PROVE ExclusionOK'
  OBVIOUS
<1>1. ASSUME NEW u \in Subs, Begin(u) PROVE ExclusionOK'
  BY <1>1, LeasesAssumption
     DEF IInv, TypeOK, Access, ExclusionOK, IsRecording, Begin, Move
<1>2. ASSUME NEW u \in Subs, CloneStorage(u) PROVE ExclusionOK'
  BY <1>2, LeasesAssumption
     DEF IInv, TypeOK, Access, ExclusionOK, IsRecording, CloneStorage, Move, Of
<1>3. ASSUME NEW u \in Subs, Submit(u) PROVE ExclusionOK'
  BY <1>3, LeasesAssumption
     DEF IInv, TypeOK, Access, ExclusionOK, IsRecording, Submit, Enqueue, Uses, Of
<1>4. ASSUME NEW u \in Subs, Executed(u) PROVE ExclusionOK'
  BY <1>4, LeasesAssumption
     DEF IInv, TypeOK, Access, ExclusionOK, IsRecording, Executed, Return, Move
<1>5. ASSUME NEW u \in Subs, UpdatePanics(u) PROVE ExclusionOK'
  BY <1>5, LeasesAssumption
     DEF IInv, TypeOK, Access, ExclusionOK, IsRecording, UpdatePanics, Move
<1>6. ASSUME NEW u \in Subs, TakePending(u) PROVE ExclusionOK'
  BY <1>6, LeasesAssumption
     DEF IInv, TypeOK, Access, ExclusionOK, IsRecording, TakePending, Move
<1>7. ASSUME NEW u \in Subs, AdoptCapture(u) PROVE ExclusionOK'
  BY <1>7, LeasesAssumption
     DEF IInv, TypeOK, Access, ExclusionOK, IsRecording, AdoptCapture, Move, Keep, Kept, Uses, Of
<1>8. ASSUME NEW u \in Subs, CaptureFails(u) PROVE ExclusionOK'
  BY <1>8, LeasesAssumption
     DEF IInv, TypeOK, Access, ExclusionOK, IsRecording, CaptureFails, Move, Keep, Of
<1>9. ASSUME NEW u \in Subs, GraphLaunch(u) PROVE ExclusionOK'
  BY <1>9, LeasesAssumption
     DEF IInv, TypeOK, Access, ExclusionOK, IsRecording, GraphLaunch, Return, Move, Enqueue
<1>10. ASSUME NEW u \in Subs, GraphLaunchFails(u) PROVE ExclusionOK'
  BY <1>10, LeasesAssumption
     DEF IInv, TypeOK, Access, ExclusionOK, IsRecording, GraphLaunchFails, Return, Move
<1>11. ASSUME NEW u \in Subs, Complete(u) PROVE ExclusionOK'
  BY <1>11, LeasesAssumption
     DEF IInv, TypeOK, Access, ExclusionOK, IsRecording, Complete, Move
<1>12. ASSUME NEW u \in Subs, DropEmpty(u) PROVE ExclusionOK'
  BY <1>12, LeasesAssumption
     DEF IInv, TypeOK, Access, ExclusionOK, IsRecording, DropEmpty, Move
<1>13. ASSUME NEW u \in Subs, DropReleases(u) PROVE ExclusionOK'
  BY <1>13, LeasesAssumption
     DEF IInv, TypeOK, Access, ExclusionOK, IsRecording, DropReleases, Move
<1>14. ASSUME NEW u \in Subs, DropLease(u) PROVE ExclusionOK'
  BY <1>14, LeasesAssumption
     DEF IInv, TypeOK, Access, ExclusionOK, IsRecording, DropLease, Of
<1>15. ASSUME NEW u \in Subs, ReleaseDone(u) PROVE ExclusionOK'
  BY <1>15, LeasesAssumption
     DEF IInv, TypeOK, Access, ExclusionOK, IsRecording, ReleaseDone, Orphan, Disown, Of
<1>16. ASSUME NEW u \in Subs, DestroyGraph(u) PROVE ExclusionOK'
  BY <1>16, LeasesAssumption
     DEF IInv, TypeOK, Access, ExclusionOK, IsRecording, DestroyGraph, Keep, Orphan, Disown, Of
<1>17. ASSUME NEW u \in Subs, Leak(u) PROVE ExclusionOK'
  BY <1>17, LeasesAssumption
     DEF IInv, TypeOK, Access, ExclusionOK, IsRecording, Leak
<1>18. ASSUME NEW u \in Subs, DropGraph(u) PROVE ExclusionOK'
  BY <1>18, LeasesAssumption
     DEF IInv, TypeOK, Access, ExclusionOK, IsRecording, DropGraph
<1>19. ASSUME NEW u \in Subs, NEW x \in Use, RegisterAccess(u, x) PROVE ExclusionOK'
  <2>. DEFINE a == Lease(u, x)
  <2>1. a.sub = u /\ a.storage = x.storage /\ a.write = x.write
    BY DEF Lease
  <2>2. ASSUME NEW b \in accesses, b.storage = x.storage, ~IsRecording(b.sub),
               ~IsRecording(u), b.write \/ x.write
        PROVE  StreamOf[b.sub] = StreamOf[u]
    BY <1>19, <2>2 DEF RegisterAccess, Conflict, On
  <2>. HIDE DEF a
  <2>3. accesses' = accesses \cup {a}
    BY <1>19 DEF RegisterAccess, a
  <2>4. QED
    BY <2>1, <2>2, <2>3 DEF IInv, ExclusionOK, IsRecording
<1>20. ASSUME NEW u \in Subs, NEW x \in Use, RetainRefused(u, x) PROVE ExclusionOK'
  BY <1>20, LeasesAssumption
     DEF IInv, TypeOK, Access, ExclusionOK, IsRecording, RetainRefused, Return, Move
<1>21. ASSUME NEW u \in Subs, NEW a \in accesses, ReleaseAccess(u, a) PROVE ExclusionOK'
  BY <1>21, LeasesAssumption
     DEF IInv, TypeOK, Access, ExclusionOK, IsRecording, ReleaseAccess, Of
<1>22. ASSUME NEW s \in Storages, Alias(s) PROVE ExclusionOK'
  BY <1>22, LeasesAssumption
     DEF IInv, TypeOK, Access, ExclusionOK, IsRecording, Alias
<1>23. ASSUME NEW s \in Storages, DropAlias(s) PROVE ExclusionOK'
  BY <1>23, LeasesAssumption
     DEF IInv, TypeOK, Access, ExclusionOK, IsRecording, DropAlias
<1>24. ASSUME NEW st \in Streams, Run(st) PROVE ExclusionOK'
  BY <1>24, LeasesAssumption
     DEF IInv, TypeOK, Access, ExclusionOK, IsRecording, Run
<1>25. ASSUME Fault PROVE ExclusionOK'
  BY <1>25, LeasesAssumption
     DEF IInv, TypeOK, Access, ExclusionOK, IsRecording, Fault
<1>26. CASE UNCHANGED vars
  BY <1>26 DEF IInv, vars, TypeOK, Access, ExclusionOK, IsRecording
<1>27. QED
  BY <1>1, <1>2, <1>3, <1>4, <1>5, <1>6, <1>7, <1>8, <1>9, <1>10, <1>11,
     <1>12, <1>13, <1>14, <1>15, <1>16, <1>17, <1>18, <1>19, <1>20, <1>21,
     <1>22, <1>23, <1>24, <1>25, <1>26
     DEF Next, Execution, Ending, Completion

\* A launch under way has its graph instantiated; captures are never submitted.
LEMMA StageStep == IInv /\ [Next]_vars => StageOK'
<1>. SUFFICES ASSUME IInv, [Next]_vars PROVE StageOK'
  OBVIOUS
<1>1. ASSUME NEW u \in Subs, Begin(u) PROVE StageOK'
  BY <1>1, LeasesAssumption
     DEF IInv, TypeOK, StageOK, Captures, Begin, Move
<1>2. ASSUME NEW u \in Subs, CloneStorage(u) PROVE StageOK'
  BY <1>2, LeasesAssumption
     DEF IInv, TypeOK, StageOK, Captures, CloneStorage, Move, Of
<1>3. ASSUME NEW u \in Subs, Submit(u) PROVE StageOK'
  BY <1>3, LeasesAssumption
     DEF IInv, TypeOK, StageOK, Captures, Submit, Enqueue, Uses, Of
<1>4. ASSUME NEW u \in Subs, Executed(u) PROVE StageOK'
  BY <1>4, LeasesAssumption
     DEF IInv, TypeOK, StageOK, Captures, Executed, Return, Move
<1>5. ASSUME NEW u \in Subs, UpdatePanics(u) PROVE StageOK'
  BY <1>5, LeasesAssumption
     DEF IInv, TypeOK, StageOK, Captures, UpdatePanics, Move
<1>6. ASSUME NEW u \in Subs, TakePending(u) PROVE StageOK'
  BY <1>6, LeasesAssumption
     DEF IInv, TypeOK, StageOK, Captures, TakePending, Move
<1>7. ASSUME NEW u \in Subs, AdoptCapture(u) PROVE StageOK'
  BY <1>7, LeasesAssumption
     DEF IInv, TypeOK, StageOK, Captures, AdoptCapture, Move, Keep, Kept, Uses, Of
<1>8. ASSUME NEW u \in Subs, CaptureFails(u) PROVE StageOK'
  BY <1>8, LeasesAssumption
     DEF IInv, TypeOK, StageOK, Captures, CaptureFails, Move, Keep, Of
<1>9. ASSUME NEW u \in Subs, GraphLaunch(u) PROVE StageOK'
  BY <1>9, LeasesAssumption
     DEF IInv, TypeOK, StageOK, Captures, GraphLaunch, Return, Move, Enqueue
<1>10. ASSUME NEW u \in Subs, GraphLaunchFails(u) PROVE StageOK'
  BY <1>10, LeasesAssumption
     DEF IInv, TypeOK, StageOK, Captures, GraphLaunchFails, Return, Move
<1>11. ASSUME NEW u \in Subs, Complete(u) PROVE StageOK'
  BY <1>11, LeasesAssumption
     DEF IInv, TypeOK, StageOK, Captures, Complete, Move
<1>12. ASSUME NEW u \in Subs, DropEmpty(u) PROVE StageOK'
  BY <1>12, LeasesAssumption
     DEF IInv, TypeOK, StageOK, Captures, DropEmpty, Move
<1>13. ASSUME NEW u \in Subs, DropReleases(u) PROVE StageOK'
  BY <1>13, LeasesAssumption
     DEF IInv, TypeOK, StageOK, Captures, DropReleases, Move
<1>14. ASSUME NEW u \in Subs, DropLease(u) PROVE StageOK'
  BY <1>14, LeasesAssumption
     DEF IInv, TypeOK, StageOK, Captures, DropLease, Of
<1>15. ASSUME NEW u \in Subs, ReleaseDone(u) PROVE StageOK'
  BY <1>15, LeasesAssumption
     DEF IInv, TypeOK, StageOK, Captures, ReleaseDone, Orphan, Disown, Of
<1>16. ASSUME NEW u \in Subs, DestroyGraph(u) PROVE StageOK'
  BY <1>16, LeasesAssumption DEF IInv, TypeOK, StageOK, DestroyGraph, Unreferenced, Orphan
<1>17. ASSUME NEW u \in Subs, Leak(u) PROVE StageOK'
  BY <1>17, LeasesAssumption
     DEF IInv, TypeOK, StageOK, Captures, Leak
<1>18. ASSUME NEW u \in Subs, DropGraph(u) PROVE StageOK'
  BY <1>18, LeasesAssumption
     DEF IInv, TypeOK, StageOK, Captures, DropGraph
<1>19. ASSUME NEW u \in Subs, NEW x \in Use, RegisterAccess(u, x) PROVE StageOK'
  BY <1>19, LeasesAssumption
     DEF IInv, TypeOK, StageOK, Captures, RegisterAccess, Move, Lease
<1>20. ASSUME NEW u \in Subs, NEW x \in Use, RetainRefused(u, x) PROVE StageOK'
  BY <1>20, LeasesAssumption DEF IInv, TypeOK, StageOK, RetainRefused, Conflict, IsRecording, Return, Move
<1>21. ASSUME NEW u \in Subs, NEW a \in accesses, ReleaseAccess(u, a) PROVE StageOK'
  BY <1>21, LeasesAssumption
     DEF IInv, TypeOK, StageOK, Captures, ReleaseAccess, Of
<1>22. ASSUME NEW s \in Storages, Alias(s) PROVE StageOK'
  BY <1>22, LeasesAssumption
     DEF IInv, TypeOK, StageOK, Captures, Alias
<1>23. ASSUME NEW s \in Storages, DropAlias(s) PROVE StageOK'
  BY <1>23, LeasesAssumption
     DEF IInv, TypeOK, StageOK, Captures, DropAlias
<1>24. ASSUME NEW st \in Streams, Run(st) PROVE StageOK'
  BY <1>24, LeasesAssumption
     DEF IInv, TypeOK, StageOK, Captures, Run
<1>25. ASSUME Fault PROVE StageOK'
  BY <1>25, LeasesAssumption
     DEF IInv, TypeOK, StageOK, Captures, Fault
<1>26. CASE UNCHANGED vars
  BY <1>26 DEF IInv, vars, TypeOK, StageOK, Captures
<1>27. QED
  BY <1>1, <1>2, <1>3, <1>4, <1>5, <1>6, <1>7, <1>8, <1>9, <1>10, <1>11,
     <1>12, <1>13, <1>14, <1>15, <1>16, <1>17, <1>18, <1>19, <1>20, <1>21,
     <1>22, <1>23, <1>24, <1>25, <1>26
     DEF Next, Execution, Ending, Completion

\* adopt_capture keeps a lease for everything the graph's nodes use.
LEMMA CaptureStep == IInv /\ [Next]_vars => CaptureOK'
<1>. SUFFICES ASSUME IInv, [Next]_vars PROVE CaptureOK'
  OBVIOUS
<1>1. ASSUME NEW u \in Subs, Begin(u) PROVE CaptureOK'
  BY <1>1, LeasesAssumption
     DEF IInv, TypeOK, StageOK, CaptureOK, Covers, Begin, Move
<1>2. ASSUME NEW u \in Subs, CloneStorage(u) PROVE CaptureOK'
  BY <1>2, LeasesAssumption
     DEF IInv, TypeOK, StageOK, CaptureOK, Covers, CloneStorage, Move, Of
<1>3. ASSUME NEW u \in Subs, Submit(u) PROVE CaptureOK'
  BY <1>3, LeasesAssumption
     DEF IInv, TypeOK, StageOK, CaptureOK, Covers, Submit, Enqueue, Uses, Of
<1>4. ASSUME NEW u \in Subs, Executed(u) PROVE CaptureOK'
  BY <1>4, LeasesAssumption
     DEF IInv, TypeOK, StageOK, CaptureOK, Covers, Executed, Return, Move
<1>5. ASSUME NEW u \in Subs, UpdatePanics(u) PROVE CaptureOK'
  BY <1>5, LeasesAssumption
     DEF IInv, TypeOK, StageOK, CaptureOK, Covers, UpdatePanics, Move
<1>6. ASSUME NEW u \in Subs, TakePending(u) PROVE CaptureOK'
  BY <1>6, LeasesAssumption
     DEF IInv, TypeOK, StageOK, CaptureOK, Covers, TakePending, Move
<1>7. ASSUME NEW u \in Subs, AdoptCapture(u) PROVE CaptureOK'
  <2>1. ASSUME NEW x \in Uses(u) PROVE \E a \in Kept(u) :
            a.sub = u /\ a.storage = x.storage /\ (x.write => a.write)
    <3>1. PICK b \in Of(leases, u) : x.storage = b.storage /\ x.write = b.write
      BY DEF Uses
    <3>2. CASE b \in Kept(u)
      BY <3>1, <3>2 DEF Of
    <3>3. CASE b \notin Kept(u)
      <4>1. PICK c \in Of(leases, u) : c.storage = b.storage /\ c.write /\ ~b.write
        BY <3>3 DEF Kept
      <4>2. c \in Kept(u)
        BY <4>1 DEF Kept
      <4>3. QED
        BY <3>1, <4>1, <4>2 DEF Of
    <3>4. QED
      BY <3>2, <3>3
  <2>2. Kept(u) \subseteq leases'
    BY <1>7 DEF AdoptCapture, Keep
  <2>3. \A x \in nodes'[u] : Covers(u, x)'
    BY <1>7, <2>1, <2>2 DEF IInv, TypeOK, AdoptCapture, Covers
  <2>4. ASSUME NEW g \in Subs, g # u, stage'[g] = "ready", NEW x \in nodes'[g]
        PROVE  Covers(g, x)'
    <3>1. stage[g] = "ready" /\ x \in nodes[g]
      BY <1>7, <2>4 DEF IInv, TypeOK, AdoptCapture, Move
    <3>2. \A a \in leases : a.sub = g => a \in leases'
      BY <1>7, <2>4 DEF AdoptCapture, Keep, Of
    <3>3. QED
      BY <3>1, <3>2 DEF IInv, CaptureOK, Covers
  <2>5. QED
    BY <2>3, <2>4 DEF CaptureOK
<1>8. ASSUME NEW u \in Subs, CaptureFails(u) PROVE CaptureOK'
  BY <1>8, LeasesAssumption
     DEF IInv, TypeOK, StageOK, CaptureOK, Covers, CaptureFails, Move, Keep, Of
<1>9. ASSUME NEW u \in Subs, GraphLaunch(u) PROVE CaptureOK'
  BY <1>9, LeasesAssumption
     DEF IInv, TypeOK, StageOK, CaptureOK, Covers, GraphLaunch, Return, Move, Enqueue
<1>10. ASSUME NEW u \in Subs, GraphLaunchFails(u) PROVE CaptureOK'
  BY <1>10, LeasesAssumption
     DEF IInv, TypeOK, StageOK, CaptureOK, Covers, GraphLaunchFails, Return, Move
<1>11. ASSUME NEW u \in Subs, Complete(u) PROVE CaptureOK'
  BY <1>11, LeasesAssumption
     DEF IInv, TypeOK, StageOK, CaptureOK, Covers, Complete, Move
<1>12. ASSUME NEW u \in Subs, DropEmpty(u) PROVE CaptureOK'
  BY <1>12, LeasesAssumption
     DEF IInv, TypeOK, StageOK, CaptureOK, Covers, DropEmpty, Move
<1>13. ASSUME NEW u \in Subs, DropReleases(u) PROVE CaptureOK'
  BY <1>13, LeasesAssumption
     DEF IInv, TypeOK, StageOK, CaptureOK, Covers, DropReleases, Move
<1>14. ASSUME NEW u \in Subs, DropLease(u) PROVE CaptureOK'
  BY <1>14, LeasesAssumption
     DEF IInv, TypeOK, StageOK, CaptureOK, Covers, DropLease, Of
<1>15. ASSUME NEW u \in Subs, ReleaseDone(u) PROVE CaptureOK'
  BY <1>15, LeasesAssumption
     DEF IInv, TypeOK, StageOK, CaptureOK, Covers, ReleaseDone, Orphan, Disown, Of
<1>16. ASSUME NEW u \in Subs, DestroyGraph(u) PROVE CaptureOK'
  <2>1. \A g \in Subs : stage'[g] = "ready" => stage[g] = "ready" /\ g # u
    BY <1>16 DEF IInv, TypeOK, DestroyGraph, Orphan
  <2>2. \A a \in leases : a.sub # u => a \in leases'
    BY <1>16 DEF DestroyGraph, Keep, Of
  <2>3. QED
    BY <1>16, <2>1, <2>2 DEF IInv, CaptureOK, Covers, DestroyGraph
<1>17. ASSUME NEW u \in Subs, Leak(u) PROVE CaptureOK'
  BY <1>17, LeasesAssumption
     DEF IInv, TypeOK, StageOK, CaptureOK, Covers, Leak
<1>18. ASSUME NEW u \in Subs, DropGraph(u) PROVE CaptureOK'
  BY <1>18, LeasesAssumption
     DEF IInv, TypeOK, StageOK, CaptureOK, Covers, DropGraph
<1>19. ASSUME NEW u \in Subs, NEW x \in Use, RegisterAccess(u, x) PROVE CaptureOK'
  BY <1>19, LeasesAssumption
     DEF IInv, TypeOK, StageOK, CaptureOK, Covers, RegisterAccess, Move, Lease
<1>20. ASSUME NEW u \in Subs, NEW x \in Use, RetainRefused(u, x) PROVE CaptureOK'
  BY <1>20, LeasesAssumption
     DEF IInv, TypeOK, StageOK, CaptureOK, Covers, RetainRefused, Return, Move
<1>21. ASSUME NEW u \in Subs, NEW a \in accesses, ReleaseAccess(u, a) PROVE CaptureOK'
  BY <1>21, LeasesAssumption
     DEF IInv, TypeOK, StageOK, CaptureOK, Covers, ReleaseAccess, Of
<1>22. ASSUME NEW s \in Storages, Alias(s) PROVE CaptureOK'
  BY <1>22, LeasesAssumption
     DEF IInv, TypeOK, StageOK, CaptureOK, Covers, Alias
<1>23. ASSUME NEW s \in Storages, DropAlias(s) PROVE CaptureOK'
  BY <1>23, LeasesAssumption
     DEF IInv, TypeOK, StageOK, CaptureOK, Covers, DropAlias
<1>24. ASSUME NEW st \in Streams, Run(st) PROVE CaptureOK'
  BY <1>24, LeasesAssumption
     DEF IInv, TypeOK, StageOK, CaptureOK, Covers, Run
<1>25. ASSUME Fault PROVE CaptureOK'
  BY <1>25, LeasesAssumption
     DEF IInv, TypeOK, StageOK, CaptureOK, Covers, Fault
<1>26. CASE UNCHANGED vars
  BY <1>26 DEF IInv, vars, TypeOK, StageOK, CaptureOK, Covers
<1>27. QED
  BY <1>1, <1>2, <1>3, <1>4, <1>5, <1>6, <1>7, <1>8, <1>9, <1>10, <1>11,
     <1>12, <1>13, <1>14, <1>15, <1>16, <1>17, <1>18, <1>19, <1>20, <1>21,
     <1>22, <1>23, <1>24, <1>25, <1>26
     DEF Next, Execution, Ending, Completion

\* A launch has retained all its graph uses before cuGraphLaunch.
LEMMA LaunchStep == IInv /\ [Next]_vars => LaunchOK'
<1>. SUFFICES ASSUME IInv, [Next]_vars PROVE LaunchOK'
  OBVIOUS
<1>1. ASSUME NEW u \in Subs, Begin(u) PROVE LaunchOK'
  BY <1>1, LeasesAssumption
     DEF IInv, TypeOK, StageOK, LaunchOK, Covers, Begin, Move
<1>2. ASSUME NEW u \in Subs, CloneStorage(u) PROVE LaunchOK'
  BY <1>2, LeasesAssumption
     DEF IInv, TypeOK, StageOK, LaunchOK, Covers, CloneStorage, Move, Of
<1>3. ASSUME NEW u \in Subs, Submit(u) PROVE LaunchOK'
  BY <1>3, LeasesAssumption
     DEF IInv, TypeOK, StageOK, LaunchOK, Covers, Submit, Enqueue, Uses, Of
<1>4. ASSUME NEW u \in Subs, Executed(u) PROVE LaunchOK'
  BY <1>4, LeasesAssumption
     DEF IInv, TypeOK, StageOK, LaunchOK, Covers, Executed, Return, Move
<1>5. ASSUME NEW u \in Subs, UpdatePanics(u) PROVE LaunchOK'
  BY <1>5, LeasesAssumption
     DEF IInv, TypeOK, StageOK, LaunchOK, Covers, UpdatePanics, Move
<1>6. ASSUME NEW u \in Subs, TakePending(u) PROVE LaunchOK'
  <2>1. \A x \in nodes[GraphOf[u]] : Covers(u, x)
    <3>1. stage[GraphOf[u]] = "ready"
      BY <1>6, LeasesAssumption DEF IInv, StageOK, TakePending, Move
    <3>2. SUFFICES ASSUME NEW x \in nodes[GraphOf[u]] PROVE Covers(u, x)
      OBVIOUS
    <3>3. PICK a \in leases : /\ a.sub = GraphOf[u] /\ a.storage = x.storage
                              /\ x.write => a.write
      BY <3>1, LeasesAssumption DEF IInv, CaptureOK, Covers
    <3>4. [a EXCEPT !.sub = u] \in leases
      BY <1>6, <3>3 DEF TakePending, Retained, Of
    <3>5. a \in Access
      BY DEF IInv, TypeOK
    <3>6. QED
      BY <3>3, <3>4, <3>5 DEF Covers, Access
  <2>2. QED
    BY <1>6, <2>1 DEF IInv, TypeOK, LaunchOK, Covers, TakePending, Move
<1>7. ASSUME NEW u \in Subs, AdoptCapture(u) PROVE LaunchOK'
  <2>1. \A a \in leases : Kind[a.sub] # "capture" => a \in leases'
    BY <1>7 DEF AdoptCapture, Keep, Of
  <2>2. ASSUME NEW v \in Subs, stage'[v] = "launching"
        PROVE  /\ stage[v] = "launching" /\ Kind[v] = "launch"
               /\ nodes'[GraphOf[v]] = nodes[GraphOf[v]]
    <3>1. stage[v] = "launching"
      BY <1>7, <2>2 DEF IInv, TypeOK, AdoptCapture, Move
    <3>2. Kind[v] = "launch"
      BY <3>1 DEF IInv, StageOK
    <3>3. stage[GraphOf[v]] = "ready"
      BY <3>1, <3>2 DEF IInv, StageOK
    <3>4. GraphOf[v] # u
      BY <1>7, <3>3 DEF AdoptCapture, Move
    <3>5. QED
      BY <1>7, <3>1, <3>2, <3>4 DEF AdoptCapture, IInv, TypeOK
  <2>3. QED
    BY <2>1, <2>2 DEF IInv, LaunchOK, Covers
<1>8. ASSUME NEW u \in Subs, CaptureFails(u) PROVE LaunchOK'
  <2>1. \A a \in leases : Kind[a.sub] # "capture" => a \in leases'
    BY <1>8 DEF CaptureFails, Keep, Of
  <2>2. \A v \in Subs : stage'[v] = "launching" => stage[v] = "launching"
    BY <1>8 DEF IInv, TypeOK, CaptureFails, Move
  <2>3. QED
    BY <1>8, <2>1, <2>2 DEF IInv, StageOK, LaunchOK, Covers, CaptureFails
<1>9. ASSUME NEW u \in Subs, GraphLaunch(u) PROVE LaunchOK'
  BY <1>9, LeasesAssumption
     DEF IInv, TypeOK, StageOK, LaunchOK, Covers, GraphLaunch, Return, Move, Enqueue
<1>10. ASSUME NEW u \in Subs, GraphLaunchFails(u) PROVE LaunchOK'
  BY <1>10, LeasesAssumption
     DEF IInv, TypeOK, StageOK, LaunchOK, Covers, GraphLaunchFails, Return, Move
<1>11. ASSUME NEW u \in Subs, Complete(u) PROVE LaunchOK'
  BY <1>11, LeasesAssumption
     DEF IInv, TypeOK, StageOK, LaunchOK, Covers, Complete, Move
<1>12. ASSUME NEW u \in Subs, DropEmpty(u) PROVE LaunchOK'
  BY <1>12, LeasesAssumption
     DEF IInv, TypeOK, StageOK, LaunchOK, Covers, DropEmpty, Move
<1>13. ASSUME NEW u \in Subs, DropReleases(u) PROVE LaunchOK'
  BY <1>13 DEF IInv, TypeOK, LaunchOK, Covers, DropReleases, Move
<1>14. ASSUME NEW u \in Subs, DropLease(u) PROVE LaunchOK'
  BY <1>14, LeasesAssumption
     DEF IInv, TypeOK, StageOK, LaunchOK, Covers, DropLease, Of
<1>15. ASSUME NEW u \in Subs, ReleaseDone(u) PROVE LaunchOK'
  BY <1>15, LeasesAssumption
     DEF IInv, TypeOK, StageOK, LaunchOK, Covers, ReleaseDone, Orphan, Disown, Of
<1>16. ASSUME NEW u \in Subs, DestroyGraph(u) PROVE LaunchOK'
  <2>1. \A a \in leases : Kind[a.sub] # "capture" => a \in leases'
    BY <1>16 DEF DestroyGraph, Keep, Of
  <2>2. \A v \in Subs : stage'[v] = "launching" => stage[v] = "launching"
    BY <1>16 DEF IInv, TypeOK, DestroyGraph, Orphan
  <2>3. QED
    BY <1>16, <2>1, <2>2 DEF IInv, StageOK, LaunchOK, Covers, DestroyGraph
<1>17. ASSUME NEW u \in Subs, Leak(u) PROVE LaunchOK'
  BY <1>17, LeasesAssumption
     DEF IInv, TypeOK, StageOK, LaunchOK, Covers, Leak
<1>18. ASSUME NEW u \in Subs, DropGraph(u) PROVE LaunchOK'
  BY <1>18, LeasesAssumption
     DEF IInv, TypeOK, StageOK, LaunchOK, Covers, DropGraph
<1>19. ASSUME NEW u \in Subs, NEW x \in Use, RegisterAccess(u, x) PROVE LaunchOK'
  BY <1>19, LeasesAssumption
     DEF IInv, TypeOK, StageOK, LaunchOK, Covers, RegisterAccess, Move, Lease
<1>20. ASSUME NEW u \in Subs, NEW x \in Use, RetainRefused(u, x) PROVE LaunchOK'
  BY <1>20, LeasesAssumption
     DEF IInv, TypeOK, StageOK, LaunchOK, Covers, RetainRefused, Return, Move
<1>21. ASSUME NEW u \in Subs, NEW a \in accesses, ReleaseAccess(u, a) PROVE LaunchOK'
  BY <1>21, LeasesAssumption
     DEF IInv, TypeOK, StageOK, LaunchOK, Covers, ReleaseAccess, Of
<1>22. ASSUME NEW s \in Storages, Alias(s) PROVE LaunchOK'
  BY <1>22, LeasesAssumption
     DEF IInv, TypeOK, StageOK, LaunchOK, Covers, Alias
<1>23. ASSUME NEW s \in Storages, DropAlias(s) PROVE LaunchOK'
  BY <1>23, LeasesAssumption
     DEF IInv, TypeOK, StageOK, LaunchOK, Covers, DropAlias
<1>24. ASSUME NEW st \in Streams, Run(st) PROVE LaunchOK'
  BY <1>24, LeasesAssumption
     DEF IInv, TypeOK, StageOK, LaunchOK, Covers, Run
<1>25. ASSUME Fault PROVE LaunchOK'
  BY <1>25, LeasesAssumption
     DEF IInv, TypeOK, StageOK, LaunchOK, Covers, Fault
<1>26. CASE UNCHANGED vars
  BY <1>26 DEF IInv, vars, TypeOK, StageOK, LaunchOK, Covers
<1>27. QED
  BY <1>1, <1>2, <1>3, <1>4, <1>5, <1>6, <1>7, <1>8, <1>9, <1>10, <1>11,
     <1>12, <1>13, <1>14, <1>15, <1>16, <1>17, <1>18, <1>19, <1>20, <1>21,
     <1>22, <1>23, <1>24, <1>25, <1>26
     DEF Next, Execution, Ending, Completion

\* Work in flight is covered by leases of its own submission.
LEMMA FlightStep == IInv /\ [Next]_vars => FlightOK'
<1>. SUFFICES ASSUME IInv, [Next]_vars PROVE FlightOK'
  OBVIOUS
<1>1. ASSUME NEW u \in Subs, Begin(u) PROVE FlightOK'
  <2>1. queue' = queue /\ leases' = leases
    BY <1>1 DEF Begin
  <2>2. \A v \in Subs : stage[v] \in Flying => stage'[v] \in Flying
    BY <1>1 DEF IInv, TypeOK, Flying, Begin, Move
  <2>3. QED
    BY <2>1, <2>2, ItemTyped DEF IInv, FlightOK, Covers
<1>2. ASSUME NEW u \in Subs, CloneStorage(u) PROVE FlightOK'
  BY <1>2, LeasesAssumption
     DEF IInv, TypeOK, StageOK, FlightOK, Covers, Flying, CloneStorage, Move, Of
<1>3. ASSUME NEW u \in Subs, Submit(u) PROVE FlightOK'
  <2>. DEFINE item == [sub |-> u, uses |-> Uses(u)]
              q == queue[StreamOf[u]]
  <2>1. /\ StreamOf[u] \in Streams /\ q \in Seq(Item)
        /\ queue' = [queue EXCEPT ![StreamOf[u]] = Append(q, item)]
    BY <1>3, LeasesAssumption DEF IInv, TypeOK, Submit, Enqueue
  <2>2. /\ leases' = leases /\ Kind[u] # "capture"
        /\ \A v \in Subs : stage[v] \in Flying => stage'[v] \in Flying
        /\ stage'[u] \in Flying
    BY <1>3 DEF IInv, TypeOK, StageOK, Flying, Submit
  <2>3. \A x \in Uses(u) : Covers(u, x)
    BY <1>3 DEF Uses, Of, Covers
  <2>4. item.sub = u /\ item.uses = Uses(u)
    OBVIOUS
  <2>. HIDE DEF item
  <2>5. ASSUME NEW st \in Streams, NEW i \in 1 .. Len(queue'[st])
        PROVE  \/ i \in 1 .. Len(queue[st]) /\ queue'[st][i] = queue[st][i]
               \/ st = StreamOf[u] /\ queue'[st][i] = item
    BY <2>1 DEF IInv, TypeOK
  <2>6. QED
    BY <2>2, <2>3, <2>4, <2>5, ItemTyped DEF IInv, FlightOK, Covers
<1>4. ASSUME NEW u \in Subs, Executed(u) PROVE FlightOK'
  <2>1. queue' = queue /\ leases' = leases
    BY <1>4 DEF Executed, Return
  <2>2. \A v \in Subs : stage[v] \in Flying => stage'[v] \in Flying
    BY <1>4 DEF IInv, TypeOK, Flying, Executed, Return, Move
  <2>3. QED
    BY <2>1, <2>2, ItemTyped DEF IInv, FlightOK, Covers
<1>5. ASSUME NEW u \in Subs, UpdatePanics(u) PROVE FlightOK'
  <2>1. queue' = queue /\ leases' = leases
    BY <1>5 DEF UpdatePanics
  <2>2. \A v \in Subs : stage[v] \in Flying => stage'[v] \in Flying
    BY <1>5 DEF IInv, TypeOK, Flying, UpdatePanics, Move
  <2>3. QED
    BY <2>1, <2>2, ItemTyped DEF IInv, FlightOK, Covers
<1>6. ASSUME NEW u \in Subs, TakePending(u) PROVE FlightOK'
  <2>1. queue' = queue /\ leases' = leases
    BY <1>6 DEF TakePending
  <2>2. \A v \in Subs : stage[v] \in Flying => stage'[v] \in Flying
    BY <1>6 DEF IInv, TypeOK, Flying, TakePending, Move
  <2>3. QED
    BY <2>1, <2>2, ItemTyped DEF IInv, FlightOK, Covers
<1>7. ASSUME NEW u \in Subs, AdoptCapture(u) PROVE FlightOK'
  <2>1. \A a \in leases : Kind[a.sub] # "capture" => a \in leases'
    BY <1>7 DEF AdoptCapture, Keep, Of
  <2>2. queue' = queue
    BY <1>7 DEF AdoptCapture
  <2>3. \A v \in Subs : stage[v] \in Flying /\ Kind[v] # "capture" => stage'[v] \in Flying
    BY <1>7 DEF IInv, TypeOK, StageOK, Flying, AdoptCapture, Move
  <2>4. QED
    BY <2>1, <2>2, <2>3, ItemTyped DEF IInv, FlightOK, Covers
<1>8. ASSUME NEW u \in Subs, CaptureFails(u) PROVE FlightOK'
  <2>1. \A a \in leases : Kind[a.sub] # "capture" => a \in leases'
    BY <1>8 DEF CaptureFails, Keep, Of
  <2>2. queue' = queue
    BY <1>8 DEF CaptureFails
  <2>3. \A v \in Subs : stage[v] \in Flying /\ Kind[v] # "capture" => stage'[v] \in Flying
    BY <1>8 DEF IInv, TypeOK, StageOK, Flying, CaptureFails, Move
  <2>4. QED
    BY <2>1, <2>2, <2>3, ItemTyped DEF IInv, FlightOK, Covers
<1>9. ASSUME NEW u \in Subs, GraphLaunch(u) PROVE FlightOK'
  <2>. DEFINE item == [sub |-> u, uses |-> nodes[GraphOf[u]]]
              q == queue[StreamOf[u]]
  <2>1. /\ StreamOf[u] \in Streams /\ q \in Seq(Item)
        /\ queue' = [queue EXCEPT ![StreamOf[u]] = Append(q, item)]
    BY <1>9, LeasesAssumption DEF IInv, TypeOK, GraphLaunch, Enqueue
  <2>2. /\ leases' = leases /\ Kind[u] # "capture"
        /\ \A v \in Subs : stage[v] \in Flying => stage'[v] \in Flying
        /\ stage'[u] \in Flying
    BY <1>9 DEF IInv, TypeOK, StageOK, Flying, GraphLaunch, Return, Move
  <2>3. \A x \in nodes[GraphOf[u]] : Covers(u, x)
    BY <1>9 DEF IInv, LaunchOK, GraphLaunch, Return, Move
  <2>4. item.sub = u /\ item.uses = nodes[GraphOf[u]]
    OBVIOUS
  <2>. HIDE DEF item
  <2>5. ASSUME NEW st \in Streams, NEW i \in 1 .. Len(queue'[st])
        PROVE  \/ i \in 1 .. Len(queue[st]) /\ queue'[st][i] = queue[st][i]
               \/ st = StreamOf[u] /\ queue'[st][i] = item
    BY <2>1 DEF IInv, TypeOK
  <2>6. QED
    BY <2>2, <2>3, <2>4, <2>5, ItemTyped DEF IInv, FlightOK, Covers
<1>10. ASSUME NEW u \in Subs, GraphLaunchFails(u) PROVE FlightOK'
  <2>1. queue' = queue /\ leases' = leases
    BY <1>10 DEF GraphLaunchFails, Return
  <2>2. \A v \in Subs : stage[v] \in Flying => stage'[v] \in Flying
    BY <1>10 DEF IInv, TypeOK, Flying, GraphLaunchFails, Return, Move
  <2>3. QED
    BY <2>1, <2>2, ItemTyped DEF IInv, FlightOK, Covers
<1>11. ASSUME NEW u \in Subs, Complete(u) PROVE FlightOK'
  <2>1. queue' = queue /\ leases' = leases
    BY <1>11 DEF Complete
  <2>2. \A st \in Streams : \A i \in 1 .. Len(queue[st]) : queue[st][i].sub = u =>
            queue[st][i].uses = {} /\ Kind[u] # "launch"
    BY <1>11 DEF IInv, FlightOK, Complete, InFlight
  <2>3. \A v \in Subs : stage[v] \in Flying /\ v # u => stage'[v] \in Flying
    BY <1>11 DEF IInv, TypeOK, Flying, Complete, Move
  <2>4. QED
    BY <2>1, <2>2, <2>3, ItemTyped DEF IInv, FlightOK, Covers
<1>12. ASSUME NEW u \in Subs, DropEmpty(u) PROVE FlightOK'
  <2>1. queue' = queue /\ leases' = leases
    BY <1>12 DEF DropEmpty
  <2>2. \A st \in Streams : \A i \in 1 .. Len(queue[st]) : queue[st][i].sub = u =>
            queue[st][i].uses = {} /\ Kind[u] # "launch"
    BY <1>12 DEF IInv, FlightOK, Covers, DropEmpty, HoldsNothing, Of
  <2>3. \A v \in Subs : stage[v] \in Flying /\ v # u => stage'[v] \in Flying
    BY <1>12 DEF IInv, TypeOK, Flying, DropEmpty, Move
  <2>4. QED
    BY <2>1, <2>2, <2>3, ItemTyped DEF IInv, FlightOK, Covers
<1>13. ASSUME NEW u \in Subs, DropReleases(u) PROVE FlightOK'
  <2>1. queue' = queue /\ leases' = leases
    BY <1>13 DEF DropReleases
  <2>2. \A st \in Streams : \A i \in 1 .. Len(queue[st]) : queue[st][i].sub = u =>
            queue[st][i].uses = {} /\ Kind[u] # "launch"
    BY <1>13 DEF IInv, FlightOK, DropReleases, Drained
  <2>3. \A v \in Subs : stage[v] \in Flying /\ v # u => stage'[v] \in Flying
    BY <1>13 DEF IInv, TypeOK, Flying, DropReleases, Move
  <2>4. QED
    BY <2>1, <2>2, <2>3, ItemTyped DEF IInv, FlightOK, Covers
<1>14. ASSUME NEW u \in Subs, DropLease(u) PROVE FlightOK'
  <2>1. \A a \in leases : a.sub # u => a \in leases'
    BY <1>14 DEF DropLease, Of
  <2>2. \A st \in Streams : \A i \in 1 .. Len(queue[st]) : queue[st][i].sub = u =>
            queue[st][i].uses = {}
    BY <1>14 DEF IInv, FlightOK, Flying, DropLease
  <2>3. QED
    BY <1>14, <2>1, <2>2 DEF IInv, FlightOK, Covers, DropLease
<1>15. ASSUME NEW u \in Subs, ReleaseDone(u) PROVE FlightOK'
  <2>1. queue' = queue /\ leases' = leases
    BY <1>15 DEF ReleaseDone
  <2>2. \A st \in Streams : \A i \in 1 .. Len(queue[st]) : queue[st][i].sub = u =>
            queue[st][i].uses = {} /\ Kind[u] # "launch"
    BY <1>15 DEF IInv, FlightOK, Flying, ReleaseDone
  <2>3. \A v \in Subs : stage[v] \in Flying /\ v # u => stage'[v] \in Flying
    BY <1>15 DEF IInv, TypeOK, Flying, ReleaseDone, Orphan
  <2>4. QED
    BY <2>1, <2>2, <2>3, ItemTyped DEF IInv, FlightOK, Covers
<1>16. ASSUME NEW u \in Subs, DestroyGraph(u) PROVE FlightOK'
  <2>1. \A a \in leases : Kind[a.sub] # "capture" => a \in leases'
    BY <1>16 DEF DestroyGraph, Keep, Of
  <2>2. queue' = queue
    BY <1>16 DEF DestroyGraph
  <2>3. \A v \in Subs : stage[v] \in Flying /\ Kind[v] # "capture" => stage'[v] \in Flying
    BY <1>16 DEF IInv, TypeOK, StageOK, Flying, DestroyGraph, Orphan
  <2>4. QED
    BY <2>1, <2>2, <2>3, ItemTyped DEF IInv, FlightOK, Covers
<1>17. ASSUME NEW u \in Subs, Leak(u) PROVE FlightOK'
  <2>1. queue' = queue /\ leases' = leases
    BY <1>17 DEF Leak
  <2>2. \A v \in Subs : stage[v] \in Flying => stage'[v] \in Flying
    BY <1>17 DEF IInv, TypeOK, Flying, Leak
  <2>3. QED
    BY <2>1, <2>2, ItemTyped DEF IInv, FlightOK, Covers
<1>18. ASSUME NEW u \in Subs, DropGraph(u) PROVE FlightOK'
  BY <1>18 DEF IInv, FlightOK, Covers, DropGraph
<1>19. ASSUME NEW u \in Subs, NEW x \in Use, RegisterAccess(u, x) PROVE FlightOK'
  <2>1. queue' = queue /\ leases' = leases
    BY <1>19 DEF RegisterAccess
  <2>2. \A v \in Subs : stage[v] \in Flying => stage'[v] \in Flying
    BY <1>19 DEF IInv, TypeOK, Flying, RegisterAccess, Move
  <2>3. QED
    BY <2>1, <2>2, ItemTyped DEF IInv, FlightOK, Covers
<1>20. ASSUME NEW u \in Subs, NEW x \in Use, RetainRefused(u, x) PROVE FlightOK'
  <2>1. queue' = queue /\ leases' = leases
    BY <1>20 DEF RetainRefused, Return
  <2>2. \A v \in Subs : stage[v] \in Flying => stage'[v] \in Flying
    BY <1>20 DEF IInv, TypeOK, Flying, RetainRefused, Return, Move
  <2>3. QED
    BY <2>1, <2>2, ItemTyped DEF IInv, FlightOK, Covers
<1>21. ASSUME NEW u \in Subs, NEW a \in accesses, ReleaseAccess(u, a) PROVE FlightOK'
  BY <1>21 DEF IInv, FlightOK, Covers, ReleaseAccess
<1>22. ASSUME NEW s \in Storages, Alias(s) PROVE FlightOK'
  BY <1>22 DEF IInv, FlightOK, Covers, Alias
<1>23. ASSUME NEW s \in Storages, DropAlias(s) PROVE FlightOK'
  BY <1>23 DEF IInv, FlightOK, Covers, DropAlias
<1>24. ASSUME NEW st \in Streams, Run(st) PROVE FlightOK'
  <2>1. queue[st] \in Seq(Item) /\ queue[st] # <<>>
    BY <1>24 DEF IInv, TypeOK, Run
  <2>2. ASSUME NEW t \in Streams, NEW i \in 1 .. Len(queue'[t])
        PROVE  \E j \in 1 .. Len(queue[t]) : queue'[t][i] = queue[t][j]
    <3>1. CASE t = st
      <4>1. /\ queue'[t] = Tail(queue[t]) /\ i + 1 \in 1 .. Len(queue[t])
            /\ queue'[t][i] = queue[t][i + 1]
        BY <1>24, <2>1, <3>1 DEF IInv, TypeOK, Run
      <4>2. QED
        BY <4>1
    <3>2. CASE t # st
      BY <1>24, <3>2 DEF IInv, TypeOK, Run
    <3>3. QED
      BY <3>1, <3>2
  <2>3. QED
    BY <1>24, <2>2 DEF IInv, FlightOK, Covers, Run
<1>25. ASSUME Fault PROVE FlightOK'
  BY <1>25 DEF IInv, FlightOK, Covers, Fault
<1>26. CASE UNCHANGED vars
  BY <1>26 DEF IInv, vars, TypeOK, StageOK, FlightOK, Covers, Flying
<1>27. QED
  BY <1>1, <1>2, <1>3, <1>4, <1>5, <1>6, <1>7, <1>8, <1>9, <1>10, <1>11,
     <1>12, <1>13, <1>14, <1>15, <1>16, <1>17, <1>18, <1>19, <1>20, <1>21,
     <1>22, <1>23, <1>24, <1>25, <1>26
     DEF Next, Execution, Ending, Completion

-----------------------------------------------------------------------------
(* The theorems *)

\* The invariant holds initially, ...
LEMMA InitInv == Init => IInv
<1>. SUFFICES ASSUME Init PROVE IInv
  OBVIOUS
<1>1. TypeOK
  <2>1. aliases \in [Storages -> 0 .. MaxAliases]
    BY LeasesAssumption DEF Init
  <2>2. queue \in [Streams -> Seq(Item)]
    BY DEF Init
  <2>3. QED
    BY <2>1, <2>2 DEF Init, TypeOK, Stages
<1>2. FiniteOK
  BY FS_EmptySet DEF Init, FiniteOK
<1>3. RegistryOK /\ ExclusionOK /\ StageOK /\ CaptureOK /\ LaunchOK /\ FlightOK
  BY DEF Init, RegistryOK, ExclusionOK, StageOK, CaptureOK, LaunchOK, FlightOK
<1>4. QED
  BY <1>1, <1>2, <1>3 DEF IInv

\* ... and every step preserves it.
LEMMA StepInv == IInv /\ [Next]_vars => IInv'
  BY TypeStep, RegistryStep, FiniteStep, ExclusionStep, StageStep, CaptureStep,
     LaunchStep, FlightStep DEF IInv

\* The invariant holds in every reachable state.
THEOREM Inductive == Spec => []IInv
  BY InitInv, StepInv, PTL DEF Spec

\* Leases states are well typed, for any submissions, streams and storages.
THEOREM TypeCorrect == Spec => []TypeOK
<1>1. IInv => TypeOK
  BY DEF IInv
<1>2. QED
  BY <1>1, Inductive, PTL

\* A storage's registry keeps two streams from touching it at once with a
\* write among the accesses, updates and graph replays included.
THEOREM RaceFree == Spec => []NoDeviceRace
<1>1. IInv => NoDeviceRace
  <2>. SUFFICES ASSUME IInv, NEW st1 \in Streams, NEW st2 \in Streams, st1 # st2,
                        NEW i \in 1 .. Len(queue[st1]), NEW j \in 1 .. Len(queue[st2]),
                        NEW x \in queue[st1][i].uses, NEW y \in queue[st2][j].uses,
                        x.storage = y.storage, x.write \/ y.write
                 PROVE  FALSE
    BY DEF NoDeviceRace, Items
  <2>2. PICK a \in leases : /\ a.sub = queue[st1][i].sub /\ a.storage = x.storage
                            /\ x.write => a.write
    BY DEF IInv, FlightOK, Covers
  <2>3. PICK b \in leases : /\ b.sub = queue[st2][j].sub /\ b.storage = y.storage
                            /\ y.write => b.write
    BY DEF IInv, FlightOK, Covers
  <2>4. stage[a.sub] \in Flying /\ stage[b.sub] \in Flying
    BY <2>2, <2>3 DEF IInv, FlightOK
  <2>5. a \in accesses /\ b \in accesses
    BY <2>4 DEF IInv, RegistryOK, Flying
  <2>6. StreamOf[a.sub] = st1 /\ StreamOf[b.sub] = st2
    BY <2>2, <2>3 DEF IInv, FlightOK
  <2>7. ~IsRecording(a.sub) /\ ~IsRecording(b.sub)
    BY <2>2, <2>3 DEF IInv, FlightOK, IsRecording
  <2>8. QED
    BY <2>2, <2>3, <2>5, <2>6, <2>7 DEF IInv, ExclusionOK
<1>2. QED
  BY <1>1, Inductive, PTL

\* Storage and graphs outlive the work in flight on them.
THEOREM MemorySafe == Spec => []NoUseAfterFree
<1>1. IInv => NoUseAfterFree
  <2>. SUFFICES ASSUME IInv, NEW st \in Streams, NEW i \in 1 .. Len(queue[st])
                 PROVE  /\ \A x \in queue[st][i].uses : Live(x.storage)
                        /\ Kind[queue[st][i].sub] = "launch" =>
                               stage[GraphOf[queue[st][i].sub]] = "ready"
    BY DEF NoUseAfterFree, Items
  <2>2. \A x \in queue[st][i].uses : Live(x.storage)
    BY DEF IInv, FlightOK, Covers, Live, On
  <2>3. ASSUME Kind[queue[st][i].sub] = "launch"
        PROVE  stage[GraphOf[queue[st][i].sub]] = "ready"
    BY <2>3, ItemTyped DEF IInv, FlightOK, Flying, StageOK
  <2>4. QED
    BY <2>2, <2>3
<1>2. QED
  BY <1>1, Inductive, PTL

\* While no lease is being taken, is_unique overlooks no alias.
THEOREM UniqueCorrect == Spec => []UniqueSound
<1>1. IInv => UniqueSound
  <2>. SUFFICES ASSUME IInv, NEW s \in Storages, IsUnique(s), ~Cloning(s)
                 PROVE  aliases[s] <= 1
    BY DEF UniqueSound
  <2>2. On(accesses, s) \subseteq On(leases, s)
    BY DEF IInv, RegistryOK, Cloning, On
  <2>3. IsFiniteSet(On(leases, s))
    <3>1. On(leases, s) \subseteq leases
      BY DEF On
    <3>2. QED
      BY <3>1, FS_Subset DEF IInv, FiniteOK
  <2>4. /\ IsFiniteSet(On(accesses, s))
        /\ Cardinality(On(accesses, s)) <= Cardinality(On(leases, s))
    BY <2>2, <2>3, FS_Subset
  <2>5. Cardinality(On(accesses, s)) \in Nat /\ Cardinality(On(leases, s)) \in Nat
    BY <2>3, <2>4, FS_CardinalityType
  <2>6. aliases[s] \in Int
    BY LeasesAssumption DEF IInv, TypeOK
  <2>7. QED
    BY <2>4, <2>5, <2>6 DEF IsUnique
<1>2. QED
  BY <1>1, Inductive, PTL
=============================================================================
