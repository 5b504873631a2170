------------------------- MODULE KernelCacheProofs -------------------------
(***************************************************************************)
(* Proofs about KernelCache: for any keys, slots, callers and evictors, the  *)
(* launch sites and plan caches keep no evicted function, a function stamped *)
(* with the current epoch is the kernel cache's own, no lookup serves an     *)
(* older one, and a failed compilation leaves no empty slot behind.          *)
(***************************************************************************)
EXTENDS KernelCache, TLAPS

Places == {"idle", "plan get", "epoch", "site get", "slot", "cell", "compile", "drop", "remove",
           "register", "flag", "store", "write", "plan register", "plan store", "plan write",
           "launch"}
Stages == {"idle", "remove", "bump", "lock sites", "sites", "lock plans", "plans"}
Entries == [key : Keys, slot : Slots, epoch : Nat]

\* Where a caller holds no slot, holds one to fill, stores what it resolved.
Unheld == {"idle", "plan get", "epoch", "site get", "slot", "remove"}
Filling == {"cell", "compile"}
Carrying == {"register", "flag", "store", "write", "plan register", "plan store", "plan write"}
AtPlans == {"plan get", "plan register", "plan store", "plan write"}

\* Unbumped and ToEmpty as functions of the evictions' state: st the stages, g
\* the slots gone, l the caches left.
Removing(st, g, s) == \E e \in Evictors : st[e] \in {"remove", "bump"} /\ s \in g[e]
Emptying(st, g, l, s, c) == \E e \in Evictors :
    /\ s \in g[e]
    /\ \/ st[e] \in {"remove", "bump"}
       \/ c = Site /\ (st[e] = "lock sites" \/ (st[e] = "sites" /\ c \in l[e]))
       \/ c = Plans /\ (st[e] \in {"lock sites", "sites", "lock plans"}
                         \/ (st[e] = "plans" /\ c \in l[e]))

-----------------------------------------------------------------------------
(* The inductive invariant.                                                   *)

\* Every variable has its type.
TypeOK ==
    /\ cached \in [Keys -> Slots \cup {None}]
    /\ full \subseteq Slots
    /\ epoch \in Nat
    /\ entries \in [Caches -> SUBSET Entries]
    /\ listed \subseteq Caches
    /\ registered \in BOOLEAN
    /\ at \in [Threads -> Places]
    /\ route \in [Threads -> {"plan", "site", "warm"}]
    /\ key \in [Threads -> Keys]
    /\ seen \in [Threads -> Nat]
    /\ slot \in [Threads -> Slots \cup {None}]
    /\ upsets \in Nat
    /\ stage \in [Evictors -> Stages]
    /\ todo \in [Evictors -> SUBSET Keys]
    /\ gone \in [Evictors -> SUBSET Slots]
    /\ left \in [Evictors -> SUBSET Caches]

Current(k, s) == cached[k] = s \/ Removing(stage, gone, s)
Tracked(k, s, c) == cached[k] = s \/ Emptying(stage, gone, left, s, c)

\* The map holds a slot under one key only.
OneKey == \A k, m \in Keys : cached[k] = cached[m] /\ cached[k] # None => k = m

\* What a call has: a slot of its key and of no other, full once it was
\* compiled; current as long as its epoch is; known to whoever evicts it from
\* the moment the call may store it.
CallInv(t) ==
    /\ at[t] \in Unheld => slot[t] = None
    /\ at[t] \in Filling \cup {"drop"} => slot[t] # None
    /\ at[t] \in Carrying \cup {"launch"} => slot[t] \in full
    /\ at[t] \in AtPlans => route[t] = "plan"
    /\ seen[t] <= epoch
    /\ \A k \in Keys : slot[t] # None /\ cached[k] = slot[t] => k = key[t]
    /\ at[t] \in Filling \cup Carrying /\ seen[t] = epoch => Current(key[t], slot[t])
    /\ at[t] = "write" => Tracked(key[t], slot[t], Site)
    /\ at[t] = "plan write" => Tracked(key[t], slot[t], Plans)
    /\ at[t] \in {"flag", "store", "write"} => Site \in listed
    /\ at[t] \in {"plan store", "plan write"} => Plans \in listed

\* The same of what is stored.
EntryInv(c, r) ==
    /\ r.slot \in full
    /\ r.epoch <= epoch
    /\ \A k \in Keys : cached[k] = r.slot => k = r.key
    /\ c \in listed
    /\ r.epoch = epoch => Current(r.key, r.slot)
    /\ Tracked(r.key, r.slot, c)

IInv ==
    /\ TypeOK
    /\ OneKey
    /\ registered => Site \in listed
    /\ \A t \in Threads : CallInv(t)
    /\ \A c \in Caches : \A r \in entries[c] : EntryInv(c, r)
    /\ NoDeadSlot

-----------------------------------------------------------------------------
(* What a step leaves alone.                                                  *)

LEMMA Typed ==
    ASSUME IInv
    PROVE  TypeOK /\ Site \in Caches /\ Plans \in Caches /\ Site # Plans /\ None \notin Slots
BY CacheAssumption DEF IInv, Caches

\* The evictions' state, the map and the epoch.
Steady == UNCHANGED <<cached, full, epoch, stage, gone, left>>

\* A call other than t.
Aside(t) == \A u \in Threads \ {t} :
    at'[u] = at[u] /\ route'[u] = route[u] /\ key'[u] = key[u] /\ seen'[u] = seen[u] /\ slot'[u] = slot[u]

LEMMA OtherCalls ==
    ASSUME IInv, Steady, listed \subseteq listed', NEW t, Aside(t)
    PROVE  \A u \in Threads \ {t} : CallInv(u)'
<1> SUFFICES ASSUME NEW u \in Threads \ {t}
             PROVE  CallInv(u)'
    OBVIOUS
<1>1. at'[u] = at[u] /\ route'[u] = route[u] /\ key'[u] = key[u] /\ seen'[u] = seen[u]
      /\ slot'[u] = slot[u]
    BY DEF Aside
<1>2. CallInv(u)
    BY DEF IInv
<1> QED
    BY <1>1, <1>2 DEF Steady, CallInv, Current, Tracked

LEMMA SameEntries ==
    ASSUME IInv, Steady, listed \subseteq listed', UNCHANGED entries
    PROVE  \A c \in Caches : \A r \in entries'[c] : EntryInv(c, r)'
BY DEF IInv, Steady, EntryInv, Current, Tracked

LEMMA SameKeys ==
    ASSUME IInv, UNCHANGED cached
    PROVE  OneKey'
BY DEF IInv, OneKey

\* A call that gives up no slot but a full one, and does not leave "remove".
LEMMA SameSlots ==
    ASSUME IInv, UNCHANGED <<cached, full>>, NEW t \in Threads, Aside(t),
           slot[t] \in Slots \ full => slot'[t] = slot[t], at[t] # "remove"
    PROVE  NoDeadSlot'
<1> SUFFICES ASSUME NEW k \in Keys, cached[k] # None, cached[k] \notin full
             PROVE  \/ \E u \in Threads : slot'[u] = cached[k]
                    \/ \E u \in Threads : at'[u] = "remove" /\ key'[u] = k
    BY DEF NoDeadSlot, HeldBy
<1>1. cached[k] \in Slots
    BY Typed DEF TypeOK
<1>2. CASE \E u \in Threads : slot[u] = cached[k]
    BY <1>1, <1>2 DEF Aside
<1>3. CASE \E u \in Threads : at[u] = "remove" /\ key[u] = k
    BY <1>3 DEF Aside
<1> QED
    BY <1>2, <1>3 DEF IInv, NoDeadSlot, HeldBy

\* The lemmas above, put together.
LEMMA CallStepKeeps ==
    ASSUME IInv, NEW t \in Threads, Steady, UNCHANGED entries, listed \subseteq listed', Aside(t),
           slot[t] \in Slots \ full => slot'[t] = slot[t], at[t] # "remove",
           TypeOK', CallInv(t)', registered' => Site \in listed'
    PROVE  IInv'
<1>1. \A u \in Threads : CallInv(u)'
    BY OtherCalls
<1>2. OneKey' /\ NoDeadSlot'
    BY SameKeys, SameSlots DEF Steady
<1> QED
    BY <1>1, <1>2, SameEntries DEF IInv

-----------------------------------------------------------------------------
(* Calls that leave the map alone.                                            *)

LEMMA ReadEpochKeeps ==
    ASSUME IInv, NEW t \in Threads, ReadEpoch(t)
    PROVE  IInv'
<1> USE DEF ReadEpoch, Goto, store, holders, eviction
<1>1. Steady /\ UNCHANGED entries /\ listed \subseteq listed' /\ (registered' => Site \in listed')
    BY Typed DEF Steady, IInv, TypeOK, CallInv
<1>2. Aside(t)
    BY Typed DEF Aside, TypeOK
<1>3. TypeOK'
    BY Typed DEF TypeOK, Places
<1>4. CallInv(t)'
    <2>1. seen'[t] = epoch /\ epoch' = epoch /\ epoch \in Nat
        BY Typed DEF TypeOK
    <2>2. seen'[t] <= epoch'
        <3> HIDE DEF ReadEpoch, Leave, Return
        <3> QED
            BY <2>1
    <2> QED
        BY Typed, <2>2 DEF IInv, TypeOK, CallInv, Current, Tracked, Unheld, Filling, Carrying, AtPlans
<1>5. at[t] # "remove" /\ (slot[t] \in Slots \ full => slot'[t] = slot[t])
    BY Typed DEF IInv, TypeOK, CallInv, Unheld, Carrying
<1> QED
    BY <1>1, <1>2, <1>3, <1>4, <1>5, CallStepKeeps

LEMMA EnterCellKeeps ==
    ASSUME IInv, NEW t \in Threads, EnterCell(t)
    PROVE  IInv'
<1> USE DEF EnterCell, Goto, store, holders, eviction
<1>1. Steady /\ UNCHANGED entries /\ listed \subseteq listed' /\ (registered' => Site \in listed')
    BY Typed DEF Steady, IInv, TypeOK, CallInv
<1>2. Aside(t)
    BY Typed DEF Aside, TypeOK
<1>3. TypeOK'
    BY Typed DEF TypeOK, Places
<1>4. CallInv(t)'
    BY Typed DEF IInv, TypeOK, CallInv, Current, Tracked, Unheld, Filling, Carrying, AtPlans
<1>5. at[t] # "remove" /\ (slot[t] \in Slots \ full => slot'[t] = slot[t])
    BY Typed DEF IInv, TypeOK, CallInv, Unheld, Carrying
<1> QED
    BY <1>1, <1>2, <1>3, <1>4, <1>5, CallStepKeeps

LEMMA FindFullKeeps ==
    ASSUME IInv, NEW t \in Threads, FindFull(t)
    PROVE  IInv'
<1> USE DEF FindFull, Compiled, Serve, Goto, store, holders, eviction
<1>1. Steady /\ UNCHANGED entries /\ listed \subseteq listed' /\ (registered' => Site \in listed')
    BY Typed DEF Steady, IInv, TypeOK, CallInv
<1>2. Aside(t)
    BY Typed DEF Aside, TypeOK
<1>3. TypeOK'
    BY Typed DEF TypeOK, Places
<1>4. CallInv(t)'
    BY Typed DEF IInv, TypeOK, CallInv, Current, Tracked, Unheld, Filling, Carrying, AtPlans
<1>5. at[t] # "remove" /\ (slot[t] \in Slots \ full => slot'[t] = slot[t])
    BY Typed DEF IInv, TypeOK, CallInv, Unheld, Carrying
<1> QED
    BY <1>1, <1>2, <1>3, <1>4, <1>5, CallStepKeeps

LEMMA CompileFailsKeeps ==
    ASSUME IInv, NEW t \in Threads, CompileFails(t)
    PROVE  IInv'
<1> USE DEF CompileFails, Upset, Goto, store, holders, eviction
<1>1. Steady /\ UNCHANGED entries /\ listed \subseteq listed' /\ (registered' => Site \in listed')
    BY Typed DEF Steady, IInv, TypeOK, CallInv
<1>2. Aside(t)
    BY Typed DEF Aside, TypeOK
<1>3. TypeOK'
    <2>1. upsets \in Nat /\ upsets' = upsets + 1
        BY Typed DEF TypeOK
    <2>2. upsets' \in Nat
        BY <2>1
    <2>3. /\ at' = [at EXCEPT ![t] = "drop"]
          /\ UNCHANGED <<cached, full, epoch, entries, listed, registered, route, key, seen, slot, stage,
                         todo, gone, left>>
        OBVIOUS
    <2> HIDE DEF Upset, CompileFails
    <2> QED
        BY Typed, <2>2, <2>3 DEF TypeOK, Places
<1>4. CallInv(t)'
    BY Typed DEF IInv, TypeOK, CallInv, Current, Tracked, Unheld, Filling, Carrying, AtPlans
<1>5. at[t] # "remove" /\ (slot[t] \in Slots \ full => slot'[t] = slot[t])
    BY Typed DEF IInv, TypeOK, CallInv, Unheld, Carrying
<1> QED
    BY <1>1, <1>2, <1>3, <1>4, <1>5, CallStepKeeps

LEMMA RegisterKeeps ==
    ASSUME IInv, NEW t \in Threads, Register(t)
    PROVE  IInv'
<1> USE DEF Register, Goto, store, holders, eviction
<1>1. Steady /\ UNCHANGED entries /\ listed \subseteq listed' /\ (registered' => Site \in listed')
    BY Typed DEF Steady, IInv, TypeOK, CallInv
<1>2. Aside(t)
    BY Typed DEF Aside, TypeOK
<1>3. TypeOK'
    BY Typed DEF TypeOK, Places
<1>4. CallInv(t)'
    BY Typed DEF IInv, TypeOK, CallInv, Current, Tracked, Unheld, Filling, Carrying, AtPlans
<1>5. at[t] # "remove" /\ (slot[t] \in Slots \ full => slot'[t] = slot[t])
    BY Typed DEF IInv, TypeOK, CallInv, Unheld, Carrying
<1> QED
    BY <1>1, <1>2, <1>3, <1>4, <1>5, CallStepKeeps

LEMMA SetFlagKeeps ==
    ASSUME IInv, NEW t \in Threads, SetFlag(t)
    PROVE  IInv'
<1> USE DEF SetFlag, Goto, store, holders, eviction
<1>1. Steady /\ UNCHANGED entries /\ listed \subseteq listed' /\ (registered' => Site \in listed')
    BY Typed DEF Steady, IInv, TypeOK, CallInv
<1>2. Aside(t)
    BY Typed DEF Aside, TypeOK
<1>3. TypeOK'
    BY Typed DEF TypeOK, Places
<1>4. CallInv(t)'
    BY Typed DEF IInv, TypeOK, CallInv, Current, Tracked, Unheld, Filling, Carrying, AtPlans
<1>5. at[t] # "remove" /\ (slot[t] \in Slots \ full => slot'[t] = slot[t])
    BY Typed DEF IInv, TypeOK, CallInv, Unheld, Carrying
<1> QED
    BY <1>1, <1>2, <1>3, <1>4, <1>5, CallStepKeeps

LEMMA RegisterPlansKeeps ==
    ASSUME IInv, NEW t \in Threads, RegisterPlans(t)
    PROVE  IInv'
<1> USE DEF RegisterPlans, Goto, store, holders, eviction
<1>1. Steady /\ UNCHANGED entries /\ listed \subseteq listed' /\ (registered' => Site \in listed')
    BY Typed DEF Steady, IInv, TypeOK, CallInv
<1>2. Aside(t)
    BY Typed DEF Aside, TypeOK
<1>3. TypeOK'
    BY Typed DEF TypeOK, Places
<1>4. CallInv(t)'
    BY Typed DEF IInv, TypeOK, CallInv, Current, Tracked, Unheld, Filling, Carrying, AtPlans
<1>5. at[t] # "remove" /\ (slot[t] \in Slots \ full => slot'[t] = slot[t])
    BY Typed DEF IInv, TypeOK, CallInv, Unheld, Carrying
<1> QED
    BY <1>1, <1>2, <1>3, <1>4, <1>5, CallStepKeeps

LEMMA ReturnKeeps ==
    ASSUME IInv, NEW t \in Threads, Return(t)
    PROVE  IInv'
<1> USE DEF Return, Leave, Goto, store, holders, eviction
<1>1. Steady /\ UNCHANGED entries /\ listed \subseteq listed' /\ (registered' => Site \in listed')
    BY Typed DEF Steady, IInv, TypeOK, CallInv
<1>2. Aside(t)
    BY Typed DEF Aside, TypeOK
<1>3. TypeOK'
    BY Typed DEF TypeOK, Places
<1>4. CallInv(t)'
    <2>1. seen'[t] = 0 /\ epoch' = epoch /\ epoch \in Nat
        BY Typed DEF TypeOK
    <2>2. seen'[t] <= epoch'
        <3> HIDE DEF ReadEpoch, Leave, Return
        <3> QED
            BY <2>1
    <2> QED
        BY Typed, <2>2 DEF IInv, TypeOK, CallInv, Current, Tracked, Unheld, Filling, Carrying, AtPlans
<1>5. at[t] # "remove" /\ (slot[t] \in Slots \ full => slot'[t] = slot[t])
    BY Typed DEF IInv, TypeOK, CallInv, Unheld, Carrying
<1> QED
    BY <1>1, <1>2, <1>3, <1>4, <1>5, CallStepKeeps

LEMMA LaunchKeeps ==
    ASSUME IInv, NEW t \in Threads, NEW k \in Keys, NEW r \in Routes[t], Launch(t, k, r)
    PROVE  IInv'
<1> USE DEF Launch, Goto, store, holders, eviction
<1>1. Steady /\ UNCHANGED entries /\ listed \subseteq listed' /\ (registered' => Site \in listed')
    BY Typed DEF Steady, IInv
<1>2. r \in {"plan", "site", "warm"}
    BY CacheAssumption
<1>3. Aside(t)
    BY Typed DEF Aside, TypeOK
<1>4. TypeOK'
    BY Typed, <1>2 DEF TypeOK, Places
<1>5. CallInv(t)'
    BY Typed, <1>2 DEF IInv, TypeOK, CallInv, Current, Tracked, Unheld, Filling, Carrying, AtPlans
<1>6. at[t] # "remove" /\ (slot[t] \in Slots \ full => slot'[t] = slot[t])
    BY Typed DEF IInv, TypeOK
<1> QED
    BY <1>1, <1>3, <1>4, <1>5, <1>6, CallStepKeeps

\* A lookup that hits: r is stamped with the current epoch.
LEMMA HitKeeps ==
    ASSUME IInv, NEW t \in Threads, NEW c \in Caches, NEW r \in Serving(c, key[t]),
           at[t] \in {"plan get", "site get"}, NEW l \in {"launch", "plan register"},
           l = "plan register" => route[t] = "plan",
           slot' = [slot EXCEPT ![t] = r.slot], at' = [at EXCEPT ![t] = l],
           UNCHANGED <<store, holders, route, key, seen, upsets, eviction>>
    PROVE  IInv'
<1> USE DEF store, holders, eviction
<1>1. Steady /\ UNCHANGED entries /\ listed \subseteq listed' /\ (registered' => Site \in listed')
    BY Typed DEF Steady, IInv
<1>2. r \in entries[c] /\ r \in Entries /\ r.key = key[t] /\ r.epoch = epoch /\ EntryInv(c, r)
    BY Typed DEF Serving, IInv, TypeOK
<1>3. r.slot \in full /\ r.slot \in Slots /\ Current(key[t], r.slot)
      /\ \A k \in Keys : cached[k] = r.slot => k = key[t]
    BY <1>2 DEF EntryInv, Entries
<1>4. Aside(t)
    BY Typed DEF Aside, TypeOK
<1>5. TypeOK'
    BY Typed, <1>3 DEF TypeOK, Places
<1>6. CallInv(t)'
    BY Typed, <1>3 DEF IInv, TypeOK, CallInv, Current, Tracked, Unheld, Filling, Carrying, AtPlans
<1>7. at[t] # "remove" /\ (slot[t] \in Slots \ full => slot'[t] = slot[t])
    BY Typed DEF IInv, TypeOK, CallInv, Unheld
<1> QED
    BY <1>1, <1>4, <1>5, <1>6, <1>7, CallStepKeeps

\* A call that only moves on from at[t] to l, where no more is asked of it.
LEMMA MoveKeeps ==
    ASSUME IInv, NEW t \in Threads, NEW l \in Places, at' = [at EXCEPT ![t] = l], at[t] # "remove",
           CallInv(t)', UNCHANGED <<store, holders, route, key, seen, slot, upsets, eviction>>
    PROVE  IInv'
<1> USE DEF store, holders, eviction
<1>1. Steady /\ UNCHANGED entries /\ listed \subseteq listed' /\ (registered' => Site \in listed')
    BY Typed DEF Steady, IInv
<1>2. Aside(t)
    BY Typed DEF Aside, TypeOK
<1>3. TypeOK'
    BY Typed DEF TypeOK
<1> QED
    BY <1>1, <1>2, <1>3, CallStepKeeps

LEMMA PlanGetKeeps ==
    ASSUME IInv, NEW t \in Threads, PlanGet(t)
    PROVE  IInv'
<1>1. ASSUME NEW r \in Serving(Plans, key[t]), slot' = [slot EXCEPT ![t] = r.slot], Serve(t)
      PROVE  IInv'
    BY Typed, <1>1, HitKeeps DEF PlanGet, Serve
<1>2. CASE Goto(t, "epoch") /\ UNCHANGED slot
    <2>1. CallInv(t)'
        BY Typed, <1>2 DEF PlanGet, Goto, store, holders, eviction, IInv, TypeOK, CallInv, Current, Tracked, Unheld, Filling, Carrying, AtPlans
    <2> QED
        BY <1>2, <2>1, MoveKeeps DEF PlanGet, Goto, Places
<1> QED
    BY <1>1, <1>2 DEF PlanGet

LEMMA SiteGetKeeps ==
    ASSUME IInv, NEW t \in Threads, SiteGet(t)
    PROVE  IInv'
<1>1. ASSUME NEW r \in Serving(Site, key[t]), slot' = [slot EXCEPT ![t] = r.slot], Resolved(t)
      PROVE  IInv'
    BY Typed, <1>1, HitKeeps DEF SiteGet, Resolved, Goto, Serve
<1>2. CASE Goto(t, "slot") /\ UNCHANGED slot
    <2>1. CallInv(t)'
        BY Typed, <1>2 DEF SiteGet, Goto, store, holders, eviction, IInv, TypeOK, CallInv, Current, Tracked, Unheld, Filling, Carrying, AtPlans
    <2> QED
        BY <1>2, <2>1, MoveKeeps DEF SiteGet, Goto, Places
<1> QED
    BY <1>1, <1>2 DEF SiteGet

\* An eviction that has yet to bump the epoch has yet to empty every cache.
LEMMA RemovingIsEmptying ==
    ASSUME NEW st, NEW g, NEW l, NEW s, NEW c, Removing(st, g, s)
    PROVE  Emptying(st, g, l, s, c)
BY DEF Removing, Emptying

LEMMA CheckEpochKeeps ==
    ASSUME IInv, NEW t \in Threads, CheckEpoch(t)
    PROVE  IInv'
<1> USE DEF CheckEpoch, Goto, Resolved, Serve
<1>1. PICK l \in {"write", "plan write", "plan register", "launch"} :
         /\ at' = [at EXCEPT ![t] = l]
         /\ l = "write" => at[t] = "store" /\ seen[t] = epoch
         /\ l = "plan write" => at[t] = "plan store" /\ seen[t] = epoch
         /\ l = "plan register" => route[t] = "plan"
    OBVIOUS
<1>2. at[t] \in {"store", "plan store"}
      /\ UNCHANGED <<store, holders, route, key, seen, slot, upsets, eviction>>
    OBVIOUS
<1> HIDE DEF CheckEpoch
<1>3. seen[t] = epoch => /\ Current(key[t], slot[t])
                        /\ \A c : Tracked(key[t], slot[t], c)
    BY <1>2, RemovingIsEmptying DEF IInv, CallInv, Carrying, Current, Tracked
<1>4. CallInv(t)'
    BY Typed, <1>1, <1>2, <1>3 DEF store, holders, eviction, IInv, TypeOK, CallInv, Current, Tracked, Unheld, Filling, Carrying, AtPlans
<1> QED
    BY <1>1, <1>2, <1>4, MoveKeeps DEF Places

LEMMA DropSlotKeeps ==
    ASSUME IInv, NEW t \in Threads, DropSlot(t)
    PROVE  IInv'
<1> USE DEF DropSlot, Dropped, Goto, store, holders, eviction
<1>1. Steady /\ UNCHANGED entries /\ listed \subseteq listed' /\ (registered' => Site \in listed')
    BY Typed DEF Steady, IInv
<1>2. Aside(t) /\ slot'[t] = None /\ at'[t] = "remove" /\ key'[t] = key[t]
    BY Typed DEF Aside, TypeOK
<1>3. TypeOK'
    BY Typed DEF TypeOK, Places
<1>4. CallInv(t)'
    BY Typed DEF IInv, TypeOK, CallInv, Current, Tracked, Unheld, Filling, Carrying, AtPlans
<1>5. NoDeadSlot'
    <2> SUFFICES ASSUME NEW k \in Keys, cached[k] # None, cached[k] \notin full
                 PROVE  \/ \E u \in Threads : slot'[u] = cached[k]
                        \/ \E u \in Threads : at'[u] = "remove" /\ key'[u] = k
        BY DEF NoDeadSlot, HeldBy
    <2>1. CASE slot[t] = cached[k]
        <3>1. key[t] = k
            BY <2>1 DEF IInv, CallInv
        <3> QED
            BY <1>2, <3>1
    <2>2. CASE \E u \in Threads : u # t /\ (slot[u] = cached[k] \/ (at[u] = "remove" /\ key[u] = k))
        BY <1>2, <2>2 DEF Aside
    <2>3. at[t] # "remove"
        OBVIOUS
    <2> QED
        BY <2>1, <2>2, <2>3 DEF IInv, NoDeadSlot, HeldBy
<1> QED
    BY <1>1, <1>2, <1>3, <1>4, <1>5, OtherCalls, SameEntries, SameKeys DEF IInv, Steady

-----------------------------------------------------------------------------
(* Calls that change the map or the caches.                                   *)

LEMMA InUseHolds ==
    /\ \A k \in Keys : cached[k] \in InUse
    /\ \A u \in Threads : slot[u] \in InUse
    /\ \A c \in Caches : \A r \in entries[c] : r.slot \in InUse
<1>1. \A k \in Keys : cached[k] \in InUse
    BY DEF InUse
<1>2. \A u \in Threads : slot[u] \in InUse
    BY DEF InUse
<1>3. ASSUME NEW d \in Caches, NEW x \in entries[d]
      PROVE  x.slot \in InUse
    BY DEF InUse
<1> QED
    BY <1>1, <1>2, <1>3

\* A slot that nothing refers to is taken for the key.
LEMMA NewSlotKeeps ==
    ASSUME IInv, NEW t \in Threads, at[t] = "slot", cached[key[t]] = None, NEW s \in Slots \ InUse,
           cached' = [cached EXCEPT ![key[t]] = s], full' = full \ {s},
           slot' = [slot EXCEPT ![t] = s], Goto(t, "cell"),
           UNCHANGED <<epoch, holders, route, key, seen, upsets, eviction>>
    PROVE  IInv'
<1> USE DEF Goto, holders, eviction
<1> DEFINE m == key[t]
<1>1. /\ \A k \in Keys : cached[k] # s
      /\ \A u \in Threads : slot[u] # s
      /\ \A c \in Caches : \A r \in entries[c] : r.slot # s
    BY InUseHolds
<1>2. m \in Keys /\ s \in Slots /\ s # None /\ slot[t] = None
    BY Typed DEF IInv, TypeOK, CallInv, Unheld
<1>3. cached'[m] = s /\ \A k \in Keys : k # m => cached'[k] = cached[k]
    BY Typed, <1>2 DEF TypeOK
<1>4. TypeOK'
    BY Typed, <1>2 DEF TypeOK, Places
<1>5. OneKey'
    BY <1>1, <1>2, <1>3 DEF IInv, OneKey
<1>6. slot'[t] = s /\ at'[t] = "cell" /\ Aside(t)
    BY Typed DEF TypeOK, Aside
<1>7. \A x, k : k \in Keys /\ x \in Slots /\ x # s =>
          /\ x \in full => x \in full'
          /\ cached'[k] = x => cached[k] = x
          /\ cached[k] = x => cached'[k] = x
    BY <1>2, <1>3, Typed
<1>8. \A x, k, c : k \in Keys /\ x \in Slots /\ x # s =>
          /\ Current(k, x) => cached'[k] = x \/ Removing(stage', gone', x)
          /\ Tracked(k, x, c) => cached'[k] = x \/ Emptying(stage', gone', left', x, c)
    BY <1>7 DEF Current, Tracked
<1>9. ASSUME NEW u \in Threads \ {t}
      PROVE  CallInv(u)'
    <2>1. at'[u] = at[u] /\ route'[u] = route[u] /\ key'[u] = key[u] /\ seen'[u] = seen[u]
          /\ slot'[u] = slot[u] /\ CallInv(u)
        BY <1>6 DEF Aside, IInv
    <2>2. key[u] \in Keys /\ slot[u] \in Slots \cup {None} /\ slot[u] # s /\ full \subseteq Slots
        BY Typed, <1>1 DEF TypeOK
    <2>3. at[u] \in Filling \cup Carrying \cup {"launch"} => slot[u] \in Slots
        BY Typed, <2>1, <2>2 DEF CallInv, Filling
    <2>4. at[u] \in Carrying \cup {"launch"} => slot[u] \in full'
        BY <2>1, <2>2 DEF CallInv
    <2>5. \A k \in Keys : slot[u] # None /\ cached'[k] = slot[u] => k = key[u]
        BY <1>7, <2>1, <2>2 DEF CallInv
    <2>6. at[u] \in Filling \cup Carrying /\ seen[u] = epoch =>
              cached'[key[u]] = slot[u] \/ Removing(stage', gone', slot[u])
        BY <1>8, <2>1, <2>2, <2>3 DEF CallInv
    <2>7. /\ at[u] = "write" => cached'[key[u]] = slot[u] \/ Emptying(stage', gone', left', slot[u], Site)
          /\ at[u] = "plan write" => cached'[key[u]] = slot[u] \/ Emptying(stage', gone', left', slot[u], Plans)
        BY <1>8, <2>1, <2>2, <2>3 DEF CallInv, Carrying
    <2> QED
        BY <2>1, <2>4, <2>5, <2>6, <2>7 DEF CallInv, Current, Tracked
<1>10. CallInv(t)'
    <2>1. CallInv(t) /\ key'[t] = m /\ seen'[t] = seen[t]
        BY DEF IInv
    <2>2. \A k \in Keys : cached'[k] = s => k = m
        BY <1>1, <1>3
    <2> QED
        BY <1>2, <1>3, <1>6, <2>1, <2>2 DEF CallInv, Current, Unheld, Filling, Carrying, AtPlans
<1>11. ASSUME NEW c \in Caches, NEW r \in entries'[c]
       PROVE  EntryInv(c, r)'
    <2>1. r \in entries[c] /\ r \in Entries /\ EntryInv(c, r) /\ r.slot # s
        BY Typed, <1>1 DEF IInv, TypeOK
    <2>2. r.key \in Keys /\ r.slot \in Slots
        BY <2>1 DEF Entries
    <2> QED
        BY <1>7, <1>8, <2>1, <2>2 DEF EntryInv, Current, Tracked
<1>12. NoDeadSlot'
    <2> SUFFICES ASSUME NEW k \in Keys, cached'[k] # None, cached'[k] \notin full'
                 PROVE  \/ \E u \in Threads : slot'[u] = cached'[k]
                        \/ \E u \in Threads : at'[u] = "remove" /\ key'[u] = k
        BY DEF NoDeadSlot, HeldBy
    <2>1. CASE k = m
        BY <1>3, <1>6, <2>1
    <2>2. CASE k # m
        <3>1. cached'[k] = cached[k] /\ cached[k] \notin full
            BY <1>1, <1>3, <2>2
        <3>2. PICK u \in Threads : slot[u] = cached[k] \/ (at[u] = "remove" /\ key[u] = k)
            BY <3>1 DEF IInv, NoDeadSlot, HeldBy
        <3>3. u # t
            BY <1>2, <3>1, <3>2
        <3> QED
            BY <1>6, <3>1, <3>2, <3>3 DEF Aside
    <2> QED
        BY <2>1, <2>2
<1>13. registered' => Site \in listed'
    BY DEF IInv
<1> QED
    BY <1>4, <1>5, <1>9, <1>10, <1>11, <1>12, <1>13 DEF IInv

LEMMA TakeSlotKeeps ==
    ASSUME IInv, NEW t \in Threads, TakeSlot(t)
    PROVE  IInv'
<1>1. CASE /\ cached[key[t]] # None
           /\ slot' = [slot EXCEPT ![t] = cached[key[t]]]
           /\ UNCHANGED <<cached, full>>
    <2> USE DEF Goto, store, holders, eviction
    <2>1. at[t] = "slot" /\ Goto(t, "cell")
          /\ UNCHANGED <<epoch, holders, route, key, seen, upsets, eviction>>
        BY DEF TakeSlot
    <2>2. Steady /\ UNCHANGED entries /\ listed \subseteq listed' /\ (registered' => Site \in listed')
        BY <1>1, <2>1 DEF Steady, IInv
    <2>3. Aside(t)
        BY Typed, <1>1, <2>1 DEF Aside, TypeOK
    <2>4. TypeOK'
        BY Typed, <1>1, <2>1 DEF TypeOK, Places
    <2>5. CallInv(t)'
        BY Typed, <1>1, <2>1 DEF OneKey, IInv, TypeOK, CallInv, Current, Tracked, Unheld, Filling, Carrying, AtPlans
    <2>6. at[t] # "remove" /\ slot[t] \notin Slots
        BY Typed, <2>1 DEF IInv, CallInv, Unheld
    <2> QED
        BY <2>2, <2>3, <2>4, <2>5, <2>6, CallStepKeeps
<1>2. ASSUME cached[key[t]] = None, Slots \ InUse # {}
      PROVE  IInv'
    <2> DEFINE s == CHOOSE x \in Slots \ InUse : TRUE
    <2>1. s \in Slots \ InUse
        BY <1>2
    <2>2. /\ cached' = [cached EXCEPT ![key[t]] = s] /\ full' = full \ {s}
          /\ slot' = [slot EXCEPT ![t] = s]
        BY <1>2 DEF TakeSlot
    <2> HIDE DEF s
    <2>3. PICK x \in Slots \ InUse :
             /\ cached' = [cached EXCEPT ![key[t]] = x] /\ full' = full \ {x}
             /\ slot' = [slot EXCEPT ![t] = x]
        BY <2>1, <2>2
    <2> QED
        BY <1>2, <2>3, NewSlotKeeps DEF TakeSlot
<1> QED
    BY <1>1, <1>2 DEF TakeSlot

LEMMA CompileSucceedsKeeps ==
    ASSUME IInv, NEW t \in Threads, CompileSucceeds(t)
    PROVE  IInv'
<1>1. /\ at[t] = "compile" /\ full' = (full \cap InUse) \cup {slot[t]}
      /\ UNCHANGED <<cached, epoch, entries, listed, registered, route, key, seen, slot, upsets>>
      /\ UNCHANGED <<stage, todo, gone, left>>
    BY DEF CompileSucceeds, holders, eviction
<1>2. PICK l \in {"launch", "register"} : at' = [at EXCEPT ![t] = l]
    BY DEF CompileSucceeds, Compiled, Serve, Goto
<1>3. slot[t] \in Slots /\ slot[t] \in full'
    BY Typed, <1>1 DEF IInv, TypeOK, CallInv, Filling
<1>4. \A s \in InUse : s \in full => s \in full'
    BY <1>1
<1>5. at'[t] = l /\ Aside(t)
    BY Typed, <1>1, <1>2 DEF TypeOK, Aside
<1>6. TypeOK'
    BY Typed, <1>1, <1>2, <1>3 DEF TypeOK, Places
<1>7. ASSUME NEW u \in Threads \ {t}
      PROVE  CallInv(u)'
    <2>1. at'[u] = at[u] /\ CallInv(u) /\ (slot[u] \in full => slot[u] \in full')
        BY <1>4, <1>5, InUseHolds DEF Aside, IInv
    <2> QED
        BY <1>1, <2>1 DEF CallInv, Current, Tracked
<1>8. CallInv(t)'
    <2>1. CallInv(t)
        BY DEF IInv
    <2> QED
        BY <1>1, <1>2, <1>3, <1>5, <2>1
        DEF CallInv, Current, Tracked, Unheld, Filling, Carrying, AtPlans
<1>9. ASSUME NEW c \in Caches, NEW r \in entries'[c]
      PROVE  EntryInv(c, r)'
    <2>1. EntryInv(c, r) /\ r.slot \in full'
        BY <1>1, <1>4, InUseHolds DEF IInv, EntryInv
    <2> QED
        BY <1>1, <2>1 DEF EntryInv, Current, Tracked
<1>10. NoDeadSlot'
    <2> SUFFICES ASSUME NEW k \in Keys, cached[k] # None, cached[k] \notin full'
                 PROVE  \/ \E u \in Threads : slot[u] = cached[k]
                        \/ \E u \in Threads : at'[u] = "remove" /\ key[u] = k
        BY <1>1 DEF NoDeadSlot, HeldBy
    <2>1. cached[k] \notin full
        BY <1>4, InUseHolds
    <2> QED
        BY <1>1, <1>5, <2>1 DEF IInv, NoDeadSlot, HeldBy, Aside
<1> QED
    BY <1>1, <1>6, <1>7, <1>8, <1>9, <1>10, SameKeys DEF IInv

\* A failed caller removes the slot of its key when nobody fills it or has it.
LEMMA RemoveIfAbandonedKeeps ==
    ASSUME IInv, NEW t \in Threads, RemoveIfAbandoned(t)
    PROVE  IInv'
<1> DEFINE m == key[t]
<1>1. /\ at[t] = "remove"
      /\ UNCHANGED <<full, epoch, entries, listed, registered, key, upsets, stage, todo, gone, left>>
      /\ at' = [at EXCEPT ![t] = "idle"]
      /\ slot' = [slot EXCEPT ![t] = None]
      /\ seen' = [seen EXCEPT ![t] = 0]
      /\ route' = [route EXCEPT ![t] = "warm"]
    BY DEF RemoveIfAbandoned, Leave, Goto, holders, eviction
<1>2. \/ cached' = cached /\ ~(cached[m] # None /\ Abandoned(cached[m]))
      \/ cached' = [cached EXCEPT ![m] = None] /\ cached[m] # None /\ Abandoned(cached[m])
    BY DEF RemoveIfAbandoned
<1>3. m \in Keys /\ slot[t] = None
    BY Typed, <1>1 DEF IInv, TypeOK, CallInv, Unheld
<1>4. at'[t] = "idle" /\ slot'[t] = None /\ seen'[t] = 0 /\ route'[t] = "warm" /\ Aside(t)
    BY Typed, <1>1 DEF TypeOK, Aside
<1>5. /\ \A k \in Keys : k # m => cached'[k] = cached[k]
      /\ cached'[m] = cached[m] \/ (cached'[m] = None /\ Abandoned(cached[m]))
    BY Typed, <1>2, <1>3 DEF TypeOK
<1>6. TypeOK'
    BY Typed, <1>1, <1>2 DEF TypeOK, Places
<1>7. OneKey'
    BY <1>3, <1>5 DEF IInv, OneKey
<1>8. ASSUME NEW k \in Keys, NEW s \in Slots, s \in full \/ HeldBy(s) # {}
      PROVE  cached'[k] = s <=> cached[k] = s
    BY Typed, <1>5, <1>8 DEF Abandoned
<1>9. ASSUME NEW u \in Threads \ {t}
      PROVE  CallInv(u)'
    <2>1. /\ at'[u] = at[u] /\ route'[u] = route[u] /\ key'[u] = key[u] /\ seen'[u] = seen[u]
          /\ slot'[u] = slot[u] /\ CallInv(u) /\ key[u] \in Keys /\ slot[u] \in Slots \cup {None}
        BY Typed, <1>4 DEF Aside, IInv, TypeOK
    <2>2. \A k \in Keys : slot[u] # None => (cached'[k] = slot[u] <=> cached[k] = slot[u])
        <3>1. u \in HeldBy(slot[u])
            BY DEF HeldBy
        <3> QED
            BY <1>8, <2>1, <3>1
    <2>3. at[u] \in Filling \cup Carrying => slot[u] # None
        BY Typed, <2>1 DEF CallInv, TypeOK
    <2>4. at[u] \in Filling \cup Carrying /\ seen[u] = epoch =>
              cached'[key[u]] = slot[u] \/ Removing(stage, gone, slot[u])
        BY <2>1, <2>2, <2>3 DEF CallInv, Current
    <2>5. /\ at[u] = "write" => cached'[key[u]] = slot[u] \/ Emptying(stage, gone, left, slot[u], Site)
          /\ at[u] = "plan write" => cached'[key[u]] = slot[u] \/ Emptying(stage, gone, left, slot[u], Plans)
        BY <2>1, <2>2, <2>3 DEF CallInv, Tracked, Carrying
    <2>6. \A k \in Keys : slot[u] # None /\ cached'[k] = slot[u] => k = key[u]
        BY <2>1, <2>2 DEF CallInv
    <2>7. UNCHANGED <<full, epoch, listed, stage, gone, left>>
        BY <1>1
    <2> QED
        BY <2>1, <2>4, <2>5, <2>6, <2>7 DEF CallInv, Current, Tracked
<1>10. CallInv(t)'
    <2>1. seen'[t] <= epoch'
        BY Typed, <1>1, <1>4 DEF TypeOK
    <2> QED
        BY <1>4, <2>1 DEF CallInv, Unheld, Filling, Carrying, AtPlans
<1>11. ASSUME NEW c \in Caches, NEW r \in entries'[c]
       PROVE  EntryInv(c, r)'
    <2>1. EntryInv(c, r) /\ r.slot \in full /\ r.slot \in Slots /\ r.key \in Keys
        BY Typed, <1>1 DEF IInv, TypeOK, EntryInv, Entries
    <2>2. \A k \in Keys : cached'[k] = r.slot <=> cached[k] = r.slot
        BY <1>8, <2>1
    <2> QED
        BY <1>1, <2>1, <2>2 DEF EntryInv, Current, Tracked
<1>12. NoDeadSlot'
    <2> SUFFICES ASSUME NEW k \in Keys, cached'[k] # None, cached'[k] \notin full
                 PROVE  \/ \E u \in Threads : slot'[u] = cached'[k]
                        \/ \E u \in Threads : at'[u] = "remove" /\ key'[u] = k
        BY <1>1 DEF NoDeadSlot, HeldBy
    <2>1. cached'[k] = cached[k]
        BY <1>5
    <2>2. \E u \in Threads : slot[u] = cached[k] \/ (k # m /\ at[u] = "remove" /\ key[u] = k)
        <3>1. CASE k = m
            <4>1. HeldBy(cached[k]) # {}
                BY <1>2, <1>3, <2>1, <3>1, Typed DEF Abandoned, TypeOK
            <4> QED
                BY <4>1 DEF HeldBy
        <3>2. CASE k # m
            BY <2>1, <3>2 DEF IInv, NoDeadSlot, HeldBy
        <3> QED
            BY <3>1, <3>2
    <2> QED
        BY <1>3, <1>4, <2>1, <2>2 DEF Aside
<1>13. registered' => Site \in listed'
    BY <1>1 DEF IInv
<1> QED
    BY <1>6, <1>7, <1>9, <1>10, <1>11, <1>12, <1>13 DEF IInv

LEMMA WriteKeeps ==
    ASSUME IInv, NEW t \in Threads, Write(t)
    PROVE  IInv'
<1>1. /\ UNCHANGED <<cached, full, epoch, listed, registered, route, key, seen, slot, upsets>>
      /\ UNCHANGED <<stage, todo, gone, left>>
    BY DEF Write, store, eviction
<1>2. /\ CallInv(t) /\ key[t] \in Keys /\ seen[t] \in Nat
      /\ slot[t] \in full /\ slot[t] \in Slots
    BY Typed DEF Write, IInv, TypeOK, CallInv, Carrying
<1>3. Mine(t) \in Entries /\ Mine(t).key = key[t] /\ Mine(t).slot = slot[t] /\ Mine(t).epoch = seen[t]
    BY <1>2 DEF Mine, Entries
<1>4. PICK c \in Caches, l \in {"launch", "plan register"}, E \in SUBSET Entries :
         /\ E \subseteq entries[c] \cup {Mine(t)}
         /\ (at[t] = "write" /\ c = Site) \/ (at[t] = "plan write" /\ c = Plans)
         /\ entries' = [entries EXCEPT ![c] = E]
         /\ at' = [at EXCEPT ![t] = l]
         /\ l = "plan register" => route[t] = "plan"
    <2>1. CASE at[t] = "write"
        <3> DEFINE E == (entries[Site] \ SameProbe(t)) \cup {Mine(t)}
        <3>1. entries' = [entries EXCEPT ![Site] = E] /\ Resolved(t)
            BY <2>1 DEF Write
        <3>2. E \subseteq entries[Site] \cup {Mine(t)}
            OBVIOUS
        <3>3. E \in SUBSET Entries
            BY Typed, <1>3, <3>2 DEF TypeOK
        <3> HIDE DEF E
        <3> QED
            BY Typed, <2>1, <3>1, <3>2, <3>3 DEF Resolved, Serve, Goto
    <2>2. CASE at[t] = "plan write"
        <3> DEFINE E == IF SameEntry(t) = {} THEN entries[Plans] \cup {Mine(t)} ELSE entries[Plans]
        <3>1. entries' = [entries EXCEPT ![Plans] = E] /\ Serve(t)
            BY <2>2 DEF Write
        <3>2. E \subseteq entries[Plans] \cup {Mine(t)}
            OBVIOUS
        <3>3. E \in SUBSET Entries
            BY Typed, <1>3, <3>2 DEF TypeOK
        <3> HIDE DEF E
        <3> QED
            BY Typed, <2>2, <3>1, <3>2, <3>3 DEF Serve
    <2> QED
        BY <2>1, <2>2 DEF Write
<1>5. EntryInv(c, Mine(t))
    <2>1. c \in listed /\ Tracked(key[t], slot[t], c)
          /\ (seen[t] = epoch => Current(key[t], slot[t])) /\ seen[t] <= epoch
          /\ \A k \in Keys : cached[k] = slot[t] => k = key[t]
        BY Typed, <1>4, <1>2 DEF CallInv, Carrying
    <2> QED
        BY <1>2, <1>3, <2>1 DEF EntryInv
<1>6. \A d \in Caches : entries'[d] = IF d = c THEN E ELSE entries[d]
    BY Typed, <1>4 DEF TypeOK
<1>7. \A d \in Caches : \A r \in entries'[d] : EntryInv(d, r)
    BY <1>4, <1>5, <1>6 DEF IInv
<1>8. \A d \in Caches : \A r \in entries'[d] : EntryInv(d, r)'
    BY <1>1, <1>7 DEF EntryInv, Current, Tracked
<1>9. TypeOK'
    <2>1. E \in SUBSET Entries
        BY Typed, <1>4, <1>3 DEF TypeOK
    <2>2. entries' \in [Caches -> SUBSET Entries]
        BY Typed, <1>4, <2>1 DEF TypeOK
    <2>3. at' \in [Threads -> Places]
        BY Typed, <1>4 DEF TypeOK, Places
    <2> QED
        BY Typed, <1>1, <2>2, <2>3 DEF TypeOK
<1>10. Steady /\ Aside(t) /\ at'[t] = l
    BY Typed, <1>1, <1>4 DEF Steady, Aside, TypeOK
<1>11. CallInv(t)'
    BY <1>1, <1>4, <1>2, <1>10 DEF CallInv, Current, Tracked, Unheld, Filling, Carrying, AtPlans
<1>12. \A u \in Threads : CallInv(u)'
    BY <1>1, <1>10, <1>11, OtherCalls
<1>13. OneKey' /\ NoDeadSlot' /\ (registered' => Site \in listed')
    BY <1>1, <1>4, <1>10, SameKeys, SameSlots DEF IInv
<1> QED
    BY <1>8, <1>9, <1>12, <1>13 DEF IInv

-----------------------------------------------------------------------------
(* Evictions.                                                                 *)

\* A step of no caller that leaves the map and the epoch alone and forgets no
\* removed slot while a cache on the lists may keep it.
LEMMA EvictionKeeps ==
    ASSUME IInv, UNCHANGED <<cached, full, epoch, listed, registered, call>>, TypeOK',
           \A c \in Caches : entries'[c] \subseteq entries[c],
           \A s : Removing(stage, gone, s) => Removing(stage', gone', s),
           \A s, c : c \in listed /\ Emptying(stage, gone, left, s, c) =>
               \/ Emptying(stage', gone', left', s, c)
               \/ entries'[c] = {} /\ ~Writing(c)
    PROVE  IInv'
<1> USE DEF call
<1>1. ASSUME NEW t \in Threads
      PROVE  CallInv(t)'
    <2>1. CallInv(t)
        BY DEF IInv
    <2>2. /\ at[t] = "write" => Site \in listed /\ Writing(Site) /\ Tracked(key[t], slot[t], Site)
          /\ at[t] = "plan write" => Plans \in listed /\ Writing(Plans) /\ Tracked(key[t], slot[t], Plans)
        BY <2>1 DEF CallInv, Writing, Target
    <2>3. /\ at[t] = "write" => cached[key[t]] = slot[t] \/ Emptying(stage', gone', left', slot[t], Site)
          /\ at[t] = "plan write" => cached[key[t]] = slot[t] \/ Emptying(stage', gone', left', slot[t], Plans)
        BY <2>2 DEF Tracked
    <2>4. at[t] \in Filling \cup Carrying /\ seen[t] = epoch =>
              cached[key[t]] = slot[t] \/ Removing(stage', gone', slot[t])
        BY <2>1 DEF CallInv, Current
    <2> QED
        BY <2>1, <2>3, <2>4 DEF CallInv, Current, Tracked
<1>2. ASSUME NEW c \in Caches, NEW r \in entries'[c]
      PROVE  EntryInv(c, r)'
    <2>1. EntryInv(c, r) /\ entries'[c] # {}
        BY DEF IInv
    <2>2. cached[r.key] = r.slot \/ Emptying(stage', gone', left', r.slot, c)
        BY <2>1 DEF EntryInv, Tracked
    <2>3. r.epoch = epoch => cached[r.key] = r.slot \/ Removing(stage', gone', r.slot)
        BY <2>1 DEF EntryInv, Current
    <2> QED
        BY <2>1, <2>2, <2>3 DEF EntryInv, Current, Tracked
<1>3. OneKey' /\ NoDeadSlot' /\ (registered' => Site \in listed')
    BY SameKeys DEF IInv, NoDeadSlot, HeldBy
<1> QED
    BY <1>1, <1>2, <1>3 DEF IInv

\* The evictions' state after a step of e, which other evictions do not notice.
Alone(e) == \A f \in Evictors \ {e} : stage'[f] = stage[f] /\ gone'[f] = gone[f] /\ left'[f] = left[f]

LEMMA EvictKeeps ==
    ASSUME IInv, NEW e \in Evictors, NEW K \in SUBSET Keys, Evict(e, K)
    PROVE  IInv'
<1> USE DEF Evict, store, holders, call
<1>1. TypeOK'
    BY Typed DEF TypeOK, Stages
<1>2. stage[e] = "idle" /\ gone' = gone /\ left' = left /\ entries' = entries
      /\ \A f \in Evictors \ {e} : stage'[f] = stage[f]
    BY Typed DEF TypeOK
<1>3. UNCHANGED <<cached, full, epoch, listed, registered, call>>
    OBVIOUS
<1> HIDE DEF Evict, store, holders, call
<1>4. \A s : Removing(stage, gone, s) => Removing(stage', gone', s)
    BY <1>2 DEF Removing
<1>5. \A s, c : Emptying(stage, gone, left, s, c) => Emptying(stage', gone', left', s, c)
    BY <1>2 DEF Emptying
<1> QED
    BY <1>1, <1>2, <1>3, <1>4, <1>5, EvictionKeeps

LEMMA RemovedKeeps ==
    ASSUME IInv, NEW e \in Evictors, Removed(e)
    PROVE  IInv'
<1> USE DEF Removed, store, holders, call
<1>1. TypeOK'
    BY Typed DEF TypeOK, Stages
<1>2. /\ gone' = gone /\ left' = left /\ entries' = entries
      /\ stage'[e] = (IF gone[e] = {} THEN "idle" ELSE "bump") /\ Alone(e)
    BY Typed DEF TypeOK, Alone
<1>3. UNCHANGED <<cached, full, epoch, listed, registered, call>>
    OBVIOUS
<1> HIDE DEF Removed, store, holders, call
<1>4. \A s : Removing(stage, gone, s) => Removing(stage', gone', s)
    BY <1>2 DEF Removing, Alone
<1>5. \A s, c : Emptying(stage, gone, left, s, c) => Emptying(stage', gone', left', s, c)
    BY <1>2 DEF Emptying, Alone
<1> QED
    BY <1>1, <1>2, <1>3, <1>4, <1>5, EvictionKeeps

LEMMA LockSitesKeeps ==
    ASSUME IInv, NEW e \in Evictors, LockSites(e)
    PROVE  IInv'
<1> USE DEF LockSites, store, holders, call
<1>1. TypeOK'
    BY Typed DEF TypeOK, Stages
<1>2. /\ stage[e] = "lock sites" /\ gone' = gone /\ entries' = entries
      /\ stage'[e] = "sites" /\ left'[e] = listed \cap {Site} /\ Alone(e)
    BY Typed DEF TypeOK, Alone
<1>3. UNCHANGED <<cached, full, epoch, listed, registered, call>>
    OBVIOUS
<1> HIDE DEF LockSites, store, holders, call
<1>4. \A s : Removing(stage, gone, s) => Removing(stage', gone', s)
    BY <1>2 DEF Removing, Alone
<1>5. \A s, c : c \in listed /\ Emptying(stage, gone, left, s, c) => Emptying(stage', gone', left', s, c)
    BY <1>2 DEF Emptying, Alone
<1> QED
    BY <1>1, <1>2, <1>3, <1>4, <1>5, EvictionKeeps

LEMMA LockStoresKeeps ==
    ASSUME IInv, NEW e \in Evictors, LockStores(e)
    PROVE  IInv'
<1> USE DEF LockStores, store, holders, call
<1>1. TypeOK'
    BY Typed DEF TypeOK, Stages
<1>2. /\ stage[e] = "lock plans" /\ gone' = gone /\ entries' = entries
      /\ stage'[e] = "plans" /\ left'[e] = listed \cap {Plans} /\ Alone(e)
    BY Typed DEF TypeOK, Alone
<1>3. UNCHANGED <<cached, full, epoch, listed, registered, call>>
    OBVIOUS
<1> HIDE DEF LockStores, store, holders, call
<1>4. \A s : Removing(stage, gone, s) => Removing(stage', gone', s)
    BY <1>2 DEF Removing, Alone
<1>5. \A s, c : c \in listed /\ Emptying(stage, gone, left, s, c) => Emptying(stage', gone', left', s, c)
    BY <1>2 DEF Emptying, Alone
<1> QED
    BY <1>1, <1>2, <1>3, <1>4, <1>5, EvictionKeeps

LEMMA EmptyKeeps ==
    ASSUME IInv, NEW e \in Evictors, Empty(e)
    PROVE  IInv'
<1> USE DEF Empty, store, call
<1>1. PICK d \in left[e] : /\ ~Writing(d)
                           /\ entries' = [entries EXCEPT ![d] = {}]
                           /\ left' = [left EXCEPT ![e] = @ \ {d}]
    OBVIOUS
<1>2. TypeOK'
    BY Typed, <1>1 DEF TypeOK
<1>3. d \in Caches /\ entries'[d] = {} /\ \A c \in Caches : entries'[c] \subseteq entries[c]
    BY Typed, <1>1 DEF TypeOK
<1>4. /\ gone' = gone /\ stage' = stage /\ left'[e] = left[e] \ {d} /\ Alone(e)
      /\ stage[e] \in {"sites", "plans"}
    BY Typed, <1>1 DEF TypeOK, Alone
<1>5. UNCHANGED <<cached, full, epoch, listed, registered, call>>
    OBVIOUS
<1> HIDE DEF Empty, store, call
<1>6. \A s : Removing(stage, gone, s) => Removing(stage', gone', s)
    BY <1>4
<1>7. \A s, c : c # d /\ Emptying(stage, gone, left, s, c) => Emptying(stage', gone', left', s, c)
    BY <1>4 DEF Emptying, Alone
<1> QED
    BY <1>1, <1>2, <1>3, <1>5, <1>6, <1>7, EvictionKeeps

LEMMA EmptiedKeeps ==
    ASSUME IInv, NEW e \in Evictors, Emptied(e)
    PROVE  IInv'
<1> USE DEF Emptied, store, holders, call
<1>1. TypeOK'
    BY Typed DEF TypeOK, Stages
<1>2. /\ left' = left /\ entries' = entries /\ left[e] = {} /\ Alone(e)
      /\ \/ stage[e] = "sites" /\ stage'[e] = "lock plans" /\ gone' = gone
         \/ stage[e] = "plans"
    BY Typed DEF TypeOK, Alone
<1>3. UNCHANGED <<cached, full, epoch, listed, registered, call>>
    OBVIOUS
<1> HIDE DEF Emptied, store, holders, call
<1>4. \A s : Removing(stage, gone, s) => Removing(stage', gone', s)
    BY <1>2 DEF Removing, Alone
<1>5. \A s, c : Emptying(stage, gone, left, s, c) => Emptying(stage', gone', left', s, c)
    BY <1>2, Typed DEF Emptying, Alone
<1> QED
    BY <1>1, <1>2, <1>3, <1>4, <1>5, EvictionKeeps

LEMMA ClearKeeps ==
    ASSUME IInv, Clear
    PROVE  IInv'
<1>1. /\ UNCHANGED <<cached, full, epoch, listed, registered, call, todo>> /\ upsets' = upsets + 1
      /\ UNCHANGED <<stage, gone, left>> /\ entries' = [entries EXCEPT ![Plans] = {}]
    BY DEF Clear, Upset, store, eviction
<1>2. upsets' \in Nat
    BY Typed, <1>1 DEF TypeOK
<1>3. \A c \in Caches : entries'[c] \subseteq entries[c]
    BY Typed, <1>1 DEF TypeOK
<1>4. TypeOK'
    BY Typed, <1>1, <1>2 DEF TypeOK, call
<1> QED
    BY <1>1, <1>3, <1>4, EvictionKeeps

\* No entry and no call is stamped with the epoch an eviction has just begun.
LEMMA BumpKeeps ==
    ASSUME IInv, NEW e \in Evictors, Bump(e)
    PROVE  IInv'
<1> USE DEF Bump, holders, call
<1>1. /\ UNCHANGED <<cached, full, entries, listed, registered, call, upsets, todo, gone, left>>
      /\ epoch' = epoch + 1 /\ stage[e] = "bump" /\ stage' = [stage EXCEPT ![e] = "lock sites"]
    OBVIOUS
<1>2. epoch' = epoch + 1
    OBVIOUS
<1> HIDE DEF Bump, holders, call
<1>3. epoch \in Nat /\ epoch' \in Nat
    <2>1. epoch \in Nat
        BY Typed DEF TypeOK
    <2> QED
        BY <1>2, <2>1
<1>4. TypeOK'
    <2>1. stage' \in [Evictors -> Stages]
        BY Typed, <1>1 DEF TypeOK, Stages
    <2> QED
        BY Typed, <1>1, <1>3, <2>1 DEF TypeOK, call
<1>5. stage'[e] = "lock sites" /\ \A f \in Evictors \ {e} : stage'[f] = stage[f]
    BY Typed, <1>1 DEF TypeOK
<1>6. \A s : \A c \in Caches : Emptying(stage, gone, left, s, c) => Emptying(stage', gone', left', s, c)
    BY <1>1, <1>5 DEF Emptying, Caches
<1>7. ASSUME NEW n \in Nat, n <= epoch
      PROVE  n <= epoch' /\ n # epoch'
    BY <1>2, <1>3, <1>7
<1>8. ASSUME NEW t \in Threads
      PROVE  CallInv(t)'
    <2>1. CallInv(t) /\ seen[t] \in Nat
        BY Typed DEF IInv, TypeOK
    <2>2. seen[t] <= epoch' /\ seen[t] # epoch'
        BY <1>7, <2>1 DEF CallInv
    <2>3. /\ at[t] = "write" => cached[key[t]] = slot[t] \/ Emptying(stage', gone', left', slot[t], Site)
          /\ at[t] = "plan write" => cached[key[t]] = slot[t] \/ Emptying(stage', gone', left', slot[t], Plans)
        BY Typed, <1>6, <2>1 DEF CallInv, Tracked
    <2>4. UNCHANGED <<cached, full, listed, at, route, key, seen, slot>>
        BY <1>1 DEF call
    <2> QED
        BY <2>1, <2>2, <2>3, <2>4 DEF CallInv, Tracked
<1>9. ASSUME NEW c \in Caches, NEW r \in entries'[c]
      PROVE  EntryInv(c, r)'
    <2>1. r \in entries[c]
        BY <1>1
    <2>2. EntryInv(c, r) /\ r \in Entries
        BY Typed, <2>1 DEF IInv, TypeOK
    <2>3. r.epoch \in Nat
        BY <2>2 DEF Entries
    <2>4. r.epoch <= epoch' /\ r.epoch # epoch'
        BY <1>7, <2>2, <2>3 DEF EntryInv
    <2>5. cached[r.key] = r.slot \/ Emptying(stage', gone', left', r.slot, c)
        BY <1>6, <2>2 DEF EntryInv, Tracked
    <2>6. UNCHANGED <<cached, full, listed>>
        BY <1>1
    <2> QED
        BY <2>2, <2>4, <2>5, <2>6 DEF EntryInv, Tracked
<1>10. OneKey' /\ NoDeadSlot' /\ (registered' => Site \in listed')
    BY <1>1, SameKeys DEF IInv, NoDeadSlot, HeldBy, call
<1> QED
    BY <1>4, <1>8, <1>9, <1>10 DEF IInv

\* A removed slot is in the removing eviction's hands.
LEMMA RemoveKeyKeeps ==
    ASSUME IInv, NEW e \in Evictors, RemoveKey(e)
    PROVE  IInv'
<1>1. PICK m \in todo[e] : /\ todo' = [todo EXCEPT ![e] = @ \ {m}]
                           /\ gone' = [gone EXCEPT ![e] = @ \cup ({cached[m]} \ {None})]
                           /\ cached' = [cached EXCEPT ![m] = None]
    BY DEF RemoveKey
<1>2. /\ UNCHANGED <<full, epoch, entries, listed, registered, at, route, key, seen, slot>>
      /\ UNCHANGED <<upsets, stage, left>> /\ stage[e] = "remove"
    BY DEF RemoveKey, holders, call
<1>3. m \in Keys /\ cached'[m] = None /\ (\A k \in Keys : k # m => cached'[k] = cached[k])
    BY Typed, <1>1 DEF TypeOK
<1>4. TypeOK'
    BY Typed, <1>1, <1>2 DEF TypeOK
<1>5. /\ \A f \in Evictors : gone[f] \subseteq gone'[f]
      /\ cached[m] # None => cached[m] \in gone'[e]
    BY Typed, <1>1 DEF TypeOK
<1>6. /\ \A s : Removing(stage, gone, s) => Removing(stage', gone', s)
      /\ \A s, c : Emptying(stage, gone, left, s, c) => Emptying(stage', gone', left', s, c)
    BY <1>2, <1>5 DEF Removing, Emptying
<1>7. \A c : cached[m] # None =>
          Removing(stage', gone', cached[m]) /\ Emptying(stage', gone', left', cached[m], c)
    BY <1>2, <1>5 DEF Removing, Emptying
<1>8. \A k \in Keys, s \in Slots : \A c :
          /\ cached'[k] = s => cached[k] = s
          /\ Current(k, s) => cached'[k] = s \/ Removing(stage', gone', s)
          /\ Tracked(k, s, c) => cached'[k] = s \/ Emptying(stage', gone', left', s, c)
    BY Typed, <1>3, <1>6, <1>7 DEF Current, Tracked
<1>9. ASSUME NEW t \in Threads
      PROVE  CallInv(t)'
    <2>1. CallInv(t) /\ key[t] \in Keys /\ slot[t] \in Slots \cup {None}
        BY Typed DEF IInv, TypeOK
    <2>2. at[t] \in Filling \cup Carrying => slot[t] \in Slots
        BY Typed, <2>1 DEF CallInv, TypeOK
    <2>3. at[t] \in Filling \cup Carrying /\ seen[t] = epoch =>
              cached'[key[t]] = slot[t] \/ Removing(stage', gone', slot[t])
        BY <1>8, <2>1, <2>2 DEF CallInv
    <2>4. /\ at[t] = "write" => cached'[key[t]] = slot[t] \/ Emptying(stage', gone', left', slot[t], Site)
          /\ at[t] = "plan write" => cached'[key[t]] = slot[t] \/ Emptying(stage', gone', left', slot[t], Plans)
        BY <1>8, <2>1, <2>2 DEF CallInv, Carrying
    <2>5. \A k \in Keys : slot[t] # None /\ cached'[k] = slot[t] => k = key[t]
        BY <1>8, <2>1 DEF CallInv
    <2> QED
        BY <1>2, <2>1, <2>3, <2>4, <2>5 DEF CallInv, Current, Tracked
<1>10. ASSUME NEW c \in Caches, NEW r \in entries'[c]
       PROVE  EntryInv(c, r)'
    <2>1. EntryInv(c, r) /\ r.slot \in Slots /\ r.key \in Keys
        BY Typed, <1>2 DEF IInv, TypeOK, Entries
    <2> QED
        BY <1>2, <1>8, <2>1 DEF EntryInv, Current, Tracked
<1>11. OneKey'
    BY <1>3 DEF IInv, OneKey
<1>12. NoDeadSlot'
    BY <1>2, <1>3 DEF IInv, NoDeadSlot, HeldBy
<1> QED
    BY <1>2, <1>4, <1>9, <1>10, <1>11, <1>12 DEF IInv

LEMMA DropPlansKeeps ==
    ASSUME IInv, DropPlans
    PROVE  IInv'
<1>1. /\ UNCHANGED <<cached, full, epoch, registered, call, todo>> /\ upsets' = upsets + 1
      /\ UNCHANGED <<stage, gone, left>> /\ entries' = [entries EXCEPT ![Plans] = {}]
      /\ listed' = listed \ {Plans}
      /\ \A t \in Threads : at[t] = "idle" \/ route[t] # "plan"
    BY DEF DropPlans, Upset, store, eviction
<1>2. upsets' \in Nat
    BY Typed, <1>1 DEF TypeOK
<1>3. \A c \in Caches : entries'[c] = IF c = Plans THEN {} ELSE entries[c]
    BY Typed, <1>1 DEF TypeOK
<1>4. TypeOK'
    BY Typed, <1>1, <1>2 DEF TypeOK, call
<1>5. ASSUME NEW t \in Threads
      PROVE  CallInv(t)'
    <2>1. CallInv(t) /\ at[t] \notin {"plan store", "plan write"}
        BY <1>1 DEF IInv, CallInv, AtPlans
    <2>2. UNCHANGED <<cached, full, epoch, at, route, key, seen, slot, stage, gone, left>>
        BY <1>1 DEF call
    <2>3. Site \in listed => Site \in listed'
        BY Typed, <1>1
    <2> QED
        BY <2>1, <2>2, <2>3 DEF CallInv, Current, Tracked
<1>6. ASSUME NEW c \in Caches, NEW r \in entries'[c]
      PROVE  EntryInv(c, r)'
    <2>1. EntryInv(c, r) /\ c # Plans
        BY <1>3 DEF IInv
    <2> QED
        BY <1>1, <2>1 DEF EntryInv, Current, Tracked
<1>7. OneKey' /\ NoDeadSlot' /\ (registered' => Site \in listed')
    BY <1>1, Typed, SameKeys DEF IInv, NoDeadSlot, HeldBy, call
<1> QED
    BY <1>4, <1>5, <1>6, <1>7 DEF IInv

-----------------------------------------------------------------------------
(* The theorems.                                                              *)

LEMMA Start == Init => IInv
<1> SUFFICES ASSUME Init PROVE IInv
    OBVIOUS
<1> USE DEF Init
<1>1. (CHOOSE k \in Keys : TRUE) \in Keys
    BY CacheAssumption
<1>2. TypeOK
    BY <1>1 DEF TypeOK, Places, Stages
<1>3. OneKey /\ NoDeadSlot
    BY DEF OneKey, NoDeadSlot
<1>4. \A t \in Threads : CallInv(t)
    BY DEF CallInv, Unheld, Filling, Carrying, AtPlans
<1> QED
    BY <1>2, <1>3, <1>4 DEF IInv

LEMMA StutterKeeps ==
    ASSUME IInv, UNCHANGED vars
    PROVE  IInv'
<1> USE DEF vars, store, holders, call, eviction
<1>1. TypeOK'
    BY Typed DEF TypeOK
<1>2. UNCHANGED <<cached, full, epoch, listed, registered, call, entries, stage, gone, left>>
    OBVIOUS
<1> HIDE DEF vars, store, holders, call, eviction
<1> QED
    BY <1>1, <1>2, EvictionKeeps

LEMMA StepKeeps ==
    ASSUME IInv, [Next]_vars
    PROVE  IInv'
<1>1. ASSUME NEW t \in Threads, NEW k \in Keys, NEW r \in Routes[t], Launch(t, k, r)
      PROVE  IInv'
    BY <1>1, LaunchKeeps
<1>2. ASSUME NEW t \in Threads, CallStep(t)
      PROVE  IInv'
    <2>1. CASE Compile(t)
        BY <2>1, TakeSlotKeeps, EnterCellKeeps, FindFullKeeps, CompileSucceedsKeeps, CompileFailsKeeps,
           DropSlotKeeps, RemoveIfAbandonedKeeps DEF Compile
    <2> QED
        BY <1>2, <2>1, PlanGetKeeps, ReadEpochKeeps, SiteGetKeeps, RegisterKeeps, SetFlagKeeps,
           RegisterPlansKeeps, CheckEpochKeeps, WriteKeeps, ReturnKeeps DEF CallStep
<1>3. ASSUME NEW e \in Evictors, NEW K \in SUBSET Keys, Evict(e, K)
      PROVE  IInv'
    BY <1>3, EvictKeeps
<1>4. ASSUME NEW e \in Evictors, EvictStep(e)
      PROVE  IInv'
    BY <1>4, RemoveKeyKeeps, RemovedKeeps, BumpKeeps, LockSitesKeeps, LockStoresKeeps, EmptyKeeps,
       EmptiedKeeps DEF EvictStep
<1> QED
    BY <1>1, <1>2, <1>3, <1>4, ClearKeeps, DropPlansKeeps, StutterKeeps DEF Next

LEMMA Invariance == Spec => []IInv
BY Start, StepKeeps, PTL DEF Spec

LEMMA SameMeaning ==
    /\ \A s : Removing(stage, gone, s) => Unbumped(s)
    /\ \A s, c : Emptying(stage, gone, left, s, c) => ToEmpty(s, c)
    /\ \A t : Carries(t) => at[t] \in Carrying
BY DEF Removing, Unbumped, Active, Emptying, ToEmpty, Carries, Carrying

\* Every variable of the kernel cache keeps its type.
THEOREM TypeCorrect == Spec => []TypeOK
<1>1. IInv => TypeOK
    BY DEF IInv
<1> QED
    BY <1>1, Invariance, PTL

\* For any keys, callers and evictors, a resolution or a plan stamped with the
\* current epoch, stored or on its way to a cache, is the kernel cache's own
\* instance for its key, unless the eviction that removed it has yet to bump
\* KERNEL_CACHE_EPOCH.
THEOREM EpochMeansCached == Spec => []CurrentIsCached
<1>1. IInv => CurrentIsCached
    <2> SUFFICES ASSUME IInv PROVE CurrentIsCached
        OBVIOUS
    <2>1. ASSUME NEW c \in Caches, NEW r \in entries[c], r.epoch = epoch
          PROVE  cached[r.key] = r.slot \/ Unbumped(r.slot)
        BY <2>1, SameMeaning DEF IInv, EntryInv, Current
    <2>2. ASSUME NEW t \in Threads, Carries(t), seen[t] = epoch
          PROVE  cached[key[t]] = slot[t] \/ Unbumped(slot[t])
        <3>1. CallInv(t) /\ at[t] \in Carrying
            BY <2>2, SameMeaning DEF IInv
        <3> QED
            BY <2>2, <3>1, SameMeaning DEF CallInv, Current
    <2> QED
        BY <2>1, <2>2 DEF CurrentIsCached
<1> QED
    BY <1>1, Invariance, PTL

\* For any callers and evictors, what a launch site or a plan cache holds is in
\* the kernel cache or an eviction under way has yet to empty that cache.
THEOREM EvictionReachesAll == Spec => []NoStaleEntry
<1>1. IInv => NoStaleEntry
    BY SameMeaning DEF IInv, EntryInv, Tracked, NoStaleEntry
<1> QED
    BY <1>1, Invariance, PTL

\* However compilations fail, an empty slot in the kernel cache has a caller
\* that will fill it or is about to remove it.
THEOREM EmptySlotHasOwner == Spec => []NoDeadSlot
<1>1. IInv => NoDeadSlot
    BY DEF IInv
<1> QED
    BY <1>1, Invariance, PTL

\* A step that changes t's function changes it at t's own place.
LEMMA HitStep ==
    ASSUME IInv, [Next]_vars, NEW t \in Threads, at[t] \in {"plan get", "site get"}, slot'[t] # slot[t]
    PROVE  \E c \in Caches, r \in Serving(Site, key[t]) \cup Serving(Plans, key[t]) :
              r \in Serving(c, key[t]) /\ slot'[t] = r.slot
<1>1. slot \in [Threads -> Slots \cup {None}]
    BY Typed DEF TypeOK
<1>2. slot' # slot
    OBVIOUS
<1>3. PICK u \in Threads : CallStep(u)
    BY <1>2 DEF Next, vars, call, Launch, Evict, EvictStep, RemoveKey, Removed, Bump, LockSites,
                LockStores, Empty, Emptied, Clear, DropPlans
<1>4. PlanGet(u) \/ SiteGet(u) \/ TakeSlot(u) \/ DropSlot(u) \/ RemoveIfAbandoned(u) \/ Return(u)
    BY <1>2, <1>3 DEF CallStep, Compile, ReadEpoch, EnterCell, FindFull, CompileSucceeds, CompileFails,
                      Register, SetFlag, RegisterPlans, CheckEpoch, Write
<1>5. u = t
    <2>1. \E s : slot' = [slot EXCEPT ![u] = s]
        BY <1>2, <1>4 DEF PlanGet, SiteGet, TakeSlot, DropSlot, Dropped, RemoveIfAbandoned, Return, Leave
    <2> QED
        BY <1>1, <2>1
<1>6. PlanGet(t) \/ SiteGet(t)
    BY <1>4, <1>5 DEF TakeSlot, DropSlot, RemoveIfAbandoned, Return
<1> QED
    BY <1>1, <1>2, <1>6, Typed DEF PlanGet, SiteGet

\* No lookup of a launch site or a plan cache serves a function once its
\* eviction has bumped the epoch, though the cache may still hold it.
THEOREM LookupServesCached == Spec => HitIsCached
<1>1. IInv /\ [Next]_vars => [\A t \in Threads : at[t] \in {"plan get", "site get"} /\ slot'[t] # slot[t]
          => cached[key[t]] = slot'[t] \/ Unbumped(slot'[t])]_vars
    <2> SUFFICES ASSUME IInv, [Next]_vars, NEW t \in Threads, at[t] \in {"plan get", "site get"},
                        slot'[t] # slot[t]
                 PROVE  cached[key[t]] = slot'[t] \/ Unbumped(slot'[t])
        OBVIOUS
    <2>1. PICK c \in Caches, r \in Serving(Site, key[t]) \cup Serving(Plans, key[t]) :
             r \in Serving(c, key[t]) /\ slot'[t] = r.slot
        BY HitStep
    <2>2. r \in entries[c] /\ r.key = key[t] /\ r.epoch = epoch
        BY <2>1 DEF Serving
    <2>3. cached[key[t]] = r.slot \/ Removing(stage, gone, r.slot)
        BY <2>2 DEF IInv, EntryInv, Current
    <2> QED
        BY <2>1, <2>3, SameMeaning
<1> QED
    BY <1>1, Invariance, PTL DEF Spec, HitIsCached
=============================================================================
