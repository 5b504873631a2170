---------------------------- MODULE KernelCache ----------------------------
(***************************************************************************)
(* The in-memory kernel cache of cutile (tile_kernel.rs, plan.rs): slots    *)
(* compiled by one caller at a time, the launch sites and plan caches that   *)
(* hold functions of their own, and the evictions that must reach them all.  *)
(*                                                                          *)
(* A slot stands for its OnceCell and the one kernel compiled into it; its   *)
(* name is reused once nothing refers to it.  A step is one critical         *)
(* section of a map shard or a lock, or one atomic access.  A launch that    *)
(* goes through a plan cache is also one of the kernel's launch site, which  *)
(* the planning launcher asks first.                                        *)
(***************************************************************************)
EXTENDS Integers, FiniteSets

CONSTANTS
    Keys,       \* the specializations, TileFunctionKey
    Slots,      \* names for Arc<OnceCell<CompiledKernel>>
    Threads,    \* the callers that launch
    Evictors,   \* the callers that evict
    Site,       \* a LaunchSite
    Plans,      \* a PlanCache
    None,
    MaxEpoch,   \* bound: evictions that bump the epoch
    Routes,     \* how each caller launches
    MaxUpsets   \* bound: failed compilations, cleared and dropped plan caches

ASSUME CacheAssumption ==
    /\ None \notin Slots
    /\ Site # Plans
    /\ Keys # {}
    /\ MaxEpoch \in Nat
    /\ Routes \in [Threads -> SUBSET {"plan", "site", "warm"}]
    /\ MaxUpsets \in Nat

VARIABLES
    cached,     \* KERNEL_CACHE
    full,       \* slots whose OnceCell holds a kernel
    epoch,      \* KERNEL_CACHE_EPOCH
    entries,    \* the resolutions of the site, the plans of the plan cache
    listed,     \* caches in LAUNCH_SITES or PLAN_STORES
    registered, \* the site's flag
    at,         \* where each caller is
    route,      \* through the plan cache, the launch site, or neither
    key, seen, slot,   \* a call's key, epoch and function
    upsets,     \* what MaxUpsets bounds
    stage,      \* where each eviction is
    todo,       \* keys it has yet to remove
    gone,       \* slots it removed
    left        \* caches it has yet to empty, of the list it locked

store == <<cached, full, epoch>>
holders == <<entries, listed, registered>>
call == <<at, route, key, seen, slot>>
eviction == <<stage, todo, gone, left>>
vars == <<store, holders, call, upsets, eviction>>

Caches == {Site, Plans}

Init ==
    /\ cached = [k \in Keys |-> None]
    /\ full = {}
    /\ epoch = 0
    /\ entries = [c \in Caches |-> {}]
    /\ listed = {}
    /\ registered = FALSE
    /\ at = [t \in Threads |-> "idle"]
    /\ route = [t \in Threads |-> "warm"]
    /\ key = [t \in Threads |-> CHOOSE k \in Keys : TRUE]
    /\ seen = [t \in Threads |-> 0]
    /\ slot = [t \in Threads |-> None]
    /\ upsets = 0
    /\ stage = [e \in Evictors |-> "idle"]
    /\ todo = [e \in Evictors |-> {}]
    /\ gone = [e \in Evictors |-> {}]
    /\ left = [e \in Evictors |-> {}]

-----------------------------------------------------------------------------
(* Locks.  A caller at "write" holds the lock of the cache it writes to; one  *)
(* at "flag", and an eviction that empties sites, that of LAUNCH_SITES.       *)

Target(t) == IF at[t] \in {"plan register", "plan store", "plan write"} THEN Plans ELSE Site
Writing(c) == \E t \in Threads : at[t] \in {"write", "plan write"} /\ Target(t) = c
SitesLocked == \/ \E t \in Threads : at[t] = "flag"
               \/ \E e \in Evictors : stage[e] = "sites"
StoresLocked == \E e \in Evictors : stage[e] = "plans"

Goto(t, l) == at' = [at EXCEPT ![t] = l]
Upset == upsets < MaxUpsets /\ upsets' = upsets + 1
\* The call is over, and its locals with it.
Leave(t) ==
    /\ Goto(t, "idle")
    /\ slot' = [slot EXCEPT ![t] = None]
    /\ seen' = [seen EXCEPT ![t] = 0]
    /\ route' = [route EXCEPT ![t] = "warm"]
\* The caller goes on to launch the function it holds.
Serve(t) == at' = [at EXCEPT ![t] = "launch"]

-----------------------------------------------------------------------------
(* Lookups.                                                                   *)

\* A launch through plan_launch!, a launcher's own launch, a compile() warm-up.
Launch(t, k, r) ==
    /\ at[t] = "idle"
    /\ key' = [key EXCEPT ![t] = k]
    /\ route' = [route EXCEPT ![t] = r]
    /\ Goto(t, CASE r = "plan" -> "plan get" [] r = "site" -> "epoch" [] r = "warm" -> "slot")
    /\ UNCHANGED <<store, holders, seen, slot, upsets, eviction>>

MutantServing(c, k) == {r \in entries[c] : r.key = k}
Serving(c, k) == {r \in entries[c] : r.key = k /\ r.epoch = epoch}

\* PlanCache::get.
PlanGet(t) ==
    /\ at[t] = "plan get"
    /\ ~Writing(Plans)
    /\ \/ \E r \in Serving(Plans, key[t]) :
             slot' = [slot EXCEPT ![t] = r.slot] /\ Serve(t)
       \/ Serving(Plans, key[t]) = {} /\ Goto(t, "epoch") /\ UNCHANGED slot
    /\ UNCHANGED <<store, holders, route, key, seen, upsets, eviction>>

\* The launcher reads the epoch before it resolves anything.
ReadEpoch(t) ==
    /\ at[t] = "epoch"
    /\ seen' = [seen EXCEPT ![t] = epoch]
    /\ Goto(t, "site get")
    /\ UNCHANGED <<store, holders, route, key, slot, upsets, eviction>>

\* What a launch does with a function: the planning launch stores its plan.
Resolved(t) == IF route[t] = "plan" THEN Goto(t, "plan register") ELSE Serve(t)

\* LaunchSite::get.
SiteGet(t) ==
    /\ at[t] = "site get"
    /\ ~Writing(Site)
    /\ \/ \E r \in Serving(Site, key[t]) :
             slot' = [slot EXCEPT ![t] = r.slot] /\ Resolved(t)
       \/ Serving(Site, key[t]) = {} /\ Goto(t, "slot") /\ UNCHANGED slot
    /\ UNCHANGED <<store, holders, route, key, seen, upsets, eviction>>

-----------------------------------------------------------------------------
(* compile_from_context.                                                      *)

InUse == {cached[k] : k \in Keys} \cup {slot[t] : t \in Threads}
    \cup (UNION {gone[e] : e \in Evictors}) \cup {r.slot : r \in UNION {entries[c] : c \in Caches}}

\* kernel_cache_slot: the key's slot, or a new one in its place.
TakeSlot(t) ==
    /\ at[t] = "slot"
    /\ \/ /\ cached[key[t]] # None
          /\ slot' = [slot EXCEPT ![t] = cached[key[t]]]
          /\ UNCHANGED <<cached, full>>
       \/ /\ cached[key[t]] = None
          /\ Slots \ InUse # {}
          /\ LET s == CHOOSE x \in Slots \ InUse : TRUE
             IN  /\ cached' = [cached EXCEPT ![key[t]] = s]
                 /\ full' = full \ {s}
                 /\ slot' = [slot EXCEPT ![t] = s]
    /\ Goto(t, "cell")
    /\ UNCHANGED <<epoch, holders, route, key, seen, upsets, eviction>>

Compiling(s) == \E t \in Threads : at[t] = "compile" /\ slot[t] = s

\* get_or_try_init: a caller that finds the cell empty fills it, the others wait.
EnterCell(t) ==
    /\ at[t] = "cell"
    /\ slot[t] \notin full /\ ~Compiling(slot[t])
    /\ Goto(t, "compile")
    /\ UNCHANGED <<store, holders, route, key, seen, slot, upsets, eviction>>

\* A warm-up is over; a launch stores what it resolved in its site.
Compiled(t) == IF route[t] = "warm" THEN Serve(t) ELSE Goto(t, "register")

MutantFindFull(t) ==
    /\ at[t] = "cell"
    /\ slot[t] \in full /\ cached[key[t]] = slot[t]
    /\ Compiled(t)
    /\ UNCHANGED <<store, holders, route, key, seen, slot, upsets, eviction>>
FindFull(t) ==
    /\ at[t] = "cell"
    /\ slot[t] \in full
    /\ Compiled(t)
    /\ UNCHANGED <<store, holders, route, key, seen, slot, upsets, eviction>>

CompileSucceeds(t) ==
    /\ at[t] = "compile"
    /\ full' = (full \cap InUse) \cup {slot[t]}
    /\ Compiled(t)
    /\ UNCHANGED <<cached, epoch, holders, route, key, seen, slot, upsets, eviction>>

\* A failed attempt leaves the cell to a waiter.
CompileFails(t) ==
    /\ at[t] = "compile"
    /\ Upset
    /\ Goto(t, "drop")
    /\ UNCHANGED <<store, holders, route, key, seen, slot, eviction>>

\* drop(slot), before the shard lock is taken.
MutantDropped(t) == slot
Dropped(t) == [slot EXCEPT ![t] = None]

DropSlot(t) ==
    /\ at[t] = "drop"
    /\ slot' = Dropped(t)
    /\ Goto(t, "remove")
    /\ UNCHANGED <<store, holders, route, key, seen, upsets, eviction>>

\* strong_count: the map's own reference and the callers'.
HeldBy(s) == {t \in Threads : slot[t] = s}
MutantAbandoned(s) == s \notin full /\ ~Compiling(s)
Abandoned(s) == s \notin full /\ HeldBy(s) = {}

\* remove_if, then the error is returned.
RemoveIfAbandoned(t) ==
    /\ at[t] = "remove"
    /\ LET s == cached[key[t]]
       IN  cached' = IF s # None /\ Abandoned(s) THEN [cached EXCEPT ![key[t]] = None]
                                                 ELSE cached
    /\ Leave(t)
    /\ UNCHANGED <<full, epoch, holders, key, upsets, eviction>>

-----------------------------------------------------------------------------
(* LaunchSite::store and PlanCache::insert.                                   *)

\* The site joins the list under its lock, then sets the flag, then unlocks.
\* An unlocked load that finds the flag set skips all of it.
MutantRegister(t) ==
    /\ at[t] = "register"
    /\ \/ registered /\ Goto(t, "store") /\ UNCHANGED <<listed, registered>>
       \/ /\ ~registered
          /\ registered' = TRUE
          /\ Goto(t, "flag")
          /\ UNCHANGED listed
    /\ UNCHANGED <<store, entries, route, key, seen, slot, upsets, eviction>>
Register(t) ==
    /\ at[t] = "register"
    /\ \/ registered /\ Goto(t, "store") /\ UNCHANGED <<listed, registered>>
       \/ /\ ~registered
          /\ ~SitesLocked
          /\ listed' = listed \cup {Site}
          /\ Goto(t, "flag")
          /\ UNCHANGED registered
    /\ UNCHANGED <<store, entries, route, key, seen, slot, upsets, eviction>>

SetFlag(t) ==
    /\ at[t] = "flag"
    /\ registered' = TRUE
    /\ Goto(t, "store")
    /\ UNCHANGED <<store, entries, listed, route, key, seen, slot, upsets, eviction>>

\* PlanCache::store: the OnceLock shows the store only once it is listed.
RegisterPlans(t) ==
    /\ at[t] = "plan register"
    /\ Plans \in listed \/ ~StoresLocked
    /\ listed' = listed \cup {Plans}
    /\ Goto(t, "plan store")
    /\ UNCHANGED <<store, entries, registered, route, key, seen, slot, upsets, eviction>>

\* Under the cache's lock: a resolution older than an eviction is dropped.
CheckEpoch(t) ==
    /\ at[t] \in {"store", "plan store"}
    /\ ~Writing(Target(t))
    /\ \/ seen[t] = epoch /\ Goto(t, IF at[t] = "store" THEN "write" ELSE "plan write")
       \/ seen[t] # epoch /\ IF at[t] = "store" THEN Resolved(t) ELSE Serve(t)
    /\ UNCHANGED <<store, holders, route, key, seen, slot, upsets, eviction>>

Mine(t) == [key |-> key[t], slot |-> slot[t], epoch |-> seen[t]]
SameProbe(t) == {r \in entries[Site] : r.key = key[t]}
SameEntry(t) == {r \in entries[Plans] : r.key = key[t] /\ r.epoch = seen[t]}

\* The site replaces the resolution of a concurrent miss, the plan cache keeps it.
Write(t) ==
    /\ \/ /\ at[t] = "write"
          /\ entries' = [entries EXCEPT ![Site] = (@ \ SameProbe(t)) \cup {Mine(t)}]
          /\ Resolved(t)
       \/ /\ at[t] = "plan write"
          /\ entries' = [entries EXCEPT ![Plans] = IF SameEntry(t) = {} THEN @ \cup {Mine(t)} ELSE @]
          /\ Serve(t)
    /\ UNCHANGED <<store, listed, registered, route, key, seen, slot, upsets, eviction>>

\* The kernel was launched and the caller drops its reference.
Return(t) ==
    /\ at[t] = "launch"
    /\ Leave(t)
    /\ UNCHANGED <<store, holders, key, upsets, eviction>>

Compile(t) == \/ TakeSlot(t) \/ EnterCell(t) \/ FindFull(t)
              \/ CompileSucceeds(t) \/ CompileFails(t)
              \/ DropSlot(t) \/ RemoveIfAbandoned(t)
CallStep(t) == \/ PlanGet(t) \/ ReadEpoch(t) \/ SiteGet(t) \/ Compile(t)
               \/ Register(t) \/ SetFlag(t) \/ RegisterPlans(t)
               \/ CheckEpoch(t) \/ Write(t) \/ Return(t)

-----------------------------------------------------------------------------
(* Evictions.                                                                 *)

Present == {k \in Keys : cached[k] # None}
Active == {e \in Evictors : stage[e] \in {"remove", "bump"}}

\* evict_kernel(k), or retain_kernels with a predicate that rejects K of the
\* keys it found; clear_kernel_cache rejects them all.
Evict(e, K) ==
    /\ stage[e] = "idle"
    /\ epoch + Cardinality(Active) < MaxEpoch
    /\ K \subseteq Present \/ \E k \in Keys : K = {k}
    /\ stage' = [stage EXCEPT ![e] = "remove"]
    /\ todo' = [todo EXCEPT ![e] = K]
    /\ UNCHANGED <<store, holders, call, upsets, gone, left>>

RemoveKey(e) ==
    /\ stage[e] = "remove"
    /\ \E k \in todo[e] :
          /\ todo' = [todo EXCEPT ![e] = @ \ {k}]
          /\ gone' = [gone EXCEPT ![e] = @ \cup ({cached[k]} \ {None})]
          /\ cached' = [cached EXCEPT ![k] = None]
    /\ UNCHANGED <<full, epoch, holders, call, upsets, stage, left>>

\* An eviction that removed nothing leaves the epoch and the caches alone.
Removed(e) ==
    /\ stage[e] = "remove"
    /\ todo[e] = {}
    /\ stage' = [stage EXCEPT ![e] = IF gone[e] = {} THEN "idle" ELSE "bump"]
    /\ UNCHANGED <<store, holders, call, upsets, todo, gone, left>>

Bump(e) ==
    /\ stage[e] = "bump"
    /\ epoch' = epoch + 1
    /\ stage' = [stage EXCEPT ![e] = "lock sites"]
    /\ UNCHANGED <<cached, full, holders, call, upsets, todo, gone, left>>

\* clear_launch_sites and clear_plan_caches: lock the list, empty each cache
\* on it under that cache's lock, unlock.
LockSites(e) ==
    /\ stage[e] = "lock sites"
    /\ ~SitesLocked
    /\ stage' = [stage EXCEPT ![e] = "sites"]
    /\ left' = [left EXCEPT ![e] = listed \cap {Site}]
    /\ UNCHANGED <<store, holders, call, upsets, todo, gone>>

LockStores(e) ==
    /\ stage[e] = "lock plans"
    /\ ~StoresLocked
    /\ stage' = [stage EXCEPT ![e] = "plans"]
    /\ left' = [left EXCEPT ![e] = listed \cap {Plans}]
    /\ UNCHANGED <<store, holders, call, upsets, todo, gone>>

Empty(e) ==
    /\ stage[e] \in {"sites", "plans"}
    /\ \E c \in left[e] :
          /\ ~Writing(c)
          /\ entries' = [entries EXCEPT ![c] = {}]
          /\ left' = [left EXCEPT ![e] = @ \ {c}]
    /\ UNCHANGED <<store, listed, registered, call, upsets, stage, todo, gone>>

Emptied(e) ==
    /\ left[e] = {}
    /\ \/ /\ stage[e] = "sites"
          /\ stage' = [stage EXCEPT ![e] = "lock plans"]
          /\ UNCHANGED gone
       \/ /\ stage[e] = "plans"
          /\ stage' = [stage EXCEPT ![e] = "idle"]
          /\ gone' = [gone EXCEPT ![e] = {}]
    /\ UNCHANGED <<store, holders, call, upsets, todo, left>>

EvictStep(e) == \/ RemoveKey(e) \/ Removed(e) \/ Bump(e)
                \/ LockSites(e) \/ LockStores(e) \/ Empty(e) \/ Emptied(e)

\* PlanCache::clear by the program.
Clear ==
    /\ ~Writing(Plans)
    /\ Upset
    /\ entries' = [entries EXCEPT ![Plans] = {}]
    /\ UNCHANGED <<store, listed, registered, call, eviction>>

\* The plan cache is dropped while nobody uses it; PLAN_STORES holds it weakly.
\* A new one takes its name once no eviction holds the old store.
DropPlans ==
    /\ Plans \in listed
    /\ Upset
    /\ \A t \in Threads : at[t] = "idle" \/ route[t] # "plan"
    /\ \A e \in Evictors : Plans \notin left[e]
    /\ listed' = listed \ {Plans}
    /\ entries' = [entries EXCEPT ![Plans] = {}]
    /\ UNCHANGED <<store, registered, call, eviction>>

Next ==
    \/ \E t \in Threads : \/ \E k \in Keys, r \in Routes[t] : Launch(t, k, r)
                          \/ CallStep(t)
    \/ \E e \in Evictors : \/ \E K \in SUBSET Keys : Evict(e, K)
                           \/ EvictStep(e)
    \/ Clear
    \/ DropPlans

Spec == Init /\ [][Next]_vars

\* A call and an eviction in progress are threads that run; compilation ends.
FairSpec == /\ Spec
            /\ \A t \in Threads : WF_vars(CallStep(t))
            /\ \A e \in Evictors : WF_vars(EvictStep(e))

-----------------------------------------------------------------------------
(* Properties.                                                                *)

\* An eviction that removed s and has yet to bump the epoch.
Unbumped(s) == \E e \in Active : s \in gone[e]
\* An eviction that removed s and has yet to empty c.
ToEmpty(s, c) == \E e \in Evictors :
    /\ s \in gone[e]
    /\ \/ stage[e] \in {"remove", "bump"}
       \/ c = Site /\ (stage[e] = "lock sites" \/ (stage[e] = "sites" /\ c \in left[e]))
       \/ c = Plans /\ (stage[e] \in {"lock sites", "sites", "lock plans"}
                         \/ (stage[e] = "plans" /\ c \in left[e]))

Carries(t) == at[t] \in {"register", "flag", "store", "write",
                         "plan register", "plan store", "plan write"}

\* A function stamped with the current epoch, stored or about to be, is the
\* one instance the kernel cache holds for its key, unless an eviction that
\* removed it has yet to bump the epoch: a failed compilation never removes
\* a slot another caller compiles into, and two threads never serve two
\* instances of one kernel.
CurrentIsCached ==
    /\ \A c \in Caches : \A r \in entries[c] :
          r.epoch = epoch => cached[r.key] = r.slot \/ Unbumped(r.slot)
    /\ \A t \in Threads :
          Carries(t) /\ seen[t] = epoch => cached[key[t]] = slot[t] \/ Unbumped(slot[t])

\* No launch site or plan cache keeps an evicted function: what the kernel
\* cache no longer holds is in none of them once its eviction returned, however
\* late the resolution was stored or the cache registered.
NoStaleEntry ==
    \A c \in Caches : \A r \in entries[c] : cached[r.key] = r.slot \/ ToEmpty(r.slot, c)

\* A failing specialization does not grow the kernel cache: an empty slot in
\* it is held by a caller that will fill it or about to be removed by one that
\* failed.
NoDeadSlot ==
    \A k \in Keys : cached[k] # None /\ cached[k] \notin full =>
        \/ HeldBy(cached[k]) # {}
        \/ \E t \in Threads : at[t] = "remove" /\ key[t] = k

\* A lookup never serves a function whose eviction has bumped the epoch, even
\* while the cache still holds it.
HitIsCached ==
    [][\A t \in Threads : at[t] \in {"plan get", "site get"} /\ slot'[t] # slot[t]
           => cached[key[t]] = slot'[t] \/ Unbumped(slot'[t])]_vars

\* Every launch returns, after another caller's failed compilation too, and so
\* does every eviction: no lock is waited for in a circle.
AllReturn ==
    /\ \A t \in Threads : at[t] # "idle" ~> at[t] = "idle"
    /\ \A e \in Evictors : stage[e] # "idle" ~> stage[e] = "idle"
=============================================================================
