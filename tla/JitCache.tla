------------------------------ MODULE JitCache ------------------------------
(***************************************************************************)
(* The disk cache of compiled kernels (cutile-compiler: jit_cache.rs and     *)
(* compile_bytecode_cached in cuda_tile_runtime_utils.rs), shared by several *)
(* processes that compile, store, evict and crash, and the load that follows *)
(* a lookup (compile_and_load_kernel in cutile's tile_kernel.rs).  A launch  *)
(* begins here with its bytecode at hand: what fails before the lookup does  *)
(* so with and without a cache, and is left out.                             *)
(*                                                                          *)
(* A file is its name and whether its bytes are whole.  A step is one system *)
(* call on the shared directory.  Any of them may fail, but for the reading  *)
(* of the directory an eviction has locked and the removal of a temporary    *)
(* file of one's own; a process may die at any point, and a power loss may   *)
(* tear any file, since nothing is synced.  Modification times are left out: *)
(* eviction deletes in an arbitrary order, and a temporary file may count as *)
(* stale at any age.                                                        *)
(***************************************************************************)
EXTENDS Integers, FiniteSets, FiniteSetsExt

CONSTANTS
    Procs,      \* processes that share the store
    Keys,       \* l2_key: one per kernel and toolchain
    Temps,      \* names of temporary files, each used once
    Requests,   \* the kernels each process launches
    Cleaners,   \* processes that clear the store
    Stored,     \* entries that earlier processes left
    Size,       \* bytes of each entry
    HighMark, LowMark,   \* the capacity times either watermark
    None,
    MaxCrashes  \* bound: crashes and power losses

ASSUME JitAssumption ==
    /\ Requests \in [Procs -> SUBSET Keys]
    /\ Stored \subseteq Keys
    /\ Size \in [Keys -> Nat]
    /\ HighMark \in Nat /\ LowMark \in Nat /\ LowMark <= HighMark
    /\ Temps \cap Keys = {} /\ None \notin Temps \cup Keys \cup Procs
    /\ MaxCrashes \in Nat /\ IsFiniteSet(Procs) /\ IsFiniteSet(Temps)
    /\ Cardinality(Temps) >= Cardinality(Procs) * (1 + MaxCrashes)

VARIABLES
    files,      \* the bytes behind each name: absent, partial, whole or torn
    lock,       \* the process that holds .eviction.lock
    at, key,    \* where each process is, for which kernel
    temp,       \* the temporary file of its put
    source,     \* Stage2Source
    image,      \* the cubin it hands to the driver
    excuse,     \* what tileiras and the driver said of the launch (history): none,
                \* made: tileiras has made its image; refused: tileiras failed, or
                \* the driver refused what it made; no function: the driver took
                \* a stored module and did not find the function in it
    left,       \* names its scan has yet to visit
    found,      \* entries the scan found and eviction did not delete
    stuck,      \* entries it failed to delete
    total,      \* the size it counts
    fresh,      \* entries published since the scan began (history)
    crashes, powered

disk == <<files, lock>>
launch == <<key, temp, source, image, excuse>>
scan == <<left, found, stuck, total, fresh>>
faults == <<crashes, powered>>
vars == <<disk, at, launch, scan, faults>>

Names == Keys \cup Temps

Init ==
    /\ files = [n \in Names |-> IF n \in Stored THEN "whole" ELSE "absent"]
    /\ lock = None
    /\ at = [p \in Procs |-> "idle"]
    /\ key = [p \in Procs |-> None]
    /\ temp = [p \in Procs |-> None]
    /\ source = [p \in Procs |-> "tileiras"]
    /\ image = [p \in Procs |-> "absent"]
    /\ excuse = [p \in Procs |-> "none"]
    /\ left = [p \in Procs |-> {}]
    /\ found = [p \in Procs |-> {}]
    /\ stuck = [p \in Procs |-> {}]
    /\ total = [p \in Procs |-> 0]
    /\ fresh = [p \in Procs |-> {}]
    /\ crashes = 0
    /\ powered = TRUE

Goto(p, l) == at' = [at EXCEPT ![p] = l]
Set(f, p, v) == [f EXCEPT ![p] = v]
Present == {n \in Names : files[n] # "absent"}

-----------------------------------------------------------------------------
(* A launch: look the kernel up, else compile and store it; load the image.   *)

\* Without an installed store the lookup and the put are skipped.
Begin(p, k) ==
    /\ at[p] = "idle"
    /\ key' = Set(key, p, k)
    /\ \E l \in {"read", "compile only"} : Goto(p, l)
    /\ UNCHANGED <<disk, temp, source, image, excuse, scan, faults>>

\* The launch ends at r, returned or failed.
Finish(p, r) ==
    /\ key' = Set(key, p, None)
    /\ source' = Set(source, p, "tileiras")
    /\ image' = Set(image, p, "absent")
    /\ Goto(p, r)

\* The caller has seen the error.
Return(p) ==
    /\ at[p] = "failed"
    /\ excuse' = Set(excuse, p, "none")
    /\ Goto(p, "idle")
    /\ UNCHANGED <<disk, key, temp, source, image, scan, faults>>

\* decode_entry: the header and the payload's checksum.
MutantDecodes(bytes) == bytes # "partial"
Decodes(bytes) == bytes = "whole"

Read(p) ==
    /\ at[p] = "read"
    /\ LET bytes == files[key[p]]
       IN  \/ /\ bytes # "absent" /\ Decodes(bytes)
              /\ image' = Set(image, p, bytes)
              /\ source' = Set(source, p, "disk")
              /\ Goto(p, "load")
           \/ /\ bytes # "absent" /\ ~Decodes(bytes)
              /\ Goto(p, "delete")
              /\ UNCHANGED <<image, source>>
           \/ \* absent, or the read failed
              Goto(p, "compile") /\ UNCHANGED <<image, source>>
    /\ UNCHANGED <<disk, key, temp, excuse, scan, faults>>

Unlink(n) == files' \in {files, Set(files, n, "absent")}

\* store.delete of an entry that does not validate; a failure is only counted.
Delete(p) ==
    /\ at[p] = "delete"
    /\ Unlink(key[p])
    /\ Goto(p, "compile")
    /\ UNCHANGED <<lock, launch, scan, faults>>

\* run_tileiras_at.
Compile(p) ==
    /\ at[p] \in {"compile", "compile only"}
    /\ \/ /\ image' = Set(image, p, "whole")
          /\ Goto(p, IF at[p] = "compile" /\ Size[key[p]] <= LowMark THEN "open" ELSE "load")
          /\ excuse' = Set(excuse, p, "made")
          /\ UNCHANGED <<key, source>>
       \/ /\ excuse' = Set(excuse, p, "refused")
          /\ Finish(p, "failed")
    /\ UNCHANGED <<disk, temp, scan, faults>>

\* The driver did not take what the launch handed it: its own image, or else v
\* is what there is to say.
Refused(p, v) == Set(excuse, p, IF excuse[p] = "made" THEN "refused" ELSE v)

\* The driver takes the module or rejects it.  A rejected disk entry is deleted
\* and compiled again, without asking the store.
MutantRecovery == "read"
Recovery == "compile only"

Load(p) ==
    /\ at[p] = "load"
    /\ \/ Goto(p, "function") /\ UNCHANGED <<key, source, image, excuse>>
       \/ /\ source[p] = "disk"
          /\ Goto(p, "reject")
          /\ UNCHANGED <<key, source, image, excuse>>
       \/ /\ source[p] = "tileiras"
          /\ excuse' = Refused(p, "none")
          /\ Finish(p, "failed")
    /\ UNCHANGED <<disk, temp, scan, faults>>

\* load_function: its error fails the launch, whatever the source of the image.
LoadFunction(p) ==
    /\ at[p] = "function"
    /\ \/ excuse' = Set(excuse, p, "none") /\ Finish(p, "idle")
       \/ excuse' = Refused(p, "no function") /\ Finish(p, "failed")
    /\ UNCHANGED <<disk, temp, scan, faults>>

Reject(p) ==
    /\ at[p] = "reject"
    /\ Unlink(key[p])
    /\ source' = Set(source, p, "tileiras")
    /\ Goto(p, Recovery)
    /\ UNCHANGED <<lock, key, temp, image, excuse, scan, faults>>

-----------------------------------------------------------------------------
(* FileSystemJitStore::put.                                                   *)

\* The directory or the temporary file cannot be created, or it is and holds
\* part of the value.  The nonce makes its name unique.
MutantTempName == CHOOSE n \in Temps : TRUE
TempName == CHOOSE n \in Temps : files[n] = "absent" /\ \A q \in Procs : temp[q] # n

\* put's error is counted; the launch goes on.
MutantPutFailed(p) == Finish(p, "failed")
PutFailed(p) == Goto(p, "load") /\ UNCHANGED <<key, source, image>>

Open(p) ==
    /\ at[p] = "open"
    /\ \/ /\ files' = Set(files, TempName, "partial")
          /\ temp' = Set(temp, p, TempName)
          /\ Goto(p, "write")
          /\ UNCHANGED <<key, source, image>>
       \/ PutFailed(p) /\ UNCHANGED <<files, temp>>
    /\ UNCHANGED <<lock, excuse, scan, faults>>

\* The rest of the value is written, if the file still has its name.
Write(p) ==
    /\ at[p] = "write"
    /\ \/ /\ files' = IF files[temp[p]] = "absent" THEN files ELSE Set(files, temp[p], "whole")
          /\ Goto(p, "rename")
       \/ Goto(p, "clean") /\ UNCHANGED files
    /\ UNCHANGED <<lock, launch, scan, faults>>

\* rename replaces the entry, or fails, as it does once the file is gone.  A
\* draw weighted by the size of the entry decides whether to collect.
Rename(p) ==
    /\ at[p] = "rename"
    /\ \/ /\ files[temp[p]] # "absent"
          /\ files' = [files EXCEPT ![key[p]] = files[temp[p]], ![temp[p]] = "absent"]
          /\ fresh' = [q \in Procs |-> fresh[q] \cup IF lock = q THEN {key[p]} ELSE {}]
          /\ temp' = Set(temp, p, None)
          /\ \E l \in {"evict", "load"} : Goto(p, l)
       \/ Goto(p, "clean") /\ UNCHANGED <<files, temp, fresh>>
    /\ UNCHANGED <<lock, key, source, image, excuse, left, found, stuck, total, faults>>

\* Either failure removes the temporary file.
MutantCleaned(n) == files
Cleaned(n) == Set(files, n, "absent")

Clean(p) ==
    /\ at[p] = "clean"
    /\ files' = Cleaned(temp[p])
    /\ temp' = Set(temp, p, None)
    /\ PutFailed(p)
    /\ UNCHANGED <<lock, excuse, scan, faults>>

-----------------------------------------------------------------------------
(* FileSystemJitStore::evict.                                                 *)

\* try_lock: whoever loses leaves the collecting to the winner.
TryLock(p) ==
    /\ at[p] = "evict"
    /\ lock = None
    /\ lock' = p
    /\ left' = Set(left, p, Present)
    /\ Goto(p, "scan")
    /\ UNCHANGED <<files, launch, found, stuck, total, fresh, faults>>

WouldBlock(p) ==
    /\ at[p] = "evict"
    /\ lock # None
    /\ Goto(p, "load")
    /\ UNCHANGED <<disk, launch, scan, faults>>

\* The lock or the directory cannot be opened.
LockFails(p) ==
    /\ at[p] = "evict"
    /\ Goto(p, "load")
    /\ UNCHANGED <<disk, launch, scan, faults>>

\* One directory entry: a stale temporary file goes, an entry is counted.  A
\* name that went away meanwhile is skipped, one published meanwhile may be
\* seen or not.
Visit(p) ==
    /\ at[p] = "scan"
    /\ \E n \in left[p] \cup (fresh[p] \ found[p]) :
          /\ left' = Set(left, p, left[p] \ {n})
          /\ \/ n \in Temps /\ Unlink(n) /\ UNCHANGED <<found, total>>
             \/ /\ n \in Keys
                /\ files[n] # "absent"
                /\ found' = Set(found, p, found[p] \cup {n})
                /\ total' = Set(total, p, total[p] + Size[n])
                /\ UNCHANGED files
             \/ n \in Keys /\ files[n] = "absent" /\ UNCHANGED <<files, found, total>>
    /\ UNCHANGED <<lock, at, launch, stuck, fresh, faults>>

EvictionOver(p) ==
    /\ lock' = None
    /\ found' = Set(found, p, {})
    /\ stuck' = Set(stuck, p, {})
    /\ total' = Set(total, p, 0)
    /\ fresh' = Set(fresh, p, {})
    /\ Goto(p, "load")

Scanned(p) ==
    /\ at[p] = "scan"
    /\ left[p] = {}
    /\ \/ total[p] <= HighMark /\ EvictionOver(p)
       \/ total[p] > HighMark /\ Goto(p, "cull") /\ UNCHANGED <<lock, found, stuck, total, fresh>>
    /\ UNCHANGED <<files, launch, left, faults>>

\* remove_file; only a removal that succeeds lowers the total.
MutantCounted(p, k, gone) == total[p] - Size[k]
Counted(p, k, gone) == IF gone THEN total[p] - Size[k] ELSE total[p]

Cull(p) ==
    /\ at[p] = "cull"
    /\ total[p] > LowMark
    /\ \E k \in found[p], gone \in BOOLEAN :
          /\ gone => files[k] # "absent"
          /\ files' = IF gone THEN Set(files, k, "absent") ELSE files
          /\ total' = Set(total, p, Counted(p, k, gone))
          /\ found' = Set(found, p, found[p] \ {k})
          /\ stuck' = Set(stuck, p, stuck[p] \cup IF gone THEN {} ELSE {k})
    /\ UNCHANGED <<lock, at, launch, left, fresh, faults>>

Culled(p) == at[p] = "cull" /\ (total[p] <= LowMark \/ found[p] = {})
Evicted(p) ==
    /\ Culled(p)
    /\ EvictionOver(p)
    /\ UNCHANGED <<files, launch, left, faults>>

-----------------------------------------------------------------------------
(* FileSystemJitStore::clear, crashes and restarts.                           *)

\* remove_dir_all of each shard: names go one by one, until none is left or a
\* removal fails.
Clear(p) ==
    /\ at[p] = "idle"
    /\ p \in Cleaners
    /\ Goto(p, "clear")
    /\ UNCHANGED <<disk, launch, scan, faults>>

ClearName(p) ==
    /\ at[p] = "clear"
    /\ \E n \in Present : files' = Set(files, n, "absent")
    /\ UNCHANGED <<lock, at, launch, scan, faults>>

Cleared(p) ==
    /\ at[p] = "clear"
    /\ Goto(p, "idle")
    /\ UNCHANGED <<disk, launch, scan, faults>>

\* What dies with a process; its files stay and its lock is released.
Die(P) ==
    /\ crashes < MaxCrashes
    /\ crashes' = crashes + 1
    /\ LET Lost(f, v) == [p \in Procs |-> IF p \in P THEN v ELSE f[p]]
       IN  /\ at' = Lost(at, "idle")
           /\ key' = Lost(key, None) /\ temp' = Lost(temp, None)
           /\ source' = Lost(source, "tileiras") /\ image' = Lost(image, "absent")
           /\ excuse' = Lost(excuse, "none")
           /\ left' = Lost(left, {}) /\ found' = Lost(found, {}) /\ stuck' = Lost(stuck, {})
           /\ total' = Lost(total, 0) /\ fresh' = Lost(fresh, {})
    /\ lock' = IF lock \in P THEN None ELSE lock

Crash(p) == at[p] # "idle" /\ Die({p}) /\ UNCHANGED <<files, powered>>

\* A torn temporary file is never published, so only entries are told apart.
PowerLoss ==
    /\ Die(Procs)
    /\ powered' = FALSE
    /\ \E T \in SUBSET (Present \cap Keys) : files' = [n \in Names |-> IF n \in T THEN "torn" ELSE files[n]]

Put(p) == Open(p) \/ Write(p) \/ Rename(p) \/ Clean(p)
Evict(p) == TryLock(p) \/ WouldBlock(p) \/ LockFails(p) \/ Visit(p) \/ Scanned(p) \/ Cull(p) \/ Evicted(p)
Step(p) == \/ Read(p) \/ Delete(p) \/ Compile(p) \/ Load(p) \/ LoadFunction(p)
           \/ Reject(p) \/ Return(p) \/ Put(p) \/ Evict(p) \/ Cleared(p)

Next ==
    \/ \E p \in Procs : \/ \E k \in Requests[p] : Begin(p, k)
                        \/ Step(p) \/ Clear(p) \/ ClearName(p) \/ Crash(p)
    \/ PowerLoss

Spec == Init /\ [][Next]_vars
\* A process that does not crash goes on.
FairSpec == Spec /\ \A p \in Procs : WF_vars(Step(p))

-----------------------------------------------------------------------------
(* Properties.                                                                *)

\* The store's contract: a reader sees nothing or one whole value, never a
\* partial write, whichever processes put the same key and wherever they died,
\* as long as the machine itself did not lose power.
PublishedWhole == powered => \A k \in Keys : files[k] \in {"absent", "whole"}

\* The driver is never handed a torn or partial image, after a power loss
\* neither.
LoadsWhole == \A p \in Procs : at[p] = "load" => image[p] = "whole"

\* The store fails no launch, whatever happens to it and wherever the image
\* came from: if one fails, then tileiras did, or the driver refused what
\* tileiras had made in this very launch, or it took a stored module and did not
\* find the function in it.  The last is the one failure of a stored image that
\* compile_and_load_kernel does not recover from by compiling again.
NeverFailsLaunch == \A p \in Procs : at[p] = "failed" => excuse[p] \in {"refused", "no function"}

\* No temporary file is left behind except by a process that died.
TempsOwned ==
    crashes = 0 => \A n \in Temps : files[n] # "absent" => \E p \in Procs : temp[p] = n

SizeOf(S) == MapThenSumSet(LAMBDA k : Size[k], S)

\* An eviction that collects leaves at most the low watermark of what was there
\* when it began, or nothing but what it could not delete.
EvictionFits ==
    \A p \in Procs : Culled(p) =>
        LET old == (Present \cap Keys) \ fresh[p]
        IN  SizeOf(old) <= LowMark \/ old \subseteq stuck[p]

\* A launch ends, however often the driver rejects an entry that cannot be
\* deleted.
LaunchReturns == \A p \in Procs : at[p] # "idle" ~> at[p] = "idle"
=============================================================================
