--------------------------- MODULE JitCacheProofs ---------------------------
(***************************************************************************)
(* Proofs about JitCache: for any processes, keys and crashes, a reader of    *)
(* the store sees nothing or one whole entry as long as the power lasts, the  *)
(* driver is only handed whole images, a launch only fails over what          *)
(* tileiras or the driver refused, only a process that died leaves a          *)
(* temporary file behind, and an eviction reaches its low watermark.          *)
(***************************************************************************)
EXTENDS JitCache, FiniteSetTheorems, WellFoundedInduction, TLAPS

Bytes == {"absent", "partial", "whole", "torn"}

\* Where a process works on a kernel, writes its entry, has its image.
Putting == {"write", "rename", "clean"}
Handing == {"open", "evict", "scan", "cull", "load", "function"} \cup Putting
Working == {"read", "delete", "compile", "compile only", "reject"} \cup Handing
Places == {"idle", "failed", "clear"} \cup Working

\* What tileiras and the driver may have said of a launch.
Excuses == {"none", "made", "refused", "no function"}

\* A launch at l that says c of its image has one that tileiras made for it.
OwnImage(l, c) == l \in Handing /\ (l \in {"load", "function"} => c = "tileiras")

-----------------------------------------------------------------------------
(* The inductive invariant.                                                   *)

\* Every variable has its type.
TypeOK ==
    /\ files \in [Names -> Bytes]
    /\ lock \in Procs \cup {None}
    /\ at \in [Procs -> Places]
    /\ key \in [Procs -> Keys \cup {None}]
    /\ temp \in [Procs -> Temps \cup {None}]
    /\ source \in [Procs -> {"tileiras", "disk"}]
    /\ image \in [Procs -> Bytes]
    /\ excuse \in [Procs -> Excuses]
    /\ left \in [Procs -> SUBSET Names]
    /\ found \in [Procs -> SUBSET Keys]
    /\ stuck \in [Procs -> SUBSET Keys]
    /\ total \in [Procs -> Int]
    /\ fresh \in [Procs -> SUBSET Keys]
    /\ crashes \in Nat
    /\ powered \in BOOLEAN

\* What a process has: a kernel while it works, a temporary file while it puts,
\* a whole image from the compilation or the lookup on, made by tileiras in this
\* launch if source says so, and at the rename either the whole value in its
\* file or no file any more.
ProcInv(p) ==
    /\ at[p] \in Working => key[p] \in Keys
    /\ at[p] \in Putting <=> temp[p] # None
    /\ at[p] \in Handing => image[p] = "whole"
    /\ OwnImage(at[p], source[p]) => excuse[p] = "made"
    /\ at[p] = "failed" => excuse[p] \in {"refused", "no function"}
    /\ at[p] = "rename" => files[temp[p]] \in {"absent", "whole"}

\* No two processes write to one temporary file.
OwnTemps == \A p, q \in Procs : temp[p] = temp[q] /\ temp[p] # None => p = q

\* Temporary files whose writer died: one for each process at every crash.
Orphans == {n \in Temps : files[n] # "absent" /\ \A q \in Procs : temp[q] # n}
FewOrphans == Cardinality(Orphans) <= crashes * Cardinality(Procs)

IInv ==
    /\ TypeOK
    /\ \A p \in Procs : ProcInv(p)
    /\ OwnTemps
    /\ FewOrphans
    /\ crashes <= MaxCrashes
    /\ PublishedWhole

-----------------------------------------------------------------------------
(* What a step leaves alone.                                                  *)

LEMMA Typed ==
    ASSUME IInv
    PROVE  /\ TypeOK /\ Keys \subseteq Names /\ Temps \subseteq Names
           /\ \A n \in Temps : n \notin Keys
           /\ None \notin Temps /\ None \notin Keys /\ None \notin Procs
BY JitAssumption DEF IInv, Names

LEMMA PutHas ==
    ASSUME IInv, NEW p \in Procs, at[p] \in Putting
    PROVE  temp[p] \in Temps /\ key[p] \in Keys /\ image[p] = "whole" /\ excuse[p] = "made"
<1>1. ProcInv(p) /\ temp[p] \in Temps \cup {None}
    BY Typed DEF IInv, TypeOK
<1>2. at[p] \in Working /\ at[p] \in Handing /\ OwnImage(at[p], source[p])
    BY DEF Putting, Working, Handing, OwnImage
<1> QED
    BY <1>1, <1>2 DEF ProcInv

\* A process other than p.
Aside(p) == \A q \in Procs \ {p} :
    at'[q] = at[q] /\ key'[q] = key[q] /\ temp'[q] = temp[q] /\ image'[q] = image[q]
    /\ source'[q] = source[q] /\ excuse'[q] = excuse[q]

LEMMA OtherProcs ==
    ASSUME IInv, NEW p, Aside(p),
           \A q \in Procs \ {p} : at[q] = "rename" => files'[temp[q]] \in {files[temp[q]], "absent"}
    PROVE  \A q \in Procs \ {p} : ProcInv(q)'
<1> SUFFICES ASSUME NEW q \in Procs \ {p}
             PROVE  ProcInv(q)'
    OBVIOUS
<1>1. at'[q] = at[q] /\ key'[q] = key[q] /\ temp'[q] = temp[q] /\ image'[q] = image[q]
      /\ source'[q] = source[q] /\ excuse'[q] = excuse[q]
    BY DEF Aside
<1>2. ProcInv(q)
    BY DEF IInv
<1> QED
    BY <1>1, <1>2 DEF ProcInv

LEMMA FiniteOrphans == IsFiniteSet(Orphans) /\ Cardinality(Orphans) \in Nat
BY JitAssumption, FS_Subset, FS_CardinalityType DEF Orphans

LEMMA FiniteProcs == IsFiniteSet(Procs) /\ Cardinality(Procs) \in Nat
BY JitAssumption, FS_CardinalityType

LEMMA FiniteTemps == IsFiniteSet(Temps) /\ Cardinality(Temps) \in Nat
BY JitAssumption, FS_CardinalityType

LEMMA NoNewOrphans ==
    ASSUME IInv, Orphans' \subseteq Orphans, crashes' = crashes
    PROVE  FewOrphans'
<1>1. Cardinality(Orphans') <= Cardinality(Orphans)
    BY FiniteOrphans, FS_Subset
<1>2. Cardinality(Orphans') \in Nat
    BY FiniteOrphans, FS_Subset, FS_CardinalityType
<1>3. Cardinality(Orphans) <= crashes * Cardinality(Procs)
    BY DEF IInv, FewOrphans
<1>4. crashes * Cardinality(Procs) \in Nat
    BY Typed, FiniteProcs DEF TypeOK
<1>5. Cardinality(Orphans') <= crashes * Cardinality(Procs)
    <2> DEFINE b == crashes * Cardinality(Procs)
    <2> HIDE DEF b
    <2>1. b \in Nat /\ Cardinality(Orphans) <= b
        BY <1>3, <1>4 DEF b
    <2>2. Cardinality(Orphans') <= b
        BY <1>1, <1>2, <2>1, FiniteOrphans
    <2> QED
        BY <2>2 DEF b
<1> QED
    BY <1>5 DEF FewOrphans

\* A step of p that keeps its temporary file, if any, and at most removes names.
LEMMA StepKeeps ==
    ASSUME IInv, NEW p \in Procs, Aside(p), UNCHANGED <<temp, crashes, powered>>,
           \A n \in Names : files'[n] \in {files[n], "absent"}, TypeOK', ProcInv(p)'
    PROVE  IInv'
<1>1. \A q \in Procs : at[q] = "rename" => files'[temp[q]] \in {files[temp[q]], "absent"}
    <2> SUFFICES ASSUME NEW q \in Procs, at[q] = "rename"
                 PROVE  temp[q] \in Names
        OBVIOUS
    <2> QED
        BY Typed, PutHas DEF Putting
<1>2. \A q \in Procs : ProcInv(q)'
    BY <1>1, OtherProcs
<1>3. Orphans' \subseteq Orphans
    BY Typed DEF Orphans
<1>4. OwnTemps' /\ PublishedWhole' /\ crashes' <= MaxCrashes
    BY Typed DEF IInv, OwnTemps, PublishedWhole
<1> QED
    BY <1>2, <1>3, <1>4, NoNewOrphans DEF IInv

-----------------------------------------------------------------------------
(* Steps that publish nothing.                                                *)

\* At most names went from the directory.
Shrunk == files' \in [Names -> Bytes] /\ \A n \in Names : files'[n] \in {files[n], "absent"}

\* The collector's variables have their types.
ScanOK ==
    /\ lock \in Procs \cup {None}
    /\ left \in [Procs -> SUBSET Names]
    /\ found \in [Procs -> SUBSET Keys]
    /\ stuck \in [Procs -> SUBSET Keys]
    /\ total \in [Procs -> Int]
    /\ fresh \in [Procs -> SUBSET Keys]

LEMMA UnlinkShrinks ==
    ASSUME IInv, NEW n \in Names, Unlink(n)
    PROVE  Shrunk
BY Typed DEF TypeOK, Unlink, Set, Shrunk, Bytes

\* The launch of p moves on to l, with the kernel k, the source c, the image i
\* and the excuse x.
Moves(p, l, k, c, i, x) ==
    /\ at' = [at EXCEPT ![p] = l]
    /\ key' = [key EXCEPT ![p] = k]
    /\ source' = [source EXCEPT ![p] = c]
    /\ image' = [image EXCEPT ![p] = i]
    /\ excuse' = [excuse EXCEPT ![p] = x]

\* They are what l asks for.
Fits(p, l, k, c, i, x) ==
    /\ l \in Places /\ i \in Bytes
    /\ l \in Working => k \in Keys
    /\ l \in Handing => i = "whole"
    /\ OwnImage(l, c) => x = "made"
    /\ l = "failed" => x \in {"refused", "no function"}
    /\ l \in Putting <=> at[p] \in Putting
    /\ l = "rename" => at[p] = "rename"

LEMMA MoveKeeps ==
    ASSUME IInv, NEW p \in Procs, NEW l, NEW k \in Keys \cup {None},
           NEW c \in {"tileiras", "disk"}, NEW i, NEW x \in Excuses, Fits(p, l, k, c, i, x),
           Moves(p, l, k, c, i, x), Shrunk, UNCHANGED <<temp, crashes, powered>>, ScanOK'
    PROVE  IInv'
<1>1. /\ l \in Places /\ i \in Bytes /\ (l \in Working => k \in Keys)
      /\ (l \in Handing => i = "whole") /\ (OwnImage(l, c) => x = "made")
      /\ (l = "failed" => x \in {"refused", "no function"})
      /\ (l \in Putting <=> at[p] \in Putting) /\ (l = "rename" => at[p] = "rename")
    BY DEF Fits
<1>2. /\ at'[p] = l /\ key'[p] = k /\ image'[p] = i /\ excuse'[p] = x /\ temp'[p] = temp[p]
      /\ source'[p] = c /\ Aside(p)
    BY Typed DEF Moves, TypeOK, Aside
<1>3. TypeOK'
    <2>1. at' \in [Procs -> Places] /\ key' \in [Procs -> Keys \cup {None}]
          /\ image' \in [Procs -> Bytes]
        BY Typed, <1>1 DEF Moves, TypeOK
    <2>2. source' \in [Procs -> {"tileiras", "disk"}]
        BY Typed DEF Moves, TypeOK
    <2>3. excuse' \in [Procs -> Excuses]
        BY Typed DEF Moves, TypeOK
    <2>4. temp' \in [Procs -> Temps \cup {None}] /\ crashes' \in Nat
        BY Typed DEF TypeOK
    <2>5. powered' \in BOOLEAN
        BY Typed DEF TypeOK
    <2> QED
        BY <2>1, <2>2, <2>3, <2>4, <2>5 DEF TypeOK, Shrunk, ScanOK
<1>4. l = "rename" => files'[temp[p]] \in {"absent", "whole"}
    <2> SUFFICES ASSUME l = "rename"
                 PROVE  files'[temp[p]] \in {"absent", "whole"}
        OBVIOUS
    <2>1. temp[p] \in Names /\ files[temp[p]] \in {"absent", "whole"}
        BY Typed, PutHas, <1>1 DEF IInv, ProcInv, Putting
    <2> QED
        BY <2>1 DEF Shrunk
<1>5. ProcInv(p)
    BY DEF IInv
<1>6. at'[p] \in Putting <=> temp'[p] # None
    BY <1>1, <1>2, <1>5 DEF ProcInv
<1>7. ProcInv(p)'
    BY <1>1, <1>2, <1>4, <1>6 DEF ProcInv
<1> QED
    BY <1>2, <1>3, <1>7, StepKeeps DEF Shrunk

\* The same when only the place changes, to where no less is known of p.
LEMMA GotoKeeps ==
    ASSUME IInv, NEW p \in Procs, NEW l \in Places, Goto(p, l), Shrunk, UNCHANGED <<launch, faults>>,
           ScanOK', l \in Working => at[p] \in Working, l \in Handing => at[p] \in Handing,
           OwnImage(l, source[p]) => OwnImage(at[p], source[p]),
           l # "failed", l \in Putting <=> at[p] \in Putting, l = "rename" => at[p] = "rename"
    PROVE  IInv'
<1>1. /\ key[p] \in Keys \cup {None} /\ source[p] \in {"tileiras", "disk"}
      /\ image[p] \in Bytes /\ excuse[p] \in Excuses
    BY Typed DEF TypeOK
<1>2. Moves(p, l, key[p], source[p], image[p], excuse[p])
    BY Typed DEF Moves, Goto, launch, TypeOK
<1>3. /\ (at[p] \in Working => key[p] \in Keys) /\ (at[p] \in Handing => image[p] = "whole")
      /\ (OwnImage(at[p], source[p]) => excuse[p] = "made")
    BY DEF IInv, ProcInv
<1>4. UNCHANGED <<temp, crashes, powered>>
    BY DEF launch, faults
<1>5. Fits(p, l, key[p], source[p], image[p], excuse[p])
    BY <1>1, <1>3 DEF Fits
<1> QED
    BY <1>1, <1>2, <1>4, <1>5, MoveKeeps

LEMMA QuietScan ==
    ASSUME IInv, UNCHANGED <<lock, scan>>
    PROVE  ScanOK'
BY Typed DEF TypeOK, ScanOK, scan

LEMMA QuietDisk ==
    ASSUME IInv, UNCHANGED files
    PROVE  Shrunk
BY Typed DEF TypeOK, Shrunk

LEMMA BeginKeeps ==
    ASSUME IInv, NEW p \in Procs, NEW k \in Requests[p], Begin(p, k)
    PROVE  IInv'
<1>1. k \in Keys
    BY JitAssumption
<1>2. PICK l \in {"read", "compile only"} : Goto(p, l)
    BY DEF Begin
<1>3. Moves(p, l, k, source[p], image[p], excuse[p]) /\ at[p] = "idle"
    BY Typed, <1>2 DEF Begin, Moves, Goto, Set, TypeOK
<1>4. Shrunk /\ ScanOK' /\ UNCHANGED <<temp, crashes, powered>>
    BY QuietScan, QuietDisk DEF Begin, disk, faults
<1>5. source[p] \in {"tileiras", "disk"} /\ image[p] \in Bytes /\ excuse[p] \in Excuses
    BY Typed DEF TypeOK
<1>6. Fits(p, l, k, source[p], image[p], excuse[p])
    BY <1>1, <1>2, <1>3, <1>4, <1>5 DEF Fits, Places, Working, Handing, Putting, OwnImage, Bytes
<1> QED
    BY <1>1, <1>2, <1>3, <1>4, <1>5, <1>6, MoveKeeps

LEMMA ReturnKeeps ==
    ASSUME IInv, NEW p \in Procs, Return(p)
    PROVE  IInv'
<1>1. Moves(p, "idle", key[p], source[p], image[p], "none") /\ at[p] = "failed"
    BY Typed DEF Return, Moves, Goto, Set, TypeOK
<1>2. Shrunk /\ ScanOK' /\ UNCHANGED <<temp, crashes, powered>>
    BY QuietScan, QuietDisk DEF Return, disk, faults
<1>3. key[p] \in Keys \cup {None} /\ source[p] \in {"tileiras", "disk"} /\ image[p] \in Bytes
    BY Typed DEF TypeOK
<1>4. Fits(p, "idle", key[p], source[p], image[p], "none")
    BY <1>1, <1>2, <1>3 DEF Fits, Places, Working, Handing, Putting, OwnImage, Bytes
<1> QED
    BY <1>1, <1>2, <1>3, <1>4, MoveKeeps DEF Excuses

LEMMA ReadKeeps ==
    ASSUME IInv, NEW p \in Procs, Read(p)
    PROVE  IInv'
<1>1. at[p] = "read" /\ key[p] \in Keys /\ image[p] \in Bytes /\ source[p] \in {"tileiras", "disk"}
      /\ excuse[p] \in Excuses
    BY Typed DEF Read, IInv, TypeOK, ProcInv, Working
<1>2. Shrunk /\ ScanOK' /\ UNCHANGED <<temp, crashes, powered>>
    BY QuietScan, QuietDisk DEF Read, disk, faults
<1>3. CASE Decodes(files[key[p]]) /\ image' = Set(image, p, files[key[p]])
           /\ source' = Set(source, p, "disk") /\ Goto(p, "load")
    <2>1. Moves(p, "load", key[p], "disk", "whole", excuse[p])
        BY Typed, <1>3 DEF Read, Decodes, Moves, Goto, Set, TypeOK
    <2>2. Fits(p, "load", key[p], "disk", "whole", excuse[p])
        BY <1>1, <1>2, <2>1 DEF Fits, Places, Working, Handing, Putting, OwnImage, Bytes
    <2> QED
        BY <1>1, <1>2, <2>1, <2>2, MoveKeeps
<1>4. ASSUME NEW l \in {"delete", "compile"}, Goto(p, l), UNCHANGED <<image, source>>
      PROVE  IInv'
    <2>1. Moves(p, l, key[p], source[p], image[p], excuse[p])
        BY Typed, <1>4 DEF Read, Moves, Goto, TypeOK
    <2>2. Fits(p, l, key[p], source[p], image[p], excuse[p])
        BY <1>1, <1>2, <2>1 DEF Fits, Places, Working, Handing, Putting, OwnImage, Bytes
    <2> QED
        BY <1>1, <1>2, <2>1, <2>2, MoveKeeps
<1> QED
    BY <1>3, <1>4 DEF Read

LEMMA DeleteKeeps ==
    ASSUME IInv, NEW p \in Procs, Delete(p)
    PROVE  IInv'
<1>1. key[p] \in Names
    BY Typed DEF Delete, IInv, ProcInv, Working
<1>2. Shrunk /\ ScanOK'
    BY <1>1, UnlinkShrinks, QuietScan DEF Delete
<1> QED
    BY <1>2, GotoKeeps DEF Delete, Places, Working, Handing, Putting, OwnImage

LEMMA CompileKeeps ==
    ASSUME IInv, NEW p \in Procs, Compile(p)
    PROVE  IInv'
<1>1. at[p] \in {"compile", "compile only"} /\ key[p] \in Keys /\ source[p] \in {"tileiras", "disk"}
      /\ excuse[p] \in Excuses
    BY Typed DEF Compile, IInv, TypeOK, ProcInv, Working
<1>2. Shrunk /\ ScanOK' /\ UNCHANGED <<temp, crashes, powered>>
    BY QuietScan, QuietDisk DEF Compile, disk, faults
<1>3. ASSUME NEW l \in {"open", "load"}, Goto(p, l), image' = Set(image, p, "whole"),
             excuse' = Set(excuse, p, "made"), UNCHANGED <<key, source>>
      PROVE  IInv'
    <2>1. Moves(p, l, key[p], source[p], "whole", "made")
        BY Typed, <1>3 DEF Moves, Goto, Set, TypeOK
    <2>2. Fits(p, l, key[p], source[p], "whole", "made")
        BY <1>1, <1>2, <2>1 DEF Fits, Places, Working, Handing, Putting, OwnImage, Bytes
    <2> QED
        BY <1>1, <1>2, <2>1, <2>2, MoveKeeps DEF Excuses
<1>4. CASE excuse' = Set(excuse, p, "refused") /\ Finish(p, "failed")
    <2>1. Moves(p, "failed", None, "tileiras", "absent", "refused")
        BY <1>4 DEF Moves, Finish, Goto, Set
    <2>2. Fits(p, "failed", None, "tileiras", "absent", "refused")
        BY <1>1, <1>2, <2>1 DEF Fits, Places, Working, Handing, Putting, OwnImage, Bytes
    <2> QED
        BY <1>1, <1>2, <2>1, <2>2, MoveKeeps DEF Excuses
<1> QED
    BY <1>3, <1>4 DEF Compile

LEMMA LoadKeeps ==
    ASSUME IInv, NEW p \in Procs, Load(p)
    PROVE  IInv'
<1>1. at[p] = "load" /\ key[p] \in Keys /\ image[p] = "whole" /\ source[p] \in {"tileiras", "disk"}
      /\ excuse[p] \in Excuses
    BY Typed DEF Load, IInv, TypeOK, ProcInv, Working, Handing
<1>2. Shrunk /\ ScanOK' /\ UNCHANGED <<temp, crashes, powered>>
    BY QuietScan, QuietDisk DEF Load, disk, faults
<1>3. source[p] = "tileiras" => excuse[p] = "made"
    BY <1>1 DEF IInv, ProcInv, OwnImage, Handing
<1>4. ASSUME NEW l \in {"function", "reject"}, Goto(p, l), UNCHANGED <<key, source, image, excuse>>
      PROVE  IInv'
    <2>1. Moves(p, l, key[p], source[p], "whole", excuse[p])
        BY Typed, <1>1, <1>4 DEF Moves, Goto, TypeOK
    <2>2. Fits(p, l, key[p], source[p], "whole", excuse[p])
        BY <1>1, <1>3, <2>1 DEF Fits, Places, Working, Handing, Putting, OwnImage, Bytes
    <2> QED
        BY <1>1, <1>2, <2>1, <2>2, MoveKeeps
<1>5. CASE source[p] = "tileiras" /\ excuse' = Refused(p, "none") /\ Finish(p, "failed")
    <2>1. excuse' = [excuse EXCEPT ![p] = "refused"]
        BY <1>3, <1>5 DEF Refused, Set
    <2>2. Moves(p, "failed", None, "tileiras", "absent", "refused")
        BY <1>5, <2>1 DEF Moves, Finish, Goto, Set
    <2>3. Fits(p, "failed", None, "tileiras", "absent", "refused")
        BY <1>1 DEF Fits, Places, Working, Handing, Putting, OwnImage, Bytes
    <2> QED
        BY <1>2, <2>2, <2>3, MoveKeeps DEF Excuses
<1> QED
    BY <1>4, <1>5 DEF Load

LEMMA LoadFunctionKeeps ==
    ASSUME IInv, NEW p \in Procs, LoadFunction(p)
    PROVE  IInv'
<1>1. at[p] = "function"
    BY DEF LoadFunction
<1>2. Shrunk /\ ScanOK' /\ UNCHANGED <<temp, crashes, powered>>
    BY QuietScan, QuietDisk DEF LoadFunction, disk, faults
<1>3. ASSUME NEW l \in {"idle", "failed"}, Finish(p, l), NEW x \in Excuses,
             excuse' = [excuse EXCEPT ![p] = x], l = "failed" => x \in {"refused", "no function"}
      PROVE  IInv'
    <2>1. Moves(p, l, None, "tileiras", "absent", x)
        BY <1>3 DEF Moves, Finish, Goto, Set
    <2>2. Fits(p, l, None, "tileiras", "absent", x)
        BY <1>1, <1>3 DEF Fits, Places, Working, Handing, Putting, OwnImage, Bytes
    <2> QED
        BY <1>2, <2>1, <2>2, MoveKeeps
<1>4. CASE excuse' = Set(excuse, p, "none") /\ Finish(p, "idle")
    BY <1>3, <1>4 DEF Set, Excuses
<1>5. CASE excuse' = Refused(p, "no function") /\ Finish(p, "failed")
    <2>1. PICK x \in {"refused", "no function"} : excuse' = [excuse EXCEPT ![p] = x]
        BY <1>5 DEF Refused, Set
    <2> QED
        BY <1>3, <1>5, <2>1 DEF Excuses
<1> QED
    BY <1>4, <1>5 DEF LoadFunction

LEMMA RejectKeeps ==
    ASSUME IInv, NEW p \in Procs, Reject(p)
    PROVE  IInv'
<1>1. at[p] = "reject" /\ key[p] \in Keys /\ image[p] \in Bytes /\ excuse[p] \in Excuses
    BY Typed DEF Reject, IInv, TypeOK, ProcInv, Working
<1>2. Moves(p, "compile only", key[p], "tileiras", image[p], excuse[p])
    BY Typed DEF Reject, Recovery, Moves, Goto, Set, TypeOK
<1>3. Shrunk /\ ScanOK' /\ UNCHANGED <<temp, crashes, powered>>
    BY Typed, <1>1, UnlinkShrinks, QuietScan DEF Reject, faults
<1>4. Fits(p, "compile only", key[p], "tileiras", image[p], excuse[p])
    BY <1>1, <1>2, <1>3 DEF Fits, Places, Working, Handing, Putting, OwnImage, Bytes
<1> QED
    BY <1>1, <1>2, <1>3, <1>4, MoveKeeps DEF Excuses

-----------------------------------------------------------------------------
(* Collecting and clearing.                                                   *)

LEMMA TryLockKeeps ==
    ASSUME IInv, NEW p \in Procs, TryLock(p)
    PROVE  IInv'
<1>1. ScanOK'
    BY Typed DEF TryLock, Set, TypeOK, ScanOK, Present
<1> QED
    BY <1>1, QuietDisk, GotoKeeps DEF TryLock, Places, Working, Handing, Putting, OwnImage

LEMMA GiveUpKeeps ==
    ASSUME IInv, NEW p \in Procs, WouldBlock(p) \/ LockFails(p)
    PROVE  IInv'
BY QuietDisk, QuietScan, GotoKeeps
DEF WouldBlock, LockFails, disk, Places, Working, Handing, Putting, OwnImage

LEMMA VisitKeeps ==
    ASSUME IInv, NEW p \in Procs, Visit(p)
    PROVE  IInv'
<1>1. at[p] = "scan" /\ UNCHANGED <<lock, at, launch, stuck, fresh, faults>>
    BY DEF Visit
<1>2. PICK n \in left[p] \cup (fresh[p] \ found[p]) :
          /\ left' = Set(left, p, left[p] \ {n})
          /\ \/ n \in Temps /\ Unlink(n) /\ UNCHANGED <<found, total>>
             \/ /\ n \in Keys
                /\ files[n] # "absent"
                /\ found' = Set(found, p, found[p] \cup {n})
                /\ total' = Set(total, p, total[p] + Size[n])
                /\ UNCHANGED files
             \/ n \in Keys /\ files[n] = "absent" /\ UNCHANGED <<files, found, total>>
    BY DEF Visit
<1>3. Shrunk
    BY Typed, <1>2, UnlinkShrinks, QuietDisk
<1>4. left' \in [Procs -> SUBSET Names] /\ found' \in [Procs -> SUBSET Keys]
    BY Typed, <1>2 DEF TypeOK, Set
<1>5. total' \in [Procs -> Int]
    <2>1. total[p] \in Int /\ \A k \in Keys : Size[k] \in Int
        BY Typed, JitAssumption DEF TypeOK
    <2>2. n \in Keys => total[p] + Size[n] \in Int
        BY <2>1
    <2> QED
        BY Typed, <1>2, <2>2 DEF TypeOK, Set
<1>6. ScanOK'
    BY Typed, <1>1, <1>4, <1>5 DEF TypeOK, ScanOK
<1>7. Goto(p, "scan")
    BY Typed, <1>1 DEF Goto, TypeOK
<1> QED
    BY <1>1, <1>3, <1>6, <1>7, GotoKeeps DEF Places, Working, Handing, Putting, OwnImage

LEMMA OverKeeps ==
    ASSUME IInv, NEW p \in Procs, at[p] \in {"scan", "cull"}, EvictionOver(p),
           UNCHANGED <<files, launch, left, faults>>
    PROVE  IInv'
<1>1. ScanOK'
    BY Typed DEF EvictionOver, Set, TypeOK, ScanOK
<1> QED
    BY <1>1, QuietDisk, GotoKeeps DEF EvictionOver, Places, Working, Handing, Putting, OwnImage

LEMMA ScannedKeeps ==
    ASSUME IInv, NEW p \in Procs, Scanned(p)
    PROVE  IInv'
<1>1. CASE EvictionOver(p)
    BY <1>1, OverKeeps DEF Scanned
<1>2. CASE Goto(p, "cull") /\ UNCHANGED <<lock, found, stuck, total, fresh>>
    <2>1. ScanOK'
        BY <1>2, QuietScan DEF Scanned, scan
    <2> QED
        BY <1>2, <2>1, QuietDisk, GotoKeeps DEF Scanned, Places, Working, Handing, Putting, OwnImage
<1> QED
    BY <1>1, <1>2 DEF Scanned

LEMMA CullKeeps ==
    ASSUME IInv, NEW p \in Procs, Cull(p)
    PROVE  IInv'
<1>1. at[p] = "cull" /\ UNCHANGED <<lock, at, launch, left, fresh, faults>>
    BY DEF Cull
<1>2. PICK k \in found[p], gone \in BOOLEAN :
          /\ files' = IF gone THEN Set(files, k, "absent") ELSE files
          /\ total' = Set(total, p, Counted(p, k, gone))
          /\ found' = Set(found, p, found[p] \ {k})
          /\ stuck' = Set(stuck, p, stuck[p] \cup IF gone THEN {} ELSE {k})
    BY DEF Cull
<1>3. k \in Keys /\ Size[k] \in Int /\ total[p] \in Int
    BY Typed, JitAssumption DEF TypeOK
<1>4. Shrunk
    <2>1. Unlink(k)
        BY <1>2 DEF Unlink
    <2> QED
        BY Typed, <1>3, <2>1, UnlinkShrinks
<1>5. found' \in [Procs -> SUBSET Keys] /\ stuck' \in [Procs -> SUBSET Keys]
    BY Typed, <1>2, <1>3 DEF TypeOK, Set
<1>6. total' \in [Procs -> Int]
    <2>1. Counted(p, k, gone) \in Int
        BY <1>3 DEF Counted
    <2> QED
        BY Typed, <1>2, <2>1 DEF TypeOK, Set
<1>7. ScanOK'
    BY Typed, <1>1, <1>5, <1>6 DEF TypeOK, ScanOK
<1>8. Goto(p, "cull")
    BY Typed, <1>1 DEF Goto, TypeOK
<1> QED
    BY <1>1, <1>4, <1>7, <1>8, GotoKeeps DEF Places, Working, Handing, Putting, OwnImage

LEMMA EvictedKeeps ==
    ASSUME IInv, NEW p \in Procs, Evicted(p)
    PROVE  IInv'
BY OverKeeps DEF Evicted, Culled

LEMMA ClearKeeps ==
    ASSUME IInv, NEW p \in Procs, Clear(p) \/ Cleared(p)
    PROVE  IInv'
BY QuietDisk, QuietScan, GotoKeeps DEF Clear, Cleared, disk, Places, Working, Handing, Putting, OwnImage

LEMMA ClearNameKeeps ==
    ASSUME IInv, NEW p \in Procs, ClearName(p)
    PROVE  IInv'
<1>1. PICK n \in Names : files' = Set(files, n, "absent")
    BY DEF ClearName, Present
<1>2. Shrunk
    BY <1>1, UnlinkShrinks DEF Unlink
<1>3. Goto(p, "clear") /\ at[p] = "clear"
    BY Typed DEF ClearName, Goto, TypeOK
<1> QED
    BY <1>2, <1>3, QuietScan, GotoKeeps DEF ClearName, Places, Working, Handing, Putting, OwnImage

-----------------------------------------------------------------------------
(* Temporary files.                                                           *)

\* The temporary files in the hands of the processes in P.
Owned(P) == {temp[q] : q \in P}

LEMMA OwnedBound ==
    ASSUME NEW P \in SUBSET Procs
    PROVE  /\ IsFiniteSet(Owned(P)) /\ Cardinality(Owned(P)) \in Nat
           /\ Cardinality(Owned(P)) <= Cardinality(P)
<1>1. IsFiniteSet(P)
    BY FiniteProcs, FS_Subset
<1>2. [q \in P |-> temp[q]] \in Surjection(P, Owned(P))
    BY DEF Surjection, Owned
<1>3. IsFiniteSet(Owned(P)) /\ Cardinality(Owned(P)) <= Cardinality(P)
    BY <1>1, <1>2, FS_Surjection
<1> QED
    BY <1>3, FS_CardinalityType

LEMMA UnionBound ==
    ASSUME NEW S, NEW T, IsFiniteSet(S), IsFiniteSet(T), NEW U \in SUBSET (S \cup T)
    PROVE  Cardinality(U) <= Cardinality(S) + Cardinality(T)
<1>1. /\ IsFiniteSet(S \cup T)
      /\ Cardinality(S \cup T) = Cardinality(S) + Cardinality(T) - Cardinality(S \cap T)
    BY FS_Union
<1>2. Cardinality(S \cap T) \in Nat /\ Cardinality(S) \in Nat /\ Cardinality(T) \in Nat
    BY FS_Subset, FS_CardinalityType
<1>3. Cardinality(U) <= Cardinality(S \cup T) /\ Cardinality(U) \in Nat
    BY <1>1, FS_Subset, FS_CardinalityType
<1> QED
    BY <1>1, <1>2, <1>3

LEMMA Products ==
    ASSUME NEW a \in Nat, NEW b \in Nat, NEW n \in Nat, a <= b
    PROVE  a * n <= b * n /\ n * (1 + b) = n + b * n /\ a * n \in Nat /\ b * n \in Nat
OBVIOUS

\* The names of temporary files do not run out: put always finds a fresh one.
LEMMA FreshName ==
    ASSUME IInv, NEW p \in Procs, temp[p] = None
    PROVE  /\ TempName \in Temps
           /\ files[TempName] = "absent"
           /\ \A q \in Procs : temp[q] # TempName
<1> DEFINE Free(n) == files[n] = "absent" /\ \A q \in Procs : temp[q] # n
<1>1. \E n \in Temps : Free(n)
    <2> SUFFICES ASSUME \A n \in Temps : ~Free(n)
                 PROVE  FALSE
        OBVIOUS
    <2> DEFINE R == Procs \ {p}
               N == Cardinality(Procs)
    <2>1. Temps \subseteq Orphans \cup Owned(R)
        <3> SUFFICES ASSUME NEW n \in Temps, n \notin Orphans
                     PROVE  n \in Owned(R)
            OBVIOUS
        <3>1. PICK q \in Procs : temp[q] = n
            BY DEF Orphans
        <3>2. q # p
            BY Typed, <3>1
        <3> QED
            BY <3>1, <3>2 DEF Owned
    <2>2. Cardinality(R) = N - 1
        BY FiniteProcs, FS_RemoveElement
    <2>3. IsFiniteSet(Owned(R)) /\ Cardinality(Owned(R)) \in Nat
          /\ Cardinality(Owned(R)) <= Cardinality(R)
        BY OwnedBound
    <2>4. Cardinality(Temps) <= Cardinality(Orphans) + Cardinality(Owned(R))
        BY <2>1, <2>3, FiniteOrphans, UnionBound
    <2>5. Cardinality(Orphans) <= crashes * N
        BY DEF IInv, FewOrphans
    <2>6. /\ crashes * N <= MaxCrashes * N /\ N * (1 + MaxCrashes) = N + MaxCrashes * N
          /\ crashes * N \in Nat /\ MaxCrashes * N \in Nat
        BY Typed, FiniteProcs, JitAssumption, Products DEF IInv, TypeOK
    <2>7. Cardinality(Temps) >= N * (1 + MaxCrashes)
        BY JitAssumption
    <2> DEFINE a == crashes * N
               b == MaxCrashes * N
               c == N * (1 + MaxCrashes)
    <2>8. a <= b /\ c = N + b /\ a \in Nat /\ b \in Nat /\ Cardinality(Orphans) <= a
          /\ Cardinality(Temps) >= c
        BY <2>5, <2>6, <2>7
    <2>9. N \in Nat
        BY FiniteProcs
    <2> HIDE DEF N, a, b, c, R
    <2> QED
        BY <2>2, <2>3, <2>4, <2>8, <2>9, FiniteOrphans, FiniteTemps
<1>2. TempName = CHOOSE n \in Temps : Free(n)
    BY DEF TempName
<1> HIDE DEF Free
<1>3. TempName \in Temps /\ Free(TempName)
    BY <1>1, <1>2
<1> QED
    BY <1>3 DEF Free

-----------------------------------------------------------------------------
(* put.                                                                       *)

\* A step of p that may change its temporary file.
LEMMA PutKeeps ==
    ASSUME IInv, NEW p \in Procs, Aside(p), UNCHANGED faults, TypeOK', ProcInv(p)',
           \A q \in Procs \ {p} : at[q] = "rename" => files'[temp[q]] = files[temp[q]],
           temp'[p] # None => \A q \in Procs \ {p} : temp[q] # temp'[p],
           \A n \in Temps : n = temp[p] \/ n = temp'[p] \/ files'[n] = files[n],
           temp[p] # None /\ temp'[p] # temp[p] => files'[temp[p]] = "absent",
           PublishedWhole'
    PROVE  IInv'
<1>1. \A q \in Procs : ProcInv(q)'
    BY OtherProcs
<1>2. \A q \in Procs \ {p} : temp'[q] = temp[q]
    BY DEF Aside
<1>3. OwnTemps'
    BY <1>2 DEF IInv, OwnTemps
<1>4. Orphans' \subseteq Orphans
    <2> SUFFICES ASSUME NEW n \in Temps, files'[n] # "absent", \A q \in Procs : temp'[q] # n
                 PROVE  files[n] # "absent" /\ \A q \in Procs : temp[q] # n
        BY DEF Orphans
    <2>1. n # None /\ n # temp[p] /\ n # temp'[p]
        BY Typed
    <2> QED
        BY <1>2, <2>1
<1>5. crashes' = crashes
    BY DEF faults
<1> QED
    BY <1>1, <1>3, <1>4, <1>5, NoNewOrphans DEF IInv

LEMMA OpenKeeps ==
    ASSUME IInv, NEW p \in Procs, Open(p)
    PROVE  IInv'
<1>1. CASE PutFailed(p) /\ UNCHANGED <<files, temp>>
    BY <1>1, QuietDisk, QuietScan, GotoKeeps
    DEF Open, PutFailed, launch, Places, Working, Handing, Putting, OwnImage
<1>2. ASSUME files' = Set(files, TempName, "partial"), temp' = Set(temp, p, TempName),
             Goto(p, "write"), UNCHANGED <<key, source, image>>
      PROVE  IInv'
    <2>1. at[p] = "open" /\ UNCHANGED <<lock, excuse, scan, faults>>
        BY DEF Open
    <2>2. temp[p] = None /\ key[p] \in Keys /\ image[p] = "whole" /\ excuse[p] = "made"
        BY <2>1 DEF IInv, ProcInv, Putting, Working, Handing, OwnImage
    <2>3. PICK n \in Temps : n = TempName /\ files[n] = "absent" /\ \A q \in Procs : temp[q] # n
        BY <2>2, FreshName
    <2>4. files' = [files EXCEPT ![n] = "partial"] /\ temp' = [temp EXCEPT ![p] = n]
          /\ at' = [at EXCEPT ![p] = "write"]
        BY <1>2, <2>3 DEF Set, Goto
    <2>5. /\ temp'[p] = n /\ at'[p] = "write" /\ Aside(p)
          /\ \A m \in Names : m # n => files'[m] = files[m]
        BY Typed, <1>2, <2>1, <2>4 DEF TypeOK, Aside
    <2>6. TypeOK'
        <3>1. files' \in [Names -> Bytes]
            BY Typed, <2>4 DEF TypeOK, Bytes
        <3>2. at' \in [Procs -> Places] /\ temp' \in [Procs -> Temps \cup {None}]
            BY Typed, <2>4 DEF TypeOK, Places, Working, Handing, Putting, OwnImage
        <3> QED
            BY Typed, <1>2, <2>1, <3>1, <3>2 DEF TypeOK, scan, faults
    <2>7. ProcInv(p)'
        BY Typed, <1>2, <2>1, <2>2, <2>5 DEF ProcInv, Working, Handing, Putting, OwnImage
    <2>8. \A q \in Procs \ {p} : at[q] = "rename" => files'[temp[q]] = files[temp[q]]
        <3> SUFFICES ASSUME NEW q \in Procs \ {p}, at[q] = "rename"
                     PROVE  temp[q] \in Names /\ temp[q] # n
            BY <2>5
        <3> QED
            BY Typed, PutHas, <2>3 DEF Putting
    <2>9. PublishedWhole'
        BY Typed, <2>1, <2>5 DEF IInv, PublishedWhole, faults
    <2> QED
        BY Typed, <2>1, <2>2, <2>3, <2>5, <2>6, <2>7, <2>8, <2>9, PutKeeps
<1> QED
    BY <1>1, <1>2 DEF Open

LEMMA WriteKeeps ==
    ASSUME IInv, NEW p \in Procs, Write(p)
    PROVE  IInv'
<1>1. at[p] = "write" /\ UNCHANGED <<lock, launch, scan, faults>>
    BY DEF Write
<1>2. CASE Goto(p, "clean") /\ UNCHANGED files
    BY <1>1, <1>2, QuietDisk, QuietScan, GotoKeeps DEF Places, Working, Handing, Putting, OwnImage
<1>3. ASSUME files' = IF files[temp[p]] = "absent" THEN files ELSE Set(files, temp[p], "whole"),
             Goto(p, "rename")
      PROVE  IInv'
    <2>1. /\ ProcInv(p) /\ temp[p] \in Temps /\ key[p] \in Keys /\ image[p] = "whole"
          /\ excuse[p] = "made"
        BY <1>1, PutHas DEF IInv, Putting
    <2>2. /\ at'[p] = "rename" /\ Aside(p) /\ UNCHANGED <<temp, key, image, excuse>>
          /\ files'[temp[p]] \in {"absent", "whole"}
          /\ \A m \in Names : m # temp[p] => files'[m] = files[m]
        BY Typed, <1>1, <1>3, <2>1 DEF TypeOK, Aside, Goto, Set, launch
    <2>3. TypeOK'
        <3>1. files' \in [Names -> Bytes] /\ at' \in [Procs -> Places]
            BY Typed, <1>3 DEF TypeOK, Goto, Set, Places, Working, Handing, Putting, OwnImage, Bytes
        <3> QED
            BY Typed, <1>1, <3>1 DEF TypeOK, launch, scan, faults
    <2>4. ProcInv(p)'
        BY Typed, <2>1, <2>2 DEF ProcInv, Working, Handing, Putting, OwnImage
    <2>5. \A q \in Procs \ {p} : temp[q] # temp[p]
        BY Typed, <2>1 DEF IInv, OwnTemps
    <2>6. \A q \in Procs \ {p} : at[q] = "rename" => files'[temp[q]] = files[temp[q]]
        <3> SUFFICES ASSUME NEW q \in Procs \ {p}, at[q] = "rename"
                     PROVE  temp[q] \in Names /\ temp[q] # temp[p]
            BY <2>2
        <3> QED
            BY Typed, PutHas, <2>5 DEF Putting
    <2>7. PublishedWhole'
        BY Typed, <1>1, <2>1, <2>2 DEF IInv, PublishedWhole, faults
    <2> QED
        BY Typed, <1>1, <2>1, <2>2, <2>3, <2>4, <2>5, <2>6, <2>7, PutKeeps
<1> QED
    BY <1>2, <1>3 DEF Write

\* Only a whole value is renamed into place.
LEMMA RenameKeeps ==
    ASSUME IInv, NEW p \in Procs, Rename(p)
    PROVE  IInv'
<1>1. at[p] = "rename" /\ UNCHANGED <<lock, key, source, image, excuse, left, found, stuck, total, faults>>
    BY DEF Rename
<1>2. CASE Goto(p, "clean") /\ UNCHANGED <<files, temp, fresh>>
    BY <1>1, <1>2, QuietDisk, QuietScan, GotoKeeps
    DEF launch, scan, Places, Working, Handing, Putting, OwnImage
<1>3. ASSUME files[temp[p]] # "absent",
             files' = [files EXCEPT ![key[p]] = files[temp[p]], ![temp[p]] = "absent"],
             fresh' = [q \in Procs |-> fresh[q] \cup IF lock = q THEN {key[p]} ELSE {}],
             temp' = Set(temp, p, None), NEW l \in {"evict", "load"}, Goto(p, l)
      PROVE  IInv'
    <2>1. /\ temp[p] \in Temps /\ key[p] \in Keys /\ image[p] = "whole"
          /\ excuse[p] = "made" /\ files[temp[p]] = "whole"
        BY <1>1, <1>3, PutHas DEF IInv, ProcInv, Putting
    <2>2. temp'[p] = None /\ at'[p] = l /\ Aside(p)
        BY Typed, <1>1, <1>3 DEF TypeOK, Aside, Goto, Set
    <2>3. /\ files'[temp[p]] = "absent" /\ files'[key[p]] = "whole"
          /\ \A m \in Names : m # temp[p] /\ m # key[p] => files'[m] = files[m]
        BY Typed, <1>3, <2>1 DEF TypeOK
    <2>4. TypeOK'
        <3>1. files' \in [Names -> Bytes]
            BY Typed, <1>3, <2>1 DEF TypeOK, Bytes
        <3>2. at' \in [Procs -> Places] /\ temp' \in [Procs -> Temps \cup {None}]
            BY Typed, <1>3 DEF TypeOK, Goto, Set, Places, Working, Handing, Putting, OwnImage
        <3>3. fresh' \in [Procs -> SUBSET Keys]
            BY Typed, <1>3, <2>1 DEF TypeOK
        <3> QED
            BY Typed, <1>1, <3>1, <3>2, <3>3 DEF TypeOK, faults
    <2>5. ProcInv(p)'
        BY Typed, <1>1, <2>1, <2>2 DEF ProcInv, Working, Handing, Putting, OwnImage
    <2>6. \A q \in Procs \ {p} : at[q] = "rename" => files'[temp[q]] = files[temp[q]]
        <3> SUFFICES ASSUME NEW q \in Procs \ {p}, at[q] = "rename"
                     PROVE  temp[q] \in Names /\ temp[q] # temp[p] /\ temp[q] # key[p]
            BY <2>3
        <3>1. temp[q] \in Temps
            BY Typed, PutHas DEF Putting
        <3> QED
            BY Typed, <2>1, <3>1 DEF IInv, OwnTemps
    <2>7. PublishedWhole'
        BY Typed, <1>1, <2>1, <2>3 DEF IInv, PublishedWhole, faults
    <2>8. \A n \in Temps : n = temp[p] \/ files'[n] = files[n]
        BY Typed, <2>1, <2>3
    <2> QED
        BY Typed, <1>1, <2>1, <2>2, <2>3, <2>4, <2>5, <2>6, <2>7, <2>8, PutKeeps
<1> QED
    BY <1>2, <1>3 DEF Rename

LEMMA CleanKeeps ==
    ASSUME IInv, NEW p \in Procs, Clean(p)
    PROVE  IInv'
<1>1. /\ at[p] = "clean" /\ UNCHANGED <<lock, key, source, image, excuse, scan, faults>>
      /\ files' = [files EXCEPT ![temp[p]] = "absent"] /\ temp' = [temp EXCEPT ![p] = None]
      /\ at' = [at EXCEPT ![p] = "load"]
    BY DEF Clean, Cleaned, PutFailed, Set, Goto
<1>2. temp[p] \in Temps /\ key[p] \in Keys /\ image[p] = "whole" /\ excuse[p] = "made"
    BY <1>1, PutHas DEF Putting
<1>3. temp'[p] = None /\ at'[p] = "load" /\ Aside(p)
    BY Typed, <1>1 DEF TypeOK, Aside
<1>4. /\ files'[temp[p]] = "absent"
      /\ \A m \in Names : m # temp[p] => files'[m] = files[m]
    BY Typed, <1>1, <1>2 DEF TypeOK
<1>5. TypeOK'
    BY Typed, <1>1 DEF TypeOK, scan, faults, Places, Working, Handing, Putting, OwnImage, Bytes
<1>6. ProcInv(p)'
    BY Typed, <1>1, <1>2, <1>3 DEF ProcInv, Working, Handing, Putting, OwnImage
<1>7. \A q \in Procs \ {p} : at[q] = "rename" => files'[temp[q]] = files[temp[q]]
    <2> SUFFICES ASSUME NEW q \in Procs \ {p}, at[q] = "rename"
                 PROVE  temp[q] \in Names /\ temp[q] # temp[p]
        BY <1>4
    <2>1. temp[q] \in Temps
        BY Typed, PutHas DEF Putting
    <2> QED
        BY Typed, <1>2, <2>1 DEF IInv, OwnTemps
<1>8. PublishedWhole'
    BY Typed, <1>1, <1>2, <1>4 DEF IInv, PublishedWhole, faults
<1> QED
    BY Typed, <1>1, <1>2, <1>3, <1>4, <1>5, <1>6, <1>7, <1>8, PutKeeps

-----------------------------------------------------------------------------
(* Crashes.                                                                   *)

\* A crash leaves at most one temporary file behind for each process.
LEMMA DieKeeps ==
    ASSUME IInv, NEW P \in SUBSET Procs, Die(P), files' \in [Names -> Bytes],
           \A n \in Temps : files'[n] = files[n], powered' \in BOOLEAN, PublishedWhole'
    PROVE  IInv'
<1>1. crashes < MaxCrashes /\ crashes' = crashes + 1 /\ crashes \in Nat /\ MaxCrashes \in Nat
    BY Typed, JitAssumption DEF Die, TypeOK
<1>2. crashes' \in Nat /\ crashes' <= MaxCrashes
    BY <1>1
<1>3. \A q \in Procs \ P : at'[q] = at[q] /\ key'[q] = key[q] /\ temp'[q] = temp[q]
                          /\ source'[q] = source[q] /\ image'[q] = image[q] /\ excuse'[q] = excuse[q]
    BY DEF Die
<1>4. \A q \in P : at'[q] = "idle" /\ temp'[q] = None
    BY DEF Die
<1>5. TypeOK'
    <2>1. at' \in [Procs -> Places] /\ key' \in [Procs -> Keys \cup {None}]
          /\ temp' \in [Procs -> Temps \cup {None}]
        BY Typed DEF Die, TypeOK, Places
    <2>2. source' \in [Procs -> {"tileiras", "disk"}] /\ image' \in [Procs -> Bytes]
        BY Typed DEF Die, TypeOK, Bytes
    <2>3. excuse' \in [Procs -> Excuses]
        BY Typed DEF Die, TypeOK, Excuses
    <2>4. ScanOK'
        BY Typed DEF Die, TypeOK, ScanOK
    <2> QED
        BY <1>2, <2>1, <2>2, <2>3, <2>4 DEF TypeOK, ScanOK
<1>6. ASSUME NEW q \in Procs
      PROVE  ProcInv(q)'
    <2>1. CASE q \in P
        BY <1>4, <2>1 DEF ProcInv, Working, Handing, Putting, OwnImage
    <2>2. CASE q \notin P
        <3>1. /\ at'[q] = at[q] /\ key'[q] = key[q] /\ temp'[q] = temp[q] /\ image'[q] = image[q]
              /\ source'[q] = source[q] /\ excuse'[q] = excuse[q] /\ ProcInv(q)
            BY <1>3, <2>2 DEF IInv
        <3>2. at[q] = "rename" => files'[temp[q]] = files[temp[q]]
            BY PutHas DEF Putting
        <3> QED
            BY <3>1, <3>2 DEF ProcInv
    <2> QED
        BY <2>1, <2>2
<1>7. OwnTemps'
    BY <1>3, <1>4 DEF IInv, OwnTemps
<1>8. FewOrphans'
    <2> DEFINE N == Cardinality(Procs)
    <2>1. Orphans' \subseteq Orphans \cup Owned(Procs)
        <3> SUFFICES ASSUME NEW n \in Temps, files'[n] # "absent", \A q \in Procs : temp'[q] # n,
                            n \notin Owned(Procs)
                     PROVE  files[n] # "absent" /\ \A q \in Procs : temp[q] # n
            BY DEF Orphans
        <3> QED
            BY DEF Owned
    <2>2. IsFiniteSet(Owned(Procs)) /\ Cardinality(Owned(Procs)) \in Nat
          /\ Cardinality(Owned(Procs)) <= N
        BY OwnedBound
    <2>3. Cardinality(Orphans') <= Cardinality(Orphans) + Cardinality(Owned(Procs))
        BY <2>1, <2>2, FiniteOrphans, UnionBound
    <2>4. IsFiniteSet(Orphans') /\ Cardinality(Orphans') \in Nat
        BY JitAssumption, FS_Subset, FS_CardinalityType DEF Orphans
    <2>5. Cardinality(Orphans) <= crashes * N
        BY DEF IInv, FewOrphans
    <2>6. crashes' * N = crashes * N + N /\ crashes * N \in Nat /\ N \in Nat
        BY <1>1, FiniteProcs
    <2> DEFINE a == crashes * N
               b == crashes' * N
    <2>7. b = a + N /\ a \in Nat /\ N \in Nat /\ Cardinality(Orphans) <= a
        BY <2>5, <2>6
    <2>8. Cardinality(Orphans') <= b
        <3> HIDE DEF N, a, b
        <3> QED
            BY <2>2, <2>3, <2>4, <2>7, FiniteOrphans
    <2> QED
        BY <2>8 DEF FewOrphans
<1> QED
    BY <1>2, <1>5, <1>6, <1>7, <1>8 DEF IInv

LEMMA CrashKeeps ==
    ASSUME IInv, NEW p \in Procs, Crash(p)
    PROVE  IInv'
<1>1. Die({p}) /\ UNCHANGED <<files, powered>>
    BY DEF Crash
<1>2. files' \in [Names -> Bytes] /\ powered' \in BOOLEAN
    BY Typed, <1>1 DEF TypeOK
<1>3. PublishedWhole'
    BY <1>1 DEF IInv, PublishedWhole
<1> QED
    BY <1>1, <1>2, <1>3, DieKeeps

LEMMA PowerLossKeeps ==
    ASSUME IInv, PowerLoss
    PROVE  IInv'
<1>1. Die(Procs) /\ powered' = FALSE
    BY DEF PowerLoss
<1>2. PICK T \in SUBSET (Present \cap Keys) :
          files' = [n \in Names |-> IF n \in T THEN "torn" ELSE files[n]]
    BY DEF PowerLoss
<1>3. files' \in [Names -> Bytes] /\ \A n \in Temps : files'[n] = files[n]
    BY Typed, <1>2 DEF TypeOK, Bytes
<1>4. powered' \in BOOLEAN /\ PublishedWhole'
    BY <1>1 DEF PublishedWhole
<1> QED
    BY <1>1, <1>3, <1>4, DieKeeps

LEMMA StutterKeeps ==
    ASSUME IInv, UNCHANGED vars
    PROVE  IInv'
<1>1. UNCHANGED <<files, lock, at, key, temp, source, image, excuse, left, found, stuck, total, fresh,
                  crashes, powered>>
    BY DEF vars, disk, launch, scan, faults
<1>2. TypeOK' /\ OwnTemps' /\ crashes' <= MaxCrashes /\ PublishedWhole'
    BY <1>1 DEF IInv, TypeOK, OwnTemps, PublishedWhole
<1>3. \A p \in Procs : ProcInv(p)'
    BY <1>1 DEF IInv, ProcInv
<1>4. Orphans' = Orphans
    BY <1>1 DEF Orphans
<1> QED
    BY <1>1, <1>2, <1>3, <1>4, NoNewOrphans DEF IInv

-----------------------------------------------------------------------------
(* The theorems.                                                              *)

LEMMA Start == Init => IInv
<1> SUFFICES ASSUME Init PROVE IInv
    OBVIOUS
<1> USE DEF Init
<1>1. TypeOK
    <2>1. files \in [Names -> Bytes] /\ at \in [Procs -> Places]
        BY DEF Bytes, Places
    <2>2. image \in [Procs -> Bytes]
        BY DEF Bytes
    <2> QED
        BY <2>1, <2>2 DEF TypeOK, Excuses
<1>2. \A p \in Procs : ProcInv(p)
    BY DEF ProcInv, Working, Handing, Putting, OwnImage
<1>3. OwnTemps /\ PublishedWhole
    BY JitAssumption DEF OwnTemps, PublishedWhole, Names
<1>4. Orphans = {}
    BY JitAssumption DEF Orphans, Names
<1>5. FewOrphans /\ crashes <= MaxCrashes
    <2>1. Cardinality(Orphans) = 0
        BY <1>4, FS_EmptySet
    <2>2. crashes = 0 /\ MaxCrashes \in Nat
        BY JitAssumption
    <2> HIDE DEF Init
    <2> QED
        BY <2>1, <2>2, FiniteProcs DEF FewOrphans
<1> QED
    BY <1>1, <1>2, <1>3, <1>5 DEF IInv

LEMMA NextKeeps ==
    ASSUME IInv, [Next]_vars
    PROVE  IInv'
<1>1. ASSUME NEW p \in Procs, NEW k \in Requests[p], Begin(p, k)
      PROVE  IInv'
    BY <1>1, BeginKeeps
<1>2. ASSUME NEW p \in Procs, Step(p)
      PROVE  IInv'
    <2>1. CASE Put(p)
        BY <2>1, OpenKeeps, WriteKeeps, RenameKeeps, CleanKeeps DEF Put
    <2>2. CASE Evict(p)
        BY <2>2, TryLockKeeps, GiveUpKeeps, VisitKeeps, ScannedKeeps, CullKeeps, EvictedKeeps DEF Evict
    <2> QED
        BY <1>2, <2>1, <2>2, ReadKeeps, DeleteKeeps, CompileKeeps, LoadKeeps, LoadFunctionKeeps,
           RejectKeeps, ReturnKeeps, ClearKeeps DEF Step
<1>3. ASSUME NEW p \in Procs, Clear(p) \/ ClearName(p) \/ Crash(p)
      PROVE  IInv'
    BY <1>3, ClearKeeps, ClearNameKeeps, CrashKeeps
<1> QED
    BY <1>1, <1>2, <1>3, PowerLossKeeps, StutterKeeps DEF Next

LEMMA Invariance == Spec => []IInv
BY Start, NextKeeps, PTL DEF Spec

\* Every variable of the disk cache keeps its type.
THEOREM TypeCorrect == Spec => []TypeOK
<1>1. IInv => TypeOK
    BY DEF IInv
<1> QED
    BY <1>1, Invariance, PTL

\* For any processes that put, evict, clear and die, an entry of the store is
\* absent or whole as long as no power loss tore it: put's rename never
\* publishes a file that is not completely written.
THEOREM EntriesAreWhole == Spec => []PublishedWhole
<1>1. IInv => PublishedWhole
    BY DEF IInv
<1> QED
    BY <1>1, Invariance, PTL

\* Whatever a crash or a power loss left in the store, the driver is handed only
\* whole images: decode_entry keeps torn ones from it.
THEOREM DriverGetsWholeImages == Spec => []LoadsWhole
<1>1. IInv => LoadsWhole
    BY DEF IInv, ProcInv, Handing, LoadsWhole
<1> QED
    BY <1>1, Invariance, PTL

\* No failure of the store fails a launch: one that fails has seen tileiras
\* fail, or the driver refuse what tileiras had made in this launch, or the
\* driver take a stored module and not find the function in it, which
\* compile_and_load_kernel does not recover from.
THEOREM StoreFailsNoLaunch == Spec => []NeverFailsLaunch
<1>1. IInv => NeverFailsLaunch
    BY DEF IInv, ProcInv, NeverFailsLaunch
<1> QED
    BY <1>1, Invariance, PTL

\* As long as no process died, every temporary file in the store is one that a
\* put under way will rename or remove.
THEOREM OnlyCrashesLeaveTemps == Spec => []TempsOwned
<1>1. IInv => TempsOwned
    <2> SUFFICES ASSUME IInv, crashes = 0
                 PROVE  Orphans = {}
        BY DEF TempsOwned, Orphans
    <2>1. Cardinality(Orphans) <= 0
        BY FiniteProcs DEF IInv, FewOrphans
    <2> QED
        BY <2>1, FiniteOrphans, FS_EmptySet
<1> QED
    BY <1>1, Invariance, PTL

-----------------------------------------------------------------------------
(* What an eviction counts.                                                   *)

\* The sum over a finite set.  MapThenSumSet is a recursive function, and the
\* library's induction rules cannot be instantiated; so the sum is compared with
\* the cardinality of a set that has Size[k] members for each k.
Pick(s) == CHOOSE x \in s : TRUE
Sums(S, g) == g = [s \in SUBSET S |-> IF s = {} THEN 0 ELSE Size[Pick(s)] + g[s \ {Pick(s)}]]

\* SizeOf is what a function that satisfies its recursion equation yields ...
LEMMA Unfold ==
    ASSUME NEW S
    PROVE  SizeOf(S) = (CHOOSE g : Sums(S, g))[S]
BY DEF SizeOf, MapThenSumSet, MapThenFoldSet, Sums, Pick

\* The bytes of the entries of S, told apart.
Units(S) == {u \in S \X Nat : u[2] \in 1..Size[u[1]]}

LEMMA OneEntry ==
    ASSUME NEW k \in Keys
    PROVE  IsFiniteSet(Units({k})) /\ Cardinality(Units({k})) = Size[k]
<1>1. Size[k] \in Nat
    BY JitAssumption
<1> DEFINE f == [i \in 1..Size[k] |-> <<k, i>>]
<1>2. f \in [1..Size[k] -> Units({k})]
    BY <1>1 DEF Units
<1>3. f \in Surjection(1..Size[k], Units({k}))
    BY <1>1, <1>2 DEF Units, Surjection
<1>4. f \in Injection(1..Size[k], Units({k}))
    BY <1>1, <1>2 DEF Injection, IsInjective
<1>5. IsFiniteSet(1..Size[k]) /\ Cardinality(1..Size[k]) = Size[k]
    BY <1>1, FS_Interval
<1> HIDE DEF f
<1> QED
    BY <1>3, <1>4, <1>5, FS_Surjection

LEMMA FiniteUnits ==
    ASSUME NEW S \in SUBSET Keys, IsFiniteSet(S)
    PROVE  IsFiniteSet(Units(S)) /\ Cardinality(Units(S)) \in Nat
<1> DEFINE f == [k \in S |-> Units({k})]
           R == {Units({k}) : k \in S}
<1>1. f \in Surjection(S, R)
    BY DEF Surjection
<1>2. IsFiniteSet(R)
    <2> HIDE DEF f, R
    <2> QED
        BY <1>1, FS_Surjection
<1>3. \A T \in R : IsFiniteSet(T)
    BY OneEntry
<1>4. IsFiniteSet(UNION R)
    <2> HIDE DEF R
    <2> QED
        BY <1>2, <1>3, FS_UNION
<1>5. Units(S) \subseteq UNION R
    BY DEF Units
<1>6. IsFiniteSet(Units(S))
    <2> HIDE DEF R
    <2> QED
        BY <1>4, <1>5, FS_Subset
<1> QED
    BY <1>6, FS_CardinalityType

LEMMA AddUnits ==
    ASSUME NEW S \in SUBSET Keys, IsFiniteSet(S), NEW k \in Keys \ S
    PROVE  Cardinality(Units(S \cup {k})) = Size[k] + Cardinality(Units(S))
<1>1. Units(S \cup {k}) = Units(S) \cup Units({k})
    BY DEF Units
<1>2. Units(S) \cap Units({k}) = {}
    BY DEF Units
<1>3. /\ IsFiniteSet(Units(S)) /\ Cardinality(Units(S)) \in Nat
      /\ IsFiniteSet(Units({k})) /\ Cardinality(Units({k})) = Size[k] /\ Size[k] \in Nat
    BY JitAssumption, OneEntry, FiniteUnits
<1>4. Cardinality(Units(S) \cup Units({k}))
        = Cardinality(Units(S)) + Cardinality(Units({k})) - Cardinality(Units(S) \cap Units({k}))
    BY <1>3, FS_Union
<1>5. Cardinality(Units(S) \cap Units({k})) = 0
    BY <1>2, FS_EmptySet
<1> DEFINE a == Cardinality(Units(S))
           n == Size[k]
<1>6. Cardinality(Units(S \cup {k})) = a + n - 0 /\ a \in Nat /\ n \in Nat
    BY <1>1, <1>3, <1>4, <1>5
<1>7. a + n - 0 = n + a
    <2> HIDE DEF a, n
    <2> QED
        BY <1>6
<1> QED
    BY <1>6, <1>7

\* ... there is such a function ...
LEMMA SumsExist ==
    ASSUME NEW S \in SUBSET Keys, IsFiniteSet(S)
    PROVE  \E g : Sums(S, g)
<1> DEFINE g == [s \in SUBSET S |-> Cardinality(Units(s))]
<1>1. ASSUME NEW s \in SUBSET S
      PROVE  g[s] = IF s = {} THEN 0 ELSE Size[Pick(s)] + g[s \ {Pick(s)}]
    <2>1. CASE s = {}
        <3>1. Units(s) = {}
            BY <2>1 DEF Units
        <3> QED
            BY <2>1, <3>1, FS_EmptySet
    <2>2. CASE s # {}
        <3>1. Pick(s) \in s
            BY <2>2 DEF Pick
        <3> DEFINE x == Pick(s)
                   r == s \ {x}
        <3>2. x \in Keys \ r /\ r \in SUBSET Keys /\ s = r \cup {x}
            BY <3>1
        <3>3. IsFiniteSet(r)
            BY FS_Subset
        <3>4. Cardinality(Units(r \cup {x})) = Size[x] + Cardinality(Units(r))
            <4> HIDE DEF x, r
            <4> QED
                BY <3>2, <3>3, AddUnits
        <3>5. g[r] = Cardinality(Units(r)) /\ g[s] = Cardinality(Units(s))
            OBVIOUS
        <3> QED
            BY <2>2, <3>2, <3>4, <3>5
    <2> QED
        BY <2>1, <2>2
<1>2. Sums(S, g)
    <2>1. g = [s \in SUBSET S |-> g[s]]
        OBVIOUS
    <2> HIDE DEF g
    <2> QED
        BY <1>1, <2>1 DEF Sums
<1> QED
    BY <1>2

\* ... and on a smallest set where it differed from the count it would not.
LEMMA SumIs ==
    ASSUME NEW S \in SUBSET Keys, IsFiniteSet(S)
    PROVE  SizeOf(S) = Cardinality(Units(S))
<1> DEFINE g == CHOOSE h : Sums(S, h)
<1>1. Sums(S, g)
    BY SumsExist
<1> HIDE DEF g
<1>2. \A s \in SUBSET S : g[s] = IF s = {} THEN 0 ELSE Size[Pick(s)] + g[s \ {Pick(s)}]
    BY <1>1 DEF Sums
<1> DEFINE Bad == {s \in SUBSET S : g[s] # Cardinality(Units(s))}
<1>3. Bad = {}
    <2> SUFFICES ASSUME Bad # {}
                 PROVE  FALSE
        OBVIOUS
    <2>1. IsWellFoundedOn(StrictSubsetOrdering(S), SUBSET S)
        BY FS_StrictSubsetOrderingWellFounded, FS_FiniteSubsetsOfFinite
    <2>2. Bad \subseteq SUBSET S
        OBVIOUS
    <2>3. PICK s \in Bad : \A t \in Bad : ~(<<t, s>> \in StrictSubsetOrdering(S))
        <3> HIDE DEF Bad
        <3> QED
            BY <2>1, <2>2, WFMin
    <2>4. s # {}
        <3> SUFFICES ASSUME s = {}
                     PROVE  FALSE
            OBVIOUS
        <3>1. Units(s) = {}
            BY DEF Units
        <3> QED
            BY <1>2, <2>3, <3>1, FS_EmptySet
    <2> DEFINE x == Pick(s)
               r == s \ {x}
    <2>5. x \in s
        BY <2>4 DEF Pick
    <2>6. x \in Keys \ r /\ r \in SUBSET Keys /\ s = r \cup {x} /\ r \in SUBSET S
        BY <2>3, <2>5
    <2>7. <<r, s>> \in StrictSubsetOrdering(S)
        BY <2>3, <2>5 DEF StrictSubsetOrdering
    <2>8. g[r] = Cardinality(Units(r))
        BY <2>3, <2>6, <2>7
    <2>9. Cardinality(Units(r \cup {x})) = Size[x] + Cardinality(Units(r))
        <3>1. IsFiniteSet(r)
            BY <2>6, FS_Subset
        <3> HIDE DEF x, r
        <3> QED
            BY <2>6, <3>1, AddUnits
    <2> QED
        BY <1>2, <2>3, <2>4, <2>6, <2>8, <2>9
<1>4. SizeOf(S) = g[S]
    BY Unfold DEF g
<1> QED
    BY <1>3, <1>4

LEMMA SizeEmpty == SizeOf({}) = 0
<1>1. Units({}) = {}
    BY DEF Units
<1> QED
    BY <1>1, SumIs, FS_EmptySet

LEMMA SizeAdd ==
    ASSUME NEW S \in SUBSET Keys, IsFiniteSet(S), NEW k \in Keys \ S
    PROVE  SizeOf(S \cup {k}) = Size[k] + SizeOf(S) /\ SizeOf(S) \in Nat /\ Size[k] \in Nat
<1>1. IsFiniteSet(S \cup {k})
    BY FS_AddElement
<1> QED
    BY <1>1, SumIs, AddUnits, FiniteUnits, JitAssumption

LEMMA SizeGrows ==
    ASSUME NEW S \in SUBSET Keys, IsFiniteSet(S), NEW T \in SUBSET S
    PROVE  SizeOf(T) <= SizeOf(S) /\ SizeOf(T) \in Nat /\ SizeOf(S) \in Nat
<1>1. IsFiniteSet(T) /\ T \in SUBSET Keys
    BY FS_Subset
<1>2. Units(T) \subseteq Units(S)
    BY DEF Units
<1>3. Cardinality(Units(T)) <= Cardinality(Units(S))
    BY <1>2, FiniteUnits, FS_Subset
<1> QED
    BY <1>1, <1>3, SumIs, FiniteUnits

\* Entries there were when p's scan began.
Old(p) == (Present \cap Keys) \ fresh[p]

\* The process that holds the lock collects.  What is old it has yet to visit,
\* has found or could not delete, and its total counts at least what it found
\* and has not deleted.
CollectInv(p) ==
    /\ at[p] \in {"scan", "cull"} <=> lock = p
    /\ lock # p => found[p] = {} /\ stuck[p] = {} /\ total[p] = 0 /\ fresh[p] = {}
    /\ at[p] = "scan" => stuck[p] = {} /\ Old(p) \subseteq left[p] \cup found[p]
    /\ at[p] = "cull" => Old(p) \subseteq found[p] \cup stuck[p]
    /\ found[p] \cap stuck[p] = {}
    /\ IsFiniteSet(found[p]) /\ IsFiniteSet(stuck[p])
    /\ SizeOf(found[p] \cup stuck[p]) <= total[p]

CollectOK == \A p \in Procs : CollectInv(p)

\* A process that neither begins nor ends nor goes on collecting.
LEMMA SameCollector ==
    ASSUME NEW p \in Procs, CollectInv(p),
           left'[p] = left[p], found'[p] = found[p], stuck'[p] = stuck[p], total'[p] = total[p],
           lock # p => fresh'[p] = fresh[p], lock = p => Old(p)' \subseteq Old(p),
           (lock' = p) <=> (lock = p),
           at'[p] = at[p] \/ (at[p] \notin {"scan", "cull"} /\ at'[p] \notin {"scan", "cull"})
    PROVE  CollectInv(p)'
BY DEF CollectInv

LEMMA OldShrinks ==
    ASSUME NEW p, \A k \in Keys : files'[k] \in {files[k], "absent"}, fresh[p] \subseteq fresh'[p]
    PROVE  Old(p)' \subseteq Old(p)
BY DEF Old, Present, Names

\* p's place alone changes, and at most names go.
LEMMA QuietCollect ==
    ASSUME CollectOK, NEW p \in Procs, UNCHANGED <<lock, scan>>,
           \A k \in Keys : files'[k] \in {files[k], "absent"},
           \A q \in Procs \ {p} : at'[q] = at[q],
           at'[p] = at[p] \/ (at[p] \notin {"scan", "cull"} /\ at'[p] \notin {"scan", "cull"})
    PROVE  CollectOK'
<1> SUFFICES ASSUME NEW q \in Procs
             PROVE  CollectInv(q)'
    BY DEF CollectOK
<1>1. CollectInv(q) /\ Old(q)' \subseteq Old(q)
    BY OldShrinks DEF CollectOK, scan
<1>2. at'[q] = at[q] \/ (at[q] \notin {"scan", "cull"} /\ at'[q] \notin {"scan", "cull"})
    OBVIOUS
<1> QED
    BY <1>1, <1>2, SameCollector DEF scan

LEMMA UnlinkedKeys ==
    ASSUME IInv, NEW n \in Names, Unlink(n)
    PROVE  \A k \in Keys : files'[k] \in {files[k], "absent"}
BY Typed, UnlinkShrinks DEF Shrunk

LEMMA LaunchCollects ==
    ASSUME IInv, CollectOK, NEW p \in Procs,
           \/ \E k \in Requests[p] : Begin(p, k)
           \/ Return(p) \/ Read(p) \/ Delete(p) \/ Compile(p) \/ Load(p) \/ LoadFunction(p) \/ Reject(p)
           \/ WouldBlock(p) \/ LockFails(p) \/ Clear(p) \/ ClearName(p) \/ Cleared(p)
    PROVE  CollectOK'
<1>1. PICK l \in Places : /\ at' = [at EXCEPT ![p] = l]
                          /\ l \notin {"scan", "cull"} /\ at[p] \notin {"scan", "cull"}
    <2>1. CASE \E k \in Requests[p] : Begin(p, k)
        BY <2>1 DEF Begin, Goto, Places, Working
    <2>2. CASE Read(p) \/ Delete(p) \/ Reject(p)
        BY <2>2 DEF Read, Delete, Reject, Recovery, Goto, Places, Working, Handing
    <2>3. CASE Compile(p)
        BY <2>3 DEF Compile, Finish, Goto, Places, Working, Handing
    <2>4. CASE Load(p) \/ LoadFunction(p)
        BY <2>4 DEF Load, LoadFunction, Finish, Goto, Places, Working, Handing
    <2>5. CASE Return(p) \/ WouldBlock(p) \/ LockFails(p) \/ Clear(p) \/ Cleared(p)
        BY <2>5 DEF Return, WouldBlock, LockFails, Clear, Cleared, Goto, Places, Working, Handing
    <2>6. CASE ClearName(p)
        <3>1. at' = [at EXCEPT ![p] = "clear"] /\ at[p] = "clear"
            BY Typed, <2>6 DEF ClearName, TypeOK
        <3> QED
            BY <3>1 DEF Places
    <2> QED
        BY <2>1, <2>2, <2>3, <2>4, <2>5, <2>6
<1>2. UNCHANGED <<lock, scan>>
    BY DEF Begin, Return, Read, Delete, Compile, Load, LoadFunction, Reject, WouldBlock, LockFails, Clear,
           ClearName, Cleared, disk
<1>3. \A k \in Keys : files'[k] \in {files[k], "absent"}
    <2>1. CASE Delete(p) \/ Reject(p)
        <3>1. key[p] \in Names
            BY Typed, <2>1 DEF Delete, Reject, IInv, ProcInv, Working
        <3> QED
            BY <2>1, <3>1, UnlinkedKeys DEF Delete, Reject
    <2>2. CASE ClearName(p)
        <3>1. PICK n \in Names : files' = Set(files, n, "absent")
            BY <2>2 DEF ClearName, Present
        <3> QED
            BY <3>1, UnlinkedKeys DEF Unlink
    <2>3. CASE files' = files
        BY <2>3
    <2> QED
        BY <2>1, <2>2, <2>3 DEF Begin, Return, Read, Compile, Load, LoadFunction, WouldBlock, LockFails,
                                Clear, Cleared, disk
<1>4. at'[p] = l /\ \A q \in Procs \ {p} : at'[q] = at[q]
    BY Typed, <1>1 DEF TypeOK
<1> QED
    BY <1>1, <1>2, <1>3, <1>4, QuietCollect

LEMMA RenameCollects ==
    ASSUME IInv, CollectOK, NEW p \in Procs, Rename(p), files[temp[p]] # "absent",
           files' = [files EXCEPT ![key[p]] = files[temp[p]], ![temp[p]] = "absent"],
           fresh' = [q \in Procs |-> fresh[q] \cup IF lock = q THEN {key[p]} ELSE {}],
           NEW l \in {"evict", "load"}, Goto(p, l)
    PROVE  CollectOK'
<1> SUFFICES ASSUME NEW q \in Procs
             PROVE  CollectInv(q)'
    BY DEF CollectOK
<1>1. at[p] = "rename" /\ UNCHANGED <<lock, left, found, stuck, total>>
    BY DEF Rename
<1>2. CollectInv(q) /\ temp[p] \in Temps /\ key[p] \in Keys
    BY <1>1, PutHas DEF CollectOK, Putting
<1>3. at'[q] = at[q] \/ (at[q] \notin {"scan", "cull"} /\ at'[q] \notin {"scan", "cull"})
    BY Typed, <1>1 DEF TypeOK, Goto
<1>4. lock # q => fresh'[q] = fresh[q]
    OBVIOUS
<1>5. ASSUME lock = q
      PROVE  Old(q)' \subseteq Old(q)
    <2>1. \A k \in Keys : k # key[p] => files'[k] = files[k]
        BY Typed, <1>2 DEF TypeOK
    <2>2. fresh'[q] = fresh[q] \cup {key[p]}
        BY <1>5
    <2> QED
        BY <2>1, <2>2 DEF Old, Present
<1> QED
    BY <1>1, <1>2, <1>3, <1>4, <1>5, SameCollector

LEMMA PutCollects ==
    ASSUME IInv, CollectOK, NEW p \in Procs, Put(p)
    PROVE  CollectOK'
<1>1. PICK l \in Places : /\ at' = [at EXCEPT ![p] = l]
                          /\ l \notin {"scan", "cull"} /\ at[p] \notin {"scan", "cull"}
    BY DEF Put, Open, Write, Rename, Clean, PutFailed, Goto, Places, Working, Handing, Putting, OwnImage
<1>2. at'[p] = l /\ \A q \in Procs \ {p} : at'[q] = at[q]
    BY Typed, <1>1 DEF TypeOK
<1>3. ASSUME UNCHANGED <<lock, scan>>, \A k \in Keys : files'[k] = files[k]
      PROVE  CollectOK'
    BY <1>1, <1>2, <1>3, QuietCollect
<1>4. CASE Open(p)
    <2>1. UNCHANGED <<lock, scan>> /\ temp[p] = None
        BY <1>4 DEF Open, IInv, ProcInv, Putting
    <2>2. PICK n \in Temps : n = TempName
        BY <2>1, FreshName
    <2>3. files' = files \/ files' = [files EXCEPT ![n] = "partial"]
        BY <1>4, <2>2 DEF Open, Set
    <2>4. \A k \in Keys : files'[k] = files[k]
        BY Typed, <2>3 DEF TypeOK
    <2> QED
        BY <1>3, <2>1, <2>4
<1>5. CASE Write(p)
    <2>1. UNCHANGED <<lock, scan>> /\ temp[p] \in Temps
        BY <1>5, PutHas DEF Write, Putting
    <2>2. files' = files \/ files' = [files EXCEPT ![temp[p]] = "whole"]
        BY <1>5 DEF Write, Set
    <2>3. \A k \in Keys : files'[k] = files[k]
        BY Typed, <2>1, <2>2 DEF TypeOK
    <2> QED
        BY <1>3, <2>1, <2>3
<1>6. CASE Rename(p)
    <2>1. CASE UNCHANGED <<files, fresh>>
        <3>1. UNCHANGED <<lock, scan>>
            BY <1>6, <2>1 DEF Rename, scan
        <3> QED
            BY <1>3, <2>1, <3>1
    <2> QED
        BY <1>6, <2>1, RenameCollects DEF Rename
<1>7. CASE Clean(p)
    <2>1. UNCHANGED <<lock, scan>> /\ temp[p] \in Temps
        BY <1>7, PutHas DEF Clean, Putting
    <2>2. files' = [files EXCEPT ![temp[p]] = "absent"]
        BY <1>7 DEF Clean, Cleaned, Set
    <2>3. \A k \in Keys : files'[k] = files[k]
        BY Typed, <2>1, <2>2 DEF TypeOK
    <2> QED
        BY <1>3, <2>1, <2>3
<1> QED
    BY <1>4, <1>5, <1>6, <1>7 DEF Put

\* The collecting process p changes only what is its own, and no entry appears.
LEMMA OtherCollectors ==
    ASSUME IInv, CollectOK, NEW p \in Procs, lock \in {p, None}, lock' \in {p, None},
           \A k \in Keys : files'[k] \in {files[k], "absent"},
           \A q \in Procs \ {p} : /\ at'[q] = at[q] /\ left'[q] = left[q] /\ found'[q] = found[q]
                                  /\ stuck'[q] = stuck[q] /\ total'[q] = total[q] /\ fresh'[q] = fresh[q]
    PROVE  \A q \in Procs \ {p} : CollectInv(q)'
<1> SUFFICES ASSUME NEW q \in Procs \ {p}
             PROVE  CollectInv(q)'
    OBVIOUS
<1>1. CollectInv(q) /\ lock # q /\ lock' # q
    BY Typed DEF CollectOK
<1> QED
    BY <1>1, SameCollector

LEMMA TryLockCollects ==
    ASSUME IInv, CollectOK, NEW p \in Procs, TryLock(p)
    PROVE  CollectOK'
<1>1. /\ lock = None /\ lock' = p /\ UNCHANGED <<files, found, stuck, total, fresh>>
      /\ left' = [left EXCEPT ![p] = Present] /\ at' = [at EXCEPT ![p] = "scan"]
    BY DEF TryLock, Set, Goto
<1>2. /\ left'[p] = Present /\ at'[p] = "scan"
      /\ \A q \in Procs \ {p} : at'[q] = at[q] /\ left'[q] = left[q]
    BY Typed, <1>1 DEF TypeOK
<1>3. CollectInv(p) /\ lock # p
    BY Typed, <1>1 DEF CollectOK
<1>4. Old(p)' \subseteq left'[p]
    BY <1>1, <1>2 DEF Old, Present
<1>5. CollectInv(p)'
    BY <1>1, <1>2, <1>3, <1>4 DEF CollectInv
<1>6. \A q \in Procs \ {p} : CollectInv(q)'
    BY <1>1, <1>2, OtherCollectors
<1> QED
    BY <1>5, <1>6 DEF CollectOK

LEMMA VisitCollects ==
    ASSUME IInv, CollectOK, NEW p \in Procs, Visit(p)
    PROVE  CollectOK'
<1>1. at[p] = "scan" /\ UNCHANGED <<lock, at, stuck, fresh>>
    BY DEF Visit
<1>2. PICK n \in left[p] \cup (fresh[p] \ found[p]) :
          /\ left' = Set(left, p, left[p] \ {n})
          /\ \/ n \in Temps /\ Unlink(n) /\ UNCHANGED <<found, total>>
             \/ /\ n \in Keys
                /\ files[n] # "absent"
                /\ found' = Set(found, p, found[p] \cup {n})
                /\ total' = Set(total, p, total[p] + Size[n])
                /\ UNCHANGED files
             \/ n \in Keys /\ files[n] = "absent" /\ UNCHANGED <<files, found, total>>
    BY DEF Visit
<1>3. CollectInv(p) /\ lock = p /\ stuck[p] = {} /\ Old(p) \subseteq left[p] \cup found[p]
    BY <1>1 DEF CollectOK, CollectInv
<1>4. \A k \in Keys : files'[k] \in {files[k], "absent"}
    BY Typed, <1>2, UnlinkedKeys
<1>5. Old(p)' \subseteq Old(p)
    BY <1>1, <1>4, OldShrinks
<1>6. /\ left'[p] = left[p] \ {n}
      /\ \A q \in Procs \ {p} : left'[q] = left[q] /\ found'[q] = found[q] /\ total'[q] = total[q]
    BY Typed, <1>2 DEF TypeOK, Set
<1>7. ASSUME n \in Temps \/ files[n] = "absent", found' = found, total' = total
      PROVE  CollectInv(p)'
    <2>1. n \notin Old(p)
        BY JitAssumption, <1>7 DEF Old, Present
    <2>2. Old(p)' \subseteq left'[p] \cup found'[p]
        BY <1>3, <1>5, <1>6, <1>7, <2>1
    <2> QED
        BY <1>1, <1>3, <1>7, <2>2 DEF CollectInv
<1>8. ASSUME n \in Keys, found' = Set(found, p, found[p] \cup {n}),
             total' = Set(total, p, total[p] + Size[n])
      PROVE  CollectInv(p)'
    <2>1. found'[p] = found[p] \cup {n} /\ total'[p] = total[p] + Size[n]
        BY Typed, <1>8 DEF TypeOK, Set
    <2>2. found[p] \in SUBSET Keys /\ IsFiniteSet(found[p]) /\ total[p] \in Int /\ Size[n] \in Nat
          /\ SizeOf(found[p]) <= total[p]
        <3>1. found[p] \cup stuck[p] = found[p]
            BY <1>3
        <3> QED
            BY Typed, <1>3, <1>8, <3>1, JitAssumption DEF TypeOK, CollectInv
    <2>3. SizeOf(found[p] \cup {n}) <= total[p] + Size[n]
        <3>1. CASE n \in found[p]
            <4>1. found[p] \cup {n} = found[p] /\ SizeOf(found[p]) \in Nat
                BY <2>2, <3>1, SizeGrows
            <4> QED
                BY <2>2, <4>1
        <3>2. CASE n \notin found[p]
            <4>1. SizeOf(found[p] \cup {n}) = Size[n] + SizeOf(found[p]) /\ SizeOf(found[p]) \in Nat
                BY <1>8, <2>2, <3>2, SizeAdd
            <4> QED
                BY <2>2, <4>1
        <3> QED
            BY <3>1, <3>2
    <2>4. IsFiniteSet(found'[p])
        BY <2>1, <2>2, FS_AddElement
    <2>5. found'[p] \cup stuck'[p] = found[p] \cup {n} /\ stuck'[p] = {}
        BY <1>1, <1>3, <2>1
    <2>6. SizeOf(found'[p] \cup stuck'[p]) <= total'[p]
        BY <2>1, <2>3, <2>5
    <2>7. Old(p)' \subseteq left'[p] \cup found'[p]
        BY <1>3, <1>5, <1>6, <2>1
    <2> QED
        BY <1>1, <1>3, <2>4, <2>5, <2>6, <2>7, FS_EmptySet DEF CollectInv
<1>9. CollectInv(p)'
    BY <1>2, <1>7, <1>8
<1>10. \A q \in Procs \ {p} : CollectInv(q)'
    BY <1>1, <1>3, <1>4, <1>6, OtherCollectors
<1> QED
    BY <1>9, <1>10 DEF CollectOK

\* Whoever is done collecting, or dead, has nothing counted.
LEMMA Uncounted ==
    ASSUME NEW p \in Procs, at'[p] \notin {"scan", "cull"}, lock' # p, found'[p] = {}, stuck'[p] = {},
           total'[p] = 0, fresh'[p] = {}
    PROVE  CollectInv(p)'
<1>1. found'[p] \cup stuck'[p] = {}
    OBVIOUS
<1>2. SizeOf(found'[p] \cup stuck'[p]) <= total'[p]
    BY <1>1, SizeEmpty
<1> QED
    BY <1>2, FS_EmptySet DEF CollectInv

LEMMA OverCollects ==
    ASSUME IInv, CollectOK, NEW p \in Procs, at[p] \in {"scan", "cull"}, EvictionOver(p),
           UNCHANGED <<files, left>>
    PROVE  CollectOK'
<1>1. lock = p /\ lock' = None
    BY DEF EvictionOver, CollectOK, CollectInv
<1>2. /\ at'[p] = "load" /\ found'[p] = {} /\ stuck'[p] = {} /\ total'[p] = 0 /\ fresh'[p] = {}
      /\ \A q \in Procs \ {p} : /\ at'[q] = at[q] /\ found'[q] = found[q] /\ stuck'[q] = stuck[q]
                                /\ total'[q] = total[q] /\ fresh'[q] = fresh[q]
    BY Typed DEF EvictionOver, Set, Goto, TypeOK
<1>3. CollectInv(p)'
    BY Typed, <1>1, <1>2, Uncounted
<1>4. \A q \in Procs \ {p} : CollectInv(q)'
    BY <1>1, <1>2, OtherCollectors
<1> QED
    BY <1>3, <1>4 DEF CollectOK

LEMMA ScannedCollects ==
    ASSUME IInv, CollectOK, NEW p \in Procs, Scanned(p)
    PROVE  CollectOK'
<1>1. CASE EvictionOver(p)
    BY <1>1, OverCollects DEF Scanned
<1>2. CASE Goto(p, "cull") /\ UNCHANGED <<lock, found, stuck, total, fresh>>
    <2>1. /\ at[p] = "scan" /\ left[p] = {} /\ UNCHANGED <<files, left>>
          /\ at'[p] = "cull" /\ \A q \in Procs \ {p} : at'[q] = at[q]
        BY Typed, <1>2 DEF Scanned, Goto, TypeOK
    <2>2. CollectInv(p) /\ lock = p
        BY <2>1 DEF CollectOK, CollectInv
    <2>3. Old(p)' = Old(p)
        BY <1>2, <2>1 DEF Old, Present
    <2>4. CollectInv(p)'
        BY <1>2, <2>1, <2>2, <2>3 DEF CollectInv
    <2>5. \A q \in Procs \ {p} : CollectInv(q)'
        BY <1>2, <2>1, <2>2, OtherCollectors
    <2> QED
        BY <2>4, <2>5 DEF CollectOK
<1> QED
    BY <1>1, <1>2 DEF Scanned

LEMMA CullCollects ==
    ASSUME IInv, CollectOK, NEW p \in Procs, Cull(p)
    PROVE  CollectOK'
<1>1. at[p] = "cull" /\ UNCHANGED <<lock, at, left, fresh>>
    BY DEF Cull
<1>2. PICK k \in found[p], gone \in BOOLEAN :
          /\ files' = IF gone THEN Set(files, k, "absent") ELSE files
          /\ total' = Set(total, p, Counted(p, k, gone))
          /\ found' = Set(found, p, found[p] \ {k})
          /\ stuck' = Set(stuck, p, stuck[p] \cup IF gone THEN {} ELSE {k})
    BY DEF Cull
<1> DEFINE all == found[p] \cup stuck[p]
<1>3. CollectInv(p) /\ lock = p /\ Old(p) \subseteq all /\ found[p] \cap stuck[p] = {}
      /\ SizeOf(all) <= total[p] /\ IsFiniteSet(found[p]) /\ IsFiniteSet(stuck[p])
    BY <1>1 DEF CollectOK, CollectInv
<1>4. k \in Keys /\ all \in SUBSET Keys /\ total[p] \in Int /\ Size[k] \in Nat
    BY Typed, JitAssumption DEF TypeOK
<1>5. IsFiniteSet(all) /\ IsFiniteSet(found[p] \ {k}) /\ IsFiniteSet(stuck[p] \cup {k})
    BY <1>3, FS_Union, FS_RemoveElement, FS_AddElement
<1>6. /\ found'[p] = found[p] \ {k} /\ total'[p] = Counted(p, k, gone)
      /\ stuck'[p] = stuck[p] \cup IF gone THEN {} ELSE {k}
      /\ \A q \in Procs \ {p} : found'[q] = found[q] /\ stuck'[q] = stuck[q] /\ total'[q] = total[q]
    BY Typed, <1>2 DEF TypeOK, Set
<1>7. \A m \in Keys : files'[m] \in {files[m], "absent"}
    <2>1. Unlink(k)
        BY <1>2 DEF Unlink
    <2> QED
        BY Typed, <1>4, <2>1, UnlinkedKeys
<1>8. Old(p)' \subseteq Old(p)
    BY <1>1, <1>7, OldShrinks
<1>9. ASSUME gone
      PROVE  CollectInv(p)'
    <2>1. found'[p] \cup stuck'[p] = all \ {k} /\ stuck'[p] = stuck[p]
        BY <1>3, <1>6, <1>9
    <2>2. k \notin Old(p)'
        BY Typed, <1>2, <1>4, <1>9 DEF Old, Present, Set, TypeOK
    <2>3. SizeOf(all) = Size[k] + SizeOf(all \ {k}) /\ SizeOf(all \ {k}) \in Nat
        <3> DEFINE r == all \ {k}
        <3>1. r \in SUBSET Keys /\ k \in Keys \ r /\ all = r \cup {k}
            BY <1>4
        <3>2. IsFiniteSet(r)
            BY <1>5, FS_RemoveElement
        <3> HIDE DEF r, all
        <3>3. SizeOf(r \cup {k}) = Size[k] + SizeOf(r) /\ SizeOf(r) \in Nat
            BY <3>1, <3>2, SizeAdd
        <3> QED
            BY <3>1, <3>3 DEF r
    <2>4. SizeOf(all \ {k}) <= total[p] - Size[k]
        BY <1>3, <1>4, <2>3
    <2>5. SizeOf(found'[p] \cup stuck'[p]) <= total'[p]
        BY <1>6, <1>9, <2>1, <2>4 DEF Counted
    <2>6. Old(p)' \subseteq found'[p] \cup stuck'[p]
        BY <1>3, <1>8, <2>1, <2>2
    <2>7. found'[p] \cap stuck'[p] = {} /\ IsFiniteSet(found'[p]) /\ IsFiniteSet(stuck'[p])
        BY <1>3, <1>5, <1>6, <2>1
    <2> QED
        BY <1>1, <1>3, <2>5, <2>6, <2>7 DEF CollectInv
<1>10. ASSUME ~gone
       PROVE  CollectInv(p)'
    <2>1. found'[p] \cup stuck'[p] = all /\ stuck'[p] = stuck[p] \cup {k}
        BY <1>6, <1>10
    <2>2. SizeOf(found'[p] \cup stuck'[p]) <= total'[p]
        BY <1>3, <1>6, <1>10, <2>1 DEF Counted
    <2>3. Old(p)' \subseteq found'[p] \cup stuck'[p]
        BY <1>3, <1>8, <2>1
    <2>4. found'[p] \cap stuck'[p] = {} /\ IsFiniteSet(found'[p]) /\ IsFiniteSet(stuck'[p])
        BY <1>3, <1>5, <1>6, <2>1
    <2> QED
        BY <1>1, <1>3, <2>2, <2>3, <2>4 DEF CollectInv
<1>11. CollectInv(p)'
    BY <1>9, <1>10
<1>12. \A q \in Procs \ {p} : CollectInv(q)'
    BY <1>1, <1>3, <1>6, <1>7, OtherCollectors
<1> QED
    BY <1>11, <1>12 DEF CollectOK

LEMMA DieCollects ==
    ASSUME IInv, CollectOK, NEW P \in SUBSET Procs, Die(P),
           \A q \in Procs \ P : \A k \in Keys : files'[k] = files[k]
    PROVE  CollectOK'
<1> SUFFICES ASSUME NEW q \in Procs
             PROVE  CollectInv(q)'
    BY DEF CollectOK
<1>1. CASE q \in P
    <2>1. /\ at'[q] = "idle" /\ found'[q] = {} /\ stuck'[q] = {} /\ total'[q] = 0 /\ fresh'[q] = {}
          /\ lock' # q
        BY Typed, <1>1 DEF Die
    <2> QED
        BY <2>1, Uncounted
<1>2. CASE q \notin P
    <2>1. /\ at'[q] = at[q] /\ left'[q] = left[q] /\ found'[q] = found[q] /\ stuck'[q] = stuck[q]
          /\ total'[q] = total[q] /\ fresh'[q] = fresh[q]
        BY <1>2 DEF Die
    <2>2. (lock' = q) <=> (lock = q)
        BY Typed, <1>2 DEF Die, TypeOK
    <2>3. CollectInv(q) /\ Old(q)' \subseteq Old(q)
        BY <1>2, <2>1, OldShrinks DEF CollectOK
    <2> QED
        BY <2>1, <2>2, <2>3, SameCollector
<1> QED
    BY <1>1, <1>2

LEMMA NextCollects ==
    ASSUME IInv, CollectOK, [Next]_vars
    PROVE  CollectOK'
<1>1. ASSUME NEW p \in Procs, Evict(p)
      PROVE  CollectOK'
    <2>1. CASE Evicted(p)
        BY <2>1, OverCollects DEF Evicted, Culled
    <2> QED
        BY <1>1, <2>1, LaunchCollects, TryLockCollects, VisitCollects, ScannedCollects, CullCollects
        DEF Evict
<1>2. ASSUME NEW p \in Procs, Step(p)
      PROVE  CollectOK'
    BY <1>1, <1>2, LaunchCollects, PutCollects DEF Step
<1>3. ASSUME NEW p \in Procs, NEW k \in Requests[p], Begin(p, k)
      PROVE  CollectOK'
    BY <1>3, LaunchCollects
<1>4. ASSUME NEW p \in Procs, Clear(p) \/ ClearName(p)
      PROVE  CollectOK'
    BY <1>4, LaunchCollects
<1>5. ASSUME NEW p \in Procs, Crash(p)
      PROVE  CollectOK'
    BY <1>5, DieCollects DEF Crash
<1>6. CASE PowerLoss
    BY <1>6, DieCollects DEF PowerLoss
<1>7. CASE UNCHANGED vars
    <2>1. UNCHANGED <<files, lock, at, scan>>
        BY <1>7 DEF vars, disk
    <2>2. ASSUME NEW q \in Procs
          PROVE  CollectInv(q)'
        <3>1. CollectInv(q) /\ Old(q)' \subseteq Old(q)
            BY <2>1, OldShrinks DEF CollectOK, scan
        <3> QED
            BY <2>1, <3>1, SameCollector DEF scan
    <2> QED
        BY <2>2 DEF CollectOK
<1> QED
    BY <1>2, <1>3, <1>4, <1>5, <1>6, <1>7 DEF Next

LEMMA CollectStart == Init => CollectOK
<1> SUFFICES ASSUME Init, NEW p \in Procs
             PROVE  CollectInv(p)
    BY DEF CollectOK
<1>1. /\ at[p] = "idle" /\ lock # p /\ found[p] = {} /\ stuck[p] = {} /\ total[p] = 0 /\ fresh[p] = {}
    BY JitAssumption DEF Init
<1>2. found[p] \cup stuck[p] = {}
    BY <1>1
<1>3. SizeOf(found[p] \cup stuck[p]) <= total[p]
    BY <1>1, <1>2, SizeEmpty
<1> QED
    BY <1>1, <1>3, FS_EmptySet DEF CollectInv

\* For any entries, sizes and processes, an eviction that collects brings what
\* was there when its scan began to the low watermark, or leaves of it only
\* what it could not delete, whatever is published meanwhile.
THEOREM EvictionReachesLowMark == Spec => []EvictionFits
<1>1. IInv /\ CollectOK => EvictionFits
    <2> SUFFICES ASSUME IInv, CollectOK, NEW p \in Procs, Culled(p)
                 PROVE  SizeOf(Old(p)) <= LowMark \/ Old(p) \subseteq stuck[p]
        BY DEF EvictionFits, Old
    <2> DEFINE all == found[p] \cup stuck[p]
    <2>1. /\ Old(p) \subseteq all /\ SizeOf(all) <= total[p] /\ IsFiniteSet(found[p])
          /\ IsFiniteSet(stuck[p]) /\ (total[p] <= LowMark \/ found[p] = {})
        BY DEF CollectOK, CollectInv, Culled
    <2>2. IsFiniteSet(all) /\ all \in SUBSET Keys /\ total[p] \in Int /\ LowMark \in Nat
        <3>1. IsFiniteSet(all)
            BY <2>1, FS_Union
        <3>2. found[p] \in SUBSET Keys /\ stuck[p] \in SUBSET Keys /\ total[p] \in Int
            BY Typed DEF TypeOK
        <3> QED
            BY <3>1, <3>2, JitAssumption
    <2>3. CASE found[p] = {}
        BY <2>1, <2>3
    <2>4. CASE total[p] <= LowMark
        <3> HIDE DEF all
        <3>1. SizeOf(Old(p)) <= SizeOf(all) /\ SizeOf(Old(p)) \in Nat /\ SizeOf(all) \in Nat
            BY <2>1, <2>2, SizeGrows
        <3> QED
            BY <2>1, <2>2, <2>4, <3>1
    <2> QED
        BY <2>1, <2>3, <2>4
<1>2. Spec => []CollectOK
    BY Invariance, CollectStart, NextCollects, PTL DEF Spec
<1> QED
    BY <1>1, <1>2, Invariance, PTL
=============================================================================
