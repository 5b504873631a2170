--------------------------- MODULE ReactorProofs ---------------------------
(***************************************************************************)
(* Machine-checked proofs about Reactor, for any number of registrations,   *)
(* slots, streams and contexts.  The inductive invariant says who owns each *)
(* slot (Ownership), where each registration's payload, flag write and      *)
(* verdict are (Provenance), and that the armed count is exact.             *)
(***************************************************************************)
EXTENDS Reactor, FiniteSetTheorems, SequenceTheorems, TLAPS

Owning(r) == pc[r] \in {"reset_flag", "arm", "write_payload", "count_armed",
                        "set_bit"}
Unarmed == {"claim", "reset_flag", "arm"}
Published == {"unpark", "returned"}
Taking == IF spc = "take" THEN {cur} ELSE {}
Watched == active \cup Taking
Distinct(q) == \A i, j \in 1..Len(q) : q[i] = q[j] => i = j
DistinctRegs(q) == \A i, j \in 1..Len(q) : q[i].reg = q[j].reg => i = j

Ownership ==
    /\ Distinct(free) /\ Distinct(retired)
    /\ Elems(free) \cap Elems(retired) = {}
    /\ Watched \cap (Elems(free) \cup Elems(retired)) = {}
    /\ active \cap Taking = {}
    /\ \A r \in Regs : Owning(r) =>
          /\ slot[r] \in Slots
          /\ slot[r] \notin Elems(free) \cup Elems(retired) \cup Watched
    /\ \A r, q \in Regs : Owning(r) /\ Owning(q) /\ slot[r] = slot[q] => r = q
    /\ bits \subseteq active
    /\ spc \in {"judge", "clear_bit"} => cur \in active \ bits
    /\ spc = "take" => cur \in Slots
    /\ \A s \in Slots : \/ s \in Elems(free) \cup Elems(retired) \cup Watched
                        \/ \E r \in Regs : Owning(r) /\ slot[r] = s

Payloads ==
    /\ \A r \in Regs : pc[r] \in {"count_armed", "set_bit"} => payload[slot[r]] = r
    /\ \A s \in Watched : /\ payload[s] \in Regs
                          /\ pc[payload[s]] \in Published
                          /\ outcome[payload[s]] = "none"
                          /\ payload[s] \notin woken \cup faulted
    /\ \A s, t \in Watched : payload[s] = payload[t] => s = t
    /\ \A r \in woken \cup faulted : pc[r] \in Published /\ outcome[r] = "none"
    /\ woken \cap faulted = {}
    /\ \A r \in Regs : pc[r] \notin Published => outcome[r] = "none"

Writes ==
    /\ \A r \in executed : pc[r] \notin Unarmed
    /\ \A r \in Regs : Owning(r) /\ pc[r] # "reset_flag" /\ flag[slot[r]] = 1
                          => r \in executed
    /\ \A s \in Watched : flag[s] = 1 => payload[s] \in executed
    /\ \A st \in Streams :
        /\ DistinctRegs(queue[st])
        /\ \A w \in Elems(queue[st]) :
            /\ StreamOf[w.reg] = st /\ w.reg \notin executed
            /\ pc[w.reg] \notin Unarmed
            /\ ContextOf[st] \notin dead =>
                \/ Owning(w.reg) /\ slot[w.reg] = w.addr
                \/ w.addr \in Watched /\ payload[w.addr] = w.reg

Verdicts ==
    /\ spc = "judge" => ~landed
    /\ spc \in {"clear_bit", "take"} =>
        IF landed THEN payload[cur] \in executed
        ELSE Lost(StreamOf[payload[cur]])
    /\ \A st \in Streams : memo[st] = "dead" => Lost(st)
    /\ SignalledExecuted /\ WokenOnlyOnFault

Counted == n_retired # 0 => spc = "count_out"

\* A registrant that saw the armed count at 0 and has not unparked yet.
WillUnpark(r) == pc[r] \in {"set_bit", "unpark"} /\ was_idle[r]

Waking == spc = "park" /\ n_armed # 0 => token \/ \E r \in Regs : WillUnpark(r)

IInv == /\ TypeOK /\ Ownership /\ Payloads /\ Writes /\ Verdicts
        /\ Counted /\ ArmedCountExact /\ Waking

-----------------------------------------------------------------------------
(* Sequences as lists of slots: what push, pop and append do to the elements *)

\* Pushing an element that is not on the list adds it and repeats nothing.
LEMMA PushLemma ==
    ASSUME NEW S, NEW q \in Seq(S), NEW x \in S
    PROVE  /\ Append(q, x) \in Seq(S)
           /\ Len(Append(q, x)) = Len(q) + 1
           /\ Elems(Append(q, x)) = Elems(q) \cup {x}
           /\ Distinct(q) /\ x \notin Elems(q) => Distinct(Append(q, x))
  <1>1. /\ Append(q, x) \in Seq(S) /\ Len(Append(q, x)) = Len(q) + 1
        /\ \A i \in 1..Len(q) : Append(q, x)[i] = q[i]
        /\ Append(q, x)[Len(q) + 1] = x
        /\ Len(q) \in Nat
    OBVIOUS
  <1>2. Elems(Append(q, x)) = Elems(q) \cup {x}
    <2>1. 1..(Len(q) + 1) = 1..Len(q) \cup {Len(q) + 1}  BY <1>1
    <2> QED  BY <1>1, <2>1 DEF Elems
  <1>3. Distinct(q) /\ x \notin Elems(q) => Distinct(Append(q, x))
    BY <1>1 DEF Elems, Distinct
  <1> QED  BY <1>1, <1>2, <1>3

\* Popping a list without repetitions removes its last element from it.
LEMMA PopLemma ==
    ASSUME NEW S, NEW q \in Seq(S), Len(q) > 0
    PROVE  /\ SubSeq(q, 1, Len(q) - 1) \in Seq(S)
           /\ q[Len(q)] \in S
           /\ q[Len(q)] \in Elems(q)
           /\ Distinct(q) =>
                /\ Distinct(SubSeq(q, 1, Len(q) - 1))
                /\ Elems(SubSeq(q, 1, Len(q) - 1)) = Elems(q) \ {q[Len(q)]}
  <1> DEFINE f == SubSeq(q, 1, Len(q) - 1)
  <1>1. /\ f \in Seq(S) /\ Len(f) = Len(q) - 1 /\ Len(q) \in Nat
        /\ \A i \in 1..(Len(q) - 1) : f[i] = q[i]
        /\ q[Len(q)] \in S
    <2>1. \A i \in 1..(Len(q) - 1) : q[i] \in S  OBVIOUS
    <2>2. Len(q) - 1 \in Int /\ Len(q) \in Nat /\ q[Len(q)] \in S  OBVIOUS
    <2>3. /\ f \in Seq(S)
          /\ Len(f) = IF 1 <= Len(q) - 1 THEN Len(q) - 1 - 1 + 1 ELSE 0
          /\ \A i \in 1..(Len(q) - 1 - 1 + 1) : f[i] = q[1 + i - 1]
      BY <2>1, <2>2, SubSeqProperties
    <2> HIDE DEF f
    <2>4. Len(f) = Len(q) - 1
      <3> DEFINE n == Len(q)
      <3>1. n \in Nat /\ n > 0 /\ Len(f) = IF 1 <= n - 1 THEN n - 1 - 1 + 1 ELSE 0
        BY <2>2, <2>3
      <3> HIDE DEF n
      <3>2. CASE n = 1  BY <3>1, <3>2 DEF n
      <3>3. CASE n > 1  BY <3>1, <3>3 DEF n
      <3> QED  BY <3>1, <3>2, <3>3
    <2>5. ASSUME NEW i \in 1..(Len(q) - 1) PROVE f[i] = q[i]
      <3>1. i \in 1..(Len(q) - 1 - 1 + 1) /\ 1 + i - 1 = i  BY <2>2
      <3> QED  BY <2>3, <3>1
    <2> QED  BY <2>2, <2>3, <2>4, <2>5
  <1> HIDE DEF f
  <1>2. q[Len(q)] \in Elems(q)  BY <1>1 DEF Elems
  <1>3. Distinct(q) => Distinct(f)  BY <1>1 DEF Distinct
  <1>4. Distinct(q) => Elems(f) = Elems(q) \ {q[Len(q)]}
    <2> SUFFICES ASSUME Distinct(q) PROVE Elems(f) = Elems(q) \ {q[Len(q)]}
      OBVIOUS
    <2>1. \A i \in 1..Len(q) : q[i] = q[Len(q)] => i = Len(q)
      BY <1>1 DEF Distinct
    <2>2. 1..(Len(q) - 1) = 1..Len(q) \ {Len(q)}  BY <1>1
    <2> QED  BY <1>1, <2>1, <2>2 DEF Elems
  <1> QED  BY <1>1, <1>2, <1>3, <1>4 DEF f

\* Appending a list to a disjoint one joins their elements.
LEMMA ConcatLemma ==
    ASSUME NEW S, NEW p \in Seq(S), NEW q \in Seq(S)
    PROVE  /\ p \o q \in Seq(S)
           /\ Elems(p \o q) = Elems(p) \cup Elems(q)
           /\ Distinct(p) /\ Distinct(q) /\ Elems(p) \cap Elems(q) = {}
                => Distinct(p \o q)
  <1>1. /\ p \o q \in Seq(S) /\ Len(p \o q) = Len(p) + Len(q)
        /\ Len(p) \in Nat /\ Len(q) \in Nat
        /\ \A i \in 1..Len(p) : (p \o q)[i] = p[i]
        /\ \A i \in (Len(p) + 1)..(Len(p) + Len(q)) : (p \o q)[i] = q[i - Len(p)]
    OBVIOUS
  <1> DEFINE c == p \o q
  <1> HIDE DEF c
  <1>2. Elems(c) \subseteq Elems(p) \cup Elems(q)
    BY <1>1 DEF Elems, c
  <1>3. Elems(p) \subseteq Elems(c)
    BY <1>1 DEF Elems, c
  <1>4. Elems(q) \subseteq Elems(c)
    <2> SUFFICES ASSUME NEW i \in 1..Len(q) PROVE q[i] \in Elems(c)
      BY DEF Elems
    <2>1. i + Len(p) \in 1..Len(c) /\ c[i + Len(p)] = q[i]  BY <1>1 DEF c
    <2> QED  BY <2>1 DEF Elems
  <1>5. Distinct(p) /\ Distinct(q) /\ Elems(p) \cap Elems(q) = {} => Distinct(c)
    <2> SUFFICES ASSUME Distinct(p), Distinct(q), Elems(p) \cap Elems(q) = {},
                        NEW i \in 1..Len(c), NEW j \in 1..Len(c), c[i] = c[j]
                 PROVE i = j
      BY DEF Distinct
    <2>1. \A k \in 1..Len(c) :
            \/ k \in 1..Len(p) /\ c[k] = p[k] /\ p[k] \in Elems(p)
            \/ /\ k - Len(p) \in 1..Len(q) /\ c[k] = q[k - Len(p)]
               /\ q[k - Len(p)] \in Elems(q)
      BY <1>1 DEF Elems, c
    <2>2. i \in 1..Len(p) <=> j \in 1..Len(p)  BY <2>1, <1>1 DEF c
    <2>3. CASE i \in 1..Len(p)
      BY <1>1, <2>2, <2>3 DEF Distinct, c
    <2>4. CASE i \notin 1..Len(p)
      <3>1. /\ i - Len(p) \in 1..Len(q) /\ j - Len(p) \in 1..Len(q)
            /\ q[i - Len(p)] = q[j - Len(p)]
        BY <1>1, <2>1, <2>2, <2>4
      <3>2. i - Len(p) = j - Len(p)  BY <3>1 DEF Distinct
      <3> QED  BY <3>2, <1>1 DEF c
    <2> QED  BY <2>3, <2>4
  <1> QED  BY <1>1, <1>2, <1>3, <1>4, <1>5 DEF c

\* What is left of a queue of flag writes when its head has executed.
LEMMA TailLemma ==
    ASSUME NEW S, NEW q \in Seq(S), q # <<>>
    PROVE  /\ Tail(q) \in Seq(S) /\ Head(q) \in S /\ Head(q) \in Elems(q)
           /\ Elems(Tail(q)) \subseteq Elems(q)
           /\ DistinctRegs(q) =>
                /\ DistinctRegs(Tail(q))
                /\ \A w \in Elems(Tail(q)) : w.reg # Head(q).reg
  <1>1. /\ Tail(q) \in Seq(S) /\ Len(Tail(q)) = Len(q) - 1
        /\ Len(q) \in Nat \ {0} /\ Head(q) = q[1] /\ q[1] \in S
        /\ \A i \in 1..(Len(q) - 1) : Tail(q)[i] = q[i + 1]
    OBVIOUS
  <1> DEFINE t == Tail(q)
  <1> HIDE DEF t
  <1>2. Head(q) \in Elems(q)  BY <1>1 DEF Elems
  <1>3. Elems(t) \subseteq Elems(q)  BY <1>1 DEF Elems, t
  <1>4. DistinctRegs(q) => DistinctRegs(t)  BY <1>1 DEF DistinctRegs, t
  <1>5. DistinctRegs(q) => \A w \in Elems(t) : w.reg # Head(q).reg
    <2> SUFFICES ASSUME DistinctRegs(q), NEW i \in 1..Len(t)
                 PROVE  t[i].reg # Head(q).reg
      BY DEF Elems
    <2>1. t[i] = q[i + 1] /\ i + 1 \in 1..Len(q) /\ 1 \in 1..Len(q) /\ i + 1 # 1
      BY <1>1 DEF t
    <2> QED  BY <2>1, <1>1 DEF DistinctRegs
  <1> QED  BY <1>1, <1>2, <1>3, <1>4, <1>5 DEF t

\* A write of a registration not yet queued keeps registrations distinct.
LEMMA EnqueueLemma ==
    ASSUME NEW S, NEW q \in Seq(S), NEW x \in S, DistinctRegs(q),
           \A w \in Elems(q) : w.reg # x.reg
    PROVE  DistinctRegs(Append(q, x))
  <1>1. /\ Len(Append(q, x)) = Len(q) + 1 /\ Len(q) \in Nat
        /\ \A i \in 1..Len(q) : Append(q, x)[i] = q[i] /\ q[i] \in Elems(q)
        /\ Append(q, x)[Len(q) + 1] = x
    BY DEF Elems
  <1> QED  BY <1>1 DEF DistinctRegs

-----------------------------------------------------------------------------
(* Type correctness *)

\* The numbers that make up the armed count are natural numbers.
LEMMA CountTypes ==
    ASSUME TypeOK
    PROVE  /\ IsFiniteSet(Slots) /\ IsFiniteSet(active)
           /\ Cardinality(active) \in Nat
           /\ IsFiniteSet({r \in Regs : pc[r] = "set_bit"})
           /\ Cardinality({r \in Regs : pc[r] = "set_bit"}) \in Nat
           /\ Len(retired) \in Nat /\ n_retired \in Nat
  <1>1. IsFiniteSet(Slots)  BY FS_Interval, ReactorAssumption DEF Slots
  <1>2. IsFiniteSet(active)  BY <1>1, FS_Subset DEF TypeOK
  <1>3. IsFiniteSet({r \in Regs : pc[r] = "set_bit"})
    BY FS_Subset, ReactorAssumption
  <1> QED  BY <1>1, <1>2, <1>3, FS_CardinalityType DEF TypeOK

\* The bitmap has a natural number of words.
LEMMA NumWordsNat == NumWords \in Nat
  <1> DEFINE a == NumSlots + WordBits - 1
  <1>1. a \in Nat /\ WordBits \in Nat /\ WordBits > 0  BY ReactorAssumption
  <1> HIDE DEF a
  <1>2. a \div WordBits \in Nat  BY <1>1
  <1> QED  BY <1>2 DEF NumWords, a

\* No step of any thread or of the device leaves a variable's type; lowering
\* the armed count keeps it natural because the count is exact.
LEMMA TypeStep ==
    ASSUME TypeOK, Ownership, ArmedCountExact, [Next]_vars
    PROVE  TypeOK'
  <1> USE ReactorAssumption
  <1>1. ASSUME NEW r \in Regs, Claim(r) PROVE TypeOK'
    <2>1. free' \in Seq(Slots) /\ free[Len(free)] \in Slots
      BY <1>1, PopLemma DEF Claim, Pop, TypeOK
    <2> QED  BY <1>1, <2>1 DEF Claim, Goto, TypeOK, scan, pacing, device
  <1>2. ASSUME NEW r \in Regs, PoolExhausted(r) \/ SetBit(r) \/ Unpark(r)
        PROVE  TypeOK'
    <2>1. CASE PoolExhausted(r)
      BY <2>1 DEF PoolExhausted, Refuse, Return, Goto, TypeOK, table, scan,
                  pacing, device
    <2>2. CASE SetBit(r)
      <3>1. slot[r] \in Slots  BY <2>2 DEF SetBit, Ownership, Owning
      <3>2. CASE was_idle[r]
        BY <2>2, <3>1, <3>2 DEF SetBit, Goto, TypeOK, scan, pacing, device
      <3>3. CASE ~was_idle[r]
        BY <2>2, <3>1, <3>3 DEF SetBit, Return, Goto, TypeOK, scan, pacing,
                                device
      <3> QED  BY <3>2, <3>3
    <2>3. CASE Unpark(r)
      BY <2>3 DEF Unpark, Return, Goto, TypeOK, table, scan, device
    <2> QED  BY <1>2, <2>1, <2>2, <2>3
  <1>3. ASSUME NEW r \in Regs, Reset(r) \/ WritePayload(r) \/ CountArmed(r)
        PROVE  TypeOK'
    <2>1. CASE Reset(r)
      BY <2>1 DEF Reset, ResetFlag, Goto, TypeOK, scan, pacing, device
    <2>2. CASE WritePayload(r)
      BY <2>2 DEF WritePayload, Goto, TypeOK, scan, pacing, device
    <2>3. CASE CountArmed(r)
      <3>1. WasIdle \in BOOLEAN  BY DEF WasIdle
      <3>2. was_idle' \in [Regs -> BOOLEAN]
        BY <2>3, <3>1, Zenon DEF CountArmed, TypeOK
      <3>3. /\ pc' = [pc EXCEPT ![r] = "set_bit"] /\ n_armed' = n_armed + 1
            /\ UNCHANGED <<free, flag, active, payload, slot, spc, scan, pacing,
                           device, outcome>>
        BY <2>3 DEF CountArmed, Goto
      <3>4. /\ n_armed' \in Nat
            /\ pc' \in [Regs -> {"claim", "reset_flag", "arm", "write_payload",
                          "count_armed", "set_bit", "unpark", "returned"}]
        BY <3>3 DEF TypeOK
      <3>5. UNCHANGED <<free, flag, active, payload, slot, spc, scan, pacing,
                        device, outcome>>
        BY <3>3
      <3> QED  BY <3>2, <3>4, <3>5 DEF TypeOK, scan, pacing, device
    <2> QED  BY <1>3, <2>1, <2>2, <2>3
  <1>4. ASSUME NEW r \in Regs, Arm(r) PROVE TypeOK'
    <2>1. [reg |-> r, addr |-> slot[r]] \in [reg : Regs, addr : Slots]
      BY <1>4 DEF Arm, Ownership, Owning
    <2>2. queue' \in [Streams -> Seq([reg : Regs, addr : Slots])]
      <3>1. Append(queue[StreamOf[r]], [reg |-> r, addr |-> slot[r]])
                \in Seq([reg : Regs, addr : Slots])
        BY <2>1, PushLemma DEF TypeOK
      <3> QED  BY <1>4, <3>1 DEF Arm, TypeOK
    <2> QED  BY <1>4, <2>2 DEF Arm, Goto, TypeOK, table, scan, pacing
  <1>5. ASSUME NEW r \in Regs, ArmFails(r) PROVE TypeOK'
    <2>1. free' \in Seq(Slots)
      BY <1>5, PushLemma DEF ArmFails, Release, Ownership, Owning, TypeOK
    <2> QED  BY <1>5, <2>1 DEF ArmFails, Refuse, Return, Goto, TypeOK, scan,
                               pacing, device
  <1>6. ASSUME NEW st \in Streams, FlagLands(st) PROVE TypeOK'
    <2>1. /\ Tail(queue[st]) \in Seq([reg : Regs, addr : Slots])
          /\ Head(queue[st]) \in [reg : Regs, addr : Slots]
      BY <1>6, TailLemma DEF FlagLands, TypeOK
    <2> QED  BY <1>6, <2>1 DEF FlagLands, TypeOK, regs, scan, pacing
  <1>7. ASSUME NEW st \in Streams, BeginCapture(st) \/ EndCapture(st)
        PROVE  TypeOK'
    BY <1>7 DEF BeginCapture, EndCapture, TypeOK, table, regs, scan, pacing
  <1>8. ASSUME NEW c \in Contexts, Fault(c) PROVE TypeOK'
    BY <1>8 DEF Fault, TypeOK, table, regs, scan, pacing
  <1>9. ASSUME ProbeTimer PROVE TypeOK'
    BY <1>9 DEF ProbeTimer, TypeOK, table, regs, scan, device
  <1>10. ASSUME LoadWord PROVE TypeOK'
    <2>1. word' \in 0..NumWords  BY <1>10, NumWordsNat DEF LoadWord, TypeOK
    <2> QED  BY <1>10, <2>1 DEF LoadWord, TypeOK, table, regs, pacing, device
  <1>11. ASSUME ReadFlag PROVE TypeOK'
    BY <1>11 DEF ReadFlag, TypeOK, table, regs, pacing, device
  <1>12. ASSUME JudgeStale \/ BindFails PROVE TypeOK'
    <2>1. /\ memo' \in [Streams -> {"unasked", "alive", "dead"}]
          /\ spc' \in {"clear_bit", "scan"} /\ cur' \in Slots \cup {None}
      <3>1. CASE JudgeStale /\ payload[cur] = None
        BY <3>1 DEF JudgeStale, Verdict, TypeOK
      <3>2. CASE JudgeStale /\ payload[cur] # None
        BY <3>2 DEF JudgeStale, Query, Verdict, TypeOK
      <3>3. CASE BindFails
        BY <3>3 DEF BindFails, Query, Verdict, TypeOK
      <3> QED  BY <1>12, <3>1, <3>2, <3>3
    <2>2. UNCHANGED <<table, regs, word, bits, landed, retired, n_retired,
                      woken, faulted, probing, pacing, device, outcome>>
      BY <1>12 DEF JudgeStale, BindFails
    <2> QED  BY <2>1, <2>2 DEF TypeOK, table, regs, pacing, device
  <1>13. ASSUME ClearBit PROVE TypeOK'
    BY <1>13 DEF ClearBit, TypeOK, regs, scan, pacing, device
  <1>14. ASSUME Take PROVE TypeOK'
    <2>1. retired' \in Seq(Slots)
      BY <1>14, PushLemma DEF Take, Ownership, TypeOK
    <2>2. payload' \in [Slots -> Regs \cup {None}]  BY <1>14 DEF Take, TypeOK
    <2>3. woken' \subseteq Regs /\ faulted' \subseteq Regs
      BY <1>14 DEF Take, Ownership, TypeOK
    <2> QED  BY <1>14, <2>1, <2>2, <2>3 DEF Take, TypeOK, regs, pacing, device
  <1>15. ASSUME Recycle PROVE TypeOK'
    <2>1. free' \in Seq(Slots)  BY <1>15, ConcatLemma DEF Recycle, TypeOK
    <2>2. n_retired' \in Nat  BY <1>15 DEF Recycle, RetiredCount, TypeOK
    <2>3. retired' \in Seq(Slots)  BY <1>15 DEF Recycle
    <2> QED  BY <1>15, <2>1, <2>2, <2>3 DEF Recycle, TypeOK, regs, pacing, device
  <1>16. ASSUME CountOut PROVE TypeOK'
    <2>1. n_armed' \in Nat
      BY <1>16, CountTypes DEF CountOut, CountedOut, ArmedCountExact
    <2> QED  BY <1>16, <2>1 DEF CountOut, TypeOK, regs, pacing, device
  <1>17. ASSUME NEW r \in Regs, Signal(r) \/ WakeFaulted(r) PROVE TypeOK'
    BY <1>17 DEF Signal, WakeFaulted, TypeOK, table, regs, pacing, device
  <1>18. ASSUME Delivered \/ ProbeFindsNothing \/ ParkReturns \/ SpuriousReturn
         PROVE  TypeOK'
    <2>1. 0 \in 0..NumWords  BY NumWordsNat
    <2>2. NewPass(FALSE)
      BY <1>18 DEF Delivered, ProbeFindsNothing, ParkReturns, SpuriousReturn
    <2>3. 0 \in 0..(PassModulus - 1)  OBVIOUS
    <2>4. /\ idle_passes' \in 0..(PassModulus - 1)
          /\ elapsed' \in BOOLEAN /\ token' \in BOOLEAN
      BY <1>18, <2>3 DEF Delivered, ProbeFindsNothing, ParkReturns,
                         SpuriousReturn, TypeOK, pacing
    <2> QED  BY <2>1, <2>2, <2>4 DEF NewPass, FreshMemo, NoVerdicts, TypeOK,
                                     table, regs, device
  <1>19. ASSUME KeepScanning PROVE TypeOK'
    <2>1. 0 \in 0..NumWords  BY NumWordsNat
    <2>2. idle_passes' \in 0..(PassModulus - 1)  BY <1>19 DEF KeepScanning, TypeOK
    <2> QED  BY <1>19, <2>1, <2>2 DEF KeepScanning, NewPass, FreshMemo,
                 NoVerdicts, TypeOK, table, regs, device
  <1>20. ASSUME ParkGate \/ ScannerPanics PROVE TypeOK'
    BY <1>20 DEF ParkGate, ScannerPanics, TypeOK, table, regs, scan, pacing,
                 device
  <1>21. ASSUME UNCHANGED vars PROVE TypeOK'
    BY <1>21 DEF vars, TypeOK, table, regs, scan, pacing, device
  <1> QED
    BY <1>1, <1>2, <1>3, <1>4, <1>5, <1>6, <1>7, <1>8, <1>9, <1>10, <1>11,
       <1>12, <1>13, <1>14, <1>15, <1>16, <1>17, <1>18, <1>19, <1>20, <1>21
       DEF Next, Register, Device, Scanner

-----------------------------------------------------------------------------
(* Ownership of the slots *)

\* The variables that decide who owns a slot.
holding == <<free, retired, active, spc, cur, bits, pc, slot>>

\* Every step hands a slot over from one owner to the next, never to two.
LEMMA OwnershipStep ==
    ASSUME TypeOK, Ownership, [Next]_vars
    PROVE  Ownership'
  <1> USE ReactorAssumption
  <1>1. ASSUME NEW r \in Regs, Claim(r) PROVE Ownership'
    <2> DEFINE s == free[Len(free)]
    <2>1. /\ s \in Slots /\ s \in Elems(free)
          /\ Distinct(free') /\ Elems(free') = Elems(free) \ {s}
      BY <1>1, PopLemma DEF Claim, Pop, TypeOK, Ownership
    <2>2. /\ slot' = [slot EXCEPT ![r] = s]
          /\ pc' = [pc EXCEPT ![r] = "reset_flag"]
          /\ pc[r] = "claim"
          /\ UNCHANGED <<retired, active, spc, cur, bits>>
      BY <1>1 DEF Claim, Goto, scan
    <2> HIDE DEF s
    <2>3. \A q \in Regs : q # r => (Owning(q)' <=> Owning(q)) /\ slot'[q] = slot[q]
      BY <2>2 DEF Owning, TypeOK
    <2>4. Owning(r)' /\ slot'[r] = s /\ ~Owning(r)
      BY <2>2 DEF Owning, TypeOK
    <2>5. \A x \in Slots :
             \/ x \in Elems(free') \cup Elems(retired') \cup Watched'
             \/ \E q \in Regs : Owning(q)' /\ slot'[q] = x
      <3> TAKE x \in Slots
      <3>1. CASE x = s  BY <2>4, <3>1
      <3>2. CASE x # s
        BY <2>1, <2>2, <2>3, <2>4, <3>2 DEF Ownership, Watched, Taking
      <3> QED  BY <3>1, <3>2
    <2> QED
      BY <2>1, <2>2, <2>3, <2>4, <2>5 DEF Ownership, Watched, Taking
  <1>2. ASSUME NEW r \in Regs, ArmFails(r) PROVE Ownership'
    <2> DEFINE s == slot[r]
    <2>1. s \in Slots /\ s \notin Elems(free) /\ Owning(r)
      BY <1>2 DEF ArmFails, Ownership, Owning
    <2>2. Distinct(free') /\ Elems(free') = Elems(free) \cup {s}
      BY <1>2, <2>1, PushLemma DEF ArmFails, Release, TypeOK, Ownership
    <2>3. /\ pc' = [pc EXCEPT ![r] = "returned"]
          /\ slot' = [slot EXCEPT ![r] = None]
          /\ UNCHANGED <<retired, active, spc, cur, bits>>
      BY <1>2 DEF ArmFails, Refuse, Return, Goto, scan
    <2> HIDE DEF s
    <2>4. \A q \in Regs : /\ q # r => (Owning(q)' <=> Owning(q)) /\ slot'[q] = slot[q]
                          /\ q = r => ~Owning(q)'
      BY <2>3 DEF Owning, TypeOK
    <2>5. \A x \in Slots :
             \/ x \in Elems(free') \cup Elems(retired') \cup Watched'
             \/ \E q \in Regs : Owning(q)' /\ slot'[q] = x
      BY <2>2, <2>3, <2>4 DEF Ownership, Watched, Taking, s
    <2> QED
      BY <2>1, <2>2, <2>3, <2>4, <2>5 DEF Ownership, Watched, Taking, s
  <1>3. ASSUME NEW r \in Regs, SetBit(r) PROVE Ownership'
    <2>1. /\ Owning(r) /\ slot[r] \in Slots
          /\ active' = active \cup {slot[r]}
          /\ UNCHANGED <<free, retired, spc, cur, bits>>
          /\ pc'[r] \in {"unpark", "returned"}
          /\ \A q \in Regs : q # r => pc'[q] = pc[q] /\ slot'[q] = slot[q]
      BY <1>3 DEF SetBit, Return, Goto, Ownership, Owning, TypeOK, scan
    <2>2. \A q \in Regs : /\ q # r => (Owning(q)' <=> Owning(q)) /\ slot'[q] = slot[q]
                          /\ q = r => ~Owning(q)'
      BY <2>1 DEF Owning
    <2>3. \A x \in Slots :
             \/ x \in Elems(free') \cup Elems(retired') \cup Watched'
             \/ \E q \in Regs : Owning(q)' /\ slot'[q] = x
      BY <2>1, <2>2 DEF Ownership, Watched, Taking
    <2> QED
      BY <2>1, <2>2, <2>3 DEF Ownership, Watched, Taking
  <1>4. ASSUME NEW r \in Regs, \/ Reset(r) \/ Arm(r) \/ WritePayload(r)
                               \/ CountArmed(r) \/ PoolExhausted(r) \/ Unpark(r)
        PROVE  Ownership'
    <2>1. UNCHANGED <<free, retired, active, spc, cur, bits>>
      BY <1>4 DEF Reset, Arm, WritePayload, CountArmed, PoolExhausted, Unpark,
                  table, scan
    <2>2. \A q \in Regs : /\ Owning(q)' <=> Owning(q)
                          /\ Owning(q) => slot'[q] = slot[q]
      BY <1>4 DEF Reset, Arm, WritePayload, CountArmed, PoolExhausted, Unpark,
                  Refuse, Return, Goto, Owning, TypeOK
    <2> QED  BY <2>1, <2>2 DEF Ownership, Watched, Taking
  <1>5. ASSUME LoadWord PROVE Ownership'
    BY <1>5 DEF LoadWord, Ownership, Owning, Watched, Taking, table, regs
  <1>6. ASSUME ReadFlag PROVE Ownership'
    BY <1>6 DEF ReadFlag, Ownership, Owning, Watched, Taking, table, regs
  <1>7. ASSUME JudgeStale \/ BindFails PROVE Ownership'
    <2>1. /\ spc = "judge" /\ UNCHANGED <<table, regs, retired, bits>>
          /\ (spc' = "clear_bit" /\ cur' = cur) \/ spc' = "scan"
      BY <1>7 DEF JudgeStale, BindFails, Query, Verdict
    <2> QED  BY <2>1 DEF Ownership, Owning, Watched, Taking, table, regs
  <1>8. ASSUME ClearBit PROVE Ownership'
    <2>1. /\ spc = "clear_bit" /\ spc' = "take" /\ active' = active \ {cur}
          /\ cur \in active /\ cur \in Slots
          /\ UNCHANGED <<free, regs, retired, bits, cur>>
      BY <1>8 DEF ClearBit, Ownership, TypeOK, scan
    <2>2. Watched' = Watched  BY <2>1 DEF Watched, Taking
    <2> QED  BY <2>1, <2>2 DEF Ownership, Owning, Taking, regs
  <1>9. ASSUME Take PROVE Ownership'
    <2>1. cur \in Slots /\ cur \in Watched /\ spc = "take" /\ cur \notin active
      BY <1>9 DEF Take, Ownership, Watched, Taking
    <2>2. Distinct(retired') /\ Elems(retired') = Elems(retired) \cup {cur}
      BY <1>9, <2>1, PushLemma DEF Take, TypeOK, Ownership
    <2>3. /\ spc' = "scan" /\ Watched' = Watched \ {cur} /\ Taking' = {}
          /\ UNCHANGED <<free, active, regs, bits>>
      BY <1>9, <2>1 DEF Take, Watched, Taking
    <2> QED  BY <2>1, <2>2, <2>3 DEF Ownership, Owning, regs
  <1>10. ASSUME Recycle PROVE Ownership'
    <2>1. /\ Distinct(free') /\ Elems(free') = Elems(free) \cup Elems(retired)
      BY <1>10, ConcatLemma DEF Recycle, TypeOK, Ownership
    <2>2. retired' = <<>> /\ Elems(retired') = {} /\ Distinct(retired')
      BY <1>10 DEF Recycle, Elems, Distinct
    <2>3. /\ spc' = "count_out" /\ Watched' = Watched /\ Taking' = Taking
          /\ UNCHANGED <<active, regs, bits, cur>>
      BY <1>10 DEF Recycle, PassDone, Watched, Taking
    <2> QED  BY <2>1, <2>2, <2>3 DEF Ownership, Owning, regs
  <1>11. ASSUME \/ CountOut \/ Delivered \/ ProbeFindsNothing \/ ParkGate
                \/ KeepScanning \/ ScannerPanics \/ ParkReturns
                \/ SpuriousReturn
         PROVE Ownership'
    <2>1. /\ spc # "take" /\ spc' \notin {"take", "judge", "clear_bit"}
          /\ UNCHANGED <<free, retired, active, cur, bits, regs>>
      BY <1>11 DEF CountOut, Delivered, ProbeFindsNothing, ParkGate,
          KeepScanning, ScannerPanics, ParkReturns, SpuriousReturn, NewPass,
          AtGate, PassDone, table, scan
    <2> QED  BY <2>1 DEF Ownership, Owning, Watched, Taking, regs
  <1>12. ASSUME UNCHANGED holding PROVE Ownership'
    BY <1>12 DEF holding, Ownership, Owning, Watched, Taking
  <1>13. ASSUME NEW r \in Regs, Signal(r) \/ WakeFaulted(r)
         PROVE UNCHANGED holding
    BY <1>13 DEF Signal, WakeFaulted, holding, table, regs
  <1>14. ASSUME Device \/ UNCHANGED vars PROVE UNCHANGED holding
    BY <1>14 DEF Device, FlagLands, BeginCapture, EndCapture, Fault,
        ProbeTimer, holding, vars, table, regs, scan
  <1> QED
    BY <1>1, <1>2, <1>3, <1>4, <1>5, <1>6, <1>7, <1>8, <1>9, <1>10, <1>11,
       <1>12, <1>13, <1>14 DEF Next, Register, Scanner

-----------------------------------------------------------------------------
(* Payloads, flag writes and verdicts *)

\* A registration's payload is in one place at a time, and it is undecided
\* until it is told.
LEMMA PayloadsStep ==
    ASSUME TypeOK, Ownership, Payloads, [Next]_vars
    PROVE  Payloads'
  <1> USE ReactorAssumption
  <1>1. ASSUME NEW r \in Regs, \/ Claim(r) \/ PoolExhausted(r) \/ Reset(r)
                               \/ Arm(r) \/ ArmFails(r)
        PROVE  Payloads'
    <2>1. UNCHANGED <<active, payload, spc, cur, woken, faulted>>
      BY <1>1 DEF Claim, PoolExhausted, Reset, Arm, ArmFails, table, scan
    <2>2. /\ pc[r] \in Unarmed /\ pc'[r] \notin {"count_armed", "set_bit"}
          /\ pc'[r] \notin Published => outcome'[r] = outcome[r]
          /\ \A q \in Regs : q # r => /\ pc'[q] = pc[q] /\ slot'[q] = slot[q]
                                      /\ outcome'[q] = outcome[q]
      BY <1>1 DEF Claim, PoolExhausted, Reset, Arm, ArmFails, Refuse, Return,
                  Goto, Unarmed, Published, TypeOK
    <2>3. \A s \in Watched : payload[s] # r  BY <2>2 DEF Payloads, Unarmed, Published
    <2>4. r \notin woken \cup faulted  BY <2>2 DEF Payloads, Unarmed, Published
    <2>5. Watched' = Watched  BY <2>1 DEF Watched, Taking
    <2>6. \A q \in Regs : pc'[q] \in {"count_armed", "set_bit"}
                             => payload[slot'[q]] = q
      BY <2>2 DEF Payloads
    <2>7. \A s \in Watched : /\ payload[s] \in Regs /\ payload[s] # r
                             /\ pc'[payload[s]] \in Published
                             /\ outcome'[payload[s]] = "none"
                             /\ payload[s] \notin woken \cup faulted
      BY <2>2, <2>3 DEF Payloads
    <2>8. \A q \in woken \cup faulted : pc'[q] \in Published /\ outcome'[q] = "none"
      BY <2>2, <2>4 DEF Payloads, TypeOK
    <2>9. \A q \in Regs : pc'[q] \notin Published => outcome'[q] = "none"
      BY <2>2 DEF Payloads, Unarmed, Published
    <2> QED  BY <2>1, <2>5, <2>6, <2>7, <2>8, <2>9 DEF Payloads
  <1>2. ASSUME NEW r \in Regs, WritePayload(r) PROVE Payloads'
    <2>1. /\ Owning(r) /\ slot[r] \in Slots /\ slot[r] \notin Watched
          /\ \A q \in Regs : Owning(q) /\ q # r => slot[q] # slot[r]
      BY <1>2 DEF WritePayload, Owning, Ownership
    <2>2. /\ payload' = [payload EXCEPT ![slot[r]] = r]
          /\ pc' = [pc EXCEPT ![r] = "count_armed"] /\ pc[r] = "write_payload"
          /\ UNCHANGED <<active, spc, cur, woken, faulted, slot, outcome>>
      BY <1>2 DEF WritePayload, Goto, scan
    <2>3. \A s \in Watched : payload'[s] = payload[s] /\ s \in Slots
      BY <2>1, <2>2 DEF Watched, Taking, Ownership, TypeOK
    <2>4. \A q \in Regs : pc'[q] \in {"count_armed", "set_bit"}
                             => payload'[slot[q]] = q
      BY <2>1, <2>2 DEF Owning, Ownership, Payloads, TypeOK
    <2> QED  BY <2>2, <2>3, <2>4 DEF Payloads, Watched, Taking, Published, TypeOK
  <1>3. ASSUME NEW r \in Regs, CountArmed(r) PROVE Payloads'
    <2>1. /\ pc' = [pc EXCEPT ![r] = "set_bit"] /\ pc[r] = "count_armed"
          /\ UNCHANGED <<active, payload, spc, cur, woken, faulted, slot, outcome>>
      BY <1>3 DEF CountArmed, Goto, scan
    <2> QED  BY <2>1 DEF Payloads, Watched, Taking, Published, TypeOK
  <1>4. ASSUME NEW r \in Regs, SetBit(r) PROVE Payloads'
    <2>1. /\ Owning(r) /\ pc[r] = "set_bit" /\ payload[slot[r]] = r
          /\ active' = active \cup {slot[r]}
          /\ UNCHANGED <<payload, spc, cur, woken, faulted, outcome>>
          /\ pc'[r] \in {"unpark", "returned"}
          /\ \A q \in Regs : q # r => pc'[q] = pc[q] /\ slot'[q] = slot[q]
      BY <1>4 DEF SetBit, Return, Goto, Payloads, Owning, TypeOK, scan
    <2>2. Watched' = Watched \cup {slot[r]}  BY <2>1 DEF Watched, Taking
    <2>3. \A s \in Watched : payload[s] # r
      BY <2>1 DEF Payloads, Published
    <2>4. r \notin woken \cup faulted /\ outcome[r] = "none"
      BY <2>1 DEF Payloads, Published
    <2>5. \A s \in Watched' : /\ payload[s] \in Regs
                              /\ pc'[payload[s]] \in Published
                              /\ outcome[payload[s]] = "none"
                              /\ payload[s] \notin woken \cup faulted
      BY <2>1, <2>2, <2>3, <2>4 DEF Payloads, Published
    <2>6. \A s, t \in Watched' : payload[s] = payload[t] => s = t
      BY <2>1, <2>2, <2>3 DEF Payloads
    <2>7. \A q \in Regs : q # r /\ pc'[q] \in {"count_armed", "set_bit"}
                             => payload[slot'[q]] = q
      BY <2>1 DEF Payloads
    <2>8. \A q \in woken \cup faulted : pc'[q] \in Published /\ outcome[q] = "none"
      <3> TAKE q \in woken \cup faulted
      <3>1. q \in Regs /\ q # r  BY <2>4 DEF TypeOK
      <3>2. pc'[q] = pc[q]  BY <2>1, <3>1
      <3> QED  BY <3>2 DEF Payloads
    <2>9. \A q \in Regs : pc'[q] \notin Published => outcome[q] = "none"
      BY <2>1 DEF Payloads, Published
    <2>10. pc'[r] \notin {"count_armed", "set_bit"}  BY <2>1
    <2> QED  BY <2>1, <2>5, <2>6, <2>7, <2>8, <2>9, <2>10 DEF Payloads
  <1>5. ASSUME NEW r \in Regs, Unpark(r) PROVE Payloads'
    <2>1. /\ pc' = [pc EXCEPT ![r] = "returned"] /\ pc[r] = "unpark"
          /\ slot' = [slot EXCEPT ![r] = None]
          /\ UNCHANGED <<active, payload, spc, cur, woken, faulted, outcome>>
      BY <1>5 DEF Unpark, Return, Goto, table, scan
    <2> QED  BY <2>1 DEF Payloads, Watched, Taking, Published, TypeOK
  <1>6. ASSUME ReadFlag \/ JudgeStale \/ BindFails PROVE Payloads'
    <2>1. /\ UNCHANGED <<active, payload, woken, faulted, regs, outcome>>
          /\ spc # "take" /\ spc' # "take"
      BY <1>6 DEF ReadFlag, JudgeStale, BindFails, Query, Verdict, table
    <2> QED  BY <2>1 DEF Payloads, Watched, Taking, regs
  <1>7. ASSUME ClearBit PROVE Payloads'
    <2>1. /\ Watched' = Watched
          /\ UNCHANGED <<payload, woken, faulted, regs, outcome>>
      BY <1>7 DEF ClearBit, Ownership, Watched, Taking, scan
    <2> QED  BY <2>1 DEF Payloads, regs
  <1>8. ASSUME Take PROVE Payloads'
    <2> DEFINE p == payload[cur]
    <2>1. /\ spc = "take" /\ cur \in Slots /\ cur \in Watched /\ p \in Regs
          /\ p # None /\ cur \notin active
      BY <1>8 DEF Take, Ownership, Watched, Taking, Payloads
    <2>2. /\ Watched' = Watched \ {cur} /\ UNCHANGED <<regs, outcome>>
          /\ payload' = [payload EXCEPT ![cur] = None]
          /\ \/ woken' = woken \cup {p} /\ faulted' = faulted
             \/ woken' = woken /\ faulted' = faulted \cup {p}
      BY <1>8, <2>1 DEF Take, IsDead, Watched, Taking
    <2>3. pc[p] \in Published /\ outcome[p] = "none" /\ p \notin woken \cup faulted
      BY <2>1 DEF Payloads
    <2>4. \A s \in Watched' : payload'[s] = payload[s] /\ payload[s] # p
      BY <2>1, <2>2 DEF Payloads, TypeOK, Watched, Taking
    <2>5. \A q \in Regs : pc[q] \in {"count_armed", "set_bit"} =>
                             payload'[slot[q]] = q
      BY <2>1, <2>2 DEF Payloads, Ownership, Owning, TypeOK
    <2> HIDE DEF p
    <2> QED  BY <2>1, <2>2, <2>3, <2>4, <2>5 DEF Payloads, regs
  <1>9. ASSUME NEW r \in Regs, Signal(r) \/ WakeFaulted(r) PROVE Payloads'
    <2>1. /\ r \in woken \cup faulted
          /\ UNCHANGED <<active, payload, spc, cur, regs>>
          /\ \A q \in Regs : q # r => outcome'[q] = outcome[q]
          /\ woken' \cup faulted' = (woken \cup faulted) \ {r}
          /\ woken' \subseteq woken /\ faulted' \subseteq faulted
      BY <1>9 DEF Signal, WakeFaulted, Payloads, table, TypeOK
    <2>2. \A s \in Watched : payload[s] # r  BY <2>1 DEF Payloads
    <2>3. pc[r] \in Published  BY <2>1 DEF Payloads
    <2> QED  BY <2>1, <2>2, <2>3 DEF Payloads, Watched, Taking, regs, TypeOK
  <1>10. ASSUME \/ LoadWord \/ Recycle \/ CountOut \/ Delivered
                \/ ProbeFindsNothing \/ ParkGate \/ KeepScanning
                \/ ScannerPanics \/ ParkReturns \/ SpuriousReturn
         PROVE Payloads'
    <2>1. /\ spc # "take" /\ spc' # "take"
          /\ UNCHANGED <<active, payload, woken, faulted, regs, outcome>>
      BY <1>10 DEF LoadWord, Recycle, CountOut, Delivered, ProbeFindsNothing,
          ParkGate, KeepScanning, ScannerPanics, ParkReturns, SpuriousReturn,
          NewPass, AtGate, PassDone, table, scan
    <2> QED  BY <2>1 DEF Payloads, Watched, Taking, regs
  <1>11. ASSUME Device \/ UNCHANGED vars PROVE Payloads'
    <2>1. UNCHANGED <<active, payload, spc, cur, woken, faulted, regs, outcome>>
      BY <1>11 DEF Device, FlagLands, BeginCapture, EndCapture, Fault,
          ProbeTimer, vars, table, scan
    <2> QED  BY <2>1 DEF Payloads, Watched, Taking, regs
  <1> QED
    BY <1>1, <1>2, <1>3, <1>4, <1>5, <1>6, <1>7, <1>8, <1>9, <1>10, <1>11
       DEF Next, Register, Scanner

\* What the queues of flag writes hold.
LEMMA QueueTypes ==
    ASSUME TypeOK
    PROVE  \A st \in Streams :
             /\ queue[st] \in Seq([reg : Regs, addr : Slots])
             /\ \A w \in Elems(queue[st]) : w.reg \in Regs /\ w.addr \in Slots
  <1> TAKE st \in Streams
  <1> DEFINE W == [reg : Regs, addr : Slots]
  <1>1. queue[st] \in Seq(W)  BY DEF TypeOK
  <1>2. \A w \in W : w.reg \in Regs /\ w.addr \in Slots  OBVIOUS
  <1> HIDE DEF W
  <1>3. \A i \in 1..Len(queue[st]) : queue[st][i] \in W  BY <1>1
  <1> QED  BY <1>1, <1>2, <1>3 DEF Elems, W

\* The flag a registration waits for is raised by its own write only, and a
\* write that may still execute aims at a slot its registration still holds.
LEMMA WritesStep ==
    ASSUME TypeOK, Ownership, Payloads, Writes, Verdicts, [Next]_vars
    PROVE  Writes'
  <1> USE ReactorAssumption
  <1>1. ASSUME NEW r \in Regs, Claim(r) \/ PoolExhausted(r) \/ ArmFails(r)
        PROVE  Writes'
    <2>1. /\ UNCHANGED <<flag, active, payload, spc, cur, device>>
          /\ pc[r] \in Unarmed /\ pc'[r] \in {"reset_flag", "returned"}
          /\ \A q \in Regs : q # r => pc'[q] = pc[q] /\ slot'[q] = slot[q]
      BY <1>1 DEF Claim, PoolExhausted, ArmFails, Refuse, Return, Goto,
                  Unarmed, TypeOK, table, scan
    <2>2. r \notin executed  BY <2>1 DEF Writes
    <2>3. \A st \in Streams : \A w \in Elems(queue[st]) : w.reg # r
      BY <2>1 DEF Writes
    <2>4. \A st \in Streams : \A w \in Elems(queue[st]) : w.reg \in Regs
      BY QueueTypes
    <2>5. \A q \in Regs : Owning(q)' /\ q # r <=> Owning(q) /\ q # r
      BY <2>1 DEF Owning
    <2>6. Watched' = Watched  BY <2>1 DEF Watched, Taking
    <2>7. \A q \in executed : pc'[q] \notin Unarmed
      BY <2>1, <2>2 DEF Writes, TypeOK
    <2>8. \A q \in Regs : Owning(q)' /\ pc'[q] # "reset_flag" /\ flag[slot'[q]] = 1
                             => q \in executed
      BY <2>1, <2>5 DEF Writes, Owning
    <2>9. \A st \in Streams : \A w \in Elems(queue[st]) :
            /\ pc'[w.reg] = pc[w.reg] /\ slot'[w.reg] = slot[w.reg]
            /\ Owning(w.reg)' <=> Owning(w.reg)
      BY <2>1, <2>3, <2>4, <2>5
    <2> QED  BY <2>1, <2>6, <2>7, <2>8, <2>9 DEF Writes, device
  <1>2. ASSUME NEW r \in Regs, Reset(r) PROVE Writes'
    <2>1. /\ UNCHANGED <<active, payload, spc, cur, device, slot>>
          /\ flag' = [flag EXCEPT ![slot[r]] = 0]
          /\ pc[r] = "reset_flag" /\ pc' = [pc EXCEPT ![r] = "arm"]
      BY <1>2 DEF Reset, ResetFlag, Goto, scan
    <2>2. r \notin executed /\ Owning(r) /\ slot[r] \in Slots
      BY <2>1 DEF Writes, Unarmed, Owning, Ownership
    <2>3. \A st \in Streams : \A w \in Elems(queue[st]) : w.reg # r /\ w.reg \in Regs
      BY <2>1, QueueTypes DEF Writes, Unarmed
    <2>4. \A q \in Regs : /\ Owning(q)' <=> Owning(q)
                          /\ q # r => pc'[q] = pc[q]
      BY <2>1 DEF Owning, TypeOK
    <2>5. Watched' = Watched  BY <2>1 DEF Watched, Taking
    <2>6. flag'[slot[r]] = 0 /\ \A x \in Slots : flag'[x] = 1 => flag[x] = 1
      BY <2>1, <2>2 DEF TypeOK
    <2>7. \A q \in executed : pc'[q] \notin Unarmed
      <3>1. executed \subseteq Regs  BY DEF TypeOK
      <3> QED  BY <2>2, <2>4, <3>1 DEF Writes
    <2>8. \A q \in Regs : Owning(q)' /\ pc'[q] # "reset_flag" /\ flag'[slot[q]] = 1
                             => q \in executed
      BY <2>2, <2>4, <2>6 DEF Writes, Ownership
    <2>9. \A x \in Watched : x \in Slots
      BY DEF Watched, Taking, TypeOK, Ownership
    <2>10. \A st \in Streams : \A w \in Elems(queue[st]) :
            pc'[w.reg] = pc[w.reg] /\ (Owning(w.reg)' <=> Owning(w.reg))
      BY <2>3, <2>4
    <2> QED  BY <2>1, <2>5, <2>6, <2>7, <2>8, <2>9, <2>10 DEF Writes, device
  <1>3. ASSUME NEW r \in Regs, Arm(r) PROVE Writes'
    <2> DEFINE w0 == [reg |-> r, addr |-> slot[r]]
               s0 == StreamOf[r]
    <2>1. /\ UNCHANGED <<flag, active, payload, spc, cur, slot, executed, dead>>
          /\ queue' = [queue EXCEPT ![s0] = Append(queue[s0], w0)]
          /\ pc[r] = "arm" /\ pc' = [pc EXCEPT ![r] = "write_payload"]
      BY <1>3 DEF Arm, Goto, table, scan
    <2>2. r \notin executed /\ Owning(r) /\ slot[r] \in Slots
      BY <2>1 DEF Writes, Unarmed, Owning, Ownership
    <2>3. \A st \in Streams : \A w \in Elems(queue[st]) : w.reg # r /\ w.reg \in Regs
      BY <2>1, QueueTypes DEF Writes, Unarmed
    <2>4. \A q \in Regs : /\ Owning(q)' <=> Owning(q)
                          /\ q # r => pc'[q] = pc[q]
      BY <2>1 DEF Owning, TypeOK
    <2>5. Watched' = Watched  BY <2>1 DEF Watched, Taking
    <2>6. s0 \in Streams /\ w0 \in [reg : Regs, addr : Slots]
          /\ w0.reg = r /\ w0.addr = slot[r] /\ StreamOf[r] = s0
      BY <2>2
    <2> HIDE DEF w0, s0
    <2>7. /\ Elems(queue'[s0]) = Elems(queue[s0]) \cup {w0}
          /\ DistinctRegs(queue'[s0])
      <3>1. queue'[s0] = Append(queue[s0], w0)  BY <2>1, <2>6 DEF TypeOK
      <3>2. /\ queue[s0] \in Seq([reg : Regs, addr : Slots])
            /\ DistinctRegs(queue[s0]) /\ \A w \in Elems(queue[s0]) : w.reg # w0.reg
        BY <2>3, <2>6, QueueTypes DEF Writes
      <3>3. Elems(Append(queue[s0], w0)) = Elems(queue[s0]) \cup {w0}
        <4> DEFINE W == [reg : Regs, addr : Slots]
        <4>1. queue[s0] \in Seq(W) /\ w0 \in W  BY <2>6, <3>2
        <4> HIDE DEF W
        <4> QED  BY <4>1, PushLemma
      <3>4. DistinctRegs(Append(queue[s0], w0))
        BY <2>6, <3>2, EnqueueLemma
      <3> QED  BY <3>1, <3>3, <3>4
    <2>8. \A st \in Streams : st # s0 => queue'[st] = queue[st]
      BY <2>1 DEF TypeOK
    <2>9. \A q \in executed : pc'[q] \notin Unarmed
      <3>1. executed \subseteq Regs  BY DEF TypeOK
      <3> QED  BY <2>2, <2>4, <3>1 DEF Writes
    <2>10. \A q \in Regs : Owning(q)' /\ pc'[q] # "reset_flag" /\ flag[slot[q]] = 1
                             => q \in executed
      BY <2>1, <2>2, <2>4 DEF Writes
    <2>11. pc'[r] \notin Unarmed  BY <2>1 DEF TypeOK, Unarmed
    <2>12. \A st \in Streams :
        /\ DistinctRegs(queue'[st])
        /\ \A w \in Elems(queue'[st]) :
            /\ StreamOf[w.reg] = st /\ w.reg \notin executed
            /\ pc'[w.reg] \notin Unarmed
            /\ ContextOf[st] \notin dead =>
                \/ Owning(w.reg)' /\ slot[w.reg] = w.addr
                \/ w.addr \in Watched /\ payload[w.addr] = w.reg
      <3> TAKE st \in Streams
      <3>1. DistinctRegs(queue'[st])  BY <2>7, <2>8 DEF Writes
      <3>2. ASSUME NEW w \in Elems(queue[st])
            PROVE  /\ StreamOf[w.reg] = st /\ w.reg \notin executed
                   /\ pc'[w.reg] \notin Unarmed
                   /\ ContextOf[st] \notin dead =>
                        \/ Owning(w.reg)' /\ slot[w.reg] = w.addr
                        \/ w.addr \in Watched /\ payload[w.addr] = w.reg
        BY <2>3, <2>4 DEF Writes
      <3>3. \A w \in Elems(queue'[st]) : w \in Elems(queue[st]) \/ (w = w0 /\ st = s0)
        BY <2>7, <2>8
      <3>4. ~Owning(r) => FALSE  BY <2>2
      <3> QED  BY <3>1, <3>2, <3>3, <2>2, <2>4, <2>6, <2>11
    <2> QED  BY <2>1, <2>5, <2>9, <2>10, <2>12 DEF Writes
  <1>4. ASSUME NEW r \in Regs, WritePayload(r) \/ CountArmed(r) PROVE Writes'
    <2>1. /\ UNCHANGED <<flag, active, spc, cur, device, slot>>
          /\ \A q \in Regs : /\ q # r => pc'[q] = pc[q]
                             /\ Owning(q)' <=> Owning(q)
                             /\ pc'[q] \in Unarmed <=> pc[q] \in Unarmed
                             /\ pc'[q] = "reset_flag" <=> pc[q] = "reset_flag"
          /\ Owning(r)
      BY <1>4 DEF WritePayload, CountArmed, Goto, Owning, Unarmed, TypeOK, scan
    <2>2. \A x \in Watched : payload'[x] = payload[x]
      BY <1>4, <2>1 DEF WritePayload, CountArmed, Ownership, TypeOK, Watched,
                        Taking
    <2>3. Watched' = Watched  BY <2>1 DEF Watched, Taking
    <2>4. \A st \in Streams : \A w \in Elems(queue[st]) : w.reg \in Regs
      BY QueueTypes
    <2>5. executed \subseteq Regs  BY DEF TypeOK
    <2> QED  BY <2>1, <2>2, <2>3, <2>4, <2>5 DEF Writes, device
  <1>5. ASSUME NEW r \in Regs, SetBit(r) PROVE Writes'
    <2>1. /\ Owning(r) /\ pc[r] = "set_bit" /\ payload[slot[r]] = r
          /\ active' = active \cup {slot[r]}
          /\ UNCHANGED <<flag, payload, spc, cur, device>>
          /\ pc'[r] \in {"unpark", "returned"}
          /\ \A q \in Regs : q # r => pc'[q] = pc[q] /\ slot'[q] = slot[q]
      BY <1>5 DEF SetBit, Return, Goto, Payloads, Owning, TypeOK, scan
    <2>2. Watched' = Watched \cup {slot[r]}  BY <2>1 DEF Watched, Taking
    <2>3. \A q \in Regs : /\ q # r => (Owning(q)' <=> Owning(q))
                          /\ q = r => ~Owning(q)'
                          /\ pc'[q] \in Unarmed => pc[q] \in Unarmed
      BY <2>1 DEF Owning, Unarmed
    <2>4. \A st \in Streams : \A w \in Elems(queue[st]) : w.reg \in Regs
      BY QueueTypes
    <2>5. executed \subseteq Regs  BY DEF TypeOK
    <2>6. \A x \in Watched' : flag[x] = 1 => payload[x] \in executed
      BY <2>1, <2>2 DEF Writes
    <2>7. \A q \in Regs : Owning(q)' /\ pc'[q] # "reset_flag" /\ flag[slot'[q]] = 1
                             => q \in executed
      BY <2>1, <2>3 DEF Writes
    <2>8. \A st \in Streams : \A w \in Elems(queue[st]) : ContextOf[st] \notin dead =>
                \/ Owning(w.reg)' /\ slot'[w.reg] = w.addr
                \/ w.addr \in Watched' /\ payload[w.addr] = w.reg
      <3> TAKE st \in Streams
      <3> TAKE w \in Elems(queue[st])
      <3>1. CASE w.reg = r  BY <2>1, <2>2, <3>1 DEF Writes
      <3>2. CASE w.reg # r  BY <2>1, <2>2, <2>3, <2>4, <3>2 DEF Writes
      <3> QED  BY <3>1, <3>2
    <2> QED  BY <2>1, <2>3, <2>4, <2>5, <2>6, <2>7, <2>8 DEF Writes, device
  <1>6. ASSUME NEW r \in Regs, Unpark(r) PROVE Writes'
    <2>1. /\ pc[r] = "unpark" /\ pc' = [pc EXCEPT ![r] = "returned"]
          /\ slot' = [slot EXCEPT ![r] = None]
          /\ UNCHANGED <<flag, active, payload, spc, cur, device>>
      BY <1>6 DEF Unpark, Return, Goto, table, scan
    <2>2. \A q \in Regs : /\ Owning(q)' <=> Owning(q)
                          /\ Owning(q) => pc'[q] = pc[q] /\ slot'[q] = slot[q]
                          /\ pc'[q] \in Unarmed <=> pc[q] \in Unarmed
      BY <2>1 DEF Owning, Unarmed, TypeOK
    <2>3. Watched' = Watched  BY <2>1 DEF Watched, Taking
    <2>4. \A st \in Streams : \A w \in Elems(queue[st]) : w.reg \in Regs
      BY QueueTypes
    <2>5. executed \subseteq Regs  BY DEF TypeOK
    <2> QED  BY <2>1, <2>2, <2>3, <2>4, <2>5 DEF Writes, device
  <1>7. ASSUME NEW st \in Streams, FlagLands(st) PROVE Writes'
    <2> DEFINE h == Head(queue[st])
    <2>1. /\ h \in Elems(queue[st]) /\ h.reg \in Regs /\ h.addr \in Slots
          /\ Elems(Tail(queue[st])) \subseteq Elems(queue[st])
          /\ DistinctRegs(Tail(queue[st]))
          /\ \A w \in Elems(Tail(queue[st])) : w.reg # h.reg
      <3>1. /\ queue[st] \in Seq([reg : Regs, addr : Slots]) /\ queue[st] # <<>>
            /\ DistinctRegs(queue[st])
        BY <1>7, QueueTypes DEF FlagLands, Writes
      <3>2. h \in Elems(queue[st])  BY <3>1, TailLemma
      <3>3. /\ Elems(Tail(queue[st])) \subseteq Elems(queue[st])
            /\ DistinctRegs(Tail(queue[st]))
            /\ \A w \in Elems(Tail(queue[st])) : w.reg # h.reg
        BY <3>1, TailLemma
      <3> HIDE DEF h
      <3>4. h.reg \in Regs /\ h.addr \in Slots  BY <3>2, QueueTypes
      <3> QED  BY <3>2, <3>3, <3>4
    <2>2. /\ ContextOf[st] \notin dead
          /\ flag' = [flag EXCEPT ![h.addr] = 1]
          /\ executed' = executed \cup {h.reg}
          /\ queue' = [queue EXCEPT ![st] = Tail(queue[st])]
          /\ UNCHANGED <<active, payload, regs, spc, cur, dead>>
      BY <1>7 DEF FlagLands, scan
    <2> HIDE DEF h
    <2>3. /\ \/ Owning(h.reg) /\ slot[h.reg] = h.addr
             \/ h.addr \in Watched /\ payload[h.addr] = h.reg
          /\ pc[h.reg] \notin Unarmed /\ StreamOf[h.reg] = st
      BY <2>1, <2>2 DEF Writes
    <2>4. Watched' = Watched /\ \A q \in Regs : Owning(q)' <=> Owning(q)
      BY <2>2 DEF Watched, Taking, Owning, regs
    <2>5. \A x \in Slots : x # h.addr => flag'[x] = flag[x]
      BY <2>2 DEF TypeOK
    <2>6. \A q \in Regs : Owning(q) /\ slot[q] = h.addr => q = h.reg
      BY <2>1, <2>3 DEF Ownership
    <2>7. h.addr \in Watched => payload[h.addr] = h.reg
      BY <2>1, <2>3 DEF Ownership
    <2>8. \A q \in Regs : Owning(q) => slot[q] \in Slots  BY DEF Ownership
    <2>9. \A x \in Watched : x \in Slots
      BY DEF Watched, Taking, TypeOK, Ownership
    <2>10. \A q \in Regs : Owning(q) /\ pc[q] # "reset_flag" /\ flag'[slot[q]] = 1
                             => q \in executed'
      BY <2>2, <2>5, <2>6, <2>8 DEF Writes
    <2>11. \A x \in Watched : flag'[x] = 1 => payload[x] \in executed'
      BY <2>2, <2>5, <2>7, <2>9 DEF Writes
    <2>12. \A s \in Streams :
            /\ DistinctRegs(queue'[s])
            /\ \A w \in Elems(queue'[s]) : w \in Elems(queue[s]) /\ w.reg # h.reg
      <3> TAKE s \in Streams
      <3>1. CASE s = st  BY <2>1, <2>2, <3>1 DEF TypeOK
      <3>2. CASE s # st
        <4>1. queue'[s] = queue[s]  BY <2>2, <3>2 DEF TypeOK
        <4> QED  BY <4>1, <3>2, <2>3 DEF Writes
      <3> QED  BY <3>1, <3>2
    <2>13. \A s \in Streams : \A w \in Elems(queue[s]) : w.reg \in Regs
      BY QueueTypes
    <2>14. \A q \in executed' : pc[q] \notin Unarmed
      BY <2>2, <2>3 DEF Writes
    <2> QED  BY <2>2, <2>4, <2>10, <2>11, <2>12, <2>13, <2>14 DEF Writes, regs
  <1>8. ASSUME Device, ~ \E st \in Streams : FlagLands(st) PROVE Writes'
    <2>1. /\ UNCHANGED <<flag, active, payload, spc, cur, regs, queue, executed>>
          /\ dead \subseteq dead'
      BY <1>8 DEF Device, BeginCapture, EndCapture, Fault, ProbeTimer, table,
                  scan, device
    <2> QED  BY <2>1 DEF Writes, Watched, Taking, Owning, regs
  <1>9. ASSUME ClearBit PROVE Writes'
    <2>1. Watched' = Watched /\ UNCHANGED <<flag, payload, regs, device>>
      BY <1>9 DEF ClearBit, Ownership, Watched, Taking, scan
    <2> QED  BY <2>1 DEF Writes, Owning, regs, device
  <1>10. ASSUME Take PROVE Writes'
    <2>1. /\ cur \in Slots /\ spc = "take" /\ cur \notin active /\ cur \in Watched
          /\ payload[cur] \in Regs
      BY <1>10 DEF Take, Ownership, Watched, Taking, Payloads
    <2>2. /\ Watched' = Watched \ {cur} /\ UNCHANGED <<flag, regs, device>>
          /\ payload' = [payload EXCEPT ![cur] = None]
      BY <1>10, <2>1 DEF Take, Watched, Taking
    <2>3. \A x \in Watched' : payload'[x] = payload[x]
      BY <2>1, <2>2 DEF TypeOK, Watched, Taking
    <2>4. payload[cur] \in executed \/ ContextOf[StreamOf[payload[cur]]] \in dead
      BY <2>1 DEF Verdicts, Lost
    <2>5. \A st \in Streams : \A w \in Elems(queue[st]) : ContextOf[st] \notin dead =>
                \/ Owning(w.reg) /\ slot[w.reg] = w.addr
                \/ w.addr \in Watched' /\ payload'[w.addr] = w.reg
      BY <2>2, <2>3, <2>4 DEF Writes
    <2> QED  BY <2>2, <2>3, <2>5 DEF Writes, Owning, regs, device
  <1>11. ASSUME \/ LoadWord \/ ReadFlag \/ JudgeStale \/ BindFails \/ Recycle
                \/ CountOut \/ Delivered \/ ProbeFindsNothing \/ ParkGate
                \/ KeepScanning \/ ScannerPanics \/ ParkReturns \/ SpuriousReturn
                \/ (\E r \in Regs : Signal(r) \/ WakeFaulted(r))
         PROVE Writes'
    <2>1. /\ spc # "take" /\ spc' # "take"
          /\ UNCHANGED <<flag, active, payload, regs, device>>
      BY <1>11 DEF LoadWord, ReadFlag, JudgeStale, BindFails, Query, Verdict,
          Recycle, CountOut, Delivered, ProbeFindsNothing, ParkGate,
          KeepScanning, ScannerPanics, ParkReturns, SpuriousReturn, NewPass,
          AtGate, PassDone, Signal, WakeFaulted, table, scan
    <2> QED  BY <2>1 DEF Writes, Watched, Taking, Owning, regs, device
  <1>12. ASSUME UNCHANGED vars PROVE Writes'
    BY <1>12 DEF vars, Writes, Watched, Taking, Owning, table, regs, scan,
                 device
  <1> QED
    BY <1>1, <1>2, <1>3, <1>4, <1>5, <1>6, <1>7, <1>8, <1>9, <1>10, <1>11,
       <1>12 DEF Next, Register, Device, Scanner

\* What the scanner concludes about a registration is true, and stays true.
LEMMA VerdictsStep ==
    ASSUME TypeOK, Ownership, Payloads, Writes, Verdicts, [Next]_vars
    PROVE  Verdicts'
  <1> USE ReactorAssumption
  <1>1. ASSUME NEW r \in Regs, PoolExhausted(r) \/ ArmFails(r) PROVE Verdicts'
    <2>1. /\ UNCHANGED <<spc, scan, payload, device>>
          /\ outcome' = [outcome EXCEPT ![r] = "refused"]
      BY <1>1 DEF PoolExhausted, ArmFails, Refuse, table
    <2> QED  BY <2>1 DEF Verdicts, SignalledExecuted, WokenOnlyOnFault, Lost, TypeOK,
                         scan, device
  <1>2. ASSUME NEW r \in Regs, WritePayload(r) PROVE Verdicts'
    <2>1. /\ UNCHANGED <<spc, scan, device, outcome>>
          /\ payload' = [payload EXCEPT ![slot[r]] = r]
      BY <1>2 DEF WritePayload
    <2>2. spc \in {"clear_bit", "take"} => cur # slot[r]
      BY <1>2 DEF WritePayload, Ownership, Owning, Watched, Taking
    <2>3. spc \in {"clear_bit", "take"} => payload'[cur] = payload[cur]
      BY <2>1, <2>2 DEF TypeOK
    <2> QED  BY <2>1, <2>3 DEF Verdicts, SignalledExecuted, WokenOnlyOnFault, Lost,
                               scan, device
  <1>3. ASSUME NEW r \in Regs, \/ Claim(r) \/ Reset(r) \/ Arm(r)
                               \/ CountArmed(r) \/ SetBit(r) \/ Unpark(r)
        PROVE  Verdicts'
    <2>1. UNCHANGED <<spc, scan, payload, dead, capture, executed, outcome>>
      BY <1>3 DEF Claim, Reset, Arm, CountArmed, SetBit, Unpark, table, device
    <2> QED  BY <2>1 DEF Verdicts, SignalledExecuted, WokenOnlyOnFault, Lost, scan
  <1>4. ASSUME Device PROVE Verdicts'
    <2>1. /\ UNCHANGED <<spc, scan, payload, outcome>>
          /\ dead \subseteq dead' /\ executed \subseteq executed'
      BY <1>4 DEF Device, FlagLands, BeginCapture, EndCapture, Fault,
                  ProbeTimer, table, device
    <2>2. \A st \in Streams : Lost(st) => Lost(st)'
      BY <1>4, <2>1 DEF Device, FlagLands, BeginCapture, EndCapture, Fault,
                        ProbeTimer, device, Lost, TypeOK
    <2>3. spc \in {"clear_bit", "take"} => payload[cur] \in Regs
      BY DEF Ownership, Watched, Taking, Payloads
    <2> QED  BY <2>1, <2>2, <2>3 DEF Verdicts, SignalledExecuted,
                                     WokenOnlyOnFault, scan
  <1>5. ASSUME ReadFlag PROVE Verdicts'
    <2>1. UNCHANGED <<payload, memo, woken, faulted, device, outcome>>
      BY <1>5 DEF ReadFlag, table
    <2>2. spc' \in {"clear_bit", "take"} => landed' /\ payload[cur'] \in executed
      BY <1>5 DEF ReadFlag, Ownership, Writes, Watched
    <2>3. spc' = "judge" => ~landed'  BY <1>5 DEF ReadFlag
    <2> QED  BY <2>1, <2>2, <2>3 DEF Verdicts, SignalledExecuted,
                                     WokenOnlyOnFault, Lost, device
  <1>6. ASSUME JudgeStale \/ BindFails PROVE Verdicts'
    <2>1. /\ spc = "judge" /\ UNCHANGED <<payload, landed, woken, faulted, device,
                                          outcome>>
      BY <1>6 DEF JudgeStale, BindFails, table
    <2>2. cur \in Watched /\ payload[cur] \in Regs /\ payload[cur] # None
      BY <2>1 DEF Ownership, Watched, Payloads
    <2> DEFINE st == StreamOf[payload[cur]]
    <2>3. st \in Streams  BY <2>2
    <2>4. \/ memo' = memo /\ (spc' = "clear_bit" => memo[st] = "dead" /\ cur' = cur)
          \/ /\ memo' = [memo EXCEPT ![st] = "dead"] /\ Lost(st)
             /\ cur' = cur
          \/ memo' = [memo EXCEPT ![st] = "alive"] /\ spc' # "clear_bit"
      BY <1>6, <2>2 DEF JudgeStale, BindFails, Query, Verdict, StreamIsFaulted,
                           Lost
    <2>5. spc' \in {"clear_bit", "scan"}
      BY <1>6 DEF JudgeStale, BindFails, Query, Verdict
    <2> HIDE DEF st
    <2>6. \A x \in Streams : memo'[x] = "dead" => Lost(x)
      BY <2>3, <2>4 DEF Verdicts, TypeOK
    <2>7. spc' = "clear_bit" => Lost(st) /\ cur' = cur
      BY <2>3, <2>4 DEF Verdicts
    <2>8. ~landed  BY <2>1 DEF Verdicts
    <2> QED  BY <2>1, <2>5, <2>6, <2>7, <2>8 DEF Verdicts, SignalledExecuted,
                                                WokenOnlyOnFault, Lost, device, st
  <1>7. ASSUME ClearBit PROVE Verdicts'
    <2>1. /\ spc = "clear_bit" /\ spc' = "take"
          /\ UNCHANGED <<scan, payload, device, outcome>>
      BY <1>7 DEF ClearBit
    <2> QED  BY <2>1 DEF Verdicts, SignalledExecuted, WokenOnlyOnFault, Lost, scan,
                         device
  <1>8. ASSUME Take PROVE Verdicts'
    <2>1. /\ spc = "take" /\ spc' = "scan" /\ UNCHANGED <<memo, device, outcome>>
          /\ woken' \subseteq woken \cup {payload[cur]}
          /\ faulted' \subseteq faulted \cup {payload[cur]}
          /\ ~landed => woken' = woken
          /\ landed => faulted' = faulted
      BY <1>8 DEF Take, IsDead
    <2> QED  BY <2>1 DEF Verdicts, SignalledExecuted, WokenOnlyOnFault, Lost, device
  <1>9. ASSUME NEW r \in Regs, Signal(r) \/ WakeFaulted(r) PROVE Verdicts'
    <2>1. /\ spc = "deliver" /\ UNCHANGED <<spc, memo, device>>
          /\ woken' \subseteq woken /\ faulted' \subseteq faulted
          /\ \/ r \in woken /\ outcome' = [outcome EXCEPT ![r] = "signalled"]
             \/ r \in faulted /\ outcome' = [outcome EXCEPT ![r] = "woken"]
      BY <1>9 DEF Signal, WakeFaulted
    <2> QED  BY <2>1 DEF Verdicts, SignalledExecuted, WokenOnlyOnFault, Lost, TypeOK,
                         device
  <1>10. ASSUME \/ LoadWord \/ Recycle \/ CountOut \/ Delivered
                \/ ProbeFindsNothing \/ ParkGate \/ KeepScanning
                \/ ScannerPanics \/ ParkReturns \/ SpuriousReturn
         PROVE Verdicts'
    <2>1. /\ spc' \notin {"judge", "clear_bit", "take"}
          /\ UNCHANGED <<woken, faulted, device, outcome>>
          /\ memo' = memo \/ memo' = NoVerdicts
      BY <1>10 DEF LoadWord, Recycle, CountOut, Delivered, ProbeFindsNothing,
          ParkGate, KeepScanning, ScannerPanics, ParkReturns, SpuriousReturn,
          NewPass, FreshMemo, AtGate, PassDone, scan
    <2>2. \A st \in Streams : memo'[st] = "dead" => memo[st] = "dead"
      BY <2>1 DEF NoVerdicts
    <2> QED  BY <2>1, <2>2 DEF Verdicts, SignalledExecuted, WokenOnlyOnFault, Lost,
                               device
  <1>11. ASSUME UNCHANGED vars PROVE Verdicts'
    BY <1>11 DEF vars, Verdicts, SignalledExecuted, WokenOnlyOnFault, Lost, table,
                 scan, device
  <1> QED
    BY <1>1, <1>2, <1>3, <1>4, <1>5, <1>6, <1>7, <1>8, <1>9, <1>10, <1>11
       DEF Next, Register, Scanner

-----------------------------------------------------------------------------
(* The armed count *)

\* Adding and removing an element of a finite set, counted.
LEMMA CardLemma ==
    ASSUME NEW S, IsFiniteSet(S), NEW x
    PROVE  /\ Cardinality(S) \in Nat
           /\ x \notin S => Cardinality(S \cup {x}) = Cardinality(S) + 1
           /\ x \in S => Cardinality(S \ {x}) = Cardinality(S) - 1
  BY FS_AddElement, FS_RemoveElement, FS_CardinalityType

AtSetBit == {r \in Regs : pc[r] = "set_bit"}

\* n_armed counts exactly the slots that are armed or not yet counted out:
\* the increment before the bit is set and the decrement after the slots are
\* recycled are never seen out of order.
LEMMA CountStep ==
    ASSUME TypeOK, Ownership, Counted, ArmedCountExact, [Next]_vars
    PROVE  Counted' /\ ArmedCountExact'
  <1> USE ReactorAssumption
  <1>0. /\ IsFiniteSet(active) /\ IsFiniteSet(AtSetBit)
        /\ Cardinality(active) \in Nat /\ Cardinality(AtSetBit) \in Nat
        /\ Len(retired) \in Nat /\ n_retired \in Nat /\ n_armed \in Nat
    BY CountTypes DEF AtSetBit, TypeOK
  <1>a. n_armed = Cardinality(AtSetBit) + Cardinality(active)
                  + (IF spc = "take" THEN 1 ELSE 0) + Len(retired) + n_retired
    BY DEF ArmedCountExact, AtSetBit
  <1>b. ArmedCountExact' <=>
          n_armed' = Cardinality(AtSetBit') + Cardinality(active')
                     + (IF spc' = "take" THEN 1 ELSE 0) + Len(retired') + n_retired'
    BY DEF ArmedCountExact, AtSetBit
  <1>1. ASSUME NEW r \in Regs, CountArmed(r) PROVE Counted' /\ ArmedCountExact'
    <2>1. /\ pc[r] = "count_armed" /\ pc' = [pc EXCEPT ![r] = "set_bit"]
          /\ n_armed' = n_armed + 1
          /\ UNCHANGED <<active, spc, retired, n_retired>>
      BY <1>1 DEF CountArmed, Goto, scan
    <2>2. AtSetBit' = AtSetBit \cup {r} /\ r \notin AtSetBit
      BY <2>1 DEF AtSetBit, TypeOK
    <2>3. Cardinality(AtSetBit') = Cardinality(AtSetBit) + 1
      BY <1>0, <2>2, CardLemma
    <2> QED  BY <1>0, <1>a, <1>b, <2>1, <2>3 DEF Counted
  <1>2. ASSUME NEW r \in Regs, SetBit(r) PROVE Counted' /\ ArmedCountExact'
    <2>1. /\ pc[r] = "set_bit" /\ pc'[r] # "set_bit"
          /\ \A q \in Regs : q # r => pc'[q] = pc[q]
          /\ active' = active \cup {slot[r]}
          /\ UNCHANGED <<n_armed, spc, retired, n_retired>>
      BY <1>2 DEF SetBit, Return, Goto, TypeOK, scan
    <2>2. AtSetBit' = AtSetBit \ {r} /\ r \in AtSetBit
      BY <2>1 DEF AtSetBit
    <2>3. slot[r] \notin active  BY <2>1 DEF Ownership, Owning, Watched
    <2>4. Cardinality(AtSetBit') = Cardinality(AtSetBit) - 1
      BY <1>0, <2>2, CardLemma
    <2>5. Cardinality(active') = Cardinality(active) + 1
      BY <1>0, <2>1, <2>3, CardLemma
    <2> QED  BY <1>0, <1>a, <1>b, <2>1, <2>4, <2>5 DEF Counted
  <1>3. ASSUME NEW r \in Regs, \/ Claim(r) \/ PoolExhausted(r) \/ Reset(r)
                               \/ Arm(r) \/ ArmFails(r) \/ WritePayload(r)
                               \/ Unpark(r)
        PROVE  Counted' /\ ArmedCountExact'
    <2>1. /\ UNCHANGED <<active, n_armed, spc, retired, n_retired>>
          /\ \A q \in Regs : pc'[q] = "set_bit" <=> pc[q] = "set_bit"
      BY <1>3 DEF Claim, PoolExhausted, Reset, Arm, ArmFails, WritePayload,
                  Unpark, Refuse, Return, Goto, TypeOK, table, scan
    <2>2. AtSetBit' = AtSetBit  BY <2>1 DEF AtSetBit
    <2> QED  BY <1>a, <1>b, <2>1, <2>2 DEF Counted
  <1>4. ASSUME ClearBit PROVE Counted' /\ ArmedCountExact'
    <2>1. /\ spc = "clear_bit" /\ spc' = "take" /\ cur \in active
          /\ active' = active \ {cur} /\ AtSetBit' = AtSetBit
          /\ UNCHANGED <<n_armed, retired, n_retired>>
      BY <1>4 DEF ClearBit, Ownership, AtSetBit, regs, scan
    <2>2. Cardinality(active') = Cardinality(active) - 1
      BY <1>0, <2>1, CardLemma
    <2> QED  BY <1>0, <1>a, <1>b, <2>1, <2>2 DEF Counted
  <1>5. ASSUME Take PROVE Counted' /\ ArmedCountExact'
    <2>1. /\ spc = "take" /\ spc' = "scan" /\ cur \in Slots
          /\ retired' = Append(retired, cur) /\ AtSetBit' = AtSetBit
          /\ UNCHANGED <<active, n_armed, n_retired>>
      BY <1>5 DEF Take, Ownership, AtSetBit, regs
    <2>2. Len(retired') = Len(retired) + 1  BY <2>1, PushLemma DEF TypeOK
    <2> QED  BY <1>0, <1>a, <1>b, <2>1, <2>2 DEF Counted
  <1>6. ASSUME Recycle PROVE Counted' /\ ArmedCountExact'
    <2>1. /\ spc = "scan" /\ spc' = "count_out" /\ AtSetBit' = AtSetBit
          /\ retired' = <<>> /\ n_retired' = Len(retired)
          /\ UNCHANGED <<active, n_armed>>
      BY <1>6 DEF Recycle, PassDone, RetiredCount, AtSetBit, regs
    <2>2. n_retired = 0 /\ Len(retired') = 0  BY <2>1 DEF Counted
    <2> QED  BY <1>0, <1>a, <1>b, <2>1, <2>2 DEF Counted
  <1>7. ASSUME CountOut PROVE Counted' /\ ArmedCountExact'
    <2>1. /\ spc = "count_out" /\ spc' = "deliver" /\ AtSetBit' = AtSetBit
          /\ n_armed' = n_armed - n_retired /\ n_retired' = 0
          /\ UNCHANGED <<active, retired>>
      BY <1>7 DEF CountOut, CountedOut, AtSetBit, regs
    <2> QED  BY <1>0, <1>a, <1>b, <2>1 DEF Counted
  <1>8. ASSUME \/ LoadWord \/ ReadFlag \/ JudgeStale \/ BindFails \/ Delivered
               \/ ProbeFindsNothing \/ ParkGate \/ KeepScanning
               \/ ScannerPanics \/ ParkReturns \/ SpuriousReturn
               \/ (\E r \in Regs : Signal(r) \/ WakeFaulted(r))
        PROVE  Counted' /\ ArmedCountExact'
    <2>1. /\ spc \notin {"take", "count_out"} /\ spc' # "take"
          /\ UNCHANGED <<active, n_armed, retired, n_retired, regs>>
      BY <1>8 DEF LoadWord, ReadFlag, JudgeStale, BindFails, Query, Verdict,
          Delivered, ProbeFindsNothing, ParkGate, KeepScanning, ScannerPanics,
          ParkReturns, SpuriousReturn, NewPass, AtGate, PassDone, Signal,
          WakeFaulted, table, scan
    <2>2. AtSetBit' = AtSetBit  BY <2>1 DEF AtSetBit, regs
    <2> QED  BY <1>a, <1>b, <2>1, <2>2 DEF Counted
  <1>9. ASSUME Device \/ UNCHANGED vars PROVE Counted' /\ ArmedCountExact'
    <2>1. UNCHANGED <<active, n_armed, spc, retired, n_retired, regs>>
      BY <1>9 DEF Device, FlagLands, BeginCapture, EndCapture, Fault,
          ProbeTimer, vars, table, scan
    <2>2. AtSetBit' = AtSetBit  BY <2>1 DEF AtSetBit, regs
    <2> QED  BY <1>a, <1>b, <2>1, <2>2 DEF Counted
  <1> QED
    BY <1>1, <1>2, <1>3, <1>4, <1>5, <1>6, <1>7, <1>8, <1>9
       DEF Next, Register, Scanner

\* Whoever raises the armed count from 0 under a sleeping scanner wakes it.
LEMMA WakingStep ==
    ASSUME TypeOK, Waking, [Next]_vars
    PROVE  Waking'
  <1> USE ReactorAssumption
  <1>1. ASSUME NEW r \in Regs, CountArmed(r) PROVE Waking'
    <2>1. /\ pc[r] = "count_armed" /\ pc' = [pc EXCEPT ![r] = "set_bit"]
          /\ was_idle' = [was_idle EXCEPT ![r] = (n_armed = 0)]
          /\ UNCHANGED <<spc, token>>
      BY <1>1 DEF CountArmed, WasIdle, Goto, pacing
    <2>2. n_armed = 0 => WillUnpark(r)'  BY <2>1 DEF WillUnpark, TypeOK
    <2>3. \A q \in Regs : WillUnpark(q) => WillUnpark(q)'
      <3> SUFFICES ASSUME NEW q \in Regs, WillUnpark(q) PROVE WillUnpark(q)'
        OBVIOUS
      <3>1. q # r  BY <2>1 DEF WillUnpark
      <3> QED  BY <2>1, <3>1 DEF WillUnpark, TypeOK
    <2> QED  BY <2>1, <2>2, <2>3 DEF Waking
  <1>2. ASSUME NEW r \in Regs, SetBit(r) PROVE Waking'
    <2>1. UNCHANGED <<spc, token, n_armed>>  BY <1>2 DEF SetBit, pacing
    <2>2. \A q \in Regs : WillUnpark(q) => WillUnpark(q)'
      BY <1>2 DEF SetBit, Return, Goto, WillUnpark, TypeOK
    <2> QED  BY <2>1, <2>2 DEF Waking
  <1>3. ASSUME NEW r \in Regs, Unpark(r) PROVE Waking'
    BY <1>3 DEF Unpark, Waking
  <1>4. ASSUME NEW r \in Regs, \/ Claim(r) \/ PoolExhausted(r) \/ Reset(r)
                               \/ Arm(r) \/ ArmFails(r) \/ WritePayload(r)
        PROVE  Waking'
    <2>1. /\ UNCHANGED <<n_armed, spc, token>>
          /\ pc[r] \notin {"set_bit", "unpark"}
          /\ \A q \in Regs : q # r => pc'[q] = pc[q] /\ was_idle'[q] = was_idle[q]
      BY <1>4 DEF Claim, PoolExhausted, Reset, Arm, ArmFails, WritePayload,
                  Refuse, Return, Goto, TypeOK, table, pacing
    <2>2. \A q \in Regs : WillUnpark(q) => WillUnpark(q)'
      BY <2>1 DEF WillUnpark
    <2> QED  BY <2>1, <2>2 DEF Waking
  <1>5. ASSUME ParkGate PROVE Waking'
    BY <1>5 DEF ParkGate, IsIdle, Waking, table
  <1>6. ASSUME \/ LoadWord \/ ReadFlag \/ JudgeStale \/ BindFails \/ ClearBit
               \/ Take \/ Recycle \/ CountOut \/ Delivered
               \/ ProbeFindsNothing \/ KeepScanning \/ ScannerPanics
               \/ ParkReturns \/ SpuriousReturn
               \/ (\E r \in Regs : Signal(r) \/ WakeFaulted(r))
        PROVE  Waking'
    <2>1. spc' # "park"
      BY <1>6 DEF LoadWord, ReadFlag, JudgeStale, BindFails, Query, Verdict,
          ClearBit, Take, Recycle, CountOut, Delivered, ProbeFindsNothing,
          KeepScanning, ScannerPanics, ParkReturns, SpuriousReturn, NewPass,
          Signal, WakeFaulted
    <2> QED  BY <2>1 DEF Waking
  <1>7. ASSUME Device \/ UNCHANGED vars PROVE Waking'
    <2>1. UNCHANGED <<n_armed, spc, token, regs>>
      BY <1>7 DEF Device, FlagLands, BeginCapture, EndCapture, Fault,
          ProbeTimer, vars, table, pacing
    <2> QED  BY <2>1 DEF Waking, WillUnpark, regs
  <1> QED
    BY <1>1, <1>2, <1>3, <1>4, <1>5, <1>6, <1>7 DEF Next, Register, Scanner

-----------------------------------------------------------------------------
(* The invariant *)

\* A fresh table has every slot on the free list and nothing armed.
LEMMA InitInv == Init => IInv
  <1> SUFFICES ASSUME Init PROVE IInv  OBVIOUS
  <1> USE ReactorAssumption
  <1>1. /\ free \in Seq(Slots) /\ Len(free) = NumSlots
        /\ \A i \in 1..NumSlots : free[i] = NumSlots - i
    <2>1. \A i \in 1..NumSlots : NumSlots - i \in Slots  BY DEF Slots
    <2>2. free = [i \in 1..NumSlots |-> NumSlots - i]  BY DEF Init
    <2> QED  BY <2>1, <2>2
  <1>2. Distinct(free)  BY <1>1 DEF Distinct
  <1>3. Elems(free) = Slots
    <2>1. Elems(free) \subseteq Slots  BY <1>1 DEF Elems, Slots
    <2>2. ASSUME NEW s \in Slots PROVE s \in Elems(free)
      <3>1. NumSlots - s \in 1..NumSlots /\ free[NumSlots - s] = s
        BY <1>1 DEF Slots
      <3> QED  BY <1>1, <3>1 DEF Elems
    <2> QED  BY <2>1, <2>2
  <1>4. retired = <<>> /\ Elems(retired) = {} /\ Distinct(retired)
    BY DEF Init, Elems, Distinct
  <1>5. \A st \in Streams : /\ queue[st] = <<>> /\ Elems(queue[st]) = {}
                            /\ DistinctRegs(queue[st])
    BY DEF Init, Elems, DistinctRegs
  <1>6. TypeOK
    <2>1. queue \in [Streams -> Seq([reg : Regs, addr : Slots])]  BY DEF Init
    <2>2. 0 \in 0..NumWords /\ 0 \in 0..(PassModulus - 1)  BY NumWordsNat
    <2>3. capture \in [Streams -> {"not_yet", "capturing", "ended"}]  BY DEF Init
    <2>4. was_idle \in [Regs -> BOOLEAN]  BY Zenon DEF Init
    <2>5. /\ flag \in [Slots -> {0, 1}] /\ payload \in [Slots -> Regs \cup {None}]
          /\ slot \in [Regs -> Slots \cup {None}] /\ retired \in Seq(Slots)
          /\ memo \in [Streams -> {"unasked", "alive", "dead"}]
      BY DEF Init, NoVerdicts
    <2>6. /\ pc \in [Regs -> {"claim", "reset_flag", "arm", "write_payload",
                             "count_armed", "set_bit", "unpark", "returned"}]
          /\ outcome \in [Regs -> {"none", "refused", "signalled", "woken"}]
      BY DEF Init
    <2>7. /\ spc = "scan" /\ word = 0 /\ bits = {} /\ cur = None /\ landed = FALSE
          /\ n_retired = 0 /\ woken = {} /\ faulted = {} /\ probing = FALSE
          /\ idle_passes = 0 /\ elapsed = FALSE /\ token = FALSE /\ dead = {}
          /\ executed = {} /\ active = {} /\ n_armed = 0
      BY DEF Init
    <2> QED  BY <1>1, <2>1, <2>2, <2>3, <2>4, <2>5, <2>6, <2>7 DEF TypeOK
  <1>7. Ownership
    BY <1>2, <1>3, <1>4 DEF Init, Ownership, Owning, Watched, Taking
  <1>8. Payloads  BY DEF Init, Payloads, Watched, Taking
  <1>9. Writes  BY <1>5 DEF Init, Writes, Owning, Watched, Taking
  <1>10. Verdicts
    BY DEF Init, NoVerdicts, Verdicts, SignalledExecuted, WokenOnlyOnFault
  <1>11. ArmedCountExact
    <2>1. {r \in Regs : pc[r] = "set_bit"} = {} /\ active = {}  BY DEF Init
    <2>2. Cardinality({r \in Regs : pc[r] = "set_bit"}) = 0 /\ Cardinality(active) = 0
      BY <2>1, FS_EmptySet
    <2> QED  BY <1>4, <2>2 DEF Init, ArmedCountExact
  <1>12. Counted /\ Waking  BY DEF Init, Counted, Waking
  <1> QED  BY <1>6, <1>7, <1>8, <1>9, <1>10, <1>11, <1>12 DEF IInv

\* Every reachable state of the reactor satisfies the inductive invariant.
THEOREM Invariance == Spec => []IInv
  <1>1. IInv /\ [Next]_vars => IInv'
    BY TypeStep, OwnershipStep, PayloadsStep, WritesStep, VerdictsStep,
       CountStep, WakingStep DEF IInv
  <1> QED  BY InitInv, <1>1, PTL DEF Spec

\* Every variable keeps its type; the armed count never underflows.
THEOREM TypeCorrect == Spec => []TypeOK
  BY Invariance, PTL DEF IInv

\* A future is marked complete only after its own flag write has executed,
\* however often its slot was used before.
THEOREM CompletionSound == Spec => []SignalledExecuted
  <1>1. IInv => SignalledExecuted  BY DEF IInv, Verdicts
  <1> QED  BY Invariance, <1>1, PTL

\* A future is woken uncompleted only on a context that has faulted.
THEOREM FaultSound == Spec => []WokenOnlyOnFault
  <1>1. IInv => WokenOnlyOnFault  BY DEF IInv, Verdicts
  <1> QED  BY Invariance, <1>1, PTL

\* The lock-free payload cells are never accessed by two threads at once.
THEOREM RaceFree == Spec => []NoPayloadRace
  <1>1. IInv => NoPayloadRace
    <2> SUFFICES ASSUME IInv PROVE NoPayloadRace  OBVIOUS
    <2>1. spc \in {"judge", "clear_bit", "take"} => cur \in Watched
      BY DEF IInv, Ownership, Watched, Taking
    <2>2. \A s \in Watched : payload[s] # None
      BY ReactorAssumption DEF IInv, Payloads
    <2>3. \A r \in Regs : pc[r] = "write_payload" => Owning(r)  BY DEF Owning
    <2> QED  BY <2>1, <2>2, <2>3 DEF IInv, Ownership, NoPayloadRace
  <1> QED  BY Invariance, <1>1, PTL

\* The armed count equals the slots it stands for at every moment.
THEOREM CountSound == Spec => []ArmedCountExact
  BY Invariance, PTL DEF IInv

\* The scanner never sleeps on an armed slot without a wake-up on its way.
THEOREM UnparkSound == Spec => []NoLostUnpark
  <1>1. IInv => NoLostUnpark
    <2> SUFFICES ASSUME IInv, spc = "park", active # {}
                 PROVE  token \/ \E r \in Regs : WillUnpark(r)
      BY DEF NoLostUnpark, WillUnpark
    <2>1. IsFiniteSet(active) /\ Cardinality(active) \in Nat /\ Cardinality(active) # 0
      BY CountTypes, FS_EmptySet DEF IInv
    <2>2. n_armed # 0  BY <2>1, CountTypes DEF IInv, ArmedCountExact
    <2> QED  BY <2>2 DEF IInv, Waking
  <1> QED  BY Invariance, <1>1, PTL

\* No step changes the fate of a registration once it is decided.
THEOREM DecisionFinal == Spec => DecidedOnce
  <1> DEFINE Kept == \A r \in Regs : outcome[r] # "none" => outcome'[r] = outcome[r]
  <1>1. IInv /\ [Next]_vars => [Kept]_vars
    <2> SUFFICES ASSUME IInv, Next PROVE Kept  OBVIOUS
    <2>1. CASE \E r \in Regs : PoolExhausted(r) \/ ArmFails(r)
      <3>1. PICK r \in Regs : PoolExhausted(r) \/ ArmFails(r)  BY <2>1
      <3>2. outcome[r] = "none" /\ outcome' = [outcome EXCEPT ![r] = "refused"]
        BY <3>1 DEF PoolExhausted, ArmFails, Refuse, IInv, Payloads, Published
      <3> QED  BY <3>2 DEF IInv, TypeOK
    <2>2. CASE \E r \in Regs : Signal(r) \/ WakeFaulted(r)
      <3>1. PICK r \in Regs : Signal(r) \/ WakeFaulted(r)  BY <2>2
      <3>2. /\ outcome[r] = "none"
            /\ \A q \in Regs : q # r => outcome'[q] = outcome[q]
        BY <3>1 DEF Signal, WakeFaulted, IInv, Payloads, TypeOK
      <3> QED  BY <3>2
    <2>3. CASE UNCHANGED outcome  BY <2>3
    <2> QED
      BY <2>1, <2>2, <2>3 DEF Next, Register, Device, Scanner, Claim, Reset,
        Arm, WritePayload, CountArmed, SetBit, Unpark, FlagLands, BeginCapture,
        EndCapture, Fault, ProbeTimer, LoadWord, ReadFlag, JudgeStale,
        BindFails, ClearBit, Take, Recycle, CountOut, Delivered,
        ProbeFindsNothing, ParkGate, KeepScanning, ScannerPanics, ParkReturns,
        SpuriousReturn, NewPass
  <1> QED  BY Invariance, <1>1, PTL DEF Spec, DecidedOnce

\* How often a slot occurs on a list without repetitions.
LEMMA OnceLemma ==
    ASSUME NEW S, NEW q \in Seq(S), Distinct(q), NEW s
    PROVE  Cardinality({i \in DOMAIN q : q[i] = s}) = IF s \in Elems(q) THEN 1 ELSE 0
  <1>1. DOMAIN q = 1..Len(q)  OBVIOUS
  <1>2. CASE s \in Elems(q)
    <2>1. PICK k \in 1..Len(q) : q[k] = s  BY <1>2 DEF Elems
    <2>2. {i \in DOMAIN q : q[i] = s} = {k}  BY <1>1, <2>1 DEF Distinct
    <2> QED  BY <1>2, <2>2, FS_Singleton
  <1>3. CASE s \notin Elems(q)
    <2>1. {i \in DOMAIN q : q[i] = s} = {}  BY <1>1, <1>3 DEF Elems
    <2> QED  BY <1>3, <2>1, FS_EmptySet
  <1> QED  BY <1>2, <1>3

\* No slot is ever lost, handed out twice or recycled twice.
THEOREM SlotsSound == Spec => []SlotsConserved
  <1>1. IInv => SlotsConserved
    <2> SUFFICES ASSUME IInv, NEW s \in Slots PROVE Places(s) = 1
      BY DEF SlotsConserved
    <2> DEFINE f == Cardinality({i \in DOMAIN free : free[i] = s})
               o == Cardinality({r \in Regs : Owns(r, s)})
               d == Cardinality({i \in DOMAIN retired : retired[i] = s})
               owned == \E r \in Regs : Owning(r) /\ slot[r] = s
    <2>1. f = IF s \in Elems(free) THEN 1 ELSE 0
      BY OnceLemma DEF IInv, TypeOK, Ownership
    <2>2. d = IF s \in Elems(retired) THEN 1 ELSE 0
      BY OnceLemma DEF IInv, TypeOK, Ownership
    <2>3. o = IF owned THEN 1 ELSE 0
      <3>1. CASE owned
        <4>1. PICK r \in Regs : Owning(r) /\ slot[r] = s  BY <3>1
        <4>2. {q \in Regs : Owns(q, s)} = {r}
          BY <4>1 DEF IInv, Ownership, Owns, Owning
        <4> QED  BY <3>1, <4>2, FS_Singleton
      <3>2. CASE ~owned
        <4>1. {q \in Regs : Owns(q, s)} = {}  BY <3>2 DEF Owns, Owning
        <4> QED  BY <3>2, <4>1, FS_EmptySet
      <3> QED  BY <3>1, <3>2
    <2>4. Places(s) = f + o + (IF s \in active THEN 1 ELSE 0)
                      + (IF spc = "take" /\ cur = s THEN 1 ELSE 0) + d
      BY DEF Places
    <2> DEFINE inF == s \in Elems(free)
               inR == s \in Elems(retired)
               inT == spc = "take" /\ cur = s
               inA == s \in active
    <2>5. /\ inF \/ inR \/ inA \/ inT \/ owned
          /\ ~(inF /\ inR) /\ ~(inF /\ inA) /\ ~(inF /\ inT)
          /\ ~(inR /\ inA) /\ ~(inR /\ inT) /\ ~(inA /\ inT)
          /\ owned => ~inF /\ ~inR /\ ~inA /\ ~inT
      BY DEF IInv, Ownership, Watched, Taking
    <2> HIDE DEF f, o, d, owned, inF, inR, inT, inA
    <2>6. Places(s) = (IF inF THEN 1 ELSE 0) + (IF owned THEN 1 ELSE 0)
                      + (IF inA THEN 1 ELSE 0) + (IF inT THEN 1 ELSE 0)
                      + (IF inR THEN 1 ELSE 0)
      BY <2>1, <2>2, <2>3, <2>4 DEF inF, inR, inT, inA
    <2> QED  BY <2>5, <2>6
  <1> QED  BY Invariance, <1>1, PTL

-----------------------------------------------------------------------------
(* The reactor implements the completion service *)

\* One registration moves from one abstract phase to another.
LEMMA PhaseStep ==
    ASSUME TypeOK, NEW r \in Regs,
           \A q \in Regs : q # r => phase'[q] = phase[q]
    PROVE  phase' = [phase EXCEPT ![r] = phase'[r]]
  BY DEF phase

\* Every behaviour of the reactor is, seen through `phase`, a behaviour of
\* the completion service that DeviceFuture relies on.
THEOREM Refinement == Spec => ImplementsCompletion
  <1>1. Init => Service!Init
    BY DEF Init, Service!Init, phase
  <1>2. IInv /\ [Next]_vars => [Service!Next]_(Service!cvars)
    <2> SUFFICES ASSUME IInv, [Next]_vars
                 PROVE  Service!Next \/ UNCHANGED <<phase, executed, dead>>
      BY DEF Service!cvars
    <2> USE ReactorAssumption
    <2>1. ASSUME NEW r \in Regs, Arm(r) PROVE Service!Next
      <3>1. /\ pc[r] = "arm" /\ pc' = [pc EXCEPT ![r] = "write_payload"]
            /\ UNCHANGED <<outcome, executed, dead>> /\ outcome[r] = "none"
        BY <2>1 DEF Arm, Goto, IInv, Payloads, Published
      <3>2. phase[r] = "new" /\ phase'[r] = "submitted"
        BY <3>1 DEF phase, IInv, TypeOK
      <3>3. \A q \in Regs : q # r => phase'[q] = phase[q]
        BY <3>1 DEF phase, IInv, TypeOK
      <3>4. Service!Submit(r)
        BY <3>1, <3>2, <3>3, PhaseStep DEF Service!Submit, Service!Move, IInv
      <3> QED  BY <3>4 DEF Service!Next
    <2>2. ASSUME NEW r \in Regs, PoolExhausted(r) \/ ArmFails(r)
          PROVE  Service!Next
      <3>1. /\ pc[r] \in {"claim", "arm"} /\ pc' = [pc EXCEPT ![r] = "returned"]
            /\ outcome' = [outcome EXCEPT ![r] = "refused"] /\ outcome[r] = "none"
            /\ UNCHANGED <<executed, dead>>
        BY <2>2 DEF PoolExhausted, ArmFails, Refuse, Return, Goto, IInv,
                    Payloads, Published, device
      <3>2. phase[r] = "new" /\ phase'[r] = "refused"
        BY <3>1 DEF phase, IInv, TypeOK
      <3>3. \A q \in Regs : q # r => phase'[q] = phase[q]
        BY <3>1 DEF phase, IInv, TypeOK
      <3>4. Service!Refuse(r)
        BY <3>1, <3>2, <3>3, PhaseStep DEF Service!Refuse, Service!Move, IInv
      <3> QED  BY <3>4 DEF Service!Next
    <2>3. ASSUME NEW r \in Regs, Signal(r) PROVE Service!Next
      <3>1. /\ outcome' = [outcome EXCEPT ![r] = "signalled"]
            /\ UNCHANGED <<pc, executed, dead>>
            /\ outcome[r] = "none" /\ pc[r] \in Published /\ r \in executed
        BY <2>3 DEF Signal, IInv, Payloads, Verdicts, SignalledExecuted, regs,
                    device
      <3>2. phase[r] = "submitted" /\ phase'[r] = "signalled"
        BY <3>1 DEF phase, IInv, TypeOK, Published
      <3>3. \A q \in Regs : q # r => phase'[q] = phase[q]
        BY <3>1 DEF phase, IInv, TypeOK
      <3>4. Service!Signal(r)
        BY <3>1, <3>2, <3>3, PhaseStep DEF Service!Signal, Service!Move, IInv
      <3> QED  BY <3>4 DEF Service!Next
    <2>4. ASSUME NEW r \in Regs, WakeFaulted(r) PROVE Service!Next
      <3>1. /\ outcome' = [outcome EXCEPT ![r] = "woken"]
            /\ UNCHANGED <<pc, executed, dead>>
            /\ outcome[r] = "none" /\ pc[r] \in Published
            /\ ContextOf[StreamOf[r]] \in dead
        BY <2>4 DEF WakeFaulted, IInv, Payloads, Verdicts, WokenOnlyOnFault,
                    Lost, regs, device
      <3>2. phase[r] = "submitted" /\ phase'[r] = "woken"
        BY <3>1 DEF phase, IInv, TypeOK, Published
      <3>3. \A q \in Regs : q # r => phase'[q] = phase[q]
        BY <3>1 DEF phase, IInv, TypeOK
      <3>4. Service!Wake(r)
        BY <3>1, <3>2, <3>3, PhaseStep
        DEF Service!Wake, Service!Alive, Service!Move, IInv
      <3> QED  BY <3>4 DEF Service!Next
    <2>5. ASSUME NEW st \in Streams, FlagLands(st) PROVE Service!Next
      <3> DEFINE r == Head(queue[st]).reg
      <3>1. Head(queue[st]) \in Elems(queue[st])
        BY <2>5, TailLemma, QueueTypes DEF FlagLands, IInv
      <3>2. /\ r \in Regs /\ StreamOf[r] = st /\ r \notin executed
            /\ pc[r] \notin Unarmed
            /\ \/ Owning(r)
               \/ \E a \in Watched : payload[a] = r
        BY <2>5, <3>1, QueueTypes DEF FlagLands, IInv, Writes
      <3>3. /\ executed' = executed \cup {r} /\ ContextOf[st] \notin dead
            /\ UNCHANGED <<dead, pc, outcome>>
        BY <2>5 DEF FlagLands, regs
      <3> HIDE DEF r
      <3>4. outcome[r] = "none"
        BY <3>2 DEF IInv, Payloads, Owning, Published
      <3>5. phase[r] = "submitted" /\ phase' = phase
        BY <3>2, <3>3, <3>4 DEF phase, Unarmed
      <3>6. Service!Execute(r)
        BY <3>2, <3>3, <3>5 DEF Service!Execute, Service!Alive
      <3> QED  BY <3>2, <3>6 DEF Service!Next
    <2>6. ASSUME NEW c \in Contexts, Fault(c) PROVE Service!Next
      <3>1. dead' = dead \cup {c} /\ UNCHANGED <<pc, outcome, executed>>
        BY <2>6 DEF Fault, regs
      <3>2. Service!Fault(c)  BY <3>1 DEF Service!Fault, phase
      <3> QED  BY <3>2 DEF Service!Next
    <2>7. ASSUME NEW r \in Regs, \/ Claim(r) \/ Reset(r) \/ WritePayload(r)
                                 \/ CountArmed(r) \/ SetBit(r) \/ Unpark(r)
          PROVE  UNCHANGED <<phase, executed, dead>>
      <3>1. /\ UNCHANGED <<outcome, executed, dead>>
            /\ \A q \in Regs : pc'[q] \in {"claim", "reset_flag", "arm"} <=>
                                pc[q] \in {"claim", "reset_flag", "arm"}
        BY <2>7 DEF Claim, Reset, WritePayload, CountArmed, SetBit, Unpark,
                    Return, Goto, IInv, TypeOK, device
      <3> QED  BY <3>1 DEF phase
    <2>8. ASSUME UNCHANGED <<pc, outcome, executed, dead>>
          PROVE  UNCHANGED <<phase, executed, dead>>
      BY <2>8 DEF phase
    <2>9. ASSUME \/ LoadWord \/ ReadFlag \/ JudgeStale \/ BindFails \/ ClearBit
                 \/ Take \/ Recycle \/ CountOut \/ Delivered
                 \/ ProbeFindsNothing \/ ParkGate \/ KeepScanning
                 \/ ScannerPanics \/ ParkReturns \/ SpuriousReturn
          PROVE  UNCHANGED <<pc, outcome, executed, dead>>
      BY <2>9 DEF LoadWord, ReadFlag, JudgeStale, BindFails, ClearBit, Take,
          Recycle, CountOut, Delivered, ProbeFindsNothing, ParkGate,
          KeepScanning, ScannerPanics, ParkReturns, SpuriousReturn, NewPass,
          regs, device
    <2>10. ASSUME \/ ProbeTimer \/ UNCHANGED vars
                  \/ (\E st \in Streams : BeginCapture(st) \/ EndCapture(st))
           PROVE  UNCHANGED <<pc, outcome, executed, dead>>
      BY <2>10 DEF ProbeTimer, BeginCapture, EndCapture, vars, regs, device
    <2> QED
      BY <2>1, <2>2, <2>3, <2>4, <2>5, <2>6, <2>7, <2>8, <2>9, <2>10
         DEF Next, Register, Device, Scanner
  <1> QED
    BY Invariance, <1>1, <1>2, PTL
    DEF Spec, ImplementsCompletion, Service!Spec
=============================================================================
