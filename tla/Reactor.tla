------------------------------ MODULE Reactor ------------------------------
(***************************************************************************)
(* The flag-write completion reactor of cuda-async: the slot table          *)
(* (slot_table.rs) and its CUDA binding (reactor.rs).                       *)
(*                                                                          *)
(* Every member of Regs is one call of `register`, on a thread of its own:  *)
(* it claims a slot, clears the slot's flag, enqueues a device write of 1   *)
(* to the flag, writes its payload, counts itself armed, sets its bit and   *)
(* perhaps unparks the scanner.  The device runs each stream's flag writes  *)
(* in order, unless the stream's context has faulted.  One scanner thread   *)
(* runs `scan_loop`.  A step is one access to shared memory (an atomic, the *)
(* free-list mutex, a payload cell, a driver call); everything between two  *)
(* of them is local.  Memory is sequentially consistent here; the orderings *)
(* of the atomics themselves are the subject of the repository's loom test. *)
(***************************************************************************)
EXTENDS Integers, Sequences, FiniteSets

CONSTANTS
    Regs,         \* the calls of `register`
    Streams,      \* CUDA streams
    Contexts,     \* CUDA contexts; a fault kills a whole context
    StreamOf,     \* the stream each registration is made on
    ContextOf,    \* the context each stream belongs to
    NumSlots,     \* NUM_SLOTS: 1024 in the code
    WordBits,     \* slots per bitmap word: 64 in the code
    SpinPasses,   \* SPIN_PASSES: 10_000 in the code
    PassModulus,  \* 2^32: idle_passes is a u32
    OverflowChecks, \* the build traps integer overflow (the dev profile does)
    Capturable,   \* streams some thread records a graph on, once
    None          \* an empty payload cell, an unset slot, no slot at hand

ASSUME ReactorAssumption ==
    /\ StreamOf \in [Regs -> Streams]
    /\ ContextOf \in [Streams -> Contexts]
    /\ IsFiniteSet(Regs) /\ NumSlots \in Nat /\ WordBits \in Nat \ {0}
    /\ SpinPasses \in Nat /\ PassModulus \in Nat \ {0}
    /\ SpinPasses < PassModulus /\ OverflowChecks \in BOOLEAN
    /\ Capturable \subseteq Streams
    /\ None \notin Regs /\ None \notin 0..(NumSlots - 1)

Slots == 0..(NumSlots - 1)
NumWords == (NumSlots + WordBits - 1) \div WordBits
SlotsOfWord(w) == {s \in Slots : s \div WordBits = w}

VARIABLES
    (* the slot table, shared by every thread *)
    free,       \* the free list, a stack: `claim` pops its end
    flag,       \* the pinned completion flags the device writes
    active,     \* the active-slot bitmap, as the set of set bits
    payload,    \* the payload cells
    n_armed,    \* slots armed and not yet retired
    (* the registrants *)
    pc,         \* where each `register` call is
    slot,       \* the slot it claimed
    was_idle,   \* what its `publish` reported
    (* the scanner *)
    spc,        \* where the scanner is
    word,       \* the bitmap word being scanned
    bits,       \* bits of that word still to visit
    cur,        \* the slot at hand
    landed,     \* its flag read 1
    retired,    \* slots retired in this pass, not yet recycled
    n_retired,  \* slots recycled and not yet subtracted from n_armed
    woken,      \* registrations to signal (moved here, so never twice)
    faulted,    \* registrations to wake without completing
    probing,    \* this pass judges stale slots
    memo,       \* this probe's verdict on each stream it has asked about
    idle_passes, elapsed, token, \* spin count, probe timer, park token
    (* the device and the driver *)
    queue,      \* per stream, the flag writes not yet executed
    dead,       \* faulted contexts
    capture,    \* per stream: not yet, being, or no longer captured
    (* what the futures see *)
    outcome,    \* none, refused (register failed), signalled, woken
    executed    \* history: registrations whose flag write has executed

table == <<free, flag, active, payload, n_armed>>
regs == <<pc, slot, was_idle>>
scan == <<word, bits, cur, landed, retired, n_retired, woken, faulted,
          probing, memo>>
pacing == <<idle_passes, elapsed, token>>
device == <<queue, dead, capture, executed>>
vars == <<table, regs, spc, scan, pacing, device, outcome>>

NoVerdicts == [st \in Streams |-> "unasked"]

Init ==
    /\ free = [i \in 1..NumSlots |-> NumSlots - i]
    /\ flag = [s \in Slots |-> 0]
    /\ active = {}
    /\ payload = [s \in Slots |-> None]
    /\ n_armed = 0
    /\ pc = [r \in Regs |-> "claim"]
    /\ slot = [r \in Regs |-> None]
    /\ was_idle = [r \in Regs |-> FALSE]
    /\ spc = "scan" /\ word = 0 /\ bits = {} /\ cur = None /\ landed = FALSE
    /\ retired = <<>> /\ n_retired = 0 /\ woken = {} /\ faulted = {}
    /\ probing = FALSE /\ memo = NoVerdicts
    /\ idle_passes = 0 /\ elapsed = FALSE /\ token = FALSE
    /\ queue = [st \in Streams |-> <<>>]
    /\ dead = {}
    /\ capture = [st \in Streams |-> IF st \in Capturable THEN "not_yet" ELSE "ended"]
    /\ outcome = [r \in Regs |-> "none"]
    /\ executed = {}

-----------------------------------------------------------------------------
(* register *)

(* The operations of the slot table.  A definition called Mutant... is a
   plausible bug in the operation that follows it; no action uses it. *)
MutantPop == free
Pop == SubSeq(free, 1, Len(free) - 1)
MutantRelease(s) == free
Release(s) == Append(free, s)
MutantResetFlag(s) == flag
ResetFlag(s) == [flag EXCEPT ![s] = 0]
MutantIsIdle == retired = <<>>
IsIdle == n_armed = 0
MutantWasIdle == n_armed = 1
WasIdle == n_armed = 0

Goto(r, l) == pc' = [pc EXCEPT ![r] = l]

Return(r) ==
    /\ Goto(r, "returned")
    /\ slot' = [slot EXCEPT ![r] = None]
    /\ was_idle' = [was_idle EXCEPT ![r] = FALSE]

Refuse(r) == Return(r) /\ outcome' = [outcome EXCEPT ![r] = "refused"]

Claim(r) ==
    /\ pc[r] = "claim"
    /\ Len(free) > 0
    /\ slot' = [slot EXCEPT ![r] = free[Len(free)]]
    /\ free' = Pop
    /\ Goto(r, "reset_flag")
    /\ UNCHANGED <<flag, active, payload, n_armed, was_idle, spc, scan,
                   pacing, device, outcome>>

PoolExhausted(r) ==
    /\ pc[r] = "claim"
    /\ Len(free) = 0
    /\ Refuse(r)
    /\ UNCHANGED <<table, spc, scan, pacing, device>>

Reset(r) ==
    /\ pc[r] = "reset_flag"
    /\ flag' = ResetFlag(slot[r])
    /\ Goto(r, "arm")
    /\ UNCHANGED <<free, active, payload, n_armed, slot, was_idle, spc, scan,
                   pacing, device, outcome>>

\* cuStreamWriteValue32 accepted: the write follows the stream's earlier work.
Arm(r) ==
    /\ pc[r] = "arm"
    /\ queue' = [queue EXCEPT ![StreamOf[r]] =
                   Append(@, [reg |-> r, addr |-> slot[r]])]
    /\ Goto(r, "write_payload")
    /\ UNCHANGED <<table, slot, was_idle, spc, scan, pacing, dead, capture,
                   executed, outcome>>

\* cuStreamWriteValue32 refused: the slot goes back unpublished.
ArmFails(r) ==
    /\ pc[r] = "arm"
    /\ free' = Release(slot[r])
    /\ Refuse(r)
    /\ UNCHANGED <<flag, active, payload, n_armed, spc, scan, pacing, device>>

WritePayload(r) ==
    /\ pc[r] = "write_payload"
    /\ payload' = [payload EXCEPT ![slot[r]] = r]
    /\ Goto(r, "count_armed")
    /\ UNCHANGED <<free, flag, active, n_armed, slot, was_idle, spc, scan,
                   pacing, device, outcome>>

CountArmed(r) ==
    /\ pc[r] = "count_armed"
    /\ was_idle' = [was_idle EXCEPT ![r] = WasIdle]
    /\ n_armed' = n_armed + 1
    /\ Goto(r, "set_bit")
    /\ UNCHANGED <<free, flag, active, payload, slot, spc, scan, pacing,
                   device, outcome>>

SetBit(r) ==
    /\ pc[r] = "set_bit"
    /\ active' = active \cup {slot[r]}
    /\ IF was_idle[r]
       THEN Goto(r, "unpark") /\ UNCHANGED <<slot, was_idle>>
       ELSE Return(r)
    /\ UNCHANGED <<free, flag, payload, n_armed, spc, scan, pacing, device,
                   outcome>>

Unpark(r) ==
    /\ pc[r] = "unpark"
    /\ token' = TRUE
    /\ Return(r)
    /\ UNCHANGED <<table, spc, scan, idle_passes, elapsed, device, outcome>>

Register(r) ==
    \/ Claim(r) \/ PoolExhausted(r) \/ Reset(r) \/ Arm(r) \/ ArmFails(r)
    \/ WritePayload(r) \/ CountArmed(r) \/ SetBit(r) \/ Unpark(r)

-----------------------------------------------------------------------------
(* The device and its driver (external) *)

\* The head of a live stream's queue executes: its slot's flag becomes 1.
FlagLands(st) ==
    /\ queue[st] # <<>>
    /\ ContextOf[st] \notin dead
    /\ flag' = [flag EXCEPT ![Head(queue[st]).addr] = 1]
    /\ executed' = executed \cup {Head(queue[st]).reg}
    /\ queue' = [queue EXCEPT ![st] = Tail(@)]
    /\ UNCHANGED <<free, active, payload, n_armed, regs, spc, scan, pacing,
                   dead, capture, outcome>>

\* A sticky fault: nothing on the context ever executes again.
Fault(c) ==
    /\ c \notin dead
    /\ dead' = dead \cup {c}
    /\ UNCHANGED <<table, regs, spc, scan, pacing, queue, capture, executed,
                   outcome>>

\* Another thread records a graph on the stream, which a dead one refuses.
BeginCapture(st) ==
    /\ capture[st] = "not_yet" /\ ContextOf[st] \notin dead
    /\ capture' = [capture EXCEPT ![st] = "capturing"]
    /\ UNCHANGED <<table, regs, spc, scan, pacing, queue, dead, executed,
                   outcome>>

EndCapture(st) ==
    /\ capture[st] = "capturing"
    /\ capture' = [capture EXCEPT ![st] = "ended"]
    /\ UNCHANGED <<table, regs, spc, scan, pacing, queue, dead, executed,
                   outcome>>

\* STALE_PROBE_INTERVAL has passed since `last_probe`.
ProbeTimer ==
    /\ ~elapsed
    /\ elapsed' = TRUE
    /\ UNCHANGED <<table, regs, spc, scan, idle_passes, token, device, outcome>>

Device ==
    \/ \E st \in Streams : FlagLands(st) \/ BeginCapture(st) \/ EndCapture(st)
    \/ \E c \in Contexts : Fault(c)
    \/ ProbeTimer

-----------------------------------------------------------------------------
(* scan_inner: one pass over the bitmap *)

LoadWord ==
    /\ spc = "scan" /\ bits = {} /\ word < NumWords
    /\ bits' = active \cap SlotsOfWord(word)
    /\ word' = word + 1
    /\ UNCHANGED <<table, regs, spc, cur, landed, retired, n_retired, woken,
                   faulted, probing, memo, pacing, device, outcome>>

\* The lowest bit left: a slot whose flag reads 1 is retired, any other one
\* is judged when this pass probes and left armed when it does not.
ReadFlag ==
    /\ spc = "scan"
    /\ \E s \in bits :
        /\ \A t \in bits : s <= t
        /\ bits' = bits \ {s}
        /\ IF flag[s] = 1 \/ probing
           THEN cur' = s /\ landed' = (flag[s] = 1)
           ELSE UNCHANGED <<cur, landed>>
        /\ spc' = IF flag[s] = 1 THEN "clear_bit"
                  ELSE IF probing THEN "judge" ELSE "scan"
    /\ UNCHANGED <<table, regs, word, retired, n_retired, woken, faulted,
                   probing, memo, pacing, device, outcome>>

MutantStreamIsFaulted(st) == ContextOf[st] \in dead \/ queue[st] # <<>>
\* probe_stream reports an error: a capturing or busy stream is not faulted.
StreamIsFaulted(st) == ContextOf[st] \in dead /\ capture[st] # "capturing"

\* The verdict on the slot at hand: retire it, or leave it armed.
Verdict(is_dead) ==
    /\ spc' = IF is_dead THEN "clear_bit" ELSE "scan"
    /\ cur' = IF is_dead THEN cur ELSE None

\* The stream of the payload at hand, queried at most once per probe.
Query(st, is_dead) ==
    /\ memo[st] = "unasked"
    /\ memo' = [memo EXCEPT ![st] = IF is_dead THEN "dead" ELSE "alive"]
    /\ Verdict(is_dead)

JudgeStale ==
    /\ spc = "judge"
    /\ IF payload[cur] = None THEN Verdict(FALSE) /\ UNCHANGED memo
       ELSE LET st == StreamOf[payload[cur]] IN
            \/ /\ memo[st] # "unasked" /\ UNCHANGED memo
               /\ Verdict(memo[st] = "dead")
            \/ Query(st, StreamIsFaulted(st))
    /\ UNCHANGED <<table, regs, word, bits, landed, retired, n_retired,
                   woken, faulted, probing, pacing, device, outcome>>

\* The device cannot be bound on this thread: the slot stays armed.
BindFails ==
    /\ spc = "judge"
    /\ payload[cur] # None
    /\ Query(StreamOf[payload[cur]], FALSE)
    /\ UNCHANGED <<table, regs, word, bits, landed, retired, n_retired,
                   woken, faulted, probing, pacing, device, outcome>>

ClearBit ==
    /\ spc = "clear_bit"
    /\ active' = active \ {cur}
    /\ spc' = "take"
    /\ UNCHANGED <<free, flag, payload, n_armed, regs, scan, pacing, device,
                   outcome>>

MutantIsDead == probing
IsDead == ~landed

Take ==
    /\ spc = "take"
    /\ payload' = [payload EXCEPT ![cur] = None]
    /\ retired' = Append(retired, cur)
    /\ woken' = IF landed /\ payload[cur] # None
                THEN woken \cup {payload[cur]} ELSE woken
    /\ faulted' = IF IsDead /\ payload[cur] # None
                  THEN faulted \cup {payload[cur]} ELSE faulted
    /\ spc' = "scan" /\ cur' = None /\ landed' = FALSE
    /\ UNCHANGED <<free, flag, active, n_armed, regs, word, bits, n_retired,
                   probing, memo, pacing, device, outcome>>

PassDone == spc = "scan" /\ bits = {} /\ word = NumWords

MutantRetiredCount == Len(<<>>)
RetiredCount == Len(retired)
MutantCountedOut == n_armed
MutantCountedTwice == n_armed - 2 * n_retired
CountedOut == n_armed - n_retired

\* Retired slots are recycled before they are counted out of n_armed.
Recycle ==
    /\ PassDone /\ retired # <<>>
    /\ free' = free \o retired
    /\ n_retired' = RetiredCount
    /\ retired' = <<>>
    /\ spc' = "count_out"
    /\ UNCHANGED <<flag, active, payload, n_armed, regs, word, bits, cur,
                   landed, woken, faulted, probing, memo, pacing, device,
                   outcome>>

CountOut ==
    /\ spc = "count_out"
    /\ n_armed' = CountedOut
    /\ n_retired' = 0
    /\ spc' = "deliver"
    /\ UNCHANGED <<free, flag, active, payload, regs, word, bits, cur, landed,
                   retired, woken, faulted, probing, memo, pacing, device,
                   outcome>>

-----------------------------------------------------------------------------
(* scan_loop *)

Signal(r) ==
    /\ spc = "deliver"
    /\ r \in woken
    /\ outcome' = [outcome EXCEPT ![r] = "signalled"]
    /\ woken' = woken \ {r}
    /\ UNCHANGED <<table, regs, spc, word, bits, cur, landed, retired,
                   n_retired, faulted, probing, memo, pacing, device>>

WakeFaulted(r) ==
    /\ spc = "deliver"
    /\ woken = {} /\ r \in faulted
    /\ outcome' = [outcome EXCEPT ![r] = "woken"]
    /\ faulted' = faulted \ {r}
    /\ UNCHANGED <<table, regs, spc, word, bits, cur, landed, retired,
                   n_retired, woken, probing, memo, pacing, device>>

MutantFreshMemo == memo
FreshMemo == NoVerdicts

NewPass(probe) ==
    /\ word' = 0 /\ spc' = "scan"
    /\ probing' = probe /\ memo' = FreshMemo
    /\ UNCHANGED <<table, regs, bits, cur, landed, retired, n_retired, woken,
                   faulted, device, outcome>>

\* Everyone this pass retired has been told; a probing pass is not progress.
Delivered ==
    /\ spc = "deliver"
    /\ woken = {} /\ faulted = {}
    /\ idle_passes' = IF probing THEN idle_passes ELSE 0
    /\ NewPass(FALSE)
    /\ UNCHANGED <<elapsed, token>>

ProbeFindsNothing ==
    /\ PassDone /\ retired = <<>> /\ probing
    /\ NewPass(FALSE)
    /\ UNCHANGED pacing

\* A plain pass that retired nothing ends at the park gate, `is_idle`.
AtGate == PassDone /\ retired = <<>> /\ ~probing

ParkGate ==
    /\ AtGate /\ IsIdle
    /\ spc' = "park"
    /\ UNCHANGED <<table, regs, scan, pacing, device, outcome>>

\* Something is armed: spin, yield, or probe when the interval has passed.
KeepScanning ==
    /\ AtGate /\ ~IsIdle
    /\ OverflowChecks => idle_passes + 1 < PassModulus
    /\ idle_passes' = (idle_passes + 1) % PassModulus
    /\ LET probe == idle_passes' >= SpinPasses /\ elapsed IN
        /\ NewPass(probe)
        /\ elapsed' = IF probe THEN FALSE ELSE elapsed
    /\ UNCHANGED token

\* `idle_passes += 1` overflows and panics: the reactor thread is gone.
ScannerPanics ==
    /\ AtGate /\ ~IsIdle
    /\ OverflowChecks /\ idle_passes + 1 = PassModulus
    /\ spc' = "panicked"
    /\ UNCHANGED <<table, regs, scan, pacing, device, outcome>>

\* thread::park returns at once when the token is there, and takes it.
ParkReturns ==
    /\ spc = "park" /\ token
    /\ token' = FALSE
    /\ idle_passes' = 0 /\ elapsed' = FALSE
    /\ NewPass(FALSE)

\* It may also return for no reason at all.
SpuriousReturn ==
    /\ spc = "park"
    /\ idle_passes' = 0 /\ elapsed' = FALSE
    /\ NewPass(FALSE)
    /\ UNCHANGED token

Scanner ==
    \/ LoadWord \/ ReadFlag \/ JudgeStale \/ ClearBit \/ Take \/ Recycle
    \/ CountOut \/ (\E r \in Regs : Signal(r) \/ WakeFaulted(r))
    \/ Delivered \/ ProbeFindsNothing
    \/ ParkGate \/ KeepScanning \/ ScannerPanics \/ ParkReturns

Next ==
    \/ \E r \in Regs : Register(r)
    \/ Device \/ Scanner \/ BindFails \/ SpuriousReturn

Spec == Init /\ [][Next]_vars

\* The scanner gets a verdict on the stream of registration r.
JudgeOn(r) == JudgeStale /\ payload[cur] = r

\* Every thread the operating system runs makes progress, time passes, a
\* capture ends and the reactor thread can bind a device sooner or later.
\* Nothing is assumed of the device: a kernel may run forever.
Fairness ==
    /\ \A r \in Regs : WF_vars(Register(r)) /\ SF_vars(JudgeOn(r))
    /\ WF_vars(Scanner)
    /\ WF_vars(ProbeTimer)
    /\ \A st \in Streams : WF_vars(EndCapture(st))

FairSpec == Spec /\ Fairness

-----------------------------------------------------------------------------
(* Properties *)

Elems(q) == {q[i] : i \in 1..Len(q)}

\* Every variable holds a value of its kind.
TypeOK ==
    /\ free \in Seq(Slots)
    /\ flag \in [Slots -> {0, 1}]
    /\ active \subseteq Slots
    /\ payload \in [Slots -> Regs \cup {None}]
    /\ n_armed \in Nat
    /\ pc \in [Regs -> {"claim", "reset_flag", "arm", "write_payload",
                        "count_armed", "set_bit", "unpark", "returned"}]
    /\ slot \in [Regs -> Slots \cup {None}]
    /\ was_idle \in [Regs -> BOOLEAN]
    /\ spc \in {"scan", "judge", "clear_bit", "take", "count_out", "deliver",
                "park", "panicked"}
    /\ word \in 0..NumWords /\ bits \subseteq Slots
    /\ cur \in Slots \cup {None} /\ landed \in BOOLEAN
    /\ retired \in Seq(Slots) /\ n_retired \in Nat
    /\ woken \subseteq Regs /\ faulted \subseteq Regs
    /\ probing \in BOOLEAN
    /\ memo \in [Streams -> {"unasked", "alive", "dead"}]
    /\ idle_passes \in 0..(PassModulus - 1) /\ elapsed \in BOOLEAN /\ token \in BOOLEAN
    /\ queue \in [Streams -> Seq([reg : Regs, addr : Slots])]
    /\ dead \subseteq Contexts
    /\ capture \in [Streams -> {"not_yet", "capturing", "ended"}]
    /\ outcome \in [Regs -> {"none", "refused", "signalled", "woken"}]
    /\ executed \subseteq Regs

\* A future is marked complete only after the flag write of its own
\* registration executed on the device: a slot's flag left at 1 by an earlier
\* registration, or written late, never completes the slot's next owner.
SignalledExecuted ==
    \A r \in Regs :
        outcome[r] = "signalled" \/ r \in woken => r \in executed

\* The context is dead, and whoever probes the stream is told so.
Lost(st) == ContextOf[st] \in dead /\ capture[st] # "capturing"

\* A future is woken uncompleted only when its context has really faulted, and
\* then its next poll finds that out: a busy or a capturing stream never costs
\* a registration its slot.
WokenOnlyOnFault ==
    \A r \in Regs :
        outcome[r] = "woken" \/ r \in faulted => Lost(StreamOf[r])

\* A registrant between `claim` and the bit owns its slot.
Owns(r, s) ==
    /\ pc[r] \in {"reset_flag", "arm", "write_payload", "count_armed", "set_bit"}
    /\ slot[r] = s

\* The payload cells are shared without a lock: no two threads are ever about
\* to access the same cell (the claim behind `unsafe impl Sync for SlotCell`),
\* and the scanner always finds the payload of the bit it saw.
NoPayloadRace ==
    /\ spc \in {"judge", "clear_bit", "take"} => payload[cur] # None
    /\ \A r \in Regs : pc[r] = "write_payload" =>
        /\ spc \in {"judge", "clear_bit", "take"} => cur # slot[r]
        /\ \A q \in Regs : pc[q] = "write_payload" /\ q # r => slot[q] # slot[r]

\* Slots are neither lost nor handed out twice: each one is, exactly once, on
\* the free list, held by one registrant, armed, or being retired.
Places(s) ==
    Cardinality({i \in DOMAIN free : free[i] = s})
    + Cardinality({r \in Regs : Owns(r, s)})
    + (IF s \in active THEN 1 ELSE 0)
    + (IF spc = "take" /\ cur = s THEN 1 ELSE 0)
    + Cardinality({i \in DOMAIN retired : retired[i] = s})

SlotsConserved == \A s \in Slots : Places(s) = 1

\* The armed count is exact whenever the scanner reads or lowers it, so it
\* never underflows (the debug_assert of scan_inner) and, once everything is
\* retired, it is 0 again and the scanner may park.
ArmedCountExact ==
    n_armed = Cardinality({r \in Regs : pc[r] = "set_bit"})
              + Cardinality(active) + (IF spc = "take" THEN 1 ELSE 0)
              + Len(retired) + n_retired

\* The scanner never sleeps on an armed slot that nobody will wake it for.
NoLostUnpark ==
    spc = "park" /\ active # {} =>
        token \/ \E r \in Regs : /\ pc[r] \in {"set_bit", "unpark"}
                                 /\ was_idle[r]

\* A future's fate is decided once: a refused registration is never signalled,
\* nobody is signalled and also woken as faulted, nothing is undone.
DecidedOnce ==
    [][\A r \in Regs : outcome[r] # "none" => outcome'[r] = outcome[r]]_vars

\* A registration whose flag write has executed is delivered, whatever the
\* other streams do and even if its context faults afterwards.
ExecutedDelivered ==
    \A r \in Regs : r \in executed ~> outcome[r] \in {"signalled", "woken"}

\* A registration accepted on a context that faults is delivered too,
\* although its flag write never executes.
FaultResolved ==
    \A r \in Regs :
        (/\ ContextOf[StreamOf[r]] \in dead
         /\ \E w \in Elems(queue[StreamOf[r]]) : w.reg = r)
            ~> outcome[r] \in {"signalled", "woken"}

\* With every registration decided the scanner goes back to sleep.
ScannerParks ==
    (\A r \in Regs : pc[r] = "returned" /\ outcome[r] # "none") ~> spc = "park"

\* The phase of a registration in the abstract specification.
phase == [r \in Regs |->
            IF outcome[r] # "none" THEN outcome[r]
            ELSE IF pc[r] \in {"claim", "reset_flag", "arm"} THEN "new"
            ELSE "submitted"]

\* The reactor implements the completion service a DeviceFuture relies on.
Service == INSTANCE Completion
ImplementsCompletion == Service!Spec
=============================================================================
