---------------------------- MODULE Completion ----------------------------
(***************************************************************************)
(* What the reactor promises a DeviceFuture.  A registration is refused or  *)
(* submitted; a submitted one is signalled only after the stream has        *)
(* reached its flag write, and woken uncompleted only when the context of   *)
(* its stream is dead.  Each registration is decided at most once.          *)
(***************************************************************************)
CONSTANTS Regs, Streams, Contexts, StreamOf, ContextOf

VARIABLES
    phase,      \* new, submitted, then refused, signalled or woken
    executed,   \* registrations whose flag write has executed
    dead        \* faulted contexts

cvars == <<phase, executed, dead>>

Init ==
    /\ phase = [r \in Regs |-> "new"]
    /\ executed = {}
    /\ dead = {}

Alive(r) == ContextOf[StreamOf[r]] \notin dead

Move(r, from, to) ==
    /\ phase[r] = from
    /\ phase' = [phase EXCEPT ![r] = to]
    /\ UNCHANGED <<executed, dead>>

Submit(r) == Move(r, "new", "submitted")
Refuse(r) == Move(r, "new", "refused")
Signal(r) == r \in executed /\ Move(r, "submitted", "signalled")
Wake(r) == ~Alive(r) /\ Move(r, "submitted", "woken")

\* The device reaches the flag write of a registration still undecided.
Execute(r) ==
    /\ phase[r] = "submitted" /\ r \notin executed /\ Alive(r)
    /\ executed' = executed \cup {r}
    /\ UNCHANGED <<phase, dead>>

Fault(c) ==
    /\ dead' = dead \cup {c}
    /\ UNCHANGED <<phase, executed>>

Next ==
    \/ \E r \in Regs : \/ Submit(r) \/ Refuse(r) \/ Signal(r) \/ Wake(r)
                       \/ Execute(r)
    \/ \E c \in Contexts : Fault(c)

Spec == Init /\ [][Next]_cvars
=============================================================================
