---------------------------- MODULE FlushPromise ----------------------------
(***************************************************************************)
(* What a producer promises about `flush` and `close` (Producer::flush,    *)
(* Producer::close_with): a call waits for exactly the sends that were in  *)
(* progress when it was made, a closed producer admits no further send.    *)
(*                                                                         *)
(* `owed[c]` is the set of sends a waiting call still has to see finished. *)
(* InFlightBarrier implements this with generation counters.               *)
(***************************************************************************)

CONSTANTS
    Ops,        \* slots for concurrent sends
    Callers     \* tasks calling flush or close

VARIABLES
    active,     \* sends in progress
    closed,     \* a close has begun
    phase,      \* per caller: "out", "waiting" or "returned"
    owed        \* per caller: sends it is waiting for

vars == <<active, closed, phase, owed>>

Init ==
    /\ active = {}
    /\ closed = FALSE
    /\ phase = [c \in Callers |-> "out"]
    /\ owed = [c \in Callers |-> {}]

(* A send begins; never once the producer is closed. *)
Begin(o) ==
    /\ ~closed
    /\ o \notin active
    /\ active' = active \cup {o}
    /\ UNCHANGED <<closed, phase, owed>>

(* A send has its outcome: nobody waits for it any longer. *)
Finish(o) ==
    /\ o \in active
    /\ active' = active \ {o}
    /\ owed' = [c \in Callers |-> owed[c] \ {o}]
    /\ UNCHANGED <<closed, phase>>

(* A flush owes its caller every send now in progress, and no other. *)
Call(c) ==
    /\ phase[c] = "out"
    /\ phase' = [phase EXCEPT ![c] = "waiting"]
    /\ owed' = [owed EXCEPT ![c] = active]
    /\ UNCHANGED <<active, closed>>

(* A close is a flush after which no send begins. *)
CallClose(c) ==
    /\ ~closed
    /\ phase[c] = "out"
    /\ closed' = TRUE
    /\ phase' = [phase EXCEPT ![c] = "waiting"]
    /\ owed' = [owed EXCEPT ![c] = active]
    /\ UNCHANGED active

Return(c) ==
    /\ phase[c] = "waiting"
    /\ owed[c] = {}
    /\ phase' = [phase EXCEPT ![c] = "returned"]
    /\ UNCHANGED <<active, closed, owed>>

(* The caller drops a waiting call, or makes another call later. *)
Leave(c) ==
    /\ phase[c] # "out"
    /\ phase' = [phase EXCEPT ![c] = "out"]
    /\ owed' = [owed EXCEPT ![c] = {}]
    /\ UNCHANGED <<active, closed>>

Next ==
    \/ \E o \in Ops : Begin(o) \/ Finish(o)
    \/ \E c \in Callers : Call(c) \/ CallClose(c) \/ Return(c) \/ Leave(c)

Spec == Init /\ [][Next]_vars

(* A call that is owed nothing returns (or is dropped). *)
FairSpec == Spec /\ \A c \in Callers : WF_vars(Return(c))
=============================================================================
