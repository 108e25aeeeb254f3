--------------------------- MODULE MCProducerSend ---------------------------
(* ProducerSend for TLC in three scenes: whole sends with a flush or a close;  *)
(* the barrier alone, with more callers and generations than fit beside them; *)
(* and one send and one size more than those, with nothing else, so that a     *)
(* small send waits behind a large one that may give up, for memory that a     *)
(* third one holds.                                                            *)
EXTENDS ProducerSend

CONSTANTS Third, Small      \* sends and sizes of that last scene only

VARIABLE scene

mcVars == <<allVars, scene>>

Sending == scene \in {"sends", "waiters"}

MCInit == SendInit /\ scene \in {"sends", "barrier", "waiters"}

Unused == /\ \A o \in Third : at[o] = "idle" /\ op[o] = "none"
          /\ \A o \in Ops : size[o] \notin Small

\* No flush, no close, no failure of the engine and no panic.
Undisturbed == UNCHANGED <<pc, facadeVars>> /\ \A o \in Ops : at'[o] # "panicked"

MCNext ==
    \/ scene = "sends" /\ SendNext /\ Unused' /\ UNCHANGED scene
    \/ scene = "barrier" /\ Next /\ UNCHANGED <<sendVars, scene>> /\ Unused'
    \/ scene = "waiters" /\ SendNext /\ Undisturbed /\ UNCHANGED scene

BarrierStep(o) == scene = "barrier" /\ notify_waiters(o) /\ UNCHANGED <<sendVars, scene>>

WaitStep(c) == wait_for(c) /\ UNCHANGED scene

MCSpec ==
    /\ MCInit
    /\ [][MCNext]_mcVars
    /\ \A o \in Ops : /\ WF_mcVars(Sending /\ SendStep(o) /\ UNCHANGED scene)
                      /\ WF_mcVars(Sending /\ answer(o) /\ UNCHANGED scene)
                      /\ WF_mcVars(BarrierStep(o))
    /\ \A c \in Callers : WF_mcVars(WaitStep(c))
    /\ WF_mcVars(watched_close /\ UNCHANGED scene)
=============================================================================
