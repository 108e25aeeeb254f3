-------------------------- MODULE InFlightBarrier ---------------------------
(***************************************************************************)
(* InFlightBarrier (src/barrier.rs): sends are counted by the generation   *)
(* they started in.  `snapshot` and `begin_close` end the current          *)
(* generation and return it; `wait_for` blocks on a Notify until no send   *)
(* of that generation or an earlier one is running.                        *)
(*                                                                         *)
(* One step is one critical section of the mutex, one Notify operation, or *)
(* one resumption of a waiting task, so every interleaving of the threads  *)
(* that call the barrier is a behaviour.                                   *)
(***************************************************************************)
EXTENDS Naturals, FiniteSets

CONSTANTS
    Ops,        \* slots for InFlightOpGuards that may exist at a time
    Callers,    \* tasks calling flush or close
    MaxGen      \* bound: generations a behaviour may end

ASSUME OpsAssumption == IsFiniteSet(Ops)
ASSUME MaxGenAssumption == MaxGen \in Nat

VARIABLES
    closing,    \* InFlightBarrier::closing
    current,    \* Generations::current
    running,    \* Generations::running; an absent generation counts 0
    op,         \* per guard: "none", "held" or "notifying"
    opGen,      \* per guard: the generation it started in
    pc,         \* per caller: where it is in wait_for
    target,     \* per caller: the generation it waits for
    notified    \* per caller: its Notified future has been woken

vars == <<closing, current, running, op, opGen, pc, target, notified>>
opVars == <<op, opGen, running>>
callerVars == <<pc, target, notified>>

Gens == 0..MaxGen

TypeOK ==
    /\ closing \in BOOLEAN
    /\ current \in 0..(MaxGen + 1)
    /\ running \in [0..(MaxGen + 1) -> Nat]
    /\ op \in [Ops -> {"none", "held", "notifying"}]
    /\ opGen \in [Ops -> 0..(MaxGen + 1)]
    /\ pc \in [Callers -> {"out", "enable", "check", "poll", "await", "returned"}]
    /\ target \in [Callers -> Gens]
    /\ notified \in [Callers -> BOOLEAN]

Init ==
    /\ closing = FALSE
    /\ current = 0
    /\ running = [g \in 0..(MaxGen + 1) |-> 0]
    /\ op = [o \in Ops |-> "none"]
    /\ opGen = [o \in Ops |-> 0]
    /\ pc = [c \in Callers |-> "out"]
    /\ target = [c \in Callers |-> 0]
    /\ notified = [c \in Callers |-> FALSE]

(* Mutation: `start` does not look at `closing`. *)
start_unguarded(o) ==
    /\ op[o] = "none"
    /\ op' = [op EXCEPT ![o] = "held"]
    /\ opGen' = [opGen EXCEPT ![o] = current]
    /\ running' = [running EXCEPT ![current] = @ + 1]
    /\ UNCHANGED <<closing, current, callerVars>>

(* `start`: refused once closing; the test is made under the lock. *)
start(o) ==
    /\ op[o] = "none"
    /\ ~closing
    /\ op' = [op EXCEPT ![o] = "held"]
    /\ opGen' = [opGen EXCEPT ![o] = current]
    /\ running' = [running EXCEPT ![current] = @ + 1]
    /\ UNCHANGED <<closing, current, callerVars>>

(* `snapshot`, then `wait_for` on what it returned. *)
snapshot(c) ==
    /\ pc[c] = "out"
    /\ current \in Gens
    /\ current' = current + 1
    /\ target' = [target EXCEPT ![c] = current]
    /\ pc' = [pc EXCEPT ![c] = "enable"]
    /\ UNCHANGED <<closing, opVars, notified>>

(* `begin_close`; a second close returns at once and changes nothing. *)
begin_close(c) ==
    /\ pc[c] = "out"
    /\ ~closing
    /\ current \in Gens
    /\ closing' = TRUE
    /\ current' = current + 1
    /\ target' = [target EXCEPT ![c] = current]
    /\ pc' = [pc EXCEPT ![c] = "enable"]
    /\ UNCHANGED <<opVars, notified>>

(* `complete`, its critical section: the guard is dropped. *)
complete(o) ==
    /\ op[o] = "held"
    /\ op' = [op EXCEPT ![o] = "notifying"]
    /\ running' = [running EXCEPT ![opGen[o]] = @ - 1]
    /\ UNCHANGED <<closing, current, opGen, callerVars>>

(* Mutation: the Notified future is enabled only when it is first awaited. *)
Enabled_on_await(c) == pc[c] = "await"

(* Notified futures that notify_waiters reaches: created and enabled. *)
Enabled(c) == pc[c] \in {"check", "poll", "await"}

(* `complete`, after the lock: notify_waiters wakes every enabled future. *)
notify_waiters(o) ==
    /\ op[o] = "notifying"
    /\ op' = [op EXCEPT ![o] = "none"]
    /\ notified' = [c \in Callers |-> notified[c] \/ Enabled(c)]
    /\ UNCHANGED <<closing, current, running, opGen, pc, target>>

(* Mutation: only the generation itself is looked at, not the earlier ones. *)
is_drained_exact(gen) == running[gen] = 0

is_drained(gen) == \A g \in 0..gen : running[g] = 0

(* `wait_for`: a fresh Notified future is enabled before the count is read. *)
enable(c) ==
    /\ pc[c] = "enable"
    /\ notified' = [notified EXCEPT ![c] = FALSE]
    /\ pc' = [pc EXCEPT ![c] = "check"]
    /\ UNCHANGED <<closing, current, opVars, target>>

check(c) ==
    /\ pc[c] = "check"
    /\ pc' = [pc EXCEPT ![c] = IF is_drained(target[c]) THEN "returned"
                                                        ELSE "poll"]
    /\ UNCHANGED <<closing, current, opVars, target, notified>>

(* The future is awaited; a wakeup since it was enabled is not lost. *)
poll(c) ==
    /\ pc[c] = "poll"
    /\ pc' = [pc EXCEPT ![c] = "await"]
    /\ UNCHANGED <<closing, current, opVars, target, notified>>

wake(c) ==
    /\ pc[c] = "await"
    /\ notified[c]
    /\ pc' = [pc EXCEPT ![c] = "enable"]
    /\ UNCHANGED <<closing, current, opVars, target, notified>>

(* The caller drops the call, or goes on after it returned. *)
leave(c) ==
    /\ pc[c] # "out"
    /\ pc' = [pc EXCEPT ![c] = "out"]
    /\ UNCHANGED <<closing, current, opVars, target, notified>>

Next ==
    \/ \E o \in Ops : start(o) \/ complete(o) \/ notify_waiters(o)
    \/ \E c \in Callers : \/ snapshot(c) \/ begin_close(c)
                          \/ enable(c) \/ check(c) \/ poll(c)
                          \/ wake(c) \/ leave(c)

(* The runtime polls a woken task and a thread dropping a guard finishes the *)
(* drop.  No send is assumed to complete, and nobody has to call anything.   *)
Fairness ==
    /\ \A o \in Ops : WF_vars(notify_waiters(o))
    /\ \A c \in Callers : WF_vars(enable(c) \/ check(c) \/ poll(c) \/ wake(c))

Spec == Init /\ [][Next]_vars
FairSpec == Spec /\ Fairness

-----------------------------------------------------------------------------

Held(g) == {o \in Ops : op[o] = "held" /\ opGen[o] = g}

(* The counter of every generation is the number of guards held in it, so  *)
(* `is_drained` tells the truth about them (barrier.rs, start/complete).   *)
CountersExact ==
    \A g \in 0..(MaxGen + 1) : running[g] = Cardinality(Held(g))

(* No guard is of a generation yet to come, and every waiter's generation  *)
(* has ended: a later send can neither hold a wait up nor release it.      *)
GenerationsOrdered ==
    /\ \A o \in Ops : opGen[o] <= current
    /\ \A c \in Callers : pc[c] # "out" => target[c] < current

(* Once a close has begun no guard is of a generation the close does not   *)
(* wait for: a send is either covered by the close or was refused.         *)
ClosedIsCovered ==
    closing => \A o \in Ops : op[o] = "held" => opGen[o] < current

(* The barrier's books are right: exact counters, generations in order,    *)
(* every guard covered by the close (barrier.rs).                          *)
BarrierExact == CountersExact /\ GenerationsOrdered /\ ClosedIsCovered

IInv == TypeOK /\ BarrierExact

-----------------------------------------------------------------------------

Phase(c) ==
    CASE pc[c] = "out" -> "out"
      [] pc[c] = "returned" -> "returned"
      [] OTHER -> "waiting"

Owed(c) ==
    IF pc[c] = "out" THEN {}
    ELSE {o \in Ops : op[o] = "held" /\ opGen[o] <= target[c]}

Promise == INSTANCE FlushPromise WITH
    active <- {o \in Ops : op[o] = "held"},
    closed <- closing,
    phase  <- [c \in Callers |-> Phase(c)],
    owed   <- [c \in Callers |-> Owed(c)]

(* The generation counters keep the promise of Producer::flush and         *)
(* Producer::close: a call returns only when every send in progress at the *)
(* call has finished, whatever sends started since.                        *)
KeepsPromise == Promise!Spec

(* No wakeup is lost between the count and the await: a call owed nothing  *)
(* returns (barrier.rs wait_for enables its Notified before it counts).    *)
KeepsPromiseFairly == Promise!FairSpec
=============================================================================
