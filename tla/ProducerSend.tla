---------------------------- MODULE ProducerSend ----------------------------
(***************************************************************************)
(* The producer's side of a send: `enqueue_record` (producer/mod.rs), the  *)
(* byte budget and admission of `Accumulator::enqueue` (accumulator.rs),   *)
(* and the interceptors' obligation (`SendObligation`, interceptor.rs),    *)
(* over the flush barrier.                                                 *)
(*                                                                         *)
(* Every send future runs on a thread of its own: a step is one stretch    *)
(* between two awaits, cut again where another thread can come between     *)
(* (the barrier's lock, the Notify, the semaphore).  A future may be       *)
(* dropped wherever it awaits.  The engine is an actor that answers queued *)
(* records in any order (SendEngine says which), and may fail.             *)
(***************************************************************************)
EXTENDS InFlightBarrier, Sequences, SequencesExt

CONSTANTS
    Flushers,           \* callers that flush or close while sends are made
    Sizes,              \* record sizes a send may have
    memory_capacity,    \* Accumulator::memory_capacity
    max_request_size,   \* Accumulator::max_request_size
    Chain,              \* positions of the interceptors, 0 to n
    U16_MAX             \* the largest owner a context entry can have

Nobody == "nobody"

ASSUME FlushersAssumption == Flushers \subseteq Callers /\ Nobody \notin Flushers
ASSUME SizesAssumption == Sizes \subseteq Nat \ {0} /\ memory_capacity \in Nat
\* A longer chain shares its last slot ("an absurd chain", interceptor.rs), and
\* without interceptors there is nobody to serve.
ASSUME ChainAssumption == U16_MAX \in Nat /\ Chain \subseteq 0..U16_MAX /\ Chain # {}

VARIABLES
    at,         \* per send: where its future, or the engine, has it
    size,       \* per send: record_size; 0 before `enqueue`
    memory,     \* free permits of the semaphore
    queue,      \* sends waiting for permits, first come first served
    budget,     \* the semaphore: "open" or "closed"
    holder,     \* per send: who owes the terminal callback
    context,    \* per send: RecordContext, the interceptor that stored per owner
    owed,       \* per send: interceptors to be called back
    open,       \* per send: interceptors whose value is in the context
    twice,      \* some interceptor was called back twice for a record
    fatal,      \* Shared::fatal is set
    engine,     \* the engine's task: "running" or "failed"
    closer,     \* the caller whose close_with goes on after begin_close
    ended       \* what closed the interceptors: "no", "close", "timeout", "drop"

intVars == <<holder, context, owed, open, twice>>
budgetVars == <<memory, queue, budget>>
facadeVars == <<fatal, engine, closer, ended>>
sendVars == <<at, size, budgetVars, intVars, facadeVars>>
allVars == <<vars, sendVars>>

None == -1      \* no interceptor
Owners == 0..U16_MAX
Vacant == [w \in Owners |-> None]

SendTypeOK ==
    /\ TypeOK
    /\ at \in [Ops -> {"idle", "panicked", "routing", "waiting", "granted", "reserved",
                       "started", "refused", "queued", "answered"}]
    /\ size \in [Ops -> Sizes \cup {0}]
    /\ memory \in 0..memory_capacity
    /\ \A k \in DOMAIN queue : at[queue[k]] = "waiting"
    /\ budget \in {"open", "closed"}
    /\ holder \in [Ops -> {Nobody, "obligation", "waiter"}]
    /\ owed \in [Ops -> SUBSET Chain]
    /\ open \in [Ops -> SUBSET Chain]
    /\ ended \in {"no", "close", "timeout", "drop"}

SendInit ==
    /\ Init
    /\ at = [o \in Ops |-> "idle"]
    /\ size = [o \in Ops |-> 0]
    /\ memory = memory_capacity
    /\ queue = <<>>
    /\ budget = "open"
    /\ holder = [o \in Ops |-> Nobody]
    /\ context = [o \in Ops |-> Vacant]
    /\ owed = [o \in Ops |-> {}]
    /\ open = [o \in Ops |-> {}]
    /\ twice = FALSE
    /\ fatal = FALSE
    /\ engine = "running"
    /\ closer = Nobody
    /\ ended = "no"

-----------------------------------------------------------------------------
(* Interceptors. *)

chain_owner(index) == IF index <= U16_MAX THEN index ELSE U16_MAX

(* RecordContext::insert by the interceptors `who`, in the chain's order. *)
Inserted(who) ==
    [w \in Owners |->
        LET mine == {i \in who : chain_owner(i) = w}
        IN  IF mine = {} THEN None
            ELSE CHOOSE i \in mine : \A j \in mine : j <= i]

(* ProducerInterceptorChain::on_send: an error is logged and the rest of    *)
(* the chain runs, a panic at position `p` ends it.                         *)
Observes(p) == {i \in Chain : p = None \/ i <= p}

(* An error of on_send lets the send go on, a panic fails it. *)
safe_on_send(p) == IF p = None THEN "routing" ELSE "panicked"

(* RecordContext::take by the interceptor at `i`: what its slot holds. *)
Taken(o, i) == context[o][chain_owner(i)]

(* on_acknowledgement of every interceptor, each in its own slot. *)
on_acknowledgement(o) ==
    /\ owed' = [owed EXCEPT ![o] = {}]
    /\ open' = [open EXCEPT ![o] = {i \in @ : Taken(o, i) # i}]

(* Errors and panics of the callback are logged; it is not called again. *)
safe_on_acknowledgement(o) ==
    /\ on_acknowledgement(o)
    /\ twice' = (twice \/ owed[o] = {})

safe_producer_close(why) == ended' = why

(* SendObligation::fail, and Drop when the future is dropped: the callback  *)
(* fires if the context is still there.                                     *)
Discharge(o) ==
    /\ holder' = [holder EXCEPT ![o] = Nobody]
    /\ context' = [context EXCEPT ![o] = Vacant]
    /\ size' = [size EXCEPT ![o] = 0]
    /\ IF holder[o] = "obligation" THEN safe_on_acknowledgement(o)
                                   ELSE UNCHANGED <<owed, open, twice>>

(* SendObligation::on_send: the chain runs up to a panic, if there is one. *)
on_send(o) ==
    /\ at[o] = "idle"
    /\ op[o] = "none"
    /\ ended # "drop"
    /\ \E p \in Chain \cup {None} :
          LET who == Observes(p)
          IN  /\ owed' = [owed EXCEPT ![o] = who]
              /\ open' = [open EXCEPT ![o] = who]
              /\ context' = [context EXCEPT ![o] = Inserted(who)]
              /\ at' = [at EXCEPT ![o] = safe_on_send(p)]
    /\ holder' = [holder EXCEPT ![o] = "obligation"]
    /\ UNCHANGED <<vars, size, budgetVars, twice, facadeVars>>

-----------------------------------------------------------------------------
(* The budget: tokio's fair semaphore. *)

(* The permits that the sends `who` need, or hold. *)
Permits(who, sizes) == UNION {{o} \X (1..sizes[o]) : o \in who}

(* With `free` permits and the sends `q` waiting, the first ones that fit   *)
(* are woken, and nobody overtakes them.                                    *)
Settle(q, free, here) ==
    LET woken(k) == {q[n] : n \in 1..k}
        need(k) == Cardinality(Permits(woken(k), size'))
    IN  \E k \in 0..Len(q) :
            /\ need(k) <= free
            /\ \A n \in (k + 1)..Len(q) : need(n) > free
            /\ memory' = free - need(k)
            /\ queue' = SubSeq(q, k + 1, Len(q))
            /\ at' = [o \in Ops |-> IF o \in woken(k) THEN "granted" ELSE here[o]]

Holding == {"granted", "reserved", "started", "refused", "queued", "answered"}

(* Reservation::drop, or an Acquire future dropped with its permits.         *)
GiveBack(o) == Settle(queue, memory + size[o], [at EXCEPT ![o] = "idle"])

(* Mutation: a record larger than the budget is left to wait for it. *)
check_record_admission_request(n) == n <= max_request_size

check_record_admission(n) == n <= max_request_size /\ n <= memory_capacity

-----------------------------------------------------------------------------
(* One send. *)

(* The send ends in an error before anything is reserved. *)
Fails(o) ==
    /\ at' = [at EXCEPT ![o] = "idle"]
    /\ Discharge(o)
    /\ UNCHANGED <<vars, budgetVars, facadeVars>>

(* SendObligation::on_send ends the send whose interceptor panicked. *)
fail(o) == at[o] = "panicked" /\ Fails(o)

(* No such partition, no metadata within max_block; or `validate` before it, *)
(* or `register` after it, fails.                                            *)
resolve_partition(o) == at[o] = "routing" /\ Fails(o)

(* Routed: `enqueue` up to its await. *)
enqueue(o) ==
    /\ at[o] = "routing"
    /\ \E n \in Sizes :
          IF fatal \/ ~check_record_admission(n) \/ budget = "closed"
          THEN Fails(o)
          ELSE /\ size' = [size EXCEPT ![o] = n]
               /\ Settle(Append(queue, o), memory, [at EXCEPT ![o] = "waiting"])
               /\ UNCHANGED <<vars, budget, intVars, facadeVars>>

(* The send leaves the queue, and those behind it move up. *)
Leaves(o) ==
    /\ at[o] = "waiting"
    /\ Discharge(o)
    /\ \E k \in DOMAIN queue :
          /\ queue[k] = o
          /\ Settle(RemoveAt(queue, k), memory, [at EXCEPT ![o] = "idle"])
    /\ UNCHANGED <<vars, budget, facadeVars>>

(* Its permits go back unused. *)
Returns(o) ==
    /\ at[o] = "granted"
    /\ Discharge(o)
    /\ GiveBack(o)
    /\ UNCHANGED <<vars, budget, facadeVars>>

max_block_elapses(o) == Leaves(o)

budget_closed(o) ==
    /\ budget = "closed"
    /\ Leaves(o) \/ Returns(o)

(* The caller drops the future where it awaits. *)
cancel(o) ==
    \/ at[o] = "routing" /\ Fails(o)
    \/ Leaves(o)
    \/ Returns(o)

(* The future is polled with its permits: they become a Reservation. *)
reserve(o) ==
    /\ at[o] = "granted"
    /\ budget = "open"
    /\ at' = [at EXCEPT ![o] = "reserved"]
    /\ UNCHANGED <<vars, size, budgetVars, intVars, facadeVars>>

(* barrier.start: refused once the producer is closing. *)
start_send(o) ==
    /\ at[o] = "reserved"
    /\ \/ start(o) /\ at' = [at EXCEPT ![o] = "started"]
       \/ closing /\ at' = [at EXCEPT ![o] = "refused"] /\ UNCHANGED vars
    /\ UNCHANGED <<size, budgetVars, intVars, facadeVars>>

(* Mutation: the context of a record the engine did not take is dropped. *)
hand_over_kept(o) ==
    /\ at[o] = "started"
    /\ \/ at' = [at EXCEPT ![o] = "refused"] /\ UNCHANGED holder
       \/ /\ at' = [at EXCEPT ![o] = IF engine = "running" THEN "queued" ELSE "refused"]
          /\ holder' = [holder EXCEPT ![o] = "waiter"]
    /\ UNCHANGED <<vars, size, budgetVars, context, owed, open, twice, facadeVars>>

(* `admit` refuses; or the record goes to the engine with its Waiter; or the *)
(* engine is gone, and the context comes back in EnqueueRejected.            *)
hand_over(o) ==
    /\ at[o] = "started"
    /\ \/ at' = [at EXCEPT ![o] = "refused"] /\ UNCHANGED holder
       \/ /\ engine = "running"
          /\ at' = [at EXCEPT ![o] = "queued"]
          /\ holder' = [holder EXCEPT ![o] = "waiter"]
       \/ /\ engine = "failed"
          /\ at' = [at EXCEPT ![o] = "refused"]
          /\ UNCHANGED holder
    /\ UNCHANGED <<vars, size, budgetVars, context, owed, open, twice, facadeVars>>

(* Waiter::answer on the engine's task. *)
answer(o) ==
    /\ at[o] = "queued"
    /\ engine = "running"
    /\ at' = [at EXCEPT ![o] = "answered"]
    /\ holder' = [holder EXCEPT ![o] = Nobody]
    /\ safe_on_acknowledgement(o)
    /\ UNCHANGED <<vars, size, budgetVars, context, facadeVars>>

(* Then the Waiter, or what `enqueue` holds, is dropped: the guard first.    *)
drop_guard(o) ==
    /\ at[o] \in {"answered", "refused"}
    /\ complete(o) \/ notify_waiters(o)
    /\ UNCHANGED sendVars

(* Mutation: a refused send forgets its reservation. *)
release_queued(o) ==
    /\ at[o] \in {"answered", "refused"}
    /\ op[o] = "none"
    /\ Discharge(o)
    /\ Settle(queue, IF at[o] = "answered" THEN memory + size[o] ELSE memory,
              [at EXCEPT ![o] = "idle"])
    /\ UNCHANGED <<vars, budget, facadeVars>>

(* The Reservation next; a refused send then reports its error. *)
release(o) ==
    /\ at[o] \in {"answered", "refused"}
    /\ op[o] = "none"
    /\ Discharge(o)
    /\ GiveBack(o)
    /\ UNCHANGED <<vars, budget, facadeVars>>

-----------------------------------------------------------------------------
(* The engine's end, and close. *)

(* Bound: at most one of a fatal error, a failed engine and a drop. *)
Calm == ~fatal /\ engine = "running" /\ ended # "drop"

(* A fatal error, or Command::Terminate. *)
terminate ==
    /\ Calm
    /\ fatal' = TRUE
    /\ UNCHANGED <<vars, at, size, budgetVars, intVars, engine, closer, ended>>

(* The engine's task panics: the Waiters it owns are dropped unanswered, and *)
(* so are the interceptors' contexts in them.                                *)
engine_fails ==
    /\ Calm
    /\ engine' = "failed"
    /\ LET owned == {o \in Ops : at[o] = "queued"}
       IN  /\ at' = [o \in Ops |-> IF o \in owned THEN "answered" ELSE at[o]]
           /\ holder' = [o \in Ops |-> IF o \in owned THEN Nobody ELSE holder[o]]
           /\ owed' = [o \in Ops |-> IF o \in owned THEN {} ELSE owed[o]]
           /\ open' = [o \in Ops |-> IF o \in owned THEN {} ELSE open[o]]
    /\ UNCHANGED <<vars, size, budgetVars, context, twice, fatal, closer, ended>>

(* The task of `spawn` that watches the engine closes the budget. *)
watched_close ==
    /\ engine = "failed"
    /\ budget = "open"
    /\ budget' = "closed"
    /\ UNCHANGED <<vars, at, size, memory, queue, intVars, facadeVars>>

(* Producer::flush, and close_with up to its wait. *)
flush(c) ==
    /\ ended # "drop"
    /\ snapshot(c)
    /\ UNCHANGED sendVars

close_with(c) ==
    /\ ended # "drop"
    /\ begin_close(c)
    /\ closer' = c
    /\ UNCHANGED <<at, size, budgetVars, intVars, fatal, engine, ended>>

wait_for(c) ==
    /\ enable(c) \/ check(c) \/ poll(c) \/ wake(c)
    /\ UNCHANGED sendVars

(* The caller goes on, or drops the call. *)
leave_call(c) ==
    /\ leave(c)
    /\ closer' = IF closer = c THEN Nobody ELSE closer
    /\ UNCHANGED <<at, size, budgetVars, intVars, fatal, engine, ended>>

(* finish_close once drained: the interceptors are closed. *)
finish_close(c) ==
    /\ closer = c
    /\ pc[c] = "returned"
    /\ ended = "no"
    /\ safe_producer_close("close")
    /\ closer' = Nobody
    /\ UNCHANGED <<vars, at, size, budgetVars, intVars, fatal, engine>>

(* finish_close at its timeout: the engine is told to fail what is left. *)
close_timeout(c) ==
    /\ closer = c
    /\ ended = "no"
    /\ pc[c] \notin {"out", "returned"}
    /\ leave(c)
    /\ fatal' = (fatal \/ engine = "running")
    /\ safe_producer_close("timeout")
    /\ closer' = Nobody
    /\ UNCHANGED <<at, size, budgetVars, intVars, engine>>

(* Drop for Producer: no future borrows it any longer. *)
drop_producer ==
    /\ Calm
    /\ ended = "no"
    /\ ~closing
    /\ \A o \in Ops : at[o] \in {"idle", "queued", "answered"}
    /\ \A c \in Flushers : pc[c] = "out"
    /\ safe_producer_close("drop")
    /\ UNCHANGED <<vars, at, size, budgetVars, intVars, fatal, engine, closer>>

SendStep(o) ==
    \/ reserve(o)
    \/ start_send(o)
    \/ hand_over(o)
    \/ drop_guard(o)
    \/ release(o)
    \/ budget_closed(o)

SendNext ==
    \/ \E o \in Ops : \/ on_send(o) \/ fail(o)
                      \/ resolve_partition(o) \/ enqueue(o)
                      \/ max_block_elapses(o) \/ cancel(o)
                      \/ SendStep(o) \/ answer(o)
    \/ terminate \/ engine_fails \/ watched_close
    \/ \E c \in Flushers : \/ flush(c) \/ close_with(c) \/ wait_for(c) \/ leave_call(c)
                           \/ finish_close(c) \/ close_timeout(c)
    \/ drop_producer

(* The runtime polls woken futures and finishes what a thread has begun, and *)
(* the engine answers what it took (SendEngine's EveryoneAnswered).  Neither *)
(* max_block nor a cancellation is assumed to come to the rescue.            *)
SendFairness ==
    /\ \A o \in Ops : WF_allVars(SendStep(o)) /\ WF_allVars(answer(o))
    /\ \A c \in Flushers : WF_allVars(wait_for(c))
    /\ WF_allVars(watched_close)

SendSpec == SendInit /\ [][SendNext]_allVars /\ SendFairness

-----------------------------------------------------------------------------

(* The budget is neither leaked nor exceeded: what is free and what records *)
(* hold is always buffer_memory, whichever of the refusals, cancellations   *)
(* and failures ended a send (accumulator.rs "with nothing reserved").      *)
MemoryExact ==
    memory + Cardinality(Permits({o \in Ops : at[o] \in Holding}, size)) = memory_capacity

(* on_acknowledgement fires exactly once for every record an interceptor's  *)
(* on_send observed, wherever the send ended (interceptor.rs); a record the *)
(* panicked engine held is the one exception.                               *)
AcknowledgedOnce ==
    /\ ~twice
    /\ \A o \in Ops : at[o] = "idle" => owed[o] = {}

(* The value an interceptor left in the context comes back to it and to no  *)
(* other interceptor of the chain (RecordContext, chain_owner).             *)
ContextComesBack == \A o \in Ops : at[o] = "idle" => open[o] = {}

(* A close that was not cut short closes the interceptors after the last    *)
(* record given to the engine has its callback (Producer::finish_close).    *)
ClosedAfterLast ==
    ended = "close" => \A o \in Ops : holder[o] # "waiter"

(* Nobody waits for memory for ever, without help of max_block: a waiting   *)
(* send gets its permits as earlier records are answered, or learns that    *)
(* the engine is gone.                                                      *)
WaitEnds == \A o \in Ops : at[o] = "waiting" ~> at[o] # "waiting"

(* Interceptors are served: one callback for each record, with its own      *)
(* context, and none after a close that was not cut short.  A record that a  *)
(* panicked engine held is the one exception.                               *)
InterceptorsServed ==
    SendTypeOK /\ AcknowledgedOnce /\ ContextComesBack /\ ClosedAfterLast
=============================================================================
