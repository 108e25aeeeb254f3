----------------------------- MODULE SendEngine -----------------------------
(***************************************************************************)
(* The producer's send engine (src/producer/engine.rs): one task that owns *)
(* every partition's batches, stamps them when they are first drained,     *)
(* keeps one batch per partition on the wire, and decides from each        *)
(* request's outcome whether a batch is acknowledged, retried, re-stamped, *)
(* split or failed, and when the producer moves to its next epoch.         *)
(*                                                                         *)
(* A step is one command handled, one pass of `expire` over a partition,   *)
(* one request built by `drain`, or one batch's result looked at by        *)
(* `complete` (`resolving` holds the results of a completed request not    *)
(* looked at yet; nothing else happens meanwhile).  Time is not modelled:  *)
(* a deadline, a linger or a backoff may have passed at any step.  Bytes   *)
(* are not: whether a record fits, fills a batch, or a batch fits in a     *)
(* request is a choice.                                                    *)
(***************************************************************************)
EXTENDS ProducerIdentity, FiniteSets, Functions

CONSTANTS
    Partitions, Brokers,
    InitialModes,               \* the ways a producer may be built
    MAX_IN_FLIGHT_PER_BROKER,
    MAX_SPLIT_DEPTH,
    PRUNE_SLACK,                \* idle partitions remembered: 1024
    Outcomes,                   \* outcomes a batch on the wire may have
    MaxRecords,                 \* bound: records sent
    MaxFlushes,                 \* bound: barrier generations ended by a flush
    MaxSequence,                \* bound: sequence numbers used in a generation
    MaxGeneration,              \* bound: identities the engine goes through
    MaxSetIdentity              \* bound: those of them a command brings in

(* What `produce` reports of a batch: the broker's code, base offset (-1   *)
(* for none) and log start offset in an Answer; no answer; or nothing sent *)
(* ("NotWritten" may be retried, "Unwritable", an encoding error or no     *)
(* common version, may not; "TooLarge" is the client's own limit).         *)
OutcomeKinds ==
    {"Answer", "NoAnswer", "NotWritten", "Unwritable", "TooLarge", "Unacknowledged"}
BatchOutcome == [kind : OutcomeKinds, code : ErrorCodes, base : Int, start : Int]

ASSUME EngineAssumption ==
    /\ Outcomes \subseteq BatchOutcome
    /\ IsFiniteSet(Partitions)
    /\ InitialModes \subseteq Modes
    /\ MAX_IN_FLIGHT_PER_BROKER \in Nat \ {0}
    /\ MAX_SPLIT_DEPTH \in Nat /\ PRUNE_SLACK \in Nat
    /\ MaxRecords \in Nat /\ MaxFlushes \in Nat
    /\ MaxSequence \in Nat /\ MaxGeneration \in Nat /\ MaxSetIdentity \in Nat

Records == 1..MaxRecords

(* A record's outcome: what its DeliveryHandle resolves to. *)
Answers ==
    {"unsent", "queued", "ok", "unacked", "timeout_maybe_written",
     "timeout_not_written", "not_written", "broker", "out_of_order",
     "abortable", "fatal", "aborted", "closed"}
Undecided == {"unsent", "queued"}

(* A batch; the one without records stands for `None`. *)
Batch == [recs : Seq(Records), stamp : Stamps, waiting : BOOLEAN,
          maybe : BOOLEAN, depth : 0..MAX_SPLIT_DEPTH, gen : 0..MaxFlushes]
NoBatch == [recs |-> <<>>, stamp |-> NoStamp, waiting |-> FALSE,
            maybe |-> FALSE, depth |-> 0, gen |-> 0]

VARIABLES
    mode,               \* Engine::mode
    identity,           \* which IdentityState
    ident,              \* the Identity of IdentityState::Ready
    generation,         \* last identity generation handed out
    bump_requested,
    epoch_retry_used,
    stamped_unresolved,
    reinit,             \* an InitProducerId request is under way
    sealed_through,     \* -1 for None
    channel_closed,
    stopped,            \* `run` has returned
    partitions,         \* keys of Engine::partitions
    active,
    open, sealed, in_flight, seq, last_acked,   \* PartitionQueue, by key
    requests,           \* produce requests under way: [broker, keys]
    brokers,            \* requests in flight per broker
    resolving,          \* results of the completed request not looked at yet
    next_record,
    outcome,            \* history: each record's outcome
    issued              \* history: every stamp a batch went out with

identityVars == <<mode, identity, ident, generation, reinit, epoch_retry_used>>
stampVars == <<bump_requested, stamped_unresolved>>
keyVars == <<partitions, active, seq>>
wireVars == <<requests, brokers>>
loopVars == <<sealed_through, channel_closed, stopped>>
vars == <<mode, identity, ident, generation, bump_requested, epoch_retry_used,
          stamped_unresolved, reinit, sealed_through, channel_closed, stopped,
          partitions, active, open, sealed, in_flight, seq, last_acked,
          requests, brokers, resolving, next_record, outcome, issued>>

Some(batch) == batch.recs # <<>>
Stamped(batch) == batch.stamp # NoStamp
RecsOf(batch) == Range(batch.recs)
IsIdle(k) == ~Some(open[k]) /\ sealed[k] = <<>> /\ ~Some(in_flight[k])
HasSealed(k) == sealed[k] # <<>>

TypeOK ==
    /\ mode \in Modes
    /\ identity \in {"Plain", "Uninit", "Init", "Ready", "Fatal"}
    /\ ident \in Identity
    /\ generation \in Nat
    /\ bump_requested \in BOOLEAN /\ epoch_retry_used \in BOOLEAN
    /\ stamped_unresolved \in Nat
    /\ reinit \in BOOLEAN
    /\ sealed_through \in -1..MaxFlushes
    /\ channel_closed \in BOOLEAN /\ stopped \in BOOLEAN
    /\ partitions \subseteq Partitions /\ active \subseteq partitions
    /\ open \in [Partitions -> Batch]
    /\ sealed \in [Partitions -> Seq(Batch)]
    /\ in_flight \in [Partitions -> Batch]
    /\ seq \in [Partitions -> PartitionSeq]
    /\ last_acked \in [Partitions -> Int]
    /\ requests \subseteq [broker : Brokers, keys : SUBSET Partitions]
    /\ brokers \in [Brokers -> Nat]
    /\ resolving \subseteq Partitions
    /\ next_record \in 1..(MaxRecords + 1)
    /\ outcome \in [Records -> Answers]
    /\ issued \subseteq [key : Partitions, stamp : BatchIdentity, recs : Seq(Records)]

(* `spawn`: an idempotent producer starts with the id it was given. *)
Init ==
    /\ mode \in InitialModes
    /\ identity = CASE mode = "Plain" -> "Plain"
                    [] mode = "Idempotent" -> "Ready"
                    [] OTHER -> "Uninit"
    /\ ident = [producer_id |-> 0, epoch |-> 0, generation |-> 1]
    /\ generation = 1
    /\ bump_requested = FALSE /\ epoch_retry_used = FALSE
    /\ stamped_unresolved = 0
    /\ reinit = FALSE
    /\ sealed_through = -1
    /\ channel_closed = FALSE /\ stopped = FALSE
    /\ partitions = {} /\ active = {}
    /\ open = [k \in Partitions |-> NoBatch]
    /\ sealed = [k \in Partitions |-> <<>>]
    /\ in_flight = [k \in Partitions |-> NoBatch]
    /\ seq = [k \in Partitions |-> FreshSeq]
    /\ last_acked = [k \in Partitions |-> -1]
    /\ requests = {}
    /\ brokers = [b \in Brokers |-> 0]
    /\ resolving = {}
    /\ next_record = 1
    /\ outcome = [r \in Records |-> "unsent"]
    /\ issued = {}

(* The engine is at its `select!`. *)
Idle == resolving = {} /\ ~stopped

-----------------------------------------------------------------------------
(* What several handlers do. *)

(* The callers of these records get `answer`. *)
Answered(recs, answer) ==
    [r \in Records |-> IF r \in recs THEN answer ELSE outcome[r]]

(* `unsent` of a partition: what it has not put on the wire. *)
Unsent(k) == Range(sealed[k]) \cup {open[k]}
UnsentRecs == UNION {RecsOf(b) : b \in UNION {Unsent(k) : k \in active}}

UnsentStamped == {k \in active : \E b \in Unsent(k) : Stamped(b)}
Emptied(queue, none) == [k \in Partitions |-> IF k \in active THEN none ELSE queue[k]]

(* `fail` of one stamped batch in each partition of S: their sequence      *)
(* ranges are spent, and the idempotent producer needs another epoch.      *)
SpendStamps(S) ==
    /\ stamped_unresolved' = stamped_unresolved - Cardinality(S)
    /\ bump_requested' = (bump_requested \/ (S # {} /\ mode = "Idempotent"))

Spent(k, batch) == IF Stamped(batch) THEN {k} ELSE {}

(* Every partition's open batch is sealed (PartitionQueue::seal_open). *)
SealAll ==
    /\ sealed' = [k \in Partitions |->
                    IF k \in active /\ Some(open[k]) THEN Append(sealed[k], open[k])
                    ELSE sealed[k]]
    /\ open' = Emptied(open, NoBatch)

(* Mutation: a partition that only waits for its request is forgotten. *)
prune_waiting ==
    /\ active' = {k \in active : Some(open[k])' \/ HasSealed(k)'}
    /\ UNCHANGED <<partitions, seq>>

(* `prune`, over the queues as the handler leaves them. *)
prune ==
    /\ active' = {k \in active : ~IsIdle(k)'}
    /\ partitions' =
         IF Cardinality(partitions) > 4 * Cardinality(active') + PRUNE_SLACK
         THEN {k \in partitions : k \in active' \/ last_acked'[k] # -1}
         ELSE partitions
    /\ seq' = [k \in Partitions |-> IF k \in partitions' THEN seq[k] ELSE FreshSeq]

-----------------------------------------------------------------------------
(* Commands. *)

(* `seal_now`: a flush already covers the record's generation. *)
SealNow(g) == g <= sealed_through

(* A record of barrier generation g joins the open batch of its partition  *)
(* if it `fits`; the batch is sealed when it is `full` or when a flush     *)
(* already covers the record.                                              *)
append(k, g, fits, full) ==
    /\ Idle /\ ~channel_closed
    /\ next_record \in Records
    /\ identity # "Fatal"
    /\ Some(open[k]) \/ fits
    /\ LET before == IF fits THEN sealed[k] ELSE Append(sealed[k], open[k])
           batch == IF Some(open[k]) /\ fits
                    THEN [open[k] EXCEPT !.recs = Append(@, next_record),
                                         !.gen = IF g > @ THEN g ELSE @]
                    ELSE [NoBatch EXCEPT !.recs = <<next_record>>,
                                         !.waiting = TRUE, !.gen = g]
           seal == full \/ SealNow(g)
       IN /\ sealed' = [sealed EXCEPT ![k] = IF seal THEN Append(before, batch)
                                                     ELSE before]
          /\ open' = [open EXCEPT ![k] = IF seal THEN NoBatch ELSE batch]
    /\ partitions' = partitions \cup {k}
    /\ active' = active \cup {k}
    /\ next_record' = next_record + 1
    /\ outcome' = [outcome EXCEPT ![next_record] = "queued"]
    /\ UNCHANGED <<identityVars, stampVars, loopVars, wireVars, in_flight, seq,
                   last_acked, resolving, issued>>

(* `append` once the producer cannot continue. *)
append_refused ==
    /\ Idle /\ ~channel_closed
    /\ next_record \in Records
    /\ identity = "Fatal"
    /\ next_record' = next_record + 1
    /\ outcome' = [outcome EXCEPT ![next_record] = "fatal"]
    /\ UNCHANGED <<identityVars, stampVars, loopVars, wireVars, keyVars, open,
                   sealed, in_flight, last_acked, resolving, issued>>

(* Command::Flush *)
flush(g) ==
    /\ Idle /\ ~channel_closed
    /\ sealed_through' = IF g > sealed_through THEN g ELSE sealed_through
    /\ SealAll
    /\ UNCHANGED <<identityVars, stampVars, wireVars, keyVars, channel_closed,
                   stopped, in_flight, last_acked, resolving, next_record,
                   outcome, issued>>

(* Command::FailUnsent, sent by a transactional producer only. *)
fail_unsent ==
    /\ Idle /\ ~channel_closed
    /\ Transactional(mode)
    /\ outcome' = Answered(UnsentRecs, "aborted")
    /\ SpendStamps(UnsentStamped)
    /\ sealed' = Emptied(sealed, <<>>)
    /\ open' = Emptied(open, NoBatch)
    /\ UNCHANGED <<identityVars, loopVars, wireVars, in_flight, last_acked,
                   resolving, next_record, issued>>
    /\ prune

(* Command::SetIdentity, sent by a transactional producer only; the        *)
(* identity it already has changes nothing but the protocol version.       *)
set_identity(id, tv) ==
    /\ Idle /\ ~channel_closed
    /\ Transactional(mode)
    /\ mode' = tv
    /\ IF identity = "Ready" /\ id.producer_id = ident.producer_id
                             /\ id.epoch = ident.epoch
       THEN UNCHANGED <<generation, ident, identity>>
       ELSE /\ generation < MaxSetIdentity
            /\ generation' = generation + 1
            /\ ident' = [id EXCEPT !.generation = generation + 1]
            /\ identity' = "Ready"
    /\ UNCHANGED <<stampVars, loopVars, wireVars, keyVars, reinit,
                   epoch_retry_used, open, sealed, in_flight, last_acked,
                   resolving, next_record, outcome, issued>>

InFlightRecs ==
    UNION {RecsOf(in_flight[k]) : k \in {j \in active : in_flight[j].waiting}}

(* Mutation: callers of batches on the wire are not told to stop waiting. *)
Released_kept == in_flight

(* Batches on the wire whose callers have been answered keep their slot. *)
Released == [k \in Partitions |->
               IF k \in active THEN [in_flight[k] EXCEPT !.waiting = FALSE]
               ELSE in_flight[k]]

(* Command::Terminate *)
terminate ==
    /\ Idle /\ ~channel_closed
    /\ identity' = "Fatal"
    /\ outcome' = Answered(UnsentRecs \cup InFlightRecs, "closed")
    /\ SpendStamps(UnsentStamped)
    /\ sealed' = Emptied(sealed, <<>>)
    /\ open' = Emptied(open, NoBatch)
    /\ in_flight' = Released
    /\ UNCHANGED <<mode, ident, generation, reinit, epoch_retry_used, loopVars,
                   wireVars, last_acked, resolving, next_record, issued>>
    /\ prune

(* Every handle is gone: what is buffered is sealed. *)
close_channel ==
    /\ Idle /\ ~channel_closed
    /\ channel_closed' = TRUE
    /\ sealed_through' = MaxFlushes
    /\ SealAll
    /\ UNCHANGED <<identityVars, stampVars, wireVars, keyVars, stopped,
                   in_flight, last_acked, resolving, next_record, outcome, issued>>

(* `run` returns. *)
stop ==
    /\ Idle /\ channel_closed
    /\ active = {} /\ requests = {}
    /\ stopped' = TRUE
    /\ UNCHANGED <<identityVars, stampVars, keyVars, wireVars, sealed_through,
                   channel_closed, open, sealed, in_flight, last_acked,
                   resolving, next_record, outcome, issued>>

-----------------------------------------------------------------------------
(* Time. *)

(* `delivery_timeout`: the batch knows whether it may be in the log. *)
Timeout(batch) ==
    IF batch.maybe THEN "timeout_maybe_written" ELSE "timeout_not_written"

(* One partition of `expire`.  Batches are queued in the order they were   *)
(* created, so the deadline has passed for the batch on the wire first,    *)
(* then the n first sealed ones, then (`all`) the open one.  A batch on    *)
(* the wire answers its callers and keeps its slot.                        *)
expire(k, n, all) ==
    /\ Idle
    /\ k \in active
    /\ all => n = Len(sealed[k])
    /\ in_flight[k].waiting \/ n > 0 \/ (all /\ Some(open[k]))
    /\ LET dead == {sealed[k][i] : i \in 1..n} \cup (IF all THEN {open[k]} ELSE {})
           recs(answer) == UNION {RecsOf(b) : b \in {d \in dead : Timeout(d) = answer}}
           wire == IF in_flight[k].waiting THEN RecsOf(in_flight[k]) ELSE {}
       IN /\ outcome' = [r \in Records |->
                IF r \in wire \cup recs("timeout_maybe_written")
                THEN "timeout_maybe_written"
                ELSE IF r \in recs("timeout_not_written")
                THEN "timeout_not_written"
                ELSE outcome[r]]
          /\ SpendStamps(IF \E b \in dead : Stamped(b) THEN {k} ELSE {})
    /\ sealed' = [sealed EXCEPT ![k] = SubSeq(@, n + 1, Len(@))]
    /\ open' = [open EXCEPT ![k] = IF all THEN NoBatch ELSE @]
    /\ in_flight' = [in_flight EXCEPT ![k].waiting = FALSE]
    /\ UNCHANGED <<identityVars, loopVars, keyVars, wireVars, last_acked,
                   resolving, next_record, issued>>

-----------------------------------------------------------------------------
(* Drain. *)

(* Mutation: the epoch moves on while stamped batches are unresolved. *)
BumpDue_at_once == identity = "Ready" /\ bump_requested

BumpDue == identity = "Ready" /\ bump_requested /\ stamped_unresolved = 0

(* `apply_bump`: the next epoch, once nothing stamped is unresolved. *)
bump_epoch ==
    /\ Idle /\ BumpDue /\ ~Exhausted(ident)
    /\ generation < MaxGeneration
    /\ generation' = generation + 1
    /\ ident' = bumped(ident, generation + 1)
    /\ bump_requested' = FALSE
    /\ UNCHANGED <<mode, identity, reinit, epoch_retry_used, stamped_unresolved,
                   loopVars, keyVars, wireVars, open, sealed, in_flight,
                   last_acked, resolving, next_record, outcome, issued>>

(* `apply_bump` and `start_reinit` when the epochs are used up, or when    *)
(* the last attempt to get another producer id failed.                     *)
start_reinit ==
    /\ Idle /\ ~reinit
    /\ identity = "Init" \/ (BumpDue /\ Exhausted(ident))
    /\ identity' = "Init"
    /\ reinit' = TRUE
    /\ UNCHANGED <<mode, ident, generation, epoch_retry_used, stampVars,
                   loopVars, keyVars, wireVars, open, sealed, in_flight,
                   last_acked, resolving, next_record, outcome, issued>>

(* `reinitialised` with the id the broker allocated: one never seen here. *)
reinitialised ==
    /\ Idle /\ reinit
    /\ generation < MaxGeneration
    /\ reinit' = FALSE
    /\ generation' = generation + 1
    /\ ident' = [producer_id |-> ident.producer_id + 1, epoch |-> 0,
                 generation |-> generation + 1]
    /\ identity' = "Ready"
    /\ bump_requested' = FALSE
    /\ UNCHANGED <<mode, epoch_retry_used, stamped_unresolved, loopVars, keyVars,
                   wireVars, open, sealed, in_flight, last_acked, resolving,
                   next_record, outcome, issued>>

(* A retriable failure leaves `drain` to start another attempt. *)
reinit_failed ==
    /\ Idle /\ reinit
    /\ reinit' = FALSE
    /\ UNCHANGED <<mode, identity, ident, generation, epoch_retry_used,
                   stampVars, loopVars, keyVars, wireVars, open, sealed,
                   in_flight, last_acked, resolving, next_record, outcome, issued>>

(* Any other failure is `fatal`. *)
reinit_fatal ==
    /\ Idle /\ reinit
    /\ reinit' = FALSE
    /\ identity' = "Fatal"
    /\ outcome' = Answered(UnsentRecs, "fatal")
    /\ SpendStamps(UnsentStamped)
    /\ sealed' = Emptied(sealed, <<>>)
    /\ open' = Emptied(open, NoBatch)
    /\ UNCHANGED <<mode, ident, generation, epoch_retry_used, loopVars, keyVars,
                   wireVars, in_flight, last_acked, resolving, next_record, issued>>

(* Mutation: a batch may be stamped while an epoch bump is due. *)
CanStamp_during_bump == identity \in {"Plain", "Ready"}

CanStamp == identity = "Plain" \/ (identity = "Ready" /\ ~bump_requested)

(* The batch `drain` takes next, if any. *)
HeadOf(k) == IF HasSealed(k) THEN Head(sealed[k]) ELSE open[k]
NeedsStamp(k) == HasIdentity(mode) /\ ~Stamped(HeadOf(k))

(* Mutation: a partition may have a second batch on the wire. *)
Ready_overlapping(k) == Some(HeadOf(k)) /\ (NeedsStamp(k) => CanStamp)

Ready(k) ==
    /\ ~Some(in_flight[k])
    /\ Some(HeadOf(k))
    /\ NeedsStamp(k) => CanStamp

(* Mutation: a retried batch is stamped again. *)
Sent_restamped(k) ==
    IF HasIdentity(mode) /\ identity = "Ready"
    THEN [HeadOf(k) EXCEPT !.stamp = stamp(seq[k], ident)] ELSE HeadOf(k)

(* The batch as it goes out: stamped the first time, unchanged in a retry. *)
Sent(k) ==
    IF NeedsStamp(k) THEN [HeadOf(k) EXCEPT !.stamp = stamp(seq[k], ident)]
    ELSE HeadOf(k)

(* One request of `drain`: batches of the partitions S led by broker b. *)
drain(b, S) ==
    /\ Idle
    /\ S # {} /\ S \subseteq active
    /\ brokers[b] < MAX_IN_FLIGHT_PER_BROKER
    /\ \A k \in S : Ready(k)
    /\ \A k \in S : NeedsStamp(k) =>
          Position(seq[k], ident) + Len(HeadOf(k).recs) <= MaxSequence
    /\ LET new == {k \in S : NeedsStamp(k)} IN
       /\ stamped_unresolved' = stamped_unresolved + Cardinality(new)
       /\ seq' = [k \in Partitions |->
                    IF k \in new THEN advanced(seq[k], ident, Len(HeadOf(k).recs))
                    ELSE seq[k]]
    /\ issued' = issued \cup
         {[key |-> k, stamp |-> Sent(k).stamp, recs |-> Sent(k).recs] :
             k \in {j \in S : Stamped(Sent(j))}}
    /\ in_flight' = [k \in Partitions |-> IF k \in S THEN Sent(k) ELSE in_flight[k]]
    /\ sealed' = [k \in Partitions |->
                    IF k \in S /\ HasSealed(k) THEN Tail(sealed[k]) ELSE sealed[k]]
    /\ open' = [k \in Partitions |->
                    IF k \in S /\ ~HasSealed(k) THEN NoBatch ELSE open[k]]
    /\ requests' = requests \cup {[broker |-> b, keys |-> S]}
    /\ brokers' = [brokers EXCEPT ![b] = @ + 1]
    /\ UNCHANGED <<identityVars, bump_requested, loopVars, partitions, active,
                   last_acked, resolving, next_record, outcome>>

-----------------------------------------------------------------------------
(* Completion. *)

(* `complete`: a request has its response, or never will. *)
complete(r) ==
    /\ Idle
    /\ r \in requests
    /\ requests' = requests \ {r}
    /\ brokers' = [brokers EXCEPT ![r.broker] = @ - 1]
    /\ resolving' = r.keys
    /\ UNCHANGED <<identityVars, stampVars, loopVars, keyVars, open, sealed,
                   in_flight, last_acked, next_record, outcome, issued>>

(* The batch with what its outcome says about the log. *)
Noted(k, o) ==
    [in_flight[k] EXCEPT !.maybe =
        \/ @
        \/ o.kind = "NoAnswer"
        \/ o.kind = "Answer" /\ o.code # "None"
                             /\ ~is_definitive_non_append(o.code)]

(* The batch has no time left: its callers were answered at the deadline,  *)
(* or the deadline has passed unnoticed.                                   *)
Over(k, late) == ~in_flight[k].waiting \/ late

(* What `resolve` makes of the outcome, as an Action. *)
Verdict(k, o) ==
    CASE o.kind = "Answer" ->
           classify([mode |-> mode, record_count |-> Len(in_flight[k].recs),
                     last_acked |-> last_acked[k],
                     epoch_retry_used |-> epoch_retry_used], o.code, o.start)
      [] o.kind = "Unacknowledged" -> "Ack"
      [] o.kind \in {"NoAnswer", "NotWritten"} -> "Retry"
      [] o.kind = "Unwritable" -> "Fail"
      [] o.kind = "TooLarge" ->
           IF Len(in_flight[k].recs) > 1 /\ ~Transactional(mode) THEN "Split"
           ELSE "Fail"

(* The error of a batch whose verdict is "Fail". *)
FailureOf(o) ==
    CASE o.kind = "Answer" -> Failure(mode, o.code)
      [] o.kind = "Unwritable" -> "not_written"
      [] o.kind = "TooLarge" -> IF Transactional(mode) THEN "abortable" ELSE "broker"

(* The result of partition k is dealt with; the last one ends `complete`. *)
Looked(k) ==
    /\ resolving' = resolving \ {k}
    /\ IF resolving = {k} THEN prune ELSE UNCHANGED keyVars

(* The records of k's batch have their outcome, unless they already had. *)
Tell(k, answer) ==
    outcome' = IF in_flight[k].waiting THEN Answered(RecsOf(in_flight[k]), answer)
               ELSE outcome

(* `acknowledge` and `unstamp`: the stamp is no longer outstanding. *)
Unstamped(k) ==
    stamped_unresolved' = stamped_unresolved - Cardinality(Spent(k, in_flight[k]))

(* Mutation: a batch to be sent again queues up behind later ones. *)
Pushed_back(k, batches) == [sealed EXCEPT ![k] = @ \o batches]

(* Batches to be sent again go ahead of every other (push_front). *)
Pushed(k, batches) == [sealed EXCEPT ![k] = batches \o @]
Landed(k) == [in_flight EXCEPT ![k] = NoBatch]

(* Action::Ack *)
acknowledge(k, o) ==
    /\ Verdict(k, o) = "Ack"
    /\ Unstamped(k)
    /\ last_acked' = [last_acked EXCEPT ![k] =
                        IF o.base >= 0 THEN o.base + Len(in_flight[k].recs) - 1 ELSE @]
    /\ Tell(k, IF o.kind = "Unacknowledged" THEN "unacked" ELSE "ok")
    /\ in_flight' = Landed(k)
    /\ UNCHANGED <<identityVars, bump_requested, open, sealed>>

(* `fail` of the batch that was on the wire. *)
FailLanded(k, answer) ==
    /\ SpendStamps(Spent(k, in_flight[k]))
    /\ Tell(k, answer)
    /\ in_flight' = Landed(k)

(* `retry_or_fail`: again with the same stamp, ahead of every other batch. *)
retry_or_fail(k, o, late) ==
    /\ Verdict(k, o) = "Retry"
    /\ IF Over(k, late)
       THEN FailLanded(k, Timeout(Noted(k, o))) /\ UNCHANGED sealed
       ELSE /\ sealed' = Pushed(k, <<Noted(k, o)>>)
            /\ in_flight' = Landed(k)
            /\ UNCHANGED <<stampVars, outcome>>
    /\ UNCHANGED <<identityVars, open, last_acked>>

(* Action::Restamp: again under the next epoch. *)
restamp(k, o, late) ==
    /\ Verdict(k, o) = "Restamp"
    /\ IF Over(k, late)
       THEN /\ FailLanded(k, Timeout(Noted(k, o)))
            /\ UNCHANGED <<sealed, epoch_retry_used>>
       ELSE /\ epoch_retry_used' = (epoch_retry_used \/ o.code = "InvalidProducerEpoch")
            /\ Unstamped(k)
            /\ bump_requested' = TRUE
            /\ sealed' = Pushed(k, <<[Noted(k, o) EXCEPT !.stamp = NoStamp]>>)
            /\ in_flight' = Landed(k)
            /\ UNCHANGED outcome
    /\ UNCHANGED <<mode, identity, ident, generation, reinit, open, last_acked>>

(* `Batch::split`: halves start over, and forget earlier attempts. *)
Half(batch, recs) ==
    [batch EXCEPT !.recs = recs, !.stamp = NoStamp, !.maybe = FALSE,
                  !.depth = @ + 1]

(* Action::Split: the halves go again, under the next epoch if stamped. *)
split(k, o, late) ==
    /\ Verdict(k, o) = "Split"
    /\ IF Over(k, late) \/ in_flight[k].depth >= MAX_SPLIT_DEPTH
       THEN FailLanded(k, "broker") /\ UNCHANGED sealed
       ELSE LET batch == in_flight[k]
                mid == Len(batch.recs) \div 2
            IN /\ bump_requested' = (bump_requested \/ Stamped(batch))
               /\ Unstamped(k)
               /\ sealed' = Pushed(k,
                    <<Half(batch, SubSeq(batch.recs, 1, mid)),
                      Half(batch, SubSeq(batch.recs, mid + 1, Len(batch.recs)))>>)
               /\ in_flight' = Landed(k)
               /\ UNCHANGED outcome
    /\ UNCHANGED <<identityVars, open, last_acked>>

(* Action::Fail *)
fail(k, o) ==
    /\ Verdict(k, o) = "Fail"
    /\ FailLanded(k, FailureOf(o))
    /\ UNCHANGED <<identityVars, open, sealed, last_acked>>

(* Action::Fatal: this batch and everything unsent fail; what other        *)
(* partitions have on the wire still gets its outcome.                     *)
fatal(k, o) ==
    /\ Verdict(k, o) = "Fatal"
    /\ identity' = "Fatal"
    /\ SpendStamps(Spent(k, in_flight[k]) \cup UnsentStamped)
    /\ outcome' = Answered(UnsentRecs \cup (IF in_flight[k].waiting
                              THEN RecsOf(in_flight[k]) ELSE {}), "fatal")
    /\ in_flight' = Landed(k)
    /\ sealed' = Emptied(sealed, <<>>)
    /\ open' = Emptied(open, NoBatch)
    /\ UNCHANGED <<mode, ident, generation, reinit, epoch_retry_used, last_acked>>

(* One turn of the loop in `complete`: `resolve` and `act`.  Only a plain  *)
(* producer may ask for no acknowledgement (acks = 0).                     *)
resolve(k, o, late) ==
    /\ k \in resolving
    /\ o.kind = "Unacknowledged" => mode = "Plain"
    /\ \/ acknowledge(k, o)
       \/ retry_or_fail(k, o, late)
       \/ restamp(k, o, late)
       \/ split(k, o, late)
       \/ fail(k, o)
       \/ fatal(k, o)
    /\ UNCHANGED <<loopVars, wireVars, next_record, issued>>
    /\ Looked(k)

-----------------------------------------------------------------------------

(* What the producer's handles ask of the engine. *)
Command ==
    \/ \E k \in Partitions, g \in 0..MaxFlushes, fits, full \in BOOLEAN :
          append(k, g, fits, full)
    \/ append_refused
    \/ \E g \in 0..(MaxFlushes - 1) : flush(g)
    \/ terminate
    \/ close_channel

(* Identities a transactional producer passes on: what its coordinator     *)
(* gives out is new, and the one in use may be passed on again.            *)
FromCoordinator ==
    {bumped(ident, 0)} \cup (IF identity = "Fatal" THEN {} ELSE {ident})

(* What a transactional producer asks in addition. *)
TxnCommand ==
    \/ fail_unsent
    \/ \E id \in FromCoordinator, tv \in {"TV1", "TV2"} : set_identity(id, tv)

Timer == \E k \in Partitions, all \in BOOLEAN :
            \E n \in 0..Len(sealed[k]) : expire(k, n, all)

Identify ==
    bump_epoch \/ start_reinit \/ reinitialised \/ reinit_failed \/ reinit_fatal

Drain == \E b \in Brokers, S \in SUBSET Partitions : drain(b, S)

Complete == \E r \in requests : complete(r)

Resolve == \E k \in resolving, o \in Outcomes, late \in BOOLEAN : resolve(k, o, late)

Next ==
    \/ Command \/ TxnCommand \/ Timer \/ Identify
    \/ Drain \/ Complete \/ Resolve \/ stop

Spec == Init /\ [][Next]_vars

(* What the event loop and its timers guarantee.  A request resolves (the  *)
(* connection times it out) and `complete` looks at every result in turn;  *)
(* InitProducerId has a deadline; every turn of the loop runs `expire`, so *)
(* a batch whose deadline is past is expired however busy the loop is      *)
(* (strong fairness: the step is disabled while results are looked at).    *)
(* Nothing is assumed of brokers and leaders: `drain` may never run.       *)
Fairness ==
    /\ WF_vars(Complete) /\ WF_vars(Resolve) /\ WF_vars(stop)
    /\ WF_vars(bump_epoch \/ start_reinit)
    /\ WF_vars(reinitialised \/ reinit_failed \/ reinit_fatal)
    /\ \A k \in Partitions : SF_vars(expire(k, Len(sealed[k]), TRUE))

FairSpec == Spec /\ Fairness

-----------------------------------------------------------------------------
(* Correctness. *)

LiveStamped(k) ==
    Stamped(in_flight[k]) \/ (HasSealed(k) /\ Stamped(Head(sealed[k])))
StampedKeys == {k \in Partitions : LiveStamped(k)}

(* A partition has at most one stamped batch, and it is the next to be     *)
(* sent or the one on the wire: nothing is ever sent ahead of a batch that *)
(* already owns a sequence range (drain, retry_or_fail: push_front).       *)
OneStamped ==
    \A k \in Partitions :
        /\ ~Stamped(open[k])
        /\ \A i \in 2..Len(sealed[k]) : ~Stamped(sealed[k][i])
        /\ Some(in_flight[k]) /\ HasSealed(k) => ~Stamped(Head(sealed[k]))

(* `stamped_unresolved` counts the stamped batches without a final         *)
(* outcome, through every retry, expiry, split, abort and fatal error: one *)
(* too few and the epoch moves under a batch on the wire, one too many and *)
(* the producer never sends again (Engine::stamped_unresolved).            *)
UnresolvedExact == stamped_unresolved = Cardinality(StampedKeys)

(* One partition's open batch o, sealed batches s and batch on the wire f: *)
(* only the front of the queue or the batch on the wire is stamped.        *)
Clean(o, s, f) ==
    /\ o \in Batch /\ s \in Seq(Batch) /\ f \in Batch
    /\ ~Stamped(o)
    /\ \A i \in 2..Len(s) : ~Stamped(s[i])
    /\ Some(f) /\ s # <<>> => ~Stamped(s[1])
    /\ ~Some(f) => ~Stamped(f)

(* While the idempotent producer fetches another id it stamps nothing and  *)
(* nothing stamped is left.                                                *)
ReinitClear ==
    mode = "Idempotent" =>
        /\ reinit => identity \in {"Init", "Fatal"}
        /\ identity = "Init" \/ reinit => stamped_unresolved = 0

(* An idempotent producer never has a stamped batch of an earlier epoch:   *)
(* it bumps only when no stamped batch is unresolved (apply_bump).         *)
StampsCurrent ==
    mode = "Idempotent" =>
        \A k \in Partitions :
            /\ Stamped(in_flight[k]) =>
                 in_flight[k].stamp.generation = ident.generation
            /\ HasSealed(k) /\ Stamped(Head(sealed[k])) =>
                 Head(sealed[k]).stamp.generation = ident.generation

(* A partition has a batch in flight exactly while one request carries it, *)
(* and a broker's count is the number of requests in flight to it, within  *)
(* the limit: no slot is leaked or given out twice (drain, complete).      *)
SlotsMatchRequests ==
    /\ \A k \in Partitions :
         Some(in_flight[k]) <=> (k \in resolving \/ \E r \in requests : k \in r.keys)
    /\ \A r \in requests : r.keys \cap resolving = {} /\ r.keys # {}
    /\ \A r1, r2 \in requests : r1 # r2 => r1.keys \cap r2.keys = {}
    /\ \A b \in Brokers :
         /\ brokers[b] = Cardinality({r \in requests : r.broker = b})
         /\ brokers[b] <= MAX_IN_FLIGHT_PER_BROKER

(* The inductive invariant behind the stamp properties. *)
IInv ==
    /\ TypeOK
    /\ \A k \in Partitions : Clean(open[k], sealed[k], in_flight[k])
    /\ UnresolvedExact
    /\ IsFiniteSet(requests) /\ SlotsMatchRequests
    /\ ident.generation > 0
    /\ ReinitClear
    /\ StampsCurrent

Covers(x) == x.stamp.base_sequence .. (x.stamp.base_sequence + Len(x.recs) - 1)

(* A stamped sequence range is never handed out again: no two stamps of a  *)
(* partition overlap under one (producer id, epoch) (identity.rs).         *)
RangesDisjoint ==
    \A x, y \in issued :
        \/ x = y
        \/ x.key # y.key
        \/ x.stamp.producer_id # y.stamp.producer_id
        \/ x.stamp.epoch # y.stamp.epoch
        \/ Covers(x) \cap Covers(y) = {}

(* A batch keeps its stamp across every retry: a record is stamped a       *)
(* second time only under another identity (identity.rs).                  *)
StampKept ==
    \A x, y \in issued :
        x # y /\ Range(x.recs) \cap Range(y.recs) # {} =>
            x.stamp.generation # y.stamp.generation

Live(k) == <<in_flight[k]>> \o sealed[k] \o <<open[k]>>

(* A partition's records are in its batches in the order they were sent,   *)
(* from the batch on the wire to the open one, and none is there twice,    *)
(* whatever was retried, split or expired (append, push_front, split).     *)
RecordsInOrder ==
    \A k \in Partitions :
        LET live == Live(k) IN
        \A i, j \in DOMAIN live :
            \A a \in DOMAIN live[i].recs, b \in DOMAIN live[j].recs :
                (i < j \/ (i = j /\ a < b)) => live[i].recs[a] < live[j].recs[b]

(* No record is forgotten: one without an outcome is in a batch whose      *)
(* callers wait, in one partition only.                                    *)
NothingLost ==
    \A r \in Records :
        LET holders == {k \in Partitions : \E i \in DOMAIN Live(k) :
                          Live(k)[i].waiting /\ r \in RecsOf(Live(k)[i])}
        IN IF outcome[r] = "queued" THEN Cardinality(holders) = 1 ELSE holders = {}

(* A record has one outcome: whatever the engine learns later, it never    *)
(* answers a caller twice or differently (Waiter::answer, answer_all).     *)
OutcomeFinal ==
    [][\A r \in Records : outcome[r] \notin Undecided => outcome'[r] = outcome[r]]_vars

(* A flush leaves nothing waiting for linger, not even a send that reaches *)
(* the engine after it (Command::Flush, append).                           *)
FlushedIsSealed ==
    \A k \in Partitions : Some(open[k]) => open[k].gen > sealed_through

(* The engine stops only when every record has its outcome. *)
StoppedIsDone == stopped => \A r \in Records : outcome[r] # "queued"

(* Every record queued is eventually answered, by an acknowledgement, an   *)
(* error or its deadline, although the cluster may never answer and the    *)
(* engine may retry for ever (expire, prune, resolve).                     *)
EveryoneAnswered == \A r \in Records : outcome[r] = "queued" ~> outcome[r] # "queued"

(* A due epoch bump does not wait for ever: the stamped batches it waits   *)
(* for are all resolved or expired (apply_bump).                           *)
BumpHappens ==
    bump_requested ~> \/ ~bump_requested \/ identity # "Ready" \/ stopped
                      \/ generation = MaxGeneration

(* The stamps are accounted for: the count is exact, a partition has one   *)
(* stamped batch at most, and none is of an earlier epoch.                 *)
StampsAccounted == UnresolvedExact /\ OneStamped /\ StampsCurrent

(* A stamp names its records for good: no sequence range is issued twice,  *)
(* and no batch has two stamps under one identity (identity.rs).           *)
StampsUnique == RangesDisjoint /\ StampKept

(* The records are accounted for: each is in one place until it has its    *)
(* outcome, in the order it was sent, also when the engine stops.          *)
RecordsAccounted == NothingLost /\ RecordsInOrder /\ StoppedIsDone

(* Under the fairness of the event loop everyone is answered, and an epoch *)
(* bump that is due is applied.                                            *)
Progress == EveryoneAnswered /\ BumpHappens
=============================================================================
