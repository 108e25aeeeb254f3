-------------------------- MODULE ProduceDelivery ---------------------------
(***************************************************************************)
(* The send engine, the connections under it and the partition leaders     *)
(* together: what a producer's callers are told, against what is in the    *)
(* log.  A produce attempt may never reach a connection; once written it   *)
(* may be lost, may be handled long after the producer gave it up and      *)
(* retried it on another connection, and its answer may be lost.           *)
(***************************************************************************)
EXTENDS SendEngine, PartitionLeader

CONSTANTS
    Refusals,       \* codes with which a leader may refuse any batch
    SizeLimit,      \* records a leader accepts in a batch
    LimitMayDrop,   \* the limit may be lowered while the producer runs
    Retention,      \* a partition's log may be deleted by retention
    MaxSends        \* bound: produce attempts

ASSUME DeliveryAssumption ==
    /\ Refusals \subseteq ErrorCodes
    /\ SizeLimit \in Nat /\ MaxSends \in Nat
    /\ LimitMayDrop \in BOOLEAN /\ Retention \in BOOLEAN

VARIABLES
    leader,     \* per partition: its leader
    limit,      \* the leaders' batch size limit
    wire,       \* attempts written to a connection and not yet handled
    attempt,    \* per partition: the number of its latest attempt
    stage,      \* per partition: how far that attempt is
    reply,      \* per partition: the answer to that attempt
    sends       \* attempts made

networkVars == <<leader, limit, wire, attempt, stage, reply, sends>>
allVars == <<vars, leader, limit, wire, attempt, stage, reply, sends>>

NoReply == [kind |-> "NoAnswer", code |-> "None", base |-> -1, start |-> -1]
Unanswered(kind) == [NoReply EXCEPT !.kind = kind]

DeliveryInit ==
    /\ Init
    /\ leader = [k \in Partitions |-> EmptyLeader]
    /\ limit = SizeLimit
    /\ wire = {}
    /\ attempt = [k \in Partitions |-> 0]
    /\ stage = [k \in Partitions |-> "none"]
    /\ reply = [k \in Partitions |-> NoReply]
    /\ sends = 0

-----------------------------------------------------------------------------

(* `drain` starts a request; `produce` has written nothing yet. *)
StartRequest(b, S) ==
    /\ sends < MaxSends
    /\ drain(b, S)
    /\ sends' = sends + 1
    /\ attempt' = [k \in Partitions |-> IF k \in S THEN sends + 1 ELSE attempt[k]]
    /\ stage' = [k \in Partitions |-> IF k \in S THEN "building" ELSE stage[k]]
    /\ reply' = [k \in Partitions |-> IF k \in S THEN NoReply ELSE reply[k]]
    /\ UNCHANGED <<leader, limit, wire>>

(* `produce` hands the attempt to a connection. *)
Write(k) ==
    /\ stage[k] = "building" /\ k \notin resolving
    /\ stage' = [stage EXCEPT ![k] = "written"]
    /\ wire' = wire \cup {[key |-> k, number |-> attempt[k],
                           stamp |-> in_flight[k].stamp, recs |-> in_flight[k].recs]}
    /\ UNCHANGED <<vars, leader, limit, attempt, reply, sends>>

(* The answer to m reaches `produce` only if m is the attempt it awaits. *)
Respond(m, code, base) ==
    IF attempt[m.key] = m.number /\ stage[m.key] = "written"
    THEN /\ reply' = [reply EXCEPT ![m.key] =
                        [kind |-> "Answer", code |-> code, base |-> base,
                         start |-> leader'[m.key].start]]
         /\ stage' = [stage EXCEPT ![m.key] = "answered"]
    ELSE UNCHANGED <<reply, stage>>

(* The leader takes an attempt; replication may then fail the request with *)
(* the batch in the log (REQUEST_TIMED_OUT, NOT_ENOUGH_REPLICAS_AFTER_...). *)
Handle(m, replicated) ==
    /\ m \in wire
    /\ Len(m.recs) <= limit
    /\ wire' = wire \ {m}
    /\ LET done == append_produce(leader[m.key], m.stamp, m.recs) IN
       /\ leader' = [leader EXCEPT ![m.key] = done.leader]
       /\ IF replicated \/ done.code # "None"
          THEN Respond(m, done.code, done.base)
          ELSE Respond(m, "RequestTimedOut", -1)
    /\ UNCHANGED <<vars, limit, attempt, sends>>

(* The leader refuses an attempt before it looks at the producer's state. *)
Refuse(m, code) ==
    /\ m \in wire
    /\ code \in Refusals \/ (code = "MessageTooLarge" /\ Len(m.recs) > limit)
    /\ wire' = wire \ {m}
    /\ UNCHANGED leader
    /\ Respond(m, code, -1)
    /\ UNCHANGED <<vars, limit, attempt, sends>>

Lose(m) ==
    /\ m \in wire
    /\ wire' = wire \ {m}
    /\ UNCHANGED <<vars, leader, limit, attempt, stage, reply, sends>>

(* An operator lowers max.message.bytes, or a leader with a lower one      *)
(* takes over.                                                             *)
LowerLimit ==
    /\ LimitMayDrop /\ limit > 1
    /\ limit' = limit - 1
    /\ UNCHANGED <<vars, leader, wire, attempt, stage, reply, sends>>

DeleteLog(k) ==
    /\ Retention /\ leader[k] # Expired(leader[k])
    /\ leader' = [leader EXCEPT ![k] = Expired(leader[k])]
    /\ UNCHANGED <<vars, limit, wire, attempt, stage, reply, sends>>

(* What `produce` may report of an attempt: nothing was written (the       *)
(* connection or the encoding failed), it was written and no answer came,  *)
(* or the leader's answer.  Batches are small enough for the client's own  *)
(* limit, so none is TooLarge.                                             *)
Reported(k) ==
    CASE stage[k] = "building" -> {Unanswered("NotWritten"), Unanswered("Unwritable")}
      [] stage[k] = "written" -> {NoReply}
      [] stage[k] = "answered" -> {NoReply, reply[k]}
      [] OTHER -> {}

Finish(k, o, late) ==
    /\ resolve(k, o, late)
    /\ stage' = [stage EXCEPT ![k] = "none"]
    /\ reply' = [reply EXCEPT ![k] = NoReply]
    /\ attempt' = [attempt EXCEPT ![k] = 0]
    /\ UNCHANGED <<leader, limit, wire, sends>>

Network ==
    \/ \E k \in Partitions : Write(k) \/ DeleteLog(k)
    \/ \E m \in wire : \/ \E replicated \in BOOLEAN : Handle(m, replicated)
                       \/ \E code \in Refusals \cup {"MessageTooLarge"} : Refuse(m, code)
                       \/ Lose(m)
    \/ LowerLimit

DeliveryNext ==
    \/ (Command \/ Timer \/ Identify \/ Complete \/ stop) /\ UNCHANGED networkVars
    \/ \E b \in Brokers, S \in SUBSET Partitions : StartRequest(b, S)
    \/ \E k \in resolving : \E o \in Reported(k), late \in BOOLEAN : Finish(k, o, late)
    \/ Network

DeliverySpec == DeliveryInit /\ [][DeliveryNext]_allVars

-----------------------------------------------------------------------------

InLog(r) == \E k \in Partitions : r \in Range(leader[k].log)

(* Acknowledged means written: a record whose handle resolved to success   *)
(* is in the log (acknowledge, tests/acked_means_written.rs).              *)
AckedIsWritten == \A r \in Records : outcome[r] = "ok" => InLog(r)

(* Retention has not touched the partition and no limit was lowered: what  *)
(* the guarantees below assume.  Otherwise a split batch forgets that an   *)
(* attempt may have been appended, and UNKNOWN_PRODUCER_ID re-stamps one   *)
(* that was appended before retention removed it.                          *)
Undisturbed(k) == leader[k].start = 0 /\ limit = SizeLimit

(* An idempotent producer's log has every record once at most, in the      *)
(* order of the sends, over lost answers, late attempts, retries, splits   *)
(* and epoch bumps.                                                        *)
LogInOrder ==
    mode # "Plain" =>
        \A k \in Partitions : LET log == leader[k].log IN
            Undisturbed(k) => \A i, j \in DOMAIN log : i < j => log[i] < log[j]

(* DeliveryTimeout { possibly_written: false } is definite: the record is  *)
(* not in the log and never gets there, as long as no leader's batch size  *)
(* limit is lowered (`Batch::split` forgets earlier attempts).             *)
DefiniteUnderOneLimit ==
    limit = SizeLimit =>
        \A r \in Records : outcome[r] = "timeout_not_written" => ~InLog(r)

(* The engine never asks a leader to accept a gap, a reused range or a     *)
(* fenced epoch: the attempt it waits for is always in sequence.           *)
AlwaysInSequence ==
    \A k \in Partitions : stage[k] = "answered" /\ Undisturbed(k) =>
        reply[k].code \notin {"OutOfOrderSequenceNumber", "InvalidProducerEpoch",
                              "UnknownProducerId"}

(* What a delivery handle says about the log is true, in both directions.  *)
OutcomeIsTrue == AckedIsWritten /\ DefiniteUnderOneLimit
=============================================================================
