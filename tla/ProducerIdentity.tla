-------------------------- MODULE ProducerIdentity --------------------------
(***************************************************************************)
(* Producer identity, batch stamps and the meaning of a produce answer     *)
(* (src/producer/identity.rs), as operators.  An idempotent producer       *)
(* writes each batch under a (producer id, epoch, base sequence) stamp;    *)
(* `generation` counts identity changes, and a partition last used under   *)
(* another generation restarts at sequence 0.                              *)
(***************************************************************************)
EXTENDS Integers, Sequences

CONSTANTS
    I16_MAX,    \* the largest epoch value
    SEQ_SPACE   \* sequence numbers wrap to 0 at this value: i32::MAX + 1

ASSUME IdentityAssumption ==
    I16_MAX \in Nat \ {0} /\ SEQ_SPACE \in Nat \ {0}

Identity == [producer_id : Nat, epoch : Nat, generation : Nat]
PartitionSeq == [generation : Nat, next : Nat]
BatchIdentity ==
    [producer_id : Nat, epoch : Nat, base_sequence : Nat, generation : Nat \ {0}]

(* `None` of an Option<BatchIdentity>: generation 0 is never handed out. *)
NoStamp == [producer_id |-> 0, epoch |-> 0, base_sequence |-> 0, generation |-> 0]
Stamps == BatchIdentity \cup {NoStamp}

(* The state of a partition never stamped (PartitionSeq::default). *)
FreshSeq == [generation |-> 0, next |-> 0]

(* `Identity::bumped` returns None for these. *)
Exhausted(identity) == identity.epoch >= I16_MAX - 1

bumped(identity, generation) ==
    [producer_id |-> identity.producer_id, epoch |-> identity.epoch + 1,
     generation |-> generation]

(* Mutation: the next batch starts at the last sequence of this one. *)
next_sequence_last(base, count) == (base + count - 1) % SEQ_SPACE

next_sequence(base, count) == (base + count) % SEQ_SPACE

(* Where the partition's next batch starts under `identity`. *)
Position(seq, identity) ==
    IF seq.generation = identity.generation THEN seq.next ELSE 0

(* `PartitionSeq::stamp`: the stamp, and the position it leaves behind. *)
stamp(seq, identity) ==
    [producer_id |-> identity.producer_id, epoch |-> identity.epoch,
     base_sequence |-> Position(seq, identity),
     generation |-> identity.generation]

advanced(seq, identity, count) ==
    [generation |-> identity.generation,
     next |-> next_sequence(Position(seq, identity), count)]

-----------------------------------------------------------------------------

Modes == {"Plain", "Idempotent", "TV1", "TV2"}
HasIdentity(mode) == mode # "Plain"
Transactional(mode) == mode \in {"TV1", "TV2"}

(* One code for each way the producer treats a partition's answer:         *)
(* MessageTooLarge stands for RecordListTooLarge too; ProducerFenced for   *)
(* TransactionalIdAuthorizationFailed, ClusterAuthorizationFailed and      *)
(* UnsupportedVersion; NotLeaderForPartition for the retriable codes that  *)
(* prove the batch was not appended, RequestTimedOut for the retriable     *)
(* codes that do not; InvalidRecord and UnknownServerError likewise for    *)
(* the codes that are not retriable.                                       *)
ErrorCodes ==
    {"None", "DuplicateSequenceNumber", "MessageTooLarge",
     "OutOfOrderSequenceNumber", "UnknownProducerId", "InvalidProducerEpoch",
     "InvalidProducerIdMapping", "ProducerFenced", "TransactionAbortable",
     "NotLeaderForPartition", "RequestTimedOut", "InvalidRecord",
     "UnknownServerError"}

is_retriable(code) ==
    code \in {"NotLeaderForPartition", "RequestTimedOut",
              "OutOfOrderSequenceNumber", "UnknownProducerId"}

(* Mutation: a timeout answered by the broker is taken for a refusal. *)
is_definitive_non_append_timeout(code) ==
    code \in {"MessageTooLarge", "InvalidRecord", "NotLeaderForPartition",
              "RequestTimedOut"}

is_definitive_non_append(code) ==
    code \in {"MessageTooLarge", "InvalidRecord", "NotLeaderForPartition"}

(* The broker does not know the sequence position this batch continues. *)
LostSequence == {"OutOfOrderSequenceNumber", "UnknownProducerId"}

(* What an answer means for its batch; the clauses exclude each other.     *)
(* ctx: mode, record_count, last_acked (-1 for None), epoch_retry_used.    *)
classify(ctx, code, log_start) ==
    LET identity == HasIdentity(ctx.mode)
        txn == Transactional(ctx.mode)
        retention_removed_it == ctx.last_acked = -1 \/ log_start > ctx.last_acked
    IN CASE code = "None" -> "Ack"
         [] code = "DuplicateSequenceNumber" /\ identity -> "Ack"
         [] code = "MessageTooLarge" /\ ctx.record_count > 1 ->
              IF txn THEN "Fail" ELSE "Split"
         [] code = "OutOfOrderSequenceNumber" /\ identity -> "Fail"
         [] code = "UnknownProducerId" /\ identity ->
              IF ~txn /\ retention_removed_it THEN "Restamp" ELSE "Fail"
         [] code = "InvalidProducerEpoch" /\ identity ->
              IF ctx.mode = "TV2" THEN "Fail"
              ELSE IF ctx.mode = "TV1" \/ ctx.epoch_retry_used THEN "Fatal"
              ELSE "Restamp"
         [] code = "InvalidProducerIdMapping" /\ identity ->
              IF ctx.mode = "TV1" THEN "Fail" ELSE "Fatal"
         [] code = "ProducerFenced" /\ identity -> "Fatal"
         [] is_retriable(code) /\ (identity => code \notin LostSequence) -> "Retry"
         [] OTHER -> "Fail"

(* The error a failed batch reports. *)
Failure(mode, code) ==
    IF Transactional(mode) THEN "abortable"
    ELSE IF HasIdentity(mode) /\ code \in LostSequence THEN "out_of_order"
    ELSE "broker"
=============================================================================
