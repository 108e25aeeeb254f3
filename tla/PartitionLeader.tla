-------------------------- MODULE PartitionLeader ---------------------------
(***************************************************************************)
(* What a partition's leader does with a produced batch, as the            *)
(* repository's in-process broker does it (src/testing/state.rs and        *)
(* handlers.rs): the producer-state rules of KIP-98 and KIP-360.           *)
(*                                                                         *)
(* A leader is a record: `log`, the records in offset order (kept whole,   *)
(* retention only moves `start`); `start`, the log start offset; and       *)
(* `producers`, for each producer id the epoch of its latest write (-1 for *)
(* a producer not known) and its last appended batches.                    *)
(***************************************************************************)
EXTENDS ProducerIdentity

CONSTANTS
    PRODUCER_STATE_BATCHES,     \* batches remembered per producer
    PRE_KIP360,                 \* the broker is older than 2.5
    ProducerIds                 \* producer ids that may be used

ASSUME LeaderAssumption == PRODUCER_STATE_BATCHES \in Nat \ {0}

UnknownProducer == [epoch |-> -1, batches |-> <<>>]

EmptyLeader == [log |-> <<>>, start |-> 0,
                producers |-> [i \in ProducerIds |-> UnknownProducer]]

last_sequence(first, count) == (first + count - 1) % SEQ_SPACE
following_sequence(last) == (last + 1) % SEQ_SPACE

(* The cached batch with exactly this sequence range, if there is one. *)
Duplicates(entry, first, count) ==
    {b \in {entry.batches[i] : i \in DOMAIN entry.batches} :
        b.first = first /\ b.last = last_sequence(first, count)}

(* `check_sequence`: "Append", "Duplicate", or the code of the rejection. *)
check_sequence(leader, st, count) ==
    LET entry == leader.producers[st.producer_id]
        first == st.base_sequence
    IN IF entry.epoch = -1
       THEN IF PRE_KIP360 /\ first # 0 THEN "UnknownProducerId" ELSE "Append"
       ELSE IF st.epoch < entry.epoch THEN "InvalidProducerEpoch"
       ELSE IF st.epoch > entry.epoch
       THEN IF first = 0 THEN "Append" ELSE "OutOfOrderSequenceNumber"
       ELSE IF Duplicates(entry, first, count) # {} THEN "Duplicate"
       ELSE IF first = (IF entry.batches = <<>> THEN 0
                        ELSE following_sequence(entry.batches[Len(entry.batches)].last))
       THEN "Append" ELSE "OutOfOrderSequenceNumber"

(* `record_batch`: a new epoch starts a fresh entry. *)
record_batch(entry, st, count, base) ==
    LET kept == IF entry.epoch = st.epoch THEN entry.batches ELSE <<>>
        all == Append(kept, [first |-> st.base_sequence,
                             last |-> last_sequence(st.base_sequence, count),
                             base |-> base])
        n == Len(all)
    IN [epoch |-> st.epoch,
        batches |-> SubSeq(all, IF n > PRODUCER_STATE_BATCHES
                                THEN n - PRODUCER_STATE_BATCHES + 1 ELSE 1, n)]

(* `append_produce_partition` for a batch that is not transactional: the   *)
(* leader afterwards, the code it answers and the base offset.             *)
append_produce(leader, st, recs) ==
    LET base == Len(leader.log)
        written == [leader EXCEPT !.log = @ \o recs]
        verdict == check_sequence(leader, st, Len(recs))
        entry == leader.producers[st.producer_id]
    IN IF st = NoStamp
       THEN [leader |-> written, code |-> "None", base |-> base]
       ELSE IF verdict = "Append"
       THEN [leader |-> [written EXCEPT !.producers[st.producer_id] =
                            record_batch(entry, st, Len(recs), base)],
             code |-> "None", base |-> base]
       ELSE IF verdict = "Duplicate"
       THEN [leader |-> leader, code |-> "None",
             base |-> (CHOOSE b \in Duplicates(entry, st.base_sequence, Len(recs)) :
                         TRUE).base]
       ELSE [leader |-> leader, code |-> verdict, base |-> -1]

(* Retention deletes the whole log and with it what the leader knew of its *)
(* producers (clear_producer_state).                                       *)
Expired(leader) ==
    [leader EXCEPT !.start = Len(leader.log),
                   !.producers = [i \in ProducerIds |-> UnknownProducer]]
=============================================================================
