--------------------------- MODULE TxnCoordinator ---------------------------
(***************************************************************************)
(* The transaction coordinator and the partition leaders' transactional    *)
(* writes, as the repository's in-process broker has them                  *)
(* (src/testing/handlers.rs and state.rs; KIP-98, KIP-360, KIP-890).       *)
(*                                                                         *)
(* A `txn` is the coordinator's BrokerTransaction for the one              *)
(* transactional id: its current epoch (-1: the id is not known), the one  *)
(* before the last bump, its TxnStatus and the partitions in it.  Markers  *)
(* may be held back, so ending a transaction and writing its markers are   *)
(* two steps.                                                              *)
(***************************************************************************)
EXTENDS Integers, FiniteSets

Preparing == {"PrepareCommit", "PrepareAbort"}
Completed == {"CompleteCommit", "CompleteAbort"}
TxnStatus == {"Empty", "Ongoing"} \cup Preparing \cup Completed

NoTransaction == [epoch |-> -1, last |-> -1, status |-> "Empty", parts |-> {}]

bump_epoch(txn) == [txn EXCEPT !.last = txn.epoch, !.epoch = txn.epoch + 1]

Join(txn, p) == [txn EXCEPT !.status = "Ongoing", !.parts = @ \cup {p}]

(* `fence_transaction`: a fenced epoch is never a retry of the new one. *)
fence_transaction(txn) ==
    [txn EXCEPT !.last = -1, !.epoch = txn.epoch + 1, !.status = "PrepareAbort"]

(* `end_transaction`; the epoch moves first under TV2. *)
end_transaction(txn, commit, tv2) ==
    [(IF tv2 THEN bump_epoch(txn) ELSE txn) EXCEPT
        !.status = IF commit THEN "PrepareCommit" ELSE "PrepareAbort"]

(* What the coordinator has afterwards, its answer, and in a successful    *)
(* answer the epoch and the epoch of a transaction it kept (-1 for none).  *)
Refused(txn, code) == [txn |-> txn, code |-> code, epoch |-> -1, ongoing |-> -1]
Granted(txn, ongoing) ==
    [txn |-> txn, code |-> "None", epoch |-> txn.epoch, ongoing |-> ongoing]

(* `init_transactional_producer`; `expected` is -1 for a new incarnation.  *)
init_transactional_producer(txn, expected, keep_prepared) ==
    CASE txn.epoch = -1 /\ expected # -1 -> Refused(txn, "InvalidProducerIdMapping")
      [] txn.epoch = -1 /\ expected = -1 -> Granted([txn EXCEPT !.epoch = 0], -1)
      [] txn.epoch # -1 /\ txn.status \in Preparing ->
           Refused(txn, "ConcurrentTransactions")
      [] txn.status = "Ongoing" /\ keep_prepared -> Granted(txn, txn.epoch)
      [] txn.status = "Ongoing" /\ ~keep_prepared ->
           Refused(fence_transaction(txn), "ConcurrentTransactions")
      [] OTHER ->
           CASE expected \in {-1, txn.epoch} -> Granted(bump_epoch(txn), -1)
             [] expected = txn.last /\ expected # -1 -> Granted(txn, -1)
             [] OTHER -> Refused(txn, "ProducerFenced")

(* `txn_check`, the rules in their order; "None" lets the request pass. *)
txn_check(txn, epoch) ==
    IF txn.epoch = -1 THEN "InvalidProducerIdMapping"
    ELSE IF txn.epoch # epoch THEN "ProducerFenced"
    ELSE IF txn.status \in Preparing THEN "ConcurrentTransactions" ELSE "None"

add_partitions_to_txn(txn, epoch, p) ==
    LET code == txn_check(txn, epoch) IN
    IF code = "None" THEN Granted(Join(txn, p), -1) ELSE Refused(txn, code)

(* `end_txn_outcome`. *)
end_txn_outcome(txn, epoch, commit, tv2) ==
    LET current == epoch = txn.epoch
        retry == tv2 /\ txn.last >= 0 /\ epoch = txn.last
        repeated == (current /\ ~tv2) \/ retry
        same == commit = (txn.status \in {"PrepareCommit", "CompleteCommit"})
    IN CASE txn.epoch = -1 -> Refused(txn, "InvalidProducerIdMapping")
         [] txn.status = "Ongoing" /\ current ->
              Granted(end_transaction(txn, commit, tv2), -1)
         [] txn.status \in Preparing /\ repeated ->
              Refused(txn, IF same THEN "ConcurrentTransactions" ELSE "InvalidTxnState")
         [] txn.status \in Completed /\ repeated ->
              IF same THEN Granted(txn, -1) ELSE Refused(txn, "InvalidTxnState")
         [] txn.status \in Completed \cup {"Empty"} /\ ~repeated /\ current /\ tv2 /\ ~commit ->
              Granted([bump_epoch(txn) EXCEPT !.status = "CompleteAbort"], -1)
         [] OTHER -> Refused(txn, IF current THEN "InvalidTxnState" ELSE "ProducerFenced")

(***************************************************************************)
(* A leader's state for the producer in one partition: the epoch of its    *)
(* entry (-1: none) and the next sequence number.                          *)
(***************************************************************************)
NoEntry == [epoch |-> -1, next |-> 0]

check_sequence(entry, epoch, seq) ==
    IF entry.epoch = -1 THEN "Append"
    ELSE IF epoch < entry.epoch THEN "InvalidProducerEpoch"
    ELSE IF epoch = entry.epoch /\ seq < entry.next THEN "Duplicate"
    ELSE IF seq = (IF epoch > entry.epoch THEN 0 ELSE entry.next) THEN "Append"
    ELSE "OutOfOrderSequenceNumber"

record_batch(epoch, seq) == [epoch |-> epoch, next |-> seq + 1]

(* `append_marker`: a marker of a higher epoch fences the lower ones. *)
append_marker(entry, epoch) ==
    IF epoch > entry.epoch THEN [epoch |-> epoch, next |-> 0] ELSE entry

(* `append_produce_partition` for a transactional batch: the checks of the *)
(* coordinator's view, then the leader's.  A write registers its partition *)
(* itself only from Produce v12 on (TV2).                                  *)
append_produce_partition(txn, entry, epoch, p, seq, tv2) ==
    IF txn.epoch = -1 THEN "InvalidProducerIdMapping"
    ELSE IF txn.epoch # epoch THEN "InvalidProducerEpoch"
    ELSE IF txn.status \in Preparing THEN "ConcurrentTransactions"
    ELSE IF ~tv2 /\ ~(txn.status = "Ongoing" /\ p \in txn.parts) THEN "InvalidTxnState"
    ELSE check_sequence(entry, epoch, seq)
=============================================================================
