------------------------------ MODULE BatchWalk ------------------------------
(****************************************************************************)
(* From the bytes of one partition's fetch response to records and the next  *)
(* position: src/consumer/fetcher/decode.rs.                                 *)
(*                                                                          *)
(* A batch spans the offsets base..end and holds the records the log cleaner  *)
(* left of them; pid is its producer, txn whether it belongs to a            *)
(* transaction, marker what a control batch says.  bytes says how much of it *)
(* the response holds, and in which condition.  The walk is a fold, compared  *)
(* with what a consumer of the log should be given.                          *)
(****************************************************************************)
EXTENDS Integers, Sequences, FiniteSets, SequencesExt

NoOffset == -1
Unlimited == 1000       \* usize::MAX: more than any response holds

Batch(base, width, kept, pid, txn, marker) ==
    [base |-> base, end |-> base + width - 1, offsets |-> kept, pid |-> pid,
     txn |-> txn, marker |-> marker, epoch |-> base, bytes |-> "whole"]

\* The outcome and the locals of the loop.
Start(aborted_txns, record_budget) ==
    [last_offset |-> NoOffset, last_epoch |-> -1, error |-> FALSE, corrupt |-> FALSE,
     records |-> <<>>, budget |-> record_budget, walking |-> TRUE,
     aborted |-> aborted_txns, producers |-> {}]

control_batch_is_abort(b) == b.marker = "abort"

advance_through_batch(w, fetch_offset, b) ==
    IF b.end < fetch_offset \/ (w.last_offset # NoOffset /\ b.end <= w.last_offset)
    THEN w
    ELSE [w EXCEPT !.last_offset = b.end, !.last_epoch = b.epoch]

\* The aborted transactions that begin at or before the batch.
Activate(w, b) ==
    LET due == {t \in w.aborted : t.first_offset <= b.base}
    IN  [w EXCEPT !.aborted = @ \ due, !.producers = @ \cup {t.producer_id : t \in due}]

InOrder(offsets, last) == SelectSeq([k \in 1..last + 1 |-> k - 1], LAMBDA o : o \in offsets)

\* The records of a batch that may be delivered, as far as the budget goes.
Deliver(w, fetch_offset, b) ==
    LET due == InOrder({o \in b.offsets : o >= fetch_offset}, b.end)
        used == IF Len(due) > w.budget THEN w.budget ELSE Len(due)
        pushed ==
            [w EXCEPT !.records = @ \o SubSeq(due, 1, used),
                      !.budget = @ - used,
                      !.last_offset = IF used = 0 THEN @ ELSE due[used],
                      !.last_epoch = IF used = 0 THEN @ ELSE b.epoch]
    IN  IF used < Len(due)
        THEN [pushed EXCEPT !.walking = FALSE]
        ELSE advance_through_batch(pushed, fetch_offset, b)

\* A batch that decodes.
Decoded(w, fetch_offset, b) ==
    CASE b.marker # "none" ->
             advance_through_batch(
                 [w EXCEPT !.producers = IF control_batch_is_abort(b)
                                         THEN @ \ {b.pid} ELSE @],
                 fetch_offset, b)
      [] b.marker = "none" /\ b.txn /\ b.pid \in w.producers ->
             advance_through_batch(w, fetch_offset, b)
      [] OTHER ->
             IF b.offsets = {} THEN advance_through_batch(w, fetch_offset, b)
                               ELSE Deliver(w, fetch_offset, b)

\* A batch that does not: a truncated tail behind progress is the fetch limit's.
Undecodable(w, b) ==
    LET made_progress == w.last_offset # NoOffset
    IN  [w EXCEPT !.walking = FALSE,
                  !.corrupt = ~(made_progress /\ b.bytes = "truncated"),
                  !.error = ~made_progress]

\* One round of the loop: header first, then the batch.
WalkBatch(w, fetch_offset, b) ==
    LET seen == IF b.txn /\ b.marker = "none" /\ b.bytes \in {"whole", "bad_crc"}
                THEN Activate(w, b) ELSE w
    IN  CASE ~w.walking -> w
          [] w.walking /\ (b.bytes = "stub" \/ w.budget = 0) -> [w EXCEPT !.walking = FALSE]
          [] OTHER ->
                 IF /\ b.txn /\ b.marker = "none" /\ b.bytes \in {"whole", "bad_crc"}
                    /\ b.pid \in seen.producers
                 THEN advance_through_batch(seen, fetch_offset, b)
                 ELSE IF b.bytes = "whole"
                      THEN Decoded(Activate(seen, b), fetch_offset, b)
                      ELSE Undecodable(seen, b)

decode_partition_batches(batches, fetch_offset, aborted_txns, record_budget) ==
    FoldLeft(LAMBDA w, b : WalkBatch(w, fetch_offset, b),
             Start(aborted_txns, record_budget), batches)

------------------------------------------------------------------------------
(* The logs the walk is compared on. *)

\* What stands at a place of a log: plain data, data of a transaction of a
\* producer, or a marker that ends one; data loses records to the log cleaner.
Entries ==
    {[pid |-> p, txn |-> p # 0, marker |-> "none", kept |-> k] :
        p \in 0..2, k \in {{0, 1}, {0}, {}}}
    \cup {[pid |-> p, txn |-> TRUE, marker |-> m, kept |-> {0}] :
             p \in {1, 2}, m \in {"abort", "commit"}}

\* Without a loss to the cleaner, where logs are longer.
Plain == {e \in Entries : e.kept \in {{0, 1}} \/ e.marker # "none"}

\* Two offsets to a batch of data, one to a marker.
WidthOf(e) == IF e.marker = "none" THEN 2 ELSE 1

LogOf(s) ==
    FoldLeft(LAMBDA l, e :
                 LET base == IF l = <<>> THEN 0 ELSE l[Len(l)].end + 1
                 IN  Append(l, Batch(base, WidthOf(e), {base + k : k \in e.kept},
                                     e.pid, e.txn, e.marker)),
             <<>>, s)

\* The marker that ends the transaction of batch i: none while it is open.
EndOf(l, i) ==
    {j \in i + 1..Len(l) :
        /\ l[j].marker # "none" /\ l[j].pid = l[i].pid
        /\ \A k \in i + 1..j - 1 : l[k].marker = "none" \/ l[k].pid # l[i].pid}

IsTxnData(l, i) == l[i].txn /\ l[i].marker = "none"

\* A broker serves what lies below the first open transaction.
Stable(l) == \A i \in DOMAIN l : IsTxnData(l, i) => EndOf(l, i) # {}

Aborted(l, i) ==
    IsTxnData(l, i) /\ \E j \in EndOf(l, i) : l[j].marker = "abort"

\* The aborted transactions a broker names for a fetch: those that end at or
\* after the fetched offset.
AbortedTxns(l, fetch_offset) ==
    {[producer_id |-> l[i].pid, first_offset |-> l[i].base] :
        i \in {i \in DOMAIN l :
                  /\ Aborted(l, i)
                  /\ \E j \in EndOf(l, i) : l[j].end >= fetch_offset
                  /\ ~\E h \in 1..i - 1 : IsTxnData(l, h) /\ l[h].pid = l[i].pid
                                          /\ EndOf(l, h) = EndOf(l, i)}}

\* What the log holds for a read_committed consumer from fetch_offset up to
\* batch n.
Committed(l, fetch_offset, n) ==
    InOrder(UNION {{o \in l[i].offsets : o >= fetch_offset} :
                       i \in {i \in 1..n : l[i].marker = "none" /\ ~Aborted(l, i)}},
            l[n].end)

\* A response holds the batches from the one with the fetched offset, whole up
\* to n and then, if damage is not "none", one that is not.
Damage == {"none", "stub", "truncated", "bad_header", "bad_crc"}

Response(l, fetch_offset, n, damage) ==
    LET first == CHOOSE i \in DOMAIN l : fetch_offset \in l[i].base..l[i].end
        cut == SubSeq(l, first, n)
    IN  IF damage = "none" \/ n = Len(l) THEN cut
        ELSE Append(cut, [l[n + 1] EXCEPT !.bytes = damage])

\* The walk is exact on log l, fetched at fetch_offset with n whole batches:
\*   - it delivers committed records of the log only, in order and from the
\*     first on, and all of them unless the budget or the damage ends it;
\*   - no committed record lies below the next position without having been
\*     delivered, and what the position covers is no longer fetched;
\*   - the position moves if a batch reaches the fetched offset, whatever the
\*     cleaner, markers and aborts left in it, or the fault is reported.
ExactOn(l, fetch_offset, n, damage, record_budget) ==
    LET w == decode_partition_batches(Response(l, fetch_offset, n, damage), fetch_offset,
                                      AbortedTxns(l, fetch_offset), record_budget)
        full == Committed(l, fetch_offset, Len(l))
        covered == {o \in ToSet(full) : o <= w.last_offset}
    IN  /\ IsPrefix(w.records, full)
        /\ ToSet(w.records) = covered
        /\ Len(w.records) <= record_budget
        /\ w.last_offset # NoOffset => w.last_offset >= fetch_offset
        /\ LET first == CHOOSE i \in DOMAIN l : fetch_offset \in l[i].base..l[i].end
           IN  /\ first <= n /\ record_budget > 0 => w.last_offset # NoOffset
               /\ w.last_offset < l[n].end /\ first <= n =>
                      Len(w.records) = record_budget
        /\ w.error => w.last_offset = NoOffset /\ w.records = <<>>

\* Logs of three batches with every damage and budget, and longer ones whole.
ShortLogs == {l \in {LogOf(s) : s \in [1..3 -> Entries]} : Stable(l)}

LongLogs == {l \in {LogOf(s) : s \in [1..5 -> Plain]} : Stable(l)}

OffsetsOf(l) == 0..l[Len(l)].end

\* The walk hands out what was committed, once and in order, and leaves the
\* position behind the last offset it covers (decode_partition_batches).
WalkExact ==
    /\ \A l \in ShortLogs : \A o \in OffsetsOf(l), n \in 1..Len(l), d \in Damage,
                                b \in {0, 1, 2, Unlimited} : ExactOn(l, o, n, d, b)
    /\ \A l \in LongLogs : \A o \in OffsetsOf(l), b \in {3, Unlimited} :
           ExactOn(l, o, Len(l), "none", b)
==============================================================================
