------------------------------ MODULE Consumer ------------------------------
(****************************************************************************)
(* A consumer's partitions: src/consumer/state.rs and the paths of fetcher/,  *)
(* offsets/ and rebalance/ that change them.                                 *)
(*                                                                          *)
(* poll() takes &self, so several tasks poll at once and others seek and      *)
(* rebalance meanwhile.  The state mutex is never held across an await: an    *)
(* action is one critical section, and a task remembers across its awaits    *)
(* only the version it read.  The log behind a partition grows, loses its    *)
(* head to retention and its tail to elections.                              *)
(*                                                                          *)
(* Pausing, backoff, leaderless partitions and the validated flag decide       *)
(* which partitions an attempt is made for; any subset is allowed here.  A    *)
(* record that is walked over without being handed out (a control batch, an   *)
(* aborted transaction, a compacted batch) is an entry with data = FALSE.    *)
(****************************************************************************)
EXTENDS Integers, Sequences, FiniteSets, SequencesExt

CONSTANTS
    Partitions,
    Pollers,        \* tasks inside poll, recv or position
    MaxPoll,        \* max_poll_records
    Resets,         \* the strategies resets are asked for with
    Places,         \* offsets committed, configured or sought
    MaxChanges,     \* bound: entries and leader changes of all logs
    MaxVersions     \* bound: assignments and repositions

ASSUME ConsumerAssumption ==
    /\ MaxPoll \in Nat \ {0}
    /\ Resets \subseteq {"Earliest", "Latest"}
    /\ Places \subseteq Nat /\ MaxChanges \in Nat /\ MaxVersions \in Nat

None == -1

VARIABLES
    part,           \* SubscriptionState::partitions
    next_version,
    task,           \* what each poller is in the middle of
    log,            \* the leader's log: [epoch, data], offset k at index k + 1
    log_start,
    leader_epoch,
    hist            \* where the partition was last placed, and what it went past
                    \* since: offset -> entry

vars == <<part, next_version, task, log, log_start, leader_epoch, hist>>
logVars == <<log, log_start, leader_epoch>>

Unassigned ==
    [assigned |-> FALSE, version |-> 0, position |-> None, epoch |-> None,
     reset |-> "no", delivering |-> FALSE, buffered |-> <<>>]

Idle == [kind |-> "idle"]

PlacedAt(offset) == [from |-> offset, seen |-> <<>>]

Init ==
    /\ part = [p \in Partitions |-> Unassigned]
    /\ next_version = 0
    /\ task = [a \in Pollers |-> Idle]
    /\ log = [p \in Partitions |-> <<>>]
    /\ log_start = [p \in Partitions |-> 0]
    /\ leader_epoch = [p \in Partitions |-> 0]
    /\ hist = [p \in Partitions |-> PlacedAt(0)]

------------------------------------------------------------------------------
(* The log. *)

Changes == FoldFunction(+, 0, [p \in Partitions |-> Len(log[p]) + leader_epoch[p]])

Produce(p, data) ==
    /\ Changes < MaxChanges
    /\ log' = [log EXCEPT ![p] = Append(@, [epoch |-> leader_epoch[p], data |-> data])]
    /\ UNCHANGED <<part, next_version, task, log_start, leader_epoch, hist>>

\* Another replica leads; what it did not have is gone.
Elect(p, end) ==
    /\ Changes < MaxChanges
    /\ end \in log_start[p]..Len(log[p])
    /\ log' = [log EXCEPT ![p] = SubSeq(@, 1, end)]
    /\ leader_epoch' = [leader_epoch EXCEPT ![p] = @ + 1]
    /\ UNCHANGED <<part, next_version, task, log_start, hist>>

Retain(p) ==
    /\ log_start[p] < Len(log[p])
    /\ log_start' = [log_start EXCEPT ![p] = Len(log[p])]
    /\ UNCHANGED <<part, next_version, task, log, leader_epoch, hist>>

\* OffsetForLeaderEpoch: where the entries of an epoch and before it end.
EndOffset(p, epoch) ==
    Cardinality({k \in DOMAIN log[p] : log[p][k].epoch <= epoch})

------------------------------------------------------------------------------
(* Assignment and positions. *)

MinOf(x, y) == IF x < y THEN x ELSE y

Place(p, offset) == hist' = [hist EXCEPT ![p] = PlacedAt(offset)]

Bump ==
    /\ next_version < MaxVersions
    /\ next_version' = next_version + 1

add_partitions(p) ==
    /\ ~part[p].assigned
    /\ Bump
    /\ part' = [part EXCEPT ![p] = [Unassigned EXCEPT !.assigned = TRUE,
                                                      !.version = next_version + 1]]
    /\ UNCHANGED <<task, logVars, hist>>

remove_partitions(p) ==
    /\ part[p].assigned
    /\ part' = [part EXCEPT ![p] = Unassigned]
    /\ Place(p, 0)
    /\ UNCHANGED <<next_version, task, logVars>>

\* What seek, request_reset and truncate have in common: a new version, and
\* nothing buffered or on its way out is of this place any more.
Moved(r, position, reset) ==
    [r EXCEPT !.version = next_version + 1, !.position = position, !.epoch = None,
              !.reset = reset, !.buffered = <<>>, !.delivering = FALSE]

seek(p, offset) ==
    /\ part[p].assigned
    /\ Bump
    /\ part' = [part EXCEPT ![p] = Moved(@, offset, "no")]
    /\ Place(p, offset)
    /\ UNCHANGED <<task, logVars>>

request_reset(p, reset) ==
    /\ part[p].assigned
    /\ Bump
    /\ part' = [part EXCEPT ![p] = Moved(@, None, reset)]
    /\ Place(p, 0)
    /\ UNCHANGED <<task, logVars>>

\* update_positions: the partition has no position, or a reset is pending.
StartLookup(a, p) ==
    /\ task[a] = Idle
    /\ part[p].assigned /\ part[p].position = None
    /\ task' = [task EXCEPT ![a] = [kind |-> "lookup", p |-> p,
                                    version |-> part[p].version,
                                    reset |-> part[p].reset]]
    /\ UNCHANGED <<part, next_version, logVars, hist>>

StillFor(t) == part[t.p].version = t.version /\ part[t.p].position = None

\* set_initial_position: with the committed offset and its epoch, a configured
\* offset, or the answer of ListOffsets.
set_initial_position(a, offset, epoch) ==
    /\ task[a].kind = "lookup"
    /\ LET t == task[a]
       IN  /\ CASE t.reset = "no" -> /\ offset \in Places /\ epoch <= leader_epoch[t.p]
                                     /\ offset = 0 => epoch = None
                [] t.reset = "Earliest" -> offset = log_start[t.p] /\ epoch = None
                [] t.reset = "Latest" -> offset = Len(log[t.p]) /\ epoch = None
           /\ IF StillFor(t)
              THEN /\ part' = [part EXCEPT ![t.p].position = offset,
                                           ![t.p].epoch = epoch,
                                           ![t.p].reset = "no"]
                   /\ Place(t.p, offset)
              ELSE UNCHANGED <<part, hist>>
    /\ task' = [task EXCEPT ![a] = Idle]
    /\ UNCHANGED <<next_version, logVars>>

\* No committed and no configured offset: auto_offset_reset decides.
set_pending_reset(a, reset) ==
    /\ task[a].kind = "lookup" /\ task[a].reset = "no"
    /\ LET t == task[a]
       IN  part' = IF StillFor(t) THEN [part EXCEPT ![t.p].reset = reset] ELSE part
    /\ task' = [task EXCEPT ![a] = Idle]
    /\ UNCHANGED <<next_version, logVars, hist>>

Current(p, version) == part[p].assigned /\ part[p].version = version

\* A partition and its history, and the partitions after a step that leaves
\* each `after` it.  No two partitions' versions are ever compared, so the ones
\* one step moves share the new one.
Cell(p) == [r |-> part[p], h |-> hist[p]]

Apply(after) ==
    /\ part' = [p \in Partitions |-> after[p].r]
    /\ hist' = [p \in Partitions |-> after[p].h]
    /\ IF \E p \in Partitions : after[p].r.version = next_version + 1
       THEN Bump ELSE UNCHANGED next_version

\* A log that diverged below the position: it moves back, and what was seen of
\* the lost tail does not count.
truncate(p, version, end) ==
    IF ~Current(p, version) THEN Cell(p)
    ELSE [r |-> Moved(part[p], end, "no"),
          h |-> [from |-> MinOf(hist[p].from, end),
                 seen |-> Restrict(hist[p].seen, {o \in DOMAIN hist[p].seen : o < end})]]

StartValidation(a, p) ==
    /\ task[a] = Idle
    /\ part[p].assigned /\ part[p].position # None
    /\ task' = [task EXCEPT ![a] = [kind |-> "validate", p |-> p,
                                    version |-> part[p].version,
                                    position |-> part[p].position,
                                    epoch |-> part[p].epoch]]
    /\ UNCHANGED <<part, next_version, logVars, hist>>

validate_position(a) ==
    /\ task[a].kind = "validate"
    /\ LET t == task[a]
           end == EndOffset(t.p, IF t.epoch = None THEN leader_epoch[t.p] ELSE t.epoch)
           cell(p) == IF p = t.p /\ t.position > end
                      THEN truncate(p, t.version, end) ELSE Cell(p)
       IN  Apply([p \in Partitions |-> cell(p)])
    /\ task' = [task EXCEPT ![a] = Idle]
    /\ UNCHANGED logVars

------------------------------------------------------------------------------
(* Fetching. *)

Fetchable(p) ==
    /\ part[p].assigned /\ part[p].position # None
    /\ part[p].reset = "no"
    /\ ~part[p].delivering /\ part[p].buffered = <<>>

FetchTarget(p) ==
    [version |-> part[p].version, offset |-> part[p].position, epoch |-> part[p].epoch]

fetch_targets(a, chosen) ==
    /\ task[a] = Idle
    /\ chosen # {} /\ \A p \in chosen : Fetchable(p)
    /\ task' = [task EXCEPT ![a] = [kind |-> "fetch",
                                    targets |-> [p \in chosen |-> FetchTarget(p)],
                                    answers |-> <<>>]]
    /\ UNCHANGED <<part, next_version, logVars, hist>>

\* What the leader answers to a fetch: entries up to `next`, the end of the
\* log the consumer's epoch points into, or out of range.
Answer(p, t, next) ==
    CASE t.epoch # None /\ EndOffset(p, t.epoch) < t.offset ->
            [code |-> "diverging", end |-> EndOffset(p, t.epoch)]
      [] t.offset \notin log_start[p]..Len(log[p]) -> [code |-> "out_of_range"]
      [] OTHER -> [code |-> "ok", next |-> next,
                   broken |-> /\ t.epoch # None /\ part[p].position = t.offset
                              /\ \E o \in DOMAIN hist[p].seen :
                                    hist[p].seen[o] # log[p][o + 1],
                   entries |-> [o \in t.offset..next - 1 |-> log[p][o + 1]]]

Answered(a) == DOMAIN task[a].answers

BrokerServes(a, p, next) ==
    /\ task[a].kind = "fetch"
    /\ p \in DOMAIN task[a].targets \ Answered(a)
    /\ next \in 0..Len(log[p])
    /\ LET answer == Answer(p, task[a].targets[p], next)
       IN  /\ answer.code = "ok" => next >= task[a].targets[p].offset
           /\ answer.code # "ok" => next = 0
           /\ task' = [task EXCEPT ![a].answers = @ @@ (p :> answer)]
    /\ UNCHANGED <<part, next_version, logVars, hist>>

\* A transport error, a fenced epoch or any other error: the partition backs off.
BrokerFails(a, p) ==
    /\ task[a].kind = "fetch"
    /\ p \in DOMAIN task[a].targets \ Answered(a)
    /\ task' = [task EXCEPT ![a].answers = @ @@ (p :> [code |-> "error"])]
    /\ UNCHANGED <<part, next_version, logVars, hist>>

Data(entries, offsets) == {o \in DOMAIN entries \cap offsets : entries[o].data}

Offsets(S) == SetToSortSeq(S, <)

\* The history of a partition whose position moves to `next` past `entries`:
\* the records handed out, and what is not a record.
Past(p, next, entries, handed) ==
    LET passed == {o \in part[p].position..next - 1 :
                     o \in handed \/ (o \in DOMAIN entries /\ ~entries[o].data)}
    IN  [hist[p] EXCEPT !.seen = @ @@ [o \in passed |-> entries[o]]]

StillWhere_any(p, t) ==
    part[p].assigned /\ part[p].version = t.version /\ part[p].position = t.offset

StillWhere(p, t) ==
    /\ part[p].assigned /\ part[p].version = t.version
    /\ part[p].position = t.offset
    /\ part[p].buffered = <<>> /\ ~part[p].delivering

\* A result without records moves the position; one with records is buffered.
install_fetch(p, t, answer) ==
    LET records == Offsets(Data(answer.entries, t.offset..answer.next - 1))
        epoch == answer.entries[answer.next - 1].epoch
    IN  IF answer.next = t.offset \/ ~StillWhere(p, t)
        THEN Cell(p)
        ELSE IF records = <<>>
        THEN [r |-> [part[p] EXCEPT !.position = answer.next, !.epoch = epoch],
              h |-> Past(p, answer.next, answer.entries, {})]
        ELSE [r |-> [part[p] EXCEPT !.buffered =
                       [records |-> records, next_offset |-> answer.next,
                        next_epoch |-> epoch, entries |-> answer.entries]],
              h |-> hist[p]]

reset_if_current(p, version, reset) ==
    IF ~Current(p, version) THEN Cell(p)
    ELSE [r |-> Moved(part[p], None, reset), h |-> PlacedAt(0)]

\* Every partition of the round, under one lock, once all brokers answered.
apply_fetched(a, reset) ==
    /\ task[a].kind = "fetch"
    /\ DOMAIN task[a].targets = Answered(a)
    /\ LET cell(p) ==
             IF p \notin Answered(a) THEN Cell(p)
             ELSE LET t == task[a].targets[p]
                      answer == task[a].answers[p]
                  IN  CASE answer.code = "diverging" -> truncate(p, t.version, answer.end)
                        [] answer.code = "out_of_range" -> reset_if_current(p, t.version, reset)
                        [] answer.code = "ok" -> install_fetch(p, t, answer)
                        [] answer.code = "error" -> Cell(p)
       IN  Apply([p \in Partitions |-> cell(p)])
    /\ task' = [task EXCEPT ![a] = Idle]
    /\ UNCHANGED logVars

\* wakeup(), a dropped poll() or an answer that is lost.
Forget(a) ==
    /\ task[a].kind \in {"fetch", "lookup", "validate"}
    /\ task' = [task EXCEPT ![a] = Idle]
    /\ UNCHANGED <<part, next_version, logVars, hist>>

------------------------------------------------------------------------------
(* Delivery. *)

Ready(p) ==
    /\ part[p].assigned /\ ~part[p].delivering
    /\ part[p].buffered # <<>> /\ part[p].buffered.records # <<>>

\* How many records of each partition a delivery of at most MaxPoll takes, the
\* partitions in the order the rotation gives.
Takes(order) ==
    LET len(i) == Len(part[order[i]].buffered.records)
        left[i \in 1..Len(order) + 1] ==
            IF i = 1 THEN MaxPoll ELSE left[i - 1] - MinOf(left[i - 1], len(i - 1))
    IN  [i \in DOMAIN order |-> MinOf(left[i], len(i))]

take_delivery(a, order) ==
    /\ task[a] = Idle
    /\ {order[i] : i \in DOMAIN order} = {p \in Partitions : Ready(p)}
    /\ Len(order) = Cardinality({p \in Partitions : Ready(p)}) /\ order # <<>>
    /\ LET n == Takes(order)
           chunk(i) == [p |-> order[i], version |-> part[order[i]].version,
                        records |-> SubSeq(part[order[i]].buffered.records, 1, n[i])]
           used == SelectSeq([i \in DOMAIN order |-> chunk(i)],
                             LAMBDA c : c.records # <<>>)
           taken(p) == CHOOSE i \in DOMAIN order : order[i] = p
       IN  /\ part' = [p \in Partitions |->
                         IF Ready(p) /\ n[taken(p)] > 0
                         THEN [part[p] EXCEPT !.delivering = TRUE,
                                 !.buffered.records = SubSeq(@, n[taken(p)] + 1, Len(@))]
                         ELSE part[p]]
           /\ task' = [task EXCEPT ![a] = [kind |-> "deliver", chunks |-> used]]
    /\ UNCHANGED <<next_version, logVars, hist>>

Delivered_leader_epoch(r, c, n) ==
    LET out == SubSeq(c.records, 1, n)
        back == SubSeq(c.records, n + 1, Len(c.records)) \o r.buffered.records
        moved == IF n = 0 THEN r
                 ELSE [r EXCEPT !.position = out[n] + 1, !.epoch = leader_epoch[c.p]]
    IN  IF back = <<>>
        THEN [moved EXCEPT !.delivering = FALSE, !.buffered = <<>>,
                           !.position = r.buffered.next_offset]
        ELSE [moved EXCEPT !.delivering = FALSE, !.buffered.records = back]

\* One partition's part of a delivery: the first `n` of its records leave the
\* consumer and the position follows them, the others go back to the front.
Delivered(r, c, n) ==
    LET out == SubSeq(c.records, 1, n)
        back == SubSeq(c.records, n + 1, Len(c.records)) \o r.buffered.records
        moved == IF n = 0 THEN r
                 ELSE [r EXCEPT !.position = out[n] + 1,
                                !.epoch = r.buffered.entries[out[n]].epoch]
    IN  IF back = <<>>
        THEN [moved EXCEPT !.delivering = FALSE, !.buffered = <<>>,
                           !.position = r.buffered.next_offset,
                           !.epoch = r.buffered.next_epoch]
        ELSE [moved EXCEPT !.delivering = FALSE, !.buffered.records = back]

\* abort_delivery is complete_delivery with nothing handed out: a dropped
\* future, or the failure of the first deserializer.
complete_delivery(a, handed_out) ==
    /\ task[a].kind = "deliver"
    /\ LET chunks == task[a].chunks
           before(i) == LET sum[k \in 0..i - 1] ==
                              IF k = 0 THEN 0 ELSE sum[k - 1] + Len(chunks[k].records)
                        IN  sum[i - 1]
           n(i) == IF handed_out <= before(i) THEN 0
                   ELSE MinOf(handed_out - before(i), Len(chunks[i].records))
           mine(p) == {i \in DOMAIN chunks :
                         /\ chunks[i].p = p
                         /\ Current(p, chunks[i].version)}
           cell(p) ==
             IF mine(p) = {} THEN Cell(p)
             ELSE LET i == CHOOSE x \in mine(p) : TRUE
                      r == Delivered(part[p], chunks[i], n(i))
                  IN  [r |-> r, h |-> Past(p, r.position, part[p].buffered.entries,
                                           {chunks[i].records[k] : k \in 1..n(i)})]
       IN  Apply([p \in Partitions |-> cell(p)])
    /\ task' = [task EXCEPT ![a] = Idle]
    /\ UNCHANGED logVars

Orders == UNION {[1..k -> Partitions] : k \in 1..Cardinality(Partitions)}

Next ==
    \/ \E p \in Partitions :
         \/ \E data \in BOOLEAN : Produce(p, data)
         \/ \E end \in 0..MaxChanges : Elect(p, end)
         \/ Retain(p)
         \/ add_partitions(p) \/ remove_partitions(p)
         \/ \E offset \in Places : seek(p, offset)
         \/ \E reset \in Resets : request_reset(p, reset)
    \/ \E a \in Pollers :
         \/ \E p \in Partitions : StartLookup(a, p) \/ StartValidation(a, p)
         \/ \E offset \in Places \cup 0..MaxChanges, epoch \in None..MaxChanges :
               set_initial_position(a, offset, epoch)
         \/ \E reset \in Resets : set_pending_reset(a, reset)
         \/ validate_position(a)
         \/ \E chosen \in SUBSET Partitions : fetch_targets(a, chosen)
         \/ \E p \in Partitions, next \in 0..MaxChanges : BrokerServes(a, p, next)
         \/ \E p \in Partitions : BrokerFails(a, p)
         \/ \E reset \in Resets : apply_fetched(a, reset)
         \/ Forget(a)
         \/ \E order \in Orders : take_delivery(a, order)
         \/ \E n \in 0..MaxPoll : complete_delivery(a, n)

Spec == Init /\ [][Next]_vars

------------------------------------------------------------------------------
(* Properties. *)

\* Every variable has its type, and only a positioned partition holds records.
TypeOK ==
    /\ next_version \in 0..MaxVersions
    /\ \A p \in Partitions :
         /\ part[p].assigned \in BOOLEAN /\ part[p].delivering \in BOOLEAN
         /\ part[p].version \in 0..next_version
         /\ part[p].position \in Places \cup None..MaxChanges
         /\ part[p].epoch \in None..leader_epoch[p]
         /\ part[p].reset \in {"no", "Earliest", "Latest"}
         /\ part[p].delivering => part[p].buffered # <<>>
         /\ part[p].buffered # <<>> => part[p].position # None
         /\ log_start[p] \in 0..Len(log[p])
    /\ \A a \in Pollers : task[a].kind \in {"idle", "lookup", "validate", "fetch", "deliver"}

\* The position, which a commit writes, is past exactly what was handed out:
\* between where the partition was placed and its position no record is
\* missing, whichever task fetched, delivered, failed or was dropped.
PositionCovered ==
    \A p \in Partitions : part[p].position # None =>
        DOMAIN hist[p].seen = hist[p].from..part[p].position - 1

InDelivery(p) ==
    {<<a, i>> \in Pollers \X (1..Cardinality(Partitions)) :
        /\ task[a].kind = "deliver" /\ i \in DOMAIN task[a].chunks
        /\ task[a].chunks[i].p = p /\ task[a].chunks[i].version = part[p].version}

\* No record is lost or doubled inside the consumer: what is on its way out
\* and what is still buffered are together the fetched records from the
\* position on, in order, and one task at most is handing a partition out.
PipelineExact ==
    \A p \in Partitions : part[p].buffered # <<>> =>
        LET r == part[p]
            out == IF InDelivery(p) = {} THEN <<>>
                   ELSE LET d == CHOOSE x \in InDelivery(p) : TRUE
                        IN  task[d[1]].chunks[d[2]].records
        IN  /\ Cardinality(InDelivery(p)) = IF r.delivering THEN 1 ELSE 0
            /\ out \o r.buffered.records =
                 Offsets(Data(r.buffered.entries, r.position..r.buffered.next_offset - 1))

\* Across elections: a fetch from a position whose epoch is known, and that
\* the leader does not answer with a divergence, continues the log the
\* consumer has read, entry for entry.
ContinuesLog ==
    \A a \in Pollers : task[a].kind = "fetch" =>
        \A p \in Answered(a) : task[a].answers[p].code = "ok" => ~task[a].answers[p].broken

\* The decoding of a response, whose outcome the fetch steps take as data.
Walk == INSTANCE BatchWalk

Walked == Walk!WalkExact

\* Every fetched record is handed out once, in order, and the position says so:
\* from the batches of a response to the application.
DeliveredExactly == TypeOK /\ PositionCovered /\ PipelineExact /\ Walked
==============================================================================
