# A TLA+ model of krafka

krafka is a Kafka client in Rust on Tokio. This directory holds TLA+ modules of
the parts of it that decide something (what becomes of a record, a transaction,
a request, a position, an assignment, an acknowledgement), the TLC
configurations that check them, and proofs checked by TLAPS. Paths below are
relative to the repository's crate (`src/producer/engine.rs` and so on);
`PROJECT.json` maps every definition to the lines it models.

## The system

| part | state it keeps | operations | what is hard about it | module |
|---|---|---|---|---|
| flush barrier (`barrier.rs`) | current generation, sends per generation, `closing`, a `Notify` | `start`, guard drop, `snapshot`, `begin_close`, `wait_for` | called from every sending thread; lost wakeups; a send racing a close | InFlightBarrier |
| producer facade, accumulator, interceptors (`producer/mod.rs`, `accumulator.rs`, `interceptor.rs`) | free buffer memory, waiting sends, obligations to the interceptors | `send`, `flush`, `close`, drop | a send may be refused, cancelled, timed out or failed at a dozen awaits | ProducerSend |
| producer identity (`identity.rs`) | producer id, epoch, a partition's next sequence | `stamp`, `bumped`, `classify` | which answers prove that a batch is not in the log | ProducerIdentity |
| send engine (`engine.rs`, `batch.rs`) | per partition an open batch, sealed batches, the batch on the wire; requests, slots, the identity, the count of unresolved stamps | commands, `expire`, `apply_bump`, `drain`, `complete` | retries, deadlines and late answers; epochs that may move only when nothing stamped is unresolved; splits; fatal errors in the middle of a response | SendEngine |
| partition leader (the in-process broker of `testing/`) | log, producer entries | produce | duplicates, gaps, fenced epochs, retention | PartitionLeader, ProduceDelivery |
| transactional producer (`transaction.rs`, `gate.rs`) | transaction state, pending sends, registered partitions, identity | init, begin, send, prepare, commit, abort, complete | lost and late `EndTxn` answers, fencing, cancelled commits, a crash | Transactions, TxnCoordinator |
| connection (`network/connection.rs`) | slots, correlation ids, the pending map, a parked command, the mute | send, write, read, time out, close, drop a caller | everything meets in one `select!`; the first timeout ends the connection | Connection |
| connection pool (`network/pool.rs`) | connections by key and id, dials under way, backoffs, a generation | get, dial, evict, `close_all` | a dial shared by several tasks and overtaken by `close_all` | ConnectionPool |
| wire protocol (`protocol/`) | version ranges, request and response layouts | handshake, encode, decode | sixty-seven hand-written codecs at every version | Wire and Wire* |
| telemetry (`telemetry/`) | subscription, last pushed totals, terminating flag | subscribe, push, close | deltas over lost answers and re-subscriptions | Telemetry |
| consumer (`consumer/state.rs`, `fetcher/`, `offsets/`) | positions, versions, buffered fetches, delivery guards | poll, seek, revoke, reset, validate | a fetch answered after a seek, a revocation or an election | Consumer |
| fetch sessions (`consumer/fetch_session.rs`) | session id, epoch, what the session holds | build a request, read an answer, reset, close | both ends must agree although answers are lost or late | FetchSession |
| group membership (`consumer/group/`, `rebalance/`, `assignor/`) | member state, generation, assignment, target | join, sync, heartbeat, revoke, leave | four tasks on one state; two protocols; partitions in transfer | GroupMembership, Assignor |
| share consumer (`share_consumer/`) | acknowledgement book, sessions, request managers | poll, acknowledge, commit, close | an acknowledgement retried behind a newer one; locks that expire | ShareConsumer |
| cluster metadata (`metadata.rs`) | snapshot, queued requests, hints | refresh, hint, rebootstrap | answers of lagging brokers; a request that races the writer's sleep | ClusterMetadata |
| admin client (`admin/`) | the round's keys and what is known of each | one driver, every operation a list of calls | a write retried after it was carried out | AdminDriver, AdminOperations |
| record format and decoding (`protocol/record.rs`, `util.rs`, `fetcher/decode.rs`) | none | encode and decode varints, records, batches; walk a response | damaged, truncated and compacted batches, aborted transactions, a budget | RecordFormat, BatchWalk |
| group blobs (`consumer_protocol.rs`), errors (`error.rs`) | none | encode, decode; classify | members of several versions; tables written apart | EmbeddedProtocol, ErrorCodes |
| partitioner, producer records, configuration, compacted view, transport and TLS, authentication, metrics | | | data types, I/O, cryptography, observation | not modelled |

How they meet. A `send` runs the interceptors, takes buffer memory, registers
with the barrier and puts an `Append` on the engine's channel. The engine is one
task: it handles commands, expires batches, applies a due epoch bump, builds
requests (each a future that talks to a connection from the pool) and looks at
the results. `flush` ends a barrier generation, tells the engine to seal what
that generation sent, and waits for it. A transactional producer uses the same
engine and hands it its identity. Connections negotiate versions once and pair
answers with callers by correlation id. The consumer's tasks share one state
mutex that is never held across an await; fetches, rebalances and offset
lookups read it, await, and write it back under a version. Metadata has one
writer; everyone else reads snapshots, queues requests and leaves hints.

What makes each part correct is stated in its module under *Properties*, and
the places where the code could go wrong are in `PROJECT.json`, *hazards*, each
with the properties that would notice.

## Modules

**Producer.** *FlushPromise* says what `flush` and `close_with` promise: a call
owes its caller the sends in progress at the call, and no other.
*InFlightBarrier* is `barrier.rs`; a step is one critical section, one `Notify`
operation or one resumption of a task, and it implements FlushPromise under a
refinement mapping (a call is owed the guards of its generation and earlier).
*ProducerSend* extends it with whole sends: interceptors and their contexts,
memory, hand-over, answers, close. *ProducerIdentity* is `identity.rs` as
operators. *SendEngine* is `engine.rs` with `batch.rs`: one action per command,
one partition's share of `expire`, the ways of `apply_bump`, one request of
`drain`, `complete`, and `resolve` for each result of a completed request;
while `resolving` is not empty nothing else happens, as in the code's loop. Its
histories are `outcome` (what each handle resolved to) and `issued` (every stamp
a batch went out with). *PartitionLeader* is what a leader does with a batch.
*ProduceDelivery* composes engine, connections and leaders: attempts are lost,
handled after they were given up, appended and answered with an error, a size
limit may drop, retention may delete.

**Transactions.** *Transactions* is the producer's gate and its calls, with the
send engine reduced to what a transaction sees of it; *TxnCoordinator* the
coordinator and the leaders' transactional writes, from the in-process broker.

**Network.** *Connection* is the event loop of one connection with its callers,
reader and broker; *ConnectionPool* the pool. *WireFormat* has the kinds of
fields, *WireData*, *WireGroups* and *WireAdmin* the layouts of every request
and response by version, *WireBroker* those of the in-process broker, *Wire* the
handshake, the choice of a version and one exchange. *Telemetry* is the
reporter. *MCNetwork* puts the three beside each other for TLC.

**Data formats**, as operators compared with what they should compute; TLC
evaluates the comparison with the runs that use them (that of RecordFormat as an
ASSUME of Wire). *RecordFormat* (with Wire)
has varints over every buffer, with groups of 2 and 3 bits for integers of 5 and 8
bits in place of 7 for 32 and 64; records, whose length is computed apart from
the writing, on integers of 28 bits; xerial framing and the limit on what a
payload grows to; batches with their header's places. The checksum and the
compression algorithms are external: a checksum is the fields it covers, a codec
is lossless. *EmbeddedProtocol* (with Wire) has the blobs that members of several
versions of a classic group read of one another. *ErrorCodes* (with Wire) has the
taxonomy's three tables and the remedies they lead to. *BatchWalk* (with Consumer)
is the walk over a response, compared with what a `read_committed` consumer of the
log should get: all logs of three batches with every damage and budget, and logs
of five batches without loss to the cleaner.

**Consumers.** *Consumer*, *FetchSession*, *GroupMembership* over *Assignor*,
*ShareConsumer*.

**Cluster.** *ClusterMetadata*; *AdminDriver* composes it with the driver's
rounds; *AdminOperations* lists what each admin operation asks of the driver.

**MC modules** give the sets, workloads and symmetries of the runs.

Abstractions that hold everywhere. Time is a choice: a deadline, linger,
backoff or mute may have passed at any step, in the order the code's queues
guarantee. Bytes are choices: whether a record fits, whether a batch is full.
Messages and names are model values. Every bound is a named constant or a guard
with a comment. Definitions named `X_something` beside a definition `X`, marked
as mutations, are plausible mistakes in it; each property has one that breaks
it.

## Runs

Deadlock checking is off: a client nobody uses may rest, and the bounds end
every behaviour.

| run | instance | what it shows |
|---|---|---|
| `send` | 2 sends of 2 sizes, a budget that holds one, 2 interceptors, 2 callers, flush and close; apart from these 3 sends of 3 sizes, 2 of which queue for memory, the first of them perhaps cancelled or timed out | `BarrierExact`, `KeepsPromise`, `KeepsPromiseFairly` (a flush returns once its sends are done, no wakeup lost), `MemoryExact`, `InterceptorsServed`, `WaitEnds` |
| `engine` | 2 partitions, 2 records, plain, idempotent and TV1; epochs run out after one bump, so that another producer id is fetched; 14 outcomes | `StampsAccounted`, `SlotsMatchRequests`, `StampsUnique`, `RecordsAccounted`, `OutcomeFinal`, `Progress` |
| `delivery` | 1 partition, 2 records, 3 attempts, a flush, retention, a falling limit, a leader from before KIP-360 | `OutcomeIsTrue` (acknowledged is written, `possibly_written: false` is definite), `LogInOrder`, `AlwaysInSequence` |
| `transactions` | 2 transactions, 2 records, 2 partitions, TV1 to TV3, 2 faults | `PendingExact`, `CommitIsWhole`, `EndsAsAsked`, `FatalIsEarned` |
| `transactions_abort` | the same under TV1 | a counterexample to `AbortIsFinal`, below |
| `wire` | every API at every version against any range; 2 tasks, 2 addresses, 3 dials, a cap of 2, a `close_all`; 3 subscriptions, a lost answer | `CodecsAgree`, `HandshakeFinds`, `WithinCap`, `PoolAnswers`, `ReporterExact` |
| `connection` | 3 requests and a silent one, 2 slots, 2 correlation ids, a mute, a dropped caller | `SlotsExact`, `AnswersAreTrue`, `WritesAllowed`, `EveryoneAnswered` |
| `consumer` | 2 pollers, 2 partitions, polls of 2 records, 2 changes of the log, 2 versions | `DeliveredExactly`, `ContinuesLog` |
| `fetch_session` | 2 pollers, 2 partitions, 2 parameter values, epochs that wrap at 4, 2 sessions | `ServedIsAsked`, `InStep` |
| `share` | 2 nodes, 2 records (one may be a control record), a commit, both modes, a fault, epochs that wrap at 2 | `BookExact`, `AcksAreTrue`, `LocksKept` |
| `group` | a member and a peer, 2 partitions, eager (with a dynamic and a static member), cooperative and KIP-848, one trouble: a lost answer, an expired session or poll interval, a dropped call | `Exclusive`, `MemberSettled` |
| `metadata` | 2 brokers, 2 topics, 2 callers; nine workloads, each with one change of the cluster, with a fault, hint, rebootstrap or admin call | `RequestsServed`, `EpochNeverBack`, `CallIsTrue` |

Bounds. Two partitions are needed for a bump to wait for another partition and
for a response with two results; two records make a batch that can be split.
`SEQ_SPACE` is 100 and sequences stay below it: a space small enough to wrap in
a run would let late attempts collide with reused numbers, so the wrap is proved
instead (EngineRecordsProofs). `PRUNE_SLACK` is the code's 1024 in `engine`
and 0 in `delivery`, where forgetting an idle partition then happens. Two
transactions are needed for a late request of one to meet the other. Two
correlation ids for three requests make an id come round while it is in use;
three dials for two tasks leave one for a `close_all` to overtake; two pollers
make two requests of one session overlap, and an epoch that wraps at 4 comes
round. A KIP-848 group settles in two generations, a cooperative move takes
three. In `metadata` and `group` one disturbance at a time, of every kind, is
what fits; pairs of disturbances are not covered.

Fairness. Only four runs state liveness. `engine`: the loop runs `expire` on
every turn and its wakeup is the earliest deadline, so a batch past its
deadline is expired however busy the loop is (strong fairness: the step is
disabled while results are looked at); a request resolves, because the
connection times it out; `InitProducerId` has a deadline; nothing is assumed of
brokers. `send`: a woken future is polled, the engine answers what is queued,
the watcher of a failed engine closes the budget; nothing is assumed of
`max_block` or of cancellation. `connection`: the loop's task and woken callers
are polled, the clock ends a mute, the loop's own timers bound its waits; the
broker owes nothing. `KeepsPromiseFairly` is FlushPromise with its own fairness.
The other runs check safety; where a thing must happen they state the safe half
(a wakeup is never lost, a lock is never left without an owner).

### Disagreement between code and documentation

`transactions_abort`: under TV1 whether an abort bumps the epoch is read before
`fail_unsent`. A stamped batch that waits for its retry is failed by the abort
itself, so its epoch stays, and an attempt still on its way is appended to the
next transaction (quotations in `PROJECT.json`, findings).

### What modelling showed and no run states

These follow from the code as modelled; each is excluded from a property by a
named condition, or outside it.

* Engine: after the last handle is gone a batch that expires off the wire, or a
  fatal re-initialisation, leaves its partition in `active` and the task ticks
  for ever. `prune` beyond its slack forgets a stamped partition's sequence
  position. `Batch::split` forgets that an attempt may have been appended when a
  limit falls. `UNKNOWN_PRODUCER_ID` re-stamps a batch appended before retention
  removed it. An answer to `InitProducerId` after `Terminate` makes the identity
  `Ready` again (sends stay refused elsewhere).
* Sends: a panicked engine drops waiters without an acknowledgement to the
  interceptors; a close that times out may be followed by acknowledgements; a
  dropped close never closes the interceptors.
* Transactions: `finish_transaction` and a failed init overwrite a fatal state;
  an empty transaction's `EndTxn` ends fatally; an unanswered TV1 abort returns
  to open; a send that straddles an end under TV1 joins the next transaction.
* Pool: a dial overtaken by `close_all` removes the entry of the dial that
  followed it when it ends, so the cap is then under-counted and two dials for
  one key are possible (`overtaken` in WithinCap and ClosedForGood).
* Connection: a write timeout fails the other pending requests with `Timeout`,
  though the comment at `request_timeout_close_error` has a retriable error.
* Consumer: `truncate` forgets the epoch, so a second divergence before the next
  record is not detected. Fetch sessions: a wakeup or a dropped poll does not
  reset the session, as a failed send does.
* Group: `max_poll_interval` may lapse inside a poll, while it waits for a
  rebalance callback or a fetch. The heartbeat task then leaves the group, the
  coordinator gives the partitions to the peer, and the poll still serves what it
  held, since nothing on its way to the records asks again whether the interval
  was exceeded (`classic.rs:559`, `kip848.rs:352`). `consumer.md:320-321` says
  that two members never consume a partition at the same time. `Exclusive` states
  the case as an exception (`member.exceeded`, which the next poll clears), as it
  does a session that expired without the member's knowing (`overdue`). Without
  the first exception TLC finds the behaviour under every protocol: join, sync,
  apply, the interval lapses, the leave is served, the poll goes on. Besides,
  `strays` records four hazards that `Exclusive` and `Converged` exclude (the
  other parts of `MemberSettled` only the second and third): a report sent while
  an assignment is being applied ("hasty"), a round or task that outlives its
  membership ("outlived"), a poll dropped while it applies an assignment
  ("dropped"), an answer lost with the assignment it carried ("unheard").
* Share consumer: a commit that times out forgets its own release and gap
  acknowledgements; a manager stopped at close leaves acknowledgements in flight
  unreported.
* Metadata: a partition that a response lists with an error loses its leader
  epoch (`metadata.rs:594`), after which an older one may be taken:
  `EpochNeverBack` is about one step. A leader hint carries no topic id, so a late one of a deleted
  incarnation is applied to the topic re-created under its name. Telemetry: a
  lost answer counts a delta twice.

## Proofs

The theorems hold for every value of the constants that satisfies the named
assumptions (`OpsAssumption`, `MaxGenAssumption`, `IdentityAssumption`,
`EngineAssumption`, `LeaderAssumption`, `PoolAssumption`,
`TelemetryAssumption`, `ConnectionAssumption`, `MetadataAssumption`,
`AdminAssumption`, `FlushersAssumption`, `SizesAssumption`, `ChainAssumption`,
`FetchSessionAssumption`, `SpareAssumption`, `TransactionsAssumption`): any
partitions, brokers, topics, tasks, calls, outcomes, limits and bounds. Most only
say that a bound is a natural number or that a marker such as `None` is no
member of a set; the others are named with the theorem they limit.

**ProducerSendProofs**, the barrier: `IInv` (types, exact counters, ordered generations, a
close covers every guard) is inductive. The order of generations is needed for
the refinement: a guard started after the call is of a later generation and so
is not owed. `BarrierKeepsPromise`: every step is a step of FlushPromise or a
stutter; `check` is a `Return` because exact counters make `is_drained` say that
no guard is owed.
The sends over it: `SInv` has three parts. `Guards`: the barrier's invariant, which
sends hold a guard, and that a close covers every one. `Obligations`: by the place
a send is in, who owes the interceptors its acknowledgement (the caller, the batch,
nobody), and each value an interceptor's `on_send` left is in that interceptor's own
slot. `Budget`: the queue of waiting sends holds each of them once, and the free
memory and the permits held add up to the capacity. Permits are a set of pairs
rather than a sum, so that the argument is about cardinalities and needs no
induction. From it: `MemoryAlwaysExact`, `InterceptorsAlwaysServed`. A chain of
interceptors fits the code's `u16` slots (`ChainAssumption`).

**SendEngineProofs.** `IInv` is inductive. Its parts: `Clean` for each partition
(only the batch on the wire or the front of the queue may be stamped, never
both), without which no step's effect on the count could be known;
`UnresolvedExact`, which makes "the count is 0" mean "nothing is stamped", what
a bump relies on, and shows that the code's `saturating_sub` never saturates;
`SlotsMatchRequests`, so that a result's partition has its batch on the wire;
`ReinitClear`, nothing is stamped while a producer id is fetched; and
`StampsCurrent`. There is one lemma for each thing that can happen to a queue,
one for its effect on the map of queues and the count, then one per action and
part of the invariant. `StampsAlwaysAccounted` and `SlotsAreExact` follow.

**EngineRecordsProofs.** `RInv`, inductive together with `IInv`: each queue is in
the order of the sends from the wire to the open batch, and what is off the wire
has its callers waiting (`Queue`); the records that wait are the ones without an
outcome, each in one partition (`Places`); a partition with work is active; an
open batch is of a generation no flush has covered. A step is described by what
leaves a queue and who is told: `TellingSettles` shows once that a step that
tells exactly the records that leave keeps `Places` and answers nobody twice,
and each action is an instance. From it: `OutcomesAreFinal`,
`RecordsAlwaysAccounted`, `FlushSealsAll`.

Stamps: `StampsAlwaysUnique`, from `UInv`: a generation is one
(producer id, epoch) and later ones are greater; a partition's position is past
every range issued under the identity in use; ranges are disjoint; a stamped
batch went out with its stamp; and, while no bump is due, no record of a batch
without a stamp has one under this identity. The last part is what makes the
re-stamping of refused and split batches safe: they lose their stamp in the step
that requests the bump. Steps that send nothing are covered by one fact about
the queues (`Inherits`: every batch was there with its stamp and records, or has
no stamp and only records that had none, are new, or wait for a bump). Two
assumptions are on the instance, not on the code's behaviour: the partitions are
within `prune`'s slack, and an epoch's sequence numbers do not reach the wrap;
without either the statement is false.
The leader: the two ends' sequence arithmetic agrees for every
sequence space: `SequencesAgree` (wrap inside a batch included),
`ResentIsDuplicate`, `BumpIsAccepted`.

**NetworkProofs**, the pool: `IInv` (maps, dials and tasks point at connections of
their key; a dial's waiters are the tasks that wait for it; connections open and
being dialled are the ones counted, until a `close_all` overtakes a dial) gives
`CapHolds` and `PoolAlwaysAnswers`.
The telemetry reporter: `ReporterInv`
ties the last pushed total, the sum handed out and the sum the broker received
to each other; `ReporterAlwaysExact` follows. The handshake: the second attempt is
made at the version the refusal leads to, and only a broker that did not name its
range leads to version 0; `HandshakeAlwaysFinds` follows for every range.

**ConnectionProofs.** `IInv`: each call is in one place, once (waiting for a slot,
in the channel, parked, pending); a frame on the wire belongs to the request under
its id, or to the one being written, which will be under its id before the loop
reads again (`Expected`), so the frame the loop takes is always the answer of the
request it is paired with, also after the ids have wrapped; a slot is held by every
request between its acquisition and its answer; and there are no more ids pending
than requests, so that the refusal of `write_command` is unreachable: the request
being written holds a slot that no pending one holds. All that ends the loop goes
through one lemma (`StopKeeps`), all that follows a select through another
(`AfterSelectMoves`). From it: `SlotsAlwaysExact`, `AnswersAlwaysTrue` and the
action property `OnlyAllowedWrites`.

**MetadataProofs**, over the metadata together with the admin driver. `IInv`: a
caller waits exactly while one of two lists has it, the requests queued or the
fetch under way, and is never in both; what it is still owed is part of what that
list's fetch asks for, and nothing once a broker has answered, so an Ok is fresh
(a request that joined the fetch under way would break this part); between
finding nothing to do and sleeping the writer loses no permit; a fetch that a
rebootstrap crossed is of a lower view number than the snapshot, so `apply`
discards it; and only a partition has a leader epoch. The driver needs one part
of its own, `Routed`: what it asks for are topics, and it waits only while it
fetches or refreshes. Each action is an instance of one lemma per fragment of
code it shares with others (`AskKeeps`, `AbandonKeeps`, `FinishKeeps`,
`PassKeeps`, `MoveKeeps`, `ResetKeeps`, `Merged`), and every one of them also
shows that no epoch goes back (`Onward`). From it: `RequestsAlwaysServed` and the
action property `EpochsNeverGoBack`. The driver's own invariant, `CInv`: each key
of a call is in exactly one place (to do, in one batch, answered); a batch's fate
is what its request came to; and for a write, nothing has been carried out for a
key that is to do or in a batch not handled, and a reply says what was. `CallsAreTrue`
follows: what is retried was not carried out, and what is reported is what happened.

**FetchSessionProofs.** `IInv`: what the broker's session holds against what the
client's session and the requests under way say. Whoever is at a session's epoch
knows what it holds (`Known`); an answer not read yet is the only word of its
state (`Fresh`); the epochs in use are behind the session's by less than a round
(`Window`), or nobody can advance it any more (`Stuck`); and while nothing went
wrong one request, or its answer, is all that stands between the two ends
(`Calm`). From it: `AlwaysServedAsAsked`, `AlwaysInStep`. `FetchSessionAssumption`
keeps the requests sent after the first overlap or loss below a round of epochs:
beyond it a request 2^31 epochs old would be taken for the next one, and the
statement is false.

**TransactionsProofs.** `TInv`: what a send, a call and an RPC look like; only a
send that registers its partition has an add under way, so that what ends with
one holds no ticket; the count of pending sends is the number of tickets; and
`Closing`: a call that ends a transaction keeps the gate from opening, so that once
it has drained, and as long as a commit is in doubt, there is no ticket and none is
given out. From it: `PendingAlwaysExact`, and `EndsAfterItsSends`, that an `EndTxn`
never overtakes a record of its transaction.

Only model-checked: liveness (`Progress`, `KeepsPromiseFairly`, `WaitEnds`,
`EveryoneAnswered`), which is out of the prover's reach with `ENABLED`; what
recursive definitions and folds compute (the codecs of Wire, the data formats, the
assignors), which would need induction over data; and, because their inductive
invariants have not been worked out, the properties of `delivery`, `consumer`,
`share` and `group`, and `CommitIsWhole`, `EndsAsAsked` and `FatalIsEarned` of
`transactions`, which depend on every request the coordinator may still handle.

## Not modelled

The coordinator of a classic group (`ServeJoin`, `ServeSync`, `ServeHeartbeat`,
`ServeCommit`) is the real one as the client uses it: the in-process broker's has
one member only. Positions with the epoch of a committed offset are in Consumer
and not in its run, whose committed offset is 0. The in-process broker answers
every acknowledged partition of a share fetch, so `settle_unanswered` is in
ShareConsumer and meets no such answer. No topic of ClusterMetadata
has a fatal error of its own, so a call's early return on one
(`metadata.rs:1393`) is left out.

Metadata refreshes and backoff of the engine, its byte estimates, the coalescing
rule for batches marked `alone`, metrics; `send_offsets_to_transaction`; offset
commits and auto-commit; static KIP-848 members and pattern subscriptions; share
heartbeats and resubscription; paging and merging of describe calls;
`update_seed_brokers`; token refresh and TLS reload timers; APIs behind
`unstable-protocol`. Authentication, TLS, sockets, checksums, compression and
metrics are I/O, cryptography and observation.

## Next

1. `EndsAsAsked` of Transactions, on top of TransactionsProofs: which requests in
   the network the coordinator may still accept, by epoch.
2. `LogInOrder` of ProduceDelivery from `StampsAlwaysUnique` and the leader's lemmas
   of EngineRecordsProofs.
3. `BookExact` of ShareConsumer and `DeliveredExactly` of Consumer.
