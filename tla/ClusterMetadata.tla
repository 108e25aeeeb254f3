--------------------------- MODULE ClusterMetadata ---------------------------
(***************************************************************************)
(* The client's view of the cluster, metadata.rs: one immutable snapshot,  *)
(* the writer task that alone fetches and applies Metadata responses,      *)
(* the requests that wait for it, the leader hints that brokers' other     *)
(* answers carry, and the rebootstrap that drops the view.                 *)
(*                                                                         *)
(* A section of code between two awaits is one action.  Time is not        *)
(* counted: whether an entry is still fresh, a topic idle, a backoff over  *)
(* or the rebootstrap trigger passed is a choice, as it is for the code    *)
(* whenever the durations allow it.  A topic has at most one partition:    *)
(* merge treats the partitions of a topic independently.  A broker is its  *)
(* own address.                                                            *)
(***************************************************************************)
EXTENDS Integers, Sequences, FiniteSets

CONSTANTS
    Brokers,    \* node ids
    Topics,     \* topic names
    Moving,     \* the topics whose leader, id or existence changes
    Seeds,      \* the bootstrap servers
    Uses,       \* the calls the application makes, members of Calls
    Tasks,      \* application tasks that use the metadata
    Workloads   \* what may happen in one behaviour: bounds, by name

None == "none"

Calls == [op : {"leader", "count", "topics"}, arg : Topics] \cup
         [op : {"broker"}, arg : Brokers] \cup {[op |-> "refresh", arg |-> None]}

ASSUME MetadataAssumption ==
    /\ Seeds \subseteq Brokers /\ Seeds # {}
    /\ Moving \subseteq Topics
    /\ Uses \subseteq Calls
    /\ "admin" \notin Tasks
    /\ None \notin Brokers \cup Topics

NoId == 0
NoEpoch == -1

VARIABLES
    versions,   \* the cluster's successive states; a lagging broker knows a prefix
    cache,      \* Inner::cache, the snapshot
    pending,    \* Inner::pending
    permit,     \* Inner::wake: a stored notification
    writer,     \* run_writer: where it is, and the fetch it runs
    attempt,    \* Inner::metadata_attempt_start is set
    closed,     \* Inner::closed
    answer,     \* what each caller's request came to
    call,       \* what each caller is doing
    left,       \* what is left of the workload's bounds
    owed,       \* history: what no broker has reported since a caller asked for it
    crossed     \* history: the fetch under way was sent before the last reset,
                \* and whether such a fetch shaped the snapshot

mvars == <<versions, cache, pending, permit, writer, attempt, closed, answer, call,
           left, owed, crossed>>

\* The admin client, of AdminDriver, is one more user.
Callers == Tasks \cup {"admin"}

Nodes == Brokers \cup {None}
Cluster == versions[Len(versions)]

(***************************************************************************)
(* The cluster, external.  Every topic record names the topic's id         *)
(* (NoId: it does not exist), how many partitions it has yet, and their    *)
(* leader and leader epoch.                                                *)
(***************************************************************************)
Spend(what) == left[what] > 0 /\ left' = [left EXCEPT ![what] = @ - 1]

\* A topic that is created anew has an id no topic had before.
NewId == Len(versions) + 1

\* The states the next change of the cluster can lead to, by kind of change.
Successors(kind) ==
    LET c == Cluster IN
    CASE kind = "controller"  -> {[c EXCEPT !.controller = b] : b \in Brokers \ {c.controller}}
      [] kind = "coordinator" -> {[c EXCEPT !.coordinator = b] : b \in Brokers \ {c.coordinator}}
      [] kind = "brokers"     -> {[c EXCEPT !.brokers = @ \ {b}] : b \in c.brokers \ Seeds}
      [] kind = "leader"      ->
           UNION {LET p == c.topics[t] IN
             {[c EXCEPT !.topics[t] = [p EXCEPT !.parts = 1, !.leader = b, !.epoch = @ + 1]] :
                b \in IF p.id = NoId THEN {} ELSE Nodes \ {p.leader}} : t \in Moving}
      [] kind = "topic"       ->
           UNION {LET p == c.topics[t] IN
             {[c EXCEPT !.topics[t] = q] : q \in
                IF p.id # NoId THEN {[p EXCEPT !.id = NoId]}
                ELSE {[id |-> NewId, parts |-> 1, leader |-> b, epoch |-> 0] : b \in Brokers}} :
             t \in Moving}
      [] OTHER -> {}

ChangeCluster ==
    /\ Spend("changes")
    /\ \E kind \in left.kinds : \E c \in Successors(kind) : versions' = Append(versions, c)
    /\ UNCHANGED <<cache, pending, permit, writer, attempt, closed, answer, call, owed, crossed>>

\* What a Metadata response says of topic t, from version v of the cluster.
\* With a glitch the broker cannot describe the topic or the partition right
\* now, or speaks a version that has no topic ids.
TopicAnswer(v, t, glitch) ==
    LET p == versions[v].topics[t] IN
    CASE p.id = NoId -> [code |-> "Unknown"]
      [] p.id # NoId /\ glitch = "topic" -> [code |-> "Transient"]
      [] OTHER -> [code |-> "Ok",
                   id |-> IF glitch = "noid" THEN NoId ELSE p.id,
                   parts |-> p.parts,
                   healthy |-> glitch # "partition",
                   leader |-> p.leader,
                   epoch |-> p.epoch]

\* The response to a request for all topics, or for the names asked.
Response(v, full, names, glitch) ==
    [code |-> IF glitch \in {"rebootstrap", "error"} THEN glitch ELSE "Ok",
     brokers |-> versions[v].brokers,
     controller |-> versions[v].controller,
     topics |-> [t \in Topics |->
        IF IF full THEN versions[v].topics[t].id # NoId ELSE t \in names
        THEN TopicAnswer(v, t, IF t \in Moving THEN glitch ELSE None) ELSE [code |-> "Silent"]]]

(***************************************************************************)
(* The snapshot.                                                           *)
(***************************************************************************)
Absent == [id |-> NoId, parts |-> -1, leader |-> None, epoch |-> NoEpoch]

MetadataCache_new(reset) ==
    [brokers |-> {}, controller |-> None, topics |-> [t \in Topics |-> Absent],
     errors |-> [t \in Topics |-> None], reset |-> reset]

Known(c, t) == c.topics[t].parts >= 0
HasPartition(c, t) == c.topics[t].parts > 0

\* A different non-zero id is a different topic.
Recreated(old, id) == id # NoId /\ old.id # NoId /\ old.id # id

\* One partition: an errored one keeps its place with no leader and no epoch;
\* an older epoch than the cached one of the same topic is ignored.  (The
\* mutated form lets the last response win.)
MergePartition_last(old, a) ==
    [id |-> a.id, parts |-> a.parts,
     leader |-> IF a.healthy THEN a.leader ELSE None,
     epoch |-> IF a.healthy THEN a.epoch ELSE NoEpoch]

MergePartition(old, a) ==
    LET incoming == [id |-> a.id, parts |-> a.parts,
                     leader |-> IF a.healthy THEN a.leader ELSE None,
                     epoch |-> IF a.healthy THEN a.epoch ELSE NoEpoch]
    IN IF /\ old.parts > 0 /\ ~Recreated(old, a.id)
          /\ old.epoch >= 0 /\ incoming.epoch >= 0 /\ incoming.epoch < old.epoch
       THEN [incoming EXCEPT !.leader = old.leader, !.epoch = old.epoch]
       ELSE incoming

\* MetadataCache::merge; idle are the topics neither fetched nor used within
\* the TTL.
Merge(c, r, full, idle) ==
    LET kept == IF full THEN {} ELSE {t \in Topics : Known(c, t) /\ t \notin idle}
    IN [brokers |-> r.brokers,
        controller |-> r.controller,
        topics |-> [t \in Topics |->
            LET a == r.topics[t] IN
            CASE a.code = "Silent" -> IF t \in kept THEN c.topics[t] ELSE Absent
              [] a.code = "Unknown" -> Absent
              [] a.code = "Transient" -> c.topics[t]
              [] OTHER -> IF a.parts = 0
                          THEN [Absent EXCEPT !.id = a.id, !.parts = 0]
                          ELSE MergePartition(c.topics[t], a)],
        errors |-> [t \in Topics |->
            LET a == r.topics[t] IN
            CASE a.code = "Silent" -> IF t \in kept THEN c.errors[t] ELSE None
              [] a.code = "Ok" -> None
              [] OTHER -> a.code],
        reset |-> c.reset]

Controller == IF cache.controller \in cache.brokers THEN cache.controller ELSE None
Leader(t) == cache.topics[t].leader
\* The leader of t, when its address is known too.
LeaderNode(t) == IF Leader(t) \in cache.brokers THEN Leader(t) ELSE None

(***************************************************************************)
(* Requests to the writer.                                                 *)
(***************************************************************************)
NoFetch == [full |-> FALSE, topics |-> {}, waiters |-> {}, abandoned |-> FALSE,
            rebootstrap |-> FALSE]

\* PendingFetch::is_empty; an abandoned waiter is still in the list.
PendingIsEmpty == /\ ~pending.full /\ ~pending.rebootstrap
                  /\ pending.waiters = {} /\ ~pending.abandoned

AllFresh(names) == cache.brokers # {} /\ \A t \in names : Known(cache, t)

\* Notify::notify_one stores a permit when nobody waits yet.
wake_writer == permit' = TRUE

\* The broker list counts as one of the things a request asks for.
Asked(full, names) == (IF full THEN Topics ELSE names) \cup {"brokers"}

\* ClusterMetadata::request, when it has to ask the writer.  The request joins
\* the next fetch, never the one under way.  (The mutated form joins that one.)
Ask_joins(c, full, names) ==
    /\ IF writer.waiters # {} /\ (writer.full \/ (~full /\ names \subseteq writer.topics))
       THEN writer' = [writer EXCEPT !.waiters = @ \cup {c}] /\ pending' = pending
       ELSE pending' = [pending EXCEPT !.full = @ \/ full, !.topics = @ \cup names,
                                       !.waiters = @ \cup {c}] /\ writer' = writer
    /\ wake_writer
    /\ answer' = [answer EXCEPT ![c] = "waiting"]
    /\ owed' = [owed EXCEPT ![c] = Asked(full, names)]

Ask(c, full, names) ==
    /\ pending' = [pending EXCEPT !.full = @ \/ full, !.topics = @ \cup names,
                                  !.waiters = @ \cup {c}]
    /\ wake_writer
    /\ answer' = [answer EXCEPT ![c] = "waiting"]
    /\ owed' = [owed EXCEPT ![c] = Asked(full, names)]
    /\ UNCHANGED writer

\* The caller's future is dropped while it waits: its receiver is closed.
Abandon(c) ==
    LET drop(f) == IF c \in f.waiters
                   THEN [f EXCEPT !.waiters = @ \ {c}, !.abandoned = TRUE] ELSE f
    IN /\ answer' = [answer EXCEPT ![c] = None]
       /\ pending' = drop(pending)
       /\ writer' = drop(writer)

\* ClusterMetadata::request_rebootstrap
request_rebootstrap ==
    /\ Spend("resets")
    /\ pending' = [pending EXCEPT !.rebootstrap = TRUE]
    /\ wake_writer
    /\ UNCHANGED <<versions, cache, writer, attempt, closed, answer, call, owed, crossed>>

(***************************************************************************)
(* Drop the view.                                                          *)
(***************************************************************************)
reset_to_seeds ==
    /\ cache' = MetadataCache_new(cache.reset + 1)
    /\ attempt' = TRUE

\* A fetch is on the wire, or answered and not applied yet.
InFlight == writer.pc \in {"sent", "answered"}

\* ClusterMetadata::rebootstrap, called by the application; its jitter is over.
rebootstrap ==
    /\ Spend("resets")
    /\ reset_to_seeds
    /\ crossed' = [sent |-> InFlight, seen |-> FALSE]
    /\ UNCHANGED <<versions, pending, permit, writer, closed, answer, call, owed>>

(***************************************************************************)
(* The writer task.                                                        *)
(***************************************************************************)
MAX_PASSES == 3

Idle == [pc |-> "look", full |-> FALSE, topics |-> {}, waiters |-> {}, abandoned |-> FALSE,
         rebootstrap |-> FALSE, pass |-> 0, used |-> FALSE, reset |-> 0, response |-> None]

\* run_writer answers every waiter of the batch and looks for more work.
Finish(result) ==
    /\ answer' = [c \in Callers |-> IF c \in writer.waiters THEN result ELSE answer[c]]
    /\ writer' = Idle

look_for_work ==
    /\ writer.pc = "look"
    /\ IF closed
       THEN /\ writer' = [Idle EXCEPT !.pc = "stopped"]
            /\ pending' = NoFetch
            /\ answer' = [c \in Callers |-> IF c \in pending.waiters THEN "err" ELSE answer[c]]
       ELSE /\ writer' = [writer EXCEPT !.pc = IF PendingIsEmpty THEN "empty" ELSE "backoff"]
            /\ UNCHANGED <<pending, answer>>
    /\ UNCHANGED <<versions, cache, permit, attempt, closed, call, left, owed, crossed>>

\* wake.notified(): at once with a stored permit, or when one comes.
notified ==
    /\ writer.pc \in {"empty", "park"}
    /\ permit \/ writer.pc = "empty"
    /\ permit' = FALSE
    /\ writer' = [writer EXCEPT !.pc = IF permit THEN "look" ELSE "park"]
    /\ UNCHANGED <<versions, cache, pending, attempt, closed, answer, call, left, owed, crossed>>

\* The backoff is over: everything requested meanwhile is one fetch.
take_batch ==
    /\ writer.pc = "backoff"
    /\ pending' = NoFetch
    /\ writer' = [Idle EXCEPT !.pc = IF pending.rebootstrap THEN "jitter_first" ELSE "begin",
                              !.full = pending.full, !.topics = pending.topics,
                              !.waiters = pending.waiters]
    /\ UNCHANGED <<versions, cache, permit, attempt, closed, answer, call, left, owed, crossed>>

\* The start of the next of refresh_attempt's passes over view number `reset`,
\* or the end of the fetch when none is left.
NextPass(used, reset) ==
    IF writer.pass = MAX_PASSES THEN Finish("err")
    ELSE /\ writer' = [writer EXCEPT !.pc = "connect", !.pass = @ + 1, !.used = used,
                                     !.reset = reset, !.response = None]
         /\ UNCHANGED answer

\* The writer's own rebootstrap: its jitter is over.
writer_rebootstrap ==
    /\ writer.pc \in {"jitter_first", "jitter"}
    /\ reset_to_seeds
    /\ crossed' = [sent |-> FALSE, seen |-> FALSE]
    /\ IF writer.pc = "jitter_first"
       THEN writer' = [writer EXCEPT !.pc = "begin"] /\ UNCHANGED answer
       ELSE NextPass(TRUE, cache.reset + 1)
    /\ UNCHANGED <<versions, pending, permit, closed, call, left, owed>>

\* A batch nobody waits for is dropped.  Otherwise refresh starts the failure
\* streak, and refresh_attempt rebootstraps when a running one is too old.
begin_fetch ==
    /\ writer.pc = "begin"
    /\ \/ writer.waiters = {} /\ writer' = Idle /\ UNCHANGED <<answer, attempt, left>>
       \/ /\ writer.waiters # {} /\ attempt /\ Spend("resets")
          /\ writer' = [writer EXCEPT !.pc = "jitter", !.used = TRUE]
          /\ UNCHANGED <<answer, attempt>>
       \/ /\ writer.waiters # {}
          /\ attempt' = TRUE
          /\ NextPass(FALSE, cache.reset)
          /\ UNCHANGED left
    /\ UNCHANGED <<versions, cache, pending, permit, closed, call, owed, crossed>>

\* get_any_connection: some candidate, cached or seed, connects.
connected ==
    /\ writer.pc = "connect"
    /\ writer' = [writer EXCEPT !.pc = "sent"]
    /\ crossed' = [crossed EXCEPT !.sent = FALSE]
    /\ UNCHANGED <<versions, cache, pending, permit, attempt, closed, answer, call, left, owed>>

\* No candidate connects: rebootstrap once when brokers were known.
not_connected ==
    /\ writer.pc = "connect" /\ Spend("faults")
    /\ IF ~writer.used /\ cache.brokers # {}
       THEN writer' = [writer EXCEPT !.pc = "jitter"] /\ UNCHANGED answer
       ELSE Finish("err")
    /\ UNCHANGED <<versions, cache, pending, permit, attempt, closed, call, owed, crossed>>

Glitches == {"topic", "partition", "noid", "rebootstrap", "error"}

\* A broker answers from what it knows of the cluster.
broker_answers ==
    /\ writer.pc = "sent"
    /\ \E v \in DOMAIN versions :
         \E glitch \in {None} \cup Glitches :
           /\ IF glitch = None THEN UNCHANGED left ELSE Spend("faults")
           /\ writer' = [writer EXCEPT !.pc = "answered",
                            !.response = Response(v, writer.full, writer.topics, glitch)]
    /\ owed' = [c \in Callers |-> owed[c] \ Asked(writer.full, writer.topics)]
    /\ UNCHANGED <<versions, cache, pending, permit, attempt, closed, answer, call, crossed>>

\* The request or its answer is lost: send_request or the decoder fails.
fetch_fails ==
    /\ writer.pc = "sent" /\ Spend("faults")
    /\ Finish("err")
    /\ UNCHANGED <<versions, cache, pending, permit, attempt, closed, call, owed, crossed>>

\* Inner::apply discards a response fetched before a rebootstrap.
Applies == cache.reset = writer.reset

deliver ==
    /\ writer.pc = "answered"
    /\ LET r == writer.response IN
       \/ /\ r.code = "rebootstrap" /\ ~writer.used
          /\ writer' = [writer EXCEPT !.pc = "jitter"]
          /\ UNCHANGED <<cache, attempt, answer, crossed>>
       \/ /\ r.code = "error" \/ (r.code = "rebootstrap" /\ writer.used)
          /\ Finish("err")
          /\ UNCHANGED <<cache, attempt, crossed>>
       \/ /\ r.code = "Ok" /\ Applies
          /\ attempt' = FALSE
          /\ \E idle \in SUBSET {t \in Topics : r.topics[t].code = "Silent"} :
               cache' = Merge(cache, r, writer.full, idle)
          /\ crossed' = [crossed EXCEPT !.seen = @ \/ crossed.sent]
          /\ Finish("ok")
       \/ /\ r.code = "Ok" /\ ~Applies
          /\ attempt' = FALSE
          /\ NextPass(writer.used, cache.reset)
          /\ UNCHANGED <<cache, crossed>>
    /\ UNCHANGED <<versions, pending, permit, closed, call, left, owed>>

WriterStep == \/ look_for_work \/ notified \/ take_batch \/ writer_rebootstrap \/ begin_fetch
              \/ connected \/ not_connected \/ broker_answers \/ fetch_fails \/ deliver

(***************************************************************************)
(* Leader hints (KIP-951): a produce or fetch answer names a partition's   *)
(* leader and epoch, as its broker knows them, and perhaps the leader's    *)
(* address.  A hint carries no topic id.                                   *)
(***************************************************************************)
HintIsNew(t, p) == cache.topics[t].epoch < 0 \/ p.epoch > cache.topics[t].epoch

apply_leader_hint ==
    /\ Spend("hints")
    /\ \E t \in Topics, v \in DOMAIN versions, endpoint \in BOOLEAN :
         LET p == versions[v].topics[t]
             partition_is_new == /\ endpoint \/ p.leader \in cache.brokers
                                 /\ HasPartition(cache, t) /\ HintIsNew(t, p)
         IN /\ p.id # NoId /\ p.leader # None
            /\ cache' = [cache EXCEPT
                 !.brokers = IF endpoint THEN @ \cup {p.leader} ELSE @,
                 !.topics[t] = IF partition_is_new
                               THEN [@ EXCEPT !.leader = p.leader, !.epoch = p.epoch] ELSE @]
    /\ UNCHANGED <<versions, pending, permit, writer, attempt, closed, answer, call, owed, crossed>>

(***************************************************************************)
(* The application's calls.                                                *)
(***************************************************************************)
NoCall == [op |-> None, arg |-> None]

\* What the call of task c needs from the snapshot, found now.
Found(k) == CASE k.op = "leader" -> LeaderNode(k.arg) # None
              [] k.op = "broker" -> k.arg \in cache.brokers
              [] k.op = "count"  -> HasPartition(cache, k.arg)
              [] k.op = "topics" -> AllFresh({k.arg})
              [] OTHER -> FALSE

\* The topics it asks the writer for; refresh asks for all, get_broker_connection
\* only for the brokers.
Names(k) == IF k.op \in {"leader", "count", "topics"} THEN {k.arg} ELSE {}

\* get_leader_connection, get_broker_connection, ensure_partition_count,
\* refresh_for_topics, refresh: at once from a fresh snapshot, or a request.
\* get_leader_connection and refresh_for_topics ask again for an entry that is
\* found and too old.
start_call(c) ==
    /\ call[c] = NoCall /\ ~closed /\ Spend("calls")
    /\ \E k \in Uses :
         \/ Found(k) /\ UNCHANGED <<call, pending, permit, answer, owed, writer>>
         \/ /\ Found(k) => k.op \in {"leader", "topics"}
            /\ call' = [call EXCEPT ![c] = k]
            /\ Ask(c, k.op = "refresh", Names(k))
    /\ UNCHANGED <<versions, cache, attempt, closed, crossed>>

\* The writer answered.  ensure_partition_count asks again until the topic has
\* partitions or the fetch fails for good; the other calls return what they
\* find, or an error.  (No topic here has an error of its own that is not
\* retriable, an authorization say, which would end the call as well.)
end_call(c) ==
    /\ call[c] # NoCall /\ answer[c] \in {"ok", "err"}
    /\ \/ /\ call[c].op = "count" /\ ~(answer[c] = "ok" /\ Found(call[c]))
          /\ Ask(c, FALSE, Names(call[c]))
          /\ UNCHANGED call
       \/ /\ call[c].op = "count" => Found(call[c]) \/ answer[c] = "err"
          /\ call' = [call EXCEPT ![c] = NoCall]
          /\ answer' = [answer EXCEPT ![c] = None]
          /\ UNCHANGED <<pending, permit, writer, owed>>
    /\ UNCHANGED <<versions, cache, attempt, closed, left, crossed>>

\* max_wait runs out, or the call's future is dropped.
drop_call(c) ==
    /\ call[c] # NoCall /\ answer[c] = "waiting" /\ Spend("drops")
    /\ Abandon(c)
    /\ call' = [call EXCEPT ![c] = NoCall]
    /\ UNCHANGED <<versions, cache, permit, attempt, closed, owed, crossed>>

\* Drop: the last handle goes, so nobody waits.  Not before the last call.
drop_metadata ==
    /\ ~closed /\ \A c \in Callers : answer[c] = None /\ call[c] = NoCall
    /\ left.calls = 0
    /\ closed' = TRUE
    /\ wake_writer
    /\ UNCHANGED <<versions, cache, pending, writer, attempt, answer, call, left, owed, crossed>>

TaskStep == \E c \in Tasks : start_call(c) \/ end_call(c) \/ drop_call(c)

MetadataStep == \/ ChangeCluster \/ request_rebootstrap \/ rebootstrap \/ WriterStep
                \/ apply_leader_hint \/ TaskStep

\* The cluster is up; the moving topics may be there already, or be created
\* right now, or not exist.
TopicStarts(t) ==
    LET up == [id |-> 1, parts |-> 1, leader |-> CHOOSE b \in Seeds : TRUE, epoch |-> 0]
    IN IF t \in Moving /\ ~left.admin THEN {up, [up EXCEPT !.parts = 0], [up EXCEPT !.id = NoId]} ELSE {up}

MetadataInit ==
    /\ left \in Workloads
    /\ \E topics \in [Topics -> UNION {TopicStarts(t) : t \in Topics}] :
         /\ \A t \in Topics : topics[t] \in TopicStarts(t)
         /\ versions = <<[controller |-> CHOOSE b \in Seeds : TRUE,
                          coordinator |-> CHOOSE b \in Seeds : TRUE,
                          brokers |-> Brokers, topics |-> topics]>>
    /\ cache = MetadataCache_new(0)
    /\ pending = NoFetch /\ permit = FALSE /\ writer = Idle
    /\ attempt = FALSE /\ closed = FALSE
    /\ answer = [c \in Callers |-> None]
    /\ call = [c \in Callers |-> NoCall]
    /\ owed = [c \in Callers |-> {}]
    /\ crossed = [sent |-> FALSE, seen |-> FALSE]

(***************************************************************************)
(* Properties.                                                             *)
(***************************************************************************)
\* A request answered Ok was asked before a broker answered it: whatever the
\* caller asked for, topics and brokers, was reported after it asked
\* (request, run_writer: a request never joins the fetch already under way).
OkIsServed == \A c \in Callers : answer[c] = "ok" => owed[c] = {}

\* A rebootstrap is final: nothing requested before it shapes the snapshot
\* afterwards (reset_to_seeds, apply).
ResetHolds == ~crossed.seen

\* Within one topic id a known leader epoch is never replaced by an older
\* one, whatever order a lagging broker's response, a newer one and a leader
\* hint are applied in (merge, apply_leader_hint; KIP-320).
EpochNeverBack ==
    [][\A t \in Topics :
         LET old == cache.topics[t]  new == cache.topics[t]' IN
         (old.epoch >= 0 /\ new.epoch >= 0 /\ ~Recreated(old, new.id))
            => new.epoch >= old.epoch]_mvars

\* No wake-up is lost: a writer that sleeps while somebody waits for it has a
\* notification coming, in whatever order a request is queued, the writer finds
\* nothing to do and goes to sleep (wake_writer, run_writer).
WakeIsKept == writer.pc = "park" /\ (pending.waiters # {} \/ closed) => permit

\* The writer serves what is asked of it: an Ok is fresh, no request is slept
\* through, and nothing from before a rebootstrap comes back.
RequestsServed == OkIsServed /\ WakeIsKept /\ ResetHolds
==============================================================================
