----------------------------- MODULE AdminDriver -----------------------------
(***************************************************************************)
(* The admin client's request driver, admin/driver.rs, over the cluster    *)
(* metadata of module ClusterMetadata: one admin operation, whose calls    *)
(* run one after the other.  A call resolves each of its keys to a node,   *)
(* sends the keys of a node together and the nodes' batches concurrently,  *)
(* and retries in rounds what failed in a way that can succeed elsewhere   *)
(* or later, until its deadline.                                           *)
(*                                                                         *)
(* The keys are the topics; where the target is not a partition's leader,  *)
(* a topic stands for a group, a resource, a broker id or the unit key of  *)
(* a whole-call request.  Deadlines, backoffs and timeouts are a flag that *)
(* rises once.                                                             *)
(***************************************************************************)
EXTENDS ClusterMetadata, AdminOperations

CONSTANTS
    Calls_of,   \* the sequences of calls an operation may make
    Home,       \* the broker a key stands for, where its target is one broker
    First       \* the key of a whole-call request

\* The calls AdminOperations is made of: a listing is a read of one key.
Routable == {"AnyBroker", "Broker", "Controller", "Coordinator", "Leader"}
Listable == {"TopicList", "BrokerList"}
CallForms == [mode : {"Read", "Write"}, target : Routable \X Routable, keys : {"one", "all"},
              shared : BOOLEAN]
             \cup [mode : {"Read"}, target : Listable \X Listable, keys : {"one"},
                   shared : BOOLEAN]

ASSUME AdminAssumption == First \in Topics /\ Calls_of \subseteq Seq(CallForms)

VARIABLES
    ops,        \* the calls not finished yet; the first one is under way
    adm,        \* Call::fan_out of that call: its locals and its Routing
    sent,       \* the batch under way on each node
    results,    \* the results of the call's keys so far
    expired,    \* the deadline has passed
    applied     \* history: how often a broker carried out the call for a key

avars == <<ops, adm, sent, results, expired, applied>>
vars == <<mvars, avars>>

Me == "admin"
Keys == Topics
Call == Head(ops)
CallKeys(c) == IF c.keys = "one" THEN {First} ELSE Keys
Target(k) == Call.target[IF k = First THEN 1 ELSE 2]
Targets(kind) == {k \in adm.todo : Target(k) = kind}
\* The keys that share k's coordinator.
Group(k) == IF Call.shared THEN Keys ELSE {k}

(***************************************************************************)
(* Error classes: driver.rs not_applied, retriable_read, stale_routing,    *)
(* stale_coordinator, over the outcomes told apart here.  Refused stands   *)
(* for every code that no attempt will change.                             *)
(***************************************************************************)
not_applied == {"NotController", "NotCoordinator", "NotLeaderForPartition",
                "LeaderNotAvailable", "CoordinatorNotAvailable", "ThrottlingQuotaExceeded"}
retriable_read == not_applied \cup {"RequestTimedOut"}
stale_routing == {"NotController", "NotLeaderForPartition", "LeaderNotAvailable"}
stale_coordinator == {"NotCoordinator", "CoordinatorNotAvailable"}
BrokerCodes == retriable_read \cup {"Refused", "UnknownTopicOrPartition", "BrokerNotAvailable"}

\* KrafkaError::is_retriable, of an error that is not a broker's answer.
is_retriable(e) == e \in {"Network", "Timeout", "Malformed"}

\* Call::retriable
retriable(e) == e \in (IF Call.mode = "Read" THEN retriable_read ELSE not_applied)

\* Call::expired
ExpiredError(last) == IF last \in BrokerCodes THEN last ELSE "Timeout"

(***************************************************************************)
(* The start of a call, and the rounds' beginning.                         *)
(***************************************************************************)
NoRoute == [k \in Keys |-> None]
NoBatch == [st |-> None, keys |-> {}, error |-> None, reply |-> NoRoute]

Begin(c) == [pc |-> "round", todo |-> CallKeys(c), last |-> NoRoute, failed |-> {},
             coordinators |-> NoRoute, asked |-> {}, stale |-> {}, stale_controller |-> FALSE]

start ==
    /\ adm.pc = "idle" /\ ops # <<>>
    /\ adm' = Begin(Call)
    /\ UNCHANGED <<mvars, ops, sent, results, expired, applied>>

\* The client is closed, or the arguments are invalid.
refuse ==
    /\ adm.pc = "idle" /\ ops # <<>>
    /\ adm' = [adm EXCEPT !.pc = "ended"]
    /\ ops' = <<>>
    /\ UNCHANGED <<mvars, sent, results, expired, applied>>

\* A listing of the topics, or of the brokers when none is known, is one
\* metadata fetch and no fan_out.
IsListing == Call.target[1] \in {"TopicList", "BrokerList"}

begin_round ==
    /\ adm.pc = "round"
    /\ IF expired
       THEN /\ results' = [k \in Keys |-> IF k \in adm.todo THEN ExpiredError(adm.last[k])
                                          ELSE results[k]]
            /\ adm' = [adm EXCEPT !.pc = "finished", !.todo = {}]
       ELSE /\ adm' = [adm EXCEPT !.pc = "resolve", !.asked = @ \cap {"broker"}]
            /\ UNCHANGED results
    /\ UNCHANGED <<mvars, ops, sent, expired, applied>>

(***************************************************************************)
(* Call::resolve.  A fetch for what the snapshot cannot route: leaders,    *)
(* the broker list, the controller, each at most once a round, and an      *)
(* unknown broker at most once a call.                                     *)
(***************************************************************************)
Unroutable == {k \in Targets("Leader") : LeaderNode(k) = None}
Missing == {k \in Targets("Coordinator") : adm.coordinators[k] = None}

Needs(kind) ==
    /\ kind \notin adm.asked
    /\ CASE kind = "leader"     -> Unroutable # {}
         [] kind = "any"        -> /\ cache.brokers = {}
                                   /\ \/ Missing # {} \/ Targets("AnyBroker") # {}
                                      \/ Targets("BrokerList") # {}
         [] kind = "controller" -> Targets("Controller") # {} /\ Controller = None
         [] kind = "broker"     -> \E k \in Targets("Broker") : Home[k] \notin cache.brokers
         [] kind = "topics"     -> Targets("TopicList") # {}

Needed == {kind \in {"leader", "any", "controller", "broker", "topics"} : Needs(kind)}

resolve_fetches ==
    /\ adm.pc = "resolve"
    /\ \E kind \in Needed :
         /\ Ask(Me, kind \in {"any", "topics"}, IF kind = "leader" THEN Unroutable ELSE {})
         /\ adm' = [adm EXCEPT !.pc = "fetching", !.asked = @ \cup {kind}]
    /\ UNCHANGED <<versions, cache, attempt, closed, call, left, crossed,
                   ops, sent, results, expired, applied>>

\* Call::bounded: the fetch ends, or outlasts the deadline.  Its error only
\* matters to a listing.
fetched ==
    /\ adm.pc \in {"fetching", "refreshing"}
    /\ answer[Me] # "waiting" \/ expired
    /\ Abandon(Me)
    /\ IF IsListing
       THEN /\ results' = [results EXCEPT ![First] =
                 CASE answer[Me] = "ok" -> "ok" [] answer[Me] = "err" -> "Network"
                   [] OTHER -> "Timeout"]
            /\ adm' = [adm EXCEPT !.pc = "finished", !.todo = {}]
       ELSE /\ adm' = [adm EXCEPT !.pc = IF @ = "fetching" THEN "resolve" ELSE "round"]
            /\ UNCHANGED results
    /\ UNCHANGED <<versions, cache, permit, attempt, closed, call, left, owed, crossed,
                   ops, sent, expired, applied>>

\* broker_ids with the brokers known.
listed ==
    /\ adm.pc = "resolve" /\ IsListing /\ Needed = {}
    /\ results' = [results EXCEPT ![First] = "ok"]
    /\ adm' = [adm EXCEPT !.pc = "finished", !.todo = {}]
    /\ UNCHANGED <<mvars, ops, sent, expired, applied>>

\* Call::any_broker: one that has not failed this call, or any.
any_broker == IF cache.brokers \ adm.failed # {} THEN cache.brokers \ adm.failed
              ELSE cache.brokers

\* Call::find_coordinator, on such a broker: what else than the coordinator, as
\* the broker knows it, the exchange may come to.
LookupFaults == {"Network", "CoordinatorNotAvailable", "Refused"}

\* Routing::note_failure, for the keys of ks and their errors.
note_failure(a, ks, e) ==
    LET stale(k, codes) == e[k] \notin BrokerCodes \/ e[k] \in codes
        gone == UNION {Group(k) : k \in {j \in ks : Target(j) = "Coordinator"
                                                     /\ stale(j, stale_coordinator)}}
    IN [a EXCEPT
         !.coordinators = [k \in Keys |-> IF k \in gone THEN None ELSE @[k]],
         !.stale_controller = @ \/ \E k \in ks : Target(k) = "Controller"
                                                  /\ stale(k, stale_routing),
         !.stale = @ \cup {k \in ks : Target(k) = "Leader" /\ stale(k, stale_routing)}]

\* The node of each key of ks, given the coordinators found and the node `any`
\* of this round; None where the lookup failed.
NodeOf(k, coordinators, any) ==
    CASE Target(k) = "AnyBroker"   -> any
      [] Target(k) = "Controller"  -> Controller
      [] Target(k) = "Broker"      -> IF Home[k] \in cache.brokers THEN Home[k] ELSE None
      [] Target(k) = "Coordinator" -> coordinators[k]
      [] Target(k) = "Leader"      -> LeaderNode(k)

\* Why it failed.
LookupError(k, fault) ==
    CASE Target(k) = "AnyBroker"   -> "Unavailable"
      [] Target(k) = "Controller"  -> "NotController"
      [] Target(k) = "Broker"      -> "BrokerNotAvailable"
      [] Target(k) = "Coordinator" -> fault
      [] Target(k) = "Leader"      -> IF cache.errors[k] = "Unknown"
                                         \/ (Known(cache, k) /\ ~HasPartition(cache, k))
                                      THEN "UnknownTopicOrPartition" ELSE "LeaderNotAvailable"

\* The lookups that end the key; the others are retried.
LookupFails(e) == e \in {"BrokerNotAvailable", "Refused", "UnknownTopicOrPartition"}

resolved ==
    /\ adm.pc = "resolve" /\ ~IsListing /\ Needed = {}
    /\ \E any \in (IF cache.brokers = {} THEN {None} ELSE any_broker),
          v \in DOMAIN versions,
          fault \in {None} \cup LookupFaults :
         LET lost == fault # None /\ Missing # {}
             lookup_failed == IF any = None THEN Missing
                              ELSE IF lost THEN Group(CHOOSE k \in Missing : TRUE) \cap Missing
                              ELSE {}
             error == IF any = None THEN "Unavailable" ELSE IF expired THEN "Timeout" ELSE fault
             coordinators == [k \in Keys |->
                 IF k \in Missing \ lookup_failed THEN versions[v].coordinator
                 ELSE adm.coordinators[k]]
             node == [k \in Keys |-> IF k \in adm.todo THEN NodeOf(k, coordinators, any) ELSE None]
             out == {k \in adm.todo : node[k] = None}
             e == [k \in Keys |-> IF k \in out THEN LookupError(k, error) ELSE adm.last[k]]
             ended == {k \in out : LookupFails(e[k])}
             a == [adm EXCEPT !.coordinators = coordinators,
                              !.failed = IF error = "Network" /\ lookup_failed # {}
                                         THEN @ \cup {any} ELSE @]
         IN /\ IF lost /\ ~expired THEN Spend("faults") ELSE UNCHANGED left
            /\ adm' = [note_failure(a, out \ ended, e) EXCEPT
                         !.pc = "sending", !.todo = out \ ended, !.last = e]
            /\ results' = [k \in Keys |-> IF k \in ended THEN e[k] ELSE results[k]]
            /\ sent' = [b \in Brokers |->
                 LET ks == {k \in adm.todo : node[k] = b}
                 IN IF ks = {} THEN NoBatch
                    ELSE [NoBatch EXCEPT !.st = "connecting", !.keys = ks]]
    /\ UNCHANGED <<versions, cache, pending, permit, writer, attempt, closed, answer, call,
                   owed, crossed, ops, expired, applied>>

(***************************************************************************)
(* The batches of a round.                                                 *)
(***************************************************************************)
Batch(b, st, e) == sent' = [sent EXCEPT ![b].st = st, ![b].error = e]
BatchRest == /\ UNCHANGED <<ops, adm, results, expired>>
             /\ UNCHANGED <<versions, cache, pending, permit, writer, attempt, closed, answer,
                            call, owed, crossed>>

\* get_connection_by_id
batch_connects(b) ==
    /\ sent[b].st = "connecting"
    /\ \/ Batch(b, "sent", None) /\ UNCHANGED left
       \/ Spend("faults") /\ \E e \in {"Network", "Auth"} : Batch(b, "NotSent", e)
       \/ expired /\ Batch(b, "NotSent", "Timeout") /\ UNCHANGED left
    /\ UNCHANGED applied
    /\ BatchRest

\* The node the key's target names in the cluster now, external.
IsRight(b, k) ==
    CASE Target(k) = "Leader"      -> /\ Cluster.topics[k].leader = b
                                      /\ Cluster.topics[k].id # NoId
      [] Target(k) = "Controller"  -> Cluster.controller = b
      [] Target(k) = "Coordinator" -> Cluster.coordinator = b
      [] OTHER -> TRUE

WrongNode(k) == CASE Target(k) = "Controller"  -> "NotController"
                  [] Target(k) = "Coordinator" -> "NotCoordinator"
                  [] OTHER -> IF Cluster.topics[k].id = NoId THEN "UnknownTopicOrPartition"
                              ELSE "NotLeaderForPartition"

\* A broker handles the batch: it carries out the keys it is the node for.
\* With a glitch one of them is throttled, refused, times out, or is missing
\* from the answer; the last two say nothing of whether it was carried out.
broker_handles(b) ==
    /\ sent[b].st = "sent"
    /\ LET right == {k \in sent[b].keys : IsRight(b, k)}
           plain == [k \in Keys |-> IF k \in right THEN "ok"
                                    ELSE IF k \in sent[b].keys THEN WrongNode(k) ELSE None]
       IN \E k \in {None} \cup right,
             how \in {"ThrottlingQuotaExceeded", "Refused", "RequestTimedOut", "missing"},
             done \in BOOLEAN :
            /\ done => k # None /\ how \in {"RequestTimedOut", "missing"}
            /\ IF k = None THEN how = "Refused" /\ UNCHANGED left ELSE Spend("faults")
            /\ sent' = [sent EXCEPT ![b].st = "replied",
                           ![b].reply = IF k = None THEN plain ELSE [plain EXCEPT ![k] = how]]
            /\ applied' = [j \in Keys |-> IF j \in right /\ (j # k \/ done) THEN applied[j] + 1
                                          ELSE applied[j]]
    /\ BatchRest

\* What fails a batch before its request is written, or once it is answered.
BatchError(b) == IF sent[b].st = "sent" THEN "UnknownApiVersion" ELSE "Malformed"

\* The answer arrives, or the connection drops with the request in flight, or
\* the deadline passes first.  An answer that does not decode, or a version the
\* broker does not have, fails the batch as a whole.
batch_ends(b) ==
    /\ sent[b].st \in {"sent", "replied"}
    /\ \/ sent[b].st = "replied" /\ Batch(b, "Answered", None) /\ UNCHANGED left
       \/ Spend("faults") /\ \E e \in {"Network", BatchError(b)} : Batch(b, "Unanswered", e)
       \/ expired /\ Batch(b, "Unanswered", "Timeout") /\ UNCHANGED left
    /\ UNCHANGED applied
    /\ BatchRest

\* What became of key k of batch b: "ok", or its error.
KeyError(b, k) == IF sent[b].st \in {"NotSent", "Unanswered"} THEN sent[b].error
                  ELSE IF sent[b].reply[k] = "missing" THEN "Malformed" ELSE sent[b].reply[k]

\* Whether that error is retried.  (The mutated form sends an unanswered write
\* again.)
KeyRetried_unanswered(b, k) == CASE sent[b].st # "Answered" -> is_retriable(sent[b].error)
                                 [] OTHER -> retriable(KeyError(b, k))

KeyRetried(b, k) == CASE sent[b].st = "NotSent"    -> is_retriable(sent[b].error)
                      [] sent[b].st = "Unanswered" -> Call.mode = "Read" /\ is_retriable(sent[b].error)
                      [] OTHER -> retriable(KeyError(b, k))

\* The keys of a batch that are dealt with when it ends: all of them, those the
\* answer leaves out too.
Settled(b) == sent[b].keys

\* Every batch of the round has ended.
collect ==
    /\ adm.pc = "sending"
    /\ \A b \in Brokers : sent[b].st \in {None, "NotSent", "Unanswered", "Answered"}
    /\ LET carrier(k) == CHOOSE b \in Brokers : k \in sent[b].keys
           carried == UNION {Settled(b) : b \in Brokers}
           e == [k \in Keys |-> IF k \in carried THEN KeyError(carrier(k), k) ELSE adm.last[k]]
           retry == {k \in carried : KeyRetried(carrier(k), k)}
           noted == {k \in carried : k \in retry \/ sent[carrier(k)].st # "Answered"}
           a == [adm EXCEPT
                  !.failed = @ \cup {b \in Brokers : sent[b].st \in {"NotSent", "Unanswered"}},
                  !.todo = @ \cup retry,
                  !.last = [k \in Keys |-> IF k \in retry THEN e[k] ELSE @[k]],
                  !.pc = IF adm.todo \cup retry = {} THEN "finished" ELSE "refresh"]
       IN /\ adm' = note_failure(a, noted, e)
          /\ results' = [k \in Keys |-> IF k \in carried \ retry THEN e[k] ELSE results[k]]
    /\ sent' = [b \in Brokers |-> NoBatch]
    /\ UNCHANGED <<mvars, ops, expired, applied>>

\* Routing::refresh_metadata, and the backoff.
refresh_metadata ==
    /\ adm.pc = "refresh"
    /\ IF adm.stale # {} \/ adm.stale_controller
       THEN /\ Ask(Me, FALSE, adm.stale)
            /\ adm' = [adm EXCEPT !.pc = "refreshing", !.stale = {}, !.stale_controller = FALSE]
       ELSE /\ adm' = [adm EXCEPT !.pc = "round"]
            /\ UNCHANGED <<pending, permit, answer, owed, writer>>
    /\ UNCHANGED <<versions, cache, attempt, closed, call, left, crossed,
                   ops, sent, results, expired, applied>>

\* The call returns; the next one of the operation is made only if every key
\* has succeeded.
finished ==
    /\ adm.pc = "finished"
    /\ IF Len(ops) > 1 /\ \A k \in CallKeys(Call) : results[k] = "ok"
       THEN /\ ops' = Tail(ops)
            /\ adm' = Begin(ops[2])
            /\ results' = NoRoute
            /\ applied' = [k \in Keys |-> 0]
       ELSE /\ adm' = [adm EXCEPT !.pc = "ended"]
            /\ UNCHANGED <<ops, results, applied>>
    /\ UNCHANGED <<mvars, sent, expired>>

deadline_passes ==
    /\ adm.pc \notin {"idle", "ended"} /\ ~expired
    /\ expired' = TRUE
    /\ UNCHANGED <<mvars, ops, adm, sent, results, applied>>

BatchStep == \E b \in Brokers : batch_connects(b) \/ broker_handles(b) \/ batch_ends(b)

CallStep == \/ begin_round \/ resolve_fetches \/ fetched \/ listed \/ resolved
            \/ BatchStep \/ collect \/ refresh_metadata \/ finished

AdminStep == start \/ refuse \/ CallStep \/ deadline_passes

\* The kinds of change of the cluster that matter to an operation.
Concerned(o) == UNION {LET t == {o[i].target[1], o[i].target[2]} IN
                       (IF "Controller" \in t THEN {"controller"} ELSE {})
                       \cup (IF "Coordinator" \in t THEN {"coordinator"} ELSE {})
                       \cup (IF "Leader" \in t THEN {"leader", "topic"} ELSE {})
                       \cup (IF "BrokerList" \in t THEN {"listing"} ELSE {})
                       \cup (IF t \cap {"AnyBroker", "Broker", "TopicList", "BrokerList"} # {}
                            THEN {"brokers"} ELSE {}) : i \in DOMAIN o}

Init ==
    /\ MetadataInit
    /\ ops \in IF left.admin THEN {o \in Calls_of : Concerned(o) \cap left.kinds # {}} ELSE {<<>>}
    /\ adm = [Begin(Fan("Read", "AnyBroker")) EXCEPT !.pc = "idle", !.todo = {}]
    /\ sent = [b \in Brokers |-> NoBatch]
    /\ results = NoRoute
    /\ expired = FALSE
    /\ applied = [k \in Keys |-> 0]

\* The admin client holds a handle to the metadata while it works.
Next == \/ MetadataStep /\ UNCHANGED avars
        \/ drop_metadata /\ (ops = <<>> \/ adm.pc = "ended") /\ UNCHANGED avars
        \/ AdminStep

Spec == Init /\ [][Next]_vars

(***************************************************************************)
(* Properties.                                                             *)
(***************************************************************************)
Errors == BrokerCodes \cup {"Network", "Timeout", "Auth", "Malformed", "UnknownApiVersion",
                         "Unavailable"}

TypeOK ==
    /\ cache.brokers \subseteq Brokers /\ cache.controller \in Nodes
    /\ cache.topics \in [Topics -> [id : Nat, parts : {-1, 0, 1}, leader : Nodes,
                                    epoch : Nat \cup {NoEpoch}]]
    /\ writer.pass \in 0..MAX_PASSES /\ writer.waiters \cap pending.waiters = {}
    /\ \A c \in Callers : answer[c] = "waiting" <=> c \in writer.waiters \cup pending.waiters
    /\ adm.todo \subseteq Keys /\ adm.failed \subseteq Brokers
    /\ adm.coordinators \in [Keys -> Nodes]
    /\ results \in [Keys -> Errors \cup {"ok", None}]
    /\ \A b, c \in Brokers : b # c => sent[b].keys \cap sent[c].keys = {}

\* A write is carried out at most once for a key, whatever its rounds met:
\* dropped connections, moved controllers, coordinators and leaders, throttling,
\* timeouts (driver.rs, "What is retried").
WrittenOnce == ops # <<>> /\ Call.mode = "Write" => \A k \in Keys : applied[k] <= 1

\* What a write's result says is so: Ok means it was carried out, and a broker's
\* error code, the last round's or an earlier one's reported at the deadline,
\* means it was not, unless the code is a timeout.
ResultIsTrue ==
    ops # <<>> /\ Call.mode = "Write" =>
        \A k \in Keys : /\ results[k] = "ok" => applied[k] = 1
                        /\ results[k] \in BrokerCodes \ {"RequestTimedOut"} => applied[k] = 0

\* A call that returns has a result for every one of its keys and is still
\* waiting for none, even when a broker left a key out of its answer.
EveryKeyAnswered ==
    adm.pc = "finished" => /\ \A k \in CallKeys(Call) : results[k] # None
                           /\ \A b \in Brokers : sent[b].st = None
                           /\ answer[Me] # "waiting"

\* A call's results are complete and true, and its writes were made once.
CallIsTrue == TypeOK /\ WrittenOnce /\ ResultIsTrue /\ EveryKeyAnswered
==============================================================================
