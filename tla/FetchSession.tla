---------------------------- MODULE FetchSession ----------------------------
(****************************************************************************)
(* Incremental fetch sessions with one broker: src/consumer/fetch_session.rs *)
(* and the part of fetcher/mod.rs that sends with them (KIP-227).            *)
(*                                                                          *)
(* A request carries only what changed since the session's last answer, so    *)
(* what the broker serves is right only when both ends agree on what the      *)
(* session holds.  The session is read under the lock when a request is       *)
(* built and written under the lock when its answer is read; between the      *)
(* two other tasks poll on the same session, the poll is woken up or dropped,  *)
(* the answer is lost, the request arrives after its sender gave it up, and   *)
(* the broker evicts the session.                                            *)
(****************************************************************************)
EXTENDS Integers, FiniteSets, Sequences, SequencesExt

CONSTANTS
    Partitions,
    Pollers,
    Parameters,     \* the values a PartitionState takes, all its fields together
    I32_MAX,        \* the epoch after which the next is 1
    MaxSessions,    \* bound: sessions the broker opens
    MaxFetches      \* bound: requests sent once two have overlapped or one was
                    \* lost; below I32_MAX - 1, or an epoch would come round
                    \* again while a request that carries it is still under way

ASSUME FetchSessionAssumption ==
    /\ I32_MAX \in Nat /\ MaxSessions \in Nat /\ MaxFetches \in Nat
    /\ MaxFetches + 1 < I32_MAX
    /\ IsFiniteSet(Pollers)

VARIABLES
    session,        \* FetchSessionState: [id, epoch, topics]
    request,        \* each poller's request, or Idle
    strays,         \* requests under way whose sender has given up
    broker,         \* the broker's sessions: id -> [epoch, topics]
    next_id,
    sent,           \* requests counted against MaxFetches
    calm            \* one request at a time, and each was answered

vars == <<session, request, strays, broker, next_id, sent, calm>>

INITIAL_EPOCH == 0

Empty == <<>>

NoSession == [id |-> 0, epoch |-> INITIAL_EPOCH, topics |-> Empty]

Idle == [state |-> "idle"]

Init ==
    /\ session = NoSession
    /\ request = [a \in Pollers |-> Idle]
    /\ strays = {}
    /\ broker = Empty
    /\ next_id = 1
    /\ sent = 0
    /\ calm = TRUE

next_epoch_stuck(epoch) == IF epoch = I32_MAX THEN I32_MAX ELSE epoch + 1

next_epoch(epoch) == IF epoch = I32_MAX THEN 1 ELSE epoch + 1

------------------------------------------------------------------------------
(* The client. *)

\* The partitions a request must carry: new to the session, or changed.
Changed_new(desired) == DOMAIN desired \ DOMAIN session.topics

Changed(desired) ==
    {p \in DOMAIN desired :
        p \in DOMAIN session.topics => session.topics[p] # desired[p]}

build_request(a, desired) ==
    /\ request[a] = Idle
    /\ calm' = (calm /\ \A b \in Pollers : request[b] = Idle)
    /\ ~calm' => sent < MaxFetches
    /\ sent' = IF calm' THEN sent ELSE sent + 1
    /\ request' = [request EXCEPT ![a] =
         [state |-> "sent", desired |-> desired,
          id |-> session.id, epoch |-> session.epoch,
          topics |-> IF session.id = 0 THEN desired
                     ELSE Restrict(desired, Changed(desired)),
          forgotten |-> IF session.id = 0 THEN {}
                        ELSE DOMAIN session.topics \ DOMAIN desired]]
    /\ UNCHANGED <<session, strays, broker, next_id>>

update_from_response(id, desired) ==
    IF id = 0 THEN NoSession
    ELSE [id |-> id, epoch |-> next_epoch(session.epoch), topics |-> desired]

\* FETCH_SESSION_ID_NOT_FOUND and INVALID_FETCH_SESSION_EPOCH reset the session.
AnswerRead(a) ==
    /\ request[a].state = "answered"
    /\ session' = IF request[a].code = "ok"
                  THEN update_from_response(request[a].answer_id, request[a].desired)
                  ELSE NoSession
    /\ request' = [request EXCEPT ![a] = Idle]
    /\ UNCHANGED <<strays, broker, next_id, sent, calm>>

\* The request, when the broker has not taken it, may still get there.
Abandon(a, arrives) ==
    /\ request[a] # Idle
    /\ arrives => request[a].state = "sent"
    /\ request' = [request EXCEPT ![a] = Idle]
    /\ strays' = IF arrives
                 THEN strays \cup {[id |-> request[a].id, epoch |-> request[a].epoch,
                                    topics |-> request[a].topics,
                                    forgotten |-> request[a].forgotten]}
                 ELSE strays
    /\ calm' = FALSE

\* A timeout, a network error or an answer that does not decode.
SendFails(a, arrives) ==
    /\ Abandon(a, arrives)
    /\ session' = NoSession
    /\ UNCHANGED <<broker, next_id, sent>>

\* wakeup(), or poll()'s future is dropped: nothing resets the session.
Dropped(a, arrives) ==
    /\ Abandon(a, arrives)
    /\ UNCHANGED <<session, broker, next_id, sent>>

\* close_all, whose request the broker may never see, and retain_brokers,
\* which sends none.
close_all(delivered) ==
    /\ session.id # 0
    /\ session' = NoSession
    /\ broker' = IF delivered THEN Restrict(broker, DOMAIN broker \ {session.id})
                 ELSE broker
    /\ calm' = FALSE
    /\ UNCHANGED <<request, strays, next_id, sent>>

------------------------------------------------------------------------------
(* The broker. *)

EpochAfter(epoch) == (epoch % I32_MAX) + 1

\* What a session that holds topics holds after request r.
Merge(r, topics) ==
    [p \in (DOMAIN r.topics \cup DOMAIN topics) \ r.forgotten |->
        IF p \in DOMAIN r.topics THEN r.topics[p] ELSE topics[p]]

\* What the broker makes of a request: its sessions after it, the answer, and
\* the partitions it serves.
Handled(r, grants) ==
    IF r.id = 0
    THEN [broker |-> [id \in DOMAIN broker \cup IF grants THEN {next_id} ELSE {} |->
                         IF id \in DOMAIN broker THEN broker[id]
                         ELSE [epoch |-> 1, topics |-> r.topics]],
          code |-> "ok", id |-> IF grants THEN next_id ELSE 0, served |-> r.topics]
    ELSE IF r.id \notin DOMAIN broker
    THEN [broker |-> broker, code |-> "FetchSessionIdNotFound", id |-> 0, served |-> Empty]
    ELSE IF r.epoch # broker[r.id].epoch
    THEN [broker |-> broker, code |-> "InvalidFetchSessionEpoch", id |-> 0, served |-> Empty]
    ELSE LET kept == Merge(r, broker[r.id].topics)
         IN  [broker |-> [broker EXCEPT ![r.id] = [epoch |-> EpochAfter(r.epoch),
                                                   topics |-> kept]],
              code |-> "ok", id |-> r.id, served |-> kept]

Took(h) ==
    /\ broker' = h.broker
    /\ next_id' = IF next_id \in DOMAIN h.broker THEN next_id + 1 ELSE next_id

BrokerAnswers(a, grants) ==
    /\ request[a].state = "sent"
    /\ grants => next_id <= MaxSessions
    /\ LET h == Handled(request[a], grants)
       IN  /\ Took(h)
           /\ request' = [request EXCEPT ![a] =
                [state |-> "answered", code |-> h.code, answer_id |-> h.id,
                 served |-> h.served, desired |-> request[a].desired]]
    /\ UNCHANGED <<session, strays, sent, calm>>

BrokerTakesStray(r) ==
    /\ r.id = 0 => next_id <= MaxSessions
    /\ Took(Handled(r, TRUE))
    /\ strays' = strays \ {r}
    /\ UNCHANGED <<session, request, sent, calm>>

Evict(id) ==
    /\ broker' = Restrict(broker, DOMAIN broker \ {id})
    /\ calm' = FALSE
    /\ UNCHANGED <<session, request, strays, next_id, sent>>

Desired == UNION {[S -> Parameters] : S \in SUBSET Partitions \ {{}}}

Next ==
    \/ \E a \in Pollers :
         \/ \E desired \in Desired : build_request(a, desired)
         \/ AnswerRead(a)
         \/ \E arrives \in BOOLEAN : SendFails(a, arrives) \/ Dropped(a, arrives)
         \/ \E grants \in BOOLEAN : BrokerAnswers(a, grants)
    \/ \E delivered \in BOOLEAN : close_all(delivered)
    \/ \E r \in strays : BrokerTakesStray(r)
    \/ \E id \in DOMAIN broker : Evict(id)

Spec == Init /\ [][Next]_vars

------------------------------------------------------------------------------
(* Properties. *)

\* Every variable has its type, and a session holds what its last request asked.
TypeOK ==
    /\ session.id \in 0..MaxSessions /\ session.epoch \in 0..I32_MAX
    /\ session.id = 0 <=> session.epoch = INITIAL_EPOCH
    /\ session.topics = Empty \/ session.topics \in Desired
    /\ \A a \in Pollers : request[a].state \in {"idle", "sent", "answered"}
    /\ \A id \in DOMAIN broker : broker[id].epoch \in 1..I32_MAX
    /\ next_id \in 1..MaxSessions + 1 /\ sent \in 0..MaxFetches

\* A poll is answered for exactly the partitions, offsets and epochs it asked
\* for, although its request named only the changes: an answer that was lost,
\* an answer that came late, a request that came late or two requests built
\* from one session never leave the broker serving a stale offset.
ServedIsAsked ==
    \A a \in Pollers :
        request[a].state = "answered" /\ request[a].code = "ok" =>
            request[a].served = request[a].desired

\* A consumer that polls one request at a time and loses none is never refused
\* for its session, however long it goes on: the epochs stay in step, the
\* wrap from i32::MAX to 1 included.
InStep ==
    calm => \A a \in Pollers :
        request[a].state = "answered" => request[a].code = "ok"
==============================================================================
