--------------------------- MODULE ShareConsumer ---------------------------
(****************************************************************************)
(* The share consumer (KIP-932) and one share partition: src/share_consumer. *)
(*                                                                          *)
(* A poll hands buffered records to the application, which acknowledges      *)
(* them into the ack book; one request manager per node moves the book's      *)
(* acknowledgements on to the broker, alone or on the next fetch, through a   *)
(* share session whose epochs both ends count.  Every request is an await:    *)
(* while it is out the application acknowledges more, a commit starts, times  *)
(* out or is dropped, the partition is revoked or moves, the member is fenced, *)
(* the consumer closes.  Acknowledgements whose request failed go back into   *)
(* the book while they are young enough.                                     *)
(*                                                                          *)
(* The broker is the one of src/testing: it applies a partition's              *)
(* acknowledgements together or not at all, then acquires.                    *)
(****************************************************************************)
EXTENDS Integers, Sequences, FiniteSets, TLC, SequencesExt

CONSTANTS
    Nodes,
    Offsets,        \* the records of the partition, in order
    Controls,       \* the sets of them that may be control records: acquired,
                    \* never delivered
    Committers,     \* the calls of commit() that may wait at one time
    Modes,          \* the acknowledgement modes to start in
    Answers,        \* what the application may answer a record with
    MaxPoll,        \* max_poll_records
    I32_MAX,        \* the session epoch after which the next is 1
    MaxCalls,       \* bound: polls, commits, renewals, assignments and records
                    \* that do not decode
    MaxFaults       \* bound: failures, expired locks, moves, lost memberships

ASSUME ShareAssumption ==
    /\ Offsets \subseteq Nat /\ Controls \subseteq SUBSET Offsets
    /\ Answers \subseteq {"Accept", "Release", "Reject", "Renew"}
    /\ MaxPoll \in Nat \ {0} /\ I32_MAX \in Nat \ {0, 1} /\ MaxCalls \in Nat /\ MaxFaults \in Nat

VARIABLES
    \* the cluster
    control,        \* the offsets of control records
    record,         \* each offset: "available", "mine", "other", "accepted" or "archived"
    leader,
    broker_session, \* the node's session for this member: [epoch, holds]
    stray,          \* per node, a request given up on that may still arrive
    \* the consumer
    mode,
    known,          \* the leader the metadata cache names
    assigned,
    buffer,         \* CompletedFetches: [node, records]
    outstanding,    \* offsets the application holds -> the acquiring node
    book,           \* the AckBook's entry of each node
    remaining,      \* CommitWaiter.remaining of each commit; Idle when not waiting
    poll,           \* [pc, candidates]
    fetch_wanted, deferred_error, backoff, fatal,
    stage,          \* "open", "closing" once close() has begun, "closed"
    \* the request managers
    session,        \* ShareSession: [epoch, holds]
    request,        \* the manager's request: [state, ...]
    manager,        \* "running", "exited" or "aborted"
    opened_for_close,
    \* history
    calls, faults,
    forgot,         \* a revocation or a commit's deadline has dropped locked records
    asked           \* offsets the application let be accepted: by ack(), or in
                    \* implicit mode by having been given them

cluster == <<control, record, leader, broker_session, stray>>
polling == <<poll, fetch_wanted, deferred_error>>
managing == <<session, request, manager, opened_for_close>>
history == <<calls, faults, forgot, asked>>
vars == <<cluster, mode, known, assigned, buffer, outstanding, book, remaining,
          polling, backoff, fatal, stage, managing, history>>

Idle == -1
INITIAL_EPOCH == 0
FINAL_EPOCH == -1
Kinds == {"Gap", "Accept", "Release", "Reject", "Renew"}

NoAcks == <<>>
NoEntry == [pending |-> NoAcks, in_flight |-> NoAcks, waiters |-> {}]
NoSession == [epoch |-> INITIAL_EPOCH, holds |-> FALSE]
NoRequest == [state |-> "none"]

Init ==
    /\ record = [o \in Offsets |-> "available"]
    /\ control \in Controls
    /\ leader = (CHOOSE n \in Nodes : TRUE) /\ known = leader
    /\ broker_session = [n \in Nodes |-> NoSession]
    /\ stray = [n \in Nodes |-> NoRequest]
    /\ mode \in Modes
    /\ assigned = TRUE
    /\ buffer = <<>> /\ outstanding = NoAcks
    /\ book = [n \in Nodes |-> NoEntry]
    /\ remaining = [c \in Committers |-> Idle]
    /\ poll = [pc |-> "idle", candidates |-> <<>>]
    /\ fetch_wanted = FALSE /\ deferred_error = FALSE
    /\ backoff = FALSE /\ fatal = FALSE /\ stage = "open"
    /\ session = [n \in Nodes |-> NoSession]
    /\ request = [n \in Nodes |-> NoRequest]
    /\ manager = [n \in Nodes |-> "running"]
    /\ opened_for_close = [n \in Nodes |-> FALSE]
    /\ calls = 0 /\ faults = 0 /\ forgot = FALSE
    /\ asked = {}

Fault == faults < MaxFaults /\ faults' = faults + 1

Call == calls < MaxCalls /\ calls' = calls + 1

------------------------------------------------------------------------------
(* The ack book (acks.rs). *)

IsEmpty(entry) == entry.pending = NoAcks /\ entry.in_flight = NoAcks

HasPending(n) == book[n].pending # NoAcks

\* A later acknowledgement of an offset replaces a pending earlier one.
add(entry, acks) ==
    IF acks = NoAcks THEN entry
    ELSE [entry EXCEPT !.pending = acks @@ entry.pending]

\* Queue the acknowledgements f[n] at each node n.
Queued(entries, f) == [n \in Nodes |-> add(entries[n], f[n])]

AtNode(acks, node) == [n \in Nodes |-> IF n = node THEN acks ELSE NoAcks]

take(entry) == [entry EXCEPT !.in_flight = entry.pending, !.pending = NoAcks]

\* The entry goes when nothing of it is left, and its waiters with it.
finish(entry) == IF IsEmpty(entry) THEN NoEntry ELSE entry

Resolved(entry, part) ==
    finish(IF part = "pending" THEN [entry EXCEPT !.pending = NoAcks]
                               ELSE [entry EXCEPT !.in_flight = NoAcks])

retried_over(entry) == entry.in_flight @@ entry.pending

\* What was queued since the request replaces what the request carried.
retried(entry) == entry.pending @@ entry.in_flight

Retry(entry) == [entry EXCEPT !.pending = retried(entry), !.in_flight = NoAcks]

\* The in-flight acknowledgements fail with an error of the class.
SettledErr(entry, class, may_retry) ==
    IF entry.in_flight # NoAcks /\ class = "Retry" /\ may_retry
    THEN Retry(entry) ELSE Resolved(entry, "in_flight")

\* Of the entries the commit is attached to, those that are done.
entry_done(entries, after, c) ==
    Cardinality({n \in Nodes : c \in entries[n].waiters /\ after[n] = NoEntry})

\* Entries become after; the commits attached to those that are done hear of it.
Record(after) ==
    /\ book' = after
    /\ remaining' = [c \in Committers |->
         IF remaining[c] = Idle THEN Idle ELSE remaining[c] - entry_done(book, after, c)]

fail_pending(entries, nodes) ==
    [n \in Nodes |-> IF n \in nodes /\ entries[n].pending # NoAcks
                     THEN Resolved(entries[n], "pending") ELSE entries[n]]

------------------------------------------------------------------------------
(* The application: poll, acknowledge, commit, close (mod.rs, state.rs). *)

\* The offsets of the buffered records acquired from the node.
BufferedFrom(node) ==
    UNION {ToSet(buffer[i].records) : i \in {j \in DOMAIN buffer : buffer[j].node = node}}

\* What the records held become, by acquiring node, when all are accepted.
Held(node, kind) ==
    [o \in {q \in DOMAIN outstanding : outstanding[q] = node} |-> kind]

Accepted ==
    IF mode = "Implicit"
    THEN Queued(book, [n \in Nodes |-> Held(n, "Accept")]) ELSE book

accept_delivered ==
    /\ book' = Accepted
    /\ outstanding' = IF mode = "Implicit" THEN NoAcks ELSE outstanding

\* poll() up to its loop.  An explicit consumer settles every record first.
StartPoll ==
    /\ Call
    /\ poll.pc = "idle" /\ stage = "open" /\ ~fatal
    /\ mode = "Explicit" => outstanding = NoAcks
    /\ accept_delivered
    /\ deferred_error' = FALSE
    /\ poll' = IF deferred_error THEN poll ELSE [poll EXCEPT !.pc = "scan"]
    /\ UNCHANGED <<cluster, mode, known, assigned, buffer, remaining, fetch_wanted,
                   backoff, fatal, stage, managing, faults, forgot, asked>>

Buffered == FlattenSeq([i \in DOMAIN buffer |-> buffer[i].records])

\* take_records copies what it will decode; with nothing to copy, poll() waits.
ScanBuffer ==
    /\ poll.pc = "scan"
    /\ IF Buffered = <<>>
       THEN /\ poll' = [poll EXCEPT !.pc = IF stage = "open" /\ ~fatal THEN "wait" ELSE "idle"]
            /\ fetch_wanted' = (stage = "open" /\ ~fatal)
       ELSE /\ poll' = [pc |-> "decode",
                        candidates |-> SubSeq(Buffered, 1, IF Len(Buffered) < MaxPoll
                                                           THEN Len(Buffered) ELSE MaxPoll)]
            /\ UNCHANGED fetch_wanted
    /\ UNCHANGED <<cluster, mode, known, assigned, buffer, outstanding, book, remaining,
                   deferred_error, backoff, fatal, stage, managing, history>>

\* The completed fetch the record is still at the front of, or 0.
pop_front(buf, o) ==
    LET at == {i \in DOMAIN buf : buf[i].records # <<>> /\ Head(buf[i].records) = o}
    IN  IF at = {} THEN 0 ELSE CHOOSE i \in at : \A j \in at : i <= j

Pop(taken, o) ==
    LET i == pop_front(taken.buffer, o)
    IN  IF i = 0 THEN taken
        ELSE [buffer |-> [taken.buffer EXCEPT ![i].records = Tail(@)],
              got |-> (o :> taken.buffer[i].node) @@ taken.got]

\* The second critical section of take_records: the records decoded, up to
\* the one that failed, leave the buffer; the failed one is released.
TakeRecords(decoded) ==
    LET wanted == SubSeq(poll.candidates, 1, decoded)
        fails  == decoded < Len(poll.candidates)
        got    == FoldLeft(Pop, [buffer |-> buffer, got |-> NoAcks], wanted)
        bad    == poll.candidates[decoded + 1]
        rest   == IF fails THEN Pop([got EXCEPT !.got = NoAcks], bad) ELSE got
        freed  == IF fails /\ rest.got # NoAcks
                  THEN AtNode(bad :> "Release", rest.got[bad]) ELSE AtNode(NoAcks, leader)
        ends   == got.got # NoAcks \/ fails
    IN  /\ poll.pc = "decode"
        /\ buffer' = SelectSeq(rest.buffer, LAMBDA f : f.records # <<>>)
        /\ outstanding' = got.got @@ outstanding
        /\ book' = Queued(book, freed)
        /\ deferred_error' = (deferred_error \/ (fails /\ got.got # NoAcks))
        /\ asked' = IF mode = "Implicit" THEN asked \cup DOMAIN got.got ELSE asked
        /\ poll' = [pc |-> IF ends THEN "idle"
                           ELSE IF stage = "open" /\ ~fatal THEN "wait" ELSE "idle",
                    candidates |-> <<>>]
        /\ fetch_wanted' = (~ends /\ stage = "open" /\ ~fatal)
        /\ IF fails THEN Call ELSE UNCHANGED calls
        /\ UNCHANGED <<cluster, mode, known, assigned, remaining, backoff, fatal, stage,
                       managing, faults, forgot>>

\* records_ready was notified.
WakePoll ==
    /\ poll.pc = "wait" /\ (buffer # <<>> \/ stage # "open" \/ fatal)
    /\ poll' = [poll EXCEPT !.pc = "scan"]
    /\ UNCHANGED <<cluster, mode, known, assigned, buffer, outstanding, book, remaining,
                   fetch_wanted, deferred_error, backoff, fatal, stage, managing, history>>

\* The poll times out, is woken up or is dropped: its demand goes.
EndPoll ==
    /\ poll.pc = "wait"
    /\ poll' = [poll EXCEPT !.pc = "idle"] /\ fetch_wanted' = FALSE
    /\ UNCHANGED <<cluster, mode, known, assigned, buffer, outstanding, book, remaining,
                   deferred_error, backoff, fatal, stage, managing, history>>

\* ack, release, reject and renew of one record; a renewed one stays held.
acknowledge(o, kind) ==
    /\ mode = "Explicit" /\ stage = "open" /\ o \in DOMAIN outstanding
    /\ book' = Queued(book, AtNode(o :> kind, outstanding[o]))
    /\ outstanding' = IF kind = "Renew" THEN outstanding
                      ELSE [q \in DOMAIN outstanding \ {o} |-> outstanding[q]]
    /\ asked' = IF kind = "Accept" THEN asked \cup {o} ELSE asked
    /\ IF kind = "Renew" THEN Call ELSE UNCHANGED calls
    /\ UNCHANGED <<cluster, mode, known, assigned, buffer, remaining, polling, backoff,
                   fatal, stage, managing, faults, forgot>>

attach(entries, c) ==
    [n \in Nodes |-> IF IsEmpty(entries[n]) THEN entries[n]
                     ELSE [entries[n] EXCEPT !.waiters = @ \cup {c}]]

detach(entries, c) == [n \in Nodes |-> [entries[n] EXCEPT !.waiters = @ \ {c}]]

commit(c) ==
    /\ Call
    /\ remaining[c] = Idle /\ stage = "open"
    /\ book' = attach(Accepted, c)
    /\ remaining' = [remaining EXCEPT ![c] =
         Cardinality({n \in Nodes : ~IsEmpty(Accepted[n])})]
    /\ outstanding' = IF mode = "Implicit" THEN NoAcks ELSE outstanding
    /\ UNCHANGED <<cluster, mode, known, assigned, buffer, polling, backoff, fatal,
                   stage, managing, faults, forgot, asked>>

\* The wait is over, or the commit is dropped.
CommitEnds(c) ==
    /\ remaining[c] # Idle
    /\ book' = detach(book, c)
    /\ remaining' = [remaining EXCEPT ![c] = Idle]
    /\ UNCHANGED <<cluster, mode, known, assigned, buffer, outstanding, polling, backoff,
                   fatal, stage, managing, history>>

\* At its deadline a commit gives up what has not been sent.
CommitTimesOut(c) ==
    /\ remaining[c] > 0
    /\ LET after == fail_pending(book, {n \in Nodes : c \in book[n].waiters})
       IN  /\ book' = detach(after, c)
           /\ forgot' = (forgot \/ after # book)
           /\ remaining' = [d \in Committers |->
                IF d = c \/ remaining[d] = Idle THEN Idle
                ELSE remaining[d] - entry_done(book, after, d)]
    /\ UNCHANGED <<cluster, mode, known, assigned, buffer, outstanding, polling, backoff,
                   fatal, stage, managing, faults, calls, asked>>

close_with ==
    /\ stage = "open"
    /\ accept_delivered
    /\ stage' = "closing"
    /\ UNCHANGED <<cluster, mode, known, assigned, buffer, remaining, polling, backoff,
                   fatal, managing, history>>

\* The close gives a manager up at its deadline.
AbortManager(n) ==
    /\ stage = "closing" /\ manager[n] = "running"
    /\ Fault
    /\ manager' = [manager EXCEPT ![n] = "aborted"]
    /\ stray' = [stray EXCEPT ![n] = IF request[n].state = "sent" THEN request[n] ELSE @]
    /\ request' = [request EXCEPT ![n] = NoRequest]
    /\ UNCHANGED <<control, record, leader, broker_session, mode, known, assigned, buffer,
                   outstanding, book, remaining, polling, backoff, fatal, stage, session,
                   opened_for_close, forgot, calls, asked>>

\* Every manager is done: the member leaves, and what is left is dropped.
FinishClose ==
    /\ stage = "closing" /\ \A n \in Nodes : manager[n] # "running"
    /\ stage' = "closed" /\ assigned' = FALSE
    /\ buffer' = <<>> /\ outstanding' = NoAcks /\ backoff' = FALSE
    /\ deferred_error' = FALSE
    /\ Record(fail_pending(book, Nodes))
    /\ record' = [o \in Offsets |-> IF record[o] = "mine" THEN "available" ELSE record[o]]
    /\ UNCHANGED <<control, leader, broker_session, stray, mode, known, poll, fetch_wanted, fatal,
                   managing, history>>

------------------------------------------------------------------------------
(* Membership (membership.rs): the heartbeat's answer changes the assignment. *)

\* A revoked partition's buffered records go back; those delivered are
\* forgotten; what is queued is still sent.
install_assignment ==
    /\ Call
    /\ stage = "open"
    /\ assigned' = ~assigned
    /\ IF assigned
       THEN /\ book' = Queued(book, [n \in Nodes |->
                         [o \in BufferedFrom(n) |-> "Release"]])
            /\ forgot' = (forgot \/ outstanding # NoAcks)
            /\ buffer' = <<>> /\ outstanding' = NoAcks /\ backoff' = FALSE
       ELSE UNCHANGED <<book, forgot, buffer, outstanding, backoff>>
    /\ UNCHANGED <<cluster, mode, known, remaining, polling, fatal, stage, managing,
                   faults, asked>>

\* The member lost its membership: drop_partition_state and no assignment.
fence ==
    /\ stage = "open" /\ Fault
    /\ assigned' = FALSE
    /\ buffer' = <<>> /\ outstanding' = NoAcks /\ backoff' = FALSE
    /\ deferred_error' = FALSE
    /\ Record(fail_pending(book, Nodes))
    /\ UNCHANGED <<cluster, mode, known, poll, fetch_wanted, fatal, stage, managing,
                   forgot, calls, asked>>

\* What a heartbeat's answer changes here: the assignment, or the membership.
heartbeat == install_assignment \/ fence

\* A metadata refresh, by the driver or after a leader error.
Refresh ==
    /\ known' = leader /\ known # leader
    /\ UNCHANGED <<cluster, mode, assigned, buffer, outstanding, book, remaining, polling,
                   backoff, fatal, stage, managing, history>>

BackoffEnds ==
    /\ backoff /\ backoff' = FALSE
    /\ UNCHANGED <<cluster, mode, known, assigned, buffer, outstanding, book, remaining,
                   polling, fatal, stage, managing, history>>

------------------------------------------------------------------------------
(* The request managers (request_manager.rs, session.rs, completed_fetch.rs). *)

is_established(n) == session[n].epoch # INITIAL_EPOCH

advance(epoch) == IF epoch = I32_MAX THEN 1 ELSE epoch + 1

buffers_node(n) == BufferedFrom(n) # {}

wanted(n) == assigned /\ known = n /\ ~backoff

can_fetch(n) == fetch_wanted /\ wanted(n) /\ ~buffers_node(n)

\* The manager is between requests.
Planning(n) == manager[n] = "running" /\ request[n] = NoRequest

Open(n) == Planning(n) /\ stage = "open" /\ ~fatal /\ known = n

\* A request that asks the session to hold the partition, or to forget it.
Fetch(n, asks, acks) ==
    [state |-> "sent", api |-> "ShareFetch", epoch |-> session[n].epoch, acks |-> acks,
     wanted |-> asks,
     added |-> asks /\ ~session[n].holds,
     forgotten |-> is_established(n) /\ ~asks /\ session[n].holds]

open_only(n) == [Fetch(n, FALSE, NoAcks) EXCEPT !.forgotten = FALSE]

Acknowledge(n, closing) ==
    [state |-> "sent", api |-> "ShareAcknowledge", acks |-> book[n].pending,
     epoch |-> IF closing THEN FINAL_EPOCH ELSE session[n].epoch,
     wanted |-> FALSE, added |-> FALSE, forgotten |-> FALSE]

Send(n, r) ==
    /\ request' = [request EXCEPT ![n] = r]
    /\ book' = IF r.acks = NoAcks THEN book ELSE [book EXCEPT ![n] = take(@)]
    /\ UNCHANGED <<cluster, mode, known, assigned, buffer, outstanding, remaining,
                   polling, backoff, fatal, stage, session, manager, history>>

\* An acknowledgement belongs to the node that acquired the record.
FailMoved(n) ==
    /\ Planning(n) /\ stage = "open" /\ ~fatal /\ known # n /\ HasPending(n)
    /\ Record(fail_pending(book, {n}))
    /\ UNCHANGED <<cluster, mode, known, assigned, buffer, outstanding, polling, backoff,
                   fatal, stage, managing, history>>

\* A request that opens a session carries no acknowledgements.
OpenSession(n) ==
    /\ Open(n) /\ ~is_established(n) /\ (can_fetch(n) \/ HasPending(n))
    /\ Send(n, IF can_fetch(n) THEN Fetch(n, TRUE, NoAcks) ELSE open_only(n))
    /\ UNCHANGED opened_for_close

standalone(n) ==
    ~can_fetch(n) \/ book[n].waiters # {} \/ \E o \in DOMAIN book[n].pending :
                                                book[n].pending[o] = "Renew"

SendAcks(n) ==
    /\ Open(n) /\ is_established(n) /\ HasPending(n) /\ standalone(n)
    /\ Send(n, Acknowledge(n, FALSE))
    /\ UNCHANGED opened_for_close

SendFetch(n) ==
    /\ Open(n) /\ is_established(n) /\ can_fetch(n) /\ (HasPending(n) => ~standalone(n))
    /\ Send(n, Fetch(n, TRUE, book[n].pending))
    /\ UNCHANGED opened_for_close

\* At close the last request carries what is left, over a session opened for
\* it if need be.
SendLast(n) ==
    /\ Planning(n) /\ stage = "closing"
    /\ IF is_established(n)
       THEN Send(n, Acknowledge(n, TRUE)) /\ UNCHANGED opened_for_close
       ELSE /\ HasPending(n) /\ ~opened_for_close[n]
            /\ opened_for_close' = [opened_for_close EXCEPT ![n] = TRUE]
            /\ Send(n, open_only(n))

Exit_open(n) ==
    /\ Planning(n) /\ stage = "closing"
    /\ ~HasPending(n)
    /\ manager' = [manager EXCEPT ![n] = "exited"]
    /\ Record(fail_pending(book, {n}))
    /\ UNCHANGED <<cluster, mode, known, assigned, buffer, outstanding, polling, backoff,
                   fatal, stage, session, request, opened_for_close, history>>

Exit(n) ==
    /\ Planning(n) /\ stage = "closing" /\ ~is_established(n)
    /\ HasPending(n) => opened_for_close[n]
    /\ manager' = [manager EXCEPT ![n] = "exited"]
    /\ Record(fail_pending(book, {n}))
    /\ UNCHANGED <<cluster, mode, known, assigned, buffer, outstanding, polling, backoff,
                   fatal, stage, session, request, opened_for_close, history>>

\* What an answer acquired becomes: records up to the first batch that does
\* not decode, acknowledgements for the rest.
process(acquired, cut) ==
    LET delivered == {o \in acquired \ control : o < cut}
    IN  [records |-> SetToSortSeq(delivered, <),
         acks |-> [o \in acquired \ delivered |-> IF o < cut THEN "Gap" ELSE "Release"]]

closes(r) == r.epoch = FINAL_EPOCH

Close(n) == IF closes(request[n]) THEN [manager EXCEPT ![n] = "exited"] ELSE manager

\* The request failed as a whole.  Its acknowledgements are young when they
\* were queued within the acquisition-lock timeout.
on_failure(n, class) ==
    /\ session' = IF closes(request[n]) THEN session ELSE [session EXCEPT ![n] = NoSession]
    /\ \E young \in BOOLEAN :
         Record([book EXCEPT ![n] = SettledErr(@, class, young /\ ~closes(request[n]))])
    /\ request' = [request EXCEPT ![n] = NoRequest]
    /\ manager' = Close(n)

\* The node or the network fails the request, before the node has seen it,
\* after, or with the request still under way.
RequestFails(n) ==
    /\ request[n] # NoRequest /\ Fault
    /\ on_failure(n, "Retry")
    /\ stray' \in {stray} \cup (IF request[n].state = "sent"
                                THEN {[stray EXCEPT ![n] = request[n]]} ELSE {})
    /\ UNCHANGED <<control, record, leader, broker_session, mode, known, assigned, buffer,
                   outstanding, polling, backoff, fatal, stage, opened_for_close,
                   forgot, calls, asked>>

\* The node does not speak the version the consumer needs.
Unsupported(n) ==
    /\ request[n].state = "sent" /\ Fault
    /\ on_failure(n, "Permanent")
    /\ fatal' = TRUE
    /\ UNCHANGED <<cluster, mode, known, assigned, buffer, outstanding, polling, backoff,
                   stage, opened_for_close, forgot, calls, asked>>

Class(code) == IF code \in {"SessionNotFound", "InvalidEpoch"} THEN "Retry" ELSE "Permanent"

AnswerRefused(n) ==
    /\ request[n].state = "answered" /\ request[n].code # "None"
    /\ on_failure(n, Class(request[n].code))
    /\ UNCHANGED <<cluster, mode, known, assigned, buffer, outstanding, polling, backoff,
                   fatal, stage, opened_for_close, history>>

\* A partition's answer settles its acknowledgements: an acknowledgement
\* error, or the node does not lead it.
acknowledged_any(r) == r.present /\ r.ack_error = "None"

acknowledged(r) == r.present /\ r.ack_error = "None" /\ r.error = "None"

settle(n, r) ==
    /\ request' = [request EXCEPT ![n] = NoRequest]

on_fetch(n, cut) ==
    LET r == request[n]
        p == process(r.acquired, cut)
    IN  /\ r.state = "answered" /\ r.code = "None" /\ r.api = "ShareFetch"
        /\ settle(n, r)
        /\ IF \E o \in r.acquired : o >= cut THEN Call
           ELSE cut = Cardinality(Offsets) /\ UNCHANGED calls
        /\ session' = [session EXCEPT ![n] =
             [epoch |-> advance(@.epoch),
              holds |-> ~r.forgotten /\ (r.added \/ (@.holds /\ is_established(n)))]]
        /\ LET after == [book EXCEPT ![n] = Resolved(@, "in_flight")]
           IN  /\ book' = [after EXCEPT ![n] = add(@, p.acks)]
               /\ remaining' = [c \in Committers |->
                    IF remaining[c] = Idle THEN Idle
                    ELSE remaining[c] - entry_done(book, after, c)]
        /\ backoff' = IF ~r.present THEN backoff ELSE r.error # "None"
        /\ buffer' = IF p.records = <<>> THEN buffer
                     ELSE Append(buffer, [node |-> n, records |-> p.records])
        /\ known' = IF r.error = "None" THEN known ELSE leader
        /\ UNCHANGED <<cluster, mode, assigned, outstanding, polling, fatal, stage,
                       manager, opened_for_close, faults, forgot, asked>>

on_acknowledge(n) ==
    LET r == request[n]
    IN  /\ r.state = "answered" /\ r.code = "None" /\ r.api = "ShareAcknowledge"
        /\ settle(n, r)
        /\ session' = [session EXCEPT ![n] =
             IF closes(r) THEN NoSession ELSE [@ EXCEPT !.epoch = advance(@)]]
        /\ Record([book EXCEPT ![n] = Resolved(@, "in_flight")])
        /\ known' = IF r.error = "None" THEN known ELSE leader
        /\ manager' = Close(n)
        /\ UNCHANGED <<cluster, mode, assigned, buffer, outstanding, polling, backoff,
                       fatal, stage, opened_for_close, faults, forgot, calls, asked>>

------------------------------------------------------------------------------
(* The broker (src/testing: handlers.rs, state.rs). *)

\* The session the request leaves, and the error it is refused with.
check_share_session(s, r) ==
    IF r.epoch = INITIAL_EPOCH
    THEN IF r.acks # NoAcks THEN [session |-> s, code |-> "InvalidRequest"]
         ELSE [session |-> [epoch |-> 1, holds |-> r.added], code |-> "None"]
    ELSE IF s.epoch = INITIAL_EPOCH THEN [session |-> s, code |-> "SessionNotFound"]
    ELSE IF closes(r) THEN [session |-> NoSession, code |-> "None"]
    ELSE IF r.epoch # s.epoch THEN [session |-> s, code |-> "InvalidEpoch"]
    ELSE [session |-> [epoch |-> advance(s.epoch),
                       holds |-> (s.holds \/ r.added \/ (r.api = "ShareFetch" /\ r.acks # NoAcks))
                                 /\ ~r.forgotten],
          code |-> "None"]

After(state, kind) ==
    CASE kind = "Release" -> "available"
      [] kind = "Renew" -> state
      [] kind = "Accept" -> "accepted"
      [] OTHER -> "archived"

\* All of a partition's acknowledgements apply, or none.
held_by(r) == \A o \in DOMAIN r.acks : record[o] = "mine"

Applies(n, r) == leader = n /\ held_by(r)

apply_share_acks(n, r) ==
    [o \in Offsets |-> IF Applies(n, r) /\ o \in DOMAIN r.acks
                       THEN After(record[o], r.acks[o]) ELSE record[o]]

release_member(r, after) ==
    [o \in Offsets |-> IF closes(r) /\ after[o] = "mine" THEN "available" ELSE after[o]]

Lists(r) == r.added \/ r.acks # NoAcks

\* The records a fetch may acquire of those there are: the first ones.
acquire_share_records(n, r, holds, after) ==
    LET free == {o \in Offsets : after[o] = "available"}
    IN  IF r.api # "ShareFetch" \/ leader # n \/ free = {} \/ ~(Lists(r) \/ holds) THEN {{}}
        ELSE {S \in SUBSET free : S # {} /\ \A o \in S, q \in free : q < o => q \in S}

Acquired(after, acquired) ==
    [o \in Offsets |-> IF o \in acquired THEN "mine" ELSE after[o]]

\* The partition's part of the answer; absent when there is nothing to say.
Part(n, r, holds, acquired) ==
    LET listed == IF r.api = "ShareFetch" THEN Lists(r) \/ holds ELSE r.acks # NoAcks
    IN  [error |-> IF listed /\ leader # n THEN "NotLeader" ELSE "None",
         present |-> Lists(r) \/ acquired # {} \/ (listed /\ leader # n),
         acquired |-> acquired]

\* A node takes a request: its session, its acknowledgements, then the
\* records it acquires.  A fetch with nothing to answer is held.
Serve(n) ==
    LET r     == request[n]
        check == check_share_session(broker_session[n], r)
        after == release_member(r, apply_share_acks(n, r))
    IN  /\ r.state = "sent"
        /\ broker_session' = [broker_session EXCEPT ![n] = check.session]
        /\ IF check.code # "None"
           THEN /\ request' = [request EXCEPT ![n] =
                     [code |-> check.code] @@ [r EXCEPT !.state = "answered"]]
                /\ UNCHANGED record
           ELSE \E acquired \in acquire_share_records(n, r, check.session.holds, after) :
                  /\ record' = Acquired(after, acquired)
                  /\ request' = [request EXCEPT ![n] =
                       [code |-> "None", applied |-> Applies(n, r),
                        ack_error |-> IF leader = n /\ ~held_by(r) THEN "InvalidRecordState"
                                      ELSE "None"]
                       @@ Part(n, r, check.session.holds, acquired)
                       @@ [r EXCEPT !.state = IF r.wanted /\ acquired = {} /\ leader = n
                                              THEN "held" ELSE "answered"]]
        /\ UNCHANGED <<control, leader, stray, mode, known, assigned, buffer, outstanding, book,
                       remaining, polling, backoff, fatal, stage, session, manager,
                       opened_for_close, calls, faults, forgot, asked>>

\* The broker refuses the request for good, as an authorizer would.
Refuse(n) ==
    /\ request[n].state = "sent" /\ Fault
    /\ request' = [request EXCEPT ![n] = [code |-> "Denied"] @@ [@ EXCEPT !.state = "answered"]]
    /\ UNCHANGED <<cluster, mode, known, assigned, buffer, outstanding, book, remaining,
                   polling, backoff, fatal, stage, session, manager, opened_for_close,
                   forgot, calls, asked>>

\* A held fetch is answered: records became available, or the wait is over.
Answer(n) ==
    LET r == request[n]
        holds == broker_session[n].holds
    IN  /\ r.state = "held"
        /\ \E acquired \in acquire_share_records(n, r, holds, record) :
             /\ record' = Acquired(record, acquired)
             /\ request' = [request EXCEPT ![n] =
                  Part(n, r, holds, acquired) @@ [r EXCEPT !.state = "answered"]]
        /\ UNCHANGED <<control, leader, broker_session, stray, mode, known, assigned, buffer,
                       outstanding, book, remaining, polling, backoff, fatal, stage,
                       session, manager, opened_for_close, history>>

\* A request given up on arrives; nobody hears what it acquires.
ServeStray(n) ==
    LET r     == stray[n]
        check == check_share_session(broker_session[n], r)
        after == release_member(r, apply_share_acks(n, r))
    IN  /\ r # NoRequest
        /\ broker_session' = [broker_session EXCEPT ![n] = check.session]
        /\ IF check.code # "None" THEN UNCHANGED record
           ELSE \E acquired \in acquire_share_records(n, r, check.session.holds, after) :
                  record' = Acquired(after, acquired)
        /\ stray' = [stray EXCEPT ![n] = NoRequest]
        /\ UNCHANGED <<control, leader, mode, known, assigned, buffer, outstanding, book, remaining,
                       polling, backoff, fatal, stage, managing, history>>

\* An acquisition lock expires, and another member may be handed the record.
LockExpires(o) ==
    /\ record[o] = "mine" /\ Fault
    /\ \E s \in {"available", "other"} : record' = [record EXCEPT ![o] = s]
    /\ UNCHANGED <<control, leader, broker_session, stray, mode, known, assigned, buffer, outstanding,
                   book, remaining, polling, backoff, fatal, stage, managing, forgot,
                   calls, asked>>

OtherSettles(o) ==
    /\ record[o] = "other"
    /\ \E s \in {"available", "archived"} : record' = [record EXCEPT ![o] = s]
    /\ UNCHANGED <<control, leader, broker_session, stray, mode, known, assigned, buffer, outstanding,
                   book, remaining, polling, backoff, fatal, stage, managing, history>>

MoveLeader ==
    /\ Fault
    /\ \E n \in Nodes \ {leader} : leader' = n
    /\ UNCHANGED <<control, record, broker_session, stray, mode, known, assigned, buffer, outstanding,
                   book, remaining, polling, backoff, fatal, stage, managing, forgot,
                   calls, asked>>

\* A node loses its share sessions: it restarts, or evicts this one.
LoseSession(n) ==
    /\ broker_session[n] # NoSession /\ Fault
    /\ broker_session' = [broker_session EXCEPT ![n] = NoSession]
    /\ UNCHANGED <<control, record, leader, stray, mode, known, assigned, buffer, outstanding, book,
                   remaining, polling, backoff, fatal, stage, managing, forgot, calls, asked>>

------------------------------------------------------------------------------

ManagerStep(n) ==
    \/ FailMoved(n) \/ OpenSession(n) \/ SendAcks(n) \/ SendFetch(n) \/ SendLast(n)
    \/ Exit(n) \/ AnswerRefused(n) \/ on_acknowledge(n)
    \/ \E cut \in Offsets \cup {Cardinality(Offsets)} : on_fetch(n, cut)

Next ==
    \/ StartPoll \/ ScanBuffer \/ WakePoll \/ EndPoll
    \/ \E decoded \in 0..Len(poll.candidates) : TakeRecords(decoded)
    \/ \E o \in Offsets, kind \in Answers : acknowledge(o, kind)
    \/ \E c \in Committers : commit(c) \/ CommitEnds(c) \/ CommitTimesOut(c)
    \/ close_with \/ FinishClose \/ heartbeat \/ Refresh \/ BackoffEnds
    \/ \E n \in Nodes :
         \/ ManagerStep(n) \/ Serve(n) \/ Answer(n) \/ ServeStray(n) \/ LoseSession(n)
         \/ AbortManager(n) \/ RequestFails(n) \/ Unsupported(n) \/ Refuse(n)
    \/ \E o \in Offsets : LockExpires(o) \/ OtherSettles(o)
    \/ MoveLeader

Spec == Init /\ [][Next]_vars

------------------------------------------------------------------------------
(* Properties. *)

Acks == UNION {[S -> Kinds] : S \in SUBSET Offsets}

\* Every field keeps to its type: the book, the sessions and the requests.
TypeOK ==
    /\ record \in [Offsets -> {"available", "mine", "other", "accepted", "archived"}]
    /\ \A n \in Nodes :
         /\ book[n].pending \in Acks /\ book[n].in_flight \in Acks
         /\ book[n].waiters \subseteq Committers
         /\ session[n].epoch \in 0..I32_MAX /\ broker_session[n].epoch \in 0..I32_MAX
         /\ request[n].state \in {"none", "sent", "held", "answered"}
         /\ manager[n] \in {"running", "exited", "aborted"}
    /\ remaining \in [Committers -> -1..Cardinality(Nodes)]
    /\ DOMAIN outstanding \subseteq Offsets
    /\ poll.pc \in {"idle", "scan", "decode", "wait"}
    /\ stage \in {"open", "closing", "closed"}

\* The in-flight acknowledgements of a node are exactly those its request
\* carries (take and settle, acks.rs): none is left behind by an answer, which
\* would block every later acknowledgement of the partition.
InFlightIsCarried ==
    \A n \in Nodes : manager[n] # "aborted" =>
        book[n].in_flight = IF request[n] = NoRequest THEN NoAcks ELSE request[n].acks

\* A waiting commit counts the entries it is attached to, no more, no fewer
\* (attach, finish, entry_done): it neither returns early nor waits for nothing.
WaitersExact ==
    \A c \in Committers : remaining[c] # Idle =>
        remaining[c] = Cardinality({n \in Nodes : c \in book[n].waiters})

\* An acknowledgement reported as Ok is one the broker applied
\* (on_fetch, acknowledge, settle_unanswered in request_manager.rs).
OkIsApplied ==
    \A n \in Nodes :
        LET r == request[n]
        IN  r.state = "answered" /\ r.code = "None" /\ r.acks # NoAcks /\ acknowledged(r)
                => r.applied

\* A record the broker has archived as accepted by this member is one a poll
\* returned and, in explicit mode, the application accepted.
AcceptedOnRequest == \A o \in Offsets : record[o] = "accepted" => o \in asked

\* Nothing failed: every record the broker has locked for this member is in
\* the buffer, with the application, in the book or in an answer on its way.
LocksAccounted ==
    faults = 0 /\ ~forgot /\ stage = "open" =>
        \A o \in Offsets : record[o] = "mine" =>
            \/ o \in ToSet(Buffered) \/ o \in DOMAIN outstanding
            \/ \E n \in Nodes :
                 \/ o \in DOMAIN book[n].pending \cup DOMAIN book[n].in_flight
                 \/ request[n].state = "answered" /\ o \in request[n].acquired

\* Nothing failed: once every request manager has closed its session, the
\* broker holds nothing for the member, what was buffered or delivered included.
ClosedReleases ==
    faults = 0 /\ (\A n \in Nodes : manager[n] = "exited") =>
        \A o \in Offsets : record[o] # "mine"

\* A manager between requests always has a step for what is queued with it
\* (plan): none waits for a poll, a commit or an assignment that may not come.
PendingIsPlanned ==
    \A n \in Nodes : Planning(n) /\ HasPending(n) /\ ~fatal /\ stage # "closed" =>
        ENABLED ManagerStep(n)

\* Of two acknowledgements of a record the newer wins (add, retry in acks.rs):
\* a renewal is queued only for a record the application still holds. One that
\* came back from a failed request over the answer given meanwhile would keep
\* the lock and lose the answer. (A revocation forgets what is held and sends
\* what is queued: forgot. A fencing as well as the failed request would be a
\* second fault.)
NewerWins ==
    stage = "open" /\ ~forgot => \A n \in Nodes : \A o \in DOMAIN book[n].pending :
        book[n].pending[o] = "Renew" => o \in DOMAIN outstanding

\* The acknowledgement book is right: what is in flight is carried, a commit
\* waits for what it counts, what is queued has a step and is the last word.
BookExact ==
    TypeOK /\ InFlightIsCarried /\ WaitersExact /\ PendingIsPlanned /\ NewerWins

\* What is said of an acknowledgement is true: Ok is applied, accepted was asked.
AcksAreTrue == OkIsApplied /\ AcceptedOnRequest

\* No lock is forgotten while the consumer is open or left when it has closed.
LocksKept == LocksAccounted /\ ClosedReleases
==============================================================================
