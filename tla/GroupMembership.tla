-------------------------- MODULE GroupMembership --------------------------
(****************************************************************************)
(* One member of a consumer group: src/consumer/group/, rebalance/apply.rs    *)
(* and the calls of consumer/mod.rs that drive them, with the coordinator     *)
(* and the rest of the group (one peer running the same protocol).           *)
(*                                                                          *)
(* The tasks are the application's poll and its unsubscribe/subscribe, the    *)
(* heartbeat task, the detached join round of the classic protocol, and the   *)
(* leave the heartbeat task makes when the application stops polling.  They   *)
(* share GroupCoordinator's fields; a task runs one synchronous section at a  *)
(* time and anything may happen at its awaits.  Requests to the coordinator   *)
(* share one connection, answered in order.                                  *)
(* max_poll_interval is measured from poll's entry, so the leave may come in    *)
(* the middle of a poll or an unsubscribe.                                    *)
(*                                                                          *)
(* generation_id and member_epoch are one field: each protocol uses one.      *)
(* The application makes one call at a time, and the lost and revoked          *)
(* callbacks take no call of their own.  Not here: Dead                      *)
(* (UNRELEASED_INSTANCE_ID), non-retriable heartbeat errors, the commit of    *)
(* auto_commit_interval, wakeup and close, whose leave is unsubscribe's.      *)
(****************************************************************************)
EXTENDS Assignor

CONSTANTS
    Topics, Width,      \* the topics, numbers, and the partitions of each
    Kinds,              \* pairs: the protocol, and whether the member is static
    Unresolved,         \* topics whose ids the metadata does not know at first
    MaxGenerations,     \* bound, for each protocol: generations, or group epochs
    MaxTroubles         \* bound: lost connections, expired sessions, moves of the
                        \* coordinator, dropped polls, unsubscribes, poll expiries

ASSUME GroupAssumption ==
    /\ Topics \subseteq Nat /\ Width \in Nat /\ Unresolved \subseteq Topics
    /\ Kinds \subseteq {"Eager", "Cooperative", "Consumer"} \X BOOLEAN
    /\ \A kind \in Kinds : MaxGenerations[kind[1]] \in Nat
    /\ MaxTroubles \in Nat

Partitions == Topics \X (0..(Width - 1))
NoNode == 0
NoId == 0
Absent == {<<0, 0>>}        \* a null list of partitions
NoAnswer == [code |-> "none"]
Nobody == "nobody"

VARIABLES
    protocol, static,
    member,         \* GroupCoordinator: inner, flags, target and owned sets
    assigned,       \* SubscriptionState: the partitions the consumer fetches
    subscribed,     \* SubscriptionState::subscription is not empty
    call,           \* where poll, app and leave (the heartbeat task's) are
    round,          \* the detached join round
    hb, late,       \* the heartbeat task, and a stopped one with a request out
    queue,          \* requests written to the coordinator and not yet served
    inbox,          \* answers the requesters have not yet taken
    coord,          \* the coordinator
    peer, theirs,   \* the peer is in the group; the partitions it consumes
    resolved,       \* topics whose ids the metadata resolves
    overdue,        \* the coordinator expired the member, which has not noticed
    troubles,
    strays          \* history: which of the hazards below have happened

vars == <<protocol, static, member, assigned, subscribed, call, round, hb, late, queue,
          inbox, coord, peer, theirs, resolved, overdue, troubles, strays>>
clientVars == <<member, assigned, subscribed, call, round, hb, late, overdue>>
groupVars == <<coord, peer, theirs>>
fixed == <<protocol, static>>

Classic == protocol # "Consumer"
Cooperative == protocol = "Cooperative"

Requesters == {"poll", "app", "leave", "round", "hb", "late"}
Callers == {"poll", "app", "leave"}
AtRest == [pc |-> "idle", revoked |-> {}, added |-> {}, then |-> "idle", report |-> {}]
NoTask == [pc |-> "none", full |-> FALSE, again |-> FALSE]
NoRound == [pc |-> "none", stale |-> FALSE, restart |-> FALSE]

Init ==
    /\ \E kind \in Kinds : protocol = kind[1] /\ static = kind[2]
    /\ member = [state |-> "Unjoined", id |-> NoId,
                 gen |-> IF protocol = "Consumer" THEN 0 ELSE -1, assignment |-> {},
                 target |-> {}, owned |-> {}, topics |-> TRUE, addr |-> NoNode,
                 node |-> NoNode, running |-> FALSE, rebalance |-> FALSE,
                 invalidated |-> FALSE, lost |-> FALSE, changed |-> FALSE,
                 exceeded |-> FALSE, pending |-> NoAnswer]
    /\ assigned = {} /\ subscribed = TRUE
    /\ call = [c \in Callers |-> AtRest]
    /\ round = NoRound /\ hb = NoTask /\ late = NoTask
    /\ queue = <<>> /\ inbox = [r \in Requesters |-> NoAnswer]
    /\ coord = [node |-> 1, gen |-> 0, phase |-> "Stable", members |-> <<>>,
                target |-> Partitions, promised |-> NoId, plan |-> {}]
    /\ peer \in BOOLEAN
    /\ theirs = IF peer THEN Partitions ELSE {}
    /\ resolved = Topics \ Unresolved
    /\ overdue = FALSE /\ troubles = 0 /\ strays = {}

------------------------------------------------------------------------------
(* Helpers of GroupCoordinator. *)

reset_member_identity(m) == [m EXCEPT !.id = NoId, !.gen = IF Classic THEN -1 ELSE 0]

reset(m) ==
    [reset_member_identity(m) EXCEPT
        !.pending = NoAnswer, !.state = "Unjoined", !.assignment = {}, !.owned = {},
        !.target = {}, !.addr = NoNode, !.node = NoNode]

\* Keeps the member id; the KIP-848 epoch is left as it is.
reset_for_static_leave(m) ==
    [m EXCEPT !.pending = NoAnswer, !.gen = IF Classic THEN -1 ELSE @,
              !.state = "Unjoined", !.assignment = {}, !.owned = {}, !.target = {},
              !.addr = NoNode, !.node = NoNode]

reset_for_kip848_fencing(m) ==
    [m EXCEPT !.pending = NoAnswer, !.gen = 0, !.state = "Unjoined",
              !.assignment = {}, !.target = {}, !.owned = {}]

drop_coordinator(m) == [m EXCEPT !.addr = NoNode]
request_rejoin(m) == [m EXCEPT !.state = "PreparingRebalance"]

\* needs_rejoin takes the flag; only the classic protocol acts on it.
Asked(m) ==
    [m EXCEPT !.rebalance = FALSE,
              !.state = IF m.rebalance /\ Classic THEN "PreparingRebalance" ELSE @]
needs_rejoin(m) == Asked(m).state \in {"Unjoined", "PreparingRebalance"}

\* get_coordinator_connection: a coordinator that moved knows no member.
find_coordinator(m) ==
    LET found == [m EXCEPT !.addr = coord.node, !.node = coord.node]
    IN  IF m.addr # NoNode THEN m
        ELSE IF m.node \in {NoNode, coord.node} THEN found
        ELSE request_rejoin(reset_member_identity(found))

\* What a member reports it owns while an assignment is yet to be applied.
Applying == call["poll"].pc \in {"committing", "revoking", "assigning"}
Reported ==
    IF Applying \/ member.changed \/ member.pending.code = "None"
    THEN strays \cup {"hasty"} ELSE strays

\* Written by a task for member m, as found; `id` and `gen` as it read them.
Request(by, kind, m, id, gen, owned) ==
    [by |-> by, kind |-> kind, node |-> m.addr, id |-> id, gen |-> gen, owned |-> owned,
     topics |-> m.topics]

Send(q, by, kind, m, owned) == Append(q, Request(by, kind, m, m.id, m.gen, owned))

\* A request nobody waits for any more.
Orphaned(by) ==
    [k \in DOMAIN queue |->
        IF queue[k].by = by THEN [queue[k] EXCEPT !.by = Nobody] ELSE queue[k]]

\* A stopped task that waits for an answer still handles it.
Waiting == hb.pc \notin {"none", "idle"}

Replaced(task, q, box) ==
    /\ Waiting => late.pc = "none"     \* bound: one stopped task at a time
    /\ hb' = task
    /\ late' = IF Waiting THEN hb ELSE late
    /\ queue' = [k \in DOMAIN q |->
                    IF q[k].by = "hb" THEN [q[k] EXCEPT !.by = "late"] ELSE q[k]]
    /\ inbox' = IF Waiting THEN [box EXCEPT !["late"] = box["hb"], !["hb"] = NoAnswer]
                ELSE box

stop_heartbeat_task(q, box) == Replaced(NoTask, q, box)
Stopped(m) == [m EXCEPT !.running = FALSE]

\* A new task begins with a full heartbeat.
start_heartbeat_task(box) ==
    Replaced([NoTask EXCEPT !.pc = "idle", !.full = TRUE], queue, box)
Started(m) == [m EXCEPT !.running = TRUE, !.rebalance = FALSE, !.invalidated = FALSE]

\* The resolved part of the target becomes the assignment to apply.
resolve_target_assignment(m, names) ==
    LET assignment == {tp \in m.target : tp[1] \in names}
    IN  IF m.assignment = assignment /\ m.state = "Stable" THEN m
        ELSE [m EXCEPT !.assignment = assignment, !.state = "Stable", !.changed = TRUE]

Unresolvable(m) == \E tp \in m.target : tp[1] \notin resolved

apply_heartbeat_response(m, answer) ==
    LET n == [m EXCEPT !.id = answer.id, !.gen = answer.gen]
    IN  IF answer.assignment # Absent
        THEN resolve_target_assignment([n EXCEPT !.target = answer.assignment], resolved)
        ELSE IF n.target # {} THEN resolve_target_assignment(n, resolved)
        ELSE IF answer.gen > 0 /\ n.state # "Stable"
             THEN [n EXCEPT !.state = "Stable", !.changed = TRUE]
             ELSE n

Assign(partitions) ==
    /\ assigned' = partitions
    /\ overdue' = (overdue /\ partitions # {})

At(c, place) == call' = [call EXCEPT ![c] = place]
Goto(c, pc) == At(c, [AtRest EXCEPT !.pc = pc])
Return(c) == At(c, AtRest)

Trouble == troubles < MaxTroubles /\ troubles' = troubles + 1

\* The application makes one call at a time.
Free == call["poll"].pc = "idle" /\ call["app"].pc = "idle"

Take(r) == inbox' = [inbox EXCEPT ![r] = NoAnswer]
Answered(r) == inbox[r].code # "none"

\* A member without an id makes one up, or the coordinator does.
Fresh ==
    LET used == DOMAIN coord.members \cup {coord.promised, member.id}
                \cup {queue[k].id : k \in DOMAIN queue}
    IN  CHOOSE i \in 1..10 : i \notin used /\ \A j \in 1..(i - 1) : j \in used

WithId(m) == IF m.id = NoId THEN [m EXCEPT !.id = Fresh] ELSE m

------------------------------------------------------------------------------
(* Giving partitions up and taking new ones.  The parts of poll below run      *)
(* from one await to the next; each says what the rest of poll does with `m`. *)

set_owned(m, owned) == IF Classic THEN [m EXCEPT !.owned = owned] ELSE m

\* commit_positions before the listener; it may find it cannot commit.
Revoking(c, m, revoked, added, then) ==
    LET place == [AtRest EXCEPT !.revoked = revoked, !.added = added, !.then = then]
        n == find_coordinator(m)
        gen == IF Classic THEN m.gen ELSE n.gen
    IN  IF m.gen < 0 \/ (Classic /\ round.pc # "none")
        THEN /\ At(c, [place EXCEPT !.pc = "revoking"])
             /\ member' = m /\ UNCHANGED queue
        ELSE /\ At(c, [place EXCEPT !.pc = "committing"])
             /\ member' = n
             /\ queue' = Append(queue, Request(c, "commit", n, m.id, gen, Absent))

Taking_kept(m, revoked, added, then) ==
    /\ At("poll", [AtRest EXCEPT !.pc = "assigning", !.revoked = revoked, !.then = then])
    /\ Assign(assigned \cup added)
    /\ member' = set_owned(m, assigned')
    /\ UNCHANGED queue

\* apply_assignment without its commit and its revocation.
Taking(m, revoked, added, then) ==
    /\ At("poll", [AtRest EXCEPT !.pc = "assigning", !.revoked = revoked, !.then = then])
    /\ Assign((assigned \ revoked) \cup added)
    /\ member' = set_owned(m, assigned')
    /\ UNCHANGED queue

apply_assignment(m, new, then) ==
    IF assigned \subseteq new THEN Taking(m, {}, new \ assigned, then)
    ELSE /\ Revoking("poll", m, assigned \ new, new \ assigned, then)
         /\ UNCHANGED <<assigned, overdue>>

\* A fenced commit asks for a rejoin; a retriable failure may be retried.
CommitAnswered(c) ==
    /\ call[c].pc = "committing" /\ Answered(c)
    /\ Take(c)
    /\ LET code == inbox[c].code
           m == CASE code = "Fenced" /\ Classic -> request_rejoin(member)
                  [] code = "NotCoordinator" -> drop_coordinator(member)
                  [] OTHER -> member
       IN  \/ /\ At(c, [call[c] EXCEPT !.pc = "revoking"])
              /\ member' = m /\ UNCHANGED queue
           \/ /\ code \in {"NotCoordinator", "Network"}
              /\ Revoking(c, m, call[c].revoked, call[c].added, call[c].then)
    /\ UNCHANGED <<fixed, assigned, subscribed, round, hb, late, groupVars, resolved,
                   overdue, troubles, strays>>

------------------------------------------------------------------------------
(* poll under the classic protocol. *)

Spawned(restart) ==
    IF round.pc # "none" THEN round ELSE [NoRound EXCEPT !.pc = "join", !.restart = restart]

Parked(m) ==
    /\ member' = m
    /\ UNCHANGED <<assigned, overdue, queue>>

\* An eager member gives everything up before it rejoins.
Rejoin(m) ==
    IF round.pc # "none" \/ ~needs_rejoin(m)
    THEN /\ Goto("poll", IF round.pc # "none" THEN "await" ELSE "serve")
         /\ Parked(m) /\ UNCHANGED round
    ELSE IF Cooperative \/ assigned = {}
    THEN /\ Goto("poll", "await")
         /\ Parked(Asked(m))
         /\ round' = Spawned(TRUE)
    ELSE /\ Revoking("poll", Asked(m), assigned, {}, "spawn")
         /\ UNCHANGED <<round, assigned, overdue>>

\* A failed round is asked for again.
apply_join(m, then) ==
    LET n == [m EXCEPT !.pending = NoAnswer]
    IN  IF m.pending.code = "None"
        THEN apply_assignment(n, m.pending.assignment, then) /\ UNCHANGED round
        ELSE IF then = "rejoin" THEN Rejoin(request_rejoin(n))
        ELSE Goto("poll", then) /\ Parked(request_rejoin(n)) /\ UNCHANGED round

\* The round ended or the budget did; nothing is fetched without an outcome.
await_rejoin ==
    /\ call["poll"].pc = "await"
    /\ IF member.pending.code # "none" THEN apply_join(member, "serve")
       ELSE Return("poll") /\ Parked(member) /\ UNCHANGED round
    /\ UNCHANGED <<fixed, subscribed, hb, late, inbox, groupVars, resolved, troubles, strays>>

------------------------------------------------------------------------------
(* poll under KIP-848: the join is a full heartbeat of its own. *)

\* consumer_group_heartbeat: the coordinator is found first, `owned` is older.
Joining(m, owned) ==
    /\ At("poll", [AtRest EXCEPT !.pc = "joining", !.report = owned])
    /\ member' = WithId(find_coordinator(m))
    /\ queue' = Send(queue, "poll", "heartbeat", member', owned)

Changed(m) ==
    LET n == [m EXCEPT !.changed = FALSE]
    IN  IF m.changed THEN apply_assignment(n, m.assignment, "serve")
        ELSE Goto("poll", "serve") /\ Parked(n)

join_consumer_group(m) ==
    IF needs_rejoin(m)
    THEN /\ Joining(Asked(m), IF m.gen = 0 THEN {} ELSE m.owned)
         /\ UNCHANGED <<assigned, overdue>>
    ELSE Changed(Asked(m))

\* What a refused heartbeat does to the member.
Refused(m, code) ==
    CASE code = "Fenced" -> [reset_for_kip848_fencing(m) EXCEPT !.lost = TRUE]
      [] code = "NotCoordinator" -> drop_coordinator(m)
      [] OTHER -> m

\* The heartbeat task starts once the answer is applied, or not at all.
JoinAnswered ==
    /\ call["poll"].pc = "joining" /\ Answered("poll")
    /\ LET answer == inbox["poll"]
           m == apply_heartbeat_response(member, answer)
           refresh == answer.assignment # Absent /\ Unresolvable(m)
       IN  \/ /\ answer.code = "None"
              /\ IF refresh
                 THEN /\ member' = m
                      /\ Take("poll") /\ Goto("poll", "refresh")
                      /\ UNCHANGED <<hb, late, queue>>
                 ELSE /\ member' = Started(m)
                      /\ start_heartbeat_task([inbox EXCEPT !["poll"] = NoAnswer])
                      /\ Goto("poll", "joined")
           \/ /\ answer.code # "None"
              /\ Take("poll")
              /\ \/ Return("poll") /\ member' = Refused(member, answer.code) /\ UNCHANGED queue
                 \/ /\ answer.code = "NotCoordinator"
                    /\ Joining(Refused(member, answer.code), call["poll"].report)
              /\ UNCHANGED <<hb, late>>
    /\ UNCHANGED <<fixed, assigned, subscribed, round, groupVars, resolved, overdue,
                   troubles, strays>>

\* The metadata refresh for topic ids, which may or may not name them.
Refreshed == resolved' \in {resolved, Topics}

JoinRefreshed ==
    /\ call["poll"].pc = "refresh"
    /\ Refreshed
    /\ member' = Started(resolve_target_assignment(member, resolved'))
    /\ start_heartbeat_task(inbox)
    /\ Goto("poll", "joined")
    /\ UNCHANGED <<fixed, assigned, subscribed, round, groupVars, overdue, troubles, strays>>

take_assignment_changed ==
    /\ call["poll"].pc = "joined"
    /\ Changed(member)
    /\ UNCHANGED <<fixed, subscribed, round, hb, late, inbox, groupVars, resolved,
                   troubles, strays>>

------------------------------------------------------------------------------
(* poll: maintain_group. *)

\* Forgetting the membership a heartbeat found gone.
take_lost(m) ==
    LET n == IF ~m.invalidated THEN m
             ELSE IF Classic THEN [reset_member_identity(m) EXCEPT !.state = "Unjoined"]
             ELSE reset_for_kip848_fencing(m)
    IN  [n EXCEPT !.invalidated = FALSE, !.lost = FALSE]

rejoin_after_expiry(m) ==
    IF m.exceeded THEN [m EXCEPT !.exceeded = FALSE, !.state = "Unjoined",
                                 !.gen = IF Classic THEN @ ELSE 0]
    ELSE m

Gone == member.exceeded \/ member.invalidated \/ member.lost

\* The partitions of a membership that is gone are dropped before anything else.
lose_partitions ==
    /\ Free /\ Gone
    /\ Assign({})
    /\ member' = take_lost(rejoin_after_expiry(set_owned(member, {})))
    /\ strays' = IF round.pc = "none" /\ (member.state # "Stable" \/ member.exceeded)
                 THEN strays ELSE strays \cup {"outlived"}
    /\ UNCHANGED <<fixed, subscribed, call, round, hb, late, queue, inbox, groupVars,
                   resolved, troubles>>

maintain_group ==
    /\ Free /\ ~Gone
    /\ IF ~subscribed THEN Goto("poll", "serve") /\ Parked(member) /\ UNCHANGED round
       ELSE IF ~Classic THEN join_consumer_group(member) /\ UNCHANGED round
       ELSE IF member.pending.code # "none" THEN apply_join(member, "rejoin")
       ELSE Rejoin(member)
    /\ UNCHANGED <<fixed, subscribed, hb, late, inbox, groupVars, resolved, troubles, strays>>

\* The listener has run: the revoked partitions go and the new ones come.
Revoked ==
    /\ call["poll"].pc = "revoking"
    /\ LET place == call["poll"]
       IN  IF place.then # "spawn"
           THEN Taking(member, place.revoked, place.added, place.then) /\ UNCHANGED round
           ELSE /\ Assign(assigned \ place.revoked)
                /\ member' = set_owned(member, {})
                /\ round' = Spawned(TRUE)
                /\ Goto("poll", "await") /\ UNCHANGED queue
    /\ UNCHANGED <<fixed, subscribed, hb, late, inbox, groupVars, resolved, troubles, strays>>

\* on_partitions_assigned has run.  A cooperative member that gave something
\* up rejoins; a KIP-848 member reports what it owns now.
acknowledge_assignment ==
    /\ call["poll"].pc = "assigning"
    /\ IF Classic
       THEN LET m == IF Cooperative /\ call["poll"].revoked # {}
                     THEN request_rejoin(member) ELSE member
            IN  /\ IF call["poll"].then = "rejoin" THEN Rejoin(m)
                   ELSE Goto("poll", "serve") /\ Parked(m) /\ UNCHANGED round
                /\ UNCHANGED hb
       ELSE /\ Goto("poll", "serve")
            /\ Parked([member EXCEPT !.owned = member.target])
            /\ hb' = CASE hb.pc = "none" -> hb
                       [] hb.pc = "idle" -> [hb EXCEPT !.full = TRUE]
                       [] OTHER -> [hb EXCEPT !.again = TRUE]
            /\ UNCHANGED round
    /\ UNCHANGED <<fixed, subscribed, late, inbox, groupVars, resolved, troubles, strays>>

\* Records of the assigned partitions are fetched and handed out.
Served ==
    /\ call["poll"].pc = "serve"
    /\ Return("poll")
    /\ UNCHANGED <<fixed, member, assigned, subscribed, round, hb, late, queue, inbox,
                   groupVars, resolved, overdue, troubles, strays>>

------------------------------------------------------------------------------
(* The detached join round. *)

join_group ==
    /\ round.pc = "join"
    /\ member' = [find_coordinator(member) EXCEPT !.state = "Joining"]
    /\ queue' = Send(queue, "round", "join", member', IF Cooperative THEN member.owned ELSE {})
    /\ round' = [round EXCEPT !.pc = "joining"]
    /\ strays' = IF Cooperative THEN Reported ELSE strays
    /\ UNCHANGED <<fixed, assigned, subscribed, call, hb, late, inbox, groupVars, resolved,
                   overdue, troubles>>

\* The first answer only names the member; the same request goes again.
MemberIdRequired ==
    /\ round.pc = "joining" /\ inbox["round"].code = "MemberIdRequired"
    /\ member' = [member EXCEPT !.id = inbox["round"].id]
    /\ queue' = Append(queue, [inbox["round"].request EXCEPT !.id = inbox["round"].id])
    /\ Take("round")
    /\ UNCHANGED <<fixed, assigned, subscribed, call, round, hb, late, groupVars, resolved,
                   overdue, troubles, strays>>

\* sync_group follows at once.
Joined ==
    /\ round.pc = "joining" /\ inbox["round"].code = "None"
    /\ LET m == [member EXCEPT !.id = inbox["round"].id, !.gen = inbox["round"].gen,
                               !.state = "AwaitingSync"]
       IN  /\ member' = find_coordinator(m)
           /\ queue' = Send(queue, "round", "sync", member', Absent)
    /\ round' = [round EXCEPT !.pc = "syncing"]
    /\ Take("round")
    /\ UNCHANGED <<fixed, assigned, subscribed, call, hb, late, groupVars, resolved,
                   overdue, troubles, strays>>

\* Parked for poll, unless the member left meanwhile.
RoundEnds(m, outcome) ==
    /\ round' = NoRound
    /\ strays' = IF round.stale THEN strays \cup {"outlived"} ELSE strays
    /\ IF ~round.stale /\ outcome.code = "None" /\ round.restart
       THEN /\ start_heartbeat_task([inbox EXCEPT !["round"] = NoAnswer])
            /\ member' = [Started(m) EXCEPT !.pending = outcome]
       ELSE /\ Take("round")
            /\ member' = IF round.stale THEN m ELSE [m EXCEPT !.pending = outcome]
            /\ UNCHANGED <<hb, late, queue>>

Synced ==
    /\ round.pc = "syncing" /\ inbox["round"].code = "None"
    /\ LET assignment == inbox["round"].assignment
       IN  RoundEnds([member EXCEPT !.assignment = assignment, !.state = "Stable"],
                     [code |-> "None", assignment |-> assignment])
    /\ UNCHANGED <<fixed, assigned, subscribed, call, groupVars, resolved, overdue,
                   troubles>>

\* A member or generation the coordinator forgot registers afresh.
RoundRefused ==
    /\ round.pc \in {"joining", "syncing"} /\ Answered("round")
    /\ inbox["round"].code \notin {"None", "MemberIdRequired"}
    /\ LET code == inbox["round"].code
           m == CASE code = "Fenced" -> reset_member_identity(member)
                  [] code = "NotCoordinator" -> drop_coordinator(member)
                  [] OTHER -> member
           unjoined == [m EXCEPT !.state = "Unjoined"]
       IN  \/ RoundEnds(unjoined, [code |-> "Failed", assignment |-> {}])
           \/ /\ code = "NotCoordinator"
              /\ round' = [round EXCEPT !.pc = "join"]
              /\ member' = unjoined
              /\ Take("round")
              /\ UNCHANGED <<hb, late, queue, strays>>
    /\ UNCHANGED <<fixed, assigned, subscribed, call, groupVars, resolved, overdue,
                   troubles>>

------------------------------------------------------------------------------
(* The heartbeat task; `late` is a stopped one. *)

Task(t) == IF t = "hb" THEN hb ELSE late
SetTask(t, task) ==
    IF t = "hb" THEN hb' = task /\ UNCHANGED <<late, strays>>
    ELSE late' = task /\ strays' = strays \cup {"outlived"} /\ UNCHANGED hb
Over(t, task) == IF t = "hb" THEN task ELSE NoTask


\* No classic heartbeat while a round is in flight.  What a full one reports
\* is read before the coordinator is found.
send_heartbeat ==
    /\ hb.pc = "idle"
    /\ \/ /\ ~member.running
          /\ hb' = NoTask
          /\ UNCHANGED <<member, queue, strays>>
       \/ /\ member.running /\ (Classic => round.pc = "none")
          /\ hb' = [hb EXCEPT !.pc = "sent"]
          /\ member' = IF Classic THEN find_coordinator(member)
                       ELSE WithId(find_coordinator(member))
          /\ queue' = Send(queue, "hb", "heartbeat", member',
                           IF ~Classic /\ hb.full THEN member.owned ELSE Absent)
          /\ strays' = IF ~Classic /\ hb.full THEN Reported ELSE strays
    /\ UNCHANGED <<fixed, assigned, subscribed, call, round, late, inbox, groupVars, resolved,
                   overdue, troubles>>

Invalidated(m) ==
    [m EXCEPT !.invalidated = TRUE, !.rebalance = TRUE, !.running = FALSE]

\* A cooperative member rejoins in the background at once.
HeartbeatAnswered(t) ==
    /\ Classic /\ Task(t).pc = "sent" /\ Answered(t)
    /\ Take(t)
    /\ LET code == inbox[t].code
       IN  /\ member' = CASE code = "Rebalance" /\ ~Cooperative ->
                                [member EXCEPT !.rebalance = TRUE]
                           [] code = "Fenced" -> Invalidated(member)
                           [] code \in {"NotCoordinator", "Network"} ->
                                drop_coordinator(member)
                           [] OTHER -> member
           /\ SetTask(t, IF code = "Fenced" THEN NoTask
                         ELSE Over(t, [hb EXCEPT !.pc = "idle"]))
           /\ IF code = "Rebalance" /\ Cooperative THEN round' = Spawned(FALSE)
              ELSE UNCHANGED round
    /\ UNCHANGED <<fixed, assigned, subscribed, call, queue, groupVars, resolved, overdue,
                   troubles>>

Rested(task, full) ==
    [task EXCEPT !.pc = "idle", !.full = full \/ task.again, !.again = FALSE]

consumer_group_heartbeat(t) ==
    /\ ~Classic /\ Task(t).pc = "sent" /\ Answered(t)
    /\ Take(t)
    /\ LET answer == inbox[t]
           m == apply_heartbeat_response(member, answer)
       IN  \/ /\ answer.code = "None"
              /\ member' = m
              /\ SetTask(t, IF answer.assignment # Absent /\ Unresolvable(m)
                            THEN [Task(t) EXCEPT !.pc = "refresh"]
                            ELSE Over(t, Rested(hb, FALSE)))
           \/ /\ answer.code = "Fenced"
              /\ member' = Invalidated(Refused(member, "Fenced"))
              /\ SetTask(t, NoTask)
           \/ /\ answer.code \in {"NotCoordinator", "Network"}
              /\ member' = drop_coordinator(member)
              /\ SetTask(t, Over(t, Rested(hb, TRUE)))
    /\ UNCHANGED <<fixed, assigned, subscribed, call, round, queue, groupVars, resolved,
                   overdue, troubles>>

HeartbeatRefreshed(t) ==
    /\ Task(t).pc = "refresh"
    /\ Refreshed
    /\ member' = resolve_target_assignment(member, resolved')
    /\ SetTask(t, Over(t, Rested(hb, FALSE)))
    /\ UNCHANGED <<fixed, assigned, subscribed, call, round, queue, inbox, groupVars, overdue,
                   troubles>>

------------------------------------------------------------------------------
(* Leaving: unsubscribe, and the heartbeat task when poll is overdue. *)

\* What follows the leave: clear_state for unsubscribe.
Left(c) ==
    /\ Return(c)
    /\ IF c = "app" THEN Assign({}) /\ subscribed' = FALSE
       ELSE UNCHANGED <<assigned, overdue, subscribed>>

\* leave_group_with from member m, up to the request's answer.
leave_group(c, m, kept) ==
    /\ round' = [round EXCEPT !.stale = round.pc # "none"]
    /\ LET n == [m EXCEPT !.pending = NoAnswer]
           found == find_coordinator(n)
           gen == IF Classic THEN found.gen ELSE IF static THEN -2 ELSE -1
           leaving == [found EXCEPT !.state = "Leaving", !.gen = gen]
           q == Send(queue, c, "leave", leaving, Absent)
       IN  IF m.state = "Unjoined" \/ (static /\ Classic)
           THEN /\ stop_heartbeat_task(queue, inbox)
                /\ member' = Stopped(IF m.state = "Unjoined" THEN n
                                     ELSE reset_for_static_leave(n))
                /\ Left(c)
           ELSE /\ IF Classic
                   THEN member' = leaving /\ queue' = q /\ UNCHANGED <<hb, late, inbox>>
                   ELSE member' = Stopped(leaving) /\ stop_heartbeat_task(q, inbox)
                /\ Goto(c, "leaving")
                /\ Assign(kept) /\ UNCHANGED subscribed

\* Answered or timed out; a late answer finds nobody.
LeaveEnds(c) ==
    /\ call[c].pc = "leaving"
    /\ LET q == Orphaned(c)
           box == [inbox EXCEPT ![c] = NoAnswer]
       IN  IF Classic
           THEN stop_heartbeat_task(q, box) /\ member' = Stopped(reset(member))
           ELSE /\ member' = reset(member)
                /\ queue' = q /\ inbox' = box /\ UNCHANGED <<hb, late>>
    /\ Left(c)
    /\ strays' = IF round.pc = "none" /\ member.state = "Leaving" THEN strays
                 ELSE strays \cup {"outlived"}
    /\ UNCHANGED <<fixed, round, groupVars, resolved, troubles>>

\* max_poll_interval went by since poll was last entered: the heartbeat task
\* leaves, whatever the application is doing: between two calls, or waiting
\* inside one for its own rebalance callback, a commit or a join.
PollExpires ==
    /\ hb.pc = "idle" /\ member.running
    /\ call["leave"].pc = "idle"       \* bound: one such leave at a time
    /\ Trouble
    /\ leave_group("leave", Stopped([member EXCEPT !.exceeded = TRUE]), assigned)
    /\ UNCHANGED <<fixed, groupVars, resolved, strays>>

\* set_subscription: a member in the group must tell the coordinator.
set_subscription(m, topics) ==
    IF m.topics # topics /\ m.state = "Stable"
    THEN request_rejoin([m EXCEPT !.topics = topics,
                                  !.running = IF Classic THEN @ ELSE FALSE])
    ELSE [m EXCEPT !.topics = topics]

\* revoke_all_in_group, then the leave.
unsubscribe ==
    /\ Free /\ subscribed
    /\ Trouble
    /\ IF assigned = {} THEN leave_group("app", set_subscription(member, FALSE), {})
       ELSE /\ Revoking("app", member, assigned, {}, "unsubscribe")
            /\ UNCHANGED <<assigned, subscribed, round, hb, late, inbox, overdue>>
    /\ UNCHANGED <<fixed, groupVars, resolved, strays>>

Unsubscribed ==
    /\ call["app"].pc = "revoking"
    /\ leave_group("app", set_subscription(set_owned(member, {}), FALSE),
                   assigned \ call["app"].revoked)
    /\ UNCHANGED <<fixed, groupVars, resolved, troubles, strays>>

\* The metadata is refreshed before the coordinator learns the topics.
subscribe ==
    /\ Free /\ ~subscribed
    /\ subscribed' = TRUE
    /\ Goto("app", "subscribing")
    /\ UNCHANGED <<fixed, member, assigned, round, hb, late, queue, inbox, groupVars,
                   resolved, overdue, troubles, strays>>

\* A classic member that owns nothing joins at once.
SubscribeJoins ==
    /\ call["app"].pc = "subscribing"
    /\ Return("app")
    /\ LET m == set_subscription(member, TRUE)
           now == Classic /\ assigned = {}
       IN  /\ member' = IF now THEN Asked(m) ELSE m
           /\ round' = IF now /\ needs_rejoin(m) THEN Spawned(TRUE) ELSE round
           /\ IF ~Classic /\ m.state # member.state THEN stop_heartbeat_task(queue, inbox)
              ELSE UNCHANGED <<hb, late, queue, inbox>>
    /\ UNCHANGED <<fixed, assigned, subscribed, groupVars, resolved, overdue, troubles, strays>>

\* poll is dropped at an await: while it waits, or also while it applies.
Drop ==
    /\ Trouble
    /\ call["poll"].pc \notin {"idle", "serve", "joined"}
    /\ strays' = IF call["poll"].pc \in {"await", "joining"} THEN strays
                 ELSE strays \cup {"dropped"}
    /\ Return("poll")
    /\ Take("poll")
    /\ queue' = Orphaned("poll")
    /\ UNCHANGED <<fixed, member, assigned, subscribed, round, hb, late, groupVars, resolved,
                   overdue>>

------------------------------------------------------------------------------
(* The coordinator and the peer. *)

\* The answer reaches its requester, or is lost with the connection and every
\* request behind it.
Reply(answer) ==
    LET e == Head(queue)
        waiting == {queue[k].by : k \in DOMAIN queue}
    IN  \/ /\ queue' = Tail(queue)
           /\ inbox' = IF e.by = Nobody THEN inbox ELSE [inbox EXCEPT ![e.by] = answer]
           /\ UNCHANGED <<troubles, strays>>
        \/ /\ Trouble
           /\ queue' = <<>>
           /\ inbox' = [r \in Requesters |->
                            IF r \in waiting THEN [code |-> "Network"] ELSE inbox[r]]
           /\ strays' = IF ~Classic /\ e.kind = "heartbeat" THEN strays \cup {"unheard"}
                        ELSE strays

Serving(kind) ==
    queue # <<>> /\ Head(queue).node = coord.node /\ Head(queue).kind = kind

Idle == UNCHANGED <<fixed, clientVars, resolved>>

ServeNotCoordinator ==
    /\ queue # <<>> /\ Head(queue).node # coord.node
    /\ Reply([code |-> "NotCoordinator"])
    /\ UNCHANGED groupVars /\ Idle

Known(e) == e.id \in DOMAIN coord.members

\* Everyone has rejoined, an eager peer with nothing, a cooperative one with
\* what it keeps.
ServeJoin ==
    /\ Serving("join") /\ coord.gen < MaxGenerations[protocol]
    /\ LET e == Head(queue)
           id == IF e.id = NoId THEN Fresh ELSE e.id
       IN  \/ /\ e.id = NoId /\ ~static
              /\ coord' = [coord EXCEPT !.promised = id]
              /\ Reply([code |-> "MemberIdRequired", id |-> id, request |-> e])
              /\ UNCHANGED theirs
           \/ /\ Known(e) \/ (e.id # NoId /\ e.id = coord.promised)
                 \/ (e.id = NoId /\ static)
              /\ coord' = [coord EXCEPT !.gen = @ + 1, !.phase = "Completing",
                              !.promised = NoId, !.members =
                                id :> [topics |-> IF e.topics THEN Topics ELSE {},
                                       owned |-> e.owned, generation |-> e.gen,
                                       assignment |-> {}]]
              /\ theirs' = IF Cooperative THEN theirs \cap coord.plan ELSE {}
              /\ Reply([code |-> "None", id |-> id, gen |-> coord.gen + 1])
           \/ /\ e.id # NoId /\ ~Known(e) /\ e.id # coord.promised
              /\ Reply([code |-> "Fenced"])
              /\ UNCHANGED <<coord, theirs>>
    /\ UNCHANGED peer /\ Idle

Strategies == IF Cooperative THEN {"CooperativeSticky"} ELSE {"Range", "RoundRobin"}

\* Whoever leads computes the assignment, listing the members in some order.
Assignments(us) ==
    LET them == [topics |-> Topics, owned |-> IF Cooperative THEN theirs ELSE {},
                 generation |-> coord.gen - 1]
        Of(strategy, members, i) == compute_assignments(strategy, members, Partitions)[i]
    IN  IF ~peer THEN {<<Of(s, <<us>>, 1), {}>> : s \in Strategies}
        ELSE {<<Of(s, <<us, them>>, 1), Of(s, <<us, them>>, 2)>> : s \in Strategies}
             \cup {<<Of(s, <<them, us>>, 2), Of(s, <<them, us>>, 1)>> : s \in Strategies}

ServeSync ==
    /\ Serving("sync")
    /\ LET e == Head(queue)
       IN  IF ~Known(e) \/ e.gen # coord.gen
           THEN Reply([code |-> "Fenced"]) /\ UNCHANGED <<coord, theirs>>
           ELSE IF coord.phase = "Preparing"
           THEN Reply([code |-> "Rebalance"]) /\ UNCHANGED <<coord, theirs>>
           ELSE \E given \in Assignments(coord.members[e.id]) :
                    /\ coord' = [coord EXCEPT !.phase = "Stable", !.plan = given[2],
                                              !.members[e.id].assignment = given[1]]
                    /\ theirs' = theirs \cup given[2]
                    /\ Reply([code |-> "None", assignment |-> given[1]])
    /\ UNCHANGED peer /\ Idle

Settled(e) == Known(e) /\ e.gen = coord.gen

ServeHeartbeat ==
    /\ Classic /\ Serving("heartbeat")
    /\ Reply([code |-> IF ~Settled(Head(queue)) THEN "Fenced"
                       ELSE IF coord.phase = "Preparing" THEN "Rebalance" ELSE "None"])
    /\ UNCHANGED groupVars /\ Idle

ServeCommit ==
    /\ Serving("commit")
    /\ LET e == Head(queue)
           ok == IF Classic THEN Settled(e) /\ coord.phase # "Completing"
                 ELSE Known(e) /\ e.gen = coord.members[e.id].epoch
       IN  Reply([code |-> IF ok THEN "None" ELSE "Fenced"])
    /\ UNCHANGED groupVars /\ Idle

Without(id) == Restrict(coord.members, DOMAIN coord.members \ {id})

\* The group goes on without the member.
Removed(id) ==
    /\ coord' = [coord EXCEPT !.members = Without(id), !.gen = @ + 1,
                              !.phase = "Stable", !.plan = IF peer THEN Partitions ELSE {}]
    /\ theirs' = IF peer /\ Classic THEN Partitions ELSE theirs

ServeLeave ==
    /\ Serving("leave")
    /\ IF Known(Head(queue)) THEN Removed(Head(queue).id) ELSE UNCHANGED <<coord, theirs>>
    /\ Reply([code |-> "None"])
    /\ UNCHANGED peer /\ Idle

\* In turn over the members, in the order of ids nobody chooses.
Targets(in) ==
    IF in THEN {{tp \in Partitions : tp[2] % 2 = first} : first \in 0..1} ELSE {Partitions}

\* A member gives up before it is given, and is counted as the owner of what
\* it was given until it reports otherwise.
ServeConsumerHeartbeat ==
    /\ ~Classic /\ Serving("heartbeat")
    /\ LET e == Head(queue)
           rejoins == e.gen = 0
           old == IF Known(e) THEN coord.members[e.id]
                  ELSE [epoch |-> 0, owned |-> {}, assignment |-> {}, topics |-> FALSE]
           topics == IF e.owned = Absent THEN old.topics ELSE e.topics
           new == rejoins \/ topics # old.topics
           reported == IF rejoins THEN {} ELSE IF e.owned = Absent THEN old.owned ELSE e.owned
           before == IF rejoins THEN {} ELSE old.assignment
           held == theirs \cup UNION {coord.members[i].owned : i \in DOMAIN Without(e.id)}
       IN  IF e.gen # 0 /\ (~Known(e) \/ e.gen # old.epoch)
           THEN Reply([code |-> "Fenced"]) /\ UNCHANGED coord
           ELSE \E chosen \in IF new THEN Targets(peer) ELSE {coord.target} :
                LET target == IF topics THEN chosen ELSE {}
                    gen == IF new THEN coord.gen + 1 ELSE coord.gen
                    granted == IF reported \ target # {} THEN reported \cap target
                               ELSE target \ held
                    complete == reported \subseteq target /\ granted = target
                    epoch == IF complete \/ old.epoch = 0 THEN gen ELSE old.epoch
                IN  /\ coord' = [coord EXCEPT !.gen = gen, !.target = chosen, !.members =
                            (e.id :> [epoch |-> epoch, owned |-> reported \cup granted,
                                      assignment |-> granted, topics |-> topics])
                            @@ Without(e.id)]
                    /\ Reply([code |-> "None", id |-> e.id, gen |-> epoch, assignment |->
                            IF new \/ granted # before THEN granted ELSE Absent])
    /\ UNCHANGED <<peer, theirs>> /\ Idle

\* A peer comes or goes: a classic member must rejoin.
PeerChanges ==
    /\ coord.gen < MaxGenerations[protocol]
    /\ peer' = ~peer
    /\ \E target \in Targets(peer') :
        LET alone == Classic /\ coord.members = <<>>
        IN  /\ coord' = [coord EXCEPT
                !.gen = IF Classic /\ ~alone THEN @ ELSE @ + 1,
                !.phase = IF Classic /\ ~alone THEN "Preparing" ELSE @,
                !.plan = IF Classic /\ peer' THEN Partitions ELSE @,
                !.target = IF Classic THEN @ ELSE target]
            /\ theirs' = IF alone /\ peer' THEN Partitions
                         ELSE IF peer' THEN theirs ELSE {}
    /\ UNCHANGED <<queue, inbox, troubles, strays>> /\ Idle

\* A KIP-848 peer's heartbeat: it has given up and takes what nobody holds.
PeerReconciles ==
    /\ ~Classic /\ peer
    /\ LET held == UNION {coord.members[i].owned : i \in DOMAIN coord.members}
           target == IF \E i \in DOMAIN coord.members : coord.members[i].topics
                     THEN Partitions \ coord.target ELSE Partitions
       IN  theirs' = target \ held
    /\ theirs' # theirs
    /\ UNCHANGED <<queue, inbox, coord, peer, troubles, strays>> /\ Idle

\* The session, or the time to rejoin, ran out.
SessionExpires ==
    /\ Trouble
    /\ \E id \in DOMAIN coord.members : Removed(id)
    /\ overdue' = TRUE
    /\ UNCHANGED <<fixed, member, assigned, subscribed, call, round, hb, late, queue, inbox,
                   peer, resolved, strays>>

CoordinatorMoves ==
    /\ Trouble
    /\ coord' = [coord EXCEPT !.node = 3 - @]
    /\ UNCHANGED <<queue, inbox, peer, theirs, strays>> /\ Idle

Client ==
    \/ lose_partitions \/ maintain_group \/ Revoked \/ acknowledge_assignment \/ Served
    \/ \E c \in {"poll", "app"} : CommitAnswered(c)
    \/ JoinAnswered \/ JoinRefreshed \/ take_assignment_changed
    \/ await_rejoin
    \/ join_group \/ MemberIdRequired \/ Joined \/ Synced \/ RoundRefused
    \/ send_heartbeat
    \/ \E t \in {"hb", "late"} :
        HeartbeatAnswered(t) \/ consumer_group_heartbeat(t) \/ HeartbeatRefreshed(t)
    \/ \E c \in {"app", "leave"} : LeaveEnds(c)
    \/ PollExpires \/ unsubscribe \/ Unsubscribed \/ subscribe \/ SubscribeJoins \/ Drop

Group ==
    \/ ServeNotCoordinator \/ ServeJoin \/ ServeSync \/ ServeHeartbeat \/ ServeCommit
    \/ ServeLeave \/ ServeConsumerHeartbeat
    \/ PeerChanges \/ PeerReconciles \/ SessionExpires \/ CoordinatorMoves

Next == Client \/ Group
Spec == Init /\ [][Next]_vars

------------------------------------------------------------------------------
\* Member, assignment and queue are of their types.
TypeOK ==
    /\ member.state \in {"Unjoined", "Joining", "AwaitingSync", "Stable",
                         "PreparingRebalance", "Leaving"}
    /\ member.assignment \cup member.target \cup member.owned \cup assigned \subseteq Partitions
    /\ {queue[k].by : k \in DOMAIN queue} \subseteq Requesters \cup {Nobody}
    /\ strays \subseteq {"hasty", "outlived", "dropped", "unheard"}

\* Two members never hand out records of one partition at the same time (the
\* point of revoking before rejoining, of withholding partitions in transfer
\* and of acknowledging a revocation), with two exceptions of the code's.  The
\* session expired and the member has not heard of it (`overdue`).  Or
\* max_poll_interval went by inside this very poll, in a rebalance callback or a
\* long fetch: the heartbeat task has left, the peer has the partitions, and
\* nothing on poll's way to its records asks for `exceeded` again; the next poll
\* does, and drops them.  Recorded in `strays`, and excluded, are four hazards: a
\* report sent while an assignment is being applied ("hasty"), a task that acts
\* for a membership that has ended ("outlived"), a poll dropped while it applies
\* an assignment ("dropped"), an answer that is lost with the assignment it
\* carried ("unheard").
Exclusive ==
    call["poll"].pc = "serve" /\ strays = {} =>
        assigned \cap theirs = {} \/ overdue \/ member.exceeded

\* Nothing is under way and no flag is up: only time can change this member.
Quiet ==
    /\ \A c \in Callers : call[c].pc = "idle"
    /\ round.pc = "none" /\ hb.pc \in {"none", "idle"} /\ late.pc = "none"
    /\ member.state = "Stable" /\ subscribed
    /\ ~(member.changed \/ member.rebalance \/ member.lost \/ member.invalidated
         \/ member.exceeded)
    /\ member.pending.code = "none"

Sound == strays \cap {"outlived", "dropped"} = {}

\* A stable member at rest consumes the assignment it was given: no outcome of
\* a round and no new target is forgotten between the tasks.
AppliedIsAssigned == Quiet /\ Sound => assigned = member.assignment

\* A stable member has a heartbeat task, without which it would consume until
\* the session expires and never learn that it was fenced.
StableHasHeartbeat == Quiet /\ Sound => hb.pc = "idle" /\ member.running

\* The member and the coordinator mean the same generation.
Agreed ==
    /\ Quiet /\ queue = <<>> /\ member.addr = coord.node
    /\ member.id \in DOMAIN coord.members
    /\ IF Classic THEN member.gen = coord.gen /\ coord.phase = "Stable"
       ELSE member.gen = coord.members[member.id].epoch

\* Then it consumes what the coordinator believes it was given, as far as the
\* topics have names, and nobody else does.
Converged ==
    Agreed /\ strays = {} =>
        /\ assigned = {tp \in coord.members[member.id].assignment :
                            Classic \/ tp[1] \in resolved}
        /\ assigned \cap theirs = {} \/ overdue

\* The assignors leave no partition of a subscribed topic without an owner,
\* except one the peer is still to give up.
EveryPartitionHasOwner ==
    Classic /\ Agreed /\ strays = {} /\ coord.members[member.id].topics = Topics =>
        Partitions \subseteq assigned \cup coord.plan \cup theirs

\* At rest the member is what its group takes it for: it applies what it was
\* assigned, beats, agrees with the coordinator, and no partition is orphaned.
MemberSettled ==
    TypeOK /\ AppliedIsAssigned /\ StableHasHeartbeat /\ Converged /\ EveryPartitionHasOwner
=============================================================================
