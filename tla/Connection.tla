----------------------------- MODULE Connection -----------------------------
(****************************************************************************)
(* One broker connection of src/network/connection.rs: callers that submit    *)
(* requests, the event loop that owns the socket and the pending map, the     *)
(* reader task, and a broker that answers in order or not at all.            *)
(*                                                                          *)
(* The loop is one task: between two awaits its steps are one action.  It    *)
(* awaits in select! (the actions of "select") and in the middle of a write  *)
(* ("writing").  A caller awaits a slot, then a place in the channel, then    *)
(* its answer, and may be dropped at each await.  Time is abstracted: the     *)
(* timer of a pending request may fire, and a mute may end, at any time.     *)
(****************************************************************************)
EXTENDS Integers, Sequences, FiniteSets

CONSTANTS
    Requests,       \* calls of send_request
    Silent,         \* calls of send_fire_and_forget
    MAX_IN_FLIGHT,  \* ConnectionConfig::max_in_flight_requests
    ID_SPACE,       \* correlation ids before the counter wraps
    MaxMutes,       \* bound: how often the broker throttles
    MaxDrops,       \* bound: how many callers drop their future
    None

Calls == Requests \cup Silent

Errors == {"Network", "Timeout", "Malformed", "WouldBlock",
           "Unavailable", "Cancelled"}

ASSUME ConnectionAssumption ==
    /\ MAX_IN_FLIGHT \in Nat \ {0}
    /\ ID_SPACE \in Nat \ {0}
    /\ MaxMutes \in Nat
    /\ MaxDrops \in Nat
    /\ IsFiniteSet(Requests)
    /\ Requests \cap Silent = {}
    /\ None \notin Calls \cup Errors
    /\ Errors \cap Calls = {}

VARIABLES
    at,         \* where each call is
    result,     \* what its caller was told: an error, or whose answer it got
    dropped,    \* calls whose future was dropped
    id,         \* correlation ids given out
    next_id,    \* the generator's counter
    waiters,    \* callers waiting for a slot, first come first served
    permits,    \* free slots of the in_flight semaphore
    channel,    \* request_tx to request_rx
    parked,     \* the command taken and not yet written
    pending,    \* correlation id -> call
    loop,       \* the event loop: "select", "writing" or "stopped"
    close_tx,   \* the close mode asked for
    close_mode, \* the close mode the loop has seen
    muted,      \* throttle_until is in the future
    mutes,      \* how often it was set
    outbox,     \* frames on their way to the broker, or held by it
    inbox,      \* answers the reader task has handed to the loop
    eof,        \* the peer closed the connection, or reading failed
    written     \* calls whose writes have started

callVars == <<dropped, id, next_id, waiters>>
slotVars == <<at, result, permits>>
loopVars == <<channel, parked, pending, loop>>
netVars == <<outbox, inbox, eof>>
vars == <<callVars, slotVars, loopVars, netVars, close_tx, close_mode, muted,
          mutes, written>>

Modes == <<"Open", "WhenIdle", "Now">>

Rank(mode) == CHOOSE k \in 1..3 : Modes[k] = mode

Init ==
    /\ at = [c \in Calls |-> "idle"]
    /\ result = [c \in Calls |-> None]
    /\ dropped = {}
    /\ id = [c \in Calls |-> None]
    /\ next_id = 0
    /\ waiters = <<>>
    /\ permits = MAX_IN_FLIGHT
    /\ channel = <<>>
    /\ parked = None
    /\ pending = <<>>
    /\ loop = "select"
    /\ close_tx = "Open"
    /\ close_mode = "Open"
    /\ muted = FALSE
    /\ mutes = 0
    /\ outbox = <<>>
    /\ inbox = <<>>
    /\ eof = FALSE
    /\ written = {}

------------------------------------------------------------------------------
(* Callers. *)

\* A command that reaches the channel, finds it full, or finds the loop gone;
\* `p` slots are free once the caller has its own.
Enqueue(c, p) ==
    IF loop = "stopped"
    THEN /\ at' = [at EXCEPT ![c] = "done"]
         /\ result' = [result EXCEPT ![c] = "Network"]
         /\ permits' = IF c \in Requests THEN p + 1 ELSE p
         /\ UNCHANGED channel
    ELSE /\ permits' = p
         /\ IF Len(channel) < MAX_IN_FLIGHT
            THEN /\ at' = [at EXCEPT ![c] = "queued"]
                 /\ channel' = Append(channel, c)
                 /\ result' = IF c \in Silent THEN [result EXCEPT ![c] = c] ELSE result
            ELSE /\ at' = [at EXCEPT ![c] = "full"]
                 /\ UNCHANGED <<channel, result>>

EnqueueUnchanged ==
    UNCHANGED <<dropped, id, next_id, parked, pending, loop, netVars, close_tx,
                close_mode, muted, mutes, written>>

\* send_inner up to its first await: the id is drawn before the slot is there.
send_inner(c) ==
    /\ at[c] = "idle"
    /\ id' = [id EXCEPT ![c] = next_id]
    /\ next_id' = (next_id + 1) % ID_SPACE
    /\ waiters' = Append(waiters, c)
    /\ at' = [at EXCEPT ![c] = "permit"]
    /\ UNCHANGED <<result, dropped, permits, loopVars, netVars, close_tx,
                   close_mode, muted, mutes, written>>

acquire_in_flight(c) ==
    /\ waiters # <<>> /\ Head(waiters) = c
    /\ permits > 0
    /\ waiters' = Tail(waiters)
    /\ Enqueue(c, permits - 1)
    /\ EnqueueUnchanged

\* The channel has a place again, or its receiver is gone.
ChannelFrees(c) ==
    /\ at[c] = "full"
    /\ Len(channel) < MAX_IN_FLIGHT \/ loop = "stopped"
    /\ Enqueue(c, permits)
    /\ EnqueueUnchanged /\ UNCHANGED waiters

\* No slot and no answer; a full channel is waited for no longer than the
\* request timeout.
send_fire_and_forget(c) ==
    /\ at[c] = "idle"
    /\ Enqueue(c, permits)
    /\ EnqueueUnchanged /\ UNCHANGED waiters

EnqueueTimesOut(c) ==
    /\ at[c] = "full"
    /\ at' = [at EXCEPT ![c] = "done"]
    /\ result' = [result EXCEPT ![c] = "Timeout"]
    /\ UNCHANGED <<callVars, permits, loopVars, netVars, close_tx, close_mode,
                   muted, mutes, written>>

\* A waiter that is dropped leaves the semaphore's queue.
Without(s, c) ==
    LET k == CHOOSE i \in DOMAIN s : s[i] = c
    IN  IF \E i \in DOMAIN s : s[i] = c
        THEN [i \in 1..Len(s) - 1 |-> IF i < k THEN s[i] ELSE s[i + 1]]
        ELSE s

\* A caller stops waiting.  Before the channel it takes its slot along; after
\* it the loop owns the request.
Drop(c) ==
    /\ at[c] \notin {"idle", "done"}
    /\ c \notin dropped
    /\ Cardinality(dropped) < MaxDrops
    /\ dropped' = dropped \cup {c}
    /\ result' = [result EXCEPT ![c] = "Cancelled"]
    /\ waiters' = Without(waiters, c)
    /\ IF at[c] \in {"permit", "full"}
       THEN /\ at' = [at EXCEPT ![c] = "done"]
            /\ permits' = IF at[c] = "full" THEN permits + 1 ELSE permits
       ELSE UNCHANGED <<at, permits>>
    /\ UNCHANGED <<id, next_id, loopVars, netVars, close_tx, close_mode,
                   muted, mutes, written>>

\* close, close_when_idle and the drop of the last handle: a mode is only
\* ever raised.
request_close(mode) ==
    /\ Rank(mode) > Rank(close_tx)
    /\ loop # "stopped"
    /\ close_tx' = mode
    /\ UNCHANGED <<callVars, slotVars, loopVars, netVars, close_mode, muted, mutes,
                   written>>

\* A caller that read a throttle in a body reports it.
notify_throttle ==
    /\ mutes < MaxMutes
    /\ loop # "stopped"
    /\ muted' = TRUE
    /\ mutes' = mutes + 1
    /\ UNCHANGED <<callVars, slotVars, loopVars, netVars, close_tx, close_mode,
                   written>>

MuteEnds ==
    /\ muted
    /\ muted' = FALSE
    /\ UNCHANGED <<callVars, slotVars, loopVars, netVars, close_tx, close_mode,
                   mutes, written>>

------------------------------------------------------------------------------
(* The broker and the reader task. *)

\* The broker answers the frames of a connection in their order, and the
\* reader hands each answer on while the loop has room for it.
read_frame ==
    /\ outbox # <<>>
    /\ ~eof
    /\ loop # "stopped"
    /\ Len(inbox) < MAX_IN_FLIGHT
    /\ inbox' = Append(inbox, Head(outbox))
    /\ outbox' = Tail(outbox)
    /\ UNCHANGED <<callVars, slotVars, loopVars, eof, close_tx, close_mode, muted,
                   mutes, written>>

ReadEnds ==
    /\ ~eof
    /\ loop # "stopped"
    /\ eof' = TRUE
    /\ UNCHANGED <<callVars, slotVars, loopVars, outbox, inbox, close_tx,
                   close_mode, muted, mutes, written>>

------------------------------------------------------------------------------
(* The event loop. *)

Abandoned(c) == c \in Requests \cap dropped

\* `told` is answered to the callers it names and that still wait for it.
Answered(told) ==
    [c \in Calls |-> IF c \in DOMAIN told /\ c \in Requests /\ ~Abandoned(c)
                     THEN told[c] ELSE result[c]]

\* The slots of requests that leave the loop are free again.
Released(gone) == permits + Cardinality(gone \cap Requests)

Leave(gone) == [c \in Calls |-> IF c \in gone THEN "done" ELSE at[c]]

Pending == {pending[k] : k \in DOMAIN pending}

Held == IF parked = None THEN {} ELSE {parked}

Queued == {channel[k] : k \in DOMAIN channel}

\* The loop ends: `failed` hear `answer`, every other pending request and the
\* parked one hear `error`, and the channel's fail with the channel.  The error
\* of a closed connection, an end of file or a failed read is a Network one.
Stop(error, failed, answer) ==
    LET ends == Pending \cup Held \cup Queued \cup failed
    IN  /\ loop' = "stopped"
        /\ at' = Leave(ends)
        /\ result' = Answered([c \in ends |->
                        IF c \in failed THEN answer
                        ELSE IF c \in Queued THEN "Network" ELSE error])
        /\ permits' = Released(ends)
        /\ channel' = <<>>
        /\ parked' = None
        /\ pending' = <<>>
        /\ outbox' = <<>>       \* the reader is aborted, the socket closed
        /\ inbox' = <<>>
        /\ muted' = FALSE
        /\ UNCHANGED <<written, eof>>

Collides_never(c) == FALSE

\* The id of an earlier request that is still unanswered: a pairing that can
\* no longer be trusted.
Collides(c) == c \in Requests /\ id[c] \in DOMAIN pending

Discard_leaking(c, gone) ==
    /\ at' = Leave(gone \cup {c})
    /\ permits' = Released(gone)
    /\ parked' = None
    /\ UNCHANGED <<loop, written>>

\* A command that is not written after all gives its slot back.
Discard(c, gone) ==
    /\ at' = Leave(gone \cup {c})
    /\ permits' = Released(gone \cup {c})
    /\ parked' = None
    /\ UNCHANGED <<loop, written>>

Park(c, gone) ==
    /\ parked' = c
    /\ at' = [Leave(gone) EXCEPT ![c] = "parked"]
    /\ permits' = Released(gone)
    /\ UNCHANGED <<loop, written>>

StartWrite(c, gone) ==
    /\ parked' = c
    /\ loop' = "writing"
    /\ at' = [Leave(gone) EXCEPT ![c] = "writing"]
    /\ permits' = Released(gone)
    /\ written' = written \cup {c}

AfterSelect_no_check(cmd, gone, mute) ==
    CASE cmd = None -> /\ at' = Leave(gone) /\ permits' = Released(gone)
                       /\ UNCHANGED <<parked, loop, written>>
      [] cmd # None /\ mute -> Park(cmd, gone)
      [] cmd # None /\ ~mute -> StartWrite(cmd, gone)

\* After each select: the parked command is discarded, kept or written; `gone`
\* was answered by the select.
AfterSelect(cmd, gone, mute) ==
    CASE cmd = None -> /\ at' = Leave(gone) /\ permits' = Released(gone)
                       /\ UNCHANGED <<parked, loop, written>>
      [] cmd # None /\ Abandoned(cmd) -> Discard(cmd, gone)
      [] cmd # None /\ ~Abandoned(cmd) /\ mute -> Park(cmd, gone)
      [] cmd # None /\ ~Abandoned(cmd) /\ ~mute -> StartWrite(cmd, gone)

IdleExit == close_mode = "WhenIdle" /\ pending = <<>> /\ parked = None

\* biased: a close request comes first, then frames, then timers, then work.
Selecting == loop = "select" /\ ~IdleExit

Undisturbed == Selecting /\ close_tx = close_mode

\* The top of the loop: nothing is pending and a close was asked for when idle.
StopWhenIdle ==
    /\ loop = "select"
    /\ IdleExit
    /\ Stop("Network", {}, None)
    /\ UNCHANGED <<callVars, close_tx, close_mode, mutes>>

SeesClose ==
    /\ Selecting
    /\ close_tx # close_mode
    /\ close_mode' = close_tx
    /\ IF close_tx = "Now"
       THEN Stop("Network", {}, None)
       ELSE AfterSelect(parked, {}, muted) /\ UNCHANGED <<result, channel, pending, netVars, muted>>
    /\ UNCHANGED <<callVars, close_tx, mutes>>

\* A frame pairs with the request whose id it carries.  An id nobody waits for
\* or a header that cannot be read means the stream is out of step.
dispatch_response(legible, throttles) ==
    /\ Undisturbed
    /\ inbox # <<>>
    /\ throttles => legible /\ mutes < MaxMutes
    /\ mutes' = IF throttles THEN mutes + 1 ELSE mutes
    /\ LET frame == Head(inbox)
           known == {k \in DOMAIN pending : k = id[frame]}
           c == {pending[k] : k \in known}
       IN  IF known # {} /\ legible
           THEN /\ pending' = [k \in DOMAIN pending \ known |-> pending[k]]
                /\ result' = Answered([x \in c |-> frame])
                /\ AfterSelect(parked, c, muted \/ throttles)
                /\ inbox' = Tail(inbox)
                /\ muted' = (muted \/ throttles)
                /\ UNCHANGED <<channel, outbox, eof>>
           ELSE Stop("Malformed", c, "Malformed")
    /\ UNCHANGED <<callVars, close_tx, close_mode>>

\* The reader is gone and its frames are used up.
SeesEof ==
    /\ Undisturbed
    /\ eof /\ inbox = <<>>
    /\ Stop("Network", {}, None)
    /\ UNCHANGED <<callVars, close_tx, close_mode, mutes>>

\* What the other requests of the connection hear when one times out.
request_timeout_close_error == "Network"

Expire(c) ==
    /\ Undisturbed
    /\ inbox = <<>>
    /\ c \in Pending
    /\ Stop(request_timeout_close_error, {c}, "Timeout")
    /\ UNCHANGED <<callVars, close_tx, close_mode, mutes>>

MuteTimer_busy == parked # None /\ pending # <<>> /\ ~muted

\* sleep_until(mute_end), armed while a command is parked.
MuteTimer == parked # None /\ ~muted

WakeParked ==
    /\ Undisturbed
    /\ inbox = <<>>
    /\ MuteTimer
    /\ AfterSelect(parked, {}, muted)
    /\ UNCHANGED <<result, callVars, channel, pending, netVars, close_tx, close_mode,
                   muted, mutes>>

TakeCommand ==
    /\ Undisturbed
    /\ inbox = <<>>
    /\ parked = None
    /\ channel # <<>>
    /\ channel' = Tail(channel)
    /\ AfterSelect(Head(channel), {}, muted)
    /\ UNCHANGED <<result, callVars, pending, netVars, close_tx, close_mode, muted,
                   mutes>>

\* The bytes of a command reach the broker while the write is under way; the
\* loop is not in select and cannot see the answer yet.
Transmit ==
    /\ loop = "writing"
    /\ parked \in Requests
    /\ ~eof
    /\ ~\E k \in DOMAIN outbox : outbox[k] = parked
    /\ ~\E k \in DOMAIN inbox : inbox[k] = parked
    /\ ~Collides(parked)
    /\ outbox' = Append(outbox, parked)
    /\ UNCHANGED <<callVars, slotVars, loopVars, inbox, eof, close_tx, close_mode,
                   muted, mutes, written>>

Transmitted(c) ==
    \/ eof
    \/ c \in Silent
    \/ \E k \in DOMAIN outbox : outbox[k] = c
    \/ \E k \in DOMAIN inbox : inbox[k] = c

BackToSelect ==
    /\ loop' = "select"
    /\ parked' = None
    /\ UNCHANGED <<channel, written, netVars, muted>>

\* A request whose id is in use closes the connection, one beyond the limit is
\* refused, any other is written: in full, not at all, or not in time.
write_command(outcome) ==
    /\ loop = "writing"
    /\ LET c == parked
           full == Cardinality(DOMAIN pending) >= MAX_IN_FLIGHT
       IN  CASE Collides(c) -> Stop("Unavailable", {c}, "Unavailable")
             [] c \in Requests /\ ~Collides(c) /\ full ->
                  /\ BackToSelect
                  /\ at' = Leave({c})
                  /\ result' = Answered([x \in {c} |-> "WouldBlock"])
                  /\ permits' = Released({c})
                  /\ UNCHANGED pending
             [] OTHER ->
                  CASE outcome = "ok" ->
                         /\ Transmitted(c)
                         /\ BackToSelect
                         /\ at' = [at EXCEPT ![c] =
                                     IF c \in Requests THEN "pending" ELSE "done"]
                         /\ pending' = IF c \in Requests
                                       THEN [k \in DOMAIN pending \cup {id[c]} |->
                                               IF k = id[c] THEN c ELSE pending[k]]
                                       ELSE pending
                         /\ UNCHANGED <<result, permits>>
                    [] outcome = "error" -> Stop("Network", {c}, "Network")
                    [] outcome = "timeout" -> Stop("Timeout", {c}, "Timeout")
    /\ UNCHANGED <<callVars, close_tx, close_mode, mutes>>

------------------------------------------------------------------------------

LoopStep ==
    \/ StopWhenIdle \/ SeesClose \/ WakeParked \/ TakeCommand
    \/ SeesEof
    \/ \E c \in Requests : Expire(c)
    \/ \E legible, throttles \in BOOLEAN : dispatch_response(legible, throttles)
    \/ \E outcome \in {"ok", "error", "timeout"} : write_command(outcome)

CallerSteps ==
    \E c \in Requests : acquire_in_flight(c) \/ ChannelFrees(c)

SilentSteps ==
    \E c \in Silent : ChannelFrees(c) \/ EnqueueTimesOut(c)

Next ==
    \/ \E c \in Requests : send_inner(c) \/ Drop(c)
    \/ \E c \in Silent : send_fire_and_forget(c)
    \/ CallerSteps \/ SilentSteps
    \/ \E mode \in {"WhenIdle", "Now"} : request_close(mode)
    \/ notify_throttle \/ MuteEnds
    \/ Transmit \/ read_frame \/ ReadEnds
    \/ LoopStep

Spec == Init /\ [][Next]_vars

\* The runtime polls the loop's task and every woken caller, the clock ends a
\* mute, and the timers of write_command and of the delay queue bound every
\* wait of the loop.  The broker owes nothing: it may never answer or close.
FairSpec ==
    /\ Spec
    /\ WF_vars(LoopStep)
    /\ WF_vars(MuteEnds)
    /\ WF_vars(CallerSteps)
    /\ WF_vars(SilentSteps)

------------------------------------------------------------------------------
(* Properties. *)

\* Every variable has its type: a slot is never released twice, and neither
\* queue outgrows the limit.
TypeOK ==
    /\ at \in [Calls -> {"idle", "permit", "full", "queued", "parked", "writing",
                         "pending", "done"}]
    /\ result \in [Calls -> {None} \cup Errors \cup Calls]
    /\ dropped \subseteq Requests
    /\ permits \in 0..MAX_IN_FLIGHT
    /\ DOMAIN pending \subseteq 0..ID_SPACE - 1
    /\ parked \in {None} \cup Calls
    /\ loop \in {"select", "writing", "stopped"}
    /\ Len(channel) <= MAX_IN_FLIGHT
    /\ Len(inbox) <= MAX_IN_FLIGHT

\* Slots are never leaked and never counted twice, whoever drops what when:
\* each request on its way from its slot to its answer holds one.  So the
\* limit check of write_command, "unreachable" by its comment, never refuses.
SlotsExact ==
    /\ permits + Cardinality({c \in Requests :
            at[c] \in {"full", "queued", "parked", "writing", "pending"}})
         = MAX_IN_FLIGHT
    /\ \A c \in Calls : result[c] # "WouldBlock"

\* A caller is given the answer to its own request, also once correlation ids
\* wrap around onto one that is still in use.
OwnAnswer ==
    \A c \in Requests : result[c] \in Calls => result[c] = c

\* A timeout is about a request that was written: throttling, parking and the
\* end of the connection never make an unwritten request time out.
TimeoutIsOfWritten ==
    \A c \in Requests : result[c] = "Timeout" =>
        c \in written

\* A request dropped before its write is never written, and nothing is
\* written on a muted connection, the mute of the same iteration included.
WritesAllowed ==
    [][written' # written =>
         (written' \ written) \cap dropped = {} /\ ~muted']_vars

Unanswered == {c \in Requests : at[c] # "idle" /\ result[c] = None}

\* Every request is answered, even by a broker that never says anything: the
\* callers that wait for a slot behind one that is never answered as well.
\* (The calls are finitely many, so all of them at once is each of them.)
EveryoneAnswered ==
    Unanswered # {} ~> Unanswered = {}

\* What a caller is told is true: its own answer, or a timeout of a request
\* that was written.
AnswersAreTrue == TypeOK /\ OwnAnswer /\ TimeoutIsOfWritten
==============================================================================
