----------------------------- MODULE Telemetry -----------------------------
(***************************************************************************)
(* A client's KIP-714 telemetry (telemetry/mod.rs, telemetry/reporter.rs): *)
(* the reporter's task, the handle that starts, asks and closes it, and    *)
(* the broker it pushes to.                                                *)
(*                                                                         *)
(* The metrics are one counter. A step is what the reporter does between   *)
(* two awaits, or what becomes of a request. Intervals, backoffs and       *)
(* payload bytes are choices.                                              *)
(***************************************************************************)
EXTENDS Naturals

CONSTANTS
    MaxTotal,           \* bound: the counter
    MaxSubscriptions,   \* bound: subscriptions a broker hands out
    MaxLost             \* bound: pushes accepted whose answer is lost

ASSUME TelemetryAssumption ==
    /\ MaxTotal \in Nat
    /\ MaxSubscriptions \in Nat
    /\ MaxLost \in Nat

VARIABLES
    total,          \* the counter of the client's metrics
    at,             \* where the reporter's task is
    subscription,   \* Reporter::run's subscription
    pushed,         \* Reporter::pushed
    pushing,        \* the push on its way: the total read, terminating or not
    stop,           \* the watch channel `stop`
    instance_id,    \* the watch channel `instance_id`
    closing,        \* Telemetry::close: not called, waiting, or returned
    handed,         \* the broker: subscriptions handed out
    received,       \* the broker: the sum of the values accepted under the
                    \* subscription it handed out last
    lost,           \* accepted pushes the reporter had no answer to, since then
    told            \* history: ids sent with requests after the first answer,
                    \* and whether the last push was written as terminating

telemetryVars == <<total, at, subscription, pushed, pushing, stop, instance_id, closing,
                   handed, received, lost, told>>

ZeroId == 0
NoSubscription == [instance |-> ZeroId, id |-> 0, delta |-> FALSE, requested |-> FALSE]
NoPush == [sum |-> 0, terminating |-> FALSE]

TelemetryInit ==
    /\ total = 0
    /\ at = "subscribe"
    /\ subscription = NoSubscription
    /\ pushed = 0
    /\ pushing = NoPush
    /\ stop = FALSE
    /\ instance_id = "Pending"
    /\ closing = "no"
    /\ handed = 0
    /\ received = 0
    /\ lost = 0
    /\ told = [ids |-> {}, terminated |-> FALSE]

(* `run` is in its first subscribe until the id is assigned. *)
First == subscription.id = 0

(* The reporter ends, or is aborted and drops the sender of `instance_id`: to  *)
(* client_instance_id both are None while no id was assigned.                  *)
Ends ==
    /\ at' = "ended"
    /\ instance_id' = IF First THEN "Unavailable" ELSE instance_id

count ==
    /\ total < MaxTotal
    /\ total' = total + 1
    /\ UNCHANGED <<at, subscription, pushed, pushing, stop, instance_id, closing, handed,
                   received, lost, told>>

-----------------------------------------------------------------------------
(* subscribe and get_subscription. *)

(* `connection` finds a broker that serves both APIs, or fails and is tried    *)
(* again, or finds that none does.                                             *)
get_subscription ==
    /\ at = "subscribe"
    /\ \/ /\ stop
          /\ Ends
          /\ UNCHANGED told
       \/ /\ ~stop
          /\ Ends
          /\ UNCHANGED told
       \/ /\ ~stop
          /\ at' = "backoff"
          /\ UNCHANGED <<instance_id, told>>
       \/ /\ ~stop
          /\ at' = "subscribing"
          /\ told' = [told EXCEPT !.ids = IF First THEN @ ELSE @ \cup {subscription.instance}]
          /\ UNCHANGED instance_id
    /\ UNCHANGED <<total, subscription, pushed, pushing, stop, closing, handed, received,
                   lost>>

(* A failed attempt waits, or sees the client closing. *)
backoff ==
    /\ at = "backoff"
    /\ \/ stop /\ Ends
       \/ ~stop /\ at' = "subscribe" /\ UNCHANGED instance_id
    /\ UNCHANGED <<total, subscription, pushed, pushing, stop, closing, handed, received,
                   lost, told>>

(* Subscription::from_response: the id the client has stays. *)
InstanceOf(id, answered) == IF id = ZeroId THEN answered ELSE id

(* Mutation: the sums of an earlier subscription are kept. *)
PushedAfter_kept(next) == pushed

(* An empty subscription looked at again keeps the sums, any other clears      *)
(* them.                                                                       *)
PushedAfter(next) == IF First \/ subscription.requested THEN 0 ELSE pushed

(* The broker hands out a subscription; it may name an id of its own choice.   *)
Subscribed ==
    /\ at = "subscribing"
    /\ handed < MaxSubscriptions
    /\ \E delta, requested \in BOOLEAN, answered \in 1..2 :
          subscription' = [instance |-> InstanceOf(subscription.instance, answered),
                           id |-> handed + 1, delta |-> delta, requested |-> requested]
    /\ handed' = handed + 1
    /\ pushed' = PushedAfter(subscription')
    /\ instance_id' = IF First THEN subscription'.instance ELSE instance_id
    /\ received' = 0
    /\ lost' = 0
    /\ at' = "waiting"
    /\ UNCHANGED <<total, pushing, stop, closing, told>>

(* No answer or a retriable error; or an error for good. *)
SubscriptionFails ==
    /\ at = "subscribing"
    /\ \/ at' = "backoff" /\ UNCHANGED instance_id
       \/ Ends
    /\ UNCHANGED <<total, subscription, pushed, pushing, stop, closing, handed, received,
                   lost, told>>

-----------------------------------------------------------------------------
(* run's loop: one turn waits for the interval or for stop. *)

wait ==
    /\ at = "waiting"
    /\ \E stopped \in {FALSE, stop} :
          \/ /\ ~subscription.requested
             /\ IF stopped THEN Ends ELSE at' = "subscribe" /\ UNCHANGED instance_id
             /\ UNCHANGED pushing
          \/ /\ subscription.requested
             /\ at' = "push"
             /\ pushing' = [sum |-> total, terminating |-> stopped]
             /\ UNCHANGED instance_id
    /\ UNCHANGED <<total, subscription, pushed, stop, closing, handed, received, lost, told>>

(* A push's outcome; a terminating push is the last turn whatever it came to.  *)
Turn(outcome) ==
    IF pushing.terminating \/ outcome = "Stop"
    THEN Ends
    ELSE /\ at' = IF outcome = "Resubscribe" THEN "subscribe" ELSE "waiting"
         /\ UNCHANGED instance_id

(* The part of push before anything is written: nothing matches the            *)
(* subscription, no usable compression, too large, no connection, no broker.   *)
PushSkipped ==
    /\ at = "push"
    /\ \/ ~pushing.terminating /\ Turn("Ok")
       \/ Turn("Retry")
       \/ Turn("Stop")
    /\ pushing' = NoPush
    /\ UNCHANGED <<total, subscription, pushed, stop, closing, handed, received, lost, told>>

PushWritten ==
    /\ at = "push"
    /\ at' = "pushing"
    /\ told' = [ids |-> told.ids \cup {subscription.instance},
                terminated |-> pushing.terminating]
    /\ UNCHANGED <<total, subscription, pushed, pushing, stop, instance_id, closing, handed,
                   received, lost>>

(* What the request carries. *)
Value == IF subscription.delta THEN pushing.sum - pushed ELSE pushing.sum

Accepts == received' = IF subscription.delta THEN received + Value ELSE Value

Acknowledged(answered) == IF answered THEN pushing.sum ELSE pushed

PushAccepted ==
    /\ at = "pushing"
    /\ Accepts
    /\ pushed' = Acknowledged(TRUE)
    /\ Turn("Ok")
    /\ pushing' = NoPush
    /\ UNCHANGED <<total, subscription, stop, closing, handed, lost, told>>

(* The push failed, accepted or not. *)
PushUnanswered ==
    /\ at = "pushing"
    /\ \/ /\ lost < MaxLost
          /\ lost' = lost + 1
          /\ Accepts
       \/ UNCHANGED <<received, lost>>
    /\ pushed' = Acknowledged(FALSE)
    /\ Turn("Retry")
    /\ pushing' = NoPush
    /\ UNCHANGED <<total, subscription, stop, closing, handed, told>>

(* An error code: the subscription is stale or the payload does not suit; the  *)
(* broker will never accept; or any other.                                     *)
PushRefused ==
    /\ at = "pushing"
    /\ \E outcome \in {"Resubscribe", "Stop", "Retry"} : Turn(outcome)
    /\ pushing' = NoPush
    /\ UNCHANGED <<total, subscription, pushed, stop, closing, handed, received, lost, told>>

-----------------------------------------------------------------------------
(* The handle. *)

(* close takes the task, tells it to stop and waits for it.                    *)
close ==
    /\ closing = "no"
    /\ closing' = "waiting"
    /\ stop' = TRUE
    /\ UNCHANGED <<total, at, subscription, pushed, pushing, instance_id, handed, received,
                   lost, told>>

(* The task has ended, or has not in time (or the caller dropped the future)   *)
(* and is aborted.                                                             *)
close_returns ==
    /\ closing = "waiting"
    /\ closing' = "returned"
    /\ IF at = "ended" THEN UNCHANGED <<at, instance_id>> ELSE Ends
    /\ UNCHANGED <<total, subscription, pushed, pushing, stop, handed, received, lost, told>>

(* Dropping the handle aborts the reporter. *)
drop_telemetry ==
    /\ closing = "no"
    /\ closing' = "returned"
    /\ Ends
    /\ UNCHANGED <<total, subscription, pushed, pushing, stop, handed, received, lost, told>>

TelemetryNext ==
    \/ count
    \/ get_subscription \/ backoff \/ Subscribed \/ SubscriptionFails
    \/ wait \/ PushSkipped \/ PushWritten
    \/ PushAccepted \/ PushUnanswered \/ PushRefused
    \/ close \/ close_returns \/ drop_telemetry

TelemetrySpec == TelemetryInit /\ [][TelemetryNext]_telemetryVars

-----------------------------------------------------------------------------
(* Properties. *)

(* Deltas add up: the values the broker accepted under the last subscription   *)
(* never miss an increment that the reporter takes for pushed (`pushed` moves  *)
(* on an answer only), and count none twice as long as no answer was lost,     *)
(* over any retries, refusals, changes of temporality and empty subscriptions. *)
DeltasAddUp ==
    /\ subscription.delta => received >= pushed
    /\ lost = 0 => received = pushed

(* One client, one id: every request after the first subscription names the id *)
(* that client_instance_id returns, whatever later answers say.                *)
OneInstance ==
    \A i \in told.ids : i = instance_id

(* The reporter writes nothing after its terminating push, and that is the     *)
(* last thing it does (whatever the broker answers, also "subscribe again").   *)
TerminatingIsLast ==
    told.terminated => at \in {"pushing", "ended"}

(* What the reporter tells its broker is right: the sums, the id, the end.     *)
ReporterExact == DeltasAddUp /\ OneInstance /\ TerminatingIsLast
=============================================================================
