--------------------------- MODULE ConnectionPool ---------------------------
(***************************************************************************)
(* ConnectionPool (network/pool.rs): one data connection per broker and    *)
(* one more for coordination, dials shared by the tasks that ask for the   *)
(* same connection, a backoff per address, a cap, idle eviction, close_all. *)
(*                                                                         *)
(* A step is one critical section of the pool's lock, or what happens      *)
(* between two: a dial, a connection's end, the passing of a backoff.      *)
(* Connections are numbered in the order they are dialled.                 *)
(***************************************************************************)
EXTENDS Naturals, FiniteSets, Sequences

CONSTANTS
    Addresses,
    Coordinators,           \* addresses asked for coordination too
    Tasks,                  \* tasks that ask for connections
    Ids,                    \* broker ids
    max_total_connections,
    MaxDials,               \* bound: dials in a behaviour
    MaxCloses               \* bound: close_all calls in a behaviour

VARIABLES
    by_id, by_key,  \* PoolState; 0 is no entry
    dialing,        \* PoolState::dialing, per key: the waiters, or NoDial
    reconnect,      \* PoolState::reconnect: the addresses whose backoff has not
                    \* passed
    generation,     \* PoolState::generation
    dials,          \* dial tasks that run: number, key, generation
    conns,          \* per connection: its key, the generation it was dialled in,
                    \* and whether it is dialled, usable, expired or closed (told
                    \* to close, or dead)
    task,           \* per task: where it is in get_connection
    overtaken       \* history: close_all was called while a dial was running

poolVars == <<by_id, by_key, dialing, reconnect, generation, dials, conns, task,
              overtaken>>

ASSUME PoolAssumption ==
    /\ IsFiniteSet(Addresses)
    /\ Coordinators \subseteq Addresses
    /\ Ids \subseteq Nat \ {0}
    /\ max_total_connections \in Nat
    /\ MaxDials \in Nat
    /\ MaxCloses \in Nat

PoolKeys == (Addresses \X {"Data"}) \cup (Coordinators \X {"Coordination"})
NoDial == [running |-> FALSE, waiters |-> {}]
Out == [at |-> "out", key |-> <<>>, id |-> 0, got |-> 0]

PoolInit ==
    /\ by_id = [i \in Ids |-> 0]
    /\ by_key = [k \in PoolKeys |-> 0]
    /\ dialing = [k \in PoolKeys |-> NoDial]
    /\ reconnect = {}
    /\ generation = 0
    /\ dials = {}
    /\ conns = <<>>
    /\ task = [t \in Tasks |-> Out]
    /\ overtaken = FALSE

State(c) == IF c = 0 THEN "closed" ELSE conns[c].state
is_alive(c) == State(c) \in {"usable", "expired"}
is_usable(c) == State(c) = "usable"

Becomes(c, state) == [conns EXCEPT ![c].state = state]

Closed(which) ==
    [c \in DOMAIN conns |-> IF c \in which THEN [conns[c] EXCEPT !.state = "closed"]
                                            ELSE conns[c]]

(* A call that gets a connection by broker id registers it before it ends. A *)
(* call that ends in an error leaves nothing behind.                         *)
Gets(tk, c) == [tk EXCEPT !.at = IF tk.id = 0 THEN "done" ELSE "register", !.got = c]

-----------------------------------------------------------------------------
(* Asking. *)

Asks(k, i) == [at |-> "get", key |-> k, id |-> i, got |-> 0]

get_connection(t) ==
    /\ task[t].at \in {"out", "done"}
    /\ \E k \in PoolKeys :
          task' = [task EXCEPT ![t] = Asks(k, 0)]
    /\ UNCHANGED <<by_id, by_key, dialing, reconnect, generation, dials, conns, overtaken>>

(* Mutation: a connection to the broker's old address is used. *)
by_id_fits_any(i, a) == is_usable(by_id[i])

by_id_fits(i, a) == is_usable(by_id[i]) /\ conns[by_id[i]].key[1] = a

(* get_connection_by_id: the address is where the caller's metadata has the *)
(* broker now.                                                              *)
get_connection_by_id(t) ==
    /\ task[t].at \in {"out", "done"}
    /\ \E i \in Ids, a \in Addresses :
          LET k == <<a, "Data">>
          IN  task' = [task EXCEPT ![t] =
                  IF by_id_fits(i, a)
                  THEN [at |-> "done", key |-> k, id |-> i, got |-> by_id[i]]
                  ELSE Asks(k, i)]
    /\ UNCHANGED <<by_id, by_key, dialing, reconnect, generation, dials, conns, overtaken>>

(* `get`, under the read lock. *)
get(t) ==
    /\ task[t].at = "get"
    /\ LET c == by_key[task[t].key]
       IN  task' = [task EXCEPT ![t] =
               IF is_usable(c) THEN Gets(@, c) ELSE [@ EXCEPT !.at = "dial"]]
    /\ UNCHANGED <<by_id, by_key, dialing, reconnect, generation, dials, conns, overtaken>>

register(t) ==
    /\ task[t].at = "register"
    /\ by_id' = [by_id EXCEPT ![task[t].id] = task[t].got]
    /\ task' = [task EXCEPT ![t].at = "done"]
    /\ UNCHANGED <<by_key, dialing, reconnect, generation, dials, conns, overtaken>>

(* The caller's own deadline: the wait is dropped, the dial goes on. *)
Abandons(entry, t) == [entry EXCEPT !.waiters = @ \ {t}]

abandon(t) ==
    /\ task[t].at = "wait"
    /\ task' = [task EXCEPT ![t] = Out]
    /\ dialing' = [k \in PoolKeys |-> Abandons(dialing[k], t)]
    /\ UNCHANGED <<by_id, by_key, reconnect, generation, dials, conns, overtaken>>

-----------------------------------------------------------------------------
(* start_dial, under the write lock: one of five. *)

Ready(t) ==
    /\ task' = [task EXCEPT ![t] = Gets(@, by_key[@.key])]
    /\ UNCHANGED <<by_id, by_key, dialing, reconnect, generation, dials, conns, overtaken>>

JoinsDial(t, k) ==
    /\ dialing' = [dialing EXCEPT ![k].waiters = @ \cup {t}]
    /\ task' = [task EXCEPT ![t].at = "wait"]
    /\ UNCHANGED <<by_id, by_key, reconnect, generation, dials, conns, overtaken>>

(* In the backoff window, with an error that says so or repeats the last     *)
(* dial's.                                                                   *)
FailsFast(t) ==
    /\ task' = [task EXCEPT ![t] = Out]
    /\ UNCHANGED <<by_id, by_key, dialing, reconnect, generation, dials, conns, overtaken>>

(* The entry to be replaced leaves before the cap is looked at. *)
ByKeyWithout(k) == [by_key EXCEPT ![k] = 0]

ReplacesStale(k) ==
    /\ by_id' = [i \in Ids |-> IF by_id[i] = by_key[k] THEN 0 ELSE by_id[i]]
    /\ conns' = Closed({by_key[k]})

(* Mutation: dials in progress are not counted. *)
counted_connections_open(keys) == Cardinality({k \in PoolKeys : is_alive(keys[k])})

counted_connections(keys) ==
    Cardinality({k \in PoolKeys : is_alive(keys[k])})
    + Cardinality({k \in PoolKeys : dialing[k].running})

(* At the cap coordination falls back on the data connection. *)
CapReached(t, k) ==
    /\ by_key' = ByKeyWithout(k)
    /\ ReplacesStale(k)
    /\ task' = [task EXCEPT ![t] =
           IF k[2] = "Coordination"
           THEN Asks(<<k[1], "Data">>, @.id)
           ELSE Out]
    /\ UNCHANGED <<dialing, reconnect, generation, dials, overtaken>>

(* spawn_dial: in a task of its own. *)
Dials(t, k) ==
    /\ Len(conns) < MaxDials
    /\ by_key' = ByKeyWithout(k)
    /\ by_id' = [i \in Ids |-> IF by_id[i] = by_key[k] THEN 0 ELSE by_id[i]]
    /\ conns' = Append(Closed({by_key[k]}),
                       [key |-> k, generation |-> generation, state |-> "dialled"])
    /\ dials' = dials \cup {[number |-> Len(conns) + 1, key |-> k, generation |-> generation]}
    /\ dialing' = [dialing EXCEPT ![k] = [running |-> TRUE, waiters |-> {t}]]
    /\ task' = [task EXCEPT ![t].at = "wait"]
    /\ UNCHANGED <<reconnect, generation, overtaken>>

start_dial(t) ==
    /\ task[t].at = "dial"
    /\ LET k == task[t].key
           usable == is_usable(by_key[k])
           running == dialing[k].running
       IN  \/ usable /\ Ready(t)
           \/ ~usable /\ running /\ JoinsDial(t, k)
           \/ ~usable /\ ~running /\ k[1] \in reconnect /\ FailsFast(t)
           \/ /\ ~usable /\ ~running /\ k[1] \notin reconnect
              /\ IF counted_connections(ByKeyWithout(k)) >= max_total_connections
                 THEN CapReached(t, k)
                 ELSE Dials(t, k)

-----------------------------------------------------------------------------
(* The dial's end: one critical section, then the waiters are told. *)

(* close_all since the dial began: the connection is closed instead. *)
Installs(d) == d.generation = generation

dial_succeeds(d) ==
    /\ dials' = dials \ {d}
    /\ dialing' = [dialing EXCEPT ![d.key] = NoDial]
    /\ IF Installs(d)
       THEN /\ reconnect' = reconnect \ {d.key[1]}
            /\ by_key' = [by_key EXCEPT ![d.key] = d.number]
            /\ conns' = Becomes(d.number, "usable")
            /\ task' = [t \in Tasks |-> IF t \in dialing[d.key].waiters
                                        THEN Gets(task[t], d.number) ELSE task[t]]
       ELSE /\ conns' = Becomes(d.number, "closed")
            /\ task' = [t \in Tasks |-> IF t \in dialing[d.key].waiters
                                        THEN Out ELSE task[t]]
            /\ UNCHANGED <<reconnect, by_key>>
    /\ UNCHANGED <<by_id, generation, overtaken>>

(* Refused, or not established within connect_timeout. *)
dial_fails(d) ==
    /\ dials' = dials \ {d}
    /\ dialing' = [dialing EXCEPT ![d.key] = NoDial]
    /\ reconnect' = reconnect \cup {d.key[1]}
    /\ conns' = Becomes(d.number, "closed")
    /\ task' = [t \in Tasks |-> IF t \in dialing[d.key].waiters THEN Out ELSE task[t]]
    /\ UNCHANGED <<by_id, by_key, generation, overtaken>>

backoff_passes(a) ==
    /\ a \in reconnect
    /\ reconnect' = reconnect \ {a}
    /\ UNCHANGED <<by_id, by_key, dialing, generation, dials, conns, task, overtaken>>

(* A session reaches its re-authentication point; a connection dies.         *)
connection_changes(c) ==
    /\ \/ State(c) = "usable" /\ conns' = Becomes(c, "expired")
       \/ /\ State(c) \in {"usable", "expired"}
          /\ conns' = Becomes(c, "closed")
    /\ UNCHANGED <<by_id, by_key, dialing, reconnect, generation, dials, task, overtaken>>

Pooled == {by_id[i] : i \in Ids} \cup {by_key[k] : k \in PoolKeys}

(* The evictor's tick: the idle connections leave both maps, and are closed. *)
evict_idle(idle) ==
    /\ idle \subseteq Pooled
    /\ by_id' = [i \in Ids |-> IF by_id[i] \in idle THEN 0 ELSE by_id[i]]
    /\ by_key' = [k \in PoolKeys |-> IF by_key[k] \in idle THEN 0 ELSE by_key[k]]
    /\ conns' = Closed(idle)
    /\ UNCHANGED <<dialing, reconnect, generation, dials, task, overtaken>>

close_all ==
    /\ generation < MaxCloses
    /\ generation' = generation + 1
    /\ reconnect' = {}
    /\ by_id' = [i \in Ids |-> 0]
    /\ by_key' = [k \in PoolKeys |-> 0]
    /\ dialing' = [k \in PoolKeys |-> NoDial]
    /\ conns' = Closed(Pooled)
    /\ task' = [t \in Tasks |-> IF task[t].at = "wait" THEN Out ELSE task[t]]
    /\ overtaken' = (overtaken \/ dials # {})
    /\ UNCHANGED dials

PoolNext ==
    \/ \E t \in Tasks : \/ get_connection(t) \/ get_connection_by_id(t) \/ get(t)
                        \/ start_dial(t) \/ register(t) \/ abandon(t)
    \/ \E d \in dials : dial_succeeds(d) \/ dial_fails(d)
    \/ \E a \in Addresses : backoff_passes(a)
    \/ \E c \in DOMAIN conns : connection_changes(c) \/ evict_idle({c})
    \/ close_all

PoolSpec == PoolInit /\ [][PoolNext]_poolVars

-----------------------------------------------------------------------------
(* Properties. *)

Open == {c \in DOMAIN conns : is_alive(c)}

(* The open connections and the dials that run never exceed                  *)
(* max_total_connections: whatever leaves the pool's maps is told to close,  *)
(* a dial in progress holds its slot, and two tasks never dial one key. As   *)
(* long as close_all has overtaken no dial: such a dial, when it ends,       *)
(* removes the entry of the dial that followed it (spawn_dial), which is     *)
(* then not counted.                                                         *)
WithinCap ==
    overtaken \/ Cardinality(Open) + Cardinality(dials) <= max_total_connections

(* A task waits only for a dial that runs and will answer it, after any      *)
(* interleaving of close_all, dials of earlier generations and tasks that    *)
(* stop waiting: a `dialing` entry without its dial would hang every later   *)
(* call for the address.                                                     *)
WaiterHasDial ==
    \A k \in PoolKeys :
        /\ \A t \in Tasks : task[t].at = "wait" /\ task[t].key = k =>
                               t \in dialing[k].waiters
        /\ dialing[k].running => \E d \in dials : d.key = k

(* A call gets a connection to the address it asked for and of the purpose   *)
(* it asked for (or fell back to), also by broker id after the broker moved  *)
(* and the registration of its old connection raced the move.                *)
Routed ==
    \A t \in Tasks : task[t].got # 0 => conns[task[t].got].key = task[t].key

(* After close_all no connection dialled before it is or becomes usable: not *)
(* one of the maps, not one whose dial was still running. (A later close_all *)
(* may miss a connection that lost its entry as in WithinCap.)               *)
ClosedForGood ==
    \/ overtaken /\ generation > 1
    \/ \A c \in Open : conns[c].generation = generation

(* Every call is answered by the right connection or by an error, also      *)
(* around close_all (get, spawn_dial, close_all).                           *)
PoolAnswers == WaiterHasDial /\ Routed /\ ClosedForGood
=============================================================================
