---------------------------- MODULE NetworkProofs ----------------------------
(***************************************************************************)
(* What the pool keeps, for any addresses, tasks, broker ids, dials, calls *)
(* of close_all and cap: who waits is answered, by a connection to where   *)
(* it asked, and the cap holds.  Then what the telemetry reporter owes its *)
(* broker and its client, for any counter, any number of subscriptions and *)
(* any number of lost answers.  Last, the version handshake: it finds the  *)
(* version both ends have, whatever ranges they have.                      *)
(***************************************************************************)
EXTENDS Wire, ConnectionPool, Telemetry, FiniteSetTheorems, TLAPS

Conn == [key : PoolKeys, generation : Nat,
         state : {"dialled", "usable", "expired", "closed"}]
Task == [at : {"out", "get", "dial", "wait", "register", "done"},
         key : PoolKeys \cup {<<>>}, id : Ids \cup {0}, got : Nat]
Dial == [number : Nat, key : PoolKeys, generation : Nat]
Entry == [running : BOOLEAN, waiters : SUBSET Tasks]
DataKeys == Addresses \X {"Data"}

Types ==
    /\ by_id \in [Ids -> Nat] /\ by_key \in [PoolKeys -> Nat]
    /\ dialing \in [PoolKeys -> Entry]
    /\ generation \in Nat
    /\ dials \subseteq Dial
    /\ conns \in Seq(Conn)
    /\ task \in [Tasks -> Task]

(* The maps point at connections of their key that are no dials any more,  *)
(* and a dial at a connection of its key that is nothing else yet.         *)
KeyRight(k, c, cs) ==
    c \in 0..Len(cs) /\ (c # 0 => cs[c].key = k /\ cs[c].state # "dialled")
IdRight(c, cs) ==
    c \in 0..Len(cs) /\ (c # 0 => cs[c].key \in DataKeys /\ cs[c].state # "dialled")
DialRight(d, cs) ==
    /\ d.number \in 1..Len(cs)
    /\ cs[d.number].key = d.key
    /\ cs[d.number].generation = d.generation
    /\ cs[d.number].state = "dialled"

(* A task that got a connection got the one it asked for; a call by broker *)
(* id is for a data connection, and a registration has its connection.     *)
TaskRight(tk, cs) ==
    /\ KeyRight(tk.key, tk.got, cs)
    /\ tk.id # 0 => tk.key \in DataKeys
    /\ tk.at \in {"get", "dial", "wait", "register"} => tk.key \in PoolKeys
    /\ tk.at \in {"get", "dial", "wait"} => tk.got = 0
    /\ tk.at = "register" => tk.id # 0

Routes ==
    /\ \A k \in PoolKeys : KeyRight(k, by_key[k], conns)
    /\ \A i \in Ids : IdRight(by_id[i], conns)
    /\ \A d \in dials : DialRight(d, conns) /\ d.generation <= generation
    /\ \A t \in Tasks : TaskRight(task[t], conns)

(* The waiters of an entry are the tasks that wait for its key, and an     *)
(* entry that runs has its dial; without a dial there are none.            *)
Waiters ==
    /\ \A k \in PoolKeys, t \in Tasks :
          t \in dialing[k].waiters <=> task[t].at = "wait" /\ task[t].key = k
    /\ \A k \in PoolKeys : IF dialing[k].running THEN \E d \in dials : d.key = k
                                                ELSE dialing[k].waiters = {}

(* Until a close_all overtakes a dial, every open connection is the one of *)
(* its key and every dial has its entry, alone and in no one's place.      *)
Accounted ==
    /\ \A c \in Open : by_key[conns[c].key] = c
    /\ \A d \in dials : /\ dialing[d.key].running
                        /\ d.generation = generation
                        /\ by_key[d.key] = 0
    /\ \A d, e \in dials : d.key = e.key => d = e

Books ==
    /\ overtaken \/ Accounted
    /\ generation = 0 => ~overtaken
    /\ IsFiniteSet(Open) /\ IsFiniteSet(dials)
    /\ WithinCap /\ ClosedForGood

IInv == Types /\ Routes /\ Waiters /\ Books

-----------------------------------------------------------------------------
(* Keys and connections. *)

(* A pool key is an address and a purpose. *)
LEMMA Keys ==
    /\ DataKeys \subseteq PoolKeys
    /\ \A k \in PoolKeys : k[1] \in Addresses /\ <<k[1], "Data">> \in DataKeys
    /\ \A k \in DataKeys : \A a : k[1] = a => k = <<a, "Data">>
    /\ \A a \in Addresses : <<a, "Data">> \in DataKeys
BY PoolAssumption DEF PoolKeys, DataKeys

(* There are finitely many of them. *)
LEMMA KeysFinite == IsFiniteSet(PoolKeys)
<1>1. IsFiniteSet(Coordinators)
  BY PoolAssumption, FS_Subset
<1>2. IsFiniteSet({"Data"}) /\ IsFiniteSet({"Coordination"})
  BY FS_Singleton
<1>3. IsFiniteSet(Addresses \X {"Data"}) /\ IsFiniteSet(Coordinators \X {"Coordination"})
  BY <1>1, <1>2, PoolAssumption, FS_Product
<1> QED BY <1>3, FS_Union DEF PoolKeys

(* Every connection has a key. *)
LEMMA ConnKeys ==
    ASSUME NEW cs \in Seq(Conn)
    PROVE  \A c \in 1..Len(cs) : cs[c] \in Conn /\ cs[c].key \in PoolKeys
<1>1. \A c \in 1..Len(cs) : cs[c] \in Conn
  OBVIOUS
<1>2. \A x \in Conn : x.key \in PoolKeys
  BY DEF Conn
<1> QED BY <1>1, <1>2

(* Connections keep their key and generation, and none is forgotten. *)
Grows(cs, ds) ==
    /\ Len(cs) <= Len(ds)
    /\ \A c \in 1..Len(cs) :
          /\ ds[c].key = cs[c].key /\ ds[c].generation = cs[c].generation
          /\ cs[c].state # "dialled" => ds[c].state # "dialled"

OpenOf(cs) == {c \in 1..Len(cs) : cs[c].state \in {"usable", "expired"}}

(* What is right of a connection stays right. *)
LEMMA RightKept ==
    ASSUME NEW cs \in Seq(Conn), NEW ds \in Seq(Conn), Grows(cs, ds)
    PROVE  /\ \A k, c : KeyRight(k, c, cs) => KeyRight(k, c, ds)
           /\ \A c : IdRight(c, cs) => IdRight(c, ds)
           /\ \A tk : TaskRight(tk, cs) => TaskRight(tk, ds)
<1>0. Len(cs) \in Nat /\ Len(ds) \in Nat /\ Len(cs) <= Len(ds)
  BY DEF Grows
<1>1. \A c \in 0..Len(cs) :
         /\ c \in 0..Len(ds)
         /\ c # 0 => /\ ds[c].key = cs[c].key
                     /\ cs[c].state # "dialled" => ds[c].state # "dialled"
  BY <1>0 DEF Grows
<1>2. \A k, c : KeyRight(k, c, cs) => KeyRight(k, c, ds)
  BY <1>1 DEF KeyRight
<1>3. \A c : IdRight(c, cs) => IdRight(c, ds)
  BY <1>1 DEF IdRight
<1>4. \A tk : TaskRight(tk, cs) => TaskRight(tk, ds)
  BY <1>2 DEF TaskRight
<1> QED BY <1>2, <1>3, <1>4

(* `Open` in terms of the connections alone. *)
LEMMA OpenIs == Types => Open = OpenOf(conns)
<1> SUFFICES ASSUME conns \in Seq(Conn) PROVE Open = OpenOf(conns)
  BY DEF Types
<1>1. DOMAIN conns = 1..Len(conns) /\ Len(conns) \in Nat
  OBVIOUS
<1>2. \A c \in DOMAIN conns : State(c) = conns[c].state
  BY <1>1 DEF State
<1> QED BY <1>1, <1>2 DEF Open, OpenOf, is_alive

(* What `close` of some connections does to all of them. *)
LEMMA ClosedConns ==
    ASSUME conns \in Seq(Conn), NEW which
    PROVE  /\ Closed(which) \in Seq(Conn)
           /\ Len(Closed(which)) = Len(conns)
           /\ Grows(conns, Closed(which))
           /\ \A c \in 1..Len(conns) :
                 /\ c \in which => Closed(which)[c].state = "closed"
                 /\ c \notin which => Closed(which)[c] = conns[c]
           /\ OpenOf(Closed(which)) = OpenOf(conns) \ which
<1> DEFINE cs == Closed(which)
<1>0. DOMAIN conns = 1..Len(conns) /\ Len(conns) \in Nat
      /\ \A c \in 1..Len(conns) : conns[c] \in Conn
  OBVIOUS
<1>1. \A c \in 1..Len(conns) :
         /\ cs[c] = IF c \in which THEN [conns[c] EXCEPT !.state = "closed"] ELSE conns[c]
         /\ [conns[c] EXCEPT !.state = "closed"] \in Conn
  BY <1>0 DEF Closed, Conn
<1>2. cs \in [1..Len(conns) -> Conn]
  BY <1>0, <1>1 DEF Closed
<1>3. cs \in Seq(Conn) /\ Len(cs) = Len(conns)
  BY <1>0, <1>2
<1>4. \A c \in 1..Len(conns) :
         /\ cs[c].key = conns[c].key /\ cs[c].generation = conns[c].generation
         /\ conns[c].state # "dialled" => cs[c].state # "dialled"
         /\ c \in which => cs[c].state = "closed"
         /\ c \notin which => cs[c] = conns[c]
  BY <1>0, <1>1 DEF Conn
<1>5. OpenOf(cs) = OpenOf(conns) \ which
  BY <1>3, <1>4 DEF OpenOf
<1> HIDE DEF cs
<1> QED BY <1>0, <1>3, <1>4, <1>5 DEF cs, Grows

(* What the end of a dial or of a connection does to all of them. *)
LEMMA SetState ==
    ASSUME conns \in Seq(Conn), NEW n \in 1..Len(conns),
           NEW s \in {"usable", "expired", "closed"}
    PROVE  /\ Becomes(n, s) \in Seq(Conn) /\ Len(Becomes(n, s)) = Len(conns)
           /\ Grows(conns, Becomes(n, s)) /\ Becomes(n, s)[n].state = s
           /\ \A c \in 1..Len(conns) : c # n => Becomes(n, s)[c] = conns[c]
           /\ OpenOf(Becomes(n, s)) \subseteq
                 OpenOf(conns) \cup (IF s = "closed" THEN {} ELSE {n})
<1> DEFINE cs == Becomes(n, s)
<1>0. Len(conns) \in Nat /\ DOMAIN conns = 1..Len(conns) /\ conns[n] \in Conn
  OBVIOUS
<1>1. [conns[n] EXCEPT !.state = s] \in Conn
  BY <1>0 DEF Conn
<1>2. cs \in Seq(Conn) /\ Len(cs) = Len(conns)
  BY <1>0, <1>1 DEF Becomes
<1>a. cs[n] = [conns[n] EXCEPT !.state = s]
  BY <1>0 DEF Becomes
<1>3. \A c \in 1..Len(conns) : c # n => cs[c] = conns[c]
  BY <1>0 DEF Becomes
<1> HIDE DEF cs
<1>4. cs[n].state = s /\ cs[n].key = conns[n].key /\ cs[n].generation = conns[n].generation
  BY <1>0, <1>a DEF Conn
<1>5. Grows(conns, cs)
  <2>1. s # "dialled"
    OBVIOUS
  <2> QED BY <1>0, <1>2, <1>3, <1>4, <2>1 DEF Grows
<1>6. OpenOf(cs) \subseteq OpenOf(conns) \cup (IF s = "closed" THEN {} ELSE {n})
  BY <1>2, <1>3, <1>4 DEF OpenOf
<1> QED BY <1>2, <1>3, <1>4, <1>5, <1>6 DEF cs

(* A new dial takes the next number. *)
LEMMA AppendConn ==
    ASSUME NEW cs \in Seq(Conn), NEW c \in Conn, c.state = "dialled"
    PROVE  LET ds == Append(cs, c)
           IN  /\ ds \in Seq(Conn) /\ Len(ds) = Len(cs) + 1 /\ Grows(cs, ds)
               /\ ds[Len(cs) + 1] = c
               /\ \A i \in 1..Len(cs) : ds[i] = cs[i]
               /\ OpenOf(ds) = OpenOf(cs)
<1> DEFINE ds == Append(cs, c)
<1>1. /\ ds \in Seq(Conn) /\ Len(ds) = Len(cs) + 1 /\ Len(cs) \in Nat
      /\ ds[Len(cs) + 1] = c
      /\ \A i \in 1..Len(cs) : ds[i] = cs[i]
  OBVIOUS
<1>2. Grows(cs, ds)
  BY <1>1 DEF Grows
<1>3. OpenOf(ds) = OpenOf(cs)
  <2>1. \A i \in 1..Len(ds) : i \in 1..Len(cs) \/ i = Len(cs) + 1
    BY <1>1
  <2> QED BY <1>1, <2>1 DEF OpenOf
<1> QED BY <1>1, <1>2, <1>3

-----------------------------------------------------------------------------
(* Types and routes. *)

(* A step that points maps, dials and tasks at connections of their key    *)
(* keeps the rest as right as it was.                                      *)
LEMMA RoutesStep ==
    ASSUME Types, Routes,
           conns' \in Seq(Conn), Grows(conns, conns'),
           dialing' \in [PoolKeys -> Entry], generation' \in Nat,
           by_id' \in [Ids -> Nat], by_key' \in [PoolKeys -> Nat],
           \A i \in Ids : by_id'[i] = by_id[i] \/ IdRight(by_id'[i], conns'),
           \A k \in PoolKeys : by_key'[k] = by_key[k] \/ KeyRight(k, by_key'[k], conns'),
           dials' \subseteq Dial,
           \A d \in dials' : DialRight(d, conns') /\ d.generation <= generation',
           task' \in [Tasks -> Task],
           \A t \in Tasks : task'[t] = task[t] \/ TaskRight(task'[t], conns')
    PROVE  Types' /\ Routes'
<1>1. Types'
  BY DEF Types
<1>2. /\ \A k, c : KeyRight(k, c, conns) => KeyRight(k, c, conns')
      /\ \A c : IdRight(c, conns) => IdRight(c, conns')
      /\ \A tk : TaskRight(tk, conns) => TaskRight(tk, conns')
  BY RightKept DEF Types
<1>3. \A k \in PoolKeys : KeyRight(k, by_key'[k], conns')
  BY <1>2 DEF Routes
<1>4. \A i \in Ids : IdRight(by_id'[i], conns')
  BY <1>2 DEF Routes
<1>5. \A t \in Tasks : TaskRight(task'[t], conns')
  BY <1>2 DEF Routes
<1> QED BY <1>1, <1>3, <1>4, <1>5 DEF Routes

(* Only one task moves. *)
LEMMA TaskStep ==
    ASSUME Types, Routes, NEW t \in Tasks, NEW nt \in Task, TaskRight(nt, conns),
           task' = [task EXCEPT ![t] = nt],
           dialing' \in [PoolKeys -> Entry],
           UNCHANGED <<by_id, by_key, generation, dials, conns>>
    PROVE  Types' /\ Routes'
<1>1. Grows(conns, conns)
  BY DEF Grows, Types
<1>2. task' \in [Tasks -> Task] /\ \A s \in Tasks : task'[s] = task[s] \/ task'[s] = nt
  BY DEF Types
<1> QED BY <1>1, <1>2, RoutesStep DEF Types, Routes

(* What a task that got a connection becomes. *)
LEMMA GetsRight ==
    ASSUME NEW tk \in Task, NEW cs \in Seq(Conn), TaskRight(tk, cs), tk.key \in PoolKeys,
           NEW c \in Nat, KeyRight(tk.key, c, cs)
    PROVE  /\ Gets(tk, c) \in Task
           /\ Gets(tk, c).at \in {"done", "register"}
           /\ TaskRight(Gets(tk, c), cs)
<1>1. /\ Gets(tk, c).at = (IF tk.id = 0 THEN "done" ELSE "register")
      /\ Gets(tk, c).got = c /\ Gets(tk, c).key = tk.key /\ Gets(tk, c).id = tk.id
      /\ Gets(tk, c) \in Task
  BY DEF Gets, Task
<1> QED BY <1>1 DEF TaskRight

(* A call that ended in an error. *)
LEMMA OutRight == Out \in Task /\ Out.at = "out" /\ \A cs \in Seq(Conn) : TaskRight(Out, cs)
BY DEF Out, Task, TaskRight, KeyRight

(* No dial is left of one that ended. *)
LEMMA NoDialRight == NoDial \in Entry /\ ~NoDial.running /\ NoDial.waiters = {}
BY DEF NoDial, Entry

(* The asking side of the pool: only the task that asks moves. *)
LEMMA AskRoutes ==
    ASSUME Types, Routes, NEW t \in Tasks,
           \/ get_connection(t) \/ get_connection_by_id(t) \/ get(t)
           \/ (task[t].at = "dial" /\ is_usable(by_key[task[t].key]) /\ Ready(t))
           \/ FailsFast(t)
    PROVE  Types' /\ Routes'
<1>0. /\ conns \in Seq(Conn) /\ task[t] \in Task /\ TaskRight(task[t], conns)
      /\ dialing \in [PoolKeys -> Entry]
  BY DEF Types, Routes
<1>1. CASE get_connection(t)
  <2>1. PICK k \in PoolKeys :
           task' = [task EXCEPT ![t] = Asks(k, 0)]
    BY <1>1 DEF get_connection
  <2>3. Asks(k, 0) \in Task /\ TaskRight(Asks(k, 0), conns)
    BY <1>0 DEF Asks, Task, TaskRight, KeyRight
  <2>4. UNCHANGED <<by_id, by_key, generation, dials, conns>> /\ dialing' = dialing
    BY <1>1 DEF get_connection
  <2> QED BY <1>0, <2>1, <2>3, <2>4, TaskStep
<1>2. CASE get_connection_by_id(t)
  <2>1. PICK i \in Ids, a \in Addresses :
           task' = [task EXCEPT ![t] =
             IF by_id_fits(i, a)
             THEN [at |-> "done", key |-> <<a, "Data">>, id |-> i, got |-> by_id[i]]
             ELSE Asks(<<a, "Data">>, i)]
    BY <1>2 DEF get_connection_by_id
  <2>2. <<a, "Data">> \in DataKeys /\ <<a, "Data">> \in PoolKeys /\ i # 0
    BY Keys, PoolAssumption
  <2>3. UNCHANGED <<by_id, by_key, generation, dials, conns>> /\ dialing' = dialing
    BY <1>2 DEF get_connection_by_id
  <2>4. CASE by_id_fits(i, a)
    <3> DEFINE nt == [at |-> "done", key |-> <<a, "Data">>, id |-> i, got |-> by_id[i]]
    <3>1. task' = [task EXCEPT ![t] = nt]
      BY <2>1, <2>4
    <3>2. by_id[i] \in Nat /\ IdRight(by_id[i], conns)
      BY DEF Types, Routes
    <3>3. by_id[i] # 0 => conns[by_id[i]].key = <<a, "Data">>
      BY <2>4, <3>2, Keys DEF by_id_fits, IdRight
    <3>4. nt \in Task /\ TaskRight(nt, conns)
      BY <2>2, <3>2, <3>3 DEF Task, TaskRight, KeyRight, IdRight
    <3> HIDE DEF nt
    <3> QED BY <1>0, <2>3, <3>1, <3>4, TaskStep
  <2>5. CASE ~by_id_fits(i, a)
    <3> DEFINE nt == Asks(<<a, "Data">>, i)
    <3>1. task' = [task EXCEPT ![t] = nt]
      BY <2>1, <2>5
    <3>2. nt \in Task /\ TaskRight(nt, conns)
      BY <1>0, <2>2 DEF Asks, Task, TaskRight, KeyRight
    <3> HIDE DEF nt
    <3> QED BY <1>0, <2>3, <3>1, <3>2, TaskStep
  <2> QED BY <2>4, <2>5
<1>3. CASE get(t)
  <2>0. task[t].key \in PoolKeys
    BY <1>0, <1>3 DEF get, TaskRight
  <2>a. task[t].got = 0
    BY <1>0, <1>3 DEF get, TaskRight
  <2>1. by_key[task[t].key] \in Nat /\ KeyRight(task[t].key, by_key[task[t].key], conns)
    BY <2>0 DEF Types, Routes
  <2>2. UNCHANGED <<by_id, by_key, generation, dials, conns>> /\ dialing' = dialing
    BY <1>3 DEF get
  <2>3. CASE is_usable(by_key[task[t].key])
    <3>1. task' = [task EXCEPT ![t] = Gets(task[t], by_key[task[t].key])]
      BY <1>0, <1>3, <2>3 DEF get, Types
    <3> QED BY <1>0, <2>0, <2>1, <2>2, <3>1, GetsRight, TaskStep
  <2>4. CASE ~is_usable(by_key[task[t].key])
    <3> DEFINE nt == [task[t] EXCEPT !.at = "dial"]
    <3>1. task' = [task EXCEPT ![t] = nt]
      BY <1>0, <1>3, <2>4 DEF get, Types
    <3>2. nt \in Task /\ nt.key = task[t].key /\ nt.got = task[t].got /\ nt.id = task[t].id
          /\ nt.at = "dial"
      BY <1>0 DEF Task
    <3>3. TaskRight(nt, conns)
      BY <1>0, <2>0, <2>a, <3>2 DEF TaskRight
    <3> HIDE DEF nt
    <3> QED BY <1>0, <2>2, <3>1, <3>2, <3>3, TaskStep
  <2> QED BY <2>3, <2>4
<1>4. CASE task[t].at = "dial" /\ is_usable(by_key[task[t].key]) /\ Ready(t)
  <2>0. task[t].key \in PoolKeys
    BY <1>0, <1>4 DEF TaskRight
  <2>1. by_key[task[t].key] \in Nat /\ KeyRight(task[t].key, by_key[task[t].key], conns)
    BY <2>0 DEF Types, Routes
  <2>2. UNCHANGED <<by_id, by_key, generation, dials, conns>> /\ dialing' = dialing
    BY <1>4 DEF Ready
  <2>3. task' = [task EXCEPT ![t] = Gets(task[t], by_key[task[t].key])]
    BY <1>4 DEF Ready, Types
  <2> QED BY <1>0, <2>0, <2>1, <2>2, <2>3, GetsRight, TaskStep
<1>5. CASE FailsFast(t)
  <2>1. /\ task' = [task EXCEPT ![t] = Out] /\ dialing' = dialing
        /\ UNCHANGED <<by_id, by_key, generation, dials, conns>>
    BY <1>5 DEF FailsFast
  <2> QED BY <1>0, <2>1, OutRight, TaskStep
<1> QED BY <1>1, <1>2, <1>3, <1>4, <1>5

(* Registering, leaving, joining: one task, one entry of by_id or dialing. *)
LEMMA JoinRoutes ==
    ASSUME Types, Routes, NEW t \in Tasks,
           \/ register(t) \/ abandon(t)
           \/ (task[t].at = "dial" /\ JoinsDial(t, task[t].key))
    PROVE  Types' /\ Routes'
<1>0. /\ conns \in Seq(Conn) /\ task[t] \in Task /\ TaskRight(task[t], conns)
      /\ dialing \in [PoolKeys -> Entry] /\ Grows(conns, conns)
      /\ task \in [Tasks -> Task]
  BY DEF Types, Routes, Grows
<1>1. CASE register(t)
  <2> DEFINE nt == [task[t] EXCEPT !.at = "done"]
  <2>1. /\ task' = [task EXCEPT ![t] = nt]
        /\ by_id' = [by_id EXCEPT ![task[t].id] = task[t].got]
        /\ UNCHANGED <<by_key, dialing, generation, dials, conns>>
    BY <1>0, <1>1 DEF register
  <2>2. /\ nt \in Task /\ nt.key = task[t].key /\ nt.got = task[t].got
        /\ nt.id = task[t].id /\ nt.at = "done"
    BY <1>0 DEF Task
  <2>3. TaskRight(nt, conns)
    BY <1>0, <2>2 DEF TaskRight
  <2>4. task[t].id \in Ids /\ task[t].got \in Nat /\ IdRight(task[t].got, conns)
    BY <1>0, <1>1 DEF register, TaskRight, KeyRight, IdRight, Task
  <2> HIDE DEF nt
  <2>5. by_id' \in [Ids -> Nat]
        /\ \A i \in Ids : by_id'[i] = by_id[i] \/ by_id'[i] = task[t].got
    BY <2>1, <2>4 DEF Types
  <2>6. task' \in [Tasks -> Task] /\ \A s \in Tasks : task'[s] = task[s] \/ task'[s] = nt
    BY <1>0, <2>1, <2>2
  <2> QED BY <1>0, <2>1, <2>3, <2>4, <2>5, <2>6, RoutesStep DEF Types, Routes
<1>2. CASE abandon(t)
  <2>1. /\ task' = [task EXCEPT ![t] = Out]
        /\ dialing' = [k \in PoolKeys |-> [dialing[k] EXCEPT !.waiters = @ \ {t}]]
        /\ UNCHANGED <<by_id, by_key, generation, dials, conns>>
    BY <1>2 DEF abandon, Abandons
  <2>2. dialing' \in [PoolKeys -> Entry]
    BY <1>0, <2>1 DEF Entry
  <2> QED BY <1>0, <2>1, <2>2, OutRight, TaskStep
<1>3. CASE task[t].at = "dial" /\ JoinsDial(t, task[t].key)
  <2> DEFINE nt == [task[t] EXCEPT !.at = "wait"]
  <2>1. /\ task' = [task EXCEPT ![t] = nt]
        /\ dialing' = [dialing EXCEPT ![task[t].key].waiters = @ \cup {t}]
        /\ UNCHANGED <<by_id, by_key, generation, dials, conns>>
    BY <1>0, <1>3 DEF JoinsDial
  <2>2. /\ nt \in Task /\ nt.key = task[t].key /\ nt.got = task[t].got
        /\ nt.id = task[t].id /\ nt.at = "wait"
    BY <1>0 DEF Task
  <2>3. task[t].key \in PoolKeys /\ TaskRight(nt, conns)
    BY <1>0, <1>3, <2>2 DEF TaskRight
  <2>4. dialing' \in [PoolKeys -> Entry]
    BY <1>0, <2>1, <2>3 DEF Entry
  <2> HIDE DEF nt
  <2> QED BY <1>0, <2>1, <2>2, <2>3, <2>4, TaskStep
<1> QED BY <1>1, <1>2, <1>3

(* Connections change, maps only lose entries, tasks and dials stay as     *)
(* right: a dial is no connection of the maps, so it is not closed.        *)
LEMMA CloseRoutes ==
    ASSUME Types, Routes, NEW which,
           \A c \in which : \/ c = 0 \/ \E k \in PoolKeys : c = by_key[k]
                            \/ \E i \in Ids : c = by_id[i],
           conns' = Closed(which), generation' \in Nat, generation <= generation',
           dialing' \in [PoolKeys -> Entry], dials' = dials,
           by_id' \in [Ids -> Nat], by_key' \in [PoolKeys -> Nat],
           \A i \in Ids : by_id'[i] = by_id[i] \/ by_id'[i] = 0,
           \A k \in PoolKeys : by_key'[k] = by_key[k] \/ by_key'[k] = 0,
           task' \in [Tasks -> Task],
           \A t \in Tasks : task'[t] = task[t] \/ TaskRight(task'[t], conns)
    PROVE  Types' /\ Routes'
<1>0. conns \in Seq(Conn) /\ generation \in Nat /\ dials \subseteq Dial
  BY DEF Types
<1>1. /\ conns' \in Seq(Conn) /\ Grows(conns, conns') /\ Len(conns') = Len(conns)
      /\ \A c \in 1..Len(conns) : c \notin which => conns'[c] = conns[c]
  BY <1>0, ClosedConns
<1>2. \A d \in dials : DialRight(d, conns') /\ d.generation <= generation'
  <2> SUFFICES ASSUME NEW d \in dials PROVE DialRight(d, conns') /\ d.generation <= generation'
    OBVIOUS
  <2>1. DialRight(d, conns) /\ d.generation <= generation /\ d.generation \in Nat
    BY <1>0 DEF Routes, Dial
  <2>2. d.number \notin which
    <3> SUFFICES ASSUME d.number \in which PROVE FALSE
      OBVIOUS
    <3>1. d.number # 0 /\ conns[d.number].state = "dialled"
      BY <1>0, <2>1 DEF DialRight
    <3> QED BY <3>1 DEF Routes, KeyRight, IdRight
  <2>3. conns'[d.number] = conns[d.number]
    BY <1>1, <2>1, <2>2 DEF DialRight
  <2>4. d.generation <= generation'
    BY <1>0, <2>1
  <2> QED BY <1>1, <2>1, <2>3, <2>4 DEF DialRight
<1>3. /\ \A i \in Ids : by_id'[i] = by_id[i] \/ IdRight(by_id'[i], conns')
      /\ \A k \in PoolKeys : by_key'[k] = by_key[k] \/ KeyRight(k, by_key'[k], conns')
  <2>1. IdRight(0, conns') /\ \A k : KeyRight(k, 0, conns')
    BY <1>1 DEF IdRight, KeyRight
  <2> QED BY <2>1
<1>4. \A t \in Tasks : task'[t] = task[t] \/ TaskRight(task'[t], conns')
  BY <1>0, <1>1, RightKept
<1> QED BY <1>0, <1>1, <1>2, <1>3, <1>4, RoutesStep

(* At the cap the entry to be replaced goes, and nothing comes. *)
LEMMA CapRoutes ==
    ASSUME Types, Routes, NEW t \in Tasks, task[t].at = "dial", CapReached(t, task[t].key)
    PROVE  Types' /\ Routes'
<1> DEFINE k == task[t].key
<1>0. /\ conns \in Seq(Conn) /\ task[t] \in Task /\ TaskRight(task[t], conns)
      /\ task \in [Tasks -> Task] /\ k \in PoolKeys /\ generation \in Nat
      /\ by_key \in [PoolKeys -> Nat] /\ by_id \in [Ids -> Nat]
  BY DEF Types, Routes, TaskRight
<1> DEFINE nt == IF k[2] = "Coordination"
                 THEN Asks(<<k[1], "Data">>, task[t].id)
                 ELSE Out
<1>1. /\ task' = [task EXCEPT ![t] = nt] /\ conns' = Closed({by_key[k]})
      /\ by_key' = [by_key EXCEPT ![k] = 0]
      /\ by_id' = [i \in Ids |-> IF by_id[i] = by_key[k] THEN 0 ELSE by_id[i]]
      /\ dialing' = dialing /\ generation' = generation /\ dials' = dials
  BY <1>0 DEF CapReached, ByKeyWithout, ReplacesStale
<1>2. nt \in Task /\ TaskRight(nt, conns)
  <2>1. CASE k[2] # "Coordination"
    BY <1>0, <2>1, OutRight
  <2>2. CASE k[2] = "Coordination"
    <3>1. k \notin DataKeys
      BY <2>2 DEF DataKeys
    <3>2. task[t].id = 0 /\ task[t].got = 0
      BY <1>0, <3>1 DEF TaskRight
    <3>3. <<k[1], "Data">> \in PoolKeys
      BY <1>0, Keys
    <3>4. nt = Asks(<<k[1], "Data">>, 0)
      BY <2>2, <3>2
    <3>5. \A j \in PoolKeys : Asks(j, 0) \in Task /\ TaskRight(Asks(j, 0), conns)
      BY <1>0 DEF Asks, Task, TaskRight, KeyRight
    <3> QED BY <3>3, <3>4, <3>5
  <2> QED BY <2>1, <2>2
<1> HIDE DEF nt
<1>3. task' \in [Tasks -> Task] /\ \A s \in Tasks : task'[s] = task[s] \/ task'[s] = nt
  BY <1>0, <1>1, <1>2
<1>4. /\ by_key' \in [PoolKeys -> Nat] /\ by_id' \in [Ids -> Nat]
      /\ \A i \in Ids : by_id'[i] = by_id[i] \/ by_id'[i] = 0
      /\ \A j \in PoolKeys : by_key'[j] = by_key[j] \/ by_key'[j] = 0
  BY <1>0, <1>1
<1>5. dialing' \in [PoolKeys -> Entry] /\ generation <= generation'
  BY <1>0, <1>1 DEF Types
<1>6. \A c \in {by_key[k]} : \/ c = 0 \/ \E j \in PoolKeys : c = by_key[j]
                             \/ \E i \in Ids : c = by_id[i]
  BY <1>0
<1>7. \A s \in Tasks : task'[s] = task[s] \/ TaskRight(task'[s], conns)
  BY <1>2, <1>3
<1>8. generation' \in Nat
  BY <1>0, <1>1
<1> HIDE DEF k
<1> QED BY <1>1, <1>3, <1>4, <1>5, <1>6, <1>7, <1>8, CloseRoutes

(* A dial begins: the next number, the key of the task, no map's entry. *)
LEMMA DialsRoutes ==
    ASSUME Types, Routes, NEW t \in Tasks, task[t].at = "dial", Dials(t, task[t].key)
    PROVE  Types' /\ Routes'
<1> DEFINE k == task[t].key
           new == [key |-> k, generation |-> generation, state |-> "dialled"]
           nd == [number |-> Len(conns) + 1, key |-> k, generation |-> generation]
           nt == [task[t] EXCEPT !.at = "wait"]
           mid == Closed({by_key[k]})
<1>0. /\ conns \in Seq(Conn) /\ task[t] \in Task /\ TaskRight(task[t], conns)
      /\ task \in [Tasks -> Task] /\ k \in PoolKeys /\ generation \in Nat
      /\ by_key \in [PoolKeys -> Nat] /\ by_id \in [Ids -> Nat]
      /\ dials \subseteq Dial /\ dialing \in [PoolKeys -> Entry]
  BY DEF Types, Routes, TaskRight
<1>1. /\ task' = [task EXCEPT ![t] = nt] /\ conns' = Append(mid, new)
      /\ by_key' = [by_key EXCEPT ![k] = 0]
      /\ by_id' = [i \in Ids |-> IF by_id[i] = by_key[k] THEN 0 ELSE by_id[i]]
      /\ dialing' = [dialing EXCEPT ![k] = [running |-> TRUE, waiters |-> {t}]]
      /\ generation' = generation /\ dials' = dials \cup {nd}
  BY <1>0 DEF Dials, ByKeyWithout
<1>2. /\ mid \in Seq(Conn) /\ Len(mid) = Len(conns) /\ Grows(conns, mid)
      /\ \A c \in 1..Len(conns) : c \notin {by_key[k]} => mid[c] = conns[c]
  BY <1>0, ClosedConns
<1>3. new \in Conn /\ new.state = "dialled" /\ new.key = k /\ new.generation = generation
  BY <1>0 DEF Conn
<1>4. /\ nd \in Dial /\ nd.number = Len(conns) + 1 /\ nd.key = k
      /\ nd.generation = generation
  BY <1>0 DEF Dial
<1>5. /\ nt \in Task /\ nt.key = k /\ nt.got = task[t].got /\ nt.id = task[t].id
      /\ nt.at = "wait"
  BY <1>0 DEF Task
<1>6. TaskRight(nt, conns)
  BY <1>0, <1>5 DEF TaskRight
<1> HIDE DEF new, nd, nt, mid
<1>7. /\ conns' \in Seq(Conn) /\ Len(conns') = Len(conns) + 1 /\ Grows(mid, conns')
      /\ conns'[Len(conns) + 1] = new
      /\ \A c \in 1..Len(conns) : conns'[c] = mid[c]
  BY <1>1, <1>2, <1>3, AppendConn
<1>8. Grows(conns, conns')
  BY <1>0, <1>2, <1>7 DEF Grows
<1>9. \A d \in dials' : DialRight(d, conns') /\ d.generation <= generation'
  <2>1. DialRight(nd, conns') /\ nd.generation <= generation'
    BY <1>0, <1>1, <1>3, <1>4, <1>7 DEF DialRight
  <2>2. ASSUME NEW d \in dials PROVE DialRight(d, conns') /\ d.generation <= generation'
    <3>1. DialRight(d, conns) /\ d.generation <= generation
      BY DEF Routes
    <3>2. KeyRight(k, by_key[k], conns)
      BY <1>0 DEF Routes
    <3>3. d.number # by_key[k]
      BY <1>0, <3>1, <3>2 DEF DialRight, KeyRight
    <3>4. d.number \in 1..Len(conns) /\ conns'[d.number] = conns[d.number]
      BY <1>2, <1>7, <3>1, <3>3 DEF DialRight
    <3>5. d.number \in 1..Len(conns')
      BY <1>0, <1>7, <3>4
    <3> QED BY <1>1, <3>1, <3>4, <3>5 DEF DialRight
  <2> QED BY <1>1, <2>1, <2>2
<1>10. /\ by_key' \in [PoolKeys -> Nat] /\ by_id' \in [Ids -> Nat]
       /\ \A i \in Ids : by_id'[i] = by_id[i] \/ by_id'[i] = 0
       /\ \A j \in PoolKeys : by_key'[j] = by_key[j] \/ by_key'[j] = 0
  BY <1>0, <1>1
<1>11. /\ \A i \in Ids : by_id'[i] = by_id[i] \/ IdRight(by_id'[i], conns')
       /\ \A j \in PoolKeys : by_key'[j] = by_key[j] \/ KeyRight(j, by_key'[j], conns')
  <2>1. IdRight(0, conns') /\ \A j : KeyRight(j, 0, conns')
    BY <1>7 DEF IdRight, KeyRight
  <2> QED BY <2>1, <1>10
<1>12. task' \in [Tasks -> Task] /\ \A s \in Tasks : task'[s] = task[s] \/ task'[s] = nt
  BY <1>0, <1>1, <1>5
<1>13. \A s \in Tasks : task'[s] = task[s] \/ TaskRight(task'[s], conns')
  BY <1>0, <1>6, <1>7, <1>8, <1>12, RightKept
<1>14. dialing' \in [PoolKeys -> Entry] /\ generation' \in Nat /\ dials' \subseteq Dial
  <2>1. [running |-> TRUE, waiters |-> {t}] \in Entry
    BY DEF Entry
  <2> QED BY <1>0, <1>1, <1>4, <2>1
<1> QED BY <1>7, <1>8, <1>9, <1>10, <1>11, <1>12, <1>13, <1>14, RoutesStep

(* Two dials of one number are one. *)
LEMMA DialsDiffer ==
    ASSUME Types, Routes, NEW d \in dials, NEW e \in dials, d.number = e.number
    PROVE  d = e
<1>1. DialRight(d, conns) /\ DialRight(e, conns) /\ d \in Dial /\ e \in Dial
  BY DEF Types, Routes
<1>2. d.key = e.key /\ d.generation = e.generation
  BY <1>1 DEF DialRight
<1> QED BY <1>1, <1>2 DEF Dial

(* What the end of a dial leaves alone: the other dials are still dialled. *)
LEMMA EndedDial ==
    ASSUME Types, Routes, NEW d \in dials, NEW s \in {"usable", "closed"},
           conns' \in Seq(Conn), Len(conns') = Len(conns), Grows(conns, conns'),
           conns'[d.number].state = s,
           \A c \in 1..Len(conns) : c # d.number => conns'[c] = conns[c],
           dials' = dials \ {d}, dialing' = [dialing EXCEPT ![d.key] = NoDial],
           generation' = generation
    PROVE  /\ conns' \in Seq(Conn) /\ Grows(conns, conns')
           /\ dialing' \in [PoolKeys -> Entry] /\ generation' \in Nat /\ dials' \subseteq Dial
           /\ \A e \in dials' : DialRight(e, conns') /\ e.generation <= generation'
           /\ d.number \in Nat /\ d.key \in PoolKeys
           /\ KeyRight(d.key, d.number, conns')
<1>0. /\ conns \in Seq(Conn) /\ dialing \in [PoolKeys -> Entry] /\ generation \in Nat
      /\ dials \subseteq Dial /\ d \in Dial /\ DialRight(d, conns)
  BY DEF Types, Routes
<1>1. d.number \in 1..Len(conns) /\ d.key \in PoolKeys /\ d.number \in Nat
  BY <1>0 DEF DialRight, Dial
<1>3. \A e \in dials' : DialRight(e, conns') /\ e.generation <= generation'
  <2> SUFFICES ASSUME NEW e \in dials, e # d
               PROVE  DialRight(e, conns') /\ e.generation <= generation'
    OBVIOUS
  <2>1. e.number # d.number
    BY DialsDiffer
  <2>2. DialRight(e, conns) /\ e.generation <= generation
    BY DEF Routes
  <2> QED BY <2>1, <2>2 DEF DialRight
<1>4. dialing' \in [PoolKeys -> Entry]
  BY <1>0, <1>1, NoDialRight
<1>5. KeyRight(d.key, d.number, conns')
  BY <1>0, <1>1 DEF KeyRight, Grows, DialRight
<1> QED BY <1>0, <1>1, <1>3, <1>4, <1>5

(* A dial ends: installed, too late, or failed. *)
LEMMA EndRoutes ==
    ASSUME Types, Routes, Waiters, NEW d \in dials, dial_succeeds(d) \/ dial_fails(d)
    PROVE  Types' /\ Routes'
<1>0. /\ conns \in Seq(Conn) /\ task \in [Tasks -> Task] /\ d.key \in PoolKeys
      /\ d.number \in 1..Len(conns)
      /\ by_key \in [PoolKeys -> Nat] /\ by_id \in [Ids -> Nat]
      /\ dials' = dials \ {d} /\ dialing' = [dialing EXCEPT ![d.key] = NoDial]
      /\ by_id' = by_id /\ generation' = generation
  BY DEF Types, Routes, DialRight, Dial, dial_succeeds, dial_fails
<1>1. CASE dial_succeeds(d) /\ Installs(d)
  <2>1. /\ conns' = Becomes(d.number, "usable")
        /\ by_key' = [by_key EXCEPT ![d.key] = d.number]
        /\ task' = [t \in Tasks |-> IF t \in dialing[d.key].waiters
                                    THEN Gets(task[t], d.number) ELSE task[t]]
    BY <1>1 DEF dial_succeeds
  <2>a. /\ conns' \in Seq(Conn) /\ Len(conns') = Len(conns) /\ Grows(conns, conns')
        /\ conns'[d.number].state = "usable"
        /\ \A c \in 1..Len(conns) : c # d.number => conns'[c] = conns[c]
    BY <1>0, <2>1, SetState
  <2>2. /\ conns' \in Seq(Conn) /\ Grows(conns, conns')
        /\ dialing' \in [PoolKeys -> Entry] /\ generation' \in Nat /\ dials' \subseteq Dial
        /\ \A e \in dials' : DialRight(e, conns') /\ e.generation <= generation'
        /\ d.number \in Nat
        /\ KeyRight(d.key, d.number, conns')
    BY <1>0, <2>a, EndedDial
  <2>3. /\ by_key' \in [PoolKeys -> Nat]
        /\ \A k \in PoolKeys : by_key'[k] = by_key[k] \/ KeyRight(k, by_key'[k], conns')
    BY <1>0, <2>1, <2>2
  <2>4. ASSUME NEW t \in Tasks, t \in dialing[d.key].waiters
        PROVE  /\ Gets(task[t], d.number) \in Task
               /\ TaskRight(Gets(task[t], d.number), conns')
    <3>1. task[t].key = d.key /\ task[t] \in Task /\ TaskRight(task[t], conns)
      BY <1>0, <2>4 DEF Waiters, Routes
    <3>2. TaskRight(task[t], conns')
      BY <1>0, <2>2, <3>1, RightKept
    <3> QED BY <1>0, <2>2, <3>1, <3>2, GetsRight
  <2>5. /\ task' \in [Tasks -> Task]
        /\ \A t \in Tasks : task'[t] = task[t] \/ TaskRight(task'[t], conns')
    BY <1>0, <2>1, <2>4
  <2> QED BY <1>0, <2>2, <2>3, <2>5, RoutesStep
<1>2. CASE dial_fails(d) \/ (dial_succeeds(d) /\ ~Installs(d))
  <2>1. /\ conns' = Becomes(d.number, "closed")
        /\ by_key' = by_key
        /\ task' = [t \in Tasks |-> IF t \in dialing[d.key].waiters THEN Out ELSE task[t]]
    BY <1>2 DEF dial_succeeds, dial_fails
  <2>a. /\ conns' \in Seq(Conn) /\ Len(conns') = Len(conns) /\ Grows(conns, conns')
        /\ conns'[d.number].state = "closed"
        /\ \A c \in 1..Len(conns) : c # d.number => conns'[c] = conns[c]
    BY <1>0, <2>1, SetState
  <2>2. /\ conns' \in Seq(Conn) /\ Grows(conns, conns')
        /\ dialing' \in [PoolKeys -> Entry] /\ generation' \in Nat /\ dials' \subseteq Dial
        /\ \A e \in dials' : DialRight(e, conns') /\ e.generation <= generation'
    BY <1>0, <2>a, EndedDial
  <2>3. /\ task' \in [Tasks -> Task]
        /\ \A t \in Tasks : task'[t] = task[t] \/ TaskRight(task'[t], conns')
    BY <1>0, <2>1, <2>2, OutRight
  <2> QED BY <1>0, <2>1, <2>2, <2>3, RoutesStep
<1> QED BY <1>1, <1>2

(* What the maps hold. *)
LEMMA PooledIs ==
    \A x : x \in Pooled <=> \/ \E k \in PoolKeys : x = by_key[k]
                            \/ \E i \in Ids : x = by_id[i]
<1>1. \A x : x \in Pooled <=> \/ x \in {by_id[i] : i \in Ids}
                              \/ x \in {by_key[k] : k \in PoolKeys}
  BY DEF Pooled
<1>2. \A x : x \in {by_id[i] : i \in Ids} <=> \E i \in Ids : x = by_id[i]
  BY Zenon
<1>3. \A x : x \in {by_key[k] : k \in PoolKeys} <=> \E k \in PoolKeys : x = by_key[k]
  BY Zenon
<1> QED BY <1>1, <1>2, <1>3

(* Time: a backoff, a connection's end, idle connections, close_all. *)
LEMMA TimeRoutes ==
    ASSUME Types, Routes,
           \/ \E a \in Addresses : backoff_passes(a)
           \/ \E c \in DOMAIN conns : connection_changes(c) \/ evict_idle({c})
           \/ close_all
    PROVE  Types' /\ Routes'
<1>0. /\ conns \in Seq(Conn) /\ task \in [Tasks -> Task] /\ dials \subseteq Dial
      /\ by_key \in [PoolKeys -> Nat] /\ by_id \in [Ids -> Nat]
      /\ dialing \in [PoolKeys -> Entry] /\ generation \in Nat
      /\ DOMAIN conns = 1..Len(conns)
  BY DEF Types
<1>1. ASSUME NEW a \in Addresses, backoff_passes(a) PROVE Types' /\ Routes'
  BY <1>1 DEF backoff_passes, Types, Routes
<1>2. ASSUME NEW c \in DOMAIN conns, connection_changes(c) PROVE Types' /\ Routes'
  <2>1. PICK s \in {"expired", "closed"} : conns' = Becomes(c, s)
    BY <1>2 DEF connection_changes
  <2>2. UNCHANGED <<by_id, by_key, dialing, generation, dials, task>>
    BY <1>2 DEF connection_changes
  <2>3. conns[c].state \in {"usable", "expired"}
    BY <1>0, <1>2 DEF connection_changes, State
  <2>4. /\ conns' \in Seq(Conn) /\ Len(conns') = Len(conns) /\ Grows(conns, conns')
        /\ \A i \in 1..Len(conns) : i # c => conns'[i] = conns[i]
    BY <1>0, <2>1, SetState
  <2>5. \A d \in dials : DialRight(d, conns') /\ d.generation <= generation'
    BY <2>2, <2>3, <2>4 DEF DialRight, Routes
  <2> QED BY <1>0, <2>2, <2>4, <2>5, RoutesStep
<1>3. ASSUME NEW c \in DOMAIN conns, evict_idle({c}) PROVE Types' /\ Routes'
  <2>1. /\ {c} \subseteq Pooled /\ conns' = Closed({c})
        /\ by_id' = [i \in Ids |-> IF by_id[i] \in {c} THEN 0 ELSE by_id[i]]
        /\ by_key' = [k \in PoolKeys |-> IF by_key[k] \in {c} THEN 0 ELSE by_key[k]]
        /\ UNCHANGED <<dialing, generation, dials, task>>
    BY <1>3 DEF evict_idle
  <2>2. \A x \in {c} : \/ x = 0 \/ \E k \in PoolKeys : x = by_key[k]
                       \/ \E i \in Ids : x = by_id[i]
    BY <2>1, PooledIs, Zenon
  <2>3. /\ by_id' \in [Ids -> Nat] /\ by_key' \in [PoolKeys -> Nat]
        /\ \A i \in Ids : by_id'[i] = by_id[i] \/ by_id'[i] = 0
        /\ \A k \in PoolKeys : by_key'[k] = by_key[k] \/ by_key'[k] = 0
    BY <1>0, <2>1
  <2>4. /\ generation' \in Nat /\ generation <= generation'
        /\ dialing' \in [PoolKeys -> Entry] /\ task' \in [Tasks -> Task]
    BY <1>0, <2>1
  <2> QED BY <2>1, <2>2, <2>3, <2>4, CloseRoutes
<1>4. CASE close_all
  <2>1. /\ conns' = Closed(Pooled) /\ generation' = generation + 1 /\ dials' = dials
        /\ by_id' = [i \in Ids |-> 0] /\ by_key' = [k \in PoolKeys |-> 0]
        /\ dialing' = [k \in PoolKeys |-> NoDial]
        /\ task' = [t \in Tasks |-> IF task[t].at = "wait" THEN Out ELSE task[t]]
    BY <1>4 DEF close_all
  <2>2. \A x \in Pooled : \/ x = 0 \/ \E k \in PoolKeys : x = by_key[k]
                          \/ \E i \in Ids : x = by_id[i]
    BY PooledIs, Zenon
  <2>3. /\ by_id' \in [Ids -> Nat] /\ by_key' \in [PoolKeys -> Nat]
        /\ \A i \in Ids : by_id'[i] = by_id[i] \/ by_id'[i] = 0
        /\ \A k \in PoolKeys : by_key'[k] = by_key[k] \/ by_key'[k] = 0
    BY <2>1
  <2>4. generation' \in Nat /\ generation <= generation' /\ dialing' \in [PoolKeys -> Entry]
    BY <1>0, <2>1, NoDialRight
  <2>5. task' \in [Tasks -> Task]
        /\ \A t \in Tasks : task'[t] = task[t] \/ TaskRight(task'[t], conns)
    BY <1>0, <2>1, OutRight
  <2> QED BY <2>1, <2>2, <2>3, <2>4, <2>5, CloseRoutes
<1> QED BY <1>1, <1>2, <1>3, <1>4

-----------------------------------------------------------------------------
(* Waiters. *)

(* A step of tasks that do not wait and go on not to. *)
LEMMA QuietWaiters ==
    ASSUME Waiters, dialing' = dialing, dials' = dials,
           \A s \in Tasks : task'[s] = task[s] \/ (task[s].at # "wait" /\ task'[s].at # "wait")
    PROVE  Waiters'
BY DEF Waiters

(* The asking side: a task that asks does not wait yet. *)
LEMMA AskWaiters ==
    ASSUME Types, Routes, Waiters, NEW t \in Tasks,
           \/ get_connection(t) \/ get_connection_by_id(t) \/ get(t) \/ register(t)
           \/ task[t].at = "dial" /\ (Ready(t) \/ FailsFast(t) \/ CapReached(t, task[t].key))
    PROVE  Waiters'
<1>0. task \in [Tasks -> Task] /\ task[t] \in Task
  BY DEF Types
<1>1. task[t].at # "wait" /\ dialing' = dialing /\ dials' = dials
  BY DEF get_connection, get_connection_by_id, get, register, Ready, FailsFast, CapReached
<1>2. \A s \in Tasks : s # t => task'[s] = task[s]
  BY <1>0 DEF get_connection, get_connection_by_id, get, register, Ready, FailsFast, CapReached
<1>3. task'[t].at # "wait"
  <2>1. ASSUME get_connection(t) PROVE task'[t].at # "wait"
    <3>1. PICK k \in PoolKeys : task' = [task EXCEPT ![t] = Asks(k, 0)]
      BY <2>1 DEF get_connection
    <3> QED BY <1>0, <3>1 DEF Asks
  <2>2. ASSUME get_connection_by_id(t) PROVE task'[t].at # "wait"
    <3>1. PICK i \in Ids, a \in Addresses :
           task' = [task EXCEPT ![t] =
             IF by_id_fits(i, a)
             THEN [at |-> "done", key |-> <<a, "Data">>, id |-> i, got |-> by_id[i]]
             ELSE Asks(<<a, "Data">>, i)]
      BY <2>2 DEF get_connection_by_id
    <3> QED BY <1>0, <3>1 DEF Asks
  <2>3. \A c : Gets(task[t], c).at # "wait"
    BY <1>0 DEF Gets, Task
  <2>4. ASSUME get(t) PROVE task'[t].at # "wait"
    <3>1. task'[t] = IF is_usable(by_key[task[t].key]) THEN Gets(task[t], by_key[task[t].key])
                     ELSE [task[t] EXCEPT !.at = "dial"]
      BY <1>0, <2>4 DEF get
    <3>2. [task[t] EXCEPT !.at = "dial"].at = "dial"
      BY <1>0 DEF Task
    <3> QED BY <2>3, <3>1, <3>2
  <2>5. ASSUME register(t) PROVE task'[t].at # "wait"
    <3>1. task'[t] = [task[t] EXCEPT !.at = "done"]
      BY <1>0, <2>5 DEF register
    <3> QED BY <1>0, <3>1 DEF Task
  <2>6. ASSUME Ready(t) PROVE task'[t].at # "wait"
    <3>1. task'[t] = Gets(task[t], by_key[task[t].key])
      BY <1>0, <2>6 DEF Ready
    <3> QED BY <2>3, <3>1
  <2>7. ASSUME FailsFast(t) PROVE task'[t].at # "wait"
    BY <1>0, <2>7, OutRight DEF FailsFast
  <2>8. ASSUME CapReached(t, task[t].key) PROVE task'[t].at # "wait"
    <3>1. task'[t] = IF task[t].key[2] = "Coordination"
                     THEN Asks(<<task[t].key[1], "Data">>, task[t].id) ELSE Out
      BY <1>0, <2>8 DEF CapReached
    <3> QED BY <3>1, OutRight DEF Asks
  <2> QED BY <2>1, <2>2, <2>4, <2>5, <2>6, <2>7, <2>8
<1> QED BY <1>1, <1>2, <1>3, QuietWaiters

(* Joining a dial, starting one, giving up the wait. *)
LEMMA DialWaiters ==
    ASSUME Types, Routes, Waiters, NEW t \in Tasks,
           \/ abandon(t)
           \/ /\ task[t].at = "dial"
              /\ \/ dialing[task[t].key].running /\ JoinsDial(t, task[t].key)
                 \/ ~dialing[task[t].key].running /\ Dials(t, task[t].key)
    PROVE  Waiters'
<1>0. /\ task \in [Tasks -> Task] /\ task[t] \in Task /\ dialing \in [PoolKeys -> Entry]
      /\ \A k \in PoolKeys : dialing[k] \in Entry
  BY DEF Types
<1>1. CASE abandon(t)
  <2>1. /\ task' = [task EXCEPT ![t] = Out] /\ dials' = dials
        /\ \A k \in PoolKeys : dialing'[k] = [dialing[k] EXCEPT !.waiters = @ \ {t}]
    BY <1>1 DEF abandon, Abandons
  <2>2. \A k \in PoolKeys : /\ dialing'[k].waiters = dialing[k].waiters \ {t}
                            /\ dialing'[k].running = dialing[k].running
    BY <1>0, <2>1 DEF Entry
  <2>3. task'[t].at # "wait" /\ \A s \in Tasks : s # t => task'[s] = task[s]
    BY <1>0, <2>1, OutRight
  <2> QED BY <2>1, <2>2, <2>3 DEF Waiters
<1> DEFINE k == task[t].key
<1>2. CASE task[t].at = "dial" /\ dialing[k].running /\ JoinsDial(t, k)
  <2>0. k \in PoolKeys
    BY <1>2 DEF Routes, TaskRight
  <2>1. /\ task' = [task EXCEPT ![t].at = "wait"] /\ dials' = dials
        /\ dialing' = [dialing EXCEPT ![k].waiters = @ \cup {t}]
    BY <1>2 DEF JoinsDial
  <2>2. /\ dialing'[k].waiters = dialing[k].waiters \cup {t} /\ dialing'[k].running
        /\ \A j \in PoolKeys : j # k => dialing'[j] = dialing[j]
    BY <1>0, <1>2, <2>0, <2>1 DEF Entry
  <2>3. /\ task'[t].at = "wait" /\ task'[t].key = k
        /\ \A s \in Tasks : s # t => task'[s] = task[s]
    BY <1>0, <2>1 DEF Task
  <2> QED BY <1>2, <2>0, <2>1, <2>2, <2>3 DEF Waiters
<1>3. CASE task[t].at = "dial" /\ ~dialing[k].running /\ Dials(t, k)
  <2>0. k \in PoolKeys
    BY <1>3 DEF Routes, TaskRight
  <2>1. /\ task' = [task EXCEPT ![t].at = "wait"]
        /\ dials' = dials \cup {[number |-> Len(conns) + 1, key |-> k, generation |-> generation]}
        /\ dialing' = [dialing EXCEPT ![k] = [running |-> TRUE, waiters |-> {t}]]
    BY <1>3 DEF Dials
  <2>a. dialing' = [dialing EXCEPT ![k] = [running |-> TRUE, waiters |-> {t}]]
    BY <2>1
  <2>2. /\ dialing'[k].waiters = {t} /\ dialing'[k].running
        /\ \A j \in PoolKeys : j # k => dialing'[j] = dialing[j]
    BY <1>0, <2>0, <2>a
  <2>3. /\ task'[t].at = "wait" /\ task'[t].key = k
        /\ \A s \in Tasks : s # t => task'[s] = task[s]
    BY <1>0, <2>1 DEF Task
  <2>b. PICK new : /\ new = [number |-> Len(conns) + 1, key |-> k, generation |-> generation]
                   /\ dials' = dials \cup {new}
    BY <2>1
  <2>4. dials \subseteq dials' /\ \E d \in dials' : d.key = k
    BY <2>b
  <2>5. dialing[k].waiters = {}
    BY <1>3, <2>0 DEF Waiters
  <2> QED BY <1>3, <2>0, <2>2, <2>3, <2>4, <2>5 DEF Waiters
<1> QED BY <1>1, <1>2, <1>3

(* A dial's end answers all of its waiters; close_all answers everybody's. *)
LEMMA EndWaiters ==
    ASSUME Types, Routes, Waiters,
           (\E d \in dials : dial_succeeds(d) \/ dial_fails(d)) \/ close_all
    PROVE  Waiters'
<1>0. /\ task \in [Tasks -> Task] /\ dialing \in [PoolKeys -> Entry]
      /\ \A t \in Tasks : task[t] \in Task
  BY DEF Types
<1>1. ASSUME NEW d \in dials, dial_succeeds(d) \/ dial_fails(d) PROVE Waiters'
  <2>1. d.key \in PoolKeys
    BY DEF Types, Dial
  <2>2. dials' = dials \ {d} /\ dialing' = [dialing EXCEPT ![d.key] = NoDial]
    BY <1>1 DEF dial_succeeds, dial_fails
  <2>3. \A t \in Tasks :
           \/ t \in dialing[d.key].waiters
              /\ (task'[t] = Gets(task[t], d.number) \/ task'[t] = Out)
           \/ t \notin dialing[d.key].waiters /\ task'[t] = task[t]
    BY <1>1 DEF dial_succeeds, dial_fails
  <2>4. \A t \in Tasks : Gets(task[t], d.number).at # "wait"
    BY <1>0 DEF Gets, Task
  <2>5. \A t \in Tasks : IF t \in dialing[d.key].waiters THEN task'[t].at # "wait"
                         ELSE task'[t] = task[t]
    BY <2>3, <2>4, OutRight
  <2>6. /\ ~dialing'[d.key].running /\ dialing'[d.key].waiters = {}
        /\ \A j \in PoolKeys : j # d.key => dialing'[j] = dialing[j]
    BY <1>0, <2>1, <2>2, NoDialRight
  <2>7. \A k \in PoolKeys, t \in Tasks :
           t \in dialing'[k].waiters <=> task'[t].at = "wait" /\ task'[t].key = k
    BY <2>1, <2>5, <2>6 DEF Waiters
  <2>8. \A k \in PoolKeys : IF dialing'[k].running THEN \E e \in dials' : e.key = k
                                                   ELSE dialing'[k].waiters = {}
    BY <2>1, <2>2, <2>6 DEF Waiters
  <2> QED BY <2>7, <2>8 DEF Waiters
<1>2. CASE close_all
  <2>1. /\ dialing' = [k \in PoolKeys |-> NoDial]
        /\ task' = [t \in Tasks |-> IF task[t].at = "wait" THEN Out ELSE task[t]]
    BY <1>2 DEF close_all
  <2>2. \A k \in PoolKeys : ~dialing'[k].running /\ dialing'[k].waiters = {}
    BY <2>1, NoDialRight
  <2>3. \A t \in Tasks : task'[t].at # "wait"
    BY <2>1, OutRight
  <2> QED BY <2>2, <2>3 DEF Waiters
<1> QED BY <1>1, <1>2

-----------------------------------------------------------------------------
(* The books. *)

LEMMA OpenNext == Types' => Open' = OpenOf(conns')
<1> SUFFICES ASSUME conns' \in Seq(Conn) PROVE Open' = OpenOf(conns')
  BY DEF Types
<1>1. DOMAIN conns' = 1..Len(conns') /\ Len(conns') \in Nat
  OBVIOUS
<1>2. \A c \in DOMAIN conns' : State(c)' = conns'[c].state
  BY <1>1 DEF State
<1> QED BY <1>1, <1>2 DEF Open, OpenOf, is_alive

(* A map that tells the elements of a set apart bounds its size. *)
LEMMA Injected ==
    ASSUME NEW S, NEW T, IsFiniteSet(T), NEW f \in [S -> T],
           \A x, y \in S : f[x] = f[y] => x = y
    PROVE  IsFiniteSet(S) /\ Cardinality(S) <= Cardinality(T)
<1>1. f \in Injection(S, T)
  BY DEF Injection, IsInjective
<1> QED BY <1>1, FS_Injection

(* A step that opens nothing, ends no dial and takes no open connection    *)
(* out of its place keeps the books.                                       *)
LEMMA BooksShrink ==
    ASSUME Types, Books, Types',
           Grows(conns, conns'), OpenOf(conns') \subseteq OpenOf(conns),
           dials' = dials, generation' = generation, overtaken' = overtaken,
           \A k \in PoolKeys : dialing'[k].running = dialing[k].running,
           \A k \in PoolKeys : by_key[k] = 0 => by_key'[k] = 0,
           \A c \in OpenOf(conns') : by_key[conns[c].key] = c => by_key'[conns[c].key] = c
    PROVE  Books'
<1>1. Open' = OpenOf(conns') /\ Open = OpenOf(conns) /\ Open' \subseteq Open
  BY OpenIs, OpenNext
<1>2. \A c \in Open' : c \in Open /\ c \in 1..Len(conns)
  BY <1>1 DEF OpenOf
<1>3. \A c \in Open' : conns'[c].key = conns[c].key /\ conns'[c].generation = conns[c].generation
  BY <1>2 DEF Grows
<1>4. \A d \in dials : d.key \in PoolKeys
  BY DEF Types, Dial
<1>5. Accounted => Accounted'
  BY <1>1, <1>2, <1>3, <1>4 DEF Accounted
<1>6. /\ IsFiniteSet(Open') /\ Cardinality(Open') <= Cardinality(Open)
      /\ Cardinality(Open') \in Nat /\ Cardinality(Open) \in Nat /\ Cardinality(dials) \in Nat
  BY <1>1, FS_Subset, FS_CardinalityType DEF Books
<1>7. WithinCap'
  <2>1. WithinCap
    BY DEF Books
  <2> QED BY <1>6, <2>1, PoolAssumption DEF WithinCap
<1>8. ClosedForGood'
  BY <1>2, <1>3 DEF Books, ClosedForGood
<1> QED BY <1>5, <1>6, <1>7, <1>8 DEF Books

(* Nothing the books look at has moved. *)
LEMMA BooksSame ==
    ASSUME Types, Books, Types',
           conns' = conns, by_key' = by_key, dials' = dials, generation' = generation,
           overtaken' = overtaken,
           \A k \in PoolKeys : dialing'[k].running = dialing[k].running
    PROVE  Books'
<1>1. Grows(conns, conns)
  BY DEF Grows, Types
<1> QED BY <1>1, BooksShrink

(* What asks, waits or gives up. *)
LEMMA AskBooks ==
    ASSUME Types, Routes, Books, Types', NEW t \in Tasks,
           \/ get_connection(t) \/ get_connection_by_id(t) \/ get(t) \/ register(t)
           \/ abandon(t) \/ Ready(t) \/ FailsFast(t)
           \/ (task[t].at = "dial" /\ JoinsDial(t, task[t].key))
    PROVE  Books'
<1>0. /\ dialing \in [PoolKeys -> Entry]
      /\ \A k \in PoolKeys : dialing[k] \in Entry
  BY DEF Types
<1>1. /\ conns' = conns /\ by_key' = by_key /\ dials' = dials /\ generation' = generation
      /\ overtaken' = overtaken
  BY DEF get_connection, get_connection_by_id, get, register, abandon, Ready, FailsFast, JoinsDial
<1>2. CASE dialing' = dialing
  BY <1>1, <1>2, BooksSame
<1>3. CASE abandon(t)
  <2>1. \A k \in PoolKeys : dialing'[k] = [dialing[k] EXCEPT !.waiters = @ \ {t}]
    BY <1>3 DEF abandon, Abandons
  <2>2. \A k \in PoolKeys : dialing'[k].running = dialing[k].running
    BY <1>0, <2>1 DEF Entry
  <2> QED BY <1>1, <2>2, BooksSame
<1>4. CASE task[t].at = "dial" /\ JoinsDial(t, task[t].key)
  <2>0. task[t].key \in PoolKeys
    BY <1>4 DEF Routes, TaskRight
  <2>1. dialing' = [dialing EXCEPT ![task[t].key].waiters = @ \cup {t}]
    BY <1>4 DEF JoinsDial
  <2>2. \A k \in PoolKeys : dialing'[k].running = dialing[k].running
    BY <1>0, <2>0, <2>1 DEF Entry
  <2> QED BY <1>1, <2>2, BooksSame
<1> QED
  BY <1>2, <1>3, <1>4 DEF get_connection, get_connection_by_id, get, register, Ready, FailsFast

(* What closes connections, other than close_all. *)
LEMMA CloseBooks ==
    ASSUME Types, Routes, Books, Types',
           \/ \E t \in Tasks : task[t].at = "dial" /\ CapReached(t, task[t].key)
           \/ \E a \in Addresses : backoff_passes(a)
           \/ \E c \in DOMAIN conns : connection_changes(c) \/ evict_idle({c})
    PROVE  Books'
<1>0. /\ conns \in Seq(Conn) /\ by_key \in [PoolKeys -> Nat]
      /\ DOMAIN conns = 1..Len(conns)
  BY DEF Types
<1>a. \A c \in 1..Len(conns) : conns[c] \in Conn /\ conns[c].key \in PoolKeys
  BY <1>0, ConnKeys
<1>1. ASSUME NEW t \in Tasks, task[t].at = "dial", CapReached(t, task[t].key) PROVE Books'
  <2> DEFINE k == task[t].key
  <2>0. k \in PoolKeys
    BY <1>1 DEF Routes, TaskRight
  <2>1. /\ conns' = Closed({by_key[k]}) /\ dialing' = dialing /\ dials' = dials
        /\ generation' = generation /\ overtaken' = overtaken
        /\ by_key' = [by_key EXCEPT ![k] = 0]
    BY <1>1 DEF CapReached, ReplacesStale, ByKeyWithout
  <2>2. Grows(conns, conns') /\ OpenOf(conns') = OpenOf(conns) \ {by_key[k]}
    BY <1>0, <2>1, ClosedConns
  <2>3. \A j \in PoolKeys : by_key'[j] = IF j = k THEN 0 ELSE by_key[j]
    BY <1>0, <2>0, <2>1
  <2>4. \A c \in OpenOf(conns') : c \in 1..Len(conns) /\ conns[c].key \in PoolKeys
    BY <1>a, <2>2 DEF OpenOf
  <2>5. \A c \in OpenOf(conns') : by_key[conns[c].key] = c => by_key'[conns[c].key] = c
    BY <2>2, <2>3, <2>4
  <2> QED BY <2>1, <2>2, <2>3, <2>5, BooksShrink
<1>2. ASSUME NEW a \in Addresses, backoff_passes(a) PROVE Books'
  BY <1>2, BooksSame DEF backoff_passes
<1>3. ASSUME NEW c \in DOMAIN conns, connection_changes(c) PROVE Books'
  <2>1. /\ c \in 1..Len(conns) /\ c # 0
        /\ by_key' = by_key /\ dialing' = dialing /\ dials' = dials
        /\ generation' = generation /\ overtaken' = overtaken
    BY <1>0, <1>3 DEF connection_changes
  <2>2. PICK s \in {"expired", "closed"} :
           conns' = Becomes(c, s) /\ conns[c].state \in {"usable", "expired"}
    BY <1>3, <2>1 DEF connection_changes, State
  <2>3. Grows(conns, conns') /\ OpenOf(conns') \subseteq OpenOf(conns) \cup {c}
    BY <1>0, <2>1, <2>2, SetState
  <2>4. c \in OpenOf(conns)
    BY <2>1, <2>2 DEF OpenOf
  <2> QED BY <2>1, <2>3, <2>4, BooksShrink
<1>4. ASSUME NEW c \in DOMAIN conns, evict_idle({c}) PROVE Books'
  <2>1. /\ conns' = Closed({c}) /\ dialing' = dialing /\ dials' = dials
        /\ generation' = generation /\ overtaken' = overtaken
        /\ by_key' = [k \in PoolKeys |-> IF by_key[k] \in {c} THEN 0 ELSE by_key[k]]
    BY <1>4 DEF evict_idle
  <2>2. Grows(conns, conns') /\ OpenOf(conns') = OpenOf(conns) \ {c}
    BY <1>0, <2>1, ClosedConns
  <2>3. \A j \in PoolKeys : by_key'[j] = IF by_key[j] = c THEN 0 ELSE by_key[j]
    BY <2>1
  <2>4. \A x \in OpenOf(conns') : x # c /\ x \in 1..Len(conns) /\ conns[x].key \in PoolKeys
    BY <1>a, <2>2 DEF OpenOf
  <2>5. \A x \in OpenOf(conns') : by_key[conns[x].key] = x => by_key'[conns[x].key] = x
    BY <2>3, <2>4
  <2> QED BY <2>1, <2>2, <2>3, <2>5, BooksShrink
<1> QED BY <1>1, <1>2, <1>3, <1>4

(* The pool counts every open connection and every dial, so that a dial    *)
(* begins only below the cap.                                              *)
LEMMA CountedAll ==
    ASSUME Types, Routes, Accounted, NEW k \in PoolKeys, IsFiniteSet(Open), IsFiniteSet(dials)
    PROVE  Cardinality(Open \ {by_key[k]}) + Cardinality(dials)
              <= counted_connections(ByKeyWithout(k))
<1> DEFINE S == Open \ {by_key[k]}
           T == {j \in PoolKeys : is_alive(ByKeyWithout(k)[j])}
           R == {j \in PoolKeys : dialing[j].running}
           f == [c \in S |-> conns[c].key]
           g == [d \in dials |-> d.key]
<1>0. IsFiniteSet(T) /\ IsFiniteSet(R)
  BY KeysFinite, FS_Subset
<1>a. conns \in Seq(Conn) /\ DOMAIN conns = 1..Len(conns)
  BY DEF Types
<1>b. \A c \in 1..Len(conns) : conns[c].key \in PoolKeys
  BY <1>a, ConnKeys
<1>1. \A c \in S : /\ conns[c].key \in PoolKeys /\ is_alive(c)
                    /\ by_key[conns[c].key] = c /\ conns[c].key # k
  BY <1>a, <1>b DEF Open, Accounted
<1>2. \A c \in S : conns[c].key \in T
  <2>1. \A c \in S : ByKeyWithout(k)[conns[c].key] = c
    BY <1>1 DEF ByKeyWithout, Types
  <2> QED BY <1>1, <2>1
<1>3. f \in [S -> T] /\ \A x, y \in S : f[x] = f[y] => x = y
  BY <1>1, <1>2
<1>4. Cardinality(S) <= Cardinality(T)
  BY <1>0, <1>3, Injected
<1>5. g \in [dials -> R] /\ \A x, y \in dials : g[x] = g[y] => x = y
  BY DEF Accounted, Types, Dial
<1>6. Cardinality(dials) <= Cardinality(R)
  BY <1>0, <1>5, Injected
<1>7. /\ Cardinality(S) \in Nat /\ Cardinality(dials) \in Nat
      /\ Cardinality(T) \in Nat /\ Cardinality(R) \in Nat
  BY <1>0, FS_Subset, FS_CardinalityType
<1>8. counted_connections(ByKeyWithout(k)) = Cardinality(T) + Cardinality(R)
  BY DEF counted_connections
<1> HIDE DEF S, T, R
<1>9. Cardinality(S) + Cardinality(dials) <= counted_connections(ByKeyWithout(k))
  BY <1>4, <1>6, <1>7, <1>8
<1> QED BY <1>9 DEF S

(* A dial begins. *)
LEMMA DialBooks ==
    ASSUME Types, Routes, Books, Types', NEW t \in Tasks, task[t].at = "dial",
           ~dialing[task[t].key].running,
           counted_connections(ByKeyWithout(task[t].key)) < max_total_connections,
           Dials(t, task[t].key)
    PROVE  Books'
<1> DEFINE k == task[t].key
           new == [key |-> k, generation |-> generation, state |-> "dialled"]
           nd == [number |-> Len(conns) + 1, key |-> k, generation |-> generation]
           mid == Closed({by_key[k]})
<1>0. /\ conns \in Seq(Conn) /\ by_key \in [PoolKeys -> Nat] /\ generation \in Nat
      /\ k \in PoolKeys /\ dialing \in [PoolKeys -> Entry] /\ Len(conns) \in Nat
  BY DEF Types, Routes, TaskRight
<1>1. /\ by_key' = [by_key EXCEPT ![k] = 0]
      /\ conns' = Append(mid, new) /\ dials' = dials \cup {nd}
      /\ generation' = generation /\ overtaken' = overtaken
  BY DEF Dials, ByKeyWithout
<1>2. dialing' = [dialing EXCEPT ![k] = [running |-> TRUE, waiters |-> {t}]]
  BY DEF Dials
<1>3. new \in Conn /\ new.state = "dialled"
  BY <1>0 DEF Conn
<1>4. /\ mid \in Seq(Conn) /\ Len(mid) = Len(conns) /\ Grows(conns, mid)
      /\ OpenOf(mid) = OpenOf(conns) \ {by_key[k]}
  BY <1>0, ClosedConns
<1>5. /\ conns' \in Seq(Conn) /\ Grows(mid, conns') /\ OpenOf(conns') = OpenOf(mid)
  BY <1>1, <1>3, <1>4, AppendConn
<1>6. Open' = Open \ {by_key[k]} /\ \A c \in Open' : c \in 1..Len(conns)
  BY <1>4, <1>5, OpenIs, OpenNext DEF OpenOf
<1>7. \A c \in Open' : /\ conns'[c].key = conns[c].key
                        /\ conns'[c].generation = conns[c].generation
  BY <1>4, <1>5, <1>6 DEF Grows
<1>8. \A j \in PoolKeys : by_key'[j] = IF j = k THEN 0 ELSE by_key[j]
  BY <1>0, <1>1
<1>a. dialing'[k].running /\ \A j \in PoolKeys : j # k => dialing'[j] = dialing[j]
  BY <1>0, <1>2
<1>9. nd.key = k /\ nd.generation = generation
  OBVIOUS
<1> HIDE DEF nd, mid, new
<1>10. /\ IsFiniteSet(Open') /\ IsFiniteSet(dials')
       /\ Cardinality(dials') <= Cardinality(dials) + 1
       /\ Cardinality(dials) \in Nat /\ Cardinality(dials') \in Nat
       /\ Cardinality(Open') \in Nat
  <2>1. IsFiniteSet(Open) /\ IsFiniteSet(dials)
    BY DEF Books
  <2>2. IsFiniteSet(Open') /\ IsFiniteSet(dials')
    BY <1>1, <1>6, <2>1, FS_Subset, FS_AddElement
  <2>3. Cardinality(dials) \in Nat /\ Cardinality(dials') \in Nat /\ Cardinality(Open') \in Nat
    BY <2>1, <2>2, FS_CardinalityType
  <2>4. Cardinality(dials \cup {nd})
           = IF nd \in dials THEN Cardinality(dials) ELSE Cardinality(dials) + 1
    BY <2>1, FS_AddElement
  <2> QED BY <1>1, <2>2, <2>3, <2>4
<1>11. ASSUME ~overtaken PROVE Accounted' /\ WithinCap'
  <2>0. Accounted /\ IsFiniteSet(Open) /\ IsFiniteSet(dials)
    BY <1>11 DEF Books
  <2>1. \A d \in dials : d.key \in PoolKeys /\ d.key # k
    BY <2>0 DEF Accounted, Types, Dial
  <2>a. \A c \in 1..Len(conns) : conns[c].key \in PoolKeys
    BY <1>0, ConnKeys
  <2>b. \A c \in Open' : c \in Open /\ c # by_key[k] /\ conns[c].key \in PoolKeys
                          /\ conns'[c].key = conns[c].key
    BY <1>6, <1>7, <2>a
  <2>c. \A c \in Open : by_key[conns[c].key] = c
    BY <2>0 DEF Accounted
  <2>2. \A c \in Open' : by_key'[conns'[c].key] = c
    BY <1>8, <2>b, <2>c
  <2>3. \A d \in dials' : /\ dialing'[d.key].running /\ d.generation = generation'
                           /\ by_key'[d.key] = 0
    <3>1. \A d \in dials : /\ dialing'[d.key].running /\ d.generation = generation'
                            /\ by_key'[d.key] = 0
      BY <1>1, <1>8, <1>a, <2>0, <2>1 DEF Accounted
    <3>2. dialing'[nd.key].running /\ nd.generation = generation' /\ by_key'[nd.key] = 0
      BY <1>0, <1>1, <1>8, <1>a, <1>9
    <3> QED BY <1>1, <3>1, <3>2
  <2>4. \A d, e \in dials' : d.key = e.key => d = e
    BY <1>1, <1>9, <2>0, <2>1 DEF Accounted
  <2>5. Cardinality(Open') + Cardinality(dials) < max_total_connections
    <3>1. Cardinality(Open') + Cardinality(dials) <= counted_connections(ByKeyWithout(k))
      BY <1>0, <1>6, <2>0, CountedAll
    <3>2. counted_connections(ByKeyWithout(k)) \in Nat
      <4>1. /\ IsFiniteSet({j \in PoolKeys : is_alive(ByKeyWithout(k)[j])})
            /\ IsFiniteSet({j \in PoolKeys : dialing[j].running})
        BY KeysFinite, FS_Subset
      <4> QED BY <4>1, FS_CardinalityType DEF counted_connections
    <3> QED BY <1>10, <3>1, <3>2, PoolAssumption
  <2>6. WithinCap'
    BY <1>10, <2>5, PoolAssumption DEF WithinCap
  <2> QED BY <2>2, <2>3, <2>4, <2>6 DEF Accounted
<1>12. ClosedForGood'
  BY <1>1, <1>6, <1>7 DEF Books, ClosedForGood
<1>13. overtaken' => WithinCap'
  BY DEF WithinCap
<1> QED BY <1>1, <1>10, <1>11, <1>12, <1>13 DEF Books

(* A dial ends. *)
LEMMA EndBooks ==
    ASSUME Types, Routes, Books, Types', NEW d \in dials, dial_succeeds(d) \/ dial_fails(d)
    PROVE  Books'
<1>0. /\ conns \in Seq(Conn) /\ by_key \in [PoolKeys -> Nat] /\ d \in Dial
      /\ d.key \in PoolKeys /\ dialing \in [PoolKeys -> Entry]
      /\ d.number \in 1..Len(conns) /\ conns[d.number].key = d.key
      /\ conns[d.number].generation = d.generation
  BY DEF Types, Routes, DialRight, Dial
<1>1. /\ dials' = dials \ {d} /\ generation' = generation /\ overtaken' = overtaken
  BY DEF dial_succeeds, dial_fails
<1>2. dialing' = [dialing EXCEPT ![d.key] = NoDial]
  BY DEF dial_succeeds, dial_fails
<1>3. \A j \in PoolKeys : j # d.key => dialing'[j] = dialing[j]
  BY <1>0, <1>2
<1>4. \/ /\ d.generation = generation /\ conns' = Becomes(d.number, "usable")
         /\ by_key' = [by_key EXCEPT ![d.key] = d.number]
      \/ conns' = Becomes(d.number, "closed") /\ by_key' = by_key
  BY DEF dial_succeeds, dial_fails, Installs
<1>5. \A j \in PoolKeys : j # d.key => by_key'[j] = by_key[j]
  BY <1>0, <1>4
<1>6. /\ Grows(conns, conns')
      /\ OpenOf(conns') \subseteq OpenOf(conns)
         \/ /\ OpenOf(conns') \subseteq OpenOf(conns) \cup {d.number}
            /\ by_key' = [by_key EXCEPT ![d.key] = d.number]
            /\ d.generation = generation
  BY <1>0, <1>4, SetState
<1>7. \A c \in Open' : c \in Open \/ (/\ c = d.number /\ by_key'[d.key] = c
                                       /\ d.generation = generation)
  BY <1>0, <1>6, OpenIs, OpenNext
<1>8. \A c \in Open' : /\ c \in 1..Len(conns) /\ conns'[c].key = conns[c].key
                        /\ conns'[c].generation = conns[c].generation
  <2>1. \A c \in Open' : c \in 1..Len(conns)
    BY <1>0, <1>7, OpenIs DEF OpenOf
  <2> QED BY <1>6, <2>1 DEF Grows
<1>9. /\ IsFiniteSet(Open') /\ IsFiniteSet(dials')
      /\ Cardinality(dials') = Cardinality(dials) - 1
      /\ Cardinality(Open') <= Cardinality(Open) + 1
      /\ Cardinality(Open') \in Nat /\ Cardinality(Open) \in Nat
      /\ Cardinality(dials) \in Nat
  <2>1. IsFiniteSet(Open) /\ IsFiniteSet(dials)
    BY DEF Books
  <2>2. IsFiniteSet(dials') /\ Cardinality(dials') = Cardinality(dials) - 1
    BY <1>1, <2>1, FS_RemoveElement
  <2>3. /\ IsFiniteSet(Open \cup {d.number})
        /\ Cardinality(Open \cup {d.number})
              = IF d.number \in Open THEN Cardinality(Open) ELSE Cardinality(Open) + 1
    BY <2>1, FS_AddElement
  <2>4. Open' \subseteq Open \cup {d.number}
    BY <1>7
  <2>5. IsFiniteSet(Open') /\ Cardinality(Open') <= Cardinality(Open \cup {d.number})
    BY <2>3, <2>4, FS_Subset
  <2>6. Cardinality(Open') \in Nat /\ Cardinality(Open) \in Nat /\ Cardinality(dials) \in Nat
    BY <2>1, <2>5, FS_CardinalityType
  <2> QED BY <2>2, <2>3, <2>5, <2>6
<1>10. ASSUME ~overtaken PROVE Accounted' /\ WithinCap'
  <2>0. Accounted /\ WithinCap
    BY <1>10 DEF Books
  <2>1. /\ \A c \in Open : by_key[conns[c].key] = c
        /\ \A e \in dials : e.key \in PoolKeys /\ by_key[e.key] = 0 /\ e.generation = generation
        /\ \A e \in dials : dialing[e.key].running
        /\ \A e \in dials : e # d => e.key # d.key
    BY <2>0 DEF Accounted, Types, Dial
  <2>2. \A c \in Open : /\ c \in 1..Len(conns) /\ c # 0 /\ conns[c].key \in PoolKeys
    BY <1>0, ConnKeys, OpenIs DEF OpenOf
  <2>3. \A c \in Open : conns[c].key # d.key
    BY <2>1, <2>2
  <2>4. \A c \in Open' : by_key'[conns'[c].key] = c
    BY <1>0, <1>5, <1>7, <1>8, <2>1, <2>2, <2>3
  <2>5. \A e \in dials' : /\ dialing'[e.key].running /\ e.generation = generation'
                           /\ by_key'[e.key] = 0
    BY <1>1, <1>3, <1>5, <2>1
  <2>6. \A e, f \in dials' : e.key = f.key => e = f
    BY <1>1, <2>0 DEF Accounted
  <2>7. WithinCap'
    BY <1>9, <1>10, <2>0, PoolAssumption DEF WithinCap
  <2> QED BY <2>4, <2>5, <2>6, <2>7 DEF Accounted
<1>11. ClosedForGood'
  BY <1>0, <1>1, <1>7, <1>8 DEF Books, ClosedForGood
<1>12. overtaken' => WithinCap'
  BY DEF WithinCap
<1> QED BY <1>1, <1>9, <1>10, <1>11, <1>12 DEF Books

(* close_all: what it misses is only what an overtaken dial has misplaced. *)
LEMMA CloseAllBooks ==
    ASSUME Types, Routes, Books, Types', close_all
    PROVE  Books'
<1>0. conns \in Seq(Conn) /\ generation \in Nat
  BY DEF Types
<1>1. /\ conns' = Closed(Pooled) /\ dials' = dials /\ generation' = generation + 1
      /\ overtaken' = (overtaken \/ dials # {})
  BY DEF close_all
<1>2. Open' = Open \ Pooled
  BY <1>0, <1>1, ClosedConns, OpenIs, OpenNext
<1>3. IsFiniteSet(Open') /\ IsFiniteSet(dials')
  BY <1>1, <1>2, FS_Subset DEF Books
<1>4. ASSUME ~overtaken PROVE Open' = {}
  <2>1. \A c \in Open : by_key[conns[c].key] = c /\ conns[c].key \in PoolKeys
    BY <1>0, <1>4, ConnKeys, OpenIs DEF Books, Accounted, OpenOf
  <2>2. Open \subseteq Pooled
    BY <2>1, PooledIs
  <2> QED BY <1>2, <2>2
<1>5. generation' # 0 /\ (generation # 0 => generation' > 1)
  BY <1>0, <1>1
<1>6. CASE overtaken
  <2>1. generation # 0 /\ overtaken'
    BY <1>1, <1>6 DEF Books
  <2> QED BY <1>3, <1>5, <2>1 DEF Books, WithinCap, ClosedForGood
<1>7. CASE ~overtaken
  <2>1. Open' = {}
    BY <1>4, <1>7
  <2>2. ClosedForGood'
    BY <2>1 DEF ClosedForGood
  <2>3. CASE dials = {}
    <3>1. Accounted'
      BY <1>1, <2>1, <2>3 DEF Accounted
    <3>2. Cardinality(Open') = 0 /\ Cardinality(dials') = 0
      BY <1>1, <2>1, <2>3, FS_EmptySet
    <3>3. WithinCap'
      BY <3>2, PoolAssumption DEF WithinCap
    <3> QED BY <1>3, <1>5, <2>2, <3>1, <3>3 DEF Books
  <2>4. CASE dials # {}
    <3>1. overtaken'
      BY <1>1, <2>4
    <3> QED BY <1>3, <1>5, <2>2, <3>1 DEF Books, WithinCap
  <2> QED BY <2>3, <2>4
<1> QED BY <1>6, <1>7

-----------------------------------------------------------------------------
(* The theorems. *)

LEMMA InitIInv == PoolInit => IInv
<1> SUFFICES ASSUME PoolInit PROVE IInv
  OBVIOUS
<1>1. Types
  <2>1. /\ by_id \in [Ids -> Nat] /\ by_key \in [PoolKeys -> Nat]
        /\ generation \in Nat /\ dials \subseteq Dial /\ conns \in Seq(Conn)
    BY DEF PoolInit
  <2>2. dialing \in [PoolKeys -> Entry] /\ task \in [Tasks -> Task]
    BY NoDialRight, OutRight DEF PoolInit
  <2> QED BY <2>1, <2>2 DEF Types
<1>2. Routes
  <2>1. conns \in Seq(Conn) /\ Len(conns) = 0
    BY DEF PoolInit
  <2>2. \A k : KeyRight(k, 0, conns) /\ IdRight(0, conns)
    BY <2>1 DEF KeyRight, IdRight
  <2>3. \A t \in Tasks : TaskRight(task[t], conns)
    BY <2>1, OutRight DEF PoolInit
  <2> QED BY <2>2, <2>3 DEF Routes, PoolInit
<1>3. Waiters
  <2>1. \A k \in PoolKeys : ~dialing[k].running /\ dialing[k].waiters = {}
    BY NoDialRight DEF PoolInit
  <2>2. \A t \in Tasks : task[t].at # "wait"
    BY OutRight DEF PoolInit
  <2> QED BY <2>1, <2>2 DEF Waiters
<1>4. Books
  <2>1. Open = {} /\ dials = {} /\ ~overtaken
    BY DEF PoolInit, Open
  <2>2. /\ IsFiniteSet(Open) /\ Cardinality(Open) = 0
        /\ IsFiniteSet(dials) /\ Cardinality(dials) = 0
    BY <2>1, FS_EmptySet
  <2>3. WithinCap
    BY <2>2, PoolAssumption DEF WithinCap
  <2> QED BY <2>1, <2>2, <2>3 DEF Books, Accounted, ClosedForGood
<1> QED BY <1>1, <1>2, <1>3, <1>4 DEF IInv

(* start_dial is one of its five outcomes. *)
LEMMA StartDial ==
    ASSUME IInv, NEW t \in Tasks, start_dial(t)
    PROVE  IInv'
<1> DEFINE k == task[t].key
<1>0. Types /\ Routes /\ Waiters /\ Books /\ task[t].at = "dial" /\ k \in PoolKeys
  BY DEF IInv, start_dial, Routes, TaskRight
<1>a. \/ is_usable(by_key[k]) /\ Ready(t)
      \/ dialing[k].running /\ JoinsDial(t, k)
      \/ FailsFast(t)
      \/ CapReached(t, k)
      \/ /\ ~dialing[k].running /\ Dials(t, k)
         /\ ~(counted_connections(ByKeyWithout(k)) >= max_total_connections)
  BY DEF start_dial
<1>1. CASE (is_usable(by_key[k]) /\ Ready(t)) \/ FailsFast(t)
  <2>1. Types' /\ Routes'
    BY <1>0, <1>1, AskRoutes
  <2>2. Waiters'
    BY <1>0, <1>1, AskWaiters
  <2>3. Books'
    BY <1>0, <1>1, <2>1, AskBooks
  <2> QED BY <2>1, <2>2, <2>3 DEF IInv
<1>2. CASE dialing[k].running /\ JoinsDial(t, k)
  <2>1. Types' /\ Routes'
    BY <1>0, <1>2, JoinRoutes
  <2>2. Waiters'
    BY <1>0, <1>2, DialWaiters
  <2>3. Books'
    BY <1>0, <1>2, <2>1, AskBooks
  <2> QED BY <2>1, <2>2, <2>3 DEF IInv
<1>3. CASE CapReached(t, k)
  <2>1. Types' /\ Routes'
    BY <1>0, <1>3, CapRoutes
  <2>2. Waiters'
    BY <1>0, <1>3, AskWaiters
  <2>3. Books'
    BY <1>0, <1>3, <2>1, CloseBooks
  <2> QED BY <2>1, <2>2, <2>3 DEF IInv
<1>4. CASE /\ ~dialing[k].running /\ Dials(t, k)
           /\ ~(counted_connections(ByKeyWithout(k)) >= max_total_connections)
  <2>0. counted_connections(ByKeyWithout(k)) < max_total_connections
    <3>1. /\ IsFiniteSet({j \in PoolKeys : is_alive(ByKeyWithout(k)[j])})
          /\ IsFiniteSet({j \in PoolKeys : dialing[j].running})
      BY KeysFinite, FS_Subset
    <3>2. counted_connections(ByKeyWithout(k)) \in Nat
      BY <3>1, FS_CardinalityType DEF counted_connections
    <3> QED BY <1>4, <3>2, PoolAssumption
  <2>1. Types' /\ Routes'
    BY <1>0, <1>4, DialsRoutes
  <2>2. Waiters'
    BY <1>0, <1>4, DialWaiters
  <2>3. Books'
    BY <1>0, <1>4, <2>0, <2>1, DialBooks
  <2> QED BY <2>1, <2>2, <2>3 DEF IInv
<1> QED BY <1>a, <1>1, <1>2, <1>3, <1>4

LEMMA NextIInv == IInv /\ [PoolNext]_poolVars => IInv'
<1> SUFFICES ASSUME IInv, [PoolNext]_poolVars PROVE IInv'
  OBVIOUS
<1>0. Types /\ Routes /\ Waiters /\ Books
  BY DEF IInv
<1>1. ASSUME NEW t \in Tasks,
             \/ get_connection(t) \/ get_connection_by_id(t) \/ get(t)
      PROVE  IInv'
  <2>1. Types' /\ Routes'
    BY <1>0, <1>1, AskRoutes
  <2>2. Waiters'
    BY <1>0, <1>1, AskWaiters
  <2>3. Books'
    BY <1>0, <1>1, <2>1, AskBooks
  <2> QED BY <2>1, <2>2, <2>3 DEF IInv
<1>2. ASSUME NEW t \in Tasks, start_dial(t) PROVE IInv'
  BY <1>2, StartDial
<1>3. ASSUME NEW t \in Tasks, register(t) \/ abandon(t) PROVE IInv'
  <2>1. Types' /\ Routes'
    BY <1>0, <1>3, JoinRoutes
  <2>2. Waiters'
    BY <1>0, <1>3, AskWaiters, DialWaiters
  <2>3. Books'
    BY <1>0, <1>3, <2>1, AskBooks
  <2> QED BY <2>1, <2>2, <2>3 DEF IInv
<1>4. ASSUME NEW d \in dials, dial_succeeds(d) \/ dial_fails(d) PROVE IInv'
  <2>1. Types' /\ Routes'
    BY <1>0, <1>4, EndRoutes
  <2>2. Waiters'
    BY <1>0, <1>4, EndWaiters
  <2>3. Books'
    BY <1>0, <1>4, <2>1, EndBooks
  <2> QED BY <2>1, <2>2, <2>3 DEF IInv
<1>5. ASSUME \/ \E a \in Addresses : backoff_passes(a)
             \/ \E c \in DOMAIN conns : connection_changes(c) \/ evict_idle({c})
      PROVE  IInv'
  <2>1. Types' /\ Routes'
    BY <1>0, <1>5, TimeRoutes
  <2>2. Waiters'
    BY <1>0, <1>5, QuietWaiters DEF backoff_passes, connection_changes, evict_idle
  <2>3. Books'
    BY <1>0, <1>5, <2>1, CloseBooks
  <2> QED BY <2>1, <2>2, <2>3 DEF IInv
<1>6. ASSUME close_all PROVE IInv'
  <2>1. Types' /\ Routes'
    BY <1>0, <1>6, TimeRoutes
  <2>2. Waiters'
    BY <1>0, <1>6, EndWaiters
  <2>3. Books'
    BY <1>0, <1>6, <2>1, CloseAllBooks
  <2> QED BY <2>1, <2>2, <2>3 DEF IInv
<1>7. ASSUME UNCHANGED poolVars PROVE IInv'
  <2>1. Types' /\ Routes' /\ Waiters'
    BY <1>0, <1>7 DEF poolVars, Types, Routes, Waiters
  <2>2. Books'
    BY <1>0, <1>7, <2>1, BooksSame DEF poolVars
  <2> QED BY <2>1, <2>2 DEF IInv
<1> QED BY <1>1, <1>2, <1>3, <1>4, <1>5, <1>6, <1>7 DEF PoolNext

(* The pool's invariant: its maps, dials and tasks point at connections of  *)
(* their key, the waiters of a dial are the tasks that wait for it, and     *)
(* until a close_all overtakes a dial every connection is accounted for.    *)
THEOREM PoolInvariant == PoolSpec => []IInv
BY InitIInv, NextIInv, PTL DEF PoolSpec

(* max_total_connections holds over every interleaving of start_dial, the   *)
(* ends of dials, evictions and close_all (counted_connections counts what  *)
(* is open and what is being dialled).                                      *)
THEOREM CapHolds == PoolSpec => []WithinCap
<1>1. IInv => WithinCap
  BY DEF IInv, Books
<1> QED BY <1>1, PoolInvariant, PTL

(* Whoever waits is served by a dial that runs, whoever gets a connection   *)
(* gets one to where it asked, and close_all is final.                      *)
THEOREM PoolAlwaysAnswers == PoolSpec => []PoolAnswers
<1>1. IInv => PoolAnswers
  <2> SUFFICES ASSUME IInv PROVE PoolAnswers
    OBVIOUS
  <2>1. WaiterHasDial
    BY DEF IInv, Waiters, WaiterHasDial
  <2>2. Routed
    BY DEF IInv, Routes, TaskRight, KeyRight, Routed
  <2>3. ClosedForGood
    BY DEF IInv, Books
  <2> QED BY <2>1, <2>2, <2>3 DEF PoolAnswers
<1> QED BY <1>1, PoolInvariant, PTL


-----------------------------------------------------------------------------
(* The telemetry reporter. *)

States == {"subscribe", "subscribing", "backoff", "waiting", "push", "pushing", "ended"}

ReporterTypes ==
    /\ total \in Nat /\ pushed \in Nat /\ handed \in Nat /\ received \in Nat /\ lost \in Nat
    /\ at \in States
    /\ subscription \in [instance : Nat, id : Nat, delta : BOOLEAN, requested : BOOLEAN]
    /\ pushing \in [sum : Nat, terminating : BOOLEAN]
    /\ told \in [ids : SUBSET Nat, terminated : BOOLEAN]

(* Before the first answer nothing was told and nothing is known; after it *)
(* the channel holds the id of every subscription since.                   *)
Instances ==
    /\ First => subscription.instance = ZeroId /\ told.ids = {}
    /\ ~First => subscription.instance # ZeroId /\ instance_id = subscription.instance
    /\ told.ids \subseteq {subscription.instance}
    /\ at \in {"waiting", "push", "pushing"} => ~First

(* What was acknowledged is at most what was counted, and no more than the *)
(* push on its way read; without a subscription nothing was acknowledged.  *)
Sums ==
    /\ pushed <= total
    /\ at \in {"push", "pushing"} => subscription.requested /\ pushed <= pushing.sum
                                       /\ pushing.sum <= total
    /\ ~subscription.requested => pushed = 0 /\ received = 0

(* The last push written is the one on its way. *)
LastTold ==
    /\ TerminatingIsLast
    /\ at = "pushing" => told.terminated = pushing.terminating

StopType == stop \in BOOLEAN

ReporterBooks == ReporterTypes /\ Instances /\ Sums /\ DeltasAddUp /\ LastTold

ReporterInv == ReporterBooks /\ StopType

(* The reporter starts with nothing pushed, told or subscribed. *)
LEMMA InitReporterInv == TelemetryInit => ReporterInv
  <1>1. TelemetryInit => ReporterBooks
    BY DEF TelemetryInit, ReporterBooks, ReporterTypes, States, Instances, Sums, DeltasAddUp, LastTold,
           TerminatingIsLast, First, NoSubscription, NoPush, ZeroId
  <1>2. TelemetryInit => StopType
    BY DEF TelemetryInit, StopType
  <1> QED
    BY <1>1, <1>2 DEF ReporterInv

(* Only `close` touches the stop channel. *)
LEMMA NextStop == StopType /\ [TelemetryNext]_telemetryVars => StopType'
  <1> SUFFICES ASSUME StopType, [TelemetryNext]_telemetryVars PROVE StopType'
    OBVIOUS
  <1>1. CASE close
    BY <1>1 DEF close, StopType
  <1>2. CASE ~close
    <2>1. stop' = stop
      BY <1>2 DEF TelemetryNext, telemetryVars, count, get_subscription, backoff, Subscribed,
             SubscriptionFails, wait, PushSkipped, PushWritten, PushAccepted,
             PushUnanswered, PushRefused, close_returns, drop_telemetry
    <2> QED
      BY <2>1 DEF StopType
  <1> QED
    BY <1>1, <1>2

(* Every step keeps the invariant, one step per action. *)
LEMMA NextBooks == ReporterInv /\ [TelemetryNext]_telemetryVars => ReporterBooks'
  <1> SUFFICES ASSUME ReporterBooks, StopType, [TelemetryNext]_telemetryVars PROVE ReporterBooks'
    BY DEF ReporterInv
  <1> USE DEF ReporterBooks, ReporterTypes, States, Instances, Sums, DeltasAddUp, LastTold, TerminatingIsLast,
              First, ZeroId
  <1>1. CASE count
    BY <1>1 DEF count
  <1>2. CASE get_subscription
    BY <1>2 DEF get_subscription, Ends
  <1>3. CASE backoff
    BY <1>3 DEF backoff, Ends
  <1>4. CASE Subscribed
    <2> PICK delta \in BOOLEAN, requested \in BOOLEAN, answered \in 1..2 :
            subscription' = [instance |-> InstanceOf(subscription.instance, answered),
                             id |-> handed + 1, delta |-> delta, requested |-> requested]
      BY <1>4 DEF Subscribed
    <2>1. pushed' = 0
      BY <1>4 DEF Subscribed, PushedAfter
    <2>2. subscription' \in [instance : Nat, id : Nat, delta : BOOLEAN, requested : BOOLEAN]
          /\ subscription'.instance # ZeroId /\ subscription'.id # 0
          /\ (~First => subscription'.instance = subscription.instance)
      BY DEF InstanceOf
    <2>3. /\ at' = "waiting" /\ received' = 0 /\ lost' = 0 /\ handed' = handed + 1
          /\ total' = total /\ pushing' = pushing /\ told' = told /\ at = "subscribing"
          /\ instance_id' = IF First THEN subscription'.instance ELSE instance_id
      BY <1>4 DEF Subscribed
    <2>4. ReporterTypes'
      BY <2>1, <2>2, <2>3
    <2>5. Instances'
      BY <2>2, <2>3
    <2>6. Sums' /\ DeltasAddUp'
      BY <2>1, <2>3
    <2>7. LastTold'
      BY <2>3
    <2> QED
      BY <2>4, <2>5, <2>6, <2>7
  <1>5. CASE SubscriptionFails
    BY <1>5 DEF SubscriptionFails, Ends
  <1>6. CASE wait
    <2>1. /\ at = "waiting" /\ total' = total /\ subscription' = subscription
          /\ pushed' = pushed /\ handed' = handed /\ received' = received
          /\ lost' = lost /\ told' = told
      BY <1>6 DEF wait
    <2> PICK stopped \in {FALSE, stop} :
          \/ /\ ~subscription.requested
             /\ IF stopped THEN Ends ELSE at' = "subscribe" /\ UNCHANGED instance_id
             /\ UNCHANGED pushing
          \/ /\ subscription.requested
             /\ at' = "push"
             /\ pushing' = [sum |-> total, terminating |-> stopped]
             /\ UNCHANGED instance_id
      BY <1>6 DEF wait
    <2>0. stopped \in BOOLEAN
      BY DEF StopType
    <2>2. CASE subscription.requested
      BY <2>0, <2>1, <2>2
    <2>3. CASE ~subscription.requested
      BY <2>1, <2>3 DEF Ends
    <2> QED
      BY <2>2, <2>3
  <1>7. CASE PushSkipped
    BY <1>7 DEF PushSkipped, Turn, Ends, NoPush
  <1>8. CASE PushWritten
    BY <1>8 DEF PushWritten
  <1>9. CASE PushAccepted
    <2>1. /\ at = "pushing" /\ pushed' = pushing.sum /\ pushing' = NoPush /\ lost' = lost
          /\ total' = total /\ subscription' = subscription /\ handed' = handed /\ told' = told
          /\ received' = IF subscription.delta THEN received + Value ELSE Value
      BY <1>9 DEF PushAccepted, Accepts, Acknowledged
    <2>2. /\ Value \in Nat /\ pushing.sum \in Nat
          /\ subscription.delta => Value = pushing.sum - pushed /\ received >= pushed
          /\ ~subscription.delta => Value = pushing.sum
      BY <2>1 DEF Value
    <2>3. received' \in Nat
      BY <2>1, <2>2
    <2>4. DeltasAddUp'
      BY <2>1, <2>2
    <2>5. /\ at' \in {"ended", "waiting"}
          /\ at' # "ended" => ~pushing.terminating
          /\ instance_id' = IF at' = "ended" /\ First THEN "Unavailable" ELSE instance_id
      BY <1>9 DEF PushAccepted, Turn, Ends
    <2>6. ReporterTypes'
      BY <2>1, <2>2, <2>3, <2>5 DEF NoPush
    <2>7. Instances' /\ Sums' /\ LastTold'
      BY <2>1, <2>2, <2>5
    <2> QED
      BY <2>4, <2>6, <2>7
  <1>10. CASE PushUnanswered
    <2>1. /\ at = "pushing" /\ pushed' = pushed /\ pushing' = NoPush
          /\ total' = total /\ subscription' = subscription /\ handed' = handed /\ told' = told
      BY <1>10 DEF PushUnanswered, Acknowledged
    <2>2. Value \in Nat /\ (subscription.delta => received + Value >= pushed)
      BY <2>1 DEF Value
    <2>a. \/ /\ lost' = lost + 1
             /\ received' = IF subscription.delta THEN received + Value ELSE Value
          \/ lost' = lost /\ received' = received
      BY <1>10 DEF PushUnanswered, Accepts
    <2>b. received' \in Nat /\ lost' \in Nat
      BY <2>2, <2>a
    <2>3. received' \in Nat /\ lost' \in Nat /\ DeltasAddUp'
      BY <2>1, <2>2, <2>a, <2>b
    <2>4. /\ at' \in {"ended", "waiting"}
          /\ at' # "ended" => ~pushing.terminating
          /\ instance_id' = IF at' = "ended" /\ First THEN "Unavailable" ELSE instance_id
      BY <1>10 DEF PushUnanswered, Turn, Ends
    <2>5. ReporterTypes'
      BY <2>1, <2>3, <2>4 DEF NoPush
    <2>6. Instances' /\ Sums' /\ LastTold'
      BY <2>1, <2>4
    <2> QED
      BY <2>3, <2>5, <2>6
  <1>11. CASE PushRefused
    BY <1>11 DEF PushRefused, Turn, Ends, NoPush
  <1>12. CASE close
    BY <1>12 DEF close
  <1>13. CASE close_returns
    BY <1>13 DEF close_returns, Ends
  <1>14. CASE drop_telemetry
    BY <1>14 DEF drop_telemetry, Ends
  <1>15. CASE UNCHANGED telemetryVars
    BY <1>15 DEF telemetryVars
  <1> QED
    BY <1>1, <1>2, <1>3, <1>4, <1>5, <1>6, <1>7, <1>8, <1>9, <1>10, <1>11, <1>12, <1>13,
       <1>14, <1>15 DEF TelemetryNext

(* Every step keeps the whole invariant. *)
LEMMA NextReporterInv == ReporterInv /\ [TelemetryNext]_telemetryVars => ReporterInv'
  BY NextBooks, NextStop DEF ReporterInv

(* The invariant holds in every reachable state. *)
THEOREM ReporterInvariant == TelemetrySpec => []ReporterInv
  BY InitReporterInv, NextReporterInv, PTL DEF TelemetrySpec

(* Reporter::push computes deltas against the last answered push: under    *)
(* one subscription the broker misses no increment, and counts none twice  *)
(* unless an answer was lost.                                              *)
THEOREM DeltasAlwaysAddUp == TelemetrySpec => []DeltasAddUp
  <1>1. ReporterInv => DeltasAddUp
    BY DEF ReporterInv, ReporterBooks
  <1> QED
    BY <1>1, ReporterInvariant, PTL

(* Every request after the first answer names the id that                  *)
(* client_instance_id returns (Subscription::from_response).               *)
THEOREM InstanceIsOne == TelemetrySpec => []OneInstance
  <1>1. ReporterInv => OneInstance
    BY DEF ReporterInv, ReporterBooks, Instances, OneInstance, First
  <1> QED
    BY <1>1, ReporterInvariant, PTL

(* The terminating push is the last thing Reporter::run writes.            *)
THEOREM TerminatingEnds == TelemetrySpec => []TerminatingIsLast
  <1>1. ReporterInv => TerminatingIsLast
    BY DEF ReporterInv, ReporterBooks, LastTold
  <1> QED
    BY <1>1, ReporterInvariant, PTL

(* The three together, as the runs check them: what the reporter tells its *)
(* broker is right through retries, lost answers, refusals and the end.    *)
THEOREM ReporterAlwaysExact == TelemetrySpec => []ReporterExact
  <1>1. DeltasAddUp /\ OneInstance /\ TerminatingIsLast => ReporterExact
    BY DEF ReporterExact
  <1> QED
    BY <1>1, DeltasAlwaysAddUp, InstanceIsOne, TerminatingEnds, PTL
-----------------------------------------------------------------------------
(* The ApiVersions handshake. *)

LEMMA VersionsOfHandshake ==
    /\ Versions["ApiVersions"] = <<0, 4>>
    /\ API_VERSIONS_MAX = 4
  <1>1. "ApiVersions" \in DOMAIN ClientVersions /\ ClientVersions["ApiVersions"] = <<0, 4>>
    BY DEF ClientVersions
  <1>2. Versions["ApiVersions"] = <<0, 4>>
    BY <1>1, Zenon DEF Versions
  <1> QED
    BY <1>2 DEF API_VERSIONS_MAX

(* The second attempt is at the version the first refusal leads to.  What  *)
(* a broker refuses it does not speak, and what it lists it does.          *)
Second == ~In(4, own) /\ attempt = NextAttempt(4)

HandshakeTypes ==
    /\ own = <<own[1], own[2]>> /\ own[1] \in Nat /\ own[2] \in Nat
    /\ own[1] <= own[2]
    /\ listed \in BOOLEAN
    /\ attempt \in Nat /\ attempts \in Nat

HandshakeAttempts ==
    IF phase = "dial"
    THEN \/ attempts = 0 /\ attempt = 4
         \/ attempts = 1 /\ Second
    ELSE \/ attempts = 1 /\ attempt = 4
         \/ attempts = 2 /\ Second

HandshakeAnswers ==
    /\ phase \in {"refused", "failed"} => ~In(attempt, own)
    /\ phase = "failed" => NextAttempt(attempt) >= attempt
    /\ phase \in {"listed", "known", "sent", "read", "answered", "done"} => In(attempt, own)

HandshakeInv ==
    /\ HandshakeTypes
    /\ phase \in Phases
    /\ phase # "garbled" => HandshakeAttempts /\ HandshakeAnswers

LEMMA HandshakeInit == Init => HandshakeInv
  <1> SUFFICES ASSUME Init PROVE HandshakeInv
    OBVIOUS
  <1>1. own \in Nat \X Nat /\ own[1] <= own[2] /\ listed \in BOOLEAN
    <2>1. CASE testing = TRUE /\ own = <<0, 4>> /\ listed = TRUE
      BY <2>1
    <2>2. CASE own \in AnyRange("ApiVersions") /\ listed \in BOOLEAN
      <3>1. own \in (0..(4 + Spare)) \X (0..(4 + Spare)) /\ own[1] <= own[2]
        BY <2>2, VersionsOfHandshake DEF AnyRange
      <3> QED
        BY <3>1, <2>2, SpareAssumption
    <2> QED
      BY <2>1, <2>2 DEF Init
  <1>2. phase = "dial" /\ attempt = 4 /\ attempts = 0
    BY VersionsOfHandshake DEF Init
  <1> QED
    BY <1>1, <1>2 DEF HandshakeInv, HandshakeTypes, HandshakeAttempts, HandshakeAnswers, Phases

LEMMA HandshakeStep == HandshakeInv /\ [Next]_vars => HandshakeInv'
  <1> SUFFICES ASSUME HandshakeInv, [Next]_vars PROVE HandshakeInv'
    OBVIOUS
  <1>0. UNCHANGED vars => HandshakeInv'
    BY DEF HandshakeInv, HandshakeTypes, HandshakeAttempts, HandshakeAnswers, Second, NextAttempt, In, vars
  <1> USE DEF HandshakeInv, HandshakeTypes, HandshakeAttempts, HandshakeAnswers, Second, NextAttempt, In, Phases, Final
  <1>1. CASE send_api_versions
    BY <1>1 DEF send_api_versions
  <1>2. CASE AnswerVersions
    BY <1>2 DEF AnswerVersions
  <1>3. CASE ReadRefusal
    <2>1. attempts < MAX_ATTEMPTS
      BY <1>3 DEF ReadRefusal, MAX_ATTEMPTS
    <2> DEFINE legible == Reads(frame, ResponseHeader("ApiVersions", attempt)
                                           \o ApiVersionsResponse_v0)
               next == NextAttempt(attempt)
    <2>2. /\ ~legible => phase' = "garbled" /\ attempt' = attempt
          /\ legible /\ next >= attempt => phase' = "failed" /\ attempt' = attempt
          /\ legible /\ ~(next >= attempt) => phase' = "dial" /\ attempt' = next
      <3>1. ~(attempts >= MAX_ATTEMPTS)
        BY <2>1 DEF MAX_ATTEMPTS
      <3> USE <3>1, <1>3 DEF ReadRefusal
      <3> HIDE DEF HandshakeInv, NextAttempt
      <3>2. ~legible => phase' = "garbled" /\ attempt' = attempt
        BY Zenon
      <3>3. legible /\ next >= attempt => phase' = "failed" /\ attempt' = attempt
        BY Zenon
      <3>4. legible /\ ~(next >= attempt) => phase' = "dial" /\ attempt' = next
        BY Zenon
      <3> QED
        BY <3>2, <3>3, <3>4, Zenon
    <2> HIDE DEF legible
    <2>3. UNCHANGED <<own, listed, attempts>> /\ phase = "refused"
      BY <1>3 DEF ReadRefusal
    <2>4. CASE ~legible
      BY <2>2, <2>3, <2>4
    <2>5. CASE legible /\ next >= attempt
      BY <2>2, <2>3, <2>5
    <2>6. CASE legible /\ ~(next >= attempt)
      <3>1. phase' = "dial" /\ attempt' = next
        BY <2>2, <2>6
      <3>2. attempts = 1 /\ attempt = 4
        BY <2>3, <2>6
      <3> QED
        BY <3>1, <3>2, <2>3
    <2> QED
      BY <2>4, <2>5, <2>6
  <1>4. CASE ReadVersions
    BY <1>4 DEF ReadVersions
  <1>5. CASE send_request
    BY <1>5 DEF send_request
  <1>6. CASE ReadRequest
    BY <1>6 DEF ReadRequest
  <1>7. CASE WriteResponse
    BY <1>7 DEF WriteResponse
  <1>8. CASE ReadResponse
    BY <1>8 DEF ReadResponse
  <1> QED
    BY <1>0, <1>1, <1>2, <1>3, <1>4, <1>5, <1>6, <1>7, <1>8 DEF Next

(* What the parts say of the versions the two sides share. *)
LEMMA HandshakeEnds == HandshakeInv => HandshakeFinds
  <1> SUFFICES ASSUME HandshakeInv PROVE HandshakeFinds
    OBVIOUS
  <1> DEFINE common == {v \in 0..API_VERSIONS_MAX : In(v, own)}
  <1> USE VersionsOfHandshake DEF HandshakeInv, HandshakeTypes, HandshakeAttempts, HandshakeAnswers, Second, NextAttempt, In
  <1>1. ASSUME phase = "failed" PROVE 0 \notin common
    BY <1>1
  <1>2. ASSUME phase = "failed", listed PROVE common = {}
    <2>1. \A v \in 0..4 : ~In(v, own)
      BY <1>2
    <2> QED
      BY <2>1, Zenon
  <1>3. ASSUME phase \in {"known", "sent", "done"}, listed
        PROVE  attempt = Max(common) /\ attempts <= 2
    <2>1. attempts <= 2 /\ attempt \in 0..4 /\ In(attempt, own)
      BY <1>3
    <2>2. \A v \in common : v <= attempt
      BY <1>3
    <2>3. attempt \in common /\ \A v \in common : attempt >= v
      BY <2>1, <2>2
    <2>4. Max(common) \in common /\ \A v \in common : Max(common) >= v
      BY <2>3, Zenon DEF Max
    <2>5. attempt = Max(common)
      <3> HIDE DEF common
      <3>1. common \subseteq Int
        BY DEF common
      <3> QED
        BY <2>3, <2>4, <3>1
    <2> QED
      BY <2>1, <2>5
  <1> QED
    BY <1>1, <1>2, <1>3 DEF HandshakeFinds

(* fetch_api_versions gives up only against a broker that speaks none of   *)
(* its versions, or names no range and does not speak the first one; where *)
(* the range is named the highest common version is met at the second      *)
(* attempt at the latest, for every broker's range.                        *)
THEOREM HandshakeAlwaysFinds == Spec => []HandshakeFinds
  <1> QED
    BY HandshakeInit, HandshakeStep, HandshakeEnds, PTL DEF Spec

=============================================================================
