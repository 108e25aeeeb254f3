--------------------------- MODULE MetadataProofs ---------------------------
(***************************************************************************)
(* What the metadata cache owes its users, the admin driver among them,    *)
(* for any brokers, topics, tasks and workloads: an Ok is fresh, no        *)
(* request is slept through, nothing from before a rebootstrap comes back, *)
(* and a leader epoch never goes back.  And what the driver owes a call:   *)
(* a result for every key, each of them true.                              *)
(***************************************************************************)
EXTENDS AdminDriver, TLAPS

ClusterTopic == [id : Nat, parts : {0, 1}, leader : Nodes, epoch : Nat]
ClusterState == [controller : Brokers, coordinator : Brokers,
                 brokers : SUBSET Brokers, topics : [Topics -> ClusterTopic]]

TopicAnswers == [code : {"Silent", "Unknown", "Transient"}] \cup
                [code : {"Ok"}, id : Nat, parts : {0, 1}, healthy : BOOLEAN,
                 leader : Nodes, epoch : Nat]
Responses == [code : {"Ok", "rebootstrap", "error"}, brokers : SUBSET Brokers,
              controller : Brokers, topics : [Topics -> TopicAnswers]]

CachedTopic == [id : Nat, parts : {-1, 0, 1}, leader : Nodes, epoch : Nat \cup {NoEpoch}]
Snapshots == [brokers : SUBSET Brokers, controller : Nodes,
              topics : [Topics -> CachedTopic],
              errors : [Topics -> {None, "Unknown", "Transient"}], reset : Nat]

Fetches == [full : BOOLEAN, topics : SUBSET Topics, waiters : SUBSET Callers,
            abandoned : BOOLEAN, rebootstrap : BOOLEAN]
Resting == {"look", "empty", "park", "backoff", "stopped"}
Fetching == {"jitter_first", "jitter", "begin", "connect", "sent", "answered"}
Writers == [pc : Resting \cup Fetching, full : BOOLEAN, topics : SUBSET Topics,
            waiters : SUBSET Callers, abandoned : BOOLEAN, rebootstrap : BOOLEAN,
            pass : 0..MAX_PASSES, used : BOOLEAN, reset : Nat,
            response : Responses \cup {None}]

Types ==
    /\ versions \in Seq(ClusterState) /\ versions # <<>>
    /\ cache \in Snapshots
    /\ pending \in Fetches
    /\ writer \in Writers
    /\ answer \in [Callers -> {None, "waiting", "ok", "err"}]
    /\ call \in [Callers -> Calls \cup {NoCall}]
    /\ owed \in [Callers -> SUBSET (Topics \cup {"brokers"})]
    /\ crossed \in [sent : BOOLEAN, seen : BOOLEAN]

(* What the driver asks the metadata for are topics. *)
Routed ==
    /\ {"pc", "todo", "stale"} \subseteq DOMAIN adm
    /\ adm.todo \subseteq Topics /\ adm.stale \subseteq Topics
    /\ DOMAIN sent = Brokers
    /\ \A b \in Brokers : "keys" \in DOMAIN sent[b] /\ sent[b].keys \subseteq Topics

(* A caller waits exactly while it is in one of the two lists. *)
Waiters ==
    /\ writer.waiters \cap pending.waiters = {}
    /\ \A c \in Callers : answer[c] = "waiting" <=> c \in writer.waiters \cup pending.waiters
    /\ writer.pc \in Resting => writer.waiters = {}

(* Only somebody who is in a call waits. *)
InCall ==
    /\ \A c \in Tasks : call[c] = NoCall => answer[c] # "waiting"
    /\ answer[Me] = "waiting" => adm.pc \in {"fetching", "refreshing"}

(* What a waiter is owed is what the fetch it is in asks for. *)
Owing ==
    /\ \A c \in pending.waiters : owed[c] \subseteq Asked(pending.full, pending.topics)
    /\ \A c \in writer.waiters : owed[c] \subseteq Asked(writer.full, writer.topics)
    /\ writer.pc = "answered" => \A c \in writer.waiters : owed[c] = {}
    /\ OkIsServed

(* Between finding nothing to do and sleeping, a permit is not lost. *)
Waking == writer.pc \in {"empty", "park"} /\ (pending.waiters # {} \/ closed) => permit

(* A fetch that a reset crossed is of an older view than the snapshot. *)
Resets ==
    /\ writer.reset <= cache.reset
    /\ crossed.sent /\ InFlight => writer.reset < cache.reset
    /\ ~crossed.seen

Answered == writer.pc = "answered" => writer.response \in Responses

(* Only a partition has a leader epoch. *)
Epochs == \A t \in Topics : cache.topics[t].epoch >= 0 => cache.topics[t].parts > 0

IInv ==
    /\ Types /\ Routed /\ Waiters /\ InCall /\ Owing
    /\ Waking /\ Resets /\ Answered /\ Epochs

-----------------------------------------------------------------------------
(* The cluster and the snapshot. *)

(* Whatever changes in the cluster, it stays a cluster. *)
LEMMA SuccessorIsCluster ==
    ASSUME versions \in Seq(ClusterState), versions # <<>>, NEW kind, NEW d \in Successors(kind)
    PROVE  d \in ClusterState
<1> DEFINE c == Cluster
<1>1. c \in ClusterState BY DEF Cluster
<1>2. c.controller \in Brokers /\ c.coordinator \in Brokers /\ c.brokers \subseteq Brokers
      /\ c.topics \in [Topics -> ClusterTopic]
  BY <1>1 DEF ClusterState
<1>3. NewId \in Nat BY DEF NewId
<1> HIDE DEF c
<1>4. CASE kind = "controller"
  <2>1. PICK b \in Brokers : d = [c EXCEPT !.controller = b] BY <1>4 DEF Successors, c
  <2> QED BY <2>1, <1>1 DEF ClusterState
<1>5. CASE kind = "coordinator"
  <2>1. PICK b \in Brokers : d = [c EXCEPT !.coordinator = b] BY <1>5 DEF Successors, c
  <2> QED BY <2>1, <1>1 DEF ClusterState
<1>6. CASE kind = "brokers"
  <2>1. PICK b \in c.brokers : d = [c EXCEPT !.brokers = @ \ {b}] BY <1>6 DEF Successors, c
  <2> QED BY <2>1, <1>1 DEF ClusterState
<1>7. ASSUME NEW t \in Topics, NEW q \in ClusterTopic, d = [c EXCEPT !.topics[t] = q]
      PROVE  d \in ClusterState
  <2>1. PICK ts : ts = [c.topics EXCEPT ![t] = q] OBVIOUS
  <2>2. ts \in [Topics -> ClusterTopic] BY <2>1, <1>2
  <2>3. d = [c EXCEPT !.topics = ts] BY <1>7, <2>1
  <2> QED BY <2>3, <2>2, <1>1 DEF ClusterState
<1>8. CASE kind = "leader"
  <2>1. d \in UNION {LET p == c.topics[t] IN
             {[c EXCEPT !.topics[t] = [p EXCEPT !.parts = 1, !.leader = b, !.epoch = @ + 1]] :
                b \in IF p.id = NoId THEN {} ELSE Nodes \ {p.leader}} : t \in Moving}
    BY <1>8 DEF Successors, c
  <2>2. PICK t \in Moving : d \in
             {[c EXCEPT !.topics[t] = [c.topics[t] EXCEPT !.parts = 1, !.leader = b, !.epoch = @ + 1]] :
                b \in IF c.topics[t].id = NoId THEN {} ELSE Nodes \ {c.topics[t].leader}}
    BY <2>1
  <2>3. PICK b \in Nodes :
           d = [c EXCEPT !.topics[t] = [c.topics[t] EXCEPT !.parts = 1, !.leader = b, !.epoch = @ + 1]]
    BY <2>2
  <2>4. t \in Topics /\ c.topics[t] \in ClusterTopic BY <1>2, MetadataAssumption
  <2>5. PICK q : q = [c.topics[t] EXCEPT !.parts = 1, !.leader = b, !.epoch = @ + 1] OBVIOUS
  <2>6. q \in ClusterTopic
    <3>1. PICK p : p = c.topics[t] OBVIOUS
    <3>2. q = [p EXCEPT !.parts = 1, !.leader = b, !.epoch = p.epoch + 1] BY <2>5, <3>1
    <3>3. p \in ClusterTopic /\ p.epoch + 1 \in Nat BY <3>1, <2>4 DEF ClusterTopic
    <3> QED BY <3>2, <3>3 DEF ClusterTopic
  <2> QED BY <2>3, <2>4, <2>5, <2>6, <1>7
<1>9. CASE kind = "topic"
  <2>1. PICK t \in Moving : \E q :
           /\ d = [c EXCEPT !.topics[t] = q]
           /\ \/ q = [c.topics[t] EXCEPT !.id = NoId]
              \/ \E b \in Brokers : q = [id |-> NewId, parts |-> 1, leader |-> b, epoch |-> 0]
    BY <1>9 DEF Successors, c
  <2>2. PICK q :
           /\ d = [c EXCEPT !.topics[t] = q]
           /\ \/ q = [c.topics[t] EXCEPT !.id = NoId]
              \/ \E b \in Brokers : q = [id |-> NewId, parts |-> 1, leader |-> b, epoch |-> 0]
    BY <2>1
  <2>3. t \in Topics /\ c.topics[t] \in ClusterTopic BY <1>2, MetadataAssumption
  <2>4. q \in ClusterTopic BY <2>2, <2>3, <1>3 DEF ClusterTopic, Nodes, NoId
  <2> QED BY <2>2, <2>3, <2>4, <1>7
<1>10. kind \in {"controller", "coordinator", "brokers", "leader", "topic"}
  BY DEF Successors
<1> QED BY <1>4, <1>5, <1>6, <1>8, <1>9, <1>10

(* A broker's answer is a response, whatever it knows and leaves out. *)
LEMMA AnswerIsResponse ==
    ASSUME versions \in Seq(ClusterState), NEW v \in DOMAIN versions, NEW full \in BOOLEAN,
           NEW names, NEW glitch
    PROVE  Response(v, full, names, glitch) \in Responses
<1>1. PICK c : c = versions[v] OBVIOUS
<1>2. c \in ClusterState BY <1>1
<1>3. c.controller \in Brokers /\ c.brokers \subseteq Brokers /\ c.topics \in [Topics -> ClusterTopic]
  BY <1>2 DEF ClusterState
<1>4. ASSUME NEW t \in Topics, NEW g
      PROVE  TopicAnswer(v, t, g) \in TopicAnswers
  <2>1. PICK p : p = c.topics[t] OBVIOUS
  <2>2. p \in ClusterTopic BY <2>1, <1>3
  <2>3. p.id \in Nat /\ p.parts \in {0, 1} /\ p.leader \in Nodes /\ p.epoch \in Nat
    BY <2>2 DEF ClusterTopic
  <2>4. p = versions[v].topics[t] BY <2>1, <1>1
  <2> QED BY <2>3, <2>4 DEF TopicAnswer, TopicAnswers, NoId
<1>5. PICK ts : ts = [t \in Topics |->
          IF IF full THEN versions[v].topics[t].id # NoId ELSE t \in names
          THEN TopicAnswer(v, t, IF t \in Moving THEN glitch ELSE None) ELSE [code |-> "Silent"]]
  OBVIOUS
<1>6. [code |-> "Silent"] \in TopicAnswers BY DEF TopicAnswers
<1>7. ts \in [Topics -> TopicAnswers] BY <1>4, <1>5, <1>6
<1>8. Response(v, full, names, glitch) =
         [code |-> IF glitch \in {"rebootstrap", "error"} THEN glitch ELSE "Ok",
          brokers |-> c.brokers, controller |-> c.controller, topics |-> ts]
  BY <1>1, <1>5 DEF Response
<1> QED BY <1>8, <1>7, <1>3 DEF Responses

(* A topic's leader epoch is never replaced by an older one of the same topic. *)
Forward(old, new) ==
    old.epoch >= 0 /\ new.epoch >= 0 /\ ~Recreated(old, new.id) => new.epoch >= old.epoch

(* One partition: the newer of two epochs of one topic stays (merge). *)
LEMMA PartitionMerges ==
    ASSUME NEW old \in CachedTopic, old.epoch >= 0 => old.parts > 0,
           NEW a, a.id \in Nat, a.parts = 1, a.healthy \in BOOLEAN, a.leader \in Nodes, a.epoch \in Nat
    PROVE  /\ MergePartition(old, a) \in CachedTopic
           /\ MergePartition(old, a).parts > 0
           /\ Forward(old, MergePartition(old, a))
<1>1. old.id \in Nat /\ old.parts \in {-1, 0, 1} /\ old.leader \in Nodes
      /\ old.epoch \in Nat \cup {-1}
  BY DEF CachedTopic, NoEpoch
<1>2. PICK i : i = [id |-> a.id, parts |-> a.parts,
                     leader |-> IF a.healthy THEN a.leader ELSE None,
                     epoch |-> IF a.healthy THEN a.epoch ELSE NoEpoch]
  OBVIOUS
<1>3. i.id = a.id /\ i.parts = 1 /\ i.leader \in Nodes /\ i.epoch \in Nat \cup {-1}
      /\ i \in CachedTopic
  BY <1>2 DEF Nodes, NoEpoch, CachedTopic
<1>4. CASE /\ old.parts > 0 /\ ~Recreated(old, a.id)
           /\ old.epoch >= 0 /\ i.epoch >= 0 /\ i.epoch < old.epoch
  <2>1. PICK m : m = [i EXCEPT !.leader = old.leader, !.epoch = old.epoch] OBVIOUS
  <2>2. MergePartition(old, a) = m BY <1>4, <1>2, <2>1 DEF MergePartition
  <2>3. m \in CachedTopic BY <2>1, <1>1, <1>3 DEF CachedTopic, NoEpoch
  <2>4. m.epoch = old.epoch /\ m.parts = 1 BY <2>1, <1>3 DEF CachedTopic
  <2> QED BY <2>2, <2>3, <2>4, <1>1 DEF Forward
<1>5. CASE ~(/\ old.parts > 0 /\ ~Recreated(old, a.id)
             /\ old.epoch >= 0 /\ i.epoch >= 0 /\ i.epoch < old.epoch)
  <2>1. MergePartition(old, a) = i BY <1>5, <1>2 DEF MergePartition
  <2> QED BY <2>1, <1>5, <1>3, <1>1 DEF Forward
<1> QED BY <1>4, <1>5

(* Applying a response keeps a snapshot a snapshot, and every epoch moves     *)
(* forward.                                                                   *)
LEMMA Merged ==
    ASSUME NEW c \in Snapshots, NEW r \in Responses, NEW full, NEW idle,
           \A t \in Topics : c.topics[t].epoch >= 0 => c.topics[t].parts > 0
    PROVE  LET m == Merge(c, r, full, idle) IN
           /\ m \in Snapshots /\ m.reset = c.reset
           /\ \A t \in Topics : /\ m.topics[t].epoch >= 0 => m.topics[t].parts > 0
                                /\ Forward(c.topics[t], m.topics[t])
<1>1. PICK kept : kept = IF full THEN {} ELSE {t \in Topics : Known(c, t) /\ t \notin idle}
  OBVIOUS
<1>2. /\ c.topics \in [Topics -> CachedTopic] /\ c.reset \in Nat
      /\ c.errors \in [Topics -> {None, "Unknown", "Transient"}]
  BY DEF Snapshots
<1>3. /\ r.brokers \subseteq Brokers /\ r.controller \in Nodes /\ r.topics \in [Topics -> TopicAnswers]
  BY DEF Responses, Nodes
<1> DEFINE topic(t) ==
       LET a == r.topics[t] IN
       CASE a.code = "Silent" -> IF t \in kept THEN c.topics[t] ELSE Absent
         [] a.code = "Unknown" -> Absent
         [] a.code = "Transient" -> c.topics[t]
         [] OTHER -> IF a.parts = 0
                     THEN [Absent EXCEPT !.id = a.id, !.parts = 0]
                     ELSE MergePartition(c.topics[t], a)
    error(t) ==
       LET a == r.topics[t] IN
       CASE a.code = "Silent" -> IF t \in kept THEN c.errors[t] ELSE None
         [] a.code = "Ok" -> None
         [] OTHER -> a.code
<1>4. PICK ts : ts = [t \in Topics |-> topic(t)] OBVIOUS
<1>5. PICK es : es = [t \in Topics |-> error(t)] OBVIOUS
<1>6. Merge(c, r, full, idle) = [brokers |-> r.brokers, controller |-> r.controller,
                                 topics |-> ts, errors |-> es, reset |-> c.reset]
  BY <1>1, <1>4, <1>5 DEF Merge
<1>7. Absent \in CachedTopic /\ Absent.epoch = -1
  BY DEF Absent, CachedTopic, NoId, NoEpoch, Nodes
<1>8. ASSUME NEW t \in Topics
      PROVE  /\ topic(t) \in CachedTopic
             /\ topic(t).epoch >= 0 => topic(t).parts > 0
             /\ Forward(c.topics[t], topic(t))
  <2>1. PICK a : a = r.topics[t] OBVIOUS
  <2>2. a \in TopicAnswers BY <2>1, <1>3
  <2>3. PICK old : old = c.topics[t] OBVIOUS
  <2>4. /\ old \in CachedTopic /\ (old.epoch >= 0 => old.parts > 0)
        /\ old.epoch \in Nat \cup {-1}
    BY <2>3, <1>2 DEF CachedTopic, NoEpoch
  <2>5. Forward(old, Absent) /\ Forward(old, old) BY <2>4, <1>7 DEF Forward
  <2>6. CASE a.code \in {"Silent", "Unknown", "Transient"}
    <3>1. topic(t) \in {old, Absent} BY <2>6, <2>1, <2>3
    <3> QED BY <3>1, <2>3, <2>4, <2>5, <1>7
  <2>7. CASE a.code \notin {"Silent", "Unknown", "Transient"}
    <3>1. /\ a.id \in Nat /\ a.parts \in {0, 1} /\ a.healthy \in BOOLEAN
          /\ a.leader \in Nodes /\ a.epoch \in Nat
      BY <2>7, <2>2 DEF TopicAnswers
    <3>2. CASE a.parts = 0
      <4>1. PICK n : n = [Absent EXCEPT !.id = a.id, !.parts = 0] OBVIOUS
      <4>2. topic(t) = n BY <2>7, <2>1, <3>2, <4>1
      <4>3. n \in CachedTopic /\ n.epoch = -1
        BY <4>1, <3>1 DEF Absent, CachedTopic, NoId, NoEpoch, Nodes
      <4>4. Forward(old, n) /\ ~(n.epoch >= 0) BY <4>3 DEF Forward
      <4> QED BY <4>2, <4>3, <4>4, <2>3
    <3>3. CASE a.parts = 1
      <4>1. topic(t) = MergePartition(old, a) BY <2>7, <2>1, <2>3, <3>3
      <4>2. PICK n : n = MergePartition(old, a) OBVIOUS
      <4>3. n \in CachedTopic /\ n.parts > 0 /\ Forward(old, n)
        BY <4>2, <3>1, <3>3, <2>4, PartitionMerges
      <4> QED BY <4>1, <4>2, <4>3, <2>3
    <3> QED BY <3>1, <3>2, <3>3
  <2> QED BY <2>6, <2>7
<1>9. ASSUME NEW t \in Topics
      PROVE  error(t) \in {None, "Unknown", "Transient"}
  <2>1. r.topics[t].code \in {"Silent", "Unknown", "Transient", "Ok"} BY <1>3 DEF TopicAnswers
  <2> QED BY <2>1, <1>2
<1> HIDE DEF topic, error
<1>10. /\ ts \in [Topics -> CachedTopic] /\ es \in [Topics -> {None, "Unknown", "Transient"}]
       /\ \A t \in Topics : ts[t] = topic(t)
  BY <1>4, <1>5, <1>8, <1>9
<1>11. PICK m : m = Merge(c, r, full, idle) OBVIOUS
<1>12. m \in Snapshots /\ m.reset = c.reset /\ m.topics = ts
  BY <1>11, <1>6, <1>10, <1>3, <1>2 DEF Snapshots
<1> QED BY <1>11, <1>12, <1>10, <1>8

-----------------------------------------------------------------------------
(* Requests, and their ends. *)

(* A request joins the next fetch and wakes the writer. *)
LEMMA AskKeeps ==
    ASSUME Types, Waiters, Owing, Waking, UNCHANGED <<closed>>,
           NEW c \in Callers, NEW full \in BOOLEAN, NEW names \in SUBSET Topics,
           answer[c] # "waiting", Ask(c, full, names)
    PROVE  /\ pending' \in Fetches
           /\ answer' \in [Callers -> {None, "waiting", "ok", "err"}]
           /\ owed' \in [Callers -> SUBSET (Topics \cup {"brokers"})]
           /\ Waiters' /\ Owing' /\ Waking'
           /\ \A d \in Callers : d # c => answer'[d] = answer[d]
<1>1. /\ pending \in Fetches /\ answer \in [Callers -> {None, "waiting", "ok", "err"}]
      /\ owed \in [Callers -> SUBSET (Topics \cup {"brokers"})]
  BY DEF Types
<1>2. /\ pending.full \in BOOLEAN /\ pending.topics \subseteq Topics
      /\ pending.waiters \subseteq Callers
  BY <1>1 DEF Fetches
<1>3. /\ pending' = [pending EXCEPT !.full = @ \/ full, !.topics = @ \cup names,
                                    !.waiters = @ \cup {c}]
      /\ permit' = TRUE
      /\ answer' = [answer EXCEPT ![c] = "waiting"]
      /\ owed' = [owed EXCEPT ![c] = Asked(full, names)]
      /\ writer' = writer
  BY DEF Ask, wake_writer
<1>4. /\ pending'.full = (pending.full \/ full) /\ pending'.topics = pending.topics \cup names
      /\ pending'.waiters = pending.waiters \cup {c}
      /\ pending' \in Fetches
  BY <1>1, <1>2, <1>3 DEF Fetches
<1>5. Asked(full, names) \subseteq Topics \cup {"brokers"} BY DEF Asked
<1>6. owed' \in [Callers -> SUBSET (Topics \cup {"brokers"})] /\ owed'[c] = Asked(full, names)
      /\ \A d \in Callers : d # c => owed'[d] = owed[d]
  BY <1>1, <1>3, <1>5
<1>7. answer' \in [Callers -> {None, "waiting", "ok", "err"}] /\ answer'[c] = "waiting"
      /\ \A d \in Callers : d # c => answer'[d] = answer[d]
  BY <1>1, <1>3
<1>8. /\ writer.waiters \cap pending.waiters = {} /\ (writer.pc \in Resting => writer.waiters = {})
      /\ \A d \in Callers : answer[d] = "waiting" <=> d \in writer.waiters \cup pending.waiters
  BY DEF Waiters
<1>9. c \notin writer.waiters BY <1>8
<1>10. Waiters' BY <1>3, <1>4, <1>7, <1>8, <1>9 DEF Waiters
<1>11. Owing'
  <2>1. \A d \in pending'.waiters : owed'[d] \subseteq Asked(pending'.full, pending'.topics)
    <3>1. ASSUME NEW d \in pending.waiters, d # c
          PROVE  owed'[d] \subseteq Asked(pending'.full, pending'.topics)
      <4>1. owed[d] \subseteq Asked(pending.full, pending.topics) BY DEF Owing
      <4> QED BY <4>1, <3>1, <1>2, <1>4, <1>6 DEF Asked
    <3>2. Asked(full, names) \subseteq Asked(pending'.full, pending'.topics)
      BY <1>2, <1>4 DEF Asked
    <3> QED BY <3>1, <3>2, <1>4, <1>6
  <2>2. \A d \in writer.waiters : owed'[d] = owed[d] BY <1>6, <1>8, <1>9, <1>2 DEF Types, Writers
  <2>3. OkIsServed' BY <1>6, <1>7 DEF Owing, OkIsServed
  <2> QED BY <2>1, <2>2, <2>3, <1>3 DEF Owing
<1>12. Waking' BY <1>3 DEF Waking
<1> QED BY <1>4, <1>6, <1>7, <1>10, <1>11, <1>12

(* A caller that goes away is in no list any more. *)
LEMMA AbandonKeeps ==
    ASSUME Types, Waiters, Owing, Waking, UNCHANGED <<closed, permit, owed>>,
           NEW c \in Callers, Abandon(c)
    PROVE  /\ pending' \in Fetches /\ writer' \in Writers
           /\ writer'.pc = writer.pc /\ writer'.reset = writer.reset
           /\ writer'.response = writer.response
           /\ answer' \in [Callers -> {None, "waiting", "ok", "err"}]
           /\ Waiters' /\ Owing' /\ Waking'
           /\ answer'[c] = None /\ \A d \in Callers : d # c => answer'[d] = answer[d]
<1>1. /\ pending \in Fetches /\ answer \in [Callers -> {None, "waiting", "ok", "err"}]
      /\ writer \in Writers
  BY DEF Types
<1>2. answer' = [answer EXCEPT ![c] = None] BY DEF Abandon
<1>3. pending' = pending \/ pending' = [pending EXCEPT !.waiters = @ \ {c}, !.abandoned = TRUE]
  BY DEF Abandon
<1>4. /\ pending'.full = pending.full /\ pending'.topics = pending.topics
      /\ pending' \in Fetches
  <2>1. PICK ws : ws = pending.waiters \ {c} OBVIOUS
  <2>2. ws \in SUBSET Callers BY <2>1, <1>1 DEF Fetches
  <2>3. CASE pending' = [pending EXCEPT !.waiters = ws, !.abandoned = TRUE]
    BY <2>2, <2>3, <1>1 DEF Fetches
  <2> QED BY <2>1, <2>3, <1>1, <1>3
<1>5. pending'.waiters = pending.waiters \ {c}
  <2>1. CASE c \in pending.waiters
    <3>1. pending' = [pending EXCEPT !.waiters = @ \ {c}, !.abandoned = TRUE] BY <2>1 DEF Abandon
    <3> QED BY <3>1, <1>1 DEF Fetches
  <2>2. CASE c \notin pending.waiters BY <2>2 DEF Abandon
  <2> QED BY <2>1, <2>2
<1>6. writer' = writer \/ writer' = [writer EXCEPT !.waiters = @ \ {c}, !.abandoned = TRUE]
  BY DEF Abandon
<1>7. /\ writer'.full = writer.full /\ writer'.topics = writer.topics /\ writer'.pc = writer.pc
      /\ writer'.reset = writer.reset /\ writer'.response = writer.response
      /\ writer' \in Writers
  <2>1. PICK ws : ws = writer.waiters \ {c} OBVIOUS
  <2>2. ws \in SUBSET Callers BY <2>1, <1>1 DEF Writers
  <2>3. CASE writer' = [writer EXCEPT !.waiters = ws, !.abandoned = TRUE]
    BY <2>2, <2>3, <1>1 DEF Writers
  <2> QED BY <2>1, <2>3, <1>1, <1>6
<1>8. writer'.waiters = writer.waiters \ {c}
  <2>1. CASE c \in writer.waiters
    <3>1. writer' = [writer EXCEPT !.waiters = @ \ {c}, !.abandoned = TRUE] BY <2>1 DEF Abandon
    <3> QED BY <3>1, <1>1 DEF Writers
  <2>2. CASE c \notin writer.waiters BY <2>2 DEF Abandon
  <2> QED BY <2>1, <2>2
<1>9. answer' \in [Callers -> {None, "waiting", "ok", "err"}] /\ answer'[c] = None
      /\ \A d \in Callers : d # c => answer'[d] = answer[d]
  BY <1>1, <1>2
<1>10. None # "waiting" /\ None # "ok" BY DEF None
<1>11. Waiters' BY <1>5, <1>7, <1>8, <1>9, <1>10 DEF Waiters
<1>12. Owing'
  <2>1. OkIsServed' BY <1>9, <1>10 DEF Owing, OkIsServed
  <2> QED BY <2>1, <1>4, <1>5, <1>7, <1>8 DEF Owing
<1>13. Waking' BY <1>5, <1>7 DEF Waking
<1> QED BY <1>4, <1>7, <1>9, <1>11, <1>12, <1>13

(* The writer between two fetches. *)
LEMMA IdleIsWriter ==
    /\ Idle \in Writers /\ Idle.pc = "look" /\ Idle.waiters = {} /\ Idle.full = FALSE
    /\ Idle.topics = {} /\ Idle.reset = 0
BY DEF Idle, Writers, Resting, MAX_PASSES

(* The end of a fetch answers its waiters; an Ok only once a broker has       *)
(* answered.                                                                  *)
LEMMA FinishKeeps ==
    ASSUME Types, Waiters, Owing, UNCHANGED <<pending, owed>>,
           NEW result \in {"ok", "err"}, result = "ok" => writer.pc = "answered", Finish(result)
    PROVE  /\ writer' = Idle /\ writer' \in Writers
           /\ answer' \in [Callers -> {None, "waiting", "ok", "err"}]
           /\ Waiters' /\ Owing' /\ Waking'
           /\ \A d \in Callers : answer'[d] = "waiting" => answer[d] = "waiting"
<1>1. answer' = [c \in Callers |-> IF c \in writer.waiters THEN result ELSE answer[c]]
      /\ writer' = Idle
  BY DEF Finish
<1>2. answer \in [Callers -> {None, "waiting", "ok", "err"}] BY DEF Types
<1>3. answer' \in [Callers -> {None, "waiting", "ok", "err"}] BY <1>1, <1>2
<1>4. /\ Idle \in Writers /\ Idle.pc = "look" /\ Idle.waiters = {} /\ Idle.full = FALSE
      /\ Idle.topics = {}
  BY DEF Idle, Writers, Resting, MAX_PASSES
<1>5. \A d \in Callers : /\ d \in writer.waiters => answer'[d] = result
                         /\ d \notin writer.waiters => answer'[d] = answer[d]
  BY <1>1
<1>6. Waiters' BY <1>1, <1>4, <1>5 DEF Waiters, Resting
<1>7. OkIsServed'
  <2>1. ASSUME NEW d \in Callers, answer'[d] = "ok" PROVE owed[d] = {}
    <3>1. CASE d \in writer.waiters BY <3>1, <2>1, <1>5 DEF Owing
    <3>2. CASE d \notin writer.waiters BY <3>2, <2>1, <1>5 DEF Owing, OkIsServed
    <3> QED BY <3>1, <3>2
  <2> QED BY <2>1 DEF OkIsServed
<1>8. Owing' BY <1>1, <1>4, <1>7 DEF Owing
<1>9. Waking' BY <1>1, <1>4 DEF Waking
<1> QED BY <1>1, <1>3, <1>4, <1>5, <1>6, <1>8, <1>9

(* A move of the writer that leaves its waiters with what they asked for. *)
LEMMA MoveKeeps ==
    ASSUME Waiters, Owing, UNCHANGED <<pending, answer, owed>>,
           writer'.waiters = writer.waiters, writer'.full = writer.full,
           writer'.topics = writer.topics, writer'.pc # "answered",
           writer'.pc \in Resting => writer.pc \in Resting
    PROVE  Waiters' /\ Owing'
<1>1. Waiters' BY DEF Waiters
<1>2. OkIsServed' BY DEF Owing, OkIsServed
<1>3. Owing' BY <1>2 DEF Owing
<1> QED BY <1>1, <1>3

(* The next pass of a fetch, or its end. *)
LEMMA PassKeeps ==
    ASSUME Types, Waiters, Owing, UNCHANGED <<pending, owed>>, writer.pc \in Fetching,
           NEW used \in BOOLEAN, NEW reset \in Nat, NextPass(used, reset)
    PROVE  /\ writer' \in Writers /\ writer'.pc \in {"look", "connect"}
           /\ writer'.reset \in {0, reset}
           /\ answer' \in [Callers -> {None, "waiting", "ok", "err"}]
           /\ Waiters' /\ Owing' /\ Waking'
           /\ \A d \in Callers : answer'[d] = "waiting" => answer[d] = "waiting"
<1>1. CASE writer.pass = MAX_PASSES
  <2>1. Finish("err") BY <1>1 DEF NextPass
  <2>2. PICK res : res = "err" OBVIOUS
  <2>3. res \in {"ok", "err"} /\ res # "ok" /\ Finish(res) BY <2>1, <2>2
  <2>4. Idle.pc = "look" /\ Idle.reset = 0 BY DEF Idle
  <2>5. /\ writer' = Idle /\ writer' \in Writers
        /\ answer' \in [Callers -> {None, "waiting", "ok", "err"}]
        /\ Waiters' /\ Owing' /\ Waking'
        /\ \A d \in Callers : answer'[d] = "waiting" => answer[d] = "waiting"
    BY <2>3, FinishKeeps
  <2> QED BY <2>4, <2>5
<1>2. CASE writer.pass # MAX_PASSES
  <2>1. /\ writer' = [writer EXCEPT !.pc = "connect", !.pass = @ + 1, !.used = used,
                                     !.reset = reset, !.response = None]
        /\ answer' = answer
    BY <1>2 DEF NextPass
  <2>2. writer \in Writers /\ answer \in [Callers -> {None, "waiting", "ok", "err"}] BY DEF Types
  <2>3. PICK p : p = writer.pass + 1 OBVIOUS
  <2>4. p \in 0..MAX_PASSES BY <2>2, <2>3, <1>2 DEF Writers, MAX_PASSES
  <2>5. writer' = [writer EXCEPT !.pc = "connect", !.pass = p, !.used = used,
                                 !.reset = reset, !.response = None]
    BY <2>1, <2>3
  <2>6. /\ writer' \in Writers /\ writer'.pc = "connect" /\ writer'.reset = reset
        /\ writer'.waiters = writer.waiters /\ writer'.full = writer.full
        /\ writer'.topics = writer.topics
    BY <2>5, <2>2, <2>4 DEF Writers, Fetching
  <2>7. Waiters' /\ Owing' BY <2>6, <2>1, MoveKeeps DEF Resting
  <2>8. Waking' BY <2>6 DEF Waking
  <2> QED BY <2>1, <2>2, <2>6, <2>7, <2>8
<1> QED BY <1>1, <1>2

(* Nobody starts to wait without a call. *)
LEMMA CallKeeps ==
    ASSUME InCall, UNCHANGED <<call, avars>>,
           \A d \in Callers : answer'[d] = "waiting" => answer[d] = "waiting"
    PROVE  InCall'
BY DEF InCall, avars, Callers, Me

(* The driver stands still. *)
LEMMA RouteKeeps ==
    ASSUME Routed, UNCHANGED avars
    PROVE  Routed'
BY DEF Routed, avars

(* Every epoch of the snapshot moves forward. *)
Onward == \A t \in Topics : Forward(cache.topics[t], cache.topics[t]')

(* The snapshot stays. *)
LEMMA CacheKeeps ==
    ASSUME Types, Epochs, UNCHANGED cache
    PROVE  Onward /\ Epochs'
<1>1. Epochs' BY DEF Epochs
<1>2. ASSUME NEW t \in Topics PROVE Forward(cache.topics[t], cache.topics[t]')
  <2>1. PICK p : p = cache.topics[t] OBVIOUS
  <2>2. p \in CachedTopic BY <2>1 DEF Types, Snapshots
  <2>3. p.epoch >= p.epoch BY <2>2 DEF CachedTopic, NoEpoch
  <2> QED BY <2>1, <2>3 DEF Forward
<1> QED BY <1>1, <1>2 DEF Onward

(* A reset leaves no topic, and counts the views (reset_to_seeds). *)
LEMMA ResetKeeps ==
    ASSUME Types, reset_to_seeds
    PROVE  Onward /\ Epochs' /\ cache' \in Snapshots /\ cache'.reset = cache.reset + 1
<1>1. PICK n : n = cache.reset + 1 OBVIOUS
<1>2. n \in Nat BY <1>1 DEF Types, Snapshots
<1>3. cache' = MetadataCache_new(n) BY <1>1 DEF reset_to_seeds
<1>4. Absent \in CachedTopic /\ Absent.epoch = -1
  BY DEF Absent, CachedTopic, NoId, NoEpoch, Nodes
<1>5. cache' \in Snapshots BY <1>2, <1>3, <1>4 DEF MetadataCache_new, Snapshots, Nodes
<1>6. cache'.reset = n /\ \A t \in Topics : cache'.topics[t] = Absent
  BY <1>3 DEF MetadataCache_new
<1>7. Onward BY <1>4, <1>6 DEF Onward, Forward
<1>8. Epochs' BY <1>4, <1>6 DEF Epochs
<1> QED BY <1>1, <1>5, <1>6, <1>7, <1>8

-----------------------------------------------------------------------------
(* The writer's steps. *)

(* What a step that leaves the snapshot and the callers' calls alone has to   *)
(* establish.                                                                 *)
LEMMA StepKeeps ==
    ASSUME IInv, UNCHANGED <<versions, cache, call, avars>>,
           writer' \in Writers, pending' \in Fetches,
           answer' \in [Callers -> {None, "waiting", "ok", "err"}],
           owed' \in [Callers -> SUBSET (Topics \cup {"brokers"})],
           crossed' \in [sent : BOOLEAN, seen : BOOLEAN],
           \A d \in Callers : answer'[d] = "waiting" => answer[d] = "waiting",
           Waiters', Owing', Waking', Resets', Answered'
    PROVE  IInv' /\ Onward
<1>1. Types' BY DEF IInv, Types
<1>2. Routed' BY RouteKeeps DEF IInv
<1>3. InCall' BY CallKeeps DEF IInv
<1>4. Onward /\ Epochs' BY CacheKeeps DEF IInv
<1> QED BY <1>1, <1>2, <1>3, <1>4 DEF IInv

(* The writer finds work, or none, or that it is to stop. *)
LEMMA LookKeeps ==
    ASSUME IInv, look_for_work, UNCHANGED avars
    PROVE  IInv' /\ Onward
<1>1. /\ UNCHANGED <<versions, cache, permit, attempt, closed, call, left, owed, crossed>>
      /\ writer.pc = "look"
  BY DEF look_for_work
<1>2. Types /\ Waiters /\ Owing /\ Waking /\ Resets BY DEF IInv
<1>3. /\ writer \in Writers /\ pending \in Fetches /\ crossed \in [sent : BOOLEAN, seen : BOOLEAN]
      /\ answer \in [Callers -> {None, "waiting", "ok", "err"}]
      /\ owed \in [Callers -> SUBSET (Topics \cup {"brokers"})]
  BY <1>2 DEF Types
<1>4. writer.waiters = {} BY <1>1, <1>2 DEF Waiters, Resting
<1>5. CASE closed
  <2>1. /\ writer' = [Idle EXCEPT !.pc = "stopped"] /\ pending' = NoFetch
        /\ answer' = [c \in Callers |-> IF c \in pending.waiters THEN "err" ELSE answer[c]]
    BY <1>5 DEF look_for_work
  <2>2. /\ writer' \in Writers /\ writer'.pc = "stopped" /\ writer'.waiters = {}
        /\ writer'.reset = 0
    BY <2>1, IdleIsWriter DEF Writers, Resting
  <2>3. pending' \in Fetches /\ pending'.waiters = {} BY <2>1 DEF NoFetch, Fetches
  <2>4. answer' \in [Callers -> {None, "waiting", "ok", "err"}] BY <2>1, <1>3
  <2>5. \A d \in Callers : answer'[d] = IF d \in pending.waiters THEN "err" ELSE answer[d]
    BY <2>1
  <2>6. Waiters' BY <2>2, <2>3, <2>5, <1>2, <1>4 DEF Waiters
  <2>7. OkIsServed' BY <2>5, <1>1, <1>2 DEF Owing, OkIsServed
  <2>8. Owing' BY <2>2, <2>3, <2>7 DEF Owing
  <2>9. Waking' BY <2>2 DEF Waking
  <2>10. Resets' BY <2>2, <1>1, <1>2 DEF Resets, InFlight, Types, Snapshots
  <2>11. Answered' BY <2>2 DEF Answered
  <2> QED BY <2>2, <2>3, <2>4, <2>5, <2>6, <2>8, <2>9, <2>10, <2>11, <1>1, <1>3, StepKeeps
<1>6. CASE ~closed
  <2>1. /\ writer' = [writer EXCEPT !.pc = IF PendingIsEmpty THEN "empty" ELSE "backoff"]
        /\ pending' = pending /\ answer' = answer
    BY <1>6 DEF look_for_work
  <2>2. /\ writer' \in Writers /\ writer'.waiters = {} /\ writer'.full = writer.full
        /\ writer'.topics = writer.topics /\ writer'.reset = writer.reset
        /\ writer'.pc = IF PendingIsEmpty THEN "empty" ELSE "backoff"
    BY <2>1, <1>3, <1>4 DEF Writers, Resting
  <2>3. Waiters' /\ Owing' BY <2>1, <2>2, <1>1, <1>2, <1>4, MoveKeeps DEF Resting
  <2>4. Waking' BY <2>1, <2>2, <1>1, <1>6 DEF Waking, PendingIsEmpty
  <2>5. Resets' BY <2>2, <1>1, <1>2 DEF Resets, InFlight
  <2>6. Answered' BY <2>2 DEF Answered
  <2> QED BY <2>1, <2>2, <2>3, <2>4, <2>5, <2>6, <1>1, <1>3, StepKeeps
<1> QED BY <1>5, <1>6

(* A stored permit is taken, or the writer sleeps. *)
LEMMA NotifiedKeeps ==
    ASSUME IInv, notified, UNCHANGED avars
    PROVE  IInv' /\ Onward
<1>1. /\ UNCHANGED <<versions, cache, pending, attempt, closed, answer, call, left, owed, crossed>>
      /\ writer.pc \in {"empty", "park"} /\ (permit \/ writer.pc = "empty") /\ permit' = FALSE
      /\ writer' = [writer EXCEPT !.pc = IF permit THEN "look" ELSE "park"]
  BY DEF notified
<1>2. Types /\ Waiters /\ Owing /\ Waking /\ Resets BY DEF IInv
<1>3. /\ writer \in Writers /\ pending \in Fetches /\ crossed \in [sent : BOOLEAN, seen : BOOLEAN]
      /\ answer \in [Callers -> {None, "waiting", "ok", "err"}]
      /\ owed \in [Callers -> SUBSET (Topics \cup {"brokers"})]
  BY <1>2 DEF Types
<1>4. /\ writer' \in Writers /\ writer'.waiters = writer.waiters /\ writer'.full = writer.full
      /\ writer'.topics = writer.topics /\ writer'.reset = writer.reset
      /\ writer'.pc = IF permit THEN "look" ELSE "park"
  BY <1>1, <1>3 DEF Writers, Resting
<1>5. Waiters' /\ Owing' BY <1>1, <1>2, <1>4, MoveKeeps DEF Resting
<1>6. Waking' BY <1>1, <1>2, <1>4 DEF Waking
<1>7. Resets' BY <1>1, <1>2, <1>4 DEF Resets, InFlight
<1>8. Answered' BY <1>4 DEF Answered
<1> QED BY <1>1, <1>3, <1>4, <1>5, <1>6, <1>7, <1>8, StepKeeps

(* Everything requested becomes one fetch. *)
LEMMA TakeKeeps ==
    ASSUME IInv, take_batch, UNCHANGED avars
    PROVE  IInv' /\ Onward
<1>1. /\ UNCHANGED <<versions, cache, permit, attempt, closed, answer, call, left, owed, crossed>>
      /\ writer.pc = "backoff" /\ pending' = NoFetch
      /\ writer' = [Idle EXCEPT !.pc = IF pending.rebootstrap THEN "jitter_first" ELSE "begin",
                                !.full = pending.full, !.topics = pending.topics,
                                !.waiters = pending.waiters]
  BY DEF take_batch
<1>2. Types /\ Waiters /\ Owing /\ Waking /\ Resets BY DEF IInv
<1>3. /\ writer \in Writers /\ pending \in Fetches /\ crossed \in [sent : BOOLEAN, seen : BOOLEAN]
      /\ answer \in [Callers -> {None, "waiting", "ok", "err"}]
      /\ owed \in [Callers -> SUBSET (Topics \cup {"brokers"})]
  BY <1>2 DEF Types
<1>4. pending.full \in BOOLEAN /\ pending.topics \subseteq Topics /\ pending.waiters \subseteq Callers
  BY <1>3 DEF Fetches
<1>5. /\ writer' \in Writers /\ writer'.waiters = pending.waiters /\ writer'.full = pending.full
      /\ writer'.topics = pending.topics /\ writer'.reset = 0
      /\ writer'.pc \in {"jitter_first", "begin"}
  <2>1. PICK pc : pc = IF pending.rebootstrap THEN "jitter_first" ELSE "begin" OBVIOUS
  <2>2. pc \in {"jitter_first", "begin"} /\ pc \in Fetching BY <2>1 DEF Fetching
  <2>3. writer' = [Idle EXCEPT !.pc = pc, !.full = pending.full, !.topics = pending.topics,
                               !.waiters = pending.waiters]
    BY <1>1, <2>1
  <2> QED BY <2>2, <2>3, <1>4, IdleIsWriter DEF Writers
<1>6. pending' \in Fetches /\ pending'.waiters = {} BY <1>1 DEF NoFetch, Fetches
<1>7. writer.waiters = {} BY <1>1, <1>2 DEF Waiters, Resting
<1>8. Waiters' BY <1>1, <1>2, <1>5, <1>6, <1>7 DEF Waiters, Resting
<1>9. OkIsServed' BY <1>1, <1>2 DEF Owing, OkIsServed
<1>10. Owing' BY <1>1, <1>2, <1>5, <1>6, <1>9 DEF Owing
<1>11. Waking' BY <1>5 DEF Waking
<1>12. Resets' BY <1>1, <1>2, <1>5 DEF Resets, InFlight, Types, Snapshots
<1>13. Answered' BY <1>5 DEF Answered
<1> QED BY <1>1, <1>3, <1>5, <1>6, <1>8, <1>10, <1>11, <1>12, <1>13, StepKeeps

(* A fetch nobody waits for is dropped; another one starts. *)
LEMMA BeginKeeps ==
    ASSUME IInv, begin_fetch, UNCHANGED avars
    PROVE  IInv' /\ Onward
<1>1. /\ UNCHANGED <<versions, cache, pending, permit, closed, call, owed, crossed>>
      /\ writer.pc = "begin"
  BY DEF begin_fetch
<1>2. Types /\ Waiters /\ Owing /\ Waking /\ Resets BY DEF IInv
<1>3. /\ writer \in Writers /\ pending \in Fetches /\ crossed \in [sent : BOOLEAN, seen : BOOLEAN]
      /\ answer \in [Callers -> {None, "waiting", "ok", "err"}]
      /\ owed \in [Callers -> SUBSET (Topics \cup {"brokers"})] /\ cache.reset \in Nat
  BY <1>2 DEF Types, Snapshots
<1>4. CASE writer.waiters = {} /\ writer' = Idle /\ answer' = answer
  <2>1. /\ writer' \in Writers /\ writer'.pc = "look" /\ writer'.waiters = {} /\ writer'.reset = 0
    BY <1>4 DEF Idle, Writers, Resting, MAX_PASSES
  <2>2. Waiters' BY <2>1, <1>1, <1>2, <1>4 DEF Waiters
  <2>3. OkIsServed' BY <1>1, <1>2, <1>4 DEF Owing, OkIsServed
  <2>4. Owing' BY <2>1, <2>3, <1>1, <1>2 DEF Owing
  <2>5. Waking' BY <2>1 DEF Waking
  <2>6. Resets' BY <2>1, <1>1, <1>2, <1>3 DEF Resets, InFlight
  <2>7. Answered' BY <2>1 DEF Answered
  <2> QED BY <2>1, <2>2, <2>4, <2>5, <2>6, <2>7, <1>1, <1>3, <1>4, StepKeeps
<1>5. CASE writer' = [writer EXCEPT !.pc = "jitter", !.used = TRUE] /\ answer' = answer
  <2>1. /\ writer' \in Writers /\ writer'.waiters = writer.waiters /\ writer'.full = writer.full
        /\ writer'.topics = writer.topics /\ writer'.reset = writer.reset
        /\ writer'.pc = "jitter"
    BY <1>5, <1>3 DEF Writers, Fetching
  <2>2. Waiters' /\ Owing' BY <2>1, <1>1, <1>2, <1>5, MoveKeeps DEF Resting
  <2>3. Waking' BY <2>1 DEF Waking
  <2>4. Resets' BY <2>1, <1>1, <1>2 DEF Resets, InFlight
  <2>5. Answered' BY <2>1 DEF Answered
  <2> QED BY <2>1, <2>2, <2>3, <2>4, <2>5, <1>1, <1>3, <1>5, StepKeeps
<1>6. CASE NextPass(FALSE, cache.reset)
  <2>1. PICK u \in BOOLEAN, r \in Nat : u = FALSE /\ r = cache.reset BY <1>3
  <2>2. NextPass(u, r) BY <2>1, <1>6
  <2>3. writer.pc \in Fetching BY <1>1 DEF Fetching
  <2>4. /\ writer' \in Writers /\ writer'.pc \in {"look", "connect"}
        /\ writer'.reset \in {0, r}
        /\ answer' \in [Callers -> {None, "waiting", "ok", "err"}]
        /\ Waiters' /\ Owing' /\ Waking'
        /\ \A d \in Callers : answer'[d] = "waiting" => answer[d] = "waiting"
    BY <2>2, <2>3, <1>1, <1>2, PassKeeps
  <2>5. Resets' BY <2>1, <2>4, <1>1, <1>2, <1>3 DEF Resets, InFlight
  <2>6. Answered' BY <2>4 DEF Answered
  <2> QED BY <2>4, <2>5, <2>6, <1>1, <1>3, StepKeeps
<1> QED BY <1>4, <1>5, <1>6 DEF begin_fetch

(* The request is on the wire, over the view of now. *)
LEMMA ConnectedKeeps ==
    ASSUME IInv, connected, UNCHANGED avars
    PROVE  IInv' /\ Onward
<1>1. /\ UNCHANGED <<versions, cache, pending, permit, attempt, closed, answer, call, left, owed>>
      /\ writer.pc = "connect" /\ writer' = [writer EXCEPT !.pc = "sent"]
      /\ crossed' = [crossed EXCEPT !.sent = FALSE]
  BY DEF connected
<1>2. Types /\ Waiters /\ Owing /\ Waking /\ Resets BY DEF IInv
<1>3. /\ writer \in Writers /\ pending \in Fetches /\ crossed \in [sent : BOOLEAN, seen : BOOLEAN]
      /\ answer \in [Callers -> {None, "waiting", "ok", "err"}]
      /\ owed \in [Callers -> SUBSET (Topics \cup {"brokers"})]
  BY <1>2 DEF Types
<1>4. /\ writer' \in Writers /\ writer'.waiters = writer.waiters /\ writer'.full = writer.full
      /\ writer'.topics = writer.topics /\ writer'.reset = writer.reset
      /\ writer'.pc = "sent"
  BY <1>1, <1>3 DEF Writers, Fetching
<1>5. /\ crossed' \in [sent : BOOLEAN, seen : BOOLEAN] /\ crossed'.seen = crossed.seen
      /\ crossed'.sent = FALSE
  BY <1>1, <1>3
<1>6. Waiters' /\ Owing' BY <1>1, <1>2, <1>4, MoveKeeps DEF Resting
<1>7. Waking' BY <1>4 DEF Waking
<1>8. Resets' BY <1>1, <1>2, <1>4, <1>5 DEF Resets, InFlight
<1>9. Answered' BY <1>4 DEF Answered
<1> QED BY <1>1, <1>3, <1>4, <1>5, <1>6, <1>7, <1>8, <1>9, StepKeeps

(* A fetch that ends without an answer. *)
LEMMA FailKeeps ==
    ASSUME IInv, Finish("err"), UNCHANGED avars,
           UNCHANGED <<versions, cache, pending, permit, closed, call, owed, crossed>>
    PROVE  IInv' /\ Onward
<1>1. Types /\ Waiters /\ Owing /\ Waking /\ Resets BY DEF IInv
<1>2. /\ pending \in Fetches /\ crossed \in [sent : BOOLEAN, seen : BOOLEAN]
      /\ owed \in [Callers -> SUBSET (Topics \cup {"brokers"})] /\ cache.reset \in Nat
  BY <1>1 DEF Types, Snapshots
<1>3. PICK res : res = "err" OBVIOUS
<1>4. res \in {"ok", "err"} /\ res # "ok" /\ Finish(res) BY <1>3
<1>5. /\ writer' = Idle /\ writer' \in Writers
      /\ answer' \in [Callers -> {None, "waiting", "ok", "err"}]
      /\ Waiters' /\ Owing' /\ Waking'
      /\ \A d \in Callers : answer'[d] = "waiting" => answer[d] = "waiting"
  BY <1>1, <1>4, FinishKeeps
<1>6. Idle.pc = "look" /\ Idle.reset = 0 BY DEF Idle
<1>7. Resets' BY <1>1, <1>2, <1>5, <1>6 DEF Resets, InFlight
<1>8. Answered' BY <1>5, <1>6 DEF Answered
<1> QED BY <1>2, <1>5, <1>7, <1>8, StepKeeps

(* The writer goes to its jitter. *)
LEMMA JitterKeeps ==
    ASSUME IInv, writer' = [writer EXCEPT !.pc = "jitter"], writer.pc \in Fetching, UNCHANGED avars,
           UNCHANGED <<versions, cache, pending, permit, closed, answer, call, owed, crossed>>
    PROVE  IInv' /\ Onward
<1>1. Types /\ Waiters /\ Owing /\ Waking /\ Resets BY DEF IInv
<1>2. /\ writer \in Writers /\ pending \in Fetches /\ crossed \in [sent : BOOLEAN, seen : BOOLEAN]
      /\ answer \in [Callers -> {None, "waiting", "ok", "err"}]
      /\ owed \in [Callers -> SUBSET (Topics \cup {"brokers"})]
  BY <1>1 DEF Types
<1>3. /\ writer' \in Writers /\ writer'.waiters = writer.waiters /\ writer'.full = writer.full
      /\ writer'.topics = writer.topics /\ writer'.reset = writer.reset
      /\ writer'.pc = "jitter"
  BY <1>2 DEF Writers, Fetching
<1>4. Waiters' /\ Owing' BY <1>1, <1>3, MoveKeeps DEF Resting
<1>5. Waking' BY <1>3 DEF Waking
<1>6. Resets' BY <1>1, <1>3 DEF Resets, InFlight
<1>7. Answered' BY <1>3 DEF Answered
<1> QED BY <1>2, <1>3, <1>4, <1>5, <1>6, <1>7, StepKeeps

(* No broker is reached. *)
LEMMA NotConnectedKeeps ==
    ASSUME IInv, not_connected, UNCHANGED avars
    PROVE  IInv' /\ Onward
<1>1. /\ UNCHANGED <<versions, cache, pending, permit, closed, call, owed, crossed>>
      /\ writer.pc \in Fetching
      /\ \/ writer' = [writer EXCEPT !.pc = "jitter"] /\ answer' = answer
         \/ Finish("err")
  BY DEF not_connected, Fetching
<1> QED BY <1>1, JitterKeeps, FailKeeps

(* A broker's answer covers everybody who waits for this fetch. *)
LEMMA AnswersKeep ==
    ASSUME IInv, broker_answers, UNCHANGED avars
    PROVE  IInv' /\ Onward
<1>1. /\ UNCHANGED <<versions, cache, pending, permit, attempt, closed, answer, call, crossed>>
      /\ writer.pc = "sent"
      /\ owed' = [c \in Callers |-> owed[c] \ Asked(writer.full, writer.topics)]
  BY DEF broker_answers
<1>2. Types /\ Waiters /\ Owing /\ Waking /\ Resets BY DEF IInv
<1>3. /\ writer \in Writers /\ pending \in Fetches /\ crossed \in [sent : BOOLEAN, seen : BOOLEAN]
      /\ answer \in [Callers -> {None, "waiting", "ok", "err"}]
      /\ owed \in [Callers -> SUBSET (Topics \cup {"brokers"})]
      /\ versions \in Seq(ClusterState)
  BY <1>2 DEF Types
<1>4. writer.full \in BOOLEAN /\ writer.waiters \subseteq Callers BY <1>3 DEF Writers
<1>5. PICK v \in DOMAIN versions : \E glitch \in {None} \cup Glitches :
         writer' = [writer EXCEPT !.pc = "answered",
                            !.response = Response(v, writer.full, writer.topics, glitch)]
  BY DEF broker_answers
<1>6. PICK glitch \in {None} \cup Glitches :
         writer' = [writer EXCEPT !.pc = "answered",
                            !.response = Response(v, writer.full, writer.topics, glitch)]
  BY <1>5
<1>7. PICK r : r = Response(v, writer.full, writer.topics, glitch) OBVIOUS
<1>8. r \in Responses BY <1>7, <1>3, <1>4, AnswerIsResponse
<1>9. writer' = [writer EXCEPT !.pc = "answered", !.response = r] BY <1>6, <1>7
<1>10. /\ writer' \in Writers /\ writer'.waiters = writer.waiters /\ writer'.full = writer.full
       /\ writer'.topics = writer.topics /\ writer'.reset = writer.reset
       /\ writer'.pc = "answered" /\ writer'.response = r
  BY <1>9, <1>8, <1>3 DEF Writers, Fetching
<1>11. /\ owed' \in [Callers -> SUBSET (Topics \cup {"brokers"})]
       /\ \A c \in Callers : owed'[c] = owed[c] \ Asked(writer.full, writer.topics)
  BY <1>1, <1>3
<1>12. Waiters' BY <1>1, <1>2, <1>10 DEF Waiters, Resting
<1>13. OkIsServed' BY <1>1, <1>2, <1>11 DEF Owing, OkIsServed
<1>14. Owing'
  <2>1. \A c \in pending.waiters : owed'[c] \subseteq owed[c] BY <1>11, <1>3 DEF Fetches
  <2>2. \A c \in writer.waiters : owed'[c] = {} BY <1>11, <1>4, <1>2 DEF Owing
  <2> QED BY <2>1, <2>2, <1>1, <1>2, <1>10, <1>13 DEF Owing
<1>15. Waking' BY <1>10 DEF Waking
<1>16. Resets' BY <1>1, <1>2, <1>10 DEF Resets, InFlight
<1>17. Answered' BY <1>8, <1>10 DEF Answered
<1> QED BY <1>1, <1>3, <1>10, <1>11, <1>12, <1>14, <1>15, <1>16, <1>17, StepKeeps

(* The request or its answer is lost. *)
LEMMA FetchFailsKeeps ==
    ASSUME IInv, fetch_fails, UNCHANGED avars
    PROVE  IInv' /\ Onward
BY FailKeeps DEF fetch_fails

(* What a step that changes the snapshot and not the callers' calls has to    *)
(* establish.                                                                 *)
LEMMA ViewKeeps ==
    ASSUME IInv, UNCHANGED <<versions, call, avars>>, cache' \in Snapshots,
           writer' \in Writers, pending' \in Fetches,
           answer' \in [Callers -> {None, "waiting", "ok", "err"}],
           owed' \in [Callers -> SUBSET (Topics \cup {"brokers"})],
           crossed' \in [sent : BOOLEAN, seen : BOOLEAN],
           \A d \in Callers : answer'[d] = "waiting" => answer[d] = "waiting",
           Waiters', Owing', Waking', Resets', Answered', Epochs'
    PROVE  IInv'
<1>1. Types' BY DEF IInv, Types
<1>2. Routed' BY RouteKeeps DEF IInv
<1>3. InCall' BY CallKeeps DEF IInv
<1> QED BY <1>1, <1>2, <1>3 DEF IInv

(* The writer's own rebootstrap crosses no fetch. *)
LEMMA WriterResetKeeps ==
    ASSUME IInv, writer_rebootstrap, UNCHANGED avars
    PROVE  IInv' /\ Onward
<1>1. /\ UNCHANGED <<versions, pending, permit, closed, call, left, owed>>
      /\ writer.pc \in {"jitter_first", "jitter"} /\ reset_to_seeds
      /\ crossed' = [sent |-> FALSE, seen |-> FALSE]
  BY DEF writer_rebootstrap
<1>2. Types /\ Waiters /\ Owing /\ Waking /\ Resets BY DEF IInv
<1>3. /\ writer \in Writers /\ pending \in Fetches
      /\ answer \in [Callers -> {None, "waiting", "ok", "err"}]
      /\ owed \in [Callers -> SUBSET (Topics \cup {"brokers"})] /\ cache.reset \in Nat
  BY <1>2 DEF Types, Snapshots
<1>4. writer.reset \in Nat BY <1>3 DEF Writers
<1>5. Onward /\ Epochs' /\ cache' \in Snapshots /\ cache'.reset = cache.reset + 1
  BY <1>1, <1>2, ResetKeeps
<1>6. /\ crossed' \in [sent : BOOLEAN, seen : BOOLEAN] /\ crossed'.sent = FALSE
      /\ crossed'.seen = FALSE
  BY <1>1
<1>7. CASE writer.pc = "jitter_first"
  <2>1. writer' = [writer EXCEPT !.pc = "begin"] /\ answer' = answer
    BY <1>7 DEF writer_rebootstrap
  <2>2. /\ writer' \in Writers /\ writer'.waiters = writer.waiters /\ writer'.full = writer.full
        /\ writer'.topics = writer.topics /\ writer'.reset = writer.reset
        /\ writer'.pc = "begin"
    BY <2>1, <1>3 DEF Writers, Fetching
  <2>3. Waiters' /\ Owing' BY <2>1, <2>2, <1>1, <1>2, MoveKeeps DEF Resting
  <2>4. Waking' BY <2>2 DEF Waking
  <2>5. Resets' BY <2>2, <1>2, <1>3, <1>4, <1>5, <1>6 DEF Resets, InFlight
  <2>6. Answered' BY <2>2 DEF Answered
  <2>7. IInv' BY <2>1, <2>2, <2>3, <2>4, <2>5, <2>6, <1>1, <1>3, <1>5, <1>6, ViewKeeps
  <2> QED BY <2>7, <1>5
<1>8. CASE writer.pc = "jitter"
  <2>0. cache.reset + 1 \in Nat BY <1>3
  <2>1. PICK u \in BOOLEAN, r \in Nat : u = TRUE /\ r = cache.reset + 1 BY <2>0, Zenon
  <2>2. NextPass(u, r) BY <2>1, <1>8 DEF writer_rebootstrap
  <2>3. writer.pc \in Fetching BY <1>8 DEF Fetching
  <2>4. /\ writer' \in Writers /\ writer'.pc \in {"look", "connect"}
        /\ writer'.reset \in {0, r}
        /\ answer' \in [Callers -> {None, "waiting", "ok", "err"}]
        /\ Waiters' /\ Owing' /\ Waking'
        /\ \A d \in Callers : answer'[d] = "waiting" => answer[d] = "waiting"
    BY <2>2, <2>3, <1>1, <1>2, PassKeeps
  <2>5. Resets' BY <2>1, <2>4, <1>3, <1>5, <1>6 DEF Resets, InFlight
  <2>6. Answered' BY <2>4 DEF Answered
  <2>7. IInv' BY <2>4, <2>5, <2>6, <1>1, <1>3, <1>5, <1>6, ViewKeeps
  <2> QED BY <2>7, <1>5
<1> QED BY <1>1, <1>7, <1>8

(* A response is applied, discarded, or an error. *)
LEMMA DeliverKeeps ==
    ASSUME IInv, deliver, UNCHANGED avars
    PROVE  IInv' /\ Onward
<1>1. /\ UNCHANGED <<versions, pending, permit, closed, call, left, owed>>
      /\ writer.pc = "answered"
  BY DEF deliver
<1>2. Types /\ Waiters /\ Owing /\ Waking /\ Resets /\ Answered /\ Epochs BY DEF IInv
<1>3. /\ writer \in Writers /\ pending \in Fetches /\ crossed \in [sent : BOOLEAN, seen : BOOLEAN]
      /\ answer \in [Callers -> {None, "waiting", "ok", "err"}]
      /\ owed \in [Callers -> SUBSET (Topics \cup {"brokers"})] /\ cache \in Snapshots
      /\ cache.reset \in Nat
  BY <1>2 DEF Types, Snapshots
<1>4. writer.pc \in Fetching /\ writer.used \in BOOLEAN BY <1>1, <1>3 DEF Fetching, Writers
<1>5. CASE writer' = [writer EXCEPT !.pc = "jitter"] /\ UNCHANGED <<cache, answer, crossed>>
  BY <1>1, <1>4, <1>5, JitterKeeps
<1>6. CASE Finish("err") /\ UNCHANGED <<cache, crossed>>
  BY <1>1, <1>6, FailKeeps
<1>7. CASE /\ Applies /\ Finish("ok")
           /\ \E idle : cache' = Merge(cache, writer.response, writer.full, idle)
           /\ crossed' = [crossed EXCEPT !.seen = @ \/ crossed.sent]
  <2>1. PICK r : r = writer.response OBVIOUS
  <2>2. r \in Responses BY <2>1, <1>1, <1>2 DEF Answered
  <2>3. PICK idle : cache' = Merge(cache, r, writer.full, idle) BY <1>7, <2>1
  <2>4. PICK full : full = writer.full OBVIOUS
  <2>5. PICK m : m = Merge(cache, r, full, idle) OBVIOUS
  <2>6. /\ m \in Snapshots /\ m.reset = cache.reset
        /\ \A t \in Topics : /\ m.topics[t].epoch >= 0 => m.topics[t].parts > 0
                             /\ Forward(cache.topics[t], m.topics[t])
    BY <2>5, <2>2, <1>3, <1>2, Merged DEF Epochs
  <2>7. cache' = m BY <2>3, <2>4, <2>5
  <2>8. Onward BY <2>6, <2>7 DEF Onward
  <2>9. Epochs' BY <2>6, <2>7 DEF Epochs
  <2>10. PICK res : res = "ok" OBVIOUS
  <2>11. res \in {"ok", "err"} /\ Finish(res) BY <2>10, <1>7
  <2>12. /\ writer' = Idle /\ writer' \in Writers
         /\ answer' \in [Callers -> {None, "waiting", "ok", "err"}]
         /\ Waiters' /\ Owing' /\ Waking'
         /\ \A d \in Callers : answer'[d] = "waiting" => answer[d] = "waiting"
    BY <2>11, <1>1, <1>2, FinishKeeps
  <2>13. ~crossed.sent /\ ~crossed.seen BY <1>1, <1>2, <1>3, <1>7 DEF Resets, InFlight, Applies
  <2>14. crossed' \in [sent : BOOLEAN, seen : BOOLEAN] /\ ~crossed'.sent /\ ~crossed'.seen
    BY <2>13, <1>3, <1>7
  <2>15. Resets' BY <2>6, <2>7, <2>12, <2>14, <1>3, IdleIsWriter DEF Resets, InFlight
  <2>16. Answered' BY <2>12, IdleIsWriter DEF Answered
  <2>17. IInv' BY <2>6, <2>7, <2>9, <2>12, <2>14, <2>15, <2>16, <1>1, <1>3, ViewKeeps
  <2> QED BY <2>8, <2>17
<1>8. CASE NextPass(writer.used, cache.reset) /\ UNCHANGED <<cache, crossed>>
  <2>1. PICK u \in BOOLEAN, r \in Nat : u = writer.used /\ r = cache.reset BY <1>3, <1>4
  <2>2. NextPass(u, r) BY <2>1, <1>8
  <2>4. /\ writer' \in Writers /\ writer'.pc \in {"look", "connect"}
        /\ writer'.reset \in {0, r}
        /\ answer' \in [Callers -> {None, "waiting", "ok", "err"}]
        /\ Waiters' /\ Owing' /\ Waking'
        /\ \A d \in Callers : answer'[d] = "waiting" => answer[d] = "waiting"
    BY <2>2, <1>4, <1>1, <1>2, PassKeeps
  <2>5. Resets' BY <2>1, <2>4, <1>2, <1>3, <1>8 DEF Resets, InFlight
  <2>6. Answered' BY <2>4 DEF Answered
  <2> QED BY <2>4, <2>5, <2>6, <1>1, <1>3, <1>8, StepKeeps
<1> QED BY <1>5, <1>6, <1>7, <1>8 DEF deliver

(* Every step of the writer. *)
LEMMA WriterKeeps ==
    ASSUME IInv, WriterStep, UNCHANGED avars
    PROVE  IInv' /\ Onward
BY LookKeeps, NotifiedKeeps, TakeKeeps, WriterResetKeeps, BeginKeeps, ConnectedKeeps,
   NotConnectedKeeps, AnswersKeep, FetchFailsKeeps, DeliverKeeps DEF WriterStep

-----------------------------------------------------------------------------
(* The cluster, the rebootstrap, the hints and the application's calls. *)

(* The cluster changes. *)
LEMMA ChangeKeeps ==
    ASSUME IInv, ChangeCluster, UNCHANGED avars
    PROVE  IInv' /\ Onward
<1>1. UNCHANGED <<cache, pending, permit, writer, attempt, closed, answer, call, owed, crossed>>
  BY DEF ChangeCluster
<1>2. PICK kind \in left.kinds : \E d \in Successors(kind) : versions' = Append(versions, d)
  BY DEF ChangeCluster
<1>3. PICK d \in Successors(kind) : versions' = Append(versions, d) BY <1>2
<1>4. versions \in Seq(ClusterState) /\ versions # <<>> BY DEF IInv, Types
<1>5. d \in ClusterState BY <1>4, SuccessorIsCluster
<1>6. versions' \in Seq(ClusterState) /\ versions' # <<>> BY <1>3, <1>4, <1>5
<1>7. Types' BY <1>1, <1>6 DEF IInv, Types
<1>8. Onward /\ Epochs' BY <1>1, CacheKeeps DEF IInv
<1>9. Routed' BY RouteKeeps DEF IInv
<1>10. InCall' BY <1>1, CallKeeps DEF IInv
<1>11. Waiters' BY <1>1 DEF IInv, Waiters
<1>12. Owing' BY <1>1 DEF IInv, Owing, OkIsServed
<1>13. Waking' BY <1>1 DEF IInv, Waking
<1>14. Resets' BY <1>1 DEF IInv, Resets, InFlight
<1>15. Answered' BY <1>1 DEF IInv, Answered
<1> QED BY <1>7, <1>8, <1>9, <1>10, <1>11, <1>12, <1>13, <1>14, <1>15 DEF IInv

(* A rebootstrap is asked of the writer. *)
LEMMA RequestResetKeeps ==
    ASSUME IInv, request_rebootstrap, UNCHANGED avars
    PROVE  IInv' /\ Onward
<1>1. /\ UNCHANGED <<versions, cache, writer, attempt, closed, answer, call, owed, crossed>>
      /\ pending' = [pending EXCEPT !.rebootstrap = TRUE] /\ permit' = TRUE
  BY DEF request_rebootstrap, wake_writer
<1>2. Types /\ Waiters /\ Owing /\ Waking /\ Resets /\ Answered BY DEF IInv
<1>3. /\ writer \in Writers /\ pending \in Fetches /\ crossed \in [sent : BOOLEAN, seen : BOOLEAN]
      /\ answer \in [Callers -> {None, "waiting", "ok", "err"}]
      /\ owed \in [Callers -> SUBSET (Topics \cup {"brokers"})]
  BY <1>2 DEF Types
<1>4. /\ pending' \in Fetches /\ pending'.waiters = pending.waiters /\ pending'.full = pending.full
      /\ pending'.topics = pending.topics
  BY <1>1, <1>3 DEF Fetches
<1>5. Waiters' BY <1>1, <1>2, <1>4 DEF Waiters
<1>6. OkIsServed' BY <1>1, <1>2 DEF Owing, OkIsServed
<1>7. Owing' BY <1>1, <1>2, <1>4, <1>6 DEF Owing
<1>8. Waking' BY <1>1 DEF Waking
<1>9. Resets' BY <1>1, <1>2 DEF Resets, InFlight
<1>10. Answered' BY <1>1, <1>2 DEF Answered
<1> QED BY <1>1, <1>3, <1>4, <1>5, <1>7, <1>8, <1>9, <1>10, StepKeeps

(* A rebootstrap crosses the fetch that is in flight. *)
LEMMA ResetsKeep ==
    ASSUME IInv, rebootstrap, UNCHANGED avars
    PROVE  IInv' /\ Onward
<1>1. /\ UNCHANGED <<versions, pending, permit, writer, closed, answer, call, owed>>
      /\ reset_to_seeds /\ crossed' = [sent |-> InFlight, seen |-> FALSE]
  BY DEF rebootstrap
<1>2. Types /\ Waiters /\ Owing /\ Waking /\ Resets /\ Answered BY DEF IInv
<1>3. /\ writer \in Writers /\ pending \in Fetches
      /\ answer \in [Callers -> {None, "waiting", "ok", "err"}]
      /\ owed \in [Callers -> SUBSET (Topics \cup {"brokers"})] /\ cache.reset \in Nat
  BY <1>2 DEF Types, Snapshots
<1>4. writer.reset \in Nat BY <1>3 DEF Writers
<1>5. Onward /\ Epochs' /\ cache' \in Snapshots /\ cache'.reset = cache.reset + 1
  BY <1>1, <1>2, ResetKeeps
<1>6. InFlight \in BOOLEAN BY DEF InFlight
<1>7. crossed' \in [sent : BOOLEAN, seen : BOOLEAN] /\ crossed'.seen = FALSE BY <1>1, <1>6
<1>8. Waiters' BY <1>1, <1>2 DEF Waiters
<1>9. Owing' BY <1>1, <1>2 DEF Owing, OkIsServed
<1>10. Waking' BY <1>1, <1>2 DEF Waking
<1>11. Resets' BY <1>1, <1>2, <1>3, <1>4, <1>5, <1>7 DEF Resets
<1>12. Answered' BY <1>1, <1>2 DEF Answered
<1>13. IInv'
  BY <1>1, <1>3, <1>5, <1>7, <1>8, <1>9, <1>10, <1>11, <1>12, ViewKeeps
<1> QED BY <1>5, <1>13

(* A hint raises the epoch of a partition or changes nothing of it. *)
LEMMA HintKeeps ==
    ASSUME IInv, apply_leader_hint, UNCHANGED avars
    PROVE  IInv' /\ Onward
<1>1. UNCHANGED <<versions, pending, permit, writer, attempt, closed, answer, call, owed, crossed>>
  BY DEF apply_leader_hint
<1>2. Types /\ Waiters /\ Owing /\ Waking /\ Resets /\ Answered /\ Epochs BY DEF IInv
<1>3. /\ writer \in Writers /\ pending \in Fetches /\ crossed \in [sent : BOOLEAN, seen : BOOLEAN]
      /\ answer \in [Callers -> {None, "waiting", "ok", "err"}]
      /\ owed \in [Callers -> SUBSET (Topics \cup {"brokers"})] /\ cache \in Snapshots
      /\ versions \in Seq(ClusterState)
  BY <1>2 DEF Types
<1>4. PICK t \in Topics, v \in DOMAIN versions, endpoint \in BOOLEAN :
         LET p == versions[v].topics[t]
             partition_is_new == /\ endpoint \/ p.leader \in cache.brokers
                                 /\ HasPartition(cache, t) /\ HintIsNew(t, p)
         IN /\ p.id # NoId /\ p.leader # None
            /\ cache' = [cache EXCEPT
                 !.brokers = IF endpoint THEN @ \cup {p.leader} ELSE @,
                 !.topics[t] = IF partition_is_new
                               THEN [@ EXCEPT !.leader = p.leader, !.epoch = p.epoch] ELSE @]
  BY DEF apply_leader_hint
<1>5. PICK p : p = versions[v].topics[t] OBVIOUS
<1>6. p \in ClusterTopic
  <2>1. versions[v] \in ClusterState BY <1>3
  <2> QED BY <2>1, <1>5 DEF ClusterState
<1>7. PICK old : old = cache.topics[t] OBVIOUS
<1>8. old \in CachedTopic /\ old.epoch \in Nat \cup {-1} /\ (old.epoch >= 0 => old.parts > 0)
  BY <1>2, <1>3, <1>7 DEF Snapshots, CachedTopic, NoEpoch, Epochs
<1>9. PICK bs : bs = IF endpoint THEN cache.brokers \cup {p.leader} ELSE cache.brokers OBVIOUS
<1>10. p.leader # None /\ p.leader \in Nodes /\ p.epoch \in Nat
  BY <1>4, <1>5, <1>6 DEF ClusterTopic
<1>11. bs \in SUBSET Brokers BY <1>9, <1>10, <1>3 DEF Snapshots, Nodes
<1>12. PICK new : new = IF /\ endpoint \/ p.leader \in cache.brokers
                           /\ HasPartition(cache, t) /\ HintIsNew(t, p)
                        THEN [old EXCEPT !.leader = p.leader, !.epoch = p.epoch] ELSE old
  OBVIOUS
<1>13. /\ new \in CachedTopic /\ (new.epoch >= 0 => new.parts > 0) /\ Forward(old, new)
  <2>1. CASE /\ HasPartition(cache, t) /\ HintIsNew(t, p)
             /\ new = [old EXCEPT !.leader = p.leader, !.epoch = p.epoch]
    <3>1. new \in CachedTopic /\ new.epoch = p.epoch /\ new.parts = old.parts
      BY <2>1, <1>8, <1>10 DEF CachedTopic
    <3>2. old.parts > 0 /\ (old.epoch < 0 \/ p.epoch > old.epoch)
      BY <2>1, <1>7 DEF HasPartition, HintIsNew
    <3> QED BY <3>1, <3>2, <1>8, <1>10 DEF Forward
  <2>2. CASE new = old BY <2>2, <1>8 DEF Forward
  <2> QED BY <2>1, <2>2, <1>12
<1>14. PICK ts : ts = [cache.topics EXCEPT ![t] = new] OBVIOUS
<1>15. cache.topics \in [Topics -> CachedTopic] BY <1>3 DEF Snapshots
<1>16. /\ ts \in [Topics -> CachedTopic] /\ ts[t] = new
       /\ \A u \in Topics : u # t => ts[u] = cache.topics[u]
  BY <1>13, <1>14, <1>15
<1>17. cache' = [cache EXCEPT !.brokers = bs, !.topics = ts]
  BY <1>4, <1>5, <1>7, <1>9, <1>12, <1>14, <1>3 DEF Snapshots
<1>18. cache' \in Snapshots /\ cache'.topics = ts /\ cache'.reset = cache.reset
  BY <1>17, <1>16, <1>11, <1>3 DEF Snapshots
<1>19. \A u \in Topics : Forward(cache.topics[u], cache.topics[u])
  BY <1>15 DEF Forward, CachedTopic, NoEpoch
<1>20. Onward BY <1>7, <1>13, <1>16, <1>18, <1>19 DEF Onward
<1>21. Epochs' BY <1>2, <1>13, <1>16, <1>18 DEF Epochs
<1>22. Waiters' BY <1>1, <1>2 DEF Waiters
<1>23. Owing' BY <1>1, <1>2 DEF Owing, OkIsServed
<1>24. Waking' BY <1>1, <1>2 DEF Waking
<1>25. Resets' BY <1>1, <1>2, <1>18 DEF Resets, InFlight
<1>26. Answered' BY <1>1, <1>2 DEF Answered
<1>27. IInv'
  BY <1>1, <1>3, <1>18, <1>21, <1>22, <1>23, <1>24, <1>25, <1>26, ViewKeeps
<1> QED BY <1>20, <1>27

(* What a step of a caller has to establish. *)
LEMMA CallerKeeps ==
    ASSUME IInv, UNCHANGED <<versions, cache, closed, crossed>>,
           pending' \in Fetches, writer' \in Writers,
           answer' \in [Callers -> {None, "waiting", "ok", "err"}],
           owed' \in [Callers -> SUBSET (Topics \cup {"brokers"})],
           call' \in [Callers -> Calls \cup {NoCall}],
           writer'.pc = writer.pc, writer'.reset = writer.reset, writer'.response = writer.response,
           Waiters', Owing', Waking', InCall', Routed'
    PROVE  IInv' /\ Onward
<1>1. Types' BY DEF IInv, Types
<1>2. Resets' BY DEF IInv, Resets, InFlight
<1>3. Answered' BY DEF IInv, Answered
<1>4. Onward /\ Epochs' BY CacheKeeps DEF IInv
<1> QED BY <1>1, <1>2, <1>3, <1>4 DEF IInv

(* Who calls, and that a call asks for topics. *)
LEMMA TasksAreCallers ==
    /\ \A c \in Tasks : c \in Callers /\ c # Me
    /\ Me \in Callers /\ NoCall \notin Calls
    /\ \A k \in Calls : Names(k) \subseteq Topics
BY MetadataAssumption DEF Callers, Me, NoCall, Calls, Names, None

(* A task calls. *)
LEMMA StartKeeps ==
    ASSUME IInv, NEW c \in Tasks, start_call(c), UNCHANGED avars
    PROVE  IInv' /\ Onward
<1>1. UNCHANGED <<versions, cache, attempt, closed, crossed>> /\ call[c] = NoCall
  BY DEF start_call
<1>2. Types /\ Waiters /\ Owing /\ Waking /\ InCall BY DEF IInv
<1>3. /\ writer \in Writers /\ pending \in Fetches /\ call \in [Callers -> Calls \cup {NoCall}]
      /\ answer \in [Callers -> {None, "waiting", "ok", "err"}]
      /\ owed \in [Callers -> SUBSET (Topics \cup {"brokers"})]
  BY <1>2 DEF Types
<1>4. Routed' BY RouteKeeps DEF IInv
<1>5. CASE UNCHANGED <<call, pending, permit, answer, owed, writer>>
  <2>1. InCall' BY <1>5, <1>2, CallKeeps
  <2>2. Waiters' BY <1>5, <1>2 DEF Waiters
  <2>3. Owing' BY <1>5, <1>2 DEF Owing, OkIsServed
  <2>4. Waking' BY <1>5, <1>1, <1>2 DEF Waking
  <2> QED BY <2>1, <2>2, <2>3, <2>4, <1>1, <1>3, <1>4, <1>5, CallerKeeps
<1>6. ASSUME NEW k \in Uses, call' = [call EXCEPT ![c] = k], Ask(c, k.op = "refresh", Names(k))
      PROVE  IInv' /\ Onward
  <2>1. k \in Calls /\ c \in Callers /\ c # Me BY MetadataAssumption, TasksAreCallers
  <2>2. PICK full : full = (k.op = "refresh") OBVIOUS
  <2>3. PICK names : names = Names(k) OBVIOUS
  <2>4. full \in BOOLEAN /\ names \in SUBSET Topics BY <2>1, <2>2, <2>3, TasksAreCallers
  <2>5. Ask(c, full, names) BY <1>6, <2>2, <2>3
  <2>6. answer[c] # "waiting" BY <1>1, <1>2 DEF InCall
  <2>7. /\ pending' \in Fetches
        /\ answer' \in [Callers -> {None, "waiting", "ok", "err"}]
        /\ owed' \in [Callers -> SUBSET (Topics \cup {"brokers"})]
        /\ Waiters' /\ Owing' /\ Waking'
        /\ \A d \in Callers : d # c => answer'[d] = answer[d]
    BY <2>1, <2>4, <2>5, <2>6, <1>1, <1>2, AskKeeps
  <2>8. writer' = writer BY <2>5 DEF Ask
  <2>9. call' \in [Callers -> Calls \cup {NoCall}] /\ call'[c] # NoCall
        /\ \A d \in Callers : d # c => call'[d] = call[d]
    BY <1>3, <1>6, <2>1, TasksAreCallers
  <2>10. InCall' BY <2>1, <2>7, <2>9, <1>2, TasksAreCallers DEF InCall, avars
  <2> QED BY <2>7, <2>8, <2>9, <2>10, <1>1, <1>3, <1>4, CallerKeeps
<1> QED BY <1>5, <1>6 DEF start_call

(* A call ends, or asks again. *)
LEMMA EndKeeps ==
    ASSUME IInv, NEW c \in Tasks, end_call(c), UNCHANGED avars
    PROVE  IInv' /\ Onward
<1>1. /\ UNCHANGED <<versions, cache, attempt, closed, crossed>>
      /\ call[c] # NoCall /\ answer[c] \in {"ok", "err"}
  BY DEF end_call
<1>2. Types /\ Waiters /\ Owing /\ Waking /\ InCall BY DEF IInv
<1>3. /\ writer \in Writers /\ pending \in Fetches /\ call \in [Callers -> Calls \cup {NoCall}]
      /\ answer \in [Callers -> {None, "waiting", "ok", "err"}]
      /\ owed \in [Callers -> SUBSET (Topics \cup {"brokers"})]
  BY <1>2 DEF Types
<1>4. Routed' BY RouteKeeps DEF IInv
<1>5. c \in Callers /\ c # Me BY TasksAreCallers
<1>6. CASE Ask(c, FALSE, Names(call[c])) /\ call' = call
  <2>1. PICK full : full = FALSE OBVIOUS
  <2>2. PICK names : names = Names(call[c]) OBVIOUS
  <2>3. call[c] \in Calls BY <1>1, <1>3, <1>5
  <2>4. full \in BOOLEAN /\ names \in SUBSET Topics BY <2>1, <2>2, <2>3, TasksAreCallers
  <2>5. Ask(c, full, names) BY <1>6, <2>1, <2>2
  <2>6. answer[c] # "waiting" BY <1>1
  <2>7. /\ pending' \in Fetches
        /\ answer' \in [Callers -> {None, "waiting", "ok", "err"}]
        /\ owed' \in [Callers -> SUBSET (Topics \cup {"brokers"})]
        /\ Waiters' /\ Owing' /\ Waking'
        /\ \A d \in Callers : d # c => answer'[d] = answer[d]
    BY <2>4, <2>5, <2>6, <1>1, <1>2, <1>5, AskKeeps
  <2>8. writer' = writer BY <2>5 DEF Ask
  <2>9. InCall' BY <2>7, <1>1, <1>2, <1>5, <1>6, TasksAreCallers DEF InCall, avars
  <2> QED BY <2>7, <2>8, <2>9, <1>1, <1>3, <1>4, <1>6, CallerKeeps
<1>7. CASE /\ call' = [call EXCEPT ![c] = NoCall] /\ answer' = [answer EXCEPT ![c] = None]
           /\ UNCHANGED <<pending, permit, writer, owed>>
  <2>1. None \notin {"waiting", "ok"} BY DEF None
  <2>2. /\ answer' \in [Callers -> {None, "waiting", "ok", "err"}] /\ answer'[c] = None
        /\ \A d \in Callers : d # c => answer'[d] = answer[d]
    BY <1>3, <1>5, <1>7
  <2>3. /\ call' \in [Callers -> Calls \cup {NoCall}]
        /\ \A d \in Callers : d # c => call'[d] = call[d]
    BY <1>3, <1>7
  <2>4. Waiters' BY <2>1, <2>2, <1>1, <1>2, <1>5, <1>7 DEF Waiters
  <2>5. OkIsServed' BY <2>1, <2>2, <1>2, <1>7 DEF Owing, OkIsServed
  <2>6. Owing' BY <2>5, <1>2, <1>7 DEF Owing
  <2>7. Waking' BY <1>1, <1>2, <1>7 DEF Waking
  <2>8. InCall' BY <2>1, <2>2, <2>3, <1>2, <1>5, TasksAreCallers DEF InCall, avars
  <2> QED BY <2>2, <2>3, <2>4, <2>6, <2>7, <2>8, <1>1, <1>3, <1>4, <1>7, CallerKeeps
<1> QED BY <1>6, <1>7 DEF end_call

(* A call is dropped while it waits. *)
LEMMA DropKeeps ==
    ASSUME IInv, NEW c \in Tasks, drop_call(c), UNCHANGED avars
    PROVE  IInv' /\ Onward
<1>1. /\ UNCHANGED <<versions, cache, permit, attempt, closed, owed, crossed>>
      /\ Abandon(c) /\ call' = [call EXCEPT ![c] = NoCall]
  BY DEF drop_call
<1>2. Types /\ Waiters /\ Owing /\ Waking /\ InCall BY DEF IInv
<1>3. /\ call \in [Callers -> Calls \cup {NoCall}]
      /\ owed \in [Callers -> SUBSET (Topics \cup {"brokers"})]
  BY <1>2 DEF Types
<1>4. Routed' BY RouteKeeps DEF IInv
<1>5. c \in Callers /\ c # Me BY TasksAreCallers
<1>6. /\ pending' \in Fetches /\ writer' \in Writers
      /\ writer'.pc = writer.pc /\ writer'.reset = writer.reset
      /\ writer'.response = writer.response
      /\ answer' \in [Callers -> {None, "waiting", "ok", "err"}]
      /\ Waiters' /\ Owing' /\ Waking'
      /\ answer'[c] = None /\ \A d \in Callers : d # c => answer'[d] = answer[d]
  BY <1>1, <1>2, <1>5, AbandonKeeps
<1>7. /\ call' \in [Callers -> Calls \cup {NoCall}]
      /\ \A d \in Callers : d # c => call'[d] = call[d]
  BY <1>1, <1>3
<1>8. InCall' BY <1>2, <1>5, <1>6, <1>7, TasksAreCallers DEF InCall, avars, None
<1> QED BY <1>1, <1>3, <1>4, <1>6, <1>7, <1>8, CallerKeeps

(* The last handle goes. *)
LEMMA DropMetadataKeeps ==
    ASSUME IInv, drop_metadata, UNCHANGED avars
    PROVE  IInv' /\ Onward
<1>1. /\ UNCHANGED <<versions, cache, pending, writer, attempt, answer, call, left, owed, crossed>>
      /\ permit' = TRUE
  BY DEF drop_metadata, wake_writer
<1>2. Types /\ Waiters /\ Owing /\ Resets /\ Answered BY DEF IInv
<1>3. /\ writer \in Writers /\ pending \in Fetches /\ crossed \in [sent : BOOLEAN, seen : BOOLEAN]
      /\ answer \in [Callers -> {None, "waiting", "ok", "err"}]
      /\ owed \in [Callers -> SUBSET (Topics \cup {"brokers"})]
  BY <1>2 DEF Types
<1>4. Waiters' BY <1>1, <1>2 DEF Waiters
<1>5. Owing' BY <1>1, <1>2 DEF Owing, OkIsServed
<1>6. Waking' BY <1>1 DEF Waking
<1>7. Resets' BY <1>1, <1>2 DEF Resets, InFlight
<1>8. Answered' BY <1>1, <1>2 DEF Answered
<1> QED BY <1>1, <1>3, <1>4, <1>5, <1>6, <1>7, <1>8, StepKeeps

(* Every step of the metadata cache and of the tasks that use it. *)
LEMMA MetadataKeeps ==
    ASSUME IInv, MetadataStep, UNCHANGED avars
    PROVE  IInv' /\ Onward
<1>1. ASSUME TaskStep PROVE IInv' /\ Onward
  <2>1. PICK c \in Tasks : start_call(c) \/ end_call(c) \/ drop_call(c) BY <1>1 DEF TaskStep
  <2> QED BY <2>1, StartKeeps, EndKeeps, DropKeeps
<1> QED BY <1>1, ChangeKeeps, RequestResetKeeps, ResetsKeep, WriterKeeps, HintKeeps
        DEF MetadataStep

-----------------------------------------------------------------------------
(* The admin driver. *)

(* A step of the driver that asks nothing of the metadata. *)
LEMMA AdminKeeps ==
    ASSUME IInv, Routed', adm.pc \in {"fetching", "refreshing"} => adm' = adm,
           UNCHANGED <<versions, cache, pending, permit, writer, attempt, closed, answer, call,
                       owed, crossed>>
    PROVE  IInv' /\ Onward
<1>1. Types /\ Waiters /\ Owing /\ Waking /\ InCall BY DEF IInv
<1>2. /\ writer \in Writers /\ pending \in Fetches /\ call \in [Callers -> Calls \cup {NoCall}]
      /\ answer \in [Callers -> {None, "waiting", "ok", "err"}]
      /\ owed \in [Callers -> SUBSET (Topics \cup {"brokers"})]
  BY <1>1 DEF Types
<1>3. Waiters' BY <1>1 DEF Waiters
<1>4. Owing' BY <1>1 DEF Owing, OkIsServed
<1>5. Waking' BY <1>1 DEF Waking
<1>6. InCall' BY <1>1 DEF InCall
<1> QED BY <1>2, <1>3, <1>4, <1>5, <1>6, CallerKeeps

(* What Routed says of the driver's own record. *)
Driving(a) == /\ {"pc", "todo", "stale"} \subseteq DOMAIN a
              /\ a.todo \subseteq Topics /\ a.stale \subseteq Topics

(* A call begins with topics to do. *)
LEMMA BeginDrives ==
    ASSUME NEW c
    PROVE  Driving(Begin(c)) /\ Begin(c).pc = "round"
<1>1. CallKeys(c) \subseteq Topics BY AdminAssumption DEF CallKeys, Keys
<1>2. PICK ks : ks = CallKeys(c) OBVIOUS
<1>3. /\ Begin(c).todo = ks /\ Begin(c).stale = {} /\ Begin(c).pc = "round"
      /\ {"pc", "todo", "stale"} \subseteq DOMAIN Begin(c)
  BY <1>2 DEF Begin
<1> QED BY <1>1, <1>2, <1>3 DEF Driving

(* A failure is noted for the batch's keys only (note_failure). *)
LEMMA NoteDrives ==
    ASSUME NEW a, Driving(a), NEW ks \in SUBSET Topics, NEW e
    PROVE  Driving(note_failure(a, ks, e)) /\ note_failure(a, ks, e).pc = a.pc
<1>1. PICK co, sc, st : /\ st \subseteq ks
                        /\ note_failure(a, ks, e) =
                             [a EXCEPT !.coordinators = co, !.stale_controller = sc,
                                       !.stale = @ \cup st]
  <2> DEFINE stale(k, codes) == e[k] \notin BrokerCodes \/ e[k] \in codes
             gone == UNION {Group(k) : k \in {j \in ks : Target(j) = "Coordinator"
                                                     /\ stale(j, stale_coordinator)}}
  <2>1. PICK st : st = {k \in ks : Target(k) = "Leader" /\ stale(k, stale_routing)} OBVIOUS
  <2>2. PICK co : co = [k \in Keys |-> IF k \in gone THEN None ELSE a.coordinators[k]] OBVIOUS
  <2>3. PICK sc : sc = (a.stale_controller \/ \E k \in ks : Target(k) = "Controller"
                                                  /\ stale(k, stale_routing))
    OBVIOUS
  <2>4. note_failure(a, ks, e) = [a EXCEPT !.coordinators = co, !.stale_controller = sc,
                                            !.stale = @ \cup st]
    BY <2>1, <2>2, <2>3, Zenon DEF note_failure
  <2>5. st \subseteq ks BY <2>1
  <2> QED BY <2>4, <2>5
<1>2. PICK n : n = note_failure(a, ks, e) OBVIOUS
<1>3. /\ DOMAIN n = DOMAIN a /\ n.pc = a.pc /\ n.todo = a.todo
      /\ n.stale = a.stale \cup st
  BY <1>1, <1>2 DEF Driving
<1> QED BY <1>1, <1>2, <1>3 DEF Driving

Carrying(q) == /\ DOMAIN q = Brokers
               /\ \A b \in Brokers : "keys" \in DOMAIN q[b] /\ q[b].keys \subseteq Topics

(* Routed, by the driver's record and its batches. *)
LEMMA RoutedIs == Routed <=> Driving(adm) /\ Carrying(sent)
BY DEF Routed, Driving, Carrying

(* Settling a field that is not todo or stale. *)
LEMMA PcDrives ==
    ASSUME NEW a, Driving(a), NEW pc
    PROVE  Driving([a EXCEPT !.pc = pc]) /\ [a EXCEPT !.pc = pc].pc = pc
<1>1. PICK n : n = [a EXCEPT !.pc = pc] OBVIOUS
<1>2. DOMAIN n = DOMAIN a /\ n.pc = pc /\ n.todo = a.todo /\ n.stale = a.stale
  BY <1>1 DEF Driving
<1> QED BY <1>1, <1>2 DEF Driving

(* A call with nothing left to do. *)
LEMMA FinishedDrives ==
    ASSUME NEW a, Driving(a), NEW pc
    PROVE  Driving([a EXCEPT !.pc = pc, !.todo = {}])
<1>1. PICK n : n = [a EXCEPT !.pc = pc, !.todo = {}] OBVIOUS
<1>2. DOMAIN n = DOMAIN a /\ n.todo = {} /\ n.stale = a.stale
  BY <1>1 DEF Driving
<1> QED BY <1>1, <1>2 DEF Driving

(* Noting what was asked for. *)
LEMMA AskedDrives ==
    ASSUME NEW a, Driving(a), NEW pc, NEW as
    PROVE  Driving([a EXCEPT !.pc = pc, !.asked = as]) /\ [a EXCEPT !.pc = pc, !.asked = as].pc = pc
<1>1. PICK n : n = [a EXCEPT !.pc = pc, !.asked = as] OBVIOUS
<1>2. DOMAIN n = DOMAIN a /\ n.pc = pc /\ n.todo = a.todo /\ n.stale = a.stale
  BY <1>1 DEF Driving
<1> QED BY <1>1, <1>2 DEF Driving

(* A batch keeps its keys. *)
LEMMA BatchCarries ==
    ASSUME Carrying(sent), NEW b \in Brokers, DOMAIN sent' = Brokers,
           \A d \in Brokers : d # b => sent'[d] = sent[d],
           "keys" \in DOMAIN sent'[b], sent'[b].keys = sent[b].keys
    PROVE  Carrying(sent')
BY DEF Carrying

(* The steps of a call that leave the metadata alone. *)
LEMMA QuietKeeps ==
    ASSUME IInv, \/ start \/ refuse \/ begin_round \/ listed \/ finished \/ deadline_passes
    PROVE  IInv' /\ Onward
<1>1. Driving(adm) /\ Carrying(sent) BY RoutedIs DEF IInv
<1>2. /\ UNCHANGED <<versions, cache, pending, permit, writer, attempt, closed, answer, call,
                     owed, crossed>>
      /\ sent' = sent
  BY DEF start, refuse, begin_round, listed, finished, deadline_passes, mvars
<1>3. /\ Driving(adm')
      /\ adm.pc \in {"fetching", "refreshing"} => adm' = adm
  <2>1. CASE start
    <3>1. PICK c : c = Call OBVIOUS
    <3> QED BY <2>1, <3>1, BeginDrives DEF start
  <2>2. CASE refuse
    <3>1. PICK pc : pc = "ended" OBVIOUS
    <3> QED BY <2>2, <3>1, <1>1, PcDrives DEF refuse
  <2>3. CASE begin_round
    <3>1. CASE expired
      <4>1. PICK pc : pc = "finished" OBVIOUS
      <4>2. adm' = [adm EXCEPT !.pc = pc, !.todo = {}] /\ adm.pc = "round"
        BY <2>3, <3>1, <4>1 DEF begin_round
      <4> QED BY <4>2, <1>1, FinishedDrives
    <3>2. CASE ~expired
      <4>1. PICK pc, as : pc = "resolve" /\ as = adm.asked \cap {"broker"} OBVIOUS
      <4>2. adm' = [adm EXCEPT !.pc = pc, !.asked = as] /\ adm.pc = "round"
        BY <2>3, <3>2, <4>1 DEF begin_round
      <4> QED BY <4>2, <1>1, AskedDrives
    <3> QED BY <3>1, <3>2
  <2>4. CASE listed
    <3>1. PICK pc : pc = "finished" OBVIOUS
    <3> QED BY <2>4, <3>1, <1>1, FinishedDrives DEF listed
  <2>5. CASE finished
    <3>1. PICK pc : pc = "ended" OBVIOUS
    <3>2. PICK c : c = ops[2] OBVIOUS
    <3> QED BY <2>5, <3>1, <3>2, <1>1, PcDrives, BeginDrives DEF finished
  <2>6. CASE deadline_passes BY <2>6, <1>1 DEF deadline_passes
  <2> QED BY <2>1, <2>2, <2>3, <2>4, <2>5, <2>6
<1>4. Routed' BY <1>1, <1>2, <1>3 DEF Routed, Driving, Carrying
<1> QED BY <1>2, <1>3, <1>4, AdminKeeps

(* The lookups of a round: what has no node stays to be done. *)
LEMMA ResolvedKeeps ==
    ASSUME IInv, resolved
    PROVE  IInv' /\ Onward
<1>1. Driving(adm) /\ Carrying(sent) BY RoutedIs DEF IInv
<1>2. /\ UNCHANGED <<versions, cache, pending, permit, writer, attempt, closed, answer, call,
                     owed, crossed>>
      /\ adm.pc = "resolve"
  BY DEF resolved
<1>3. PICK any \in (IF cache.brokers = {} THEN {None} ELSE any_broker),
           v \in DOMAIN versions, fault \in {None} \cup LookupFaults :
       LET lost == fault # None /\ Missing # {}
           lookup_failed == IF any = None THEN Missing
                            ELSE IF lost THEN Group(CHOOSE k \in Missing : TRUE) \cap Missing
                            ELSE {}
           error == IF any = None THEN "Unavailable" ELSE IF expired THEN "Timeout" ELSE fault
           coordinators == [k \in Keys |->
               IF k \in Missing \ lookup_failed THEN versions[v].coordinator
               ELSE adm.coordinators[k]]
           node == [k \in Keys |-> IF k \in adm.todo THEN NodeOf(k, coordinators, any) ELSE None]
           out == {k \in adm.todo : node[k] = None}
           e == [k \in Keys |-> IF k \in out THEN LookupError(k, error) ELSE adm.last[k]]
           ended == {k \in out : LookupFails(e[k])}
           a == [adm EXCEPT !.coordinators = coordinators,
                            !.failed = IF error = "Network" /\ lookup_failed # {}
                                       THEN @ \cup {any} ELSE @]
       IN /\ IF lost /\ ~expired THEN Spend("faults") ELSE UNCHANGED left
          /\ adm' = [note_failure(a, out \ ended, e) EXCEPT
                       !.pc = "sending", !.todo = out \ ended, !.last = e]
          /\ results' = [k \in Keys |-> IF k \in ended THEN e[k] ELSE results[k]]
          /\ sent' = [b \in Brokers |->
               LET ks == {k \in adm.todo : node[k] = b}
               IN IF ks = {} THEN NoBatch
                  ELSE [NoBatch EXCEPT !.st = "connecting", !.keys = ks]]
  BY Zenon DEF resolved
<1> DEFINE lost == fault # None /\ Missing # {}
           lookup_failed == IF any = None THEN Missing
                            ELSE IF lost THEN Group(CHOOSE k \in Missing : TRUE) \cap Missing
                            ELSE {}
           error == IF any = None THEN "Unavailable" ELSE IF expired THEN "Timeout" ELSE fault
           co == [k \in Keys |->
               IF k \in Missing \ lookup_failed THEN versions[v].coordinator
               ELSE adm.coordinators[k]]
           node == [k \in Keys |-> IF k \in adm.todo THEN NodeOf(k, co, any) ELSE None]
           out == {k \in adm.todo : node[k] = None}
           e == [k \in Keys |-> IF k \in out THEN LookupError(k, error) ELSE adm.last[k]]
           ended == {k \in out : LookupFails(e[k])}
           fa == IF error = "Network" /\ lookup_failed # {}
                 THEN adm.failed \cup {any} ELSE adm.failed
           ks == out \ ended
<1>4. /\ adm' = [note_failure([adm EXCEPT !.coordinators = co, !.failed = fa], ks, e)
                     EXCEPT !.pc = "sending", !.todo = ks, !.last = e]
      /\ sent' = [b \in Brokers |->
             LET js == {k \in adm.todo : node[k] = b}
             IN IF js = {} THEN NoBatch ELSE [NoBatch EXCEPT !.st = "connecting", !.keys = js]]
  BY <1>3, Zenon
<1>5. ks \subseteq adm.todo OBVIOUS
<1> HIDE DEF lost, lookup_failed, error, co, node, out, e, ended, fa, ks
<1>6. PICK a : a = [adm EXCEPT !.coordinators = co, !.failed = fa] OBVIOUS
<1>7. DOMAIN a = DOMAIN adm /\ a.pc = adm.pc /\ a.todo = adm.todo /\ a.stale = adm.stale
  BY <1>6, <1>1 DEF Driving
<1>8. ks \in SUBSET Topics BY <1>1, <1>5 DEF Driving
<1>9. PICK n : n = note_failure(a, ks, e) OBVIOUS
<1>10. Driving(a) BY <1>1, <1>7 DEF Driving
<1>11. Driving(n) BY <1>8, <1>9, <1>10, NoteDrives
<1>12. adm' = [n EXCEPT !.pc = "sending", !.todo = ks, !.last = e] BY <1>4, <1>6, <1>9
<1>13. DOMAIN adm' = DOMAIN n /\ adm'.todo = ks /\ adm'.stale = n.stale
  BY <1>11, <1>12 DEF Driving
<1>14. Driving(adm') BY <1>8, <1>11, <1>13 DEF Driving
<1>15. DOMAIN sent' = Brokers BY <1>4
<1>16. ASSUME NEW b \in Brokers
       PROVE  "keys" \in DOMAIN sent'[b] /\ sent'[b].keys \subseteq Topics
  <2>1. PICK js : js = {k \in adm.todo : node[k] = b} OBVIOUS
  <2>2. js \subseteq Topics BY <2>1, <1>1 DEF Driving
  <2>3. sent'[b] = IF js = {} THEN NoBatch ELSE [NoBatch EXCEPT !.st = "connecting", !.keys = js]
    BY <2>1, <1>4
  <2>4. CASE js = {} BY <2>3, <2>4 DEF NoBatch
  <2>5. CASE js # {}
    <3>1. sent'[b] = [NoBatch EXCEPT !.st = "connecting", !.keys = js] BY <2>3, <2>5
    <3> QED BY <3>1, <2>2 DEF NoBatch
  <2> QED BY <2>4, <2>5
<1>17. Routed' BY <1>14, <1>15, <1>16 DEF Routed, Driving
<1> QED BY <1>2, <1>17, AdminKeeps

(* A batch's steps change its state and not its keys. *)
LEMMA BatchKeeps ==
    ASSUME IInv, NEW b \in Brokers, batch_connects(b) \/ broker_handles(b) \/ batch_ends(b)
    PROVE  IInv' /\ Onward
<1>1. Driving(adm) /\ Carrying(sent) BY RoutedIs DEF IInv
<1>2. /\ UNCHANGED <<versions, cache, pending, permit, writer, attempt, closed, answer, call,
                     owed, crossed>>
      /\ adm' = adm
  BY DEF batch_connects, broker_handles, batch_ends, BatchRest
<1>3. \/ \E st, e : sent' = [sent EXCEPT ![b].st = st, ![b].error = e]
      \/ \E r : sent' = [sent EXCEPT ![b].st = "replied", ![b].reply = r]
  <2>1. CASE batch_connects(b)
    <3>1. \/ Batch(b, "sent", None) \/ (\E e \in {"Network", "Auth"} : Batch(b, "NotSent", e))
          \/ Batch(b, "NotSent", "Timeout")
      BY <2>1 DEF batch_connects
    <3> QED BY <3>1 DEF Batch
  <2>2. CASE broker_handles(b) BY <2>2 DEF broker_handles
  <2>3. CASE batch_ends(b)
    <3>1. \/ Batch(b, "Answered", None) \/ (\E e \in {"Network", BatchError(b)} : Batch(b, "Unanswered", e))
          \/ Batch(b, "Unanswered", "Timeout")
      BY <2>3 DEF batch_ends
    <3> QED BY <3>1 DEF Batch
  <2> QED BY <2>1, <2>2, <2>3
<1>4. PICK q : q = sent[b] OBVIOUS
<1>5. DOMAIN sent = Brokers /\ "keys" \in DOMAIN q BY <1>1, <1>4 DEF Carrying
<1>6. /\ DOMAIN sent' = Brokers /\ \A d \in Brokers : d # b => sent'[d] = sent[d]
      /\ \/ \E st, e : sent'[b] = [q EXCEPT !.st = st, !.error = e]
         \/ \E r : sent'[b] = [q EXCEPT !.st = "replied", !.reply = r]
  <2>1. ASSUME NEW st, NEW e, sent' = [sent EXCEPT ![b].st = st, ![b].error = e]
        PROVE  /\ DOMAIN sent' = Brokers /\ \A d \in Brokers : d # b => sent'[d] = sent[d]
               /\ sent'[b] = [q EXCEPT !.st = st, !.error = e]
    BY <2>1, <1>4, <1>5
  <2>2. ASSUME NEW r, sent' = [sent EXCEPT ![b].st = "replied", ![b].reply = r]
        PROVE  /\ DOMAIN sent' = Brokers /\ \A d \in Brokers : d # b => sent'[d] = sent[d]
               /\ sent'[b] = [q EXCEPT !.st = "replied", !.reply = r]
    BY <2>2, <1>4, <1>5
  <2>3. CASE \E st, e : sent' = [sent EXCEPT ![b].st = st, ![b].error = e]
    <3>1. PICK st, e : sent' = [sent EXCEPT ![b].st = st, ![b].error = e] BY <2>3
    <3>2. sent'[b] = [q EXCEPT !.st = st, !.error = e] BY <3>1, <2>1
    <3>3. \E x, y : sent'[b] = [q EXCEPT !.st = x, !.error = y] BY <3>2, Zenon
    <3> QED BY <3>1, <3>3, <2>1
  <2>4. CASE \E r : sent' = [sent EXCEPT ![b].st = "replied", ![b].reply = r]
    <3>1. PICK r : sent' = [sent EXCEPT ![b].st = "replied", ![b].reply = r] BY <2>4
    <3> QED BY <3>1, <2>2
  <2> QED BY <2>3, <2>4, <1>3
<1>7. "keys" \in DOMAIN sent'[b] /\ sent'[b].keys = q.keys BY <1>5, <1>6
<1>8. Carrying(sent') BY <1>1, <1>4, <1>6, <1>7, BatchCarries
<1>9. Routed' BY <1>1, <1>2, <1>8 DEF Routed, Driving, Carrying
<1> QED BY <1>2, <1>9, AdminKeeps

(* The end of a round: what is retried was in some batch. *)
LEMMA CollectKeeps ==
    ASSUME IInv, collect
    PROVE  IInv' /\ Onward
<1>1. Driving(adm) /\ Carrying(sent) BY RoutedIs DEF IInv
<1>2. /\ UNCHANGED <<versions, cache, pending, permit, writer, attempt, closed, answer, call,
                     owed, crossed>>
      /\ adm.pc = "sending" /\ sent' = [b \in Brokers |-> NoBatch]
  BY DEF collect, mvars
<1> DEFINE carrier(k) == CHOOSE b \in Brokers : k \in sent[b].keys
           carried == UNION {Settled(b) : b \in Brokers}
           e == [k \in Keys |-> IF k \in carried THEN KeyError(carrier(k), k) ELSE adm.last[k]]
           retry == {k \in carried : KeyRetried(carrier(k), k)}
           noted == {k \in carried : k \in retry \/ sent[carrier(k)].st # "Answered"}
           a == [adm EXCEPT
                  !.failed = @ \cup {b \in Brokers : sent[b].st \in {"NotSent", "Unanswered"}},
                  !.todo = @ \cup retry,
                  !.last = [k \in Keys |-> IF k \in retry THEN e[k] ELSE @[k]],
                  !.pc = IF adm.todo \cup retry = {} THEN "finished" ELSE "refresh"]
<1>3. adm' = note_failure(a, noted, e) BY Zenon DEF collect
<1>4. carried \subseteq Topics
  <2>1. \A b \in Brokers : Settled(b) \subseteq Topics BY <1>1 DEF Settled, Carrying
  <2> QED BY <2>1
<1>5. retry \subseteq Topics /\ noted \in SUBSET Topics BY <1>4
<1>6. PICK fa, la, pc, re : /\ a = [adm EXCEPT !.failed = fa, !.todo = re, !.last = la, !.pc = pc]
                            /\ re = adm.todo \cup retry
  <2>1. PICK fa : fa = adm.failed \cup {b \in Brokers : sent[b].st \in {"NotSent", "Unanswered"}}
    OBVIOUS
  <2>2. PICK la : la = [k \in Keys |-> IF k \in retry THEN e[k] ELSE adm.last[k]] OBVIOUS
  <2>3. PICK pc : pc = IF adm.todo \cup retry = {} THEN "finished" ELSE "refresh" OBVIOUS
  <2>4. PICK re : re = adm.todo \cup retry OBVIOUS
  <2>5. a = [adm EXCEPT !.failed = fa, !.todo = re, !.last = la, !.pc = pc]
    BY <2>1, <2>2, <2>3, <2>4, Zenon
  <2> HIDE DEF a, retry
  <2> QED BY <2>4, <2>5, Zenon
<1> HIDE DEF a, retry, noted, e, carried
<1>7. DOMAIN a = DOMAIN adm /\ a.todo = adm.todo \cup retry /\ a.stale = adm.stale
  BY <1>1, <1>6 DEF Driving
<1>8. Driving(a) BY <1>1, <1>5, <1>7 DEF Driving
<1>9. Driving(adm') BY <1>3, <1>5, <1>8, NoteDrives
<1>10. DOMAIN sent' = Brokers /\ \A b \in Brokers : sent'[b] = NoBatch BY <1>2
<1>11. Carrying(sent') BY <1>10 DEF Carrying, NoBatch
<1>12. Routed' BY <1>9, <1>11 DEF Routed, Driving, Carrying
<1> QED BY <1>2, <1>12, AdminKeeps

(* The driver asks the metadata, while nobody answers it. *)
LEMMA DriverAsks ==
    ASSUME IInv, UNCHANGED <<versions, cache, attempt, closed, call, left, crossed, sent>>,
           NEW full \in BOOLEAN, NEW names \in SUBSET Topics, Ask(Me, full, names),
           adm.pc \notin {"fetching", "refreshing"}, Driving(adm'),
           adm'.pc \in {"fetching", "refreshing"}
    PROVE  IInv' /\ Onward
<1>1. Types /\ Waiters /\ Owing /\ Waking /\ InCall BY DEF IInv
<1>2. Carrying(sent) BY RoutedIs DEF IInv
<1>3. writer \in Writers /\ call \in [Callers -> Calls \cup {NoCall}] BY <1>1 DEF Types
<1>4. answer[Me] # "waiting" BY <1>1 DEF InCall
<1>5. PICK me : me = Me OBVIOUS
<1>6. me \in Callers /\ answer[me] # "waiting" /\ Ask(me, full, names)
  BY <1>4, <1>5, TasksAreCallers
<1>7. /\ pending' \in Fetches
      /\ answer' \in [Callers -> {None, "waiting", "ok", "err"}]
      /\ owed' \in [Callers -> SUBSET (Topics \cup {"brokers"})]
      /\ Waiters' /\ Owing' /\ Waking'
      /\ \A d \in Callers : d # me => answer'[d] = answer[d]
  BY <1>1, <1>6, AskKeeps
<1>8. writer' = writer BY DEF Ask
<1>9. InCall' BY <1>1, <1>5, <1>7, TasksAreCallers DEF InCall
<1>10. Routed' BY <1>2 DEF Routed, Driving, Carrying
<1> QED BY <1>3, <1>7, <1>8, <1>9, <1>10, CallerKeeps

(* A lookup needs a fetch. *)
LEMMA ResolveKeeps ==
    ASSUME IInv, resolve_fetches
    PROVE  IInv' /\ Onward
<1>1. Driving(adm) BY RoutedIs DEF IInv
<1>2. /\ UNCHANGED <<versions, cache, attempt, closed, call, left, crossed, sent>>
      /\ adm.pc = "resolve"
  BY DEF resolve_fetches
<1>3. PICK kind \in Needed :
         /\ Ask(Me, kind \in {"any", "topics"}, IF kind = "leader" THEN Unroutable ELSE {})
         /\ adm' = [adm EXCEPT !.pc = "fetching", !.asked = @ \cup {kind}]
  BY DEF resolve_fetches
<1>4. PICK full : full = (kind \in {"any", "topics"}) OBVIOUS
<1>5. PICK names : names = IF kind = "leader" THEN Unroutable ELSE {} OBVIOUS
<1>6. Unroutable \subseteq Topics BY <1>1 DEF Unroutable, Targets, Driving
<1>7. full \in BOOLEAN /\ names \in SUBSET Topics /\ Ask(Me, full, names)
  BY <1>3, <1>4, <1>5, <1>6
<1>8. PICK pc, as : pc = "fetching" /\ as = adm.asked \cup {kind} OBVIOUS
<1>9. adm' = [adm EXCEPT !.pc = pc, !.asked = as] BY <1>3, <1>8
<1>10. Driving(adm') /\ adm'.pc = pc BY <1>1, <1>9, AskedDrives
<1>11. Driving(adm') /\ adm'.pc = "fetching" BY <1>8, <1>10
<1> QED BY <1>2, <1>7, <1>11, DriverAsks

(* A stale route is refreshed, or the next round begins. *)
LEMMA RefreshKeeps ==
    ASSUME IInv, refresh_metadata
    PROVE  IInv' /\ Onward
<1>1. Driving(adm) /\ Carrying(sent) BY RoutedIs DEF IInv
<1>2. /\ UNCHANGED <<versions, cache, attempt, closed, call, left, crossed, sent>>
      /\ adm.pc = "refresh"
  BY DEF refresh_metadata
<1>3. CASE /\ Ask(Me, FALSE, adm.stale)
           /\ adm' = [adm EXCEPT !.pc = "refreshing", !.stale = {}, !.stale_controller = FALSE]
  <2>1. PICK full : full = FALSE OBVIOUS
  <2>2. PICK names : names = adm.stale OBVIOUS
  <2>3. full \in BOOLEAN /\ names \in SUBSET Topics /\ Ask(Me, full, names)
    BY <1>1, <1>3, <2>1, <2>2 DEF Driving
  <2>4. DOMAIN adm' = DOMAIN adm /\ adm'.pc = "refreshing" /\ adm'.stale = {}
        /\ adm'.todo = adm.todo
    BY <1>1, <1>3 DEF Driving
  <2>5. Driving(adm') BY <1>1, <2>4 DEF Driving
  <2> QED BY <1>2, <2>3, <2>4, <2>5, DriverAsks
<1>4. CASE /\ adm' = [adm EXCEPT !.pc = "round"]
           /\ UNCHANGED <<pending, permit, answer, owed, writer>>
  <2>1. PICK pc : pc = "round" OBVIOUS
  <2>2. Driving(adm') BY <1>1, <1>4, <2>1, PcDrives
  <2>3. Routed' BY <1>1, <1>2, <2>2 DEF Routed, Driving, Carrying
  <2> QED BY <1>2, <1>4, <2>3, AdminKeeps
<1> QED BY <1>3, <1>4 DEF refresh_metadata

(* The driver's fetch ends, or its deadline drops it. *)
LEMMA FetchedKeeps ==
    ASSUME IInv, fetched
    PROVE  IInv' /\ Onward
<1>1. Driving(adm) /\ Carrying(sent) BY RoutedIs DEF IInv
<1>2. /\ UNCHANGED <<versions, cache, permit, attempt, closed, call, left, owed, crossed, sent>>
      /\ Abandon(Me)
  BY DEF fetched
<1>3. Types /\ Waiters /\ Owing /\ Waking /\ InCall BY DEF IInv
<1>4. /\ call \in [Callers -> Calls \cup {NoCall}]
      /\ owed \in [Callers -> SUBSET (Topics \cup {"brokers"})]
  BY <1>3 DEF Types
<1>5. PICK me : me = Me OBVIOUS
<1>6. me \in Callers /\ Abandon(me) BY <1>2, <1>5, TasksAreCallers
<1>7. /\ pending' \in Fetches /\ writer' \in Writers
      /\ writer'.pc = writer.pc /\ writer'.reset = writer.reset
      /\ writer'.response = writer.response
      /\ answer' \in [Callers -> {None, "waiting", "ok", "err"}]
      /\ Waiters' /\ Owing' /\ Waking'
      /\ answer'[me] = None /\ \A d \in Callers : d # me => answer'[d] = answer[d]
  BY <1>2, <1>3, <1>6, AbandonKeeps
<1>8. None # "waiting" BY DEF None
<1>9. InCall' BY <1>2, <1>3, <1>5, <1>7, <1>8, TasksAreCallers DEF InCall
<1>10. Driving(adm')
  <2>1. CASE IsListing
    <3>1. PICK pc : pc = "finished" OBVIOUS
    <3>2. adm' = [adm EXCEPT !.pc = pc, !.todo = {}] BY <2>1, <3>1 DEF fetched
    <3> QED BY <3>2, <1>1, FinishedDrives
  <2>2. CASE ~IsListing
    <3>1. PICK pc : pc = IF adm.pc = "fetching" THEN "resolve" ELSE "round" OBVIOUS
    <3>2. adm' = [adm EXCEPT !.pc = pc] BY <2>2, <3>1 DEF fetched
    <3> QED BY <3>2, <1>1, PcDrives
  <2> QED BY <2>1, <2>2
<1>11. Routed' BY <1>1, <1>2, <1>10 DEF Routed, Driving, Carrying
<1> QED BY <1>2, <1>4, <1>7, <1>9, <1>11, CallerKeeps

(* Every step of the driver. *)
LEMMA AdminStepKeeps ==
    ASSUME IInv, AdminStep
    PROVE  IInv' /\ Onward
<1>1. ASSUME BatchStep PROVE IInv' /\ Onward
  <2>1. PICK b \in Brokers : batch_connects(b) \/ broker_handles(b) \/ batch_ends(b)
    BY <1>1 DEF BatchStep
  <2> QED BY <2>1, BatchKeeps
<1> QED BY <1>1, QuietKeeps, ResolveKeeps, FetchedKeeps, ResolvedKeeps, CollectKeeps, RefreshKeeps
        DEF AdminStep, CallStep

-----------------------------------------------------------------------------
(* The theorems. *)

(* Nothing happens. *)
LEMMA StutterKeeps ==
    ASSUME IInv, UNCHANGED vars
    PROVE  IInv' /\ Onward
<1>1. /\ UNCHANGED <<versions, cache, pending, permit, writer, attempt, closed, answer, call,
                     owed, crossed>>
      /\ UNCHANGED avars /\ adm' = adm
  BY DEF vars, mvars, avars
<1>2. Routed' BY <1>1, RouteKeeps DEF IInv
<1> QED BY <1>1, <1>2, AdminKeeps

(* Every step. *)
LEMMA NextKeeps ==
    ASSUME IInv, [Next]_vars
    PROVE  IInv' /\ Onward
BY StutterKeeps, MetadataKeeps, DropMetadataKeeps, AdminStepKeeps DEF Next

(* The start. *)
LEMMA InitHolds == Init => IInv
<1> SUFFICES ASSUME Init PROVE IInv OBVIOUS
<1>1. /\ cache = MetadataCache_new(0) /\ pending = NoFetch /\ permit = FALSE /\ writer = Idle
      /\ closed = FALSE /\ answer = [c \in Callers |-> None]
      /\ call = [c \in Callers |-> NoCall] /\ owed = [c \in Callers |-> {}]
      /\ crossed = [sent |-> FALSE, seen |-> FALSE]
      /\ sent = [b \in Brokers |-> NoBatch]
  BY DEF Init, MetadataInit
<1>2. PICK seed \in Brokers : seed = CHOOSE b \in Seeds : TRUE BY MetadataAssumption
<1>3. ASSUME NEW t \in Topics, NEW q \in TopicStarts(t) PROVE q \in ClusterTopic
  <2>1. PICK up : up = [id |-> 1, parts |-> 1, leader |-> seed, epoch |-> 0] OBVIOUS
  <2>2. up \in ClusterTopic BY <2>1 DEF ClusterTopic, Nodes
  <2>3. q \in {up, [up EXCEPT !.parts = 0], [up EXCEPT !.id = NoId]}
    BY <1>2, <2>1 DEF TopicStarts
  <2>4. [up EXCEPT !.parts = 0] \in ClusterTopic BY <2>2 DEF ClusterTopic
  <2>5. [up EXCEPT !.id = NoId] \in ClusterTopic BY <2>2 DEF ClusterTopic, NoId
  <2> QED BY <2>2, <2>3, <2>4, <2>5
<1>4. PICK topics \in [Topics -> UNION {TopicStarts(t) : t \in Topics}] :
         /\ \A t \in Topics : topics[t] \in TopicStarts(t)
         /\ versions = <<[controller |-> seed, coordinator |-> seed, brokers |-> Brokers,
                          topics |-> topics]>>
  BY <1>2 DEF Init, MetadataInit
<1>5. topics \in [Topics -> ClusterTopic] BY <1>3, <1>4
<1>6. [controller |-> seed, coordinator |-> seed, brokers |-> Brokers, topics |-> topics]
        \in ClusterState
  BY <1>5 DEF ClusterState
<1>7. versions \in Seq(ClusterState) /\ versions # <<>> BY <1>4, <1>6
<1>8. Absent \in CachedTopic /\ Absent.epoch = -1
  BY DEF Absent, CachedTopic, NoId, NoEpoch, Nodes
<1>9. /\ cache \in Snapshots /\ cache.reset = 0
      /\ \A t \in Topics : cache.topics[t] = Absent
  BY <1>1, <1>8 DEF MetadataCache_new, Snapshots, Nodes
<1>10. pending \in Fetches /\ pending.waiters = {} BY <1>1 DEF NoFetch, Fetches
<1>11. /\ answer \in [Callers -> {None, "waiting", "ok", "err"}]
       /\ \A c \in Callers : answer[c] = None
       /\ None # "waiting" /\ None # "ok"
  BY <1>1 DEF None
<1>12. call \in [Callers -> Calls \cup {NoCall}] BY <1>1
<1>13. owed \in [Callers -> SUBSET (Topics \cup {"brokers"})] BY <1>1
<1>14. crossed \in [sent : BOOLEAN, seen : BOOLEAN] /\ ~crossed.sent /\ ~crossed.seen BY <1>1
<1>15. Types BY <1>1, <1>7, <1>9, <1>10, <1>11, <1>12, <1>13, <1>14, IdleIsWriter DEF Types
<1>16. Routed
  <2>1. PICK a : a = Begin(Fan("Read", "AnyBroker")) OBVIOUS
  <2>2. PICK c : c = Fan("Read", "AnyBroker") OBVIOUS
  <2>3. Driving(a) BY <2>1, <2>2, BeginDrives
  <2>4. PICK pc : pc = "idle" OBVIOUS
  <2>5. adm = [a EXCEPT !.pc = pc, !.todo = {}] BY <2>1, <2>4 DEF Init
  <2>6. Driving(adm) BY <2>3, <2>5, FinishedDrives
  <2>7. Carrying(sent) BY <1>1 DEF Carrying, NoBatch
  <2> QED BY <2>6, <2>7, RoutedIs
<1>17. Waiters BY <1>1, <1>10, <1>11, IdleIsWriter DEF Waiters
<1>18. InCall BY <1>11, TasksAreCallers DEF InCall
<1>19. OkIsServed BY <1>11 DEF OkIsServed
<1>20. Owing BY <1>1, <1>10, <1>19, IdleIsWriter DEF Owing
<1>21. Waking BY <1>1, IdleIsWriter DEF Waking
<1>22. Resets BY <1>1, <1>9, <1>14, IdleIsWriter DEF Resets, InFlight
<1>23. Answered BY <1>1, IdleIsWriter DEF Answered
<1>24. Epochs BY <1>8, <1>9 DEF Epochs
<1> QED BY <1>15, <1>16, <1>17, <1>18, <1>20, <1>21, <1>22, <1>23, <1>24 DEF IInv

(* The inductive invariant of the metadata cache and of its users: the       *)
(* lists of waiters, what each is owed, the wake-up and the view numbers.    *)
THEOREM MetadataInvariant == Spec => []IInv
<1>1. IInv /\ [Next]_vars => IInv' BY NextKeeps
<1> QED BY <1>1, InitHolds, PTL DEF Spec

(* The writer serves what is asked of it: an Ok is fresh, no request is slept *)
(* through, and no fetch from before a rebootstrap shapes the view (request,  *)
(* run_writer, wake_writer, reset_to_seeds, apply).                           *)
THEOREM RequestsAlwaysServed == Spec => []RequestsServed
<1>1. IInv => RequestsServed
  BY DEF IInv, Owing, Waking, WakeIsKept, Resets, ResetHolds, RequestsServed
<1> QED BY <1>1, MetadataInvariant, PTL

(* A known leader epoch is never replaced by an older one of the same topic,  *)
(* in whatever order responses of lagging brokers and hints are applied       *)
(* (merge, apply_leader_hint).                                                *)
THEOREM EpochsNeverGoBack == Spec => EpochNeverBack
<1>1. IInv /\ [Next]_vars => [\A t \in Topics :
         LET old == cache.topics[t]  new == cache.topics[t]' IN
         (old.epoch >= 0 /\ new.epoch >= 0 /\ ~Recreated(old, new.id))
            => new.epoch >= old.epoch]_mvars
  <2>1. ASSUME IInv, [Next]_vars
        PROVE  \A t \in Topics :
         LET old == cache.topics[t]  new == cache.topics[t]' IN
         (old.epoch >= 0 /\ new.epoch >= 0 /\ ~Recreated(old, new.id))
            => new.epoch >= old.epoch
    BY <2>1, NextKeeps DEF Onward, Forward
  <2> QED BY <2>1
<1> QED BY <1>1, MetadataInvariant, PTL DEF Spec, EpochNeverBack

-----------------------------------------------------------------------------
(* The admin driver: what becomes of each key of a call. *)

(* What the driver's variables hold. *)
Met == Errors \cup {None}
Drivers == [pc : {"idle", "round", "resolve", "fetching", "sending", "refresh", "refreshing",
                  "finished", "ended"},
            todo : SUBSET Keys, last : [Keys -> Met], failed : SUBSET Brokers,
            coordinators : [Keys -> Nodes],
            asked : SUBSET {"leader", "any", "controller", "broker", "topics"},
            stale : SUBSET Keys, stale_controller : BOOLEAN]
BatchErrors == {"Network", "Auth", "Timeout", "Malformed", "UnknownApiVersion"}
Batches == [st : {None, "connecting", "sent", "NotSent", "replied", "Unanswered", "Answered"},
            keys : SUBSET Keys, error : Met, reply : [Keys -> Met \cup {"ok", "missing"}]]

DriverTypes ==
    /\ ops \in Seq(CallForms)
    /\ adm \in Drivers
    /\ sent \in [Brokers -> Batches]
    /\ results \in [Keys -> Met \cup {"ok"}]
    /\ applied \in [Keys -> Nat]

(* A key of the call is to be done, on its way in one batch, or has its    *)
(* result, and only one of these; batches are on their way only while the  *)
(* driver waits for them.                                                  *)
Carried(k) == \E b \in Brokers : k \in sent[b].keys

Places ==
    /\ \A k \in adm.todo : results[k] = None /\ ~Carried(k)
    /\ \A k \in Keys : Carried(k) => results[k] = None
    /\ \A b, c \in Brokers : b # c => sent[b].keys \cap sent[c].keys = {}
    /\ adm.pc \notin {"idle", "ended"} =>
         /\ ops # <<>>
         /\ \A k \in CallKeys(Call) : k \in adm.todo \/ Carried(k) \/ results[k] # None
    /\ adm.pc # "sending" => \A b \in Brokers : sent[b] = NoBatch
    /\ adm.pc \in {"idle", "finished"} => adm.todo = {}
    /\ adm.pc = "idle" => \A k \in Keys : results[k] = None

(* What a batch came to. *)
Came ==
    \A b \in Brokers :
        /\ sent[b].st = None => sent[b].keys = {}
        /\ sent[b].st \in {"NotSent", "Unanswered"} => sent[b].error \in BatchErrors
        /\ sent[b].st \in {"replied", "Answered"} => \A k \in sent[b].keys : sent[b].reply[k] # None

(* What is known of a write: nothing was carried out for a key that is to  *)
(* be done or whose batch has not left, and an answer says what was.       *)
Definite == BrokerCodes \ {"RequestTimedOut"}
Says(word, n) == (word = "ok" => n = 1) /\ (word \in Definite => n = 0)
Unhandled == {"connecting", "sent", "NotSent"}

Written ==
    ops # <<>> /\ Call.mode = "Write" =>
        \A k \in Keys :
            /\ applied[k] <= 1
            /\ Says(results[k], applied[k])
            /\ results[k] = None /\ ~Carried(k) => applied[k] = 0
            /\ \A b \in Brokers : k \in sent[b].keys =>
                 /\ sent[b].st \in Unhandled => applied[k] = 0
                 /\ sent[b].st \in {"replied", "Answered"} => Says(sent[b].reply[k], applied[k])

CInv == DriverTypes /\ Places /\ Came /\ Written

-----------------------------------------------------------------------------
(* Calls and their keys. *)

LEMMA CallIs ==
    ASSUME ops \in Seq(CallForms), ops # <<>>
    PROVE  /\ Call \in CallForms /\ CallKeys(Call) \subseteq Keys
           /\ Call.mode \in {"Read", "Write"}
           /\ IsListing => CallKeys(Call) = {First}
           /\ ~IsListing => \A k \in Keys : Target(k) \in Routable
<1>1. Call \in CallForms BY DEF Call
<1>2. PICK c : c = Call OBVIOUS
<1>3. c \in CallForms BY <1>1, <1>2
<1>4. c.mode \in {"Read", "Write"} BY <1>3 DEF CallForms
<1>5. CallKeys(c) \subseteq Keys BY AdminAssumption DEF CallKeys, Keys
<1>6. ASSUME c.target[1] \in Listable PROVE c.keys = "one"
  BY <1>3, <1>6 DEF CallForms, Routable, Listable
<1>7. ASSUME c.target[1] \notin Listable
      PROVE  c.target[1] \in Routable /\ c.target[2] \in Routable
  BY <1>3, <1>7 DEF CallForms
<1>8. IsListing <=> c.target[1] \in Listable BY <1>2 DEF IsListing, Listable
<1>9. \A k \in Keys : Target(k) = c.target[IF k = First THEN 1 ELSE 2] BY <1>2 DEF Target
<1>10. ~IsListing => \A k \in Keys : Target(k) \in Routable BY <1>7, <1>8, <1>9
<1>11. IsListing => CallKeys(c) = {First} BY <1>6, <1>8 DEF CallKeys
<1> QED BY <1>1, <1>2, <1>4, <1>5, <1>10, <1>11

LEMMA NoBatchIs ==
    /\ NoBatch \in Batches /\ NoBatch.st = None /\ NoBatch.keys = {}
    /\ NoRoute \in [Keys -> Met] /\ \A k \in Keys : NoRoute[k] = None
<1>1. NoRoute \in [Keys -> Met] /\ \A k \in Keys : NoRoute[k] = None BY DEF NoRoute, Met
<1>2. NoRoute \in [Keys -> Met \cup {"ok", "missing"}] BY <1>1
<1>3. None \in Met BY DEF Met
<1> QED BY <1>1, <1>2, <1>3 DEF NoBatch, Batches

LEMMA BeginIs ==
    ASSUME NEW c, CallKeys(c) \subseteq Keys
    PROVE  Begin(c) \in Drivers /\ Begin(c).pc = "round" /\ Begin(c).todo = CallKeys(c)
<1>1. NoRoute \in [Keys -> Met] /\ NoRoute \in [Keys -> Nodes] BY NoBatchIs DEF NoRoute, Nodes
<1>2. PICK ks : ks = CallKeys(c) OBVIOUS
<1>3. PICK r : r = NoRoute OBVIOUS
<1>4. Begin(c) = [pc |-> "round", todo |-> ks, last |-> r, failed |-> {},
             coordinators |-> r, asked |-> {}, stale |-> {}, stale_controller |-> FALSE]
  BY <1>2, <1>3 DEF Begin
<1> QED BY <1>1, <1>2, <1>3, <1>4 DEF Drivers

(* None is told apart from what a key may meet. *)
LEMMA NoneIsNothing ==
    /\ None \notin Errors /\ None # "ok" /\ "ok" \notin Errors /\ None # "missing"
    /\ BrokerCodes \subseteq Errors /\ {"Network", "Auth", "Timeout", "Malformed",
         "UnknownApiVersion", "Unavailable"} \subseteq Errors
    /\ {"Network", "Auth", "Timeout", "Malformed", "UnknownApiVersion", "ok", None,
         "Unavailable", "missing"} \cap BrokerCodes = {}
    /\ not_applied \subseteq Definite
BY DEF None, Errors, BrokerCodes, retriable_read, not_applied, Definite

-----------------------------------------------------------------------------
(* Steps that leave every key where it is. *)
LEMMA PassingKeeps ==
    ASSUME CInv, UNCHANGED <<ops, sent, results, applied>>,
           adm' \in Drivers, adm'.todo = adm.todo,
           adm.pc \notin {"idle", "sending", "ended"},
           adm'.pc \notin {"idle", "ended", "finished"}
    PROVE  CInv'
<1>1. DriverTypes /\ Places /\ Came /\ Written BY DEF CInv
<1>2. DriverTypes' BY <1>1 DEF DriverTypes
<1>3. Places' BY <1>1 DEF Places, Carried, Call
<1>4. Came' BY <1>1 DEF Came
<1>5. Written' BY <1>1 DEF Written, Carried, Call
<1> QED BY <1>2, <1>3, <1>4, <1>5 DEF CInv

(* The call ends with results for the keys that had none. *)
LEMMA EndingKeeps ==
    ASSUME CInv, UNCHANGED <<ops, sent, applied>>,
           adm' \in Drivers, adm'.todo = {}, adm'.pc = "finished",
           adm.pc \notin {"idle", "sending", "ended"},
           results' \in [Keys -> Met \cup {"ok"}],
           \A k \in CallKeys(Call) : results'[k] # None,
           \A k \in Keys : results'[k] = results[k] \/ (k \in adm.todo /\ results'[k] \in Errors)
                             \/ Call.mode # "Write"
    PROVE  CInv'
<1>1. DriverTypes /\ Places /\ Came /\ Written BY DEF CInv
<1>2. DriverTypes' BY <1>1 DEF DriverTypes
<1>3. \A b \in Brokers : sent[b] = NoBatch BY <1>1 DEF Places
<1>4. \A k \in Keys : ~Carried(k) BY <1>3, NoBatchIs DEF Carried
<1>5. Call' = Call BY DEF Call
<1>6. \A k \in Keys : Carried(k)' = Carried(k) BY DEF Carried
<1>7. ops # <<>> /\ CallKeys(Call) \subseteq Keys BY <1>1, CallIs DEF Places, DriverTypes
<1>8. Places' BY <1>1, <1>3, <1>4, <1>5, <1>6, <1>7, NoBatchIs DEF Places
<1>9. Came' BY <1>1 DEF Came
<1>10. ASSUME Call.mode = "Write" PROVE Written'
  <2>1. ASSUME NEW k \in Keys
        PROVE  /\ applied[k] <= 1 /\ Says(results'[k], applied[k])
               /\ results'[k] = None => applied[k] = 0
    <3>1. applied[k] <= 1 /\ Says(results[k], applied[k]) /\ (results[k] = None => applied[k] = 0)
      BY <1>1, <1>4, <1>7, <1>10 DEF Written
    <3>2. CASE results'[k] = results[k] BY <3>1, <3>2
    <3>3. CASE k \in adm.todo /\ results'[k] \in Errors
      <4>1. applied[k] = 0 BY <3>1, <3>3, <1>1 DEF Places
      <4> QED BY <3>3, <4>1, NoneIsNothing DEF Says
    <3> QED BY <3>2, <3>3, <1>10
  <2>2. \A b \in Brokers : sent'[b].keys = {} BY <1>3, NoBatchIs
  <2> QED BY <2>1, <2>2 DEF Written
<1>11. ASSUME Call.mode # "Write" PROVE Written' BY <1>5, <1>11 DEF Written
<1> QED BY <1>2, <1>8, <1>9, <1>10, <1>11 DEF CInv

(* The call begins: every key is to be done (Call::fan_out). *)
LEMMA StartTrue == ASSUME CInv, start PROVE CInv'
<1>1. DriverTypes /\ Places /\ Came /\ Written BY DEF CInv
<1>2. /\ adm.pc = "idle" /\ ops # <<>> /\ adm' = Begin(Call)
      /\ UNCHANGED <<ops, sent, results, applied>>
  BY DEF start
<1>3. CallKeys(Call) \subseteq Keys BY <1>1, <1>2, CallIs DEF DriverTypes
<1>4. PICK c : c = Call OBVIOUS
<1>5. adm' \in Drivers /\ adm'.pc = "round" /\ adm'.todo = CallKeys(c)
  BY <1>2, <1>3, <1>4, BeginIs
<1>6. DriverTypes' BY <1>1, <1>2, <1>5 DEF DriverTypes
<1>7. \A k \in Keys : ~Carried(k) BY <1>1, <1>2, NoBatchIs DEF Places, Carried
<1>8. \A k \in Keys : Carried(k)' = Carried(k) BY <1>2 DEF Carried
<1>9. Call' = c BY <1>2, <1>4 DEF Call
<1>10. Places' BY <1>1, <1>2, <1>3, <1>4, <1>5, <1>7, <1>8, <1>9 DEF Places
<1>11. Came' BY <1>1, <1>2 DEF Came
<1>12. Written' BY <1>1, <1>2 DEF Written, Carried, Call
<1> QED BY <1>6, <1>10, <1>11, <1>12 DEF CInv

(* Refused before the first call. *)
LEMMA RefuseTrue == ASSUME CInv, refuse PROVE CInv'
<1>1. DriverTypes /\ Places /\ Came BY DEF CInv
<1>2. /\ adm.pc = "idle" /\ ops' = <<>> /\ adm' = [adm EXCEPT !.pc = "ended"]
      /\ UNCHANGED <<sent, results, applied>>
  BY DEF refuse
<1>3. adm' \in Drivers /\ adm'.pc = "ended" /\ adm'.todo = adm.todo
  BY <1>1, <1>2 DEF DriverTypes, Drivers
<1>4. DriverTypes' BY <1>1, <1>2, <1>3 DEF DriverTypes
<1>5. Places' BY <1>1, <1>2, <1>3 DEF Places, Carried
<1>6. Came' BY <1>1, <1>2 DEF Came
<1>7. Written' BY <1>2 DEF Written
<1> QED BY <1>4, <1>5, <1>6, <1>7 DEF CInv

(* A round begins, or the deadline ends the call with what each key met. *)
LEMMA RoundTrue == ASSUME CInv, begin_round PROVE CInv'
<1>1. DriverTypes /\ Places BY DEF CInv
<1>2. adm.pc = "round" /\ UNCHANGED <<ops, sent, applied>> BY DEF begin_round
<1>3. CASE expired
  <2>1. /\ results' = [k \in Keys |-> IF k \in adm.todo THEN ExpiredError(adm.last[k])
                                      ELSE results[k]]
        /\ adm' = [adm EXCEPT !.pc = "finished", !.todo = {}]
    BY <1>3 DEF begin_round
  <2>2. adm' \in Drivers /\ adm'.pc = "finished" /\ adm'.todo = {}
    BY <1>1, <2>1 DEF DriverTypes, Drivers
  <2>3. \A x : ExpiredError(x) \in Errors BY NoneIsNothing DEF ExpiredError
  <2>4. results' \in [Keys -> Met \cup {"ok"}] BY <1>1, <2>1, <2>3 DEF DriverTypes, Met
  <2>5. \A k \in Keys : IF k \in adm.todo THEN results'[k] \in Errors ELSE results'[k] = results[k]
    BY <2>1, <2>3
  <2>6. CallKeys(Call) \subseteq Keys BY <1>1, <1>2, CallIs DEF Places, DriverTypes
  <2>7. \A k \in Keys : ~Carried(k) BY <1>1, <1>2, NoBatchIs DEF Places, Carried
  <2>8. \A k \in CallKeys(Call) : results'[k] # None
    BY <1>1, <1>2, <2>5, <2>6, <2>7, NoneIsNothing DEF Places
  <2> QED BY <1>2, <2>2, <2>4, <2>5, <2>8, EndingKeeps
<1>4. CASE ~expired
  <2>1. adm' = [adm EXCEPT !.pc = "resolve", !.asked = @ \cap {"broker"}] /\ results' = results
    BY <1>4 DEF begin_round
  <2>2. PICK as : as = adm.asked \cap {"broker"} OBVIOUS
  <2>3. as \in SUBSET {"leader", "any", "controller", "broker", "topics"} BY <2>2
  <2>4. adm' = [adm EXCEPT !.pc = "resolve", !.asked = as] BY <2>1, <2>2
  <2>5. adm' \in Drivers /\ adm'.pc = "resolve" /\ adm'.todo = adm.todo
    BY <1>1, <2>3, <2>4 DEF DriverTypes, Drivers
  <2> QED BY <1>2, <2>1, <2>5, PassingKeeps
<1> QED BY <1>3, <1>4

(* A lookup needs a fetch. *)
LEMMA ResolveTrue == ASSUME CInv, resolve_fetches PROVE CInv'
<1>1. DriverTypes BY DEF CInv
<1>2. adm.pc = "resolve" /\ UNCHANGED <<ops, sent, results, applied>> BY DEF resolve_fetches
<1>3. PICK kind \in Needed : adm' = [adm EXCEPT !.pc = "fetching", !.asked = @ \cup {kind}]
  BY DEF resolve_fetches
<1>4. PICK as : as = adm.asked \cup {kind} OBVIOUS
<1>5. kind \in {"leader", "any", "controller", "broker", "topics"} BY DEF Needed
<1>6. as \in SUBSET {"leader", "any", "controller", "broker", "topics"}
  BY <1>1, <1>4, <1>5 DEF DriverTypes, Drivers
<1>7. adm' = [adm EXCEPT !.pc = "fetching", !.asked = as] BY <1>3, <1>4
<1>8. adm' \in Drivers /\ adm'.pc = "fetching" /\ adm'.todo = adm.todo
  BY <1>1, <1>6, <1>7 DEF DriverTypes, Drivers
<1> QED BY <1>2, <1>8, PassingKeeps

(* A listing has its one result. *)
LEMMA ListingTrue ==
    ASSUME CInv, UNCHANGED <<ops, sent, applied>>, IsListing,
           adm.pc \notin {"idle", "sending", "ended"},
           adm' = [adm EXCEPT !.pc = "finished", !.todo = {}],
           NEW word \in Errors \cup {"ok"}, results' = [results EXCEPT ![First] = word]
    PROVE  CInv'
<1>1. DriverTypes /\ Places BY DEF CInv
<1>2. adm' \in Drivers /\ adm'.pc = "finished" /\ adm'.todo = {} BY <1>1 DEF DriverTypes, Drivers
<1>3. First \in Keys BY AdminAssumption DEF Keys
<1>4. results' \in [Keys -> Met \cup {"ok"}] /\ results'[First] = word
  BY <1>1, <1>3 DEF DriverTypes, Met
<1>5. ops # <<>> BY <1>1 DEF Places
<1>6. Call \in CallForms /\ CallKeys(Call) = {First} BY <1>1, <1>5, CallIs DEF DriverTypes
<1>7. PICK c : c = Call OBVIOUS
<1>8. c.target[1] \in Listable /\ c \in CallForms BY <1>6, <1>7 DEF IsListing, Listable
<1>9. c.mode # "Write" BY <1>8 DEF CallForms, Listable, Routable
<1>10. \A k \in CallKeys(Call) : results'[k] # None BY <1>4, <1>6, NoneIsNothing
<1> QED BY <1>2, <1>4, <1>7, <1>9, <1>10, EndingKeeps

(* The fetch has ended. *)
LEMMA FetchedTrue == ASSUME CInv, fetched PROVE CInv'
<1>1. DriverTypes BY DEF CInv
<1>2. adm.pc \in {"fetching", "refreshing"} /\ UNCHANGED <<ops, sent, applied>> BY DEF fetched
<1>3. CASE IsListing
  <2>1. PICK word : word = CASE answer[Me] = "ok" -> "ok" [] answer[Me] = "err" -> "Network"
                             [] OTHER -> "Timeout"
    OBVIOUS
  <2>2. word \in Errors \cup {"ok"} BY <2>1, NoneIsNothing
  <2>3. /\ results' = [results EXCEPT ![First] = word]
        /\ adm' = [adm EXCEPT !.pc = "finished", !.todo = {}]
    BY <1>3, <2>1 DEF fetched
  <2> QED BY <1>2, <1>3, <2>2, <2>3, ListingTrue
<1>4. CASE ~IsListing
  <2>1. PICK pc : pc = IF adm.pc = "fetching" THEN "resolve" ELSE "round" OBVIOUS
  <2>2. adm' = [adm EXCEPT !.pc = pc] /\ results' = results BY <1>4, <2>1 DEF fetched
  <2>3. adm' \in Drivers /\ adm'.pc = pc /\ adm'.todo = adm.todo
    BY <1>1, <2>1, <2>2 DEF DriverTypes, Drivers
  <2> QED BY <1>2, <2>1, <2>2, <2>3, PassingKeeps
<1> QED BY <1>3, <1>4

LEMMA ListedTrue == ASSUME CInv, listed PROVE CInv'
<1>1. PICK word \in Errors \cup {"ok"} : word = "ok" OBVIOUS
<1>2. /\ results' = [results EXCEPT ![First] = word]
      /\ adm' = [adm EXCEPT !.pc = "finished", !.todo = {}]
      /\ adm.pc = "resolve" /\ IsListing /\ UNCHANGED <<ops, sent, applied>>
  BY <1>1 DEF listed
<1> QED BY <1>2, ListingTrue

(* A stale route is refreshed, or the next round begins. *)
LEMMA RefreshTrue == ASSUME CInv, refresh_metadata PROVE CInv'
<1>1. DriverTypes BY DEF CInv
<1>2. adm.pc = "refresh" /\ UNCHANGED <<ops, sent, results, applied>> BY DEF refresh_metadata
<1>3. \/ adm' = [adm EXCEPT !.pc = "refreshing", !.stale = {}, !.stale_controller = FALSE]
      \/ adm' = [adm EXCEPT !.pc = "round"]
  BY DEF refresh_metadata
<1>4. adm' \in Drivers /\ adm'.pc \in {"refreshing", "round"} /\ adm'.todo = adm.todo
  BY <1>1, <1>3 DEF DriverTypes, Drivers
<1> QED BY <1>2, <1>4, PassingKeeps

(* The call returns; the next one starts from nothing. *)
LEMMA FinishedTrue == ASSUME CInv, finished PROVE CInv'
<1>1. DriverTypes /\ Places /\ Came /\ Written BY DEF CInv
<1>2. adm.pc = "finished" /\ sent' = sent BY DEF finished
<1>3. ops # <<>> /\ adm.todo = {} /\ \A b \in Brokers : sent[b] = NoBatch
  BY <1>1, <1>2 DEF Places
<1>4. \A k \in Keys : ~Carried(k) /\ ~Carried(k)' BY <1>2, <1>3, NoBatchIs DEF Carried
<1>5. Came' BY <1>1, <1>2 DEF Came
<1>6. CASE /\ Len(ops) > 1 /\ ops' = Tail(ops) /\ adm' = Begin(ops[2])
           /\ results' = NoRoute /\ applied' = [k \in Keys |-> 0]
  <2>1. ops' \in Seq(CallForms) /\ ops' # <<>> /\ Head(ops') = ops[2]
    <3>1. PICK o \in Seq(CallForms) : o = ops BY <1>1 DEF DriverTypes
    <3>2. PICK t \in Seq(CallForms) : t = Tail(o) BY <1>6, <3>1
    <3>3. Len(t) = Len(o) - 1 /\ t[1] = o[2] BY <1>6, <3>1, <3>2
    <3>4. t # <<>> /\ Head(t) = t[1] BY <1>6, <3>1, <3>3
    <3> QED BY <1>6, <3>1, <3>2, <3>3, <3>4
  <2>2. PICK c : c = ops[2] OBVIOUS
  <2>3. c \in CallForms BY <1>1, <1>6, <2>2 DEF DriverTypes
  <2>4. CallKeys(c) \subseteq Keys BY AdminAssumption DEF CallKeys, Keys
  <2>5. adm' \in Drivers /\ adm'.pc = "round" /\ adm'.todo = CallKeys(c)
    BY <1>6, <2>2, <2>4, BeginIs
  <2>6. results' \in [Keys -> Met \cup {"ok"}] /\ \A k \in Keys : results'[k] = None
    BY <1>6, NoBatchIs
  <2>7. applied' \in [Keys -> Nat] /\ \A k \in Keys : applied'[k] = 0 BY <1>6
  <2>8. DriverTypes' BY <1>1, <1>2, <2>1, <2>5, <2>6, <2>7 DEF DriverTypes
  <2>9. Call' = c BY <2>1, <2>2 DEF Call
  <2>10. Places' BY <1>1, <1>2, <1>3, <1>4, <2>1, <2>4, <2>5, <2>6, <2>9 DEF Places
  <2>11. \A b \in Brokers : sent'[b].keys = {} BY <1>2, <1>3, NoBatchIs
  <2>12. \A k \in Keys : Says(results'[k], applied'[k]) BY <2>6, <2>7, NoneIsNothing DEF Says, Definite
  <2>13. Written' BY <2>6, <2>7, <2>11, <2>12 DEF Written
  <2> QED BY <1>5, <2>8, <2>10, <2>13 DEF CInv
<1>7. CASE adm' = [adm EXCEPT !.pc = "ended"] /\ UNCHANGED <<ops, results, applied>>
  <2>1. adm' \in Drivers /\ adm'.pc = "ended" /\ adm'.todo = {}
    BY <1>1, <1>3, <1>7 DEF DriverTypes, Drivers
  <2>2. DriverTypes' BY <1>1, <1>2, <1>7, <2>1 DEF DriverTypes
  <2>3. Places' BY <1>1, <1>2, <1>4, <1>7, <2>1, <1>3 DEF Places
  <2>4. Written' BY <1>1, <1>2, <1>7 DEF Written, Carried, Call
  <2> QED BY <1>5, <2>2, <2>3, <2>4 DEF CInv
<1> QED BY <1>6, <1>7 DEF finished

LEMMA DeadlineTrue == ASSUME CInv, deadline_passes PROVE CInv'
<1>1. UNCHANGED <<ops, adm, sent, results, applied>> BY DEF deadline_passes
<1> QED BY <1>1 DEF CInv, DriverTypes, Places, Came, Written, Carried, Call

-----------------------------------------------------------------------------
(* The batches of a round. *)

(* One batch moves on. *)
LEMMA BatchTrue ==
    ASSUME CInv, NEW b \in Brokers, UNCHANGED <<ops, adm, results>>,
           NEW q \in Batches, sent' = [sent EXCEPT ![b] = q],
           q.keys = sent[b].keys, sent[b].st # None, q.st # None,
           q.st \in {"NotSent", "Unanswered"} => q.error \in BatchErrors,
           q.st \in {"replied", "Answered"} => \A k \in q.keys : q.reply[k] # None,
           applied' \in [Keys -> Nat],
           \A k \in Keys : k \notin q.keys => applied'[k] = applied[k],
           ops # <<>> /\ Call.mode = "Write" =>
             \A k \in q.keys :
               /\ applied'[k] <= 1
               /\ q.st \in Unhandled => applied'[k] = 0
               /\ q.st \in {"replied", "Answered"} => Says(q.reply[k], applied'[k])
    PROVE  CInv'
<1>1. DriverTypes /\ Places /\ Came /\ Written BY DEF CInv
<1>2. sent' \in [Brokers -> Batches] /\ sent'[b] = q /\ \A c \in Brokers : c # b => sent'[c] = sent[c]
  BY <1>1 DEF DriverTypes
<1>3. DriverTypes' BY <1>1, <1>2 DEF DriverTypes
<1>4. adm.pc = "sending" BY <1>1, NoBatchIs DEF Places
<1>5. \A c \in Brokers : sent'[c].keys = sent[c].keys BY <1>2
<1>6. \A k \in Keys : Carried(k)' <=> Carried(k) BY <1>5 DEF Carried
<1>7. Call' = Call BY DEF Call
<1>8. Places'
  <2>1. \A k \in adm.todo : ~Carried(k)'
    BY <1>1, <1>6 DEF Places, DriverTypes, Drivers
  <2>2. ASSUME NEW c \in Brokers, NEW d \in Brokers, c # d
        PROVE  sent'[c].keys \cap sent'[d].keys = {}
    BY <1>1, <1>5, <2>2 DEF Places
  <2>3. \A k \in CallKeys(Call) : k \in adm.todo \/ Carried(k)' \/ results[k] # None
    <3>1. ops # <<>> BY <1>1, <1>4 DEF Places
    <3>2. CallKeys(Call) \subseteq Keys BY <1>1, <3>1, CallIs DEF DriverTypes
    <3> QED BY <1>1, <1>4, <1>6, <3>2 DEF Places
  <2> QED BY <1>1, <1>4, <1>6, <1>7, <2>1, <2>2, <2>3 DEF Places
<1>9. Came' BY <1>1, <1>2 DEF Came
<1>10. ASSUME ops # <<>> /\ Call.mode = "Write" PROVE Written'
  <2>1. ASSUME NEW k \in Keys
        PROVE  /\ applied'[k] <= 1 /\ Says(results[k], applied'[k])
               /\ results[k] = None /\ ~Carried(k) => applied'[k] = 0
    <3>1. CASE k \notin q.keys BY <1>1, <1>10, <3>1 DEF Written
    <3>2. CASE k \in q.keys
      <4>1. Carried(k) BY <3>2 DEF Carried
      <4>2. results[k] = None BY <1>1, <4>1 DEF Places
      <4> QED BY <1>10, <3>2, <4>1, <4>2, NoneIsNothing DEF Says, Definite
    <3> QED BY <3>1, <3>2
  <2>2. ASSUME NEW k \in Keys, NEW c \in Brokers, k \in sent'[c].keys
        PROVE  /\ sent'[c].st \in Unhandled => applied'[k] = 0
               /\ sent'[c].st \in {"replied", "Answered"} => Says(sent'[c].reply[k], applied'[k])
    <3>1. CASE c = b BY <1>2, <1>10, <2>2, <3>1
    <3>2. CASE c # b
      <4>1. sent'[c] = sent[c] /\ k \in sent[c].keys BY <1>2, <2>2, <3>2
      <4>2. k \notin q.keys BY <1>1, <3>2, <4>1 DEF Places
      <4> QED BY <1>1, <1>10, <4>1, <4>2 DEF Written
    <3> QED BY <3>1, <3>2
  <2> QED BY <1>6, <2>1, <2>2 DEF Written
<1>11. ASSUME ~(ops # <<>> /\ Call.mode = "Write") PROVE Written' BY <1>7, <1>11 DEF Written
<1> QED BY <1>3, <1>8, <1>9, <1>10, <1>11 DEF CInv

(* It is written, fails, or is answered: nothing is carried out. *)
LEMMA OwnBatchTrue ==
    ASSUME CInv, NEW b \in Brokers, UNCHANGED <<ops, adm, results, applied>>,
           NEW st \in {"sent", "NotSent", "Unanswered", "Answered"},
           NEW e \in {None} \cup BatchErrors, Batch(b, st, e),
           sent[b].st \in {"connecting", "sent", "replied"},
           st \in {"NotSent", "Unanswered"} => e # None,
           st \in {"sent", "NotSent"} => sent[b].st = "connecting",
           st = "Answered" => sent[b].st = "replied"
    PROVE  CInv'
<1>1. DriverTypes /\ Came /\ Written BY DEF CInv
<1>2. PICK p \in Batches : p = sent[b] BY <1>1 DEF DriverTypes
<1>3. PICK q : q = [p EXCEPT !.st = st, !.error = e] OBVIOUS
<1>4. e \in Met BY NoneIsNothing DEF Met, BatchErrors
<1>5. /\ q \in Batches /\ q.st = st /\ q.error = e /\ q.keys = p.keys /\ q.reply = p.reply
  BY <1>2, <1>3, <1>4 DEF Batches
<1>6. sent' = [sent EXCEPT ![b] = q]
  <2>1. sent' = [sent EXCEPT ![b].st = st, ![b].error = e] BY DEF Batch
  <2>2. sent \in [Brokers -> Batches] BY <1>1 DEF DriverTypes
  <2> QED BY <1>2, <1>3, <2>1, <2>2
<1>7. None \notin {"connecting", "sent", "replied", "NotSent", "Unanswered", "Answered"} BY DEF None
<1>8. q.st \in {"replied", "Answered"} => \A k \in q.keys : q.reply[k] # None
  BY <1>1, <1>2, <1>5 DEF Came
<1>9. ASSUME ops # <<>>, Call.mode = "Write", NEW k \in q.keys
      PROVE  /\ applied[k] <= 1
             /\ q.st \in Unhandled => applied[k] = 0
             /\ q.st \in {"replied", "Answered"} => Says(q.reply[k], applied[k])
  <2>1. k \in Keys BY <1>5, <1>9 DEF Batches
  <2>2. /\ applied[k] <= 1
        /\ p.st \in Unhandled => applied[k] = 0
        /\ p.st \in {"replied", "Answered"} => Says(p.reply[k], applied[k])
    BY <1>1, <1>2, <1>5, <1>9, <2>1 DEF Written
  <2> QED BY <2>2, <1>2, <1>5 DEF Unhandled
<1>10. applied' \in [Keys -> Nat] BY <1>1 DEF DriverTypes
<1>11. sent[b].st # None /\ q.st # None BY <1>5, <1>7
<1> QED BY <1>2, <1>5, <1>6, <1>8, <1>9, <1>10, <1>11, BatchTrue

LEMMA ConnectsTrue == ASSUME CInv, NEW b \in Brokers, batch_connects(b) PROVE CInv'
<1>1. sent[b].st = "connecting" /\ UNCHANGED <<ops, adm, results, applied>>
  BY DEF batch_connects, BatchRest
<1>2. PICK st \in {"sent", "NotSent", "Unanswered", "Answered"},
           e \in {None} \cup BatchErrors :
        Batch(b, st, e) /\ (st = "sent" \/ (st = "NotSent" /\ e # None))
  <2>1. None \notin BatchErrors BY DEF None, BatchErrors
  <2>2. CASE Batch(b, "sent", None) BY <2>2, Zenon
  <2>3. CASE \E e \in {"Network", "Auth"} : Batch(b, "NotSent", e)
    <3>1. PICK e \in {"Network", "Auth"} : Batch(b, "NotSent", e) BY <2>3
    <3>2. e \in BatchErrors BY <3>1 DEF BatchErrors
    <3> QED BY <2>1, <3>1, <3>2, Zenon
  <2>4. CASE Batch(b, "NotSent", "Timeout")
    <3>1. "Timeout" \in BatchErrors BY DEF BatchErrors
    <3> QED BY <2>1, <2>4, <3>1, Zenon
  <2> QED BY <2>2, <2>3, <2>4 DEF batch_connects
<1> QED BY <1>1, <1>2, OwnBatchTrue

LEMMA BatchEndsTrue == ASSUME CInv, NEW b \in Brokers, batch_ends(b) PROVE CInv'
<1>1. sent[b].st \in {"sent", "replied"} /\ UNCHANGED <<ops, adm, results, applied>>
  BY DEF batch_ends, BatchRest
<1>2. PICK st \in {"sent", "NotSent", "Unanswered", "Answered"},
           e \in {None} \cup BatchErrors :
        /\ Batch(b, st, e)
        /\ (st = "Answered" /\ sent[b].st = "replied") \/ (st = "Unanswered" /\ e # None)
  <2>1. None \notin BatchErrors BY DEF None, BatchErrors
  <2>2. CASE sent[b].st = "replied" /\ Batch(b, "Answered", None) BY <2>2, Zenon
  <2>3. CASE \E e \in {"Network", BatchError(b)} : Batch(b, "Unanswered", e)
    <3>1. PICK e \in {"Network", BatchError(b)} : Batch(b, "Unanswered", e) BY <2>3
    <3>2. e \in BatchErrors BY <3>1 DEF BatchError, BatchErrors
    <3> QED BY <2>1, <3>1, <3>2, Zenon
  <2>4. CASE Batch(b, "Unanswered", "Timeout")
    <3>1. "Timeout" \in BatchErrors BY DEF BatchErrors
    <3> QED BY <2>1, <2>4, <3>1, Zenon
  <2> QED BY <2>2, <2>3, <2>4 DEF batch_ends
<1> QED BY <1>1, <1>2, OwnBatchTrue

(* A broker carries out the keys it is the node for, and says so. *)
LEMMA HandlesTrue == ASSUME CInv, NEW b \in Brokers, broker_handles(b) PROVE CInv'
<1>1. DriverTypes /\ Came /\ Written BY DEF CInv
<1>2. sent[b].st = "sent" /\ UNCHANGED <<ops, adm, results>> BY DEF broker_handles, BatchRest
<1>3. PICK p \in Batches : p = sent[b] BY <1>1 DEF DriverTypes
<1> DEFINE right == {k \in sent[b].keys : IsRight(b, k)}
           plain == [k \in Keys |-> IF k \in right THEN "ok"
                                    ELSE IF k \in sent[b].keys THEN WrongNode(k) ELSE None]
<1>6. PICK k \in {None} \cup right,
           how \in {"ThrottlingQuotaExceeded", "Refused", "RequestTimedOut", "missing"},
           done \in BOOLEAN :
         /\ done => k # None /\ how \in {"RequestTimedOut", "missing"}
         /\ sent' = [sent EXCEPT ![b].st = "replied",
                        ![b].reply = IF k = None THEN plain ELSE [plain EXCEPT ![k] = how]]
         /\ applied' = [j \in Keys |-> IF j \in right /\ (j # k \/ done) THEN applied[j] + 1
                                       ELSE applied[j]]
  <2>1. \E k \in {None} \cup right,
             how \in {"ThrottlingQuotaExceeded", "Refused", "RequestTimedOut", "missing"},
             done \in BOOLEAN :
            /\ done => k # None /\ how \in {"RequestTimedOut", "missing"}
            /\ IF k = None THEN how = "Refused" /\ UNCHANGED left ELSE Spend("faults")
            /\ sent' = [sent EXCEPT ![b].st = "replied",
                           ![b].reply = IF k = None THEN plain ELSE [plain EXCEPT ![k] = how]]
            /\ applied' = [j \in Keys |-> IF j \in right /\ (j # k \/ done) THEN applied[j] + 1
                                          ELSE applied[j]]
    BY Zenon DEF broker_handles
  <2> QED BY <2>1, Zenon
<1>4. right \subseteq p.keys BY <1>3
<1>5. plain = [j \in Keys |-> IF j \in right THEN "ok"
                              ELSE IF j \in p.keys THEN WrongNode(j) ELSE None]
  BY <1>3
<1> HIDE DEF right, plain
<1>7. None \notin Keys BY MetadataAssumption DEF Keys
<1>8. p.keys \subseteq Keys /\ right \subseteq p.keys BY <1>3, <1>4 DEF Batches
<1>9. \A j \in Keys : WrongNode(j) \in Definite
  BY DEF WrongNode, Definite, BrokerCodes, retriable_read, not_applied
<1>10. PICK r : r = IF k = None THEN plain ELSE [plain EXCEPT ![k] = how] OBVIOUS
<1>11. /\ r \in [Keys -> Met \cup {"ok", "missing"}]
       /\ \A j \in p.keys : r[j] = IF j = k THEN how ELSE IF j \in right THEN "ok" ELSE WrongNode(j)
  <2>1. plain \in [Keys -> Met \cup {"ok", "missing"}]
    BY <1>5, <1>9, NoneIsNothing DEF Met, Definite
  <2>2. how \in Met \cup {"ok", "missing"}
    BY DEF Met, Errors, BrokerCodes, retriable_read, not_applied
  <2>3. CASE k = None BY <1>5, <1>7, <1>8, <1>10, <2>1, <2>3
  <2>4. CASE k # None
    <3>1. k \in Keys BY <1>8, <2>4
    <3> QED BY <1>5, <1>8, <1>10, <2>1, <2>2, <2>4, <3>1
  <2> QED BY <2>3, <2>4
<1>12. PICK q : q = [p EXCEPT !.st = "replied", !.reply = r] OBVIOUS
<1>13. q \in Batches /\ q.st = "replied" /\ q.keys = p.keys /\ q.reply = r
  BY <1>3, <1>11, <1>12 DEF Batches
<1>14. sent' = [sent EXCEPT ![b] = q]
  <2>1. sent' = [sent EXCEPT ![b].st = "replied", ![b].reply = r] BY <1>6, <1>10
  <2>2. sent \in [Brokers -> Batches] BY <1>1 DEF DriverTypes
  <2> QED BY <1>3, <1>12, <2>1, <2>2
<1>15. /\ applied' \in [Keys -> Nat]
       /\ \A j \in Keys : applied'[j] = IF j \in right /\ (j # k \/ done) THEN applied[j] + 1
                                        ELSE applied[j]
  <2>1. applied \in [Keys -> Nat] BY <1>1 DEF DriverTypes
  <2> QED BY <1>6, <2>1
<1>16. ASSUME NEW j \in q.keys PROVE q.reply[j] # None
  <2>1. j \in Keys /\ j \in p.keys BY <1>8, <1>13
  <2>2. WrongNode(j) # None BY <1>9, <2>1, NoneIsNothing DEF Definite
  <2>3. how # None BY DEF None
  <2> QED BY <1>11, <1>13, <2>1, <2>2, <2>3, NoneIsNothing
<1>17. ASSUME ops # <<>>, Call.mode = "Write", NEW j \in q.keys
       PROVE  applied'[j] <= 1 /\ Says(q.reply[j], applied'[j])
  <2>1. j \in Keys /\ j \in p.keys BY <1>8, <1>13, <1>17
  <2>2. applied[j] = 0 BY <1>1, <1>2, <1>3, <1>17, <2>1 DEF Written, Unhandled
  <2>3. q.reply[j] = IF j = k THEN how ELSE IF j \in right THEN "ok" ELSE WrongNode(j)
    BY <1>11, <1>13, <2>1
  <2>4. CASE j = k
    <3>1. done => how \notin Definite
      BY <1>6, NoneIsNothing DEF Definite
    <3>2. how # "ok" OBVIOUS
    <3> QED BY <1>15, <2>1, <2>2, <2>3, <2>4, <3>1, <3>2 DEF Says
  <2>5. CASE j # k /\ j \in right
    BY <1>15, <2>1, <2>2, <2>3, <2>5, NoneIsNothing DEF Says, Definite
  <2>6. CASE j # k /\ j \notin right
    <3>1. WrongNode(j) \in Definite /\ WrongNode(j) # "ok"
      BY <1>9, <2>1, NoneIsNothing DEF Definite
    <3> QED BY <1>15, <2>1, <2>2, <2>3, <2>6, <3>1 DEF Says
  <2> QED BY <2>4, <2>5, <2>6
<1>18. \A j \in Keys : j \notin q.keys => applied'[j] = applied[j] BY <1>8, <1>13, <1>15
<1>19. sent[b].st # None /\ q.st # None BY <1>2, <1>13 DEF None
<1>20. "replied" \notin Unhandled BY DEF Unhandled
<1> QED BY <1>2, <1>3, <1>13, <1>14, <1>15, <1>16, <1>17, <1>18, <1>19, <1>20, BatchTrue

(* A noted failure leaves the keys and what they met alone. *)
LEMMA NoteIs ==
    ASSUME NEW a \in Drivers, NEW ks \in SUBSET Keys, NEW e
    PROVE  /\ note_failure(a, ks, e) \in Drivers
           /\ note_failure(a, ks, e).pc = a.pc /\ note_failure(a, ks, e).todo = a.todo
           /\ note_failure(a, ks, e).last = a.last
<1> DEFINE stale(k, codes) == e[k] \notin BrokerCodes \/ e[k] \in codes
           gone == UNION {Group(k) : k \in {j \in ks : Target(j) = "Coordinator"
                                                   /\ stale(j, stale_coordinator)}}
<1>1. PICK st : st = a.stale \cup {k \in ks : Target(k) = "Leader" /\ stale(k, stale_routing)}
  OBVIOUS
<1>2. PICK co : co = [k \in Keys |-> IF k \in gone THEN None ELSE a.coordinators[k]] OBVIOUS
<1>3. PICK sc : sc = (a.stale_controller \/ \E k \in ks : Target(k) = "Controller"
                                                /\ stale(k, stale_routing))
  OBVIOUS
<1>4. note_failure(a, ks, e) = [a EXCEPT !.coordinators = co, !.stale_controller = sc,
                                         !.stale = st]
  BY <1>1, <1>2, <1>3, Zenon DEF note_failure
<1>5. a.coordinators \in [Keys -> Nodes] /\ a.stale \subseteq Keys /\ a.stale_controller \in BOOLEAN
  BY DEF Drivers
<1>6. st \in SUBSET Keys BY <1>1, <1>5
<1>7. co \in [Keys -> Nodes]
  <2> HIDE DEF gone
  <2> QED BY <1>2, <1>5 DEF Nodes
<1>8. sc \in BOOLEAN BY <1>3, <1>5, Zenon
<1>9. PICK n : n = [a EXCEPT !.coordinators = co, !.stale_controller = sc, !.stale = st] OBVIOUS
<1>10. n \in Drivers /\ n.pc = a.pc /\ n.todo = a.todo /\ n.last = a.last
  BY <1>6, <1>7, <1>8, <1>9 DEF Drivers
<1> QED BY <1>4, <1>9, <1>10

(* The round's keys go to their nodes, wait, or end with the error of      *)
(* their lookup.                                                           *)
LEMMA RoundPlaces ==
    ASSUME CInv, UNCHANGED <<ops, applied>>, adm.pc = "resolve",
           NEW node \in [Keys -> Nodes], NEW e \in [Keys -> Met],
           NEW out \in SUBSET adm.todo, \A k \in adm.todo : k \in out <=> node[k] = None,
           \A k \in out : e[k] \in Errors,
           NEW ended \in SUBSET out,
           adm' \in Drivers, adm'.pc = "sending", adm'.todo = out \ ended,
           results' = [k \in Keys |-> IF k \in ended THEN e[k] ELSE results[k]],
           sent' = [b \in Brokers |->
               LET js == {k \in adm.todo : node[k] = b}
               IN IF js = {} THEN NoBatch ELSE [NoBatch EXCEPT !.st = "connecting", !.keys = js]]
    PROVE  CInv'
<1>1. DriverTypes /\ Places /\ Came /\ Written BY DEF CInv
<1>2. None \notin Brokers BY MetadataAssumption
<1>3. adm.todo \subseteq Keys BY <1>1 DEF DriverTypes, Drivers
<1>4. \A k \in Keys : ~Carried(k) BY <1>1, NoBatchIs DEF Places, Carried
<1>5. results' \in [Keys -> Met \cup {"ok"}]
      /\ \A k \in Keys : results'[k] = IF k \in ended THEN e[k] ELSE results[k]
  BY <1>1 DEF DriverTypes
<1>6. ASSUME NEW b \in Brokers
      PROVE  /\ sent'[b] \in Batches /\ sent'[b].keys = {k \in adm.todo : node[k] = b}
             /\ sent'[b].st \in {None, "connecting"}
             /\ sent'[b].st = None => sent'[b].keys = {}
  <2>1. PICK js : js = {k \in adm.todo : node[k] = b} OBVIOUS
  <2>2. js \in SUBSET Keys BY <1>3, <2>1
  <2>3. sent'[b] = IF js = {} THEN NoBatch ELSE [NoBatch EXCEPT !.st = "connecting", !.keys = js]
    BY <2>1
  <2>4. PICK q : q = [NoBatch EXCEPT !.st = "connecting", !.keys = js] OBVIOUS
  <2>5. q \in Batches /\ q.st = "connecting" /\ q.keys = js
    BY <2>2, <2>4, NoBatchIs DEF Batches
  <2>6. None # "connecting" BY DEF None
  <2>7. CASE js = {} BY <2>1, <2>3, <2>7, NoBatchIs
  <2>8. CASE js # {} BY <2>1, <2>3, <2>4, <2>5, <2>6, <2>8
  <2> QED BY <2>7, <2>8
<1>7. /\ sent' \in [Brokers -> Batches]
      /\ \A b \in Brokers : sent'[b].st \in {None, "connecting"}
      /\ \A b \in Brokers, k \in Keys : k \in sent'[b].keys => k \in adm.todo /\ node[k] = b
      /\ \A b \in Brokers, k \in adm.todo : node[k] = b => k \in sent'[b].keys
      /\ \A b \in Brokers : sent'[b].keys \subseteq Keys
  <2>1. \A b \in Brokers : sent'[b].keys = {k \in adm.todo : node[k] = b} BY <1>6
  <2>2. sent' \in [Brokers -> Batches] BY <1>6
  <2>3. \A b \in Brokers : sent'[b].st \in {None, "connecting"} BY <1>6
  <2>4. ASSUME NEW b \in Brokers, NEW k \in sent'[b].keys PROVE k \in adm.todo /\ node[k] = b
    <3>1. k \in {j \in adm.todo : node[j] = b} BY <2>1
    <3> QED BY <3>1, Zenon
  <2>5. ASSUME NEW b \in Brokers, NEW k \in adm.todo, node[k] = b PROVE k \in sent'[b].keys
    BY <2>1, <2>5, Zenon
  <2> QED BY <1>3, <2>2, <2>3, <2>4, <2>5, Zenon
<1>8. DriverTypes' BY <1>1, <1>5, <1>7 DEF DriverTypes
<1>9. \A k \in Keys : Carried(k)' <=> k \in adm.todo /\ k \notin out
  <2>1. ASSUME NEW k \in Keys, Carried(k)' PROVE k \in adm.todo /\ k \notin out
    <3>1. PICK b \in Brokers : k \in sent'[b].keys BY <2>1 DEF Carried
    <3>2. k \in adm.todo /\ node[k] = b BY <1>7, <3>1
    <3> QED BY <1>2, <3>2
  <2>2. ASSUME NEW k \in adm.todo, k \notin out PROVE Carried(k)'
    <3>1. node[k] \in Brokers BY <1>3, <2>2 DEF Nodes
    <3>2. k \in sent'[node[k]].keys BY <1>7, <3>1
    <3> QED BY <3>1, <3>2 DEF Carried
  <2> QED BY <2>1, <2>2
<1>10. \A k \in adm.todo : results[k] = None BY <1>1 DEF Places
<1>11. ops # <<>> /\ CallKeys(Call) \subseteq Keys BY <1>1, CallIs DEF Places, DriverTypes
<1>12. Call' = Call BY DEF Call
<1>13. Places'
  <2>1. \A k \in adm'.todo : results'[k] = None /\ ~Carried(k)' BY <1>3, <1>5, <1>9, <1>10
  <2>2. \A k \in Keys : Carried(k)' => results'[k] = None BY <1>5, <1>9, <1>10
  <2>3. \A b, c \in Brokers : b # c => sent'[b].keys \cap sent'[c].keys = {}
    <3>1. ASSUME NEW b \in Brokers, NEW c \in Brokers, NEW k \in sent'[b].keys \cap sent'[c].keys
          PROVE  b = c
      <4>1. k \in Keys BY <1>7
      <4>2. node[k] = b /\ node[k] = c BY <1>7, <4>1, Zenon
      <4> QED BY <4>2
    <3> QED BY <3>1
  <2>4. \A k \in CallKeys(Call) : k \in adm'.todo \/ Carried(k)' \/ results'[k] # None
    <3>1. ASSUME NEW k \in CallKeys(Call)
          PROVE  k \in adm'.todo \/ Carried(k)' \/ results'[k] # None
      <4>1. k \in Keys /\ (k \in adm.todo \/ results[k] # None)
        BY <1>1, <1>4, <1>11 DEF Places
      <4>2. CASE k \in ended BY <1>5, <4>1, <4>2, NoneIsNothing
      <4>3. CASE k \notin ended BY <1>5, <1>9, <4>1, <4>3
      <4> QED BY <4>2, <4>3
    <3> QED BY <3>1
  <2> QED BY <1>11, <1>12, <2>1, <2>2, <2>3, <2>4 DEF Places
<1>14. Came' BY <1>6, NoneIsNothing DEF Came, None
<1>15. ASSUME Call.mode = "Write" PROVE Written'
  <2>1. ASSUME NEW k \in Keys
        PROVE  /\ applied[k] <= 1 /\ Says(results'[k], applied[k])
               /\ k \in adm.todo \/ results'[k] = None => applied[k] = 0
    <3>1. /\ applied[k] <= 1 /\ Says(results[k], applied[k])
          /\ results[k] = None => applied[k] = 0
      BY <1>1, <1>4, <1>11, <1>15 DEF Written
    <3>2. CASE k \in ended
      <4>1. applied[k] = 0 /\ results'[k] \in Errors BY <1>5, <1>10, <3>1, <3>2
      <4>2. results'[k] # "ok" BY <4>1, NoneIsNothing
      <4>3. Says(results'[k], applied[k]) BY <4>1, <4>2 DEF Says
      <4> QED BY <3>1, <4>1, <4>3
    <3>3. CASE k \notin ended BY <1>5, <1>10, <3>1, <3>3
    <3> QED BY <3>2, <3>3
  <2>2. ASSUME NEW k \in Keys, NEW b \in Brokers, k \in sent'[b].keys
        PROVE  applied[k] = 0 /\ sent'[b].st \notin {"replied", "Answered"}
    <3>1. k \in adm.todo /\ sent'[b].st \in {None, "connecting"} BY <1>7, <2>2
    <3>2. None \notin {"replied", "Answered"} BY DEF None
    <3> QED BY <2>1, <3>1, <3>2
  <2> QED BY <2>1, <2>2 DEF Written
<1>16. ASSUME Call.mode # "Write" PROVE Written' BY <1>12, <1>16 DEF Written
<1> QED BY <1>8, <1>13, <1>14, <1>15, <1>16 DEF CInv

(* Call::resolve gives every key a node of the cluster or an error. *)
LEMMA ResolvedTrue == ASSUME IInv, CInv, resolved PROVE CInv'
<1>1. DriverTypes /\ Places BY DEF CInv
<1>2. /\ UNCHANGED <<versions, cache, ops, expired, applied>>
      /\ adm.pc = "resolve" /\ ~IsListing
  BY DEF resolved
<1>3. PICK any \in (IF cache.brokers = {} THEN {None} ELSE any_broker),
           v \in DOMAIN versions, fault \in {None} \cup LookupFaults :
       LET lost == fault # None /\ Missing # {}
           lookup_failed == IF any = None THEN Missing
                            ELSE IF lost THEN Group(CHOOSE k \in Missing : TRUE) \cap Missing
                            ELSE {}
           error == IF any = None THEN "Unavailable" ELSE IF expired THEN "Timeout" ELSE fault
           coordinators == [k \in Keys |->
               IF k \in Missing \ lookup_failed THEN versions[v].coordinator
               ELSE adm.coordinators[k]]
           node == [k \in Keys |-> IF k \in adm.todo THEN NodeOf(k, coordinators, any) ELSE None]
           out == {k \in adm.todo : node[k] = None}
           e == [k \in Keys |-> IF k \in out THEN LookupError(k, error) ELSE adm.last[k]]
           ended == {k \in out : LookupFails(e[k])}
           a == [adm EXCEPT !.coordinators = coordinators,
                            !.failed = IF error = "Network" /\ lookup_failed # {}
                                       THEN @ \cup {any} ELSE @]
       IN /\ IF lost /\ ~expired THEN Spend("faults") ELSE UNCHANGED left
          /\ adm' = [note_failure(a, out \ ended, e) EXCEPT
                       !.pc = "sending", !.todo = out \ ended, !.last = e]
          /\ results' = [k \in Keys |-> IF k \in ended THEN e[k] ELSE results[k]]
          /\ sent' = [b \in Brokers |->
               LET ks == {k \in adm.todo : node[k] = b}
               IN IF ks = {} THEN NoBatch
                  ELSE [NoBatch EXCEPT !.st = "connecting", !.keys = ks]]
  BY Zenon DEF resolved
<1> DEFINE lost == fault # None /\ Missing # {}
           lookup_failed == IF any = None THEN Missing
                            ELSE IF lost THEN Group(CHOOSE k \in Missing : TRUE) \cap Missing
                            ELSE {}
           error == IF any = None THEN "Unavailable" ELSE IF expired THEN "Timeout" ELSE fault
           co == [k \in Keys |->
               IF k \in Missing \ lookup_failed THEN versions[v].coordinator
               ELSE adm.coordinators[k]]
           node == [k \in Keys |-> IF k \in adm.todo THEN NodeOf(k, co, any) ELSE None]
           out == {k \in adm.todo : node[k] = None}
           e == [k \in Keys |-> IF k \in out THEN LookupError(k, error) ELSE adm.last[k]]
           ended == {k \in out : LookupFails(e[k])}
           fa == IF error = "Network" /\ lookup_failed # {}
                 THEN adm.failed \cup {any} ELSE adm.failed
           ks == out \ ended
<1>4. /\ adm' = [note_failure([adm EXCEPT !.coordinators = co, !.failed = fa], ks, e)
                     EXCEPT !.pc = "sending", !.todo = ks, !.last = e]
      /\ results' = [k \in Keys |-> IF k \in ended THEN e[k] ELSE results[k]]
      /\ sent' = [b \in Brokers |->
             LET js == {k \in adm.todo : node[k] = b}
             IN IF js = {} THEN NoBatch ELSE [NoBatch EXCEPT !.st = "connecting", !.keys = js]]
  BY <1>3, Zenon
<1>5. /\ cache.brokers \subseteq Brokers /\ cache.controller \in Nodes
      /\ versions[v].coordinator \in Brokers
  <2>1. versions \in Seq(ClusterState) /\ cache \in Snapshots BY DEF IInv, Types
  <2>2. versions[v] \in ClusterState BY <2>1
  <2> QED BY <2>1, <2>2 DEF ClusterState, Snapshots
<1>6. None \notin Brokers BY MetadataAssumption
<1>7. any \in Nodes /\ (any # None => any \in Brokers) BY <1>5 DEF any_broker, Nodes
<1>8. /\ adm.todo \subseteq Keys /\ adm.coordinators \in [Keys -> Nodes]
      /\ adm.failed \subseteq Brokers /\ adm.last \in [Keys -> Met]
  BY <1>1 DEF DriverTypes, Drivers
<1>9. \A k \in Keys : Target(k) \in Routable BY <1>1, <1>2, CallIs DEF Places, DriverTypes
<1>10. error = "Network" => any # None OBVIOUS
<1>11. lookup_failed # {} => error \in Errors
  <2>1. LookupFaults \subseteq Errors
    BY DEF LookupFaults, Errors, BrokerCodes, retriable_read, not_applied
  <2> QED BY <2>1, NoneIsNothing
<1>12. \A k \in Keys : co[k] = IF k \in Missing \ lookup_failed THEN versions[v].coordinator
                                ELSE adm.coordinators[k]
  OBVIOUS
<1>13. co \in [Keys -> Nodes] BY <1>5, <1>8 DEF Nodes
<1>14. fa \in SUBSET Brokers BY <1>7, <1>8, <1>10
<1> HIDE DEF lost, lookup_failed, error, co, fa
<1>15. ASSUME NEW k \in Keys PROVE NodeOf(k, co, any) \in Nodes
  <2>1. LeaderNode(k) \in Nodes /\ Controller \in Nodes
    BY <1>5 DEF LeaderNode, Controller, Nodes
  <2>2. co[k] \in Nodes BY <1>13
  <2>3. (IF Home[k] \in cache.brokers THEN Home[k] ELSE None) \in Nodes BY <1>5 DEF Nodes
  <2> QED BY <1>7, <1>9, <2>1, <2>2, <2>3 DEF NodeOf, Routable
<1>16. node \in [Keys -> Nodes] BY <1>15 DEF Nodes
<1>17. ASSUME NEW k \in out PROVE LookupError(k, error) \in Errors
  <2>1. k \in adm.todo /\ k \in Keys /\ NodeOf(k, co, any) = None BY <1>8
  <2>2. {"Unavailable", "NotController", "BrokerNotAvailable", "UnknownTopicOrPartition",
         "LeaderNotAvailable"} \subseteq Errors
    BY DEF Errors, BrokerCodes, retriable_read, not_applied
  <2>3. CASE Target(k) = "Coordinator"
    <3>1. co[k] = None BY <2>1, <2>3 DEF NodeOf
    <3>2. k \in lookup_failed
      <4>1. k \in Missing \ lookup_failed => co[k] \in Brokers BY <1>5, <1>12, <2>1
      <4>2. k \notin Missing => adm.coordinators[k] # None
        BY <2>1, <2>3 DEF Missing, Targets
      <4>3. k \notin Missing => co[k] = adm.coordinators[k] BY <1>12, <2>1
      <4> QED BY <1>6, <3>1, <4>1, <4>2, <4>3
    <3>3. error \in Errors BY <1>11, <3>2
    <3> QED BY <2>3, <3>3 DEF LookupError
  <2>4. CASE Target(k) # "Coordinator"
    BY <1>9, <2>1, <2>2, <2>4 DEF LookupError, Routable
  <2> QED BY <2>3, <2>4
<1>18. out \subseteq adm.todo /\ ended \subseteq out /\ ks = out \ ended OBVIOUS
<1>19. \A k \in adm.todo : k \in out <=> node[k] = None OBVIOUS
<1> HIDE DEF out
<1>20. \A k \in Keys : e[k] = IF k \in out THEN LookupError(k, error) ELSE adm.last[k] OBVIOUS
<1>21. e \in [Keys -> Met] BY <1>8, <1>17 DEF Met
<1>22. \A k \in out : e[k] \in Errors BY <1>8, <1>17, <1>18, <1>20
<1> HIDE DEF node, e, ended, ks
<1>23. PICK a : a = [adm EXCEPT !.coordinators = co, !.failed = fa] OBVIOUS
<1>24. a \in Drivers BY <1>1, <1>13, <1>14, <1>23 DEF DriverTypes, Drivers
<1>25. ks \in SUBSET Keys BY <1>8, <1>18
<1>26. PICK n \in Drivers : n = note_failure(a, ks, e) BY <1>24, <1>25, NoteIs
<1>27. adm' = [n EXCEPT !.pc = "sending", !.todo = ks, !.last = e] BY <1>4, <1>23, <1>26
<1>28. adm' \in Drivers /\ adm'.pc = "sending" /\ adm'.todo = out \ ended
  BY <1>18, <1>21, <1>25, <1>27 DEF Drivers
<1>29. out \in SUBSET adm.todo /\ ended \in SUBSET out BY <1>18
<1> QED BY <1>2, <1>4, <1>16, <1>19, <1>21, <1>22, <1>28, <1>29, RoundPlaces, Zenon

(* A round ends: a key that is tried again was not carried out, and what   *)
(* the others are told is what became of them (Call::fan_out).             *)
LEMMA KeyIs ==
    ASSUME CInv, NEW b \in Brokers, NEW k \in sent[b].keys,
           sent[b].st \in {None, "NotSent", "Unanswered", "Answered"}
    PROVE  /\ KeyError(b, k) \in Errors \cup {"ok"}
           /\ KeyRetried(b, k) => KeyError(b, k) \in Errors
           /\ ops # <<>> /\ Call.mode = "Write" =>
                /\ KeyRetried(b, k) => applied[k] = 0
                /\ Says(KeyError(b, k), applied[k])
<1>1. DriverTypes /\ Came /\ Written BY DEF CInv
<1>2. PICK q \in Batches : q = sent[b] BY <1>1 DEF DriverTypes
<1>3. k \in Keys /\ q.reply[k] \in Met \cup {"ok", "missing"} BY <1>2 DEF Batches
<1>4. retriable_read \subseteq Errors /\ not_applied \subseteq Errors
  BY DEF Errors, BrokerCodes, retriable_read
<1>5. q.st # None BY <1>1, <1>2 DEF Came
<1>6. CASE q.st \in {"NotSent", "Unanswered"}
  <2>1. KeyError(b, k) = q.error BY <1>2, <1>6 DEF KeyError
  <2>2. q.error \in BatchErrors BY <1>1, <1>2, <1>6 DEF Came
  <2>3. KeyError(b, k) \in Errors /\ KeyError(b, k) # "ok" /\ KeyError(b, k) \notin Definite
    BY <2>1, <2>2, NoneIsNothing DEF Definite, BatchErrors
  <2>4. Says(KeyError(b, k), applied[k]) BY <2>3 DEF Says
  <2>5. ASSUME ops # <<>>, Call.mode = "Write", KeyRetried(b, k) PROVE applied[k] = 0
    <3>1. CASE q.st = "NotSent" BY <1>1, <1>2, <1>3, <2>5, <3>1 DEF Written, Unhandled
    <3>2. CASE q.st = "Unanswered" BY <1>2, <2>5, <3>2 DEF KeyRetried
    <3> QED BY <1>6, <3>1, <3>2
  <2> QED BY <2>3, <2>4, <2>5
<1>7. CASE q.st = "Answered"
  <2>1. q.reply[k] # None BY <1>1, <1>2, <1>7 DEF Came
  <2>2. /\ KeyError(b, k) = IF q.reply[k] = "missing" THEN "Malformed" ELSE q.reply[k]
        /\ KeyRetried(b, k) <=> retriable(KeyError(b, k))
    BY <1>2, <1>7 DEF KeyError, KeyRetried
  <2>3. KeyError(b, k) \in Errors \cup {"ok"} BY <1>3, <2>1, <2>2, NoneIsNothing DEF Met
  <2>4. KeyRetried(b, k) => KeyError(b, k) \in Errors BY <1>4, <2>2 DEF retriable
  <2>5. ASSUME ops # <<>>, Call.mode = "Write"
        PROVE  Says(KeyError(b, k), applied[k]) /\ (KeyRetried(b, k) => applied[k] = 0)
    <3>1. Says(q.reply[k], applied[k]) BY <1>1, <1>2, <1>3, <1>7, <2>5 DEF Written
    <3>2. "Malformed" \notin Definite /\ "Malformed" # "ok" BY NoneIsNothing DEF Definite
    <3>3. Says(KeyError(b, k), applied[k]) BY <2>2, <3>1, <3>2 DEF Says
    <3>4. KeyRetried(b, k) => KeyError(b, k) \in Definite
      BY <2>2, <2>5, NoneIsNothing DEF retriable
    <3> QED BY <3>3, <3>4 DEF Says
  <2> QED BY <2>3, <2>4, <2>5
<1> QED BY <1>2, <1>5, <1>6, <1>7

LEMMA CollectTrue == ASSUME CInv, collect PROVE CInv'
<1>1. DriverTypes /\ Places /\ Came /\ Written BY DEF CInv
<1>2. /\ UNCHANGED <<ops, applied>> /\ adm.pc = "sending" /\ sent' = [b \in Brokers |-> NoBatch]
      /\ \A b \in Brokers : sent[b].st \in {None, "NotSent", "Unanswered", "Answered"}
  BY DEF collect
<1> DEFINE carrier(k) == CHOOSE b \in Brokers : k \in sent[b].keys
           carried == UNION {Settled(b) : b \in Brokers}
           e == [k \in Keys |-> IF k \in carried THEN KeyError(carrier(k), k) ELSE adm.last[k]]
           retry == {k \in carried : KeyRetried(carrier(k), k)}
           noted == {k \in carried : k \in retry \/ sent[carrier(k)].st # "Answered"}
           a == [adm EXCEPT
                  !.failed = @ \cup {b \in Brokers : sent[b].st \in {"NotSent", "Unanswered"}},
                  !.todo = @ \cup retry,
                  !.last = [k \in Keys |-> IF k \in retry THEN e[k] ELSE @[k]],
                  !.pc = IF adm.todo \cup retry = {} THEN "finished" ELSE "refresh"]
<1>3. /\ adm' = note_failure(a, noted, e)
      /\ results' = [k \in Keys |-> IF k \in carried \ retry THEN e[k] ELSE results[k]]
  BY Zenon DEF collect
<1>4. \A k \in Keys : k \in carried <=> Carried(k) BY DEF Settled, Carried
<1>5. carried \subseteq Keys
  <2>1. \A b \in Brokers : sent[b].keys \subseteq Keys BY <1>1 DEF DriverTypes, Batches
  <2> QED BY <2>1 DEF Settled
<1>6. ASSUME NEW k \in carried PROVE carrier(k) \in Brokers /\ k \in sent[carrier(k)].keys
  <2>1. \E b \in Brokers : k \in sent[b].keys BY DEF Settled
  <2> QED BY <2>1, Zenon
<1>7. retry \subseteq carried /\ noted \subseteq carried OBVIOUS
<1>8. \A k \in carried : /\ e[k] = KeyError(carrier(k), k)
                         /\ k \in retry <=> KeyRetried(carrier(k), k)
  BY <1>5
<1> HIDE DEF carrier, carried
<1>9. ASSUME NEW k \in carried
      PROVE  /\ e[k] \in Errors \cup {"ok"} /\ (k \in retry => e[k] \in Errors)
             /\ ops # <<>> /\ Call.mode = "Write" =>
                  (k \in retry => applied[k] = 0) /\ Says(e[k], applied[k])
  <2>1. PICK b \in Brokers : b = carrier(k) BY <1>6
  <2>2. k \in sent[b].keys /\ sent[b].st \in {None, "NotSent", "Unanswered", "Answered"}
    BY <1>2, <1>6, <2>1
  <2>3. e[k] = KeyError(b, k) /\ (k \in retry <=> KeyRetried(b, k)) BY <1>8, <2>1
  <2> QED BY <2>2, <2>3, KeyIs
<1>10. PICK fa, la, pc, re :
         /\ a = [adm EXCEPT !.failed = fa, !.todo = re, !.last = la, !.pc = pc]
         /\ fa = adm.failed \cup {b \in Brokers : sent[b].st \in {"NotSent", "Unanswered"}}
         /\ la = [k \in Keys |-> IF k \in retry THEN e[k] ELSE adm.last[k]]
         /\ pc = (IF adm.todo \cup retry = {} THEN "finished" ELSE "refresh")
         /\ re = adm.todo \cup retry
  <2>1. PICK fa : fa = adm.failed \cup {b \in Brokers : sent[b].st \in {"NotSent", "Unanswered"}}
    OBVIOUS
  <2>2. PICK la : la = [k \in Keys |-> IF k \in retry THEN e[k] ELSE adm.last[k]] OBVIOUS
  <2>3. PICK pc : pc = IF adm.todo \cup retry = {} THEN "finished" ELSE "refresh" OBVIOUS
  <2>4. PICK re : re = adm.todo \cup retry OBVIOUS
  <2>5. a = [adm EXCEPT !.failed = fa, !.todo = re, !.last = la, !.pc = pc]
    BY <2>1, <2>2, <2>3, <2>4, Zenon
  <2> HIDE DEF a, retry, e
  <2> QED BY <2>1, <2>2, <2>3, <2>4, <2>5, Zenon
<1> HIDE DEF a, retry, noted, e
<1>11. /\ adm.todo \subseteq Keys /\ adm.last \in [Keys -> Met] /\ adm.failed \subseteq Brokers
  BY <1>1 DEF DriverTypes, Drivers
<1>12. la \in [Keys -> Met]
  <2>1. \A k \in Keys : k \in retry => e[k] \in Met BY <1>7, <1>9 DEF Met
  <2> QED BY <1>10, <1>11, <2>1
<1>13. fa \in SUBSET Brokers /\ re \in SUBSET Keys /\ pc \in {"finished", "refresh"}
  BY <1>5, <1>7, <1>10, <1>11
<1>14. a \in Drivers /\ a.todo = re /\ a.pc = pc
  <2>1. a = [adm EXCEPT !.failed = fa, !.todo = re, !.last = la, !.pc = pc] BY <1>10
  <2> QED BY <1>1, <1>12, <1>13, <2>1 DEF DriverTypes, Drivers
<1>15. noted \in SUBSET Keys BY <1>5, <1>7
<1>16. adm' \in Drivers /\ adm'.todo = re /\ adm'.pc = pc BY <1>3, <1>14, <1>15, NoteIs
<1>17. /\ results' \in [Keys -> Met \cup {"ok"}]
       /\ \A k \in Keys : results'[k] = IF k \in carried \ retry THEN e[k] ELSE results[k]
  BY <1>1, <1>3, <1>9 DEF DriverTypes, Met
<1>18. /\ sent' \in [Brokers -> Batches] /\ \A b \in Brokers : sent'[b] = NoBatch
  BY <1>2, NoBatchIs
<1>19. DriverTypes' BY <1>1, <1>2, <1>16, <1>17, <1>18 DEF DriverTypes
<1>20. \A k \in Keys : ~Carried(k)' BY <1>18, NoBatchIs DEF Carried
<1>21. Call' = Call BY <1>2 DEF Call
<1>22. ops # <<>> /\ CallKeys(Call) \subseteq Keys BY <1>1, <1>2, CallIs DEF Places, DriverTypes
<1>23. \A k \in Keys : k \in adm.todo \/ k \in carried => results[k] = None
  BY <1>1, <1>4 DEF Places
<1>24. \A k \in adm.todo : k \notin carried BY <1>1, <1>4, <1>11 DEF Places
<1>25. Places'
  <2>1. \A k \in re : results'[k] = None /\ ~Carried(k)'
    BY <1>5, <1>7, <1>10, <1>13, <1>17, <1>20, <1>23, <1>24
  <2>2. \A k \in CallKeys(Call) : k \in re \/ results'[k] # None
    <3>1. ASSUME NEW k \in CallKeys(Call) PROVE k \in re \/ results'[k] # None
      <4>1. k \in Keys /\ (k \in adm.todo \/ k \in carried \/ results[k] # None)
        BY <1>1, <1>2, <1>4, <1>22 DEF Places
      <4>2. CASE k \in carried \ retry
        <5>1. e[k] # None BY <1>9, <4>2, NoneIsNothing
        <5> QED BY <1>17, <4>1, <4>2, <5>1
      <4>3. CASE k \notin carried \ retry BY <1>10, <1>17, <4>1, <4>3
      <4> QED BY <4>2, <4>3
    <3> QED BY <3>1
  <2>3. \A b, c \in Brokers : b # c => sent'[b].keys \cap sent'[c].keys = {}
    BY <1>18, NoBatchIs
  <2>4. pc \notin {"idle", "sending"} /\ (pc = "finished" => re = {}) BY <1>10
  <2> QED BY <1>2, <1>16, <1>18, <1>20, <1>21, <1>22, <2>1, <2>2, <2>3, <2>4 DEF Places
<1>26. Came' BY <1>18, NoBatchIs DEF Came, None
<1>27. ASSUME Call.mode = "Write" PROVE Written'
  <2>1. ASSUME NEW k \in Keys
        PROVE  /\ applied[k] <= 1 /\ Says(results'[k], applied[k])
               /\ results'[k] = None => applied[k] = 0
    <3>1. applied[k] <= 1 /\ Says(results[k], applied[k])
          /\ (results[k] = None /\ ~Carried(k) => applied[k] = 0)
      BY <1>1, <1>22, <1>27 DEF Written
    <3>2. CASE k \in carried \ retry
      <4>1. results'[k] = e[k] /\ e[k] # None BY <1>9, <1>17, <3>2, NoneIsNothing
      <4> QED BY <1>9, <1>22, <1>27, <3>1, <3>2, <4>1
    <3>3. CASE k \in retry
      <4>1. results'[k] = results[k] /\ applied[k] = 0 BY <1>7, <1>9, <1>17, <1>22, <1>27, <3>3
      <4> QED BY <3>1, <4>1
    <3>4. CASE k \notin carried BY <1>4, <1>17, <3>1, <3>4
    <3> QED BY <3>2, <3>3, <3>4
  <2>2. \A b \in Brokers : sent'[b].keys = {} BY <1>18, NoBatchIs
  <2> QED BY <1>2, <2>1, <2>2 DEF Written
<1>28. ASSUME Call.mode # "Write" PROVE Written' BY <1>21, <1>28 DEF Written
<1> QED BY <1>19, <1>25, <1>26, <1>27, <1>28 DEF CInv

-----------------------------------------------------------------------------
(* The call, as a whole. *)

LEMMA DriverKeeps == ASSUME IInv, CInv, [Next]_vars PROVE CInv'
<1>1. CASE UNCHANGED avars
  BY <1>1 DEF avars, CInv, DriverTypes, Places, Came, Written, Carried, Call
<1>2. CASE AdminStep
  <2>1. ASSUME BatchStep PROVE CInv'
    <3>1. PICK b \in Brokers : batch_connects(b) \/ broker_handles(b) \/ batch_ends(b)
      BY <2>1 DEF BatchStep
    <3> QED BY <3>1, ConnectsTrue, HandlesTrue, BatchEndsTrue
  <2> QED BY <1>2, <2>1, StartTrue, RefuseTrue, RoundTrue, ResolveTrue, FetchedTrue, ListedTrue,
             ResolvedTrue, CollectTrue, RefreshTrue, FinishedTrue, DeadlineTrue
          DEF AdminStep, CallStep
<1> QED BY <1>1, <1>2 DEF Next, vars

LEMMA DriverBegins == Init => CInv
<1> SUFFICES ASSUME Init PROVE CInv OBVIOUS
<1>1. /\ sent = [b \in Brokers |-> NoBatch] /\ results = NoRoute
      /\ applied = [k \in Keys |-> 0]
  BY DEF Init
<1>2. PICK c : c = Fan("Read", "AnyBroker") OBVIOUS
<1>3. CallKeys(c) \subseteq Keys BY AdminAssumption DEF CallKeys, Keys
<1>4. PICK a \in Drivers : a = Begin(c) BY <1>3, BeginIs
<1>5. adm = [a EXCEPT !.pc = "idle", !.todo = {}] BY <1>2, <1>4 DEF Init
<1>6. adm \in Drivers /\ adm.pc = "idle" /\ adm.todo = {} BY <1>4, <1>5 DEF Drivers
<1>7. ops \in Seq(CallForms)
  <2>1. ops \in Calls_of \/ ops = <<>> BY DEF Init
  <2>2. <<>> \in Seq(CallForms) OBVIOUS
  <2>3. ops \in Calls_of => ops \in Seq(CallForms) BY AdminAssumption
  <2> QED BY <2>1, <2>2, <2>3
<1>8. sent \in [Brokers -> Batches] /\ \A b \in Brokers : sent[b] = NoBatch BY <1>1, NoBatchIs
<1>9. results \in [Keys -> Met \cup {"ok"}] /\ \A k \in Keys : results[k] = None BY <1>1, NoBatchIs
<1>10. applied \in [Keys -> Nat] /\ \A k \in Keys : applied[k] = 0 BY <1>1
<1>11. DriverTypes BY <1>6, <1>7, <1>8, <1>9, <1>10 DEF DriverTypes
<1>12. \A k \in Keys : ~Carried(k) BY <1>8, NoBatchIs DEF Carried
<1>13. \A b \in Brokers : sent[b].keys = {} /\ sent[b].st = None BY <1>8, NoBatchIs
<1>14. Places BY <1>6, <1>8, <1>9, <1>12, <1>13 DEF Places
<1>15. Came BY <1>13 DEF Came, None
<1>16. \A k \in Keys : Says(results[k], applied[k]) BY <1>9, <1>10, NoneIsNothing DEF Says, Definite
<1>17. Written BY <1>10, <1>13, <1>16 DEF Written
<1> QED BY <1>11, <1>14, <1>15, <1>17 DEF CInv

(* What the parts say of a call's results. *)
LEMMA CallTrue == ASSUME IInv, CInv PROVE CallIsTrue
<1>1. DriverTypes /\ Places /\ Came /\ Written BY DEF CInv
<1>2. Types /\ Waiters /\ InCall BY DEF IInv
<1>3. TypeOK
  <2>1. cache \in Snapshots /\ writer \in Writers BY <1>2 DEF Types
  <2>2. /\ cache.brokers \subseteq Brokers /\ cache.controller \in Nodes
        /\ cache.topics \in [Topics -> [id : Nat, parts : {-1, 0, 1}, leader : Nodes,
                                        epoch : Nat \cup {NoEpoch}]]
        /\ writer.pass \in 0..MAX_PASSES
    BY <2>1 DEF Snapshots, Writers, CachedTopic
  <2>3. /\ adm.todo \subseteq Keys /\ adm.failed \subseteq Brokers
        /\ adm.coordinators \in [Keys -> Nodes]
    BY <1>1 DEF DriverTypes, Drivers
  <2>4. results \in [Keys -> Errors \cup {"ok", None}] BY <1>1 DEF DriverTypes, Met
  <2>5. \A b, c \in Brokers : b # c => sent[b].keys \cap sent[c].keys = {} BY <1>1 DEF Places
  <2>6. /\ writer.waiters \cap pending.waiters = {}
        /\ \A c \in Callers : answer[c] = "waiting" <=> c \in writer.waiters \cup pending.waiters
    BY <1>2 DEF Waiters
  <2> QED BY <2>2, <2>3, <2>4, <2>5, <2>6 DEF TypeOK
<1>4. WrittenOnce BY <1>1 DEF Written, WrittenOnce
<1>5. ResultIsTrue BY <1>1 DEF Written, ResultIsTrue, Says, Definite
<1>6. EveryKeyAnswered
  <2>1. SUFFICES ASSUME adm.pc = "finished"
                 PROVE  /\ \A k \in CallKeys(Call) : results[k] # None
                        /\ \A b \in Brokers : sent[b].st = None
                        /\ answer[Me] # "waiting"
    BY DEF EveryKeyAnswered
  <2>2. ops # <<>> /\ adm.todo = {} /\ \A b \in Brokers : sent[b] = NoBatch
    BY <1>1, <2>1 DEF Places
  <2>3. \A b \in Brokers : sent[b].st = None /\ sent[b].keys = {} BY <2>2, NoBatchIs
  <2>4. \A k \in CallKeys(Call) : results[k] # None BY <1>1, <2>1, <2>2, <2>3 DEF Places, Carried
  <2>5. answer[Me] # "waiting" BY <1>2, <2>1 DEF InCall
  <2> QED BY <2>3, <2>4, <2>5
<1> QED BY <1>3, <1>4, <1>5, <1>6 DEF CallIsTrue

(* The driver's inductive invariant: each key in one place, batches that    *)
(* came to something, and what is known of a write.                         *)
THEOREM DriverInvariant == Spec => [](IInv /\ CInv)
<1>1. IInv /\ CInv /\ [Next]_vars => IInv' /\ CInv' BY NextKeeps, DriverKeeps
<1>2. Init => IInv /\ CInv BY InitHolds, DriverBegins
<1> QED BY <1>1, <1>2, PTL DEF Spec

(* An admin call that returns has a result for every key; a write is        *)
(* carried out at most once for a key, Ok means that it was, and a broker's *)
(* error code that it was not, unless the code is a timeout (Call::fan_out, *)
(* Call::retriable, Routing).                                               *)
THEOREM CallsAreTrue == Spec => []CallIsTrue
<1>1. IInv /\ CInv => CallIsTrue BY CallTrue
<1> QED BY <1>1, DriverInvariant, PTL
=============================================================================
