------------------------- MODULE FetchSessionProofs -------------------------
(***************************************************************************)
(* A fetch session serves what was asked, for any number of pollers,       *)
(* partitions, parameters and sessions: the broker's session and the       *)
(* client's view of it are compared through the requests and answers that  *)
(* are under way.                                                          *)
(***************************************************************************)
EXTENDS FetchSession, FiniteSetTheorems, TLAPS

(* How many advances the epoch j is behind k; epochs come round. *)
Behind(j, k) == IF j <= k THEN k - j ELSE k - j + I32_MAX

IsSent(a) == request[a].state = "sent"
Owed(a, s) ==
    request[a].state = "answered" /\ request[a].code = "ok" /\ request[a].answer_id = s

Senders == {a \in Pollers : IsSent(a)}
Load == Cardinality(Senders) + Cardinality(strays)

(* Epoch e of session s: the client is there, or a request under way is. *)
Named(s, e) ==
    \/ session.id = s /\ session.epoch = e
    \/ \E a \in Pollers : IsSent(a) /\ request[a].id = s /\ request[a].epoch = e
    \/ \E r \in strays : r.id = s /\ r.epoch = e

------------------------------------------------------------------------------
(* The inductive invariant. *)

IsRequest(r) ==
    /\ r.id \in Nat /\ r.epoch \in 0..I32_MAX
    /\ r.id < next_id
    /\ r.id = 0 <=> r.epoch = 0

Types ==
    /\ session.id \in Nat /\ session.epoch \in 0..I32_MAX
    /\ session.id < next_id
    /\ session.id = 0 <=> session.epoch = 0
    /\ session.topics = Empty \/ session.topics \in Desired
    /\ next_id \in 1..MaxSessions + 1 /\ sent \in 0..MaxFetches /\ calm \in BOOLEAN
    /\ DOMAIN broker \subseteq 1..next_id - 1
    /\ \A s \in DOMAIN broker : broker[s].epoch \in 1..I32_MAX

Requests ==
    /\ DOMAIN request = Pollers
    /\ \A a \in Pollers :
         /\ request[a] = Idle \/ request[a].state \in {"sent", "answered"}
         /\ IsSent(a) => IsRequest(request[a]) /\ request[a].desired \in Desired
         /\ IsSent(a) /\ request[a].id = 0 => request[a].topics = request[a].desired
         /\ request[a].state = "answered" =>
              /\ request[a].desired \in Desired
              /\ request[a].answer_id \in Nat /\ request[a].answer_id < next_id
    /\ IsFiniteSet(strays)
    /\ \A r \in strays : IsRequest(r)
    /\ Load <= sent + 1

(* While nothing went wrong there is one request at a time, and it or its  *)
(* answer is all that stands between the client's session and the broker's.*)
Calm ==
    calm =>
      /\ strays = {} /\ sent = 0
      /\ \A a, b \in Pollers : request[a] # Idle /\ request[b] # Idle => a = b
      /\ session.id # 0 => session.id \in DOMAIN broker
      /\ \A a \in Pollers :
           IsSent(a) => request[a].id = session.id /\ request[a].epoch = session.epoch
      /\ \A a \in Pollers :
           request[a].state = "answered" =>
             /\ request[a].code = "ok"
             /\ request[a].answer_id # 0 =>
                  /\ request[a].answer_id \in DOMAIN broker
                  /\ broker[request[a].answer_id].epoch = next_epoch(session.epoch)
      /\ (\A a \in Pollers : request[a].state # "answered") /\ session.id # 0 =>
           broker[session.id].epoch = session.epoch

(* Whoever is at a session's epoch knows what the session holds. *)
Known(s) ==
    /\ session.id = s /\ session.epoch = broker[s].epoch =>
         session.topics = broker[s].topics
    /\ \A a \in Pollers :
         IsSent(a) /\ request[a].id = s /\ request[a].epoch = broker[s].epoch =>
             Merge(request[a], broker[s].topics) = request[a].desired

(* An answer that is not read yet is the only word of the session's state. *)
Fresh(s) ==
    /\ \A a \in Pollers :
         Owed(a, s) =>
           request[a].desired = broker[s].topics /\ ~Named(s, broker[s].epoch)
    /\ \A a, b \in Pollers : Owed(a, s) /\ Owed(b, s) => a = b

(* The epochs in use are behind the session's by less than a round ... *)
Window(s) ==
    \A e \in 1..I32_MAX : Named(s, e) => Behind(e, broker[s].epoch) + Load <= sent + 1

(* ... or nobody will ever advance the session again. *)
Stuck(s) == ~Named(s, broker[s].epoch) /\ \A a \in Pollers : ~Owed(a, s)

Sessions == \A s \in DOMAIN broker : Known(s) /\ Fresh(s) /\ (Window(s) \/ Stuck(s))

IInv == Types /\ Requests /\ Calm /\ Sessions /\ ServedIsAsked

------------------------------------------------------------------------------
(* Epochs. *)

LEMMA ModLemma ==
    ASSUME NEW n \in Nat, NEW d \in Nat, n <= d, d > 0
    PROVE  n % d = IF n < d THEN n ELSE 0
<1>1. CASE n < d
  BY <1>1, SMT
<1>2. CASE n = d
  BY <1>2, SMT
<1> QED BY <1>1, <1>2

\* The two ends count alike, and an epoch stays an epoch.
LEMMA EpochsAgree ==
    ASSUME NEW e \in 1..I32_MAX
    PROVE  EpochAfter(e) = next_epoch(e) /\ next_epoch(e) \in 1..I32_MAX
<1>1. e \in Nat /\ I32_MAX \in Nat /\ e <= I32_MAX /\ I32_MAX > 1
  BY FetchSessionAssumption
<1>2. e % I32_MAX = IF e < I32_MAX THEN e ELSE 0
  BY <1>1, ModLemma
<1> QED BY <1>1, <1>2 DEF EpochAfter, next_epoch

\* An advance puts everyone one further behind, unless that is a round.
LEMMA Advances ==
    ASSUME NEW j \in 1..I32_MAX, NEW k \in 1..I32_MAX
    PROVE  /\ Behind(j, k) \in Nat
           /\ Behind(j, k) = 0 <=> j = k
           /\ Behind(j, k) + 1 < I32_MAX =>
                Behind(j, next_epoch(k)) = Behind(j, k) + 1 /\ j # next_epoch(k)
BY FetchSessionAssumption DEF Behind, next_epoch

\* Changes and removals against what a session holds make up what is wanted.
LEMMA DeltaIsEnough ==
    ASSUME NEW desired \in Desired, NEW r,
           r.topics = Restrict(desired, Changed(desired)),
           r.forgotten = DOMAIN session.topics \ DOMAIN desired
    PROVE  Merge(r, session.topics) = desired
<1>1. PICK S \in SUBSET Partitions : desired \in [S -> Parameters]
  BY DEF Desired
<1>2. /\ DOMAIN r.topics = Changed(desired)
      /\ \A p \in Changed(desired) : r.topics[p] = desired[p]
  BY DEF Restrict
<1>3. Changed(desired) \subseteq S
  BY <1>1 DEF Changed
<1>4. (DOMAIN r.topics \cup DOMAIN session.topics) \ r.forgotten = S
  BY <1>1, <1>2, <1>3 DEF Changed
<1>5. \A p \in S :
        (IF p \in DOMAIN r.topics THEN r.topics[p] ELSE session.topics[p]) = desired[p]
  BY <1>1, <1>2 DEF Changed
<1>6. Merge(r, session.topics) =
        [p \in S |-> IF p \in DOMAIN r.topics THEN r.topics[p] ELSE session.topics[p]]
  BY <1>4 DEF Merge
<1> QED BY <1>1, <1>5, <1>6

------------------------------------------------------------------------------
(* The number of requests under way. *)

LEMMA LoadIsNat ==
    ASSUME IsFiniteSet(strays)
    PROVE  /\ Load \in Nat /\ Cardinality(Senders) \in Nat /\ Cardinality(strays) \in Nat
           /\ IsFiniteSet(Senders)
<1>1. IsFiniteSet(Senders)
  BY FS_Subset, FetchSessionAssumption DEF Senders
<1> QED BY <1>1, FS_CardinalityType DEF Load

LEMMA LoadGrows ==
    ASSUME IsFiniteSet(strays), NEW a, a \notin Senders,
           Senders' = Senders \cup {a}, strays' = strays
    PROVE  Load' = Load + 1
<1>1. IsFiniteSet(Senders)
  BY LoadIsNat
<1>2. Cardinality(Senders \cup {a}) = Cardinality(Senders) + 1
  BY <1>1, FS_AddElement
<1> QED BY <1>2, LoadIsNat DEF Load

LEMMA LoadFalls ==
    ASSUME IsFiniteSet(strays), NEW a, a \in Senders,
           Senders' = Senders \ {a}, strays' = strays
    PROVE  Load' = Load - 1 /\ Load >= 1 /\ Load' \in Nat
<1>1. IsFiniteSet(Senders)
  BY LoadIsNat
<1>2. Cardinality(Senders \ {a}) = Cardinality(Senders) - 1
  BY <1>1, FS_RemoveElement
<1>3. IsFiniteSet(Senders \ {a})
  BY <1>1, FS_RemoveElement
<1>4. Cardinality(Senders \ {a}) \in Nat
  BY <1>3, FS_CardinalityType
<1> QED BY <1>2, <1>4, LoadIsNat DEF Load

LEMMA LoadFallsStray ==
    ASSUME IsFiniteSet(strays), NEW r \in strays,
           Senders' = Senders, strays' = strays \ {r}
    PROVE  Load' = Load - 1 /\ Load >= 1 /\ Load' \in Nat /\ IsFiniteSet(strays')
<1>1. IsFiniteSet(strays \ {r}) /\ Cardinality(strays \ {r}) = Cardinality(strays) - 1
  BY FS_RemoveElement
<1>2. Cardinality(strays \ {r}) \in Nat
  BY <1>1, FS_CardinalityType
<1> QED BY <1>1, <1>2, LoadIsNat DEF Load

\* A request given up goes on as a stray or not at all.
LEMMA LoadMoves ==
    ASSUME IsFiniteSet(strays), NEW a, NEW r,
           Senders' = Senders \ {a},
           strays' = strays \/ (a \in Senders /\ strays' = strays \cup {r})
    PROVE  Load' <= Load /\ Load' \in Nat /\ IsFiniteSet(strays')
<1>1. IsFiniteSet(Senders) /\ Load \in Nat
      /\ Cardinality(Senders) \in Nat /\ Cardinality(strays) \in Nat
  BY LoadIsNat
<1>2. /\ IsFiniteSet(Senders \ {a})
      /\ Cardinality(Senders \ {a}) =
           IF a \in Senders THEN Cardinality(Senders) - 1 ELSE Cardinality(Senders)
  BY <1>1, FS_RemoveElement
<1>3. Cardinality(Senders \ {a}) \in Nat
  BY <1>2, FS_CardinalityType
<1>4. CASE strays' = strays
  BY <1>1, <1>2, <1>3, <1>4 DEF Load
<1>5. CASE a \in Senders /\ strays' = strays \cup {r}
  <2>1. /\ IsFiniteSet(strays \cup {r})
        /\ Cardinality(strays \cup {r}) =
             IF r \in strays THEN Cardinality(strays) ELSE Cardinality(strays) + 1
    BY FS_AddElement
  <2>2. Cardinality(strays') <= Cardinality(strays) + 1 /\ Cardinality(strays') \in Nat
    BY <1>1, <1>5, <2>1, FS_CardinalityType
  <2>3. IsFiniteSet(strays')
    BY <1>5, <2>1
  <2>4. Cardinality(Senders') = Cardinality(Senders) - 1 /\ Cardinality(Senders') \in Nat
    BY <1>2, <1>3, <1>5
  <2> QED BY <1>1, <2>2, <2>3, <2>4 DEF Load
<1> QED BY <1>4, <1>5

------------------------------------------------------------------------------
(* A session that a step leaves as it was. *)

LEMMA StillWithin ==
    ASSUME NEW d \in Nat, NEW l \in Nat, NEW m \in Nat, NEW x \in Nat, NEW y \in Nat,
           d + l <= x + 1, m + x <= l + y
    PROVE  d + m <= y + 1
OBVIOUS

LEMMA WindowKept ==
    ASSUME NEW s, broker'[s] = broker[s], broker[s].epoch \in 1..I32_MAX,
           Load \in Nat, Load' \in Nat, sent \in Nat, sent' \in Nat,
           Load' + sent <= Load + sent',
           \A e \in 1..I32_MAX : Named(s, e)' => Named(s, e),
           Window(s)
    PROVE  Window(s)'
<1> SUFFICES ASSUME NEW e \in 1..I32_MAX, Named(s, e)'
             PROVE  Behind(e, broker[s].epoch) + Load' <= sent' + 1
  BY DEF Window, Behind
<1>0. Named(s, e)
  OBVIOUS
<1>1. Behind(e, broker[s].epoch) + Load <= sent + 1
  BY <1>0 DEF Window
<1>2. PICK d \in Nat : d = Behind(e, broker[s].epoch)
  BY Advances
<1>3. d + Load <= sent + 1
  BY <1>1, <1>2
<1>4. d + Load' <= sent' + 1
  <2>1. PICK l \in Nat, m \in Nat, x \in Nat, y \in Nat :
          l = Load /\ m = Load' /\ x = sent /\ y = sent'
    OBVIOUS
  <2> QED BY <1>3, <2>1, StillWithin
<1> QED BY <1>2, <1>4

LEMMA SessionKept ==
    ASSUME NEW s, broker'[s] = broker[s], broker[s].epoch \in 1..I32_MAX,
           Known(s), Fresh(s), Window(s) \/ Stuck(s),
           session' = session \/ session'.id # s,
           \A a \in Pollers :
             IsSent(a)' /\ request'[a].id = s /\ request'[a].epoch = broker[s].epoch =>
               Merge(request'[a], broker[s].topics) = request'[a].desired,
           \A a \in Pollers :
             Owed(a, s)' => Owed(a, s) /\ request'[a].desired = request[a].desired,
           \A e \in 1..I32_MAX : Named(s, e)' => Named(s, e),
           Window(s) => Window(s)'
    PROVE  Known(s)' /\ Fresh(s)' /\ (Window(s)' \/ Stuck(s)')
<1>1. Known(s)'
  BY DEF Known
<1>2. Fresh(s)'
  BY DEF Fresh
<1>3. Window(s)' \/ Stuck(s)'
  BY DEF Stuck
<1> QED BY <1>1, <1>2, <1>3

\* A session that request r, whose epoch it is at, advances.
LEMMA SessionAdvanced ==
    ASSUME NEW s, NEW k, k = broker[s].epoch, k \in 1..I32_MAX,
           broker'[s].epoch = next_epoch(k),
           Known(s), Fresh(s), Window(s) \/ Stuck(s), Named(s, k),
           Load \in Nat, Load' = Load - 1, Load >= 1, Load' \in Nat,
           sent' = sent, sent \in 0..MaxFetches,
           \A e \in 1..I32_MAX : Named(s, e)' => Named(s, e)
    PROVE  /\ Window(s)' /\ ~Named(s, next_epoch(k))'
           /\ \A a \in Pollers : ~Owed(a, s)
           /\ Known(s)'
<1>1. Window(s) /\ \A a \in Pollers : ~Owed(a, s)
  BY DEF Stuck, Fresh
<1>2. next_epoch(k) \in 1..I32_MAX
  BY EpochsAgree
<1>3. ASSUME NEW e \in 1..I32_MAX, Named(s, e)
      PROVE  Behind(e, next_epoch(k)) + Load' <= sent' + 1 /\ e # next_epoch(k)
  <2>1. Behind(e, k) + Load <= sent + 1 /\ Behind(e, k) \in Nat
    BY <1>1, <1>3, Advances DEF Window
  <2>2. Behind(e, k) + 1 < I32_MAX
    BY <2>1, FetchSessionAssumption
  <2> QED BY <2>1, <2>2, Advances
<1>4. ~Named(s, next_epoch(k))'
  BY <1>2, <1>3
<1>5. Window(s)'
  <2> SUFFICES ASSUME NEW e \in 1..I32_MAX, Named(s, e)'
               PROVE  Behind(e, next_epoch(k)) + Load' <= sent' + 1
    BY DEF Window, Behind
  <2> QED BY <1>3
<1>6. Known(s)'
  <2>1. ~(session'.id = s /\ session'.epoch = next_epoch(k))
    BY <1>4 DEF Named
  <2>2. \A a \in Pollers :
          ~(IsSent(a)' /\ request'[a].id = s /\ request'[a].epoch = next_epoch(k))
    BY <1>4 DEF Named
  <2> QED BY <2>1, <2>2 DEF Known
<1> QED BY <1>1, <1>4, <1>5, <1>6

------------------------------------------------------------------------------
(* The actions. *)

\* Only poller a's request changes.
Touches(a) ==
    DOMAIN request' = Pollers /\ \A b \in Pollers \ {a} : request'[b] = request[b]

LEMMA BuildKeeps ==
    ASSUME IInv, NEW a \in Pollers, NEW desired \in Desired, build_request(a, desired)
    PROVE  IInv'
<1>0. Types /\ Requests /\ Calm /\ Sessions /\ ServedIsAsked
  BY DEF IInv
<1>1. PICK r : r = request'[a]
  OBVIOUS
<1>2. /\ Touches(a) /\ request[a] = Idle
      /\ r.state = "sent" /\ r.desired = desired
      /\ r.id = session.id /\ r.epoch = session.epoch
      /\ session.id = 0 => r.topics = desired
      /\ session.id # 0 => /\ r.topics = Restrict(desired, Changed(desired))
                           /\ r.forgotten = DOMAIN session.topics \ DOMAIN desired
  BY <1>0, <1>1 DEF build_request, Requests, Touches
<1>3. /\ session' = session /\ strays' = strays /\ broker' = broker /\ next_id' = next_id
      /\ calm' = (calm /\ \A b \in Pollers : request[b] = Idle)
      /\ ~calm' => sent < MaxFetches
      /\ sent' = IF calm' THEN sent ELSE sent + 1
  BY DEF build_request
<1>4. Idle.state = "idle"
  BY DEF Idle
<1>5. /\ IsSent(a)' /\ ~IsSent(a)
      /\ \A b \in Pollers \ {a} : IsSent(b)' <=> IsSent(b)
  BY <1>1, <1>2, <1>4 DEF IsSent, Touches
<1>6. Load' = Load + 1 /\ Load \in Nat /\ Load' \in Nat
  <2>1. Senders' = Senders \cup {a} /\ a \notin Senders
    BY <1>5 DEF Senders
  <2>2. IsFiniteSet(strays)
    BY <1>0 DEF Requests
  <2>3. Load' = Load + 1
    BY <1>3, <2>1, <2>2, LoadGrows
  <2> QED BY <2>2, <2>3, LoadIsNat
<1>7. calm' => calm /\ Load = 0 /\ sent = 0 /\ \A b \in Pollers : request[b] = Idle
  <2> SUFFICES ASSUME calm' PROVE Load = 0 /\ calm /\ sent = 0 /\ \A b \in Pollers : request[b] = Idle
    OBVIOUS
  <2>1. calm /\ (\A b \in Pollers : request[b] = Idle) /\ strays = {} /\ sent = 0
    BY <1>0, <1>3 DEF Calm, Types
  <2>2. Senders = {}
    BY <1>4, <2>1 DEF Senders, IsSent
  <2> QED BY <2>1, <2>2, FS_EmptySet DEF Load
<1>8. sent \in 0..MaxFetches /\ sent' \in 0..MaxFetches /\ calm' \in BOOLEAN
  BY <1>0, <1>3, FetchSessionAssumption DEF Types
<1>9. Types'
  BY <1>0, <1>3, <1>8 DEF Types
<1>10. Requests'
  <2>1. Load' <= sent' + 1
    BY <1>0, <1>3, <1>6, <1>7, <1>8 DEF Requests
  <2>2. IsRequest(r)'
    BY <1>0, <1>2, <1>3 DEF IsRequest, Types
  <2>3. \A b \in Pollers \ {a} : request'[b] = request[b]
    BY <1>2 DEF Touches
  <2>4. \A b \in Pollers \ {a} :
          /\ request'[b] = Idle \/ request'[b].state \in {"sent", "answered"}
          /\ IsSent(b)' => IsRequest(request[b])' /\ request'[b].desired \in Desired
          /\ IsSent(b)' /\ request'[b].id = 0 => request'[b].topics = request'[b].desired
          /\ request'[b].state = "answered" =>
               /\ request'[b].desired \in Desired
               /\ request'[b].answer_id \in Nat /\ request'[b].answer_id < next_id'
    BY <1>0, <1>3, <1>5, <2>3 DEF Requests, IsRequest
  <2>5. /\ r = Idle \/ r.state \in {"sent", "answered"}
        /\ r.desired \in Desired
        /\ r.id = 0 => r.topics = r.desired
        /\ r.state # "answered"
    BY <1>2
  <2>6. IsFiniteSet(strays') /\ \A x \in strays' : IsRequest(x)'
    BY <1>0, <1>3 DEF Requests, IsRequest
  <2>7. DOMAIN request' = Pollers
    BY <1>2 DEF Touches
  <2> QED BY <1>1, <2>1, <2>2, <2>4, <2>5, <2>6, <2>7 DEF Requests
<1>11. Calm'
  <2> SUFFICES ASSUME calm' PROVE Calm'
    BY DEF Calm
  <2>1. /\ calm /\ sent' = 0 /\ strays' = {}
        /\ \A b \in Pollers : request[b] = Idle
    BY <1>0, <1>3, <1>7 DEF Calm
  <2>2. \A b \in Pollers \ {a} : request'[b] = Idle
    BY <1>2, <2>1 DEF Touches
  <2>3. \A b \in Pollers : request[b].state # "answered" /\ request'[b].state # "answered"
    BY <1>1, <1>2, <1>4, <2>1, <2>2
  <2>4. \A b \in Pollers : IsSent(b)' => b = a
    BY <1>4, <2>2 DEF IsSent
  <2>5. /\ session.id # 0 => session.id \in DOMAIN broker
        /\ session.id # 0 => broker[session.id].epoch = session.epoch
    BY <1>0, <2>1, <2>3 DEF Calm
  <2> QED BY <1>1, <1>2, <1>3, <2>1, <2>2, <2>3, <2>4, <2>5 DEF Calm
<1>12. Sessions'
  <2> SUFFICES ASSUME NEW s \in DOMAIN broker
               PROVE  Known(s)' /\ Fresh(s)' /\ (Window(s)' \/ Stuck(s)')
    BY <1>3 DEF Sessions
  <2>1. Known(s) /\ Fresh(s) /\ (Window(s) \/ Stuck(s))
    BY <1>0 DEF Sessions
  <2>2. broker[s].epoch \in 1..I32_MAX /\ broker'[s] = broker[s] /\ s # 0
    BY <1>0, <1>3 DEF Types
  <2>3. \A e \in 1..I32_MAX : Named(s, e)' => Named(s, e)
    BY <1>1, <1>2, <1>3, <1>5 DEF Named, Touches
  <2>4. \A b \in Pollers :
          IsSent(b)' /\ request'[b].id = s /\ request'[b].epoch = broker[s].epoch =>
            Merge(request'[b], broker[s].topics) = request'[b].desired
    <3>1. CASE session.id = s /\ session.epoch = broker[s].epoch
      <4>1. session.topics = broker[s].topics
        BY <2>1, <3>1 DEF Known
      <4>2. Merge(r, session.topics) = desired
        BY <1>2, <2>2, <3>1, DeltaIsEnough
      <4> QED BY <1>1, <1>2, <1>5, <2>1, <4>1, <4>2 DEF Known, Touches
    <3>2. CASE ~(session.id = s /\ session.epoch = broker[s].epoch)
      BY <1>1, <1>2, <1>5, <2>1, <3>2 DEF Known, Touches
    <3> QED BY <3>1, <3>2
  <2>5. \A b \in Pollers :
          Owed(b, s)' => Owed(b, s) /\ request'[b].desired = request[b].desired
    BY <1>1, <1>2 DEF Owed, Touches
  <2>6. Window(s) => Window(s)'
    <3>1. CASE calm'
      <4>1. \A e \in 1..I32_MAX : Named(s, e) => e = broker[s].epoch
        <5>1. \A b \in Pollers : ~IsSent(b) /\ request[b].state # "answered"
          BY <1>4, <1>7, <3>1 DEF IsSent
        <5>2. strays = {} /\ (session.id # 0 => broker[session.id].epoch = session.epoch)
          BY <1>0, <1>7, <3>1, <5>1 DEF Calm
        <5> QED BY <2>2, <5>1, <5>2 DEF Named
      <4>2. Load' = 1 /\ sent' = 0
        BY <1>3, <1>6, <1>7, <3>1
      <4>3. Behind(broker[s].epoch, broker[s].epoch) = 0
        BY <2>2, Advances
      <4>4. \A e \in 1..I32_MAX : Named(s, e)' => Behind(e, broker[s].epoch) + Load' <= sent' + 1
        BY <2>3, <4>1, <4>2, <4>3
      <4> QED BY <1>3, <4>4 DEF Window, Behind
    <3>2. CASE ~calm'
      <4>1. Load' + sent <= Load + sent' /\ sent \in Nat /\ sent' \in Nat
        BY <1>3, <1>6, <1>8, <3>2
      <4> QED BY <1>6, <2>2, <2>3, <4>1, WindowKept
    <3> QED BY <3>1, <3>2
  <2> QED BY <1>3, <2>1, <2>2, <2>3, <2>4, <2>5, <2>6, SessionKept
<1>13. ServedIsAsked'
  BY <1>0, <1>1, <1>2 DEF ServedIsAsked, Touches
<1> QED BY <1>9, <1>10, <1>11, <1>12, <1>13 DEF IInv

\* The epoch moves on whatever the client's session was.
LEMMA NextEpochType ==
    ASSUME NEW e \in 0..I32_MAX
    PROVE  next_epoch(e) \in 1..I32_MAX
BY FetchSessionAssumption DEF next_epoch

LEMMA ReadKeeps ==
    ASSUME IInv, NEW a \in Pollers, AnswerRead(a)
    PROVE  IInv'
<1>0. Types /\ Requests /\ Calm /\ Sessions /\ ServedIsAsked
  BY DEF IInv
<1>1. /\ request[a].state = "answered"
      /\ Touches(a) /\ request'[a] = Idle
      /\ strays' = strays /\ broker' = broker /\ next_id' = next_id /\ sent' = sent
      /\ calm' = calm
  BY <1>0 DEF AnswerRead, Requests, Touches
<1>2. Idle.state = "idle"
  BY DEF Idle
<1>3. /\ ~IsSent(a)' /\ ~IsSent(a)
      /\ \A b \in Pollers : IsSent(b)' <=> IsSent(b)
      /\ \A b \in Pollers : IsSent(b)' => request'[b] = request[b]
  BY <1>1, <1>2 DEF IsSent, Touches
<1>4. Load' = Load /\ Load \in Nat
  <2>1. Senders' = Senders
    BY <1>3 DEF Senders
  <2>2. IsFiniteSet(strays)
    BY <1>0 DEF Requests
  <2> QED BY <1>1, <2>1, <2>2, LoadIsNat DEF Load
<1>5. PICK s : s = IF request[a].code = "ok" THEN request[a].answer_id ELSE 0
  OBVIOUS
<1>6. /\ s \in Nat /\ s < next_id
      /\ session'.id = s
      /\ s = 0 => session' = NoSession
      /\ s # 0 => /\ Owed(a, s)
                  /\ session'.epoch = next_epoch(session.epoch)
                  /\ session'.topics = request[a].desired
  <2>1. request[a].answer_id \in Nat /\ request[a].answer_id < next_id /\ next_id > 0
    BY <1>0, <1>1 DEF Requests, Types
  <2>2. CASE s = 0
    BY <1>1, <1>5, <2>1, <2>2 DEF AnswerRead, update_from_response, NoSession
  <2>3. CASE s # 0
    BY <1>1, <1>5, <2>1, <2>3 DEF AnswerRead, update_from_response, Owed
  <2> QED BY <2>2, <2>3
<1>7. NoSession.id = 0 /\ NoSession.epoch = 0 /\ NoSession.topics = Empty
  BY DEF NoSession, INITIAL_EPOCH
<1>8. session'.epoch \in 0..I32_MAX /\ (s = 0 <=> session'.epoch = 0)
  <2>1. next_epoch(session.epoch) \in 1..I32_MAX
    BY <1>0, NextEpochType DEF Types
  <2> QED BY <1>6, <1>7, <2>1, FetchSessionAssumption
<1>9. Types'
  <2>1. session'.topics = Empty \/ session'.topics \in Desired
    BY <1>0, <1>1, <1>6, <1>7 DEF Requests
  <2> QED BY <1>0, <1>1, <1>6, <1>8, <2>1 DEF Types
<1>10. Requests'
  <2>1. \A b \in Pollers \ {a} : request'[b] = request[b]
    BY <1>1 DEF Touches
  <2>2. DOMAIN request' = Pollers
    BY <1>1 DEF Touches
  <2> QED BY <1>0, <1>1, <1>2, <1>3, <1>4, <2>1, <2>2 DEF Requests, IsRequest
<1>11. Calm'
  <2> SUFFICES ASSUME calm PROVE Calm'
    BY <1>1 DEF Calm
  <2>1. /\ strays = {} /\ sent = 0
        /\ \A b, c \in Pollers : request[b] # Idle /\ request[c] # Idle => b = c
        /\ request[a].code = "ok"
        /\ request[a].answer_id # 0 =>
             /\ request[a].answer_id \in DOMAIN broker
             /\ broker[request[a].answer_id].epoch = next_epoch(session.epoch)
    BY <1>0, <1>1 DEF Calm
  <2>2. \A b \in Pollers : request'[b] = Idle
    BY <1>1, <1>2, <2>1 DEF Touches
  <2>3. s # 0 => s \in DOMAIN broker /\ broker[s].epoch = session'.epoch
    BY <1>5, <1>6, <2>1
  <2>4. \A b \in Pollers : ~IsSent(b)' /\ request'[b].state # "answered"
    BY <1>2, <2>2 DEF IsSent
  <2> QED BY <1>1, <1>6, <2>1, <2>2, <2>3, <2>4 DEF Calm
<1>12. Sessions'
  <2> SUFFICES ASSUME NEW t \in DOMAIN broker
               PROVE  Known(t)' /\ Fresh(t)' /\ (Window(t)' \/ Stuck(t)')
    BY <1>1 DEF Sessions
  <2>1. Known(t) /\ Fresh(t) /\ (Window(t) \/ Stuck(t))
    BY <1>0 DEF Sessions
  <2>2. broker[t].epoch \in 1..I32_MAX /\ broker'[t] = broker[t] /\ t # 0
    BY <1>0, <1>1 DEF Types
  <2>3. \A e \in 1..I32_MAX :
          Named(t, e)' => Named(t, e) \/ (t = s /\ e = session'.epoch)
    BY <1>1, <1>3, <1>6 DEF Named, Touches
  <2>4. \A b \in Pollers :
          IsSent(b)' /\ request'[b].id = t /\ request'[b].epoch = broker[t].epoch =>
            Merge(request'[b], broker[t].topics) = request'[b].desired
    BY <1>3, <2>1 DEF Known
  <2>5. \A b \in Pollers :
          Owed(b, t)' => b # a /\ Owed(b, t) /\ request'[b].desired = request[b].desired
    BY <1>1, <1>2 DEF Owed, Touches
  <2>6. CASE t # s
    <3>1. \A e \in 1..I32_MAX : Named(t, e)' => Named(t, e)
      BY <2>3, <2>6
    <3>2. Window(t) => Window(t)'
      <4>1. Load' + sent <= Load + sent' /\ sent \in Nat /\ sent' \in Nat /\ Load' \in Nat
        BY <1>0, <1>1, <1>4 DEF Types
      <4> QED BY <1>4, <2>2, <3>1, <4>1, WindowKept
    <3>3. session'.id # t
      BY <1>6, <2>6
    <3>4. \A b \in Pollers :
            Owed(b, t)' => Owed(b, t) /\ request'[b].desired = request[b].desired
      BY <2>5
    <3> QED BY <2>1, <2>2, <2>4, <3>1, <3>2, <3>3, <3>4, SessionKept
  <2>7. CASE t = s
    <3>1. Owed(a, t) /\ session'.topics = request[a].desired
      BY <1>6, <2>2, <2>7
    <3>2. /\ request[a].desired = broker[t].topics
          /\ ~Named(t, broker[t].epoch)
          /\ \A b \in Pollers : Owed(b, t) => b = a
      BY <2>1, <3>1 DEF Fresh
    <3>3. \A b \in Pollers : ~Owed(b, t)'
      BY <2>5, <3>2
    <3>4. Window(t)
      BY <2>1, <3>1 DEF Stuck
    <3>5. Known(t)'
      BY <2>2, <2>4, <3>1, <3>2 DEF Known
    <3>6. Fresh(t)'
      BY <3>3 DEF Fresh
    <3>7. CASE session'.epoch = broker[t].epoch
      <4> SUFFICES ASSUME NEW e \in 1..I32_MAX, Named(t, e)'
                   PROVE  Behind(e, broker[t].epoch) + Load' <= sent' + 1
        BY <2>2, <3>5, <3>6 DEF Window, Behind
      <4>1. CASE Named(t, e)
        BY <1>1, <1>4, <3>4, <4>1 DEF Window
      <4>2. CASE e = session'.epoch
        <5>1. Behind(e, broker[t].epoch) = 0
          BY <2>2, <3>7, <4>2, Advances
        <5>2. Load <= sent + 1 /\ sent \in Nat
          BY <1>0 DEF Requests, Types
        <5> QED BY <1>1, <1>4, <5>1, <5>2
      <4> QED BY <2>3, <4>1, <4>2
    <3>8. CASE session'.epoch # broker[t].epoch
      <4>1. ~Named(t, broker[t].epoch)'
        BY <2>2, <2>3, <3>2, <3>8
      <4>2. Stuck(t)'
        BY <2>2, <3>3, <4>1 DEF Stuck
      <4> QED BY <3>5, <3>6, <4>2
    <3> QED BY <3>7, <3>8
  <2> QED BY <2>6, <2>7
<1>13. ServedIsAsked'
  BY <1>0, <1>1, <1>2 DEF ServedIsAsked, Touches
<1> QED BY <1>9, <1>10, <1>11, <1>12, <1>13 DEF IInv

\* SendFails and Dropped.
LEMMA AbandonKeeps ==
    ASSUME IInv, NEW a \in Pollers, NEW arrives \in BOOLEAN, Abandon(a, arrives),
           session' = session \/ session' = NoSession,
           UNCHANGED <<broker, next_id, sent>>
    PROVE  IInv'
<1>0. Types /\ Requests /\ Calm /\ Sessions /\ ServedIsAsked
  BY DEF IInv
<1>1. /\ Touches(a) /\ request'[a] = Idle
      /\ broker' = broker /\ next_id' = next_id /\ sent' = sent /\ ~calm' /\ calm' \in BOOLEAN
  BY <1>0 DEF Abandon, Requests, Touches
<1>2. Idle.state = "idle" /\ NoSession.id = 0 /\ NoSession.epoch = 0 /\ NoSession.topics = Empty
  BY DEF Idle, NoSession, INITIAL_EPOCH
<1>3. /\ ~IsSent(a)'
      /\ \A b \in Pollers \ {a} : IsSent(b)' <=> IsSent(b)
      /\ \A b \in Pollers : IsSent(b)' => IsSent(b) /\ request'[b] = request[b]
  BY <1>1, <1>2 DEF IsSent, Touches
<1>4. PICK r : r = [id |-> request[a].id, epoch |-> request[a].epoch,
                    topics |-> request[a].topics, forgotten |-> request[a].forgotten]
  OBVIOUS
<1>5. r.id = request[a].id /\ r.epoch = request[a].epoch
  BY <1>4
<1>6. strays' = strays \/ (IsSent(a) /\ strays' = strays \cup {r})
  BY <1>4 DEF Abandon, IsSent
<1>7. Load' <= Load /\ Load' \in Nat /\ Load \in Nat /\ IsFiniteSet(strays')
  <2>1. Senders' = Senders \ {a}
    BY <1>3 DEF Senders
  <2>2. IsFiniteSet(strays)
    BY <1>0 DEF Requests
  <2>3. strays' = strays \/ (a \in Senders /\ strays' = strays \cup {r})
    BY <1>6 DEF Senders
  <2> QED BY <2>1, <2>2, <2>3, LoadMoves, LoadIsNat
<1>8. Types'
  BY <1>0, <1>1, <1>2, FetchSessionAssumption DEF Types
<1>9. Requests'
  <2>1. \A b \in Pollers \ {a} : request'[b] = request[b]
    BY <1>1 DEF Touches
  <2>2. DOMAIN request' = Pollers
    BY <1>1 DEF Touches
  <2>3. \A x \in strays' : IsRequest(x)'
    <3>1. IsSent(a) => IsRequest(r)
      BY <1>0, <1>5 DEF Requests, IsRequest
    <3>2. \A x \in strays' : IsRequest(x)
      BY <1>0, <1>6, <3>1 DEF Requests
    <3> QED BY <1>1, <3>2 DEF IsRequest
  <2>4. Load' <= sent' + 1
    BY <1>0, <1>1, <1>7 DEF Requests, Types
  <2>5. \A b \in Pollers : IsSent(b)' => IsRequest(request[b])'
    BY <1>0, <1>1, <1>3 DEF Requests, IsRequest
  <2> QED BY <1>0, <1>1, <1>2, <1>3, <1>7, <2>1, <2>2, <2>3, <2>4, <2>5 DEF Requests
<1>10. Calm'
  BY <1>1 DEF Calm
<1>11. Sessions'
  <2> SUFFICES ASSUME NEW s \in DOMAIN broker
               PROVE  Known(s)' /\ Fresh(s)' /\ (Window(s)' \/ Stuck(s)')
    BY <1>1 DEF Sessions
  <2>1. Known(s) /\ Fresh(s) /\ (Window(s) \/ Stuck(s))
    BY <1>0 DEF Sessions
  <2>2. broker[s].epoch \in 1..I32_MAX /\ broker'[s] = broker[s] /\ s # 0
    BY <1>0, <1>1 DEF Types
  <2>3. ASSUME NEW e \in 1..I32_MAX, Named(s, e)'
        PROVE  Named(s, e)
    <3>1. CASE session'.id = s /\ session'.epoch = e
      BY <1>2, <2>2, <3>1 DEF Named
    <3>2. CASE \E b \in Pollers : IsSent(b)' /\ request'[b].id = s /\ request'[b].epoch = e
      BY <1>3, <3>2 DEF Named
    <3>3. CASE \E x \in strays' : x.id = s /\ x.epoch = e
      BY <1>5, <1>6, <3>3 DEF Named
    <3> QED BY <2>3, <3>1, <3>2, <3>3 DEF Named
  <2>4. \A b \in Pollers :
          IsSent(b)' /\ request'[b].id = s /\ request'[b].epoch = broker[s].epoch =>
            Merge(request'[b], broker[s].topics) = request'[b].desired
    BY <1>3, <2>1 DEF Known
  <2>5. \A b \in Pollers :
          Owed(b, s)' => Owed(b, s) /\ request'[b].desired = request[b].desired
    BY <1>1, <1>2 DEF Owed, Touches
  <2>6. Window(s) => Window(s)'
    <3>0. sent \in Nat /\ sent' = sent
      BY <1>0, <1>1 DEF Types
    <3>1. Load' + sent <= Load + sent' /\ sent \in Nat /\ sent' \in Nat
      <4>1. PICK l \in Nat, m \in Nat, x \in Nat : l = Load /\ m = Load' /\ x = sent
        BY <1>7, <3>0
      <4>2. m <= l
        BY <1>7, <4>1
      <4>3. m + x <= l + x
        BY <4>2
      <4> QED BY <3>0, <4>1, <4>3
    <3> QED BY <1>7, <2>2, <2>3, <3>1, WindowKept
  <2>7. session' = session \/ session'.id # s
    BY <1>2, <2>2
  <2> QED BY <2>1, <2>2, <2>3, <2>4, <2>5, <2>6, <2>7, SessionKept
<1>12. ServedIsAsked'
  BY <1>0, <1>1, <1>2 DEF ServedIsAsked, Touches
<1> QED BY <1>8, <1>9, <1>10, <1>11, <1>12 DEF IInv

\* close_all and Evict.
LEMMA ForgetKeeps ==
    ASSUME IInv, session' = session \/ session' = NoSession,
           DOMAIN broker' \subseteq DOMAIN broker,
           \A s \in DOMAIN broker' : broker'[s] = broker[s],
           UNCHANGED <<request, strays, next_id, sent>>, calm' = FALSE
    PROVE  IInv'
<1>0. Types /\ Requests /\ Calm /\ Sessions /\ ServedIsAsked
  BY DEF IInv
<1>1. NoSession.id = 0 /\ NoSession.epoch = 0 /\ NoSession.topics = Empty
  BY DEF NoSession, INITIAL_EPOCH
<1>2. \A b \in Pollers : (IsSent(b)' <=> IsSent(b)) /\ request'[b] = request[b]
  BY DEF IsSent
<1>3. Load' = Load /\ Load \in Nat
  <2>1. Senders' = Senders
    BY <1>2 DEF Senders
  <2>2. IsFiniteSet(strays)
    BY <1>0 DEF Requests
  <2> QED BY <2>1, <2>2, LoadIsNat DEF Load
<1>4. Types'
  <2>1. /\ session'.id \in Nat /\ session'.epoch \in 0..I32_MAX
        /\ session'.id < next_id
        /\ session'.id = 0 <=> session'.epoch = 0
        /\ session'.topics = Empty \/ session'.topics \in Desired
    BY <1>0, <1>1, FetchSessionAssumption DEF Types
  <2>2. /\ DOMAIN broker' \subseteq 1..next_id - 1
        /\ \A s \in DOMAIN broker' : broker'[s].epoch \in 1..I32_MAX
    BY <1>0 DEF Types
  <2>3. next_id' = next_id /\ sent' = sent /\ calm' \in BOOLEAN
    OBVIOUS
  <2> QED BY <1>0, <2>1, <2>2, <2>3 DEF Types
<1>5. Requests'
  BY <1>0, <1>2, <1>3 DEF Requests, IsRequest
<1>6. Calm'
  BY DEF Calm
<1>7. Sessions'
  <2> SUFFICES ASSUME NEW s \in DOMAIN broker'
               PROVE  Known(s)' /\ Fresh(s)' /\ (Window(s)' \/ Stuck(s)')
    BY DEF Sessions
  <2>1. Known(s) /\ Fresh(s) /\ (Window(s) \/ Stuck(s))
    BY <1>0 DEF Sessions
  <2>2. broker[s].epoch \in 1..I32_MAX /\ broker'[s] = broker[s] /\ s # 0
    BY <1>0 DEF Types
  <2>3. \A e \in 1..I32_MAX : Named(s, e)' => Named(s, e)
    BY <1>1, <1>2, <2>2 DEF Named
  <2>4. \A b \in Pollers :
          IsSent(b)' /\ request'[b].id = s /\ request'[b].epoch = broker[s].epoch =>
            Merge(request'[b], broker[s].topics) = request'[b].desired
    BY <1>2, <2>1 DEF Known
  <2>5. \A b \in Pollers :
          Owed(b, s)' => Owed(b, s) /\ request'[b].desired = request[b].desired
    BY <1>2 DEF Owed
  <2>6. Window(s) => Window(s)'
    <3>1. Load' + sent <= Load + sent' /\ sent \in Nat /\ sent' \in Nat /\ Load' \in Nat
      BY <1>0, <1>3 DEF Types
    <3> QED BY <1>3, <2>2, <2>3, <3>1, WindowKept
  <2>7. session' = session \/ session'.id # s
    BY <1>1, <2>2
  <2> QED BY <2>1, <2>2, <2>3, <2>4, <2>5, <2>6, <2>7, SessionKept
<1>8. ServedIsAsked'
  BY <1>0, <1>2 DEF ServedIsAsked
<1> QED BY <1>4, <1>5, <1>6, <1>7, <1>8 DEF IInv

------------------------------------------------------------------------------
(* The broker handles a request. *)

\* r is at the epoch of a session: it advances it.
Advancing(r) == r.id # 0 /\ r.id \in DOMAIN broker /\ r.epoch = broker[r.id].epoch

LEMMA Handles ==
    ASSUME NEW r, NEW grants \in BOOLEAN, NEW h, h = Handled(r, grants)
    PROVE  /\ r.id = 0 =>
                /\ h.code = "ok" /\ h.served = r.topics
                /\ h.id = IF grants THEN next_id ELSE 0
                /\ DOMAIN h.broker = DOMAIN broker \cup IF grants THEN {next_id} ELSE {}
                /\ \A i \in DOMAIN broker : h.broker[i] = broker[i]
                /\ grants /\ next_id \notin DOMAIN broker =>
                     h.broker[next_id].epoch = 1 /\ h.broker[next_id].topics = r.topics
           /\ r.id # 0 /\ ~Advancing(r) => h.broker = broker /\ h.code # "ok" /\ h.id = 0
           /\ Advancing(r) =>
                /\ h.code = "ok" /\ h.id = r.id /\ h.served = Merge(r, broker[r.id].topics)
                /\ DOMAIN h.broker = DOMAIN broker
                /\ \A i \in DOMAIN broker \ {r.id} : h.broker[i] = broker[i]
                /\ h.broker[r.id].epoch = EpochAfter(r.epoch)
                /\ h.broker[r.id].topics = h.served
<1>1. CASE r.id = 0
  BY <1>1 DEF Handled, Advancing
<1>2. CASE r.id # 0 /\ ~Advancing(r)
  BY <1>2 DEF Handled, Advancing
<1>3. CASE Advancing(r)
  <2>1. PICK kept : kept = Merge(r, broker[r.id].topics)
    OBVIOUS
  <2>2. PICK x : x = [epoch |-> EpochAfter(r.epoch), topics |-> kept]
    OBVIOUS
  <2>3. h = [broker |-> [broker EXCEPT ![r.id] = x], code |-> "ok", id |-> r.id,
             served |-> kept]
    BY <1>3, <2>1, <2>2, Zenon DEF Handled, Advancing
  <2>4. x.epoch = EpochAfter(r.epoch) /\ x.topics = kept
    BY <2>2
  <2>5. /\ h.code = "ok" /\ h.id = r.id /\ h.served = kept
        /\ h.broker = [broker EXCEPT ![r.id] = x]
    BY <2>3
  <2> QED BY <1>3, <2>1, <2>4, <2>5 DEF Advancing
<1> QED BY <1>1, <1>2, <1>3

\* What a step that hands the broker request r does to its sessions; h.served
\* is what poller a, if it still waits for the answer, asked for.
LEMMA TakenKeeps ==
    ASSUME IInv, NEW r, IsRequest(r), r.id # 0 => Named(r.id, r.epoch),
           NEW grants \in BOOLEAN, r.id = 0 /\ grants => next_id <= MaxSessions,
           NEW h, h = Handled(r, grants), Took(h), NEW a,
           session' = session, sent' = sent, calm' = calm,
           Load \in Nat, Load >= 1, Load' = Load - 1, Load' \in Nat,
           \A s \in DOMAIN broker' : \A e \in 1..I32_MAX : Named(s, e)' => Named(s, e),
           \A b \in Pollers : IsSent(b)' => IsSent(b) /\ request'[b] = request[b],
           \A b \in Pollers : \A s \in DOMAIN broker' :
             Owed(b, s)' =>
               \/ Owed(b, s) /\ request'[b].desired = request[b].desired
               \/ b = a /\ h.code = "ok" /\ s = h.id /\ request'[b].desired = h.served
    PROVE  Types' /\ Sessions'
<1>0. Types /\ Requests /\ Calm /\ Sessions /\ ServedIsAsked
  BY DEF IInv
<1>1. /\ broker' = h.broker
      /\ next_id' = IF next_id \in DOMAIN h.broker THEN next_id + 1 ELSE next_id
  BY DEF Took
<1>2. /\ next_id \in Nat /\ next_id >= 1 /\ next_id \notin DOMAIN broker
      /\ DOMAIN broker \subseteq 1..next_id - 1
      /\ \A s \in DOMAIN broker : broker[s].epoch \in 1..I32_MAX
  BY <1>0 DEF Types
<1>3. /\ r.id = 0 =>
           /\ h.code = "ok" /\ h.served = r.topics
           /\ h.id = IF grants THEN next_id ELSE 0
           /\ DOMAIN broker' = DOMAIN broker \cup IF grants THEN {next_id} ELSE {}
           /\ \A i \in DOMAIN broker : broker'[i] = broker[i]
           /\ grants => broker'[next_id].epoch = 1 /\ broker'[next_id].topics = r.topics
      /\ r.id # 0 /\ ~Advancing(r) => broker' = broker /\ h.code # "ok"
      /\ Advancing(r) =>
           /\ h.id = r.id
           /\ DOMAIN broker' = DOMAIN broker
           /\ \A i \in DOMAIN broker \ {r.id} : broker'[i] = broker[i]
           /\ broker'[r.id].epoch = EpochAfter(r.epoch)
           /\ broker'[r.id].topics = h.served
  BY <1>1, <1>2, Handles
<1>4. Advancing(r) => /\ broker'[r.id].epoch = next_epoch(r.epoch)
                      /\ next_epoch(r.epoch) \in 1..I32_MAX
  BY <1>2, <1>3, EpochsAgree DEF Advancing
<1>5. Types'
  <2>1. /\ DOMAIN broker' \subseteq 1..next_id' - 1
        /\ next_id' \in 1..MaxSessions + 1 /\ next_id <= next_id'
    <3>1. next_id \in 1..MaxSessions + 1
      BY <1>0 DEF Types
    <3>2. CASE r.id = 0 /\ grants
      <4>1. DOMAIN broker' = DOMAIN broker \cup {next_id}
        BY <1>3, <3>2
      <4>2. next_id' = next_id + 1
        BY <1>1, <4>1
      <4>3. DOMAIN broker' \subseteq 1..next_id
        BY <1>2, <4>1
      <4>4. next_id' - 1 = next_id
        BY <1>2, <4>2
      <4>5. next_id <= MaxSessions
        BY <3>2
      <4>6. next_id' \in 1..MaxSessions + 1 /\ next_id <= next_id'
        BY <1>2, <4>2, <4>5, FetchSessionAssumption
      <4> QED BY <4>3, <4>4, <4>6
    <3>3. CASE ~(r.id = 0 /\ grants)
      <4>1. DOMAIN broker' = DOMAIN broker
        BY <1>3, <3>3 DEF Advancing
      <4> QED BY <1>1, <1>2, <3>1, <4>1
    <3> QED BY <3>2, <3>3
  <2>2. ASSUME NEW s \in DOMAIN broker' PROVE broker'[s].epoch \in 1..I32_MAX
    <3>1. CASE r.id = 0
      BY <1>2, <1>3, <3>1, FetchSessionAssumption
    <3>2. CASE r.id # 0 /\ ~Advancing(r)
      BY <1>2, <1>3, <3>2
    <3>3. CASE Advancing(r)
      BY <1>2, <1>3, <1>4, <3>3
    <3> QED BY <3>1, <3>2, <3>3 DEF Advancing
  <2>3. session'.id < next_id'
    BY <1>0, <1>2, <2>1 DEF Types
  <2> QED BY <1>0, <2>1, <2>2, <2>3 DEF Types
<1>6. Sessions'
  <2> SUFFICES ASSUME NEW s \in DOMAIN broker'
               PROVE  Known(s)' /\ Fresh(s)' /\ (Window(s)' \/ Stuck(s)')
    BY DEF Sessions
  <2>1. \A e \in 1..I32_MAX : Named(s, e)' => Named(s, e)
    OBVIOUS
  <2>2. CASE s = next_id /\ r.id = 0 /\ grants
    <3>1. \A e \in 1..I32_MAX : ~Named(s, e)
      BY <1>0, <1>2, <2>2 DEF Named, Types, Requests, IsRequest
    <3>2. \A e \in 1..I32_MAX : ~Named(s, e)'
      BY <2>1, <3>1
    <3>3. broker'[s].epoch = 1 /\ 1 \in 1..I32_MAX
      BY <1>3, <2>2, FetchSessionAssumption
    <3>4. \A b \in Pollers : ~Owed(b, s)
      BY <1>0, <1>2, <2>2 DEF Owed, Requests
    <3>5. ~Named(s, 1)'
      BY <3>2, <3>3
    <3>6. Known(s)'
      BY <3>3, <3>5 DEF Known, Named
    <3>7. Fresh(s)'
      <4>1. \A b \in Pollers : Owed(b, s)' => b = a /\ request'[b].desired = broker'[s].topics
        BY <1>3, <2>2, <3>4
      <4> QED BY <3>3, <3>5, <4>1 DEF Fresh
    <3>8. Window(s)'
      BY <3>2 DEF Window
    <3> QED BY <3>6, <3>7, <3>8
  <2>3. CASE s = r.id /\ Advancing(r)
    <3>1. PICK k : k = broker[s].epoch
      OBVIOUS
    <3>2. /\ s \in DOMAIN broker /\ k \in 1..I32_MAX /\ r.epoch = k
          /\ broker'[s].epoch = next_epoch(k) /\ Named(s, k)
      BY <1>2, <1>4, <2>3, <3>1 DEF Advancing
    <3>3. Known(s) /\ Fresh(s) /\ (Window(s) \/ Stuck(s))
      BY <1>0, <3>2 DEF Sessions
    <3>4. sent \in 0..MaxFetches
      BY <1>0 DEF Types
    <3>5. /\ Window(s)' /\ ~Named(s, next_epoch(k))'
          /\ \A b \in Pollers : ~Owed(b, s)
          /\ Known(s)'
      BY <2>1, <3>1, <3>2, <3>3, <3>4, SessionAdvanced
    <3>6. \A b \in Pollers : Owed(b, s)' => b = a /\ request'[b].desired = broker'[s].topics
      BY <1>3, <2>3, <3>5
    <3>7. Fresh(s)'
      BY <3>2, <3>5, <3>6 DEF Fresh
    <3> QED BY <3>5, <3>7
  <2>4. CASE ~(s = next_id /\ r.id = 0 /\ grants) /\ ~(s = r.id /\ Advancing(r))
    <3>1. s \in DOMAIN broker /\ broker'[s] = broker[s]
      BY <1>3, <2>4 DEF Advancing
    <3>2. Known(s) /\ Fresh(s) /\ (Window(s) \/ Stuck(s))
      BY <1>0, <3>1 DEF Sessions
    <3>3. broker[s].epoch \in 1..I32_MAX /\ s # 0
      BY <1>2, <3>1
    <3>4. ~(h.code = "ok" /\ s = h.id)
      BY <1>2, <1>3, <2>4, <3>1, <3>3 DEF Advancing
    <3>5. \A b \in Pollers :
            Owed(b, s)' => Owed(b, s) /\ request'[b].desired = request[b].desired
      BY <3>4
    <3>6. \A b \in Pollers :
            IsSent(b)' /\ request'[b].id = s /\ request'[b].epoch = broker[s].epoch =>
              Merge(request'[b], broker[s].topics) = request'[b].desired
      BY <3>2 DEF Known
    <3>7. Window(s) => Window(s)'
      <4>1. sent \in Nat
        BY <1>0 DEF Types
      <4>2. Load' + sent <= Load + sent' /\ sent' \in Nat
        BY <4>1
      <4> QED BY <2>1, <3>1, <3>3, <4>1, <4>2, WindowKept
    <3> QED BY <2>1, <3>1, <3>2, <3>3, <3>5, <3>6, <3>7, SessionKept
  <2> QED BY <2>2, <2>3, <2>4
<1> QED BY <1>5, <1>6

LEMMA AnswerKeeps ==
    ASSUME IInv, NEW a \in Pollers, NEW grants \in BOOLEAN, BrokerAnswers(a, grants)
    PROVE  IInv'
<1>0. Types /\ Requests /\ Calm /\ Sessions /\ ServedIsAsked
  BY DEF IInv
<1>1. PICK r : r = request[a]
  OBVIOUS
<1>2. PICK h : h = Handled(r, grants)
  OBVIOUS
<1>3. /\ IsSent(a) /\ (grants => next_id <= MaxSessions)
      /\ Took(h)
      /\ request' = [request EXCEPT ![a] =
           [state |-> "answered", code |-> h.code, answer_id |-> h.id,
            served |-> h.served, desired |-> r.desired]]
      /\ session' = session /\ strays' = strays /\ sent' = sent /\ calm' = calm
  BY <1>1, <1>2 DEF BrokerAnswers, IsSent
<1>4. PICK x : x = [state |-> "answered", code |-> h.code, answer_id |-> h.id,
                    served |-> h.served, desired |-> r.desired]
  OBVIOUS
<1>5. x.state = "answered" /\ x.code = h.code /\ x.answer_id = h.id
      /\ x.served = h.served /\ x.desired = r.desired
  BY <1>4
<1>6. Touches(a) /\ request'[a] = x
  BY <1>0, <1>3, <1>4 DEF Requests, Touches
<1>7. /\ ~IsSent(a)'
      /\ \A b \in Pollers \ {a} : IsSent(b)' <=> IsSent(b)
      /\ \A b \in Pollers : IsSent(b)' => IsSent(b) /\ request'[b] = request[b]
  BY <1>5, <1>6 DEF IsSent, Touches
<1>8. Load \in Nat /\ Load >= 1 /\ Load' = Load - 1 /\ Load' \in Nat
  <2>1. Senders' = Senders \ {a} /\ a \in Senders
    BY <1>3, <1>7 DEF Senders
  <2>2. IsFiniteSet(strays)
    BY <1>0 DEF Requests
  <2> QED BY <1>3, <2>1, <2>2, LoadFalls, LoadIsNat
<1>9. /\ IsRequest(r) /\ r.desired \in Desired
      /\ r.id = 0 => r.topics = r.desired
      /\ Named(r.id, r.epoch)
  BY <1>0, <1>1, <1>3 DEF Requests, Named
<1>10. h.code = "ok" => h.served = r.desired
  <2>1. CASE r.id = 0
    BY <1>2, <1>9, <2>1, Handles
  <2>2. CASE r.id # 0 /\ ~Advancing(r)
    BY <1>2, <2>2, Handles
  <2>3. CASE Advancing(r)
    <3>1. Known(r.id)
      BY <1>0, <2>3 DEF Sessions, Advancing
    <3>2. Merge(r, broker[r.id].topics) = r.desired
      BY <1>1, <1>3, <2>3, <3>1 DEF Known, Advancing
    <3> QED BY <1>2, <2>3, <3>2, Handles
  <2> QED BY <2>1, <2>2, <2>3 DEF Advancing
<1>11. Types' /\ Sessions'
  <2>1. \A s \in DOMAIN broker' : \A e \in 1..I32_MAX : Named(s, e)' => Named(s, e)
    BY <1>3, <1>7 DEF Named
  <2>2. \A b \in Pollers : \A s \in DOMAIN broker' :
          Owed(b, s)' =>
            \/ Owed(b, s) /\ request'[b].desired = request[b].desired
            \/ b = a /\ h.code = "ok" /\ s = h.id /\ request'[b].desired = h.served
    BY <1>5, <1>6, <1>10 DEF Owed, Touches
  <2> QED BY <1>2, <1>3, <1>7, <1>8, <1>9, <2>1, <2>2, TakenKeeps
<1>12. next_id' >= next_id /\ next_id \in Nat /\ next_id' \in Nat /\ next_id >= 1
       /\ h.id \in Nat /\ h.id < next_id'
  <2>1. next_id \in Nat /\ next_id >= 1 /\ next_id \notin DOMAIN broker
    BY <1>0 DEF Types
  <2>2. next_id' = IF next_id \in DOMAIN h.broker THEN next_id + 1 ELSE next_id
    BY <1>3 DEF Took
  <2>3. r.id \in Nat /\ r.id < next_id
    BY <1>9 DEF IsRequest
  <2>4. CASE r.id = 0
    <3>1. /\ h.id = IF grants THEN next_id ELSE 0
          /\ grants => next_id \in DOMAIN h.broker
      BY <1>2, <2>4, Handles
    <3> QED BY <2>1, <2>2, <3>1
  <2>5. CASE r.id # 0
    <3>1. h.id = 0 \/ h.id = r.id
      BY <1>2, <2>5, Handles
    <3> QED BY <2>1, <2>2, <2>3, <3>1
  <2> QED BY <2>4, <2>5
<1>13. Requests'
  <2>1. \A b \in Pollers \ {a} : request'[b] = request[b]
    BY <1>6 DEF Touches
  <2>2. DOMAIN request' = Pollers
    BY <1>6 DEF Touches
  <2>3. \A y : IsRequest(y) => IsRequest(y)'
    BY <1>12 DEF IsRequest
  <2>4. IsFiniteSet(strays') /\ \A y \in strays' : IsRequest(y)'
    BY <1>0, <1>3, <2>3 DEF Requests
  <2>5. Load' <= sent' + 1
    <3>1. Load <= sent + 1 /\ sent \in Nat
      BY <1>0 DEF Requests, Types
    <3> QED BY <1>3, <1>8, <3>1
  <2>6. \A b \in Pollers : IsSent(b)' =>
          /\ IsRequest(request[b])' /\ request'[b].desired \in Desired
          /\ request'[b].id = 0 => request'[b].topics = request'[b].desired
    BY <1>0, <1>7, <2>3 DEF Requests
  <2>7. \A b \in Pollers :
          /\ request'[b] = Idle \/ request'[b].state \in {"sent", "answered"}
          /\ request'[b].state = "answered" =>
               /\ request'[b].desired \in Desired
               /\ request'[b].answer_id \in Nat /\ request'[b].answer_id < next_id'
    BY <1>0, <1>5, <1>6, <1>9, <1>12, <2>1 DEF Requests
  <2> QED BY <2>2, <2>4, <2>5, <2>6, <2>7 DEF Requests
<1>14. Calm'
  <2> SUFFICES ASSUME calm PROVE Calm'
    BY <1>3 DEF Calm
  <2>1. Idle.state = "idle"
    BY DEF Idle
  <2>2. /\ strays = {} /\ sent = 0
        /\ session.id # 0 => session.id \in DOMAIN broker
        /\ \A b \in Pollers : request[b] # Idle => b = a
        /\ r.id = session.id /\ r.epoch = session.epoch
    BY <1>0, <1>1, <1>3, <2>1 DEF Calm, IsSent
  <2>3. \A b \in Pollers \ {a} : request[b] = Idle /\ request'[b] = Idle
    BY <1>6, <2>2 DEF Touches
  <2>4. \A b \in Pollers : request[b].state # "answered"
    BY <1>3, <2>1, <2>3 DEF IsSent
  <2>5. session.id # 0 => broker[session.id].epoch = session.epoch
    BY <1>0, <2>4 DEF Calm
  <2>6. r.id = 0 \/ Advancing(r)
    BY <2>2, <2>5 DEF Advancing
  <2>7. broker' = h.broker /\ next_id \notin DOMAIN broker
    BY <1>0, <1>3 DEF Took, Types
  <2>8. /\ h.code = "ok"
        /\ h.id # 0 => h.id \in DOMAIN broker' /\ broker'[h.id].epoch = next_epoch(session.epoch)
        /\ session.id # 0 => session.id \in DOMAIN broker'
    <3>1. CASE r.id = 0
      <4>1. session.epoch = 0 /\ session.id = 0
        BY <1>0, <2>2, <3>1 DEF Types
      <4>2. next_epoch(0) = 1
        BY FetchSessionAssumption DEF next_epoch
      <4> QED BY <1>2, <2>7, <3>1, <4>1, <4>2, Handles
    <3>2. CASE Advancing(r)
      <4>1. r.epoch \in 1..I32_MAX
        BY <1>0, <3>2 DEF Types, Advancing
      <4>2. EpochAfter(r.epoch) = next_epoch(r.epoch)
        BY <4>1, EpochsAgree
      <4> QED BY <1>2, <2>2, <2>7, <3>2, <4>2, Handles DEF Advancing
    <3> QED BY <2>6, <3>1, <3>2
  <2>9. \A b \in Pollers : request'[b] # Idle => b = a
    BY <2>3
  <2>10. \A b \in Pollers : ~IsSent(b)'
    BY <1>7, <2>1, <2>3 DEF IsSent
  <2>11. \A b \in Pollers : request'[b].state = "answered" => b = a
    BY <2>1, <2>3
  <2> QED BY <1>3, <1>5, <1>6, <2>2, <2>8, <2>9, <2>10, <2>11 DEF Calm
<1>15. ServedIsAsked'
  BY <1>0, <1>5, <1>6, <1>10 DEF ServedIsAsked, Touches
<1> QED BY <1>11, <1>13, <1>14, <1>15 DEF IInv

LEMMA StrayKeeps ==
    ASSUME IInv, NEW r \in strays, BrokerTakesStray(r)
    PROVE  IInv'
<1>0. Types /\ Requests /\ Calm /\ Sessions /\ ServedIsAsked
  BY DEF IInv
<1>1. PICK grants \in BOOLEAN : grants = TRUE
  OBVIOUS
<1>2. PICK h : h = Handled(r, grants)
  OBVIOUS
<1>3. /\ r.id = 0 /\ grants => next_id <= MaxSessions
      /\ Took(h)
      /\ strays' = strays \ {r}
      /\ session' = session /\ request' = request /\ sent' = sent /\ calm' = calm
  BY <1>1, <1>2 DEF BrokerTakesStray
<1>4. \A b \in Pollers : (IsSent(b)' <=> IsSent(b)) /\ request'[b] = request[b]
  BY <1>3 DEF IsSent
<1>5. /\ Load \in Nat /\ Load >= 1 /\ Load' = Load - 1 /\ Load' \in Nat
      /\ IsFiniteSet(strays')
  <2>1. Senders' = Senders
    BY <1>4 DEF Senders
  <2>2. IsFiniteSet(strays)
    BY <1>0 DEF Requests
  <2> QED BY <1>3, <2>1, <2>2, LoadFallsStray, LoadIsNat
<1>6. IsRequest(r) /\ Named(r.id, r.epoch)
  BY <1>0 DEF Requests, Named
<1>7. Types' /\ Sessions'
  <2>1. \A s \in DOMAIN broker' : \A e \in 1..I32_MAX : Named(s, e)' => Named(s, e)
    BY <1>3, <1>4 DEF Named
  <2>2. \A b \in Pollers : \A s \in DOMAIN broker' :
          Owed(b, s)' =>
            \/ Owed(b, s) /\ request'[b].desired = request[b].desired
            \/ b = r /\ h.code = "ok" /\ s = h.id /\ request'[b].desired = h.served
    BY <1>4 DEF Owed
  <2>3. \A b \in Pollers : IsSent(b)' => IsSent(b) /\ request'[b] = request[b]
    BY <1>4
  <2> QED BY <1>2, <1>3, <1>5, <1>6, <2>1, <2>2, <2>3, TakenKeeps
<1>8. Requests'
  <2>1. next_id' >= next_id /\ next_id \in Nat /\ next_id' \in Nat
    BY <1>0, <1>3 DEF Took, Types
  <2>2. \A y : IsRequest(y) => IsRequest(y)'
    BY <2>1 DEF IsRequest
  <2>3. \A y \in strays' : IsRequest(y)'
    BY <1>0, <1>3, <2>2 DEF Requests
  <2>4. Load' <= sent' + 1
    <3>1. Load <= sent + 1 /\ sent \in Nat
      BY <1>0 DEF Requests, Types
    <3> QED BY <1>3, <1>5, <3>1
  <2>5. \A b \in Pollers : IsSent(b)' => IsRequest(request[b])'
    BY <1>0, <1>4, <2>2 DEF Requests
  <2> QED BY <1>0, <1>3, <1>4, <1>5, <2>1, <2>3, <2>4, <2>5 DEF Requests
<1>9. Calm'
  BY <1>0, <1>3 DEF Calm
<1>10. ServedIsAsked'
  BY <1>0, <1>3 DEF ServedIsAsked
<1> QED BY <1>7, <1>8, <1>9, <1>10 DEF IInv

------------------------------------------------------------------------------
(* The theorems. *)

LEMMA InitHolds == Init => IInv
<1> SUFFICES ASSUME Init PROVE IInv
  OBVIOUS
<1>1. /\ session = NoSession /\ request = [a \in Pollers |-> Idle] /\ strays = {}
      /\ broker = Empty /\ next_id = 1 /\ sent = 0 /\ calm = TRUE
  BY DEF Init
<1>2. /\ Idle.state = "idle" /\ NoSession.id = 0 /\ NoSession.epoch = 0
      /\ NoSession.topics = Empty /\ DOMAIN Empty = {}
  BY DEF Idle, NoSession, INITIAL_EPOCH, Empty
<1>3. \A a \in Pollers : request[a] = Idle /\ ~IsSent(a)
  BY <1>1, <1>2 DEF IsSent
<1>4. Load = 0
  <2>1. Senders = {}
    BY <1>3 DEF Senders
  <2> QED BY <1>1, <2>1, FS_EmptySet DEF Load
<1>5. Types
  BY <1>1, <1>2, FetchSessionAssumption DEF Types
<1>6. Requests
  BY <1>1, <1>2, <1>3, <1>4, FS_EmptySet DEF Requests
<1>7. Calm
  BY <1>1, <1>2, <1>3 DEF Calm
<1>8. Sessions
  BY <1>1, <1>2 DEF Sessions
<1>9. ServedIsAsked
  BY <1>2, <1>3 DEF ServedIsAsked
<1> QED BY <1>5, <1>6, <1>7, <1>8, <1>9 DEF IInv

LEMMA StepKeeps == IInv /\ [Next]_vars => IInv'
<1> SUFFICES ASSUME IInv, [Next]_vars PROVE IInv'
  OBVIOUS
<1>1. ASSUME NEW a \in Pollers, NEW desired \in Desired, build_request(a, desired)
      PROVE  IInv'
  BY <1>1, BuildKeeps
<1>2. ASSUME NEW a \in Pollers, AnswerRead(a)
      PROVE  IInv'
  BY <1>2, ReadKeeps
<1>3. ASSUME NEW a \in Pollers, NEW arrives \in BOOLEAN,
             SendFails(a, arrives) \/ Dropped(a, arrives)
      PROVE  IInv'
  <2>1. /\ Abandon(a, arrives) /\ UNCHANGED <<broker, next_id, sent>>
        /\ session' = session \/ session' = NoSession
    BY <1>3 DEF SendFails, Dropped
  <2> QED BY <2>1, AbandonKeeps
<1>4. ASSUME NEW a \in Pollers, NEW grants \in BOOLEAN, BrokerAnswers(a, grants)
      PROVE  IInv'
  BY <1>4, AnswerKeeps
<1>5. ASSUME NEW delivered \in BOOLEAN, close_all(delivered)
      PROVE  IInv'
  <2>1. /\ session' = NoSession /\ calm' = FALSE
        /\ UNCHANGED <<request, strays, next_id, sent>>
        /\ DOMAIN broker' \subseteq DOMAIN broker
        /\ \A s \in DOMAIN broker' : broker'[s] = broker[s]
    BY <1>5 DEF close_all, Restrict
  <2> QED BY <2>1, ForgetKeeps
<1>6. ASSUME NEW r \in strays, BrokerTakesStray(r)
      PROVE  IInv'
  BY <1>6, StrayKeeps
<1>7. ASSUME NEW id \in DOMAIN broker, Evict(id)
      PROVE  IInv'
  <2>1. /\ session' = session /\ calm' = FALSE
        /\ UNCHANGED <<request, strays, next_id, sent>>
        /\ DOMAIN broker' \subseteq DOMAIN broker
        /\ \A s \in DOMAIN broker' : broker'[s] = broker[s]
    BY <1>7 DEF Evict, Restrict
  <2> QED BY <2>1, ForgetKeeps
<1>8. CASE UNCHANGED vars
  <2>1. \A b \in Pollers : IsSent(b)' <=> IsSent(b)
    BY <1>8 DEF vars, IsSent
  <2>2. Load' = Load
    <3>1. Senders' = Senders
      BY <2>1 DEF Senders
    <3> QED BY <1>8, <3>1 DEF vars, Load
  <2>3. \A s, e : Named(s, e)' <=> Named(s, e)
    BY <1>8, <2>1 DEF vars, Named
  <2>4. \A b \in Pollers : \A s : Owed(b, s)' <=> Owed(b, s)
    BY <1>8 DEF vars, Owed
  <2>5. Types' /\ Requests' /\ Calm' /\ ServedIsAsked'
    BY <1>8, <2>1, <2>2 DEF vars, IInv, Types, Requests, IsRequest, Calm, ServedIsAsked
  <2>6. \A s \in DOMAIN broker : Known(s)' /\ Fresh(s)' /\ (Window(s)' \/ Stuck(s)')
    <3> SUFFICES ASSUME NEW s \in DOMAIN broker
                 PROVE  Known(s)' /\ Fresh(s)' /\ (Window(s)' \/ Stuck(s)')
      OBVIOUS
    <3>1. Known(s) /\ Fresh(s) /\ (Window(s) \/ Stuck(s))
      BY DEF IInv, Sessions
    <3>2. Known(s)'
      BY <1>8, <2>1, <3>1 DEF vars, Known
    <3>3. Fresh(s)'
      BY <1>8, <2>3, <2>4, <3>1 DEF vars, Fresh
    <3>4. Window(s) => Window(s)'
      BY <1>8, <2>2, <2>3 DEF vars, Window
    <3>5. Stuck(s) => Stuck(s)'
      BY <1>8, <2>3, <2>4 DEF vars, Stuck
    <3> QED BY <3>1, <3>2, <3>3, <3>4, <3>5
  <2> QED BY <1>8, <2>5, <2>6 DEF vars, IInv, Sessions
<1> QED BY <1>1, <1>2, <1>3, <1>4, <1>5, <1>6, <1>7, <1>8 DEF Next

LEMMA InvariantHolds == Spec => []IInv
BY InitHolds, StepKeeps, PTL DEF Spec

\* A poll is answered for exactly what it asked (fetch_session.rs: only changes
\* are sent), whatever is lost, late, duplicated by a second poller or evicted.
THEOREM AlwaysServedAsAsked == Spec => []ServedIsAsked
<1>1. IInv => ServedIsAsked
  BY DEF IInv
<1> QED BY <1>1, InvariantHolds, PTL

\* A client that polls one request at a time and loses none is never refused for
\* its session: next_epoch agrees with the broker for ever, over the wrap too.
THEOREM AlwaysInStep == Spec => []InStep
<1>1. IInv => InStep
  BY DEF IInv, Calm, InStep
<1> QED BY <1>1, InvariantHolds, PTL

\* The types of the session, the requests and the broker's sessions.
THEOREM AlwaysTyped == Spec => []TypeOK
<1>1. IInv => TypeOK
  <2> SUFFICES ASSUME IInv PROVE TypeOK
    OBVIOUS
  <2>1. Types /\ Requests
    BY DEF IInv
  <2>2. session.id \in 0..MaxSessions
    BY <2>1, FetchSessionAssumption DEF Types
  <2>3. \A a \in Pollers : request[a].state \in {"idle", "sent", "answered"}
    BY <2>1 DEF Requests, Idle
  <2> QED BY <2>1, <2>2, <2>3 DEF Types, TypeOK, INITIAL_EPOCH
<1> QED BY <1>1, InvariantHolds, PTL
==============================================================================
