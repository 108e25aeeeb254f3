-------------------------- MODULE ConnectionProofs --------------------------
(***************************************************************************)
(* What one broker connection keeps, for any calls, limit, id space,       *)
(* throttling and dropping: no slot is lost, an answer is the caller's     *)
(* own, and only a request that was written times out.                     *)
(***************************************************************************)
EXTENDS Connection, FiniteSetTheorems, TLAPS

States == {"idle", "permit", "full", "queued", "parked", "writing", "pending",
           "done"}
Holding == {"full", "queued", "parked", "writing", "pending"}

Distinct(s) == \A i, j \in DOMAIN s : s[i] = s[j] => i = j

Types ==
    /\ at \in [Calls -> States]
    /\ result \in [Calls -> {None} \cup Errors \cup Calls]
    /\ dropped \subseteq Requests
    /\ loop \in {"select", "writing", "stopped"}
    /\ muted \in BOOLEAN
    /\ next_id \in 0..ID_SPACE - 1
    /\ id \in [Calls -> 0..ID_SPACE - 1 \cup {None}]
    /\ \A c \in Requests : at[c] # "idle" => id[c] \in 0..ID_SPACE - 1

(* A call is in one place, once, and `at` says which. *)
Waiting ==
    /\ waiters \in Seq(Requests)
    /\ \A i \in DOMAIN waiters : at[waiters[i]] = "permit"
    /\ Distinct(waiters)

Queueing ==
    /\ channel \in Seq(Calls)
    /\ \A i \in DOMAIN channel : at[channel[i]] = "queued"
    /\ Distinct(channel)
    /\ Len(channel) <= MAX_IN_FLIGHT

Parking ==
    /\ parked \in {None} \cup Calls
    /\ loop = "writing" => parked # None /\ parked \in written
    /\ parked # None => at[parked] = IF loop = "writing" THEN "writing" ELSE "parked"

Pairing ==
    \A k \in DOMAIN pending :
        /\ pending[k] \in Requests
        /\ id[pending[k]] = k
        /\ at[pending[k]] = "pending"
        /\ pending[k] \in written

(* A frame belongs to the request under its id, or to the one that is      *)
(* being written and will be under its id before the loop reads again.     *)
Expected(f) ==
    \/ loop = "writing" /\ parked = f
    \/ id[f] \in DOMAIN pending /\ pending[id[f]] = f

Frames ==
    /\ outbox \in Seq(Requests)
    /\ inbox \in Seq(Requests)
    /\ \A i \in DOMAIN outbox : Expected(outbox[i])
    /\ \A i \in DOMAIN inbox : Expected(inbox[i])
    /\ Distinct(outbox) /\ Distinct(inbox)
    /\ \A i \in DOMAIN outbox, j \in DOMAIN inbox : outbox[i] # inbox[j]
    /\ Len(inbox) <= MAX_IN_FLIGHT

Holders == {c \in Requests : at[c] \in Holding}
Waits == {c \in Requests : at[c] = "pending"}

Slots ==
    /\ permits \in Nat
    /\ permits + Cardinality(Holders) = MAX_IN_FLIGHT

Count ==
    /\ IsFiniteSet(DOMAIN pending)
    /\ Cardinality(DOMAIN pending) <= Cardinality(Waits)

Told ==
    /\ \A c \in Calls : result[c] # "WouldBlock"
    /\ OwnAnswer
    /\ TimeoutIsOfWritten

IInv ==
    /\ Types /\ Waiting /\ Queueing /\ Parking /\ Pairing /\ Frames
    /\ Slots /\ Count /\ Told

-----------------------------------------------------------------------------
(* Sequences. *)

(* What appending a new element to a queue does. *)
LEMMA Appended ==
    ASSUME NEW S, NEW s \in Seq(S), NEW x \in S
    PROVE  /\ Append(s, x) \in Seq(S)
           /\ Len(Append(s, x)) = Len(s) + 1
           /\ \A i \in DOMAIN Append(s, x) :
                 \/ i \in DOMAIN s /\ Append(s, x)[i] = s[i]
                 \/ Append(s, x)[i] = x
           /\ Distinct(s) /\ (\A i \in DOMAIN s : s[i] # x)
                 => Distinct(Append(s, x))
BY DEF Distinct

(* What taking the first element off a queue does. *)
LEMMA Taken ==
    ASSUME NEW S, NEW s \in Seq(S), s # <<>>
    PROVE  /\ Tail(s) \in Seq(S)
           /\ Len(Tail(s)) = Len(s) - 1
           /\ Head(s) \in S
           /\ 1 \in DOMAIN s /\ Head(s) = s[1]
           /\ \A i \in DOMAIN Tail(s) : i + 1 \in DOMAIN s /\ Tail(s)[i] = s[i + 1]
           /\ Distinct(s) => /\ Distinct(Tail(s))
                             /\ \A i \in DOMAIN Tail(s) : Tail(s)[i] # Head(s)
<1>1. /\ Tail(s) \in Seq(S) /\ Len(Tail(s)) = Len(s) - 1 /\ Head(s) \in S
      /\ 1 \in DOMAIN s /\ Head(s) = s[1]
      /\ DOMAIN s = 1..Len(s) /\ DOMAIN Tail(s) = 1..Len(s) - 1 /\ Len(s) \in Nat
  OBVIOUS
<1>2. \A i \in DOMAIN Tail(s) : i + 1 \in DOMAIN s /\ Tail(s)[i] = s[i + 1]
  BY <1>1
<1>3. ASSUME Distinct(s)
      PROVE  /\ Distinct(Tail(s))
             /\ \A i \in DOMAIN Tail(s) : Tail(s)[i] # Head(s)
  BY <1>1, <1>2, <1>3 DEF Distinct
<1> QED BY <1>1, <1>2, <1>3

(* A waiter that leaves its queue leaves the others where they were. *)
LEMMA Left ==
    ASSUME NEW S, NEW s \in Seq(S), NEW c, Distinct(s)
    PROVE  /\ Without(s, c) \in Seq(S)
           /\ \A i \in DOMAIN Without(s, c) :
                 \E j \in DOMAIN s : Without(s, c)[i] = s[j] /\ s[j] # c
           /\ Distinct(Without(s, c))
<1> DEFINE t == Without(s, c)
<1>1. DOMAIN s = 1..Len(s) /\ Len(s) \in Nat /\ \A i \in DOMAIN s : s[i] \in S
  OBVIOUS
<1>2. CASE ~\E i \in DOMAIN s : s[i] = c
  <2>1. t = s BY <1>2 DEF Without
  <2> QED BY <2>1, <1>2, <1>1
<1>3. CASE \E i \in DOMAIN s : s[i] = c
  <2>1. PICK k \in DOMAIN s : /\ s[k] = c
             /\ t = [i \in 1..Len(s) - 1 |-> IF i < k THEN s[i] ELSE s[i + 1]]
    BY <1>3 DEF Without
  <2>2. DOMAIN t = 1..Len(s) - 1 BY <2>1
  <2>3. \A i \in 1..Len(s) - 1 :
            t[i] = s[IF i < k THEN i ELSE i + 1] /\ (IF i < k THEN i ELSE i + 1) \in DOMAIN s
    BY <2>1, <1>1
  <2>4. t \in Seq(S)
    <3>1. Len(s) - 1 \in Nat BY <1>1, <2>1
    <3>2. t \in [1..Len(s) - 1 -> S] BY <2>1, <1>1
    <3> HIDE DEF t
    <3> QED BY <3>1, <3>2
  <2>5. \A i \in 1..Len(s) - 1 : (IF i < k THEN i ELSE i + 1) # k
    BY <1>1, <2>1
  <2>6. \A i, j \in 1..Len(s) - 1 :
            (IF i < k THEN i ELSE i + 1) = (IF j < k THEN j ELSE j + 1) => i = j
    BY <1>1, <2>1
  <2> HIDE DEF t
  <2>7. \A i \in DOMAIN t : \E j \in DOMAIN s : t[i] = s[j] /\ s[j] # c
    BY <2>1, <2>2, <2>3, <2>5 DEF Distinct
  <2>8. Distinct(t) BY <2>2, <2>3, <2>6 DEF Distinct
  <2> QED BY <2>4, <2>7, <2>8 DEF t
<1> QED BY <1>2, <1>3

-----------------------------------------------------------------------------
(* Slots. *)

(* Holders are finitely many, and so are those of them that wait. *)
LEMMA HoldersFinite ==
    /\ IsFiniteSet(Holders) /\ Cardinality(Holders) \in Nat
    /\ IsFiniteSet(Waits) /\ Cardinality(Waits) \in Nat
<1>1. IsFiniteSet(Requests) BY ConnectionAssumption
<1>2. Holders \subseteq Requests /\ Waits \subseteq Requests BY DEF Holders, Waits
<1> QED BY <1>1, <1>2, FS_Subset, FS_CardinalityType

(* The slots of requests that leave are the ones that become free. *)
LEMMA SlotsFreed ==
    ASSUME Slots, NEW gone, NEW H, NEW p,
           gone \cap Requests \subseteq Holders,
           H = Holders \ gone,
           p = permits + Cardinality(gone \cap Requests)
    PROVE  p \in Nat /\ p + Cardinality(H) = MAX_IN_FLIGHT
<1>1. IsFiniteSet(Holders) /\ Cardinality(Holders) \in Nat BY HoldersFinite
<1>2. Holders \cap (gone \cap Requests) = gone \cap Requests OBVIOUS
<1>3. H = Holders \ (gone \cap Requests) BY DEF Holders
<1>4. Cardinality(H) = Cardinality(Holders) - Cardinality(gone \cap Requests)
  <2>1. PICK G : G = gone \cap Requests OBVIOUS
  <2>2. Cardinality(Holders \ G) = Cardinality(Holders) - Cardinality(Holders \cap G)
    BY <1>1, FS_Difference
  <2> QED BY <1>2, <1>3, <2>1, <2>2
<1>5. IsFiniteSet(gone \cap Requests) /\ IsFiniteSet(H)
  BY <1>1, <1>3, FS_Subset
<1>6. Cardinality(gone \cap Requests) \in Nat /\ Cardinality(H) \in Nat
  BY <1>5, FS_CardinalityType
<1>7. permits \in Nat /\ permits + Cardinality(Holders) = MAX_IN_FLIGHT BY DEF Slots
<1> QED BY <1>1, <1>4, <1>6, <1>7

(* A request that gets a slot is a holder more. *)
LEMMA SlotsTaken ==
    ASSUME Slots, permits > 0, NEW c, c \notin Holders
    PROVE  permits - 1 \in Nat /\ permits - 1 + Cardinality(Holders \cup {c}) = MAX_IN_FLIGHT
<1>1. IsFiniteSet(Holders) /\ Cardinality(Holders) \in Nat BY HoldersFinite
<1>2. Cardinality(Holders \cup {c}) = Cardinality(Holders) + 1 BY <1>1, FS_AddElement
<1>3. permits \in Nat /\ permits + Cardinality(Holders) = MAX_IN_FLIGHT BY DEF Slots
<1> QED BY <1>1, <1>2, <1>3

(* While a request is being written, fewer than the limit are pending. *)
LEMMA NeverFull ==
    ASSUME IInv, loop = "writing", parked \in Requests
    PROVE  ~(Cardinality(DOMAIN pending) >= MAX_IN_FLIGHT)
<1>0. parked # None BY ConnectionAssumption DEF Calls
<1>1. at[parked] = "writing" BY <1>0 DEF IInv, Parking
<1>2. Waits \subseteq Holders \ {parked} BY <1>1 DEF Waits, Holders, Holding
<1>3. parked \in Holders BY <1>1 DEF Holders, Holding
<1>4. /\ Cardinality(Holders \ {parked}) = Cardinality(Holders) - 1
      /\ IsFiniteSet(Holders \ {parked})
  BY <1>3, HoldersFinite, FS_RemoveElement
<1>5. Cardinality(Waits) <= Cardinality(Holders) - 1
  BY <1>2, <1>4, FS_Subset
<1>6. Cardinality(DOMAIN pending) <= Cardinality(Waits) /\ Cardinality(DOMAIN pending) \in Nat
  BY FS_CardinalityType DEF IInv, Count
<1>7. permits \in Nat /\ permits + Cardinality(Holders) = MAX_IN_FLIGHT
  BY DEF IInv, Slots
<1>8. Cardinality(Holders) \in Nat /\ Cardinality(Waits) \in Nat BY HoldersFinite
<1> QED BY <1>5, <1>6, <1>7, <1>8

-----------------------------------------------------------------------------
(* Callers. *)

(* The invariant holds before the first call. *)
LEMMA InitHolds == Init => IInv
<1> SUFFICES ASSUME Init PROVE IInv OBVIOUS
<1>0. muted \in BOOLEAN BY DEF Init
<1>1. Types BY <1>0, ConnectionAssumption DEF Init, Types, States, Calls
<1>2. Waiting /\ Queueing BY ConnectionAssumption DEF Init, Waiting, Queueing, Distinct
<1>3. Parking /\ Pairing BY DEF Init, Parking, Pairing
<1>4. Frames BY ConnectionAssumption DEF Init, Frames, Distinct
<1>5. Holders = {} /\ Waits = {} BY DEF Init, Holders, Waits, Holding, Calls
<1>6. Slots BY <1>5, FS_EmptySet, ConnectionAssumption DEF Init, Slots
<1>7. DOMAIN pending = {} BY DEF Init
<1>8. Count BY <1>5, <1>7, FS_EmptySet DEF Count
<1>9. Told BY ConnectionAssumption DEF Init, Told, OwnAnswer, TimeoutIsOfWritten, Calls, Errors
<1> QED BY <1>1, <1>2, <1>3, <1>4, <1>6, <1>8, <1>9 DEF IInv

(* An error is no call, and no call or error is None. *)
LEMMA Apart ==
    /\ \A e \in Errors : e \notin Calls /\ e # None
    /\ \A c \in Calls : c # None
    /\ \A c \in Requests : c \in Calls /\ c \notin Silent
    /\ \A c \in Silent : c \in Calls /\ c \notin Requests
BY ConnectionAssumption DEF Calls

(* A step that leaves the loop, the wire and what is written alone, and    *)
(* moves only one call that is in none of their places, keeps what is said *)
(* of them.                                                                *)
LEMMA OthersKept ==
    ASSUME IInv, NEW c \in Calls,
           at[c] \notin {"queued", "parked", "writing", "pending"},
           \A x \in Calls : x # c => at'[x] = at[x],
           at'[c] # "pending",
           c \in Requests => id'[c] = id[c] \/ at[c] = "idle",
           \A x \in Calls : x # c => id'[x] = id[x],
           UNCHANGED <<parked, pending, loop, outbox, inbox, written>>
    PROVE  Parking' /\ Pairing' /\ Frames' /\ Count'
<1>1. Parking'
  <2>1. parked # None => parked # c BY DEF IInv, Parking
  <2> QED BY <2>1 DEF IInv, Parking
<1>2. Pairing'
  <2>1. \A k \in DOMAIN pending : pending[k] # c /\ pending[k] \in Calls
    BY Apart DEF IInv, Pairing
  <2> QED BY <2>1 DEF IInv, Pairing
<1>3. \A f \in Requests : Expected(f) => Expected(f)'
  <2> SUFFICES ASSUME NEW f \in Requests, Expected(f) PROVE Expected(f)' OBVIOUS
  <2>1. CASE loop = "writing" /\ parked = f BY <2>1 DEF Expected
  <2>2. CASE id[f] \in DOMAIN pending /\ pending[id[f]] = f
    <3>1. f # c /\ f \in Calls BY <2>2, Apart DEF IInv, Pairing
    <3> QED BY <2>2, <3>1 DEF Expected
  <2> QED BY <2>1, <2>2 DEF Expected
<1>4. Frames'
  <2>1. \A i \in DOMAIN outbox : outbox[i] \in Requests BY DEF IInv, Frames
  <2>2. \A i \in DOMAIN inbox : inbox[i] \in Requests BY DEF IInv, Frames
  <2> QED BY <1>3, <2>1, <2>2 DEF IInv, Frames
<1>5. Waits' = Waits BY Apart DEF Waits
<1>6. Count' BY <1>5 DEF IInv, Count
<1> QED BY <1>1, <1>2, <1>4, <1>6

(* A command that reaches the channel, waits for it or finds the loop gone *)
(* keeps the slots and the places.                                         *)
LEMMA EnqueueKeeps ==
    ASSUME IInv, NEW c \in Calls, NEW p, Enqueue(c, p), EnqueueUnchanged,
           \/ c \in Requests /\ at[c] = "permit" /\ permits > 0 /\ p = permits - 1
           \/ at[c] = "full" /\ p = permits
           \/ c \in Silent /\ at[c] = "idle" /\ p = permits
    PROVE  /\ Types' /\ Queueing' /\ Parking' /\ Pairing' /\ Frames'
           /\ Slots' /\ Count' /\ Told'
           /\ \A x \in Calls : x # c => at'[x] = at[x]
<1>0. /\ at \in [Calls -> States] /\ result \in [Calls -> {None} \cup Errors \cup Calls]
      /\ permits \in Nat
  BY DEF IInv, Types, Slots
<1>1. /\ at' \in [Calls -> States] /\ at'[c] \in {"done", "full", "queued"}
      /\ \A x \in Calls : x # c => at'[x] = at[x]
  BY <1>0 DEF Enqueue, States
<1>2. /\ result' \in [Calls -> {None} \cup Errors \cup Calls]
      /\ \A x \in Calls : x # c => result'[x] = result[x]
      /\ \/ result'[c] = result[c]
         \/ result'[c] = "Network"
         \/ c \in Silent /\ result'[c] = c
  BY <1>0 DEF Enqueue, Errors
<1>3. Types'
  <2>1. /\ dropped \subseteq Requests
        /\ loop \in {"select", "writing", "stopped"}
        /\ muted \in BOOLEAN
        /\ next_id \in 0..ID_SPACE - 1
        /\ id \in [Calls -> 0..ID_SPACE - 1 \cup {None}]
        /\ \A x \in Requests : at[x] # "idle" => id[x] \in 0..ID_SPACE - 1
    BY DEF IInv, Types
  <2>2. \A x \in Requests : at'[x] # "idle" => id'[x] \in 0..ID_SPACE - 1
    BY <2>1, <1>1, Apart DEF EnqueueUnchanged
  <2> QED BY <1>1, <1>2, <2>1, <2>2 DEF Types, EnqueueUnchanged
<1>4. Queueing'
  <2>0. channel \in Seq(Calls) /\ Distinct(channel) /\ Len(channel) <= MAX_IN_FLIGHT
        /\ \A i \in DOMAIN channel : at[channel[i]] = "queued" /\ channel[i] \in Calls
    BY DEF IInv, Queueing
  <2>1. \A i \in DOMAIN channel : channel[i] # c BY <2>0
  <2>2. CASE channel' = channel BY <2>0, <2>1, <2>2, <1>1 DEF Queueing
  <2>3. CASE /\ channel' = Append(channel, c) /\ at'[c] = "queued"
             /\ Len(channel) < MAX_IN_FLIGHT
    <3>1. channel' \in Seq(Calls) /\ Distinct(channel')
      BY <2>0, <2>1, <2>3, Appended
    <3>2. \A i \in DOMAIN channel' : at'[channel'[i]] = "queued"
      BY <2>0, <2>1, <2>3, <1>1, Appended
    <3>3. Len(channel') <= MAX_IN_FLIGHT
      BY <2>0, <2>3, ConnectionAssumption
    <3> QED BY <3>1, <3>2, <3>3 DEF Queueing
  <2> QED BY <2>2, <2>3, <1>0 DEF Enqueue
<1>5. Parking' /\ Pairing' /\ Frames' /\ Count'
  BY <1>1, OthersKept DEF EnqueueUnchanged, netVars
<1>6. Slots'
  <2>1. CASE c \in Requests /\ at[c] = "permit" /\ permits > 0 /\ p = permits - 1
    <3>0. c \notin Holders BY <2>1 DEF Holders, Holding
    <3>1. CASE loop = "stopped"
      <4>1. at'[c] = "done" BY <1>0, <3>1 DEF Enqueue
      <4>2. Holders' = Holders BY <1>1, <3>0, <4>1, Apart DEF Holders, Holding
      <4>3. permits' = permits BY <1>0, <2>1, <3>1 DEF Enqueue
      <4> QED BY <4>2, <4>3 DEF IInv, Slots
    <3>2. CASE loop # "stopped"
      <4>1. at'[c] \in {"full", "queued"} BY <1>0, <3>2 DEF Enqueue
      <4>2. Holders' = Holders \cup {c} BY <1>1, <2>1, <4>1, Apart DEF Holders, Holding
      <4>3. permits' = permits - 1 BY <2>1, <3>2 DEF Enqueue
      <4> QED BY <2>1, <3>0, <4>2, <4>3, SlotsTaken DEF IInv, Slots
    <3> QED BY <3>1, <3>2
  <2>2. CASE at[c] = "full" /\ p = permits /\ c \in Requests
    <3>1. CASE loop = "stopped"
      <4>1. at'[c] = "done" BY <1>0, <3>1 DEF Enqueue
      <4>2. Holders' = Holders \ {c} BY <1>1, <4>1, Apart DEF Holders, Holding
      <4>3. permits' = permits + 1 BY <2>2, <3>1 DEF Enqueue
      <4>4. {c} \cap Requests = {c} /\ {c} \subseteq Holders BY <2>2 DEF Holders, Holding
      <4>5. Cardinality({c} \cap Requests) = 1 BY <4>4, FS_Singleton
      <4> QED BY <4>2, <4>3, <4>4, <4>5, SlotsFreed DEF IInv, Slots
    <3>2. CASE loop # "stopped"
      <4>1. at'[c] \in {"full", "queued"} BY <1>0, <3>2 DEF Enqueue
      <4>2. Holders' = Holders BY <1>1, <2>2, <4>1, Apart DEF Holders, Holding
      <4>3. permits' = permits BY <2>2, <3>2 DEF Enqueue
      <4> QED BY <4>2, <4>3 DEF IInv, Slots
    <3> QED BY <3>1, <3>2
  <2>3. CASE c \in Silent /\ p = permits
    <3>1. Holders' = Holders BY <1>1, <2>3, Apart DEF Holders
    <3>2. permits' = permits BY <2>3, Apart DEF Enqueue
    <3> QED BY <3>1, <3>2 DEF IInv, Slots
  <2> QED BY <2>1, <2>2, <2>3 DEF Calls
<1>7. Told'
  <2>0. /\ \A x \in Calls : result[x] # "WouldBlock"
        /\ \A x \in Requests : result[x] \in Calls => result[x] = x
        /\ \A x \in Requests : result[x] = "Timeout" => x \in written
    BY DEF IInv, Told, OwnAnswer, TimeoutIsOfWritten
  <2>1. "Network" \notin Calls /\ c # "WouldBlock"
    BY Apart DEF Errors
  <2>2. \A x \in Calls : result'[x] # "WouldBlock" BY <1>2, <2>0, <2>1
  <2>3. \A x \in Requests : result'[x] \in Calls => result'[x] = x
    BY <1>2, <2>0, <2>1, Apart
  <2>4. \A x \in Requests : result'[x] = "Timeout" => x \in written
    BY <1>2, <2>0, Apart
  <2> QED BY <2>2, <2>3, <2>4 DEF Told, OwnAnswer, TimeoutIsOfWritten, EnqueueUnchanged
<1> QED BY <1>1, <1>3, <1>4, <1>5, <1>6, <1>7

(* A call moved by a step that leaves `waiters` alone was not waiting. *)
LEMMA WaitingKept ==
    ASSUME IInv, NEW c \in Calls, at[c] # "permit",
           \A x \in Calls : x # c => at'[x] = at[x],
           UNCHANGED waiters
    PROVE  Waiting'
<1>1. waiters \in Seq(Requests) /\ Distinct(waiters)
      /\ \A i \in DOMAIN waiters : at[waiters[i]] = "permit"
  BY DEF IInv, Waiting
<1>2. \A i \in DOMAIN waiters : waiters[i] \in Calls /\ waiters[i] # c
  BY <1>1, Apart
<1> QED BY <1>1, <1>2 DEF Waiting

(* The first waiter takes a slot and enqueues its command. *)
LEMMA acquire_in_flightKeeps ==
    ASSUME IInv, NEW c \in Requests, acquire_in_flight(c)
    PROVE  IInv'
<1>0. c \in Calls BY Apart
<1>1. waiters \in Seq(Requests) /\ Distinct(waiters) /\ waiters # <<>> /\ Head(waiters) = c
      /\ \A i \in DOMAIN waiters : at[waiters[i]] = "permit"
  BY DEF IInv, Waiting, acquire_in_flight
<1>2. at[c] = "permit" BY <1>1, Taken
<1>3. /\ Types' /\ Queueing' /\ Parking' /\ Pairing' /\ Frames'
      /\ Slots' /\ Count' /\ Told'
      /\ \A x \in Calls : x # c => at'[x] = at[x]
  BY <1>0, <1>2, EnqueueKeeps DEF acquire_in_flight
<1>4. waiters' = Tail(waiters) BY DEF acquire_in_flight
<1>5. \A i \in DOMAIN Tail(waiters) :
          /\ Tail(waiters)[i] # c /\ Tail(waiters)[i] \in Calls
          /\ at[Tail(waiters)[i]] = "permit"
  BY <1>1, Taken, Apart
<1>6. Waiting' BY <1>1, <1>3, <1>4, <1>5, Taken DEF Waiting
<1> QED BY <1>3, <1>6 DEF IInv

(* A command that waited for the channel is enqueued or fails with it. *)
LEMMA ChannelFreesKeeps ==
    ASSUME IInv, NEW c \in Calls, ChannelFrees(c)
    PROVE  IInv'
<1>1. /\ Types' /\ Queueing' /\ Parking' /\ Pairing' /\ Frames'
      /\ Slots' /\ Count' /\ Told'
      /\ \A x \in Calls : x # c => at'[x] = at[x]
  BY EnqueueKeeps DEF ChannelFrees
<1>2. Waiting' BY <1>1, WaitingKept DEF ChannelFrees
<1> QED BY <1>1, <1>2 DEF IInv

(* A call without an answer is enqueued without a slot. *)
LEMMA send_fire_and_forgetKeeps ==
    ASSUME IInv, NEW c \in Silent, send_fire_and_forget(c)
    PROVE  IInv'
<1>1. /\ Types' /\ Queueing' /\ Parking' /\ Pairing' /\ Frames'
      /\ Slots' /\ Count' /\ Told'
      /\ \A x \in Calls : x # c => at'[x] = at[x]
  BY Apart, EnqueueKeeps DEF send_fire_and_forget
<1>2. Waiting' BY <1>1, Apart, WaitingKept DEF send_fire_and_forget
<1> QED BY <1>1, <1>2 DEF IInv

(* A step that moves one call that is not in the channel, and leaves the   *)
(* channel alone, keeps the channel.                                       *)
LEMMA QueueingKept ==
    ASSUME IInv, NEW c \in Calls, at[c] # "queued",
           \A x \in Calls : x # c => at'[x] = at[x],
           UNCHANGED channel
    PROVE  Queueing'
<1>1. channel \in Seq(Calls) /\ Distinct(channel) /\ Len(channel) <= MAX_IN_FLIGHT
      /\ \A i \in DOMAIN channel : at[channel[i]] = "queued"
  BY DEF IInv, Queueing
<1>2. \A i \in DOMAIN channel : channel[i] \in Calls /\ channel[i] # c
  BY <1>1
<1> QED BY <1>1, <1>2 DEF Queueing

(* A new call draws its id and joins the waiters. *)
LEMMA send_innerKeeps ==
    ASSUME IInv, NEW c \in Requests, send_inner(c)
    PROVE  IInv'
<1> USE DEF send_inner, loopVars, netVars
<1>0. c \in Calls BY Apart
<1>1. /\ at \in [Calls -> States] /\ next_id \in 0..ID_SPACE - 1
      /\ id \in [Calls -> 0..ID_SPACE - 1 \cup {None}]
      /\ \A x \in Requests : at[x] # "idle" => id[x] \in 0..ID_SPACE - 1
  BY DEF IInv, Types
<1>2. /\ at' \in [Calls -> States] /\ at[c] = "idle" /\ at'[c] = "permit"
      /\ \A x \in Calls : x # c => at'[x] = at[x]
  BY <1>0, <1>1 DEF States
<1>3. /\ id' \in [Calls -> 0..ID_SPACE - 1 \cup {None}] /\ id'[c] \in 0..ID_SPACE - 1
      /\ \A x \in Calls : x # c => id'[x] = id[x]
  BY <1>0, <1>1
<1>4. next_id' \in 0..ID_SPACE - 1 BY <1>1, ConnectionAssumption
<1>5. Types'
  <2>1. \A x \in Requests : at'[x] # "idle" => id'[x] \in 0..ID_SPACE - 1
    BY <1>1, <1>2, <1>3, Apart
  <2> QED BY <1>2, <1>3, <1>4, <2>1 DEF IInv, Types
<1>6. Waiting'
  <2>1. /\ waiters \in Seq(Requests) /\ Distinct(waiters)
        /\ \A i \in DOMAIN waiters : at[waiters[i]] = "permit" /\ waiters[i] \in Calls
    BY Apart DEF IInv, Waiting
  <2>2. \A i \in DOMAIN waiters : waiters[i] # c BY <1>2, <2>1
  <2>3. waiters' \in Seq(Requests) /\ Distinct(waiters') BY <2>1, <2>2, Appended
  <2>4. \A i \in DOMAIN waiters' : at'[waiters'[i]] = "permit"
    BY <1>2, <2>1, <2>2, Appended
  <2> QED BY <2>3, <2>4 DEF Waiting
<1>7. Queueing' BY <1>0, <1>2, QueueingKept
<1>8. Parking' /\ Pairing' /\ Frames' /\ Count' BY <1>0, <1>2, <1>3, OthersKept
<1>9. Slots'
  <2>1. Holders' = Holders BY <1>2, Apart DEF Holders, Holding
  <2> QED BY <2>1 DEF IInv, Slots
<1>10. Told' BY DEF IInv, Told, OwnAnswer, TimeoutIsOfWritten
<1> QED BY <1>5, <1>6, <1>7, <1>8, <1>9, <1>10 DEF IInv

(* A call without an answer gives up on a full channel. *)
LEMMA EnqueueTimesOutKeeps ==
    ASSUME IInv, NEW c \in Silent, EnqueueTimesOut(c)
    PROVE  IInv'
<1> USE DEF EnqueueTimesOut, callVars, loopVars, netVars
<1>0. c \in Calls /\ c \notin Requests BY Apart
<1>1. /\ at \in [Calls -> States] /\ result \in [Calls -> {None} \cup Errors \cup Calls]
  BY DEF IInv, Types
<1>2. /\ at' \in [Calls -> States] /\ at[c] = "full" /\ at'[c] = "done"
      /\ \A x \in Calls : x # c => at'[x] = at[x]
  BY <1>0, <1>1 DEF States
<1>3. /\ result' \in [Calls -> {None} \cup Errors \cup Calls] /\ result'[c] = "Timeout"
      /\ \A x \in Calls : x # c => result'[x] = result[x]
  BY <1>0, <1>1 DEF Errors
<1>4. Types'
  <2>1. \A x \in Requests : at'[x] = at[x] BY <1>0, <1>2, Apart
  <2> QED BY <1>2, <1>3, <2>1 DEF IInv, Types
<1>5. Waiting' BY <1>0, <1>2, WaitingKept
<1>6. Queueing' BY <1>0, <1>2, QueueingKept
<1>7. Parking' /\ Pairing' /\ Frames' /\ Count' BY <1>0, <1>2, OthersKept
<1>8. Slots'
  <2>1. Holders' = Holders BY <1>0, <1>2, Apart DEF Holders
  <2> QED BY <2>1 DEF IInv, Slots
<1>9. Told'
  <2>1. \A x \in Requests : result'[x] = result[x] BY <1>0, <1>3, Apart
  <2>2. \A x \in Calls : result'[x] # "WouldBlock" BY <1>3 DEF IInv, Told
  <2> QED BY <2>1, <2>2 DEF IInv, Told, OwnAnswer, TimeoutIsOfWritten
<1> QED BY <1>4, <1>5, <1>6, <1>7, <1>8, <1>9 DEF IInv

(* A dropped caller gives its slot back before the channel, and leaves the *)
(* slot with its request after it.                                         *)
LEMMA DropKeeps ==
    ASSUME IInv, NEW c \in Requests, Drop(c)
    PROVE  IInv'
<1>0. c \in Calls /\ UNCHANGED <<id, next_id, loopVars, netVars, written, muted>>
  BY Apart DEF Drop
<1> USE DEF loopVars, netVars
<1>1. /\ at \in [Calls -> States] /\ result \in [Calls -> {None} \cup Errors \cup Calls]
  BY DEF IInv, Types
<1>2. /\ at' \in [Calls -> States]
      /\ \A x \in Calls : x # c => at'[x] = at[x]
      /\ IF at[c] \in {"permit", "full"} THEN at'[c] = "done" ELSE at' = at
      /\ at[c] \notin {"idle", "done"}
  BY <1>0, <1>1 DEF Drop, States
<1>3. /\ result' \in [Calls -> {None} \cup Errors \cup Calls] /\ result'[c] = "Cancelled"
      /\ \A x \in Calls : x # c => result'[x] = result[x]
  BY <1>0, <1>1 DEF Drop, Errors
<1>4. Types'
  <2>1. \A x \in Requests : at'[x] # "idle" => at[x] # "idle" BY <1>0, <1>2, Apart
  <2>2. dropped' \subseteq Requests BY DEF IInv, Types, Drop
  <2> QED BY <1>0, <1>2, <1>3, <2>1, <2>2 DEF IInv, Types
<1>5. Waiting'
  <2>1. /\ waiters \in Seq(Requests) /\ Distinct(waiters)
        /\ \A i \in DOMAIN waiters : at[waiters[i]] = "permit" /\ waiters[i] \in Calls
    BY Apart DEF IInv, Waiting
  <2>2. waiters' = Without(waiters, c) BY DEF Drop
  <2>3. waiters' \in Seq(Requests) /\ Distinct(waiters') BY <2>1, <2>2, Left
  <2>4. \A i \in DOMAIN waiters' :
            \E j \in DOMAIN waiters : waiters'[i] = waiters[j] /\ waiters[j] # c
    BY <2>1, <2>2, Left
  <2>5. \A i \in DOMAIN waiters' : at'[waiters'[i]] = "permit"
    BY <1>2, <2>1, <2>4
  <2> QED BY <2>3, <2>5 DEF Waiting
<1>6. Queueing' /\ Parking' /\ Pairing' /\ Frames' /\ Count'
  <2>1. CASE at[c] \in {"permit", "full"}
    <3>1. Queueing' BY <1>0, <1>2, <2>1, QueueingKept
    <3>2. Parking' /\ Pairing' /\ Frames' /\ Count' BY <1>0, <1>2, <2>1, OthersKept
    <3> QED BY <3>1, <3>2
  <2>2. CASE at' = at
    <3>1. Waits' = Waits BY <2>2 DEF Waits
    <3>2. \A f : Expected(f)' <=> Expected(f) BY <1>0 DEF Expected
    <3>3. Frames' BY <1>0, <3>2 DEF IInv, Frames
    <3>4. Count' BY <1>0, <3>1 DEF IInv, Count
    <3>5. Queueing' BY <1>0, <2>2 DEF IInv, Queueing
    <3>6. Parking' BY <1>0, <2>2 DEF IInv, Parking
    <3>7. Pairing' BY <1>0, <2>2 DEF IInv, Pairing
    <3> QED BY <3>3, <3>4, <3>5, <3>6, <3>7
  <2> QED BY <1>2, <2>1, <2>2
<1>7. Slots'
  <2>1. CASE at[c] = "full"
    <3>1. Holders' = Holders \ {c} BY <1>2, <2>1, Apart DEF Holders, Holding
    <3>2. permits' = permits + 1 BY <2>1 DEF Drop
    <3>3. {c} \cap Requests = {c} /\ {c} \subseteq Holders BY <2>1 DEF Holders, Holding
    <3>4. Cardinality({c} \cap Requests) = 1 BY <3>3, FS_Singleton
    <3> QED BY <3>1, <3>2, <3>3, <3>4, SlotsFreed DEF IInv, Slots
  <2>2. CASE at[c] # "full"
    <3>1. Holders' = Holders BY <1>2, <2>2, Apart DEF Holders, Holding
    <3>2. permits' = permits BY <2>2 DEF Drop
    <3> QED BY <3>1, <3>2 DEF IInv, Slots
  <2> QED BY <2>1, <2>2
<1>8. Told'
  <2>0. /\ \A x \in Calls : result[x] # "WouldBlock"
        /\ \A x \in Requests : result[x] \in Calls => result[x] = x
        /\ \A x \in Requests : result[x] = "Timeout" => x \in written
    BY DEF IInv, Told, OwnAnswer, TimeoutIsOfWritten
  <2>1. "Cancelled" \notin Calls BY Apart DEF Errors
  <2>2. \A x \in Calls : result'[x] # "WouldBlock" BY <1>3, <2>0
  <2>3. \A x \in Requests : result'[x] \in Calls => result'[x] = x
    BY <1>3, <2>0, <2>1, Apart
  <2>4. \A x \in Requests : result'[x] = "Timeout" => x \in written
    BY <1>3, <2>0, Apart
  <2> QED BY <1>0, <2>2, <2>3, <2>4 DEF Told, OwnAnswer, TimeoutIsOfWritten
<1> QED BY <1>4, <1>5, <1>6, <1>7, <1>8 DEF IInv

(* Closing, throttling and the end of the stream touch nothing of this. *)
LEMMA Undisturbing ==
    ASSUME IInv, UNCHANGED <<callVars, slotVars, loopVars, outbox, inbox, written>>,
           muted' \in BOOLEAN
    PROVE  IInv'
<1> USE DEF callVars, slotVars, loopVars
<1>1. Types' /\ Waiting' /\ Queueing' /\ Parking' /\ Pairing'
  BY DEF IInv, Types, Waiting, Queueing, Parking, Pairing
<1>2. \A f : Expected(f)' <=> Expected(f) BY DEF Expected
<1>3. Frames' BY <1>2 DEF IInv, Frames
<1>4. Holders' = Holders /\ Waits' = Waits BY DEF Holders, Waits
<1>5. Slots' /\ Count' BY <1>4 DEF IInv, Slots, Count
<1>6. Told' BY DEF IInv, Told, OwnAnswer, TimeoutIsOfWritten
<1> QED BY <1>1, <1>3, <1>5, <1>6 DEF IInv

-----------------------------------------------------------------------------
(* The wire. *)

(* What is said of everything but the wire. *)
LEMMA WireOnly ==
    ASSUME IInv, UNCHANGED <<callVars, slotVars, loopVars, written, muted>>, Frames'
    PROVE  IInv'
<1> USE DEF callVars, slotVars, loopVars
<1>1. Types' /\ Waiting' /\ Queueing' /\ Parking' /\ Pairing'
  BY DEF IInv, Types, Waiting, Queueing, Parking, Pairing
<1>2. Holders' = Holders /\ Waits' = Waits BY DEF Holders, Waits
<1>3. Slots' /\ Count' BY <1>2 DEF IInv, Slots, Count
<1>4. Told' BY DEF IInv, Told, OwnAnswer, TimeoutIsOfWritten
<1> QED BY <1>1, <1>3, <1>4 DEF IInv

(* The reader hands the broker's next answer to the loop. *)
LEMMA read_frameKeeps ==
    ASSUME IInv, read_frame
    PROVE  IInv'
<1>0. /\ UNCHANGED <<callVars, slotVars, loopVars, written, muted>>
      /\ outbox # <<>> /\ Len(inbox) < MAX_IN_FLIGHT
      /\ inbox' = Append(inbox, Head(outbox)) /\ outbox' = Tail(outbox)
  BY DEF read_frame
<1>1. /\ outbox \in Seq(Requests) /\ inbox \in Seq(Requests)
      /\ \A i \in DOMAIN outbox : Expected(outbox[i])
      /\ \A i \in DOMAIN inbox : Expected(inbox[i])
      /\ Distinct(outbox) /\ Distinct(inbox)
      /\ \A i \in DOMAIN outbox, j \in DOMAIN inbox : outbox[i] # inbox[j]
  BY DEF IInv, Frames
<1>2. PICK f \in Requests : f = Head(outbox) /\ f = outbox[1] /\ 1 \in DOMAIN outbox
  BY <1>0, <1>1, Taken
<1>3. /\ outbox' \in Seq(Requests) /\ Distinct(outbox')
      /\ \A i \in DOMAIN outbox' : /\ i + 1 \in DOMAIN outbox
                                   /\ outbox'[i] = outbox[i + 1]
                                   /\ outbox'[i] # f
  BY <1>0, <1>1, <1>2, Taken
<1>4. \A i \in DOMAIN inbox : inbox[i] # f BY <1>1, <1>2
<1>5. /\ inbox' \in Seq(Requests) /\ Distinct(inbox')
      /\ \A i \in DOMAIN inbox' : (i \in DOMAIN inbox /\ inbox'[i] = inbox[i]) \/ inbox'[i] = f
  BY <1>0, <1>1, <1>2, <1>4, Appended
<1>6. UNCHANGED <<loop, parked, id, pending>> BY <1>0 DEF callVars, loopVars
<1>7. (\A i \in DOMAIN outbox : Expected(outbox[i]))' BY <1>1, <1>3, <1>6 DEF Expected
<1>8. (\A i \in DOMAIN inbox : Expected(inbox[i]))' BY <1>1, <1>2, <1>5, <1>6 DEF Expected
<1>9. \A i \in DOMAIN outbox', j \in DOMAIN inbox' : outbox'[i] # inbox'[j]
  BY <1>1, <1>3, <1>5
<1>10. Len(inbox') <= MAX_IN_FLIGHT BY <1>0, <1>1, ConnectionAssumption
<1>11. Frames' BY <1>3, <1>5, <1>7, <1>8, <1>9, <1>10 DEF Frames
<1> QED BY <1>0, <1>11, WireOnly

(* The bytes of the request being written reach the broker once. *)
LEMMA TransmitKeeps ==
    ASSUME IInv, Transmit
    PROVE  IInv'
<1>0. /\ UNCHANGED <<callVars, slotVars, loopVars, written, muted, inbox>>
      /\ loop = "writing" /\ parked \in Requests
      /\ outbox' = Append(outbox, parked)
      /\ \A k \in DOMAIN outbox : outbox[k] # parked
      /\ \A k \in DOMAIN inbox : inbox[k] # parked
  BY DEF Transmit
<1>1. /\ outbox \in Seq(Requests) /\ inbox \in Seq(Requests)
      /\ \A i \in DOMAIN outbox : Expected(outbox[i])
      /\ \A i \in DOMAIN inbox : Expected(inbox[i])
      /\ Distinct(outbox) /\ Distinct(inbox)
      /\ \A i \in DOMAIN outbox, j \in DOMAIN inbox : outbox[i] # inbox[j]
      /\ Len(inbox) <= MAX_IN_FLIGHT
  BY DEF IInv, Frames
<1>2. /\ outbox' \in Seq(Requests) /\ Distinct(outbox')
      /\ \A i \in DOMAIN outbox' :
            (i \in DOMAIN outbox /\ outbox'[i] = outbox[i]) \/ outbox'[i] = parked
  BY <1>0, <1>1, Appended
<1>3. UNCHANGED <<loop, parked, id, pending>> BY <1>0 DEF callVars, loopVars
<1>6. (\A i \in DOMAIN outbox : Expected(outbox[i]))' BY <1>0, <1>1, <1>2, <1>3 DEF Expected
<1>7. \A i \in DOMAIN outbox', j \in DOMAIN inbox' : outbox'[i] # inbox'[j]
  BY <1>0, <1>1, <1>2
<1>8. (\A i \in DOMAIN inbox : Expected(inbox[i]))' BY <1>0, <1>1, <1>3 DEF Expected
<1>9. Frames' BY <1>0, <1>1, <1>2, <1>6, <1>7, <1>8 DEF Frames
<1> QED BY <1>0, <1>9, WireOnly

-----------------------------------------------------------------------------
(* The event loop. *)

(* Everyone in the loop or its channel who is a request holds a slot. *)
LEMMA EndsHold ==
    ASSUME IInv, NEW c \in Pending \cup Held \cup Queued
    PROVE  c \in Calls /\ at[c] \in {"queued", "parked", "writing", "pending"}
<1>1. CASE c \in Pending BY <1>1, Apart DEF Pending, IInv, Pairing
<1>2. CASE c \in Held
  <2>1. c = parked /\ parked # None BY <1>2 DEF Held
  <2> QED BY <2>1 DEF IInv, Parking
<1>3. CASE c \in Queued
  <2>1. channel \in Seq(Calls) /\ \A i \in DOMAIN channel : at[channel[i]] = "queued"
    BY DEF IInv, Queueing
  <2> QED BY <1>3, <2>1 DEF Queued
<1> QED BY <1>1, <1>2, <1>3

(* The end of the loop frees the slots of all it held, and tells only      *)
(* those that a request timed out whose writes have started.               *)
LEMMA StopKeeps ==
    ASSUME IInv, NEW error, NEW failed, NEW answer,
           Stop(error, failed, answer),
           UNCHANGED callVars,
           failed \subseteq Pending \cup Held,
           error \in Errors \ {"WouldBlock"},
           error = "Timeout" => loop = "writing",
           failed = {} \/ answer \in Errors \ {"WouldBlock"},
           failed # {} /\ answer = "Timeout" => failed \subseteq written
    PROVE  IInv'
<1> DEFINE ends == Pending \cup Held \cup Queued \cup failed
           heard == [c \in ends |-> IF c \in failed THEN answer
                                    ELSE IF c \in Queued THEN "Network" ELSE error]
<1>0. /\ loop' = "stopped" /\ at' = Leave(ends) /\ result' = Answered(heard)
      /\ permits' = Released(ends) /\ channel' = <<>> /\ parked' = None
      /\ pending' = <<>> /\ outbox' = <<>> /\ inbox' = <<>> /\ written' = written /\ muted' = FALSE
      /\ UNCHANGED <<dropped, id, next_id, waiters>>
  BY DEF Stop, callVars
<1>1. \A c \in ends : c \in Calls /\ at[c] \in {"queued", "parked", "writing", "pending"}
  BY EndsHold
<1>2. \A c \in ends : /\ heard[c] \in Errors \ {"WouldBlock"}
                      /\ heard[c] = "Timeout" => c \in written \/ c \notin Requests
  <2> SUFFICES ASSUME NEW c \in ends
               PROVE  /\ heard[c] \in Errors \ {"WouldBlock"}
                      /\ heard[c] = "Timeout" => c \in written \/ c \notin Requests
    OBVIOUS
  <2>1. CASE c \in failed BY <2>1
  <2>2. CASE c \notin failed /\ c \in Queued BY <2>2 DEF Errors
  <2>3. CASE c \notin failed /\ c \notin Queued
    <3>1. heard[c] = error BY <2>3
    <3>2. CASE c \in Pending BY <3>1, <3>2 DEF Pending, IInv, Pairing
    <3>3. CASE c \in Held
      <4>1. c = parked BY <3>3 DEF Held
      <4> QED BY <3>1, <4>1 DEF IInv, Parking
    <3> QED BY <2>3, <3>2, <3>3
  <2> QED BY <2>1, <2>2, <2>3
<1>3. DOMAIN heard = ends OBVIOUS
<1> HIDE DEF heard, ends
<1>4. /\ at \in [Calls -> States] /\ result \in [Calls -> {None} \cup Errors \cup Calls]
  BY DEF IInv, Types
<1>5. /\ at' \in [Calls -> States]
      /\ \A c \in Calls : at'[c] = IF c \in ends THEN "done" ELSE at[c]
  BY <1>0, <1>4 DEF Leave, States
<1>6. /\ \A c \in Calls : \/ result'[c] = result[c]
                          \/ c \in ends /\ c \in Requests /\ result'[c] = heard[c]
      /\ result' \in [Calls -> {None} \cup Errors \cup Calls]
  BY <1>0, <1>2, <1>3, <1>4 DEF Answered
<1>7. Types'
  <2>1. \A c \in Requests : at'[c] # "idle" => at[c] # "idle" BY <1>1, <1>5, Apart
  <2> QED BY <1>0, <1>5, <1>6, <2>1 DEF IInv, Types
<1>8. Waiting'
  <2>1. /\ waiters \in Seq(Requests) /\ Distinct(waiters)
        /\ \A i \in DOMAIN waiters : at[waiters[i]] = "permit" /\ waiters[i] \in Calls
    BY Apart DEF IInv, Waiting
  <2>2. \A i \in DOMAIN waiters : waiters[i] \notin ends BY <1>1, <2>1
  <2> QED BY <1>0, <1>5, <2>1, <2>2 DEF Waiting
<1>9. Queueing' BY <1>0, ConnectionAssumption DEF Queueing, Distinct
<1>10. Parking' /\ Pairing' BY <1>0 DEF Parking, Pairing
<1>11. Frames' BY <1>0, ConnectionAssumption DEF Frames, Distinct
<1>12. Slots'
  <2>1. Holders' = Holders \ ends BY <1>5, Apart DEF Holders, Holding
  <2>2. ends \cap Requests \subseteq Holders BY <1>1 DEF Holders, Holding
  <2>3. permits' = permits + Cardinality(ends \cap Requests) BY <1>0 DEF Released
  <2> QED BY <2>1, <2>2, <2>3, SlotsFreed DEF IInv, Slots
<1>13. Count'
  <2>1. DOMAIN pending' = {} BY <1>0
  <2>2. IsFiniteSet(DOMAIN pending') /\ Cardinality(DOMAIN pending') = 0
    BY <2>1, FS_EmptySet
  <2>3. Waits' \subseteq Requests BY DEF Waits
  <2>4. Cardinality(Waits') \in Nat
    BY <2>3, FS_Subset, FS_CardinalityType, ConnectionAssumption
  <2> QED BY <2>2, <2>4 DEF Count
<1>14. Told'
  <2>0. /\ \A x \in Calls : result[x] # "WouldBlock"
        /\ \A x \in Requests : result[x] \in Calls => result[x] = x
        /\ \A x \in Requests : result[x] = "Timeout" => x \in written
    BY DEF IInv, Told, OwnAnswer, TimeoutIsOfWritten
  <2>2. \A x \in Calls : result'[x] # "WouldBlock" BY <1>6, <1>2, <2>0
  <2>3. \A x \in Requests : result'[x] \in Calls => result'[x] = x
    BY <1>6, <1>2, <2>0, Apart
  <2>4. \A x \in Requests : result'[x] = "Timeout" => x \in written
    BY <1>6, <1>2, <2>0, Apart
  <2> QED BY <1>0, <2>2, <2>3, <2>4 DEF Told, OwnAnswer, TimeoutIsOfWritten
<1> QED BY <1>7, <1>8, <1>9, <1>10, <1>11, <1>12, <1>13, <1>14 DEF IInv

(* After a select the parked command is gone, parked or being written. *)
LEMMA AfterSelectCases ==
    ASSUME NEW cmd, NEW gone, NEW mute \in BOOLEAN, AfterSelect(cmd, gone, mute)
    PROVE  \/ /\ cmd = None /\ at' = Leave(gone) /\ permits' = Released(gone)
              /\ UNCHANGED <<parked, loop, written>>
           \/ cmd # None /\ Discard(cmd, gone)
           \/ cmd # None /\ Park(cmd, gone)
           \/ cmd # None /\ ~Abandoned(cmd) /\ ~mute /\ StartWrite(cmd, gone)
<1>1. CASE cmd = None BY <1>1 DEF AfterSelect
<1>2. CASE cmd # None /\ Abandoned(cmd) BY <1>2 DEF AfterSelect
<1>3. CASE cmd # None /\ ~Abandoned(cmd) /\ mute BY <1>3 DEF AfterSelect
<1>4. CASE cmd # None /\ ~Abandoned(cmd) /\ ~mute BY <1>4 DEF AfterSelect
<1> QED BY <1>1, <1>2, <1>3, <1>4

(* What the rest of an iteration does, after the select answered `gone`:   *)
(* only the answered and the parked command move, and the slots are exact. *)
LEMMA AfterSelectMoves ==
    ASSUME IInv, loop = "select", NEW cmd, NEW gone, NEW mute \in BOOLEAN,
           AfterSelect(cmd, gone, mute),
           cmd = parked \/ (parked = None /\ cmd \in Calls /\ at[cmd] = "queued"),
           \A c \in gone : c \in Requests /\ at[c] = "pending"
    PROVE  /\ at' \in [Calls -> States]
           /\ \A c \in Calls : c \notin gone /\ c # cmd => at'[c] = at[c]
           /\ \A c \in Calls : c \in gone \/ c = cmd =>
                 at'[c] \in {"done", "parked", "writing"}
           /\ Parking' /\ Slots'
           /\ loop' \in {"select", "writing"}
           /\ written \subseteq written'
           /\ Waits' = Waits \ gone
<1>0. at \in [Calls -> States] BY DEF IInv, Types
<1>1. /\ cmd \in {None} \cup Calls
      /\ cmd # None => cmd \in Calls /\ at[cmd] \in {"queued", "parked"} /\ cmd \notin gone
  BY DEF IInv, Parking
<1>2. /\ Leave(gone) \in [Calls -> States]
      /\ \A c \in Calls : Leave(gone)[c] = IF c \in gone THEN "done" ELSE at[c]
  BY <1>0 DEF Leave, States
<1>3. gone \subseteq Requests /\ gone \subseteq Holders BY DEF Holders, Holding
<1>4. CASE /\ cmd = None /\ at' = Leave(gone) /\ permits' = Released(gone)
           /\ UNCHANGED <<parked, loop, written>>
  <2>1. Holders' = Holders \ gone BY <1>2, <1>4, Apart DEF Holders, Holding
  <2>2. Slots' BY <1>3, <1>4, <2>1, SlotsFreed DEF IInv, Slots, Released
  <2>3. parked = None BY <1>4, Apart
  <2>4. Parking' BY <1>4, <2>3 DEF Parking
  <2>5. Waits' = Waits \ gone BY <1>2, <1>4, Apart DEF Waits
  <2> QED BY <1>2, <1>4, <2>2, <2>4, <2>5, Apart
<1>5. CASE cmd # None /\ Discard(cmd, gone)
  <2>1. /\ Leave(gone \cup {cmd}) \in [Calls -> States]
        /\ \A c \in Calls : Leave(gone \cup {cmd})[c] =
                              IF c \in gone \/ c = cmd THEN "done" ELSE at[c]
    BY <1>0 DEF Leave, States
  <2>2. /\ at' = Leave(gone \cup {cmd}) /\ permits' = Released(gone \cup {cmd})
        /\ parked' = None /\ loop' = loop /\ written' = written
    BY <1>5 DEF Discard
  <2>3. Holders' = Holders \ (gone \cup {cmd}) BY <2>1, <2>2, Apart DEF Holders, Holding
  <2>4. (gone \cup {cmd}) \cap Requests \subseteq Holders
    BY <1>1, <1>3, <1>5 DEF Holders, Holding
  <2>5. permits' = permits + Cardinality((gone \cup {cmd}) \cap Requests)
    BY <2>2 DEF Released
  <2>6. Slots' BY <2>3, <2>4, <2>5, SlotsFreed DEF IInv, Slots
  <2>7. Parking' BY <2>2 DEF Parking
  <2>8. Waits' = Waits \ gone BY <1>1, <1>5, <2>1, <2>2, Apart DEF Waits
  <2> QED BY <2>1, <2>2, <2>6, <2>7, <2>8
<1>6. ASSUME NEW s \in {"parked", "writing"}, cmd # None,
             at' = [Leave(gone) EXCEPT ![cmd] = s], permits' = Released(gone)
      PROVE  /\ at' \in [Calls -> States]
             /\ \A c \in Calls : c \notin gone /\ c # cmd => at'[c] = at[c]
             /\ \A c \in gone : at'[c] = "done"
             /\ at'[cmd] = s
             /\ Slots'
             /\ Waits' = Waits \ gone
  <2>1. /\ at' \in [Calls -> States] /\ at'[cmd] = s
        /\ \A c \in Calls : c # cmd => at'[c] = IF c \in gone THEN "done" ELSE at[c]
    BY <1>1, <1>2, <1>6 DEF States
  <2>2. Holders' = Holders \ gone BY <1>1, <1>6, <2>1, Apart DEF Holders, Holding
  <2>3. permits' = permits + Cardinality(gone \cap Requests) BY <1>6 DEF Released
  <2>4. Slots' BY <1>3, <2>2, <2>3, SlotsFreed DEF IInv, Slots
  <2>5. Waits' = Waits \ gone BY <1>1, <1>6, <2>1, Apart DEF Waits
  <2> QED BY <1>1, <1>3, <1>6, <2>1, <2>4, <2>5, Apart
<1>7. CASE cmd # None /\ Park(cmd, gone)
  <2>1. /\ at' = [Leave(gone) EXCEPT ![cmd] = "parked"] /\ permits' = Released(gone)
        /\ parked' = cmd /\ loop' = loop /\ written' = written
    BY <1>7 DEF Park
  <2>2. Parking' BY <1>1, <1>6, <1>7, <2>1 DEF Parking
  <2> QED BY <1>6, <1>7, <2>1, <2>2
<1>8. CASE cmd # None /\ StartWrite(cmd, gone)
  <2>1. /\ at' = [Leave(gone) EXCEPT ![cmd] = "writing"] /\ permits' = Released(gone)
        /\ parked' = cmd /\ loop' = "writing" /\ written' = written \cup {cmd}
    BY <1>8 DEF StartWrite
  <2>2. Parking' BY <1>1, <1>6, <1>8, <2>1 DEF Parking
  <2> QED BY <1>6, <1>8, <2>1, <2>2
<1> QED BY <1>4, <1>5, <1>7, <1>8, AfterSelectCases

(* So an iteration that answers nobody keeps the invariant. *)
LEMMA QuietIteration ==
    ASSUME IInv, loop = "select", NEW cmd, AfterSelect(cmd, {}, muted),
           \/ cmd = parked /\ channel' = channel
           \/ /\ parked = None /\ channel # <<>> /\ cmd = Head(channel)
              /\ channel' = Tail(channel),
           UNCHANGED <<result, callVars, pending, netVars, muted>>
    PROVE  IInv'
<1>0. /\ channel \in Seq(Calls) /\ Distinct(channel) /\ Len(channel) <= MAX_IN_FLIGHT
      /\ \A i \in DOMAIN channel : at[channel[i]] = "queued" /\ channel[i] \in Calls
  BY DEF IInv, Queueing
<1>1. cmd = parked \/ (parked = None /\ cmd \in Calls /\ at[cmd] = "queued")
  <2>1. channel # <<>> => 1 \in DOMAIN channel /\ Head(channel) = channel[1]
    BY <1>0, Taken
  <2>2. CASE parked = None /\ channel # <<>> /\ cmd = Head(channel)
    <3>1. 1 \in DOMAIN channel /\ cmd = channel[1] BY <2>1, <2>2
    <3> QED BY <1>0, <2>2, <3>1
  <2> QED BY <2>2
<1>2. muted \in BOOLEAN BY DEF IInv, Types
<1>3. /\ at' \in [Calls -> States]
      /\ \A c \in Calls : c # cmd => at'[c] = at[c]
      /\ \A c \in Calls : c = cmd => at'[c] \in {"done", "parked", "writing"}
      /\ Parking' /\ Slots'
      /\ loop' \in {"select", "writing"}
      /\ written \subseteq written'
      /\ Waits' = Waits
  <2>0. PICK gone : gone = {} OBVIOUS
  <2>1. AfterSelect(cmd, gone, muted) /\ \A c \in gone : c \in Requests /\ at[c] = "pending"
    BY <2>0
  <2>2. /\ at' \in [Calls -> States]
        /\ \A c \in Calls : c \notin gone /\ c # cmd => at'[c] = at[c]
        /\ \A c \in Calls : c \in gone \/ c = cmd =>
              at'[c] \in {"done", "parked", "writing"}
        /\ Parking' /\ Slots'
        /\ loop' \in {"select", "writing"}
        /\ written \subseteq written'
        /\ Waits' = Waits \ gone
    BY <1>1, <1>2, <2>1, AfterSelectMoves
  <2> QED BY <2>0, <2>2
<1>4. cmd # None => cmd \in Calls /\ at[cmd] \in {"queued", "parked"}
  BY <1>1 DEF IInv, Parking
<1>5. \A c \in Calls : at[c] \notin {"queued", "parked"} => at'[c] = at[c]
  BY <1>3, <1>4, Apart
<1>6. Types'
  <2>1. \A c \in Requests : at'[c] # "idle" => at[c] # "idle" BY <1>3, <1>4, <1>5, Apart
  <2> QED BY <1>3, <2>1 DEF IInv, Types, callVars
<1>7. Waiting'
  <2>1. /\ waiters \in Seq(Requests) /\ Distinct(waiters)
        /\ \A i \in DOMAIN waiters : at[waiters[i]] = "permit" /\ waiters[i] \in Calls
    BY Apart DEF IInv, Waiting
  <2> QED BY <1>5, <2>1 DEF Waiting, callVars
<1>8. Queueing'
  <2>1. CASE cmd = parked /\ channel' = channel
    <3>1. \A i \in DOMAIN channel : channel[i] # cmd
      BY <1>0, <2>1, Apart DEF IInv, Parking
    <3> QED BY <1>0, <1>3, <2>1, <3>1 DEF Queueing
  <2>2. CASE channel # <<>> /\ cmd = Head(channel) /\ channel' = Tail(channel)
    <3>1. /\ channel' \in Seq(Calls) /\ Distinct(channel') /\ Len(channel') = Len(channel) - 1
          /\ \A i \in DOMAIN channel' : /\ channel'[i] # cmd /\ i + 1 \in DOMAIN channel
                                        /\ channel'[i] = channel[i + 1]
      BY <1>0, <2>2, Taken
    <3>2. \A i \in DOMAIN channel' : at'[channel'[i]] = "queued"
      BY <1>0, <1>3, <3>1
    <3>3. Len(channel') <= MAX_IN_FLIGHT BY <1>0, <3>1, ConnectionAssumption
    <3> QED BY <3>1, <3>2, <3>3 DEF Queueing
  <2> QED BY <2>1, <2>2
<1>9. Pairing'
  <2>1. \A k \in DOMAIN pending : /\ pending[k] \in Calls /\ at[pending[k]] = "pending"
                                  /\ pending[k] \in Requests /\ id[pending[k]] = k
                                  /\ pending[k] \in written
    BY Apart DEF IInv, Pairing
  <2> QED BY <1>3, <1>5, <2>1 DEF Pairing, callVars
<1>10. Frames'
  <2>1. (\A i \in DOMAIN outbox : Expected(outbox[i]))'
    BY DEF IInv, Frames, Expected, callVars, netVars
  <2>2. (\A i \in DOMAIN inbox : Expected(inbox[i]))'
    BY DEF IInv, Frames, Expected, callVars, netVars
  <2> QED BY <2>1, <2>2 DEF IInv, Frames, netVars
<1>11. Count' BY <1>3 DEF IInv, Count
<1>12. Told' BY <1>3 DEF IInv, Told, OwnAnswer, TimeoutIsOfWritten
<1> QED BY <1>3, <1>6, <1>7, <1>8, <1>9, <1>10, <1>11, <1>12 DEF IInv

(* A frame the loop takes from the reader is for a pending request: for    *)
(* the one under its id, which is the one that was written with it.        *)
LEMMA FrameIsExpected ==
    ASSUME IInv, loop = "select", inbox # <<>>
    PROVE  \E f \in Requests :
              /\ f = Head(inbox) /\ id[f] \in DOMAIN pending /\ pending[id[f]] = f
              /\ at[f] = "pending" /\ f \in Calls
              /\ Tail(inbox) \in Seq(Requests) /\ Distinct(Tail(inbox))
              /\ Len(Tail(inbox)) <= MAX_IN_FLIGHT
              /\ \A i \in DOMAIN Tail(inbox) :
                    \E j \in DOMAIN inbox : Tail(inbox)[i] = inbox[j] /\ inbox[j] # f
              /\ \A i \in DOMAIN outbox : outbox[i] # f
<1>1. /\ outbox \in Seq(Requests) /\ inbox \in Seq(Requests)
      /\ \A i \in DOMAIN inbox : Expected(inbox[i])
      /\ Distinct(inbox) /\ Len(inbox) <= MAX_IN_FLIGHT
      /\ \A i \in DOMAIN outbox, j \in DOMAIN inbox : outbox[i] # inbox[j]
  BY DEF IInv, Frames
<1>2. PICK f \in Requests : f = Head(inbox) /\ f = inbox[1] /\ 1 \in DOMAIN inbox
  BY <1>1, Taken
<1>3. id[f] \in DOMAIN pending /\ pending[id[f]] = f BY <1>1, <1>2 DEF Expected
<1>4. at[f] = "pending" /\ f \in Calls BY <1>3, Apart DEF IInv, Pairing
<1>5. /\ Tail(inbox) \in Seq(Requests) /\ Distinct(Tail(inbox))
      /\ Len(Tail(inbox)) = Len(inbox) - 1
      /\ \A i \in DOMAIN Tail(inbox) : /\ i + 1 \in DOMAIN inbox
                                       /\ Tail(inbox)[i] = inbox[i + 1]
                                       /\ Tail(inbox)[i] # f
  BY <1>1, <1>2, Taken
<1>6. Len(Tail(inbox)) <= MAX_IN_FLIGHT BY <1>1, <1>5, ConnectionAssumption
<1>7. \A i \in DOMAIN Tail(inbox) :
          \E j \in DOMAIN inbox : Tail(inbox)[i] = inbox[j] /\ inbox[j] # f
  BY <1>5
<1>8. \A i \in DOMAIN outbox : outbox[i] # f BY <1>1, <1>2
<1> QED BY <1>2, <1>3, <1>4, <1>5, <1>6, <1>7, <1>8

(* A frame answers the request under its id, or ends the connection. *)
LEMMA dispatch_responseKeeps ==
    ASSUME IInv, NEW legible \in BOOLEAN, NEW throttles \in BOOLEAN,
           dispatch_response(legible, throttles)
    PROVE  IInv'
<1>0. loop = "select" /\ inbox # <<>> /\ UNCHANGED callVars
  BY DEF dispatch_response, Undisturbed, Selecting
<1>1. PICK f \in Requests :
              /\ f = Head(inbox) /\ id[f] \in DOMAIN pending /\ pending[id[f]] = f
              /\ at[f] = "pending" /\ f \in Calls
              /\ Tail(inbox) \in Seq(Requests) /\ Distinct(Tail(inbox))
              /\ Len(Tail(inbox)) <= MAX_IN_FLIGHT
              /\ \A i \in DOMAIN Tail(inbox) :
                    \E j \in DOMAIN inbox : Tail(inbox)[i] = inbox[j] /\ inbox[j] # f
              /\ \A i \in DOMAIN outbox : outbox[i] # f
  BY <1>0, FrameIsExpected
<1>4. IF legible
      THEN /\ pending' = [k \in DOMAIN pending \ {id[f]} |-> pending[k]]
           /\ result' = Answered([x \in {f} |-> f])
           /\ AfterSelect(parked, {f}, muted \/ throttles)
           /\ inbox' = Tail(inbox)
           /\ muted' = (muted \/ throttles)
           /\ UNCHANGED <<channel, outbox>>
      ELSE Stop("Malformed", {f}, "Malformed")
  <2> DEFINE frame == Head(inbox)
             known == {k \in DOMAIN pending : k = id[frame]}
             c == {pending[k] : k \in known}
  <2>1. IF known # {} /\ legible
        THEN /\ pending' = [k \in DOMAIN pending \ known |-> pending[k]]
             /\ result' = Answered([x \in c |-> frame])
             /\ AfterSelect(parked, c, muted \/ throttles)
             /\ inbox' = Tail(inbox)
             /\ muted' = (muted \/ throttles)
             /\ UNCHANGED <<channel, outbox>>
        ELSE Stop("Malformed", c, "Malformed")
    BY DEF dispatch_response
  <2>2. frame = f BY <1>1
  <2>3. known = {id[f]} BY <1>1
  <2>4. c = {f} BY <1>1, <2>3
  <2> HIDE DEF frame, known, c
  <2>5. known # {} BY <2>3
  <2> QED BY <2>1, <2>2, <2>3, <2>4, <2>5
<1>5. CASE ~legible
  <2>1. Stop("Malformed", {f}, "Malformed") BY <1>4, <1>5
  <2>2. {f} \subseteq Pending \cup Held BY <1>1 DEF Pending
  <2>3. "Malformed" \in Errors \ {"WouldBlock"} /\ "Malformed" # "Timeout" BY DEF Errors
  <2> QED BY <1>0, <2>1, <2>2, <2>3, StopKeeps
<1>6. CASE legible
  <2>0. /\ pending' = [k \in DOMAIN pending \ {id[f]} |-> pending[k]]
        /\ result' = Answered([x \in {f} |-> f])
        /\ AfterSelect(parked, {f}, muted \/ throttles)
        /\ inbox' = Tail(inbox) /\ muted' = (muted \/ throttles)
        /\ UNCHANGED <<channel, outbox>>
    BY <1>4, <1>6
  <2>1. PICK gone : gone = {f} OBVIOUS
  <2>2. PICK mute \in BOOLEAN : mute = (muted \/ throttles) BY DEF IInv, Types
  <2>3. /\ at' \in [Calls -> States]
        /\ \A c \in Calls : c \notin gone /\ c # parked => at'[c] = at[c]
        /\ \A c \in Calls : c \in gone \/ c = parked =>
              at'[c] \in {"done", "parked", "writing"}
        /\ Parking' /\ Slots'
        /\ loop' \in {"select", "writing"}
        /\ written \subseteq written'
        /\ Waits' = Waits \ gone
    <3>1. AfterSelect(parked, gone, mute) BY <2>0, <2>1, <2>2
    <3>2. \A c \in gone : c \in Requests /\ at[c] = "pending" BY <1>1, <2>1
    <3> QED BY <1>0, <3>1, <3>2, AfterSelectMoves
  <2>4. parked # None => parked \in Calls /\ at[parked] = "parked"
    BY <1>0 DEF IInv, Parking
  <2>5. \A c \in Calls : c # f /\ at[c] # "parked" => at'[c] = at[c]
    BY <2>1, <2>3, <2>4, Apart
  <2>6. /\ DOMAIN pending' = DOMAIN pending \ {id[f]}
        /\ \A k \in DOMAIN pending' : pending'[k] = pending[k] /\ k # id[f]
    BY <2>0
  <2>7. /\ result' \in [Calls -> {None} \cup Errors \cup Calls]
        /\ \A c \in Calls : result'[c] = result[c] \/ (c = f /\ result'[c] = f)
    <3>1. result \in [Calls -> {None} \cup Errors \cup Calls] BY DEF IInv, Types
    <3> QED BY <1>1, <2>0, <3>1 DEF Answered
  <2>8. Types'
    <3>1. \A c \in Requests : at'[c] # "idle" => at[c] # "idle"
      BY <1>1, <2>4, <2>5, Apart
    <3>2. muted' \in BOOLEAN BY <2>0, <2>2
    <3> QED BY <1>0, <2>3, <2>7, <3>1, <3>2 DEF IInv, Types, callVars
  <2>9. Waiting'
    <3>1. /\ waiters \in Seq(Requests) /\ Distinct(waiters)
          /\ \A i \in DOMAIN waiters : at[waiters[i]] = "permit" /\ waiters[i] \in Calls
      BY Apart DEF IInv, Waiting
    <3>2. \A i \in DOMAIN waiters : at'[waiters[i]] = "permit" BY <1>1, <2>5, <3>1
    <3> QED BY <1>0, <3>1, <3>2 DEF Waiting, callVars
  <2>10. Queueing'
    <3>1. /\ channel \in Seq(Calls) /\ Distinct(channel) /\ Len(channel) <= MAX_IN_FLIGHT
          /\ \A i \in DOMAIN channel : at[channel[i]] = "queued" /\ channel[i] \in Calls
      BY DEF IInv, Queueing
    <3>2. \A i \in DOMAIN channel : at'[channel[i]] = "queued" BY <1>1, <2>5, <3>1
    <3> QED BY <2>0, <3>1, <3>2 DEF Queueing
  <2>11. Pairing'
    <3>1. \A k \in DOMAIN pending : /\ pending[k] \in Calls /\ at[pending[k]] = "pending"
                                    /\ pending[k] \in Requests /\ id[pending[k]] = k
                                    /\ pending[k] \in written
      BY Apart DEF IInv, Pairing
    <3>2. \A k \in DOMAIN pending' : pending'[k] # f /\ k \in DOMAIN pending
      BY <2>6, <3>1
    <3>3. \A k \in DOMAIN pending' : at'[pending'[k]] = "pending" BY <2>5, <2>6, <3>1, <3>2
    <3> QED BY <1>0, <2>3, <2>6, <3>1, <3>2, <3>3 DEF Pairing, callVars
  <2>12. Frames'
    <3>1. /\ outbox \in Seq(Requests) /\ inbox \in Seq(Requests)
          /\ \A i \in DOMAIN outbox : Expected(outbox[i])
          /\ \A i \in DOMAIN inbox : Expected(inbox[i])
          /\ Distinct(outbox)
          /\ \A i \in DOMAIN outbox, j \in DOMAIN inbox : outbox[i] # inbox[j]
      BY DEF IInv, Frames
    <3>2. id' = id BY <1>0 DEF callVars
    <3>3. \A g \in Requests : Expected(g) /\ g # f =>
              id'[g] \in DOMAIN pending' /\ pending'[id'[g]] = g
      BY <1>0, <1>1, <2>6, <3>2 DEF Expected
    <3>4. (\A i \in DOMAIN outbox : Expected(outbox[i]))'
      <4>1. \A i \in DOMAIN outbox : /\ outbox[i] \in Requests /\ outbox[i] # f
                                     /\ Expected(outbox[i])
        BY <1>1, <3>1
      <4>2. \A i \in DOMAIN outbox' : /\ id'[outbox'[i]] \in DOMAIN pending'
                                      /\ pending'[id'[outbox'[i]]] = outbox'[i]
        BY <2>0, <3>3, <4>1
      <4> QED BY <4>2 DEF Expected
    <3>5. (\A i \in DOMAIN inbox : Expected(inbox[i]))'
      <4>1. \A j \in DOMAIN inbox : inbox[j] \in Requests /\ Expected(inbox[j])
        BY <3>1
      <4>2. \A i \in DOMAIN inbox' : \E j \in DOMAIN inbox : inbox'[i] = inbox[j] /\ inbox[j] # f
        BY <1>1, <2>0
      <4>3. \A i \in DOMAIN inbox' : /\ id'[inbox'[i]] \in DOMAIN pending'
                                     /\ pending'[id'[inbox'[i]]] = inbox'[i]
        BY <3>3, <4>1, <4>2
      <4> QED BY <4>3 DEF Expected
    <3>6. \A i \in DOMAIN outbox', j \in DOMAIN inbox' : outbox'[i] # inbox'[j]
      BY <1>1, <2>0, <3>1
    <3> QED BY <1>1, <2>0, <3>1, <3>4, <3>5, <3>6 DEF Frames
  <2>13. Count'
    <3>1. /\ IsFiniteSet(DOMAIN pending)
          /\ Cardinality(DOMAIN pending) <= Cardinality(Waits)
      BY DEF IInv, Count
    <3>2. f \in Waits BY <1>1 DEF Waits
    <3>3. Cardinality(Waits') = Cardinality(Waits) - 1
      BY <2>1, <2>3, <3>2, HoldersFinite, FS_RemoveElement
    <3>4. /\ IsFiniteSet(DOMAIN pending')
          /\ Cardinality(DOMAIN pending') = Cardinality(DOMAIN pending) - 1
      BY <1>1, <2>6, <3>1, FS_RemoveElement
    <3>5. Cardinality(Waits) \in Nat /\ Cardinality(DOMAIN pending) \in Nat
      BY <3>1, HoldersFinite, FS_CardinalityType
    <3> QED BY <3>1, <3>3, <3>4, <3>5 DEF Count
  <2>14. Told'
    <3>0. /\ \A x \in Calls : result[x] # "WouldBlock"
          /\ \A x \in Requests : result[x] \in Calls => result[x] = x
          /\ \A x \in Requests : result[x] = "Timeout" => x \in written
      BY DEF IInv, Told, OwnAnswer, TimeoutIsOfWritten
    <3>1. f # "WouldBlock" /\ f # "Timeout" BY <1>1, Apart DEF Errors
    <3>2. \A x \in Calls : result'[x] # "WouldBlock" BY <2>7, <3>0, <3>1
    <3>3. \A x \in Requests : result'[x] \in Calls => result'[x] = x
      BY <2>7, <3>0, Apart
    <3>4. \A x \in Requests : result'[x] = "Timeout" => x \in written'
      BY <2>3, <2>7, <3>0, <3>1, Apart
    <3> QED BY <3>2, <3>3, <3>4 DEF Told, OwnAnswer, TimeoutIsOfWritten
  <2> QED BY <2>3, <2>8, <2>9, <2>10, <2>11, <2>12, <2>13, <2>14 DEF IInv
<1> QED BY <1>5, <1>6

(* A request that was written in full waits under its id. *)
LEMMA WrittenKeeps ==
    ASSUME IInv, loop = "writing", ~Collides(parked),
           loop' = "select", parked' = None,
           UNCHANGED <<channel, written, outbox, inbox, muted, result, permits, callVars>>,
           at' = [at EXCEPT ![parked] = IF parked \in Requests THEN "pending" ELSE "done"],
           pending' = IF parked \in Requests
                      THEN [k \in DOMAIN pending \cup {id[parked]} |->
                              IF k = id[parked] THEN parked ELSE pending[k]]
                      ELSE pending
    PROVE  IInv'
<1>0. parked \in Calls /\ at[parked] = "writing" /\ parked \in written
  BY DEF IInv, Parking
<1>1. UNCHANGED <<id, dropped, next_id, waiters>> BY DEF callVars
<1>2. at \in [Calls -> States] BY DEF IInv, Types
<1>3. /\ at' \in [Calls -> States]
      /\ at'[parked] = IF parked \in Requests THEN "pending" ELSE "done"
      /\ \A c \in Calls : c # parked => at'[c] = at[c]
  BY <1>0, <1>2 DEF States
<1>4. Types'
  <2>1. \A c \in Requests : at'[c] # "idle" => at[c] # "idle" BY <1>0, <1>3, Apart
  <2> QED BY <1>1, <1>3, <2>1 DEF IInv, Types
<1>5. Waiting' BY <1>0, <1>1, <1>3, WaitingKept
<1>6. Queueing' BY <1>0, <1>3, QueueingKept
<1>7. Parking' BY DEF Parking
<1>8. parked \in Requests =>
        /\ id[parked] \notin DOMAIN pending
        /\ DOMAIN pending' = DOMAIN pending \cup {id[parked]}
        /\ pending'[id[parked]] = parked
        /\ \A k \in DOMAIN pending : pending'[k] = pending[k]
  BY DEF Collides
<1>9. Pairing'
  <2>1. \A k \in DOMAIN pending : /\ pending[k] \in Calls /\ at[pending[k]] = "pending"
                                  /\ pending[k] \in Requests /\ id[pending[k]] = k
                                  /\ pending[k] \in written
    BY Apart DEF IInv, Pairing
  <2>2. \A k \in DOMAIN pending : pending[k] # parked BY <1>0, <2>1
  <2>3. CASE parked \in Requests
    <3>1. \A k \in DOMAIN pending' : k \in DOMAIN pending \/ k = id[parked] BY <1>8, <2>3
    <3> QED BY <1>0, <1>1, <1>3, <1>8, <2>1, <2>2, <2>3, <3>1 DEF Pairing
  <2>4. CASE parked \notin Requests BY <1>1, <1>3, <2>1, <2>2, <2>4 DEF Pairing
  <2> QED BY <2>3, <2>4
<1>10. Frames'
  <2>1. /\ outbox \in Seq(Requests) /\ inbox \in Seq(Requests)
        /\ \A i \in DOMAIN outbox : Expected(outbox[i])
        /\ \A i \in DOMAIN inbox : Expected(inbox[i])
    BY DEF IInv, Frames
  <2>2. \A g \in Requests : Expected(g) => id'[g] \in DOMAIN pending' /\ pending'[id'[g]] = g
    BY <1>1, <1>8 DEF Expected
  <2>3. /\ \A i \in DOMAIN outbox : outbox[i] \in Requests
        /\ \A i \in DOMAIN inbox : inbox[i] \in Requests
    BY <2>1
  <2>4. (\A i \in DOMAIN outbox : Expected(outbox[i]))'
    <3>1. \A i \in DOMAIN outbox' : /\ id'[outbox'[i]] \in DOMAIN pending'
                                    /\ pending'[id'[outbox'[i]]] = outbox'[i]
      BY <2>1, <2>2, <2>3
    <3> QED BY <3>1 DEF Expected
  <2>5. (\A i \in DOMAIN inbox : Expected(inbox[i]))'
    <3>1. \A i \in DOMAIN inbox' : /\ id'[inbox'[i]] \in DOMAIN pending'
                                   /\ pending'[id'[inbox'[i]]] = inbox'[i]
      BY <2>1, <2>2, <2>3
    <3> QED BY <3>1 DEF Expected
  <2> QED BY <2>4, <2>5 DEF IInv, Frames
<1>11. Slots'
  <2>1. Holders' = Holders BY <1>0, <1>3, Apart DEF Holders, Holding
  <2> QED BY <2>1 DEF IInv, Slots
<1>12. Count'
  <2>1. /\ IsFiniteSet(DOMAIN pending)
        /\ Cardinality(DOMAIN pending) <= Cardinality(Waits)
    BY DEF IInv, Count
  <2>2. CASE parked \in Requests
    <3>1. Waits' = Waits \cup {parked} /\ parked \notin Waits
      BY <1>0, <1>3, <2>2, Apart DEF Waits
    <3>2. Cardinality(Waits') = Cardinality(Waits) + 1
      BY <3>1, HoldersFinite, FS_AddElement
    <3>3. /\ IsFiniteSet(DOMAIN pending')
          /\ Cardinality(DOMAIN pending') = Cardinality(DOMAIN pending) + 1
      BY <1>8, <2>1, <2>2, FS_AddElement
    <3>4. Cardinality(Waits) \in Nat /\ Cardinality(DOMAIN pending) \in Nat
      BY <2>1, HoldersFinite, FS_CardinalityType
    <3> QED BY <2>1, <3>2, <3>3, <3>4 DEF Count
  <2>3. CASE parked \notin Requests
    <3>1. Waits' = Waits BY <1>3, <2>3, Apart DEF Waits
    <3> QED BY <2>1, <2>3, <3>1 DEF Count
  <2> QED BY <2>2, <2>3
<1>13. Told' BY DEF IInv, Told, OwnAnswer, TimeoutIsOfWritten
<1> QED BY <1>4, <1>5, <1>6, <1>7, <1>9, <1>10, <1>11, <1>12, <1>13 DEF IInv

(* A write succeeds, or ends the connection; it is never refused. *)
LEMMA write_commandKeeps ==
    ASSUME IInv, NEW outcome \in {"ok", "error", "timeout"}, write_command(outcome)
    PROVE  IInv'
<1>0. loop = "writing" /\ UNCHANGED callVars BY DEF write_command
<1>1. parked \in Calls /\ parked \in written /\ {parked} \subseteq Pending \cup Held
      /\ {parked} # {}
  BY <1>0 DEF IInv, Parking, Held
<1>2. CASE Collides(parked)
  <2>1. Stop("Unavailable", {parked}, "Unavailable") BY <1>2 DEF write_command
  <2>2. "Unavailable" \in Errors \ {"WouldBlock"} /\ "Unavailable" # "Timeout" BY DEF Errors
  <2> QED BY <1>0, <1>1, <2>1, <2>2, StopKeeps
<1>3. CASE ~Collides(parked)
  <2>0. ~(parked \in Requests /\ Cardinality(DOMAIN pending) >= MAX_IN_FLIGHT)
    BY <1>0, NeverFull
  <2>1. CASE outcome = "ok"
    <3>1. /\ BackToSelect
          /\ at' = [at EXCEPT ![parked] = IF parked \in Requests THEN "pending" ELSE "done"]
          /\ pending' = IF parked \in Requests
                        THEN [k \in DOMAIN pending \cup {id[parked]} |->
                                IF k = id[parked] THEN parked ELSE pending[k]]
                        ELSE pending
          /\ UNCHANGED <<result, permits>>
      BY <1>3, <2>0, <2>1 DEF write_command
    <3>2. /\ loop' = "select" /\ parked' = None
          /\ UNCHANGED <<channel, written, outbox, inbox, muted>>
      BY <3>1 DEF BackToSelect, netVars
    <3> QED BY <1>0, <1>3, <3>1, <3>2, WrittenKeeps
  <2>2. CASE outcome = "error"
    <3>1. Stop("Network", {parked}, "Network") BY <1>3, <2>0, <2>2 DEF write_command
    <3>2. "Network" \in Errors \ {"WouldBlock"} /\ "Network" # "Timeout" BY DEF Errors
    <3> QED BY <1>0, <1>1, <3>1, <3>2, StopKeeps
  <2>3. CASE outcome = "timeout"
    <3>1. Stop("Timeout", {parked}, "Timeout") BY <1>3, <2>0, <2>3 DEF write_command
    <3>2. "Timeout" \in Errors \ {"WouldBlock"} /\ {parked} \subseteq written
      BY <1>1 DEF Errors
    <3> QED BY <1>0, <1>1, <3>1, <3>2, StopKeeps
  <2> QED BY <2>1, <2>2, <2>3
<1> QED BY <1>2, <1>3

(* A step of the loop that ends it without an answer of its own. *)
LEMMA EndKeeps ==
    ASSUME IInv, Stop("Network", {}, None), UNCHANGED callVars
    PROVE  IInv'
<1>1. "Network" \in Errors \ {"WouldBlock"} /\ "Network" # "Timeout" BY DEF Errors
<1>2. PICK failed : failed = {} OBVIOUS
<1>3. failed \subseteq Pending \cup Held /\ Stop("Network", failed, None) BY <1>2
<1> QED BY <1>1, <1>2, <1>3, StopKeeps

(* Every step of the event loop keeps the invariant. *)
LEMMA LoopStepKeeps ==
    ASSUME IInv, LoopStep
    PROVE  IInv'
<1>1. CASE StopWhenIdle BY <1>1, EndKeeps DEF StopWhenIdle
<1>2. CASE SeesClose
  <2>1. CASE close_tx = "Now" BY <1>2, <2>1, EndKeeps DEF SeesClose
  <2>2. CASE close_tx # "Now"
    <3>1. /\ loop = "select" /\ AfterSelect(parked, {}, muted)
          /\ UNCHANGED <<result, callVars, channel, pending, netVars, muted>>
      BY <1>2, <2>2 DEF SeesClose, Selecting
    <3> QED BY <3>1, QuietIteration
  <2> QED BY <2>1, <2>2
<1>3. CASE WakeParked
  <2>1. /\ loop = "select" /\ AfterSelect(parked, {}, muted)
        /\ UNCHANGED <<result, callVars, channel, pending, netVars, muted>>
    BY <1>3 DEF WakeParked, Undisturbed, Selecting
  <2> QED BY <2>1, QuietIteration
<1>4. CASE TakeCommand
  <2>1. /\ loop = "select" /\ parked = None /\ channel # <<>>
        /\ channel' = Tail(channel)
        /\ AfterSelect(Head(channel), {}, muted)
        /\ UNCHANGED <<result, callVars, pending, netVars, muted>>
    BY <1>4 DEF TakeCommand, Undisturbed, Selecting
  <2> QED BY <2>1, QuietIteration
<1>5. CASE SeesEof BY <1>5, EndKeeps DEF SeesEof
<1>6. ASSUME NEW c \in Requests, Expire(c) PROVE IInv'
  <2>1. /\ Stop("Network", {c}, "Timeout") /\ UNCHANGED callVars
        /\ c \in Pending
    BY <1>6 DEF Expire, request_timeout_close_error
  <2>2. {c} \subseteq Pending \cup Held /\ {c} \subseteq written
    BY <2>1 DEF Pending, IInv, Pairing
  <2>3. /\ "Network" \in Errors \ {"WouldBlock"} /\ "Network" # "Timeout"
        /\ "Timeout" \in Errors \ {"WouldBlock"}
    BY DEF Errors
  <2> QED BY <2>1, <2>2, <2>3, StopKeeps
<1>7. ASSUME NEW legible \in BOOLEAN, NEW throttles \in BOOLEAN,
             dispatch_response(legible, throttles)
      PROVE  IInv'
  BY <1>7, dispatch_responseKeeps
<1>8. ASSUME NEW outcome \in {"ok", "error", "timeout"}, write_command(outcome)
      PROVE  IInv'
  BY <1>8, write_commandKeeps
<1> QED BY <1>1, <1>2, <1>3, <1>4, <1>5, <1>6, <1>7, <1>8 DEF LoopStep

(* Every step keeps the invariant. *)
LEMMA NextKeeps ==
    ASSUME IInv, [Next]_vars
    PROVE  IInv'
<1>1. CASE UNCHANGED vars
  <2>1. /\ UNCHANGED <<callVars, slotVars, loopVars, outbox, inbox, written>>
        /\ muted' = muted
    BY <1>1 DEF vars, netVars
  <2>2. muted' \in BOOLEAN BY <2>1 DEF IInv, Types
  <2> QED BY <2>1, <2>2, Undisturbing
<1>2. ASSUME NEW c \in Requests, send_inner(c) PROVE IInv' BY <1>2, send_innerKeeps
<1>3. ASSUME NEW c \in Requests, Drop(c) PROVE IInv' BY <1>3, DropKeeps
<1>4. ASSUME NEW c \in Silent, send_fire_and_forget(c) PROVE IInv'
  BY <1>4, send_fire_and_forgetKeeps
<1>5. CASE CallerSteps
  <2>1. ASSUME NEW c \in Requests, acquire_in_flight(c) PROVE IInv'
    BY <2>1, acquire_in_flightKeeps
  <2>2. ASSUME NEW c \in Requests, ChannelFrees(c) PROVE IInv'
    BY <2>2, Apart, ChannelFreesKeeps
  <2> QED BY <1>5, <2>1, <2>2 DEF CallerSteps
<1>6. CASE SilentSteps
  <2>1. ASSUME NEW c \in Silent, ChannelFrees(c) PROVE IInv'
    BY <2>1, Apart, ChannelFreesKeeps
  <2>2. ASSUME NEW c \in Silent, EnqueueTimesOut(c) PROVE IInv'
    BY <2>2, EnqueueTimesOutKeeps
  <2> QED BY <1>6, <2>1, <2>2 DEF SilentSteps
<1>7. ASSUME NEW mode \in {"WhenIdle", "Now"}, request_close(mode) PROVE IInv'
  <2>1. /\ UNCHANGED <<callVars, slotVars, loopVars, outbox, inbox, written>>
        /\ muted' = muted
    BY <1>7 DEF request_close, netVars
  <2>2. muted' \in BOOLEAN BY <2>1 DEF IInv, Types
  <2> QED BY <2>1, <2>2, Undisturbing
<1>8. CASE notify_throttle
  <2>1. UNCHANGED <<callVars, slotVars, loopVars, outbox, inbox, written>>
    BY <1>8 DEF notify_throttle, netVars
  <2>2. muted' \in BOOLEAN BY <1>8 DEF notify_throttle
  <2> QED BY <2>1, <2>2, Undisturbing
<1>9. CASE MuteEnds
  <2>1. UNCHANGED <<callVars, slotVars, loopVars, outbox, inbox, written>>
    BY <1>9 DEF MuteEnds, netVars
  <2>2. muted' \in BOOLEAN BY <1>9 DEF MuteEnds
  <2> QED BY <2>1, <2>2, Undisturbing
<1>10. CASE ReadEnds
  <2>1. /\ UNCHANGED <<callVars, slotVars, loopVars, outbox, inbox, written>>
        /\ muted' = muted
    BY <1>10 DEF ReadEnds
  <2>2. muted' \in BOOLEAN BY <2>1 DEF IInv, Types
  <2> QED BY <2>1, <2>2, Undisturbing
<1>11. CASE Transmit BY <1>11, TransmitKeeps
<1>12. CASE read_frame BY <1>12, read_frameKeeps
<1>13. CASE LoopStep BY <1>13, LoopStepKeeps
<1> QED BY <1>1, <1>2, <1>3, <1>4, <1>5, <1>6, <1>7, <1>8, <1>9, <1>10, <1>11,
           <1>12, <1>13 DEF Next

-----------------------------------------------------------------------------
(* The results. *)

(* The places of the calls, the pairing of frames with the requests that   *)
(* wait for them and the count of slots hold at all times, through closes, *)
(* throttling, dropped callers, wrapped ids and a broker that goes away.   *)
THEOREM ConnectionInvariant == Spec => []IInv
BY InitHolds, NextKeeps, PTL DEF Spec

(* The in_flight semaphore of a connection loses no permit and hands none  *)
(* out twice, and the refusal of write_command is unreachable.             *)
THEOREM SlotsAlwaysExact == Spec => []SlotsExact
<1>1. IInv => SlotsExact
  BY DEF IInv, Slots, Holders, Holding, Told, SlotsExact
<1> QED BY <1>1, ConnectionInvariant, PTL

(* A caller is given the answer to its own request and no other, however   *)
(* the ids wrap, and is told of a timeout only when its write has started. *)
THEOREM AnswersAlwaysTrue == Spec => []AnswersAreTrue
<1>1. IInv => AnswersAreTrue
  <2> SUFFICES ASSUME IInv PROVE AnswersAreTrue OBVIOUS
  <2>1. permits \in 0..MAX_IN_FLIGHT
    <3>1. Cardinality(Holders) \in Nat BY HoldersFinite
    <3> QED BY <3>1, ConnectionAssumption DEF IInv, Slots
  <2>2. DOMAIN pending \subseteq 0..ID_SPACE - 1
    BY DEF IInv, Pairing, Types
  <2>3. TypeOK BY <2>1, <2>2 DEF IInv, Types, States, Parking, Queueing, Frames, TypeOK
  <2> QED BY <2>3 DEF IInv, Told, AnswersAreTrue
<1> QED BY <1>1, ConnectionInvariant, PTL

(* What an iteration starts to write it may write. *)
LEMMA AllowedWrite ==
    ASSUME IInv, NEW cmd, NEW gone, NEW mute \in BOOLEAN,
           AfterSelect(cmd, gone, mute), written' # written
    PROVE  (written' \ written) \cap dropped = {} /\ ~mute
<1>1. ~Abandoned(cmd) /\ ~mute /\ written' = written \cup {cmd}
  BY AfterSelectCases DEF Discard, Park, StartWrite
<1>2. dropped \subseteq Requests BY DEF IInv, Types
<1>3. cmd \notin dropped BY <1>1, <1>2 DEF Abandoned
<1> QED BY <1>1, <1>3

(* The event loop never starts to write a request whose caller has gone,   *)
(* and never while the broker has asked for silence.                       *)
THEOREM OnlyAllowedWrites == Spec => WritesAllowed
<1> DEFINE P == written' # written => (written' \ written) \cap dropped = {} /\ ~muted'
<1>1. ASSUME IInv, Next, written' # written PROVE P
  <2>0. muted \in BOOLEAN BY <1>1 DEF IInv, Types
  <2>1. ASSUME NEW cmd, AfterSelect(cmd, {}, muted), muted' = muted PROVE P
    <3>1. PICK gone : gone = {} OBVIOUS
    <3>2. AfterSelect(cmd, gone, muted) BY <2>1, <3>1
    <3>3. PICK mute \in BOOLEAN : mute = muted BY <2>0
    <3>4. AfterSelect(cmd, gone, mute) BY <3>2, <3>3
    <3>5. (written' \ written) \cap dropped = {} /\ ~mute BY <1>1, <3>4, AllowedWrite
    <3> QED BY <2>1, <3>3, <3>5
  <2>2. ASSUME NEW e, NEW s, NEW a, Stop(e, s, a) PROVE written' = written BY <2>2 DEF Stop
  <2>3. CASE LoopStep
    <3>1. CASE StopWhenIdle BY <1>1, <2>2, <3>1 DEF StopWhenIdle
    <3>2. CASE SeesClose
      <4>1. CASE close_tx = "Now" BY <1>1, <2>2, <3>2, <4>1 DEF SeesClose
      <4>2. CASE close_tx # "Now" BY <2>1, <3>2, <4>2 DEF SeesClose
      <4> QED BY <4>1, <4>2
    <3>3. CASE WakeParked BY <2>1, <3>3 DEF WakeParked
    <3>4. CASE TakeCommand BY <2>1, <3>4 DEF TakeCommand
    <3>5. CASE SeesEof BY <1>1, <2>2, <3>5 DEF SeesEof
    <3>6. ASSUME NEW c \in Requests, Expire(c) PROVE P BY <1>1, <2>2, <3>6 DEF Expire
    <3>7. ASSUME NEW legible \in BOOLEAN, NEW throttles \in BOOLEAN,
                 dispatch_response(legible, throttles)
          PROVE  P
      <4>1. PICK c : \/ /\ AfterSelect(parked, c, muted \/ throttles)
                        /\ muted' = (muted \/ throttles)
                     \/ Stop("Malformed", c, "Malformed")
        BY <3>7 DEF dispatch_response
      <4>2. CASE Stop("Malformed", c, "Malformed") BY <1>1, <2>2, <4>2
      <4>3. CASE /\ AfterSelect(parked, c, muted \/ throttles)
                 /\ muted' = (muted \/ throttles)
        <5>1. PICK mute \in BOOLEAN : mute = (muted \/ throttles) BY <2>0
        <5>2. AfterSelect(parked, c, mute) BY <4>3, <5>1
        <5>3. (written' \ written) \cap dropped = {} /\ ~mute BY <1>1, <5>2, AllowedWrite
        <5> QED BY <4>3, <5>1, <5>3
      <4> QED BY <4>1, <4>2, <4>3
    <3>8. ASSUME NEW outcome \in {"ok", "error", "timeout"}, write_command(outcome)
          PROVE  written' = written
      BY <2>2, <3>8 DEF write_command, BackToSelect
    <3> QED BY <1>1, <2>3, <3>1, <3>2, <3>3, <3>4, <3>5, <3>6, <3>7, <3>8 DEF LoopStep
  <2>4. CASE ~LoopStep
    <3>1. written' = written
      BY <1>1, <2>4 DEF Next, send_inner, Drop, send_fire_and_forget, CallerSteps,
         SilentSteps, acquire_in_flight, ChannelFrees, EnqueueTimesOut, EnqueueUnchanged,
         request_close, notify_throttle, MuteEnds, Transmit, read_frame, ReadEnds
    <3> QED BY <1>1, <3>1
  <2> QED BY <2>3, <2>4
<1>2. IInv /\ [Next]_vars => [P]_vars BY <1>1
<1> QED BY <1>2, ConnectionInvariant, PTL DEF Spec, WritesAllowed
=============================================================================
