------------------------- MODULE ProducerSendProofs -------------------------
(***************************************************************************)
(* The flush barrier, for any set of sends and callers: its counters are   *)
(* exact and it keeps the flush promise.  Then the sends over it, for any  *)
(* sizes, budget and chain: no byte of the budget is lost, and every       *)
(* interceptor is served.                                                  *)
(***************************************************************************)
EXTENDS ProducerSend, FiniteSetTheorems, SequenceTheorems, TLAPS

(* A guard entering or leaving a finite set changes its count by one. *)
LEMMA CountChange ==
    ASSUME NEW S, IsFiniteSet(S), NEW o
    PROVE  /\ Cardinality(S) \in Nat
           /\ o \notin S => Cardinality(S \cup {o}) = Cardinality(S) + 1
           /\ o \in S => /\ Cardinality(S \ {o}) = Cardinality(S) - 1
                         /\ Cardinality(S) > 0
<1>1. Cardinality(S) \in Nat
  BY FS_CardinalityType
<1>2. o \notin S => Cardinality(S \cup {o}) = Cardinality(S) + 1
  BY FS_AddElement
<1>3. o \in S => Cardinality(S \ {o}) = Cardinality(S) - 1
  BY FS_RemoveElement
<1>4. o \in S => Cardinality(S) > 0
  BY <1>1, FS_EmptySet
<1> QED BY <1>1, <1>2, <1>3, <1>4

(* The guards held in a generation are finitely many. *)
LEMMA HeldFinite == \A g : IsFiniteSet(Held(g))
BY OpsAssumption, FS_Subset DEF Held

(* Initially nothing is counted and nothing is held. *)
LEMMA InitIInv == Init => IInv
<1> SUFFICES ASSUME Init PROVE IInv
  OBVIOUS
<1>1. TypeOK
  <2>1. 0 \in 0..(MaxGen + 1) /\ 0 \in Gens /\ 0 \in Nat
    BY MaxGenAssumption DEF Gens
  <2> QED BY <2>1 DEF Init, TypeOK
<1>2. \A g : Held(g) = {}
  BY DEF Init, Held
<1>3. CountersExact
  BY <1>2, FS_EmptySet DEF Init, CountersExact
<1>4. GenerationsOrdered /\ ClosedIsCovered
  BY DEF Init, GenerationsOrdered, ClosedIsCovered
<1> QED BY <1>1, <1>3, <1>4 DEF IInv, BarrierExact

(* Steps that leave the guards and their counters alone keep them exact. *)
LEMMA CountersUnchanged ==
    ASSUME CountersExact, op' = op, opGen' = opGen, running' = running
    PROVE  CountersExact'
BY DEF CountersExact, Held

(* Every step of the barrier preserves the inductive invariant. *)
LEMMA NextIInv == IInv /\ [Next]_vars => IInv'
<1> SUFFICES ASSUME IInv, [Next]_vars PROVE IInv'
  OBVIOUS
<1> USE MaxGenAssumption
<1>0. TypeOK /\ CountersExact /\ GenerationsOrdered /\ ClosedIsCovered
  BY DEF IInv, BarrierExact
<1>1. ASSUME NEW o \in Ops, start(o) PROVE IInv'
  <2>1. current \in 0..(MaxGen + 1) /\ running[current] \in Nat
    BY <1>0 DEF TypeOK
  <2>2. TypeOK'
    BY <1>1, <1>0, <2>1 DEF start, TypeOK, callerVars
  <2>3. Held(current)' = Held(current) \cup {o} /\ o \notin Held(current)
    BY <1>1, <1>0 DEF start, Held, TypeOK
  <2>4. \A g \in 0..(MaxGen + 1) : g # current => Held(g)' = Held(g)
    BY <1>1, <1>0 DEF start, Held, TypeOK
  <2>5. CountersExact'
    <3>1. Cardinality(Held(current)') = running[current] + 1
      BY <1>0, <2>1, <2>3, CountChange, HeldFinite DEF CountersExact
    <3>2. ASSUME NEW g \in 0..(MaxGen + 1)
          PROVE  running'[g] = Cardinality(Held(g)')
      <4>1. CASE g = current
        BY <1>1, <1>0, <3>1, <4>1 DEF start, TypeOK
      <4>2. CASE g # current
        BY <1>1, <1>0, <2>4, <4>2 DEF start, TypeOK, CountersExact
      <4> QED BY <4>1, <4>2
    <3> QED BY <3>2 DEF CountersExact
  <2>6. GenerationsOrdered' /\ ClosedIsCovered'
    BY <1>1, <1>0 DEF start, GenerationsOrdered, ClosedIsCovered, TypeOK, callerVars
  <2> QED BY <2>2, <2>5, <2>6 DEF IInv, BarrierExact
<1>2. ASSUME NEW o \in Ops, complete(o) PROVE IInv'
  <2>1. opGen[o] \in 0..(MaxGen + 1) /\ o \in Held(opGen[o])
    BY <1>2, <1>0 DEF complete, TypeOK, Held
  <2>2. Held(opGen[o])' = Held(opGen[o]) \ {o}
    BY <1>2, <1>0 DEF complete, Held, TypeOK
  <2>3. \A g \in 0..(MaxGen + 1) : g # opGen[o] => Held(g)' = Held(g)
    BY <1>2, <1>0 DEF complete, Held, TypeOK
  <2>4. running[opGen[o]] = Cardinality(Held(opGen[o])) /\ running[opGen[o]] > 0
    BY <1>0, <2>1, CountChange, HeldFinite DEF CountersExact
  <2>5. CountersExact'
    <3>1. Cardinality(Held(opGen[o])') = running[opGen[o]] - 1
      BY <2>1, <2>2, <2>4, CountChange, HeldFinite
    <3>2. opGen'[o] = opGen[o]
      BY <1>2 DEF complete
    <3>3. ASSUME NEW g \in 0..(MaxGen + 1)
          PROVE  running'[g] = Cardinality(Held(g)')
      <4>1. CASE g = opGen[o]
        BY <1>2, <1>0, <3>1, <3>2, <4>1 DEF complete, TypeOK
      <4>2. CASE g # opGen[o]
        BY <1>2, <1>0, <2>3, <4>2 DEF complete, TypeOK, CountersExact
      <4> QED BY <4>1, <4>2
    <3> QED BY <3>3 DEF CountersExact
  <2>6. TypeOK'
    BY <1>2, <1>0, <2>1, <2>4 DEF complete, TypeOK, callerVars
  <2>7. GenerationsOrdered' /\ ClosedIsCovered'
    BY <1>2, <1>0 DEF complete, GenerationsOrdered, ClosedIsCovered, TypeOK, callerVars
  <2> QED BY <2>5, <2>6, <2>7 DEF IInv, BarrierExact
<1>3. ASSUME NEW o \in Ops, notify_waiters(o) PROVE IInv'
  <2>1. \A g : Held(g)' = Held(g)
    BY <1>3, <1>0 DEF notify_waiters, Held, TypeOK
  <2>2. CountersExact'
    BY <1>3, <1>0, <2>1 DEF notify_waiters, CountersExact
  <2>3. TypeOK'
    BY <1>3, <1>0 DEF notify_waiters, TypeOK, Enabled
  <2>4. GenerationsOrdered' /\ ClosedIsCovered'
    BY <1>3, <1>0 DEF notify_waiters, GenerationsOrdered, ClosedIsCovered, TypeOK
  <2> QED BY <2>2, <2>3, <2>4 DEF IInv, BarrierExact
<1>4. ASSUME NEW c \in Callers, snapshot(c) \/ begin_close(c) PROVE IInv'
  <2>0. /\ current \in Gens /\ current' = current + 1 /\ closing' \in BOOLEAN
        /\ target' = [target EXCEPT ![c] = current]
        /\ pc' = [pc EXCEPT ![c] = "enable"]
        /\ op' = op /\ opGen' = opGen /\ running' = running /\ notified' = notified
    BY <1>4, <1>0 DEF snapshot, begin_close, opVars, TypeOK
  <2>1. TypeOK'
    BY <2>0, <1>0 DEF TypeOK, Gens
  <2>2. CountersExact'
    BY <2>0, <1>0, CountersUnchanged
  <2>3. GenerationsOrdered'
    BY <2>0, <1>0 DEF GenerationsOrdered, TypeOK, Gens
  <2>4. ClosedIsCovered'
    BY <2>0, <1>0 DEF ClosedIsCovered, GenerationsOrdered, TypeOK, Gens
  <2> QED BY <2>1, <2>2, <2>3, <2>4 DEF IInv, BarrierExact
<1>5. ASSUME NEW c \in Callers, enable(c) \/ check(c) \/ poll(c) \/ wake(c) \/ leave(c)
      PROVE  IInv'
  <2>1. TypeOK'
    BY <1>5, <1>0 DEF enable, check, poll, wake, leave, TypeOK, opVars
  <2>2. CountersExact'
    BY <1>5, <1>0, CountersUnchanged DEF enable, check, poll, wake, leave, opVars
  <2>3. GenerationsOrdered' /\ ClosedIsCovered'
    BY <1>5, <1>0
    DEF enable, check, poll, wake, leave, GenerationsOrdered, ClosedIsCovered, TypeOK, opVars
  <2> QED BY <2>1, <2>2, <2>3 DEF IInv, BarrierExact
<1>6. CASE UNCHANGED vars
  <2>1. CountersExact'
    BY <1>6, <1>0, CountersUnchanged DEF vars
  <2> QED BY <1>6, <1>0, <2>1 DEF vars, IInv, BarrierExact, TypeOK, GenerationsOrdered, ClosedIsCovered
<1> QED BY <1>1, <1>2, <1>3, <1>4, <1>5, <1>6 DEF Next

(* The counters are exact, generations ordered and a close covers every    *)
(* admitted send, in every reachable state (src/barrier.rs).               *)
THEOREM BarrierInvariant == Spec => []IInv
BY InitIInv, NextIInv, PTL DEF Spec

(* The counter of each generation is the number of its guards still held,  *)
(* no guard or waiter is of a generation out of order, and a close covers  *)
(* every admitted send (src/barrier.rs start, complete, begin_close).      *)
THEOREM BarrierAlwaysExact == Spec => []BarrierExact
<1>1. IInv => BarrierExact
  BY DEF IInv
<1> QED BY <1>1, BarrierInvariant, PTL

-----------------------------------------------------------------------------

(* A waiter that finds its generations drained is owed nothing. *)
LEMMA DrainedOwesNothing ==
    ASSUME IInv, NEW c \in Callers, pc[c] # "out", is_drained(target[c])
    PROVE  Owed(c) = {}
<1> SUFFICES ASSUME NEW o \in Ops, op[o] = "held", opGen[o] <= target[c]
             PROVE  FALSE
  BY Zenon DEF Owed
<1>1. opGen[o] \in 0..(MaxGen + 1) /\ target[c] \in Gens
  BY DEF IInv, BarrierExact, TypeOK
<1>2. opGen[o] \in 0..target[c]
  BY <1>1, MaxGenAssumption DEF Gens
<1>3. running[opGen[o]] = 0
  BY <1>2 DEF is_drained
<1>4. o \in Held(opGen[o]) /\ Cardinality(Held(opGen[o])) = 0
  BY <1>1, <1>3 DEF Held, IInv, BarrierExact, CountersExact
<1>5. IsFiniteSet(Held(opGen[o]))
  BY HeldFinite
<1>6. Cardinality(Held(opGen[o])) > 0
  BY <1>4, <1>5, CountChange
<1> QED BY <1>4, <1>6

(* What is owed does not change while guards, phase and target do not. *)
LEMMA OwedUnchanged ==
    ASSUME NEW c, op' = op, opGen' = opGen, target'[c] = target[c],
           (pc'[c] = "out") = (pc[c] = "out")
    PROVE  Owed(c)' = Owed(c)
BY DEF Owed

(* The abstract initial state. *)
LEMMA PromiseInit == Init => Promise!Init
<1> SUFFICES ASSUME Init PROVE Promise!Init
  OBVIOUS
<1>1. \A c \in Callers : Phase(c) = "out" /\ Owed(c) = {}
  BY DEF Init, Phase, Owed
<1>2. {o \in Ops : op[o] = "held"} = {}
  BY DEF Init
<1> QED BY <1>1, <1>2 DEF Promise!Init, Init

(* Each step of the barrier is a step FlushPromise allows, or a stutter.   *)
LEMMA PromiseNext == IInv /\ [Next]_vars => [Promise!Next]_(Promise!vars)
<1> SUFFICES ASSUME IInv, [Next]_vars PROVE [Promise!Next]_(Promise!vars)
  OBVIOUS
<1> USE MaxGenAssumption
<1> DEFINE act == {o \in Ops : op[o] = "held"}
           ph == [c \in Callers |-> Phase(c)]
           ow == [c \in Callers |-> Owed(c)]
<1>0. TypeOK /\ CountersExact /\ GenerationsOrdered /\ ClosedIsCovered
  BY DEF IInv, BarrierExact
<1>1. ASSUME NEW o \in Ops, start(o) PROVE Promise!Begin(o)
  <2>1. act' = act \cup {o} /\ o \notin act
    BY <1>1, <1>0 DEF start, TypeOK
  <2>2. ph' = ph
    BY <1>1 DEF start, callerVars, Phase
  <2>3. ASSUME NEW c \in Callers PROVE Owed(c)' = Owed(c)
    <3>1. CASE pc[c] = "out"
      BY <1>1, <3>1 DEF start, callerVars, Owed
    <3>2. CASE pc[c] # "out"
      <4>1. target[c] < current /\ target[c] \in Nat /\ current \in Nat
        BY <1>0, <3>2 DEF GenerationsOrdered, TypeOK, Gens
      <4>2. \A x \in Ops : (op'[x] = "held" /\ opGen'[x] <= target[c])
                            <=> (op[x] = "held" /\ opGen[x] <= target[c])
        BY <1>1, <1>0, <4>1 DEF start, TypeOK
      <4> QED BY <1>1, <3>2, <4>2 DEF start, callerVars, Owed
    <3> QED BY <3>1, <3>2
  <2> QED BY <1>1, <2>1, <2>2, <2>3 DEF start, Promise!Begin
<1>2. ASSUME NEW o \in Ops, complete(o) PROVE Promise!Finish(o)
  <2>1. act' = act \ {o} /\ o \in act
    BY <1>2, <1>0 DEF complete, TypeOK
  <2>2. ph' = ph
    BY <1>2 DEF complete, callerVars, Phase
  <2>3. \A c \in Callers : Owed(c)' = Owed(c) \ {o}
    BY <1>2, <1>0 DEF complete, callerVars, Owed, TypeOK
  <2> QED BY <1>2, <2>1, <2>2, <2>3 DEF complete, Promise!Finish
<1>3. ASSUME NEW o \in Ops, notify_waiters(o) PROVE UNCHANGED Promise!vars
  <2>1. act' = act
    BY <1>3, <1>0 DEF notify_waiters, TypeOK
  <2>2. ph' = ph
    BY <1>3 DEF notify_waiters, Phase
  <2>3. \A c \in Callers : Owed(c)' = Owed(c)
    BY <1>3, <1>0 DEF notify_waiters, Owed, TypeOK
  <2> QED BY <1>3, <2>1, <2>2, <2>3 DEF notify_waiters, Promise!vars
<1>4. ASSUME NEW c \in Callers, snapshot(c) \/ begin_close(c)
      PROVE  Promise!Call(c) \/ Promise!CallClose(c)
  <2>1. act' = act
    BY <1>4 DEF snapshot, begin_close, opVars
  <2>2. Phase(c) = "out" /\ ph' = [ph EXCEPT ![c] = "waiting"]
    BY <1>4, <1>0 DEF snapshot, begin_close, Phase, TypeOK
  <2>3. Owed(c)' = act
    BY <1>4, <1>0 DEF snapshot, begin_close, Owed, opVars, GenerationsOrdered, TypeOK, Gens
  <2>4. \A d \in Callers \ {c} : Owed(d)' = Owed(d)
    BY <1>4, <1>0, OwedUnchanged DEF snapshot, begin_close, opVars, TypeOK
  <2>5. ow' = [ow EXCEPT ![c] = act]
    BY <2>3, <2>4
  <2> QED
    BY <1>4, <2>1, <2>2, <2>5
    DEF snapshot, begin_close, Promise!Call, Promise!CallClose
<1>5. ASSUME NEW c \in Callers, enable(c) \/ poll(c) \/ wake(c)
      PROVE  UNCHANGED Promise!vars
  <2>1. ph' = ph
    BY <1>5, <1>0 DEF enable, poll, wake, Phase, TypeOK
  <2>2. \A d \in Callers : Owed(d)' = Owed(d)
    BY <1>5, <1>0, OwedUnchanged DEF enable, poll, wake, opVars, TypeOK
  <2> QED BY <1>5, <2>1, <2>2 DEF enable, poll, wake, opVars, Promise!vars
<1>6. ASSUME NEW c \in Callers, check(c)
      PROVE  Promise!Return(c) \/ UNCHANGED Promise!vars
  <2>1. \A d \in Callers : Owed(d)' = Owed(d)
    BY <1>6, <1>0, OwedUnchanged DEF check, opVars, TypeOK
  <2>2. CASE is_drained(target[c])
    <3>1. Owed(c) = {}
      BY <1>6, <2>2, DrainedOwesNothing DEF check
    <3>2. Phase(c) = "waiting" /\ ph' = [ph EXCEPT ![c] = "returned"]
      BY <1>6, <1>0, <2>2 DEF check, Phase, TypeOK
    <3> QED BY <1>6, <2>1, <3>1, <3>2 DEF check, opVars, Promise!Return
  <2>3. CASE ~is_drained(target[c])
    <3>1. ph' = ph
      BY <1>6, <1>0, <2>3 DEF check, Phase, TypeOK
    <3> QED BY <1>6, <2>1, <3>1 DEF check, opVars, Promise!vars
  <2> QED BY <2>2, <2>3
<1>7. ASSUME NEW c \in Callers, leave(c) PROVE Promise!Leave(c)
  <2>1. Phase(c) # "out" /\ ph' = [ph EXCEPT ![c] = "out"]
    BY <1>7, <1>0 DEF leave, Phase, TypeOK
  <2>2. Owed(c)' = {}
    BY <1>7, <1>0 DEF leave, Owed, TypeOK
  <2>3. \A d \in Callers \ {c} : Owed(d)' = Owed(d)
    BY <1>7, <1>0, OwedUnchanged DEF leave, opVars, TypeOK
  <2>4. ow' = [ow EXCEPT ![c] = {}]
    BY <2>2, <2>3
  <2> QED BY <1>7, <2>1, <2>4 DEF leave, opVars, Promise!Leave
<1>8. CASE UNCHANGED vars
  BY <1>8 DEF vars, Promise!vars, Phase, Owed
<1> QED
  BY <1>1, <1>2, <1>3, <1>4, <1>5, <1>6, <1>7, <1>8 DEF Next, Promise!Next

(* The generation counters implement the flush promise: a flush or a close *)
(* returns only when every send in progress at the call has its outcome,   *)
(* and no send begins once a close has (Producer::flush, close_with).      *)
THEOREM BarrierKeepsPromise == Spec => KeepsPromise
<1>1. Init => Promise!Init
  BY PromiseInit
<1>2. IInv /\ [Next]_vars => [Promise!Next]_(Promise!vars)
  BY PromiseNext
<1> QED BY <1>1, <1>2, BarrierInvariant, PTL DEF Spec, KeepsPromise, Promise!Spec

-----------------------------------------------------------------------------
(***************************************************************************)
(* The send (ProducerSend), over the barrier.  Three parts, each with its  *)
(* own variables: the barrier with the guards that sends hold, the         *)
(* interceptors' obligation, and the byte budget.                          *)
(***************************************************************************)
Guarded == {"started", "queued"}

Guards ==
    /\ IInv
    /\ budget \in {"open", "closed"} /\ ended \in {"no", "close", "timeout", "drop"}
    /\ \A o \in Ops : at[o] \in Guarded => op[o] = "held"
    /\ \A c \in Callers : pc[c] = "returned" => Owed(c) = {}
    /\ closer # Nobody => /\ closer \in Flushers /\ pc[closer] # "out" /\ closing
                          /\ \A o \in Ops : op[o] = "held" => opGen[o] <= target[closer]
    /\ ended = "close" => closing /\ \A o \in Ops : op[o] # "held"

(* Who owes the callback of a send at `place`. *)
Owes(place) == IF place \in {"idle", "answered"} THEN Nobody
               ELSE IF place = "queued" THEN "waiter" ELSE "obligation"

Obligations ==
    /\ holder \in [Ops -> {Nobody, "obligation", "waiter"}]
    /\ context \in [Ops -> [Owners -> Chain \cup {None}]]
    /\ owed \in [Ops -> SUBSET Chain] /\ open \in [Ops -> SUBSET Chain]
    /\ twice = FALSE
    /\ \A o \in Ops :
         /\ holder[o] = Owes(at[o])
         /\ holder[o] = Nobody => owed[o] = {} /\ open[o] = {}
         /\ holder[o] # Nobody => owed[o] # {} /\ \A i \in open[o] : Taken(o, i) = i

Places == {"idle", "panicked", "routing", "waiting", "granted", "reserved",
           "started", "refused", "queued", "answered"}
Holders(places) == {o \in Ops : places[o] \in Holding}

Budget ==
    /\ at \in [Ops -> Places]
    /\ size \in [Ops -> Sizes \cup {0}]
    /\ memory \in 0..memory_capacity
    /\ queue \in Seq(Ops)
    /\ \A k \in 1..Len(queue) : at[queue[k]] = "waiting"
    /\ \A j, k \in 1..Len(queue) : queue[j] = queue[k] => j = k
    /\ memory + Cardinality(Permits(Holders(at), size)) = memory_capacity

SInv == Guards /\ Obligations /\ Budget

-----------------------------------------------------------------------------
(* Permits. *)

LEMMA PermitsOf ==
    ASSUME NEW who, NEW sizes, NEW x
    PROVE  x \in Permits(who, sizes) <=> \E o \in who : x \in {o} \X (1..sizes[o])
BY Zenon DEF Permits

(* The permits of finitely many sends are finitely many. *)
LEMMA PermitsFinite ==
    ASSUME NEW who \in SUBSET Ops, NEW sizes \in [Ops -> Nat]
    PROVE  /\ IsFiniteSet(Permits(who, sizes))
           /\ Cardinality(Permits(who, sizes)) \in Nat
<1> DEFINE f == [o \in who |-> {o} \X (1..sizes[o])]
           sets == {{o} \X (1..sizes[o]) : o \in who}
<1>1. IsFiniteSet(who) BY OpsAssumption, FS_Subset
<1>2. f \in Surjection(who, sets) BY Zenon DEF Surjection
<1>3. IsFiniteSet(sets)
  <2> HIDE DEF f, sets
  <2> QED BY <1>1, <1>2, FS_Surjection
<1>4. ASSUME NEW s \in sets PROVE IsFiniteSet(s)
  <2>1. PICK o \in who : s = {o} \X (1..sizes[o]) OBVIOUS
  <2>2. sizes[o] \in Int BY <2>1
  <2>3. IsFiniteSet(1..sizes[o]) BY <2>2, FS_Interval
  <2>4. IsFiniteSet({o}) BY FS_Singleton
  <2> QED BY <2>1, <2>3, <2>4, FS_Product
<1>5. IsFiniteSet(UNION sets)
  <2> HIDE DEF sets
  <2> QED BY <1>3, <1>4, FS_UNION
<1> QED BY <1>5, FS_CardinalityType DEF Permits

(* A send's permits are as many as its size. *)
LEMMA PermitsOfOne ==
    ASSUME NEW o \in Ops, NEW sizes \in [Ops -> Nat]
    PROVE  Cardinality(Permits({o}, sizes)) = sizes[o]
<1>1. Permits({o}, sizes) = {o} \X (1..sizes[o])
  <2>1. {{p} \X (1..sizes[p]) : p \in {o}} = {{o} \X (1..sizes[o])} BY Zenon
  <2> QED BY <2>1, Zenon DEF Permits
<1>2. sizes[o] \in Nat /\ sizes[o] \in Int OBVIOUS
<1>3. IsFiniteSet(1..sizes[o]) /\ Cardinality(1..sizes[o]) = sizes[o] BY <1>2, FS_Interval
<1>4. IsFiniteSet({o}) /\ Cardinality({o}) = 1 BY FS_Singleton
<1>5. Cardinality({o} \X (1..sizes[o])) = Cardinality({o}) * Cardinality(1..sizes[o])
  BY <1>3, <1>4, FS_Product
<1>6. 1 * sizes[o] = sizes[o] BY <1>2
<1> QED BY <1>1, <1>3, <1>4, <1>5, <1>6, Zenon

(* Different sends have different permits. *)
LEMMA PermitsAdd ==
    ASSUME NEW these \in SUBSET Ops, NEW those \in SUBSET Ops, these \cap those = {},
           NEW sizes \in [Ops -> Nat]
    PROVE  Cardinality(Permits(these \cup those, sizes))
             = Cardinality(Permits(these, sizes)) + Cardinality(Permits(those, sizes))
<1> DEFINE A == Permits(these, sizes)  B == Permits(those, sizes)
<1>1. Permits(these \cup those, sizes) = A \cup B
  <2>1. \A x : x \in Permits(these \cup those, sizes) <=> x \in A \/ x \in B
    <3> TAKE x
    <3>1. x \in Permits(these \cup those, sizes)
            <=> \E o \in these \cup those : x \in {o} \X (1..sizes[o]) BY PermitsOf
    <3>2. x \in A <=> \E o \in these : x \in {o} \X (1..sizes[o]) BY PermitsOf
    <3>3. x \in B <=> \E o \in those : x \in {o} \X (1..sizes[o]) BY PermitsOf
    <3> HIDE DEF A, B
    <3> QED BY <3>1, <3>2, <3>3, Zenon
  <2> QED BY <2>1
<1>2. A \cap B = {}
  <2>1. SUFFICES ASSUME NEW x \in A, x \in B PROVE FALSE OBVIOUS
  <2>2. PICK o \in these : x \in {o} \X (1..sizes[o]) BY <2>1, PermitsOf
  <2>3. PICK p \in those : x \in {p} \X (1..sizes[p]) BY <2>1, PermitsOf
  <2>4. x[1] = o /\ x[1] = p BY <2>2, <2>3
  <2> QED BY <2>4
<1>3. IsFiniteSet(A) /\ IsFiniteSet(B) /\ Cardinality(A) \in Nat /\ Cardinality(B) \in Nat
  BY PermitsFinite
<1> HIDE DEF A, B
<1>4. Cardinality(A \cup B) = Cardinality(A) + Cardinality(B) - Cardinality({})
  BY <1>2, <1>3, FS_Union
<1>5. Cardinality({}) = 0 BY FS_EmptySet
<1>6. Cardinality(A \cup B) = Cardinality(A) + Cardinality(B) BY <1>3, <1>4, <1>5
<1> QED BY <1>1, <1>6 DEF A, B

(* Only the sizes of the sends in question count. *)
LEMMA PermitsSame ==
    ASSUME NEW who \in SUBSET Ops, NEW s, NEW t, \A o \in who : s[o] = t[o]
    PROVE  Permits(who, s) = Permits(who, t)
<1>1. \A x : x \in Permits(who, s) <=> x \in Permits(who, t)
  <2> TAKE x
  <2>1. x \in Permits(who, s) <=> \E o \in who : x \in {o} \X (1..s[o]) BY PermitsOf
  <2>2. x \in Permits(who, t) <=> \E o \in who : x \in {o} \X (1..t[o]) BY PermitsOf
  <2>3. \A o \in who : {o} \X (1..s[o]) = {o} \X (1..t[o]) OBVIOUS
  <2> QED BY <2>1, <2>2, <2>3, Zenon
<1> QED BY <1>1

-----------------------------------------------------------------------------
(* The budget. *)

LEMMA SizesAreNat ==
    ASSUME NEW s \in [Ops -> Sizes \cup {0}] PROVE s \in [Ops -> Nat]
<1>1. \A n \in Sizes \cup {0} : n \in Nat BY SizesAssumption
<1> QED BY <1>1

(* The semaphore is settled: what is free and what is held stay the budget, *)
(* and those who still wait are the queue.                                  *)
LEMMA SettleKeeps ==
    ASSUME NEW q \in Seq(Ops), NEW free \in Nat, NEW here \in [Ops -> Places],
           size' \in [Ops -> Sizes \cup {0}],
           \A k \in 1..Len(q) : here[q[k]] = "waiting",
           \A j, k \in 1..Len(q) : q[j] = q[k] => j = k,
           free + Cardinality(Permits(Holders(here), size')) = memory_capacity,
           Settle(q, free, here)
    PROVE  /\ Budget'
           /\ \A o \in Ops : \/ at'[o] = here[o]
                             \/ here[o] = "waiting" /\ at'[o] = "granted"
<1> DEFINE woken(k) == {q[n] : n \in 1..k}
           need(k) == Cardinality(Permits(woken(k), size'))
<1>1. PICK k \in 0..Len(q) :
           /\ need(k) <= free
           /\ memory' = free - need(k)
           /\ queue' = SubSeq(q, k + 1, Len(q))
           /\ at' = [o \in Ops |-> IF o \in woken(k) THEN "granted" ELSE here[o]]
  BY Zenon DEF Settle
<1>2. PICK w : w = woken(k) OBVIOUS
<1>3. \A n \in 1..k : q[n] \in Ops /\ here[q[n]] = "waiting" OBVIOUS
<1>4. w \in SUBSET Ops /\ \A o \in w : here[o] = "waiting" BY <1>2, <1>3
<1>5. at' = [o \in Ops |-> IF o \in w THEN "granted" ELSE here[o]] BY <1>1, <1>2, Zenon
<1>6. at' \in [Ops -> Places] BY <1>5 DEF Places
<1>7. \A o \in Ops : at'[o] = here[o] \/ (here[o] = "waiting" /\ at'[o] = "granted")
  BY <1>4, <1>5
<1>8. Holders(at') = Holders(here) \cup w /\ Holders(here) \cap w = {}
  BY <1>4, <1>5 DEF Holders, Holding
<1>9. size' \in [Ops -> Nat] BY SizesAreNat
<1>10. PICK H \in SUBSET Ops : H = Holders(here) BY DEF Holders
<1>11. PICK n \in Nat : n = Cardinality(Permits(w, size')) BY <1>4, <1>9, PermitsFinite
<1>12. PICK h \in Nat : h = Cardinality(Permits(H, size')) BY <1>9, PermitsFinite
<1>13. Cardinality(Permits(Holders(here) \cup w, size')) = h + n
  <2>1. H \cap w = {} BY <1>8, <1>10
  <2>2. Cardinality(Permits(H \cup w, size'))
          = Cardinality(Permits(H, size')) + Cardinality(Permits(w, size'))
    BY <1>4, <1>9, <2>1, PermitsAdd
  <2> QED BY <1>10, <1>11, <1>12, <2>2, Zenon
<1>14. need(k) = n BY <1>2, <1>11, Zenon
<1>15. n <= free /\ memory' = free - n BY <1>1, <1>14, Zenon
<1>16. free + h = memory_capacity BY <1>10, <1>12
<1>17. /\ memory' \in 0..memory_capacity
       /\ memory' + Cardinality(Permits(Holders(at'), size')) = memory_capacity
  BY <1>8, <1>13, <1>15, <1>16, SizesAssumption
<1>18. /\ queue' \in Seq(Ops) /\ Len(queue') = Len(q) - k
       /\ \A i \in 1..Len(queue') : queue'[i] = q[i + k] /\ i + k \in 1..Len(q) /\ i + k > k
  BY <1>1
<1>19. \A i \in 1..Len(queue') : at'[queue'[i]] = "waiting"
  <2> TAKE i \in 1..Len(queue')
  <2>1. queue'[i] = q[i + k] /\ i + k \in 1..Len(q) /\ i + k > k BY <1>18
  <2>2. q[i + k] \notin w
    <3> SUFFICES ASSUME q[i + k] \in w PROVE FALSE OBVIOUS
    <3>1. PICK n_ \in 1..k : q[i + k] = q[n_] BY <1>2
    <3>2. n_ \in 1..Len(q) BY <1>1, <3>1
    <3>3. n_ = i + k BY <2>1, <3>1, <3>2
    <3> QED BY <2>1, <3>1, <3>3
  <2>3. q[i + k] \in Ops /\ here[q[i + k]] = "waiting" BY <2>1
  <2> QED BY <1>5, <2>1, <2>2, <2>3
<1>20. \A i, j \in 1..Len(queue') : queue'[i] = queue'[j] => i = j
  <2> TAKE i, j \in 1..Len(queue')
  <2>1. /\ queue'[i] = q[i + k] /\ i + k \in 1..Len(q)
        /\ queue'[j] = q[j + k] /\ j + k \in 1..Len(q) BY <1>18
  <2>2. q[i + k] = q[j + k] => i + k = j + k BY <2>1
  <2> QED BY <1>1, <2>1, <2>2
<1>21. Budget' BY <1>6, <1>17, <1>18, <1>19, <1>20 DEF Budget
<1> QED BY <1>7, <1>21

(* A step that wakes nobody and moves no permit. *)
LEMMA BudgetSame ==
    ASSUME Budget, UNCHANGED <<memory, queue>>,
           at' \in [Ops -> Places], size' \in [Ops -> Sizes \cup {0}],
           \A o \in Ops : /\ at'[o] \in Holding <=> at[o] \in Holding
                          /\ at[o] = "waiting" => at'[o] = "waiting"
                          /\ at[o] \in Holding => size'[o] = size[o]
    PROVE  Budget'
<1>1. Holders(at') = Holders(at) BY DEF Holders
<1>2. \A o \in Holders(at) : size'[o] = size[o] BY DEF Holders
<1>3. Holders(at) \in SUBSET Ops BY DEF Holders
<1>4. Permits(Holders(at), size') = Permits(Holders(at), size) BY <1>2, <1>3, PermitsSame
<1>5. \A k \in 1..Len(queue) : queue[k] \in Ops BY DEF Budget
<1>6. \A k \in 1..Len(queue) : at'[queue[k]] = "waiting" BY <1>5 DEF Budget
<1>7. /\ queue' = queue /\ memory' = memory OBVIOUS
<1>8. memory' + Cardinality(Permits(Holders(at'), size')) = memory_capacity
  BY <1>1, <1>4, <1>7 DEF Budget
<1> QED BY <1>6, <1>7, <1>8 DEF Budget

(* A send without permits settles the queue q. *)
LEMMA SettleSame ==
    ASSUME Budget, NEW o \in Ops, at[o] \notin Holding, NEW place \in Places \ Holding,
           NEW q \in Seq(Ops), NEW here \in [Ops -> Places],
           \A p \in Ops : here[p] = IF p = o THEN place ELSE at[p],
           size' \in [Ops -> Sizes \cup {0}], \A p \in Ops \ {o} : size'[p] = size[p],
           \A k \in 1..Len(q) : here[q[k]] = "waiting",
           \A j, k \in 1..Len(q) : q[j] = q[k] => j = k,
           Settle(q, memory, here)
    PROVE  /\ Budget'
           /\ \A p \in Ops : at'[p] = here[p] \/ (here[p] = "waiting" /\ at'[p] = "granted")
<1>2. Holders(here) = Holders(at) BY DEF Holders, Budget
<1>3. Holders(at) \in SUBSET Ops /\ \A p \in Holders(at) : size'[p] = size[p] BY DEF Holders
<1>4. Permits(Holders(at), size') = Permits(Holders(at), size) BY <1>3, PermitsSame
<1>5. memory + Cardinality(Permits(Holders(here), size')) = memory_capacity
  BY <1>2, <1>4 DEF Budget
<1>6. memory \in Nat BY DEF Budget
<1> QED BY <1>5, <1>6, SettleKeeps

(* A send's permits go back. *)
LEMMA GiveBackKeeps ==
    ASSUME Budget, NEW o \in Ops, at[o] \in Holding, GiveBack(o),
           size' \in [Ops -> Sizes \cup {0}], \A p \in Ops \ {o} : size'[p] = size[p]
    PROVE  /\ Budget'
           /\ \A p \in Ops : LET old == [at EXCEPT ![o] = "idle"][p] IN
                             at'[p] = old \/ (old = "waiting" /\ at'[p] = "granted")
<1>1. PICK here \in [Ops -> Places] : here = [at EXCEPT ![o] = "idle"] BY DEF Budget, Places
<1>2. Holders(at) = Holders(here) \cup {o} /\ Holders(here) \cap {o} = {}
  BY <1>1 DEF Holders, Budget, Holding
<1>3. Holders(here) \in SUBSET Ops /\ \A p \in Holders(here) : size'[p] = size[p]
  BY <1>2 DEF Holders
<1>4. Permits(Holders(here), size') = Permits(Holders(here), size) BY <1>3, PermitsSame
<1>5. size \in [Ops -> Nat] BY SizesAreNat DEF Budget
<1>6. PICK h \in Nat : h = Cardinality(Permits(Holders(here), size)) BY <1>3, <1>5, PermitsFinite
<1>7. Cardinality(Permits({o}, size)) = size[o] BY <1>5, PermitsOfOne
<1>8. Cardinality(Permits(Holders(at), size)) = h + size[o]
  BY <1>2, <1>3, <1>5, <1>6, <1>7, PermitsAdd
<1>9. memory \in Nat /\ size[o] \in Nat /\ memory + (h + size[o]) = memory_capacity
  BY <1>5, <1>8 DEF Budget
<1>10. PICK free \in Nat : free = memory + size[o] BY <1>9
<1>11. free + Cardinality(Permits(Holders(here), size')) = memory_capacity
  BY <1>4, <1>6, <1>9, <1>10
<1>12. Settle(queue, free, here) BY <1>1, <1>10 DEF GiveBack
<1>13. queue \in Seq(Ops) /\ \A j, k \in 1..Len(queue) : queue[j] = queue[k] => j = k
  BY DEF Budget
<1>14. \A k \in 1..Len(queue) : here[queue[k]] = "waiting"
  <2> TAKE k \in 1..Len(queue)
  <2>1. queue[k] \in Ops /\ at[queue[k]] = "waiting" BY DEF Budget
  <2>2. queue[k] # o BY <2>1 DEF Holding
  <2> QED BY <1>1, <2>1, <2>2
<1>15. /\ Budget'
       /\ \A p \in Ops : at'[p] = here[p] \/ (here[p] = "waiting" /\ at'[p] = "granted")
  BY <1>11, <1>12, <1>13, <1>14, SettleKeeps
<1> QED BY <1>1, <1>15

-----------------------------------------------------------------------------
(* The interceptors' obligation. *)

(* Each interceptor has a slot of its own, in which what it left is found.  *)
LEMMA InsertedIs ==
    ASSUME NEW who \in SUBSET Chain
    PROVE  /\ Inserted(who) \in [Owners -> Chain \cup {None}]
           /\ \A i \in who : Inserted(who)[chain_owner(i)] = i
<1>1. \A i \in Chain : i \in Owners /\ chain_owner(i) = i
  BY ChainAssumption DEF Owners, chain_owner
<1> DEFINE mine(w) == {i \in who : chain_owner(i) = w}
           value(w) == IF mine(w) = {} THEN None ELSE CHOOSE i \in mine(w) : \A j \in mine(w) : j <= i
<1>2. Inserted(who) = [w \in Owners |-> value(w)] BY Zenon DEF Inserted
<1>3. \A w \in Owners \ who : mine(w) = {} BY <1>1
<1>4. \A w \in who : mine(w) = {w} BY <1>1
<1>5. \A w \in Owners \ who : value(w) = None BY <1>3, Zenon
<1>6. ASSUME NEW w \in who PROVE value(w) = w
  <2>1. w <= w BY <1>1, ChainAssumption DEF Owners
  <2>2. mine(w) = {w} BY <1>4
  <2>3. mine(w) # {} /\ \A j \in mine(w) : j <= w BY <2>1, <2>2
  <2>4. \A i \in mine(w) : i = w BY <2>2
  <2>5. w \in mine(w) BY <2>2
  <2> HIDE DEF mine
  <2> QED BY <2>3, <2>4, <2>5, Zenon
<1> HIDE DEF value, mine
<1>7. \A w \in Owners : value(w) \in Chain \cup {None} BY <1>5, <1>6
<1> QED BY <1>1, <1>2, <1>6, <1>7

(* Nothing is said to an interceptor, and the same are owed. *)
LEMMA ObligationsSame ==
    ASSUME Obligations, UNCHANGED intVars, \A o \in Ops : Owes(at'[o]) = Owes(at[o])
    PROVE  Obligations'
BY DEF Obligations, intVars, Taken

(* The callback of one send is made, and the obligation is gone. *)
LEMMA AcknowledgedNow ==
    ASSUME Obligations, NEW o \in Ops, holder[o] # Nobody, safe_on_acknowledgement(o)
    PROVE  /\ twice' = FALSE
           /\ owed' = [owed EXCEPT ![o] = {}] /\ open' = [open EXCEPT ![o] = {}]
<1>1. /\ owed' = [owed EXCEPT ![o] = {}] /\ twice' = (twice \/ owed[o] = {})
      /\ open' = [open EXCEPT ![o] = {i \in open[o] : Taken(o, i) # i}]
  BY DEF safe_on_acknowledgement, on_acknowledgement, Obligations
<1>2. owed[o] # {} /\ twice = FALSE BY DEF Obligations
<1>3. {i \in open[o] : Taken(o, i) # i} = {} BY DEF Obligations
<1> QED BY <1>1, <1>2, <1>3

(* A send ends: its callback was made, now or by the engine. *)
LEMMA DischargeKeeps ==
    ASSUME Obligations, NEW o \in Ops, Discharge(o), holder[o] # "waiter",
           \A p \in Ops : Owes(at'[p]) = IF p = o THEN Nobody ELSE Owes(at[p])
    PROVE  Obligations'
<1>1. /\ holder' = [holder EXCEPT ![o] = Nobody] /\ context' = [context EXCEPT ![o] = Vacant]
  BY DEF Discharge
<1>2. Vacant \in [Owners -> Chain \cup {None}] BY DEF Vacant
<1>3. /\ twice' = FALSE
      /\ owed' = [owed EXCEPT ![o] = {}] /\ open' = [open EXCEPT ![o] = {}]
  <2>1. CASE holder[o] = "obligation"
    <3>1. safe_on_acknowledgement(o) BY <2>1 DEF Discharge
    <3>2. holder[o] # Nobody BY <2>1 DEF Nobody
    <3> QED BY <3>1, <3>2, AcknowledgedNow
  <2>2. CASE holder[o] = Nobody
    <3>1. UNCHANGED <<owed, open, twice>> BY <2>2 DEF Discharge, Nobody
    <3>2. owed[o] = {} /\ open[o] = {} /\ twice = FALSE BY <2>2 DEF Obligations
    <3>3. owed \in [Ops -> SUBSET Chain] /\ open \in [Ops -> SUBSET Chain] BY DEF Obligations
    <3> QED BY <3>1, <3>2, <3>3
  <2> QED BY <2>1, <2>2 DEF Obligations
<1>4. /\ holder' \in [Ops -> {Nobody, "obligation", "waiter"}]
      /\ context' \in [Ops -> [Owners -> Chain \cup {None}]]
      /\ owed' \in [Ops -> SUBSET Chain] /\ open' \in [Ops -> SUBSET Chain]
  BY <1>1, <1>2, <1>3 DEF Obligations
<1>5. ASSUME NEW p \in Ops
      PROVE  /\ holder'[p] = Owes(at'[p])
             /\ holder'[p] = Nobody => owed'[p] = {} /\ open'[p] = {}
             /\ holder'[p] # Nobody => owed'[p] # {} /\ \A i \in open'[p] : Taken(p, i)' = i
  <2>1. CASE p = o BY <1>1, <1>3, <2>1 DEF Obligations
  <2>2. CASE p # o BY <1>1, <1>3, <2>2 DEF Obligations, Taken
  <2> QED BY <2>1, <2>2
<1> QED BY <1>3, <1>4, <1>5 DEF Obligations

(* A send begins: the interceptors that saw the record are owed a callback. *)
LEMMA BeginsOwing ==
    ASSUME Obligations, Budget, NEW o \in Ops, on_send(o)
    PROVE  Obligations' /\ \E place \in {"routing", "panicked"} : at' = [at EXCEPT ![o] = place]
<1>1. PICK p \in Chain \cup {None} :
         /\ owed' = [owed EXCEPT ![o] = Observes(p)]
         /\ open' = [open EXCEPT ![o] = Observes(p)]
         /\ context' = [context EXCEPT ![o] = Inserted(Observes(p))]
         /\ at' = [at EXCEPT ![o] = safe_on_send(p)]
  BY Zenon DEF on_send
<1>2. PICK who \in SUBSET Chain : who = Observes(p) /\ who # {}
  <2>1. Observes(p) \subseteq Chain BY DEF Observes
  <2>2. Observes(p) # {}
    <3>1. CASE p = None BY <3>1, ChainAssumption DEF Observes
    <3>2. CASE p \in Chain
      <4>1. p <= p BY <3>2, ChainAssumption
      <4> QED BY <3>2, <4>1 DEF Observes
    <3> QED BY <3>1, <3>2
  <2> QED BY <2>1, <2>2
<1>3. safe_on_send(p) \in {"routing", "panicked"} BY DEF safe_on_send
<1>4. holder' = [holder EXCEPT ![o] = "obligation"] /\ twice' = twice BY DEF on_send
<1>5. PICK slots : slots = Inserted(who) OBVIOUS
<1>6. slots \in [Owners -> Chain \cup {None}] /\ \A i \in who : slots[chain_owner(i)] = i
  BY <1>5, InsertedIs
<1>7. /\ owed' = [owed EXCEPT ![o] = who] /\ open' = [open EXCEPT ![o] = who]
      /\ context' = [context EXCEPT ![o] = slots]
  BY <1>1, <1>2, <1>5, Zenon
<1>8. \A q \in Ops : at'[q] = IF q = o THEN safe_on_send(p) ELSE at[q] BY <1>1 DEF Budget
<1>9. ASSUME NEW q \in Ops
      PROVE  /\ holder'[q] = Owes(at'[q])
             /\ holder'[q] = Nobody => owed'[q] = {} /\ open'[q] = {}
             /\ holder'[q] # Nobody => owed'[q] # {} /\ \A i \in open'[q] : Taken(q, i)' = i
  <2>1. CASE q = o
    <3>1. Owes(safe_on_send(p)) = "obligation" BY <1>3 DEF Owes
    <3>2. holder'[q] = "obligation" /\ owed'[q] = who /\ open'[q] = who /\ context'[q] = slots
      BY <1>4, <1>7, <2>1 DEF Obligations
    <3> QED BY <1>2, <1>6, <1>8, <2>1, <3>1, <3>2 DEF Taken, Nobody
  <2>2. CASE q # o BY <1>4, <1>7, <1>8, <2>2 DEF Obligations, Taken
  <2> QED BY <2>1, <2>2
<1>10. Obligations' BY <1>4, <1>6, <1>7, <1>9 DEF Obligations
<1> QED BY <1>1, <1>3, <1>10

-----------------------------------------------------------------------------
(* The guards. *)

LEMMA GuardsSame ==
    ASSUME Guards, UNCHANGED <<vars, closer, ended>>, budget' \in {"open", "closed"},
           \A o \in Ops : at'[o] \in Guarded => at[o] \in Guarded
    PROVE  Guards'
<1>1. IInv' BY NextIInv DEF Guards
<1>2. \A c \in Callers : Owed(c)' = Owed(c) BY DEF Owed, vars
<1>3. UNCHANGED <<closing, op, opGen, pc, target, closer, ended>> BY DEF vars
<1> QED BY <1>1, <1>2, <1>3 DEF Guards

(* A guard is taken: nobody who has waited is owed it. *)
LEMMA StartKeeps ==
    ASSUME Guards, NEW o \in Ops, start(o), UNCHANGED <<closer, ended, budget>>,
           \A p \in Ops \ {o} : at'[p] = at[p]
    PROVE  Guards'
<1>1. IInv' BY NextIInv DEF Guards, Next
<1>2. TypeOK /\ GenerationsOrdered BY DEF Guards, IInv, BarrierExact
<1>3. /\ ~closing /\ op' = [op EXCEPT ![o] = "held"] /\ opGen' = [opGen EXCEPT ![o] = current]
      /\ UNCHANGED <<closing, current, pc, target>>
  BY DEF start, callerVars
<1>4. closer = Nobody /\ ended # "close" BY <1>3 DEF Guards
<1>5. \A p \in Ops : at'[p] \in Guarded => op'[p] = "held" BY <1>2, <1>3 DEF Guards, TypeOK
<1>6. ASSUME NEW c \in Callers, pc[c] = "returned" PROVE Owed(c)' = {}
  <2>1. Owed(c) = {} /\ target[c] < current /\ target[c] \in Nat /\ current \in Nat
    BY <1>2, <1>6 DEF Guards, GenerationsOrdered, TypeOK, Gens
  <2>2. \A p \in Ops : op[p] # "held" \/ ~(opGen[p] <= target[c]) BY <1>6, <2>1 DEF Owed
  <2>3. \A p \in Ops : op'[p] # "held" \/ ~(opGen'[p] <= target[c])
    <3> TAKE p \in Ops
    <3>1. CASE p = o BY <1>2, <1>3, <2>1, <3>1 DEF TypeOK
    <3>2. CASE p # o BY <1>2, <1>3, <2>2, <3>2 DEF TypeOK
    <3> QED BY <3>1, <3>2
  <2> QED BY <1>3, <2>3 DEF Owed
<1> QED BY <1>1, <1>3, <1>4, <1>5, <1>6 DEF Guards

(* A guard is dropped, of a send that is over. *)
LEMMA DropKeeps ==
    ASSUME Guards, NEW o \in Ops, complete(o) \/ notify_waiters(o), at[o] \notin Guarded,
           UNCHANGED <<at, closer, ended, budget>>
    PROVE  Guards'
<1>1. IInv' BY NextIInv DEF Guards, Next
<1>2. TypeOK BY DEF Guards, IInv
<1>3. PICK v \in {"notifying", "none"} : op' = [op EXCEPT ![o] = v]
  BY DEF complete, notify_waiters
<1>4. UNCHANGED <<closing, opGen, pc, target>> BY DEF complete, notify_waiters, callerVars
<1>5. \A p \in Ops : op'[p] = "held" => op[p] = "held" BY <1>2, <1>3 DEF TypeOK
<1>6. \A p \in Ops : at'[p] \in Guarded => op'[p] = "held" BY <1>2, <1>3 DEF Guards, TypeOK
<1>7. ASSUME NEW c \in Callers, pc[c] = "returned" PROVE Owed(c)' = {}
  <2>1. Owed(c) = {} BY <1>7 DEF Guards
  <2> QED BY <1>4, <1>5, <1>7, <2>1 DEF Owed
<1>8. closer # Nobody => /\ closer \in Flushers /\ pc'[closer] # "out" /\ closing'
                         /\ \A p \in Ops : op'[p] = "held" => opGen'[p] <= target'[closer]
  BY <1>4, <1>5 DEF Guards
<1> QED BY <1>1, <1>4, <1>5, <1>6, <1>7, <1>8 DEF Guards

(* Callers: a call that returns is owed nothing. *)
LEMMA FlushKeeps == ASSUME Guards, NEW c \in Flushers, flush(c) PROVE Guards'
<1>0. c \in Callers BY FlushersAssumption
<1>1. IInv' BY <1>0, NextIInv DEF Guards, Next, flush
<1>2. TypeOK BY DEF Guards, IInv
<1>3. /\ pc[c] = "out" /\ pc' = [pc EXCEPT ![c] = "enable"]
      /\ target' = [target EXCEPT ![c] = current]
      /\ UNCHANGED <<closing, op, opGen, at, closer, ended, budget>>
  BY DEF flush, snapshot, opVars, sendVars, budgetVars, facadeVars
<1>4. closer # c \/ closer = Nobody BY <1>3 DEF Guards
<1>5. \A d \in Callers \ {c} : pc'[d] = pc[d] /\ target'[d] = target[d] BY <1>2, <1>3 DEF TypeOK
<1>6. pc'[c] = "enable" BY <1>0, <1>2, <1>3 DEF TypeOK
<1>7. ASSUME NEW d \in Callers, pc'[d] = "returned" PROVE Owed(d)' = {}
  <2>1. d # c /\ pc[d] = "returned" /\ target'[d] = target[d] BY <1>5, <1>6, <1>7
  <2> QED BY <1>3, <1>7, <2>1 DEF Guards, Owed
<1>8. closer # Nobody => /\ closer \in Flushers /\ pc'[closer] # "out" /\ closing'
                         /\ \A p \in Ops : op'[p] = "held" => opGen'[p] <= target'[closer]
  BY <1>3, <1>4, <1>5, FlushersAssumption DEF Guards
<1> QED BY <1>1, <1>3, <1>7, <1>8 DEF Guards

LEMMA CloseKeeps == ASSUME Guards, NEW c \in Flushers, close_with(c) PROVE Guards'
<1>0. c \in Callers BY FlushersAssumption
<1>1. IInv' BY <1>0, NextIInv DEF Guards, Next, close_with
<1>2. TypeOK /\ GenerationsOrdered BY DEF Guards, IInv, BarrierExact
<1>3. /\ pc[c] = "out" /\ ~closing /\ closing' = TRUE /\ pc' = [pc EXCEPT ![c] = "enable"]
      /\ target' = [target EXCEPT ![c] = current] /\ closer' = c
      /\ UNCHANGED <<op, opGen, at, ended, budget>>
  BY DEF close_with, begin_close, opVars, budgetVars
<1>5. \A d \in Callers \ {c} : pc'[d] = pc[d] /\ target'[d] = target[d] BY <1>2, <1>3 DEF TypeOK
<1>6. pc'[c] = "enable" /\ target'[c] = current BY <1>0, <1>2, <1>3 DEF TypeOK
<1>7. ASSUME NEW d \in Callers, pc'[d] = "returned" PROVE Owed(d)' = {}
  <2>1. d # c /\ pc[d] = "returned" /\ target'[d] = target[d] BY <1>5, <1>6, <1>7
  <2> QED BY <1>3, <1>7, <2>1 DEF Guards, Owed
<1>8. /\ closer' \in Flushers /\ pc'[closer'] # "out" /\ closing'
      /\ \A p \in Ops : op'[p] = "held" => opGen'[p] <= target'[closer']
  BY <1>2, <1>3, <1>6 DEF GenerationsOrdered
<1>9. ended' # "close" BY <1>3 DEF Guards
<1> QED BY <1>1, <1>3, <1>7, <1>8, <1>9 DEF Guards

LEMMA WaitKeeps == ASSUME Guards, NEW c \in Flushers, wait_for(c) PROVE Guards'
<1>0. c \in Callers BY FlushersAssumption
<1>1. IInv' BY <1>0, NextIInv DEF Guards, Next, wait_for
<1>2. TypeOK /\ IInv BY DEF Guards, IInv
<1>3. UNCHANGED <<closing, op, opGen, target, at, closer, ended, budget>>
  BY DEF wait_for, enable, check, poll, wake, opVars, sendVars, budgetVars, facadeVars
<1>4. PICK v \in {"enable", "check", "poll", "await", "returned"} :
         /\ pc' = [pc EXCEPT ![c] = v] /\ pc[c] # "out"
         /\ v = "returned" => is_drained(target[c])
  BY DEF wait_for, enable, check, poll, wake
<1>5. \A d \in Callers : pc'[d] = IF d = c THEN v ELSE pc[d] BY <1>2, <1>4 DEF TypeOK
<1>6. ASSUME NEW d \in Callers, pc'[d] = "returned" PROVE Owed(d)' = {}
  <2>1. Owed(d) = {}
    <3>1. CASE d = c BY <1>0, <1>2, <1>4, <1>5, <1>6, <3>1, DrainedOwesNothing
    <3>2. CASE d # c BY <1>5, <1>6, <3>2 DEF Guards
    <3> QED BY <3>1, <3>2
  <2>2. pc[d] # "out" BY <1>4, <1>5, <1>6
  <2> QED BY <1>3, <1>6, <2>1, <2>2 DEF Owed
<1>7. closer # Nobody => closer \in Callers /\ pc'[closer] # "out"
  BY <1>5, FlushersAssumption DEF Guards
<1> QED BY <1>1, <1>3, <1>6, <1>7 DEF Guards

(* A caller leaves; a close that is cut short has no claim. *)
LEMMA LeaveKeeps ==
    ASSUME Guards, NEW c \in Flushers, leave(c), UNCHANGED <<at, budget>>,
           closer' = IF closer = c THEN Nobody ELSE closer,
           ended' \in {ended, "timeout"}
    PROVE  Guards'
<1>0. c \in Callers BY FlushersAssumption
<1>1. IInv' BY <1>0, NextIInv DEF Guards, Next
<1>2. TypeOK BY DEF Guards, IInv
<1>3. /\ pc' = [pc EXCEPT ![c] = "out"] /\ UNCHANGED <<closing, op, opGen, target>>
  BY DEF leave, opVars
<1>4. \A d \in Callers : pc'[d] = IF d = c THEN "out" ELSE pc[d] BY <1>2, <1>3 DEF TypeOK
<1>5. ASSUME NEW d \in Callers, pc'[d] = "returned" PROVE Owed(d)' = {}
  BY <1>3, <1>4, <1>5 DEF Guards, Owed
<1>6. closer' # Nobody => /\ closer' \in Flushers /\ pc'[closer'] # "out" /\ closing'
                          /\ \A p \in Ops : op'[p] = "held" => opGen'[p] <= target'[closer']
  BY <1>3, <1>4, FlushersAssumption DEF Guards
<1> QED BY <1>1, <1>3, <1>5, <1>6 DEF Guards

(* finish_close: the close was owed every guard there was. *)
LEMMA FinishKeeps == ASSUME Guards, NEW c \in Flushers, finish_close(c) PROVE Guards'
<1>1. /\ closer = c /\ pc[c] = "returned" /\ ended' = "close" /\ closer' = Nobody
      /\ UNCHANGED <<vars, at, budget>>
  BY DEF finish_close, safe_producer_close, budgetVars
<1>2. c \in Callers /\ c # Nobody BY FlushersAssumption
<1>3. IInv' BY <1>1, NextIInv DEF Guards
<1>4. Owed(c) = {} /\ closing /\ \A o \in Ops : op[o] = "held" => opGen[o] <= target[c]
  BY <1>1, <1>2 DEF Guards
<1>5. \A o \in Ops : op[o] # "held" BY <1>1, <1>4 DEF Owed
<1>6. UNCHANGED <<closing, op, opGen, pc, target>> BY <1>1 DEF vars
<1>7. \A d \in Callers : Owed(d)' = Owed(d) BY <1>6 DEF Owed
<1> QED BY <1>1, <1>3, <1>4, <1>5, <1>6, <1>7 DEF Guards

LEMMA EndKeeps ==
    ASSUME Guards, drop_producer PROVE Guards'
<1>1. UNCHANGED <<vars, at, budget, closer>> /\ ended' = "drop"
  BY DEF drop_producer, safe_producer_close, budgetVars
<1>2. IInv' BY <1>1, NextIInv DEF Guards
<1>3. UNCHANGED <<closing, op, opGen, pc, target>> BY <1>1 DEF vars
<1>4. \A d \in Callers : Owed(d)' = Owed(d) BY <1>3 DEF Owed
<1> QED BY <1>1, <1>2, <1>3, <1>4 DEF Guards

-----------------------------------------------------------------------------
(* One send. *)

(* A send that is woken is where it was, for the guards and interceptors.   *)
LEMMA WokenSame ==
    ASSUME Budget, NEW o \in Ops, NEW place \in Places,
           \A p \in Ops : LET old == [at EXCEPT ![o] = place][p] IN
                          at'[p] = old \/ (old = "waiting" /\ at'[p] = "granted")
    PROVE  /\ \A p \in Ops \ {o} : /\ Owes(at'[p]) = Owes(at[p])
                                   /\ at'[p] \in Guarded => at[p] \in Guarded
           /\ Owes(at'[o]) = Owes(place)
           /\ at'[o] \in Guarded => place \in Guarded
<1>1. \A p \in Ops : [at EXCEPT ![o] = place][p] = IF p = o THEN place ELSE at[p] BY DEF Budget
<1>2. \A p \in Ops \ {o} : at'[p] = at[p] \/ (at[p] = "waiting" /\ at'[p] = "granted") BY <1>1
<1>3. at'[o] = place \/ (place = "waiting" /\ at'[o] = "granted") BY <1>1
<1> QED BY <1>2, <1>3 DEF Owes, Guarded

LEMMA DischargeSizes ==
    ASSUME Budget, NEW o \in Ops, Discharge(o)
    PROVE  /\ size' \in [Ops -> Sizes \cup {0}] /\ \A p \in Ops \ {o} : size'[p] = size[p]
BY DEF Budget, Discharge

LEMMA FailsTrue ==
    ASSUME SInv, NEW o \in Ops, at[o] \in {"panicked", "routing"}, Fails(o)
    PROVE  SInv'
<1>1. Guards /\ Obligations /\ Budget BY DEF SInv
<1>2. /\ at' = [at EXCEPT ![o] = "idle"] /\ Discharge(o)
      /\ UNCHANGED <<vars, memory, queue, budget, closer, ended>>
  BY DEF Fails, budgetVars, facadeVars
<1>3. \A p \in Ops : at'[p] = IF p = o THEN "idle" ELSE at[p] BY <1>1, <1>2 DEF Budget
<1>4. at' \in [Ops -> Places] BY <1>1, <1>2 DEF Budget, Places
<1>5. size' \in [Ops -> Sizes \cup {0}] /\ \A p \in Ops \ {o} : size'[p] = size[p]
  BY <1>1, <1>2, DischargeSizes
<1>6. Budget' BY <1>1, <1>2, <1>3, <1>4, <1>5, BudgetSame DEF Holding
<1>7. holder[o] # "waiter" BY <1>1 DEF Obligations, Owes, Nobody
<1>8. \A p \in Ops : Owes(at'[p]) = IF p = o THEN Nobody ELSE Owes(at[p]) BY <1>3 DEF Owes
<1>9. Obligations' BY <1>1, <1>2, <1>7, <1>8, DischargeKeeps
<1>10. \A p \in Ops : at'[p] \in Guarded => at[p] \in Guarded BY <1>3 DEF Guarded
<1>11. budget' \in {"open", "closed"} BY <1>1, <1>2 DEF Guards
<1>12. Guards' BY <1>1, <1>2, <1>10, <1>11, GuardsSame
<1> QED BY <1>6, <1>9, <1>12 DEF SInv

LEMMA EnqueueTrue == ASSUME SInv, NEW o \in Ops, enqueue(o) PROVE SInv'
<1>1. Guards /\ Obligations /\ Budget /\ at[o] = "routing" BY DEF SInv, enqueue
<1>2. PICK n \in Sizes :
        \/ Fails(o)
        \/ /\ size' = [size EXCEPT ![o] = n]
           /\ Settle(Append(queue, o), memory, [at EXCEPT ![o] = "waiting"])
           /\ UNCHANGED <<vars, budget, intVars, facadeVars>>
  BY Zenon DEF enqueue
<1>3. CASE Fails(o) BY <1>1, <1>3, FailsTrue
<1>4. CASE /\ size' = [size EXCEPT ![o] = n]
           /\ Settle(Append(queue, o), memory, [at EXCEPT ![o] = "waiting"])
           /\ UNCHANGED <<vars, budget, intVars, facadeVars>>
  <2>1. size' \in [Ops -> Sizes \cup {0}] /\ \A p \in Ops \ {o} : size'[p] = size[p]
    BY <1>1, <1>4 DEF Budget
  <2>0. Append(queue, o) \in Seq(Ops) BY <1>1 DEF Budget
  <2>2. PICK q \in Seq(Ops) : q = Append(queue, o) BY <2>0
  <2> DEFINE to == [at EXCEPT ![o] = "waiting"]
  <2>3. /\ Len(q) = Len(queue) + 1 /\ q[Len(q)] = o /\ Len(queue) \in Nat
        /\ \A k \in 1..Len(queue) : q[k] = queue[k] /\ queue[k] \in Ops
    BY <1>1, <2>2 DEF Budget
  <2>4. \A k \in 1..Len(q) : k = Len(q) \/ k \in 1..Len(queue) BY <2>3
  <2>5. \A k \in 1..Len(queue) : at[queue[k]] = "waiting" /\ queue[k] # o BY <1>1 DEF Budget
  <2>6. \A k \in 1..Len(q) : [at EXCEPT ![o] = "waiting"][q[k]] = "waiting"
    <3> TAKE k \in 1..Len(q)
    <3>1. CASE k = Len(q) BY <1>1, <2>3, <3>1 DEF Budget
    <3>2. CASE k \in 1..Len(queue) BY <1>1, <2>3, <2>5, <3>2 DEF Budget
    <3> QED BY <2>4, <3>1, <3>2
  <2>7. \A j, k \in 1..Len(q) : q[j] = q[k] => j = k
    <3> TAKE j, k \in 1..Len(q)
    <3>1. CASE j = Len(q) BY <2>3, <2>4, <2>5, <3>1
    <3>2. CASE k = Len(q) BY <2>3, <2>4, <2>5, <3>2
    <3>3. CASE j \in 1..Len(queue) /\ k \in 1..Len(queue) BY <1>1, <2>3, <3>3 DEF Budget
    <3> QED BY <2>4, <3>1, <3>2, <3>3
  <2>8. PICK here \in [Ops -> Places] : here = to BY <1>1 DEF Budget, Places
  <2>9. "waiting" \in Places \ Holding /\ at[o] \notin Holding BY <1>1 DEF Places, Holding
  <2>10. /\ Budget'
         /\ \A p \in Ops : LET old == [at EXCEPT ![o] = "waiting"][p] IN
                           at'[p] = old \/ (old = "waiting" /\ at'[p] = "granted")
    <3>1. Settle(q, memory, here) BY <1>4, <2>2, <2>8
    <3>2. \A k \in 1..Len(q) : here[q[k]] = "waiting" BY <2>6, <2>8
    <3>3. \A p \in Ops : here[p] = IF p = o THEN "waiting" ELSE at[p] BY <1>1, <2>8 DEF Budget
    <3>4. /\ Budget'
          /\ \A p \in Ops : at'[p] = here[p] \/ (here[p] = "waiting" /\ at'[p] = "granted")
      BY <1>1, <2>1, <2>7, <2>9, <3>1, <3>2, <3>3, SettleSame
    <3> QED BY <2>8, <3>4
  <2>11. /\ \A p \in Ops \ {o} : /\ Owes(at'[p]) = Owes(at[p])
                                 /\ at'[p] \in Guarded => at[p] \in Guarded
         /\ Owes(at'[o]) = Owes("waiting") /\ (at'[o] \in Guarded => "waiting" \in Guarded)
    BY <1>1, <2>9, <2>10, WokenSame
  <2>12. \A p \in Ops : /\ Owes(at'[p]) = Owes(at[p])
                        /\ at'[p] \in Guarded => at[p] \in Guarded
    BY <1>1, <2>11 DEF Owes, Guarded
  <2>13. Obligations' BY <1>1, <1>4, <2>12, ObligationsSame
  <2>14. UNCHANGED <<vars, closer, ended>> /\ budget' \in {"open", "closed"}
    BY <1>1, <1>4 DEF facadeVars, Guards
  <2>15. Guards' BY <1>1, <2>12, <2>14, GuardsSame
  <2> QED BY <2>10, <2>13, <2>15 DEF SInv
<1> QED BY <1>2, <1>3, <1>4

(* A send ends: where it was, it held no guard, and its obligation was its  *)
(* own or met.                                                              *)
LEMMA EndsTrue ==
    ASSUME SInv, NEW o \in Ops, at[o] \in Places \ {"queued", "started"}, Discharge(o), Budget',
           UNCHANGED <<vars, budget, facadeVars>>,
           \A p \in Ops : LET old == [at EXCEPT ![o] = "idle"][p] IN
                          at'[p] = old \/ (old = "waiting" /\ at'[p] = "granted")
    PROVE  SInv'
<1>1. Guards /\ Obligations /\ Budget BY DEF SInv
<1>2. /\ \A p \in Ops \ {o} : /\ Owes(at'[p]) = Owes(at[p])
                              /\ at'[p] \in Guarded => at[p] \in Guarded
      /\ Owes(at'[o]) = Owes("idle") /\ (at'[o] \in Guarded => "idle" \in Guarded)
  BY <1>1, WokenSame DEF Places
<1>3. \A p \in Ops : Owes(at'[p]) = IF p = o THEN Nobody ELSE Owes(at[p]) BY <1>2 DEF Owes
<1>4. \A p \in Ops : at'[p] \in Guarded => at[p] \in Guarded BY <1>2 DEF Guarded
<1>5. holder[o] # "waiter" BY <1>1 DEF Obligations, Owes, Nobody
<1>6. Obligations' BY <1>1, <1>3, <1>5, DischargeKeeps
<1>7. UNCHANGED <<vars, closer, ended>> /\ budget' \in {"open", "closed"}
  BY <1>1 DEF facadeVars, Guards
<1>8. Guards' BY <1>1, <1>4, <1>7, GuardsSame
<1> QED BY <1>6, <1>8 DEF SInv

(* A sequence without its k-th element. *)
LEMMA RemoveAtIs ==
    ASSUME NEW S, NEW s \in Seq(S), NEW k \in 1..Len(s)
    PROVE  \E q \in Seq(S) :
             /\ q = RemoveAt(s, k) /\ Len(q) = Len(s) - 1
             /\ \A i \in 1..Len(q) : q[i] = IF i < k THEN s[i] ELSE s[i + 1]
<1>1. Len(s) \in Nat /\ k \in Nat /\ k >= 1 /\ k <= Len(s) OBVIOUS
<1>2. PICK a \in Seq(S) : a = SubSeq(s, 1, k - 1)
  <2>1. SubSeq(s, 1, k - 1) \in Seq(S) BY <1>1
  <2> QED BY <2>1
<1>3. PICK b \in Seq(S) : b = SubSeq(s, k + 1, Len(s))
  <2>1. SubSeq(s, k + 1, Len(s)) \in Seq(S) BY <1>1
  <2> QED BY <2>1
<1>4. Len(a) = k - 1 /\ \A i \in 1..(k - 1) : a[i] = s[i] BY <1>1, <1>2
<1>5. Len(b) = Len(s) - k /\ \A i \in 1..(Len(s) - k) : b[i] = s[i + k] BY <1>1, <1>3
<1>6. /\ a \o b \in Seq(S) /\ Len(a \o b) = Len(a) + Len(b)
      /\ \A i \in 1..(Len(a) + Len(b)) :
           (a \o b)[i] = IF i <= Len(a) THEN a[i] ELSE b[i - Len(a)]
  BY ConcatProperties
<1>7. PICK q \in Seq(S) : q = a \o b BY <1>6
<1>8. q = RemoveAt(s, k) BY <1>2, <1>3, <1>7 DEF RemoveAt
<1>9. Len(q) = Len(s) - 1
  <2>1. Len(q) = Len(a) + Len(b) BY <1>6, <1>7, Zenon
  <2> QED BY <1>1, <1>4, <1>5, <2>1
<1>10. ASSUME NEW i \in 1..Len(q) PROVE q[i] = IF i < k THEN s[i] ELSE s[i + 1]
  <2>1. q[i] = IF i <= k - 1 THEN a[i] ELSE b[i - (k - 1)]
    <3>1. i \in 1..(Len(a) + Len(b)) BY <1>1, <1>4, <1>5, <1>9
    <3>2. q[i] = IF i <= Len(a) THEN a[i] ELSE b[i - Len(a)] BY <1>6, <1>7, <3>1, Zenon
    <3> QED BY <1>4, <3>2
  <2>2. CASE i < k BY <1>1, <1>4, <2>1, <2>2
  <2>3. CASE ~(i < k)
    <3>1. i - (k - 1) \in 1..(Len(s) - k) /\ (i - (k - 1)) + k = i + 1 /\ ~(i <= k - 1)
      BY <1>1, <1>9, <2>3
    <3>2. q[i] = b[i - (k - 1)] BY <2>1, <3>1
    <3> QED BY <1>5, <2>3, <3>1, <3>2
  <2> QED BY <2>2, <2>3
<1> QED BY <1>8, <1>9, <1>10

(* Out of the queue, in order. *)
LEMMA LeavesTrue == ASSUME SInv, NEW o \in Ops, Leaves(o) PROVE SInv'
<1>1. Guards /\ Obligations /\ Budget /\ at[o] = "waiting" BY DEF SInv, Leaves
<1>2. Discharge(o) /\ UNCHANGED <<vars, budget, facadeVars>> BY DEF Leaves
<1>3. PICK k \in DOMAIN queue :
         queue[k] = o /\ Settle(RemoveAt(queue, k), memory, [at EXCEPT ![o] = "idle"])
  BY Zenon DEF Leaves
<1>4. size' \in [Ops -> Sizes \cup {0}] /\ \A p \in Ops \ {o} : size'[p] = size[p]
  BY <1>1, <1>2, DischargeSizes
<1>5. queue \in Seq(Ops) /\ k \in 1..Len(queue) BY <1>1, <1>3 DEF Budget
<1>6. PICK q \in Seq(Ops) :
         /\ q = RemoveAt(queue, k) /\ Len(q) = Len(queue) - 1
         /\ \A i \in 1..Len(q) : q[i] = IF i < k THEN queue[i] ELSE queue[i + 1]
  BY <1>5, RemoveAtIs
<1>7. Len(q) = Len(queue) - 1 BY <1>6
<1>8. \A i \in 1..Len(q) : q[i] = IF i < k THEN queue[i] ELSE queue[i + 1] BY <1>6
<1> DEFINE was(i) == IF i < k THEN i ELSE i + 1
<1>9. \A i \in 1..Len(q) : was(i) \in 1..Len(queue) /\ was(i) # k /\ q[i] = queue[was(i)]
  BY <1>5, <1>7, <1>8
<1>10. \A i, j \in 1..Len(q) : was(i) = was(j) => i = j BY <1>5, <1>7
<1> HIDE DEF was
<1>11. \A i, j \in 1..Len(q) : q[i] = q[j] => i = j BY <1>1, <1>9, <1>10 DEF Budget
<1>12. \A i \in 1..Len(q) : [at EXCEPT ![o] = "idle"][q[i]] = "waiting"
  <2> TAKE i \in 1..Len(q)
  <2>1. was(i) \in 1..Len(queue) /\ was(i) # k /\ q[i] = queue[was(i)] BY <1>9
  <2>2. q[i] \in Ops /\ at[q[i]] = "waiting" BY <1>1, <1>5, <2>1 DEF Budget
  <2>3. q[i] # o BY <1>1, <1>3, <1>5, <2>1 DEF Budget
  <2> QED BY <1>1, <2>2, <2>3 DEF Budget
<1>13. "idle" \in Places \ Holding /\ at[o] \notin Holding BY <1>1 DEF Places, Holding
<1>14. PICK here \in [Ops -> Places] : here = [at EXCEPT ![o] = "idle"]
  BY <1>1 DEF Budget, Places
<1>15. /\ Budget'
       /\ \A p \in Ops : LET old == [at EXCEPT ![o] = "idle"][p] IN
                         at'[p] = old \/ (old = "waiting" /\ at'[p] = "granted")
  <2>1. Settle(q, memory, here) BY <1>3, <1>6, <1>14
  <2>2. \A i \in 1..Len(q) : here[q[i]] = "waiting" BY <1>12, <1>14
  <2>3. \A p \in Ops : here[p] = IF p = o THEN "idle" ELSE at[p] BY <1>1, <1>14 DEF Budget
  <2>4. /\ Budget'
        /\ \A p \in Ops : at'[p] = here[p] \/ (here[p] = "waiting" /\ at'[p] = "granted")
    BY <1>1, <1>4, <1>11, <1>13, <2>1, <2>2, <2>3, SettleSame
  <2> QED BY <1>14, <2>4
<1>16. at[o] \in Places \ {"queued", "started"} BY <1>1 DEF Places
<1> QED BY <1>2, <1>15, <1>16, EndsTrue

(* Its permits go back to those who wait. *)
LEMMA BackTrue ==
    ASSUME SInv, NEW o \in Ops, at[o] \in {"granted", "answered", "refused"}, Discharge(o),
           GiveBack(o), UNCHANGED <<vars, budget, facadeVars>>
    PROVE  SInv'
<1>1. Budget BY DEF SInv
<1>2. size' \in [Ops -> Sizes \cup {0}] /\ \A p \in Ops \ {o} : size'[p] = size[p]
  BY <1>1, DischargeSizes
<1>3. at[o] \in Holding /\ at[o] \in Places \ {"queued", "started"} BY DEF Holding, Places
<1>4. /\ Budget'
      /\ \A p \in Ops : LET old == [at EXCEPT ![o] = "idle"][p] IN
                        at'[p] = old \/ (old = "waiting" /\ at'[p] = "granted")
  BY <1>1, <1>2, <1>3, GiveBackKeeps
<1> QED BY <1>3, <1>4, EndsTrue

(* A send goes on with its permits. *)
LEMMA MovesKeeps ==
    ASSUME Budget, NEW o \in Ops, NEW place \in Holding, at[o] \in Holding,
           at' = [at EXCEPT ![o] = place], UNCHANGED <<size, memory, queue>>
    PROVE  Budget' /\ \A p \in Ops : at'[p] = IF p = o THEN place ELSE at[p]
<1>1. at' \in [Ops -> Places] BY DEF Budget, Places, Holding
<1>2. \A p \in Ops : at'[p] = IF p = o THEN place ELSE at[p] BY DEF Budget
<1>3. size' = size /\ size' \in [Ops -> Sizes \cup {0}] BY DEF Budget
<1>4. at[o] # "waiting" BY DEF Holding
<1> QED BY <1>1, <1>2, <1>3, <1>4, BudgetSame

LEMMA ReserveTrue == ASSUME SInv, NEW o \in Ops, reserve(o) PROVE SInv'
<1>1. Guards /\ Obligations /\ Budget BY DEF SInv
<1>2. /\ at[o] = "granted" /\ at' = [at EXCEPT ![o] = "reserved"]
      /\ UNCHANGED <<vars, size, memory, queue, budget, intVars, closer, ended>>
  BY DEF reserve, budgetVars, facadeVars
<1>3. at[o] \in Holding /\ "reserved" \in Holding BY <1>2 DEF Holding
<1>4. Budget' /\ \A p \in Ops : at'[p] = IF p = o THEN "reserved" ELSE at[p]
  BY <1>1, <1>2, <1>3, MovesKeeps
<1>5. \A p \in Ops : /\ Owes(at'[p]) = Owes(at[p])
                     /\ at'[p] \in Guarded => at[p] \in Guarded
  BY <1>2, <1>4 DEF Owes, Guarded
<1>6. Obligations' BY <1>1, <1>2, <1>5, ObligationsSame
<1>7. Guards'
  <2>1. budget' \in {"open", "closed"} BY <1>1, <1>2 DEF Guards
  <2> QED BY <1>1, <1>2, <1>5, <2>1, GuardsSame
<1> QED BY <1>4, <1>6, <1>7 DEF SInv

LEMMA StartSendTrue == ASSUME SInv, NEW o \in Ops, start_send(o) PROVE SInv'
<1>1. Guards /\ Obligations /\ Budget BY DEF SInv
<1>2. at[o] = "reserved" /\ UNCHANGED <<size, memory, queue, budget, intVars, closer, ended>>
  BY DEF start_send, budgetVars, facadeVars
<1>3. {"started", "refused"} \subseteq Holding /\ at[o] \in Holding BY <1>2 DEF Holding
<1>4. PICK place \in {"started", "refused"} :
         /\ at' = [at EXCEPT ![o] = place]
         /\ place = "started" => start(o)
         /\ place = "refused" => UNCHANGED vars
  BY DEF start_send
<1>5. Budget' /\ \A p \in Ops : at'[p] = IF p = o THEN place ELSE at[p]
  BY <1>1, <1>2, <1>3, <1>4, MovesKeeps
<1>6. \A p \in Ops : Owes(at'[p]) = Owes(at[p]) BY <1>2, <1>5 DEF Owes
<1>7. Obligations' BY <1>1, <1>2, <1>6, ObligationsSame
<1>8. Guards'
  <2>1. CASE place = "started"
    <3>1. \A p \in Ops \ {o} : at'[p] = at[p] BY <1>5
    <3> QED BY <1>1, <1>2, <1>4, <2>1, <3>1, StartKeeps
  <2>2. CASE place = "refused"
    <3>1. \A p \in Ops : at'[p] \in Guarded => at[p] \in Guarded BY <1>5, <2>2 DEF Guarded
    <3>2. budget' \in {"open", "closed"} BY <1>1, <1>2 DEF Guards
    <3> QED BY <1>1, <1>2, <1>4, <2>2, <3>1, <3>2, GuardsSame
  <2> QED BY <2>1, <2>2
<1> QED BY <1>5, <1>7, <1>8 DEF SInv

(* The engine takes the record with its context, or the send keeps both. *)
LEMMA HandOverTrue == ASSUME SInv, NEW o \in Ops, hand_over(o) PROVE SInv'
<1>1. Guards /\ Obligations /\ Budget BY DEF SInv
<1>2. /\ at[o] = "started"
      /\ UNCHANGED <<vars, size, memory, queue, budget, context, owed, open, twice, closer, ended>>
  BY DEF hand_over, budgetVars, facadeVars
<1>3. {"queued", "refused"} \subseteq Holding /\ at[o] \in Holding BY <1>2 DEF Holding
<1>4. PICK place \in {"queued", "refused"} :
         /\ at' = [at EXCEPT ![o] = place]
         /\ place = "queued" => holder' = [holder EXCEPT ![o] = "waiter"]
         /\ place = "refused" => holder' = holder
  BY DEF hand_over
<1>5. Budget' /\ \A p \in Ops : at'[p] = IF p = o THEN place ELSE at[p]
  BY <1>1, <1>2, <1>3, <1>4, MovesKeeps
<1>6. holder[o] = "obligation" BY <1>1, <1>2 DEF Obligations, Owes
<1>7. Obligations'
  <2>1. CASE place = "refused"
    <3>1. \A p \in Ops : Owes(at'[p]) = Owes(at[p]) BY <1>2, <1>5, <2>1 DEF Owes
    <3> QED BY <1>1, <1>2, <1>4, <2>1, <3>1, ObligationsSame DEF intVars
  <2>2. CASE place = "queued"
    <3>1. \A p \in Ops : holder'[p] = IF p = o THEN "waiter" ELSE holder[p]
      BY <1>1, <1>4, <2>2 DEF Obligations
    <3>2. holder' \in [Ops -> {Nobody, "obligation", "waiter"}]
      BY <1>1, <1>4, <2>2 DEF Obligations
    <3>3. ASSUME NEW p \in Ops
          PROVE  /\ holder'[p] = Owes(at'[p])
                 /\ holder'[p] = Nobody => owed'[p] = {} /\ open'[p] = {}
                 /\ holder'[p] # Nobody => owed'[p] # {} /\ \A i \in open'[p] : Taken(p, i)' = i
      <4>1. CASE p = o
        BY <1>1, <1>2, <1>5, <1>6, <2>2, <3>1, <4>1 DEF Obligations, Owes, Taken, Nobody
      <4>2. CASE p # o BY <1>1, <1>2, <1>5, <3>1, <4>2 DEF Obligations, Taken
      <4> QED BY <4>1, <4>2
    <3> QED BY <1>1, <1>2, <3>2, <3>3 DEF Obligations
  <2> QED BY <2>1, <2>2
<1>8. \A p \in Ops : at'[p] \in Guarded => at[p] \in Guarded BY <1>2, <1>5 DEF Guarded
<1>9. budget' \in {"open", "closed"} BY <1>1, <1>2 DEF Guards
<1>10. Guards' BY <1>1, <1>2, <1>8, <1>9, GuardsSame
<1> QED BY <1>5, <1>7, <1>10 DEF SInv

LEMMA AnswerTrue == ASSUME SInv, NEW o \in Ops, answer(o) PROVE SInv'
<1>1. Guards /\ Obligations /\ Budget BY DEF SInv
<1>2. /\ at[o] = "queued" /\ at' = [at EXCEPT ![o] = "answered"]
      /\ holder' = [holder EXCEPT ![o] = Nobody] /\ safe_on_acknowledgement(o)
      /\ UNCHANGED <<vars, size, memory, queue, budget, context, closer, ended>>
  BY DEF answer, budgetVars, facadeVars
<1>3. at[o] \in Holding /\ "answered" \in Holding BY <1>2 DEF Holding
<1>4. Budget' /\ \A p \in Ops : at'[p] = IF p = o THEN "answered" ELSE at[p]
  BY <1>1, <1>2, <1>3, MovesKeeps
<1>5. holder[o] # Nobody BY <1>1, <1>2 DEF Obligations, Owes, Nobody
<1>6. twice' = FALSE /\ owed' = [owed EXCEPT ![o] = {}] /\ open' = [open EXCEPT ![o] = {}]
  BY <1>1, <1>2, <1>5, AcknowledgedNow
<1>7. ASSUME NEW p \in Ops
      PROVE  /\ holder'[p] = Owes(at'[p])
             /\ holder'[p] = Nobody => owed'[p] = {} /\ open'[p] = {}
             /\ holder'[p] # Nobody => owed'[p] # {} /\ \A i \in open'[p] : Taken(p, i)' = i
  <2>1. CASE p = o BY <1>1, <1>2, <1>4, <1>6, <2>1 DEF Obligations, Owes
  <2>2. CASE p # o BY <1>1, <1>2, <1>4, <1>6, <2>2 DEF Obligations, Taken
  <2> QED BY <2>1, <2>2
<1>8. Obligations' BY <1>1, <1>2, <1>6, <1>7 DEF Obligations
<1>9. \A p \in Ops : at'[p] \in Guarded => at[p] \in Guarded BY <1>4 DEF Guarded
<1>10. budget' \in {"open", "closed"} BY <1>1, <1>2 DEF Guards
<1>11. Guards' BY <1>1, <1>2, <1>9, <1>10, GuardsSame
<1> QED BY <1>4, <1>8, <1>11 DEF SInv

(* The panicked engine answers nobody, and holds nothing any longer. *)
LEMMA EngineFailsTrue == ASSUME SInv, engine_fails PROVE SInv'
<1>1. Guards /\ Obligations /\ Budget BY DEF SInv
<1>2. UNCHANGED <<vars, size, memory, queue, budget, context, twice, closer, ended>>
  BY DEF engine_fails, budgetVars
<1>3. PICK owned : owned = {o \in Ops : at[o] = "queued"} OBVIOUS
<1>4. /\ at' = [o \in Ops |-> IF o \in owned THEN "answered" ELSE at[o]]
      /\ holder' = [o \in Ops |-> IF o \in owned THEN Nobody ELSE holder[o]]
      /\ owed' = [o \in Ops |-> IF o \in owned THEN {} ELSE owed[o]]
      /\ open' = [o \in Ops |-> IF o \in owned THEN {} ELSE open[o]]
  BY <1>3, Zenon DEF engine_fails
<1>5. \A o \in Ops : o \in owned <=> at[o] = "queued" BY <1>3
<1>6. at' \in [Ops -> Places] /\ size' \in [Ops -> Sizes \cup {0}]
  BY <1>1, <1>2, <1>4 DEF Budget, Places
<1>7. Budget' BY <1>1, <1>2, <1>4, <1>5, <1>6, BudgetSame DEF Holding
<1>8. ASSUME NEW p \in Ops
      PROVE  /\ holder'[p] = Owes(at'[p])
             /\ holder'[p] = Nobody => owed'[p] = {} /\ open'[p] = {}
             /\ holder'[p] # Nobody => owed'[p] # {} /\ \A i \in open'[p] : Taken(p, i)' = i
  <2>1. CASE p \in owned BY <1>4, <2>1 DEF Owes
  <2>2. CASE p \notin owned BY <1>1, <1>2, <1>4, <2>2 DEF Obligations, Taken
  <2> QED BY <2>1, <2>2
<1>9. /\ holder' \in [Ops -> {Nobody, "obligation", "waiter"}]
      /\ owed' \in [Ops -> SUBSET Chain] /\ open' \in [Ops -> SUBSET Chain]
  BY <1>1, <1>4 DEF Obligations
<1>10. Obligations' BY <1>1, <1>2, <1>8, <1>9 DEF Obligations
<1>11. \A p \in Ops : at'[p] \in Guarded => at[p] \in Guarded BY <1>4 DEF Guarded
<1>12. budget' \in {"open", "closed"} BY <1>1, <1>2 DEF Guards
<1>13. Guards' BY <1>1, <1>2, <1>11, <1>12, GuardsSame
<1> QED BY <1>7, <1>10, <1>13 DEF SInv

(* Steps that touch no send. *)
LEMMA AsideTrue ==
    ASSUME SInv, Guards', UNCHANGED <<at, size, memory, queue, intVars>>
    PROVE  SInv'
<1>1. Obligations' BY ObligationsSame DEF SInv
<1>2. Budget' BY DEF SInv, Budget, Holders
<1> QED BY <1>1, <1>2 DEF SInv

-----------------------------------------------------------------------------
(* The sends and the barrier, as a whole. *)

LEMMA SendBegins == ASSUME SendInit PROVE SInv
<1>1. IInv BY InitIInv DEF SendInit
<1>2. \A o \in Ops : at[o] = "idle" /\ op[o] = "none" BY DEF SendInit, Init
<1>3. \A c \in Callers : pc[c] = "out" BY DEF SendInit, Init
<1>4. Guards BY <1>1, <1>2, <1>3 DEF SendInit, Guards, Guarded
<1>5. Vacant \in [Owners -> Chain \cup {None}] BY DEF Vacant
<1>6. Obligations BY <1>2, <1>5 DEF SendInit, Obligations, Owes
<1>7. Holders(at) = {} BY <1>2 DEF Holders, Holding
<1>8. Permits({}, size) = {} BY DEF Permits
<1>9. Cardinality(Permits(Holders(at), size)) = 0 BY <1>7, <1>8, FS_EmptySet
<1>10. at \in [Ops -> Places] /\ size \in [Ops -> Sizes \cup {0}] BY DEF SendInit, Places
<1>11. memory = memory_capacity /\ queue = <<>> BY DEF SendInit
<1>12. Budget BY <1>9, <1>10, <1>11, SizesAssumption DEF Budget
<1> QED BY <1>4, <1>6, <1>12 DEF SInv

LEMMA SendKeeps == SInv /\ [SendNext]_allVars => SInv'
<1> SUFFICES ASSUME SInv, [SendNext]_allVars PROVE SInv' OBVIOUS
<1>0. Guards /\ Obligations /\ Budget BY DEF SInv
<1>1. ASSUME NEW o \in Ops, on_send(o) PROVE SInv'
  <2>1. /\ at[o] = "idle" /\ UNCHANGED <<vars, size, memory, queue, budget, closer, ended>>
    BY <1>1 DEF on_send, budgetVars, facadeVars
  <2>2. Obligations' BY <1>0, <1>1, BeginsOwing
  <2>3. PICK place \in {"routing", "panicked"} : at' = [at EXCEPT ![o] = place]
    BY <1>0, <1>1, BeginsOwing
  <2>4. at' \in [Ops -> Places] /\ size' \in [Ops -> Sizes \cup {0}]
    BY <1>0, <2>1, <2>3 DEF Budget, Places
  <2>5. \A p \in Ops : at'[p] = IF p = o THEN place ELSE at[p] BY <1>0, <2>3 DEF Budget
  <2>6. Budget' BY <1>0, <2>1, <2>4, <2>5, BudgetSame DEF Holding
  <2>7. \A p \in Ops : at'[p] \in Guarded => at[p] \in Guarded BY <2>5 DEF Guarded
  <2>8. budget' \in {"open", "closed"} BY <1>0, <2>1 DEF Guards
  <2>9. Guards' BY <1>0, <2>1, <2>7, <2>8, GuardsSame
  <2> QED BY <2>2, <2>6, <2>9 DEF SInv
<1>2. ASSUME NEW o \in Ops, fail(o) \/ resolve_partition(o) PROVE SInv'
  BY <1>2, FailsTrue DEF fail, resolve_partition
<1>3. ASSUME NEW o \in Ops, enqueue(o) PROVE SInv' BY <1>3, EnqueueTrue
<1>4. ASSUME NEW o \in Ops, Returns(o) PROVE SInv' BY <1>4, BackTrue DEF Returns
<1>5. ASSUME NEW o \in Ops, max_block_elapses(o) \/ cancel(o) \/ budget_closed(o) PROVE SInv'
  BY <1>4, <1>5, FailsTrue, LeavesTrue DEF max_block_elapses, cancel, budget_closed
<1>6. ASSUME NEW o \in Ops, reserve(o) \/ start_send(o) \/ hand_over(o) PROVE SInv'
  BY <1>6, ReserveTrue, StartSendTrue, HandOverTrue
<1>7. ASSUME NEW o \in Ops, drop_guard(o) PROVE SInv'
  <2>1. UNCHANGED <<at, size, memory, queue, budget, intVars, closer, ended>>
    BY <1>7 DEF drop_guard, sendVars, budgetVars, facadeVars
  <2>2. at[o] \notin Guarded /\ (complete(o) \/ notify_waiters(o)) BY <1>7 DEF drop_guard, Guarded
  <2>3. Guards' BY <1>0, <2>1, <2>2, DropKeeps
  <2> QED BY <2>1, <2>3, AsideTrue
<1>8. ASSUME NEW o \in Ops, release(o) PROVE SInv' BY <1>8, BackTrue DEF release
<1>9. ASSUME NEW o \in Ops, answer(o) PROVE SInv' BY <1>9, AnswerTrue
<1>10. CASE terminate \/ watched_close \/ UNCHANGED allVars
  <2>1. UNCHANGED <<vars, at, size, memory, queue, intVars, closer, ended>>
    BY <1>10 DEF terminate, watched_close, budgetVars, facadeVars, allVars, sendVars
  <2>2. budget' \in {"open", "closed"}
    BY <1>0, <1>10 DEF terminate, watched_close, budgetVars, allVars, sendVars, Guards
  <2>3. Guards' BY <1>0, <2>1, <2>2, GuardsSame
  <2> QED BY <2>1, <2>3, AsideTrue
<1>11. CASE engine_fails BY <1>11, EngineFailsTrue
<1>12. ASSUME NEW c \in Flushers, flush(c) \/ close_with(c) \/ wait_for(c) PROVE SInv'
  <2>1. Guards' BY <1>0, <1>12, FlushKeeps, CloseKeeps, WaitKeeps
  <2>2. UNCHANGED <<at, size, memory, queue, intVars>>
    BY <1>12 DEF flush, close_with, wait_for, sendVars, budgetVars
  <2> QED BY <2>1, <2>2, AsideTrue
<1>13. ASSUME NEW c \in Flushers, leave_call(c) \/ close_timeout(c) PROVE SInv'
  <2>1. UNCHANGED <<at, size, memory, queue, budget, intVars>> /\ leave(c)
    BY <1>13 DEF leave_call, close_timeout, budgetVars
  <2>2. /\ closer' = IF closer = c THEN Nobody ELSE closer
        /\ ended' \in {ended, "timeout"}
    BY <1>13 DEF leave_call, close_timeout, safe_producer_close
  <2>3. Guards' BY <1>0, <2>1, <2>2, LeaveKeeps
  <2> QED BY <2>1, <2>3, AsideTrue
<1>14. ASSUME NEW c \in Flushers, finish_close(c) PROVE SInv'
  <2>1. UNCHANGED <<at, size, memory, queue, intVars>> BY <1>14 DEF finish_close, budgetVars
  <2>2. Guards' BY <1>0, <1>14, FinishKeeps
  <2> QED BY <2>1, <2>2, AsideTrue
<1>15. CASE drop_producer
  <2>1. UNCHANGED <<at, size, memory, queue, intVars>> BY <1>15 DEF drop_producer, budgetVars
  <2>2. Guards' BY <1>0, <1>15, EndKeeps
  <2> QED BY <2>1, <2>2, AsideTrue
<1> QED
  BY <1>1, <1>2, <1>3, <1>5, <1>6, <1>7, <1>8, <1>9, <1>10, <1>11, <1>12, <1>13, <1>14, <1>15
  DEF SendNext, SendStep

(* Guards held, callbacks owed and permits out add up after every step of   *)
(* any sends and callers over the barrier.                                  *)
THEOREM SendInvariant == SendSpec => []SInv
<1>1. SendInit => SInv BY SendBegins
<1> QED BY <1>1, SendKeeps, PTL DEF SendSpec

(* The byte budget is neither leaked nor exceeded, for any number of sends  *)
(* of any sizes: what is free and what records hold is buffer_memory,       *)
(* whichever refusal, cancellation or failure ended a send                  *)
(* (Accumulator::enqueue, Reservation).                                     *)
THEOREM MemoryAlwaysExact == SendSpec => []MemoryExact
<1>1. SInv => MemoryExact BY DEF SInv, Budget, Holders, MemoryExact
<1> QED BY <1>1, SendInvariant, PTL

(* Every interceptor that saw a record is called back once, with what it    *)
(* left in the context, before the interceptors are closed by a close that  *)
(* drained (SendObligation, Waiter::answer, Producer::finish_close).        *)
THEOREM InterceptorsAlwaysServed == SendSpec => []InterceptorsServed
<1>1. ASSUME SInv PROVE InterceptorsServed
  <2>1. Guards /\ Obligations /\ Budget BY <1>1 DEF SInv
  <2>2. TypeOK BY <2>1 DEF Guards, IInv
  <2>3. \A k \in DOMAIN queue : at[queue[k]] = "waiting" BY <2>1 DEF Budget
  <2>4. SendTypeOK BY <2>1, <2>2, <2>3 DEF SendTypeOK, Guards, Obligations, Budget, Places
  <2>5. \A o \in Ops : at[o] = "idle" => owed[o] = {} /\ open[o] = {}
    BY <2>1 DEF Obligations, Owes
  <2>6. ~twice BY <2>1 DEF Obligations
  <2>7. ClosedAfterLast
    <3> SUFFICES ASSUME ended = "close", NEW o \in Ops PROVE holder[o] # "waiter"
      BY DEF ClosedAfterLast
    <3>1. op[o] # "held" BY <2>1 DEF Guards
    <3>2. at[o] # "queued" BY <2>1, <3>1 DEF Guards, Guarded
    <3> QED BY <2>1, <3>2 DEF Obligations, Owes, Nobody
  <2> QED BY <2>4, <2>5, <2>6, <2>7 DEF InterceptorsServed, AcknowledgedOnce, ContextComesBack
<1> QED BY <1>1, SendInvariant, PTL
=============================================================================
