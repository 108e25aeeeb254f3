-------------------------- MODULE SendEngineProofs --------------------------
(***************************************************************************)
(* Proofs about SendEngine, for any number of partitions, records, epochs  *)
(* and requests, and any outcomes the requests may have.                   *)
(***************************************************************************)
EXTENDS SendEngine, FiniteSetTheorems, SequenceTheorems, TLAPS

(* One of the partition's batches is stamped. *)
Holds(s, f) == Stamped(f) \/ (s # <<>> /\ Stamped(s[1]))

-----------------------------------------------------------------------------
(* What the queue operations do to one partition. *)

(* The absent batch is a batch, without a stamp. *)
LEMMA NoBatchType == NoBatch \in Batch /\ ~Some(NoBatch) /\ ~Stamped(NoBatch)
<1>1. 0 \in 0..MAX_SPLIT_DEPTH /\ 0 \in 0..MaxFlushes
  BY EngineAssumption
<1>2. <<>> \in Seq(Records)
  OBVIOUS
<1> QED BY <1>1, <1>2 DEF NoBatch, Batch, Some, Stamped, Stamps

(* A sequence that is not empty has a first element. *)
LEMMA NonEmpty ==
    ASSUME NEW S, NEW s \in Seq(S), s # <<>>
    PROVE  Len(s) \in Nat \ {0} /\ 1 \in 1..Len(s)
<1>1. Len(s) \in Nat \ {0}
  BY EmptySeq
<1> QED BY <1>1

(* Sealing a batch never stamped leaves the front of the queue alone. *)
LEMMA CleanAppend ==
    ASSUME NEW o, NEW s, NEW f, Clean(o, s, f),
           NEW b \in Batch, ~Stamped(b), NEW c \in Batch, ~Stamped(c)
    PROVE  Clean(c, Append(s, b), f) /\ (Holds(Append(s, b), f) <=> Holds(s, f))
<1>1. s \in Seq(Batch) /\ f \in Batch /\ Len(s) \in Nat
  BY DEF Clean
<1>2. /\ Append(s, b) \in Seq(Batch) /\ Append(s, b) # <<>>
      /\ Len(Append(s, b)) = Len(s) + 1
      /\ \A i \in 1..Len(s) : Append(s, b)[i] = s[i]
      /\ Append(s, b)[Len(s) + 1] = b
  BY <1>1, AppendProperties
<1>3. s = <<>> => Append(s, b)[1] = b
  BY <1>1, <1>2
<1>4. s # <<>> => Len(s) \in Nat \ {0} /\ Append(s, b)[1] = s[1]
  BY <1>1, <1>2, NonEmpty
<1>5. \A i \in 2..Len(Append(s, b)) : ~Stamped(Append(s, b)[i])
  BY <1>1, <1>2 DEF Clean
<1> QED BY <1>1, <1>2, <1>3, <1>4, <1>5 DEF Clean, Holds

(* Dropping what is not on the wire. *)
LEMMA CleanDrop ==
    ASSUME NEW o, NEW s, NEW f, Clean(o, s, f)
    PROVE  /\ Clean(NoBatch, <<>>, f)
           /\ Holds(<<>>, f) <=> Stamped(f)
BY NoBatchType DEF Clean, Holds

(* The batch on the wire is done with. *)
LEMMA CleanLand ==
    ASSUME NEW o, NEW s, NEW f, Clean(o, s, f)
    PROVE  /\ Clean(o, s, NoBatch)
           /\ Holds(s, NoBatch) <=> (s # <<>> /\ Stamped(s[1]))
           /\ Stamped(f) => ~(s # <<>> /\ Stamped(s[1]))
BY NoBatchType DEF Clean, Holds

(* The front of the queue goes on the wire as batch g. *)
LEMMA CleanTail ==
    ASSUME NEW o, NEW s, NEW f, Clean(o, s, f), s # <<>>, NEW g \in Batch, Some(g)
    PROVE  Clean(o, Tail(s), g) /\ (Holds(Tail(s), g) <=> Stamped(g))
<1>1. s \in Seq(Batch) /\ Len(s) \in Nat
  BY DEF Clean
<1>2. /\ Tail(s) \in Seq(Batch) /\ Len(Tail(s)) = Len(s) - 1
      /\ \A i \in 1..Len(Tail(s)) : Tail(s)[i] = s[i + 1]
  BY <1>1, HeadTailProperties
<1>3. \A i \in 1..Len(Tail(s)) : ~Stamped(Tail(s)[i])
  BY <1>1, <1>2 DEF Clean
<1>4. Tail(s) # <<>> => ~Stamped(Tail(s)[1])
  BY <1>2, <1>3, NonEmpty
<1> QED BY <1>2, <1>3, <1>4 DEF Clean, Holds

(* The batch on the wire goes back to the front of the queue, as b. *)
LEMMA CleanPush ==
    ASSUME NEW o, NEW s, NEW f, Clean(o, s, f), Some(f), NEW b \in Batch
    PROVE  Clean(o, <<b>> \o s, NoBatch) /\ (Holds(<<b>> \o s, NoBatch) <=> Stamped(b))
<1>1. s \in Seq(Batch) /\ Len(s) \in Nat /\ <<b>> \in Seq(Batch) /\ Len(<<b>>) = 1
  BY DEF Clean
<1>2. /\ <<b>> \o s \in Seq(Batch) /\ Len(<<b>> \o s) = 1 + Len(s)
      /\ \A i \in 1..(1 + Len(s)) :
            (<<b>> \o s)[i] = IF i <= 1 THEN <<b>>[i] ELSE s[i - 1]
  BY <1>1, ConcatProperties
<1>3. (<<b>> \o s)[1] = b /\ <<b>> \o s # <<>>
  BY <1>1, <1>2
<1>4. \A i \in 1..Len(s) : ~Stamped(s[i])
  <2> SUFFICES ASSUME NEW i \in 1..Len(s) PROVE ~Stamped(s[i])
    OBVIOUS
  <2>1. s # <<>>
    BY <1>1
  <2> QED BY <1>1, <2>1 DEF Clean
<1>5. \A i \in 2..Len(<<b>> \o s) : ~Stamped((<<b>> \o s)[i])
  BY <1>1, <1>2, <1>4
<1> QED BY <1>2, <1>3, <1>5, NoBatchType DEF Clean, Holds

(* Its two halves go back, without a stamp. *)
LEMMA CleanPushHalves ==
    ASSUME NEW o, NEW s, NEW f, Clean(o, s, f), Some(f),
           NEW b \in Batch, ~Stamped(b), NEW c \in Batch, ~Stamped(c)
    PROVE  Clean(o, <<b, c>> \o s, NoBatch) /\ ~Holds(<<b, c>> \o s, NoBatch)
<1>1. s \in Seq(Batch) /\ Len(s) \in Nat /\ <<b, c>> \in Seq(Batch) /\ Len(<<b, c>>) = 2
  BY DEF Clean
<1>2. /\ <<b, c>> \o s \in Seq(Batch) /\ Len(<<b, c>> \o s) = 2 + Len(s)
      /\ \A i \in 1..(2 + Len(s)) :
            (<<b, c>> \o s)[i] = IF i <= 2 THEN <<b, c>>[i] ELSE s[i - 2]
  BY <1>1, ConcatProperties
<1>3. (<<b, c>> \o s)[1] = b /\ (<<b, c>> \o s)[2] = c
  BY <1>1, <1>2
<1>4. \A i \in 1..Len(s) : ~Stamped(s[i])
  <2> SUFFICES ASSUME NEW i \in 1..Len(s) PROVE ~Stamped(s[i])
    OBVIOUS
  <2>1. s # <<>>
    BY <1>1
  <2> QED BY <1>1, <2>1 DEF Clean
<1>5. \A i \in 2..Len(<<b, c>> \o s) : ~Stamped((<<b, c>> \o s)[i])
  BY <1>1, <1>2, <1>3, <1>4
<1> QED BY <1>2, <1>3, <1>5, NoBatchType DEF Clean, Holds

(* The first n sealed batches are taken out of the queue. *)
LEMMA CleanSkip ==
    ASSUME NEW o, NEW s, NEW f, Clean(o, s, f), NEW n \in 0..Len(s)
    PROVE  /\ Clean(o, SubSeq(s, n + 1, Len(s)), f)
           /\ n = 0 => (Holds(SubSeq(s, n + 1, Len(s)), f) <=> Holds(s, f))
           /\ n > 0 => (Holds(SubSeq(s, n + 1, Len(s)), f) <=> Stamped(f))
<1> DEFINE t == SubSeq(s, n + 1, Len(s))
<1>1. s \in Seq(Batch) /\ Len(s) \in Nat /\ n \in Nat
  BY DEF Clean
<1>2. \A i \in (n + 1)..Len(s) : s[i] \in Batch
  BY <1>1, ElementOfSeq
<1>3. /\ t \in Seq(Batch)
      /\ Len(t) = IF n + 1 <= Len(s) THEN Len(s) - (n + 1) + 1 ELSE 0
      /\ \A i \in 1..(Len(s) - (n + 1) + 1) : t[i] = s[(n + 1) + i - 1]
  BY <1>1, <1>2, SubSeqProperties
<1>4. CASE n = 0
  <2>1. SubSeq(s, n + 1, Len(s)) = s
    BY <1>1, <1>4, SubSeqFull
  <2>2. ~(n > 0)
    BY <1>4
  <2> QED BY <2>1, <2>2, Zenon
<1>5. CASE n > 0
  <2>1. \A i \in 1..Len(t) : ~Stamped(t[i])
    BY <1>1, <1>3, <1>5 DEF Clean
  <2>2. t # <<>> => ~Stamped(t[1])
    BY <1>3, <2>1, NonEmpty
  <2> HIDE DEF t
  <2>3. Clean(o, t, f) /\ (Holds(t, f) <=> Stamped(f))
    BY <1>3, <2>1, <2>2 DEF Clean, Holds
  <2> QED BY <1>5, <2>3 DEF t
<1> QED BY <1>1, <1>4, <1>5

(* The callers of the batch on the wire are answered. *)
LEMMA CleanSame ==
    ASSUME NEW o, NEW s, NEW f, Clean(o, s, f),
           NEW g \in Batch, g.recs = f.recs, g.stamp = f.stamp
    PROVE  Clean(o, s, g) /\ (Holds(s, g) <=> Holds(s, f))
BY DEF Clean, Holds, Some, Stamped

-----------------------------------------------------------------------------
(* The queues of all partitions, and the count of stamped batches. *)

Queues ==
    /\ open \in [Partitions -> Batch]
    /\ sealed \in [Partitions -> Seq(Batch)]
    /\ in_flight \in [Partitions -> Batch]
    /\ \A k \in Partitions : Clean(open[k], sealed[k], in_flight[k])

(* The invariant's part about the queues. *)
LEMMA QueuesOfIInv == IInv => Queues
BY DEF IInv, Queues, TypeOK

(* The partitions counted are those with a stamped batch. *)
LEMMA KeysAreHolders ==
    ASSUME Queues
    PROVE  StampedKeys = {k \in Partitions : Holds(sealed[k], in_flight[k])}
<1>1. ASSUME NEW k \in Partitions
      PROVE  LiveStamped(k) <=> Holds(sealed[k], in_flight[k])
  BY DEF Queues, LiveStamped, HasSealed, Holds
<1> QED BY <1>1 DEF StampedKeys

(* The same after a step. *)
LEMMA KeysAreHoldersNext ==
    ASSUME Queues'
    PROVE  StampedKeys' = {k \in Partitions : Holds(sealed'[k], in_flight'[k])}
<1>1. ASSUME NEW k \in Partitions
      PROVE  LiveStamped(k)' <=> Holds(sealed'[k], in_flight'[k])
  BY DEF Queues, LiveStamped, HasSealed, Holds
<1> QED BY <1>1 DEF StampedKeys

(* A step that says, partition by partition, what becomes of its queue. *)
LEMMA QueuesStep ==
    ASSUME Queues, NEW S \in SUBSET Partitions,
           open' \in [Partitions -> Batch],
           sealed' \in [Partitions -> Seq(Batch)],
           in_flight' \in [Partitions -> Batch],
           \A k \in Partitions :
              /\ Clean(open'[k], sealed'[k], in_flight'[k])
              /\ Holds(sealed'[k], in_flight'[k]) <=>
                    Holds(sealed[k], in_flight[k]) /\ k \notin S
    PROVE  Queues' /\ StampedKeys' = StampedKeys \ S
<1>1. Queues'
  BY DEF Queues
<1> QED BY <1>1, KeysAreHolders, KeysAreHoldersNext

(* Batches resolved: the count goes down by their number. *)
LEMMA CountSpent ==
    ASSUME UnresolvedExact, NEW S \in SUBSET StampedKeys,
           StampedKeys' = StampedKeys \ S,
           stamped_unresolved' = stamped_unresolved - Cardinality(S)
    PROVE  UnresolvedExact'
<1>1. IsFiniteSet(StampedKeys)
  BY EngineAssumption, FS_Subset DEF StampedKeys
<1>2. StampedKeys \cap S = S
  OBVIOUS
<1>3. Cardinality(StampedKeys \ S) = Cardinality(StampedKeys) - Cardinality(S)
  BY <1>1, <1>2, FS_Difference
<1> QED BY <1>3 DEF UnresolvedExact

(* Batches stamped: the count goes up by their number. *)
LEMMA CountStamped ==
    ASSUME UnresolvedExact, NEW S \in SUBSET Partitions, S \cap StampedKeys = {},
           StampedKeys' = StampedKeys \cup S,
           stamped_unresolved' = stamped_unresolved + Cardinality(S)
    PROVE  UnresolvedExact'
<1>1. IsFiniteSet(StampedKeys) /\ IsFiniteSet(S)
  BY EngineAssumption, FS_Subset DEF StampedKeys
<1>2. /\ Cardinality(StampedKeys \cup S) =
           Cardinality(StampedKeys) + Cardinality(S) - Cardinality(StampedKeys \cap S)
      /\ Cardinality(StampedKeys) \in Nat /\ Cardinality(S) \in Nat
  BY <1>1, FS_Union, FS_CardinalityType
<1>3. Cardinality(StampedKeys \cap S) = 0
  <2>1. StampedKeys \cap S = {}
    OBVIOUS
  <2> QED BY <2>1, FS_EmptySet
<1> QED BY <1>2, <1>3 DEF UnresolvedExact

(* Nothing stamped and nothing resolved: the count stays. *)
LEMMA CountKept ==
    ASSUME UnresolvedExact, StampedKeys' = StampedKeys,
           stamped_unresolved' = stamped_unresolved
    PROVE  UnresolvedExact'
BY DEF UnresolvedExact

(* Steps that touch no queue. *)
LEMMA QueuesKept ==
    ASSUME Queues, open' = open, sealed' = sealed, in_flight' = in_flight
    PROVE  Queues' /\ StampedKeys' = StampedKeys
BY DEF Queues, StampedKeys, LiveStamped, HasSealed

(* The same for a step that stamps batches of the partitions S. *)
LEMMA QueuesGrow ==
    ASSUME Queues, NEW S \in SUBSET Partitions,
           open' \in [Partitions -> Batch],
           sealed' \in [Partitions -> Seq(Batch)],
           in_flight' \in [Partitions -> Batch],
           \A k \in Partitions :
              /\ Clean(open'[k], sealed'[k], in_flight'[k])
              /\ Holds(sealed'[k], in_flight'[k]) <=>
                    Holds(sealed[k], in_flight[k]) \/ k \in S
    PROVE  Queues' /\ StampedKeys' = StampedKeys \cup S
<1>1. Queues'
  BY DEF Queues
<1> QED BY <1>1, KeysAreHolders, KeysAreHoldersNext

(* Flush and the closing of the channel. *)
LEMMA QueuesSealAll ==
    ASSUME Queues, SealAll, in_flight' = in_flight
    PROVE  Queues' /\ StampedKeys' = StampedKeys
<1>1. ASSUME NEW k \in Partitions
      PROVE  /\ open'[k] \in Batch /\ sealed'[k] \in Seq(Batch)
             /\ Clean(open'[k], sealed'[k], in_flight'[k])
             /\ Holds(sealed'[k], in_flight'[k]) <=> Holds(sealed[k], in_flight[k])
  <2>0. /\ Clean(open[k], sealed[k], in_flight[k]) /\ open[k] \in Batch
        /\ ~Stamped(open[k]) /\ sealed[k] \in Seq(Batch)
    BY DEF Queues, Clean
  <2>1. CASE k \in active /\ Some(open[k])
    <3>1. open'[k] = NoBatch /\ sealed'[k] = Append(sealed[k], open[k])
      BY <2>1 DEF SealAll, Emptied
    <3> QED BY <2>0, <3>1, CleanAppend, NoBatchType, AppendProperties
  <2>2. CASE ~(k \in active /\ Some(open[k]))
    <3>1. sealed'[k] = sealed[k] /\ (open'[k] = open[k] \/ open'[k] = NoBatch)
      BY <2>2 DEF SealAll, Emptied
    <3> QED BY <2>0, <3>1, NoBatchType DEF Clean
  <2> QED BY <2>1, <2>2
<1>2. /\ open' \in [Partitions -> Batch]
      /\ sealed' \in [Partitions -> Seq(Batch)]
      /\ in_flight' \in [Partitions -> Batch]
  BY <1>1 DEF SealAll, Emptied, Queues
<1>3. Queues' /\ StampedKeys' = StampedKeys \ {}
  BY <1>1, <1>2, QueuesStep
<1> QED BY <1>3

(* What a queue still holds is stamped only at its front. *)
LEMMA UnsentFront ==
    ASSUME Queues, NEW k \in Partitions
    PROVE  (\E b \in Unsent(k) : Stamped(b)) <=> (sealed[k] # <<>> /\ Stamped(sealed[k][1]))
<1>0. /\ Clean(open[k], sealed[k], in_flight[k]) /\ sealed[k] \in Seq(Batch)
      /\ Len(sealed[k]) \in Nat /\ ~Stamped(open[k])
  BY DEF Queues, Clean
<1>1. Range(sealed[k]) = {sealed[k][i] : i \in 1..Len(sealed[k])}
  BY <1>0, RangeEquality
<1>2. ASSUME NEW b \in Unsent(k), Stamped(b)
      PROVE  sealed[k] # <<>> /\ Stamped(sealed[k][1])
  <2>1. PICK i \in 1..Len(sealed[k]) : b = sealed[k][i]
    BY <1>0, <1>1, <1>2 DEF Unsent
  <2>2. i = 1
    BY <1>0, <1>2, <2>1 DEF Clean
  <2>3. sealed[k] # <<>>
    BY <1>0, <2>1
  <2> QED BY <1>2, <2>1, <2>2, <2>3
<1>3. ASSUME sealed[k] # <<>>, Stamped(sealed[k][1])
      PROVE  \E b \in Unsent(k) : Stamped(b)
  <2>1. 1 \in 1..Len(sealed[k])
    BY <1>0, <1>3, NonEmpty
  <2> QED BY <1>1, <1>3, <2>1 DEF Unsent
<1> QED BY <1>2, <1>3

(* FailUnsent, Terminate and a fatal error: everything not on the wire     *)
(* goes; the batches on the wire keep their records and stamps.            *)
LEMMA QueuesDropped ==
    ASSUME Queues, active \subseteq Partitions,
           sealed' = Emptied(sealed, <<>>), open' = Emptied(open, NoBatch),
           in_flight' \in [Partitions -> Batch],
           \A k \in Partitions : /\ in_flight'[k].recs = in_flight[k].recs
                                 /\ in_flight'[k].stamp = in_flight[k].stamp
    PROVE  /\ Queues' /\ StampedKeys' = StampedKeys \ UnsentStamped
           /\ UnsentStamped \in SUBSET StampedKeys
<1>0. UnsentStamped = {k \in active : sealed[k] # <<>> /\ Stamped(sealed[k][1])}
  BY UnsentFront DEF UnsentStamped
<1>1. UnsentStamped \in SUBSET StampedKeys
  BY <1>0, KeysAreHolders DEF Holds
<1>2. ASSUME NEW k \in Partitions
      PROVE  /\ open'[k] \in Batch /\ sealed'[k] \in Seq(Batch)
             /\ Clean(open'[k], sealed'[k], in_flight'[k])
             /\ Holds(sealed'[k], in_flight'[k]) <=>
                   Holds(sealed[k], in_flight[k]) /\ k \notin UnsentStamped
  <2>0. /\ Clean(open[k], sealed[k], in_flight[k]) /\ open[k] \in Batch
        /\ sealed[k] \in Seq(Batch) /\ in_flight'[k] \in Batch
    BY DEF Queues, Clean
  <2>1. /\ Clean(open[k], sealed[k], in_flight'[k])
        /\ Holds(sealed[k], in_flight'[k]) <=> Holds(sealed[k], in_flight[k])
    BY <2>0, CleanSame
  <2>2. CASE k \in active
    <3>1. open'[k] = NoBatch /\ sealed'[k] = <<>>
      BY <2>2 DEF Emptied
    <3>2. /\ Clean(NoBatch, <<>>, in_flight'[k])
          /\ Holds(<<>>, in_flight'[k]) <=> Stamped(in_flight'[k])
      BY <2>1, CleanDrop
    <3>3. /\ Stamped(in_flight'[k]) => ~(sealed[k] # <<>> /\ Stamped(sealed[k][1]))
      BY <2>1, CleanLand
    <3>4. Holds(sealed[k], in_flight'[k]) /\ k \notin UnsentStamped
             <=> Stamped(in_flight'[k])
      BY <1>0, <2>2, <3>3 DEF Holds
    <3>5. <<>> \in Seq(Batch)
      OBVIOUS
    <3> QED BY <2>1, <3>1, <3>2, <3>4, <3>5, NoBatchType
  <2>3. CASE k \notin active
    <3>1. open'[k] = open[k] /\ sealed'[k] = sealed[k]
      BY <2>3 DEF Emptied
    <3> QED BY <1>0, <2>0, <2>1, <2>3, <3>1
  <2> QED BY <2>2, <2>3
<1>3. open' \in [Partitions -> Batch] /\ sealed' \in [Partitions -> Seq(Batch)]
  BY <1>2 DEF Emptied
<1>4. UnsentStamped \in SUBSET Partitions
  BY <1>0
<1> QED BY <1>1, <1>2, <1>3, <1>4, QueuesStep

(* The batch of k on the wire is done with. *)
LEMMA QueuesLanded ==
    ASSUME Queues, NEW k \in Partitions, open' = open, sealed' = sealed,
           in_flight' = Landed(k)
    PROVE  /\ Queues' /\ StampedKeys' = StampedKeys \ Spent(k, in_flight[k])
           /\ Spent(k, in_flight[k]) \in SUBSET StampedKeys
<1>1. in_flight' \in [Partitions -> Batch]
  BY NoBatchType DEF Landed, Queues
<1>2. ASSUME NEW j \in Partitions
      PROVE  /\ Clean(open'[j], sealed'[j], in_flight'[j])
             /\ Holds(sealed'[j], in_flight'[j]) <=>
                   Holds(sealed[j], in_flight[j]) /\ j \notin Spent(k, in_flight[k])
  <2>0. Clean(open[j], sealed[j], in_flight[j])
    BY DEF Queues
  <2>1. CASE j = k
    <3>1. in_flight'[j] = NoBatch
      BY <2>1 DEF Landed, Queues
    <3>2. /\ Clean(open[j], sealed[j], NoBatch)
          /\ Holds(sealed[j], NoBatch) <=> (sealed[j] # <<>> /\ Stamped(sealed[j][1]))
          /\ Stamped(in_flight[j]) => ~(sealed[j] # <<>> /\ Stamped(sealed[j][1]))
      BY <2>0, CleanLand
    <3> QED BY <2>1, <3>1, <3>2 DEF Holds, Spent
  <2>2. CASE j # k
    <3>1. in_flight'[j] = in_flight[j] /\ j \notin Spent(k, in_flight[k])
      BY <2>2 DEF Landed, Queues, Spent
    <3> QED BY <2>0, <3>1
  <2> QED BY <2>1, <2>2
<1>3. Spent(k, in_flight[k]) \in SUBSET Partitions
  BY DEF Spent
<1>4. Spent(k, in_flight[k]) \in SUBSET StampedKeys
  BY KeysAreHolders DEF Spent, Holds
<1>5. open' \in [Partitions -> Batch] /\ sealed' \in [Partitions -> Seq(Batch)]
  BY DEF Queues
<1> QED BY <1>1, <1>2, <1>3, <1>4, <1>5, QueuesStep

(* The batch of k on the wire goes back to the queue, as b. *)
LEMMA QueuesPushed ==
    ASSUME Queues, NEW k \in Partitions, Some(in_flight[k]),
           NEW b \in Batch, Stamped(b) => Stamped(in_flight[k]),
           open' = open, sealed' = Pushed(k, <<b>>), in_flight' = Landed(k)
    PROVE  /\ Queues'
           /\ Stamped(b) => StampedKeys' = StampedKeys
           /\ ~Stamped(b) => StampedKeys' = StampedKeys \ Spent(k, in_flight[k])
           /\ Spent(k, in_flight[k]) \in SUBSET StampedKeys
<1> DEFINE S == IF Stamped(b) THEN {} ELSE Spent(k, in_flight[k])
<1>0. sealed[k] \in Seq(Batch) /\ <<b>> \o sealed[k] \in Seq(Batch)
  <2>1. sealed[k] \in Seq(Batch) /\ <<b>> \in Seq(Batch)
    BY DEF Queues
  <2> QED BY <2>1, ConcatProperties
<1>1. /\ open' \in [Partitions -> Batch]
      /\ sealed' \in [Partitions -> Seq(Batch)]
      /\ in_flight' \in [Partitions -> Batch]
  BY <1>0, NoBatchType DEF Landed, Pushed, Queues
<1>2. ASSUME NEW j \in Partitions
      PROVE  /\ Clean(open'[j], sealed'[j], in_flight'[j])
             /\ Holds(sealed'[j], in_flight'[j]) <=>
                   Holds(sealed[j], in_flight[j]) /\ j \notin S
  <2>0. Clean(open[j], sealed[j], in_flight[j])
    BY DEF Queues
  <2>1. CASE j = k
    <3>1. in_flight'[j] = NoBatch /\ sealed'[j] = <<b>> \o sealed[j]
      BY <2>1 DEF Landed, Pushed, Queues
    <3>2. /\ Clean(open[j], <<b>> \o sealed[j], NoBatch)
          /\ Holds(<<b>> \o sealed[j], NoBatch) <=> Stamped(b)
      BY <2>0, <2>1, CleanPush
    <3>3. Stamped(in_flight[j]) <=> Holds(sealed[j], in_flight[j])
      BY <2>0, <2>1 DEF Clean, Holds
    <3>4. Stamped(b) <=> Holds(sealed[j], in_flight[j]) /\ j \notin S
      BY <2>1, <3>3 DEF Spent
    <3> HIDE DEF S
    <3> QED BY <3>1, <3>2, <3>4
  <2>2. CASE j # k
    <3>1. in_flight'[j] = in_flight[j] /\ sealed'[j] = sealed[j] /\ j \notin S
      BY <2>2 DEF Landed, Pushed, Queues, Spent
    <3> HIDE DEF S
    <3> QED BY <2>0, <3>1
  <2> QED BY <2>1, <2>2
<1>3. S \in SUBSET Partitions
  BY DEF Spent
<1>4. Spent(k, in_flight[k]) \in SUBSET StampedKeys
  BY KeysAreHolders DEF Spent, Holds
<1>5. Queues' /\ StampedKeys' = StampedKeys \ S
  <2> HIDE DEF S
  <2> QED BY <1>1, <1>2, <1>3, QueuesStep
<1> QED BY <1>4, <1>5

(* It goes back as two halves. *)
LEMMA QueuesHalves ==
    ASSUME Queues, NEW k \in Partitions, Some(in_flight[k]),
           NEW b \in Batch, ~Stamped(b), NEW c \in Batch, ~Stamped(c),
           open' = open, sealed' = Pushed(k, <<b, c>>), in_flight' = Landed(k)
    PROVE  /\ Queues' /\ StampedKeys' = StampedKeys \ Spent(k, in_flight[k])
           /\ Spent(k, in_flight[k]) \in SUBSET StampedKeys
<1>0. sealed[k] \in Seq(Batch) /\ <<b, c>> \o sealed[k] \in Seq(Batch)
  <2>1. sealed[k] \in Seq(Batch) /\ <<b, c>> \in Seq(Batch)
    BY DEF Queues
  <2> QED BY <2>1, ConcatProperties
<1>1. /\ open' \in [Partitions -> Batch]
      /\ sealed' \in [Partitions -> Seq(Batch)]
      /\ in_flight' \in [Partitions -> Batch]
  BY <1>0, NoBatchType DEF Landed, Pushed, Queues
<1>2. ASSUME NEW j \in Partitions
      PROVE  /\ Clean(open'[j], sealed'[j], in_flight'[j])
             /\ Holds(sealed'[j], in_flight'[j]) <=>
                   Holds(sealed[j], in_flight[j]) /\ j \notin Spent(k, in_flight[k])
  <2>0. Clean(open[j], sealed[j], in_flight[j])
    BY DEF Queues
  <2>1. CASE j = k
    <3>1. in_flight'[j] = NoBatch /\ sealed'[j] = <<b, c>> \o sealed[j]
      BY <2>1 DEF Landed, Pushed, Queues
    <3>2. /\ Clean(open[j], <<b, c>> \o sealed[j], NoBatch)
          /\ ~Holds(<<b, c>> \o sealed[j], NoBatch)
      BY <2>0, <2>1, CleanPushHalves
    <3>3. Stamped(in_flight[j]) <=> Holds(sealed[j], in_flight[j])
      BY <2>0, <2>1 DEF Clean, Holds
    <3>4. ~(Holds(sealed[j], in_flight[j]) /\ j \notin Spent(k, in_flight[k]))
      BY <2>1, <3>3 DEF Spent
    <3> QED BY <3>1, <3>2, <3>4
  <2>2. CASE j # k
    <3>1. /\ in_flight'[j] = in_flight[j] /\ sealed'[j] = sealed[j]
          /\ j \notin Spent(k, in_flight[k])
      BY <2>2 DEF Landed, Pushed, Queues, Spent
    <3> QED BY <2>0, <3>1
  <2> QED BY <2>1, <2>2
<1>3. Spent(k, in_flight[k]) \in SUBSET Partitions
  BY DEF Spent
<1>4. Spent(k, in_flight[k]) \in SUBSET StampedKeys
  BY KeysAreHolders DEF Spent, Holds
<1> QED BY <1>1, <1>2, <1>3, <1>4, QueuesStep

-----------------------------------------------------------------------------
(* The steps of the engine, on the queues and the count. *)

Core == Queues /\ UnresolvedExact

(* A record joins the open batch, or opens another, and may seal it. *)
LEMMA AppendCore ==
    ASSUME IInv, NEW k \in Partitions, NEW g \in 0..MaxFlushes,
           NEW fits \in BOOLEAN, NEW full \in BOOLEAN, append(k, g, fits, full)
    PROVE  Core'
<1> DEFINE before == IF fits THEN sealed[k] ELSE Append(sealed[k], open[k])
           batch == IF Some(open[k]) /\ fits
                    THEN [open[k] EXCEPT !.recs = Append(@, next_record),
                                         !.gen = IF g > @ THEN g ELSE @]
                    ELSE [NoBatch EXCEPT !.recs = <<next_record>>,
                                         !.waiting = TRUE, !.gen = g]
           seal == full \/ SealNow(g)
<1>0. Queues /\ UnresolvedExact
  BY QueuesOfIInv DEF IInv
<1>1. /\ open[k] \in Batch /\ ~Stamped(open[k]) /\ sealed[k] \in Seq(Batch)
      /\ Clean(open[k], sealed[k], in_flight[k])
  BY <1>0 DEF Queues, Clean
<1>2. next_record \in Records
  BY DEF append
<1>3. batch \in Batch /\ ~Stamped(batch)
  <2>1. CASE Some(open[k]) /\ fits
    <3>1. Append(open[k].recs, next_record) \in Seq(Records)
      BY <1>1, <1>2 DEF Batch
    <3>2. (IF g > open[k].gen THEN g ELSE open[k].gen) \in 0..MaxFlushes
      BY <1>1 DEF Batch
    <3> QED BY <1>1, <2>1, <3>1, <3>2 DEF Batch, Stamped
  <2>2. CASE ~(Some(open[k]) /\ fits)
    <3>1. <<next_record>> \in Seq(Records)
      BY <1>2
    <3> QED BY <2>2, <3>1, NoBatchType DEF Batch, Stamped
  <2> QED BY <2>1, <2>2
<1>4. /\ before \in Seq(Batch)
      /\ Clean(open[k], before, in_flight[k])
      /\ Holds(before, in_flight[k]) <=> Holds(sealed[k], in_flight[k])
  BY <1>1, CleanAppend, AppendProperties
<1>5. /\ sealed' = [sealed EXCEPT ![k] = IF seal THEN Append(before, batch) ELSE before]
      /\ open' = [open EXCEPT ![k] = IF seal THEN NoBatch ELSE batch]
      /\ in_flight' = in_flight /\ stamped_unresolved' = stamped_unresolved
  BY DEF append, stampVars
<1>6. seal \in BOOLEAN
  BY DEF SealNow
<1> HIDE DEF before, batch, seal
<1>7. /\ sealed'[k] \in Seq(Batch) /\ open'[k] \in Batch
      /\ Clean(open'[k], sealed'[k], in_flight[k])
      /\ Holds(sealed'[k], in_flight[k]) <=> Holds(sealed[k], in_flight[k])
  <2>1. CASE seal
    <3>1. sealed'[k] = Append(before, batch) /\ open'[k] = NoBatch
      BY <1>0, <1>5, <2>1 DEF Queues
    <3> QED BY <1>3, <1>4, <3>1, NoBatchType, CleanAppend, AppendProperties
  <2>2. CASE ~seal
    <3>1. sealed'[k] = before /\ open'[k] = batch
      BY <1>0, <1>5, <2>2 DEF Queues
    <3> QED BY <1>3, <1>4, <3>1 DEF Clean
  <2> QED BY <1>6, <2>1, <2>2
<1>8. \A j \in Partitions : j # k => open'[j] = open[j] /\ sealed'[j] = sealed[j]
  BY <1>0, <1>5 DEF Queues
<1>9. /\ open' \in [Partitions -> Batch]
      /\ sealed' \in [Partitions -> Seq(Batch)]
      /\ in_flight' \in [Partitions -> Batch]
  <2>1. DOMAIN open' = Partitions /\ DOMAIN sealed' = Partitions
    BY <1>0, <1>5 DEF Queues
  <2> QED BY <1>0, <1>5, <1>7, <1>8, <2>1 DEF Queues
<1>10. \A j \in Partitions :
          /\ Clean(open'[j], sealed'[j], in_flight'[j])
          /\ Holds(sealed'[j], in_flight'[j]) <=>
                Holds(sealed[j], in_flight[j]) /\ j \notin {}
  BY <1>0, <1>5, <1>7, <1>8 DEF Queues
<1>11. Queues' /\ StampedKeys' = StampedKeys \ {}
  BY <1>0, <1>9, <1>10, QueuesStep
<1> QED BY <1>0, <1>5, <1>11, CountKept DEF Core

(* Batches past their deadline are taken out, or answered on the wire. *)
LEMMA ExpireCore ==
    ASSUME IInv, NEW k \in Partitions, NEW n \in 0..Len(sealed[k]),
           NEW all \in BOOLEAN, expire(k, n, all)
    PROVE  Core'
<1> DEFINE dead == {sealed[k][i] : i \in 1..n} \cup (IF all THEN {open[k]} ELSE {})
           S == IF \E b \in dead : Stamped(b) THEN {k} ELSE {}
<1>0. Queues /\ UnresolvedExact
  BY QueuesOfIInv DEF IInv
<1>1. /\ open[k] \in Batch /\ ~Stamped(open[k])
      /\ sealed[k] \in Seq(Batch) /\ in_flight[k] \in Batch
      /\ Clean(open[k], sealed[k], in_flight[k])
      /\ Len(sealed[k]) \in Nat /\ n \in Nat
  BY <1>0 DEF Queues, Clean
<1>2. (\E b \in dead : Stamped(b)) <=> n > 0 /\ Stamped(sealed[k][1])
  BY <1>1 DEF Clean
<1>3. n > 0 => sealed[k] # <<>>
  BY <1>1
<1>4. /\ SpendStamps(S)
      /\ sealed' = [sealed EXCEPT ![k] = SubSeq(@, n + 1, Len(@))]
      /\ open' = [open EXCEPT ![k] = IF all THEN NoBatch ELSE @]
      /\ in_flight' = [in_flight EXCEPT ![k].waiting = FALSE]
  BY DEF expire
<1>5. S = IF n > 0 /\ Stamped(sealed[k][1]) THEN {k} ELSE {}
  BY <1>2
<1> HIDE DEF S, dead
<1> DEFINE t == SubSeq(sealed[k], n + 1, Len(sealed[k]))
           f == [in_flight[k] EXCEPT !.waiting = FALSE]
           o == IF all THEN NoBatch ELSE open[k]
<1>6. sealed'[k] = t /\ open'[k] = o /\ in_flight'[k] = f
  BY <1>0, <1>4 DEF Queues
<1>7. f \in Batch /\ f.recs = in_flight[k].recs /\ f.stamp = in_flight[k].stamp
  BY <1>1 DEF Batch
<1>8. o \in Batch /\ ~Stamped(o)
  BY <1>1, NoBatchType
<1>9. /\ Clean(open[k], t, in_flight[k])
      /\ n = 0 => (Holds(t, in_flight[k]) <=> Holds(sealed[k], in_flight[k]))
      /\ n > 0 => (Holds(t, in_flight[k]) <=> Stamped(in_flight[k]))
  BY <1>1, CleanSkip
<1> HIDE DEF t, f, o
<1>10. Clean(open[k], t, f) /\ (Holds(t, f) <=> Holds(t, in_flight[k]))
  BY <1>7, <1>9, CleanSame
<1>11. Clean(o, t, f) /\ t \in Seq(Batch)
  BY <1>8, <1>10 DEF Clean
<1>12. Stamped(in_flight[k]) => ~(sealed[k] # <<>> /\ Stamped(sealed[k][1]))
  BY <1>1, CleanLand
<1>13. Holds(t, f) <=> Holds(sealed[k], in_flight[k]) /\ k \notin S
  <2>1. CASE n = 0
    <3>1. S = {}
      BY <1>5, <2>1
    <3> QED BY <1>9, <1>10, <2>1, <3>1
  <2>2. CASE n > 0
    BY <1>3, <1>5, <1>9, <1>10, <1>12, <2>2 DEF Holds
  <2> QED BY <1>1, <2>1, <2>2
<1>14. \A j \in Partitions : j # k =>
          open'[j] = open[j] /\ sealed'[j] = sealed[j] /\ in_flight'[j] = in_flight[j]
  BY <1>0, <1>4 DEF Queues
<1>15. /\ open' \in [Partitions -> Batch]
       /\ sealed' \in [Partitions -> Seq(Batch)]
       /\ in_flight' \in [Partitions -> Batch]
  <2>1. /\ open' = [j \in Partitions |-> open'[j]]
        /\ sealed' = [j \in Partitions |-> sealed'[j]]
        /\ in_flight' = [j \in Partitions |-> in_flight'[j]]
    BY <1>0, <1>4 DEF Queues
  <2>2. \A j \in Partitions :
          open'[j] \in Batch /\ sealed'[j] \in Seq(Batch) /\ in_flight'[j] \in Batch
    BY <1>0, <1>6, <1>7, <1>8, <1>11, <1>14 DEF Queues
  <2> QED BY <2>1, <2>2
<1>16. S \in SUBSET Partitions
  BY <1>5
<1>17. \A j \in Partitions :
          /\ Clean(open'[j], sealed'[j], in_flight'[j])
          /\ Holds(sealed'[j], in_flight'[j]) <=>
                Holds(sealed[j], in_flight[j]) /\ j \notin S
  <2> SUFFICES ASSUME NEW j \in Partitions
               PROVE  /\ Clean(open'[j], sealed'[j], in_flight'[j])
                      /\ Holds(sealed'[j], in_flight'[j]) <=>
                            Holds(sealed[j], in_flight[j]) /\ j \notin S
    OBVIOUS
  <2>1. CASE j = k
    BY <1>6, <1>11, <1>13, <2>1
  <2>2. CASE j # k
    <3>1. j \notin S
      BY <1>5, <2>2
    <3> QED BY <1>0, <1>14, <2>2, <3>1 DEF Queues
  <2> QED BY <2>1, <2>2
<1>18. Queues' /\ StampedKeys' = StampedKeys \ S
  BY <1>0, <1>15, <1>16, <1>17, QueuesStep
<1>19. S \in SUBSET StampedKeys
  BY <1>0, <1>3, <1>5, KeysAreHolders DEF Holds
<1> QED BY <1>0, <1>4, <1>18, <1>19, CountSpent DEF Core, SpendStamps

(* The batch `drain` takes: it is stamped if the partition's queue is. *)
LEMMA HeadType ==
    ASSUME Queues, NEW k \in Partitions, ~Some(in_flight[k])
    PROVE  /\ HeadOf(k) \in Batch
           /\ Stamped(HeadOf(k)) <=> Holds(sealed[k], in_flight[k])
<1>1. /\ Clean(open[k], sealed[k], in_flight[k]) /\ open[k] \in Batch
      /\ sealed[k] \in Seq(Batch) /\ ~Stamped(open[k]) /\ ~Stamped(in_flight[k])
  BY DEF Queues, Clean
<1>2. CASE HasSealed(k)
  <2>1. sealed[k] # <<>> /\ HeadOf(k) = sealed[k][1]
    BY <1>1, <1>2 DEF HeadOf, HasSealed
  <2>2. 1 \in 1..Len(sealed[k])
    BY <1>1, <2>1, NonEmpty
  <2>3. HeadOf(k) \in Batch
    BY <1>1, <2>1, <2>2, ElementOfSeq
  <2> QED BY <1>1, <2>1, <2>3 DEF Holds
<1>3. CASE ~HasSealed(k)
  BY <1>1, <1>3 DEF HeadOf, HasSealed, Holds
<1> QED BY <1>2, <1>3

(* A stamp, and the position it leaves behind. *)
LEMMA StampType ==
    ASSUME NEW q \in PartitionSeq, NEW id \in Identity, id.generation > 0,
           NEW n \in Nat
    PROVE  /\ stamp(q, id) \in BatchIdentity /\ stamp(q, id) # NoStamp
           /\ stamp(q, id).generation = id.generation
           /\ advanced(q, id, n) \in PartitionSeq
<1>1. Position(q, id) \in Nat /\ id.generation \in Nat \ {0}
  BY DEF Position, PartitionSeq, Identity
<1>2. stamp(q, id) \in BatchIdentity /\ stamp(q, id).generation = id.generation
  BY <1>1 DEF stamp, BatchIdentity, Identity
<1>3. stamp(q, id) # NoStamp
  BY <1>1, <1>2 DEF NoStamp
<1>4. next_sequence(Position(q, id), n) \in Nat
  BY <1>1, IdentityAssumption DEF next_sequence
<1> QED BY <1>1, <1>2, <1>3, <1>4 DEF advanced, PartitionSeq

(* The batch as it goes out. *)
LEMMA SentType ==
    ASSUME IInv, NEW k \in Partitions, ~Some(in_flight[k])
    PROVE  /\ Sent(k) \in Batch /\ Sent(k).recs = HeadOf(k).recs
           /\ Stamped(Sent(k)) <=> NeedsStamp(k) \/ Stamped(HeadOf(k))
           /\ NeedsStamp(k) => Sent(k).stamp = stamp(seq[k], ident)
           /\ ~NeedsStamp(k) => Sent(k) = HeadOf(k)
           /\ Stamped(Sent(k)) => Sent(k).stamp \in BatchIdentity
<1>1. HeadOf(k) \in Batch
  BY HeadType, QueuesOfIInv
<1>2. /\ stamp(seq[k], ident) \in BatchIdentity
      /\ stamp(seq[k], ident) # NoStamp
  BY StampType DEF IInv, TypeOK
<1>3. CASE NeedsStamp(k)
  <2>1. Sent(k) = [HeadOf(k) EXCEPT !.stamp = stamp(seq[k], ident)]
    BY <1>3 DEF Sent
  <2> QED BY <1>1, <1>2, <1>3, <2>1 DEF Batch, Stamped, Stamps
<1>4. CASE ~NeedsStamp(k)
  BY <1>1, <1>4 DEF Sent, Batch, Stamped, Stamps
<1> QED BY <1>3, <1>4

(* A request goes out: its batches without a stamp get one. *)
LEMMA DrainCore ==
    ASSUME IInv, NEW b \in Brokers, NEW S \in SUBSET Partitions, drain(b, S)
    PROVE  Core'
<1> DEFINE new == {k \in S : NeedsStamp(k)}
<1>0. Queues /\ UnresolvedExact
  BY QueuesOfIInv DEF IInv
<1>1. /\ in_flight' = [k \in Partitions |-> IF k \in S THEN Sent(k) ELSE in_flight[k]]
      /\ sealed' = [k \in Partitions |->
                       IF k \in S /\ HasSealed(k) THEN Tail(sealed[k]) ELSE sealed[k]]
      /\ open' = [k \in Partitions |->
                       IF k \in S /\ ~HasSealed(k) THEN NoBatch ELSE open[k]]
      /\ stamped_unresolved' = stamped_unresolved + Cardinality(new)
      /\ \A k \in S : ~Some(in_flight[k]) /\ Some(HeadOf(k))
  BY DEF drain, Ready
<1>2. ASSUME NEW k \in S
      PROVE  /\ HeadOf(k) \in Batch
             /\ Stamped(HeadOf(k)) <=> Holds(sealed[k], in_flight[k])
             /\ Sent(k) \in Batch /\ Some(Sent(k))
             /\ Stamped(Sent(k)) <=> NeedsStamp(k) \/ Stamped(HeadOf(k))
  BY <1>0, <1>1, HeadType, SentType DEF Some
<1>3. ASSUME NEW k \in Partitions
      PROVE  /\ open'[k] \in Batch /\ sealed'[k] \in Seq(Batch)
             /\ in_flight'[k] \in Batch
             /\ Clean(open'[k], sealed'[k], in_flight'[k])
             /\ Holds(sealed'[k], in_flight'[k]) <=>
                   Holds(sealed[k], in_flight[k]) \/ k \in new
  <2>0. /\ Clean(open[k], sealed[k], in_flight[k]) /\ open[k] \in Batch
        /\ sealed[k] \in Seq(Batch) /\ in_flight[k] \in Batch
    BY <1>0 DEF Queues, Clean
  <2>1. CASE k \in S /\ HasSealed(k)
    <3>1. in_flight'[k] = Sent(k) /\ sealed'[k] = Tail(sealed[k]) /\ open'[k] = open[k]
      BY <1>1, <2>1
    <3>2. /\ Clean(open[k], Tail(sealed[k]), Sent(k))
          /\ Holds(Tail(sealed[k]), Sent(k)) <=> Stamped(Sent(k))
      BY <1>2, <2>0, <2>1, CleanTail DEF HasSealed
    <3>3. k \in new <=> NeedsStamp(k)
      BY <2>1
    <3> HIDE DEF new
    <3> QED BY <1>2, <2>0, <2>1, <3>1, <3>2, <3>3 DEF Clean
  <2>2. CASE k \in S /\ ~HasSealed(k)
    <3>1. in_flight'[k] = Sent(k) /\ sealed'[k] = <<>> /\ open'[k] = NoBatch
      BY <1>1, <2>2 DEF HasSealed
    <3>2. /\ Clean(NoBatch, <<>>, Sent(k))
          /\ Holds(<<>>, Sent(k)) <=> Stamped(Sent(k))
      BY <1>2, <2>2, NoBatchType DEF Clean, Holds
    <3>3. k \in new <=> NeedsStamp(k)
      BY <2>2
    <3> HIDE DEF new
    <3> QED BY <1>2, <2>0, <2>2, <3>1, <3>2, <3>3, NoBatchType DEF Clean
  <2>3. CASE k \notin S
    <3>1. in_flight'[k] = in_flight[k] /\ sealed'[k] = sealed[k] /\ open'[k] = open[k]
      BY <1>1, <2>3
    <3> QED BY <2>0, <2>3, <3>1
  <2> QED BY <2>1, <2>2, <2>3
<1>4. /\ open' \in [Partitions -> Batch]
      /\ sealed' \in [Partitions -> Seq(Batch)]
      /\ in_flight' \in [Partitions -> Batch]
  BY <1>1, <1>3
<1>5. new \in SUBSET Partitions /\ new \cap StampedKeys = {}
  BY <1>0, <1>2, KeysAreHolders DEF NeedsStamp
<1> HIDE DEF new
<1>6. Queues' /\ StampedKeys' = StampedKeys \cup new
  BY <1>0, <1>3, <1>4, <1>5, QueuesGrow
<1> QED BY <1>0, <1>1, <1>5, <1>6, CountStamped DEF Core

(* A fatal error: the batch of k on the wire and everything unsent go. *)
LEMMA QueuesFatal ==
    ASSUME Queues, active \subseteq Partitions, NEW k \in Partitions,
           sealed' = Emptied(sealed, <<>>), open' = Emptied(open, NoBatch),
           in_flight' = Landed(k)
    PROVE  LET S == Spent(k, in_flight[k]) \cup UnsentStamped
           IN  Queues' /\ StampedKeys' = StampedKeys \ S /\ S \in SUBSET StampedKeys
<1> DEFINE S == Spent(k, in_flight[k]) \cup UnsentStamped
<1>0. UnsentStamped = {j \in active : sealed[j] # <<>> /\ Stamped(sealed[j][1])}
  BY UnsentFront DEF UnsentStamped
<1>1. S \in SUBSET StampedKeys /\ S \in SUBSET Partitions
  BY <1>0, KeysAreHolders DEF Spent, Holds
<1>2. ASSUME NEW j \in Partitions
      PROVE  j \in S <=> \/ j = k /\ Stamped(in_flight[j])
                         \/ j \in active /\ sealed[j] # <<>> /\ Stamped(sealed[j][1])
  <2>1. j \in Spent(k, in_flight[k]) <=> j = k /\ Stamped(in_flight[j])
    BY DEF Spent
  <2>2. j \in UnsentStamped <=> j \in active /\ sealed[j] # <<>> /\ Stamped(sealed[j][1])
    BY <1>0
  <2> QED BY <2>1, <2>2, Zenon
<1> HIDE DEF S
<1>3. in_flight' \in [Partitions -> Batch]
  BY NoBatchType DEF Landed, Queues
<1>4. ASSUME NEW j \in Partitions
      PROVE  /\ open'[j] \in Batch /\ sealed'[j] \in Seq(Batch)
             /\ Clean(open'[j], sealed'[j], in_flight'[j])
             /\ Holds(sealed'[j], in_flight'[j]) <=>
                   Holds(sealed[j], in_flight[j]) /\ j \notin S
  <2> DEFINE g == in_flight'[j]
  <2>0. /\ Clean(open[j], sealed[j], in_flight[j]) /\ open[j] \in Batch
        /\ sealed[j] \in Seq(Batch)
    BY DEF Queues, Clean
  <2>1. g = IF j = k THEN NoBatch ELSE in_flight[j]
    BY DEF Landed, Queues
  <2> HIDE DEF g
  <2>2. Clean(open[j], sealed[j], g)
    BY <2>0, <2>1, CleanLand
  <2>3. /\ Stamped(in_flight[j]) => ~(sealed[j] # <<>> /\ Stamped(sealed[j][1]))
        /\ Stamped(g) <=> j # k /\ Stamped(in_flight[j])
    BY <2>0, <2>1, CleanLand, NoBatchType
  <2>4. CASE j \in active
    <3>1. open'[j] = NoBatch /\ sealed'[j] = <<>>
      BY <2>4 DEF Emptied
    <3>2. Clean(NoBatch, <<>>, g) /\ (Holds(<<>>, g) <=> Stamped(g))
      BY <2>2, CleanDrop
    <3>3. Stamped(g) <=> Holds(sealed[j], in_flight[j]) /\ j \notin S
      BY <1>2, <2>3, <2>4, Zenon DEF Holds
    <3>4. <<>> \in Seq(Batch)
      OBVIOUS
    <3> QED BY <3>1, <3>2, <3>3, <3>4, NoBatchType DEF g
  <2>5. CASE j \notin active
    <3>1. open'[j] = open[j] /\ sealed'[j] = sealed[j]
      BY <2>5 DEF Emptied
    <3>2. Holds(sealed[j], g) <=> Holds(sealed[j], in_flight[j]) /\ j \notin S
      BY <1>2, <2>3, <2>5, Zenon DEF Holds
    <3> QED BY <2>0, <2>2, <3>1, <3>2 DEF g
  <2> QED BY <2>4, <2>5
<1>5. open' \in [Partitions -> Batch] /\ sealed' \in [Partitions -> Seq(Batch)]
  BY <1>4 DEF Emptied
<1>6. Queues' /\ StampedKeys' = StampedKeys \ S
  BY <1>1, <1>3, <1>4, <1>5, QueuesStep
<1> QED BY <1>1, <1>6 DEF S

(* The batch with its outcome noted. *)
LEMMA NotedType ==
    ASSUME Queues, NEW k \in Partitions, NEW o \in BatchOutcome
    PROVE  /\ Noted(k, o) \in Batch /\ Noted(k, o).stamp = in_flight[k].stamp
           /\ Noted(k, o).recs = in_flight[k].recs
<1> DEFINE m == \/ in_flight[k].maybe
                \/ o.kind = "NoAnswer"
                \/ o.kind = "Answer" /\ o.code # "None"
                                     /\ ~is_definitive_non_append(o.code)
<1>1. in_flight[k] \in Batch
  BY DEF Queues
<1>2. m \in BOOLEAN
  OBVIOUS
<1>3. Noted(k, o) = [in_flight[k] EXCEPT !.maybe = m]
  BY DEF Noted
<1> HIDE DEF m
<1> QED BY <1>1, <1>2, <1>3 DEF Batch

(* The middle of a batch. *)
LEMMA HalfOf == \A n \in Nat : n \div 2 \in Nat /\ n \div 2 <= n
OBVIOUS

(* One result looked at. *)
LEMMA ResolveCore ==
    ASSUME IInv, NEW k \in resolving, NEW o \in BatchOutcome, NEW late \in BOOLEAN,
           resolve(k, o, late)
    PROVE  Core'
<1>0. /\ Queues /\ UnresolvedExact /\ active \subseteq Partitions
      /\ k \in Partitions /\ Some(in_flight[k]) /\ in_flight[k] \in Batch
  <2>1. Queues /\ UnresolvedExact /\ resolving \subseteq Partitions
    BY QueuesOfIInv DEF IInv, TypeOK
  <2>2. active \subseteq Partitions
    BY DEF IInv, TypeOK
  <2> QED BY <2>1, <2>2 DEF IInv, SlotsMatchRequests, Queues
<1>1. ASSUME NEW answer, FailLanded(k, answer), open' = open, sealed' = sealed
      PROVE  Core'
  <2>1. /\ in_flight' = Landed(k)
        /\ stamped_unresolved' = stamped_unresolved - Cardinality(Spent(k, in_flight[k]))
    BY <1>1 DEF FailLanded, SpendStamps
  <2>2. /\ Queues' /\ StampedKeys' = StampedKeys \ Spent(k, in_flight[k])
        /\ Spent(k, in_flight[k]) \in SUBSET StampedKeys
    BY <1>0, <1>1, <2>1, QueuesLanded
  <2> QED BY <1>0, <2>1, <2>2, CountSpent DEF Core
<1>2. CASE acknowledge(k, o)
  <2>1. /\ in_flight' = Landed(k) /\ open' = open /\ sealed' = sealed
        /\ stamped_unresolved' = stamped_unresolved - Cardinality(Spent(k, in_flight[k]))
    BY <1>2 DEF acknowledge, Unstamped
  <2>2. /\ Queues' /\ StampedKeys' = StampedKeys \ Spent(k, in_flight[k])
        /\ Spent(k, in_flight[k]) \in SUBSET StampedKeys
    BY <1>0, <2>1, QueuesLanded
  <2> QED BY <1>0, <2>1, <2>2, CountSpent DEF Core
<1>3. CASE retry_or_fail(k, o, late)
  <2>1. CASE Over(k, late)
    BY <1>1, <1>3, <2>1 DEF retry_or_fail
  <2>2. CASE ~Over(k, late)
    <3> DEFINE b == Noted(k, o)
    <3>1. /\ sealed' = Pushed(k, <<b>>) /\ in_flight' = Landed(k) /\ open' = open
          /\ stamped_unresolved' = stamped_unresolved
      BY <1>3, <2>2 DEF retry_or_fail, stampVars
    <3>2. b \in Batch /\ (Stamped(b) <=> Stamped(in_flight[k]))
      BY <1>0, NotedType DEF Stamped
    <3> HIDE DEF b
    <3>3. /\ Queues'
          /\ Stamped(b) => StampedKeys' = StampedKeys
          /\ ~Stamped(b) => StampedKeys' = StampedKeys \ Spent(k, in_flight[k])
      BY <1>0, <3>1, <3>2, QueuesPushed
    <3>4. StampedKeys' = StampedKeys
      BY <3>2, <3>3 DEF Spent
    <3> QED BY <1>0, <3>1, <3>3, <3>4, CountKept DEF Core
  <2> QED BY <2>1, <2>2
<1>4. CASE restamp(k, o, late)
  <2>1. CASE Over(k, late)
    BY <1>1, <1>4, <2>1 DEF restamp
  <2>2. CASE ~Over(k, late)
    <3> DEFINE b == [Noted(k, o) EXCEPT !.stamp = NoStamp]
    <3>1. /\ sealed' = Pushed(k, <<b>>) /\ in_flight' = Landed(k) /\ open' = open
          /\ stamped_unresolved' =
                stamped_unresolved - Cardinality(Spent(k, in_flight[k]))
      BY <1>4, <2>2 DEF restamp, Unstamped
    <3>2. b \in Batch /\ ~Stamped(b)
      <4>1. Noted(k, o) \in Batch
        BY <1>0, NotedType
      <4> QED BY <4>1 DEF Batch, Stamped, Stamps
    <3> HIDE DEF b
    <3>3. /\ Queues' /\ StampedKeys' = StampedKeys \ Spent(k, in_flight[k])
          /\ Spent(k, in_flight[k]) \in SUBSET StampedKeys
      BY <1>0, <3>1, <3>2, QueuesPushed
    <3> QED BY <1>0, <3>1, <3>3, CountSpent DEF Core
  <2> QED BY <2>1, <2>2
<1>5. CASE split(k, o, late)
  <2>1. CASE Over(k, late) \/ in_flight[k].depth >= MAX_SPLIT_DEPTH
    BY <1>1, <1>5, <2>1 DEF split
  <2>2. CASE ~(Over(k, late) \/ in_flight[k].depth >= MAX_SPLIT_DEPTH)
    <3> DEFINE recs == in_flight[k].recs
               mid == Len(recs) \div 2
               b == Half(in_flight[k], SubSeq(recs, 1, mid))
               c == Half(in_flight[k], SubSeq(recs, mid + 1, Len(recs)))
    <3>1. /\ sealed' = Pushed(k, <<b, c>>) /\ in_flight' = Landed(k) /\ open' = open
          /\ stamped_unresolved' =
                stamped_unresolved - Cardinality(Spent(k, in_flight[k]))
      BY <1>5, <2>2 DEF split, Unstamped
    <3>2. /\ SubSeq(recs, 1, mid) \in Seq(Records)
          /\ SubSeq(recs, mid + 1, Len(recs)) \in Seq(Records)
      <4>1. recs \in Seq(Records) /\ Len(recs) \in Nat
        BY <1>0 DEF Batch
      <4>2. mid \in Nat /\ mid <= Len(recs)
        BY <4>1, HalfOf
      <4>3. /\ \A i \in 1..mid : recs[i] \in Records
            /\ \A i \in (mid + 1)..Len(recs) : recs[i] \in Records
        <5>1. \A i \in 1..Len(recs) : recs[i] \in Records
          BY <4>1, ElementOfSeq
        <5> HIDE DEF mid
        <5> QED BY <4>1, <4>2, <5>1
      <4> HIDE DEF mid
      <4> QED BY <4>1, <4>2, <4>3, SubSeqProperties
    <3> HIDE DEF mid
    <3>3. \A q \in Seq(Records) :
            Half(in_flight[k], q) \in Batch /\ ~Stamped(Half(in_flight[k], q))
      <4>1. in_flight[k].depth + 1 \in 0..MAX_SPLIT_DEPTH
        BY <1>0, <2>2, EngineAssumption DEF Batch
      <4> QED BY <1>0, <4>1 DEF Half, Batch, Stamped, Stamps
    <3>4. b \in Batch /\ ~Stamped(b) /\ c \in Batch /\ ~Stamped(c)
      BY <3>2, <3>3
    <3> HIDE DEF b, c
    <3>5. /\ Queues' /\ StampedKeys' = StampedKeys \ Spent(k, in_flight[k])
          /\ Spent(k, in_flight[k]) \in SUBSET StampedKeys
      BY <1>0, <3>1, <3>4, QueuesHalves
    <3> QED BY <1>0, <3>1, <3>5, CountSpent DEF Core
  <2> QED BY <2>1, <2>2
<1>6. CASE fail(k, o)
  BY <1>1, <1>6 DEF fail
<1>7. CASE fatal(k, o)
  <2> DEFINE S == Spent(k, in_flight[k]) \cup UnsentStamped
  <2>1. /\ sealed' = Emptied(sealed, <<>>) /\ open' = Emptied(open, NoBatch)
        /\ in_flight' = Landed(k)
        /\ stamped_unresolved' = stamped_unresolved - Cardinality(S)
    BY <1>7 DEF fatal, SpendStamps
  <2>2. Queues' /\ StampedKeys' = StampedKeys \ S /\ S \in SUBSET StampedKeys
    BY <1>0, <2>1, QueuesFatal
  <2> HIDE DEF S
  <2> QED BY <1>0, <2>1, <2>2, CountSpent DEF Core
<1> QED BY <1>2, <1>3, <1>4, <1>5, <1>6, <1>7 DEF resolve

(* Steps that neither touch a queue nor stamp or resolve a batch. *)
LEMMA QuietCore ==
    ASSUME IInv, open' = open, sealed' = sealed, in_flight' = in_flight,
           stamped_unresolved' = stamped_unresolved
    PROVE  Core'
<1>1. Queues /\ UnresolvedExact
  BY QueuesOfIInv DEF IInv
<1> QED BY <1>1, QueuesKept, CountKept DEF Core

(* Steps that give up everything unsent. *)
LEMMA DropCore ==
    ASSUME IInv, SpendStamps(UnsentStamped),
           sealed' = Emptied(sealed, <<>>), open' = Emptied(open, NoBatch),
           in_flight' = in_flight \/ in_flight' = Released
    PROVE  Core'
<1>1. Queues /\ UnresolvedExact /\ active \subseteq Partitions
  BY QueuesOfIInv DEF IInv, TypeOK
<1>2. ASSUME NEW k \in Partitions
      PROVE  /\ in_flight'[k] \in Batch
             /\ in_flight'[k].recs = in_flight[k].recs
             /\ in_flight'[k].stamp = in_flight[k].stamp
  <2>1. in_flight[k] \in Batch
    BY <1>1 DEF Queues
  <2>2. \/ in_flight'[k] = in_flight[k]
        \/ in_flight'[k] = [in_flight[k] EXCEPT !.waiting = FALSE]
    BY DEF Released
  <2> QED BY <2>1, <2>2 DEF Batch
<1>3. in_flight' \in [Partitions -> Batch]
  BY <1>1, <1>2 DEF Released, Queues
<1>4. /\ Queues' /\ StampedKeys' = StampedKeys \ UnsentStamped
      /\ UnsentStamped \in SUBSET StampedKeys
  BY <1>1, <1>2, <1>3, QueuesDropped
<1> QED BY <1>1, <1>4, CountSpent DEF Core, SpendStamps

(* Every step of the engine keeps the queues clean and the count exact. *)
LEMMA NextCore ==
    ASSUME IInv, [Next]_vars
    PROVE  Core'
<1>0. Queues /\ UnresolvedExact
  BY QueuesOfIInv DEF IInv
<1>1. CASE Command
  <2>1. CASE \E k \in Partitions, g \in 0..MaxFlushes, fits, full \in BOOLEAN :
                append(k, g, fits, full)
    BY <2>1, AppendCore
  <2>2. CASE append_refused
    BY <2>2, QuietCore DEF append_refused, stampVars
  <2>3. CASE \/ \E g \in 0..(MaxFlushes - 1) : flush(g)
             \/ close_channel
    <3>1. SealAll /\ in_flight' = in_flight /\ stamped_unresolved' = stamped_unresolved
      BY <2>3 DEF flush, close_channel, stampVars
    <3> QED BY <1>0, <3>1, QueuesSealAll, CountKept DEF Core
  <2>4. CASE terminate
    BY <2>4, DropCore DEF terminate
  <2> QED BY <1>1, <2>1, <2>2, <2>3, <2>4 DEF Command
<1>2. CASE TxnCommand
  <2>1. CASE fail_unsent
    BY <2>1, DropCore DEF fail_unsent
  <2>2. CASE \E id \in FromCoordinator, tv \in {"TV1", "TV2"} : set_identity(id, tv)
    BY <2>2, QuietCore DEF set_identity, stampVars
  <2> QED BY <1>2, <2>1, <2>2 DEF TxnCommand
<1>3. CASE Timer
  BY <1>3, ExpireCore DEF Timer
<1>4. CASE Identify
  <2>1. CASE bump_epoch
    BY <2>1, QuietCore DEF bump_epoch
  <2>2. CASE start_reinit
    BY <2>2, QuietCore DEF start_reinit, stampVars
  <2>3. CASE reinitialised
    BY <2>3, QuietCore DEF reinitialised
  <2>4. CASE reinit_failed
    BY <2>4, QuietCore DEF reinit_failed, stampVars
  <2>5. CASE reinit_fatal
    BY <2>5, DropCore DEF reinit_fatal
  <2> QED BY <1>4, <2>1, <2>2, <2>3, <2>4, <2>5 DEF Identify
<1>5. CASE Drain
  BY <1>5, DrainCore DEF Drain
<1>6. CASE Complete
  BY <1>6, QuietCore DEF Complete, complete, stampVars
<1>7. CASE Resolve
  BY <1>7, ResolveCore, EngineAssumption DEF Resolve
<1>8. CASE stop
  BY <1>8, QuietCore DEF stop, stampVars
<1>9. CASE UNCHANGED vars
  BY <1>9, QuietCore DEF vars
<1> QED BY <1>1, <1>2, <1>3, <1>4, <1>5, <1>6, <1>7, <1>8, <1>9 DEF Next

-----------------------------------------------------------------------------
(* The requests under way. *)

Wire == IsFiniteSet(requests) /\ SlotsMatchRequests

(* Steps that start no request and end none. *)
LEMMA WireKept ==
    ASSUME IInv, requests' = requests, brokers' = brokers, resolving' = resolving,
           \A k \in Partitions : Some(in_flight'[k]) <=> Some(in_flight[k])
    PROVE  Wire'
BY DEF IInv, Wire, SlotsMatchRequests

(* A request goes out with batches of partitions that had none in flight. *)
LEMMA DrainWire ==
    ASSUME IInv, NEW b \in Brokers, NEW S \in SUBSET Partitions, drain(b, S)
    PROVE  Wire'
<1> DEFINE r == [broker |-> b, keys |-> S]
           to(c) == {q \in requests : q.broker = c}
<1>1. /\ IsFiniteSet(requests) /\ SlotsMatchRequests /\ resolving = {}
      /\ in_flight \in [Partitions -> Batch] /\ brokers \in [Brokers -> Nat]
  BY DEF IInv, TypeOK, drain, Idle
<1>2. /\ S # {} /\ brokers[b] < MAX_IN_FLIGHT_PER_BROKER
      /\ \A k \in S : ~Some(in_flight[k]) /\ Some(HeadOf(k))
      /\ in_flight' = [k \in Partitions |-> IF k \in S THEN Sent(k) ELSE in_flight[k]]
      /\ requests' = requests \cup {r} /\ resolving' = resolving
      /\ brokers' = [brokers EXCEPT ![b] = @ + 1]
  BY DEF drain, Ready
<1>3. \A k \in Partitions : Some(in_flight'[k]) <=> Some(in_flight[k]) \/ k \in S
  BY <1>2, SentType DEF Some
<1>4. r.keys = S /\ r.broker = b
  OBVIOUS
<1>5. \A q \in requests : q.keys \cap S = {}
  <2>1. \A q \in requests : \A k \in Partitions : k \in q.keys => Some(in_flight[k])
    BY <1>1 DEF SlotsMatchRequests
  <2> QED BY <1>2, <2>1
<1>6. r \notin requests
  BY <1>2, <1>4, <1>5
<1>7. IsFiniteSet(requests')
  BY <1>1, <1>2, FS_AddElement
<1>8. ASSUME NEW c \in Brokers
      PROVE  /\ brokers'[c] = Cardinality({q \in requests' : q.broker = c})
             /\ brokers'[c] <= MAX_IN_FLIGHT_PER_BROKER
  <2>1. brokers[c] = Cardinality(to(c)) /\ brokers[c] <= MAX_IN_FLIGHT_PER_BROKER
    BY <1>1 DEF SlotsMatchRequests
  <2>2. IsFiniteSet(to(c))
    BY <1>1, FS_Subset
  <2>3. CASE c = b
    <3>1. {q \in requests' : q.broker = c} = to(c) \cup {r}
      BY <1>2, <2>3
    <3>2. r \notin to(c)
      BY <1>6
    <3>3. Cardinality(to(c) \cup {r}) = Cardinality(to(c)) + 1
      BY <2>2, <3>2, FS_AddElement
    <3>4. brokers'[c] = brokers[c] + 1
      BY <1>1, <1>2, <2>3
    <3>5. brokers[c] \in Nat /\ brokers[c] < MAX_IN_FLIGHT_PER_BROKER
      BY <1>1, <1>2, <2>3
    <3>6. brokers'[c] <= MAX_IN_FLIGHT_PER_BROKER
      BY <3>4, <3>5, EngineAssumption
    <3> HIDE DEF to
    <3> QED BY <2>1, <3>1, <3>3, <3>4, <3>6
  <2>4. CASE c # b
    <3>1. {q \in requests' : q.broker = c} = to(c)
      BY <1>2, <2>4
    <3>2. brokers'[c] = brokers[c]
      BY <1>1, <1>2, <2>4
    <3> QED BY <2>1, <3>1, <3>2
  <2> QED BY <2>3, <2>4
<1>9. \A k \in Partitions :
        Some(in_flight'[k]) <=> (k \in resolving' \/ \E q \in requests' : k \in q.keys)
  <2> SUFFICES ASSUME NEW k \in Partitions
               PROVE  Some(in_flight'[k]) <=>
                        (k \in resolving' \/ \E q \in requests' : k \in q.keys)
    OBVIOUS
  <2>1. Some(in_flight[k]) <=> (k \in resolving \/ \E q \in requests : k \in q.keys)
    BY <1>1 DEF SlotsMatchRequests
  <2>2. (\E q \in requests' : k \in q.keys) <=>
           (\E q \in requests : k \in q.keys) \/ k \in S
    BY <1>2, <1>4
  <2> HIDE DEF r
  <2> QED BY <1>2, <1>3, <2>1, <2>2
<1>10. /\ \A q \in requests' : q.keys \cap resolving' = {} /\ q.keys # {}
       /\ \A q1, q2 \in requests' : q1 # q2 => q1.keys \cap q2.keys = {}
  BY <1>1, <1>2, <1>4, <1>5 DEF SlotsMatchRequests
<1> QED BY <1>7, <1>8, <1>9, <1>10 DEF Wire, SlotsMatchRequests

(* A request ends: the results of its batches are to be looked at. *)
LEMMA CompleteWire ==
    ASSUME IInv, NEW r \in requests, complete(r)
    PROVE  Wire'
<1> DEFINE to(c) == {q \in requests : q.broker = c}
<1>1. /\ IsFiniteSet(requests) /\ SlotsMatchRequests /\ resolving = {}
      /\ brokers \in [Brokers -> Nat] /\ r.broker \in Brokers
  BY DEF IInv, TypeOK, complete, Idle
<1>2. /\ requests' = requests \ {r} /\ resolving' = r.keys /\ in_flight' = in_flight
      /\ brokers' = [brokers EXCEPT ![r.broker] = @ - 1]
  BY DEF complete
<1>3. IsFiniteSet(requests')
  BY <1>1, <1>2, FS_RemoveElement
<1>4. ASSUME NEW c \in Brokers
      PROVE  /\ brokers'[c] = Cardinality({q \in requests' : q.broker = c})
             /\ brokers'[c] <= MAX_IN_FLIGHT_PER_BROKER
  <2>1. brokers[c] = Cardinality(to(c)) /\ brokers[c] <= MAX_IN_FLIGHT_PER_BROKER
    BY <1>1 DEF SlotsMatchRequests
  <2>2. IsFiniteSet(to(c))
    BY <1>1, FS_Subset
  <2>3. CASE c = r.broker
    <3>1. {q \in requests' : q.broker = c} = to(c) \ {r}
      BY <1>2
    <3>2. r \in to(c)
      BY <2>3
    <3>3. Cardinality(to(c) \ {r}) = Cardinality(to(c)) - 1
      BY <2>2, <3>2, FS_RemoveElement
    <3>4. brokers'[c] = brokers[c] - 1
      BY <1>1, <1>2, <2>3
    <3>5. brokers'[c] <= MAX_IN_FLIGHT_PER_BROKER
      BY <1>1, <2>1, <3>4, EngineAssumption
    <3> HIDE DEF to
    <3> QED BY <2>1, <3>1, <3>3, <3>4, <3>5
  <2>4. CASE c # r.broker
    <3>1. {q \in requests' : q.broker = c} = to(c)
      BY <1>2, <2>4
    <3>2. brokers'[c] = brokers[c]
      BY <1>1, <1>2, <2>4
    <3> QED BY <2>1, <3>1, <3>2
  <2> QED BY <2>3, <2>4
<1>5. \A k \in Partitions :
        Some(in_flight'[k]) <=> (k \in resolving' \/ \E q \in requests' : k \in q.keys)
  BY <1>1, <1>2 DEF SlotsMatchRequests
<1>6. /\ \A q \in requests' : q.keys \cap resolving' = {} /\ q.keys # {}
      /\ \A q1, q2 \in requests' : q1 # q2 => q1.keys \cap q2.keys = {}
  BY <1>1, <1>2 DEF SlotsMatchRequests
<1> QED BY <1>3, <1>4, <1>5, <1>6 DEF Wire, SlotsMatchRequests

(* A result looked at frees the partition. *)
LEMMA ResolveWire ==
    ASSUME IInv, NEW k \in resolving, NEW o, NEW late, resolve(k, o, late)
    PROVE  Wire'
<1>1. /\ IsFiniteSet(requests) /\ SlotsMatchRequests
      /\ in_flight \in [Partitions -> Batch] /\ k \in Partitions
  BY DEF IInv, TypeOK
<1>2. /\ requests' = requests /\ brokers' = brokers /\ resolving' = resolving \ {k}
      /\ in_flight' = Landed(k)
  BY DEF resolve, Looked, wireVars, acknowledge, retry_or_fail, restamp, split,
         fail, fatal, FailLanded
<1>3. \A j \in Partitions : Some(in_flight'[j]) <=> Some(in_flight[j]) /\ j # k
  <2> SUFFICES ASSUME NEW j \in Partitions
               PROVE  Some(in_flight'[j]) <=> Some(in_flight[j]) /\ j # k
    OBVIOUS
  <2>1. in_flight'[j] = IF j = k THEN NoBatch ELSE in_flight[j]
    BY <1>1, <1>2 DEF Landed
  <2> QED BY <2>1, NoBatchType
<1>4. \A r \in requests : k \notin r.keys
  BY <1>1 DEF SlotsMatchRequests
<1>5. \A j \in Partitions :
        Some(in_flight'[j]) <=> (j \in resolving' \/ \E q \in requests' : j \in q.keys)
  BY <1>1, <1>2, <1>3, <1>4 DEF SlotsMatchRequests
<1> QED BY <1>1, <1>2, <1>5 DEF Wire, SlotsMatchRequests

(* Every step keeps slots, requests and broker counts in agreement. *)
LEMMA NextWire ==
    ASSUME IInv, [Next]_vars
    PROVE  Wire'
<1>0. in_flight \in [Partitions -> Batch]
  BY DEF IInv, TypeOK
<1>1. ASSUME requests' = requests, brokers' = brokers, resolving' = resolving,
             in_flight' = in_flight
      PROVE  Wire'
  BY <1>1, WireKept
<1>2. CASE Command
  <2>1. ASSUME NEW k \in Partitions, NEW g \in 0..MaxFlushes, NEW fits \in BOOLEAN,
               NEW full \in BOOLEAN, append(k, g, fits, full)
        PROVE  Wire'
    BY <1>1, <2>1 DEF append, wireVars
  <2>3. CASE append_refused \/ close_channel
    BY <1>1, <2>3 DEF append_refused, close_channel, wireVars
  <2>4. ASSUME NEW g \in 0..(MaxFlushes - 1), flush(g)
        PROVE  Wire'
    BY <1>1, <2>4 DEF flush, wireVars
  <2>2. CASE terminate
    <3>1. \A k \in Partitions : Some(in_flight'[k]) <=> Some(in_flight[k])
      <4> SUFFICES ASSUME NEW k \in Partitions
                   PROVE  Some(in_flight'[k]) <=> Some(in_flight[k])
        OBVIOUS
      <4>1. in_flight'[k] = IF k \in active THEN [in_flight[k] EXCEPT !.waiting = FALSE]
                            ELSE in_flight[k]
        BY <2>2 DEF terminate, Released
      <4>2. in_flight[k] \in Batch
        BY <1>0
      <4> QED BY <4>1, <4>2 DEF Some, Batch
    <3> QED BY <2>2, <3>1, WireKept DEF terminate, wireVars
  <2> QED BY <1>2, <2>1, <2>2, <2>3, <2>4 DEF Command
<1>3. CASE TxnCommand
  BY <1>1, <1>3 DEF TxnCommand, fail_unsent, set_identity, wireVars
<1>4. CASE Timer
  <2>1. PICK k \in Partitions, all \in BOOLEAN :
               \E n \in 0..Len(sealed[k]) : expire(k, n, all)
    BY <1>4 DEF Timer
  <2>2. /\ in_flight' = [in_flight EXCEPT ![k].waiting = FALSE]
        /\ requests' = requests /\ brokers' = brokers /\ resolving' = resolving
    BY <2>1 DEF expire, wireVars
  <2>3. \A j \in Partitions : Some(in_flight'[j]) <=> Some(in_flight[j])
    BY <1>0, <2>2 DEF Some, Batch
  <2> QED BY <2>2, <2>3, WireKept
<1>5. CASE Identify
  BY <1>1, <1>5 DEF Identify, bump_epoch, start_reinit, reinitialised,
                    reinit_failed, reinit_fatal, wireVars
<1>6. CASE Drain
  BY <1>6, DrainWire DEF Drain
<1>7. CASE Complete
  BY <1>7, CompleteWire DEF Complete
<1>8. CASE Resolve
  BY <1>8, ResolveWire DEF Resolve
<1>9. CASE stop
  BY <1>1, <1>9 DEF stop, wireVars
<1>10. CASE UNCHANGED vars
  BY <1>1, <1>10 DEF vars
<1> QED BY <1>2, <1>3, <1>4, <1>5, <1>6, <1>7, <1>8, <1>9, <1>10 DEF Next

-----------------------------------------------------------------------------
(* The types of the other variables, group by group. *)

IdentityType ==
    /\ mode \in Modes
    /\ identity \in {"Plain", "Uninit", "Init", "Ready", "Fatal"}
    /\ ident \in Identity /\ generation \in Nat
    /\ bump_requested \in BOOLEAN /\ epoch_retry_used \in BOOLEAN
    /\ reinit \in BOOLEAN
    /\ ident.generation > 0

LoopType ==
    /\ sealed_through \in -1..MaxFlushes
    /\ channel_closed \in BOOLEAN /\ stopped \in BOOLEAN

(* The next epoch is an identity. *)
LEMMA BumpedType ==
    ASSUME NEW id \in Identity, NEW g \in Nat
    PROVE  bumped(id, g) \in Identity /\ bumped(id, g).generation = g
BY DEF bumped, Identity

(* The identity after any step, and what a step may do to it. *)
LEMMA NextIdentity ==
    ASSUME IInv, [Next]_vars
    PROVE  IdentityType'
<1>0. IdentityType
  BY DEF IInv, TypeOK, IdentityType
<1>1. ASSUME NEW S, SpendStamps(S)
      PROVE  bump_requested' \in BOOLEAN
  BY <1>1 DEF SpendStamps
<1>2. CASE Command
  <2>1. CASE terminate
    BY <1>0, <1>1, <2>1 DEF terminate, IdentityType
  <2>2. ASSUME NEW k \in Partitions, NEW g \in 0..MaxFlushes, NEW fits \in BOOLEAN,
               NEW full \in BOOLEAN, append(k, g, fits, full)
        PROVE  IdentityType'
    BY <1>0, <2>2 DEF append, identityVars, stampVars, IdentityType
  <2>3. CASE append_refused \/ close_channel
    BY <1>0, <2>3 DEF append_refused, close_channel, identityVars, stampVars, IdentityType
  <2>4. ASSUME NEW g \in 0..(MaxFlushes - 1), flush(g)
        PROVE  IdentityType'
    BY <1>0, <2>4 DEF flush, identityVars, stampVars, IdentityType
  <2> QED BY <1>2, <2>1, <2>2, <2>3, <2>4 DEF Command
<1>3. CASE TxnCommand
  <2>1. CASE fail_unsent
    BY <1>0, <1>1, <2>1 DEF fail_unsent, identityVars, IdentityType
  <2>2. ASSUME NEW id \in FromCoordinator, NEW tv \in {"TV1", "TV2"},
               set_identity(id, tv)
        PROVE  IdentityType'
    <3>1. id \in Identity
      <4>1. bumped(ident, 0) \in Identity /\ ident \in Identity
        BY <1>0, BumpedType DEF IdentityType
      <4> QED BY <2>2, <4>1 DEF FromCoordinator
    <3>2. tv \in Modes
      BY DEF Modes
    <3>3. [id EXCEPT !.generation = generation + 1] \in Identity
      BY <1>0, <3>1 DEF Identity, IdentityType
    <3>4. [id EXCEPT !.generation = generation + 1].generation > 0
      BY <1>0, <3>1 DEF Identity, IdentityType
    <3>5. /\ mode' = tv /\ bump_requested' = bump_requested /\ reinit' = reinit
          /\ epoch_retry_used' = epoch_retry_used
          /\ \/ generation' = generation /\ ident' = ident /\ identity' = identity
             \/ /\ generation' = generation + 1 /\ identity' = "Ready"
                /\ ident' = [id EXCEPT !.generation = generation + 1]
      BY <2>2 DEF set_identity, stampVars
    <3>6. CASE generation' = generation /\ ident' = ident /\ identity' = identity
      BY <1>0, <3>2, <3>5, <3>6 DEF IdentityType
    <3>7. CASE /\ generation' = generation + 1 /\ identity' = "Ready"
               /\ ident' = [id EXCEPT !.generation = generation + 1]
      <4>1. ident' \in Identity /\ ident'.generation > 0
        BY <3>3, <3>4, <3>7
      <4> QED BY <1>0, <3>2, <3>5, <3>7, <4>1 DEF IdentityType
    <3> QED BY <3>5, <3>6, <3>7
  <2> QED BY <1>3, <2>1, <2>2 DEF TxnCommand
<1>4. CASE Timer
  BY <1>0, <1>1, <1>4 DEF Timer, expire, identityVars, IdentityType
<1>5. CASE Identify
  <2>1. CASE bump_epoch
    <3>1. generation + 1 \in Nat /\ generation + 1 > 0 /\ ident \in Identity
      BY <1>0 DEF IdentityType
    <3>2. /\ bumped(ident, generation + 1) \in Identity
          /\ bumped(ident, generation + 1).generation > 0
      BY <3>1, BumpedType
    <3>3. /\ mode' = mode /\ identity' = identity /\ reinit' = reinit
          /\ epoch_retry_used' = epoch_retry_used /\ bump_requested' = FALSE
          /\ generation' = generation + 1 /\ ident' = bumped(ident, generation + 1)
      BY <2>1 DEF bump_epoch
    <3> QED BY <1>0, <3>1, <3>2, <3>3 DEF IdentityType
  <2>2. CASE start_reinit
    BY <1>0, <2>2 DEF start_reinit, stampVars, IdentityType
  <2>3. CASE reinitialised
    <3> DEFINE id == [producer_id |-> ident.producer_id + 1, epoch |-> 0,
                      generation |-> generation + 1]
    <3>1. generation + 1 \in Nat /\ generation + 1 > 0 /\ ident \in Identity
      BY <1>0 DEF IdentityType
    <3>2. id \in Identity /\ id.generation > 0
      BY <3>1 DEF Identity
    <3>3. /\ mode' = mode /\ identity' = "Ready" /\ reinit' = FALSE
          /\ epoch_retry_used' = epoch_retry_used /\ bump_requested' = FALSE
          /\ generation' = generation + 1 /\ ident' = id
      BY <2>3 DEF reinitialised
    <3> HIDE DEF id
    <3> QED BY <1>0, <3>1, <3>2, <3>3 DEF IdentityType
  <2>4. CASE reinit_failed
    BY <1>0, <2>4 DEF reinit_failed, stampVars, IdentityType
  <2>5. CASE reinit_fatal
    BY <1>0, <1>1, <2>5 DEF reinit_fatal, IdentityType
  <2> QED BY <1>5, <2>1, <2>2, <2>3, <2>4, <2>5 DEF Identify
<1>6. CASE Drain
  BY <1>0, <1>6 DEF Drain, drain, identityVars, IdentityType
<1>7. CASE Complete
  BY <1>0, <1>7 DEF Complete, complete, identityVars, stampVars, IdentityType
<1>8. ASSUME NEW k \in resolving, NEW o \in Outcomes, NEW late \in BOOLEAN,
             resolve(k, o, late)
      PROVE  IdentityType'
  <2>1. CASE acknowledge(k, o)
    BY <1>0, <2>1 DEF acknowledge, identityVars, IdentityType
  <2>2. CASE retry_or_fail(k, o, late)
    BY <1>0, <1>1, <2>2 DEF retry_or_fail, FailLanded, identityVars, stampVars, IdentityType
  <2>3. CASE restamp(k, o, late)
    BY <1>0, <1>1, <2>3 DEF restamp, FailLanded, IdentityType
  <2>4. CASE split(k, o, late)
    BY <1>0, <1>1, <2>4 DEF split, FailLanded, identityVars, IdentityType
  <2>5. CASE fail(k, o)
    BY <1>0, <1>1, <2>5 DEF fail, FailLanded, identityVars, IdentityType
  <2>6. CASE fatal(k, o)
    BY <1>0, <1>1, <2>6 DEF fatal, IdentityType
  <2> QED BY <1>8, <2>1, <2>2, <2>3, <2>4, <2>5, <2>6 DEF resolve
<1>9. CASE Resolve
  BY <1>8, <1>9 DEF Resolve
<1>10. CASE stop
  BY <1>0, <1>10 DEF stop, identityVars, stampVars, IdentityType
<1>11. CASE UNCHANGED vars
  BY <1>0, <1>11 DEF vars, IdentityType
<1> QED BY <1>2, <1>3, <1>4, <1>5, <1>6, <1>7, <1>9, <1>10, <1>11 DEF Next

(* The loop's own flags. *)
LEMMA NextLoop ==
    ASSUME IInv, [Next]_vars
    PROVE  LoopType'
<1>0. LoopType /\ MaxFlushes \in Nat
  BY EngineAssumption DEF IInv, TypeOK, LoopType
<1>1. CASE Command
  <2>1. CASE \E g \in 0..(MaxFlushes - 1) : flush(g)
    BY <1>0, <2>1 DEF flush, LoopType
  <2>2. CASE close_channel
    BY <1>0, <2>2 DEF close_channel, LoopType
  <2>3. CASE append_refused \/ terminate
    BY <1>0, <2>3 DEF append_refused, terminate, loopVars, LoopType
  <2>4. ASSUME NEW k \in Partitions, NEW g \in 0..MaxFlushes, NEW fits \in BOOLEAN,
               NEW full \in BOOLEAN, append(k, g, fits, full)
        PROVE  LoopType'
    BY <1>0, <2>4 DEF append, loopVars, LoopType
  <2> QED BY <1>1, <2>1, <2>2, <2>3, <2>4 DEF Command
<1>2. CASE TxnCommand \/ Timer
  <2>1. UNCHANGED loopVars
    BY <1>2 DEF TxnCommand, Timer, fail_unsent, set_identity, expire
  <2> QED BY <1>0, <2>1 DEF loopVars, LoopType
<1>3. CASE Identify
  BY <1>0, <1>3 DEF Identify, bump_epoch, start_reinit, reinitialised,
                    reinit_failed, reinit_fatal, loopVars, LoopType
<1>4. CASE Drain \/ Complete \/ Resolve
  BY <1>0, <1>4 DEF Drain, Complete, Resolve, drain, complete, resolve, loopVars, LoopType
<1>5. CASE stop \/ UNCHANGED vars
  BY <1>0, <1>5 DEF stop, vars, LoopType
<1> QED BY <1>1, <1>2, <1>3, <1>4, <1>5 DEF Next

KeyType ==
    /\ partitions \subseteq Partitions /\ active \subseteq partitions
    /\ seq \in [Partitions -> PartitionSeq]
    /\ last_acked \in [Partitions -> Int]

(* Forgetting idle partitions keeps the keys of those that are active. *)
LEMMA PruneKeys ==
    ASSUME KeyType, prune, last_acked' \in [Partitions -> Int]
    PROVE  KeyType'
<1>1. active' \subseteq active /\ active' \subseteq partitions'
  BY DEF prune, KeyType
<1>2. partitions' \subseteq partitions
  BY DEF prune
<1>3. FreshSeq \in PartitionSeq
  BY DEF FreshSeq, PartitionSeq
<1>4. seq' \in [Partitions -> PartitionSeq]
  BY <1>3 DEF prune, KeyType
<1> QED BY <1>1, <1>2, <1>4 DEF KeyType

(* The keys the engine remembers. *)
LEMMA NextKeys ==
    ASSUME IInv, [Next]_vars
    PROVE  KeyType'
<1>0. KeyType /\ Queues
  BY QueuesOfIInv DEF IInv, TypeOK, KeyType
<1>1. ASSUME prune, last_acked' = last_acked
      PROVE  KeyType'
  BY <1>0, <1>1, PruneKeys DEF KeyType
<1>2. ASSUME UNCHANGED keyVars, last_acked' = last_acked
      PROVE  KeyType'
  BY <1>0, <1>2 DEF KeyType, keyVars
<1>3. CASE Command
  <2>1. ASSUME NEW k \in Partitions, NEW g \in 0..MaxFlushes, NEW fits \in BOOLEAN,
               NEW full \in BOOLEAN, append(k, g, fits, full)
        PROVE  KeyType'
    <3>1. /\ partitions' = partitions \cup {k} /\ active' = active \cup {k}
          /\ seq' = seq /\ last_acked' = last_acked
      BY <2>1 DEF append
    <3> QED BY <1>0, <3>1 DEF KeyType
  <2>2. CASE append_refused \/ close_channel
    BY <1>2, <2>2 DEF append_refused, close_channel
  <2>3. ASSUME NEW g \in 0..(MaxFlushes - 1), flush(g)
        PROVE  KeyType'
    BY <1>2, <2>3 DEF flush
  <2>4. CASE terminate
    BY <1>1, <2>4 DEF terminate
  <2> QED BY <1>3, <2>1, <2>2, <2>3, <2>4 DEF Command
<1>4. CASE TxnCommand
  BY <1>1, <1>2, <1>4 DEF TxnCommand, fail_unsent, set_identity
<1>5. CASE Timer
  BY <1>2, <1>5 DEF Timer, expire
<1>6. CASE Identify
  BY <1>2, <1>6 DEF Identify, bump_epoch, start_reinit, reinitialised,
                    reinit_failed, reinit_fatal
<1>7. ASSUME NEW b \in Brokers, NEW S \in SUBSET Partitions, drain(b, S)
      PROVE  KeyType'
  <2>1. /\ seq' = [k \in Partitions |->
              IF k \in {j \in S : NeedsStamp(j)}
              THEN advanced(seq[k], ident, Len(HeadOf(k).recs)) ELSE seq[k]]
        /\ partitions' = partitions /\ active' = active /\ last_acked' = last_acked
    BY <1>7 DEF drain
  <2>2. ASSUME NEW k \in S
        PROVE  advanced(seq[k], ident, Len(HeadOf(k).recs)) \in PartitionSeq
    <3>1. HeadOf(k) \in Batch
      BY <1>0, <1>7, HeadType DEF drain, Ready
    <3>2. Len(HeadOf(k).recs) \in Nat
      BY <3>1 DEF Batch
    <3> QED BY <1>0, <3>2, StampType DEF IInv, TypeOK, KeyType
  <2> QED BY <1>0, <2>1, <2>2 DEF KeyType
<1>8. CASE Complete
  BY <1>2, <1>8 DEF Complete, complete
<1>9. ASSUME NEW k \in resolving, NEW o \in Outcomes, NEW late \in BOOLEAN,
             resolve(k, o, late)
      PROVE  KeyType'
  <2>1. last_acked' \in [Partitions -> Int]
    <3>1. CASE acknowledge(k, o)
      <4>1. last_acked' = [last_acked EXCEPT ![k] =
                IF o.base >= 0 THEN o.base + Len(in_flight[k].recs) - 1 ELSE @]
        BY <3>1 DEF acknowledge
      <4>2. o.base \in Int
        BY EngineAssumption DEF BatchOutcome
      <4>3. Len(in_flight[k].recs) \in Nat
        BY <1>0 DEF IInv, TypeOK, Queues, Batch
      <4>4. k \in Partitions /\ last_acked \in [Partitions -> Int]
        BY <1>0 DEF IInv, TypeOK, KeyType
      <4>5. (IF o.base >= 0 THEN o.base + Len(in_flight[k].recs) - 1
             ELSE last_acked[k]) \in Int
        BY <4>2, <4>3, <4>4
      <4> QED BY <4>1, <4>4, <4>5
    <3>2. CASE ~acknowledge(k, o)
      <4>1. last_acked' = last_acked
        BY <1>9, <3>2 DEF resolve, retry_or_fail, restamp, split, fail, fatal
      <4> QED BY <1>0, <4>1 DEF KeyType
    <3> QED BY <3>1, <3>2
  <2>2. prune \/ UNCHANGED keyVars
    BY <1>9 DEF resolve, Looked
  <2>3. CASE prune
    BY <1>0, <2>1, <2>3, PruneKeys
  <2>4. CASE UNCHANGED keyVars
    BY <1>0, <2>1, <2>4 DEF KeyType, keyVars
  <2> QED BY <2>2, <2>3, <2>4
<1>10. CASE stop
  BY <1>2, <1>10 DEF stop
<1>11. CASE UNCHANGED vars
  BY <1>2, <1>11 DEF vars, keyVars
<1> QED BY <1>3, <1>4, <1>5, <1>6, <1>7, <1>8, <1>9, <1>10, <1>11
        DEF Next, Drain, Resolve

WireType ==
    /\ requests \subseteq [broker : Brokers, keys : SUBSET Partitions]
    /\ DOMAIN brokers = Brokers /\ brokers = [b \in Brokers |-> brokers[b]]
    /\ resolving \subseteq Partitions

(* The requests under way. *)
LEMMA NextRequests ==
    ASSUME IInv, [Next]_vars
    PROVE  WireType'
<1>0. WireType /\ brokers \in [Brokers -> Nat]
  BY DEF IInv, TypeOK, WireType
<1>1. ASSUME UNCHANGED wireVars, resolving' \subseteq resolving
      PROVE  WireType'
  BY <1>0, <1>1 DEF WireType, wireVars
<1>2. CASE Command
  <2>1. ASSUME NEW k \in Partitions, NEW g \in 0..MaxFlushes, NEW fits \in BOOLEAN,
               NEW full \in BOOLEAN, append(k, g, fits, full)
        PROVE  WireType'
    BY <1>1, <2>1 DEF append
  <2>2. CASE append_refused \/ close_channel \/ terminate
    BY <1>1, <2>2 DEF append_refused, close_channel, terminate
  <2>3. ASSUME NEW g \in 0..(MaxFlushes - 1), flush(g)
        PROVE  WireType'
    BY <1>1, <2>3 DEF flush
  <2> QED BY <1>2, <2>1, <2>2, <2>3 DEF Command
<1>3. CASE TxnCommand
  BY <1>1, <1>3 DEF TxnCommand, fail_unsent, set_identity
<1>4. CASE Timer
  BY <1>1, <1>4 DEF Timer, expire
<1>5. CASE Identify
  BY <1>1, <1>5 DEF Identify, bump_epoch, start_reinit, reinitialised,
                    reinit_failed, reinit_fatal
<1>6. ASSUME NEW b \in Brokers, NEW S \in SUBSET Partitions, drain(b, S)
      PROVE  WireType'
  BY <1>0, <1>6 DEF drain, WireType
<1>7. ASSUME NEW r \in requests, complete(r)
      PROVE  WireType'
  BY <1>0, <1>7 DEF complete, WireType
<1>8. ASSUME NEW k \in resolving, NEW o \in Outcomes, NEW late \in BOOLEAN,
             resolve(k, o, late)
      PROVE  WireType'
  BY <1>1, <1>8 DEF resolve, Looked
<1>9. CASE stop
  BY <1>1, <1>9 DEF stop
<1>10. CASE UNCHANGED vars
  BY <1>1, <1>10 DEF vars, wireVars
<1> QED BY <1>2, <1>3, <1>4, <1>5, <1>6, <1>7, <1>8, <1>9, <1>10
        DEF Next, Drain, Complete, Resolve

RecordType ==
    /\ next_record \in 1..(MaxRecords + 1)
    /\ outcome \in [Records -> Answers]
    /\ issued \subseteq [key : Partitions, stamp : BatchIdentity, recs : Seq(Records)]

(* A step that answers some records. *)
LEMMA AnsweredType ==
    ASSUME outcome \in [Records -> Answers], NEW S, NEW a \in Answers
    PROVE  Answered(S, a) \in [Records -> Answers]
BY DEF Answered

(* What callers are told, and the stamps batches went out with. *)
LEMMA NextRecords ==
    ASSUME IInv, [Next]_vars
    PROVE  RecordType'
<1>0. RecordType /\ MaxRecords \in Nat
  BY EngineAssumption DEF IInv, TypeOK, RecordType
<1>1. ASSUME outcome' \in [Records -> Answers], next_record' = next_record,
             issued' = issued
      PROVE  RecordType'
  BY <1>0, <1>1 DEF RecordType
<1>2. \A S, a : a \in Answers => Answered(S, a) \in [Records -> Answers]
  BY <1>0, AnsweredType DEF RecordType
<1>3. ASSUME NEW a \in Answers, next_record \in Records,
             next_record' = next_record + 1, issued' = issued,
             outcome' = [outcome EXCEPT ![next_record] = a]
      PROVE  RecordType'
  BY <1>0, <1>3 DEF RecordType, Records
<1>4. CASE Command
  <2>1. ASSUME NEW k \in Partitions, NEW g \in 0..MaxFlushes, NEW fits \in BOOLEAN,
               NEW full \in BOOLEAN, append(k, g, fits, full)
        PROVE  RecordType'
    BY <1>3, <2>1 DEF append, Answers
  <2>2. CASE append_refused
    BY <1>3, <2>2 DEF append_refused, Answers
  <2>3. CASE close_channel
    BY <1>0, <1>1, <2>3 DEF close_channel, RecordType
  <2>4. ASSUME NEW g \in 0..(MaxFlushes - 1), flush(g)
        PROVE  RecordType'
    BY <1>0, <1>1, <2>4 DEF flush, RecordType
  <2>5. CASE terminate
    BY <1>1, <1>2, <2>5 DEF terminate, Answers
  <2> QED BY <1>4, <2>1, <2>2, <2>3, <2>4, <2>5 DEF Command
<1>5. CASE TxnCommand
  <2>1. CASE fail_unsent
    BY <1>1, <1>2, <2>1 DEF fail_unsent, Answers
  <2>2. CASE ~fail_unsent
    BY <1>0, <1>1, <1>5, <2>2 DEF TxnCommand, set_identity, RecordType
  <2> QED BY <2>1, <2>2
<1>6. ASSUME NEW k \in Partitions, NEW all \in BOOLEAN,
             NEW n \in 0..Len(sealed[k]), expire(k, n, all)
      PROVE  RecordType'
  <2>1. outcome' \in [Records -> Answers]
    BY <1>0, <1>6 DEF expire, RecordType, Answers
  <2> QED BY <1>1, <1>6, <2>1 DEF expire
<1>7. CASE Identify
  <2>1. CASE reinit_fatal
    BY <1>1, <1>2, <2>1 DEF reinit_fatal, Answers
  <2>2. CASE ~reinit_fatal
    BY <1>0, <1>1, <1>7, <2>2 DEF Identify, bump_epoch, start_reinit, reinitialised,
                                  reinit_failed, RecordType
  <2> QED BY <2>1, <2>2
<1>8. ASSUME NEW b \in Brokers, NEW S \in SUBSET Partitions, drain(b, S)
      PROVE  RecordType'
  <2>1. /\ next_record' = next_record /\ outcome' = outcome
        /\ issued' = issued \cup
             {[key |-> k, stamp |-> Sent(k).stamp, recs |-> Sent(k).recs] :
                 k \in {j \in S : Stamped(Sent(j))}}
    BY <1>8 DEF drain
  <2>2. \A k \in S : Stamped(Sent(k)) =>
          Sent(k).stamp \in BatchIdentity /\ Sent(k).recs \in Seq(Records)
    BY <1>8, SentType DEF drain, Ready, Batch
  <2> QED BY <1>0, <2>1, <2>2 DEF RecordType
<1>9. CASE Complete \/ stop
  BY <1>0, <1>1, <1>9 DEF Complete, complete, stop, RecordType
<1>10. ASSUME NEW k \in resolving, NEW o \in Outcomes, NEW late \in BOOLEAN,
              resolve(k, o, late)
       PROVE  RecordType'
  <2>0. next_record' = next_record /\ issued' = issued /\ o \in BatchOutcome
    BY <1>10, EngineAssumption DEF resolve
  <2>1. ASSUME NEW a \in Answers, Tell(k, a)
        PROVE  RecordType'
    <3>1. outcome' \in [Records -> Answers]
      BY <1>0, <1>2, <2>1 DEF Tell, RecordType
    <3> QED BY <1>1, <2>0, <3>1
  <2>2. ASSUME outcome' = outcome
        PROVE  RecordType'
    BY <1>0, <1>1, <2>0, <2>2 DEF RecordType
  <2>3. \A b : Timeout(b) \in Answers
    BY DEF Timeout, Answers
  <2>4. CASE acknowledge(k, o)
    BY <2>1, <2>4 DEF acknowledge, Answers
  <2>5. CASE retry_or_fail(k, o, late)
    BY <2>1, <2>2, <2>3, <2>5 DEF retry_or_fail, FailLanded
  <2>6. CASE restamp(k, o, late)
    BY <2>1, <2>2, <2>3, <2>6 DEF restamp, FailLanded
  <2>7. CASE split(k, o, late)
    BY <2>1, <2>2, <2>7 DEF split, FailLanded, Answers
  <2>8. CASE fail(k, o)
    <3>1. Failure(mode, o.code) \in Answers
      BY DEF Failure, Answers
    <3>2. Verdict(k, o) = "Fail"
      BY <2>8 DEF fail
    <3>3. o.kind \in {"Answer", "Unwritable", "TooLarge"}
      BY <2>0, <3>2 DEF Verdict, BatchOutcome, OutcomeKinds
    <3>4. FailureOf(o) \in Answers
      BY <3>1, <3>3 DEF FailureOf, Answers
    <3> QED BY <2>1, <2>8, <3>4 DEF fail, FailLanded
  <2>9. CASE fatal(k, o)
    BY <1>1, <1>2, <2>0, <2>9 DEF fatal, Answers
  <2> QED BY <1>10, <2>4, <2>5, <2>6, <2>7, <2>8, <2>9 DEF resolve
<1>11. CASE UNCHANGED vars
  BY <1>0, <1>1, <1>11 DEF vars, RecordType
<1> QED BY <1>4, <1>5, <1>6, <1>7, <1>8, <1>9, <1>10, <1>11
        DEF Next, Timer, Drain, Resolve

(* The number of stamped batches is a number. *)
LEMMA CountIsNat ==
    /\ UnresolvedExact => stamped_unresolved \in Nat
    /\ UnresolvedExact' => stamped_unresolved' \in Nat
<1>1. IsFiniteSet(StampedKeys) /\ IsFiniteSet(StampedKeys')
  BY EngineAssumption, FS_Subset DEF StampedKeys
<1> QED BY <1>1, FS_CardinalityType DEF UnresolvedExact

(* Every step keeps every variable's type. *)
LEMMA NextType ==
    ASSUME IInv, [Next]_vars
    PROVE  TypeOK'
<1>1. Queues' /\ UnresolvedExact'
  BY NextCore DEF Core
<1>2. stamped_unresolved' \in Nat
  BY <1>1, CountIsNat
<1>3. brokers' \in [Brokers -> Nat]
  <2>1. IsFiniteSet(requests') /\ SlotsMatchRequests' /\ WireType'
    BY NextWire, NextRequests DEF Wire
  <2>2. \A b \in Brokers : brokers'[b] \in Nat
    <3> SUFFICES ASSUME NEW b \in Brokers PROVE brokers'[b] \in Nat
      OBVIOUS
    <3>1. brokers'[b] = Cardinality({r \in requests' : r.broker = b})
      BY <2>1 DEF SlotsMatchRequests
    <3>2. IsFiniteSet({r \in requests' : r.broker = b})
      BY <2>1, FS_Subset
    <3> QED BY <3>1, <3>2, FS_CardinalityType
  <2> QED BY <2>1, <2>2 DEF WireType
<1>4. /\ open' \in [Partitions -> Batch] /\ sealed' \in [Partitions -> Seq(Batch)]
      /\ in_flight' \in [Partitions -> Batch]
  BY <1>1 DEF Queues
<1>5. IdentityType' /\ LoopType' /\ KeyType' /\ WireType' /\ RecordType'
  BY NextIdentity, NextLoop, NextKeys, NextRequests, NextRecords
<1> QED BY <1>2, <1>3, <1>4, <1>5
        DEF TypeOK, IdentityType, LoopType, KeyType, WireType, RecordType

-----------------------------------------------------------------------------
(* The epoch moves only when nothing stamped is left. *)

(* Resolving batches never raises the count. *)
LEMMA SpendFalls ==
    ASSUME IInv, NEW S \in SUBSET Partitions,
           stamped_unresolved' = stamped_unresolved - Cardinality(S)
    PROVE  stamped_unresolved' <= stamped_unresolved
<1>1. IsFiniteSet(S)
  BY EngineAssumption, FS_Subset
<1> QED BY <1>1, FS_CardinalityType, CountIsNat DEF IInv

(* An idempotent producer stays one, and only `drain` stamps batches. *)
LEMMA IdempotentStep ==
    ASSUME IInv, [Next]_vars, mode' = "Idempotent"
    PROVE  /\ mode = "Idempotent" /\ ~TxnCommand
           /\ Drain \/ stamped_unresolved' <= stamped_unresolved
<1>0. /\ stamped_unresolved \in Nat /\ active \subseteq Partitions
      /\ UnsentStamped \in SUBSET Partitions
  BY CountIsNat DEF IInv, TypeOK, UnsentStamped
<1>1. ~TxnCommand
  <2>1. ASSUME NEW id \in FromCoordinator, NEW tv \in {"TV1", "TV2"}
        PROVE  ~set_identity(id, tv)
    BY <2>1 DEF set_identity
  <2>2. ~fail_unsent
    BY DEF fail_unsent, identityVars, Transactional
  <2> QED BY <2>1, <2>2 DEF TxnCommand
<1>2. ASSUME NEW k \in resolving, NEW o \in Outcomes, NEW late \in BOOLEAN,
             resolve(k, o, late)
      PROVE  mode' = mode /\ stamped_unresolved' <= stamped_unresolved
  <2>0. /\ Spent(k, in_flight[k]) \in SUBSET Partitions
        /\ Spent(k, in_flight[k]) \cup UnsentStamped \in SUBSET Partitions
    BY <1>0 DEF Spent, IInv, TypeOK
  <2>1. CASE acknowledge(k, o)
    BY <2>0, <2>1, SpendFalls DEF acknowledge, Unstamped, identityVars
  <2>2. CASE retry_or_fail(k, o, late)
    BY <1>0, <2>0, <2>2, SpendFalls
       DEF retry_or_fail, FailLanded, SpendStamps, identityVars, stampVars
  <2>3. CASE restamp(k, o, late)
    BY <2>0, <2>3, SpendFalls DEF restamp, FailLanded, SpendStamps, Unstamped
  <2>4. CASE split(k, o, late)
    BY <2>0, <2>4, SpendFalls
       DEF split, FailLanded, SpendStamps, Unstamped, identityVars
  <2>5. CASE fail(k, o)
    BY <2>0, <2>5, SpendFalls DEF fail, FailLanded, SpendStamps, identityVars
  <2>6. CASE fatal(k, o)
    BY <2>0, <2>6, SpendFalls DEF fatal, SpendStamps
  <2> QED BY <1>2, <2>1, <2>2, <2>3, <2>4, <2>5, <2>6 DEF resolve
<1>3. CASE Command
  <2>1. CASE terminate
    BY <1>0, <1>1, <2>1, SpendFalls DEF terminate, SpendStamps
  <2>2. ASSUME NEW k \in Partitions, NEW g \in 0..MaxFlushes, NEW fits \in BOOLEAN,
               NEW full \in BOOLEAN, append(k, g, fits, full)
        PROVE  mode' = mode /\ stamped_unresolved' = stamped_unresolved
    BY <2>2 DEF append, identityVars, stampVars
  <2>3. CASE append_refused \/ close_channel
    BY <1>0, <1>1, <2>3 DEF append_refused, close_channel, identityVars, stampVars
  <2>4. ASSUME NEW g \in 0..(MaxFlushes - 1), flush(g)
        PROVE  mode' = mode /\ stamped_unresolved' = stamped_unresolved
    BY <2>4 DEF flush, identityVars, stampVars
  <2> QED BY <1>0, <1>1, <1>3, <2>1, <2>2, <2>3, <2>4 DEF Command
<1>4. ASSUME NEW k \in Partitions, NEW all \in BOOLEAN,
             NEW n \in 0..Len(sealed[k]), expire(k, n, all)
      PROVE  mode' = mode /\ stamped_unresolved' <= stamped_unresolved
  <2>1. PICK S \in SUBSET Partitions : SpendStamps(S)
    BY <1>4 DEF expire
  <2> QED BY <1>4, <2>1, SpendFalls DEF expire, SpendStamps, identityVars
<1>5. CASE Identify
  <2>1. CASE reinit_fatal
    BY <1>0, <1>1, <2>1, SpendFalls DEF reinit_fatal, SpendStamps
  <2>2. CASE ~reinit_fatal
    BY <1>0, <1>1, <1>5, <2>2 DEF Identify, bump_epoch, start_reinit,
                                  reinitialised, reinit_failed, stampVars
  <2> QED BY <2>1, <2>2
<1>6. CASE Drain
  BY <1>1, <1>6 DEF Drain, drain, identityVars
<1>7. CASE Complete \/ stop
  BY <1>0, <1>1, <1>7 DEF Complete, complete, stop, identityVars, stampVars
<1>8. CASE UNCHANGED vars
  BY <1>0, <1>1, <1>8 DEF vars
<1> QED BY <1>1, <1>2, <1>3, <1>4, <1>5, <1>6, <1>7, <1>8 DEF Next, Timer, Resolve

(* Another producer id is asked for only when nothing stamped is left, and *)
(* nothing is stamped before it is there.                                  *)
LEMMA NextReinit ==
    ASSUME IInv, [Next]_vars
    PROVE  ReinitClear'
<1> SUFFICES ASSUME mode' = "Idempotent"
             PROVE  /\ reinit' => identity' \in {"Init", "Fatal"}
                    /\ identity' = "Init" \/ reinit' => stamped_unresolved' = 0
  BY DEF ReinitClear
<1>0. /\ mode = "Idempotent" /\ ~TxnCommand
      /\ Drain \/ stamped_unresolved' <= stamped_unresolved
  BY IdempotentStep
<1>1. /\ reinit => identity \in {"Init", "Fatal"}
      /\ identity = "Init" \/ reinit => stamped_unresolved = 0
      /\ stamped_unresolved \in Nat /\ stamped_unresolved' \in Nat
  BY <1>0, NextType DEF IInv, ReinitClear, TypeOK
<1>2. ASSUME reinit' = reinit, identity' \in {identity, "Fatal"},
             stamped_unresolved' <= stamped_unresolved
      PROVE  /\ reinit' => identity' \in {"Init", "Fatal"}
             /\ identity' = "Init" \/ reinit' => stamped_unresolved' = 0
  BY <1>1, <1>2
<1>3. CASE Drain
  <2>1. PICK b \in Brokers, S \in SUBSET Partitions : drain(b, S)
    BY <1>3 DEF Drain
  <2>2. /\ reinit' = reinit /\ identity' = identity
        /\ stamped_unresolved' =
              stamped_unresolved + Cardinality({k \in S : NeedsStamp(k)})
        /\ \A k \in S : NeedsStamp(k) => CanStamp
    BY <2>1 DEF drain, identityVars, Ready
  <2>3. CASE \E k \in S : NeedsStamp(k)
    <3>1. identity # "Init" /\ identity # "Fatal"
      BY <2>2, <2>3 DEF CanStamp
    <3> QED BY <1>1, <2>2, <3>1
  <2>4. CASE ~\E k \in S : NeedsStamp(k)
    <3>1. {k \in S : NeedsStamp(k)} = {}
      BY <2>4
    <3>2. stamped_unresolved' = stamped_unresolved
      BY <1>1, <2>2, <3>1, FS_EmptySet
    <3> QED BY <1>1, <1>2, <2>2, <3>2
  <2> QED BY <2>3, <2>4
<1>4. CASE ~Drain
  <2>0. stamped_unresolved' <= stamped_unresolved
    BY <1>0, <1>4
  <2>1. CASE Command
    <3>1. ASSUME NEW k \in Partitions, NEW g \in 0..MaxFlushes, NEW fits \in BOOLEAN,
                 NEW full \in BOOLEAN, append(k, g, fits, full)
          PROVE  reinit' = reinit /\ identity' = identity
      BY <3>1 DEF append, identityVars
    <3>2. CASE append_refused \/ close_channel \/ terminate
      BY <1>2, <2>0, <3>2 DEF append_refused, close_channel, terminate, identityVars
    <3>3. ASSUME NEW g \in 0..(MaxFlushes - 1), flush(g)
          PROVE  reinit' = reinit /\ identity' = identity
      BY <3>3 DEF flush, identityVars
    <3> QED BY <1>2, <2>0, <2>1, <3>1, <3>2, <3>3 DEF Command
  <2>2. CASE Timer
    BY <1>2, <2>0, <2>2 DEF Timer, expire, identityVars
  <2>3. CASE Identify
    <3>1. CASE bump_epoch
      BY <1>2, <2>0, <3>1 DEF bump_epoch
    <3>2. CASE start_reinit
      BY <1>1, <3>2 DEF start_reinit, stampVars, BumpDue
    <3>3. CASE reinitialised
      BY <3>3 DEF reinitialised
    <3>4. CASE reinit_failed
      BY <1>1, <3>4 DEF reinit_failed, stampVars
    <3>5. CASE reinit_fatal
      BY <3>5 DEF reinit_fatal
    <3> QED BY <2>3, <3>1, <3>2, <3>3, <3>4, <3>5 DEF Identify
  <2>4. CASE Complete \/ stop
    BY <1>2, <2>0, <2>4 DEF Complete, complete, stop, identityVars
  <2>5. ASSUME NEW k \in resolving, NEW o \in Outcomes, NEW late \in BOOLEAN,
               resolve(k, o, late)
        PROVE  reinit' = reinit /\ identity' \in {identity, "Fatal"}
    BY <2>5 DEF resolve, acknowledge, retry_or_fail, restamp, split, fail, fatal,
                identityVars
  <2>6. CASE UNCHANGED vars
    BY <1>2, <2>0, <2>6 DEF vars
  <2> QED BY <1>0, <1>2, <1>4, <2>0, <2>1, <2>2, <2>3, <2>4, <2>5, <2>6
          DEF Next, Resolve
<1> QED BY <1>3, <1>4

(* The stamps in a partition's queue. *)
StampsIn(s, f) ==
    {x \in {f.stamp} \cup (IF s = <<>> THEN {} ELSE {s[1].stamp}) : x # NoStamp}

(* Sealing a batch that has no stamp. *)
LEMMA StampsAppend ==
    ASSUME NEW o, NEW s, NEW f, Clean(o, s, f), NEW b \in Batch, ~Stamped(b)
    PROVE  StampsIn(Append(s, b), f) \subseteq StampsIn(s, f)
<1>1. s \in Seq(Batch) /\ Len(s) \in Nat
  BY DEF Clean
<1>2. /\ Len(Append(s, b)) = Len(s) + 1
      /\ \A i \in 1..Len(s) : Append(s, b)[i] = s[i]
      /\ Append(s, b)[Len(s) + 1] = b
  BY <1>1, AppendProperties
<1>3. CASE s = <<>>
  <2>1. Append(s, b)[1].stamp = NoStamp
    BY <1>2, <1>3 DEF Stamped
  <2> QED BY <2>1 DEF StampsIn
<1>4. CASE s # <<>>
  <2>1. Append(s, b)[1] = s[1]
    BY <1>1, <1>2, <1>4, NonEmpty
  <2> QED BY <1>4, <2>1 DEF StampsIn
<1> QED BY <1>3, <1>4

(* Taking batches off the front. *)
LEMMA StampsSkip ==
    ASSUME NEW o, NEW s, NEW f, Clean(o, s, f), NEW n \in 0..Len(s)
    PROVE  StampsIn(SubSeq(s, n + 1, Len(s)), f) \subseteq StampsIn(s, f)
<1> DEFINE t == SubSeq(s, n + 1, Len(s))
<1>1. s \in Seq(Batch) /\ Len(s) \in Nat
  BY DEF Clean
<1>2. CASE n = 0
  <2>1. SubSeq(s, n + 1, Len(s)) = s
    BY <1>1, <1>2, SubSeqFull
  <2> QED BY <2>1
<1>3. CASE n > 0
  <2>1. \A i \in (n + 1)..Len(s) : s[i] \in Batch
    BY <1>1, ElementOfSeq
  <2>2. /\ t \in Seq(Batch)
        /\ Len(t) = IF n + 1 <= Len(s) THEN Len(s) - (n + 1) + 1 ELSE 0
        /\ \A i \in 1..(Len(s) - (n + 1) + 1) : t[i] = s[(n + 1) + i - 1]
    BY <1>1, <2>1, SubSeqProperties
  <2>3. t # <<>> => t[1].stamp = NoStamp
    <3> SUFFICES ASSUME t # <<>> PROVE t[1].stamp = NoStamp
      OBVIOUS
    <3>1. Len(t) \in Nat \ {0}
      BY <2>2, NonEmpty
    <3>2. n + 1 <= Len(s)
      BY <1>1, <2>2, <3>1
    <3>3. t[1] = s[n + 1]
      BY <1>1, <2>2, <3>2
    <3> QED BY <1>1, <1>3, <3>2, <3>3 DEF Clean, Stamped
  <2> HIDE DEF t
  <2>4. StampsIn(t, f) \subseteq StampsIn(s, f)
    BY <2>3 DEF StampsIn
  <2> QED BY <2>4 DEF t
<1> QED BY <1>1, <1>2, <1>3

(* The batch on the wire goes to the front of the queue. *)
LEMMA StampsPush ==
    ASSUME NEW s \in Seq(Batch), NEW p \in Seq(Batch), p # <<>>
    PROVE  StampsIn(p \o s, NoBatch) \subseteq {p[1].stamp} \ {NoStamp}
<1>1. Len(s) \in Nat /\ Len(p) \in Nat \ {0}
  BY NonEmpty
<1>2. (p \o s)[1] = p[1]
  BY <1>1, ConcatProperties
<1>3. NoBatch.stamp = NoStamp
  BY DEF NoBatch
<1> QED BY <1>2, <1>3 DEF StampsIn

(* A batch leaves the front of the queue for the wire, as g. *)
LEMMA StampsTail ==
    ASSUME NEW o, NEW s, NEW f, Clean(o, s, f), s # <<>>, NEW g
    PROVE  StampsIn(Tail(s), g) \subseteq {g.stamp} \ {NoStamp}
<1>1. s \in Seq(Batch) /\ Len(s) \in Nat
  BY DEF Clean
<1>2. /\ Tail(s) \in Seq(Batch) /\ Len(Tail(s)) = Len(s) - 1
      /\ \A i \in 1..Len(Tail(s)) : Tail(s)[i] = s[i + 1]
  BY <1>1, HeadTailProperties
<1>3. Tail(s) # <<>> => Tail(s)[1].stamp = NoStamp
  <2> SUFFICES ASSUME Tail(s) # <<>> PROVE Tail(s)[1].stamp = NoStamp
    OBVIOUS
  <2>1. 1 \in 1..Len(Tail(s)) /\ Len(Tail(s)) \in Nat \ {0}
    BY <1>2, NonEmpty
  <2>2. Tail(s)[1] = s[2] /\ 2 \in 2..Len(s)
    BY <1>1, <1>2, <2>1
  <2> QED BY <2>2 DEF Clean, Stamped
<1> QED BY <1>3 DEF StampsIn

(* StampsCurrent in these terms, before and after a step. *)
LEMMA CurrentStamps ==
    /\ StampsCurrent <=>
         (mode = "Idempotent" => \A k \in Partitions :
            \A x \in StampsIn(sealed[k], in_flight[k]) : x.generation = ident.generation)
    /\ StampsCurrent' <=>
         (mode' = "Idempotent" => \A k \in Partitions :
            \A x \in StampsIn(sealed'[k], in_flight'[k]) : x.generation = ident'.generation)
BY DEF StampsCurrent, StampsIn, HasSealed, Stamped

(* Flush and close: no stamp appears. *)
LEMMA StampsSealAll ==
    ASSUME Queues, SealAll, in_flight' = in_flight, NEW k \in Partitions
    PROVE  StampsIn(sealed'[k], in_flight'[k]) \subseteq StampsIn(sealed[k], in_flight[k])
<1>1. Clean(open[k], sealed[k], in_flight[k]) /\ open[k] \in Batch /\ ~Stamped(open[k])
  BY DEF Queues, Clean
<1>2. sealed'[k] = Append(sealed[k], open[k]) \/ sealed'[k] = sealed[k]
  BY DEF SealAll
<1> QED BY <1>1, <1>2, StampsAppend

(* Only `drain` adds a stamp to a queue. *)
LEMMA StampsShrink ==
    ASSUME IInv, [Next]_vars, ~Drain, NEW k \in Partitions
    PROVE  StampsIn(sealed'[k], in_flight'[k]) \subseteq StampsIn(sealed[k], in_flight[k])
<1> DEFINE Fewer == StampsIn(sealed'[k], in_flight'[k])
                      \subseteq StampsIn(sealed[k], in_flight[k])
<1> SUFFICES Fewer
  OBVIOUS
<1>0. /\ Queues /\ Clean(open[k], sealed[k], in_flight[k])
      /\ open[k] \in Batch /\ sealed[k] \in Seq(Batch) /\ in_flight[k] \in Batch
      /\ ~Stamped(open[k])
  BY QueuesOfIInv DEF Queues, Clean
<1>1. ASSUME in_flight'[k].stamp = in_flight[k].stamp,
             sealed'[k] = sealed[k] \/ sealed'[k] = <<>>
      PROVE  Fewer
  BY <1>1 DEF StampsIn
<1>2. CASE Command
  <2>1. ASSUME NEW j \in Partitions, NEW g \in 0..MaxFlushes, NEW fits \in BOOLEAN,
               NEW full \in BOOLEAN, append(j, g, fits, full)
        PROVE  Fewer
    <3> DEFINE before == IF fits THEN sealed[j] ELSE Append(sealed[j], open[j])
               batch == IF Some(open[j]) /\ fits
                        THEN [open[j] EXCEPT !.recs = Append(@, next_record),
                                             !.gen = IF g > @ THEN g ELSE @]
                        ELSE [NoBatch EXCEPT !.recs = <<next_record>>,
                                             !.waiting = TRUE, !.gen = g]
               seal == full \/ SealNow(g)
    <3>1. /\ sealed' = [sealed EXCEPT ![j] = IF seal THEN Append(before, batch)
                                                     ELSE before]
          /\ in_flight' = in_flight /\ next_record \in Records
      BY <2>1 DEF append
    <3>2. CASE j # k
      <4>1. sealed'[k] = sealed[k]
        BY <1>0, <3>1, <3>2 DEF Queues
      <4> QED BY <1>1, <3>1, <4>1
    <3>3. CASE j = k
      <4>1. batch \in Batch /\ ~Stamped(batch)
        <5>1. CASE Some(open[k]) /\ fits
          <6>1. Append(open[k].recs, next_record) \in Seq(Records)
            BY <1>0, <3>1 DEF Batch
          <6>2. (IF g > open[k].gen THEN g ELSE open[k].gen) \in 0..MaxFlushes
            BY <1>0 DEF Batch
          <6> QED BY <1>0, <3>3, <5>1, <6>1, <6>2 DEF Batch, Stamped
        <5>2. CASE ~(Some(open[k]) /\ fits)
          <6>1. <<next_record>> \in Seq(Records)
            BY <3>1
          <6> QED BY <3>3, <5>2, <6>1, NoBatchType DEF Batch, Stamped
        <5> QED BY <5>1, <5>2
      <4>2. /\ Clean(open[k], before, in_flight[k])
            /\ StampsIn(before, in_flight[k]) \subseteq StampsIn(sealed[k], in_flight[k])
        BY <1>0, <3>3, CleanAppend, StampsAppend
      <4>3. sealed'[k] = before \/ sealed'[k] = Append(before, batch)
        BY <1>0, <3>1, <3>3 DEF Queues
      <4> HIDE DEF before, batch, seal
      <4>4. /\ StampsIn(Append(before, batch), in_flight[k])
                 \subseteq StampsIn(before, in_flight[k])
        BY <4>1, <4>2, StampsAppend
      <4> QED BY <3>1, <4>2, <4>3, <4>4
    <3> QED BY <3>2, <3>3
  <2>2. CASE append_refused
    BY <1>1, <2>2 DEF append_refused
  <2>3. CASE close_channel
    BY <1>0, <2>3, StampsSealAll DEF close_channel
  <2>4. ASSUME NEW g \in 0..(MaxFlushes - 1), flush(g)
        PROVE  Fewer
    BY <1>0, <2>4, StampsSealAll DEF flush
  <2>5. CASE terminate
    <3>1. /\ in_flight'[k].stamp = in_flight[k].stamp
          /\ sealed'[k] = sealed[k] \/ sealed'[k] = <<>>
      BY <1>0, <2>5 DEF terminate, Emptied, Released, Batch
    <3> QED BY <1>1, <3>1
  <2> HIDE DEF Fewer
  <2> QED BY <1>2, <2>1, <2>2, <2>3, <2>4, <2>5 DEF Command
<1>3. CASE TxnCommand
  <2>1. /\ in_flight'[k] = in_flight[k]
        /\ sealed'[k] = sealed[k] \/ sealed'[k] = <<>>
    BY <1>3 DEF TxnCommand, fail_unsent, set_identity, Emptied
  <2> QED BY <1>1, <2>1
<1>4. ASSUME NEW j \in Partitions, NEW all \in BOOLEAN,
             NEW n \in 0..Len(sealed[j]), expire(j, n, all)
      PROVE  Fewer
  <2>1. /\ sealed' = [sealed EXCEPT ![j] = SubSeq(@, n + 1, Len(@))]
        /\ in_flight' = [in_flight EXCEPT ![j].waiting = FALSE]
    BY <1>4 DEF expire
  <2>2. in_flight'[k].stamp = in_flight[k].stamp
    BY <1>0, <2>1 DEF Queues, Batch
  <2>3. CASE j # k
    BY <1>0, <1>1, <2>1, <2>2, <2>3 DEF Queues
  <2>4. CASE j = k
    <3>1. sealed'[k] = SubSeq(sealed[k], n + 1, Len(sealed[k]))
      BY <1>0, <2>1, <2>4 DEF Queues
    <3>2. StampsIn(sealed'[k], in_flight[k]) \subseteq StampsIn(sealed[k], in_flight[k])
      BY <1>0, <1>4, <2>4, <3>1, StampsSkip
    <3>3. StampsIn(sealed'[k], in_flight'[k]) = StampsIn(sealed'[k], in_flight[k])
      BY <2>2 DEF StampsIn
    <3> QED BY <3>2, <3>3
  <2> QED BY <2>3, <2>4
<1>5. CASE Identify
  <2>1. /\ in_flight'[k] = in_flight[k]
        /\ sealed'[k] = sealed[k] \/ sealed'[k] = <<>>
    BY <1>5 DEF Identify, bump_epoch, start_reinit, reinitialised, reinit_failed,
                reinit_fatal, Emptied
  <2> QED BY <1>1, <2>1
<1>6. CASE Complete \/ stop
  BY <1>1, <1>6 DEF Complete, complete, stop
<1>7. ASSUME NEW j \in resolving, NEW o \in Outcomes, NEW late \in BOOLEAN,
             resolve(j, o, late)
      PROVE  Fewer
  <2>0. in_flight' = Landed(j) /\ j \in Partitions /\ o \in BatchOutcome
    BY <1>7, EngineAssumption DEF resolve, acknowledge, retry_or_fail, restamp, split,
              fail, fatal, FailLanded, IInv, TypeOK
  <2>1. ASSUME sealed'[k] = sealed[k] \/ sealed'[k] = <<>>
        PROVE  Fewer
    <3>1. in_flight'[k] = in_flight[k] \/ in_flight'[k].stamp = NoStamp
      BY <1>0, <2>0 DEF Landed, NoBatch, Queues
    <3> QED BY <2>1, <3>1 DEF StampsIn
  <2>2. ASSUME NEW p \in Seq(Batch), p # <<>>, sealed' = Pushed(j, p),
               p[1].stamp \in {NoStamp, in_flight[j].stamp}
        PROVE  Fewer
    <3>1. CASE j # k
      BY <1>0, <2>1, <2>2, <3>1 DEF Pushed, Queues
    <3>2. CASE j = k
      <4>1. sealed'[k] = p \o sealed[k] /\ in_flight'[k] = NoBatch
        BY <1>0, <2>0, <2>2, <3>2 DEF Pushed, Landed, Queues
      <4>2. StampsIn(sealed'[k], in_flight'[k]) \subseteq {p[1].stamp} \ {NoStamp}
        BY <1>0, <2>2, <4>1, StampsPush
      <4>3. {p[1].stamp} \ {NoStamp} \subseteq StampsIn(sealed[k], in_flight[k])
        BY <2>2, <3>2 DEF StampsIn
      <4> QED BY <4>2, <4>3
    <3> QED BY <3>1, <3>2
  <2>3. Noted(j, o) \in Batch /\ Noted(j, o).stamp = in_flight[j].stamp
    BY <1>0, <2>0, NotedType
  <2> HIDE DEF Fewer
  <2>4. CASE acknowledge(j, o) \/ fail(j, o) \/ fatal(j, o)
    <3>1. sealed'[k] = sealed[k] \/ sealed'[k] = <<>>
      BY <2>4 DEF acknowledge, fail, fatal, Emptied
    <3> QED BY <2>1, <3>1
  <2>5. CASE retry_or_fail(j, o, late)
    <3>1. sealed' = sealed \/ sealed' = Pushed(j, <<Noted(j, o)>>)
      BY <2>5 DEF retry_or_fail
    <3> DEFINE p == <<Noted(j, o)>>
    <3>2. p \in Seq(Batch) /\ p # <<>> /\ p[1].stamp = in_flight[j].stamp
      BY <2>3
    <3>3. sealed' = sealed \/ sealed' = Pushed(j, p)
      BY <3>1
    <3> HIDE DEF p
    <3> QED BY <2>1, <2>2, <3>2, <3>3
  <2>6. CASE restamp(j, o, late)
    <3> DEFINE b == [Noted(j, o) EXCEPT !.stamp = NoStamp]
               p == <<b>>
    <3>1. sealed' = sealed \/ sealed' = Pushed(j, p)
      BY <2>6 DEF restamp
    <3>2. p \in Seq(Batch) /\ p # <<>> /\ p[1].stamp = NoStamp
      <4>1. b \in Batch /\ b.stamp = NoStamp
        BY <2>3 DEF Batch, Stamps
      <4> HIDE DEF b
      <4> QED BY <4>1
    <3> HIDE DEF p
    <3> QED BY <2>1, <2>2, <3>1, <3>2
  <2>7. CASE split(j, o, late)
    <3>1. sealed'[k] = sealed[k] \/ \E b, c :
             /\ sealed' = Pushed(j, <<Half(in_flight[j], b), Half(in_flight[j], c)>>)
      BY <2>7 DEF split
    <3>2. CASE sealed'[k] = sealed[k]
      BY <2>1, <3>2
    <3>3. ASSUME NEW b, NEW c,
                 sealed' = Pushed(j, <<Half(in_flight[j], b), Half(in_flight[j], c)>>)
          PROVE  Fewer
      <4>1. CASE j # k
        BY <1>0, <2>1, <3>3, <4>1 DEF Pushed, Queues
      <4>2. CASE j = k
        <5> DEFINE h == Half(in_flight[j], b)
                   i == Half(in_flight[j], c)
        <5>1. sealed'[k] = <<h, i>> \o sealed[k] /\ in_flight'[k] = NoBatch
          BY <1>0, <2>0, <3>3, <4>2 DEF Pushed, Landed, Queues
        <5>2. h.stamp = NoStamp
          BY <1>0, <4>2 DEF Half, Batch
        <5> HIDE DEF h, i
        <5>3. (<<h, i>> \o sealed[k])[1] = h
          BY <1>0
        <5> QED BY <5>1, <5>2, <5>3 DEF Fewer, StampsIn, NoBatch
      <4> QED BY <4>1, <4>2
    <3> QED BY <3>1, <3>2, <3>3
  <2> QED BY <1>7, <2>4, <2>5, <2>6, <2>7 DEF resolve
<1>8. CASE UNCHANGED vars
  BY <1>1, <1>8 DEF vars
<1> HIDE DEF Fewer
<1> QED BY <1>2, <1>3, <1>4, <1>5, <1>6, <1>7, <1>8 DEF Next, Timer, Resolve

(* No batch is stamped when the count is zero. *)
LEMMA NoneStamped ==
    ASSUME IInv, stamped_unresolved = 0, NEW k \in Partitions
    PROVE  StampsIn(sealed[k], in_flight[k]) = {}
<1>1. Queues /\ Cardinality(StampedKeys) = 0
  BY QueuesOfIInv DEF IInv, UnresolvedExact
<1>2. IsFiniteSet(StampedKeys)
  BY EngineAssumption, FS_Subset DEF StampedKeys
<1>3. StampedKeys = {}
  BY <1>1, <1>2, FS_EmptySet
<1>4. ~Holds(sealed[k], in_flight[k])
  BY <1>1, <1>3, KeysAreHolders
<1> QED BY <1>4 DEF Holds, StampsIn, Stamped

(* The steps that change the identity of an idempotent producer. *)
LEMMA IdentityChange ==
    ASSUME IInv, [Next]_vars, ~TxnCommand
    PROVE  ident' = ident \/ bump_epoch \/ reinitialised
<1>1. CASE Command
  <2>1. ASSUME NEW k \in Partitions, NEW g \in 0..MaxFlushes, NEW fits \in BOOLEAN,
               NEW full \in BOOLEAN, append(k, g, fits, full)
        PROVE  ident' = ident
    BY <2>1 DEF append, identityVars
  <2>2. CASE append_refused \/ close_channel \/ terminate
    BY <2>2 DEF append_refused, close_channel, terminate, identityVars
  <2>3. ASSUME NEW g \in 0..(MaxFlushes - 1), flush(g)
        PROVE  ident' = ident
    BY <2>3 DEF flush, identityVars
  <2> QED BY <1>1, <2>1, <2>2, <2>3 DEF Command
<1>2. CASE Timer
  BY <1>2 DEF Timer, expire, identityVars
<1>3. CASE Identify
  BY <1>3 DEF Identify, start_reinit, reinit_failed, reinit_fatal
<1>4. CASE Drain \/ Complete \/ stop
  BY <1>4 DEF Drain, drain, Complete, complete, stop, identityVars
<1>5. ASSUME NEW k \in resolving, NEW o \in Outcomes, NEW late \in BOOLEAN,
             resolve(k, o, late)
      PROVE  ident' = ident
  BY <1>5 DEF resolve, acknowledge, retry_or_fail, restamp, split, fail, fatal,
              identityVars
<1>6. CASE UNCHANGED vars
  BY <1>6 DEF vars
<1> QED BY <1>1, <1>2, <1>3, <1>4, <1>5, <1>6 DEF Next, Resolve

(* Every stamp in the queues of an idempotent producer is of its epoch. *)
LEMMA NextStamps ==
    ASSUME IInv, [Next]_vars
    PROVE  StampsCurrent'
<1> SUFFICES ASSUME mode' = "Idempotent", NEW k \in Partitions,
                    NEW x \in StampsIn(sealed'[k], in_flight'[k])
             PROVE  x.generation = ident'.generation
  BY CurrentStamps
<1>0. /\ mode = "Idempotent" /\ ~TxnCommand
      /\ \A y \in StampsIn(sealed[k], in_flight[k]) : y.generation = ident.generation
  BY IdempotentStep, CurrentStamps DEF IInv
<1>1. CASE Drain
  <2>1. PICK b \in Brokers, S \in SUBSET Partitions : drain(b, S)
    BY <1>1 DEF Drain
  <2>2. /\ ident' = ident
        /\ in_flight' = [j \in Partitions |-> IF j \in S THEN Sent(j) ELSE in_flight[j]]
        /\ sealed' = [j \in Partitions |->
                        IF j \in S /\ HasSealed(j) THEN Tail(sealed[j]) ELSE sealed[j]]
        /\ \A j \in S : ~Some(in_flight[j])
    BY <2>1 DEF drain, identityVars, Ready
  <2>3. CASE k \notin S
    BY <1>0, <2>2, <2>3
  <2>4. CASE k \in S
    <3>0. Clean(open[k], sealed[k], in_flight[k]) /\ ~Stamped(open[k])
      BY QueuesOfIInv DEF Queues, Clean
    <3>1. in_flight'[k] = Sent(k) /\ ~Some(in_flight[k])
      BY <2>2, <2>4
    <3>2. x = Sent(k).stamp /\ x # NoStamp
      <4>1. CASE HasSealed(k)
        <5>1. sealed'[k] = Tail(sealed[k]) /\ sealed[k] # <<>>
          BY <2>2, <2>4, <4>1 DEF HasSealed
        <5>2. StampsIn(Tail(sealed[k]), Sent(k)) \subseteq {Sent(k).stamp} \ {NoStamp}
          BY <3>0, <5>1, StampsTail
        <5> QED BY <3>1, <5>1, <5>2
      <4>2. CASE ~HasSealed(k)
        <5>1. sealed'[k] = <<>>
          BY <2>2, <2>4, <4>2 DEF HasSealed
        <5> QED BY <3>1, <5>1 DEF StampsIn
      <4> QED BY <4>1, <4>2
    <3>3. CASE NeedsStamp(k)
      <4>1. Sent(k).stamp = stamp(seq[k], ident)
        BY <3>1, <3>3, SentType
      <4> QED BY <2>2, <3>2, <4>1 DEF stamp
    <3>4. CASE ~NeedsStamp(k)
      <4>1. Sent(k) = HeadOf(k)
        BY <3>1, <3>4, SentType
      <4>2. HasSealed(k) /\ HeadOf(k) = sealed[k][1]
        BY <3>0, <3>2, <4>1 DEF HeadOf, HasSealed, Stamped, Clean
      <4>3. x \in StampsIn(sealed[k], in_flight[k])
        BY <3>2, <4>1, <4>2 DEF StampsIn, HasSealed
      <4> QED BY <1>0, <2>2, <4>3
    <3> QED BY <3>3, <3>4
  <2> QED BY <2>3, <2>4
<1>2. CASE ~Drain
  <2>1. x \in StampsIn(sealed[k], in_flight[k])
    BY <1>2, StampsShrink
  <2>2. stamped_unresolved # 0
    BY <2>1, NoneStamped
  <2>3. ident' = ident
    <3>1. ~bump_epoch
      BY <2>2 DEF bump_epoch, BumpDue
    <3>2. ~reinitialised
      BY <1>0, <2>2 DEF reinitialised, IInv, ReinitClear
    <3> QED BY <1>0, <3>1, <3>2, IdentityChange
  <2> QED BY <1>0, <2>1, <2>3
<1> QED BY <1>1, <1>2

-----------------------------------------------------------------------------
(* The engine starts with nothing queued, stamped or under way. *)
LEMMA InitIInv == Init => IInv
<1> SUFFICES ASSUME Init PROVE IInv
  OBVIOUS
<1>0. <<>> \in Seq(Batch)
  OBVIOUS
<1>1. TypeOK
  <2>1. ident \in Identity /\ generation \in Nat /\ mode \in Modes
    BY EngineAssumption DEF Init, Identity
  <2>2. identity \in {"Plain", "Uninit", "Init", "Ready", "Fatal"}
    BY DEF Init
  <2>3. /\ open \in [Partitions -> Batch] /\ sealed \in [Partitions -> Seq(Batch)]
        /\ in_flight \in [Partitions -> Batch]
    BY <1>0, NoBatchType DEF Init
  <2>4. seq \in [Partitions -> PartitionSeq] /\ last_acked \in [Partitions -> Int]
    BY DEF Init, FreshSeq, PartitionSeq
  <2>5. /\ sealed_through \in -1..MaxFlushes /\ next_record \in 1..(MaxRecords + 1)
        /\ outcome \in [Records -> Answers]
    BY EngineAssumption DEF Init, Answers
  <2> QED BY <2>1, <2>2, <2>3, <2>4, <2>5 DEF Init, TypeOK
<1>2. \A k \in Partitions : Clean(open[k], sealed[k], in_flight[k])
  BY <1>0, NoBatchType DEF Init, Clean
<1>3. UnresolvedExact
  <2>1. StampedKeys = {}
    BY NoBatchType DEF Init, StampedKeys, LiveStamped, HasSealed
  <2> QED BY <2>1, FS_EmptySet DEF Init, UnresolvedExact
<1>4. IsFiniteSet(requests) /\ SlotsMatchRequests
  <2>1. \A b \in Brokers : {r \in requests : r.broker = b} = {}
    BY DEF Init
  <2> QED BY <2>1, NoBatchType, FS_EmptySet, EngineAssumption DEF Init, SlotsMatchRequests
<1>5. ident.generation > 0 /\ ReinitClear
  BY DEF Init, ReinitClear
<1>6. StampsCurrent
  BY NoBatchType DEF Init, StampsCurrent, HasSealed
<1> QED BY <1>1, <1>2, <1>3, <1>4, <1>5, <1>6 DEF IInv

(* Every step of the engine keeps the invariant. *)
LEMMA NextIInv == IInv /\ [Next]_vars => IInv'
<1> SUFFICES ASSUME IInv, [Next]_vars PROVE IInv'
  OBVIOUS
<1>1. Queues' /\ UnresolvedExact' /\ Wire' /\ IdentityType'
  BY NextCore, NextWire, NextIdentity DEF Core
<1>2. TypeOK' /\ ReinitClear' /\ StampsCurrent'
  BY NextType, NextReinit, NextStamps
<1> QED BY <1>1, <1>2 DEF IInv, Queues, Wire, IdentityType

(* The engine's inductive invariant holds for any numbers of partitions,   *)
(* brokers, records, epochs and requests, in every producer mode.          *)
THEOREM EngineInvariant == Spec => []IInv
BY InitIInv, NextIInv, PTL DEF Spec

(* Every variable keeps its type through every command, timer and outcome. *)
THEOREM EngineTypes == Spec => []TypeOK
<1>1. IInv => TypeOK
  BY DEF IInv
<1> QED BY <1>1, EngineInvariant, PTL

(* `stamped_unresolved` is exact: every stamped batch is counted once from *)
(* the drain that stamps it to the ack, failure, expiry, re-stamp, split,  *)
(* abort or fatal error that resolves it.                                  *)
THEOREM CountIsExact == Spec => []UnresolvedExact
<1>1. IInv => UnresolvedExact
  BY DEF IInv
<1> QED BY <1>1, EngineInvariant, PTL

(* A partition never has two stamped batches, and the one it has is the    *)
(* next to go out or on the wire.                                          *)
THEOREM AtMostOneStamped == Spec => []OneStamped
<1>1. IInv => OneStamped
  <2> SUFFICES ASSUME IInv, NEW k \in Partitions
               PROVE  /\ ~Stamped(open[k])
                      /\ \A i \in 2..Len(sealed[k]) : ~Stamped(sealed[k][i])
                      /\ Some(in_flight[k]) /\ HasSealed(k) => ~Stamped(Head(sealed[k]))
    BY DEF OneStamped
  <2>1. Clean(open[k], sealed[k], in_flight[k])
    BY DEF IInv
  <2> QED BY <2>1 DEF Clean, HasSealed
<1> QED BY <1>1, EngineInvariant, PTL

(* The epoch of an idempotent producer never moves under a stamped batch   *)
(* that waits or is on the wire.                                           *)
THEOREM StampsStayCurrent == Spec => []StampsCurrent
<1>1. IInv => StampsCurrent
  BY DEF IInv
<1> QED BY <1>1, EngineInvariant, PTL

(* The three together, as the runs check them: the count, the place and    *)
(* the epoch of every stamped batch are right after every step.            *)
THEOREM StampsAlwaysAccounted == Spec => []StampsAccounted
<1>1. UnresolvedExact /\ OneStamped /\ StampsCurrent => StampsAccounted
  BY DEF StampsAccounted
<1> QED BY <1>1, CountIsExact, AtMostOneStamped, StampsStayCurrent, PTL

(* Partitions in flight, requests and broker counts agree, within the      *)
(* limit of requests per broker.                                           *)
THEOREM SlotsAreExact == Spec => []SlotsMatchRequests
<1>1. IInv => SlotsMatchRequests
  BY DEF IInv
<1> QED BY <1>1, EngineInvariant, PTL
=============================================================================
