------------------------- MODULE EngineRecordsProofs -------------------------
(***************************************************************************)
(* What becomes of the records given to SendEngine, for any number of      *)
(* partitions, records, flushes, requests and outcomes: each waits in one  *)
(* place, in order, until it is answered, once; what stamps they go out    *)
(* with; and what a partition leader makes of those stamps.                *)
(***************************************************************************)
EXTENDS SendEngineProofs, PartitionLeader

(* Every record of x was sent before every record of y. *)
Before(x, y) == \A a \in RecsOf(x), b \in RecsOf(y) : a < b
Rising(x) == \A i, j \in DOMAIN x.recs : i < j => x.recs[i] < x.recs[j]

(* One partition's open batch o, sealed batches s and batch on the wire f: *)
(* in order, and what is not on the wire has its callers waiting.          *)
Queue(o, s, f) ==
    /\ Rising(o) /\ Rising(f) /\ Before(f, o)
    /\ \A i \in 1..Len(s) : Rising(s[i]) /\ Before(f, s[i]) /\ Before(s[i], o)
    /\ \A i, j \in 1..Len(s) : i < j => Before(s[i], s[j])
    /\ \A i \in 1..Len(s) : s[i].waiting
    /\ Some(o) => o.waiting

InSealed(r, s) == \E i \in 1..Len(s) : r \in RecsOf(s[i])

(* Record r is in the partition, and its caller waits for it there. *)
Has(r, o, s, f) == r \in RecsOf(o) \/ InSealed(r, s) \/ r \in RecsOf(f)
Waits(r, o, s, f) == r \in RecsOf(o) \/ InSealed(r, s) \/ (f.waiting /\ r \in RecsOf(f))

HasIn(k, r) == Has(r, open[k], sealed[k], in_flight[k])
WaitsIn(k, r) == Waits(r, open[k], sealed[k], in_flight[k])

QueuesInOrder == \A k \in Partitions : Queue(open[k], sealed[k], in_flight[k])
InSomeBatch(r) == \E k \in Partitions : WaitsIn(k, r)

(* Where the records are: sent ones only, in one partition each, and those *)
(* that wait are the ones without an outcome.                              *)
Places ==
    /\ \A k \in Partitions, r \in Records : HasIn(k, r) => r < next_record
    /\ \A r \in Records : outcome[r] = "unsent" <=> r >= next_record
    /\ \A r \in Records : outcome[r] = "queued" <=> InSomeBatch(r)
    /\ \A j, k \in Partitions, r \in Records : WaitsIn(j, r) /\ WaitsIn(k, r) => j = k

(* A partition with something to do is in `active`, which `run` empties    *)
(* before it returns.                                                      *)
Active ==
    /\ \A k \in Partitions : k \notin active => IsIdle(k)
    /\ stopped => active = {} /\ resolving = {}

RInv == QueuesInOrder /\ Places /\ Active /\ FlushedIsSealed

-----------------------------------------------------------------------------
(* What the queue operations do to one partition. *)

(* The records of a batch. *)
LEMMA RecsAre ==
    ASSUME NEW b \in Batch
    PROVE  /\ \A r : r \in RecsOf(b) <=> \E i \in DOMAIN b.recs : r = b.recs[i]
           /\ RecsOf(b) \subseteq Records
           /\ ~Some(b) <=> RecsOf(b) = {}
<1>1. b.recs \in Seq(Records)
  BY DEF Batch
<1>2. \A r : r \in RecsOf(b) <=> \E i \in DOMAIN b.recs : r = b.recs[i]
  BY Zenon DEF RecsOf, Range
<1>3. DOMAIN b.recs = 1..Len(b.recs) /\ Len(b.recs) \in Nat
  BY <1>1
<1>4. \A i \in DOMAIN b.recs : b.recs[i] \in Records
  BY <1>1, <1>3
<1>5. b.recs # <<>> => 1 \in DOMAIN b.recs
  BY <1>1, <1>3, NonEmpty
<1>6. b.recs = <<>> => DOMAIN b.recs = {}
  OBVIOUS
<1> QED BY <1>2, <1>4, <1>5, <1>6 DEF Some

(* There are none in the absent batch. *)
LEMMA NoRecs ==
    /\ NoBatch \in Batch /\ RecsOf(NoBatch) = {} /\ ~NoBatch.waiting
    /\ Rising(NoBatch)
    /\ \A x : Before(x, NoBatch) /\ Before(NoBatch, x)
<1>1. NoBatch \in Batch /\ ~Some(NoBatch)
  BY NoBatchType
<1>2. RecsOf(NoBatch) = {}
  BY <1>1, RecsAre
<1>3. DOMAIN NoBatch.recs = {} /\ ~NoBatch.waiting
  BY DEF NoBatch
<1> QED BY <1>1, <1>2, <1>3 DEF Rising, Before

(* What is said of a batch's records depends on nothing else of it. *)
LEMMA SameRecs ==
    ASSUME NEW b, NEW c, b.recs = c.recs
    PROVE  /\ RecsOf(b) = RecsOf(c) /\ (Rising(b) <=> Rising(c))
           /\ \A x : (Before(x, b) <=> Before(x, c)) /\ (Before(b, x) <=> Before(c, x))
<1>1. RecsOf(b) = RecsOf(c)
  BY DEF RecsOf
<1>2. Rising(b) <=> Rising(c)
  BY DEF Rising
<1> QED BY <1>1, <1>2 DEF Before

(* No record is before itself. *)
LEMMA Apart ==
    ASSUME NEW b \in Batch, NEW c \in Batch, Before(b, c)
    PROVE  \A r : ~(r \in RecsOf(b) /\ r \in RecsOf(c))
<1>1. RecsOf(b) \subseteq Records
  BY RecsAre
<1>2. \A r \in Records : ~(r < r)
  BY EngineAssumption DEF Records
<1> QED BY <1>1, <1>2 DEF Before

(* The open batch is sealed, and another one opened. *)
LEMMA SealQueue ==
    ASSUME NEW o \in Batch, NEW s \in Seq(Batch), NEW f \in Batch, Queue(o, s, f), Some(o)
    PROVE  /\ Queue(NoBatch, Append(s, o), f)
           /\ \A r : /\ Has(r, NoBatch, Append(s, o), f) <=> Has(r, o, s, f)
                     /\ Waits(r, NoBatch, Append(s, o), f) <=> Waits(r, o, s, f)
<1> DEFINE t == Append(s, o)
<1>1. /\ t \in Seq(Batch) /\ Len(t) = Len(s) + 1 /\ Len(s) \in Nat
      /\ \A i \in 1..Len(s) : t[i] = s[i]
      /\ t[Len(s) + 1] = o
  BY AppendProperties
<1> HIDE DEF t
<1>2. \A i \in 1..Len(t) : i \in 1..Len(s) \/ i = Len(s) + 1
  BY <1>1
<1>3. \A i, j \in 1..Len(t) : i < j => i \in 1..Len(s) /\ (j \in 1..Len(s) \/ j = Len(s) + 1)
  BY <1>1
<1>4. \A i \in 1..Len(t) : Rising(t[i]) /\ Before(f, t[i]) /\ t[i].waiting
  BY <1>1, <1>2 DEF Queue
<1>5. \A i, j \in 1..Len(t) : i < j => Before(t[i], t[j])
  BY <1>1, <1>3 DEF Queue
<1>6. Queue(NoBatch, t, f)
  BY <1>4, <1>5, NoRecs, NoBatchType DEF Queue
<1>7. \A r : InSealed(r, t) <=> InSealed(r, s) \/ r \in RecsOf(o)
  <2>1. \A r : InSealed(r, s) => InSealed(r, t)
    BY <1>1 DEF InSealed
  <2>2. \A r : r \in RecsOf(o) => InSealed(r, t)
    <3>1. Len(s) + 1 \in 1..Len(t)
      BY <1>1
    <3> QED BY <1>1, <3>1 DEF InSealed
  <2>3. \A r : InSealed(r, t) => InSealed(r, s) \/ r \in RecsOf(o)
    BY <1>1, <1>2 DEF InSealed
  <2> QED BY <2>1, <2>2, <2>3
<1> QED BY <1>6, <1>7, NoRecs DEF t, Has, Waits

(* The first n sealed batches, or all that is not on the wire, are gone,   *)
(* or the callers of what is on the wire are answered.                     *)
LEMMA SkipQueue ==
    ASSUME NEW o \in Batch, NEW s \in Seq(Batch), NEW f \in Batch, Queue(o, s, f),
           NEW n \in 0..Len(s), NEW c \in {o, NoBatch},
           NEW g \in Batch, g.recs = f.recs, g.waiting => f.waiting
    PROVE  /\ Queue(c, SubSeq(s, n + 1, Len(s)), g)
           /\ \A r : InSealed(r, SubSeq(s, n + 1, Len(s))) <=>
                        \E i \in (n + 1)..Len(s) : r \in RecsOf(s[i])
           /\ \A r : Has(r, c, SubSeq(s, n + 1, Len(s)), g) => Has(r, o, s, f)
           /\ \A r : Waits(r, c, SubSeq(s, n + 1, Len(s)), g) => Waits(r, o, s, f)
<1> DEFINE t == SubSeq(s, n + 1, Len(s))
<1>1. Len(s) \in Nat /\ n \in Nat /\ n <= Len(s)
  OBVIOUS
<1>2. \A i \in (n + 1)..Len(s) : s[i] \in Batch
  BY <1>1, ElementOfSeq
<1>3. /\ t \in Seq(Batch)
      /\ Len(t) = IF n + 1 <= Len(s) THEN Len(s) - (n + 1) + 1 ELSE 0
      /\ \A i \in 1..(Len(s) - (n + 1) + 1) : t[i] = s[(n + 1) + i - 1]
  BY <1>1, <1>2, SubSeqProperties
<1> HIDE DEF t
<1>4. /\ Len(t) = Len(s) - n /\ Len(t) \in Nat
      /\ \A i \in 1..Len(t) : t[i] = s[n + i] /\ n + i \in 1..Len(s)
  BY <1>1, <1>3
<1>5. RecsOf(g) = RecsOf(f) /\ Rising(g) /\ \A x : Before(g, x) <=> Before(f, x)
  BY SameRecs DEF Queue
<1>6. \A i \in 1..Len(t) : Rising(t[i]) /\ Before(g, t[i]) /\ Before(t[i], o) /\ t[i].waiting
  BY <1>4, <1>5 DEF Queue
<1>7. \A i, j \in 1..Len(t) : i < j => Before(t[i], t[j])
  <2>1. \A i, j \in 1..Len(t) : i < j => n + i < n + j
    BY <1>1, <1>4
  <2> QED BY <1>4, <2>1 DEF Queue
<1>8. Queue(c, t, g)
  BY <1>5, <1>6, <1>7, NoRecs, NoBatchType DEF Queue
<1>9. \A r : InSealed(r, t) <=> \E i \in (n + 1)..Len(s) : r \in RecsOf(s[i])
  <2>1. \A i \in (n + 1)..Len(s) : i - n \in 1..Len(t) /\ t[i - n] = s[i]
    BY <1>1, <1>4
  <2>2. \A i \in 1..Len(t) : n + i \in (n + 1)..Len(s) /\ t[i] = s[n + i]
    BY <1>1, <1>4
  <2> QED BY <2>1, <2>2 DEF InSealed
<1>10. \A r : InSealed(r, t) => InSealed(r, s)
  BY <1>4 DEF InSealed
<1> QED BY <1>5, <1>8, <1>9, <1>10, NoRecs DEF t, Has, Waits

(* Everything that is not on the wire is gone. *)
LEMMA DropQueue ==
    ASSUME NEW o \in Batch, NEW s \in Seq(Batch), NEW f \in Batch, Queue(o, s, f),
           NEW g \in Batch, g.recs = f.recs \/ g = NoBatch
    PROVE  /\ Queue(NoBatch, <<>>, g)
           /\ \A r : Has(r, NoBatch, <<>>, g) <=> r \in RecsOf(g)
           /\ \A r : Waits(r, NoBatch, <<>>, g) <=> g.waiting /\ r \in RecsOf(g)
           /\ \A r : r \in RecsOf(g) => r \in RecsOf(f)
<1>1. Rising(g) /\ \A r : r \in RecsOf(g) => r \in RecsOf(f)
  BY SameRecs, NoRecs DEF Queue
<1>2. 1..Len(<<>>) = {}
  OBVIOUS
<1>3. Queue(NoBatch, <<>>, g)
  BY <1>1, <1>2, NoRecs, NoBatchType DEF Queue
<1>4. \A r : ~InSealed(r, <<>>)
  BY <1>2 DEF InSealed
<1> QED BY <1>1, <1>3, <1>4, NoRecs DEF Has, Waits

(* The batch on the wire is done with. *)
LEMMA LandQueue ==
    ASSUME NEW o \in Batch, NEW s \in Seq(Batch), NEW f \in Batch, Queue(o, s, f)
    PROVE  /\ Queue(o, s, NoBatch)
           /\ \A r : Has(r, o, s, NoBatch) => Has(r, o, s, f)
           /\ \A r : Waits(r, o, s, NoBatch) <=> r \in RecsOf(o) \/ InSealed(r, s)
BY NoRecs DEF Queue, Has, Waits

(* The next batch goes out, from the sealed ones or straight from the open. *)
LEMMA TailQueue ==
    ASSUME NEW o \in Batch, NEW s \in Seq(Batch), NEW f \in Batch, Queue(o, s, f),
           ~Some(f), s # <<>>, NEW b \in Batch, b.recs = s[1].recs, b.waiting = s[1].waiting
    PROVE  /\ Queue(o, Tail(s), b)
           /\ \A r : /\ Has(r, o, Tail(s), b) <=> Has(r, o, s, f)
                     /\ Waits(r, o, Tail(s), b) <=> Waits(r, o, s, f)
<1> DEFINE t == Tail(s)
<1>1. Len(s) \in Nat \ {0} /\ 1 \in 1..Len(s) /\ s[1] \in Batch
  BY NonEmpty, ElementOfSeq
<1>2. /\ t \in Seq(Batch) /\ Len(t) = Len(s) - 1
      /\ \A i \in 1..Len(t) : t[i] = s[i + 1]
  BY HeadTailProperties
<1> HIDE DEF t
<1>3. \A i \in 1..Len(t) : t[i] = s[i + 1] /\ i + 1 \in 1..Len(s) /\ 1 < i + 1
  BY <1>1, <1>2
<1>4. /\ RecsOf(b) = RecsOf(s[1]) /\ (Rising(b) <=> Rising(s[1]))
      /\ \A x : Before(b, x) <=> Before(s[1], x)
  BY <1>1, SameRecs
<1>5. Rising(b) /\ Before(b, o) /\ b.waiting
  BY <1>1, <1>4 DEF Queue
<1>6. \A i \in 1..Len(t) : Rising(t[i]) /\ Before(b, t[i]) /\ Before(t[i], o) /\ t[i].waiting
  BY <1>1, <1>3, <1>4 DEF Queue
<1>7. \A i, j \in 1..Len(t) : i < j => Before(t[i], t[j])
  <2>1. \A i, j \in 1..Len(t) : i < j => i + 1 < j + 1
    BY <1>1, <1>2
  <2> QED BY <1>3, <2>1 DEF Queue
<1>8. Queue(o, t, b)
  BY <1>5, <1>6, <1>7 DEF Queue
<1>9. \A r : InSealed(r, s) <=> InSealed(r, t) \/ r \in RecsOf(b)
  <2>1. \A i \in 1..Len(s) : i = 1 \/ (i - 1 \in 1..Len(t) /\ t[i - 1] = s[i])
    BY <1>1, <1>2
  <2> QED BY <1>1, <1>3, <1>4, <2>1 DEF InSealed
<1>10. RecsOf(f) = {}
  BY RecsAre
<1> QED BY <1>5, <1>8, <1>9, <1>10 DEF t, Has, Waits

(* The open batch goes out when none is sealed. *)
LEMMA OpenQueue ==
    ASSUME NEW o \in Batch, NEW f \in Batch, Queue(o, <<>>, f), ~Some(f), Some(o),
           NEW b \in Batch, b.recs = o.recs, b.waiting = o.waiting
    PROVE  /\ Queue(NoBatch, <<>>, b)
           /\ \A r : /\ Has(r, NoBatch, <<>>, b) <=> Has(r, o, <<>>, f)
                     /\ Waits(r, NoBatch, <<>>, b) <=> Waits(r, o, <<>>, f)
<1>1. RecsOf(f) = {}
  BY RecsAre
<1>2. RecsOf(b) = RecsOf(o) /\ Rising(b) /\ b.waiting
  BY SameRecs DEF Queue
<1>3. 1..Len(<<>>) = {}
  OBVIOUS
<1>4. Queue(NoBatch, <<>>, b)
  BY <1>2, <1>3, NoRecs, NoBatchType DEF Queue
<1>5. \A r : ~InSealed(r, <<>>)
  BY <1>3 DEF InSealed
<1> QED BY <1>1, <1>2, <1>4, <1>5, NoRecs DEF Has, Waits

(* The batch on the wire goes back, ahead of the others. *)
LEMMA PushQueue ==
    ASSUME NEW o \in Batch, NEW s \in Seq(Batch), NEW f \in Batch, Queue(o, s, f),
           f.waiting, NEW b \in Batch, b.recs = f.recs, b.waiting
    PROVE  /\ Queue(o, <<b>> \o s, NoBatch)
           /\ \A r : /\ Has(r, o, <<b>> \o s, NoBatch) <=> Has(r, o, s, f)
                     /\ Waits(r, o, <<b>> \o s, NoBatch) <=> Waits(r, o, s, f)
<1> DEFINE t == <<b>> \o s
<1>1. /\ t \in Seq(Batch) /\ Len(t) = Len(s) + 1 /\ Len(s) \in Nat
      /\ t[1] = b /\ \A i \in 2..Len(t) : t[i] = s[i - 1]
  OBVIOUS
<1> HIDE DEF t
<1>2. \A i \in 1..Len(t) : i = 1 \/ (i \in 2..Len(t) /\ i - 1 \in 1..Len(s) /\ t[i] = s[i - 1])
  BY <1>1
<1>3. /\ RecsOf(b) = RecsOf(f) /\ Rising(b)
      /\ \A x : Before(b, x) <=> Before(f, x)
  BY SameRecs DEF Queue
<1>4. \A i \in 1..Len(t) : Rising(t[i]) /\ Before(t[i], o) /\ t[i].waiting
  BY <1>1, <1>2, <1>3 DEF Queue
<1>5. \A i, j \in 1..Len(t) : i < j => Before(t[i], t[j])
  <2> SUFFICES ASSUME NEW i \in 1..Len(t), NEW j \in 1..Len(t), i < j
               PROVE  Before(t[i], t[j])
    OBVIOUS
  <2>1. j - 1 \in 1..Len(s) /\ t[j] = s[j - 1]
    BY <1>1, <1>2
  <2>2. CASE i = 1
    BY <1>1, <1>3, <2>1, <2>2 DEF Queue
  <2>3. CASE i # 1
    <3>1. i - 1 \in 1..Len(s) /\ t[i] = s[i - 1]
      BY <1>2, <2>3
    <3>2. i - 1 < j - 1
      OBVIOUS
    <3> QED BY <2>1, <3>1, <3>2 DEF Queue
  <2> QED BY <2>2, <2>3
<1>6. Queue(o, t, NoBatch)
  BY <1>4, <1>5, NoRecs DEF Queue
<1>7. \A r : InSealed(r, t) <=> InSealed(r, s) \/ r \in RecsOf(f)
  <2>1. \A i \in 1..Len(s) : i + 1 \in 1..Len(t) /\ t[i + 1] = s[i]
    BY <1>1
  <2>2. 1 \in 1..Len(t)
    BY <1>1
  <2> QED BY <1>1, <1>2, <1>3, <2>1, <2>2 DEF InSealed
<1> QED BY <1>6, <1>7, NoRecs DEF t, Has, Waits

(* The batch on the wire goes back in two parts. *)
LEMMA HalvesQueue ==
    ASSUME NEW o \in Batch, NEW s \in Seq(Batch), NEW f \in Batch, Queue(o, s, f),
           f.waiting, NEW b \in Batch, NEW c \in Batch, b.waiting, c.waiting,
           NEW m \in 0..Len(f.recs),
           b.recs = SubSeq(f.recs, 1, m), c.recs = SubSeq(f.recs, m + 1, Len(f.recs))
    PROVE  /\ Queue(o, <<b, c>> \o s, NoBatch)
           /\ \A r : /\ Has(r, o, <<b, c>> \o s, NoBatch) <=> Has(r, o, s, f)
                     /\ Waits(r, o, <<b, c>> \o s, NoBatch) <=> Waits(r, o, s, f)
<1> DEFINE t == <<b, c>> \o s
           q == f.recs
           p == b.recs
           w == c.recs
<1>0. q \in Seq(Records) /\ Len(q) \in Nat /\ m \in Nat /\ m <= Len(q) /\ DOMAIN q = 1..Len(q)
  BY DEF Batch
<1>1. /\ \A i \in 1..m : q[i] \in Records
      /\ \A i \in (m + 1)..Len(q) : q[i] \in Records
  BY <1>0, ElementOfSeq
<1>2. /\ DOMAIN p = 1..m /\ \A i \in 1..m : p[i] = q[i] /\ i \in DOMAIN q
      /\ DOMAIN w = 1..(Len(q) - m)
      /\ \A i \in 1..(Len(q) - m) : w[i] = q[m + i] /\ m + i \in DOMAIN q
  <2>1. p \in Seq(Records) /\ Len(p) = m /\ \A i \in 1..m : p[i] = q[i]
    BY <1>0, <1>1, SubSeqProperties
  <2>2. /\ w \in Seq(Records) /\ Len(w) = Len(q) - m
        /\ \A i \in 1..(Len(q) - m) : w[i] = q[m + i]
    <3> DEFINE k == m + 1
               n == Len(q)
    <3>1. k \in Int /\ n \in Int /\ \A i \in k..n : q[i] \in Records BY <1>0, <1>1
    <3> HIDE DEF k, n, q
    <3>2. /\ SubSeq(q, k, n) \in Seq(Records)
          /\ Len(SubSeq(q, k, n)) = IF k <= n THEN n - k + 1 ELSE 0
          /\ \A i \in 1..(n - k + 1) : SubSeq(q, k, n)[i] = q[k + i - 1]
      BY <3>1, SubSeqProperties
    <3>3. w = SubSeq(q, k, n) BY DEF k, n, q
    <3>4. k = m + 1 /\ n = Len(q) /\ n \in Nat /\ m \in Nat /\ m <= n BY <1>0 DEF k, n
    <3> HIDE DEF w
    <3>5. w \in Seq(Records) /\ Len(w) = n - m BY <3>1, <3>2, <3>3, <3>4
    <3>6. ASSUME NEW i \in 1..(n - m) PROVE w[i] = q[m + i]
      <4>1. i \in 1..(n - k + 1) /\ k + i - 1 = m + i BY <3>4
      <4> QED BY <3>2, <3>3, <4>1
    <3> QED BY <3>4, <3>5, <3>6
  <2> QED BY <1>0, <2>1, <2>2
<1>3. /\ \A r : r \in RecsOf(b) <=> \E i \in 1..m : r = q[i]
      /\ \A r : r \in RecsOf(c) <=> \E i \in 1..(Len(q) - m) : r = q[m + i]
      /\ \A r : r \in RecsOf(f) <=> \E i \in DOMAIN q : r = q[i]
  <2>1. /\ \A r : r \in RecsOf(b) <=> \E i \in DOMAIN p : r = p[i]
        /\ \A r : r \in RecsOf(c) <=> \E i \in DOMAIN w : r = w[i]
        /\ \A r : r \in RecsOf(f) <=> \E i \in DOMAIN q : r = q[i]
    BY RecsAre, Zenon
  <2> HIDE DEF p, w, q
  <2>2. \A r : r \in RecsOf(b) <=> \E i \in 1..m : r = q[i]
    <3>1. ASSUME NEW r, r \in RecsOf(b)
          PROVE  \E i \in 1..m : r = q[i]
      <4>1. PICK i \in DOMAIN p : r = p[i]
        BY <2>1, <3>1, Zenon
      <4>2. i \in 1..m
        BY <1>2, Zenon
      <4> QED BY <1>2, <4>1, <4>2, Zenon
    <3>2. ASSUME NEW r, NEW i \in 1..m, r = q[i]
          PROVE  r \in RecsOf(b)
      <4>1. i \in DOMAIN p /\ r = p[i]
        BY <1>2, <3>2, Zenon
      <4> QED BY <2>1, <4>1, Zenon
    <3> QED BY <3>1, <3>2, Zenon
  <2>3. \A r : r \in RecsOf(c) <=> \E i \in 1..(Len(q) - m) : r = q[m + i]
    <3>1. ASSUME NEW r, r \in RecsOf(c)
          PROVE  \E i \in 1..(Len(q) - m) : r = q[m + i]
      <4>1. PICK i \in DOMAIN w : r = w[i]
        BY <2>1, <3>1, Zenon
      <4>2. i \in 1..(Len(q) - m)
        BY <1>2, Zenon
      <4> QED BY <1>2, <4>1, <4>2, Zenon
    <3>2. ASSUME NEW r, NEW i \in 1..(Len(q) - m), r = q[m + i]
          PROVE  r \in RecsOf(c)
      <4>1. i \in DOMAIN w /\ r = w[i]
        BY <1>2, <3>2, Zenon
      <4> QED BY <2>1, <4>1, Zenon
    <3> QED BY <3>1, <3>2, Zenon
  <2> QED BY <2>1, <2>2, <2>3
<1>4. Rising(b) /\ Rising(c) /\ Before(b, c)
  <2>1. \A i, j \in DOMAIN q : i < j => q[i] < q[j]
    BY DEF Queue, Rising
  <2>2. \A i, j \in DOMAIN p : i < j => p[i] < p[j]
    <3> HIDE DEF p, w, q
    <3> QED BY <1>2, <2>1
  <2>3. \A i, j \in DOMAIN w : i < j => w[i] < w[j]
    <3> HIDE DEF p, w, q
    <3>1. \A i, j \in 1..(Len(q) - m) : i < j => m + i < m + j
      BY <1>0
    <3> QED BY <1>2, <2>1, <3>1
  <2>4. Before(b, c)
    <3>1. \A i \in 1..m, j \in 1..(Len(q) - m) : i < m + j
      BY <1>0
    <3> QED BY <1>2, <1>3, <2>1, <3>1 DEF Before
  <2> QED BY <2>2, <2>3, <2>4 DEF Rising
<1>5. \A r : r \in RecsOf(f) <=> r \in RecsOf(b) \/ r \in RecsOf(c)
  <2>1. \A i \in DOMAIN q : i \in 1..m \/ (i - m \in 1..(Len(q) - m) /\ m + (i - m) = i)
    BY <1>0
  <2>2. \A r : r \in RecsOf(b) \/ r \in RecsOf(c) => r \in RecsOf(f)
    <3> HIDE DEF p, w, q
    <3> QED BY <1>2, <1>3
  <2>3. ASSUME NEW i \in DOMAIN q
        PROVE  q[i] \in RecsOf(b) \/ q[i] \in RecsOf(c)
    BY <1>3, <2>1
  <2> QED BY <1>3, <2>2, <2>3, Zenon
<1>6. \A x : Before(f, x) => Before(b, x) /\ Before(c, x)
  BY <1>5 DEF Before
<1>7. /\ t \in Seq(Batch) /\ Len(t) = Len(s) + 2 /\ Len(s) \in Nat
      /\ t[1] = b /\ t[2] = c /\ \A i \in 3..Len(t) : t[i] = s[i - 2]
  OBVIOUS
<1> HIDE DEF t, q
<1>8. \A i \in 1..Len(t) :
         \/ i = 1 \/ i = 2 \/ (i \in 3..Len(t) /\ i - 2 \in 1..Len(s) /\ t[i] = s[i - 2])
  BY <1>7
<1>9. Before(f, o) /\ \A i \in 1..Len(s) : Before(f, s[i])
  BY DEF Queue
<1>10. \A i \in 1..Len(t) : Rising(t[i]) /\ Before(t[i], o) /\ t[i].waiting
  BY <1>4, <1>6, <1>7, <1>8, <1>9 DEF Queue
<1>11. \A i, j \in 1..Len(t) : i < j => Before(t[i], t[j])
  <2> SUFFICES ASSUME NEW i \in 1..Len(t), NEW j \in 1..Len(t), i < j
               PROVE  Before(t[i], t[j])
    OBVIOUS
  <2>1. CASE j = 2
    <3>1. i = 1
      BY <2>1
    <3> QED BY <1>4, <1>7, <2>1, <3>1
  <2>2. CASE j # 2
    <3>1. j - 2 \in 1..Len(s) /\ t[j] = s[j - 2]
      BY <1>7, <1>8, <2>2
    <3>2. CASE i = 1 \/ i = 2
      BY <1>6, <1>7, <1>9, <3>1, <3>2
    <3>3. CASE i # 1 /\ i # 2
      <4>1. i - 2 \in 1..Len(s) /\ t[i] = s[i - 2] /\ i - 2 < j - 2
        BY <1>7, <1>8, <3>3
      <4> QED BY <3>1, <4>1 DEF Queue
    <3> QED BY <3>2, <3>3
  <2> QED BY <2>1, <2>2
<1>12. Queue(o, t, NoBatch)
  BY <1>10, <1>11, NoRecs DEF Queue
<1>13. \A r : InSealed(r, t) <=> InSealed(r, s) \/ r \in RecsOf(f)
  <2>1. \A i \in 1..Len(s) : i + 2 \in 1..Len(t) /\ t[i + 2] = s[i]
    BY <1>7
  <2>2. 1 \in 1..Len(t) /\ 2 \in 1..Len(t)
    BY <1>7
  <2>3. \A r : InSealed(r, t) => InSealed(r, s) \/ r \in RecsOf(b) \/ r \in RecsOf(c)
    BY <1>7, <1>8 DEF InSealed
  <2>4. \A r : InSealed(r, s) \/ r \in RecsOf(b) \/ r \in RecsOf(c) => InSealed(r, t)
    BY <1>7, <2>1, <2>2 DEF InSealed
  <2> QED BY <1>5, <2>3, <2>4
<1> QED BY <1>12, <1>13, NoRecs DEF t, Has, Waits

(* A record, sent after every other, joins the open batch. *)
LEMMA JoinQueue ==
    ASSUME NEW o \in Batch, NEW s \in Seq(Batch), NEW f \in Batch, Queue(o, s, f),
           Some(o), NEW n \in Records, \A r \in Records : Has(r, o, s, f) => r < n,
           NEW b \in Batch, b.recs = Append(o.recs, n), b.waiting = o.waiting
    PROVE  /\ Queue(b, s, f)
           /\ \A r : /\ Has(r, b, s, f) <=> Has(r, o, s, f) \/ r = n
                     /\ Waits(r, b, s, f) <=> Waits(r, o, s, f) \/ r = n
<1> DEFINE q == o.recs
<1>0. q \in Seq(Records) /\ Len(q) \in Nat /\ DOMAIN q = 1..Len(q)
  BY DEF Batch
<1>1. /\ DOMAIN b.recs = 1..(Len(q) + 1)
      /\ \A i \in 1..Len(q) : b.recs[i] = q[i]
      /\ b.recs[Len(q) + 1] = n
  BY <1>0, AppendProperties
<1> HIDE DEF q
<1>2. \A r : r \in RecsOf(o) <=> \E i \in 1..Len(q) : r = q[i]
  BY <1>0, RecsAre DEF q
<1>3. \A i \in 1..(Len(q) + 1) : i \in 1..Len(q) \/ i = Len(q) + 1
  BY <1>0
<1>4. Len(q) + 1 \in 1..(Len(q) + 1) /\ \A i \in 1..Len(q) : i \in 1..(Len(q) + 1)
  BY <1>0
<1>5. \A r : r \in RecsOf(b) <=> r \in RecsOf(o) \/ r = n
  <2>1. \A r : r \in RecsOf(b) <=> \E i \in 1..(Len(q) + 1) : r = b.recs[i]
    BY <1>1, RecsAre
  <2> QED BY <1>1, <1>2, <1>3, <1>4, <2>1
<1>6. /\ RecsOf(o) \subseteq Records /\ RecsOf(f) \subseteq Records
      /\ \A i \in 1..Len(s) : RecsOf(s[i]) \subseteq Records
  BY RecsAre, ElementOfSeq
<1>7. /\ \A r \in RecsOf(o) : r < n
      /\ \A r \in RecsOf(f) : r < n
      /\ \A i \in 1..Len(s) : \A r \in RecsOf(s[i]) : r < n
  BY <1>6 DEF Has, InSealed
<1>8. Rising(b)
  <2>1. \A i, j \in 1..Len(q) : i < j => q[i] < q[j]
    BY <1>0 DEF Queue, Rising, q
  <2>2. \A i \in 1..Len(q) : q[i] < n
    BY <1>2, <1>7
  <2>3. \A i, j \in 1..(Len(q) + 1) : i < j =>
           i \in 1..Len(q) /\ (j \in 1..Len(q) \/ j = Len(q) + 1)
    BY <1>0
  <2> QED BY <1>1, <2>1, <2>2, <2>3 DEF Rising
<1>9. Before(f, b) /\ \A i \in 1..Len(s) : Before(s[i], b)
  <2>1. Before(f, o) /\ \A i \in 1..Len(s) : Before(s[i], o)
    BY DEF Queue
  <2> QED BY <1>5, <1>7, <2>1 DEF Before
<1>10. Queue(b, s, f)
  BY <1>8, <1>9 DEF Queue
<1> QED BY <1>5, <1>10 DEF Has, Waits

(* It opens a batch where there is none. *)
LEMMA NewQueue ==
    ASSUME NEW o \in Batch, NEW s \in Seq(Batch), NEW f \in Batch, Queue(o, s, f),
           ~Some(o), NEW n \in Records, \A r \in Records : Has(r, o, s, f) => r < n,
           NEW b \in Batch, b.recs = <<n>>, b.waiting
    PROVE  /\ Queue(b, s, f)
           /\ \A r : /\ Has(r, b, s, f) <=> Has(r, o, s, f) \/ r = n
                     /\ Waits(r, b, s, f) <=> Waits(r, o, s, f) \/ r = n
<1>1. DOMAIN b.recs = {1} /\ b.recs[1] = n
  OBVIOUS
<1>2. \A r : r \in RecsOf(b) <=> r = n
  BY <1>1, RecsAre
<1>3. RecsOf(o) = {}
  BY RecsAre
<1>4. /\ RecsOf(f) \subseteq Records
      /\ \A i \in 1..Len(s) : RecsOf(s[i]) \subseteq Records
  BY RecsAre, ElementOfSeq
<1>5. /\ \A r \in RecsOf(f) : r < n
      /\ \A i \in 1..Len(s) : \A r \in RecsOf(s[i]) : r < n
  BY <1>4 DEF Has, InSealed
<1>6. Rising(b)
  BY <1>1 DEF Rising
<1>7. Before(f, b) /\ \A i \in 1..Len(s) : Before(s[i], b)
  BY <1>2, <1>5 DEF Before
<1>8. Queue(b, s, f)
  BY <1>6, <1>7 DEF Queue
<1> QED BY <1>2, <1>3, <1>8 DEF Has, Waits

-----------------------------------------------------------------------------
(* A step of the engine, as the records see it. *)

(* No record turns up in a partition, or starts to wait there. *)
Moves ==
    \A k \in Partitions :
        /\ Queue(open'[k], sealed'[k], in_flight'[k])
        /\ \A r \in Records :
             /\ Has(r, open'[k], sealed'[k], in_flight'[k]) => HasIn(k, r)
             /\ Waits(r, open'[k], sealed'[k], in_flight'[k]) => WaitsIn(k, r)

(* The caller of record r waits in partition k no longer. *)
Leaves(k, r) == WaitsIn(k, r) /\ ~Waits(r, open'[k], sealed'[k], in_flight'[k])

(* The callers that leave are told an outcome, and they only. *)
Tells ==
    \A r \in Records :
        /\ (\E k \in Partitions : Leaves(k, r)) => outcome'[r] \notin Undecided
        /\ (\A k \in Partitions : ~Leaves(k, r)) => outcome'[r] = outcome[r]

AnswersOnce ==
    \A r \in Records : outcome[r] \notin Undecided => outcome'[r] = outcome[r]

Settled == QueuesInOrder' /\ Places' /\ AnswersOnce

(* Such a step leaves every record in its one place or answered for good. *)
LEMMA TellingSettles ==
    ASSUME Places, Moves, Tells, next_record' = next_record
    PROVE  Settled
<1>1. QueuesInOrder'
  BY DEF Moves, QueuesInOrder
<1>2. \A k \in Partitions, r \in Records :
        /\ HasIn(k, r)' => HasIn(k, r)
        /\ WaitsIn(k, r)' => WaitsIn(k, r)
        /\ Leaves(k, r) <=> WaitsIn(k, r) /\ ~WaitsIn(k, r)'
  BY DEF Moves, HasIn, WaitsIn, Leaves
<1>3. /\ \A k \in Partitions, r \in Records : HasIn(k, r) => r < next_record
      /\ \A r \in Records : outcome[r] = "unsent" <=> r >= next_record
      /\ \A r \in Records : outcome[r] = "queued" <=> InSomeBatch(r)
      /\ \A j, k \in Partitions, r \in Records : WaitsIn(j, r) /\ WaitsIn(k, r) => j = k
  BY DEF Places
<1>4. ASSUME NEW r \in Records, NEW k \in Partitions, Leaves(k, r)
      PROVE  /\ ~InSomeBatch(r)' /\ outcome[r] = "queued"
             /\ outcome'[r] \notin {"queued", "unsent"}
  <2>1. outcome[r] = "queued" /\ WaitsIn(k, r)
    BY <1>2, <1>3, <1>4 DEF InSomeBatch
  <2>2. ~InSomeBatch(r)'
    BY <1>2, <1>3, <1>4 DEF InSomeBatch
  <2>3. outcome'[r] \notin {"queued", "unsent"}
    BY <1>4 DEF Tells, Undecided
  <2> QED BY <2>1, <2>2, <2>3
<1>5. ASSUME NEW r \in Records, \A k \in Partitions : ~Leaves(k, r)
      PROVE  (InSomeBatch(r)' <=> InSomeBatch(r)) /\ outcome'[r] = outcome[r]
  <2>1. InSomeBatch(r)' <=> InSomeBatch(r)
    BY <1>2, <1>5 DEF InSomeBatch
  <2> QED BY <1>5, <2>1 DEF Tells
<1>6. \A r \in Records : outcome'[r] = "queued" <=> InSomeBatch(r)'
  BY <1>3, <1>4, <1>5
<1>7. \A r \in Records : outcome'[r] = "unsent" <=> r >= next_record
  BY <1>3, <1>4, <1>5
<1>8. AnswersOnce
  BY <1>4, <1>5 DEF AnswersOnce, Undecided
<1>9. Places'
  BY <1>2, <1>3, <1>6, <1>7 DEF Places
<1> QED BY <1>1, <1>8, <1>9 DEF Settled

(* What partition k has is in order again, with the same records waiting. *)
Keeps(k) ==
    /\ Queue(open'[k], sealed'[k], in_flight'[k])
    /\ \A r \in Records :
         /\ Has(r, open'[k], sealed'[k], in_flight'[k]) <=> HasIn(k, r)
         /\ Waits(r, open'[k], sealed'[k], in_flight'[k]) <=> WaitsIn(k, r)

(* A step that answers no one and loses no record. *)
LEMMA KeepingSettles ==
    ASSUME Places, \A k \in Partitions : Keeps(k),
           outcome' = outcome, next_record' = next_record
    PROVE  Settled
<1>1. Moves
  BY DEF Keeps, Moves
<1>2. \A k \in Partitions, r \in Records : ~Leaves(k, r)
  BY DEF Keeps, Leaves
<1>3. Tells
  BY <1>2 DEF Tells
<1> QED BY <1>1, <1>3, TellingSettles

(* A partition whose queue is as it was. *)
LEMMA SameKeeps ==
    ASSUME QueuesInOrder, NEW k \in Partitions, open'[k] = open[k],
           sealed'[k] = sealed[k], in_flight'[k] = in_flight[k]
    PROVE  Keeps(k) /\ \A r \in Records : ~Leaves(k, r)
BY DEF QueuesInOrder, Keeps, HasIn, WaitsIn, Leaves

(* A step that touches no queue. *)
LEMMA QuietSettles ==
    ASSUME QueuesInOrder, Places, open' = open, sealed' = sealed,
           in_flight' = in_flight, outcome' = outcome, next_record' = next_record
    PROVE  Settled
BY SameKeeps, KeepingSettles

(* A flush, and the end of the channel. *)
LEMMA SealingSettles ==
    ASSUME IInv, RInv, SealAll, in_flight' = in_flight,
           outcome' = outcome, next_record' = next_record
    PROVE  Settled
<1>0. Queues /\ QueuesInOrder /\ Places /\ Active
  BY QueuesOfIInv DEF RInv
<1>1. ASSUME NEW k \in Partitions
      PROVE  Keeps(k)
  <2>0. /\ open[k] \in Batch /\ sealed[k] \in Seq(Batch) /\ in_flight[k] \in Batch
        /\ Queue(open[k], sealed[k], in_flight[k])
    BY <1>0 DEF Queues, QueuesInOrder
  <2>1. CASE k \in active /\ Some(open[k])
    <3>1. open'[k] = NoBatch /\ sealed'[k] = Append(sealed[k], open[k])
      BY <2>1 DEF SealAll, Emptied
    <3> QED BY <2>0, <2>1, <3>1, SealQueue DEF Keeps, HasIn, WaitsIn
  <2>2. CASE k \in active /\ ~Some(open[k])
    <3>1. open'[k] = NoBatch /\ sealed'[k] = sealed[k]
      BY <2>2 DEF SealAll, Emptied
    <3>2. RecsOf(open[k]) = {}
      BY <2>0, <2>2, RecsAre
    <3> QED BY <2>0, <3>1, <3>2, NoRecs, NoBatchType
            DEF Keeps, HasIn, WaitsIn, Queue, Has, Waits
  <2>3. CASE k \notin active
    <3>1. open'[k] = open[k] /\ sealed'[k] = sealed[k]
      BY <2>3 DEF SealAll, Emptied
    <3> QED BY <1>0, <3>1, SameKeeps
  <2> QED BY <2>1, <2>2, <2>3
<1> QED BY <1>0, <1>1, KeepingSettles

(* A request goes out. *)
LEMMA DrainSettles ==
    ASSUME IInv, RInv, NEW b \in Brokers, NEW S \in SUBSET Partitions, drain(b, S)
    PROVE  Settled
<1>0. Queues /\ QueuesInOrder /\ Places
  BY QueuesOfIInv DEF RInv
<1>1. /\ in_flight' = [k \in Partitions |-> IF k \in S THEN Sent(k) ELSE in_flight[k]]
      /\ sealed' = [k \in Partitions |->
                       IF k \in S /\ HasSealed(k) THEN Tail(sealed[k]) ELSE sealed[k]]
      /\ open' = [k \in Partitions |->
                       IF k \in S /\ ~HasSealed(k) THEN NoBatch ELSE open[k]]
      /\ outcome' = outcome /\ next_record' = next_record
      /\ \A k \in S : ~Some(in_flight[k]) /\ Some(HeadOf(k))
  BY DEF drain, Ready
<1>2. ASSUME NEW k \in S
      PROVE  /\ HeadOf(k) \in Batch /\ Sent(k) \in Batch
             /\ Sent(k).recs = HeadOf(k).recs /\ Sent(k).waiting = HeadOf(k).waiting
  <2>1. HeadOf(k) \in Batch /\ Sent(k) \in Batch /\ Sent(k).recs = HeadOf(k).recs
    BY <1>0, <1>1, HeadType, SentType
  <2>2. Sent(k).waiting = HeadOf(k).waiting
    BY <2>1 DEF Sent, Batch
  <2> QED BY <2>1, <2>2
<1>3. ASSUME NEW k \in Partitions
      PROVE  Keeps(k)
  <2>0. /\ open[k] \in Batch /\ sealed[k] \in Seq(Batch) /\ in_flight[k] \in Batch
        /\ Queue(open[k], sealed[k], in_flight[k])
    BY <1>0 DEF Queues, QueuesInOrder
  <2>1. CASE k \in S /\ HasSealed(k)
    <3>1. in_flight'[k] = Sent(k) /\ sealed'[k] = Tail(sealed[k]) /\ open'[k] = open[k]
      BY <1>1, <2>1
    <3>2. sealed[k] # <<>> /\ HeadOf(k) = sealed[k][1]
      BY <2>0, <2>1 DEF HeadOf, HasSealed
    <3> QED BY <1>1, <1>2, <2>0, <2>1, <3>1, <3>2, TailQueue DEF Keeps, HasIn, WaitsIn
  <2>2. CASE k \in S /\ ~HasSealed(k)
    <3>1. in_flight'[k] = Sent(k) /\ sealed'[k] = sealed[k] /\ open'[k] = NoBatch
      BY <1>1, <2>2
    <3>2. sealed[k] = <<>> /\ HeadOf(k) = open[k]
      BY <2>2 DEF HeadOf, HasSealed
    <3> QED BY <1>1, <1>2, <2>0, <2>2, <3>1, <3>2, OpenQueue DEF Keeps, HasIn, WaitsIn
  <2>3. CASE k \notin S
    BY <1>0, <1>1, <2>3, SameKeeps
  <2> QED BY <2>1, <2>2, <2>3
<1> QED BY <1>0, <1>1, <1>3, KeepingSettles

(* A record is sent. *)
LEMMA AppendSettles ==
    ASSUME IInv, RInv, NEW k \in Partitions, NEW g \in 0..MaxFlushes,
           NEW fits \in BOOLEAN, NEW full \in BOOLEAN, append(k, g, fits, full)
    PROVE  Settled
<1> DEFINE before == IF fits THEN sealed[k] ELSE Append(sealed[k], open[k])
           batch == IF Some(open[k]) /\ fits
                    THEN [open[k] EXCEPT !.recs = Append(@, next_record),
                                         !.gen = IF g > @ THEN g ELSE @]
                    ELSE [NoBatch EXCEPT !.recs = <<next_record>>,
                                         !.waiting = TRUE, !.gen = g]
           seal == full \/ SealNow(g)
           n == next_record
<1>0. /\ Queues /\ QueuesInOrder /\ Places
      /\ open[k] \in Batch /\ sealed[k] \in Seq(Batch) /\ in_flight[k] \in Batch
      /\ Queue(open[k], sealed[k], in_flight[k])
      /\ outcome \in [Records -> Answers]
  BY QueuesOfIInv DEF RInv, Queues, QueuesInOrder, IInv, TypeOK
<1>1. /\ n \in Records /\ (Some(open[k]) \/ fits)
      /\ sealed' = [sealed EXCEPT ![k] = IF seal THEN Append(before, batch) ELSE before]
      /\ open' = [open EXCEPT ![k] = IF seal THEN NoBatch ELSE batch]
      /\ in_flight' = in_flight
      /\ next_record' = n + 1
      /\ outcome' = [outcome EXCEPT ![n] = "queued"]
  BY DEF append
<1>2. \A r \in Records : HasIn(k, r) => r < n
  BY <1>0 DEF Places
<1>3. batch \in Batch
  <2>1. CASE Some(open[k]) /\ fits
    <3>1. Append(open[k].recs, next_record) \in Seq(Records)
      BY <1>0, <1>1 DEF Batch
    <3>2. (IF g > open[k].gen THEN g ELSE open[k].gen) \in 0..MaxFlushes
      BY <1>0 DEF Batch
    <3> QED BY <1>0, <2>1, <3>1, <3>2 DEF Batch
  <2>2. CASE ~(Some(open[k]) /\ fits)
    <3>1. <<next_record>> \in Seq(Records)
      BY <1>1
    <3> QED BY <2>2, <3>1, NoBatchType DEF Batch
  <2> QED BY <2>1, <2>2
<1>4. /\ Some(open[k]) /\ fits =>
            batch.recs = Append(open[k].recs, n) /\ batch.waiting = open[k].waiting
      /\ ~(Some(open[k]) /\ fits) => batch.recs = <<n>> /\ batch.waiting
  <2>1. CASE Some(open[k]) /\ fits
    BY <1>0, <2>1 DEF Batch
  <2>2. CASE ~(Some(open[k]) /\ fits)
    BY <2>2 DEF NoBatch
  <2> QED BY <2>1, <2>2
<1>5. seal \in BOOLEAN
  BY DEF SealNow
<1> HIDE DEF batch, seal
<1>6. /\ Queue(batch, before, in_flight[k]) /\ before \in Seq(Batch)
      /\ \A r : /\ Has(r, batch, before, in_flight[k]) <=> HasIn(k, r) \/ r = n
                /\ Waits(r, batch, before, in_flight[k]) <=> WaitsIn(k, r) \/ r = n
  <2>1. CASE Some(open[k]) /\ fits
    BY <1>0, <1>1, <1>2, <1>3, <1>4, <2>1, JoinQueue DEF HasIn, WaitsIn
  <2>2. CASE ~Some(open[k])
    <3>1. fits
      BY <1>1, <2>2
    <3> QED BY <1>0, <1>1, <1>2, <1>3, <1>4, <2>2, <3>1, NewQueue DEF HasIn, WaitsIn
  <2>3. CASE Some(open[k]) /\ ~fits
    <3> DEFINE t == Append(sealed[k], open[k])
    <3>1. before = t /\ t \in Seq(Batch)
      BY <1>0, <2>3, AppendProperties
    <3>2. /\ Queue(NoBatch, t, in_flight[k])
          /\ \A r : /\ Has(r, NoBatch, t, in_flight[k]) <=> HasIn(k, r)
                    /\ Waits(r, NoBatch, t, in_flight[k]) <=> WaitsIn(k, r)
      BY <1>0, <2>3, SealQueue DEF HasIn, WaitsIn
    <3> HIDE DEF t, before
    <3>3. /\ NoBatch \in Batch /\ ~Some(NoBatch)
          /\ \A r \in Records : Has(r, NoBatch, t, in_flight[k]) => r < n
      BY <1>2, <3>2, NoBatchType
    <3>4. batch.recs = <<n>> /\ batch.waiting
      BY <1>4, <2>3
    <3>5. /\ Queue(batch, t, in_flight[k])
          /\ \A r : /\ Has(r, batch, t, in_flight[k]) <=> Has(r, NoBatch, t, in_flight[k]) \/ r = n
                    /\ Waits(r, batch, t, in_flight[k]) <=> Waits(r, NoBatch, t, in_flight[k]) \/ r = n
      BY <1>0, <1>1, <1>3, <3>1, <3>2, <3>3, <3>4, NewQueue
    <3> QED BY <3>1, <3>2, <3>5
  <2> QED BY <1>1, <2>1, <2>2, <2>3
<1> HIDE DEF before
<1>7. /\ Queue(open'[k], sealed'[k], in_flight'[k])
      /\ \A r : /\ Has(r, open'[k], sealed'[k], in_flight'[k]) <=> HasIn(k, r) \/ r = n
                /\ Waits(r, open'[k], sealed'[k], in_flight'[k]) <=> WaitsIn(k, r) \/ r = n
  <2>1. CASE seal
    <3>1. sealed'[k] = Append(before, batch) /\ open'[k] = NoBatch /\ in_flight'[k] = in_flight[k]
      BY <1>0, <1>1, <2>1 DEF Queues
    <3>2. Some(batch)
      <4>1. batch.recs # <<>>
        <5>1. CASE Some(open[k]) /\ fits
          <6>1. open[k].recs \in Seq(Records)
            BY <1>0 DEF Batch
          <6> QED BY <1>1, <1>4, <5>1, <6>1
        <5>2. CASE ~(Some(open[k]) /\ fits)
          <6>1. batch.recs = <<n>>
            BY <1>4, <5>2
          <6> QED BY <6>1
        <5> QED BY <5>1, <5>2
      <4> QED BY <4>1 DEF Some
    <3> QED BY <1>0, <1>3, <1>6, <3>1, <3>2, SealQueue
  <2>2. CASE ~seal
    <3>1. sealed'[k] = before /\ open'[k] = batch /\ in_flight'[k] = in_flight[k]
      BY <1>0, <1>1, <2>2 DEF Queues
    <3> QED BY <1>6, <3>1
  <2> QED BY <1>5, <2>1, <2>2
<1>8. \A j \in Partitions : j # k => Keeps(j)
  <2>1. \A j \in Partitions : j # k =>
           open'[j] = open[j] /\ sealed'[j] = sealed[j] /\ in_flight'[j] = in_flight[j]
    BY <1>0, <1>1 DEF Queues
  <2> QED BY <1>0, <2>1, SameKeeps
<1>9. QueuesInOrder'
  BY <1>7, <1>8 DEF QueuesInOrder, Keeps
<1>10. \A j \in Partitions, r \in Records :
         /\ HasIn(j, r)' <=> HasIn(j, r) \/ (j = k /\ r = n)
         /\ WaitsIn(j, r)' <=> WaitsIn(j, r) \/ (j = k /\ r = n)
  BY <1>7, <1>8 DEF Keeps, HasIn, WaitsIn
<1>11. /\ \A j \in Partitions, r \in Records : HasIn(j, r) => r < n
       /\ \A r \in Records : outcome[r] = "unsent" <=> r >= n
       /\ \A r \in Records : outcome[r] = "queued" <=> InSomeBatch(r)
       /\ \A i, j \in Partitions, r \in Records : WaitsIn(i, r) /\ WaitsIn(j, r) => i = j
  BY <1>0 DEF Places
<1>12. \A j \in Partitions, r \in Records : WaitsIn(j, r) => HasIn(j, r)
  BY DEF WaitsIn, HasIn, Waits, Has
<1>13. n \in Nat /\ ~(n < n) /\ \A r \in Records : r \in Nat /\ (r >= n + 1 <=> r >= n /\ r # n)
                                  /\ (r < n + 1 <=> r < n \/ r = n)
  BY <1>1, EngineAssumption DEF Records
<1>14. \A j \in Partitions : ~WaitsIn(j, n)
  BY <1>1, <1>11, <1>12, <1>13
<1>15. /\ \A r \in Records : r # n => outcome'[r] = outcome[r]
       /\ outcome'[n] = "queued"
  BY <1>0, <1>1
<1>16. Places'
  <2>1. \A j \in Partitions, r \in Records : HasIn(j, r)' => r < next_record'
    BY <1>1, <1>10, <1>11, <1>13
  <2>2. \A r \in Records : outcome'[r] = "unsent" <=> r >= next_record'
    BY <1>1, <1>11, <1>13, <1>15
  <2>3. \A r \in Records : outcome'[r] = "queued" <=> InSomeBatch(r)'
    BY <1>10, <1>11, <1>15 DEF InSomeBatch
  <2>4. \A i, j \in Partitions, r \in Records : WaitsIn(i, r)' /\ WaitsIn(j, r)' => i = j
    BY <1>10, <1>11, <1>14
  <2> QED BY <2>1, <2>2, <2>3, <2>4 DEF Places
<1>17. AnswersOnce
  <2>1. outcome[n] = "unsent"
    BY <1>1, <1>11, <1>13
  <2> QED BY <1>15, <2>1 DEF AnswersOnce, Undecided
<1> QED BY <1>9, <1>16, <1>17 DEF Settled

(* A record is refused by an engine that cannot continue. *)
LEMMA RefusalSettles ==
    ASSUME IInv, RInv, append_refused
    PROVE  Settled
<1> DEFINE n == next_record
<1>0. QueuesInOrder /\ Places /\ outcome \in [Records -> Answers]
  BY DEF RInv, IInv, TypeOK
<1>1. /\ n \in Records /\ next_record' = n + 1
      /\ outcome' = [outcome EXCEPT ![n] = "fatal"]
      /\ open' = open /\ sealed' = sealed /\ in_flight' = in_flight
  BY DEF append_refused
<1>2. QueuesInOrder'
  BY <1>0, <1>1 DEF QueuesInOrder
<1>3. \A j \in Partitions, r \in Records :
         (HasIn(j, r)' <=> HasIn(j, r)) /\ (WaitsIn(j, r)' <=> WaitsIn(j, r))
  BY <1>1 DEF HasIn, WaitsIn
<1>4. \A r \in Records : InSomeBatch(r)' <=> InSomeBatch(r)
  BY <1>3 DEF InSomeBatch
<1>5. \A r \in Records : r \in Nat /\ (r >= n + 1 <=> r >= n /\ r # n) /\ (r < n => r < n + 1)
  BY <1>1, EngineAssumption DEF Records
<1>6. outcome[n] = "unsent" /\ n >= n
  BY <1>0, <1>1, EngineAssumption DEF Places, Records
<1>7. \A r \in Records : outcome'[r] = IF r = n THEN "fatal" ELSE outcome[r]
  BY <1>0, <1>1
<1>8. AnswersOnce
  BY <1>6, <1>7 DEF AnswersOnce, Undecided
<1>9. Places'
  <2>1. \A j \in Partitions, r \in Records : HasIn(j, r)' => r < next_record'
    BY <1>0, <1>1, <1>3, <1>5 DEF Places
  <2>2. \A r \in Records : outcome'[r] = "unsent" <=> r >= next_record'
    BY <1>0, <1>1, <1>5, <1>7 DEF Places
  <2>3. \A r \in Records : outcome'[r] = "queued" <=> InSomeBatch(r)'
    BY <1>0, <1>4, <1>6, <1>7 DEF Places
  <2>4. \A i, j \in Partitions, r \in Records : WaitsIn(i, r)' /\ WaitsIn(j, r)' => i = j
    BY <1>0, <1>3 DEF Places
  <2> QED BY <2>1, <2>2, <2>3, <2>4 DEF Places
<1> QED BY <1>2, <1>8, <1>9 DEF Settled

(* A record is in one batch of its partition only. *)
LEMMA OneBatch ==
    ASSUME NEW o \in Batch, NEW s \in Seq(Batch), NEW f \in Batch, Queue(o, s, f), NEW r
    PROVE  /\ r \in RecsOf(f) => r \notin RecsOf(o) /\ ~InSealed(r, s)
           /\ r \in RecsOf(o) => ~InSealed(r, s)
           /\ \A i, j \in 1..Len(s) : r \in RecsOf(s[i]) /\ r \in RecsOf(s[j]) => i = j
<1>0. \A i \in 1..Len(s) : s[i] \in Batch
  BY ElementOfSeq
<1>1. r \in RecsOf(f) => r \notin RecsOf(o)
  BY Apart DEF Queue
<1>2. r \in RecsOf(f) => ~InSealed(r, s)
  BY <1>0, Apart DEF Queue, InSealed
<1>3. r \in RecsOf(o) => ~InSealed(r, s)
  BY <1>0, Apart DEF Queue, InSealed
<1>4. \A i, j \in 1..Len(s) : i < j => ~(r \in RecsOf(s[i]) /\ r \in RecsOf(s[j]))
  BY <1>0, Apart DEF Queue
<1>5. \A i, j \in 1..Len(s) : i < j \/ j < i \/ i = j
  OBVIOUS
<1> QED BY <1>1, <1>2, <1>3, <1>4, <1>5

(* The deadline passes. *)
LEMMA ExpirySettles ==
    ASSUME IInv, RInv, NEW k \in Partitions, NEW n \in 0..Len(sealed[k]),
           NEW all \in BOOLEAN, expire(k, n, all)
    PROVE  Settled
<1> DEFINE dead == {sealed[k][i] : i \in 1..n} \cup (IF all THEN {open[k]} ELSE {})
           recs(answer) == UNION {RecsOf(b) : b \in {d \in dead : Timeout(d) = answer}}
           wire == IF in_flight[k].waiting THEN RecsOf(in_flight[k]) ELSE {}
           t == SubSeq(sealed[k], n + 1, Len(sealed[k]))
           f == [in_flight[k] EXCEPT !.waiting = FALSE]
           o == IF all THEN NoBatch ELSE open[k]
<1>0. /\ Queues /\ QueuesInOrder /\ Places
      /\ open[k] \in Batch /\ sealed[k] \in Seq(Batch) /\ in_flight[k] \in Batch
      /\ Queue(open[k], sealed[k], in_flight[k])
      /\ Len(sealed[k]) \in Nat /\ n \in Nat /\ n <= Len(sealed[k])
  BY QueuesOfIInv DEF RInv, Queues, QueuesInOrder
<1>1. /\ outcome' = [r \in Records |->
                IF r \in wire \cup recs("timeout_maybe_written")
                THEN "timeout_maybe_written"
                ELSE IF r \in recs("timeout_not_written")
                THEN "timeout_not_written"
                ELSE outcome[r]]
      /\ sealed' = [sealed EXCEPT ![k] = SubSeq(@, n + 1, Len(@))]
      /\ open' = [open EXCEPT ![k] = IF all THEN NoBatch ELSE @]
      /\ in_flight' = [in_flight EXCEPT ![k].waiting = FALSE]
      /\ next_record' = next_record
      /\ all => n = Len(sealed[k])
  BY DEF expire
<1>2. sealed'[k] = t /\ open'[k] = o /\ in_flight'[k] = f
  BY <1>0, <1>1 DEF Queues
<1>3. f \in Batch /\ f.recs = in_flight[k].recs /\ ~f.waiting
  BY <1>0 DEF Batch
<1>4. \A j \in Partitions : j # k =>
          open'[j] = open[j] /\ sealed'[j] = sealed[j] /\ in_flight'[j] = in_flight[j]
  BY <1>0, <1>1 DEF Queues
<1>5. o \in {open[k], NoBatch}
  OBVIOUS
<1> HIDE DEF f, o, t
<1>6. /\ Queue(o, t, f)
      /\ \A r : InSealed(r, t) <=> \E i \in (n + 1)..Len(sealed[k]) : r \in RecsOf(sealed[k][i])
      /\ \A r : Has(r, o, t, f) => HasIn(k, r)
      /\ \A r : Waits(r, o, t, f) => WaitsIn(k, r)
  <2> DEFINE u == SubSeq(sealed[k], n + 1, Len(sealed[k]))
  <2>1. f.waiting => in_flight[k].waiting
    BY <1>3
  <2>2. /\ Queue(o, u, f)
        /\ \A r : InSealed(r, u) <=> \E i \in (n + 1)..Len(sealed[k]) : r \in RecsOf(sealed[k][i])
        /\ \A r : Has(r, o, u, f) => Has(r, open[k], sealed[k], in_flight[k])
        /\ \A r : Waits(r, o, u, f) => Waits(r, open[k], sealed[k], in_flight[k])
    <3>1. n \in 0..Len(sealed[k])
      OBVIOUS
    <3>2. open[k] \in Batch /\ sealed[k] \in Seq(Batch) /\ in_flight[k] \in Batch
      BY <1>0
    <3>3. Queue(open[k], sealed[k], in_flight[k]) /\ f \in Batch /\ f.recs = in_flight[k].recs
      BY <1>0, <1>3
    <3>4. Queue(o, SubSeq(sealed[k], n + 1, Len(sealed[k])), f)
      BY <1>5, <2>1, <3>1, <3>2, <3>3, SkipQueue, Zenon
    <3>5. \A r : InSealed(r, SubSeq(sealed[k], n + 1, Len(sealed[k]))) <=>
               \E i \in (n + 1)..Len(sealed[k]) : r \in RecsOf(sealed[k][i])
      BY <1>5, <2>1, <3>1, <3>2, <3>3, SkipQueue, Zenon
    <3>6. \A r : Has(r, o, SubSeq(sealed[k], n + 1, Len(sealed[k])), f) =>
               Has(r, open[k], sealed[k], in_flight[k])
      BY <1>5, <2>1, <3>1, <3>2, <3>3, SkipQueue
    <3>7. \A r : Waits(r, o, SubSeq(sealed[k], n + 1, Len(sealed[k])), f) =>
               Waits(r, open[k], sealed[k], in_flight[k])
      BY <1>5, <2>1, <3>1, <3>2, <3>3, SkipQueue
    <3> QED BY <3>4, <3>5, <3>6, <3>7 DEF u
  <2> QED BY <2>2 DEF t, HasIn, WaitsIn
<1>7. Moves
  BY <1>0, <1>2, <1>4, <1>6, SameKeeps DEF Moves, Keeps
<1>8. \A r : (\E a \in {"timeout_maybe_written", "timeout_not_written"} : r \in recs(a)) <=>
                \/ \E i \in 1..n : r \in RecsOf(sealed[k][i])
                \/ all /\ r \in RecsOf(open[k])
  <2>1. \A d : Timeout(d) \in {"timeout_maybe_written", "timeout_not_written"}
    BY DEF Timeout
  <2>2. \A r, a : r \in recs(a) <=> \E b \in dead : Timeout(b) = a /\ r \in RecsOf(b)
    BY Zenon
  <2>3. \A b : b \in dead <=> (\E i \in 1..n : b = sealed[k][i]) \/ (all /\ b = open[k])
    OBVIOUS
  <2> HIDE DEF recs, dead
  <2> QED BY <2>1, <2>2, <2>3
<1>9. ASSUME NEW r \in Records
      PROVE  Leaves(k, r) <=>
                \/ r \in wire
                \/ \E i \in 1..n : r \in RecsOf(sealed[k][i])
                \/ all /\ r \in RecsOf(open[k])
  <2>1. WaitsIn(k, r) <=> r \in RecsOf(open[k]) \/ InSealed(r, sealed[k]) \/ r \in wire
    BY DEF WaitsIn, Waits
  <2>2. Waits(r, o, t, f) <=> r \in RecsOf(o) \/ InSealed(r, t)
    BY <1>3 DEF Waits
  <2>3. InSealed(r, sealed[k]) <=>
           (\E i \in 1..n : r \in RecsOf(sealed[k][i])) \/ InSealed(r, t)
    <3>1. \A i \in 1..Len(sealed[k]) : i \in 1..n \/ i \in (n + 1)..Len(sealed[k])
      BY <1>0
    <3>2. /\ \A i \in 1..n : i \in 1..Len(sealed[k])
          /\ \A i \in (n + 1)..Len(sealed[k]) : i \in 1..Len(sealed[k])
      BY <1>0
    <3> QED BY <1>6, <3>1, <3>2 DEF InSealed
  <2>4. /\ r \in wire => r \notin RecsOf(open[k]) /\ ~InSealed(r, sealed[k])
        /\ r \in RecsOf(open[k]) => ~InSealed(r, sealed[k])
        /\ \A i, j \in 1..Len(sealed[k]) :
              r \in RecsOf(sealed[k][i]) /\ r \in RecsOf(sealed[k][j]) => i = j
    BY <1>0, OneBatch
  <2>5. (\E i \in 1..n : r \in RecsOf(sealed[k][i])) => ~InSealed(r, t)
    <3>1. \A i \in 1..n, j \in (n + 1)..Len(sealed[k]) :
             i # j /\ i \in 1..Len(sealed[k]) /\ j \in 1..Len(sealed[k])
      BY <1>0
    <3> QED BY <1>6, <2>4, <3>1
  <2>6. all => ~InSealed(r, t) /\ r \notin RecsOf(o)
    <3>1. all => (n + 1)..Len(sealed[k]) = {}
      BY <1>0, <1>1
    <3> QED BY <1>6, <3>1, NoRecs DEF o
  <2>7. ~all => o = open[k]
    BY DEF o
  <2> HIDE DEF wire
  <2>8. Leaves(k, r) <=> WaitsIn(k, r) /\ ~Waits(r, o, t, f)
    BY <1>2 DEF Leaves
  <2>9. CASE all
    BY <2>1, <2>2, <2>3, <2>6, <2>8, <2>9
  <2>10. CASE ~all
    BY <2>1, <2>2, <2>3, <2>4, <2>5, <2>7, <2>8, <2>10
  <2> QED BY <2>9, <2>10
<1>10. \A j \in Partitions, r \in Records : j # k => ~Leaves(j, r)
  BY <1>0, <1>4, SameKeeps
<1>11. Tells
  <2> HIDE DEF recs, wire, dead
  <2> SUFFICES ASSUME NEW r \in Records
               PROVE  /\ (\E j \in Partitions : Leaves(j, r)) => outcome'[r] \notin Undecided
                      /\ (\A j \in Partitions : ~Leaves(j, r)) => outcome'[r] = outcome[r]
    BY DEF Tells
  <2>1. (\E j \in Partitions : Leaves(j, r)) <=> Leaves(k, r)
    BY <1>10
  <2>2. Leaves(k, r) <=>
           r \in wire \/ r \in recs("timeout_maybe_written") \/ r \in recs("timeout_not_written")
    BY <1>8, <1>9
  <2> QED BY <1>1, <2>1, <2>2 DEF Undecided
<1> QED BY <1>0, <1>1, <1>7, <1>11, TellingSettles

(* Everything that is not on the wire is given up, and the callers of what *)
(* the partitions W have on the wire are answered too.                     *)
LEMMA DroppingSettles ==
    ASSUME IInv, RInv,
           sealed' = Emptied(sealed, <<>>), open' = Emptied(open, NoBatch),
           NEW W \in SUBSET active,
           \A j \in W : /\ in_flight'[j] \in Batch /\ ~in_flight'[j].waiting
                        /\ \/ in_flight'[j].recs = in_flight[j].recs
                           \/ in_flight'[j] = NoBatch,
           \A j \in Partitions \ W : in_flight'[j] = in_flight[j],
           NEW a, a \notin Undecided,
           outcome' = Answered(UnsentRecs \cup
                        UNION {RecsOf(in_flight[j]) : j \in {i \in W : in_flight[i].waiting}}, a),
           next_record' = next_record
    PROVE  Settled
<1> DEFINE wire == UNION {RecsOf(in_flight[j]) : j \in {i \in W : in_flight[i].waiting}}
           D == UnsentRecs \cup wire
<1>0. Queues /\ QueuesInOrder /\ Places /\ active \subseteq Partitions
  BY QueuesOfIInv DEF RInv, IInv, TypeOK
<1>1. \A r : r \in wire <=> \E j \in W : in_flight[j].waiting /\ r \in RecsOf(in_flight[j])
  BY Zenon
<1>2. \A r : r \in UnsentRecs <=>
         \E j \in active : r \in RecsOf(open[j]) \/ InSealed(r, sealed[j])
  <2>1. ASSUME NEW j \in active
        PROVE  \A b : b \in Unsent(j) <=>
                  b = open[j] \/ \E i \in 1..Len(sealed[j]) : b = sealed[j][i]
    <3>1. sealed[j] \in Seq(Batch)
      BY <1>0 DEF Queues
    <3>2. Range(sealed[j]) = {sealed[j][i] : i \in 1..Len(sealed[j])}
      BY <3>1, RangeEquality
    <3> QED BY <3>2 DEF Unsent
  <2>2. \A r : r \in UnsentRecs <=> \E j \in active : \E b \in Unsent(j) : r \in RecsOf(b)
    BY Zenon DEF UnsentRecs
  <2> QED BY <2>1, <2>2 DEF InSealed
<1> HIDE DEF wire
<1>3. ASSUME NEW j \in Partitions
      PROVE  /\ Queue(open'[j], sealed'[j], in_flight'[j])
             /\ \A r \in Records :
                  /\ Has(r, open'[j], sealed'[j], in_flight'[j]) => HasIn(j, r)
                  /\ Waits(r, open'[j], sealed'[j], in_flight'[j]) => WaitsIn(j, r)
                  /\ Leaves(j, r) <=>
                       /\ j \in active
                       /\ \/ r \in RecsOf(open[j]) \/ InSealed(r, sealed[j])
                          \/ j \in W /\ in_flight[j].waiting /\ r \in RecsOf(in_flight[j])
  <2>0. /\ open[j] \in Batch /\ sealed[j] \in Seq(Batch) /\ in_flight[j] \in Batch
        /\ Queue(open[j], sealed[j], in_flight[j])
    BY <1>0 DEF Queues, QueuesInOrder
  <2>1. CASE j \notin active
    <3>1. open'[j] = open[j] /\ sealed'[j] = sealed[j] /\ in_flight'[j] = in_flight[j]
      BY <2>1 DEF Emptied
    <3> QED BY <1>0, <2>1, <3>1, SameKeeps DEF Keeps
  <2>2. CASE j \in active
    <3> DEFINE g == in_flight'[j]
    <3>1. open'[j] = NoBatch /\ sealed'[j] = <<>>
      BY <2>2 DEF Emptied
    <3>2. g \in Batch /\ (g.recs = in_flight[j].recs \/ g = NoBatch)
      BY <2>0
    <3>3. /\ j \in W => ~g.waiting
          /\ j \notin W => g = in_flight[j]
      OBVIOUS
    <3> HIDE DEF g
    <3>4. /\ Queue(NoBatch, <<>>, g)
          /\ \A r : Has(r, NoBatch, <<>>, g) <=> r \in RecsOf(g)
          /\ \A r : Waits(r, NoBatch, <<>>, g) <=> g.waiting /\ r \in RecsOf(g)
          /\ \A r : r \in RecsOf(g) => r \in RecsOf(in_flight[j])
      BY <2>0, <3>2, DropQueue
    <3>5. \A r \in Records : Has(r, NoBatch, <<>>, g) => HasIn(j, r)
      BY <3>4 DEF HasIn, Has
    <3>6. \A r \in Records : Waits(r, NoBatch, <<>>, g) <=>
             j \notin W /\ in_flight[j].waiting /\ r \in RecsOf(in_flight[j])
      BY <3>3, <3>4
    <3>7. \A r : r \in RecsOf(in_flight[j]) => r \notin RecsOf(open[j]) /\ ~InSealed(r, sealed[j])
      BY <2>0, OneBatch
    <3>8. \A r \in Records : WaitsIn(j, r) <=>
             \/ r \in RecsOf(open[j]) \/ InSealed(r, sealed[j])
             \/ in_flight[j].waiting /\ r \in RecsOf(in_flight[j])
      BY DEF WaitsIn, Waits
    <3>9. in_flight'[j] = g
      BY DEF g
    <3> QED BY <2>2, <3>1, <3>4, <3>5, <3>6, <3>7, <3>8, <3>9 DEF Leaves
  <2> QED BY <2>1, <2>2
<1>4. Moves
  BY <1>3 DEF Moves
<1>5. \A r \in Records : r \in D <=> \E j \in Partitions : Leaves(j, r)
  <2>1. \A r \in Records : r \in D <=>
           \E j \in active :
              \/ r \in RecsOf(open[j]) \/ InSealed(r, sealed[j])
              \/ j \in W /\ in_flight[j].waiting /\ r \in RecsOf(in_flight[j])
    BY <1>1, <1>2
  <2> HIDE DEF D
  <2> QED BY <1>0, <1>3, <2>1
<1>6. \A r \in Records : outcome'[r] = IF r \in D THEN a ELSE outcome[r]
  BY DEF Answered, wire
<1> HIDE DEF D
<1>7. Tells
  BY <1>5, <1>6 DEF Tells
<1> QED BY <1>0, <1>4, <1>7, TellingSettles

(* The batch of k on the wire is done with, and its callers told so. *)
LEMMA LandingSettles ==
    ASSUME IInv, RInv, NEW k \in Partitions, in_flight' = Landed(k),
           open' = open, sealed' = sealed, NEW a, a \notin Undecided, Tell(k, a),
           next_record' = next_record
    PROVE  Settled
<1>0. /\ Queues /\ QueuesInOrder /\ Places
      /\ open[k] \in Batch /\ sealed[k] \in Seq(Batch) /\ in_flight[k] \in Batch
      /\ Queue(open[k], sealed[k], in_flight[k])
  BY QueuesOfIInv DEF RInv, Queues, QueuesInOrder
<1>1. in_flight'[k] = NoBatch /\ \A j \in Partitions : j # k => in_flight'[j] = in_flight[j]
  BY <1>0 DEF Landed, Queues
<1>2. /\ Queue(open[k], sealed[k], NoBatch)
      /\ \A r : Has(r, open[k], sealed[k], NoBatch) => HasIn(k, r)
      /\ \A r : Waits(r, open[k], sealed[k], NoBatch) <=>
                   r \in RecsOf(open[k]) \/ InSealed(r, sealed[k])
  BY <1>0, LandQueue DEF HasIn
<1>3. \A r : Waits(r, open[k], sealed[k], NoBatch) => WaitsIn(k, r)
  BY <1>2 DEF WaitsIn, Waits
<1>4. Moves
  BY <1>0, <1>1, <1>2, <1>3, SameKeeps DEF Moves, Keeps
<1>5. \A r \in Records : Leaves(k, r) <=> in_flight[k].waiting /\ r \in RecsOf(in_flight[k])
  <2>1. \A r : r \in RecsOf(in_flight[k]) => r \notin RecsOf(open[k]) /\ ~InSealed(r, sealed[k])
    BY <1>0, OneBatch
  <2> QED BY <1>1, <1>2, <2>1 DEF Leaves, WaitsIn, Waits
<1>6. \A j \in Partitions, r \in Records : j # k => ~Leaves(j, r)
  BY <1>0, <1>1, SameKeeps
<1>7. \A r \in Records :
        outcome'[r] = IF in_flight[k].waiting /\ r \in RecsOf(in_flight[k]) THEN a ELSE outcome[r]
  BY DEF Tell, Answered
<1>8. Tells
  BY <1>5, <1>6, <1>7 DEF Tells
<1> QED BY <1>0, <1>4, <1>8, TellingSettles

(* It goes back to the front of the queue, whole or in two parts. *)
LEMMA PushingSettles ==
    ASSUME IInv, RInv, NEW k \in Partitions, in_flight[k].waiting,
           in_flight' = Landed(k), open' = open,
           NEW b \in Batch, b.recs = in_flight[k].recs, b.waiting,
           sealed' = Pushed(k, <<b>>),
           outcome' = outcome, next_record' = next_record
    PROVE  Settled
<1>0. /\ Queues /\ QueuesInOrder /\ Places
      /\ open[k] \in Batch /\ sealed[k] \in Seq(Batch) /\ in_flight[k] \in Batch
      /\ Queue(open[k], sealed[k], in_flight[k])
  BY QueuesOfIInv DEF RInv, Queues, QueuesInOrder
<1>1. in_flight'[k] = NoBatch /\ \A j \in Partitions : j # k => in_flight'[j] = in_flight[j]
  BY <1>0 DEF Landed, Queues
<1>2. sealed'[k] = <<b>> \o sealed[k] /\ \A j \in Partitions : j # k => sealed'[j] = sealed[j]
  BY <1>0 DEF Pushed, Queues
<1>3. Keeps(k)
  <2>1. /\ Queue(open[k], <<b>> \o sealed[k], NoBatch)
        /\ \A r : /\ Has(r, open[k], <<b>> \o sealed[k], NoBatch) <=>
                        Has(r, open[k], sealed[k], in_flight[k])
                  /\ Waits(r, open[k], <<b>> \o sealed[k], NoBatch) <=>
                        Waits(r, open[k], sealed[k], in_flight[k])
    BY <1>0, PushQueue
  <2>2. open'[k] = open[k]
    OBVIOUS
  <2> QED BY <1>1, <1>2, <2>1, <2>2 DEF Keeps, HasIn, WaitsIn
<1>4. \A j \in Partitions : Keeps(j)
  BY <1>0, <1>1, <1>2, <1>3, SameKeeps
<1> QED BY <1>0, <1>4, KeepingSettles

(* The batch goes back in two parts when the broker found it too large. *)
LEMMA SplittingSettles ==
    ASSUME IInv, RInv, NEW k \in Partitions, in_flight[k].waiting,
           in_flight' = Landed(k), open' = open,
           NEW m \in 0..Len(in_flight[k].recs),
           NEW b \in Batch, b.recs = SubSeq(in_flight[k].recs, 1, m), b.waiting,
           NEW c \in Batch, c.waiting,
           c.recs = SubSeq(in_flight[k].recs, m + 1, Len(in_flight[k].recs)),
           sealed' = Pushed(k, <<b, c>>),
           outcome' = outcome, next_record' = next_record
    PROVE  Settled
<1>0. /\ Queues /\ QueuesInOrder /\ Places
      /\ open[k] \in Batch /\ sealed[k] \in Seq(Batch) /\ in_flight[k] \in Batch
      /\ Queue(open[k], sealed[k], in_flight[k])
  BY QueuesOfIInv DEF RInv, Queues, QueuesInOrder
<1>1. in_flight'[k] = NoBatch /\ \A j \in Partitions : j # k => in_flight'[j] = in_flight[j]
  BY <1>0 DEF Landed, Queues
<1>2. sealed'[k] = <<b, c>> \o sealed[k] /\ \A j \in Partitions : j # k => sealed'[j] = sealed[j]
  BY <1>0 DEF Pushed, Queues
<1>3. Keeps(k)
  <2>1. /\ Queue(open[k], <<b, c>> \o sealed[k], NoBatch)
        /\ \A r : /\ Has(r, open[k], <<b, c>> \o sealed[k], NoBatch) <=>
                        Has(r, open[k], sealed[k], in_flight[k])
                  /\ Waits(r, open[k], <<b, c>> \o sealed[k], NoBatch) <=>
                        Waits(r, open[k], sealed[k], in_flight[k])
    BY <1>0, HalvesQueue
  <2>2. open'[k] = open[k]
    OBVIOUS
  <2> QED BY <1>1, <1>2, <2>1, <2>2 DEF Keeps, HasIn, WaitsIn
<1>4. \A j \in Partitions : Keeps(j)
  BY <1>0, <1>1, <1>2, <1>3, SameKeeps
<1> QED BY <1>0, <1>4, KeepingSettles

(* One result looked at. *)
LEMMA ResolveSettles ==
    ASSUME IInv, RInv, NEW k \in resolving, NEW o \in BatchOutcome, NEW late \in BOOLEAN,
           resolve(k, o, late)
    PROVE  Settled
<1>0. /\ Queues /\ k \in Partitions /\ in_flight[k] \in Batch /\ k \in active
      /\ next_record' = next_record
  <2>1. Queues /\ resolving \subseteq Partitions /\ active \subseteq Partitions
    BY QueuesOfIInv DEF IInv, TypeOK
  <2>2. Some(in_flight[k])
    BY <2>1 DEF IInv, SlotsMatchRequests
  <2>3. k \in active
    BY <2>1, <2>2 DEF RInv, Active, IsIdle
  <2> QED BY <2>1, <2>3 DEF resolve, Queues
<1>1. ASSUME NEW a, a \notin Undecided, FailLanded(k, a), open' = open, sealed' = sealed
      PROVE  Settled
  BY <1>0, <1>1, LandingSettles DEF FailLanded
<1>2. \A b : Timeout(b) \notin Undecided
  BY DEF Timeout, Undecided
<1>3. /\ Noted(k, o) \in Batch /\ Noted(k, o).recs = in_flight[k].recs
      /\ Noted(k, o).waiting = in_flight[k].waiting
  <2>1. Noted(k, o) \in Batch /\ Noted(k, o).recs = in_flight[k].recs
    BY <1>0, NotedType
  <2>2. Noted(k, o).waiting = in_flight[k].waiting
    BY <1>0 DEF Noted, Batch
  <2> QED BY <2>1, <2>2
<1>4. CASE acknowledge(k, o)
  <2> DEFINE a == IF o.kind = "Unacknowledged" THEN "unacked" ELSE "ok"
  <2>1. Tell(k, a) /\ in_flight' = Landed(k) /\ open' = open /\ sealed' = sealed
    BY <1>4 DEF acknowledge
  <2>2. a \notin Undecided
    BY DEF Undecided
  <2> QED BY <1>0, <2>1, <2>2, LandingSettles
<1>5. CASE retry_or_fail(k, o, late)
  <2>1. CASE Over(k, late)
    BY <1>1, <1>2, <1>5, <2>1 DEF retry_or_fail
  <2>2. CASE ~Over(k, late)
    <3>1. /\ sealed' = Pushed(k, <<Noted(k, o)>>) /\ in_flight' = Landed(k)
          /\ open' = open /\ outcome' = outcome
      BY <1>5, <2>2 DEF retry_or_fail
    <3>2. in_flight[k].waiting
      BY <2>2 DEF Over
    <3> QED BY <1>0, <1>3, <3>1, <3>2, PushingSettles
  <2> QED BY <2>1, <2>2
<1>6. CASE restamp(k, o, late)
  <2>1. CASE Over(k, late)
    BY <1>1, <1>2, <1>6, <2>1 DEF restamp
  <2>2. CASE ~Over(k, late)
    <3> DEFINE b == [Noted(k, o) EXCEPT !.stamp = NoStamp]
    <3>1. /\ sealed' = Pushed(k, <<b>>) /\ in_flight' = Landed(k)
          /\ open' = open /\ outcome' = outcome
      BY <1>6, <2>2 DEF restamp
    <3>2. in_flight[k].waiting
      BY <2>2 DEF Over
    <3>3. b \in Batch /\ b.recs = in_flight[k].recs /\ b.waiting = in_flight[k].waiting
      BY <1>3 DEF Batch, Stamps
    <3> HIDE DEF b
    <3> QED BY <1>0, <3>1, <3>2, <3>3, PushingSettles
  <2> QED BY <2>1, <2>2
<1>7. CASE split(k, o, late)
  <2>1. CASE Over(k, late) \/ in_flight[k].depth >= MAX_SPLIT_DEPTH
    BY <1>1, <1>7, <2>1 DEF split, Undecided
  <2>2. CASE ~(Over(k, late) \/ in_flight[k].depth >= MAX_SPLIT_DEPTH)
    <3> DEFINE recs == in_flight[k].recs
               mid == Len(recs) \div 2
               b == Half(in_flight[k], SubSeq(recs, 1, mid))
               c == Half(in_flight[k], SubSeq(recs, mid + 1, Len(recs)))
    <3>1. /\ sealed' = Pushed(k, <<b, c>>) /\ in_flight' = Landed(k)
          /\ open' = open /\ outcome' = outcome
      BY <1>7, <2>2 DEF split
    <3>2. in_flight[k].waiting
      BY <2>2 DEF Over
    <3>3. recs \in Seq(Records) /\ Len(recs) \in Nat
      BY <1>0 DEF Batch
    <3>4. mid \in Nat /\ mid <= Len(recs)
      BY <3>3, HalfOf
    <3>5. mid \in 0..Len(recs)
      <4> HIDE DEF mid
      <4> QED BY <3>3, <3>4
    <3>6. /\ SubSeq(recs, 1, mid) \in Seq(Records)
          /\ SubSeq(recs, mid + 1, Len(recs)) \in Seq(Records)
      <4> HIDE DEF mid
      <4>1. \A i \in 1..Len(recs) : recs[i] \in Records
        BY <3>3, ElementOfSeq
      <4>2. /\ \A i \in 1..mid : recs[i] \in Records
            /\ \A i \in (mid + 1)..Len(recs) : recs[i] \in Records
        BY <3>3, <3>4, <4>1
      <4> QED BY <3>3, <3>4, <4>2, SubSeqProperties
    <3> HIDE DEF mid
    <3>7. \A q \in Seq(Records) :
            /\ Half(in_flight[k], q) \in Batch
            /\ Half(in_flight[k], q).recs = q
            /\ Half(in_flight[k], q).waiting = in_flight[k].waiting
      <4>1. in_flight[k].depth + 1 \in 0..MAX_SPLIT_DEPTH
        BY <1>0, <2>2, EngineAssumption DEF Batch
      <4> QED BY <1>0, <4>1 DEF Half, Batch, Stamps
    <3>8. /\ b \in Batch /\ b.recs = SubSeq(recs, 1, mid) /\ b.waiting
          /\ c \in Batch /\ c.recs = SubSeq(recs, mid + 1, Len(recs)) /\ c.waiting
      BY <3>2, <3>6, <3>7
    <3> HIDE DEF b, c
    <3> QED BY <1>0, <3>1, <3>2, <3>5, <3>8, SplittingSettles
  <2> QED BY <2>1, <2>2
<1>8. CASE fail(k, o)
  <2>1. Verdict(k, o) = "Fail"
    BY <1>8 DEF fail
  <2>2. o.kind \in {"Answer", "Unwritable", "TooLarge"}
    BY <2>1 DEF Verdict, BatchOutcome, OutcomeKinds
  <2>3. Failure(mode, o.code) \notin Undecided
    BY DEF Failure, Undecided
  <2>4. FailureOf(o) \notin Undecided
    BY <2>2, <2>3 DEF FailureOf, Undecided
  <2> QED BY <1>1, <1>8, <2>4 DEF fail
<1>9. CASE fatal(k, o)
  <2> DEFINE W == {k}
             D == UNION {RecsOf(in_flight[j]) : j \in {i \in W : in_flight[i].waiting}}
  <2>1. /\ sealed' = Emptied(sealed, <<>>) /\ open' = Emptied(open, NoBatch)
        /\ in_flight' = Landed(k)
        /\ outcome' = Answered(UnsentRecs \cup (IF in_flight[k].waiting
                              THEN RecsOf(in_flight[k]) ELSE {}), "fatal")
    BY <1>9 DEF fatal
  <2>2. D = IF in_flight[k].waiting THEN RecsOf(in_flight[k]) ELSE {}
    <3>1. \A r : r \in D <=> in_flight[k].waiting /\ r \in RecsOf(in_flight[k])
      BY Zenon
    <3> HIDE DEF D
    <3> QED BY <3>1
  <2>3. outcome' = Answered(UnsentRecs \cup D, "fatal")
    BY <2>1, <2>2
  <2>4. in_flight'[k] = NoBatch /\ \A j \in Partitions : j # k => in_flight'[j] = in_flight[j]
    BY <1>0, <2>1 DEF Landed, Queues
  <2>5. /\ \A j \in W : /\ in_flight'[j] \in Batch /\ ~in_flight'[j].waiting
                        /\ \/ in_flight'[j].recs = in_flight[j].recs
                           \/ in_flight'[j] = NoBatch
        /\ \A j \in Partitions \ W : in_flight'[j] = in_flight[j]
    BY <2>4, NoRecs
  <2>6. "fatal" \notin Undecided /\ W \in SUBSET active
    BY <1>0 DEF Undecided
  <2> HIDE DEF W
  <2> QED BY <1>0, <2>1, <2>3, <2>5, <2>6, DroppingSettles
<1> QED BY <1>4, <1>5, <1>6, <1>7, <1>8, <1>9 DEF resolve

(* Everything unsent is given up and nothing on the wire is answered. *)
LEMMA UnsentSettles ==
    ASSUME IInv, RInv,
           sealed' = Emptied(sealed, <<>>), open' = Emptied(open, NoBatch),
           in_flight' = in_flight, NEW a, a \notin Undecided,
           outcome' = Answered(UnsentRecs, a), next_record' = next_record
    PROVE  Settled
<1> DEFINE W == {}
           D == UNION {RecsOf(in_flight[j]) : j \in {i \in W : in_flight[i].waiting}}
<1>1. D = {}
  BY Zenon
<1>2. outcome' = Answered(UnsentRecs \cup D, a)
  BY <1>1
<1>3. /\ W \in SUBSET active
      /\ \A j \in W : /\ in_flight'[j] \in Batch /\ ~in_flight'[j].waiting
                      /\ \/ in_flight'[j].recs = in_flight[j].recs
                         \/ in_flight'[j] = NoBatch
      /\ \A j \in Partitions \ W : in_flight'[j] = in_flight[j]
  OBVIOUS
<1> HIDE DEF W
<1> QED BY <1>2, <1>3, DroppingSettles

(* Command::Terminate answers everyone. *)
LEMMA TerminateSettles ==
    ASSUME IInv, RInv, terminate
    PROVE  Settled
<1>0. Queues /\ active \subseteq Partitions
  BY QueuesOfIInv DEF IInv, TypeOK
<1>1. /\ sealed' = Emptied(sealed, <<>>) /\ open' = Emptied(open, NoBatch)
      /\ in_flight' = Released /\ next_record' = next_record
      /\ outcome' = Answered(UnsentRecs \cup InFlightRecs, "closed")
  BY DEF terminate
<1>2. \A j \in active : /\ in_flight'[j] \in Batch /\ ~in_flight'[j].waiting
                        /\ in_flight'[j].recs = in_flight[j].recs
  <2>1. \A j \in active : in_flight[j] \in Batch
    BY <1>0 DEF Queues
  <2>2. \A j \in active : in_flight'[j] = [in_flight[j] EXCEPT !.waiting = FALSE]
    BY <1>0, <1>1 DEF Released
  <2> QED BY <2>1, <2>2 DEF Batch
<1>3. \A j \in Partitions \ active : in_flight'[j] = in_flight[j]
  BY <1>1 DEF Released
<1>4. "closed" \notin Undecided
  BY DEF Undecided
<1> DEFINE W == active
<1>5. outcome' = Answered(UnsentRecs \cup
         UNION {RecsOf(in_flight[j]) : j \in {i \in W : in_flight[i].waiting}}, "closed")
  BY <1>1 DEF InFlightRecs
<1>6. W \in SUBSET active
  OBVIOUS
<1> HIDE DEF W
<1>7. W = active
  BY DEF W
<1> QED BY <1>1, <1>2, <1>3, <1>4, <1>5, <1>6, <1>7, DroppingSettles

(* Every step of the engine. *)
LEMMA NextSettles ==
    ASSUME IInv, RInv, [Next]_vars
    PROVE  Settled
<1>0. QueuesInOrder /\ Places
  BY DEF RInv
<1>1. CASE Command
  <2>1. CASE \E k \in Partitions, g \in 0..MaxFlushes, fits, full \in BOOLEAN :
                append(k, g, fits, full)
    BY <2>1, AppendSettles
  <2>2. CASE append_refused
    BY <2>2, RefusalSettles
  <2>3. CASE \/ \E g \in 0..(MaxFlushes - 1) : flush(g)
             \/ close_channel
    BY <2>3, SealingSettles DEF flush, close_channel
  <2>4. CASE terminate
    BY <2>4, TerminateSettles
  <2> QED BY <1>1, <2>1, <2>2, <2>3, <2>4 DEF Command
<1>2. CASE TxnCommand
  <2>1. CASE fail_unsent
    BY <2>1, UnsentSettles DEF fail_unsent, Undecided
  <2>2. CASE \E id \in FromCoordinator, tv \in {"TV1", "TV2"} : set_identity(id, tv)
    BY <1>0, <2>2, QuietSettles DEF set_identity
  <2> QED BY <1>2, <2>1, <2>2 DEF TxnCommand
<1>3. CASE Timer
  BY <1>3, ExpirySettles DEF Timer
<1>4. CASE Identify
  <2>1. CASE reinit_fatal
    BY <2>1, UnsentSettles DEF reinit_fatal, Undecided
  <2>2. CASE bump_epoch \/ start_reinit \/ reinitialised \/ reinit_failed
    BY <1>0, <2>2, QuietSettles DEF bump_epoch, start_reinit, reinitialised, reinit_failed
  <2> QED BY <1>4, <2>1, <2>2 DEF Identify
<1>5. CASE Drain
  BY <1>5, DrainSettles DEF Drain
<1>6. CASE Complete
  BY <1>0, <1>6, QuietSettles DEF Complete, complete
<1>7. CASE Resolve
  BY <1>7, ResolveSettles, EngineAssumption DEF Resolve
<1>8. CASE stop
  BY <1>0, <1>8, QuietSettles DEF stop
<1>9. CASE UNCHANGED vars
  BY <1>0, <1>9, QuietSettles DEF vars
<1> QED BY <1>1, <1>2, <1>3, <1>4, <1>5, <1>6, <1>7, <1>8, <1>9 DEF Next

-----------------------------------------------------------------------------
(* The partitions with something to do. *)

Busy == \A k \in Partitions : k \notin active => IsIdle(k)

(* `prune` takes out of `active` what has become idle. *)
LEMMA PruneBusy ==
    ASSUME Busy, prune,
           \A k \in Partitions \ active : /\ open'[k] = open[k]
                                          /\ sealed'[k] = sealed[k] /\ in_flight'[k] = in_flight[k]
    PROVE  Busy'
<1>1. active' = {k \in active : ~IsIdle(k)'}
  BY DEF prune
<1>2. \A k \in Partitions \ active : IsIdle(k)'
  BY DEF Busy, IsIdle
<1> QED BY <1>1, <1>2 DEF Busy

(* Only what is in `active` is emptied, released or sealed. *)
LEMMA EmptiedElsewhere ==
    ASSUME NEW k \in Partitions \ active
    PROVE  /\ Emptied(open, NoBatch)[k] = open[k]
           /\ Emptied(sealed, <<>>)[k] = sealed[k]
           /\ Released[k] = in_flight[k]
BY DEF Emptied, Released

(* `active` still covers every partition with work after any step. *)
LEMMA NextBusy ==
    ASSUME IInv, RInv, [Next]_vars
    PROVE  Busy'
<1>0. Queues /\ Busy /\ active \subseteq Partitions
  BY QueuesOfIInv DEF IInv, TypeOK, RInv, Active, Busy
<1>1. ASSUME open' = open, sealed' = sealed, in_flight' = in_flight, active' = active
      PROVE  Busy'
  BY <1>0, <1>1 DEF Busy, IsIdle
<1>2. ASSUME NEW k \in Partitions, NEW g \in 0..MaxFlushes, NEW fits \in BOOLEAN,
             NEW full \in BOOLEAN, append(k, g, fits, full)
      PROVE  Busy'
  <2>1. /\ active' = active \cup {k} /\ in_flight' = in_flight
        /\ \A j \in Partitions : j # k => open'[j] = open[j] /\ sealed'[j] = sealed[j]
    BY <1>0, <1>2 DEF append, Queues
  <2> QED BY <1>0, <2>1 DEF Busy, IsIdle
<1>3. ASSUME SealAll, in_flight' = in_flight, active' = active
      PROVE  Busy'
  <2>1. \A k \in Partitions \ active : open'[k] = open[k] /\ sealed'[k] = sealed[k]
    BY <1>3 DEF SealAll, Emptied
  <2> QED BY <1>0, <1>3, <2>1 DEF Busy, IsIdle
<1>4. CASE terminate \/ fail_unsent
  <2>1. /\ prune /\ sealed' = Emptied(sealed, <<>>) /\ open' = Emptied(open, NoBatch)
        /\ in_flight' = in_flight \/ in_flight' = Released
    BY <1>4 DEF terminate, fail_unsent
  <2> QED BY <1>0, <2>1, PruneBusy, EmptiedElsewhere
<1>5. CASE reinit_fatal
  <2>1. /\ sealed' = Emptied(sealed, <<>>) /\ open' = Emptied(open, NoBatch)
        /\ in_flight' = in_flight /\ active' = active
    BY <1>5 DEF reinit_fatal, keyVars
  <2> QED BY <1>0, <2>1, EmptiedElsewhere DEF Busy, IsIdle
<1>6. ASSUME NEW k \in Partitions, NEW all \in BOOLEAN,
             NEW n \in 0..Len(sealed[k]), expire(k, n, all)
      PROVE  Busy'
  <2>1. k \in active /\ active' = active
    BY <1>6 DEF expire, keyVars
  <2>2. \A j \in Partitions : j # k =>
           open'[j] = open[j] /\ sealed'[j] = sealed[j] /\ in_flight'[j] = in_flight[j]
    BY <1>0, <1>6 DEF expire, Queues
  <2> QED BY <1>0, <2>1, <2>2 DEF Busy, IsIdle
<1>7. ASSUME NEW b \in Brokers, NEW S \in SUBSET Partitions, drain(b, S)
      PROVE  Busy'
  <2>1. S \subseteq active /\ active' = active
    BY <1>7 DEF drain
  <2>2. \A j \in Partitions \ S :
           open'[j] = open[j] /\ sealed'[j] = sealed[j] /\ in_flight'[j] = in_flight[j]
    BY <1>7 DEF drain
  <2> QED BY <1>0, <2>1, <2>2 DEF Busy, IsIdle
<1>8. ASSUME NEW k \in resolving, NEW o \in Outcomes, NEW late \in BOOLEAN,
             resolve(k, o, late)
      PROVE  Busy'
  <2>0. k \in Partitions /\ Some(in_flight[k]) /\ k \in active
    <3>1. k \in Partitions
      BY DEF IInv, TypeOK
    <3>2. Some(in_flight[k])
      BY <3>1 DEF IInv, SlotsMatchRequests
    <3> QED BY <1>0, <3>1, <3>2 DEF Busy, IsIdle
  <2>1. \A j \in Partitions \ active :
           open'[j] = open[j] /\ sealed'[j] = sealed[j] /\ in_flight'[j] = in_flight[j]
    <3>1. in_flight' = Landed(k)
      BY <1>8 DEF resolve, acknowledge, retry_or_fail, restamp, split, fail, fatal, FailLanded
    <3>2. \A j \in Partitions \ active : in_flight'[j] = in_flight[j]
      BY <1>0, <2>0, <3>1 DEF Landed, Queues
    <3>3. \/ open' = open
          \/ open' = Emptied(open, NoBatch)
      BY <1>8 DEF resolve, acknowledge, retry_or_fail, restamp, split, fail, fatal
    <3>4. \/ sealed' = sealed
          \/ sealed' = Emptied(sealed, <<>>)
          \/ \E q : sealed' = Pushed(k, q)
      BY <1>8 DEF resolve, acknowledge, retry_or_fail, restamp, split, fail, fatal
    <3>5. \A q : \A j \in Partitions \ active : Pushed(k, q)[j] = sealed[j]
      BY <1>0, <2>0 DEF Pushed, Queues
    <3>6. \A j \in Partitions \ active : open'[j] = open[j]
      BY <3>3, EmptiedElsewhere
    <3>7. \A j \in Partitions \ active : sealed'[j] = sealed[j]
      BY <3>4, <3>5, EmptiedElsewhere
    <3> QED BY <3>2, <3>6, <3>7
  <2>2. prune \/ active' = active
    BY <1>8 DEF resolve, Looked, keyVars
  <2>3. CASE prune
    BY <1>0, <2>1, <2>3, PruneBusy
  <2>4. CASE active' = active
    BY <1>0, <2>1, <2>4 DEF Busy, IsIdle
  <2> QED BY <2>2, <2>3, <2>4
<1>9. CASE Command
  BY <1>1, <1>2, <1>3, <1>4, <1>9 DEF Command, append_refused, flush, close_channel, keyVars
<1>10. CASE TxnCommand
  BY <1>1, <1>4, <1>10 DEF TxnCommand, set_identity, keyVars
<1>11. CASE Identify
  BY <1>1, <1>5, <1>11 DEF Identify, bump_epoch, start_reinit, reinitialised, reinit_failed,
                           keyVars
<1>12. CASE Complete \/ stop
  BY <1>1, <1>12 DEF Complete, complete, stop, keyVars
<1>13. CASE UNCHANGED vars
  BY <1>1, <1>13 DEF vars
<1> QED BY <1>6, <1>7, <1>8, <1>9, <1>10, <1>11, <1>12, <1>13
        DEF Next, Timer, Drain, Resolve

(* `run` returns with nothing left to do, and does nothing afterwards. *)
AtRest == stopped => active = {} /\ resolving = {}

(* An engine whose `run` has returned stays as it is. *)
LEMMA NextAtRest ==
    ASSUME IInv, RInv, [Next]_vars
    PROVE  AtRest'
<1>0. AtRest /\ stopped \in BOOLEAN
  BY DEF IInv, TypeOK, RInv, Active, AtRest
<1>1. ASSUME stopped' = stopped, ~stopped
      PROVE  AtRest'
  BY <1>1 DEF AtRest
<1>2. CASE stop
  BY <1>2 DEF stop, Idle, AtRest, keyVars
<1>3. CASE UNCHANGED vars
  BY <1>0, <1>3 DEF vars, AtRest
<1>4. CASE Command
  <2>1. ASSUME NEW k, NEW g, NEW fits, NEW full, append(k, g, fits, full)
        PROVE  AtRest'
    BY <1>1, <2>1 DEF append, Idle, loopVars
  <2>2. ASSUME NEW g, flush(g)
        PROVE  AtRest'
    BY <1>1, <2>2 DEF flush, Idle
  <2>3. CASE append_refused \/ terminate \/ close_channel
    BY <1>1, <2>3 DEF append_refused, terminate, close_channel, Idle, loopVars
  <2> QED BY <1>4, <2>1, <2>2, <2>3 DEF Command
<1>5. CASE TxnCommand
  BY <1>1, <1>5 DEF TxnCommand, fail_unsent, set_identity, Idle, loopVars
<1>6. CASE Identify
  BY <1>1, <1>6 DEF Identify, bump_epoch, start_reinit, reinitialised, reinit_failed,
                    reinit_fatal, Idle, loopVars
<1>7. CASE Timer \/ Drain \/ Complete
  BY <1>1, <1>7 DEF Timer, expire, Drain, drain, Complete, complete, Idle, loopVars
<1>8. CASE Resolve
  <2>1. stopped' = stopped /\ resolving # {}
    BY <1>8 DEF Resolve, resolve, loopVars
  <2> QED BY <1>0, <1>1, <2>1 DEF AtRest
<1> QED BY <1>2, <1>3, <1>4, <1>5, <1>6, <1>7, <1>8 DEF Next

-----------------------------------------------------------------------------
(* What a flush has sealed. *)

(* What was sealed stays sealed where no open batch is touched. *)
LEMMA FlushedKept ==
    ASSUME FlushedIsSealed, sealed_through' = sealed_through,
           \A k \in Partitions : open'[k] = open[k] \/ open'[k] = NoBatch
    PROVE  FlushedIsSealed'
BY NoBatchType DEF FlushedIsSealed

(* What a flush covers stays sealed after any step. *)
LEMMA NextFlushed ==
    ASSUME IInv, RInv, [Next]_vars
    PROVE  FlushedIsSealed'
<1>0. Queues /\ FlushedIsSealed /\ Busy /\ sealed_through \in Int /\ MaxFlushes \in Nat
  <2>1. Queues /\ FlushedIsSealed /\ Busy
    BY QueuesOfIInv DEF RInv, Active, Busy
  <2>2. sealed_through \in -1..MaxFlushes /\ MaxFlushes \in Nat
    BY EngineAssumption DEF IInv, TypeOK
  <2>3. sealed_through \in Int
    BY <2>2
  <2> QED BY <2>1, <2>2, <2>3
<1>1. ASSUME sealed_through' = sealed_through, open' = open \/ open' = Emptied(open, NoBatch)
      PROVE  FlushedIsSealed'
  <2>1. \A k \in Partitions : open'[k] = open[k] \/ open'[k] = NoBatch
    BY <1>1 DEF Emptied
  <2> QED BY <1>0, <1>1, <2>1, FlushedKept
<1>2. ASSUME NEW k \in Partitions, NEW g \in 0..MaxFlushes, NEW fits \in BOOLEAN,
             NEW full \in BOOLEAN, append(k, g, fits, full)
      PROVE  FlushedIsSealed'
  <2> DEFINE batch == IF Some(open[k]) /\ fits
                      THEN [open[k] EXCEPT !.recs = Append(@, next_record),
                                           !.gen = IF g > @ THEN g ELSE @]
                      ELSE [NoBatch EXCEPT !.recs = <<next_record>>,
                                           !.waiting = TRUE, !.gen = g]
             seal == full \/ SealNow(g)
  <2>0. open[k] \in Batch /\ open[k].gen \in Int
    <3>1. open[k] \in Batch
      BY <1>0 DEF Queues
    <3> QED BY <3>1 DEF Batch
  <2>1. /\ open' = [open EXCEPT ![k] = IF seal THEN NoBatch ELSE batch]
        /\ sealed_through' = sealed_through
    BY <1>2 DEF append, loopVars
  <2>2. ~seal => batch.gen > sealed_through
    <3>1. CASE Some(open[k]) /\ fits
      <4>1. batch.gen = IF g > open[k].gen THEN g ELSE open[k].gen
        BY <2>0, <3>1 DEF Batch
      <4>2. open[k].gen > sealed_through
        BY <1>0, <3>1 DEF FlushedIsSealed
      <4> HIDE DEF batch
      <4> QED BY <1>0, <2>0, <4>1, <4>2
    <3>2. CASE ~(Some(open[k]) /\ fits)
      <4>1. batch.gen = g
        BY <3>2 DEF NoBatch
      <4>2. ~seal => g > sealed_through
        BY <1>0 DEF SealNow
      <4> QED BY <4>1, <4>2
    <3> QED BY <3>1, <3>2
  <2>3. seal \in BOOLEAN
    BY DEF SealNow
  <2> HIDE DEF batch, seal
  <2>4. /\ open'[k] = IF seal THEN NoBatch ELSE batch
        /\ \A j \in Partitions : j # k => open'[j] = open[j]
    BY <1>0, <2>1 DEF Queues
  <2>5. Some(open'[k]) => open'[k].gen > sealed_through
    BY <2>2, <2>3, <2>4, NoBatchType
  <2> QED BY <1>0, <2>1, <2>4, <2>5 DEF FlushedIsSealed
<1>3. ASSUME SealAll
      PROVE  FlushedIsSealed'
  <2>1. \A k \in Partitions : ~Some(open'[k])
    BY <1>0, <1>3, NoBatchType DEF SealAll, Emptied, Busy, IsIdle
  <2> QED BY <2>1 DEF FlushedIsSealed
<1>4. ASSUME NEW k \in Partitions, NEW all \in BOOLEAN,
             NEW n \in 0..Len(sealed[k]), expire(k, n, all)
      PROVE  FlushedIsSealed'
  <2>1. sealed_through' = sealed_through
    BY <1>4 DEF expire, loopVars
  <2>2. open' = [open EXCEPT ![k] = IF all THEN NoBatch ELSE @]
    BY <1>4 DEF expire
  <2>3. \A j \in Partitions : open'[j] = open[j] \/ open'[j] = NoBatch
    BY <1>0, <2>2 DEF Queues
  <2> QED BY <1>0, <2>1, <2>3, FlushedKept
<1>5. ASSUME NEW b \in Brokers, NEW S \in SUBSET Partitions, drain(b, S)
      PROVE  FlushedIsSealed'
  <2>1. sealed_through' = sealed_through
    BY <1>5 DEF drain, loopVars
  <2>2. \A j \in Partitions : open'[j] = open[j] \/ open'[j] = NoBatch
    BY <1>5 DEF drain
  <2> QED BY <1>0, <2>1, <2>2, FlushedKept
<1>6. CASE Command
  BY <1>1, <1>2, <1>3, <1>6 DEF Command, append_refused, flush, close_channel, terminate, loopVars
<1>7. CASE TxnCommand
  BY <1>1, <1>7 DEF TxnCommand, set_identity, fail_unsent, loopVars
<1>8. CASE Identify
  BY <1>1, <1>8 DEF Identify, bump_epoch, start_reinit, reinitialised, reinit_failed,
                    reinit_fatal, loopVars
<1>9. CASE Complete \/ stop
  BY <1>1, <1>9 DEF Complete, complete, stop, loopVars
<1>10. CASE Resolve
  <2>1. sealed_through' = sealed_through
    BY <1>10 DEF Resolve, resolve, loopVars
  <2>2. open' = open \/ open' = Emptied(open, NoBatch)
    BY <1>10 DEF Resolve, resolve, acknowledge, retry_or_fail, restamp, split, fail, fatal
  <2> QED BY <1>1, <2>1, <2>2
<1>11. CASE UNCHANGED vars
  BY <1>1, <1>11 DEF vars
<1> QED BY <1>4, <1>5, <1>6, <1>7, <1>8, <1>9, <1>10, <1>11 DEF Next, Timer, Drain

-----------------------------------------------------------------------------
(* The invariant and what follows from it. *)

(* The invariant holds of a new engine. *)
LEMMA InitRInv == Init => RInv
<1> SUFFICES ASSUME Init PROVE RInv
  OBVIOUS
<1>1. \A k \in Partitions :
         open[k] = NoBatch /\ sealed[k] = <<>> /\ in_flight[k] = NoBatch
  BY DEF Init
<1>2. 1..Len(<<>>) = {} /\ \A r : ~InSealed(r, <<>>)
  BY DEF InSealed
<1>3. Queue(NoBatch, <<>>, NoBatch)
  BY <1>2, NoRecs, NoBatchType DEF Queue
<1>4. QueuesInOrder
  BY <1>1, <1>3 DEF QueuesInOrder
<1>5. \A k \in Partitions, r \in Records : ~HasIn(k, r) /\ ~WaitsIn(k, r)
  BY <1>1, <1>2, NoRecs DEF HasIn, WaitsIn, Has, Waits
<1>6. next_record = 1 /\ \A r \in Records : outcome[r] = "unsent" /\ r >= 1
  BY EngineAssumption DEF Init, Records
<1>7. Places
  BY <1>5, <1>6 DEF Places, InSomeBatch
<1>8. \A k \in Partitions : IsIdle(k)
  BY <1>1, NoBatchType DEF IsIdle
<1>9. Active
  BY <1>8 DEF Active, Init
<1>10. FlushedIsSealed
  BY <1>1, NoBatchType DEF FlushedIsSealed
<1> QED BY <1>4, <1>7, <1>9, <1>10 DEF RInv

(* Every step of the engine keeps it. *)
LEMMA NextRInv == IInv /\ RInv /\ [Next]_vars => RInv'
<1> SUFFICES ASSUME IInv, RInv, [Next]_vars PROVE RInv'
  OBVIOUS
<1>1. QueuesInOrder' /\ Places'
  BY NextSettles DEF Settled
<1>2. Active'
  BY NextBusy, NextAtRest DEF Busy, AtRest, Active
<1>3. FlushedIsSealed'
  BY NextFlushed
<1> QED BY <1>1, <1>2, <1>3 DEF RInv

(* The inductive invariant about records holds for any numbers of          *)
(* partitions, brokers, records, flushes, splits and requests.             *)
THEOREM RecordsInvariant == Spec => [](IInv /\ RInv)
<1>1. Init => IInv /\ RInv
  BY InitIInv, InitRInv
<1>2. IInv /\ RInv /\ [Next]_vars => (IInv /\ RInv)'
  BY NextIInv, NextRInv
<1> QED BY <1>1, <1>2, PTL DEF Spec

(* An outcome is final: no later answer, deadline, abort, retry or fatal   *)
(* error changes what a caller was told.                                   *)
THEOREM OutcomesAreFinal == Spec => OutcomeFinal
<1>1. IInv /\ RInv /\ [Next]_vars =>
         [\A r \in Records : outcome[r] \notin Undecided => outcome'[r] = outcome[r]]_vars
  <2> SUFFICES ASSUME IInv, RInv, [Next]_vars
               PROVE  \A r \in Records : outcome[r] \notin Undecided => outcome'[r] = outcome[r]
    OBVIOUS
  <2> QED BY NextSettles DEF Settled, AnswersOnce
<1> QED BY <1>1, RecordsInvariant, PTL DEF Spec, OutcomeFinal

(* A flush leaves nothing to wait for linger, also what is sent after it   *)
(* under a generation that it covers.                                      *)
THEOREM FlushSealsAll == Spec => []FlushedIsSealed
<1>1. RInv => FlushedIsSealed
  BY DEF RInv
<1> QED BY <1>1, RecordsInvariant, PTL

(* The batches of a partition, from the wire to the open one. *)
LEMMA LiveElements ==
    ASSUME IInv, NEW k \in Partitions
    PROVE  /\ Len(sealed[k]) \in Nat
           /\ DOMAIN Live(k) = 1..(Len(sealed[k]) + 2)
           /\ Live(k)[1] = in_flight[k]
           /\ Live(k)[Len(sealed[k]) + 2] = open[k]
           /\ \A i \in 2..(Len(sealed[k]) + 1) :
                 Live(k)[i] = sealed[k][i - 1] /\ i - 1 \in 1..Len(sealed[k])
<1> DEFINE s == sealed[k]
           p == <<in_flight[k]>> \o s
<1>1. s \in Seq(Batch) /\ in_flight[k] \in Batch /\ open[k] \in Batch /\ Len(s) \in Nat
  BY QueuesOfIInv DEF Queues
<1> HIDE DEF s
<1>2. /\ p \in Seq(Batch) /\ Len(p) = Len(s) + 1 /\ p[1] = in_flight[k]
      /\ \A i \in 2..(Len(s) + 1) : p[i] = s[i - 1]
  BY <1>1
<1>3. Live(k) = Append(p, open[k])
  <2>1. Live(k) = p \o <<open[k]>>
    BY DEF Live, s
  <2> QED BY <1>1, <1>2, <2>1
<1> HIDE DEF p
<1>4. /\ Len(Append(p, open[k])) = Len(s) + 2
      /\ Append(p, open[k]) \in Seq(Batch)
      /\ \A i \in 1..(Len(s) + 1) : Append(p, open[k])[i] = p[i]
      /\ Append(p, open[k])[Len(s) + 2] = open[k]
  BY <1>1, <1>2
<1>5. \A i \in 2..(Len(s) + 1) : i - 1 \in 1..Len(s) /\ i \in 1..(Len(s) + 1)
  BY <1>1
<1>6. 1 \in 1..(Len(s) + 1)
  BY <1>1
<1> QED BY <1>1, <1>2, <1>3, <1>4, <1>5, <1>6 DEF s

(* A record waits exactly when one of those batches holds it. *)
LEMMA LiveWaits ==
    ASSUME IInv, RInv, NEW k \in Partitions, NEW r \in Records
    PROVE  (\E i \in DOMAIN Live(k) : Live(k)[i].waiting /\ r \in RecsOf(Live(k)[i]))
              <=> WaitsIn(k, r)
<1>0. /\ Queue(open[k], sealed[k], in_flight[k]) /\ open[k] \in Batch
      /\ sealed[k] \in Seq(Batch)
  BY QueuesOfIInv DEF Queues, RInv, QueuesInOrder
<1> DEFINE n == Len(sealed[k])
           L == Live(k)
<1>1. /\ n \in Nat /\ DOMAIN L = 1..(n + 2) /\ L[1] = in_flight[k] /\ L[n + 2] = open[k]
      /\ \A i \in 2..(n + 1) : L[i] = sealed[k][i - 1] /\ i - 1 \in 1..n
  BY LiveElements
<1> HIDE DEF L, n
<1>2. /\ \A i \in 1..(n + 2) : i = 1 \/ i = n + 2 \/ i \in 2..(n + 1)
      /\ 1 \in 1..(n + 2) /\ n + 2 \in 1..(n + 2)
      /\ \A i \in 1..n : i + 1 \in 2..(n + 1) /\ i + 1 \in 1..(n + 2) /\ (i + 1) - 1 = i
  BY <1>1
<1>3. r \in RecsOf(open[k]) => open[k].waiting
  BY <1>0, RecsAre DEF Queue
<1>4. \A i \in 1..n : sealed[k][i].waiting
  BY <1>0 DEF Queue, n
<1>5. InSealed(r, sealed[k]) <=> \E i \in 1..n : r \in RecsOf(sealed[k][i])
  BY DEF InSealed, n
<1>6. ASSUME NEW i \in 1..(n + 2), L[i].waiting, r \in RecsOf(L[i])
      PROVE  WaitsIn(k, r)
  BY <1>1, <1>2, <1>5, <1>6 DEF WaitsIn, Waits
<1>7. ASSUME WaitsIn(k, r)
      PROVE  \E i \in 1..(n + 2) : L[i].waiting /\ r \in RecsOf(L[i])
  <2>1. CASE r \in RecsOf(open[k])
    BY <1>1, <1>2, <1>3, <2>1
  <2>2. CASE in_flight[k].waiting /\ r \in RecsOf(in_flight[k])
    BY <1>1, <1>2, <2>2
  <2>3. CASE InSealed(r, sealed[k])
    <3>1. PICK i \in 1..n : r \in RecsOf(sealed[k][i])
      BY <1>5, <2>3
    <3>2. L[i + 1] = sealed[k][i] /\ i + 1 \in 1..(n + 2)
      BY <1>1, <1>2
    <3> QED BY <1>4, <3>1, <3>2
  <2> QED BY <1>7, <2>1, <2>2, <2>3 DEF WaitsIn, Waits
<1> QED BY <1>1, <1>6, <1>7 DEF L

(* The records are accounted for: each one sent is in one batch, with its  *)
(* caller waiting, or has its outcome; a partition's records are in order; *)
(* the engine stops only when no one waits.                                *)
THEOREM RecordsAlwaysAccounted == Spec => []RecordsAccounted
<1>1. IInv /\ RInv => NothingLost
  <2> SUFFICES ASSUME IInv, RInv, NEW r \in Records
               PROVE  LET holders == {k \in Partitions : \E i \in DOMAIN Live(k) :
                                        Live(k)[i].waiting /\ r \in RecsOf(Live(k)[i])}
                      IN IF outcome[r] = "queued" THEN Cardinality(holders) = 1
                         ELSE holders = {}
    BY DEF NothingLost
  <2> DEFINE holders == {k \in Partitions : \E i \in DOMAIN Live(k) :
                           Live(k)[i].waiting /\ r \in RecsOf(Live(k)[i])}
  <2>1. holders = {k \in Partitions : WaitsIn(k, r)}
    BY LiveWaits
  <2> HIDE DEF holders
  <2>2. /\ outcome[r] = "queued" <=> InSomeBatch(r)
        /\ \A j, k \in Partitions : WaitsIn(j, r) /\ WaitsIn(k, r) => j = k
    BY DEF RInv, Places
  <2>3. CASE outcome[r] = "queued"
    <3>1. PICK k \in Partitions : WaitsIn(k, r)
      BY <2>2, <2>3 DEF InSomeBatch
    <3>2. holders = {k}
      BY <2>1, <2>2, <3>1
    <3>3. Cardinality(holders) = 1
      BY <3>2, FS_Singleton
    <3> QED BY <2>3, <3>3 DEF holders
  <2>4. CASE outcome[r] # "queued"
    <3>1. holders = {}
      BY <2>1, <2>2, <2>4 DEF InSomeBatch
    <3> QED BY <2>4, <3>1 DEF holders
  <2> QED BY <2>3, <2>4
<1>2. IInv /\ RInv => RecordsInOrder
  <2> SUFFICES ASSUME IInv, RInv, NEW k \in Partitions,
                      NEW i \in DOMAIN Live(k), NEW j \in DOMAIN Live(k),
                      NEW a \in DOMAIN Live(k)[i].recs, NEW b \in DOMAIN Live(k)[j].recs,
                      i < j \/ (i = j /\ a < b)
               PROVE  Live(k)[i].recs[a] < Live(k)[j].recs[b]
    BY DEF RecordsInOrder
  <2>0. /\ Queue(open[k], sealed[k], in_flight[k]) /\ open[k] \in Batch
        /\ sealed[k] \in Seq(Batch) /\ in_flight[k] \in Batch
    BY QueuesOfIInv DEF Queues, RInv, QueuesInOrder
  <2> DEFINE n == Len(sealed[k])
             x == Live(k)[i]
             y == Live(k)[j]
  <2>1. /\ n \in Nat /\ i \in 1..(n + 2) /\ j \in 1..(n + 2)
        /\ Live(k)[1] = in_flight[k] /\ Live(k)[n + 2] = open[k]
        /\ \A h \in 2..(n + 1) : Live(k)[h] = sealed[k][h - 1] /\ h - 1 \in 1..n
    BY LiveElements
  <2>2. /\ i = 1 \/ i = n + 2 \/ i \in 2..(n + 1)
        /\ j = 1 \/ j = n + 2 \/ j \in 2..(n + 1)
    <3> HIDE DEF n
    <3> QED BY <2>1
  <2>3. x \in Batch /\ y \in Batch /\ Rising(x)
    BY <2>0, <2>1, <2>2, ElementOfSeq DEF Queue
  <2>4. x.recs[a] \in RecsOf(x) /\ y.recs[b] \in RecsOf(y)
    BY <2>3, RecsAre
  <2>5. CASE i = j
    <3>1. a < b /\ x = y
      BY <2>1, <2>5
    <3> QED BY <2>3, <3>1 DEF Rising
  <2>6. CASE i < j
    <3>1. Before(x, y)
      <4>1. CASE i = 1 /\ j = n + 2
        BY <2>0, <2>1, <4>1 DEF Queue
      <4>2. CASE i = 1 /\ j \in 2..(n + 1)
        BY <2>0, <2>1, <4>2 DEF Queue
      <4>3. CASE i \in 2..(n + 1) /\ j = n + 2
        BY <2>0, <2>1, <4>3 DEF Queue
      <4>4. CASE i \in 2..(n + 1) /\ j \in 2..(n + 1)
        <5>1. i - 1 < j - 1 /\ i - 1 \in 1..n /\ j - 1 \in 1..n
          BY <2>1, <2>6, <4>4
        <5> QED BY <2>0, <2>1, <4>4, <5>1 DEF Queue
      <4>5. ~(i = n + 2) /\ ~(j = 1)
        <5> HIDE DEF n
        <5> QED BY <2>1, <2>6
      <4> QED BY <2>2, <4>1, <4>2, <4>3, <4>4, <4>5
    <3> QED BY <2>4, <3>1 DEF Before
  <2> QED BY <2>5, <2>6
<1>3. IInv /\ RInv => StoppedIsDone
  <2> SUFFICES ASSUME IInv, RInv, stopped, NEW r \in Records, outcome[r] = "queued"
               PROVE  FALSE
    BY DEF StoppedIsDone
  <2>1. PICK k \in Partitions : WaitsIn(k, r)
    BY DEF RInv, Places, InSomeBatch
  <2>2. IsIdle(k)
    BY DEF RInv, Active
  <2>3. open[k] \in Batch /\ in_flight[k] \in Batch
    BY QueuesOfIInv DEF Queues
  <2>4. RecsOf(open[k]) = {} /\ RecsOf(in_flight[k]) = {} /\ sealed[k] = <<>>
    BY <2>2, <2>3, RecsAre DEF IsIdle
  <2>5. ~InSealed(r, <<>>)
    BY DEF InSealed
  <2> QED BY <2>1, <2>4, <2>5 DEF WaitsIn, Waits
<1>4. IInv /\ RInv => RecordsAccounted
  BY <1>1, <1>2, <1>3 DEF RecordsAccounted
<1> QED BY <1>4, RecordsInvariant, PTL

------------------------------------------------------------------------------
(***************************************************************************)
(* A stamp names its records for good: no sequence range of a partition is *)
(* issued twice under one (producer id, epoch), and no record gets two     *)
(* stamps under one identity, for any number of partitions, records,       *)
(* retries, splits, bumps and producer ids, as long as `prune` forgets no  *)
(* partition and the sequence numbers of an epoch do not wrap.             *)
(***************************************************************************)

(* Batch b is in the partition: open o, sealed s, on the wire f. *)
Elem(b, s) == \E i \in 1..Len(s) : b = s[i]
In(b, o, s, f) == b = o \/ b = f \/ Elem(b, s)
InQueue(k, b) == In(b, open[k], sealed[k], in_flight[k])

Issue(k, b) == [key |-> k, stamp |-> b.stamp, recs |-> b.recs]

(* Record r has a stamp under the identity in use. *)
Used(r) == \E x \in issued : x.stamp.generation = ident.generation /\ r \in Range(x.recs)

(* Stamp st was given out before `id` was the identity. *)
Earlier(st, id) ==
    \/ st.producer_id < id.producer_id
    \/ st.producer_id = id.producer_id /\ st.epoch < id.epoch

(* What was issued, against the identities: a generation is one (producer  *)
(* id, epoch), and later ones are greater.                                 *)
Identities ==
    /\ ident.generation = generation
    /\ \A x \in issued :
         /\ x.stamp.generation <= ident.generation
         /\ x.stamp.generation = ident.generation =>
              x.stamp.producer_id = ident.producer_id /\ x.stamp.epoch = ident.epoch
         /\ x.stamp.generation < ident.generation => Earlier(x.stamp, ident)
    /\ \A x, y \in issued :
         x.stamp.producer_id = y.stamp.producer_id /\ x.stamp.epoch = y.stamp.epoch =>
             x.stamp.generation = y.stamp.generation
    /\ identity = "Uninit" => issued = {}
    /\ identity = "Plain" => mode = "Plain"

(* A transactional producer leaves its epochs to its coordinator. *)
CoordinatorsOwn ==
    Transactional(mode) =>
        ~bump_requested /\ ~reinit /\ identity \in {"Uninit", "Ready", "Fatal"}

(* A partition's position is past every range issued under its identity. *)
Positions ==
    \A x \in issued :
        /\ x.key \in partitions
        /\ x.stamp.generation = ident.generation =>
             /\ seq[x.key].generation = ident.generation
             /\ x.stamp.base_sequence + Len(x.recs) <= seq[x.key].next

Ranges ==
    \A x, y \in issued :
        x # y /\ x.key = y.key /\ x.stamp.generation = y.stamp.generation =>
            Covers(x) \cap Covers(y) = {}

SentOnly == \A x \in issued : \A r \in Range(x.recs) : r < next_record

(* A stamped batch went out with its stamp, and a record that is to be     *)
(* stamped has no stamp under this identity: a batch that lost its stamp   *)
(* waits for the next epoch.                                               *)
StampedWasIssued ==
    \A k \in Partitions : \A b : InQueue(k, b) /\ Stamped(b) => Issue(k, b) \in issued
BareIsUnused ==
    ~bump_requested =>
        \A k \in Partitions : \A b : InQueue(k, b) /\ ~Stamped(b) =>
            \A r \in RecsOf(b) : ~Used(r)
WireIsStamped ==
    HasIdentity(mode) => \A k \in Partitions : Some(in_flight[k]) => Stamped(in_flight[k])

UInv ==
    /\ Identities /\ CoordinatorsOwn /\ Positions /\ Ranges /\ StampKept /\ SentOnly
    /\ StampedWasIssued /\ BareIsUnused /\ WireIsStamped

-----------------------------------------------------------------------------
(* Where the batches of a partition come from, in a step that sends none.  *)

(* Batch b has the stamp and the records of one that was there. *)
Comes(k, b) == \E c : InQueue(k, c) /\ c.stamp = b.stamp /\ c.recs = b.recs

(* Batch b has no stamp, and its records had none, or are new, or a bump   *)
(* is due.                                                                 *)
Fresh(k, b) ==
    /\ ~Stamped(b)
    /\ \/ bump_requested'
       \/ \A r \in RecsOf(b) :
             r = next_record \/ \E c : InQueue(k, c) /\ ~Stamped(c) /\ r \in RecsOf(c)

Inherits(k) ==
    \A b : In(b, open'[k], sealed'[k], in_flight'[k]) => Comes(k, b) \/ Fresh(k, b)

(* A batch added at the end. *)
LEMMA ElemAppend ==
    ASSUME NEW s \in Seq(Batch), NEW c \in Batch
    PROVE  \A b : Elem(b, Append(s, c)) => Elem(b, s) \/ b = c
<1> DEFINE t == Append(s, c)
<1>1. /\ Len(t) = Len(s) + 1 /\ Len(s) \in Nat
      /\ \A i \in 1..Len(s) : t[i] = s[i]
      /\ t[Len(s) + 1] = c
  BY AppendProperties
<1> HIDE DEF t
<1>2. \A i \in 1..Len(t) : i \in 1..Len(s) \/ i = Len(s) + 1
  BY <1>1
<1> QED BY <1>1, <1>2 DEF t, Elem

(* Batches taken off the front. *)
LEMMA ElemSkip ==
    ASSUME NEW s \in Seq(Batch), NEW n \in 0..Len(s)
    PROVE  \A b : Elem(b, SubSeq(s, n + 1, Len(s))) => Elem(b, s)
<1> DEFINE t == SubSeq(s, n + 1, Len(s))
<1>1. Len(s) \in Nat /\ n \in Nat
  OBVIOUS
<1>2. \A i \in (n + 1)..Len(s) : s[i] \in Batch
  BY <1>1, ElementOfSeq
<1>3. /\ t \in Seq(Batch)
      /\ Len(t) = IF n + 1 <= Len(s) THEN Len(s) - (n + 1) + 1 ELSE 0
      /\ \A i \in 1..(Len(s) - (n + 1) + 1) : t[i] = s[(n + 1) + i - 1]
  BY <1>1, <1>2, SubSeqProperties
<1> HIDE DEF t
<1>4. ASSUME NEW i \in 1..Len(t)
      PROVE  n + i \in 1..Len(s) /\ t[i] = s[n + i]
  <2>1. i \in 1..(Len(s) - (n + 1) + 1) /\ i \in Nat
    BY <1>1, <1>3, <1>4
  <2>2. t[i] = s[(n + 1) + i - 1]
    BY <1>3, <2>1
  <2>3. (n + 1) + i - 1 = n + i /\ n + i \in 1..Len(s)
    BY <1>1, <2>1
  <2> QED BY <2>2, <2>3
<1> QED BY <1>4 DEF t, Elem

(* Batches put in front. *)
LEMMA ElemConcat ==
    ASSUME NEW p \in Seq(Batch), NEW s \in Seq(Batch)
    PROVE  \A b : Elem(b, p \o s) => Elem(b, p) \/ Elem(b, s)
<1> DEFINE t == p \o s
<1>1. /\ Len(p) \in Nat /\ Len(s) \in Nat /\ Len(t) = Len(p) + Len(s)
      /\ \A i \in 1..Len(t) : t[i] = IF i <= Len(p) THEN p[i] ELSE s[i - Len(p)]
  BY ConcatProperties
<1> HIDE DEF t
<1>2. \A i \in 1..Len(t) : i \in 1..Len(p) \/ (~(i <= Len(p)) /\ i - Len(p) \in 1..Len(s))
  BY <1>1
<1> QED BY <1>1, <1>2 DEF t, Elem

(* There is nothing in the empty queue. *)
LEMMA ElemEmpty == \A b : ~Elem(b, <<>>)
BY DEF Elem

(* The absent batch. *)
LEMMA FreshNone == \A k : Fresh(k, NoBatch)
BY NoRecs, NoBatchType DEF Fresh

(* A batch that stays. *)
LEMMA ComesSelf == \A k, b : InQueue(k, b) => Comes(k, b)
BY DEF Comes

(* Nothing is added: batches stay, are dropped, or have their callers      *)
(* answered.                                                               *)
LEMMA DroppingInherits ==
    ASSUME NEW k, open'[k] = open[k] \/ open'[k] = NoBatch,
           sealed'[k] = sealed[k] \/ sealed'[k] = <<>>,
           in_flight'[k] = NoBatch
             \/ (in_flight'[k].stamp = in_flight[k].stamp
                 /\ in_flight'[k].recs = in_flight[k].recs)
    PROVE  Inherits(k)
<1> SUFFICES ASSUME NEW b, In(b, open'[k], sealed'[k], in_flight'[k])
             PROVE  Comes(k, b) \/ Fresh(k, b)
  BY DEF Inherits
<1>1. CASE b = open'[k]
  BY <1>1, FreshNone, ComesSelf DEF InQueue, In
<1>2. CASE b = in_flight'[k]
  BY <1>2, FreshNone DEF Comes, InQueue, In
<1>3. CASE Elem(b, sealed'[k])
  BY <1>3, ElemEmpty, ComesSelf DEF InQueue, In
<1> QED BY <1>1, <1>2, <1>3 DEF In

(* The open batch is sealed. *)
LEMMA SealingInherits ==
    ASSUME Queues, SealAll, in_flight' = in_flight, NEW k \in Partitions
    PROVE  Inherits(k)
<1>0. open[k] \in Batch /\ sealed[k] \in Seq(Batch)
  BY DEF Queues
<1>1. open'[k] = open[k] \/ open'[k] = NoBatch
  BY DEF SealAll, Emptied
<1>2. sealed'[k] = sealed[k] \/ sealed'[k] = Append(sealed[k], open[k])
  BY DEF SealAll
<1>3. CASE sealed'[k] = sealed[k]
  BY <1>1, <1>3, DroppingInherits
<1>4. CASE sealed'[k] = Append(sealed[k], open[k])
  <2> SUFFICES ASSUME NEW b, In(b, open'[k], sealed'[k], in_flight'[k])
               PROVE  Comes(k, b) \/ Fresh(k, b)
    BY DEF Inherits
  <2>1. CASE b = open'[k]
    BY <1>1, <2>1, FreshNone, ComesSelf DEF InQueue, In
  <2>2. CASE b = in_flight'[k]
    BY <2>2, ComesSelf DEF InQueue, In
  <2>3. CASE Elem(b, sealed'[k])
    <3>1. Elem(b, sealed[k]) \/ b = open[k]
      BY <1>0, <1>4, <2>3, ElemAppend
    <3> QED BY <3>1, ComesSelf DEF InQueue, In
  <2> QED BY <2>1, <2>2, <2>3 DEF In
<1> QED BY <1>2, <1>3, <1>4

(* A record joins a batch or opens one. *)
LEMMA AppendInherits ==
    ASSUME Queues, NEW j \in Partitions, NEW g \in 0..MaxFlushes,
           NEW fits \in BOOLEAN, NEW full \in BOOLEAN, append(j, g, fits, full),
           NEW k \in Partitions
    PROVE  Inherits(k)
<1> DEFINE before == IF fits THEN sealed[j] ELSE Append(sealed[j], open[j])
           batch == IF Some(open[j]) /\ fits
                    THEN [open[j] EXCEPT !.recs = Append(@, next_record),
                                         !.gen = IF g > @ THEN g ELSE @]
                    ELSE [NoBatch EXCEPT !.recs = <<next_record>>,
                                         !.waiting = TRUE, !.gen = g]
           seal == full \/ SealNow(g)
<1>0. /\ open[j] \in Batch /\ sealed[j] \in Seq(Batch) /\ ~Stamped(open[j])
      /\ open \in [Partitions -> Batch] /\ sealed \in [Partitions -> Seq(Batch)]
  BY DEF Queues, Clean
<1>1. /\ sealed' = [sealed EXCEPT ![j] = IF seal THEN Append(before, batch) ELSE before]
      /\ open' = [open EXCEPT ![j] = IF seal THEN NoBatch ELSE batch]
      /\ in_flight' = in_flight /\ next_record \in Records
  BY DEF append
<1>2. CASE j # k
  <2>1. sealed'[k] = sealed[k] /\ open'[k] = open[k]
    BY <1>0, <1>1, <1>2
  <2> QED BY <1>1, <2>1, DroppingInherits
<1>3. CASE j = k
  <2>1. batch \in Batch /\ ~Stamped(batch)
        /\ \A r \in RecsOf(batch) : r = next_record \/ r \in RecsOf(open[k])
    <3>1. CASE Some(open[k]) /\ fits
      <4> DEFINE q == Append(open[k].recs, next_record)
      <4>0. open[k].recs \in Seq(Records)
        BY <1>0, <1>3 DEF Batch
      <4>1. q \in Seq(Records)
        BY <1>1, <4>0
      <4>2. (IF g > open[k].gen THEN g ELSE open[k].gen) \in 0..MaxFlushes
        BY <1>0, <1>3 DEF Batch
      <4>3. batch \in Batch /\ ~Stamped(batch) /\ batch.recs = q
        BY <1>0, <1>3, <3>1, <4>1, <4>2 DEF Batch, Stamped
      <4>4. \A i \in DOMAIN q : q[i] = next_record
               \/ \E m \in DOMAIN open[k].recs : q[i] = open[k].recs[m]
        <5>1. /\ Len(q) = Len(open[k].recs) + 1 /\ Len(open[k].recs) \in Nat
              /\ DOMAIN q = 1..Len(q) /\ DOMAIN open[k].recs = 1..Len(open[k].recs)
              /\ \A i \in 1..Len(open[k].recs) : q[i] = open[k].recs[i]
              /\ q[Len(open[k].recs) + 1] = next_record
          BY <1>1, <4>0, <4>1, AppendProperties
        <5> HIDE DEF q
        <5>2. \A i \in DOMAIN q : i \in DOMAIN open[k].recs \/ i = Len(open[k].recs) + 1
          BY <5>1
        <5> QED BY <5>1, <5>2
      <4> HIDE DEF q, batch
      <4>5. \A r \in RecsOf(batch) : \E i \in DOMAIN q : r = q[i]
        BY <4>3, RecsAre
      <4>6. \A m \in DOMAIN open[k].recs : open[k].recs[m] \in RecsOf(open[k])
        BY <1>0, <1>3, RecsAre
      <4> QED BY <4>3, <4>4, <4>5, <4>6
    <3>2. CASE ~(Some(open[k]) /\ fits)
      <4>1. <<next_record>> \in Seq(Records)
        BY <1>1
      <4>2. batch \in Batch /\ ~Stamped(batch) /\ batch.recs = <<next_record>>
        BY <1>3, <3>2, <4>1, NoBatchType DEF Batch, Stamped
      <4> HIDE DEF batch
      <4>3. DOMAIN batch.recs = {1} /\ batch.recs[1] = next_record
        BY <4>2
      <4> QED BY <4>2, <4>3, RecsAre
    <3> QED BY <3>1, <3>2
  <2>2. before \in Seq(Batch) /\ \A b : Elem(b, before) => InQueue(k, b)
    <3>1. \A b : Elem(b, Append(sealed[j], open[j])) => Elem(b, sealed[j]) \/ b = open[j]
      BY <1>0, ElemAppend
    <3>2. Append(sealed[j], open[j]) \in Seq(Batch)
      BY <1>0
    <3> QED BY <1>0, <1>3, <3>1, <3>2 DEF InQueue, In
  <2>3. /\ sealed'[k] = before \/ sealed'[k] = Append(before, batch)
        /\ open'[k] = NoBatch \/ open'[k] = batch
    BY <1>0, <1>1, <1>3
  <2> HIDE DEF before, batch, seal
  <2>4. Fresh(k, batch)
    BY <1>0, <1>3, <2>1 DEF Fresh, InQueue, In
  <2> SUFFICES ASSUME NEW b, In(b, open'[k], sealed'[k], in_flight'[k])
               PROVE  Comes(k, b) \/ Fresh(k, b)
    BY DEF Inherits
  <2>5. CASE b = open'[k]
    BY <2>3, <2>4, <2>5, FreshNone
  <2>6. CASE b = in_flight'[k]
    BY <1>1, <2>6, ComesSelf DEF InQueue, In
  <2>7. CASE Elem(b, sealed'[k])
    <3>1. Elem(b, before) \/ b = batch
      BY <2>1, <2>2, <2>3, <2>7, ElemAppend
    <3> QED BY <2>2, <2>4, <3>1, ComesSelf
  <2> QED BY <2>5, <2>6, <2>7 DEF In
<1> QED BY <1>2, <1>3

(* The deadline passes. *)
LEMMA ExpiryInherits ==
    ASSUME Queues, NEW j \in Partitions, NEW all \in BOOLEAN,
           NEW n \in 0..Len(sealed[j]), expire(j, n, all), NEW k \in Partitions
    PROVE  Inherits(k)
<1>0. /\ open \in [Partitions -> Batch] /\ sealed \in [Partitions -> Seq(Batch)]
      /\ in_flight \in [Partitions -> Batch]
  BY DEF Queues
<1>1. /\ sealed' = [sealed EXCEPT ![j] = SubSeq(@, n + 1, Len(@))]
      /\ open' = [open EXCEPT ![j] = IF all THEN NoBatch ELSE @]
      /\ in_flight' = [in_flight EXCEPT ![j].waiting = FALSE]
  BY DEF expire
<1>2. in_flight'[k].stamp = in_flight[k].stamp /\ in_flight'[k].recs = in_flight[k].recs
  BY <1>0, <1>1 DEF Batch
<1>3. open'[k] = open[k] \/ open'[k] = NoBatch
  BY <1>0, <1>1
<1>4. CASE j # k
  <2>1. sealed'[k] = sealed[k]
    BY <1>0, <1>1, <1>4
  <2> QED BY <1>2, <1>3, <2>1, DroppingInherits
<1>5. CASE j = k
  <2>1. sealed'[k] = SubSeq(sealed[k], n + 1, Len(sealed[k]))
    BY <1>0, <1>1, <1>5
  <2>2. \A b : Elem(b, sealed'[k]) => Elem(b, sealed[k])
    BY <1>0, <1>5, <2>1, ElemSkip
  <2> SUFFICES ASSUME NEW b, In(b, open'[k], sealed'[k], in_flight'[k])
               PROVE  Comes(k, b) \/ Fresh(k, b)
    BY DEF Inherits
  <2>3. CASE b = open'[k]
    BY <1>3, <2>3, FreshNone, ComesSelf DEF InQueue, In
  <2>4. CASE b = in_flight'[k]
    BY <1>2, <2>4 DEF Comes, InQueue, In
  <2>5. CASE Elem(b, sealed'[k])
    BY <2>2, <2>5, ComesSelf DEF InQueue, In
  <2> QED BY <2>3, <2>4, <2>5 DEF In
<1> QED BY <1>4, <1>5

(* What was on the wire goes back to the front of the queue, as p. *)
LEMMA PushingInherits ==
    ASSUME Queues, NEW j \in Partitions, open' = open, in_flight' = Landed(j),
           NEW p \in Seq(Batch), sealed' = Pushed(j, p),
           \A b : Elem(b, p) => Comes(j, b) \/ Fresh(j, b),
           NEW k \in Partitions
    PROVE  Inherits(k)
<1>0. /\ sealed \in [Partitions -> Seq(Batch)] /\ in_flight \in [Partitions -> Batch]
  BY DEF Queues
<1>1. CASE j # k
  <2>1. sealed'[k] = sealed[k] /\ in_flight'[k] = in_flight[k] /\ open'[k] = open[k]
    BY <1>0, <1>1 DEF Pushed, Landed
  <2> QED BY <2>1, DroppingInherits
<1>2. CASE j = k
  <2>1. sealed'[k] = p \o sealed[k] /\ in_flight'[k] = NoBatch
    BY <1>0, <1>2 DEF Pushed, Landed
  <2>2. sealed[k] \in Seq(Batch)
    BY <1>0
  <2>3. \A b : Elem(b, sealed'[k]) => Elem(b, p) \/ Elem(b, sealed[k])
    BY <2>1, <2>2, ElemConcat
  <2> SUFFICES ASSUME NEW b, In(b, open'[k], sealed'[k], in_flight'[k])
               PROVE  Comes(k, b) \/ Fresh(k, b)
    BY DEF Inherits
  <2>4. CASE b = open'[k]
    BY <2>4, ComesSelf DEF InQueue, In
  <2>5. CASE b = in_flight'[k]
    BY <2>1, <2>5, FreshNone
  <2>6. CASE Elem(b, sealed'[k])
    BY <1>2, <2>3, <2>6, ComesSelf DEF InQueue, In
  <2> QED BY <2>4, <2>5, <2>6 DEF In
<1> QED BY <1>1, <1>2

(* One batch, and two. *)
LEMMA ElemShort ==
    /\ \A c : \A b : Elem(b, <<c>>) => b = c
    /\ \A c, d : \A b : Elem(b, <<c, d>>) => b = c \/ b = d
<1>1. \A c : Len(<<c>>) = 1 /\ \A i \in 1..1 : <<c>>[i] = c
  OBVIOUS
<1>2. \A c, d : Len(<<c, d>>) = 2 /\ \A i \in 1..2 : <<c, d>>[i] = c \/ <<c, d>>[i] = d
  OBVIOUS
<1> QED BY <1>1, <1>2 DEF Elem

(* The halves of a batch have no stamp and no other records. *)
LEMMA HalvesOf ==
    ASSUME NEW f \in Batch, f.depth < MAX_SPLIT_DEPTH
    PROVE  LET mid == Len(f.recs) \div 2
               b == Half(f, SubSeq(f.recs, 1, mid))
               c == Half(f, SubSeq(f.recs, mid + 1, Len(f.recs)))
           IN /\ b \in Batch /\ ~Stamped(b) /\ RecsOf(b) \subseteq RecsOf(f)
              /\ c \in Batch /\ ~Stamped(c) /\ RecsOf(c) \subseteq RecsOf(f)
<1> DEFINE recs == f.recs
           mid == Len(recs) \div 2
           low == SubSeq(recs, 1, mid)
           high == SubSeq(recs, mid + 1, Len(recs))
<1>1. recs \in Seq(Records) /\ Len(recs) \in Nat
  BY DEF Batch
<1>2. mid \in Nat /\ mid <= Len(recs)
  BY <1>1, HalfOf
<1> HIDE DEF mid
<1>3. \A i \in 1..Len(recs) : recs[i] \in Records /\ recs[i] \in RecsOf(f)
  <2>1. DOMAIN recs = 1..Len(recs)
    BY <1>1
  <2>2. \A i \in DOMAIN recs : recs[i] \in RecsOf(f)
    BY RecsAre
  <2> QED BY <1>1, <2>1, <2>2, ElementOfSeq
<1>4. /\ \A i \in 1..mid : recs[i] \in Records
      /\ \A i \in (mid + 1)..Len(recs) : recs[i] \in Records
  BY <1>1, <1>2, <1>3
<1>5. /\ low \in Seq(Records) /\ high \in Seq(Records)
      /\ Len(low) = IF 1 <= mid THEN mid - 1 + 1 ELSE 0
      /\ \A i \in 1..(mid - 1 + 1) : low[i] = recs[1 + i - 1]
      /\ Len(high) = IF mid + 1 <= Len(recs) THEN Len(recs) - (mid + 1) + 1 ELSE 0
      /\ \A i \in 1..(Len(recs) - (mid + 1) + 1) : high[i] = recs[(mid + 1) + i - 1]
  BY <1>1, <1>2, <1>4, SubSeqProperties
<1> HIDE DEF low, high
<1>6. \A i \in 1..Len(low) : low[i] \in RecsOf(f)
  <2>1. \A i \in 1..Len(low) : i \in 1..(mid - 1 + 1) /\ 1 + i - 1 \in 1..Len(recs)
    BY <1>1, <1>2, <1>5
  <2> QED BY <1>3, <1>5, <2>1
<1>7. \A i \in 1..Len(high) : high[i] \in RecsOf(f)
  <2>1. \A i \in 1..Len(high) : /\ i \in 1..(Len(recs) - (mid + 1) + 1)
                                /\ (mid + 1) + i - 1 \in 1..Len(recs)
    BY <1>1, <1>2, <1>5
  <2> QED BY <1>3, <1>5, <2>1
<1>8. \A q \in Seq(Records) :
        Half(f, q) \in Batch /\ Half(f, q).recs = q /\ ~Stamped(Half(f, q))
  <2>1. f.depth + 1 \in 0..MAX_SPLIT_DEPTH
    BY EngineAssumption DEF Batch
  <2> QED BY <2>1 DEF Half, Batch, Stamps, Stamped
<1>9. \A q \in Seq(Records) :
        (\A i \in 1..Len(q) : q[i] \in RecsOf(f)) => RecsOf(Half(f, q)) \subseteq RecsOf(f)
  <2> SUFFICES ASSUME NEW q \in Seq(Records), \A i \in 1..Len(q) : q[i] \in RecsOf(f),
                      NEW r \in RecsOf(Half(f, q))
               PROVE  r \in RecsOf(f)
    OBVIOUS
  <2>1. \E i \in DOMAIN q : r = q[i]
    BY <1>8, RecsAre
  <2>2. DOMAIN q = 1..Len(q)
    OBVIOUS
  <2> QED BY <2>1, <2>2
<1>10. /\ Half(f, low) \in Batch /\ ~Stamped(Half(f, low))
       /\ RecsOf(Half(f, low)) \subseteq RecsOf(f)
       /\ Half(f, high) \in Batch /\ ~Stamped(Half(f, high))
       /\ RecsOf(Half(f, high)) \subseteq RecsOf(f)
  BY <1>5, <1>6, <1>7, <1>8, <1>9
<1> QED BY <1>10, Zenon DEF low, high, mid

(* One result looked at. *)
LEMMA ResolveInherits ==
    ASSUME Queues, NEW j \in Partitions, NEW o \in BatchOutcome, NEW late \in BOOLEAN,
           resolve(j, o, late), NEW k \in Partitions
    PROVE  Inherits(k)
<1>0. /\ in_flight[j] \in Batch /\ in_flight \in [Partitions -> Batch]
      /\ sealed \in [Partitions -> Seq(Batch)]
  BY DEF Queues
<1>1. in_flight' = Landed(j)
  BY DEF resolve, acknowledge, retry_or_fail, restamp, split, fail, fatal, FailLanded
<1>2. in_flight'[k] = in_flight[k] \/ in_flight'[k] = NoBatch
  BY <1>0, <1>1 DEF Landed
<1>3. ASSUME open' = open, sealed' = sealed
      PROVE  Inherits(k)
  BY <1>2, <1>3, DroppingInherits
<1>4. /\ Noted(j, o) \in Batch /\ Noted(j, o).stamp = in_flight[j].stamp
      /\ Noted(j, o).recs = in_flight[j].recs
  BY NotedType
<1>5. CASE acknowledge(j, o) \/ fail(j, o)
  BY <1>3, <1>5 DEF acknowledge, fail
<1>6. CASE fatal(j, o)
  <2>1. /\ open'[k] = open[k] \/ open'[k] = NoBatch
        /\ sealed'[k] = sealed[k] \/ sealed'[k] = <<>>
    BY <1>6 DEF fatal, Emptied
  <2> QED BY <1>2, <2>1, DroppingInherits
<1>7. CASE retry_or_fail(j, o, late)
  <2> DEFINE p == <<Noted(j, o)>>
  <2>1. open' = open /\ (sealed' = sealed \/ sealed' = Pushed(j, p))
    BY <1>7 DEF retry_or_fail
  <2>2. p \in Seq(Batch)
    BY <1>4
  <2>3. Comes(j, Noted(j, o))
    BY <1>4 DEF Comes, InQueue, In
  <2>4. \A b : Elem(b, p) => Comes(j, b) \/ Fresh(j, b)
    BY <2>3, ElemShort
  <2> HIDE DEF p
  <2> QED BY <1>1, <1>3, <2>1, <2>2, <2>4, PushingInherits
<1>8. CASE restamp(j, o, late)
  <2> DEFINE c == [Noted(j, o) EXCEPT !.stamp = NoStamp]
             p == <<c>>
  <2>1. open' = open /\ (sealed' = sealed \/ (sealed' = Pushed(j, p) /\ bump_requested'))
    BY <1>8 DEF restamp
  <2>2. c \in Batch /\ ~Stamped(c)
    BY <1>4 DEF Batch, Stamps, Stamped
  <2> HIDE DEF c
  <2>3. p \in Seq(Batch)
    BY <2>2
  <2>4. bump_requested' => Fresh(j, c)
    BY <2>2 DEF Fresh
  <2>5. bump_requested' => \A b : Elem(b, p) => Comes(j, b) \/ Fresh(j, b)
    BY <2>4, ElemShort
  <2> HIDE DEF p
  <2> QED BY <1>1, <1>3, <2>1, <2>3, <2>5, PushingInherits
<1>9. CASE split(j, o, late)
  <2> DEFINE f == in_flight[j]
             mid == Len(f.recs) \div 2
             b == Half(f, SubSeq(f.recs, 1, mid))
             c == Half(f, SubSeq(f.recs, mid + 1, Len(f.recs)))
             p == <<b, c>>
  <2>1. /\ open' = open
        /\ \/ sealed' = sealed
           \/ /\ sealed' = Pushed(j, p) /\ ~(f.depth >= MAX_SPLIT_DEPTH)
              /\ bump_requested' = (bump_requested \/ Stamped(f))
    BY <1>9 DEF split
  <2>2. CASE sealed' = sealed
    BY <1>3, <2>1, <2>2
  <2>3. CASE /\ sealed' = Pushed(j, p) /\ ~(f.depth >= MAX_SPLIT_DEPTH)
             /\ bump_requested' = (bump_requested \/ Stamped(f))
    <3>1. f.depth < MAX_SPLIT_DEPTH
      BY <1>0, <2>3, EngineAssumption DEF Batch
    <3>2. /\ b \in Batch /\ ~Stamped(b) /\ RecsOf(b) \subseteq RecsOf(f)
          /\ c \in Batch /\ ~Stamped(c) /\ RecsOf(c) \subseteq RecsOf(f)
      BY <1>0, <3>1, HalvesOf
    <3> HIDE DEF b, c
    <3>3. p \in Seq(Batch)
      BY <3>2
    <3>4. Fresh(j, b) /\ Fresh(j, c)
      <4>1. InQueue(j, f)
        BY DEF InQueue, In
      <4>2. Stamped(f) => bump_requested'
        BY <2>3
      <4> QED BY <3>2, <4>1, <4>2 DEF Fresh
    <3>5. \A x : Elem(x, p) => Comes(j, x) \/ Fresh(j, x)
      BY <3>4, ElemShort
    <3> HIDE DEF p
    <3> QED BY <1>1, <2>1, <2>3, <3>3, <3>5, PushingInherits
  <2> QED BY <2>1, <2>2, <2>3
<1> QED BY <1>5, <1>6, <1>7, <1>8, <1>9 DEF resolve

(* Every step that sends nothing. *)
LEMMA NextInherits ==
    ASSUME IInv, [Next]_vars, ~Drain, NEW k \in Partitions
    PROVE  Inherits(k)
<1>0. Queues /\ in_flight[k] \in Batch /\ resolving \subseteq Partitions
  BY QueuesOfIInv DEF Queues, IInv, TypeOK
<1>1. ASSUME open'[k] = open[k] \/ open'[k] = NoBatch,
             sealed'[k] = sealed[k] \/ sealed'[k] = <<>>,
             in_flight'[k].stamp = in_flight[k].stamp,
             in_flight'[k].recs = in_flight[k].recs
      PROVE  Inherits(k)
  BY <1>1, DroppingInherits
<1>2. CASE Command
  <2>1. ASSUME NEW j \in Partitions, NEW g \in 0..MaxFlushes, NEW fits \in BOOLEAN,
               NEW full \in BOOLEAN, append(j, g, fits, full)
        PROVE  Inherits(k)
    BY <1>0, <2>1, AppendInherits
  <2>2. CASE append_refused
    BY <1>1, <2>2 DEF append_refused
  <2>3. CASE close_channel
    BY <1>0, <2>3, SealingInherits DEF close_channel
  <2>4. ASSUME NEW g \in 0..(MaxFlushes - 1), flush(g)
        PROVE  Inherits(k)
    BY <1>0, <2>4, SealingInherits DEF flush
  <2>5. CASE terminate
    <3>1. /\ in_flight'[k].stamp = in_flight[k].stamp
          /\ in_flight'[k].recs = in_flight[k].recs
      BY <1>0, <2>5 DEF terminate, Released, Batch
    <3>2. /\ open'[k] = open[k] \/ open'[k] = NoBatch
          /\ sealed'[k] = sealed[k] \/ sealed'[k] = <<>>
      BY <2>5 DEF terminate, Emptied
    <3> QED BY <1>1, <3>1, <3>2
  <2> QED BY <1>2, <2>1, <2>2, <2>3, <2>4, <2>5 DEF Command
<1>3. CASE TxnCommand
  <2>1. /\ in_flight'[k] = in_flight[k]
        /\ open'[k] = open[k] \/ open'[k] = NoBatch
        /\ sealed'[k] = sealed[k] \/ sealed'[k] = <<>>
    BY <1>3 DEF TxnCommand, fail_unsent, set_identity, Emptied
  <2> QED BY <1>1, <2>1
<1>4. CASE Timer
  BY <1>0, <1>4, ExpiryInherits DEF Timer
<1>5. CASE Identify
  <2>1. /\ in_flight'[k] = in_flight[k]
        /\ open'[k] = open[k] \/ open'[k] = NoBatch
        /\ sealed'[k] = sealed[k] \/ sealed'[k] = <<>>
    BY <1>5 DEF Identify, bump_epoch, start_reinit, reinitialised, reinit_failed,
                reinit_fatal, Emptied
  <2> QED BY <1>1, <2>1
<1>6. CASE Complete \/ stop
  BY <1>1, <1>6 DEF Complete, complete, stop
<1>7. CASE Resolve
  BY <1>0, <1>7, ResolveInherits, EngineAssumption DEF Resolve
<1>8. CASE UNCHANGED vars
  BY <1>1, <1>8 DEF vars
<1> QED BY <1>2, <1>3, <1>4, <1>5, <1>6, <1>7, <1>8 DEF Next

-----------------------------------------------------------------------------
(* What a step does to the identity, the positions and the history. *)

(* A verdict of a transactional producer never asks for another epoch. *)
LEMMA TransactionalVerdict ==
    ASSUME Transactional(mode), NEW k, NEW o \in BatchOutcome
    PROVE  Verdict(k, o) \notin {"Restamp", "Split"}
<1>0. mode # "Idempotent" /\ mode # "Plain" /\ mode \in {"TV1", "TV2"}
  BY DEF Transactional
<1>1. \A ctx, start : ctx.mode = mode => classify(ctx, o.code, start) \notin {"Restamp", "Split"}
  <2> SUFFICES ASSUME NEW ctx, NEW start, ctx.mode = mode
               PROVE  classify(ctx, o.code, start) \notin {"Restamp", "Split"}
    OBVIOUS
  <2> QED BY <1>0 DEF classify, Transactional, HasIdentity
<1> QED BY <1>0, <1>1 DEF Verdict, BatchOutcome, OutcomeKinds

(* A transactional producer stays one. *)
LEMMA ModeStep ==
    ASSUME IInv, [Next]_vars
    PROVE  /\ mode' = mode \/ (Transactional(mode) /\ Transactional(mode'))
           /\ Transactional(mode') => Transactional(mode)
           /\ HasIdentity(mode') => HasIdentity(mode)
<1>1. CASE TxnCommand
  BY <1>1 DEF TxnCommand, fail_unsent, set_identity, identityVars, Transactional, HasIdentity
<1>2. CASE ~TxnCommand
  <2>1. mode' = mode
    <3>1. CASE Command
      <4>1. ASSUME NEW k \in Partitions, NEW g \in 0..MaxFlushes, NEW fits \in BOOLEAN,
                   NEW full \in BOOLEAN, append(k, g, fits, full)
            PROVE  mode' = mode
        BY <4>1 DEF append, identityVars
      <4>2. ASSUME NEW g \in 0..(MaxFlushes - 1), flush(g)
            PROVE  mode' = mode
        BY <4>2 DEF flush, identityVars
      <4>3. CASE append_refused \/ terminate \/ close_channel
        BY <4>3 DEF append_refused, terminate, close_channel, identityVars
      <4> QED BY <3>1, <4>1, <4>2, <4>3 DEF Command
    <3>2. CASE Timer \/ Identify
      BY <3>2 DEF Timer, expire, Identify, bump_epoch, start_reinit, reinitialised,
                  reinit_failed, reinit_fatal, identityVars
    <3>3. CASE Drain \/ Complete \/ stop
      BY <3>3 DEF Drain, drain, Complete, complete, stop, identityVars
    <3>4. CASE Resolve
      BY <3>4 DEF Resolve, resolve, acknowledge, retry_or_fail, restamp, split, fail, fatal,
                  identityVars
    <3>5. CASE UNCHANGED vars
      BY <3>5 DEF vars
    <3> QED BY <1>2, <3>1, <3>2, <3>3, <3>4, <3>5 DEF Next
  <2> QED BY <2>1
<1> QED BY <1>1, <1>2

(* The coordinator keeps the epochs of a transactional producer. *)
LEMMA NextCoordinators ==
    ASSUME IInv, CoordinatorsOwn, [Next]_vars
    PROVE  CoordinatorsOwn'
<1> SUFFICES ASSUME Transactional(mode')
             PROVE  ~bump_requested' /\ ~reinit' /\ identity' \in {"Uninit", "Ready", "Fatal"}
  BY DEF CoordinatorsOwn
<1>0. /\ Transactional(mode) /\ mode # "Idempotent" /\ resolving \subseteq Partitions
      /\ ~bump_requested /\ ~reinit /\ identity \in {"Uninit", "Ready", "Fatal"}
  BY ModeStep DEF CoordinatorsOwn, Transactional, IInv, TypeOK
<1>1. \A S : SpendStamps(S) => ~bump_requested'
  BY <1>0 DEF SpendStamps
<1>2. CASE Command
  <2>1. CASE terminate
    BY <1>0, <1>1, <2>1 DEF terminate
  <2>2. ASSUME NEW k \in Partitions, NEW g \in 0..MaxFlushes, NEW fits \in BOOLEAN,
               NEW full \in BOOLEAN, append(k, g, fits, full)
        PROVE  ~bump_requested' /\ ~reinit' /\ identity' \in {"Uninit", "Ready", "Fatal"}
    BY <1>0, <2>2 DEF append, identityVars, stampVars
  <2>3. CASE append_refused \/ close_channel
    BY <1>0, <2>3 DEF append_refused, close_channel, identityVars, stampVars
  <2>4. ASSUME NEW g \in 0..(MaxFlushes - 1), flush(g)
        PROVE  ~bump_requested' /\ ~reinit' /\ identity' \in {"Uninit", "Ready", "Fatal"}
    BY <1>0, <2>4 DEF flush, identityVars, stampVars
  <2> QED BY <1>2, <2>1, <2>2, <2>3, <2>4 DEF Command
<1>3. CASE TxnCommand
  <2>1. CASE fail_unsent
    BY <1>0, <1>1, <2>1 DEF fail_unsent, identityVars
  <2>2. ASSUME NEW id \in FromCoordinator, NEW tv \in {"TV1", "TV2"}, set_identity(id, tv)
        PROVE  ~bump_requested' /\ ~reinit' /\ identity' \in {"Uninit", "Ready", "Fatal"}
    BY <1>0, <2>2 DEF set_identity, stampVars
  <2> QED BY <1>3, <2>1, <2>2 DEF TxnCommand
<1>4. CASE Timer
  BY <1>0, <1>1, <1>4 DEF Timer, expire, identityVars
<1>5. CASE Identify
  BY <1>0, <1>5 DEF Identify, bump_epoch, start_reinit, reinitialised, reinit_failed,
                    reinit_fatal, BumpDue
<1>6. CASE Drain
  BY <1>0, <1>6 DEF Drain, drain, identityVars
<1>9. CASE Complete \/ stop
  BY <1>0, <1>9 DEF Complete, complete, stop, identityVars, stampVars
<1>7. ASSUME NEW k \in resolving, NEW o \in Outcomes, NEW late \in BOOLEAN,
             resolve(k, o, late)
      PROVE  ~bump_requested' /\ ~reinit' /\ identity' \in {"Uninit", "Ready", "Fatal"}
  <2>1. Verdict(k, o) \notin {"Restamp", "Split"}
    BY <1>0, EngineAssumption, TransactionalVerdict
  <2>2. CASE acknowledge(k, o)
    BY <1>0, <2>2 DEF acknowledge, identityVars
  <2>3. CASE retry_or_fail(k, o, late)
    BY <1>0, <1>1, <2>3 DEF retry_or_fail, FailLanded, identityVars, stampVars
  <2>4. CASE restamp(k, o, late) \/ split(k, o, late)
    BY <2>1, <2>4 DEF restamp, split
  <2>5. CASE fail(k, o)
    BY <1>0, <1>1, <2>5 DEF fail, FailLanded, identityVars
  <2>6. CASE fatal(k, o)
    BY <1>0, <1>1, <2>6 DEF fatal
  <2> QED BY <1>7, <2>2, <2>3, <2>4, <2>5, <2>6 DEF resolve
<1>8. CASE UNCHANGED vars
  BY <1>0, <1>8 DEF vars
<1> QED BY <1>2, <1>3, <1>4, <1>5, <1>6, <1>7, <1>8, <1>9 DEF Next, Resolve

(* The identity stays and a bump stays due, or another identity follows,   *)
(* later than every one before it.                                         *)
Stays ==
    /\ ident' = ident /\ generation' = generation
    /\ bump_requested => bump_requested'
    /\ identity' \in {"Uninit", "Plain"} => identity' = identity
Moves_on ==
    /\ generation' = generation + 1 /\ ident'.generation = generation + 1
    /\ Earlier(ident, ident') \/ issued = {}
    /\ identity' \notin {"Uninit", "Plain"}

(* Each step does one of the two. *)
LEMMA IdentityStep ==
    ASSUME IInv, Identities, CoordinatorsOwn, [Next]_vars
    PROVE  Stays \/ Moves_on
<1>0. /\ ident \in Identity /\ generation \in Nat /\ bump_requested \in BOOLEAN
      /\ ident.producer_id \in Nat /\ ident.epoch \in Nat
  BY DEF IInv, TypeOK, Identity
<1>1. \A S : SpendStamps(S) => (bump_requested => bump_requested')
  BY DEF SpendStamps
<1>2. CASE Command
  <2>1. CASE terminate
    BY <1>1, <2>1 DEF terminate, Stays
  <2>2. ASSUME NEW k \in Partitions, NEW g \in 0..MaxFlushes, NEW fits \in BOOLEAN,
               NEW full \in BOOLEAN, append(k, g, fits, full)
        PROVE  Stays
    BY <2>2 DEF append, identityVars, stampVars, Stays
  <2>3. CASE append_refused \/ close_channel
    BY <2>3 DEF append_refused, close_channel, identityVars, stampVars, Stays
  <2>4. ASSUME NEW g \in 0..(MaxFlushes - 1), flush(g)
        PROVE  Stays
    BY <2>4 DEF flush, identityVars, stampVars, Stays
  <2> QED BY <1>2, <2>1, <2>2, <2>3, <2>4 DEF Command
<1>3. CASE fail_unsent
  BY <1>1, <1>3 DEF fail_unsent, identityVars, Stays
<1>4. ASSUME NEW id \in FromCoordinator, NEW tv \in {"TV1", "TV2"}, set_identity(id, tv)
      PROVE  Stays \/ Moves_on
  <2>1. /\ bump_requested' = bump_requested
        /\ \/ generation' = generation /\ ident' = ident /\ identity' = identity
           \/ /\ ~(identity = "Ready" /\ id.producer_id = ident.producer_id
                                      /\ id.epoch = ident.epoch)
              /\ generation' = generation + 1 /\ identity' = "Ready"
              /\ ident' = [id EXCEPT !.generation = generation + 1]
    BY <1>4 DEF set_identity, stampVars
  <2>2. CASE generation' = generation /\ ident' = ident /\ identity' = identity
    BY <2>1, <2>2 DEF Stays
  <2>3. CASE /\ ~(identity = "Ready" /\ id.producer_id = ident.producer_id
                                     /\ id.epoch = ident.epoch)
             /\ generation' = generation + 1 /\ identity' = "Ready"
             /\ ident' = [id EXCEPT !.generation = generation + 1]
    <3>1. CASE id = bumped(ident, 0)
      <4>1. /\ ident'.producer_id = ident.producer_id /\ ident'.epoch = ident.epoch + 1
            /\ ident'.generation = generation + 1
        BY <2>3, <3>1 DEF bumped
      <4>2. ident.epoch < ident.epoch + 1
        BY <1>0
      <4>3. Earlier(ident, ident')
        BY <4>1, <4>2 DEF Earlier
      <4> QED BY <2>3, <4>1, <4>3 DEF Moves_on
    <3>2. CASE id = ident /\ identity # "Fatal"
      <4>1. identity = "Uninit"
        BY <1>4, <2>3, <3>2 DEF CoordinatorsOwn, set_identity
      <4>2. issued = {}
        BY <4>1 DEF Identities
      <4>3. ident'.generation = generation + 1
        BY <1>0, <2>3, <3>2 DEF Identity
      <4> QED BY <2>3, <4>2, <4>3 DEF Moves_on
    <3> QED BY <1>4, <3>1, <3>2 DEF FromCoordinator
  <2> QED BY <2>1, <2>2, <2>3
<1>5. CASE Timer
  BY <1>1, <1>5 DEF Timer, expire, identityVars, Stays
<1>6. CASE bump_epoch
  <2>1. /\ generation' = generation + 1 /\ ident' = bumped(ident, generation + 1)
        /\ identity' = identity /\ identity = "Ready"
    BY <1>6 DEF bump_epoch, BumpDue
  <2>2. /\ ident'.producer_id = ident.producer_id /\ ident'.epoch = ident.epoch + 1
        /\ ident'.generation = generation + 1
    BY <2>1 DEF bumped
  <2>3. ident.epoch < ident.epoch + 1
    BY <1>0
  <2>4. Earlier(ident, ident')
    BY <2>2, <2>3 DEF Earlier
  <2> QED BY <2>1, <2>2, <2>4 DEF Moves_on
<1>7. CASE reinitialised
  <2>1. /\ generation' = generation + 1 /\ identity' = "Ready"
        /\ ident'.producer_id = ident.producer_id + 1
        /\ ident'.generation = generation + 1
    BY <1>7 DEF reinitialised
  <2>2. ident.producer_id < ident.producer_id + 1
    BY <1>0
  <2>3. Earlier(ident, ident')
    BY <2>1, <2>2 DEF Earlier
  <2> QED BY <2>1, <2>3 DEF Moves_on
<1>8. CASE start_reinit \/ reinit_failed
  BY <1>8 DEF start_reinit, reinit_failed, stampVars, Stays
<1>9. CASE reinit_fatal
  BY <1>1, <1>9 DEF reinit_fatal, Stays
<1>10. CASE Drain \/ Complete \/ stop
  BY <1>10 DEF Drain, drain, Complete, complete, stop, identityVars, stampVars, Stays
<1>11. ASSUME NEW k \in resolving, NEW o \in Outcomes, NEW late \in BOOLEAN,
              resolve(k, o, late)
       PROVE  Stays
  <2>1. CASE acknowledge(k, o)
    BY <2>1 DEF acknowledge, identityVars, Stays
  <2>2. CASE retry_or_fail(k, o, late)
    BY <1>1, <2>2 DEF retry_or_fail, FailLanded, identityVars, stampVars, Stays
  <2>3. CASE restamp(k, o, late)
    BY <1>1, <2>3 DEF restamp, FailLanded, Stays
  <2>4. CASE split(k, o, late)
    BY <1>1, <2>4 DEF split, FailLanded, identityVars, Stays
  <2>5. CASE fail(k, o)
    BY <1>1, <2>5 DEF fail, FailLanded, identityVars, Stays
  <2>6. CASE fatal(k, o)
    BY <1>1, <2>6 DEF fatal, Stays
  <2> QED BY <1>11, <2>1, <2>2, <2>3, <2>4, <2>5, <2>6 DEF resolve
<1>12. CASE UNCHANGED vars
  BY <1>12 DEF vars, Stays
<1> QED BY <1>2, <1>3, <1>4, <1>5, <1>6, <1>7, <1>8, <1>9, <1>10, <1>11, <1>12
        DEF Next, TxnCommand, Identify, Resolve

(* A step that sends nothing issues nothing. *)
LEMMA HistoryStep ==
    ASSUME IInv, [Next]_vars, ~Drain
    PROVE  issued' = issued /\ next_record' \in {next_record, next_record + 1}
<1>1. CASE Command
  <2>1. ASSUME NEW k \in Partitions, NEW g \in 0..MaxFlushes, NEW fits \in BOOLEAN,
               NEW full \in BOOLEAN, append(k, g, fits, full)
        PROVE  issued' = issued /\ next_record' = next_record + 1
    BY <2>1 DEF append
  <2>2. ASSUME NEW g \in 0..(MaxFlushes - 1), flush(g)
        PROVE  issued' = issued /\ next_record' = next_record
    BY <2>2 DEF flush
  <2>3. CASE append_refused \/ terminate \/ close_channel
    BY <2>3 DEF append_refused, terminate, close_channel
  <2> QED BY <1>1, <2>1, <2>2, <2>3 DEF Command
<1>2. CASE TxnCommand
  BY <1>2 DEF TxnCommand, fail_unsent, set_identity
<1>3. CASE Timer \/ Identify
  BY <1>3 DEF Timer, expire, Identify, bump_epoch, start_reinit, reinitialised,
              reinit_failed, reinit_fatal
<1>4. CASE Complete \/ stop \/ Resolve
  BY <1>4 DEF Complete, complete, stop, Resolve, resolve
<1>5. CASE UNCHANGED vars
  BY <1>5 DEF vars
<1> QED BY <1>1, <1>2, <1>3, <1>4, <1>5 DEF Next

(* With few enough partitions `prune` forgets none. *)
LEMMA PruneForgetsNone ==
    ASSUME Cardinality(Partitions) <= PRUNE_SLACK, KeyType, prune
    PROVE  partitions' = partitions /\ \A k \in partitions : seq'[k] = seq[k]
<1>1. active' \subseteq Partitions /\ partitions \subseteq Partitions
  BY DEF prune, KeyType
<1>2. /\ Cardinality(partitions) \in Nat /\ Cardinality(active') \in Nat
      /\ Cardinality(partitions) <= Cardinality(Partitions)
      /\ Cardinality(Partitions) \in Nat
  BY <1>1, EngineAssumption, FS_Subset, FS_CardinalityType
<1>3. ~(Cardinality(partitions) > 4 * Cardinality(active') + PRUNE_SLACK)
  BY <1>2, EngineAssumption
<1>4. partitions' = partitions
  BY <1>3 DEF prune
<1>5. seq' = [k \in Partitions |-> IF k \in partitions' THEN seq[k] ELSE FreshSeq]
  BY DEF prune
<1> QED BY <1>1, <1>4, <1>5

(* No step without a request moves or forgets a position. *)
LEMMA PositionStep ==
    ASSUME Cardinality(Partitions) <= PRUNE_SLACK, IInv, [Next]_vars, ~Drain
    PROVE  partitions \subseteq partitions' /\ \A k \in partitions : seq'[k] = seq[k]
<1>0. KeyType
  BY DEF IInv, TypeOK, KeyType
<1>1. ASSUME prune
      PROVE  partitions \subseteq partitions' /\ \A k \in partitions : seq'[k] = seq[k]
  BY <1>0, <1>1, PruneForgetsNone
<1>2. ASSUME UNCHANGED keyVars
      PROVE  partitions \subseteq partitions' /\ \A k \in partitions : seq'[k] = seq[k]
  BY <1>2 DEF keyVars
<1>3. CASE Command
  <2>1. ASSUME NEW k \in Partitions, NEW g \in 0..MaxFlushes, NEW fits \in BOOLEAN,
               NEW full \in BOOLEAN, append(k, g, fits, full)
        PROVE  partitions \subseteq partitions' /\ \A j \in partitions : seq'[j] = seq[j]
    BY <2>1 DEF append
  <2>2. CASE append_refused \/ close_channel
    BY <1>2, <2>2 DEF append_refused, close_channel
  <2>3. ASSUME NEW g \in 0..(MaxFlushes - 1), flush(g)
        PROVE  partitions \subseteq partitions' /\ \A k \in partitions : seq'[k] = seq[k]
    BY <1>2, <2>3 DEF flush
  <2>4. CASE terminate
    BY <1>1, <2>4 DEF terminate
  <2> QED BY <1>3, <2>1, <2>2, <2>3, <2>4 DEF Command
<1>4. CASE TxnCommand
  BY <1>1, <1>2, <1>4 DEF TxnCommand, fail_unsent, set_identity
<1>5. CASE Timer \/ Identify
  BY <1>2, <1>5 DEF Timer, expire, Identify, bump_epoch, start_reinit, reinitialised,
                    reinit_failed, reinit_fatal
<1>6. CASE Complete \/ stop
  BY <1>2, <1>6 DEF Complete, complete, stop
<1>7. CASE Resolve
  <2>1. prune \/ UNCHANGED keyVars
    BY <1>7 DEF Resolve, resolve, Looked
  <2> QED BY <1>1, <1>2, <2>1
<1>8. CASE UNCHANGED vars
  BY <1>2, <1>8 DEF vars, keyVars
<1> QED BY <1>3, <1>4, <1>5, <1>6, <1>7, <1>8 DEF Next

(* What is on the wire stays what it is until it is done with. *)
LEMMA WireStep ==
    ASSUME IInv, [Next]_vars, ~Drain, NEW k \in Partitions
    PROVE  \/ in_flight'[k] = NoBatch
           \/ in_flight'[k].stamp = in_flight[k].stamp
              /\ in_flight'[k].recs = in_flight[k].recs
<1>0. in_flight \in [Partitions -> Batch] /\ resolving \subseteq Partitions
  BY DEF IInv, TypeOK
<1>1. CASE Command
  <2>1. ASSUME NEW j \in Partitions, NEW g \in 0..MaxFlushes, NEW fits \in BOOLEAN,
               NEW full \in BOOLEAN, append(j, g, fits, full)
        PROVE  in_flight' = in_flight
    BY <2>1 DEF append
  <2>2. ASSUME NEW g \in 0..(MaxFlushes - 1), flush(g)
        PROVE  in_flight' = in_flight
    BY <2>2 DEF flush
  <2>3. CASE append_refused \/ close_channel
    BY <2>3 DEF append_refused, close_channel
  <2>4. CASE terminate
    BY <1>0, <2>4 DEF terminate, Released, Batch
  <2> QED BY <1>1, <2>1, <2>2, <2>3, <2>4 DEF Command
<1>2. CASE TxnCommand \/ Identify \/ Complete \/ stop
  BY <1>2 DEF TxnCommand, fail_unsent, set_identity, Identify, bump_epoch, start_reinit,
              reinitialised, reinit_failed, reinit_fatal, Complete, complete, stop
<1>3. ASSUME NEW j \in Partitions, NEW all \in BOOLEAN, NEW n \in 0..Len(sealed[j]),
             expire(j, n, all)
      PROVE  /\ in_flight'[k].stamp = in_flight[k].stamp
             /\ in_flight'[k].recs = in_flight[k].recs
  <2>1. in_flight' = [in_flight EXCEPT ![j].waiting = FALSE]
    BY <1>3 DEF expire
  <2> QED BY <1>0, <2>1 DEF Batch
<1>4. ASSUME NEW j \in resolving, NEW o \in Outcomes, NEW late \in BOOLEAN,
             resolve(j, o, late)
      PROVE  in_flight'[k] = NoBatch \/ in_flight'[k] = in_flight[k]
  <2>1. in_flight' = Landed(j)
    BY <1>4 DEF resolve, acknowledge, retry_or_fail, restamp, split, fail, fatal, FailLanded
  <2> QED BY <1>0, <2>1 DEF Landed
<1>5. CASE UNCHANGED vars
  BY <1>5 DEF vars
<1> QED BY <1>1, <1>2, <1>3, <1>4, <1>5 DEF Next, Timer, Resolve

-----------------------------------------------------------------------------
(* Steps that send nothing. *)

(* Earlier is transitive along the identities. *)
LEMMA EarlierStill ==
    ASSUME NEW st \in BatchIdentity, NEW a \in Identity, NEW b \in Identity,
           Earlier(a, b),
           Earlier(st, a) \/ (st.producer_id = a.producer_id /\ st.epoch = a.epoch)
    PROVE  Earlier(st, b)
<1>1. /\ st.producer_id \in Nat /\ a.producer_id \in Nat /\ b.producer_id \in Nat
      /\ st.epoch \in Nat /\ a.epoch \in Nat /\ b.epoch \in Nat
  BY DEF BatchIdentity, Identity
<1> QED BY <1>1 DEF Earlier

(* No stamp is of an identity not reached yet. *)
LEMMA NoneAhead ==
    ASSUME IInv, Identities, Moves_on, NEW x \in issued
    PROVE  /\ x.stamp \in BatchIdentity /\ x.stamp.generation \in Nat
           /\ x.stamp.generation < ident'.generation
<1>1. x.stamp \in BatchIdentity /\ generation \in Nat
  BY DEF IInv, TypeOK
<1>2. x.stamp.generation \in Nat
  BY <1>1 DEF BatchIdentity
<1>3. x.stamp.generation <= generation /\ ident'.generation = generation + 1
  BY DEF Identities, Moves_on
<1> QED BY <1>1, <1>2, <1>3

(* Nothing new is issued, and the identity stays or moves on. *)
LEMMA QuietIdentities ==
    ASSUME IInv, IInv', Identities, Stays \/ Moves_on, issued' = issued,
           HasIdentity(mode') => HasIdentity(mode)
    PROVE  Identities'
<1>0. /\ issued \subseteq [key : Partitions, stamp : BatchIdentity, recs : Seq(Records)]
      /\ ident \in Identity /\ ident' \in Identity /\ generation \in Nat
      /\ ident.generation = generation
  BY DEF IInv, TypeOK, Identities
<1>1. ident'.generation = generation'
  BY <1>0 DEF Stays, Moves_on
<1>2. \A x, y \in issued' :
         x.stamp.producer_id = y.stamp.producer_id /\ x.stamp.epoch = y.stamp.epoch =>
             x.stamp.generation = y.stamp.generation
  BY DEF Identities
<1>3. (identity' = "Uninit" => issued' = {}) /\ (identity' = "Plain" => mode' = "Plain")
  BY DEF Identities, Stays, Moves_on, HasIdentity
<1>4. ASSUME NEW x \in issued'
      PROVE  /\ x.stamp.generation <= ident'.generation
             /\ x.stamp.generation = ident'.generation =>
                  x.stamp.producer_id = ident'.producer_id /\ x.stamp.epoch = ident'.epoch
             /\ x.stamp.generation < ident'.generation => Earlier(x.stamp, ident')
  <2>1. x \in issued /\ x.stamp \in BatchIdentity
    BY <1>0, <1>4
  <2>2. CASE Stays
    BY <2>1, <2>2 DEF Identities, Stays
  <2>3. CASE Moves_on
    <3>1. x.stamp.generation < ident'.generation /\ x.stamp.generation \in Nat
      BY <2>1, <2>3, NoneAhead
    <3>2. ident'.generation \in Nat /\ ident.generation \in Nat
      BY <1>0 DEF Identity
    <3>3. Earlier(ident, ident')
      BY <2>1, <2>3 DEF Moves_on
    <3>4. \/ Earlier(x.stamp, ident)
          \/ x.stamp.producer_id = ident.producer_id /\ x.stamp.epoch = ident.epoch
      <4>1. x.stamp.generation <= ident.generation
        BY <2>1 DEF Identities
      <4>2. x.stamp.generation = ident.generation \/ x.stamp.generation < ident.generation
        BY <3>1, <3>2, <4>1
      <4> QED BY <2>1, <4>2 DEF Identities
    <3>5. Earlier(x.stamp, ident')
      BY <1>0, <2>1, <3>3, <3>4, EarlierStill
    <3>6. x.stamp.generation <= ident'.generation /\ x.stamp.generation # ident'.generation
      BY <3>1, <3>2
    <3> QED BY <3>5, <3>6
  <2> QED BY <2>2, <2>3
<1> QED BY <1>1, <1>2, <1>3, <1>4 DEF Identities

(* Positions stay past what was issued. *)
LEMMA QuietPositions ==
    ASSUME IInv, Identities, Positions, Stays \/ Moves_on, issued' = issued,
           partitions \subseteq partitions', \A k \in partitions : seq'[k] = seq[k]
    PROVE  Positions'
<1> SUFFICES ASSUME NEW x \in issued'
             PROVE  /\ x.key \in partitions'
                    /\ x.stamp.generation = ident'.generation =>
                         /\ seq'[x.key].generation = ident'.generation
                         /\ x.stamp.base_sequence + Len(x.recs) <= seq'[x.key].next
  BY DEF Positions
<1>1. x \in issued /\ x.key \in partitions /\ seq'[x.key] = seq[x.key]
  BY DEF Positions
<1>2. CASE Stays
  BY <1>1, <1>2 DEF Positions, Stays
<1>3. CASE Moves_on
  <2>1. x.stamp.generation < ident'.generation /\ x.stamp.generation \in Nat
    BY <1>1, <1>3, NoneAhead
  <2>2. x.stamp.generation # ident'.generation
    BY <2>1
  <2> QED BY <1>1, <2>2
<1> QED BY <1>2, <1>3

(* What was issued keeps what it has. *)
LEMMA QuietHistory ==
    ASSUME IInv, Ranges, StampKept, SentOnly, issued' = issued,
           next_record' \in {next_record, next_record + 1}
    PROVE  Ranges' /\ StampKept' /\ SentOnly'
<1>1. Ranges' /\ StampKept'
  BY DEF Ranges, StampKept, Covers
<1>2. next_record \in Nat
  BY EngineAssumption DEF IInv, TypeOK
<1>3. \A x \in issued : Range(x.recs) \subseteq Records
  <2> SUFFICES ASSUME NEW x \in issued PROVE Range(x.recs) \subseteq Records
    OBVIOUS
  <2>1. x.recs \in Seq(Records)
    BY DEF IInv, TypeOK
  <2>2. \A i \in DOMAIN x.recs : x.recs[i] \in Records
    BY <2>1
  <2> QED BY <2>2, Zenon DEF Range
<1>4. \A x \in issued : \A r \in Range(x.recs) : r < next_record'
  <2> SUFFICES ASSUME NEW x \in issued, NEW r \in Range(x.recs) PROVE r < next_record'
    OBVIOUS
  <2>1. r < next_record /\ r \in Records
    BY <1>3 DEF SentOnly
  <2>2. r \in Nat
    BY <2>1, EngineAssumption DEF Records
  <2> QED BY <1>2, <2>1, <2>2
<1> QED BY <1>1, <1>4 DEF SentOnly

(* The batches in the queues are in step with what was issued. *)
LEMMA QuietQueues ==
    ASSUME IInv, Identities, SentOnly, StampedWasIssued, BareIsUnused, WireIsStamped,
           [Next]_vars, ~Drain, Stays \/ Moves_on, issued' = issued
    PROVE  StampedWasIssued' /\ BareIsUnused' /\ WireIsStamped'
<1>1. ASSUME NEW k \in Partitions, NEW b, InQueue(k, b)'
      PROVE  Comes(k, b) \/ Fresh(k, b)
  BY <1>1, NextInherits DEF Inherits, InQueue
<1>2. StampedWasIssued'
  <2> SUFFICES ASSUME NEW k \in Partitions, NEW b, InQueue(k, b)', Stamped(b)
               PROVE  Issue(k, b) \in issued
    BY DEF StampedWasIssued, Issue, Stamped
  <2>1. Comes(k, b)
    BY <1>1 DEF Fresh
  <2>2. PICK c : InQueue(k, c) /\ c.stamp = b.stamp /\ c.recs = b.recs
    BY <2>1 DEF Comes
  <2>3. Issue(k, c) \in issued
    BY <2>2 DEF StampedWasIssued, Stamped
  <2> QED BY <2>2, <2>3 DEF Issue
<1>3. BareIsUnused'
  <2> SUFFICES ASSUME ~bump_requested', NEW k \in Partitions, NEW b, InQueue(k, b)',
                      ~Stamped(b), NEW r \in RecsOf(b)
               PROVE  ~Used(r)'
    BY DEF BareIsUnused, Stamped, RecsOf
  <2>1. CASE Moves_on
    <3>1. \A x \in issued : x.stamp.generation # ident'.generation
      <4> SUFFICES ASSUME NEW x \in issued PROVE x.stamp.generation # ident'.generation
        OBVIOUS
      <4>1. x.stamp.generation < ident'.generation /\ x.stamp.generation \in Nat
        BY <2>1, NoneAhead
      <4> QED BY <4>1
    <3> QED BY <3>1 DEF Used
  <2>2. CASE Stays
    <3>1. ~bump_requested /\ (Used(r)' <=> Used(r))
      BY <2>2 DEF Stays, Used
    <3>2. CASE Comes(k, b)
      <4>1. PICK c : InQueue(k, c) /\ c.stamp = b.stamp /\ c.recs = b.recs
        BY <3>2 DEF Comes
      <4>2. r \in RecsOf(c) /\ ~Stamped(c)
        BY <4>1 DEF RecsOf, Stamped
      <4> QED BY <3>1, <4>1, <4>2 DEF BareIsUnused
    <3>3. CASE Fresh(k, b)
      <4>1. r = next_record \/ \E c : InQueue(k, c) /\ ~Stamped(c) /\ r \in RecsOf(c)
        BY <3>3 DEF Fresh
      <4>2. CASE r = next_record
        <5>1. next_record \in Nat
          BY EngineAssumption DEF IInv, TypeOK
        <5>2. ~(next_record < next_record)
          BY <5>1
        <5> QED BY <3>1, <4>2, <5>2 DEF SentOnly, Used
      <4> QED BY <3>1, <4>1, <4>2 DEF BareIsUnused
    <3> QED BY <1>1, <3>2, <3>3
  <2> QED BY <2>1, <2>2
<1>4. WireIsStamped'
  <2> SUFFICES ASSUME HasIdentity(mode'), NEW k \in Partitions, Some(in_flight'[k])
               PROVE  Stamped(in_flight'[k])
    BY DEF WireIsStamped, Some, Stamped
  <2>1. HasIdentity(mode)
    BY ModeStep
  <2>2. in_flight'[k].stamp = in_flight[k].stamp /\ in_flight'[k].recs = in_flight[k].recs
    BY WireStep, NoBatchType
  <2> QED BY <2>1, <2>2 DEF WireIsStamped, Some, Stamped
<1> QED BY <1>2, <1>3, <1>4

-----------------------------------------------------------------------------
(* A request goes out. *)

NewIssue(k) == [key |-> k, stamp |-> stamp(seq[k], ident), recs |-> HeadOf(k).recs]

(* The batch that goes out was next in its queue, with its callers waiting. *)
LEMMA DrainHead ==
    ASSUME IInv, RInv, NEW b \in Brokers, NEW S \in SUBSET Partitions, drain(b, S),
           NEW k \in S
    PROVE  /\ k \in Partitions /\ k \in partitions /\ ~Some(in_flight[k])
           /\ HeadOf(k) \in Batch /\ InQueue(k, HeadOf(k))
           /\ \A r \in RecsOf(HeadOf(k)) : r \in Records /\ HasIn(k, r) /\ WaitsIn(k, r)
<1>1. /\ k \in Partitions /\ k \in partitions /\ ~Some(in_flight[k])
  BY DEF drain, Ready, IInv, TypeOK
<1>2. HeadOf(k) \in Batch /\ sealed[k] \in Seq(Batch)
  BY <1>1, HeadType, QueuesOfIInv DEF Queues
<1>3. RecsOf(HeadOf(k)) \subseteq Records
  BY <1>2, RecsAre
<1>4. CASE HasSealed(k)
  <2>1. 1 \in 1..Len(sealed[k]) /\ HeadOf(k) = sealed[k][1]
    BY <1>2, <1>4, NonEmpty DEF HeadOf, HasSealed
  <2>2. Elem(HeadOf(k), sealed[k])
    BY <2>1 DEF Elem
  <2>3. \A r \in RecsOf(HeadOf(k)) : InSealed(r, sealed[k])
    BY <2>1 DEF InSealed
  <2> QED BY <1>1, <1>2, <1>3, <2>2, <2>3 DEF InQueue, In, HasIn, WaitsIn, Has, Waits
<1>5. CASE ~HasSealed(k)
  <2>1. HeadOf(k) = open[k]
    BY <1>5 DEF HeadOf
  <2> QED BY <1>1, <1>2, <1>3, <2>1 DEF InQueue, In, HasIn, WaitsIn, Has, Waits
<1> QED BY <1>4, <1>5

(* What is issued: new stamps, and again those of batches sent before. *)
LEMMA DrainIssues ==
    ASSUME IInv, RInv, StampedWasIssued,
           NEW b \in Brokers, NEW S \in SUBSET Partitions, drain(b, S)
    PROVE  /\ issued \subseteq issued'
           /\ \A x \in issued' : x \in issued \/ \E k \in S : NeedsStamp(k) /\ x = NewIssue(k)
           /\ \A k \in S : Stamped(Sent(k)) => Issue(k, Sent(k)) \in issued'
<1> DEFINE out == {[key |-> k, stamp |-> Sent(k).stamp, recs |-> Sent(k).recs] :
                      k \in {j \in S : Stamped(Sent(j))}}
<1>1. issued' = issued \cup out
  BY DEF drain
<1>2. \A x : x \in out <=> \E k \in S : Stamped(Sent(k)) /\ x = Issue(k, Sent(k))
  BY Zenon DEF Issue
<1> HIDE DEF out
<1>3. ASSUME NEW k \in S, Stamped(Sent(k))
      PROVE  \/ Issue(k, Sent(k)) \in issued
             \/ NeedsStamp(k) /\ Issue(k, Sent(k)) = NewIssue(k)
  <2>1. k \in Partitions /\ ~Some(in_flight[k]) /\ InQueue(k, HeadOf(k))
    BY DrainHead
  <2>2. /\ Sent(k).recs = HeadOf(k).recs
        /\ NeedsStamp(k) => Sent(k).stamp = stamp(seq[k], ident)
        /\ ~NeedsStamp(k) => Sent(k) = HeadOf(k)
    BY <2>1, SentType
  <2>3. CASE NeedsStamp(k)
    BY <2>2, <2>3 DEF Issue, NewIssue
  <2>4. CASE ~NeedsStamp(k)
    BY <1>3, <2>1, <2>2, <2>4 DEF StampedWasIssued
  <2> QED BY <2>3, <2>4
<1> QED BY <1>1, <1>2, <1>3

(* A new stamp is of the identity in use, and the position moves past it:  *)
(* it does not wrap.                                                       *)
LEMMA DrainStamps ==
    ASSUME MaxSequence < SEQ_SPACE, IInv, RInv, Identities,
           NEW b \in Brokers, NEW S \in SUBSET Partitions, drain(b, S),
           NEW k \in S, NeedsStamp(k), NEW x, x = NewIssue(k)
    PROVE  /\ identity = "Ready" /\ ~bump_requested /\ HasIdentity(mode)
           /\ ~Stamped(HeadOf(k))
           /\ x.key = k /\ x.recs = HeadOf(k).recs /\ Range(x.recs) = RecsOf(HeadOf(k))
           /\ x.stamp.generation = ident.generation
           /\ x.stamp.producer_id = ident.producer_id /\ x.stamp.epoch = ident.epoch
           /\ Len(x.recs) \in Nat
           /\ x.stamp.base_sequence = Position(seq[k], ident) /\ Position(seq[k], ident) \in Nat
           /\ seq'[k].generation = ident.generation
           /\ seq'[k].next = Position(seq[k], ident) + Len(x.recs)
<1>0. /\ k \in Partitions /\ HeadOf(k) \in Batch /\ seq[k] \in PartitionSeq
      /\ ident \in Identity
  BY DrainHead DEF IInv, TypeOK
<1>1. CanStamp /\ HasIdentity(mode) /\ ~Stamped(HeadOf(k))
  BY DEF drain, Ready, NeedsStamp
<1>2. identity = "Ready" /\ ~bump_requested
  BY <1>1 DEF CanStamp, Identities, HasIdentity
<1>3. x.key = k /\ x.recs = HeadOf(k).recs /\ x.stamp = stamp(seq[k], ident)
  BY DEF NewIssue
<1>4. Range(x.recs) = RecsOf(HeadOf(k))
  BY <1>3 DEF RecsOf
<1>5. HeadOf(k).recs \in Seq(Records)
  BY <1>0 DEF Batch
<1>6. Len(x.recs) \in Nat
  BY <1>3, <1>5
<1>7. Position(seq[k], ident) \in Nat
  BY <1>0 DEF Position, PartitionSeq
<1>8. /\ x.stamp.generation = ident.generation
      /\ x.stamp.producer_id = ident.producer_id /\ x.stamp.epoch = ident.epoch
      /\ x.stamp.base_sequence = Position(seq[k], ident)
  BY <1>3 DEF stamp
<1>9. seq'[k] = advanced(seq[k], ident, Len(x.recs))
  BY <1>0, <1>3 DEF drain
<1>10. Position(seq[k], ident) + Len(x.recs) <= MaxSequence
  BY <1>3 DEF drain
<1>11. next_sequence(Position(seq[k], ident), Len(x.recs))
          = Position(seq[k], ident) + Len(x.recs)
  <2>1. PICK p \in Nat : p = Position(seq[k], ident)
    BY <1>7
  <2>2. PICK n \in Nat : n = Len(x.recs)
    BY <1>6
  <2>3. p + n \in Nat /\ p + n < SEQ_SPACE /\ SEQ_SPACE \in Nat \ {0}
    BY <1>10, <2>1, <2>2, EngineAssumption, IdentityAssumption
  <2>4. (p + n) % SEQ_SPACE = p + n
    BY <2>3
  <2> QED BY <2>1, <2>2, <2>4 DEF next_sequence
<1>12. seq'[k].generation = ident.generation
       /\ seq'[k].next = Position(seq[k], ident) + Len(x.recs)
  BY <1>9, <1>11 DEF advanced
<1> QED BY <1>1, <1>2, <1>3, <1>4, <1>6, <1>7, <1>8, <1>12

(* The identities. *)
LEMMA DrainIdentities ==
    ASSUME MaxSequence < SEQ_SPACE, IInv, RInv, Identities, StampedWasIssued,
           NEW b \in Brokers, NEW S \in SUBSET Partitions, drain(b, S)
    PROVE  Identities'
<1>0. /\ ident' = ident /\ generation' = generation /\ identity' = identity
      /\ mode' = mode /\ ident \in Identity
      /\ issued \subseteq [key : Partitions, stamp : BatchIdentity, recs : Seq(Records)]
  BY DEF drain, identityVars, IInv, TypeOK
<1>1. \A x \in issued' : x \in issued \/ \E k \in S : NeedsStamp(k) /\ x = NewIssue(k)
  BY DrainIssues
<1>2. ASSUME NEW k \in S, NeedsStamp(k), NEW x, x = NewIssue(k)
      PROVE  /\ identity = "Ready" /\ x.stamp.generation = ident.generation
             /\ x.stamp.producer_id = ident.producer_id /\ x.stamp.epoch = ident.epoch
  BY <1>2, DrainStamps
<1>3. ident.generation \in Nat /\ ident.producer_id \in Nat /\ ident.epoch \in Nat
  BY <1>0 DEF Identity
<1>4. ASSUME NEW x \in issued, x.stamp.producer_id = ident.producer_id,
             x.stamp.epoch = ident.epoch
      PROVE  x.stamp.generation = ident.generation
  <2>1. x.stamp.generation \in Nat
    BY <1>0 DEF BatchIdentity
  <2>2. x.stamp.generation <= ident.generation
    BY DEF Identities
  <2>3. ~Earlier(x.stamp, ident)
    BY <1>3, <1>4 DEF Earlier
  <2>4. ~(x.stamp.generation < ident.generation)
    BY <2>3 DEF Identities
  <2> QED BY <1>3, <2>1, <2>2, <2>4
<1>5. ASSUME NEW x \in issued'
      PROVE  /\ x.stamp.generation <= ident.generation
             /\ x.stamp.generation = ident.generation =>
                  x.stamp.producer_id = ident.producer_id /\ x.stamp.epoch = ident.epoch
             /\ x.stamp.generation < ident.generation => Earlier(x.stamp, ident)
  <2>1. CASE x \in issued
    BY <2>1 DEF Identities
  <2>2. CASE \E k \in S : NeedsStamp(k) /\ x = NewIssue(k)
    <3>1. /\ x.stamp.generation = ident.generation
          /\ x.stamp.producer_id = ident.producer_id /\ x.stamp.epoch = ident.epoch
      BY <1>2, <2>2
    <3>2. ident.generation <= ident.generation /\ ~(ident.generation < ident.generation)
      BY <1>3
    <3> QED BY <3>1, <3>2
  <2> QED BY <1>1, <1>5, <2>1, <2>2
<1>6. ASSUME NEW x \in issued', NEW y \in issued',
             x.stamp.producer_id = y.stamp.producer_id, x.stamp.epoch = y.stamp.epoch
      PROVE  x.stamp.generation = y.stamp.generation
  <2>1. CASE x \in issued /\ y \in issued
    BY <1>6, <2>1 DEF Identities
  <2>2. CASE x \notin issued
    <3>1. /\ x.stamp.generation = ident.generation
          /\ x.stamp.producer_id = ident.producer_id /\ x.stamp.epoch = ident.epoch
      BY <1>1, <1>2, <2>2
    <3> QED BY <1>1, <1>2, <1>4, <1>6, <3>1
  <2>3. CASE y \notin issued
    <3>1. /\ y.stamp.generation = ident.generation
          /\ y.stamp.producer_id = ident.producer_id /\ y.stamp.epoch = ident.epoch
      BY <1>1, <1>2, <2>3
    <3> QED BY <1>1, <1>2, <1>4, <1>6, <3>1
  <2> QED BY <2>1, <2>2, <2>3
<1>7. identity = "Uninit" => issued' = {}
  BY <1>1, <1>2 DEF Identities
<1> QED BY <1>0, <1>5, <1>6, <1>7 DEF Identities

(* The position moves past the new range, which is past every other. *)
LEMMA DrainPositions ==
    ASSUME MaxSequence < SEQ_SPACE, IInv, RInv, Identities, Positions, Ranges,
           StampedWasIssued,
           NEW b \in Brokers, NEW S \in SUBSET Partitions, drain(b, S)
    PROVE  Positions' /\ Ranges'
<1>0. /\ ident' = ident /\ partitions' = partitions
      /\ seq' = [k \in Partitions |->
                   IF k \in {j \in S : NeedsStamp(j)}
                   THEN advanced(seq[k], ident, Len(HeadOf(k).recs)) ELSE seq[k]]
      /\ partitions \subseteq Partitions
  BY DEF drain, identityVars, IInv, TypeOK
<1>1. \A x \in issued' : x \in issued \/ \E k \in S : NeedsStamp(k) /\ x = NewIssue(k)
  BY DrainIssues
<1>2. ASSUME NEW x \in issued
      PROVE  x.stamp.base_sequence \in Nat /\ Len(x.recs) \in Nat
  <2>1. x.stamp \in BatchIdentity /\ x.recs \in Seq(Records)
    BY DEF IInv, TypeOK
  <2> QED BY <2>1 DEF BatchIdentity
<1>3. ASSUME NEW k \in S, NeedsStamp(k), NEW y \in issued, y.key = k,
             y.stamp.generation = ident.generation
      PROVE  y.stamp.base_sequence + Len(y.recs) <= Position(seq[k], ident)
  BY <1>3 DEF Positions, Position
<1>4. ASSUME NEW x \in issued'
      PROVE  /\ x.key \in partitions
             /\ x.stamp.generation = ident.generation =>
                  /\ seq'[x.key].generation = ident.generation
                  /\ x.stamp.base_sequence + Len(x.recs) <= seq'[x.key].next
  <2>1. CASE x \in issued
    <3>0. x.key \in partitions /\ x.key \in Partitions
      BY <1>0, <2>1 DEF Positions
    <3>1. CASE ~(x.key \in S /\ NeedsStamp(x.key))
      <4>1. seq'[x.key] = seq[x.key]
        BY <1>0, <3>0, <3>1
      <4> QED BY <2>1, <3>0, <4>1 DEF Positions
    <3>2. CASE x.key \in S /\ NeedsStamp(x.key)
      <4>1. PICK k \in S : k = x.key /\ NeedsStamp(k)
        BY <3>2
      <4>2. PICK y : y = NewIssue(k)
        OBVIOUS
      <4>3. /\ seq'[k].generation = ident.generation
            /\ seq'[k].next = Position(seq[k], ident) + Len(y.recs)
            /\ Position(seq[k], ident) \in Nat /\ Len(y.recs) \in Nat
        BY <4>1, <4>2, DrainStamps
      <4>4. x.stamp.generation = ident.generation =>
               x.stamp.base_sequence + Len(x.recs) <= Position(seq[k], ident)
        BY <1>3, <2>1, <4>1
      <4>5. x.stamp.base_sequence \in Nat /\ Len(x.recs) \in Nat
        BY <1>2, <2>1
      <4>6. x.stamp.base_sequence + Len(x.recs) <= Position(seq[k], ident) =>
               x.stamp.base_sequence + Len(x.recs) <= Position(seq[k], ident) + Len(y.recs)
        BY <4>3, <4>5
      <4> QED BY <3>0, <4>1, <4>3, <4>4, <4>6
    <3> QED BY <3>1, <3>2
  <2>2. CASE \E k \in S : NeedsStamp(k) /\ x = NewIssue(k)
    <3>1. PICK k \in S : NeedsStamp(k) /\ x = NewIssue(k)
      BY <2>2
    <3>2. /\ x.key = k /\ x.stamp.base_sequence = Position(seq[k], ident)
          /\ Position(seq[k], ident) \in Nat /\ Len(x.recs) \in Nat
          /\ seq'[k].generation = ident.generation
          /\ seq'[k].next = Position(seq[k], ident) + Len(x.recs)
      BY <3>1, DrainStamps
    <3>3. k \in partitions
      BY DrainHead
    <3>4. x.stamp.base_sequence + Len(x.recs) <= seq'[k].next
      BY <3>2
    <3> QED BY <3>2, <3>3, <3>4
  <2> QED BY <1>1, <1>4, <2>1, <2>2
<1>5. Positions'
  BY <1>0, <1>4 DEF Positions
<1>6. ASSUME NEW y \in issued, NEW k \in S, NeedsStamp(k), NEW x, x = NewIssue(k),
             x.key = y.key, x.stamp.generation = y.stamp.generation
      PROVE  Covers(x) \cap Covers(y) = {}
  <2>1. /\ x.key = k /\ x.stamp.base_sequence = Position(seq[k], ident)
        /\ Position(seq[k], ident) \in Nat /\ Len(x.recs) \in Nat
        /\ x.stamp.generation = ident.generation
    BY <1>6, DrainStamps
  <2>2. y.stamp.base_sequence + Len(y.recs) <= Position(seq[k], ident)
    BY <1>3, <1>6, <2>1
  <2>3. y.stamp.base_sequence \in Nat /\ Len(y.recs) \in Nat
    BY <1>2
  <2>4. PICK p \in Nat, n \in Nat, q \in Nat, m \in Nat :
           /\ p = x.stamp.base_sequence /\ n = Len(x.recs)
           /\ q = y.stamp.base_sequence /\ m = Len(y.recs)
    BY <2>1, <2>3
  <2>5. q + m <= p
    BY <2>1, <2>2, <2>4
  <2>6. (p .. (p + n - 1)) \cap (q .. (q + m - 1)) = {}
    BY <2>5
  <2> QED BY <2>4, <2>6 DEF Covers
<1>7. ASSUME NEW x \in issued', NEW y \in issued', x # y, x.key = y.key,
             x.stamp.generation = y.stamp.generation
      PROVE  Covers(x) \cap Covers(y) = {}
  <2>1. CASE x \in issued /\ y \in issued
    BY <1>7, <2>1 DEF Ranges
  <2>2. CASE x \notin issued /\ y \in issued
    BY <1>1, <1>6, <1>7, <2>2
  <2>3. CASE x \in issued /\ y \notin issued
    BY <1>1, <1>6, <1>7, <2>3
  <2>4. CASE x \notin issued /\ y \notin issued
    <3>1. PICK j \in S : NeedsStamp(j) /\ x = NewIssue(j)
      BY <1>1, <2>4
    <3>2. PICK k \in S : NeedsStamp(k) /\ y = NewIssue(k)
      BY <1>1, <2>4
    <3>3. j = k
      BY <1>7, <3>1, <3>2 DEF NewIssue
    <3> QED BY <1>7, <3>1, <3>2, <3>3
  <2> QED BY <2>1, <2>2, <2>3, <2>4
<1>8. Ranges'
  BY <1>7 DEF Ranges, Covers
<1> QED BY <1>5, <1>8

(* A record that gets a stamp had none under this identity, and gets one. *)
LEMMA DrainHistory ==
    ASSUME MaxSequence < SEQ_SPACE, IInv, RInv, Identities, StampKept, SentOnly,
           StampedWasIssued, BareIsUnused,
           NEW b \in Brokers, NEW S \in SUBSET Partitions, drain(b, S)
    PROVE  StampKept' /\ SentOnly'
<1>0. next_record' = next_record /\ Places
  BY DEF drain, RInv
<1>1. \A x \in issued' : x \in issued \/ \E k \in S : NeedsStamp(k) /\ x = NewIssue(k)
  BY DrainIssues
<1>2. ASSUME NEW k \in S, NeedsStamp(k), NEW x, x = NewIssue(k)
      PROVE  /\ x.key = k /\ x.stamp.generation = ident.generation
             /\ \A r \in Range(x.recs) : /\ ~Used(r) /\ r \in Records /\ r < next_record
                                         /\ k \in Partitions /\ WaitsIn(k, r)
  <2>1. /\ ~bump_requested /\ ~Stamped(HeadOf(k)) /\ Range(x.recs) = RecsOf(HeadOf(k))
        /\ x.key = k /\ x.stamp.generation = ident.generation
    BY <1>2, DrainStamps
  <2>2. /\ k \in Partitions /\ InQueue(k, HeadOf(k))
        /\ \A r \in RecsOf(HeadOf(k)) : r \in Records /\ HasIn(k, r) /\ WaitsIn(k, r)
    BY DrainHead
  <2>3. \A r \in RecsOf(HeadOf(k)) : ~Used(r)
    BY <2>1, <2>2 DEF BareIsUnused
  <2>4. \A r \in RecsOf(HeadOf(k)) : r < next_record
    BY <1>0, <2>2 DEF Places
  <2> QED BY <2>1, <2>2, <2>3, <2>4
<1>3. SentOnly'
  <2> SUFFICES ASSUME NEW x \in issued', NEW r \in Range(x.recs) PROVE r < next_record
    BY <1>0 DEF SentOnly
  <2> QED BY <1>1, <1>2 DEF SentOnly
<1>4. ASSUME NEW y \in issued, NEW k \in S, NeedsStamp(k), NEW x, x = NewIssue(k),
             NEW r, r \in Range(x.recs), r \in Range(y.recs)
      PROVE  x.stamp.generation # y.stamp.generation
  BY <1>2, <1>4 DEF Used
<1>5. ASSUME NEW x \in issued', NEW y \in issued', x # y,
             NEW r, r \in Range(x.recs), r \in Range(y.recs)
      PROVE  x.stamp.generation # y.stamp.generation
  <2>1. CASE x \in issued /\ y \in issued
    BY <1>5, <2>1 DEF StampKept
  <2>2. CASE x \notin issued /\ y \in issued
    BY <1>1, <1>4, <1>5, <2>2
  <2>3. CASE x \in issued /\ y \notin issued
    BY <1>1, <1>4, <1>5, <2>3
  <2>4. CASE x \notin issued /\ y \notin issued
    <3>1. PICK j \in S : NeedsStamp(j) /\ x = NewIssue(j)
      BY <1>1, <2>4
    <3>2. PICK k \in S : NeedsStamp(k) /\ y = NewIssue(k)
      BY <1>1, <2>4
    <3>3. /\ j \in Partitions /\ WaitsIn(j, r) /\ r \in Records
          /\ k \in Partitions /\ WaitsIn(k, r)
      BY <1>2, <1>5, <3>1, <3>2
    <3>4. j = k
      BY <1>0, <3>3 DEF Places
    <3> QED BY <1>5, <3>1, <3>2, <3>4
  <2> QED BY <2>1, <2>2, <2>3, <2>4
<1>6. StampKept'
  BY <1>5 DEF StampKept
<1> QED BY <1>3, <1>6

(* What the request leaves in a queue was there, and was not its head. *)
LEMMA DrainQueues ==
    ASSUME IInv, RInv, NEW b \in Brokers, NEW S \in SUBSET Partitions, drain(b, S),
           NEW k \in Partitions
    PROVE  /\ open'[k] = open[k] \/ open'[k] = NoBatch
           /\ \A c : Elem(c, sealed'[k]) => Elem(c, sealed[k])
           /\ in_flight'[k] = IF k \in S THEN Sent(k) ELSE in_flight[k]
<1>1. /\ in_flight' = [j \in Partitions |-> IF j \in S THEN Sent(j) ELSE in_flight[j]]
      /\ sealed' = [j \in Partitions |->
                       IF j \in S /\ HasSealed(j) THEN Tail(sealed[j]) ELSE sealed[j]]
      /\ open' = [j \in Partitions |->
                       IF j \in S /\ ~HasSealed(j) THEN NoBatch ELSE open[j]]
  BY DEF drain
<1>2. sealed[k] \in Seq(Batch)
  BY QueuesOfIInv DEF Queues
<1>3. CASE k \in S /\ HasSealed(k)
  <2>1. sealed'[k] = Tail(sealed[k]) /\ sealed[k] # <<>>
    BY <1>1, <1>3 DEF HasSealed
  <2>2. /\ Len(Tail(sealed[k])) = Len(sealed[k]) - 1 /\ Len(sealed[k]) \in Nat
        /\ \A i \in 1..Len(Tail(sealed[k])) : Tail(sealed[k])[i] = sealed[k][i + 1]
    BY <1>2, <2>1, HeadTailProperties
  <2>3. \A i \in 1..Len(sealed'[k]) : i + 1 \in 1..Len(sealed[k]) /\ sealed'[k][i] = sealed[k][i + 1]
    BY <2>1, <2>2
  <2>4. \A c : Elem(c, sealed'[k]) => Elem(c, sealed[k])
    BY <2>3 DEF Elem
  <2> QED BY <1>1, <2>4
<1>4. CASE ~(k \in S /\ HasSealed(k))
  <2>1. sealed'[k] = sealed[k]
    BY <1>1, <1>4
  <2> QED BY <1>1, <2>1
<1> QED BY <1>3, <1>4

(* The queues stay in step with what was issued. *)
LEMMA DrainStays ==
    ASSUME MaxSequence < SEQ_SPACE, IInv, RInv, RInv', Identities,
           StampedWasIssued, BareIsUnused, WireIsStamped,
           NEW b \in Brokers, NEW S \in SUBSET Partitions, drain(b, S)
    PROVE  StampedWasIssued' /\ BareIsUnused' /\ WireIsStamped'
<1>0. /\ mode' = mode /\ ident' = ident /\ bump_requested' = bump_requested
      /\ Places /\ QueuesInOrder'
  BY DEF drain, identityVars, RInv
<1>1. /\ issued \subseteq issued'
      /\ \A x \in issued' : x \in issued \/ \E k \in S : NeedsStamp(k) /\ x = NewIssue(k)
      /\ \A k \in S : Stamped(Sent(k)) => Issue(k, Sent(k)) \in issued'
  BY DrainIssues
<1>2. ASSUME NEW k \in S
      PROVE  /\ Sent(k) \in Batch /\ Sent(k).recs = HeadOf(k).recs
             /\ RecsOf(Sent(k)) = RecsOf(HeadOf(k))
             /\ HasIdentity(mode) => Stamped(Sent(k))
             /\ ~Stamped(Sent(k)) => Sent(k) = HeadOf(k)
             /\ InQueue(k, HeadOf(k))
  <2>1. k \in Partitions /\ ~Some(in_flight[k]) /\ InQueue(k, HeadOf(k))
    BY DrainHead
  <2>2. /\ Sent(k) \in Batch /\ Sent(k).recs = HeadOf(k).recs
        /\ Stamped(Sent(k)) <=> NeedsStamp(k) \/ Stamped(HeadOf(k))
        /\ ~NeedsStamp(k) => Sent(k) = HeadOf(k)
    BY <2>1, SentType
  <2> QED BY <2>1, <2>2 DEF NeedsStamp, RecsOf
<1>3. ASSUME NEW k \in Partitions, NEW c, InQueue(k, c)'
      PROVE  InQueue(k, c) \/ c = NoBatch \/ (k \in S /\ c = Sent(k))
  <2>1. /\ open'[k] = open[k] \/ open'[k] = NoBatch
        /\ Elem(c, sealed'[k]) => Elem(c, sealed[k])
        /\ in_flight'[k] = IF k \in S THEN Sent(k) ELSE in_flight[k]
    BY DrainQueues
  <2>2. c = open'[k] \/ c = in_flight'[k] \/ Elem(c, sealed'[k])
    BY <1>3 DEF InQueue, In
  <2> QED BY <2>1, <2>2 DEF InQueue, In
<1>4. StampedWasIssued'
  <2> SUFFICES ASSUME NEW k \in Partitions, NEW c, InQueue(k, c)', Stamped(c)
               PROVE  Issue(k, c) \in issued'
    BY DEF StampedWasIssued, Issue, Stamped
  <2>1. InQueue(k, c) \/ (k \in S /\ c = Sent(k))
    BY <1>3, NoBatchType
  <2> QED BY <1>1, <2>1 DEF StampedWasIssued
<1>5. BareIsUnused'
  <2> SUFFICES ASSUME ~bump_requested', NEW k \in Partitions, NEW c, InQueue(k, c)',
                      ~Stamped(c), NEW r \in RecsOf(c),
                      NEW x \in issued', x.stamp.generation = ident.generation,
                      r \in Range(x.recs)
               PROVE  FALSE
    BY <1>0 DEF BareIsUnused, Stamped, RecsOf, Used
  <2>1. InQueue(k, c)
    BY <1>2, <1>3, NoRecs
  <2>2. CASE x \in issued
    BY <1>0, <2>1, <2>2 DEF BareIsUnused, Used
  <2>3. CASE x \notin issued
    <3>1. PICK j \in S : NeedsStamp(j) /\ x = NewIssue(j)
      BY <1>1, <2>3
    <3>2. HasIdentity(mode) /\ r \in RecsOf(HeadOf(j))
      BY <3>1, DrainStamps
    <3>3. j \in Partitions /\ r \in Records /\ WaitsIn(j, r)
      BY <3>2, DrainHead
    <3>4. /\ open'[k] = open[k] \/ open'[k] = NoBatch
          /\ Elem(c, sealed'[k]) => Elem(c, sealed[k])
          /\ in_flight'[k] = IF k \in S THEN Sent(k) ELSE in_flight[k]
      BY DrainQueues
    <3>5. c # in_flight'[k]
      <4>1. CASE k \in S
        BY <1>2, <3>2, <3>4, <4>1
      <4>2. CASE k \notin S
        <5>1. in_flight[k] \in Batch
          BY QueuesOfIInv DEF Queues
        <5>2. c = in_flight[k] => Some(c)
          BY <5>1, RecsAre
        <5> QED BY <3>2, <3>4, <4>2, <5>2 DEF WireIsStamped
      <4> QED BY <4>1, <4>2
    <3>6. c = open'[k] \/ Elem(c, sealed'[k])
      BY <3>5 DEF InQueue, In
    <3>7. WaitsIn(k, r)
      <4>1. CASE c = open'[k]
        <5>1. c = open[k]
          BY <3>4, <4>1, NoRecs
        <5> QED BY <5>1 DEF WaitsIn, Waits
      <4>2. CASE Elem(c, sealed'[k])
        <5>1. InSealed(r, sealed[k])
          BY <3>4, <4>2 DEF Elem, InSealed
        <5> QED BY <5>1 DEF WaitsIn, Waits
      <4> QED BY <3>6, <4>1, <4>2
    <3>8. j = k
      BY <1>0, <3>3, <3>7 DEF Places
    <3>9. in_flight'[k] = Sent(k) /\ r \in RecsOf(in_flight'[k])
      BY <1>2, <3>2, <3>4, <3>8
    <3>10. Queue(open'[k], sealed'[k], in_flight'[k])
      BY <1>0 DEF QueuesInOrder
    <3>11. Before(in_flight'[k], c)
      BY <3>6, <3>10 DEF Queue, Elem
    <3>12. r < r
      BY <3>9, <3>11 DEF Before
    <3>13. r \in Nat
      BY <3>3, EngineAssumption DEF Records
    <3> QED BY <3>12, <3>13
  <2> QED BY <2>2, <2>3
<1>6. WireIsStamped'
  <2> SUFFICES ASSUME HasIdentity(mode), NEW k \in Partitions, Some(in_flight'[k])
               PROVE  Stamped(in_flight'[k])
    BY <1>0 DEF WireIsStamped, Some, Stamped
  <2>1. in_flight'[k] = IF k \in S THEN Sent(k) ELSE in_flight[k]
    BY DrainQueues
  <2> QED BY <1>2, <2>1 DEF WireIsStamped
<1> QED BY <1>4, <1>5, <1>6

-----------------------------------------------------------------------------
(* The invariant and what follows from it. *)

(* The invariant holds of a new engine. *)
LEMMA InitUInv == Init => UInv
<1> SUFFICES ASSUME Init PROVE UInv
  OBVIOUS
<1>1. issued = {} /\ ident.generation = generation /\ ~bump_requested /\ ~reinit
  BY DEF Init
<1>2. (identity = "Plain" => mode = "Plain")
      /\ (Transactional(mode) => identity \in {"Uninit", "Ready", "Fatal"})
  BY DEF Init, Transactional
<1>3. \A k \in Partitions :
         open[k] = NoBatch /\ sealed[k] = <<>> /\ in_flight[k] = NoBatch
  BY DEF Init
<1>4. \A k \in Partitions : \A c : InQueue(k, c) => c = NoBatch
  BY <1>3, ElemEmpty DEF InQueue, In
<1>5. Identities /\ CoordinatorsOwn
  BY <1>1, <1>2 DEF Identities, CoordinatorsOwn
<1>6. Positions /\ Ranges /\ StampKept /\ SentOnly
  BY <1>1 DEF Positions, Ranges, StampKept, SentOnly
<1>7. StampedWasIssued /\ BareIsUnused /\ WireIsStamped
  BY <1>3, <1>4, NoRecs, NoBatchType DEF StampedWasIssued, BareIsUnused, WireIsStamped
<1> QED BY <1>5, <1>6, <1>7 DEF UInv

(* Every step of the engine keeps it. *)
LEMMA NextUInv ==
    ASSUME Cardinality(Partitions) <= PRUNE_SLACK, MaxSequence < SEQ_SPACE,
           IInv, RInv, UInv, [Next]_vars
    PROVE  UInv'
<1>0. /\ Identities /\ CoordinatorsOwn /\ Positions /\ Ranges /\ StampKept /\ SentOnly
      /\ StampedWasIssued /\ BareIsUnused /\ WireIsStamped
  BY DEF UInv
<1>1. IInv' /\ RInv' /\ CoordinatorsOwn'
  BY <1>0, NextIInv, NextRInv, NextCoordinators
<1>2. CASE Drain
  <2>1. PICK b \in Brokers, S \in SUBSET Partitions : drain(b, S)
    BY <1>2 DEF Drain
  <2>2. Identities'
    BY <1>0, <2>1, DrainIdentities
  <2>3. Positions' /\ Ranges'
    BY <1>0, <2>1, DrainPositions
  <2>4. StampKept' /\ SentOnly'
    BY <1>0, <2>1, DrainHistory
  <2>5. StampedWasIssued' /\ BareIsUnused' /\ WireIsStamped'
    BY <1>0, <1>1, <2>1, DrainStays
  <2> QED BY <1>1, <2>2, <2>3, <2>4, <2>5 DEF UInv
<1>3. CASE ~Drain
  <2>1. /\ Stays \/ Moves_on
        /\ issued' = issued /\ next_record' \in {next_record, next_record + 1}
        /\ HasIdentity(mode') => HasIdentity(mode)
        /\ partitions \subseteq partitions' /\ \A k \in partitions : seq'[k] = seq[k]
    BY <1>0, <1>3, IdentityStep, HistoryStep, ModeStep, PositionStep
  <2>2. Identities'
    BY <1>0, <1>1, <2>1, QuietIdentities
  <2>3. Positions'
    BY <1>0, <2>1, QuietPositions
  <2>4. Ranges' /\ StampKept' /\ SentOnly'
    BY <1>0, <2>1, QuietHistory
  <2>5. StampedWasIssued' /\ BareIsUnused' /\ WireIsStamped'
    BY <1>0, <1>3, <2>1, QuietQueues
  <2> QED BY <1>1, <2>2, <2>3, <2>4, <2>5 DEF UInv
<1> QED BY <1>2, <1>3

(* A stamp names its records for good (PartitionSeq::stamp, Batch::stamp,  *)
(* Engine::drain): no sequence range of a partition is issued twice under  *)
(* one (producer id, epoch), and no record has two stamps under one        *)
(* identity, whatever is retried, split, expired, aborted or re-stamped.   *)
(* It needs `prune` to forget no partition (its slack covers them all) and *)
(* the sequence numbers used in an epoch to stay short of the wrap.        *)
THEOREM StampsAlwaysUnique ==
    ASSUME Cardinality(Partitions) <= PRUNE_SLACK, MaxSequence < SEQ_SPACE
    PROVE  Spec => []StampsUnique
<1>1. Init => IInv /\ RInv /\ UInv
  BY InitIInv, InitRInv, InitUInv
<1>2. IInv /\ RInv /\ UInv /\ [Next]_vars => (IInv /\ RInv /\ UInv)'
  BY NextIInv, NextRInv, NextUInv
<1>3. UInv => StampsUnique
  <2> SUFFICES ASSUME UInv PROVE StampsUnique
    OBVIOUS
  <2>1. Identities /\ Ranges /\ StampKept
    BY DEF UInv
  <2>2. RangesDisjoint
    BY <2>1 DEF Identities, Ranges, RangesDisjoint
  <2> QED BY <2>1, <2>2 DEF StampsUnique
<1> QED BY <1>1, <1>2, <1>3, PTL DEF Spec

-----------------------------------------------------------------------------
(* The producer's sequence arithmetic (identity.rs) against the leader's   *)
(* (state.rs): what `stamp` hands out next is what `check_sequence` waits  *)
(* for, whatever the size of the sequence space and wherever a batch       *)
(* wraps, and what is sent again is recognised.                            *)


Sequence == 0 .. SEQ_SPACE - 1

(* A batch holds a record and is no longer than the space. *)
BatchSize == 1 .. SEQ_SPACE

Remembered == [first : Sequence, last : Sequence, base : Nat]
Entry == [epoch : Int, batches : Seq(Remembered)]

(* A quotient and a remainder, for the solver. *)
LEMMA ModIs ==
    ASSUME NEW n \in Nat, NEW d \in Nat \ {0}, n < 2 * d
    PROVE  n % d = IF n < d THEN n ELSE n - d
OBVIOUS

(* The remainder is a sequence number. *)
LEMMA SequenceType ==
    ASSUME NEW base \in Sequence, NEW count \in BatchSize
    PROVE  /\ next_sequence(base, count) \in Sequence
           /\ last_sequence(base, count) \in Sequence
BY IdentityAssumption DEF Sequence, BatchSize, next_sequence, last_sequence

(* The producer's next sequence is the one after the leader's last, also   *)
(* where the batch, or the step after it, wraps to 0.                      *)
LEMMA SequencesMeet ==
    ASSUME NEW base \in Sequence, NEW count \in BatchSize
    PROVE  following_sequence(last_sequence(base, count)) = next_sequence(base, count)
<1> DEFINE l == base + count - 1
<1>1. l \in Nat /\ l < 2 * SEQ_SPACE /\ SEQ_SPACE \in Nat \ {0}
  BY IdentityAssumption DEF Sequence, BatchSize
<1>2. l % SEQ_SPACE = IF l < SEQ_SPACE THEN l ELSE l - SEQ_SPACE
  BY <1>1, ModIs
<1>3. CASE l < SEQ_SPACE
  BY <1>1, <1>2, <1>3 DEF following_sequence, last_sequence, next_sequence, Sequence, BatchSize
<1>4. CASE l >= SEQ_SPACE
  <2>1. l + 1 \in Nat /\ l + 1 - SEQ_SPACE \in Nat
    BY <1>1, <1>4
  <2>2. l + 1 < 2 * SEQ_SPACE
    BY <1>1, <1>4 DEF Sequence, BatchSize
  <2>3. l - SEQ_SPACE + 1 < SEQ_SPACE
    BY <1>1, <2>2
  <2>4. (l + 1) % SEQ_SPACE = l + 1 - SEQ_SPACE
    BY <1>1, <2>1, <2>2, <1>4, ModIs
  <2>5. (l - SEQ_SPACE + 1) % SEQ_SPACE = l - SEQ_SPACE + 1
    BY <1>1, <1>4, <2>3, ModIs
  <2>6. base + count = l + 1
    BY DEF Sequence, BatchSize
  <2> QED
    BY <1>1, <1>2, <1>4, <2>4, <2>5, <2>6
    DEF following_sequence, last_sequence, next_sequence, Sequence, BatchSize
<1> QED BY <1>1, <1>3, <1>4

(* A batch shorter than the space does not end where it began. *)
LEMMA SequenceMoves ==
    ASSUME NEW base \in Sequence, NEW count \in BatchSize, count < SEQ_SPACE
    PROVE  next_sequence(base, count) # base
<1>1. base + count \in Nat /\ base + count < 2 * SEQ_SPACE /\ SEQ_SPACE \in Nat \ {0}
  BY IdentityAssumption DEF Sequence, BatchSize
<1>2. PICK n \in Nat : n = base + count
  BY <1>1
<1>3. n % SEQ_SPACE = IF n < SEQ_SPACE THEN n ELSE n - SEQ_SPACE
  BY <1>1, <1>2, ModIs
<1>4. next_sequence(base, count) = n % SEQ_SPACE
  BY <1>2 DEF next_sequence
<1>5. base \in Int /\ count \in Int /\ 0 < count /\ SEQ_SPACE \in Int
  BY IdentityAssumption DEF Sequence, BatchSize
<1> QED BY <1>2, <1>3, <1>4, <1>5

(* What the leader remembers of a batch it appended: at least that batch,  *)
(* as the last one, and otherwise only batches it remembered before.       *)
LEMMA BatchIsRemembered ==
    ASSUME NEW entry \in Entry, NEW st \in BatchIdentity, NEW count \in BatchSize,
           NEW base \in Nat, st.base_sequence \in Sequence,
           NEW e, e = record_batch(entry, st, count, base),
           NEW b, b = [first |-> st.base_sequence,
                       last |-> last_sequence(st.base_sequence, count), base |-> base]
    PROVE  /\ e.epoch = st.epoch
           /\ e.batches \in Seq(Remembered) \ {<<>>}
           /\ e.batches[Len(e.batches)] = b
           /\ \A i \in DOMAIN e.batches :
                 \/ e.batches[i] = b
                 \/ /\ entry.epoch = st.epoch
                    /\ \E j \in DOMAIN entry.batches : e.batches[i] = entry.batches[j]
<1> DEFINE kept == IF entry.epoch = st.epoch THEN entry.batches ELSE <<>>
           all == Append(kept, b)
           n == Len(all)
           from == IF n > PRODUCER_STATE_BATCHES THEN n - PRODUCER_STATE_BATCHES + 1 ELSE 1
<1>1. b \in Remembered
  BY SequenceType DEF Remembered
<1>2. kept \in Seq(Remembered) /\ (kept # <<>> => entry.epoch = st.epoch /\ kept = entry.batches)
  BY DEF Entry
<1>3. e.epoch = st.epoch /\ e.batches = SubSeq(all, from, n)
  BY DEF record_batch
<1> HIDE DEF kept
<1>4. /\ all \in Seq(Remembered) /\ n = Len(kept) + 1 /\ n \in Nat \ {0} /\ Len(kept) \in Nat
      /\ all[n] = b
      /\ \A i \in 1 .. Len(kept) : all[i] = kept[i]
  BY <1>1, <1>2
<1> HIDE DEF all, n
<1>5. from \in 1 .. n
  BY <1>4, LeaderAssumption
<1> HIDE DEF from
<1> DEFINE s == SubSeq(all, from, n)
<1>6. n = Len(all)
  BY DEF n
<1>7. /\ s \in Seq(Remembered) /\ Len(s) = n - from + 1
      /\ \A i \in 1 .. Len(s) : s[i] = all[from + i - 1]
  BY <1>4, <1>5, <1>6
<1> HIDE DEF s
<1>8. s # <<>> /\ s[Len(s)] = b
  BY <1>4, <1>5, <1>7
<1>9. ASSUME NEW i \in DOMAIN s
      PROVE  s[i] = b \/ (entry.epoch = st.epoch
                          /\ \E j \in DOMAIN entry.batches : s[i] = entry.batches[j])
  <2>0. i \in 1 .. Len(s)
    BY <1>7, <1>9
  <2>1. from + i - 1 \in 1 .. n /\ s[i] = all[from + i - 1]
    <3>1. s[i] = all[from + i - 1]
      BY <1>7, <2>0
    <3>2. Len(s) = n - from + 1 /\ from \in 1 .. n /\ n \in Nat
      BY <1>4, <1>5, <1>7
    <3>3. from + i - 1 \in 1 .. n
      BY <2>0, <3>2
    <3> QED BY <3>1, <3>3
  <2>2. CASE from + i - 1 = n
    BY <1>4, <2>1, <2>2
  <2>3. CASE from + i - 1 # n
    <3>1. from + i - 1 \in 1 .. Len(kept)
      BY <1>4, <1>5, <2>1, <2>3
    <3>2. s[i] = kept[from + i - 1] /\ kept # <<>>
      BY <1>2, <1>4, <2>1, <3>1
    <3> QED BY <1>2, <3>1, <3>2
  <2> QED BY <2>2, <2>3
<1>10. e.epoch = st.epoch /\ e.batches = s
  BY <1>3 DEF s
<1> QED BY <1>7, <1>8, <1>9, <1>10

(* The stamp of a partition's next batch is a stamp, with its sequence     *)
(* number in range, and so is the position it leaves.                      *)
LEMMA StampInSpace ==
    ASSUME NEW ps \in [generation : Nat, next : Sequence],
           NEW id \in Identity, id.generation # 0
    PROVE  stamp(ps, id) \in BatchIdentity /\ Position(ps, id) \in Sequence
<1>1. Position(ps, id) \in Sequence
  BY IdentityAssumption DEF Position, Sequence
<1>2. Position(ps, id) \in Nat
  BY <1>1, IdentityAssumption DEF Sequence
<1>3. /\ id.producer_id \in Nat /\ id.epoch \in Nat
      /\ id.generation \in Nat \ {0}
  BY DEF Identity
<1> QED BY <1>1, <1>2, <1>3 DEF stamp, BatchIdentity

(* What the producer stamps next is appended: after any batch, with any    *)
(* history before it, the leader waits for exactly the sequence number     *)
(* that `PartitionSeq::stamp` hands out, unless it remembers an earlier    *)
(* batch that began there, a whole sequence space ago.                     *)
THEOREM SequencesAgree ==
    ASSUME NEW entry \in Entry, NEW ps \in [generation : Nat, next : Sequence],
           NEW id \in Identity, id.generation # 0,
           NEW count \in BatchSize, NEW more \in BatchSize, NEW base \in Nat,
           count < SEQ_SPACE,
           \A i \in DOMAIN entry.batches :
               entry.batches[i].first # advanced(ps, id, count).next,
           NEW leader,
           leader.producers[id.producer_id] =
               record_batch(entry, stamp(ps, id), count, base)
    PROVE  check_sequence(leader, stamp(advanced(ps, id, count), id), more)
               = "Append"
<1> DEFINE st == stamp(ps, id)
           nx == advanced(ps, id, count).next
           e == record_batch(entry, st, count, base)
           next == stamp(advanced(ps, id, count), id)
<1>1. st \in BatchIdentity /\ st.base_sequence \in Sequence
      /\ st.epoch = id.epoch /\ st.producer_id = id.producer_id
  BY StampInSpace DEF stamp
<1>2. nx = next_sequence(st.base_sequence, count)
  BY DEF advanced, stamp
<1>3. next.base_sequence = nx /\ next.epoch = id.epoch
      /\ next.producer_id = id.producer_id
  BY DEF stamp, advanced, Position
<1>4. nx # st.base_sequence /\ nx \in Sequence
  BY <1>1, <1>2, SequenceType, SequenceMoves
<1> HIDE DEF st, nx, next
<1>5. /\ e.epoch = st.epoch
      /\ e.batches \in Seq(Remembered) \ {<<>>}
      /\ e.batches[Len(e.batches)].last = last_sequence(st.base_sequence, count)
      /\ \A i \in DOMAIN e.batches :
            \/ e.batches[i].first = st.base_sequence
            \/ \E j \in DOMAIN entry.batches : e.batches[i] = entry.batches[j]
  <2> DEFINE b == [first |-> st.base_sequence,
                   last |-> last_sequence(st.base_sequence, count), base |-> base]
  <2>1. /\ e.epoch = st.epoch
        /\ e.batches \in Seq(Remembered) \ {<<>>}
        /\ e.batches[Len(e.batches)] = b
        /\ \A i \in DOMAIN e.batches :
              e.batches[i] = b
              \/ (entry.epoch = st.epoch
                  /\ \E j \in DOMAIN entry.batches : e.batches[i] = entry.batches[j])
    BY <1>1, BatchIsRemembered
  <2>2. b.first = st.base_sequence /\ b.last = last_sequence(st.base_sequence, count)
    OBVIOUS
  <2> HIDE DEF e, b
  <2> QED BY <2>1, <2>2
<1>6. following_sequence(e.batches[Len(e.batches)].last) = nx
  BY <1>1, <1>2, <1>5, SequencesMeet
<1>7. leader.producers[next.producer_id] = e
  BY <1>3 DEF st
<1> HIDE DEF e
<1>8. \A i \in DOMAIN e.batches : e.batches[i].first # nx
  BY <1>4, <1>5 DEF nx
<1>9. Duplicates(e, nx, more) = {}
  BY <1>8 DEF Duplicates
<1>10. e.epoch \in Nat /\ next.epoch = e.epoch /\ e.batches # <<>>
  BY <1>1, <1>3, <1>5 DEF BatchIdentity
<1>11. e.epoch # -1 /\ ~(next.epoch < e.epoch) /\ ~(next.epoch > e.epoch)
  BY <1>10
<1> QED BY <1>3, <1>6, <1>7, <1>9, <1>10, <1>11 DEF check_sequence, next

(* What is sent again is recognised: a batch whose answer was lost, sent   *)
(* again under the stamp it had, is a duplicate to the leader that has     *)
(* appended it last, and is not appended twice.                            *)
THEOREM ResentIsDuplicate ==
    ASSUME NEW entry \in Entry, NEW st \in BatchIdentity, st.base_sequence \in Sequence,
           NEW count \in BatchSize, NEW base \in Nat, NEW leader,
           leader.producers[st.producer_id] = record_batch(entry, st, count, base)
    PROVE  check_sequence(leader, st, count) = "Duplicate"
<1> DEFINE e == record_batch(entry, st, count, base)
           n == Len(e.batches)
<1>1. /\ e.epoch = st.epoch
      /\ e.batches \in Seq(Remembered) \ {<<>>}
      /\ e.batches[n].first = st.base_sequence
      /\ e.batches[n].last = last_sequence(st.base_sequence, count)
  <2> DEFINE b == [first |-> st.base_sequence,
                   last |-> last_sequence(st.base_sequence, count), base |-> base]
  <2>1. e.epoch = st.epoch /\ e.batches \in Seq(Remembered) \ {<<>>} /\ e.batches[n] = b
    BY BatchIsRemembered
  <2>2. b.first = st.base_sequence /\ b.last = last_sequence(st.base_sequence, count)
    OBVIOUS
  <2> HIDE DEF e, b
  <2> QED BY <2>1, <2>2
<1>2. leader.producers[st.producer_id] = e
  OBVIOUS
<1> HIDE DEF e
<1>3. n \in DOMAIN e.batches
  BY <1>1
<1>4. e.batches[n] \in Duplicates(e, st.base_sequence, count)
  BY <1>1, <1>3 DEF Duplicates
<1>5. st.epoch \in Nat
  BY DEF BatchIdentity
<1>6. e.epoch # -1 /\ ~(st.epoch < e.epoch) /\ ~(st.epoch > e.epoch)
  BY <1>1, <1>5
<1> QED BY <1>2, <1>4, <1>6 DEF check_sequence

(* A batch stamped under a new identity is appended, whatever the leader   *)
(* remembers of earlier epochs: after a bump every partition starts again  *)
(* at sequence 0, which is what the leader expects of a new epoch.         *)
THEOREM BumpIsAccepted ==
    ASSUME NEW entry \in Entry, NEW ps \in [generation : Nat, next : Sequence],
           NEW id \in Identity, ps.generation # id.generation,
           NEW count \in BatchSize, entry.epoch < id.epoch, NEW leader,
           leader.producers[id.producer_id] = entry
    PROVE  check_sequence(leader, stamp(ps, id), count) = "Append"
<1>1. stamp(ps, id).base_sequence = 0
      /\ stamp(ps, id).epoch = id.epoch
      /\ stamp(ps, id).producer_id = id.producer_id
  BY DEF stamp, Position
<1>2. entry.epoch \in Int /\ id.epoch \in Nat
  BY DEF Entry, Identity
<1>3. ~(id.epoch < entry.epoch) /\ id.epoch > entry.epoch
  BY <1>2
<1> QED BY <1>1, <1>3 DEF check_sequence
=============================================================================
