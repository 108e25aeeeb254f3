------------------------------ MODULE Assignor ------------------------------
(****************************************************************************)
(* The client-side assignors of the classic group protocol, pure functions   *)
(* of the members' subscriptions: src/consumer/assignor/.                    *)
(*                                                                          *)
(* A topic is a number and a partition a pair <<topic, index>>, so that the   *)
(* order the code sorts them in is the order of numbers.  `members` is the    *)
(* sequence of subscriptions the leader decoded, [topics, owned, generation], *)
(* `all` the sequence of the partitions of the subscribed topics, sorted.     *)
(* A result maps each assigned partition to the member's place in `members`.  *)
(****************************************************************************)
EXTENDS Integers, Sequences, FiniteSets, SequencesExt, FiniteSetsExt, Functions

Subscribers(members, topic) ==
    SelectSeq([i \in DOMAIN members |-> i], LAMBDA i : topic \in members[i].topics)

subscribed_topics(members) == UNION {members[i].topics : i \in DOMAIN members}

Before(x, y) == x[1] < y[1] \/ (x[1] = y[1] /\ x[2] < y[2])

\* assign: what is there to assign, in order.
Subscribed(members, partitions) ==
    SetToSortSeq({tp \in partitions : tp[1] \in subscribed_topics(members)}, Before)

\* Per topic, contiguous ranges: the first `extra` subscribers get one more.
range(members, all) ==
    [tp \in ToSet(all) |->
        LET subscribers == Subscribers(members, tp[1])
            count == Cardinality({k \in DOMAIN all : all[k][1] = tp[1]})
            per_member == count \div Len(subscribers)
            extra == count % Len(subscribers)
            First(rank) == per_member * rank + Min({rank, extra})
            rank == CHOOSE r \in 0..(Len(subscribers) - 1) :
                        First(r) <= tp[2] /\ tp[2] < First(r + 1)
        IN  subscribers[rank + 1]]

\* The next member in turn that subscribes to the topic.
roundrobin(members, all) ==
    LET Turn(owner, k) ==
            LET last == IF k = 1 THEN 0 ELSE owner[all[k - 1]]
                Wait(i) == (i - last - 1) % Len(members)
                takers == ToSet(Subscribers(members, all[k][1]))
            IN  owner @@ (all[k] :> CHOOSE i \in takers :
                                        \A j \in takers : Wait(i) <= Wait(j))
    IN  FoldLeft(Turn, <<>>, [k \in DOMAIN all |-> k])

\* The claim with the highest generation, the first on a tie.
resolve_claims(members) ==
    LET Claims(tp) == {i \in DOMAIN members : tp \in members[i].owned}
        Wins(i, tp) == \A j \in Claims(tp) :
            \/ members[i].generation > members[j].generation
            \/ members[i].generation = members[j].generation /\ i <= j
    IN  [tp \in UNION {members[i].owned : i \in DOMAIN members} |->
            CHOOSE i \in Claims(tp) : Wins(i, tp)]

Load(owner, i) == Cardinality({tp \in DOMAIN owner : owner[tp] = i})

\* Whom to serve first: few partitions, then the member's place.
Lighter(owner, i, j) ==
    \/ Load(owner, i) < Load(owner, j)
    \/ Load(owner, i) = Load(owner, j) /\ i <= j

\* One move of the balancing loop, or the same assignment when none is left.
Rebalanced(members, kept, owner) ==
    LET Movable(from, to) ==
            {tp \in DOMAIN owner : owner[tp] = from /\ tp[1] \in members[to].topics}
        Moves == {m \in (DOMAIN members) \X (DOMAIN members) :
                    /\ Load(owner, m[1]) >= Load(owner, m[2]) + 2
                    /\ Movable(m[1], m[2]) # {}}
        Best(m) == \A n \in Moves :
            \/ m[2] # n[2] /\ Lighter(owner, m[2], n[2])
            \/ m[2] = n[2] /\ Lighter(owner, n[1], m[1])
        Kept(tp) == tp \in DOMAIN kept /\ kept[tp] = owner[tp]
        Chosen(m) ==
            LET free == {tp \in Movable(m[1], m[2]) : ~Kept(tp)}
                from == IF free # {} THEN free ELSE Movable(m[1], m[2])
            IN  CHOOSE tp \in from : \A other \in from : tp = other \/ Before(tp, other)
    IN  IF Moves = {} THEN owner
        ELSE LET m == CHOOSE m \in Moves : Best(m)
             IN  [owner EXCEPT ![Chosen(m)] = m[2]]

sticky(members, all) ==
    LET claims == resolve_claims(members)
        kept == Restrict(claims, {tp \in DOMAIN claims \cap ToSet(all) :
                                    tp[1] \in members[claims[tp]].topics})
        Place(owner, tp) ==
            LET takers == ToSet(Subscribers(members, tp[1]))
            IN  IF tp \in DOMAIN owner THEN owner
                ELSE owner @@ (tp :> CHOOSE i \in takers :
                                        \A j \in takers : Lighter(owner, i, j))
        placed == FoldLeft(Place, kept, all)
    IN  FoldLeft(LAMBDA owner, step : Rebalanced(members, kept, owner), placed, all)

assign(strategy, members, partitions) ==
    LET all == Subscribed(members, partitions)
    IN  CASE strategy = "Range" -> range(members, all)
          [] strategy = "RoundRobin" -> roundrobin(members, all)
          [] strategy = "CooperativeSticky" -> sticky(members, all)

is_cooperative(strategy) == strategy = "CooperativeSticky"

withhold_nothing(owner, members) == owner
withhold_transferring_partitions(owner, members) ==
    LET previous_owner == resolve_claims(members)
    IN  Restrict(owner, {tp \in DOMAIN owner :
            tp \in DOMAIN previous_owner => previous_owner[tp] = owner[tp]})

compute_assignments(strategy, members, partitions) ==
    LET owner == assign(strategy, members, partitions)
        given == IF is_cooperative(strategy)
                 THEN withhold_transferring_partitions(owner, members) ELSE owner
    IN  [i \in DOMAIN members |-> {tp \in DOMAIN given : given[tp] = i}]
=============================================================================
