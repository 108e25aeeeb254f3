-------------------------- MODULE EmbeddedProtocol --------------------------
(****************************************************************************)
(* The blobs classic groups carry inside JoinGroup, SyncGroup and             *)
(* DescribeGroups: src/protocol/messages/consumer_protocol.rs.               *)
(*                                                                          *)
(* The coordinator passes them on unread, so the version in a blob is what     *)
(* its writer chose and members of several versions read one another.  A blob *)
(* is the sequence of its fields, each with its kind and value.              *)
(****************************************************************************)
EXTENDS Integers, Sequences, SequencesExt

CONSUMER_PROTOCOL_MAX_VERSION == 3

Null == "null"

Failed == [error |-> TRUE]

\* ConsumerProtocolSubscription::new.
new_subscription(topics) ==
    [version |-> 0, topics |-> topics, user_data |-> Null, owned |-> <<>>,
     generation_id |-> -1, rack_id |-> Null]

AtLeast(known, v) == IF known < v THEN v ELSE known

with_owned_partitions(s, owned) ==
    [s EXCEPT !.owned = owned, !.version = AtLeast(s.version, 1)]

with_generation_id(s, id) ==
    [s EXCEPT !.generation_id = id, !.version = AtLeast(s.version, 2)]

with_rack_id(s, rack) == [s EXCEPT !.rack_id = rack, !.version = AtLeast(s.version, 3)]

When(flag, field) == IF flag THEN <<field>> ELSE <<>>

\* encode_consumer_protocol_subscription refuses a field its version lacks.
encode_subscription(s) ==
    IF \/ s.version < 0
       \/ s.version < 1 /\ s.owned # <<>>
       \/ s.version < 2 /\ s.generation_id # -1
       \/ s.version < 3 /\ s.rack_id # Null
    THEN Failed
    ELSE [error |-> FALSE,
          blob |-> <<<<"i16", s.version>>, <<"strings", s.topics>>, <<"bytes", s.user_data>>>>
                       \o When(s.version >= 1, <<"topic_partitions", s.owned>>)
                       \o When(s.version >= 2, <<"i32", s.generation_id>>)
                       \o When(s.version >= 3, <<"string", s.rack_id>>)]

\* The k-th field of a blob, if it is there and of the kind that is read.
Has(blob, k, kind) == k \in DOMAIN blob /\ blob[k][1] = kind

\* decode_consumer_protocol_subscription: a newer blob is read as the newest
\* version known and the rest of it ignored.
decode_subscription(blob) ==
    LET stated == blob[1][2]
        effective == IF stated < CONSUMER_PROTOCOL_MAX_VERSION THEN stated
                     ELSE CONSUMER_PROTOCOL_MAX_VERSION
    IN  CASE blob = <<>> ->
                 [error |-> FALSE,
                  value |-> [new_subscription(<<>>) EXCEPT !.generation_id = 0]]
          [] blob # <<>> ->
                 IF \/ ~Has(blob, 1, "i16") \/ stated < 0
                    \/ ~Has(blob, 2, "strings") \/ ~Has(blob, 3, "bytes")
                    \/ effective >= 1 /\ ~Has(blob, 4, "topic_partitions")
                    \/ effective >= 2 /\ ~Has(blob, 5, "i32")
                    \/ effective >= 3 /\ ~Has(blob, 6, "string")
                 THEN Failed
                 ELSE [error |-> FALSE,
                       value |-> [version |-> stated, topics |-> blob[2][2],
                                  user_data |-> blob[3][2],
                                  owned |-> IF effective >= 1 THEN blob[4][2] ELSE <<>>,
                                  generation_id |-> IF effective >= 2 THEN blob[5][2] ELSE -1,
                                  rack_id |-> IF effective >= 3 THEN blob[6][2] ELSE Null]]

encode_assignment(a) ==
    IF a.version < 0 THEN Failed
    ELSE [error |-> FALSE,
          blob |-> <<<<"i16", a.version>>, <<"topic_partitions", a.assigned>>,
                     <<"bytes", a.user_data>>>>]

decode_assignment(blob) ==
    CASE blob = <<>> ->
             [error |-> FALSE,
              value |-> [version |-> 0, assigned |-> <<>>, user_data |-> Null]]
      [] blob # <<>> ->
             IF \/ ~Has(blob, 1, "i16") \/ blob[1][2] < 0
                \/ ~Has(blob, 2, "topic_partitions") \/ ~Has(blob, 3, "bytes")
             THEN Failed
             ELSE [error |-> FALSE,
                   value |-> [version |-> blob[1][2], assigned |-> blob[2][2],
                              user_data |-> blob[3][2]]]

------------------------------------------------------------------------------

Lists == {<<>>, <<"t">>, <<"t", "u">>}

\* What the builder makes, whichever of its methods are called.
Subscriptions ==
    LET zero == {new_subscription(t) : t \in Lists}
        one == zero \cup {with_owned_partitions(s, o) : s \in zero, o \in Lists}
        two == one \cup {with_generation_id(s, g) : s \in one, g \in {-1, 0, 7}}
        three == two \cup {with_rack_id(s, "rack") : s \in two}
    IN  three \cup {with_owned_partitions(with_rack_id(s, "rack"), <<"t">>) : s \in two}

\* A subscription that the builder made is never refused, and a member reads
\* what another wrote; of a newer member's it still learns the topics and what
\* is owned; a blob that is cut short is refused rather than read as an older
\* version's.  An assignment is read by every member as the leader wrote it.
BlobsAgree ==
    /\ \A s \in Subscriptions :
           LET e == encode_subscription(s)
           IN  /\ ~e.error
               /\ decode_subscription(e.blob) = [error |-> FALSE, value |-> s]
               /\ \A n \in 1..Len(e.blob) - 1 :
                      decode_subscription(SubSeq(e.blob, 1, n)).error
    /\ \A s \in Subscriptions, v \in {4, 9} :
           LET newer == encode_subscription([s EXCEPT !.version = v]).blob \o <<<<"i32", 1>>>>
               read == decode_subscription(newer)
           IN  ~read.error /\ read.value = [s EXCEPT !.version = v]
    /\ \A v \in 0..5, assigned \in Lists, u \in {Null, "data"} :
           LET a == [version |-> v, assigned |-> assigned, user_data |-> u]
           IN  decode_assignment(encode_assignment(a).blob) = [error |-> FALSE, value |-> a]
==============================================================================
