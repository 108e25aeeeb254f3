------------------------------ MODULE WireData ------------------------------
(******************************************************************************)
(* The bodies the producer, the consumer, the transactional producer, SASL and *)
(* telemetry exchange with a broker: one layout per encode_vN and decode_vN of *)
(* src/protocol/messages.                                                     *)
(******************************************************************************)
EXTENDS WireFormat

ProduceRequest(v) == Codec(v,
    [v3 |-> <<str, i16, i32, arr, str, arr, i32, bytes, end, end>>,
     v9 |-> <<cstr, i16, i32, carr, cstr, carr, i32, cbytes, tags, end,
              tags, end, tags>>,
     v13 |-> <<cstr, i16, i32, carr, uuid, carr, i32, cbytes, tags, end,
               tags, end, tags>>],
    <<<<3..8, "v3">>, <<9..12, "v9">>, <<{13}, "v13">>>>)

ProduceResponse_v3 ==
    <<arr, str, arr, i32, i16, i64, i64, end, end, throttle>>

ProduceResponse_v5 ==
    <<arr, str, arr, i32, i16, i64, i64, i64, end, end, throttle>>

ProduceResponse_v8 ==
    <<arr, str, arr, i32, i16, i64, i64, i64, arr, i32, str, end, str, end,
      end, throttle>>

ProduceResponse_v9 ==
    <<carr, cstr, carr, i32, i16, i64, i64, i64, carr, i32, cstr, tags, end,
      cstr, tags, end, tags, end, throttle, tags>>

ProduceResponse_v13 ==
    <<carr, uuid, carr, i32, i16, i64, i64, i64, carr, i32, cstr, tags, end,
      cstr, tags, end, tags, end, throttle, tags>>

ProduceResponse(v) == Codec(v,
    [v3 |-> ProduceResponse_v3, v5 |-> ProduceResponse_v5, v8 |->
     ProduceResponse_v8, v9 |-> ProduceResponse_v9, v13 |->
     ProduceResponse_v13],
    <<<<3..4, "v3">>, <<5..7, "v5">>, <<{8}, "v8">>, <<9..12, "v9">>,
      <<{13}, "v13">>>>)

FetchRequest_topics(include_log_start_offset) ==
    <<arr, str, arr, i32, i64>> \o When(include_log_start_offset, <<i64>>)
        \o <<i32, end, end>>

FetchRequest_inner_v4(include_log_start_offset) ==
    <<i32, i32, i32, i32, i8>> \o FetchRequest_topics(include_log_start_offset)

FetchRequest_inner_v7(include_leader_epoch) ==
    <<i32, i32, i32, i32, i8, i32, i32, arr, str, arr, i32>>
        \o When(include_leader_epoch, <<i32>>)
        \o <<i64, i64, i32, end, end, arr, str, arr, i32, end, end>>

FetchRequest_v11 == FetchRequest_inner_v7(TRUE) \o <<str>>

FetchRequest_v12 ==
    <<i32, i32, i32, i32, i8, i32, i32, carr, cstr, carr, i32, i32, i64, i32,
      i64, i32, tags, end, tags, end, carr, cstr, carr, i32, end, tags, end,
      cstr, tags>>

FetchRequest_v13 ==
    <<i32, i32, i32, i32, i8, i32, i32, carr, uuid, carr, i32, i32, i64, i32,
      i64, i32, tags, end, tags, end, carr, uuid, carr, i32, end, tags, end,
      cstr, tags>>

\* v17 and v18 put the directory id and the high watermark in the tags.
FetchRequest_v15 ==
    <<i32, i32, i32, i8, i32, i32, carr, uuid, carr, i32, i32, i64, i32, i64,
      i32, tags, end, tags, end, carr, uuid, carr, i32, end, tags, end, cstr,
      tags>>

FetchRequestBody ==
    [v4 |-> FetchRequest_inner_v4(FALSE), v5 |-> FetchRequest_inner_v4(TRUE),
     v7 |-> FetchRequest_inner_v7(FALSE), v9 |-> FetchRequest_inner_v7(TRUE),
     v11 |-> FetchRequest_v11, v12 |-> FetchRequest_v12,
     v13 |-> FetchRequest_v13, v15 |-> FetchRequest_v15,
     v17 |-> FetchRequest_v15, v18 |-> FetchRequest_v15]

FetchRequest(v) == Codec(v, FetchRequestBody,
    <<<<{4}, "v4">>, <<{5, 6}, "v5">>, <<{7, 8}, "v7">>, <<{9, 10}, "v9">>,
      <<{11}, "v11">>, <<{12}, "v12">>, <<{13, 14}, "v13">>, <<{15, 16},
      "v15">>, <<{17}, "v17">>, <<{18}, "v18">>>>)

FetchResponse_inner_v4(include_log_start_offset) ==
    <<throttle, arr, str, arr, i32, i16, i64, i64>>
        \o When(include_log_start_offset, <<i64>>)
        \o <<arr, i64, i64, end, bytes, end, end>>

FetchResponse_inner_v7(has_preferred_read_replica) ==
    <<throttle, i16, i32, arr, str, arr, i32, i16, i64, i64, i64, arr, i64,
      i64, end>> \o When(has_preferred_read_replica, <<i32>>)
        \o <<bytes, end, end>>

\* DivergingEpoch, CurrentLeader and NodeEndpoints are read from the tags.
FetchResponse_v12 ==
    <<throttle, i16, i32, carr, cstr, carr, i32, i16, i64, i64, i64, carr,
      i64, i64, tags, end, i32, cbytes, tags, end, tags, end, tags>>

FetchResponse_v13 ==
    <<throttle, i16, i32, carr, uuid, carr, i32, i16, i64, i64, i64, carr,
      i64, i64, tags, end, i32, cbytes, tags, end, tags, end, tags>>

FetchResponse(v) == Codec(v,
    [v4 |-> FetchResponse_inner_v4(FALSE), v5 |-> FetchResponse_inner_v4(TRUE),
     v7 |-> FetchResponse_inner_v7(FALSE), v11 |-> FetchResponse_inner_v7(TRUE),
     v12 |-> FetchResponse_v12, v13 |-> FetchResponse_v13],
    <<<<{4}, "v4">>, <<{5, 6}, "v5">>, <<7..10, "v7">>, <<{11}, "v11">>,
      <<{12}, "v12">>, <<13..18, "v13">>>>)

ListOffsetsRequest(v) == Codec(v,
    [v1 |-> <<i32, arr, str, arr, i32, i64, end, end>>,
     v2 |-> <<i32, i8, arr, str, arr, i32, i64, end, end>>,
     v4 |-> <<i32, i8, arr, str, arr, i32, i32, i64, end, end>>,
     v6 |-> <<i32, i8, carr, cstr, carr, i32, i32, i64, tags, end, tags,
              end, tags>>,
     v10 |-> <<i32, i8, carr, cstr, carr, i32, i32, i64, tags, end, tags,
               end, i32, tags>>],
    <<<<{1}, "v1">>, <<{2, 3}, "v2">>, <<{4, 5}, "v4">>, <<6..9, "v6">>,
      <<10..11, "v10">>>>)

ListOffsetsResponse(v) == Codec(v,
    [v1 |-> <<arr, str, arr, i32, i16, i64, i64, end, end>>,
     v2 |-> <<throttle, arr, str, arr, i32, i16, i64, i64, end, end>>,
     v4 |-> <<throttle, arr, str, arr, i32, i16, i64, i64, i32, end, end>>,
     v6 |-> <<throttle, carr, cstr, carr, i32, i16, i64, i64, i32, tags,
              end, tags, end, tags>>],
    <<<<{1}, "v1">>, <<{2, 3}, "v2">>, <<{4, 5}, "v4">>, <<6..11, "v6">>>>)

MetadataRequest(v) == Codec(v,
    [v1 |-> <<arr, str, end>>,
     v4 |-> <<arr, str, end, i8>>,
     v8 |-> <<arr, str, end, i8, i8, i8>>,
     v9 |-> <<carr, cstr, tags, end, i8, i8, i8, tags>>,
     v10 |-> <<carr, uuid, cstr, tags, end, i8, i8, i8, tags>>,
     v11 |-> <<carr, uuid, cstr, tags, end, i8, i8, tags>>,
     v12 |-> <<carr, uuid, cstr, tags, end, i8, i8, tags>>],
    <<<<1..3, "v1">>, <<4..7, "v4">>, <<{8}, "v8">>, <<{9}, "v9">>, <<{10},
      "v10">>, <<{11}, "v11">>, <<12..13, "v12">>>>)

MetadataBrokerV1 == <<i32, str, i32, str>>

MetadataBrokerV9 == <<i32, cstr, i32, cstr, tags>>

MetadataPartitionResponseV0 == <<i16, i32, i32, arr, i32, end, arr, i32, end>>

MetadataPartitionResponseV5 ==
    <<i16, i32, i32, arr, i32, end, arr, i32, end, arr, i32, end>>

MetadataPartitionResponseV7 ==
    <<i16, i32, i32, i32, arr, i32, end, arr, i32, end, arr, i32, end>>

MetadataPartitionResponseV9 ==
    <<i16, i32, i32, i32, carr, i32, end, carr, i32, end, carr, i32, end, tags>>

MetadataTopicResponseV1 ==
    <<i16, str, bool, arr>> \o MetadataPartitionResponseV0 \o <<end>>

MetadataTopicResponseV5 ==
    <<i16, str, bool, arr>> \o MetadataPartitionResponseV5 \o <<end>>

MetadataTopicResponseV7 ==
    <<i16, str, bool, arr>> \o MetadataPartitionResponseV7 \o <<end>>

MetadataTopicResponseV8 ==
    <<i16, str, bool, arr>> \o MetadataPartitionResponseV7 \o <<end, i32>>

MetadataTopicResponseV9 ==
    <<i16, cstr, bool, carr>> \o MetadataPartitionResponseV9 \o <<end, i32, tags>>

MetadataTopicResponseV10 ==
    <<i16, cstr, uuid, bool, carr>> \o MetadataPartitionResponseV9
        \o <<end, i32, tags>>

MetadataResponse_v1 ==
    <<arr>> \o MetadataBrokerV1 \o <<end, i32, arr>> \o MetadataTopicResponseV1
        \o <<end>>

MetadataResponse_v2 ==
    <<arr>> \o MetadataBrokerV1 \o <<end, str, i32, arr>>
        \o MetadataTopicResponseV1 \o <<end>>

MetadataResponse_v3_plus(topic) ==
    <<throttle, arr>> \o MetadataBrokerV1 \o <<end, str, i32, arr>> \o topic
        \o <<end>>

MetadataResponse_v8 ==
    MetadataResponse_v3_plus(MetadataTopicResponseV8) \o <<i32>>

MetadataResponse_v9_plus(topic, include_cluster_auth_ops) ==
    <<throttle, carr>> \o MetadataBrokerV9 \o <<end, cstr, i32, carr>> \o topic
        \o <<end>> \o When(include_cluster_auth_ops, <<i32>>) \o <<tags>>

MetadataResponse_v13 ==
    <<throttle, carr>> \o MetadataBrokerV9 \o <<end, cstr, i32, carr>>
        \o MetadataTopicResponseV10 \o <<end, i16, tags>>

MetadataResponseBody ==
    [v1 |-> MetadataResponse_v1, v2 |-> MetadataResponse_v2,
     v3 |-> MetadataResponse_v3_plus(MetadataTopicResponseV1),
     v5 |-> MetadataResponse_v3_plus(MetadataTopicResponseV5),
     v7 |-> MetadataResponse_v3_plus(MetadataTopicResponseV7),
     v8 |-> MetadataResponse_v8,
     v9 |-> MetadataResponse_v9_plus(MetadataTopicResponseV9, TRUE),
     v10 |-> MetadataResponse_v9_plus(MetadataTopicResponseV10, TRUE),
     v11 |-> MetadataResponse_v9_plus(MetadataTopicResponseV10, FALSE),
     v13 |-> MetadataResponse_v13]

MetadataResponse(v) == Codec(v, MetadataResponseBody,
    <<<<{1}, "v1">>, <<{2}, "v2">>, <<3..4, "v3">>, <<5..6, "v5">>, <<{7},
      "v7">>, <<{8}, "v8">>, <<{9}, "v9">>, <<{10}, "v10">>, <<11..12,
      "v11">>, <<{13}, "v13">>>>)

OffsetForLeaderEpochRequest(v) == Codec(v,
    [v2 |-> <<arr, str, arr, i32, i32, i32, end, end>>,
     v3 |-> <<i32, arr, str, arr, i32, i32, i32, end, end>>,
     v4 |-> <<i32, carr, cstr, carr, i32, i32, i32, tags, end, tags, end,
              tags>>],
    <<<<{2}, "v2">>, <<{3}, "v3">>, <<{4}, "v4">>>>)

OffsetForLeaderEpochResponse(v) == Codec(v,
    [v2 |-> <<throttle, arr, str, arr, i16, i32, i32, i64, end, end>>,
     v4 |-> <<throttle, carr, cstr, carr, i16, i32, i32, i64, tags, end,
              tags, end, tags>>],
    <<<<2..3, "v2">>, <<{4}, "v4">>>>)

InitProducerIdRequest(v) == Codec(v,
    [v0 |-> <<str, i32>>,
     v2 |-> <<cstr, i32, tags>>,
     v3 |-> <<cstr, i32, i64, i16, tags>>,
     v6 |-> <<cstr, i32, i64, i16, i8, i8, tags>>],
    <<<<{0, 1}, "v0">>, <<{2}, "v2">>, <<3..5, "v3">>, <<{6}, "v6">>>>)

InitProducerIdResponse(v) == Codec(v,
    [v0 |-> <<throttle, i16, i64, i16>>,
     v2 |-> <<throttle, i16, i64, i16, tags>>,
     v6 |-> <<throttle, i16, i64, i16, i64, i16, tags>>],
    <<<<{0, 1}, "v0">>, <<2..5, "v2">>, <<{6}, "v6">>>>)

AddPartitionsToTxnRequest(v) == Codec(v,
    [v0 |-> <<str, i64, i16, arr, str, arr, i32, end, end>>,
     v3 |-> <<cstr, i64, i16, carr, cstr, carr, i32, end, tags, end, tags>>,
     v4 |-> <<carr, cstr, i64, i16, i8, carr, cstr, carr, i32, end, tags,
              end, tags, end, tags>>],
    <<<<0..2, "v0">>, <<{3}, "v3">>, <<{4, 5}, "v4">>>>)

AddPartitionsToTxnResponse(v) == Codec(v,
    [v0 |-> <<throttle, arr, str, arr, i32, i16, end, end>>,
     v3 |-> <<throttle, carr, cstr, carr, i32, i16, tags, end, tags, end,
              tags>>,
     v4 |-> <<throttle, i16, carr, cstr, carr, cstr, carr, i32, i16, tags,
              end, tags, end, tags, end, tags>>],
    <<<<0..2, "v0">>, <<{3}, "v3">>, <<{4, 5}, "v4">>>>)

AddOffsetsToTxnRequest(v) == Codec(v,
    [v0 |-> <<str, i64, i16, str>>,
     v3 |-> <<cstr, i64, i16, cstr, tags>>],
    <<<<0..2, "v0">>, <<{3, 4}, "v3">>>>)

AddOffsetsToTxnResponse(v) == Codec(v,
    [v0 |-> <<throttle, i16>>,
     v3 |-> <<throttle, i16, tags>>],
    <<<<0..2, "v0">>, <<{3, 4}, "v3">>>>)

EndTxnRequest(v) == Codec(v,
    [v0 |-> <<str, i64, i16, bool>>,
     v3 |-> <<cstr, i64, i16, bool, tags>>],
    <<<<0..2, "v0">>, <<3..5, "v3">>>>)

EndTxnResponse(v) == Codec(v,
    [v0 |-> <<throttle, i16>>,
     v3 |-> <<throttle, i16, tags>>,
     v5 |-> <<throttle, i16, i64, i16, tags>>],
    <<<<0..2, "v0">>, <<3..4, "v3">>, <<{5}, "v5">>>>)

TxnOffsetCommitRequest(v) == Codec(v,
    [v0 |-> <<str, str, i64, i16, arr, str, arr, i32, i64, str, end, end>>,
     v2 |-> <<str, str, i64, i16, arr, str, arr, i32, i64, i32, str, end,
              end>>,
     v3 |-> <<cstr, cstr, i64, i16, i32, cstr, cstr, carr, cstr, carr, i32,
              i64, i32, cstr, tags, end, tags, end, tags>>],
    <<<<0..1, "v0">>, <<{2}, "v2">>, <<3..5, "v3">>>>)

TxnOffsetCommitResponse(v) == Codec(v,
    [v0 |-> <<throttle, arr, str, arr, i32, i16, end, end>>,
     v3 |-> <<throttle, carr, cstr, carr, i32, i16, tags, end, tags, end,
              tags>>],
    <<<<0..2, "v0">>, <<3..5, "v3">>>>)

WriteTxnMarkersRequest(v) == Codec(v,
    [v1 |-> <<carr, i64, i16, i8, carr, cstr, carr, i32, end, tags, end,
              i32, tags, end, tags>>,
     v2 |-> <<carr, i64, i16, i8, carr, cstr, carr, i32, end, tags, end,
              i32, i8, tags, end, tags>>],
    <<<<{1}, "v1">>, <<{2}, "v2">>>>)

WriteTxnMarkersResponse(v) == Codec(v,
    [v1 |-> <<carr, i64, carr, cstr, carr, i32, i16, tags, end, tags, end,
              tags, end, tags>>],
    <<<<{1, 2}, "v1">>>>)

SaslHandshakeRequest(v) == Codec(v,
    [v0 |-> <<str>>,
     v1 |-> <<str>>],
    <<<<{0}, "v0">>, <<{1}, "v1">>>>)

SaslHandshakeResponse(v) == Codec(v,
    [v0 |-> <<i16, arr, str, end>>],
    <<<<0..1, "v0">>>>)

SaslAuthenticateRequest(v) == Codec(v,
    [v0 |-> <<bytes>>,
     v1 |-> <<bytes>>],
    <<<<{0}, "v0">>, <<{1}, "v1">>>>)

SaslAuthenticateResponse(v) == Codec(v,
    [v0 |-> <<i16, str, bytes>>,
     v1 |-> <<i16, str, bytes, i64>>],
    <<<<{0}, "v0">>, <<{1}, "v1">>>>)

GetTelemetrySubscriptionsRequest(v) == Codec(v,
    [v0 |-> <<uuid, tags>>],
    <<<<{0}, "v0">>>>)

GetTelemetrySubscriptionsResponse(v) == Codec(v,
    [v0 |-> <<throttle, i16, uuid, i32, carr, i8, end, i32, i32, i8, carr,
              cstr, end, tags>>],
    <<<<{0}, "v0">>>>)

PushTelemetryRequest(v) == Codec(v,
    [v0 |-> <<uuid, i32, i8, i8, cbytes, tags>>],
    <<<<{0}, "v0">>>>)

PushTelemetryResponse(v) == Codec(v,
    [v0 |-> <<throttle, i16, tags>>],
    <<<<{0}, "v0">>>>)
==============================================================================
