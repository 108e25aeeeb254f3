------------------------------ MODULE WireGroups ------------------------------
(******************************************************************************)
(* The bodies of the group APIs (classic, consumer, share and streams groups, *)
(* offsets): one layout per encode_vN and decode_vN of src/protocol/messages. *)
(******************************************************************************)
EXTENDS WireFormat

FindCoordinatorRequest(v) == Codec(v,
    [v1 |-> <<str, i8>>,
     v3 |-> <<cstr, i8, tags>>,
     v4 |-> <<i8, carr, cstr, end, tags>>],
    <<<<1..2, "v1">>, <<{3}, "v3">>, <<4..6, "v4">>>>)

FindCoordinatorResponse(v) == Codec(v,
    [v1 |-> <<throttle, i16, str, i32, str, i32>>,
     v3 |-> <<throttle, i16, cstr, i32, cstr, i32, tags>>,
     v4 |-> <<throttle, carr, cstr, i32, cstr, i32, i16, cstr, tags, end,
              tags>>],
    <<<<1..2, "v1">>, <<{3}, "v3">>, <<4..6, "v4">>>>)

JoinGroupRequest(v) == Codec(v,
    [v4 |-> <<str, i32, i32, str, str, arr, str, bytes, end>>,
     v5 |-> <<str, i32, i32, str, str, str, arr, str, bytes, end>>,
     v6 |-> <<cstr, i32, i32, cstr, cstr, cstr, carr, cstr, cbytes, tags,
              end, tags>>,
     v8 |-> <<cstr, i32, i32, cstr, cstr, cstr, carr, cstr, cbytes, tags,
              end, cstr, tags>>],
    <<<<{4}, "v4">>, <<{5}, "v5">>, <<{6, 7}, "v6">>, <<{8, 9}, "v8">>>>)

JoinGroupResponse(v) == Codec(v,
    [v4 |-> <<throttle, i16, i32, str, str, str, arr, str, bytes, end>>,
     v5 |-> <<throttle, i16, i32, str, str, str, arr, str, str, bytes, end>>,
     v6 |-> <<throttle, i16, i32, cstr, cstr, cstr, carr, cstr, cstr,
              cbytes, tags, end, tags>>,
     v7 |-> <<throttle, i16, i32, cstr, cstr, cstr, cstr, carr, cstr, cstr,
              cbytes, tags, end, tags>>,
     v9 |-> <<throttle, i16, i32, cstr, cstr, cstr, bool, cstr, carr, cstr,
              cstr, cbytes, tags, end, tags>>],
    <<<<{4}, "v4">>, <<{5}, "v5">>, <<{6}, "v6">>, <<{7, 8}, "v7">>, <<{9},
      "v9">>>>)

SyncGroupRequest(v) == Codec(v,
    [v3 |-> <<str, i32, str, str, arr, str, bytes, end>>,
     v4 |-> <<cstr, i32, cstr, cstr, carr, cstr, cbytes, tags, end, tags>>,
     v5 |-> <<cstr, i32, cstr, cstr, cstr, cstr, carr, cstr, cbytes, tags,
              end, tags>>],
    <<<<{3}, "v3">>, <<{4}, "v4">>, <<{5}, "v5">>>>)

SyncGroupResponse(v) == Codec(v,
    [v3 |-> <<throttle, i16, bytes>>,
     v4 |-> <<throttle, i16, cbytes, tags>>,
     v5 |-> <<throttle, i16, cstr, cstr, cbytes, tags>>],
    <<<<{3}, "v3">>, <<{4}, "v4">>, <<{5}, "v5">>>>)

HeartbeatRequest(v) == Codec(v,
    [v3 |-> <<str, i32, str, str>>,
     v4 |-> <<cstr, i32, cstr, cstr, tags>>],
    <<<<{3}, "v3">>, <<{4}, "v4">>>>)

HeartbeatResponse(v) == Codec(v,
    [v3 |-> <<throttle, i16>>,
     v4 |-> <<throttle, i16, tags>>],
    <<<<{3}, "v3">>, <<{4}, "v4">>>>)

LeaveGroupRequest(v) == Codec(v,
    [v3 |-> <<str, arr, str, str, end>>,
     v4 |-> <<cstr, carr, cstr, cstr, tags, end, tags>>,
     v5 |-> <<cstr, carr, cstr, cstr, cstr, tags, end, tags>>],
    <<<<{3}, "v3">>, <<{4}, "v4">>, <<{5}, "v5">>>>)

LeaveGroupResponse(v) == Codec(v,
    [v3 |-> <<throttle, i16, arr, str, str, i16, end>>,
     v4 |-> <<throttle, i16, carr, cstr, cstr, i16, tags, end, tags>>,
     v5 |-> <<throttle, i16, carr, cstr, cstr, i16, tags, end, tags>>],
    <<<<{3}, "v3">>, <<{4}, "v4">>, <<{5}, "v5">>>>)

OffsetCommitRequest(v) == Codec(v,
    [v2 |-> <<str, i32, str, i64, arr, str, arr, i32, i64, str, end, end>>,
     v5 |-> <<str, i32, str, arr, str, arr, i32, i64, str, end, end>>,
     v6 |-> <<str, i32, str, arr, str, arr, i32, i64, i32, str, end, end>>,
     v7 |-> <<str, i32, str, str, arr, str, arr, i32, i64, i32, str, end,
              end>>,
     v8 |-> <<cstr, i32, cstr, cstr, carr, cstr, carr, i32, i64, i32, cstr,
              tags, end, tags, end, tags>>,
     v10 |-> <<cstr, i32, cstr, cstr, carr, uuid, carr, i32, i64, i32, cstr,
               tags, end, tags, end, tags>>],
    <<<<2..4, "v2">>, <<{5}, "v5">>, <<{6}, "v6">>, <<{7}, "v7">>, <<8..9,
      "v8">>, <<{10}, "v10">>>>)

OffsetCommitResponse(v) == Codec(v,
    [v2 |-> <<arr, str, arr, i32, i16, end, end>>,
     v3 |-> <<throttle, arr, str, arr, i32, i16, end, end>>,
     v8 |-> <<throttle, carr, cstr, carr, i32, i16, tags, end, tags, end,
              tags>>,
     v10 |-> <<throttle, carr, uuid, carr, i32, i16, tags, end, tags, end,
               tags>>],
    <<<<{2}, "v2">>, <<3..7, "v3">>, <<8..9, "v8">>, <<{10}, "v10">>>>)

OffsetFetchRequest_topics_non_flexible == <<arr, str, arr, i32, end, end>>

OffsetFetchRequest_topics_compact ==
    <<carr, cstr, carr, i32, end, tags, end>>

OffsetFetchRequest_v10 ==
    <<carr, cstr, cstr, i32, carr, uuid, carr, i32, end, tags, end, tags, end,
      i8, tags>>

OffsetFetchRequestBody ==
    [v1 |-> <<str>> \o OffsetFetchRequest_topics_non_flexible,
     v6 |-> <<cstr>> \o OffsetFetchRequest_topics_compact \o <<tags>>,
     v7 |-> <<cstr>> \o OffsetFetchRequest_topics_compact \o <<i8, tags>>,
     v8 |-> <<carr, cstr>> \o OffsetFetchRequest_topics_compact
                \o <<tags, end, i8, tags>>,
     v9 |-> <<carr, cstr, cstr, i32>> \o OffsetFetchRequest_topics_compact
                \o <<tags, end, i8, tags>>,
     v10 |-> OffsetFetchRequest_v10]

OffsetFetchRequest(v) == Codec(v, OffsetFetchRequestBody,
    <<<<1..5, "v1">>, <<{6}, "v6">>, <<{7}, "v7">>, <<{8}, "v8">>, <<{9},
      "v9">>, <<{10}, "v10">>>>)

OffsetFetchResponse_topics == <<arr, str, arr, i32, i64, str, i16, end, end>>

OffsetFetchResponse_topics_v5 ==
    <<arr, str, arr, i32, i64, i32, str, i16, end, end>>

OffsetFetchResponse_topics_compact ==
    <<carr, cstr, carr, i32, i64, i32, cstr, i16, tags, end, tags, end>>

OffsetFetchResponse_v10 ==
    <<throttle, carr, cstr, carr, uuid, carr, i32, i64, i32, cstr, i16, tags,
      end, tags, end, i16, tags, end, tags>>

OffsetFetchResponseBody ==
    [v1 |-> OffsetFetchResponse_topics,
     v2 |-> OffsetFetchResponse_topics \o <<i16>>,
     v3 |-> <<throttle>> \o OffsetFetchResponse_topics \o <<i16>>,
     v5 |-> <<throttle>> \o OffsetFetchResponse_topics_v5 \o <<i16>>,
     v6 |-> <<throttle>> \o OffsetFetchResponse_topics_compact \o <<i16, tags>>,
     v8 |-> <<throttle, carr, cstr>> \o OffsetFetchResponse_topics_compact
                \o <<i16, tags, end, tags>>,
     v10 |-> OffsetFetchResponse_v10]

OffsetFetchResponse(v) == Codec(v, OffsetFetchResponseBody,
    <<<<{1}, "v1">>, <<{2}, "v2">>, <<3..4, "v3">>, <<{5}, "v5">>, <<6..7,
      "v6">>, <<8..9, "v8">>, <<{10}, "v10">>>>)

OffsetDeleteRequest(v) == Codec(v,
    [v0 |-> <<str, arr, str, arr, i32, end, end>>],
    <<<<{0}, "v0">>>>)

OffsetDeleteResponse(v) == Codec(v,
    [v0 |-> <<i16, throttle, arr, str, arr, i32, i16, end, end>>],
    <<<<{0}, "v0">>>>)

ConsumerGroupHeartbeatRequest(v) == Codec(v,
    [v0 |-> <<cstr, cstr, i32, cstr, cstr, i32, carr, cstr, end, cstr, carr,
              uuid, carr, i32, end, tags, end, tags>>,
     v1 |-> <<cstr, cstr, i32, cstr, cstr, i32, carr, cstr, end, cstr, cstr,
              carr, uuid, carr, i32, end, tags, end, tags>>],
    <<<<{0}, "v0">>, <<{1}, "v1">>>>)

ConsumerGroupHeartbeatResponse(v) == Codec(v,
    [v0 |-> <<throttle, i16, cstr, cstr, i32, i32, opt, carr, uuid, carr,
              i32, end, tags, end, tags, end, tags>>],
    <<<<{0, 1}, "v0">>>>)

ConsumerGroupDescribeRequest(v) == Codec(v,
    [v0 |-> <<carr, cstr, end, i8, tags>>],
    <<<<{0, 1}, "v0">>>>)

ConsumerGroupDescribe_assignment ==
    <<carr, uuid, cstr, carr, i32, end, tags, end, tags>>

ConsumerGroupDescribeResponse_v0 ==
    <<throttle, carr, i16, cstr, cstr, cstr, i32, i32, cstr, carr, cstr, cstr,
      cstr, i32, cstr, cstr, carr, cstr, end, cstr>>
        \o ConsumerGroupDescribe_assignment \o ConsumerGroupDescribe_assignment
        \o <<tags, end, i32, tags, end, tags>>

ConsumerGroupDescribeResponse_v1 ==
    <<throttle, carr, i16, cstr, cstr, cstr, i32, i32, cstr, carr, cstr, cstr,
      cstr, i32, cstr, cstr, carr, cstr, end, cstr>>
        \o ConsumerGroupDescribe_assignment \o ConsumerGroupDescribe_assignment
        \o <<i8, tags, end, i32, tags, end, tags>>

ConsumerGroupDescribeResponse(v) == Codec(v,
    [v0 |-> ConsumerGroupDescribeResponse_v0, v1 |->
     ConsumerGroupDescribeResponse_v1],
    <<<<{0}, "v0">>, <<{1}, "v1">>>>)

DescribeGroupsRequest(v) == Codec(v,
    [v1 |-> <<arr, str, end>>,
     v3 |-> <<arr, str, end, bool>>,
     v5 |-> <<carr, cstr, end, bool, tags>>],
    <<<<{1, 2}, "v1">>, <<{3, 4}, "v3">>, <<{5, 6}, "v5">>>>)

DescribeGroupsResponse_v1 ==
    <<throttle, arr, i16, str, str, str, str, arr, str, str, str, bytes,
      bytes, end, end>>

DescribeGroupsResponse_v3 ==
    <<throttle, arr, i16, str, str, str, str, arr, str, str, str, bytes,
      bytes, end, i32, end>>

DescribeGroupsResponse_v4 ==
    <<throttle, arr, i16, str, str, str, str, arr, str, str, str, str,
      bytes, bytes, end, i32, end>>

DescribeGroupsResponse_v5 ==
    <<throttle, carr, i16, cstr, cstr, cstr, cstr, carr, cstr, cstr, cstr,
      cstr, cbytes, cbytes, tags, end, i32, tags, end, tags>>

DescribeGroupsResponse_v6 ==
    <<throttle, carr, i16, cstr, cstr, cstr, cstr, cstr, carr, cstr, cstr,
      cstr, cstr, cbytes, cbytes, tags, end, i32, tags, end, tags>>

DescribeGroupsResponse(v) == Codec(v,
    [v1 |-> DescribeGroupsResponse_v1, v3 |-> DescribeGroupsResponse_v3, v4
     |-> DescribeGroupsResponse_v4, v5 |-> DescribeGroupsResponse_v5, v6 |->
     DescribeGroupsResponse_v6],
    <<<<{1, 2}, "v1">>, <<{3}, "v3">>, <<{4}, "v4">>, <<{5}, "v5">>, <<{6},
      "v6">>>>)

ListGroupsRequest(v) == Codec(v,
    [v1 |-> <<>>,
     v3 |-> <<tags>>,
     v4 |-> <<carr, cstr, end, tags>>,
     v5 |-> <<carr, cstr, end, carr, cstr, end, tags>>],
    <<<<{1, 2}, "v1">>, <<{3}, "v3">>, <<{4}, "v4">>, <<{5}, "v5">>>>)

ListGroupsResponse(v) == Codec(v,
    [v1 |-> <<throttle, i16, arr, str, str, end>>,
     v3 |-> <<throttle, i16, carr, cstr, cstr, tags, end, tags>>,
     v4 |-> <<throttle, i16, carr, cstr, cstr, cstr, tags, end, tags>>,
     v5 |-> <<throttle, i16, carr, cstr, cstr, cstr, cstr, tags, end, tags>>],
    <<<<{1, 2}, "v1">>, <<{3}, "v3">>, <<{4}, "v4">>, <<{5}, "v5">>>>)

DeleteGroupsRequest(v) == Codec(v,
    [v0 |-> <<arr, str, end>>,
     v2 |-> <<carr, cstr, end, tags>>],
    <<<<{0, 1}, "v0">>, <<{2}, "v2">>>>)

DeleteGroupsResponse(v) == Codec(v,
    [v0 |-> <<throttle, arr, str, i16, end>>,
     v2 |-> <<throttle, carr, cstr, i16, tags, end, tags>>],
    <<<<{0, 1}, "v0">>, <<{2}, "v2">>>>)

ShareGroupHeartbeatRequest(v) == Codec(v,
    [v1 |-> <<cstr, cstr, i32, cstr, carr, cstr, end, tags>>],
    <<<<{1}, "v1">>>>)

ShareGroupHeartbeatResponse(v) == Codec(v,
    [v1 |-> <<throttle, i16, cstr, cstr, i32, i32, opt, carr, uuid, carr,
              i32, end, tags, end, tags, end, tags>>],
    <<<<{1}, "v1">>>>)

ShareGroupDescribeRequest(v) == Codec(v,
    [v1 |-> <<carr, cstr, end, i8, tags>>],
    <<<<{1}, "v1">>>>)

ShareGroupDescribeResponse(v) == Codec(v,
    [v1 |-> <<throttle, carr, i16, cstr, cstr, cstr, i32, i32, cstr, carr,
              cstr, cstr, i32, cstr, cstr, carr, cstr, end, carr, uuid, cstr,
              carr, i32, end, tags, end, tags, tags, end, i32, tags, end,
              tags>>],
    <<<<{1}, "v1">>>>)

ShareFetchRequestBody ==
    [v1 |-> <<cstr, cstr, i32, i32, i32, i32, i32, i32, carr, uuid, carr,
              i32, carr, i64, i64, carr, i8, end, tags, end, tags, end, tags,
              end, carr, uuid, carr, i32, end, tags, end, tags>>,
     v2 |-> <<cstr, cstr, i32, i32, i32, i32, i32, i32, i8, i8, carr, uuid,
              carr, i32, carr, i64, i64, carr, i8, end, tags, end, tags, end,
              tags, end, carr, uuid, carr, i32, end, tags, end, tags>>]

ShareFetchResponse(v) == Codec(v,
    [v1 |-> <<throttle, i16, cstr, i32, carr, uuid, carr, i32, i16, cstr,
              i16, cstr, i32, i32, tags, cbytes, carr, i64, i64, i16, tags,
              end, tags, end, tags, end, carr, i32, cstr, i32, cstr, tags,
              end, tags>>,
     v2 |-> <<throttle, i16, cstr, i32, carr, uuid, carr, i32, i16, cstr,
              i16, cstr, i32, i32, tags, cbytes, carr, i64, i64, i16, tags,
              end, tags, end, tags, end, carr, i32, cstr, i32, cstr, tags,
              end, tags>>],
    <<<<{1}, "v1">>, <<{2}, "v2">>>>)

ShareAcknowledgeRequestBody ==
    [v1 |-> <<cstr, cstr, i32, carr, uuid, carr, i32, carr, i64, i64, carr,
              i8, end, tags, end, tags, end, tags, end, tags>>,
     v2 |-> <<cstr, cstr, i32, i8, carr, uuid, carr, i32, carr, i64, i64,
              carr, i8, end, tags, end, tags, end, tags, end, tags>>]

ShareAcknowledgeResponse(v) == Codec(v,
    [v1 |-> <<throttle, i16, cstr, carr, uuid, carr, i32, i16, cstr, i32,
              i32, tags, tags, end, tags, end, carr, i32, cstr, i32, cstr,
              tags, end, tags>>,
     v2 |-> <<throttle, i16, cstr, i32, carr, uuid, carr, i32, i16, cstr,
              i32, i32, tags, tags, end, tags, end, carr, i32, cstr, i32,
              cstr, tags, end, tags>>],
    <<<<{1}, "v1">>, <<{2}, "v2">>>>)

DescribeShareGroupOffsetsRequest(v) == Codec(v,
    [v0 |-> <<carr, cstr, carr, cstr, carr, i32, end, tags, end, tags, end,
              tags>>],
    <<<<0..1, "v0">>>>)

DescribeShareGroupOffsetsResponse(v) == Codec(v,
    [v0 |-> <<throttle, carr, cstr, carr, cstr, uuid, carr, i32, i64, i32,
              i16, cstr, tags, end, tags, end, i16, cstr, tags, end, tags>>,
     v1 |-> <<throttle, carr, cstr, carr, cstr, uuid, carr, i32, i64, i32,
              i64, i16, cstr, tags, end, tags, end, i16, cstr, tags, end,
              tags>>],
    <<<<{0}, "v0">>, <<{1}, "v1">>>>)

AlterShareGroupOffsetsRequest(v) == Codec(v,
    [v0 |-> <<cstr, carr, cstr, carr, i32, i64, tags, end, tags, end, tags>>],
    <<<<{0}, "v0">>>>)

AlterShareGroupOffsetsResponse(v) == Codec(v,
    [v0 |-> <<throttle, i16, cstr, carr, cstr, uuid, carr, i32, i16, cstr,
              tags, end, tags, end, tags>>],
    <<<<{0}, "v0">>>>)

DeleteShareGroupOffsetsRequest(v) == Codec(v,
    [v0 |-> <<cstr, carr, cstr, tags, end, tags>>],
    <<<<{0}, "v0">>>>)

DeleteShareGroupOffsetsResponse(v) == Codec(v,
    [v0 |-> <<throttle, i16, cstr, carr, cstr, uuid, i16, cstr, tags, end,
              tags>>],
    <<<<{0}, "v0">>>>)

StreamsGroupDescribeRequestBody == [v0 |-> <<carr, cstr, end, i8, tags>>]

StreamsGroupDescribeRequest(v) == Codec(v, StreamsGroupDescribeRequestBody,
    <<<<{0}, "v0">>>>)

Streams_key_values == <<carr, cstr, cstr, tags, end>>

Streams_topic_infos ==
    <<carr, cstr, i32, i16>> \o Streams_key_values \o <<tags, end>>

Streams_task_ids == <<carr, cstr, carr, i32, end, tags, end>>

Streams_assignment ==
    Streams_task_ids \o Streams_task_ids \o Streams_task_ids \o <<tags>>

Streams_task_offsets == <<carr, cstr, i32, i64, tags, end>>

Streams_topology ==
    <<opt, i32, carr, cstr, carr, cstr, end, carr, cstr, end>>
        \o Streams_topic_infos \o Streams_topic_infos \o <<tags, end, tags, end>>

Streams_member ==
    <<cstr, i32, cstr, cstr, cstr, cstr, i32, cstr, opt, cstr, u16, tags, end>>
        \o Streams_key_values \o Streams_task_offsets \o Streams_task_offsets
        \o Streams_assignment \o Streams_assignment \o <<i8, tags>>

StreamsGroupDescribeResponseBody ==
    [v0 |-> <<throttle, carr, i16, cstr, cstr, cstr, i32, i32>>
                \o Streams_topology \o <<carr>> \o Streams_member
                \o <<end, i32, tags, end, tags>>]

StreamsGroupDescribeResponse(v) == Codec(v, StreamsGroupDescribeResponseBody,
    <<<<{0}, "v0">>>>)

ShareFetchRequest(v) ==
    IF v >= 2 THEN ShareFetchRequestBody.v2 ELSE ShareFetchRequestBody.v1

ShareAcknowledgeRequest(v) ==
    IF v >= 2 THEN ShareAcknowledgeRequestBody.v2
              ELSE ShareAcknowledgeRequestBody.v1
==============================================================================
