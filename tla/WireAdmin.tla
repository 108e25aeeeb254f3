------------------------------ MODULE WireAdmin ------------------------------
(******************************************************************************)
(* The bodies of the admin APIs (topics, configurations, ACLs, quotas, quorum, *)
(* tokens, reassignments): one layout per encode_vN and decode_vN of          *)
(* src/protocol/messages.                                                     *)
(******************************************************************************)
EXTENDS WireFormat

DescribeAclsRequest(v) == Codec(v,
    [v1 |-> <<i8, str, i8, str, str, i8, i8>>,
     v2 |-> <<i8, cstr, i8, cstr, cstr, i8, i8, tags>>],
    <<<<{1}, "v1">>, <<{2, 3}, "v2">>>>)

DescribeAclsResponse(v) == Codec(v,
    [v1 |-> <<throttle, i16, str, arr, i8, str, i8, arr, str, str, i8, i8,
              end, end>>,
     v2 |-> <<throttle, i16, cstr, carr, i8, cstr, i8, carr, cstr, cstr, i8,
              i8, tags, end, tags, end, tags>>],
    <<<<{1}, "v1">>, <<{2, 3}, "v2">>>>)

CreateAclsRequest(v) == Codec(v,
    [v1 |-> <<arr, i8, str, i8, str, str, i8, i8, end>>,
     v2 |-> <<carr, i8, cstr, i8, cstr, cstr, i8, i8, tags, end, tags>>],
    <<<<{1}, "v1">>, <<{2, 3}, "v2">>>>)

CreateAclsResponse(v) == Codec(v,
    [v1 |-> <<throttle, arr, i16, str, end>>,
     v2 |-> <<throttle, carr, i16, cstr, tags, end, tags>>],
    <<<<{1}, "v1">>, <<{2, 3}, "v2">>>>)

DeleteAclsRequest(v) == Codec(v,
    [v1 |-> <<arr, i8, str, i8, str, str, i8, i8, end>>,
     v2 |-> <<carr, i8, cstr, i8, cstr, cstr, i8, i8, tags, end, tags>>],
    <<<<{1}, "v1">>, <<{2, 3}, "v2">>>>)

DeleteAclsResponse(v) == Codec(v,
    [v1 |-> <<throttle, arr, i16, str, arr, i16, str, i8, str, i8, str, str,
              i8, i8, end, end>>,
     v2 |-> <<throttle, carr, i16, cstr, carr, i16, cstr, i8, cstr, i8,
              cstr, cstr, i8, i8, tags, end, tags, end, tags>>],
    <<<<{1}, "v1">>, <<{2, 3}, "v2">>>>)

AlterClientQuotasRequest(v) == Codec(v,
    [v0 |-> <<arr, arr, str, str, end, arr, str, f64, bool, end, end, bool>>,
     v1 |-> <<carr, carr, cstr, cstr, tags, end, carr, cstr, f64, bool,
              tags, end, tags, end, bool, tags>>],
    <<<<{0}, "v0">>, <<{1}, "v1">>>>)

AlterClientQuotasResponse(v) == Codec(v,
    [v0 |-> <<throttle, arr, i16, str, arr, str, str, end, end>>,
     v1 |-> <<throttle, carr, i16, cstr, carr, cstr, cstr, tags, end, tags,
              end, tags>>],
    <<<<{0}, "v0">>, <<{1}, "v1">>>>)

AlterPartitionReassignmentsRequest(v) == Codec(v,
    [v0 |-> <<i32, carr, cstr, carr, i32, carr, i32, end, tags, end, tags,
              end, tags>>,
     v1 |-> <<i32, bool, carr, cstr, carr, i32, carr, i32, end, tags, end,
              tags, end, tags>>],
    <<<<{0}, "v0">>, <<{1}, "v1">>>>)

AlterPartitionReassignmentsResponse(v) == Codec(v,
    [v0 |-> <<throttle, i16, cstr, carr, cstr, carr, i32, i16, cstr, tags,
              end, tags, end, tags>>,
     v1 |-> <<throttle, bool, i16, cstr, carr, cstr, carr, i32, i16, cstr,
              tags, end, tags, end, tags>>],
    <<<<{0}, "v0">>, <<{1}, "v1">>>>)

AlterReplicaLogDirsRequest(v) == Codec(v,
    [v1 |-> <<arr, str, arr, str, arr, i32, end, end, end>>,
     v2 |-> <<carr, cstr, carr, cstr, carr, i32, end, tags, end, tags, end,
              tags>>],
    <<<<{1}, "v1">>, <<{2}, "v2">>>>)

AlterReplicaLogDirsResponse(v) == Codec(v,
    [v1 |-> <<throttle, arr, str, arr, i32, i16, end, end>>,
     v2 |-> <<throttle, carr, cstr, carr, i32, i16, tags, end, tags, end,
              tags>>],
    <<<<{1}, "v1">>, <<{2}, "v2">>>>)

AlterUserScramCredentialsRequest(v) == Codec(v,
    [v0 |-> <<carr, cstr, i8, tags, end, carr, cstr, i8, i32, cbytes,
              cbytes, tags, end, tags>>],
    <<<<{0}, "v0">>>>)

AlterUserScramCredentialsResponse(v) == Codec(v,
    [v0 |-> <<throttle, carr, cstr, i16, cstr, tags, end, tags>>],
    <<<<{0}, "v0">>>>)

CreatePartitionsRequest(v) == Codec(v,
    [v0 |-> <<arr, str, i32, arr, arr, i32, end, end, end, i32, i8>>,
     v2 |-> <<carr, cstr, i32, carr, carr, i32, end, tags, end, tags, end,
              i32, i8, tags>>],
    <<<<{0, 1}, "v0">>, <<{2, 3}, "v2">>>>)

CreatePartitionsResponse(v) == Codec(v,
    [v0 |-> <<throttle, arr, str, i16, str, end>>,
     v2 |-> <<throttle, carr, cstr, i16, cstr, tags, end, tags>>],
    <<<<{0, 1}, "v0">>, <<{2, 3}, "v2">>>>)

CreateTopicsRequest(v) == Codec(v,
    [v2 |-> <<arr, str, i32, i16, arr, i32, arr, i32, end, end, arr, str,
              str, end, end, i32, i8>>,
     v5 |-> <<carr, cstr, i32, i16, carr, i32, carr, i32, end, tags, end,
              carr, cstr, cstr, tags, end, tags, end, i32, i8, tags>>],
    <<<<2..4, "v2">>, <<5..7, "v5">>>>)

CreateTopicsResponse(v) == Codec(v,
    [v2 |-> <<throttle, arr, str, i16, str, end>>,
     v5 |-> <<throttle, carr, cstr, i16, cstr, i32, i16, carr, cstr, cstr,
              bool, i8, bool, tags, end, tags, end, tags>>,
     v7 |-> <<throttle, carr, cstr, uuid, i16, cstr, i32, i16, carr, cstr,
              cstr, bool, i8, bool, tags, end, tags, end, tags>>],
    <<<<2..4, "v2">>, <<{5, 6}, "v5">>, <<{7}, "v7">>>>)

CreateDelegationTokenRequest(v) == Codec(v,
    [v1 |-> <<arr, str, str, end, i64>>,
     v2 |-> <<carr, cstr, cstr, tags, end, i64, tags>>,
     v3 |-> <<cstr, cstr, carr, cstr, cstr, tags, end, i64, tags>>],
    <<<<{1}, "v1">>, <<{2}, "v2">>, <<{3}, "v3">>>>)

CreateDelegationTokenResponse(v) == Codec(v,
    [v1 |-> <<i16, str, str, i64, i64, i64, str, bytes, throttle>>,
     v2 |-> <<i16, cstr, cstr, i64, i64, i64, cstr, cbytes, throttle, tags>>,
     v3 |-> <<i16, cstr, cstr, cstr, cstr, i64, i64, i64, cstr, cbytes,
              throttle, tags>>],
    <<<<{1}, "v1">>, <<{2}, "v2">>, <<{3}, "v3">>>>)

RenewDelegationTokenRequest(v) == Codec(v,
    [v1 |-> <<bytes, i64>>,
     v2 |-> <<cbytes, i64, tags>>],
    <<<<{1}, "v1">>, <<{2}, "v2">>>>)

RenewDelegationTokenResponse(v) == Codec(v,
    [v1 |-> <<i16, i64, throttle>>,
     v2 |-> <<i16, i64, throttle, tags>>],
    <<<<{1}, "v1">>, <<{2}, "v2">>>>)

ExpireDelegationTokenRequest(v) == Codec(v,
    [v1 |-> <<bytes, i64>>,
     v2 |-> <<cbytes, i64, tags>>],
    <<<<{1}, "v1">>, <<{2}, "v2">>>>)

ExpireDelegationTokenResponse(v) == Codec(v,
    [v1 |-> <<i16, i64, throttle>>,
     v2 |-> <<i16, i64, throttle, tags>>],
    <<<<{1}, "v1">>, <<{2}, "v2">>>>)

DescribeDelegationTokenRequest(v) == Codec(v,
    [v1 |-> <<arr, str, str, end>>,
     v2 |-> <<carr, cstr, cstr, tags, end, tags>>],
    <<<<{1}, "v1">>, <<{2, 3}, "v2">>>>)

DescribeDelegationTokenResponse(v) == Codec(v,
    [v1 |-> <<i16, arr, str, str, i64, i64, i64, str, bytes, arr, str, str,
              end, end, throttle>>,
     v2 |-> <<i16, carr, cstr, cstr, i64, i64, i64, cstr, cbytes, carr,
              cstr, cstr, tags, end, tags, end, throttle, tags>>,
     v3 |-> <<i16, carr, cstr, cstr, cstr, cstr, i64, i64, i64, cstr,
              cbytes, carr, cstr, cstr, tags, end, tags, end, throttle, tags>>],
    <<<<{1}, "v1">>, <<{2}, "v2">>, <<{3}, "v3">>>>)

DeleteRecordsRequest(v) == Codec(v,
    [v0 |-> <<arr, str, arr, i32, i64, end, end, i32>>,
     v2 |-> <<carr, cstr, carr, i32, i64, tags, end, tags, end, i32, tags>>],
    <<<<{0, 1}, "v0">>, <<{2}, "v2">>>>)

DeleteRecordsResponse(v) == Codec(v,
    [v0 |-> <<throttle, arr, str, arr, i32, i64, i16, end, end>>,
     v2 |-> <<throttle, carr, cstr, carr, i32, i64, i16, tags, end, tags,
              end, tags>>],
    <<<<{0, 1}, "v0">>, <<{2}, "v2">>>>)

DeleteTopicsRequest(v) == Codec(v,
    [v1 |-> <<arr, str, end, i32>>,
     v4 |-> <<carr, cstr, end, i32, tags>>,
     v6 |-> <<carr, cstr, uuid, tags, end, i32, tags>>],
    <<<<1..3, "v1">>, <<{4, 5}, "v4">>, <<{6}, "v6">>>>)

DeleteTopicsResponse(v) == Codec(v,
    [v1 |-> <<throttle, arr, str, i16, end>>,
     v4 |-> <<throttle, carr, cstr, i16, tags, end, tags>>,
     v5 |-> <<throttle, carr, cstr, i16, cstr, tags, end, tags>>,
     v6 |-> <<throttle, carr, cstr, uuid, i16, cstr, tags, end, tags>>],
    <<<<1..3, "v1">>, <<{4}, "v4">>, <<{5}, "v5">>, <<{6}, "v6">>>>)

DescribeClientQuotasRequest(v) == Codec(v,
    [v0 |-> <<arr, str, i8, str, end, bool>>,
     v1 |-> <<carr, cstr, i8, cstr, tags, end, bool, tags>>],
    <<<<{0}, "v0">>, <<{1}, "v1">>>>)

DescribeClientQuotasResponse(v) == Codec(v,
    [v0 |-> <<throttle, i16, str, arr, arr, str, str, end, arr, str, f64,
              end, end>>,
     v1 |-> <<throttle, i16, cstr, carr, carr, cstr, cstr, tags, end, carr,
              cstr, f64, tags, end, tags, end, tags>>],
    <<<<{0}, "v0">>, <<{1}, "v1">>>>)

DescribeClusterRequest(v) == Codec(v,
    [v0 |-> <<i8, tags>>,
     v1 |-> <<i8, i8, tags>>,
     v2 |-> <<i8, i8, i8, tags>>],
    <<<<{0}, "v0">>, <<{1}, "v1">>, <<{2}, "v2">>>>)

DescribeClusterResponse(v) == Codec(v,
    [v0 |-> <<throttle, i16, cstr, cstr, i32, carr, i32, cstr, i32, cstr,
              tags, end, i32, tags>>,
     v1 |-> <<throttle, i16, cstr, i8, cstr, i32, carr, i32, cstr, i32,
              cstr, tags, end, i32, tags>>,
     v2 |-> <<throttle, i16, cstr, i8, cstr, i32, carr, i32, cstr, i32,
              cstr, i8, tags, end, i32, tags>>],
    <<<<{0}, "v0">>, <<{1}, "v1">>, <<{2}, "v2">>>>)

DescribeConfigsRequest(v) == Codec(v,
    [v0 |-> <<arr, i8, str, arr, str, end, end>>,
     v1 |-> <<arr, i8, str, arr, str, end, end, i8>>,
     v3 |-> <<arr, i8, str, arr, str, end, end, i8, i8>>,
     v4 |-> <<carr, i8, cstr, carr, cstr, end, tags, end, i8, i8, tags>>],
    <<<<{0}, "v0">>, <<{1, 2}, "v1">>, <<{3}, "v3">>, <<{4}, "v4">>>>)

DescribeConfigsResponse_v0 ==
    <<throttle, arr, i16, str, i8, str, arr, str, str, i8, i8, i8, end,
      end>>

DescribeConfigsResponse_v1 ==
    <<throttle, arr, i16, str, i8, str, arr, str, str, i8, i8, i8, arr, str,
      str, i8, end, end, end>>

DescribeConfigsResponse_v3 ==
    <<throttle, arr, i16, str, i8, str, arr, str, str, i8, i8, i8, arr, str,
      str, i8, end, i8, str, end, end>>

DescribeConfigsResponse_v4 ==
    <<throttle, carr, i16, cstr, i8, cstr, carr, cstr, cstr, i8, i8, i8,
      carr, cstr, cstr, i8, tags, end, i8, cstr, tags, end, tags, end, tags>>

DescribeConfigsResponse(v) == Codec(v,
    [v0 |-> DescribeConfigsResponse_v0, v1 |-> DescribeConfigsResponse_v1, v3
     |-> DescribeConfigsResponse_v3, v4 |-> DescribeConfigsResponse_v4],
    <<<<{0}, "v0">>, <<{1, 2}, "v1">>, <<{3}, "v3">>, <<{4}, "v4">>>>)

DescribeLogDirsRequest(v) == Codec(v,
    [v1 |-> <<arr, str, arr, i32, end, end>>,
     v2 |-> <<carr, cstr, carr, i32, end, tags, end, tags>>],
    <<<<{1}, "v1">>, <<2..5, "v2">>>>)

DescribeLogDirs_partitions_v1 == <<i32, i64, i64, bool>>

DescribeLogDirs_partitions_v2 == <<i32, i64, i64, bool, tags>>

DescribeLogDirs_topics_v1 ==
    <<str, arr>> \o DescribeLogDirs_partitions_v1 \o <<end>>

DescribeLogDirs_topics_v2 ==
    <<cstr, carr>> \o DescribeLogDirs_partitions_v2 \o <<end, tags>>

DescribeLogDirs_results_v1 ==
    <<i16, str, arr>> \o DescribeLogDirs_topics_v1 \o <<end>>

DescribeLogDirs_results_v2(has_volume_info, has_is_cordoned) ==
    <<i16, cstr, carr>> \o DescribeLogDirs_topics_v2 \o <<end>>
        \o When(has_volume_info, <<i64, i64>>)
        \o When(has_is_cordoned, <<bool>>) \o <<tags>>

DescribeLogDirs_flexible(has_error, has_volume_info, has_is_cordoned) ==
    <<throttle>> \o When(has_error, <<i16>>) \o <<carr>>
        \o DescribeLogDirs_results_v2(has_volume_info, has_is_cordoned)
        \o <<end, tags>>

DescribeLogDirsResponseBody ==
    [v1 |-> <<throttle, arr>> \o DescribeLogDirs_results_v1 \o <<end>>,
     v2 |-> DescribeLogDirs_flexible(FALSE, FALSE, FALSE),
     v3 |-> DescribeLogDirs_flexible(TRUE, FALSE, FALSE),
     v4 |-> DescribeLogDirs_flexible(TRUE, TRUE, FALSE),
     v5 |-> DescribeLogDirs_flexible(TRUE, TRUE, TRUE)]

DescribeLogDirsResponse(v) == Codec(v, DescribeLogDirsResponseBody,
    <<<<{1}, "v1">>, <<{2}, "v2">>, <<{3}, "v3">>, <<{4}, "v4">>, <<{5},
      "v5">>>>)

DescribeProducersRequest(v) == Codec(v,
    [v0 |-> <<carr, cstr, carr, i32, end, tags, end, tags>>],
    <<<<{0}, "v0">>>>)

DescribeProducersResponse(v) == Codec(v,
    [v0 |-> <<throttle, carr, cstr, carr, i32, i16, cstr, carr, i64, i32,
              i32, i64, i32, i64, tags, end, tags, end, tags, end, tags>>],
    <<<<{0}, "v0">>>>)

DescribeQuorumRequest(v) == Codec(v,
    [v0 |-> <<carr, cstr, carr, i32, tags, end, tags, end, tags>>],
    <<<<0..2, "v0">>>>)

DescribeQuorum_replica_states(version) ==
    <<carr, i32>> \o When(version >= 2, <<uuid>>) \o <<i64>>
        \o When(version >= 1, <<i64, i64>>) \o <<tags, end>>

DescribeQuorum_nodes == <<carr, i32, carr, cstr, cstr, u16, tags, end, tags, end>>

DescribeQuorum_inner(version) ==
    <<i16>> \o When(version >= 2, <<cstr>>) \o <<carr, cstr, carr, i32, i16>>
        \o When(version >= 2, <<cstr>>) \o <<i32, i32, i64>>
        \o DescribeQuorum_replica_states(version)
        \o DescribeQuorum_replica_states(version) \o <<tags, end, tags, end>>
        \o When(version >= 2, DescribeQuorum_nodes) \o <<tags>>

DescribeQuorumResponseBody ==
    [v0 |-> DescribeQuorum_inner(0), v1 |-> DescribeQuorum_inner(1),
     v2 |-> DescribeQuorum_inner(2)]

DescribeQuorumResponse(v) == Codec(v, DescribeQuorumResponseBody,
    <<<<{0}, "v0">>, <<{1}, "v1">>, <<{2}, "v2">>>>)

DescribeTopicPartitionsRequest(v) == Codec(v,
    [v0 |-> <<carr, cstr, tags, end, i32, opt, cstr, i32, tags, end, tags>>],
    <<<<{0}, "v0">>>>)

DescribeTopicPartitions_next_cursor == <<opt, cstr, i32, tags, end, tags>>

DescribeTopicPartitions_replicas == <<carr, i32, end>>

DescribeTopicPartitionsResponse_v0 ==
    LET replicas == DescribeTopicPartitions_replicas
    IN  <<throttle, carr, i16, cstr, uuid, i8, carr, i16, i32, i32, i32>>
            \o replicas \o replicas \o replicas \o replicas \o replicas
            \o <<tags, end, i32, tags, end>>
            \o DescribeTopicPartitions_next_cursor

DescribeTopicPartitionsResponse(v) == Codec(v,
    [v0 |-> DescribeTopicPartitionsResponse_v0],
    <<<<{0}, "v0">>>>)

DescribeTransactionsRequest(v) == Codec(v,
    [v0 |-> <<carr, cstr, end, tags>>],
    <<<<{0}, "v0">>>>)

DescribeTransactionsResponse(v) == Codec(v,
    [v0 |-> <<throttle, carr, i16, cstr, cstr, i32, i64, i64, i16, carr,
              cstr, carr, i32, end, tags, end, tags, end, tags>>],
    <<<<{0}, "v0">>>>)

DescribeUserScramCredentialsRequest(v) == Codec(v,
    [v0 |-> <<carr, cstr, tags, end, tags>>],
    <<<<{0}, "v0">>>>)

DescribeUserScramCredentialsResponse(v) == Codec(v,
    [v0 |-> <<throttle, i16, cstr, carr, cstr, i16, cstr, carr, i8, i32,
              tags, end, tags, end, tags>>],
    <<<<{0}, "v0">>>>)

ElectLeadersRequest(v) == Codec(v,
    [v0 |-> <<arr, str, arr, i32, end, end, i32>>,
     v1 |-> <<i8, arr, str, arr, i32, end, end, i32>>,
     v2 |-> <<i8, carr, cstr, carr, i32, end, tags, end, i32, tags>>],
    <<<<{0}, "v0">>, <<{1}, "v1">>, <<{2}, "v2">>>>)

ElectLeadersResponse(v) == Codec(v,
    [v0 |-> <<throttle, arr, str, arr, i32, i16, str, end, end>>,
     v1 |-> <<throttle, i16, arr, str, arr, i32, i16, str, end, end>>,
     v2 |-> <<throttle, i16, carr, cstr, carr, i32, i16, cstr, tags, end,
              tags, end, tags>>],
    <<<<{0}, "v0">>, <<{1}, "v1">>, <<{2}, "v2">>>>)

IncrementalAlterConfigsRequest(v) == Codec(v,
    [v0 |-> <<arr, i8, str, arr, str, i8, str, end, end, i8>>,
     v1 |-> <<carr, i8, cstr, carr, cstr, i8, cstr, tags, end, tags, end,
              i8, tags>>],
    <<<<{0}, "v0">>, <<{1}, "v1">>>>)

IncrementalAlterConfigsResponse(v) == Codec(v,
    [v0 |-> <<throttle, arr, i16, str, i8, str, end>>,
     v1 |-> <<throttle, carr, i16, cstr, i8, cstr, tags, end, tags>>],
    <<<<{0}, "v0">>, <<{1}, "v1">>>>)

ListConfigResourcesRequest(v) == Codec(v,
    [v0 |-> <<tags>>,
     v1 |-> <<carr, i8, end, tags>>],
    <<<<{0}, "v0">>, <<{1}, "v1">>>>)

ListConfigResourcesResponse(v) == Codec(v,
    [v0 |-> <<throttle, i16, carr, cstr, tags, end, tags>>,
     v1 |-> <<throttle, i16, carr, cstr, i8, tags, end, tags>>],
    <<<<{0}, "v0">>, <<{1}, "v1">>>>)

ListPartitionReassignmentsRequest(v) == Codec(v,
    [v0 |-> <<i32, carr, cstr, carr, i32, end, tags, end, tags>>],
    <<<<{0}, "v0">>>>)

ListPartitionReassignmentsResponse(v) == Codec(v,
    [v0 |-> <<throttle, i16, cstr, carr, cstr, carr, i32, carr, i32, end,
              carr, i32, end, carr, i32, end, tags, end, tags, end, tags>>],
    <<<<{0}, "v0">>>>)

ListTransactionsRequest(v) == Codec(v,
    [v0 |-> <<carr, cstr, end, carr, i64, end, tags>>,
     v1 |-> <<carr, cstr, end, carr, i64, end, i64, tags>>,
     v2 |-> <<carr, cstr, end, carr, i64, end, i64, cstr, tags>>],
    <<<<{0}, "v0">>, <<{1}, "v1">>, <<{2}, "v2">>>>)

ListTransactionsResponse(v) == Codec(v,
    [v0 |-> <<throttle, i16, carr, cstr, end, carr, cstr, i64, cstr, tags,
              end, tags>>],
    <<<<0..2, "v0">>>>)

UpdateFeaturesRequest(v) == Codec(v,
    [v0 |-> <<i32, carr, cstr, i16, i8, tags, end, tags>>,
     v1 |-> <<i32, carr, cstr, i16, i8, tags, end, i8, tags>>],
    <<<<{0}, "v0">>, <<1..2, "v1">>>>)

UpdateFeaturesResponse(v) == Codec(v,
    [v0 |-> <<throttle, i16, cstr, carr, cstr, i16, cstr, tags, end, tags>>,
     v2 |-> <<throttle, i16, cstr, tags>>],
    <<<<{0, 1}, "v0">>, <<{2}, "v2">>>>)
==============================================================================
