-------------------------------- MODULE Wire --------------------------------
(****************************************************************************)
(* One request on one connection: the ApiVersions handshake, the choice of a  *)
(* version, the frame the client writes, what a broker reads of it, what it   *)
(* answers and what the client reads of the answer.                          *)
(*                                                                          *)
(* The broker is any broker (its ranges are free, and the exchange ends when  *)
(* the request is written) or the testing broker of src/testing, whose        *)
(* readers and writers are modules of their own.                             *)
(****************************************************************************)
EXTENDS WireData, WireGroups, WireAdmin, WireBroker, TLC

CONSTANT
    Spare           \* versions beyond the client's that a broker may offer

ASSUME SpareAssumption == Spare \in Nat

I16_MAX == 32767

------------------------------------------------------------------------------
(* The tables of the protocol. *)

\* The versions this client advertises, lowest and highest.
ClientVersions ==
    [Produce |-> <<3, 13>>, Fetch |-> <<4, 18>>, ListOffsets |-> <<1, 11>>,
     Metadata |-> <<1, 13>>, OffsetCommit |-> <<2, 10>>,
     OffsetFetch |-> <<1, 10>>, FindCoordinator |-> <<1, 6>>,
     JoinGroup |-> <<4, 9>>, Heartbeat |-> <<3, 4>>,
     LeaveGroup |-> <<3, 5>>, SyncGroup |-> <<3, 5>>,
     DescribeGroups |-> <<1, 6>>, ListGroups |-> <<1, 5>>,
     ApiVersions |-> <<0, 4>>, CreateTopics |-> <<2, 7>>,
     DeleteTopics |-> <<1, 6>>, DeleteRecords |-> <<0, 2>>,
     InitProducerId |-> <<0, 5>>, OffsetForLeaderEpoch |-> <<2, 4>>,
     AddPartitionsToTxn |-> <<0, 5>>, AddOffsetsToTxn |-> <<0, 4>>,
     EndTxn |-> <<0, 5>>, WriteTxnMarkers |-> <<1, 2>>,
     TxnOffsetCommit |-> <<0, 5>>]

AdminVersions ==
    [DescribeAcls |-> <<1, 3>>, CreateAcls |-> <<1, 3>>,
     DeleteAcls |-> <<1, 3>>, DescribeConfigs |-> <<1, 4>>,
     AlterReplicaLogDirs |-> <<1, 2>>, DescribeLogDirs |-> <<1, 5>>,
     CreatePartitions |-> <<0, 3>>, CreateDelegationToken |-> <<1, 3>>,
     RenewDelegationToken |-> <<1, 2>>, ExpireDelegationToken |-> <<1, 2>>,
     DescribeDelegationToken |-> <<1, 3>>, DeleteGroups |-> <<0, 2>>,
     ElectLeaders |-> <<0, 2>>, IncrementalAlterConfigs |-> <<0, 1>>,
     AlterPartitionReassignments |-> <<0, 1>>,
     ListPartitionReassignments |-> <<0, 0>>, OffsetDelete |-> <<0, 0>>,
     DescribeClientQuotas |-> <<0, 1>>, AlterClientQuotas |-> <<0, 1>>,
     DescribeUserScramCredentials |-> <<0, 0>>,
     AlterUserScramCredentials |-> <<0, 0>>, DescribeQuorum |-> <<0, 2>>,
     UpdateFeatures |-> <<0, 2>>, DescribeCluster |-> <<0, 2>>,
     DescribeProducers |-> <<0, 0>>, DescribeTransactions |-> <<0, 0>>,
     ListTransactions |-> <<0, 2>>, ConsumerGroupHeartbeat |-> <<0, 1>>,
     ConsumerGroupDescribe |-> <<0, 1>>,
     GetTelemetrySubscriptions |-> <<0, 0>>, PushTelemetry |-> <<0, 0>>,
     ListConfigResources |-> <<0, 1>>, DescribeTopicPartitions |-> <<0, 0>>,
     ShareGroupHeartbeat |-> <<1, 1>>, ShareGroupDescribe |-> <<1, 1>>,
     ShareFetch |-> <<1, 2>>, ShareAcknowledge |-> <<1, 2>>,
     StreamsGroupDescribe |-> <<0, 0>>,
     DescribeShareGroupOffsets |-> <<0, 1>>,
     AlterShareGroupOffsets |-> <<0, 0>>,
     DeleteShareGroupOffsets |-> <<0, 0>>]

\* SASL runs before any version is known, at a version of its own.
Versions ==
    LET sasl == [SaslHandshake |-> <<1, 1>>, SaslAuthenticate |-> <<1, 1>>]
    IN  [a \in DOMAIN ClientVersions \cup DOMAIN AdminVersions \cup DOMAIN sasl |->
            IF a \in DOMAIN ClientVersions THEN ClientVersions[a]
            ELSE IF a \in DOMAIN AdminVersions THEN AdminVersions[a]
            ELSE sasl[a]]

Apis == DOMAIN Versions \ {"ApiVersions"}

flexible_version ==
    [Produce |-> 9, Fetch |-> 12, ListOffsets |-> 6, Metadata |-> 9,
     OffsetCommit |-> 8, OffsetFetch |-> 6, FindCoordinator |-> 3,
     JoinGroup |-> 6, Heartbeat |-> 4, LeaveGroup |-> 4, SyncGroup |-> 4,
     DescribeGroups |-> 5, ListGroups |-> 3, ApiVersions |-> 3,
     CreateTopics |-> 5, DeleteTopics |-> 4, DeleteRecords |-> 2,
     InitProducerId |-> 2, OffsetForLeaderEpoch |-> 4,
     AddPartitionsToTxn |-> 3, AddOffsetsToTxn |-> 3, EndTxn |-> 3,
     WriteTxnMarkers |-> 1, TxnOffsetCommit |-> 3, DescribeAcls |-> 2,
     CreateAcls |-> 2, DeleteAcls |-> 2, DescribeConfigs |-> 4,
     AlterReplicaLogDirs |-> 2, DescribeLogDirs |-> 2,
     CreatePartitions |-> 2, CreateDelegationToken |-> 2,
     RenewDelegationToken |-> 2, ExpireDelegationToken |-> 2,
     DescribeDelegationToken |-> 2, DeleteGroups |-> 2, ElectLeaders |-> 2,
     IncrementalAlterConfigs |-> 1, AlterPartitionReassignments |-> 0,
     ListPartitionReassignments |-> 0, OffsetDelete |-> I16_MAX,
     DescribeClientQuotas |-> 1, AlterClientQuotas |-> 1,
     DescribeUserScramCredentials |-> 0, AlterUserScramCredentials |-> 0,
     DescribeQuorum |-> 0, UpdateFeatures |-> 0, DescribeCluster |-> 0,
     DescribeProducers |-> 0, DescribeTransactions |-> 0,
     ListTransactions |-> 0, ConsumerGroupHeartbeat |-> 0,
     ConsumerGroupDescribe |-> 0, GetTelemetrySubscriptions |-> 0,
     PushTelemetry |-> 0, ListConfigResources |-> 0,
     DescribeTopicPartitions |-> 0, ShareGroupHeartbeat |-> 0,
     ShareGroupDescribe |-> 0, ShareFetch |-> 0, ShareAcknowledge |-> 0,
     StreamsGroupDescribe |-> 0, DescribeShareGroupOffsets |-> 0,
     AlterShareGroupOffsets |-> 0, DeleteShareGroupOffsets |-> 0,
     SaslHandshake |-> I16_MAX, SaslAuthenticate |-> 2]

\* The APIs whose responses begin with the throttle time, and from where.
leading_throttle_time_min_version ==
    [Fetch |-> 1, ListOffsets |-> 2, Metadata |-> 3, OffsetCommit |-> 3,
     OffsetFetch |-> 3, FindCoordinator |-> 1, JoinGroup |-> 1,
     Heartbeat |-> 1, LeaveGroup |-> 1, SyncGroup |-> 1,
     DescribeGroups |-> 1, ListGroups |-> 1, CreateTopics |-> 2,
     DeleteTopics |-> 1, DeleteRecords |-> 0, InitProducerId |-> 0,
     OffsetForLeaderEpoch |-> 2, AddPartitionsToTxn |-> 0,
     AddOffsetsToTxn |-> 0, EndTxn |-> 0, TxnOffsetCommit |-> 0,
     DescribeAcls |-> 1, CreateAcls |-> 1, DeleteAcls |-> 1,
     DescribeConfigs |-> 0, AlterReplicaLogDirs |-> 1,
     DescribeLogDirs |-> 1, CreatePartitions |-> 0, DeleteGroups |-> 0,
     ElectLeaders |-> 0, IncrementalAlterConfigs |-> 0,
     AlterPartitionReassignments |-> 0, ListPartitionReassignments |-> 0,
     DescribeClientQuotas |-> 0, AlterClientQuotas |-> 0,
     DescribeUserScramCredentials |-> 0, AlterUserScramCredentials |-> 0,
     UpdateFeatures |-> 0, DescribeCluster |-> 0, DescribeProducers |-> 0,
     DescribeTransactions |-> 0, ListTransactions |-> 0,
     ConsumerGroupHeartbeat |-> 0, ConsumerGroupDescribe |-> 0,
     GetTelemetrySubscriptions |-> 0, PushTelemetry |-> 0,
     ListConfigResources |-> 0, DescribeTopicPartitions |-> 0,
     ShareGroupHeartbeat |-> 0, ShareGroupDescribe |-> 0, ShareFetch |-> 0,
     ShareAcknowledge |-> 0, StreamsGroupDescribe |-> 0,
     DescribeShareGroupOffsets |-> 0, AlterShareGroupOffsets |-> 0,
     DeleteShareGroupOffsets |-> 0]

ApiVersionsRequest(v) ==
    CASE v \in 0..2 -> <<>>
      [] v \in 3..4 -> <<cstr, cstr, tags>>
      [] OTHER      -> <<cstr, cstr, cstr, i32, tags>>

ApiVersionsResponse_v0 == <<i16, arr, i16, i16, i16, end>>

ApiVersionsResponse(v) ==
    CASE v = 0      -> ApiVersionsResponse_v0
      [] v \in 1..2 -> ApiVersionsResponse_v0 \o <<i32>>
      [] OTHER      -> <<i16, carr, i16, i16, i16, tags, end, i32, tags>>

\* What a call site encodes and decodes at a version.
RequestBody(api, v) ==
    CASE api = "Produce" -> ProduceRequest(v)
      [] api = "Fetch" -> FetchRequest(v)
      [] api = "ListOffsets" -> ListOffsetsRequest(v)
      [] api = "Metadata" -> MetadataRequest(v)
      [] api = "OffsetCommit" -> OffsetCommitRequest(v)
      [] api = "OffsetFetch" -> OffsetFetchRequest(v)
      [] api = "FindCoordinator" -> FindCoordinatorRequest(v)
      [] api = "JoinGroup" -> JoinGroupRequest(v)
      [] api = "Heartbeat" -> HeartbeatRequest(v)
      [] api = "LeaveGroup" -> LeaveGroupRequest(v)
      [] api = "SyncGroup" -> SyncGroupRequest(v)
      [] api = "DescribeGroups" -> DescribeGroupsRequest(v)
      [] api = "ListGroups" -> ListGroupsRequest(v)
      [] api = "ApiVersions" -> ApiVersionsRequest(v)
      [] api = "CreateTopics" -> CreateTopicsRequest(v)
      [] api = "DeleteTopics" -> DeleteTopicsRequest(v)
      [] api = "DeleteRecords" -> DeleteRecordsRequest(v)
      [] api = "InitProducerId" -> InitProducerIdRequest(v)
      [] api = "OffsetForLeaderEpoch" -> OffsetForLeaderEpochRequest(v)
      [] api = "AddPartitionsToTxn" -> AddPartitionsToTxnRequest(v)
      [] api = "AddOffsetsToTxn" -> AddOffsetsToTxnRequest(v)
      [] api = "EndTxn" -> EndTxnRequest(v)
      [] api = "WriteTxnMarkers" -> WriteTxnMarkersRequest(v)
      [] api = "TxnOffsetCommit" -> TxnOffsetCommitRequest(v)
      [] api = "DescribeAcls" -> DescribeAclsRequest(v)
      [] api = "CreateAcls" -> CreateAclsRequest(v)
      [] api = "DeleteAcls" -> DeleteAclsRequest(v)
      [] api = "DescribeConfigs" -> DescribeConfigsRequest(v)
      [] api = "AlterReplicaLogDirs" -> AlterReplicaLogDirsRequest(v)
      [] api = "DescribeLogDirs" -> DescribeLogDirsRequest(v)
      [] api = "CreatePartitions" -> CreatePartitionsRequest(v)
      [] api = "CreateDelegationToken" -> CreateDelegationTokenRequest(v)
      [] api = "RenewDelegationToken" -> RenewDelegationTokenRequest(v)
      [] api = "ExpireDelegationToken" -> ExpireDelegationTokenRequest(v)
      [] api = "DescribeDelegationToken" -> DescribeDelegationTokenRequest(v)
      [] api = "DeleteGroups" -> DeleteGroupsRequest(v)
      [] api = "ElectLeaders" -> ElectLeadersRequest(v)
      [] api = "IncrementalAlterConfigs" -> IncrementalAlterConfigsRequest(v)
      [] api = "AlterPartitionReassignments" -> AlterPartitionReassignmentsRequest(v)
      [] api = "ListPartitionReassignments" -> ListPartitionReassignmentsRequest(v)
      [] api = "OffsetDelete" -> OffsetDeleteRequest(v)
      [] api = "DescribeClientQuotas" -> DescribeClientQuotasRequest(v)
      [] api = "AlterClientQuotas" -> AlterClientQuotasRequest(v)
      [] api = "DescribeUserScramCredentials" -> DescribeUserScramCredentialsRequest(v)
      [] api = "AlterUserScramCredentials" -> AlterUserScramCredentialsRequest(v)
      [] api = "DescribeQuorum" -> DescribeQuorumRequest(v)
      [] api = "UpdateFeatures" -> UpdateFeaturesRequest(v)
      [] api = "DescribeCluster" -> DescribeClusterRequest(v)
      [] api = "DescribeProducers" -> DescribeProducersRequest(v)
      [] api = "DescribeTransactions" -> DescribeTransactionsRequest(v)
      [] api = "ListTransactions" -> ListTransactionsRequest(v)
      [] api = "ConsumerGroupHeartbeat" -> ConsumerGroupHeartbeatRequest(v)
      [] api = "ConsumerGroupDescribe" -> ConsumerGroupDescribeRequest(v)
      [] api = "GetTelemetrySubscriptions" -> GetTelemetrySubscriptionsRequest(v)
      [] api = "PushTelemetry" -> PushTelemetryRequest(v)
      [] api = "ListConfigResources" -> ListConfigResourcesRequest(v)
      [] api = "DescribeTopicPartitions" -> DescribeTopicPartitionsRequest(v)
      [] api = "ShareGroupHeartbeat" -> ShareGroupHeartbeatRequest(v)
      [] api = "ShareGroupDescribe" -> ShareGroupDescribeRequest(v)
      [] api = "ShareFetch" -> ShareFetchRequest(v)
      [] api = "ShareAcknowledge" -> ShareAcknowledgeRequest(v)
      [] api = "StreamsGroupDescribe" -> StreamsGroupDescribeRequest(v)
      [] api = "DescribeShareGroupOffsets" -> DescribeShareGroupOffsetsRequest(v)
      [] api = "AlterShareGroupOffsets" -> AlterShareGroupOffsetsRequest(v)
      [] api = "DeleteShareGroupOffsets" -> DeleteShareGroupOffsetsRequest(v)
      [] api = "SaslHandshake" -> SaslHandshakeRequest(v)
      [] api = "SaslAuthenticate" -> SaslAuthenticateRequest(v)

ResponseBody(api, v) ==
    CASE api = "Produce" -> ProduceResponse(v)
      [] api = "Fetch" -> FetchResponse(v)
      [] api = "ListOffsets" -> ListOffsetsResponse(v)
      [] api = "Metadata" -> MetadataResponse(v)
      [] api = "OffsetCommit" -> OffsetCommitResponse(v)
      [] api = "OffsetFetch" -> OffsetFetchResponse(v)
      [] api = "FindCoordinator" -> FindCoordinatorResponse(v)
      [] api = "JoinGroup" -> JoinGroupResponse(v)
      [] api = "Heartbeat" -> HeartbeatResponse(v)
      [] api = "LeaveGroup" -> LeaveGroupResponse(v)
      [] api = "SyncGroup" -> SyncGroupResponse(v)
      [] api = "DescribeGroups" -> DescribeGroupsResponse(v)
      [] api = "ListGroups" -> ListGroupsResponse(v)
      [] api = "ApiVersions" -> ApiVersionsResponse(v)
      [] api = "CreateTopics" -> CreateTopicsResponse(v)
      [] api = "DeleteTopics" -> DeleteTopicsResponse(v)
      [] api = "DeleteRecords" -> DeleteRecordsResponse(v)
      [] api = "InitProducerId" -> InitProducerIdResponse(v)
      [] api = "OffsetForLeaderEpoch" -> OffsetForLeaderEpochResponse(v)
      [] api = "AddPartitionsToTxn" -> AddPartitionsToTxnResponse(v)
      [] api = "AddOffsetsToTxn" -> AddOffsetsToTxnResponse(v)
      [] api = "EndTxn" -> EndTxnResponse(v)
      [] api = "WriteTxnMarkers" -> WriteTxnMarkersResponse(v)
      [] api = "TxnOffsetCommit" -> TxnOffsetCommitResponse(v)
      [] api = "DescribeAcls" -> DescribeAclsResponse(v)
      [] api = "CreateAcls" -> CreateAclsResponse(v)
      [] api = "DeleteAcls" -> DeleteAclsResponse(v)
      [] api = "DescribeConfigs" -> DescribeConfigsResponse(v)
      [] api = "AlterReplicaLogDirs" -> AlterReplicaLogDirsResponse(v)
      [] api = "DescribeLogDirs" -> DescribeLogDirsResponse(v)
      [] api = "CreatePartitions" -> CreatePartitionsResponse(v)
      [] api = "CreateDelegationToken" -> CreateDelegationTokenResponse(v)
      [] api = "RenewDelegationToken" -> RenewDelegationTokenResponse(v)
      [] api = "ExpireDelegationToken" -> ExpireDelegationTokenResponse(v)
      [] api = "DescribeDelegationToken" -> DescribeDelegationTokenResponse(v)
      [] api = "DeleteGroups" -> DeleteGroupsResponse(v)
      [] api = "ElectLeaders" -> ElectLeadersResponse(v)
      [] api = "IncrementalAlterConfigs" -> IncrementalAlterConfigsResponse(v)
      [] api = "AlterPartitionReassignments" -> AlterPartitionReassignmentsResponse(v)
      [] api = "ListPartitionReassignments" -> ListPartitionReassignmentsResponse(v)
      [] api = "OffsetDelete" -> OffsetDeleteResponse(v)
      [] api = "DescribeClientQuotas" -> DescribeClientQuotasResponse(v)
      [] api = "AlterClientQuotas" -> AlterClientQuotasResponse(v)
      [] api = "DescribeUserScramCredentials" -> DescribeUserScramCredentialsResponse(v)
      [] api = "AlterUserScramCredentials" -> AlterUserScramCredentialsResponse(v)
      [] api = "DescribeQuorum" -> DescribeQuorumResponse(v)
      [] api = "UpdateFeatures" -> UpdateFeaturesResponse(v)
      [] api = "DescribeCluster" -> DescribeClusterResponse(v)
      [] api = "DescribeProducers" -> DescribeProducersResponse(v)
      [] api = "DescribeTransactions" -> DescribeTransactionsResponse(v)
      [] api = "ListTransactions" -> ListTransactionsResponse(v)
      [] api = "ConsumerGroupHeartbeat" -> ConsumerGroupHeartbeatResponse(v)
      [] api = "ConsumerGroupDescribe" -> ConsumerGroupDescribeResponse(v)
      [] api = "GetTelemetrySubscriptions" -> GetTelemetrySubscriptionsResponse(v)
      [] api = "PushTelemetry" -> PushTelemetryResponse(v)
      [] api = "ListConfigResources" -> ListConfigResourcesResponse(v)
      [] api = "DescribeTopicPartitions" -> DescribeTopicPartitionsResponse(v)
      [] api = "ShareGroupHeartbeat" -> ShareGroupHeartbeatResponse(v)
      [] api = "ShareGroupDescribe" -> ShareGroupDescribeResponse(v)
      [] api = "ShareFetch" -> ShareFetchResponse(v)
      [] api = "ShareAcknowledge" -> ShareAcknowledgeResponse(v)
      [] api = "StreamsGroupDescribe" -> StreamsGroupDescribeResponse(v)
      [] api = "DescribeShareGroupOffsets" -> DescribeShareGroupOffsetsResponse(v)
      [] api = "AlterShareGroupOffsets" -> AlterShareGroupOffsetsResponse(v)
      [] api = "DeleteShareGroupOffsets" -> DeleteShareGroupOffsetsResponse(v)
      [] api = "SaslHandshake" -> SaslHandshakeResponse(v)
      [] api = "SaslAuthenticate" -> SaslAuthenticateResponse(v)

------------------------------------------------------------------------------
(* Headers. *)

Flexible(api, v) == v >= flexible_version[api]

\* The client id keeps the classic encoding in the flexible header too.
RequestHeader(api, v) == <<i16, i16, i32, str>> \o When(Flexible(api, v), <<tags>>)

\* ApiVersions answers with the classic header at every version.
ResponseHeader(api, v) ==
    <<i32>> \o When(api # "ApiVersions" /\ Flexible(api, v), <<tags>>)

\* The testing broker's own reading and writing of headers.
read_request_header(api, v) ==
    <<i16, i16, i32, str>> \o When(Flexible(api, v), <<tags>>)

write_response_header(api, v) ==
    <<i32>> \o When(api # "ApiVersions" /\ Flexible(api, v), <<tags>>)

------------------------------------------------------------------------------
(* The testing broker. *)

supported_versions ==
    [Metadata |-> <<12, 12>>, Produce |-> <<10, 12>>, Fetch |-> <<11, 11>>,
     ListOffsets |-> <<5, 11>>, FindCoordinator |-> <<2, 2>>,
     JoinGroup |-> <<5, 5>>, SyncGroup |-> <<3, 3>>, Heartbeat |-> <<3, 3>>,
     LeaveGroup |-> <<3, 3>>, OffsetCommit |-> <<7, 9>>,
     OffsetFetch |-> <<5, 5>>, ConsumerGroupHeartbeat |-> <<1, 1>>,
     InitProducerId |-> <<0, 5>>, AddPartitionsToTxn |-> <<0, 0>>,
     AddOffsetsToTxn |-> <<0, 0>>, TxnOffsetCommit |-> <<5, 5>>,
     EndTxn |-> <<3, 5>>, CreateTopics |-> <<4, 4>>,
     DeleteTopics |-> <<3, 3>>, ShareGroupHeartbeat |-> <<1, 1>>,
     ShareFetch |-> <<1, 2>>, ShareAcknowledge |-> <<1, 2>>,
     UpdateFeatures |-> <<2, 2>>, StreamsGroupDescribe |-> <<0, 0>>,
     DescribeGroups |-> <<4, 4>>, GetTelemetrySubscriptions |-> <<0, 0>>,
     PushTelemetry |-> <<0, 0>>, SaslHandshake |-> <<1, 1>>,
     SaslAuthenticate |-> <<1, 1>>]

Reader(api, v) ==
    CASE api = "Metadata" -> MetadataReq
      [] api = "Produce" -> ProduceReq
      [] api = "Fetch" -> FetchReq
      [] api = "ListOffsets" -> ListOffsetsReq(v)
      [] api = "FindCoordinator" -> FindCoordinatorReq
      [] api = "JoinGroup" -> JoinGroupReq
      [] api = "SyncGroup" -> SyncGroupReq
      [] api = "Heartbeat" -> HeartbeatReq
      [] api = "LeaveGroup" -> LeaveGroupReq
      [] api = "OffsetCommit" -> OffsetCommitReq(v)
      [] api = "OffsetFetch" -> OffsetFetchReq(v)
      [] api = "ConsumerGroupHeartbeat" -> ConsumerGroupHeartbeatReq
      [] api = "InitProducerId" -> InitProducerIdReq(v)
      [] api = "AddPartitionsToTxn" -> AddPartitionsToTxnReq
      [] api = "AddOffsetsToTxn" -> AddOffsetsToTxnReq
      [] api = "TxnOffsetCommit" -> TxnOffsetCommitReq
      [] api = "EndTxn" -> EndTxnReq
      [] api = "CreateTopics" -> CreateTopicsReq
      [] api = "DeleteTopics" -> DeleteTopicsReq
      [] api = "ShareGroupHeartbeat" -> ShareGroupHeartbeatReq
      [] api = "ShareFetch" -> ShareFetchReq(v)
      [] api = "ShareAcknowledge" -> ShareAcknowledgeReq(v)
      [] api = "UpdateFeatures" -> UpdateFeaturesReq(v)
      [] api = "StreamsGroupDescribe" -> StreamsGroupDescribeReq
      [] api = "DescribeGroups" -> DescribeGroupsReq
      [] api = "GetTelemetrySubscriptions" -> GetTelemetrySubscriptionsReq
      [] api = "PushTelemetry" -> PushTelemetryReq
      [] api = "SaslHandshake" -> SaslHandshakeReq
      [] api = "SaslAuthenticate" -> SaslAuthenticateReq

Written(api, v) ==
    CASE api = "Metadata" -> metadata
      [] api = "Produce" -> produce
      [] api = "Fetch" -> fetch
      [] api = "ListOffsets" -> write_list_offsets_response(v)
      [] api = "FindCoordinator" -> write_find_coordinator
      [] api = "JoinGroup" -> join_group
      [] api = "SyncGroup" -> sync_group
      [] api = "Heartbeat" -> heartbeat
      [] api = "LeaveGroup" -> leave_group
      [] api = "OffsetCommit" -> write_offset_commit_response(v)
      [] api = "OffsetFetch" -> write_offset_fetch_response(v)
      [] api = "ConsumerGroupHeartbeat" -> write_heartbeat
      [] api = "InitProducerId" -> write_init_producer_id(v)
      [] api = "AddPartitionsToTxn" -> add_partitions_to_txn
      [] api = "AddOffsetsToTxn" -> add_offsets_to_txn
      [] api = "TxnOffsetCommit" -> txn_offset_commit
      [] api = "EndTxn" -> end_txn(v)
      [] api = "CreateTopics" -> create_topics
      [] api = "DeleteTopics" -> delete_topics
      [] api = "ShareGroupHeartbeat" -> write_heartbeat
      [] api = "ShareFetch" -> share_fetch
      [] api = "ShareAcknowledge" -> share_acknowledge(v)
      [] api = "UpdateFeatures" -> update_features(v)
      [] api = "StreamsGroupDescribe" -> streams_group_describe
      [] api = "DescribeGroups" -> describe_groups
      [] api = "GetTelemetrySubscriptions" -> get_telemetry_subscriptions
      [] api = "PushTelemetry" -> push_telemetry
      [] api = "SaslHandshake" -> sasl_handshake
      [] api = "SaslAuthenticate" -> sasl_authenticate

\* The answers a broker may give, a refused request's among them.
Answers(api, v) ==
    {Written(api, v)} \cup
    CASE api = "Metadata" -> {error_metadata}
      [] api = "JoinGroup" -> {error_join_group}
      [] api = "LeaveGroup" -> {error_leave_group}
      [] api = "ShareFetch" -> {write_share_fetch_error}
      [] api = "ShareAcknowledge" -> {write_share_acknowledge_error(v)}
      [] api = "StreamsGroupDescribe" -> {error_streams_group_describe}
      [] api = "DescribeGroups" -> {error_describe_groups}
      [] api = "GetTelemetrySubscriptions" -> {error_get_telemetry_subscriptions}
      [] OTHER -> {}

\* api_versions, for a version in the broker's range and for one out of it.
api_versions(v, in_range) ==
    LET flexible == in_range /\ v >= 3
    IN  <<i16, Arr(flexible), i16, i16, i16>> \o Tags(flexible) \o <<end>>
            \o When(in_range /\ v >= 1, <<i32>>) \o Tags(flexible)

------------------------------------------------------------------------------
(* Reading a frame. *)

Plain(kind) == IF kind = throttle THEN i32 ELSE kind

Opens == {arr, carr, opt}

\* Where the element that begins at j ends.
EndOf(layout, j) ==
    Min({k \in j..Len(layout) :
            /\ layout[k] = end
            /\ Cardinality({x \in j..k : layout[x] \in Opens}) + 1
                 = Cardinality({x \in j..k : layout[x] = end})})

\* The reader takes the frame apart field by field; an array written empty
\* suits every element.  A reader that meets another kind than it expects, or
\* does not come out at the end of the frame, has garbled it.
Reads(frame, layout) ==
    LET after[i \in 0..Len(frame)] ==
            IF i = 0 THEN 1
            ELSE LET j == after[i - 1]
                 IN  IF j = 0 \/ j > Len(layout) THEN 0
                     ELSE IF frame[i] = none THEN EndOf(layout, j)
                     ELSE IF Plain(frame[i]) = Plain(layout[j]) THEN j + 1
                     ELSE 0
    IN  after[Len(frame)] = Len(layout) + 1

------------------------------------------------------------------------------
VARIABLES
    api,        \* the API the caller asks for
    testing,    \* the broker is the testing broker
    range,      \* the versions of api it advertises
    own,        \* the versions of ApiVersions it speaks
    listed,     \* its refusal of an ApiVersions version names its own range
    phase,      \* where the exchange is
    attempt,    \* the ApiVersions version of the current attempt
    attempts,   \* how many were made
    version,    \* the version chosen for api
    frame       \* the frame in flight, header and body

vars == <<api, testing, range, own, listed, phase, attempt, attempts, version,
          frame>>

NoVersion == -1

API_VERSIONS_MAX == Versions.ApiVersions[2]

MAX_ATTEMPTS == 3

Final == {"failed", "unsupported", "garbled", "done"}

Phases == {"dial", "asked", "refused", "listed", "known", "sent", "read",
           "answered"} \cup Final

AnyRange(a) ==
    LET top == Versions[a][2] + Spare
    IN  {r \in (0..top) \X (0..top) : r[1] <= r[2]}

Init ==
    /\ api \in Apis
    /\ \/ /\ testing = TRUE
          /\ api \in DOMAIN supported_versions
          /\ range = supported_versions[api]
          /\ own = <<0, 4>>
          /\ listed = TRUE
       \/ /\ testing = FALSE
          /\ range \in AnyRange(api)
          /\ own \in AnyRange("ApiVersions")
          /\ listed \in BOOLEAN
    /\ phase = "dial"
    /\ attempt = API_VERSIONS_MAX
    /\ attempts = 0
    /\ version = NoVersion
    /\ frame = <<>>

TypeOK ==
    /\ api \in Apis
    /\ testing \in BOOLEAN
    /\ listed \in BOOLEAN
    /\ phase \in Phases
    /\ attempt \in 0..API_VERSIONS_MAX
    /\ attempts \in 0..MAX_ATTEMPTS
    /\ version \in {NoVersion} \cup Versions[api][1]..Versions[api][2]

In(v, r) == r[1] <= v /\ v <= r[2]

------------------------------------------------------------------------------
(* The handshake. *)

send_api_versions ==
    /\ phase = "dial"
    /\ attempts' = attempts + 1
    /\ frame' = RequestHeader("ApiVersions", attempt) \o ApiVersionsRequest(attempt)
    /\ phase' = "asked"
    /\ UNCHANGED <<api, testing, range, own, listed, attempt, version>>

\* A broker answers a version it does not speak in the format of version 0.
AnswerVersions ==
    /\ phase = "asked"
    /\ LET in_range == In(attempt, own)
       IN  /\ frame' = <<i32>> \o api_versions(attempt, in_range)
           /\ phase' = IF in_range THEN "listed" ELSE "refused"
    /\ UNCHANGED <<api, testing, range, own, listed, attempt, attempts, version>>

NextAttempt_lowest(current) == 0

\* The highest version the broker names, if it is lower; otherwise the first.
NextAttempt(current) == IF listed /\ own[2] < current THEN own[2] ELSE 0

ReadRefusal ==
    /\ phase = "refused"
    /\ LET next == NextAttempt(attempt)
           legible == Reads(frame, ResponseHeader("ApiVersions", attempt)
                                        \o ApiVersionsResponse_v0)
           ends == next >= attempt \/ attempts >= MAX_ATTEMPTS
       IN  /\ phase' = CASE ~legible -> "garbled"
                         [] legible /\ ends -> "failed"
                         [] OTHER -> "dial"
           /\ attempt' = IF legible /\ ~ends THEN next ELSE attempt
    /\ frame' = <<>>
    /\ UNCHANGED <<api, testing, range, own, listed, attempts, version>>

\* decode_api_versions_at: the ranges the broker advertises are cached.
ReadVersions ==
    /\ phase = "listed"
    /\ phase' = IF Reads(frame, ResponseHeader("ApiVersions", attempt)
                                    \o ApiVersionsResponse(attempt))
                THEN "known" ELSE "garbled"
    /\ frame' = <<>>
    /\ UNCHANGED <<api, testing, range, own, listed, attempt, attempts, version>>

------------------------------------------------------------------------------
(* The request. *)

negotiate(offered, client_max, client_min) ==
    LET max_supported == Min({offered[2], client_max})
        min_supported == Max({offered[1], client_min})
    IN  IF max_supported >= min_supported THEN max_supported ELSE NoVersion

send_request ==
    /\ phase = "known"
    /\ LET v == negotiate(range, Versions[api][2], Versions[api][1])
       IN  /\ version' = v
           /\ IF v = NoVersion
              THEN phase' = "unsupported" /\ frame' = <<>>
              ELSE /\ phase' = "sent"
                   /\ frame' = RequestHeader(api, v) \o RequestBody(api, v)
    /\ UNCHANGED <<api, testing, range, own, listed, attempt, attempts>>

\* The testing broker reads the header, then the body.
ReadRequest ==
    /\ phase = "sent"
    /\ testing
    /\ phase' = IF Reads(frame, read_request_header(api, version)
                                    \o Reader(api, version))
                THEN "read" ELSE "garbled"
    /\ frame' = <<>>
    /\ UNCHANGED <<api, testing, range, own, listed, attempt, attempts, version>>

WriteResponse ==
    /\ phase = "read"
    /\ phase' = "answered"
    /\ \E answer \in Answers(api, version) :
           frame' = write_response_header(api, version) \o answer
    /\ UNCHANGED <<api, testing, range, own, listed, attempt, attempts, version>>

\* dispatch_response takes the header off, the caller decodes the body.
ReadResponse ==
    /\ phase = "answered"
    /\ phase' = IF Reads(frame, ResponseHeader(api, version)
                                    \o ResponseBody(api, version))
                THEN "done" ELSE "garbled"
    /\ frame' = <<>>
    /\ UNCHANGED <<api, testing, range, own, listed, attempt, attempts, version>>

leading_throttle_time_any(a, v) == a \in DOMAIN leading_throttle_time_min_version

\* Whether the connection takes the first field of a response for a throttle.
leading_throttle_time(a, v) ==
    /\ a \in DOMAIN leading_throttle_time_min_version
    /\ v >= leading_throttle_time_min_version[a]

Next ==
    \/ send_api_versions
    \/ AnswerVersions
    \/ ReadRefusal
    \/ ReadVersions
    \/ send_request
    \/ ReadRequest
    \/ WriteResponse
    \/ ReadResponse

Spec == Init /\ [][Next]_vars

------------------------------------------------------------------------------
(* Properties. *)

\* Whatever range a broker advertises, the version the client settles on has an
\* encoder and a decoder.  `negotiate` caps at the MAX constants of
\* protocol/mod.rs, and a MAX without codec arms would only fail at run time,
\* against a broker new enough to offer it.
Speaks ==
    version # NoVersion =>
        /\ RequestBody(api, version) # Unsupported
        /\ ResponseBody(api, version) # Unsupported

Classic == {str, bytes, arr}

Compact == {cstr, cbytes, carr, tags}

KindsOf(layout) == {layout[k] : k \in DOMAIN layout}

\* Header and body switch to the flexible encoding at the same version, in both
\* directions: the header's table (ApiKey::flexible_version) and the match arms
\* of sixty-seven codecs are written apart.  A flexible body ends in tags.
HeaderMatchesBody ==
    version # NoVersion =>
        \A body \in {RequestBody(api, version), ResponseBody(api, version)} :
            IF Flexible(api, version)
            THEN KindsOf(body) \cap Classic = {} /\ body[Len(body)] = tags
            ELSE KindsOf(body) \cap Compact = {}

\* The testing broker reads every request of the client and the client reads
\* every answer of the broker, at every version the two negotiate, to the last
\* field: two codecs written by hand from the same schema (testing/wire.rs).
Understood == phase # "garbled"

\* dispatch_response takes the first four bytes of a body for the throttle time
\* exactly where the response begins with it: any other field taken for one
\* would mute the connection, one missed would ignore the broker's quota.
ThrottleIsThrottle ==
    version # NoVersion =>
        (leading_throttle_time(api, version)
            <=> ResponseBody(api, version)[1] = throttle)

\* The handshake fails only against a broker with which it shares no version,
\* and a broker that names its range is met at the highest common version with
\* one refusal ("giving us the right version in one retry", fetch_api_versions).
HandshakeFinds ==
    LET common == {v \in 0..API_VERSIONS_MAX : In(v, own)}
    IN  /\ phase = "failed" /\ listed => common = {}
        /\ phase \in {"known", "sent", "done"} /\ listed =>
               attempt = Max(common) /\ attempts <= 2
        /\ phase = "failed" => 0 \notin common

\* What a frame carries besides fields: record batches, the blobs of classic
\* groups, and error codes.
Format == INSTANCE RecordFormat
Blobs == INSTANCE EmbeddedProtocol
Errors == INSTANCE ErrorCodes

ContentsAgree == Blobs!BlobsAgree /\ Errors!CodesClassified

\* Record batches are read as they were written (RecordFormat); a fact of the
\* format alone, which TLC evaluates before it starts.
ASSUME RecordsAreRead == Format!FormatExact

\* Client and broker agree on every frame: versions with codecs, headers that
\* match bodies, layouts both sides read alike, throttle times where they are,
\* and group blobs and error codes that are read as they were written.
CodecsAgree ==
    /\ TypeOK /\ Speaks /\ HeaderMatchesBody /\ Understood /\ ThrottleIsThrottle
    /\ ContentsAgree
==============================================================================
