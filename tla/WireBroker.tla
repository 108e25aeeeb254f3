----------------------------- MODULE WireBroker -----------------------------
(****************************************************************************)
(* The testing broker's side of the wire format: what src/testing/wire.rs    *)
(* reads of each request and what the handlers of src/testing/handlers.rs    *)
(* write of each response, written there independently of the client's       *)
(* codecs.  `none` is the element of an array that is always written empty.  *)
(****************************************************************************)
EXTENDS WireFormat

none == "none"

\* Versions whose layout is chosen by a flag: classic or compact encoding.
Str(flexible) == IF flexible THEN cstr ELSE str
Arr(flexible) == IF flexible THEN carr ELSE arr
Tags(flexible) == When(flexible, <<tags>>)

------------------------------------------------------------------------------
(* What the broker reads. *)

MetadataReq == <<carr, uuid, cstr, tags, end, bool, bool, tags>>

ProduceReq ==
    <<cstr, i16, i32, carr, cstr, carr, i32, cbytes, tags, end, tags, end, tags>>

FetchReq ==
    <<i32, i32, i32, i32, i8, i32, i32, arr, str, arr, i32, i32, i64, i64, i32,
      end, end, arr, str, arr, i32, end, end, str>>

ConsumerGroupHeartbeatReq ==
    <<cstr, cstr, i32, cstr, cstr, i32, carr, cstr, end, cstr, cstr,
      carr, uuid, carr, i32, end, tags, end, tags>>

ListOffsetsReq(v) ==
    LET flexible == v >= 6
    IN  <<i32, i8, Arr(flexible), Str(flexible), Arr(flexible), i32, i32, i64>>
            \o Tags(flexible) \o <<end>> \o Tags(flexible) \o <<end>>
            \o When(v >= 10, <<i32>>) \o Tags(flexible)

FindCoordinatorReq == <<str, i8>>

JoinGroupReq == <<str, i32, i32, str, str, str, arr, str, bytes, end>>

SyncGroupReq == <<str, i32, str, str, arr, str, bytes, end>>

DescribeGroupsReq == <<arr, str, end, i8>>

HeartbeatReq == <<str, i32, str, str>>

LeaveGroupReq == <<str, arr, str, str, end>>

OffsetCommitReq(v) ==
    LET flexible == v >= 8
        string == Str(flexible)
    IN  <<string, i32, string, string, Arr(flexible), string, Arr(flexible),
          i32, i64, i32, string>> \o Tags(flexible) \o <<end>>
            \o Tags(flexible) \o <<end>> \o Tags(flexible)

OffsetFetchReq(v) ==
    LET flexible == v >= 6
    IN  When(v >= 8, <<carr>>) \o <<Str(flexible)>>
            \o When(v >= 9, <<cstr, i32>>)
            \o <<Arr(flexible), Str(flexible), Arr(flexible), i32, end>>
            \o Tags(flexible) \o <<end>> \o When(v >= 8, <<tags, end>>)
            \o When(v >= 7, <<bool>>) \o Tags(flexible)

InitProducerIdReq(v) ==
    <<Str(v >= 2), i32>> \o When(v >= 3, <<i64, i16>>)
        \o When(v >= 6, <<bool, bool>>) \o Tags(v >= 2)

AddPartitionsToTxnReq == <<str, i64, i16, arr, str, arr, i32, end, end>>

AddOffsetsToTxnReq == <<str, i64, i16, str>>

EndTxnReq == <<cstr, i64, i16, i8, tags>>

TxnOffsetCommitReq ==
    <<cstr, cstr, i64, i16, i32, cstr, cstr, carr, cstr, carr, i32, i64, i32,
      cstr, tags, end, tags, end, tags>>

CreateTopicsReq ==
    <<arr, str, i32, i16, arr, i32, arr, i32, end, end, arr, str, str, end, end,
      i32, bool>>

DeleteTopicsReq == <<arr, str, end, i32>>

ShareGroupHeartbeatReq == <<cstr, cstr, i32, cstr, carr, cstr, end, tags>>

read_share_topics ==
    <<carr, uuid, carr, i32, carr, i64, i64, carr, i8, end, tags, end, tags, end,
      tags, end>>

ShareFetchReq(v) ==
    <<cstr, cstr, i32, i32, i32, i32, i32, i32>> \o When(v >= 2, <<i8, bool>>)
        \o read_share_topics
        \o <<carr, uuid, carr, i32, end, tags, end, tags>>

ShareAcknowledgeReq(v) ==
    <<cstr, cstr, i32>> \o When(v >= 2, <<bool>>) \o read_share_topics
        \o <<tags>>

UpdateFeaturesReq(v) ==
    <<i32, carr, cstr, i16, i8, tags, end>> \o When(v >= 1, <<i8>>) \o <<tags>>

StreamsGroupDescribeReq == <<carr, cstr, end, i8, tags>>

SaslHandshakeReq == <<str>>

SaslAuthenticateReq == <<bytes>>

GetTelemetrySubscriptionsReq == <<uuid, tags>>

PushTelemetryReq == <<uuid, i32, bool, i8, cbytes, tags>>

------------------------------------------------------------------------------
(* What the broker writes. *)

metadata ==
    <<i32, carr, i32, cstr, i32, cstr, tags, end, cstr, i32, carr, i16, cstr,
      uuid, i8, carr, i16, i32, i32, i32, carr, i32, end, carr, i32, end, carr,
      i32, end, tags, end, i32, tags, end, tags>>

write_produce_partition == <<i32, i16, i64, i64, i64, carr, none, end, cstr, tags>>

produce ==
    <<carr, cstr, carr>> \o write_produce_partition \o <<end, tags, end, i32, tags>>

write_fetch_partition_with_aborted ==
    <<i32, i16, i64, i64, i64, arr, i64, i64, end, i32, bytes>>

fetch ==
    <<i32, i16, i32, arr, str, arr>> \o write_fetch_partition_with_aborted
        \o <<end, end>>

write_heartbeat_assignment ==
    <<opt, carr, uuid, carr, i32, end, tags, end, tags, end>>

\* consumer_group_heartbeat and write_share_heartbeat write the same fields.
write_heartbeat ==
    <<i32, i16, cstr, cstr, i32, i32>> \o write_heartbeat_assignment \o <<tags>>

write_list_offsets_response(v) ==
    LET flexible == v >= 6
    IN  <<i32, Arr(flexible), Str(flexible), Arr(flexible), i32, i16, i64, i64,
          i32>> \o Tags(flexible) \o <<end>> \o Tags(flexible) \o <<end>>
            \o Tags(flexible)

write_find_coordinator == <<i32, i16, str, i32, str, i32>>

join_group == <<i32, i16, i32, str, str, str, arr, str, str, bytes, end>>

sync_group == <<i32, i16, bytes>>

describe_groups ==
    <<i32, arr, i16, str, str, str, str, arr, str, str, str, str, bytes, bytes,
      end, i32, end>>

heartbeat == <<i32, i16>>

leave_group == <<i32, i16, arr, str, str, i16, end>>

write_offset_commit_response(v) ==
    LET flexible == v >= 8
    IN  <<i32, Arr(flexible), Str(flexible), Arr(flexible), i32, i16>>
            \o Tags(flexible) \o <<end>> \o Tags(flexible) \o <<end>>
            \o Tags(flexible)

write_offset_fetch_response(v) ==
    LET flexible == v >= 6
    IN  <<i32>> \o When(v >= 8, <<carr, cstr>>)
            \o <<Arr(flexible), Str(flexible), Arr(flexible), i32, i64, i32,
                 Str(flexible), i16>>
            \o Tags(flexible) \o <<end>> \o Tags(flexible) \o <<end, i16>>
            \o When(v >= 8, <<tags, end>>) \o Tags(flexible)

write_init_producer_id(v) ==
    <<i32, i16, i64, i16>> \o When(v >= 6, <<i64, i16>>) \o Tags(v >= 2)

add_partitions_to_txn == <<i32, arr, str, arr, i32, i16, end, end>>

add_offsets_to_txn == <<i32, i16>>

txn_offset_commit == <<i32, carr, cstr, carr, i32, i16, tags, end, tags, end, tags>>

end_txn(v) == <<i32, i16>> \o When(v >= 5, <<i64, i16>>) \o <<tags>>

create_topics == <<i32, arr, str, i16, str, end>>

delete_topics == <<i32, arr, str, i16, end>>

write_share_fetch_partition ==
    <<i32, i16, cstr, i16, cstr, i32, i32, tags, cbytes, carr, i64, i64, i16,
      tags, end, tags>>

share_fetch ==
    <<i32, i16, cstr, i32, carr, uuid, carr>> \o write_share_fetch_partition
        \o <<end, tags, end, carr, none, end, tags>>

share_acknowledge(v) ==
    <<i32, i16, cstr>> \o When(v >= 2, <<i32>>)
        \o <<carr, uuid, carr, i32, i16, cstr, i32, i32, tags, tags, end, tags,
             end, carr, none, end, tags>>

update_features(v) ==
    <<i32, i16, cstr>> \o When(v < 2, <<carr, cstr, i16, cstr, tags, end>>)
        \o <<tags>>

write_streams_assignment ==
    <<carr, cstr, carr, i32, end, tags, end, carr, none, end, carr, none, end,
      tags>>

streams_group_describe ==
    <<i32, carr, i16, cstr, cstr, cstr, i32, i32,
      opt, i32, carr, cstr, carr, cstr, end, carr, none, end, carr, none, end,
      carr, none, end, tags, end, tags, end,
      carr, cstr, i32, cstr, cstr, cstr, cstr, i32, cstr,
      opt, cstr, u16, tags, end, carr, none, end, carr, none, end,
      carr, none, end>>
        \o write_streams_assignment \o write_streams_assignment
        \o <<i8, tags, end, i32, tags, end, tags>>

sasl_handshake == <<i16, arr, str, end>>

sasl_authenticate == <<i16, str, bytes, i64>>

get_telemetry_subscriptions ==
    <<i32, i16, uuid, i32, carr, i8, end, i32, i32, bool, carr, cstr, end, tags>>

push_telemetry == <<i32, i16, tags>>
------------------------------------------------------------------------------
(* What the broker writes for an injected error, where it differs in shape.   *)

error_metadata ==
    <<i32, carr, none, end, cstr, i32, carr, i16, cstr, uuid, i8,
      carr, none, end, i32, tags, end, tags>>

error_join_group == <<i32, i16, i32, str, str, str, arr, none, end>>

error_leave_group == <<i32, i16, arr, none, end>>

write_share_fetch_error ==
    <<i32, i16, cstr, i32, carr, none, end, carr, none, end, tags>>

write_share_acknowledge_error(v) ==
    <<i32, i16, cstr>> \o When(v >= 2, <<i32>>)
        \o <<carr, none, end, carr, none, end, tags>>

error_streams_group_describe ==
    <<i32, carr, i16, cstr, cstr, cstr, i32, i32, opt, none, end,
      carr, none, end, i32, tags, end, tags>>

error_describe_groups ==
    <<i32, arr, i16, str, str, str, str, arr, none, end, i32, end>>

error_get_telemetry_subscriptions ==
    <<i32, i16, uuid, i32, carr, none, end, i32, i32, bool, carr, none, end, tags>>
==============================================================================
