----------------------------- MODULE ErrorCodes -----------------------------
(****************************************************************************)
(* The error taxonomy of src/error.rs: broker error codes and their numbers,  *)
(* the errors of the client, and which of them are retried, which end the     *)
(* client and which end a transaction.                                       *)
(*                                                                          *)
(* from_i16, to_i16 and is_retriable are written apart in the code and are    *)
(* three tables here.  An error is its variant and, of a broker's or a        *)
(* protocol error, the code or kind it carries.                              *)
(****************************************************************************)
EXTENDS Integers, Sequences, SequencesExt

\* The variants of ErrorCode, from the one for -1 on.
Older ==
    <<
      "UnknownServerError", "None", "OffsetOutOfRange", "CorruptMessage",
      "UnknownTopicOrPartition", "InvalidMessageSize", "LeaderNotAvailable",
      "NotLeaderForPartition", "RequestTimedOut", "BrokerNotAvailable",
      "ReplicaNotAvailable", "MessageTooLarge", "StaleControllerEpoch",
      "OffsetMetadataTooLarge", "NetworkException", "CoordinatorLoadInProgress",
      "CoordinatorNotAvailable", "NotCoordinator", "InvalidTopic", "RecordListTooLarge",
      "NotEnoughReplicas", "NotEnoughReplicasAfterAppend", "InvalidRequiredAcks",
      "IllegalGeneration", "InconsistentGroupProtocol", "InvalidGroupId",
      "UnknownMemberId", "InvalidSessionTimeout", "RebalanceInProgress",
      "InvalidCommitOffsetSize", "TopicAuthorizationFailed", "GroupAuthorizationFailed",
      "ClusterAuthorizationFailed", "InvalidTimestamp", "UnsupportedSaslMechanism",
      "IllegalSaslState", "UnsupportedVersion", "TopicAlreadyExists", "InvalidPartitions",
      "InvalidReplicationFactor", "InvalidReplicaAssignment", "InvalidConfig",
      "NotController", "InvalidRequest", "UnsupportedForMessageFormat", "PolicyViolation",
      "OutOfOrderSequenceNumber", "DuplicateSequenceNumber", "InvalidProducerEpoch",
      "InvalidTxnState", "InvalidProducerIdMapping", "InvalidTransactionTimeout",
      "ConcurrentTransactions", "TransactionCoordinatorFenced",
      "TransactionalIdAuthorizationFailed", "SecurityDisabled", "OperationNotAttempted",
      "KafkaStorageException", "LogDirNotFound", "SaslAuthenticationFailed",
      "UnknownProducerId", "ReassignmentInProgress", "DelegationTokenAuthDisabled",
      "DelegationTokenNotFound", "DelegationTokenOwnerMismatch",
      "DelegationTokenRequestNotAllowed", "DelegationTokenAuthorizationFailed",
      "DelegationTokenExpired"
    >>

Newer ==
    <<
      "InvalidPrincipalType", "NonEmptyGroup", "GroupIdNotFound", "FetchSessionIdNotFound",
      "InvalidFetchSessionEpoch", "ListenerNotFound", "TopicDeletionDisabled",
      "FencedLeaderEpoch", "UnknownLeaderEpoch", "UnsupportedCompressionType",
      "StaleBrokerEpoch", "OffsetNotAvailable", "MemberIdRequired",
      "PreferredLeaderNotAvailable", "GroupMaxSizeReached", "FencedInstanceId",
      "EligibleLeadersNotAvailable", "ElectionNotNeeded", "NoReassignmentInProgress",
      "GroupSubscribedToTopic", "InvalidRecord", "UnstableOffsetCommit",
      "ThrottlingQuotaExceeded", "ProducerFenced", "ResourceNotFound", "DuplicateResource",
      "UnacceptableCredential", "InconsistentVoterSet", "InvalidUpdateVersion",
      "FeatureUpdateFailed", "PrincipalDeserializationFailure", "SnapshotNotFound",
      "PositionOutOfRange", "UnknownTopicId", "DuplicateBrokerRegistration",
      "BrokerIdNotRegistered", "InconsistentTopicId", "InconsistentClusterId",
      "TransactionalIdNotFound", "FetchSessionTopicIdError", "IneligibleReplica",
      "NewLeaderElected", "OffsetMovedToTieredStorage", "FencedMemberEpoch",
      "UnreleasedInstanceId", "UnsupportedAssignor", "StaleMemberEpoch",
      "MismatchedEndpointType", "UnsupportedEndpointType", "UnknownControllerId",
      "UnknownSubscriptionId", "TelemetryTooLarge", "InvalidRegistration",
      "TransactionAbortable", "InvalidRecordState", "ShareSessionNotFound",
      "InvalidShareSessionEpoch", "FencedStateEpoch", "InvalidVoterKey", "DuplicateVoter",
      "VoterNotFound", "InvalidRegularExpression", "RebootstrapRequired",
      "StreamsInvalidTopology", "StreamsInvalidTopologyEpoch", "StreamsTopologyFenced",
      "ShareSessionLimitReached"
    >>

\* from_i16's arms.
Numbered == Older \o Newer

\* A number without a name is kept (`Unknown`).
from_i16(code) ==
    IF code + 2 \in DOMAIN Numbered
    THEN [name |-> Numbered[code + 2]]
    ELSE [name |-> "Unknown", number |-> code]

\* ErrorCode::to_i16.
NumberOf ==
    [
      None |-> 0, UnknownServerError |-> -1, OffsetOutOfRange |-> 1, CorruptMessage |-> 2,
      UnknownTopicOrPartition |-> 3, InvalidMessageSize |-> 4, LeaderNotAvailable |-> 5,
      NotLeaderForPartition |-> 6, RequestTimedOut |-> 7, BrokerNotAvailable |-> 8,
      ReplicaNotAvailable |-> 9, MessageTooLarge |-> 10, StaleControllerEpoch |-> 11,
      OffsetMetadataTooLarge |-> 12, NetworkException |-> 13,
      CoordinatorLoadInProgress |-> 14, CoordinatorNotAvailable |-> 15,
      NotCoordinator |-> 16, InvalidTopic |-> 17, RecordListTooLarge |-> 18,
      NotEnoughReplicas |-> 19, NotEnoughReplicasAfterAppend |-> 20,
      InvalidRequiredAcks |-> 21, IllegalGeneration |-> 22,
      InconsistentGroupProtocol |-> 23, InvalidGroupId |-> 24, UnknownMemberId |-> 25,
      InvalidSessionTimeout |-> 26, RebalanceInProgress |-> 27,
      InvalidCommitOffsetSize |-> 28, TopicAuthorizationFailed |-> 29,
      GroupAuthorizationFailed |-> 30, ClusterAuthorizationFailed |-> 31,
      InvalidTimestamp |-> 32, UnsupportedSaslMechanism |-> 33, IllegalSaslState |-> 34,
      UnsupportedVersion |-> 35, TopicAlreadyExists |-> 36, InvalidPartitions |-> 37,
      InvalidReplicationFactor |-> 38, InvalidReplicaAssignment |-> 39,
      InvalidConfig |-> 40, NotController |-> 41, InvalidRequest |-> 42,
      UnsupportedForMessageFormat |-> 43, PolicyViolation |-> 44,
      OutOfOrderSequenceNumber |-> 45, DuplicateSequenceNumber |-> 46,
      InvalidProducerEpoch |-> 47, InvalidTxnState |-> 48, InvalidProducerIdMapping |-> 49,
      InvalidTransactionTimeout |-> 50, ConcurrentTransactions |-> 51,
      TransactionCoordinatorFenced |-> 52, TransactionalIdAuthorizationFailed |-> 53,
      SecurityDisabled |-> 54, OperationNotAttempted |-> 55, KafkaStorageException |-> 56,
      LogDirNotFound |-> 57, SaslAuthenticationFailed |-> 58, UnknownProducerId |-> 59,
      ReassignmentInProgress |-> 60, DelegationTokenAuthDisabled |-> 61,
      DelegationTokenNotFound |-> 62, DelegationTokenOwnerMismatch |-> 63,
      DelegationTokenRequestNotAllowed |-> 64, DelegationTokenAuthorizationFailed |-> 65,
      DelegationTokenExpired |-> 66, InvalidPrincipalType |-> 67, NonEmptyGroup |-> 68,
      GroupIdNotFound |-> 69, FetchSessionIdNotFound |-> 70,
      InvalidFetchSessionEpoch |-> 71, ListenerNotFound |-> 72,
      TopicDeletionDisabled |-> 73, FencedLeaderEpoch |-> 74, UnknownLeaderEpoch |-> 75,
      UnsupportedCompressionType |-> 76, StaleBrokerEpoch |-> 77,
      OffsetNotAvailable |-> 78, MemberIdRequired |-> 79,
      PreferredLeaderNotAvailable |-> 80, GroupMaxSizeReached |-> 81,
      FencedInstanceId |-> 82, EligibleLeadersNotAvailable |-> 83,
      ElectionNotNeeded |-> 84, NoReassignmentInProgress |-> 85,
      GroupSubscribedToTopic |-> 86, InvalidRecord |-> 87, UnstableOffsetCommit |-> 88,
      ThrottlingQuotaExceeded |-> 89, ProducerFenced |-> 90, ResourceNotFound |-> 91,
      DuplicateResource |-> 92, UnacceptableCredential |-> 93, InconsistentVoterSet |-> 94,
      InvalidUpdateVersion |-> 95, FeatureUpdateFailed |-> 96,
      PrincipalDeserializationFailure |-> 97, SnapshotNotFound |-> 98,
      PositionOutOfRange |-> 99, UnknownTopicId |-> 100,
      DuplicateBrokerRegistration |-> 101, BrokerIdNotRegistered |-> 102,
      InconsistentTopicId |-> 103, InconsistentClusterId |-> 104,
      TransactionalIdNotFound |-> 105, FetchSessionTopicIdError |-> 106,
      IneligibleReplica |-> 107, NewLeaderElected |-> 108,
      OffsetMovedToTieredStorage |-> 109, FencedMemberEpoch |-> 110,
      UnreleasedInstanceId |-> 111, UnsupportedAssignor |-> 112, StaleMemberEpoch |-> 113,
      MismatchedEndpointType |-> 114, UnsupportedEndpointType |-> 115,
      UnknownControllerId |-> 116, UnknownSubscriptionId |-> 117,
      TelemetryTooLarge |-> 118, InvalidRegistration |-> 119, TransactionAbortable |-> 120,
      InvalidRecordState |-> 121, ShareSessionNotFound |-> 122,
      InvalidShareSessionEpoch |-> 123, FencedStateEpoch |-> 124, InvalidVoterKey |-> 125,
      DuplicateVoter |-> 126, VoterNotFound |-> 127, InvalidRegularExpression |-> 128,
      RebootstrapRequired |-> 129, StreamsInvalidTopology |-> 130,
      StreamsInvalidTopologyEpoch |-> 131, StreamsTopologyFenced |-> 132,
      ShareSessionLimitReached |-> 133
    ]

to_i16(error) == IF error.name = "Unknown" THEN error.number ELSE NumberOf[error.name]

\* ErrorCode::is_retriable.
Retriable ==
    {
      "CorruptMessage", "RequestTimedOut", "CoordinatorLoadInProgress",
      "NotEnoughReplicas", "NotEnoughReplicasAfterAppend", "NotController",
      "ConcurrentTransactions", "FetchSessionIdNotFound", "InvalidFetchSessionEpoch",
      "UnknownLeaderEpoch", "OffsetNotAvailable", "UnstableOffsetCommit",
      "ThrottlingQuotaExceeded", "FetchSessionTopicIdError", "ShareSessionNotFound",
      "InvalidShareSessionEpoch", "ShareSessionLimitReached", "CoordinatorNotAvailable",
      "NotCoordinator", "UnknownTopicOrPartition", "LeaderNotAvailable",
      "NotLeaderForPartition", "ReplicaNotAvailable", "NetworkException",
      "KafkaStorageException", "ListenerNotFound", "FencedLeaderEpoch",
      "PreferredLeaderNotAvailable", "EligibleLeadersNotAvailable", "ElectionNotNeeded",
      "UnknownTopicId", "InconsistentTopicId", "BrokerNotAvailable", "RebalanceInProgress",
      "OutOfOrderSequenceNumber", "OperationNotAttempted", "UnknownProducerId",
      "NewLeaderElected", "FencedMemberEpoch", "StaleMemberEpoch"
    }

ProtocolErrorKind ==
    {"TruncatedFrame", "CrcMismatch", "UnknownApiVersion", "InvalidLength", "FrameTooLarge",
     "InvalidUtf8", "UnsupportedMagic", "InvalidValue", "Malformed", "Other"}

\* ProtocolErrorKind::is_retriable.
RetriableKind == {"TruncatedFrame", "Malformed"}

\* The variants of KrafkaError that carry neither a code nor a kind.
Plain ==
    {"Network", "Auth", "Timeout", "DeliveryTimeout", "Config", "Compression",
     "Serialization", "RecordDeserialization", "Closed", "Wakeup", "Fenced",
     "TransactionAbortable", "NoOffset", "UnknownTopic", "OutOfOrderSequence",
     "IllegalState"}

KrafkaError ==
    [is : {"Broker"}, of : ToSet(Numbered)] \cup [is : {"Protocol"}, of : ProtocolErrorKind]
    \cup [is : Plain, of : {"nothing"}]

is_retriable(e) ==
    \/ e.is \in {"Network", "Timeout"}
    \/ e.is = "Broker" /\ e.of \in Retriable
    \/ e.is = "Protocol" /\ e.of \in RetriableKind

is_fatal(e) ==
    \/ e.is \in {"Fenced", "Auth", "Closed"}
    \/ /\ e.is = "Broker"
       /\ e.of \in {"ProducerFenced", "InvalidProducerEpoch", "TransactionCoordinatorFenced",
                    "TransactionalIdAuthorizationFailed", "InvalidTxnState",
                    "ClusterAuthorizationFailed", "SaslAuthenticationFailed"}

requires_abort(e) ==
    \/ e.is = "TransactionAbortable"
    \/ e.is = "Broker" /\ e.of = "TransactionAbortable"

\* transaction.rs: what is fatal to a transactional producer.
is_fatal_transaction_error(code, v2) ==
    \/ code = "InvalidProducerIdMapping" /\ v2
    \/ code \in {"InvalidProducerEpoch", "ProducerFenced", "InvalidTxnState",
                 "TransactionalIdAuthorizationFailed", "TransactionCoordinatorFenced"}

\* The two tables are inverse on every number a broker can answer, and every
\* classified name is a code.  No error has two remedies: what is retried
\* neither ends the client nor a transaction, and a transactional producer
\* gives up on everything the application is told is fatal to a producer, for
\* a retry after either would be sent under an identity that is lost.
CodesClassified ==
    /\ \A code \in -32768..32767 : to_i16(from_i16(code)) = code
    /\ \A name \in DOMAIN NumberOf : from_i16(NumberOf[name]).name = name
    /\ Retriable \subseteq DOMAIN NumberOf
    /\ RetriableKind \subseteq ProtocolErrorKind
    /\ \A e \in KrafkaError :
           /\ ~(is_retriable(e) /\ is_fatal(e))
           /\ ~(is_retriable(e) /\ requires_abort(e))
           /\ ~(is_fatal(e) /\ requires_abort(e))
    /\ \A name \in DOMAIN NumberOf, v2 \in BOOLEAN :
           is_fatal_transaction_error(name, v2) =>
               /\ name \notin Retriable
               /\ is_fatal([is |-> "Broker", of |-> name])
                      \/ name = "InvalidProducerIdMapping"
==============================================================================
