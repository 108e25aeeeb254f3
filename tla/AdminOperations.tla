--------------------------- MODULE AdminOperations ---------------------------
(***************************************************************************)
(* What each operation of the admin client asks of the driver: the calls   *)
(* it makes, one after the other, each with                                *)
(*   mode     Read or Write, which decides what may be retried;            *)
(*   target   where a key is sent, for the first key and for the others;   *)
(*   keys     "one" for a whole-call request (Call::single), "all" for     *)
(*            one result per key (Call::fan_out);                          *)
(*   shared   every key has the same target (one group, not one each).     *)
(* A later call is made only when the earlier ones succeeded.  An          *)
(* operation is the set of the sequences of calls it can make.  Requests,  *)
(* version limits and the fields of answers are left out (module Wire has  *)
(* the encodings); a response-level error is the error of every key.       *)
(* Invalid arguments and a closed client are refused before the first call *)
(* (refuse, in AdminDriver).                                               *)
(***************************************************************************)
EXTENDS Sequences

Fan(mode, target) == [mode |-> mode, target |-> <<target, target>>, keys |-> "all",
                      shared |-> FALSE]
Single(mode, target) == [Fan(mode, target) EXCEPT !.keys = "one"]
OneGroup(c) == [c EXCEPT !.shared = TRUE]
Mixed(c, others) == [c EXCEPT !.target[2] = others]

\* acls.rs
describe_acls == {<<Single("Read", "AnyBroker")>>}
create_acls == {<<Fan("Write", "Controller")>>}
delete_acls == {<<Fan("Write", "Controller")>>}

\* configs.rs; a broker's own configuration is asked of that broker.
config_target(otherwise) == {<<Fan(otherwise[1], otherwise[2])>>,
                             <<Mixed(Fan(otherwise[1], otherwise[2]), "Broker")>>}
describe_configs == config_target(<<"Read", "AnyBroker">>)
incremental_alter_configs == config_target(<<"Write", "Controller">>)
describe_cluster == {<<Single("Read", "AnyBroker")>>}
list_config_resources == {<<Single("Read", "AnyBroker")>>}

\* features.rs
describe_features == {<<Single("Read", "AnyBroker")>>, <<Single("Read", "Broker")>>}
update_features == {<<Single("Write", "Controller")>>}

\* offsets.rs
list_offsets == {<<Fan("Read", "Leader")>>}
delete_records == {<<Fan("Write", "Leader")>>}
offset_for_leader_epoch == {<<Fan("Read", "Leader")>>}

\* group_offsets.rs
list_consumer_group_offsets == {<<Single("Read", "Coordinator")>>}
alter_consumer_group_offsets == {<<OneGroup(Fan("Write", "Coordinator"))>>}
delete_consumer_group_offsets == {<<OneGroup(Fan("Write", "Coordinator"))>>}
consumer_group_lag == {a \o b : a \in list_consumer_group_offsets, b \in list_offsets}

\* groups.rs; a listing first needs the broker ids (broker_ids).
describe_consumer_groups == {<<Fan("Read", "Coordinator")>>}
delete_consumer_groups == {<<Fan("Write", "Coordinator")>>}
broker_ids == {<<Single("Read", "BrokerList")>>}
list_consumer_groups == {a \o <<Fan("Read", "Broker")>> : a \in broker_ids}

\* partitions.rs
describe_log_dirs == {<<Fan("Read", "Broker")>>}
elect_leaders == {<<Single("Write", "Controller")>>}
alter_partition_reassignments == {<<Fan("Write", "Controller")>>}
list_partition_reassignments == {<<Single("Read", "Controller")>>}
alter_replica_log_dirs == {<<Fan("Write", "Broker")>>}

\* quotas.rs, scram.rs
describe_client_quotas == {<<Single("Read", "AnyBroker")>>}
alter_client_quotas == {<<Fan("Write", "Controller")>>}
describe_user_scram_credentials == {<<Single("Read", "AnyBroker")>>}
alter_user_scram_credentials == {<<Fan("Write", "Controller")>>}

\* share_group_offsets.rs, streams_groups.rs
describe_share_group_offsets == {<<Single("Read", "Coordinator")>>}
alter_share_group_offsets == {<<OneGroup(Fan("Write", "Coordinator"))>>}
delete_share_group_offsets == {<<OneGroup(Fan("Write", "Coordinator"))>>}
describe_streams_groups == {<<Fan("Read", "Coordinator")>>}

\* tokens.rs
create_delegation_token == {<<Single("Write", "Controller")>>}
renew_delegation_token == {<<Single("Write", "AnyBroker")>>}
expire_delegation_token == {<<Single("Write", "AnyBroker")>>}
describe_delegation_token == {<<Single("Read", "AnyBroker")>>}

\* topics.rs
create_topics == {<<Fan("Write", "Controller")>>}
delete_topics == {<<Fan("Write", "Controller")>>}
create_partitions == {<<Fan("Write", "Controller")>>}
list_topics == {<<Single("Read", "TopicList")>>}
describe_topics == {<<Fan("Read", "AnyBroker")>>}

\* transactions.rs; the coordinator epoch of the markers is given, or the one
\* the partitions' producer states agree on (coordinator_epoch_of).
describe_producers == {<<Fan("Read", "Leader")>>}
describe_transactions == {<<Fan("Read", "Coordinator")>>}
list_transactions == {a \o <<Fan("Read", "Broker")>> : a \in broker_ids}
coordinator_epoch_of == {<<>>} \cup describe_producers
abort_transaction == {<<Single("Read", "Coordinator")>> \o a \o <<Fan("Write", "Leader")>> :
                         a \in coordinator_epoch_of}
describe_metadata_quorum == {<<Single("Read", "AnyBroker")>>}

Operations ==
    describe_acls \cup create_acls \cup delete_acls \cup describe_configs
    \cup incremental_alter_configs \cup describe_cluster \cup list_config_resources
    \cup describe_features \cup update_features \cup list_offsets \cup delete_records
    \cup offset_for_leader_epoch \cup list_consumer_group_offsets
    \cup alter_consumer_group_offsets \cup delete_consumer_group_offsets
    \cup consumer_group_lag \cup describe_consumer_groups \cup delete_consumer_groups
    \cup list_consumer_groups \cup describe_log_dirs \cup elect_leaders
    \cup alter_partition_reassignments \cup list_partition_reassignments
    \cup alter_replica_log_dirs \cup describe_client_quotas \cup alter_client_quotas
    \cup describe_user_scram_credentials \cup alter_user_scram_credentials
    \cup describe_share_group_offsets \cup alter_share_group_offsets
    \cup delete_share_group_offsets \cup describe_streams_groups
    \cup create_delegation_token \cup renew_delegation_token \cup expire_delegation_token
    \cup describe_delegation_token \cup create_topics \cup delete_topics
    \cup create_partitions \cup list_topics \cup describe_topics \cup describe_producers
    \cup describe_transactions \cup list_transactions \cup abort_transaction
    \cup describe_metadata_quorum
==============================================================================
