----------------------------- MODULE SaiThrift ------------------------------
(***************************************************************************)
(* The service switch_sai_rpc: to the procedures of SaiThriftForwarding    *)
(* come those for the switch, host interfaces, access lists, mirroring,    *)
(* policers, schedulers, queues and buffers.  SaiMethods is the table      *)
(* Processor._processMap.                                                  *)
(***************************************************************************)
EXTENDS SaiThriftForwarding

sai_thrift_create_switch_args == Struct(<<
    F(1, "thrift_attr_list", ListOf(sai_thrift_attribute_t))>>)
sai_thrift_create_switch_result == Struct(<<F(0, "success", I64)>>)
sai_thrift_create_switch == RPC("sai_thrift_create_switch",
    sai_thrift_create_switch_args, sai_thrift_create_switch_result)

sai_thrift_get_switch_attribute_args == Struct(<<
    F(1, "thrift_attr_list", ListOf(sai_thrift_attribute_t))>>)
sai_thrift_get_switch_attribute_result == Struct(<<F(0, "success", sai_thrift_attribute_list_t)>>)
sai_thrift_get_switch_attribute == RPC("sai_thrift_get_switch_attribute",
    sai_thrift_get_switch_attribute_args, sai_thrift_get_switch_attribute_result)

sai_thrift_get_port_list_by_front_port_args == Struct(<<>>)
sai_thrift_get_port_list_by_front_port_result == Struct(<<F(0, "success", sai_thrift_attribute_t)>>)
sai_thrift_get_port_list_by_front_port == RPC("sai_thrift_get_port_list_by_front_port",
    sai_thrift_get_port_list_by_front_port_args, sai_thrift_get_port_list_by_front_port_result)

sai_thrift_get_cpu_port_id_args == Struct(<<>>)
sai_thrift_get_cpu_port_id_result == Struct(<<F(0, "success", I64)>>)
sai_thrift_get_cpu_port_id == RPC("sai_thrift_get_cpu_port_id",
    sai_thrift_get_cpu_port_id_args, sai_thrift_get_cpu_port_id_result)

sai_thrift_get_default_trap_group_args == Struct(<<>>)
sai_thrift_get_default_trap_group_result == Struct(<<F(0, "success", I64)>>)
sai_thrift_get_default_trap_group == RPC("sai_thrift_get_default_trap_group",
    sai_thrift_get_default_trap_group_args, sai_thrift_get_default_trap_group_result)

sai_thrift_get_default_router_id_args == Struct(<<>>)
sai_thrift_get_default_router_id_result == Struct(<<F(0, "success", I64)>>)
sai_thrift_get_default_router_id == RPC("sai_thrift_get_default_router_id",
    sai_thrift_get_default_router_id_args, sai_thrift_get_default_router_id_result)

sai_thrift_get_port_id_by_front_port_args == Struct(<<F(1, "port_name", STR)>>)
sai_thrift_get_port_id_by_front_port_result == Struct(<<F(0, "success", I64)>>)
sai_thrift_get_port_id_by_front_port == RPC("sai_thrift_get_port_id_by_front_port",
    sai_thrift_get_port_id_by_front_port_args, sai_thrift_get_port_id_by_front_port_result)

sai_thrift_set_switch_attribute_args == Struct(<<F(1, "attribute", sai_thrift_attribute_t)>>)
sai_thrift_set_switch_attribute_result == Struct(<<F(0, "success", I32)>>)
sai_thrift_set_switch_attribute == RPC("sai_thrift_set_switch_attribute",
    sai_thrift_set_switch_attribute_args, sai_thrift_set_switch_attribute_result)

sai_thrift_create_hostif_args == Struct(<<
    F(1, "thrift_attr_list", ListOf(sai_thrift_attribute_t))>>)
sai_thrift_create_hostif_result == Struct(<<F(0, "success", I64)>>)
sai_thrift_create_hostif == RPC("sai_thrift_create_hostif",
    sai_thrift_create_hostif_args, sai_thrift_create_hostif_result)

sai_thrift_remove_hostif_args == Struct(<<F(1, "hif_id", I64)>>)
sai_thrift_remove_hostif_result == Struct(<<F(0, "success", I32)>>)
sai_thrift_remove_hostif == RPC("sai_thrift_remove_hostif",
    sai_thrift_remove_hostif_args, sai_thrift_remove_hostif_result)

sai_thrift_create_hostif_trap_group_args == Struct(<<
    F(1, "thrift_attr_list", ListOf(sai_thrift_attribute_t))>>)
sai_thrift_create_hostif_trap_group_result == Struct(<<F(0, "success", I64)>>)
sai_thrift_create_hostif_trap_group == RPC("sai_thrift_create_hostif_trap_group",
    sai_thrift_create_hostif_trap_group_args, sai_thrift_create_hostif_trap_group_result)

sai_thrift_remove_hostif_trap_group_args == Struct(<<F(1, "trap_group_id", I64)>>)
sai_thrift_remove_hostif_trap_group_result == Struct(<<F(0, "success", I32)>>)
sai_thrift_remove_hostif_trap_group == RPC("sai_thrift_remove_hostif_trap_group",
    sai_thrift_remove_hostif_trap_group_args, sai_thrift_remove_hostif_trap_group_result)

sai_thrift_create_hostif_trap_args == Struct(<<
    F(1, "thrift_attr_list", ListOf(sai_thrift_attribute_t))>>)
sai_thrift_create_hostif_trap_result == Struct(<<F(0, "success", I32)>>)
sai_thrift_create_hostif_trap == RPC("sai_thrift_create_hostif_trap",
    sai_thrift_create_hostif_trap_args, sai_thrift_create_hostif_trap_result)

sai_thrift_remove_hostif_trap_args == Struct(<<F(1, "trap_id", I32)>>)
sai_thrift_remove_hostif_trap_result == Struct(<<F(0, "success", I32)>>)
sai_thrift_remove_hostif_trap == RPC("sai_thrift_remove_hostif_trap",
    sai_thrift_remove_hostif_trap_args, sai_thrift_remove_hostif_trap_result)

sai_thrift_set_hostif_trap_args == Struct(<<F(1, "trap_id", I32),
    F(2, "thrift_attr", sai_thrift_attribute_t)>>)
sai_thrift_set_hostif_trap_result == Struct(<<F(0, "success", I32)>>)
sai_thrift_set_hostif_trap == RPC("sai_thrift_set_hostif_trap",
    sai_thrift_set_hostif_trap_args, sai_thrift_set_hostif_trap_result)

sai_thrift_set_hostif_trap_group_args == Struct(<<F(1, "trap_group_id", I64),
    F(2, "thrift_attr", sai_thrift_attribute_t)>>)
sai_thrift_set_hostif_trap_group_result == Struct(<<F(0, "success", I32)>>)
sai_thrift_set_hostif_trap_group == RPC("sai_thrift_set_hostif_trap_group",
    sai_thrift_set_hostif_trap_group_args, sai_thrift_set_hostif_trap_group_result)

sai_thrift_create_acl_table_args == Struct(<<
    F(1, "thrift_attr_list", ListOf(sai_thrift_attribute_t))>>)
sai_thrift_create_acl_table_result == Struct(<<F(0, "success", I64)>>)
sai_thrift_create_acl_table == RPC("sai_thrift_create_acl_table",
    sai_thrift_create_acl_table_args, sai_thrift_create_acl_table_result)

sai_thrift_delete_acl_table_args == Struct(<<F(1, "acl_table_id", I64)>>)
sai_thrift_delete_acl_table_result == Struct(<<F(0, "success", I32)>>)
sai_thrift_delete_acl_table == RPC("sai_thrift_delete_acl_table",
    sai_thrift_delete_acl_table_args, sai_thrift_delete_acl_table_result)

sai_thrift_create_acl_entry_args == Struct(<<
    F(1, "thrift_attr_list", ListOf(sai_thrift_attribute_t))>>)
sai_thrift_create_acl_entry_result == Struct(<<F(0, "success", I64)>>)
sai_thrift_create_acl_entry == RPC("sai_thrift_create_acl_entry",
    sai_thrift_create_acl_entry_args, sai_thrift_create_acl_entry_result)

sai_thrift_delete_acl_entry_args == Struct(<<F(1, "acl_entry", I64)>>)
sai_thrift_delete_acl_entry_result == Struct(<<F(0, "success", I32)>>)
sai_thrift_delete_acl_entry == RPC("sai_thrift_delete_acl_entry",
    sai_thrift_delete_acl_entry_args, sai_thrift_delete_acl_entry_result)

sai_thrift_create_acl_counter_args == Struct(<<
    F(1, "thrift_attr_list", ListOf(sai_thrift_attribute_t))>>)
sai_thrift_create_acl_counter_result == Struct(<<F(0, "success", I64)>>)
sai_thrift_create_acl_counter == RPC("sai_thrift_create_acl_counter",
    sai_thrift_create_acl_counter_args, sai_thrift_create_acl_counter_result)

sai_thrift_delete_acl_counter_args == Struct(<<F(1, "acl_counter_id", I64)>>)
sai_thrift_delete_acl_counter_result == Struct(<<F(0, "success", I32)>>)
sai_thrift_delete_acl_counter == RPC("sai_thrift_delete_acl_counter",
    sai_thrift_delete_acl_counter_args, sai_thrift_delete_acl_counter_result)

sai_thrift_get_acl_counter_attribute_args == Struct(<<F(1, "acl_counter_id", I64),
    F(2, "thrift_attr_ids", ListOf(I32))>>)
sai_thrift_get_acl_counter_attribute_result == Struct(<<
    F(0, "success", ListOf(sai_thrift_attribute_value_t))>>)
sai_thrift_get_acl_counter_attribute == RPC("sai_thrift_get_acl_counter_attribute",
    sai_thrift_get_acl_counter_attribute_args, sai_thrift_get_acl_counter_attribute_result)

sai_thrift_create_mirror_session_args == Struct(<<
    F(1, "thrift_attr_list", ListOf(sai_thrift_attribute_t))>>)
sai_thrift_create_mirror_session_result == Struct(<<F(0, "success", I64)>>)
sai_thrift_create_mirror_session == RPC("sai_thrift_create_mirror_session",
    sai_thrift_create_mirror_session_args, sai_thrift_create_mirror_session_result)

sai_thrift_remove_mirror_session_args == Struct(<<F(1, "session_id", I64)>>)
sai_thrift_remove_mirror_session_result == Struct(<<F(0, "success", I32)>>)
sai_thrift_remove_mirror_session == RPC("sai_thrift_remove_mirror_session",
    sai_thrift_remove_mirror_session_args, sai_thrift_remove_mirror_session_result)

sai_thrift_create_policer_args == Struct(<<
    F(1, "thrift_attr_list", ListOf(sai_thrift_attribute_t))>>)
sai_thrift_create_policer_result == Struct(<<F(0, "success", I64)>>)
sai_thrift_create_policer == RPC("sai_thrift_create_policer",
    sai_thrift_create_policer_args, sai_thrift_create_policer_result)

sai_thrift_remove_policer_args == Struct(<<F(1, "policer_id", I64)>>)
sai_thrift_remove_policer_result == Struct(<<F(0, "success", I32)>>)
sai_thrift_remove_policer == RPC("sai_thrift_remove_policer",
    sai_thrift_remove_policer_args, sai_thrift_remove_policer_result)

sai_thrift_get_policer_stats_args == Struct(<<F(1, "policer_id", I64),
    F(2, "counter_ids", ListOf(I32))>>)
sai_thrift_get_policer_stats_result == Struct(<<F(0, "success", ListOf(I64))>>)
sai_thrift_get_policer_stats == RPC("sai_thrift_get_policer_stats",
    sai_thrift_get_policer_stats_args, sai_thrift_get_policer_stats_result)

sai_thrift_create_scheduler_profile_args == Struct(<<
    F(1, "thrift_attr_list", ListOf(sai_thrift_attribute_t))>>)
sai_thrift_create_scheduler_profile_result == Struct(<<F(0, "success", I64)>>)
sai_thrift_create_scheduler_profile == RPC("sai_thrift_create_scheduler_profile",
    sai_thrift_create_scheduler_profile_args, sai_thrift_create_scheduler_profile_result)

sai_thrift_remove_scheduler_profile_args == Struct(<<F(1, "scheduler_id", I64)>>)
sai_thrift_remove_scheduler_profile_result == Struct(<<F(0, "success", I32)>>)
sai_thrift_remove_scheduler_profile == RPC("sai_thrift_remove_scheduler_profile",
    sai_thrift_remove_scheduler_profile_args, sai_thrift_remove_scheduler_profile_result)

sai_thrift_get_queue_stats_args == Struct(<<F(1, "queue_id", I64),
    F(2, "counter_ids", ListOf(I32)), F(3, "number_of_counters", I32)>>)
sai_thrift_get_queue_stats_result == Struct(<<F(0, "success", ListOf(I64))>>)
sai_thrift_get_queue_stats == RPC("sai_thrift_get_queue_stats",
    sai_thrift_get_queue_stats_args, sai_thrift_get_queue_stats_result)

sai_thrift_clear_queue_stats_args == Struct(<<F(1, "queue_id", I64),
    F(2, "counter_ids", ListOf(I32)), F(3, "number_of_counters", I32)>>)
sai_thrift_clear_queue_stats_result == Struct(<<F(0, "success", I32)>>)
sai_thrift_clear_queue_stats == RPC("sai_thrift_clear_queue_stats",
    sai_thrift_clear_queue_stats_args, sai_thrift_clear_queue_stats_result)

sai_thrift_set_queue_attribute_args == Struct(<<F(1, "queue_id", I64),
    F(2, "thrift_attr", sai_thrift_attribute_t)>>)
sai_thrift_set_queue_attribute_result == Struct(<<F(0, "success", I32)>>)
sai_thrift_set_queue_attribute == RPC("sai_thrift_set_queue_attribute",
    sai_thrift_set_queue_attribute_args, sai_thrift_set_queue_attribute_result)

sai_thrift_create_buffer_profile_args == Struct(<<
    F(1, "thrift_attr_list", ListOf(sai_thrift_attribute_t))>>)
sai_thrift_create_buffer_profile_result == Struct(<<F(0, "success", I64)>>)
sai_thrift_create_buffer_profile == RPC("sai_thrift_create_buffer_profile",
    sai_thrift_create_buffer_profile_args, sai_thrift_create_buffer_profile_result)

sai_thrift_create_pool_profile_args == Struct(<<
    F(1, "thrift_attr_list", ListOf(sai_thrift_attribute_t))>>)
sai_thrift_create_pool_profile_result == Struct(<<F(0, "success", I64)>>)
sai_thrift_create_pool_profile == RPC("sai_thrift_create_pool_profile",
    sai_thrift_create_pool_profile_args, sai_thrift_create_pool_profile_result)

sai_thrift_set_priority_group_attribute_args == Struct(<<F(1, "pg_id", I64),
    F(2, "thrift_attr", sai_thrift_attribute_t)>>)
sai_thrift_set_priority_group_attribute_result == Struct(<<F(0, "success", I32)>>)
sai_thrift_set_priority_group_attribute == RPC("sai_thrift_set_priority_group_attribute",
    sai_thrift_set_priority_group_attribute_args, sai_thrift_set_priority_group_attribute_result)

sai_thrift_get_pg_stats_args == Struct(<<F(1, "pg_id", I64), F(2, "counter_ids", ListOf(I32)),
    F(3, "number_of_counters", I32)>>)
sai_thrift_get_pg_stats_result == Struct(<<F(0, "success", ListOf(I64))>>)
sai_thrift_get_pg_stats == RPC("sai_thrift_get_pg_stats",
    sai_thrift_get_pg_stats_args, sai_thrift_get_pg_stats_result)

sai_thrift_create_wred_profile_args == Struct(<<
    F(1, "thrift_attr_list", ListOf(sai_thrift_attribute_t))>>)
sai_thrift_create_wred_profile_result == Struct(<<F(0, "success", I64)>>)
sai_thrift_create_wred_profile == RPC("sai_thrift_create_wred_profile",
    sai_thrift_create_wred_profile_args, sai_thrift_create_wred_profile_result)

sai_thrift_remove_wred_profile_args == Struct(<<F(1, "wred_id", I64)>>)
sai_thrift_remove_wred_profile_result == Struct(<<F(0, "success", I32)>>)
sai_thrift_remove_wred_profile == RPC("sai_thrift_remove_wred_profile",
    sai_thrift_remove_wred_profile_args, sai_thrift_remove_wred_profile_result)

sai_thrift_create_qos_map_args == Struct(<<
    F(1, "thrift_attr_list", ListOf(sai_thrift_attribute_t))>>)
sai_thrift_create_qos_map_result == Struct(<<F(0, "success", I64)>>)
sai_thrift_create_qos_map == RPC("sai_thrift_create_qos_map",
    sai_thrift_create_qos_map_args, sai_thrift_create_qos_map_result)

sai_thrift_remove_qos_map_args == Struct(<<F(1, "qos_map_id", I64)>>)
sai_thrift_remove_qos_map_result == Struct(<<F(0, "success", I32)>>)
sai_thrift_remove_qos_map == RPC("sai_thrift_remove_qos_map",
    sai_thrift_remove_qos_map_args, sai_thrift_remove_qos_map_result)

SaiMethods == ForwardingMethods \cup {sai_thrift_create_switch, sai_thrift_get_switch_attribute,
    sai_thrift_get_port_list_by_front_port, sai_thrift_get_cpu_port_id,
    sai_thrift_get_default_trap_group, sai_thrift_get_default_router_id,
    sai_thrift_get_port_id_by_front_port, sai_thrift_set_switch_attribute,
    sai_thrift_create_hostif, sai_thrift_remove_hostif, sai_thrift_create_hostif_trap_group,
    sai_thrift_remove_hostif_trap_group, sai_thrift_create_hostif_trap,
    sai_thrift_remove_hostif_trap, sai_thrift_set_hostif_trap, sai_thrift_set_hostif_trap_group,
    sai_thrift_create_acl_table, sai_thrift_delete_acl_table, sai_thrift_create_acl_entry,
    sai_thrift_delete_acl_entry, sai_thrift_create_acl_counter, sai_thrift_delete_acl_counter,
    sai_thrift_get_acl_counter_attribute, sai_thrift_create_mirror_session,
    sai_thrift_remove_mirror_session, sai_thrift_create_policer, sai_thrift_remove_policer,
    sai_thrift_get_policer_stats, sai_thrift_create_scheduler_profile,
    sai_thrift_remove_scheduler_profile, sai_thrift_get_queue_stats, sai_thrift_clear_queue_stats,
    sai_thrift_set_queue_attribute, sai_thrift_create_buffer_profile,
    sai_thrift_create_pool_profile, sai_thrift_set_priority_group_attribute,
    sai_thrift_get_pg_stats, sai_thrift_create_wred_profile, sai_thrift_remove_wred_profile,
    sai_thrift_create_qos_map, sai_thrift_remove_qos_map}

=============================================================================
