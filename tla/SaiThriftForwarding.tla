------------------------ MODULE SaiThriftForwarding -------------------------
(***************************************************************************)
(* The procedures of switch_sai_rpc for ports, bridges, VLANs, routing,    *)
(* LAGs, spanning trees and neighbours, as the generated Python describes  *)
(* them: for every procedure the classes of its arguments and its result,  *)
(* and the name that its client stub and its process_ function use.        *)
(***************************************************************************)
EXTENDS SaiThriftTypes

sai_thrift_set_port_attribute_args == Struct(<<F(1, "port_id", I64),
    F(2, "thrift_attr", sai_thrift_attribute_t)>>)
sai_thrift_set_port_attribute_result == Struct(<<F(0, "success", I32)>>)
sai_thrift_set_port_attribute == RPC("sai_thrift_set_port_attribute",
    sai_thrift_set_port_attribute_args, sai_thrift_set_port_attribute_result)

sai_thrift_get_port_attribute_args == Struct(<<F(1, "port_id", I64)>>)
sai_thrift_get_port_attribute_result == Struct(<<F(0, "success", sai_thrift_attribute_list_t)>>)
sai_thrift_get_port_attribute == RPC("sai_thrift_get_port_attribute",
    sai_thrift_get_port_attribute_args, sai_thrift_get_port_attribute_result)

sai_thrift_get_port_stats_args == Struct(<<F(1, "port_id", I64), F(2, "counter_ids", ListOf(I32)),
    F(3, "number_of_counters", I32)>>)
sai_thrift_get_port_stats_result == Struct(<<F(0, "success", ListOf(I64))>>)
sai_thrift_get_port_stats == RPC("sai_thrift_get_port_stats",
    sai_thrift_get_port_stats_args, sai_thrift_get_port_stats_result)

sai_thrift_clear_port_all_stats_args == Struct(<<F(1, "port_id", I64)>>)
sai_thrift_clear_port_all_stats_result == Struct(<<F(0, "success", I32)>>)
sai_thrift_clear_port_all_stats == RPC("sai_thrift_clear_port_all_stats",
    sai_thrift_clear_port_all_stats_args, sai_thrift_clear_port_all_stats_result)

sai_thrift_remove_port_args == Struct(<<F(1, "port_id", I64)>>)
sai_thrift_remove_port_result == Struct(<<F(0, "success", I32)>>)
sai_thrift_remove_port == RPC("sai_thrift_remove_port",
    sai_thrift_remove_port_args, sai_thrift_remove_port_result)

sai_thrift_create_port_args == Struct(<<F(1, "thrift_attr_list", ListOf(sai_thrift_attribute_t))>>)
sai_thrift_create_port_result == Struct(<<F(0, "success", I64)>>)
sai_thrift_create_port == RPC("sai_thrift_create_port",
    sai_thrift_create_port_args, sai_thrift_create_port_result)

sai_thrift_create_bridge_args == Struct(<<
    F(1, "thrift_attr_list", ListOf(sai_thrift_attribute_t))>>)
sai_thrift_create_bridge_result == Struct(<<F(0, "success", I64)>>)
sai_thrift_create_bridge == RPC("sai_thrift_create_bridge",
    sai_thrift_create_bridge_args, sai_thrift_create_bridge_result)

sai_thrift_remove_bridge_args == Struct(<<F(1, "bridge_id", I64)>>)
sai_thrift_remove_bridge_result == Struct(<<F(0, "success", I32)>>)
sai_thrift_remove_bridge == RPC("sai_thrift_remove_bridge",
    sai_thrift_remove_bridge_args, sai_thrift_remove_bridge_result)

sai_thrift_create_bridge_port_args == Struct(<<
    F(1, "thrift_attr_list", ListOf(sai_thrift_attribute_t))>>)
sai_thrift_create_bridge_port_result == Struct(<<F(0, "success", I64)>>)
sai_thrift_create_bridge_port == RPC("sai_thrift_create_bridge_port",
    sai_thrift_create_bridge_port_args, sai_thrift_create_bridge_port_result)

sai_thrift_remove_bridge_port_args == Struct(<<F(1, "bridge_port_id", I64)>>)
sai_thrift_remove_bridge_port_result == Struct(<<F(0, "success", I32)>>)
sai_thrift_remove_bridge_port == RPC("sai_thrift_remove_bridge_port",
    sai_thrift_remove_bridge_port_args, sai_thrift_remove_bridge_port_result)

sai_thrift_create_fdb_entry_args == Struct(<<F(1, "thrift_fdb_entry", sai_thrift_fdb_entry_t),
    F(2, "thrift_attr_list", ListOf(sai_thrift_attribute_t))>>)
sai_thrift_create_fdb_entry_result == Struct(<<F(0, "success", I32)>>)
sai_thrift_create_fdb_entry == RPC("sai_thrift_create_fdb_entry",
    sai_thrift_create_fdb_entry_args, sai_thrift_create_fdb_entry_result)

sai_thrift_delete_fdb_entry_args == Struct(<<F(1, "thrift_fdb_entry", sai_thrift_fdb_entry_t)>>)
sai_thrift_delete_fdb_entry_result == Struct(<<F(0, "success", I32)>>)
sai_thrift_delete_fdb_entry == RPC("sai_thrift_delete_fdb_entry",
    sai_thrift_delete_fdb_entry_args, sai_thrift_delete_fdb_entry_result)

sai_thrift_flush_fdb_entries_args == Struct(<<
    F(1, "thrift_attr_list", ListOf(sai_thrift_attribute_t))>>)
sai_thrift_flush_fdb_entries_result == Struct(<<F(0, "success", I32)>>)
sai_thrift_flush_fdb_entries == RPC("sai_thrift_flush_fdb_entries",
    sai_thrift_flush_fdb_entries_args, sai_thrift_flush_fdb_entries_result)

sai_thrift_create_vlan_args == Struct(<<F(1, "thrift_attr_list", ListOf(sai_thrift_attribute_t))>>)
sai_thrift_create_vlan_result == Struct(<<F(0, "success", I64)>>)
sai_thrift_create_vlan == RPC("sai_thrift_create_vlan",
    sai_thrift_create_vlan_args, sai_thrift_create_vlan_result)

sai_thrift_delete_vlan_args == Struct(<<F(1, "vlan_id", I64)>>)
sai_thrift_delete_vlan_result == Struct(<<F(0, "success", I32)>>)
sai_thrift_delete_vlan == RPC("sai_thrift_delete_vlan",
    sai_thrift_delete_vlan_args, sai_thrift_delete_vlan_result)

sai_thrift_get_vlan_stats_args == Struct(<<F(1, "vlan_id", I16), F(2, "counter_ids", ListOf(I32)),
    F(3, "number_of_counters", I32)>>)
sai_thrift_get_vlan_stats_result == Struct(<<F(0, "success", ListOf(I64))>>)
sai_thrift_get_vlan_stats == RPC("sai_thrift_get_vlan_stats",
    sai_thrift_get_vlan_stats_args, sai_thrift_get_vlan_stats_result)

sai_thrift_create_vlan_member_args == Struct(<<
    F(1, "thrift_attr_list", ListOf(sai_thrift_attribute_t))>>)
sai_thrift_create_vlan_member_result == Struct(<<F(0, "success", I64)>>)
sai_thrift_create_vlan_member == RPC("sai_thrift_create_vlan_member",
    sai_thrift_create_vlan_member_args, sai_thrift_create_vlan_member_result)

sai_thrift_remove_vlan_member_args == Struct(<<F(1, "vlan_member_id", I64)>>)
sai_thrift_remove_vlan_member_result == Struct(<<F(0, "success", I32)>>)
sai_thrift_remove_vlan_member == RPC("sai_thrift_remove_vlan_member",
    sai_thrift_remove_vlan_member_args, sai_thrift_remove_vlan_member_result)

sai_thrift_get_vlan_attribute_args == Struct(<<F(1, "vlan_id", I64)>>)
sai_thrift_get_vlan_attribute_result == Struct(<<F(0, "success", sai_thrift_attribute_list_t)>>)
sai_thrift_get_vlan_attribute == RPC("sai_thrift_get_vlan_attribute",
    sai_thrift_get_vlan_attribute_args, sai_thrift_get_vlan_attribute_result)

sai_thrift_create_virtual_router_args == Struct(<<
    F(1, "thrift_attr_list", ListOf(sai_thrift_attribute_t))>>)
sai_thrift_create_virtual_router_result == Struct(<<F(0, "success", I64)>>)
sai_thrift_create_virtual_router == RPC("sai_thrift_create_virtual_router",
    sai_thrift_create_virtual_router_args, sai_thrift_create_virtual_router_result)

sai_thrift_remove_virtual_router_args == Struct(<<F(1, "vr_id", I64)>>)
sai_thrift_remove_virtual_router_result == Struct(<<F(0, "success", I32)>>)
sai_thrift_remove_virtual_router == RPC("sai_thrift_remove_virtual_router",
    sai_thrift_remove_virtual_router_args, sai_thrift_remove_virtual_router_result)

sai_thrift_create_route_args == Struct(<<
    F(1, "thrift_unicast_route_entry", sai_thrift_unicast_route_entry_t),
    F(2, "thrift_attr_list", ListOf(sai_thrift_attribute_t))>>)
sai_thrift_create_route_result == Struct(<<F(0, "success", I32)>>)
sai_thrift_create_route == RPC("sai_thrift_create_route",
    sai_thrift_create_route_args, sai_thrift_create_route_result)

sai_thrift_remove_route_args == Struct(<<
    F(1, "thrift_unicast_route_entry", sai_thrift_unicast_route_entry_t)>>)
sai_thrift_remove_route_result == Struct(<<F(0, "success", I32)>>)
sai_thrift_remove_route == RPC("sai_thrift_remove_route",
    sai_thrift_remove_route_args, sai_thrift_remove_route_result)

sai_thrift_create_router_interface_args == Struct(<<
    F(1, "thrift_attr_list", ListOf(sai_thrift_attribute_t))>>)
sai_thrift_create_router_interface_result == Struct(<<F(0, "success", I64)>>)
sai_thrift_create_router_interface == RPC("sai_thrift_create_router_interface",
    sai_thrift_create_router_interface_args, sai_thrift_create_router_interface_result)

sai_thrift_remove_router_interface_args == Struct(<<F(1, "rif_id", I64)>>)
sai_thrift_remove_router_interface_result == Struct(<<F(0, "success", I32)>>)
sai_thrift_remove_router_interface == RPC("sai_thrift_remove_router_interface",
    sai_thrift_remove_router_interface_args, sai_thrift_remove_router_interface_result)

sai_thrift_create_next_hop_args == Struct(<<
    F(1, "thrift_attr_list", ListOf(sai_thrift_attribute_t))>>)
sai_thrift_create_next_hop_result == Struct(<<F(0, "success", I64)>>)
sai_thrift_create_next_hop == RPC("sai_thrift_create_next_hop",
    sai_thrift_create_next_hop_args, sai_thrift_create_next_hop_result)

sai_thrift_remove_next_hop_args == Struct(<<F(1, "next_hop_id", I64)>>)
sai_thrift_remove_next_hop_result == Struct(<<F(0, "success", I32)>>)
sai_thrift_remove_next_hop == RPC("sai_thrift_remove_next_hop",
    sai_thrift_remove_next_hop_args, sai_thrift_remove_next_hop_result)

sai_thrift_create_next_hop_group_args == Struct(<<
    F(1, "thrift_attr_list", ListOf(sai_thrift_attribute_t))>>)
sai_thrift_create_next_hop_group_result == Struct(<<F(0, "success", I64)>>)
sai_thrift_create_next_hop_group == RPC("sai_thrift_create_next_hop_group",
    sai_thrift_create_next_hop_group_args, sai_thrift_create_next_hop_group_result)

sai_thrift_remove_next_hop_group_args == Struct(<<F(1, "next_hop_group_id", I64)>>)
sai_thrift_remove_next_hop_group_result == Struct(<<F(0, "success", I32)>>)
sai_thrift_remove_next_hop_group == RPC("sai_thrift_remove_next_hop_group",
    sai_thrift_remove_next_hop_group_args, sai_thrift_remove_next_hop_group_result)

sai_thrift_add_next_hop_to_group_args == Struct(<<F(1, "next_hop_group_id", I64),
    F(2, "thrift_nexthops", ListOf(I64))>>)
sai_thrift_add_next_hop_to_group_result == Struct(<<F(0, "success", I32)>>)
sai_thrift_add_next_hop_to_group == RPC("sai_thrift_add_next_hop_to_group",
    sai_thrift_add_next_hop_to_group_args, sai_thrift_add_next_hop_to_group_result)

sai_thrift_remove_next_hop_from_group_args == Struct(<<F(1, "next_hop_group_id", I64),
    F(2, "thrift_nexthops", ListOf(I64))>>)
sai_thrift_remove_next_hop_from_group_result == Struct(<<F(0, "success", I32)>>)
sai_thrift_remove_next_hop_from_group == RPC("sai_thrift_remove_next_hop_from_group",
    sai_thrift_remove_next_hop_from_group_args, sai_thrift_remove_next_hop_from_group_result)

sai_thrift_create_lag_args == Struct(<<F(1, "thrift_attr_list", ListOf(sai_thrift_attribute_t))>>)
sai_thrift_create_lag_result == Struct(<<F(0, "success", I64)>>)
sai_thrift_create_lag == RPC("sai_thrift_create_lag",
    sai_thrift_create_lag_args, sai_thrift_create_lag_result)

sai_thrift_remove_lag_args == Struct(<<F(1, "lag_id", I64)>>)
sai_thrift_remove_lag_result == Struct(<<F(0, "success", I32)>>)
sai_thrift_remove_lag == RPC("sai_thrift_remove_lag",
    sai_thrift_remove_lag_args, sai_thrift_remove_lag_result)

sai_thrift_create_lag_member_args == Struct(<<
    F(1, "thrift_attr_list", ListOf(sai_thrift_attribute_t))>>)
sai_thrift_create_lag_member_result == Struct(<<F(0, "success", I64)>>)
sai_thrift_create_lag_member == RPC("sai_thrift_create_lag_member",
    sai_thrift_create_lag_member_args, sai_thrift_create_lag_member_result)

sai_thrift_remove_lag_member_args == Struct(<<F(1, "lag_member_id", I64)>>)
sai_thrift_remove_lag_member_result == Struct(<<F(0, "success", I32)>>)
sai_thrift_remove_lag_member == RPC("sai_thrift_remove_lag_member",
    sai_thrift_remove_lag_member_args, sai_thrift_remove_lag_member_result)

sai_thrift_create_stp_entry_args == Struct(<<
    F(1, "thrift_attr_list", ListOf(sai_thrift_attribute_t))>>)
sai_thrift_create_stp_entry_result == Struct(<<F(0, "success", I64)>>)
sai_thrift_create_stp_entry == RPC("sai_thrift_create_stp_entry",
    sai_thrift_create_stp_entry_args, sai_thrift_create_stp_entry_result)

sai_thrift_remove_stp_entry_args == Struct(<<F(1, "stp_id", I64)>>)
sai_thrift_remove_stp_entry_result == Struct(<<F(0, "success", I32)>>)
sai_thrift_remove_stp_entry == RPC("sai_thrift_remove_stp_entry",
    sai_thrift_remove_stp_entry_args, sai_thrift_remove_stp_entry_result)

sai_thrift_set_stp_port_state_args == Struct(<<F(1, "stp_id", I64), F(2, "port_id", I64),
    F(3, "stp_port_state", BYTE)>>)
sai_thrift_set_stp_port_state_result == Struct(<<F(0, "success", I32)>>)
sai_thrift_set_stp_port_state == RPC("sai_thrift_set_stp_port_state",
    sai_thrift_set_stp_port_state_args, sai_thrift_set_stp_port_state_result)

sai_thrift_get_stp_port_state_args == Struct(<<F(1, "stp_id", I64), F(2, "port_id", I64)>>)
sai_thrift_get_stp_port_state_result == Struct(<<F(0, "success", BYTE)>>)
sai_thrift_get_stp_port_state == RPC("sai_thrift_get_stp_port_state",
    sai_thrift_get_stp_port_state_args, sai_thrift_get_stp_port_state_result)

sai_thrift_create_neighbor_entry_args == Struct(<<
    F(1, "thrift_neighbor_entry", sai_thrift_neighbor_entry_t),
    F(2, "thrift_attr_list", ListOf(sai_thrift_attribute_t))>>)
sai_thrift_create_neighbor_entry_result == Struct(<<F(0, "success", I32)>>)
sai_thrift_create_neighbor_entry == RPC("sai_thrift_create_neighbor_entry",
    sai_thrift_create_neighbor_entry_args, sai_thrift_create_neighbor_entry_result)

sai_thrift_remove_neighbor_entry_args == Struct(<<
    F(1, "thrift_neighbor_entry", sai_thrift_neighbor_entry_t)>>)
sai_thrift_remove_neighbor_entry_result == Struct(<<F(0, "success", I32)>>)
sai_thrift_remove_neighbor_entry == RPC("sai_thrift_remove_neighbor_entry",
    sai_thrift_remove_neighbor_entry_args, sai_thrift_remove_neighbor_entry_result)

ForwardingMethods == {sai_thrift_set_port_attribute, sai_thrift_get_port_attribute,
    sai_thrift_get_port_stats, sai_thrift_clear_port_all_stats, sai_thrift_remove_port,
    sai_thrift_create_port, sai_thrift_create_bridge, sai_thrift_remove_bridge,
    sai_thrift_create_bridge_port, sai_thrift_remove_bridge_port, sai_thrift_create_fdb_entry,
    sai_thrift_delete_fdb_entry, sai_thrift_flush_fdb_entries, sai_thrift_create_vlan,
    sai_thrift_delete_vlan, sai_thrift_get_vlan_stats, sai_thrift_create_vlan_member,
    sai_thrift_remove_vlan_member, sai_thrift_get_vlan_attribute, sai_thrift_create_virtual_router,
    sai_thrift_remove_virtual_router, sai_thrift_create_route, sai_thrift_remove_route,
    sai_thrift_create_router_interface, sai_thrift_remove_router_interface,
    sai_thrift_create_next_hop, sai_thrift_remove_next_hop, sai_thrift_create_next_hop_group,
    sai_thrift_remove_next_hop_group, sai_thrift_add_next_hop_to_group,
    sai_thrift_remove_next_hop_from_group, sai_thrift_create_lag, sai_thrift_remove_lag,
    sai_thrift_create_lag_member, sai_thrift_remove_lag_member, sai_thrift_create_stp_entry,
    sai_thrift_remove_stp_entry, sai_thrift_set_stp_port_state, sai_thrift_get_stp_port_state,
    sai_thrift_create_neighbor_entry, sai_thrift_remove_neighbor_entry}

=============================================================================
