--------------------------- MODULE SaiThriftTypes ---------------------------
(***************************************************************************)
(* The structs that the arguments and results of switch_sai_rpc are made   *)
(* of, as the generated ttypes.py describes them: for every class its      *)
(* thrift_spec (ids, names and types of the attributes).                   *)
(***************************************************************************)
EXTENDS ThriftCodec

sai_thrift_fdb_entry_t == Struct(<<F(1, "mac_address", STR), F(2, "vlan_id", I16),
    F(3, "bridge_type", I32), F(4, "bridge_id", I64)>>)

sai_thrift_vlan_port_t == Struct(<<F(1, "port_id", I64), F(2, "tagging_mode", BYTE)>>)

sai_thrift_ip_t == Struct(<<F(1, "ip4", STR), F(2, "ip6", STR)>>)

sai_thrift_ip_address_t == Struct(<<F(1, "addr_family", BYTE), F(2, "addr", sai_thrift_ip_t)>>)

sai_thrift_ip_prefix_t == Struct(<<F(1, "addr_family", BYTE), F(2, "addr", sai_thrift_ip_t),
    F(3, "mask", sai_thrift_ip_t)>>)

sai_thrift_object_list_t == Struct(<<F(1, "count", I32), F(2, "object_id_list", ListOf(I64))>>)

sai_thrift_vlan_list_t == Struct(<<F(1, "vlan_count", I32), F(2, "vlan_list", ListOf(I16))>>)

sai_thrift_acl_mask_t == Struct(<<F(1, "u8", BYTE), F(2, "s8", BYTE), F(3, "u16", I16),
    F(4, "s16", I16), F(5, "u32", I32), F(6, "s32", I32), F(7, "mac", STR), F(8, "ip4", STR),
    F(9, "ip6", STR)>>)

sai_thrift_acl_data_t == Struct(<<F(1, "u8", BYTE), F(2, "s8", BYTE), F(3, "u16", I16),
    F(4, "s16", I16), F(5, "u32", I32), F(6, "s32", I32), F(7, "mac", STR), F(8, "ip4", STR),
    F(9, "ip6", STR), F(10, "oid", I64), F(11, "objlist", sai_thrift_object_list_t)>>)

sai_thrift_acl_field_data_t == Struct(<<F(1, "enable", BOOL), F(2, "mask", sai_thrift_acl_mask_t),
    F(3, "data", sai_thrift_acl_data_t)>>)

sai_thrift_acl_parameter_t == Struct(<<F(1, "u8", BYTE), F(2, "s8", BYTE), F(3, "u16", I16),
    F(4, "s16", I16), F(5, "u32", I32), F(6, "s32", I32), F(7, "mac", STR), F(8, "ip4", STR),
    F(9, "ip6", STR), F(10, "oid", I64)>>)

sai_thrift_acl_action_data_t == Struct(<<F(1, "enable", BOOL),
    F(2, "parameter", sai_thrift_acl_parameter_t)>>)

sai_thrift_u32_list_t == Struct(<<F(1, "count", I32), F(2, "u32list", ListOf(I32))>>)

sai_thrift_qos_map_params_t == Struct(<<F(1, "tc", BYTE), F(2, "dscp", BYTE), F(3, "dot1p", BYTE),
    F(4, "prio", BYTE), F(5, "pg", BYTE), F(6, "queue_index", BYTE), F(7, "color", BYTE)>>)

sai_thrift_qos_map_t == Struct(<<F(1, "key", sai_thrift_qos_map_params_t),
    F(2, "value", sai_thrift_qos_map_params_t)>>)

sai_thrift_qos_map_list_t == Struct(<<F(1, "count", I32),
    F(2, "map_list", ListOf(sai_thrift_qos_map_t))>>)

sai_thrift_attribute_value_t == Struct(<<F(1, "booldata", BOOL), F(2, "chardata", STR),
    F(3, "u8", BYTE), F(4, "s8", BYTE), F(5, "u16", I16), F(6, "s16", I16), F(7, "u32", I32),
    F(8, "s32", I32), F(9, "u64", I64), F(10, "s64", I64), F(11, "mac", STR), F(12, "oid", I64),
    F(13, "ip4", STR), F(14, "ip6", STR), F(15, "ipaddr", sai_thrift_ip_address_t),
    F(16, "objlist", sai_thrift_object_list_t), F(17, "vlanlist", sai_thrift_vlan_list_t),
    F(18, "aclfield", sai_thrift_acl_field_data_t),
    F(19, "aclaction", sai_thrift_acl_action_data_t), F(20, "u32list", sai_thrift_u32_list_t),
    F(21, "qosmap", sai_thrift_qos_map_list_t)>>)

sai_thrift_attribute_t == Struct(<<F(1, "id", I32), F(2, "value", sai_thrift_attribute_value_t)>>)

sai_thrift_unicast_route_entry_t == Struct(<<F(1, "vr_id", I64),
    F(2, "destination", sai_thrift_ip_prefix_t)>>)

sai_thrift_neighbor_entry_t == Struct(<<F(1, "rif_id", I64),
    F(2, "ip_address", sai_thrift_ip_address_t)>>)

sai_thrift_attribute_list_t == Struct(<<F(1, "attr_list", ListOf(sai_thrift_attribute_t)),
    F(2, "attr_count", I32)>>)

=============================================================================
