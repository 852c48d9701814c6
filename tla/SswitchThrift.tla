--------------------------- MODULE SswitchThrift ----------------------------
(***************************************************************************)
(* The service SimpleSwitch (mirroring, egress queue depths and rates,     *)
(* clocks), as the generated Python describes it; see SaiThrift.           *)
(***************************************************************************)
EXTENDS ThriftCodec

mirroring_mapping_add_args == Struct(<<F(1, "mirror_id", I32), F(2, "egress_port", I32)>>)
mirroring_mapping_add_result == Struct(<<F(0, "success", I32)>>)
mirroring_mapping_add == RPC("mirroring_mapping_add",
    mirroring_mapping_add_args, mirroring_mapping_add_result)

mirroring_mapping_delete_args == Struct(<<F(1, "mirror_id", I32)>>)
mirroring_mapping_delete_result == Struct(<<F(0, "success", I32)>>)
mirroring_mapping_delete == RPC("mirroring_mapping_delete",
    mirroring_mapping_delete_args, mirroring_mapping_delete_result)

mirroring_mapping_get_egress_port_args == Struct(<<F(1, "mirror_id", I32)>>)
mirroring_mapping_get_egress_port_result == Struct(<<F(0, "success", I32)>>)
mirroring_mapping_get_egress_port == RPC("mirroring_mapping_get_egress_port",
    mirroring_mapping_get_egress_port_args, mirroring_mapping_get_egress_port_result)

set_egress_queue_depth_args == Struct(<<F(1, "port_num", I32), F(2, "depth_pkts", I32)>>)
set_egress_queue_depth_result == Struct(<<F(0, "success", I32)>>)
set_egress_queue_depth == RPC("set_egress_queue_depth",
    set_egress_queue_depth_args, set_egress_queue_depth_result)

set_all_egress_queue_depths_args == Struct(<<F(1, "depth_pkts", I32)>>)
set_all_egress_queue_depths_result == Struct(<<F(0, "success", I32)>>)
set_all_egress_queue_depths == RPC("set_all_egress_queue_depths",
    set_all_egress_queue_depths_args, set_all_egress_queue_depths_result)

set_egress_queue_rate_args == Struct(<<F(1, "port_num", I32), F(2, "rate_pps", I64)>>)
set_egress_queue_rate_result == Struct(<<F(0, "success", I32)>>)
set_egress_queue_rate == RPC("set_egress_queue_rate",
    set_egress_queue_rate_args, set_egress_queue_rate_result)

set_all_egress_queue_rates_args == Struct(<<F(1, "rate_pps", I64)>>)
set_all_egress_queue_rates_result == Struct(<<F(0, "success", I32)>>)
set_all_egress_queue_rates == RPC("set_all_egress_queue_rates",
    set_all_egress_queue_rates_args, set_all_egress_queue_rates_result)

get_time_elapsed_us_args == Struct(<<>>)
get_time_elapsed_us_result == Struct(<<F(0, "success", I64)>>)
get_time_elapsed_us == RPC("get_time_elapsed_us",
    get_time_elapsed_us_args, get_time_elapsed_us_result)

get_time_since_epoch_us_args == Struct(<<>>)
get_time_since_epoch_us_result == Struct(<<F(0, "success", I64)>>)
get_time_since_epoch_us == RPC("get_time_since_epoch_us",
    get_time_since_epoch_us_args, get_time_since_epoch_us_result)

SswitchMethods == {mirroring_mapping_add, mirroring_mapping_delete,
    mirroring_mapping_get_egress_port, set_egress_queue_depth, set_all_egress_queue_depths,
    set_egress_queue_rate, set_all_egress_queue_rates, get_time_elapsed_us, get_time_since_epoch_us}

=============================================================================
