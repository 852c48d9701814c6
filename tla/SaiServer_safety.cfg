CONSTANTS
    HwPorts = {0, 1}
    Ids = {0, 1}
    MemberIds = {0}
    BridgeIds = {0}
    Vids = {2}
    PortVids = {0}
    BindModes = {"SUB_PORT"}
    Tagging = {"UNTAGGED"}
    Macs = {m1}
SPECIFICATION Spec
CHECK_DEADLOCK FALSE
INVARIANTS TypeOK VlanFilterExact BridgePortEgress LaneAttributed
