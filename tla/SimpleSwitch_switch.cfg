\* Every feature, queues of one packet, the depth of the egress queue changed to 0 and back.
CONSTANTS
    MaxPort = 1
    NbEgressThreads = 1
    InputCapacity = 1
    OutputCapacity = 1
    MirrorPorts = {0}
    QueueDepths = {0, 1}
    McastGroups <- TwoReplicas
    Resubmits = TRUE
    Recirculates = TRUE
    MaxPackets = 3
    MaxPasses = 1
SPECIFICATION FairSpec
INVARIANTS TypeOK NoPacketLostOrDuplicated
PROPERTY PacketsLeave
\* the packets are bounded: the switch ends idle
CHECK_DEADLOCK FALSE
