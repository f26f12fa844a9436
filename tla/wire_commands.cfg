SPECIFICATION Spec
CONSTANTS
    Events = {"BlockAdded", "VirtualSelectedParentChainChanged"}
    TxIds = {t1}
    ServerCaps <- AnyServer
    MaxListeners = 2
    MaxOps = 8
    MaxNotifications = 0
    ChannelCapacity = 1
INVARIANT WireFollowsLocal
CHECK_DEADLOCK FALSE
