SPECIFICATION Spec
CONSTANTS
    Events = {"BlockAdded", "UtxosChanged", "VirtualSelectedParentChainChanged"}
    TxIds = {t1}
    ServerCaps <- FullOnly
    MaxListeners = 2
    MaxOps = 6
    MaxNotifications = 2
    ChannelCapacity = 1
INVARIANT TypeOK
PROPERTY FilteredDelivery
CHECK_DEADLOCK FALSE
