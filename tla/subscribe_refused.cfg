SPECIFICATION Spec
CONSTANTS
    Events = {"BlockAdded"}
    TxIds = {t1}
    ServerCaps <- FullOnly
    MaxListeners = 1
    MaxOps = 4
    MaxNotifications = 1
    ChannelCapacity = 1
INVARIANT SubscribeAcknowledged
CHECK_DEADLOCK FALSE
