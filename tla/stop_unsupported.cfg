SPECIFICATION Spec
CONSTANTS
    Events = {"BlockAdded"}
    TxIds = {t1}
    ServerCaps <- PlainOnly
    MaxListeners = 1
    MaxOps = 4
    MaxNotifications = 1
    ChannelCapacity = 1
INVARIANT StopNotifyStopsLocally
CHECK_DEADLOCK FALSE
