SPECIFICATION ClientFairSpec
CONSTANTS
    Callers = {sub}
    Subscriber = sub
    Ops = {"GetBlock"}
    ServerCaps <- AnyServer
    DrawIds <- FreshIds
    MaxCalls = 1
    MaxOtherCalls = 0
    QueueCapacity = 1
    TimeoutTicks = 1
    MaxPush = 0
    MaxShutdowns = 1
    Events = {"BlockAdded"}
    TxIds = {}
    MaxListeners = 1
    MaxOps = 3
    ChannelCapacity = 1
PROPERTY CallsReturn
CHECK_DEADLOCK FALSE
