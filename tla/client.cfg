SPECIFICATION ClientFairSpec
CONSTANTS
    Callers = {sub}
    Subscriber = sub
    Ops = {"GetBlock"}
    ServerCaps <- AnyServer
    DrawIds <- FreshIds
    MaxCalls = 3
    MaxOtherCalls = 0
    QueueCapacity = 1
    TimeoutTicks = 1
    MaxPush = 2
    MaxShutdowns = 0
    Events = {"BlockAdded"}
    TxIds = {}
    MaxListeners = 1
    MaxOps = 5
    ChannelCapacity = 1
PROPERTY ImplementsSubscriptions SubscriberGetsThrough
CHECK_DEADLOCK FALSE
