SPECIFICATION FairSpec
CONSTANTS
    Callers = {c1, c2}
    Ops = {"GetBlock"}
    ServerCaps <- AnyServer
    DrawIds <- FreshIds
    MaxCalls = 2
    QueueCapacity = 1
    TimeoutTicks = 1
    MaxPush = 1
    MaxShutdowns = 0
PROPERTY CallCompletes PendingsAreReaped
