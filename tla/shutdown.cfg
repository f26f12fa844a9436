SPECIFICATION FairSpec
CONSTANTS
    Callers = {c1, c2}
    Ops = {"GetBlock"}
    ServerCaps <- AnyServer
    DrawIds <- FreshIds
    MaxCalls = 1
    QueueCapacity = 1
    TimeoutTicks = 1
    MaxPush = 1
    MaxShutdowns = 2
INVARIANT ShutdownQuiesces
PROPERTY ShutdownTerminates
