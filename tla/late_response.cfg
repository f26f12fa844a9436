SPECIFICATION Spec
CONSTANTS
    Callers = {c1}
    Ops = {"GetBlock"}
    ServerCaps <- QueueServer
    DrawIds <- FreshIds
    MaxCalls = 2
    QueueCapacity = 1
    TimeoutTicks = 1
    MaxPush = 0
    MaxShutdowns = 0
INVARIANT LateResponseDropped
