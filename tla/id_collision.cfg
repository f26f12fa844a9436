SPECIFICATION Spec
CONSTANTS
    Callers = {c1, c2}
    Ops = {"GetBlock"}
    ServerCaps <- IdServer
    DrawIds <- CollidingIds
    MaxCalls = 2
    QueueCapacity = 1
    TimeoutTicks = 1
    MaxPush = 0
    MaxShutdowns = 0
INVARIANT OwnResponse
