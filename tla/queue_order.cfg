SPECIFICATION Spec
CONSTANTS
    Callers = {c1, c2}
    Ops = {"GetBlock"}
    ServerCaps <- QueueServer
    DrawIds <- FreshIds
    MaxCalls = 2
    QueueCapacity = 1
    TimeoutTicks = 1
    MaxPush = 0
    MaxShutdowns = 0
SYMMETRY CallerSymmetry
INVARIANT QueueAnswersInEnqueueOrder
