SPECIFICATION Spec
CONSTANTS
    Callers = {c1, c2}
    Ops = {"GetBlock", "GetInfo"}
    ServerCaps <- AnyServer
    DrawIds <- FreshIds
    MaxCalls = 3
    QueueCapacity = 1
    TimeoutTicks = 2
    MaxPush = 0
    MaxShutdowns = 0
SYMMETRY CallerSymmetry
INVARIANT TypeOK
INVARIANT OwnResponse
INVARIANT NoSpuriousDrop
PROPERTY CompletionIsFinal
PROPERTY ImplementsRpcCall
