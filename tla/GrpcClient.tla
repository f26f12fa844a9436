----------------------------- MODULE GrpcClient -----------------------------
(***************************************************************************)
(* The gRPC client of rpc/grpc/src/client/mod.rs: struct Inner with its    *)
(* callers (Inner::call), its two background tasks (the response receiver  *)
(* and the request timeout monitor), Inner::connect and Inner::shutdown,   *)
(* together with the environment they run against: the transport that      *)
(* drains the request channel, the server behind it and the passing of     *)
(* time.                                                                   *)
(*                                                                         *)
(* Data is abstracted to what correlation depends on.  A request is        *)
(* [op, id, req]: the operation, the id call() draws for it and the serial *)
(* number of the call (a history value: it names the call, its one-shot    *)
(* receiver and the response the server produces for it).                  *)
(***************************************************************************)
EXTENDS Resolver, Integers

CONSTANTS
    Callers,        \* the tasks that invoke Inner::call
    Ops,            \* the operations (queue keys) a call may carry
    ServerCaps,     \* the capability flags the server may advertise
    DrawIds(_),     \* the ids rand::random may give the call after n others
    MaxCalls,       \* bound on the calls made in a behaviour
    QueueCapacity,  \* capacity of the request channel (16 in connect)
    TimeoutTicks,   \* REQUEST_TIMEOUT_DURATION, in ticks of the model's clock
    MaxPush,        \* bound on the messages the server sends unasked
    MaxShutdowns    \* bound on the invocations of Inner::shutdown

\* The operations the facade routes to Inner::call, one route! each.
RpcApiOps ==
    {"Ping", "GetProcessMetrics", "SubmitBlock", "GetBlockTemplate", "GetBlock",
     "GetInfo", "GetCurrentNetwork", "GetPeerAddresses", "GetSelectedTipHash",
     "GetMempoolEntry", "GetMempoolEntries", "GetConnectedPeerInfo", "AddPeer",
     "SubmitTransaction", "GetSubnetwork",
     "GetVirtualSelectedParentChainFromBlock", "GetBlocks", "GetBlockCount",
     "GetBlockDagInfo", "ResolveFinalityConflict", "Shutdown", "GetHeaders",
     "GetUtxosByAddresses", "GetBalanceByAddress", "GetBalancesByAddresses",
     "GetVirtualSelectedParentBlueScore", "Ban", "Unban",
     "EstimateNetworkHashesPerSecond", "GetMempoolEntriesByAddresses",
     "GetCoinSupply"}

ASSUME
    /\ Callers # {} /\ Ops # {} /\ Ops \subseteq RpcApiOps
    /\ ServerCaps \subseteq [has_notify_command : BOOLEAN, has_message_id : BOOLEAN]
    /\ ServerCaps # {}
    /\ \A n \in 0 .. MaxCalls - 1 : DrawIds(n) \subseteq 1 .. MaxCalls
    /\ MaxCalls \in Nat /\ MaxPush \in Nat /\ MaxShutdowns \in Nat
    /\ QueueCapacity \in Nat \ {0}
    /\ TimeoutTicks \in Nat \ {0}

VARIABLES
    server,             \* the flags of the server this session talks to
    session,            \* where Inner::connect stands
    handle_stop_notify, \* Inner.handle_stop_notify
    handle_message_id,  \* Inner.handle_message_id
    request_sender,     \* the requests in the mpsc channel to the transport
    channel_open,       \* the transport still holds the channel's receiver
    wire,               \* the requests the server has and has not answered
    stream,             \* Streaming<KaspadResponse>: the messages not yet read
    notify_sender,      \* the notifications forwarded to the notifier
    notify_open,        \* the notifier still holds that channel's receiver
    resolver,           \* the pendings of Inner.resolver
    is_running,         \* timeout_is_running and receiver_is_running
    trigger,            \* timeout_shutdown and receiver_shutdown
    taskPc,             \* where each background task stands
    callPc,             \* where each caller stands in Inner::call
    cur,                \* the request a caller's call is about
    oneshot,            \* what the resolver has put in a caller's receiver
    shutPc,             \* where Inner::shutdown stands
    issued,             \* history: the ids call() has drawn so far
    pushed,             \* history: the unasked messages the server has sent
    shutdowns,          \* history: the invocations of shutdown so far
    reaped,             \* history: the calls whose pending timed out
    dropped             \* history: the calls whose response found no pending

connVars == <<server, session, handle_stop_notify, handle_message_id>>
netVars  == <<channel_open, wire, stream, pushed>>
taskVars == <<is_running, trigger, taskPc>>
callVars == <<callPc, cur, issued>>
resVars  == <<resolver, oneshot, reaped, dropped>>
shutVars == <<shutPc, shutdowns>>
notifyVars == <<notify_sender, notify_open>>
vars     == <<connVars, request_sender, netVars, taskVars, callVars, resVars,
              shutVars, notifyVars>>

\* What the steps of a call, of the tasks and of shutdown, and of the
\* environment leave alone, whichever step it is.
CallFrame == UNCHANGED <<connVars, netVars, taskVars, shutVars, notifyVars>>
TaskFrame == UNCHANGED <<connVars, request_sender, netVars, callVars, resVars,
                         notifyVars>>
EnvFrame  == UNCHANGED <<connVars, taskVars, callVars, shutVars, notifyVars>>

-----------------------------------------------------------------------------
(* Values *)

Tasks == {"timeout", "receiver"}

Serials == 0 .. MaxCalls

\* The probe connect sends before the stream exists: id 0, never registered.
GetInfoProbe == [op |-> "GetInfo", id |-> 0, req |-> 0]
NoRequest    == [op |-> "none", id |-> 0, req |-> 0]

Requests == [op : Ops, id : Serials, req : 1 .. MaxCalls]

\* What the server sends without being asked, as handle_response tells it apart:
\* a notification, one whose conversion fails, a response without payload, and
\* an error status of the stream.
PushKinds == {"Notification", "BadNotification", "Empty", "Error"}
EndOfStream == [kind |-> "End"]

Responses ==
    [kind : {"Response"}, op : Ops \cup {GetInfoProbe.op}, id : Serials,
     req : Serials, ok : BOOLEAN]

Messages == Responses \cup [kind : PushKinds] \cup {EndOfStream}

\* The content of a caller's one-shot receiver.
Empty   == [tag |-> "Empty"]
Timeout == [tag |-> "Timeout"]
Closed  == [tag |-> "Closed"]   \* the sender is gone: await gives RecvError
Ok(response) == [tag |-> "Ok", op |-> response.op, req |-> response.req]

Outcomes == {Empty, Timeout, Closed} \cup [tag : {"Ok"}, op : Ops \cup {GetInfoProbe.op}, req : Serials]

Pendings == [op : Ops, id : Serials, req : 1 .. MaxCalls, age : 0 .. TimeoutTicks]

StopPc  == [timeout |-> "stop_timeout",  receiver |-> "stop_receiver"]
AwaitPc == [timeout |-> "await_timeout", receiver |-> "await_receiver"]
AfterPc == [timeout |-> "stop_receiver", receiver |-> "returned"]

-----------------------------------------------------------------------------
(* Inner::new and Inner::connect *)

\* Inner::new: the resolver variant follows the flag, once and for the session.
VariantAlwaysQueue == ByQueue

Variant == IF handle_message_id THEN ById ELSE ByQueue

\* Nobody has called, pushed, timed out or shut down yet.
Untouched ==
    /\ channel_open = TRUE /\ wire = <<>> /\ stream = <<>> /\ pushed = 0
    /\ notify_sender = <<>> /\ notify_open = TRUE
    /\ resolver = <<>> /\ reaped = {} /\ dropped = {}
    /\ trigger = [t \in Tasks |-> [request |-> FALSE, response |-> FALSE]]
    /\ callPc = [c \in Callers |-> "idle"]
    /\ cur = [c \in Callers |-> NoRequest]
    /\ oneshot = [c \in Callers |-> Empty]
    /\ issued = 0
    /\ shutPc = "none" /\ shutdowns = 0

\* Inner::connect has opened the stream and queued its probe.
Init ==
    /\ server \in ServerCaps
    /\ session = "Connecting"
    /\ handle_stop_notify = FALSE /\ handle_message_id = FALSE
    /\ request_sender = <<GetInfoProbe>>
    /\ is_running = [t \in Tasks |-> FALSE]
    /\ taskPc = [t \in Tasks |-> "unborn"]
    /\ Untouched

\* The first message of the stream is read by connect itself.  A GetInfo
\* response that converts gives the flags; any other message leaves both false.
\* Then Inner is built and both tasks are spawned, their flags set beforehand.
ConnectReads ==
    /\ session = "Connecting"
    /\ stream # <<>>
    /\ Head(stream).kind \notin {"End", "Error"}
    /\ LET msg  == Head(stream)
           good == msg.kind = "Response" /\ msg.op = GetInfoProbe.op /\ msg.ok
       IN  /\ handle_stop_notify' = (good /\ server.has_notify_command)
           /\ handle_message_id' = (good /\ server.has_message_id)
    /\ stream' = Tail(stream)
    /\ session' = "Ready"
    /\ is_running' = [t \in Tasks |-> TRUE]
    /\ taskPc' = [t \in Tasks |-> "loop"]
    /\ UNCHANGED <<server, request_sender, channel_open, wire, pushed, trigger,
                   callVars, resVars, shutVars, notifyVars>>

\* The stream ends or fails before its first message: connect returns the error,
\* and no Inner ever exists.
ConnectFails ==
    /\ session = "Connecting"
    /\ stream # <<>>
    /\ Head(stream).kind \in {"End", "Error"}
    /\ session' = "Failed"
    /\ UNCHANGED <<server, handle_stop_notify, handle_message_id, request_sender,
                   netVars, taskVars, callVars, resVars, shutVars, notifyVars>>

-----------------------------------------------------------------------------
(* Inner::call *)

\* The receivers of the callers still in the call whose pending is one of reqs
\* get the value; a pending whose caller has left completes into nothing.
Complete(reqs, value) ==
    oneshot' = [c \in Callers |->
                  IF callPc[c] # "idle" /\ cur[c].req \in reqs
                  THEN value ELSE oneshot[c]]

CanCall(c) ==
    /\ session = "Ready"
    /\ callPc[c] = "idle"
    /\ issued < MaxCalls

\* A request without payload: the id is drawn and the call returns
\* MissingRequestPayload at once.
CallMissingPayload(c) ==
    /\ CanCall(c)
    /\ issued' = issued + 1
    /\ CallFrame /\ UNCHANGED <<request_sender, callPc, cur, resVars>>

\* The id is drawn and written into the request, whatever ids are in use, and
\* the request is registered with the resolver before it is sent.  A caller
\* whose registration the resolver dropped holds a receiver without a sender.
CallRegister(c, op, id) ==
    /\ CanCall(c)
    /\ LET request == [op |-> op, id |-> id, req |-> issued + 1]
       IN  /\ resolver' = RegisterRequest(Variant, resolver, request)
           /\ cur' = [cur EXCEPT ![c] = request]
           /\ oneshot' = [oneshot EXCEPT ![c] =
                  IF Collides(Variant, resolver, request) THEN Closed ELSE Empty]
    /\ issued' = issued + 1
    /\ callPc' = [callPc EXCEPT ![c] = "registered"]
    /\ CallFrame /\ UNCHANGED <<request_sender, reaped, dropped>>

\* The request goes into the channel and the caller on to its receiver.
Enqueue(c, request) ==
    /\ callPc[c] = "registered"
    /\ channel_open
    /\ request_sender' = Append(request_sender, request)
    /\ callPc' = [callPc EXCEPT ![c] = "awaiting"]
    /\ CallFrame /\ UNCHANGED <<cur, issued, resVars>>

CallSendUnbounded(c) == Enqueue(c, cur[c])

CallSendWithoutId(c) ==
    Len(request_sender) < QueueCapacity /\ Enqueue(c, [cur[c] EXCEPT !.id = 0])

\* request_sender.send(request).await: the caller is admitted when the channel
\* has room, and waits while it is full.
CallSend(c) == Len(request_sender) < QueueCapacity /\ Enqueue(c, cur[c])

\* The call returns and drops its receiver; the resolver is not told.
Returns(c) ==
    /\ callPc' = [callPc EXCEPT ![c] = "idle"]
    /\ cur' = [cur EXCEPT ![c] = NoRequest]
    /\ oneshot' = [oneshot EXCEPT ![c] = Empty]
    /\ CallFrame /\ UNCHANGED <<request_sender, issued, resolver, reaped, dropped>>

\* The channel is closed: send fails and the call returns the error.  The
\* pending it registered stays with the resolver.
CallSendFails(c) == callPc[c] = "registered" /\ ~channel_open /\ Returns(c)

CallReturnEarly(c) == callPc[c] = "awaiting" /\ Returns(c)

\* receiver.await: the call returns what the resolver completed it with.
CallReturn(c) == callPc[c] = "awaiting" /\ oneshot[c] # Empty /\ Returns(c)

Call(c) ==
    \/ CallMissingPayload(c)
    \/ \E op \in Ops, id \in DrawIds(issued) : CallRegister(c, op, id)
    \/ CallSend(c)
    \/ CallSendFails(c)
    \/ CallReturn(c)

-----------------------------------------------------------------------------
(* The steps both background tasks share: leaving the loop and signing off *)

\* A task goes from one point of its body to the next.
TaskMoves(t, from, to) ==
    /\ taskPc[t] = from
    /\ taskPc' = [taskPc EXCEPT ![t] = to]
    /\ TaskFrame /\ UNCHANGED shutVars

\* select!: the shutdown request has been triggered, the loop breaks.
TaskSeesShutdown(t) ==
    /\ trigger[t].request
    /\ TaskMoves(t, "loop", "exited")
    /\ UNCHANGED <<is_running, trigger>>

\* After the loop the task first clears its flag ...
TaskClearFlag(t) ==
    /\ TaskMoves(t, "exited", "cleared")
    /\ is_running' = [is_running EXCEPT ![t] = FALSE]
    /\ UNCHANGED trigger

TaskAckSkipped(t) == TaskMoves(t, "cleared", "done") /\ UNCHANGED <<is_running, trigger>>

\* ... and then triggers the response half of its duplex trigger.
TaskAck(t) ==
    /\ TaskMoves(t, "cleared", "done")
    /\ trigger' = [trigger EXCEPT ![t].response = TRUE]
    /\ UNCHANGED is_running

TaskLeaves(t) == TaskSeesShutdown(t) \/ TaskClearFlag(t) \/ TaskAck(t)

-----------------------------------------------------------------------------
(* spawn_request_timeout_monitor *)

\* The delay has elapsed: the callers of the pendings older than the timeout get
\* a Timeout, and the resolver keeps the pendings in `left`.
Reap(left) ==
    /\ taskPc["timeout"] = "loop"
    /\ resolver' = left
    /\ Complete(ExpiredReqs(resolver, TimeoutTicks), Timeout)
    /\ reaped' = reaped \cup ExpiredReqs(resolver, TimeoutTicks)
    /\ UNCHANGED <<connVars, request_sender, netVars, taskVars, callVars, dropped,
                   shutVars, notifyVars>>

TimeoutFiresKeepsPendings == Reap(resolver)

TimeoutFiresIdle == taskPc["timeout"] = "loop" /\ UNCHANGED vars

\* remove_expired_requests: every pending older than the timeout is removed.
TimeoutFires == Reap(Unexpired(resolver, TimeoutTicks))

TimeoutMonitor == TimeoutFires \/ TaskLeaves("timeout")

-----------------------------------------------------------------------------
(* spawn_response_receiver_task and handle_response *)

\* A response with a payload goes to the resolver: the oldest pending it matches
\* is removed and completed; a response that matches none is dropped.
ResolveResponse(response) ==
    LET i == MatchIndex(Variant, resolver, response)
    IN  /\ resolver' = WithoutMatch(Variant, resolver, response)
        /\ \/ /\ i = 0
              /\ dropped' = dropped \cup {response.req}
              /\ UNCHANGED oneshot
           \/ /\ i > 0
              /\ Complete({resolver[i].req}, Ok(response))
              /\ UNCHANGED dropped
        /\ UNCHANGED <<reaped, notifyVars>>

ForwardNotificationBounded(msg) ==
    /\ notify_sender' = IF notify_sender = <<>> /\ notify_open THEN <<msg>> ELSE notify_sender
    /\ UNCHANGED <<resVars, notify_open>>

\* A notification that converts is forwarded to the notifier by try_send.  The
\* channel is unbounded, so the send fails only when the receiving end is
\* gone; the error is traced and the notification lost.
ForwardNotification(msg) ==
    /\ \/ notify_open /\ notify_sender' = Append(notify_sender, msg)
       \/ ~notify_open /\ UNCHANGED notify_sender
    /\ UNCHANGED <<resVars, notify_open>>

\* handle_response, by the kind of message it is given.  A notification whose
\* conversion fails and a response without payload change nothing.
HandleResponse(msg) ==
    \/ msg.kind = "Notification" /\ ForwardNotification(msg)
    \/ msg.kind = "Response" /\ ResolveResponse(msg)
    \/ msg.kind \in {"BadNotification", "Empty"} /\ UNCHANGED <<resVars, notifyVars>>

\* stream.message() gives a message, or an error status that is only logged.
ReceiverReads ==
    /\ taskPc["receiver"] = "loop"
    /\ stream # <<>>
    /\ Head(stream) # EndOfStream
    /\ stream' = Tail(stream)
    /\ \/ Head(stream).kind = "Error" /\ UNCHANGED <<resVars, notifyVars>>
       \/ HandleResponse(Head(stream))
    /\ UNCHANGED <<connVars, request_sender, channel_open, wire, pushed,
                   taskVars, callVars, shutVars>>

\* stream.message() gives None: the server closed the stream, the loop breaks.
ReceiverStreamClosed ==
    /\ stream # <<>>
    /\ Head(stream) = EndOfStream
    /\ TaskMoves("receiver", "loop", "exited")
    /\ UNCHANGED <<is_running, trigger>>

ResponseReceiver ==
    ReceiverReads \/ ReceiverStreamClosed \/ TaskLeaves("receiver")

-----------------------------------------------------------------------------
(* Inner::shutdown, stop_timeout_monitor and stop_response_receiver_task *)

StopTaskNoAwait(t) ==
    /\ trigger' = [trigger EXCEPT ![t].request = @ \/ is_running[t]]
    /\ shutPc' = AfterPc[t]

\* stop_*: a task whose flag is set is asked to stop and then awaited; one
\* whose flag is clear is passed over.
StopTask(t) ==
    \/ /\ is_running[t]
       /\ trigger' = [trigger EXCEPT ![t].request = TRUE]
       /\ shutPc' = AwaitPc[t]
    \/ /\ ~is_running[t]
       /\ UNCHANGED trigger
       /\ shutPc' = AfterPc[t]

\* shutdown() is entered and stop_timeout_monitor reads the flag.
ShutdownBegins ==
    /\ session = "Ready"
    /\ shutPc \in {"none", "returned"}
    /\ shutdowns < MaxShutdowns
    /\ shutdowns' = shutdowns + 1
    /\ StopTask("timeout")
    /\ TaskFrame /\ UNCHANGED <<is_running, taskPc>>

\* The response listener of the task resolves: the stop_* function returns.
AwaitTask(t) ==
    /\ shutPc = AwaitPc[t]
    /\ trigger[t].response
    /\ shutPc' = AfterPc[t]
    /\ TaskFrame /\ UNCHANGED <<taskVars, shutdowns>>

\* stop_response_receiver_task reads the flag.
StopReceiver ==
    /\ shutPc = StopPc["receiver"]
    /\ StopTask("receiver")
    /\ TaskFrame /\ UNCHANGED <<is_running, taskPc, shutdowns>>

Shutdown == ShutdownBegins \/ StopReceiver \/ \E t \in Tasks : AwaitTask(t)

-----------------------------------------------------------------------------
(* The environment: transport, server and clock *)

Alive == session # "Failed"

StreamEnded == stream # <<>> /\ Last(stream) = EndOfStream

\* The probe is still on its way to the server or unanswered there.
ProbePending == GetInfoProbe \in ToSet(request_sender) \cup ToSet(wire)

\* The transport takes the oldest request of the channel to the server.
TransportTakes ==
    /\ Alive
    /\ channel_open
    /\ request_sender # <<>>
    /\ wire' = Append(wire, Head(request_sender))
    /\ request_sender' = Tail(request_sender)
    /\ EnvFrame /\ UNCHANGED <<channel_open, stream, pushed, resVars>>

\* The transport drops the receiving end of the channel, and what is in it.
ChannelCloses ==
    /\ session = "Ready"
    /\ channel_open
    /\ channel_open' = FALSE
    /\ request_sender' = <<>>
    /\ EnvFrame /\ UNCHANGED <<wire, stream, pushed, resVars>>

\* The notifier is dropped while the session lives on in its tasks: the
\* receiving end of the notification channel goes, with what it holds.  Only
\* a try_send can tell, so the step is taken when a notification is on its way.
NotifierGoes ==
    /\ session = "Ready"
    /\ notify_open
    /\ \E i \in DOMAIN stream : stream[i].kind = "Notification"
    /\ notify_open' = FALSE
    /\ notify_sender' = <<>>
    /\ UNCHANGED <<connVars, request_sender, netVars, taskVars, callVars, resVars,
                   shutVars>>

\* The server answers a request of its own choice when it echoes message ids,
\* the oldest when it does not.  Only its answer to the probe may fail to
\* convert.
ServerAnswers(i, ok) ==
    /\ Alive
    /\ ~StreamEnded
    /\ server.has_message_id \/ i = 1
    /\ ok \/ wire[i] = GetInfoProbe
    /\ stream' = Append(stream,
           [kind |-> "Response", op |-> wire[i].op,
            id |-> IF server.has_message_id THEN wire[i].id ELSE 0,
            req |-> wire[i].req, ok |-> ok])
    /\ wire' = RemoveAt(wire, i)
    /\ EnvFrame /\ UNCHANGED <<request_sender, channel_open, pushed, resVars>>

ServerResponds == \E i \in DOMAIN wire, ok \in BOOLEAN : ServerAnswers(i, ok)

\* The server sends a message nobody asked for, or closes the stream.  An error
\* status and the end may come at any time, the others once the probe is
\* answered.
ServerSends(msg) ==
    /\ Alive
    /\ ~StreamEnded
    /\ pushed < MaxPush
    /\ msg.kind \in {"Error", "End"} \/ ~ProbePending
    /\ stream' = Append(stream, msg)
    /\ pushed' = pushed + 1
    /\ EnvFrame /\ UNCHANGED <<request_sender, channel_open, wire, resVars>>

ServerPushes(kind) == ServerSends([kind |-> kind])

ServerCloses == ServerSends(EndOfStream)

\* Time passes: every pending is a tick older.
Tick ==
    /\ resolver' = Aged(resolver, TimeoutTicks)
    /\ EnvFrame /\ UNCHANGED <<request_sender, netVars, oneshot, reaped, dropped>>

Environment ==
    \/ TransportTakes
    \/ ChannelCloses
    \/ NotifierGoes
    \/ ServerResponds
    \/ \E kind \in PushKinds : ServerPushes(kind)
    \/ ServerCloses
    \/ Tick

-----------------------------------------------------------------------------
(* Specification *)

Next ==
    \/ ConnectReads
    \/ ConnectFails
    \/ \E c \in Callers : Call(c)
    \/ TimeoutMonitor
    \/ ResponseReceiver
    \/ Shutdown
    \/ Environment

Spec == Init /\ [][Next]_vars

\* The executor runs every task that can run, the transport keeps draining the
\* channel and time keeps passing.  Nothing obliges a caller to start a call,
\* the owner to shut down, or the server to answer.
Fairness ==
    /\ WF_vars(ConnectReads)
    /\ \A c \in Callers :
          WF_vars(CallSend(c)) /\ WF_vars(CallSendFails(c)) /\ WF_vars(CallReturn(c))
    /\ \A t \in Tasks :
          /\ WF_vars(TaskSeesShutdown(t))
          /\ WF_vars(TaskClearFlag(t))
          /\ WF_vars(TaskAck(t))
          /\ WF_vars(AwaitTask(t))
    /\ WF_vars(TimeoutFires)
    /\ WF_vars(ReceiverReads)
    /\ WF_vars(ReceiverStreamClosed)
    /\ WF_vars(StopReceiver)
    /\ WF_vars(TransportTakes)
    /\ WF_vars(Tick)

FairSpec == Spec /\ Fairness

-----------------------------------------------------------------------------
(* Properties *)

IsSeqOf(s, S, n) ==
    /\ DOMAIN s = 1 .. Len(s)
    /\ Len(s) <= n
    /\ \A i \in DOMAIN s : s[i] \in S

\* The variables keep their types, and the request channel never holds more
\* than its capacity: send admits a caller only while there is room.
TypeOK ==
    /\ server \in ServerCaps
    /\ session \in {"Connecting", "Ready", "Failed"}
    /\ handle_stop_notify \in BOOLEAN
    /\ handle_message_id \in BOOLEAN
    /\ IsSeqOf(request_sender, Requests \cup {GetInfoProbe}, QueueCapacity)
    /\ channel_open \in BOOLEAN
    /\ IsSeqOf(wire, Requests \cup {GetInfoProbe}, MaxCalls + 1)
    /\ IsSeqOf(stream, Messages, MaxCalls + MaxPush + 1)
    /\ IsSeqOf(notify_sender, [kind : {"Notification"}], MaxPush)
    /\ notify_open \in BOOLEAN
    /\ IsSeqOf(resolver, Pendings, MaxCalls)
    /\ is_running \in [Tasks -> BOOLEAN]
    /\ trigger \in [Tasks -> [request : BOOLEAN, response : BOOLEAN]]
    /\ taskPc \in [Tasks -> {"unborn", "loop", "exited", "cleared", "done"}]
    /\ callPc \in [Callers -> {"idle", "registered", "awaiting"}]
    /\ cur \in [Callers -> Requests \cup {NoRequest}]
    /\ oneshot \in [Callers -> Outcomes]
    /\ shutPc \in {"none", "stop_receiver", "await_timeout", "await_receiver",
                   "returned"}
    /\ issued \in 0 .. MaxCalls
    /\ pushed \in 0 .. MaxPush
    /\ shutdowns \in 0 .. MaxShutdowns
    /\ reaped \subseteq Serials
    /\ dropped \subseteq Serials

\* A call that completes with a response completes with the response the server
\* produced for that very call.  (Inner::call, handle_response and the resolver.)
AnsweredByOwnResponse ==
    \A c \in Callers : oneshot[c].tag = "Ok" => oneshot[c].req = cur[c].req

\* With message ids, a completed call holds its own response: ids make the
\* correlation independent of the order of registration, sending and answering.
OwnResponse == handle_message_id => AnsweredByOwnResponse

\* With message ids, the resolver drops a response only when the timeout monitor
\* has removed its pending: call() registers before it sends, so no response
\* can overtake its own registration.
NoSpuriousDrop == handle_message_id => dropped \subseteq reaped

\* Once shutdown() has returned, neither task is in its loop and both running
\* flags are clear: the duplex triggers let shutdown return only after a task
\* that was running has left its loop and cleared its flag.
ShutdownQuiesces ==
    shutPc = "returned" =>
        \A t \in Tasks : ~is_running[t] /\ taskPc[t] \in {"cleared", "done"}

\* What the resolver has put in a waiting caller's receiver is never replaced:
\* the timeout monitor and the receiver task complete a pending at most once
\* between them, whichever of a timeout and a late response comes first.
CompletionIsFinal ==
    [][\A c \in Callers :
          (oneshot[c] # Empty /\ callPc'[c] # "idle") => oneshot'[c] = oneshot[c]]_vars

\* The state of the session as its callers see it.
CallPhase == [idle |-> "idle", registered |-> "queued", awaiting |-> "waiting"]

Contract ==
    INSTANCE RpcCall WITH
        ready      <- session = "Ready",
        correlated <- handle_message_id,
        phase      <- [c \in Callers |-> CallPhase[callPc[c]]],
        request    <- [c \in Callers |-> [op |-> cur[c].op, req |-> cur[c].req]],
        result     <- oneshot

\* The session implements the contract of a call: whatever callers, tasks,
\* transport, server and clock do, each call's outcome is decided once, while
\* the call is in progress, as its own response (by id) or one of its operation
\* (by queue) or a timeout, and a call that was admitted to the channel returns
\* only with its outcome.  (Inner::call with handle_response and the monitor.)
ImplementsRpcCall == Contract!Spec

ShutdownRequested == shutdowns > 0

\* An invocation of shutdown() returns: each task it waits for leaves its loop
\* and triggers the response, also when the task left by itself (the stream
\* closed) around the moment shutdown read its flag.
ShutdownTerminates ==
    (shutPc \notin {"none", "returned"}) ~> (shutPc = "returned")

\* While nobody has shut the client down, every call returns: a call whose
\* response never comes is ended by the timeout monitor, and one whose request
\* cannot be sent by the closing of the channel.
CallCompletes ==
    \A c \in Callers :
        (callPc[c] # "idle") ~> (callPc[c] = "idle" \/ ShutdownRequested)

\* While nobody has shut the client down, no pending outlives the timeout for
\* good: the monitor removes also the pending whose call has already returned,
\* because its send failed or its outcome was a timeout that the resolver kept.
\* (Inner::call leaving on the error of send, and remove_expired_requests.)
PendingsAreReaped ==
    \A r \in 1 .. MaxCalls :
        (r \in PendingReqs(resolver)) ~>
            (r \notin PendingReqs(resolver) \/ ShutdownRequested)

\* In queue mode too, responses meet the pendings in the order the requests were
\* enqueued: while no pending has timed out, a completed call holds the response
\* to its own request.  (Inner::call registers, then sends, in two steps.)
QueueAnswersInEnqueueOrder == reaped = {} => AnsweredByOwnResponse

\* A response that arrives after its pending has been reaped is dropped: no call
\* completes with the response to a request that timed out.  (handle_response
\* after remove_expired_requests.)
LateResponseDropped ==
    \A c \in Callers : oneshot[c].tag = "Ok" => oneshot[c].req \notin reaped

\* Every call returns, also one that waits while the client is shut down:
\* shutdown completes the outstanding pendings with an error.  (Inner::call
\* awaiting its receiver, and Inner::shutdown, which stops the two tasks.)
CallsReturn == \A c \in Callers : (callPc[c] # "idle") ~> (callPc[c] = "idle")
=============================================================================
