------------------------------- MODULE Client -------------------------------
(***************************************************************************)
(* struct GrpcClient of rpc/grpc/src/client/mod.rs as a whole: the session *)
(* of module GrpcClient together with the notifier that GrpcClient::connect*)
(* builds around it.  The notifier's subscriber task is one more caller of *)
(* Inner::call, its Start and Stop commands share the request channel, the *)
(* resolver and the timeout monitor with every other call, and the         *)
(* notifications come down the stream the responses come down.             *)
(*                                                                         *)
(* Module Subscriptions describes the notifier against an abstract session *)
(* (its variables wire, inflight and incoming); here the session is the    *)
(* real one, and the composition is shown to implement Subscriptions.      *)
(* The transport is taken to stay up and the notifier to live as long as   *)
(* the session: what the closing of the request channel does to a call,    *)
(* and of the notification channel to a notification, is in GrpcClient.    *)
(***************************************************************************)
EXTENDS GrpcClient

CONSTANTS
    Subscriber,      \* the caller that is the notifier's subscriber task
    Events,          \* the event types in use
    TxIds,           \* the transaction ids a chain change may carry
    MaxListeners,    \* bound on the listeners registered in a behaviour
    MaxOps,          \* bound on the calls of the facade's notification API
    MaxOtherCalls,   \* bound on the calls the other callers make
    ChannelCapacity  \* capacity of a listener's channel

ASSUME Subscriber \in Callers /\ MaxOtherCalls \in 0 .. MaxCalls

VARIABLES
    started, registered, nextId, subscription, commands, channel, answer, ops,
                       \* the notifier, as in Subscriptions
    serverSubscribed,  \* per event, whether the server sends it to this client
    refused,           \* history: the events of the commands the server refused
    emitted,           \* history: the notifications the server has emitted
    carried            \* history: the command the request of a call carries

notifierVars == <<started, registered, nextId, subscription, commands, channel,
                  answer, ops>>
serverVars   == <<serverSubscribed, refused, emitted>>
sessionVars  == <<connVars, request_sender, netVars, taskVars, callVars, resVars,
                  shutVars, notify_open>>
clientVars   == <<vars, notifierVars, serverVars, carried>>

NoCommand == [command |-> "none", event |-> "none"]

\* from_notification_type: the operation of a command is that of its event,
\* the same for Start and Stop.
NotifyOp(E) == "Notify" \o E

IsCommand(request) == carried[request.req] # NoCommand

\* The requests that carry a command and that the server has not handled, in
\* the order the subscriber issued them: at the server, in the channel, and
\* the one registered and waiting for room.
Underway ==
    SelectSeq(wire \o request_sender \o
                  (IF callPc[Subscriber] = "registered" THEN <<cur[Subscriber]>> ELSE <<>>),
              IsCommand)

\* The notifications on their way to the notifier: forwarded, or in the stream.
Forwarded == notify_sender \o SelectSeq(stream, LAMBDA m : m.kind = "Notification")

Sub ==
    INSTANCE Subscriptions WITH
        wire     <- [i \in DOMAIN Underway |-> carried[Underway[i].req]],
        inflight <- /\ callPc[Subscriber] # "idle"
                    /\ oneshot[Subscriber] = Empty
                    /\ cur[Subscriber] \in ToSet(Underway),
        incoming <- [i \in DOMAIN Forwarded |-> Forwarded[i].body],
        MaxNotifications <- MaxPush

-----------------------------------------------------------------------------
(* GrpcClient::connect *)

\* Inner::connect has returned with the flags the handshake gave it (none when
\* the probe's answer did not convert), both tasks run, and the notifier is
\* built around the session, not yet started.
ClientInit ==
    /\ server \in ServerCaps
    /\ session = "Ready"
    /\ \E good \in BOOLEAN :
          /\ handle_stop_notify = (good /\ server.has_notify_command)
          /\ handle_message_id = (good /\ server.has_message_id)
    /\ request_sender = <<>>
    /\ is_running = [t \in Tasks |-> TRUE]
    /\ taskPc = [t \in Tasks |-> "loop"]
    /\ Untouched
    /\ carried = [r \in Serials |-> NoCommand]
    /\ Sub!Init

-----------------------------------------------------------------------------
(* The notifier on the session *)

\* The notification API of the facade touches the notifier alone.
Facade == UNCHANGED <<vars, serverVars, carried>> /\ Sub!Facade

\* The subscriber task takes the next command once its call before has
\* returned, and SubscriptionManager::start_notify or stop_notify makes the
\* call; a Stop for a server that does not handle it is ignored.
SubscriberTakes ==
    /\ started
    /\ commands # <<>>
    /\ callPc[Subscriber] = "idle"
    /\ commands' = Tail(commands)
    /\ LET c == Head(commands)
       IN  \/ /\ c.command = "Start" \/ handle_stop_notify
              /\ \E id \in DrawIds(issued) :
                    CallRegister(Subscriber, NotifyOp(c.event), id)
              /\ carried' = [carried EXCEPT ![issued + 1] = c]
           \/ /\ c.command = "Stop" /\ ~handle_stop_notify
              /\ UNCHANGED <<vars, carried>>
    /\ UNCHANGED <<started, registered, nextId, subscription, channel, answer, ops,
                   serverVars>>

\* The collector hands the oldest forwarded notification to the notifier,
\* which dispatches it to the listeners.
Dispatch ==
    /\ notify_sender # <<>>
    /\ notify_sender' = Tail(notify_sender)
    /\ UNCHANGED <<sessionVars, carried>>
    /\ Sub!Dispatch

ListenerReceives(l) == UNCHANGED <<vars, serverVars, carried>> /\ Sub!ListenerReceives(l)

-----------------------------------------------------------------------------
(* The session, and the server behind it *)

\* The calls made so far that carry no command.
OthersIssued == Cardinality({r \in 1 .. issued : carried[r] = NoCommand})

\* The calls of the other callers, and what every call does once registered.
Calls ==
    \/ /\ OthersIssued < MaxOtherCalls
       /\ \E c \in Callers \ {Subscriber} :
             \/ CallMissingPayload(c)
             \/ \E op \in Ops, id \in DrawIds(issued) : CallRegister(c, op, id)
    \/ \E c \in Callers : CallSend(c) \/ CallReturn(c)

\* The steps of the session that are none of the notifier's business.
SessionStep ==
    /\ \/ Calls
       \/ TimeoutMonitor
       \/ ResponseReceiver
       \/ Shutdown
       \/ TransportTakes
       \/ Tick
       \/ ServerPushes("BadNotification")
       \/ ServerCloses
       \/ \E i \in DOMAIN wire : ~IsCommand(wire[i]) /\ ServerAnswers(i, TRUE)
    /\ UNCHANGED <<notifierVars, serverVars, carried>>

\* The server handles the commands in the order they reach it, and answers
\* each as it handles it.
ServerHandles ==
    \E i \in DOMAIN wire, accepts \in BOOLEAN :
        /\ IsCommand(wire[i])
        /\ \A j \in 1 .. i - 1 : ~IsCommand(wire[j])
        /\ ServerAnswers(i, TRUE)
        /\ Sub!Handled(carried[wire[i].req], accepts)
        /\ UNCHANGED <<notifierVars, emitted, carried>>

\* The server emits a notification of an event it was asked for.
ServerEmits(n) ==
    /\ serverSubscribed[n.event]
    /\ ServerSends([kind |-> "Notification", body |-> n])
    /\ emitted' = emitted + 1
    /\ UNCHANGED <<notifierVars, serverSubscribed, refused, carried>>

-----------------------------------------------------------------------------
(* Specification *)

ClientNext ==
    \/ Facade
    \/ SubscriberTakes
    \/ Dispatch
    \/ \E l \in Sub!Ids : ListenerReceives(l)
    \/ SessionStep
    \/ ServerHandles
    \/ \E n \in Sub!Notifications : ServerEmits(n)

ClientSpec == ClientInit /\ [][ClientNext]_clientVars

\* A step of the session in the client: the notifier stands still.
OfSession(A) == A /\ UNCHANGED <<notifierVars, serverVars, carried>>

\* The executor runs the subscriber task and lets its call go on, the
\* transport drains the request channel, time passes and the timeout monitor
\* wakes up while it runs.  Nothing is assumed of the server, of the receiver
\* task, of the other callers, or of the listeners taking what they are sent.
ClientFairness ==
    /\ WF_clientVars(SubscriberTakes)
    /\ WF_clientVars(OfSession(CallSend(Subscriber)))
    /\ WF_clientVars(OfSession(CallReturn(Subscriber)))
    /\ WF_clientVars(OfSession(TimeoutFires))
    /\ WF_clientVars(OfSession(TransportTakes))
    /\ WF_clientVars(OfSession(Tick))

ClientFairSpec == ClientSpec /\ ClientFairness

-----------------------------------------------------------------------------
(* Properties *)

\* The client implements Subscriptions: the commands the subscriber issues
\* through Inner::call reach the server one by one in the order of the changes
\* of the subscriptions, the subscriber is held by a call no longer than until
\* it is answered or times out, and the notifier is given every notification
\* the server emits, in order; so what Subscriptions shows of the notifier
\* holds of the client.  (SubscriptionManager for Inner, Inner::call, the
\* timeout monitor and handle_response.)
ImplementsSubscriptions == Sub!Spec

\* While the notifier runs and the owner has not shut the session down, every
\* command the notifier queued is issued: the call the subscriber task waits in
\* returns, by its response or because the timeout monitor ends it, however
\* the other callers, the server and the stream behave.  Subscriptions only
\* allows a call to return early; that it does return follows here from what
\* the executor, the transport and the timer do.  After a shutdown nothing
\* ends the call (run shutdown_pendings).  (The subscriber task awaiting
\* SubscriptionManager::start_notify and stop_notify, Inner::call and
\* spawn_request_timeout_monitor.)
SubscriberGetsThrough ==
    (commands # <<>>) ~> (commands = <<>> \/ ~started \/ ShutdownRequested)
=============================================================================
