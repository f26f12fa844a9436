---------------------------- MODULE Subscriptions ----------------------------
(***************************************************************************)
(* The notification side of the client: the listeners and subscriptions    *)
(* the facade GrpcClient manages through its Notifier, the wire commands   *)
(* the subscription manager (impl SubscriptionManager for Inner) issues    *)
(* through Inner::call, and the fan-out of incoming notifications through  *)
(* the subscription filters of consensus/core/src/notification.rs.         *)
(*                                                                         *)
(* A notification is [event, accepted]: its event type and the accepted    *)
(* transaction ids it carries (empty for every event but the chain         *)
(* change).  A subscription is [active, include]; include is the flag      *)
(* include_accepted_transaction_ids of a chain-change subscription.        *)
(* An Option is the set of what it holds: {} for None, {x} for Some(x).    *)
(***************************************************************************)
EXTENDS Naturals, Sequences, FiniteSets, SequencesExt

CONSTANTS
    Events,            \* the event types in use
    TxIds,             \* the transaction ids a chain change may carry
    ServerCaps,        \* the capability flags the server may advertise
    MaxListeners,      \* bound on the listeners registered in a behaviour
    MaxOps,            \* bound on the calls of the facade's notification API
    MaxNotifications,  \* bound on the notifications the server emits
    ChannelCapacity    \* capacity of a listener's channel

\* enum Notification: the event types there are.
EventTypes ==
    {"BlockAdded", "VirtualSelectedParentChainChanged", "FinalityConflict",
     "FinalityConflictResolved", "UtxosChanged",
     "VirtualSelectedParentBlueScoreChanged", "VirtualDaaScoreChanged",
     "PruningPointUtxoSetOverride", "NewBlockTemplate"}

ChainChanged == "VirtualSelectedParentChainChanged"
UtxosChanged == "UtxosChanged"

ASSUME
    /\ Events \subseteq EventTypes /\ Events # {}
    /\ ServerCaps \subseteq [has_notify_command : BOOLEAN, has_message_id : BOOLEAN]
    /\ MaxListeners \in Nat /\ MaxOps \in Nat /\ MaxNotifications \in Nat
    /\ ChannelCapacity \in Nat \ {0}

VARIABLES
    server,            \* the flags of the server this session talks to
    handle_stop_notify,\* Inner.handle_stop_notify, as the handshake left it
    started,           \* the notifier's tasks run (GrpcClient::start / stop)
    registered,        \* the ids of the registered listeners
    nextId,            \* the id the next listener gets
    subscription,      \* per listener and event, its subscription
    commands,          \* the wire commands the notifier handed to its subscriber
    wire,              \* the commands sent to the server and not yet handled
    inflight,          \* the subscriber waits in Inner::call for the last of them
    serverSubscribed,  \* per event, whether the server sends it to this client
    incoming,          \* the notifications forwarded by handle_response
    channel,           \* per listener, the notifications delivered and not read
    answer,            \* history: what the last call of stop_notify returned
    refused,           \* history: the events of the commands the server refused
    ops,               \* history: the API calls made so far
    emitted            \* history: the notifications the server has emitted

apiVars  == <<started, registered, nextId, subscription, commands, answer, ops>>
wireVars == <<wire, inflight, serverSubscribed, refused>>
fanVars  == <<incoming, channel, emitted>>
vars     == <<server, handle_stop_notify, apiVars, wireVars, fanVars>>

-----------------------------------------------------------------------------
(* Values *)

Ids == 1 .. MaxListeners

Subscription == [active : BOOLEAN, include : BOOLEAN]
Inactive == [active |-> FALSE, include |-> FALSE]

\* The payload structs: only a chain change carries accepted transaction ids.
Notifications ==
    { n \in [event : Events, accepted : SUBSET TxIds] :
        n.event # ChainChanged => n.accepted = {} }

Commands == [command : {"Start", "Stop"}, event : Events]

NoAnswer == [listener |-> 0, event |-> "none", result |-> "none"]
Answers  == [listener : Ids, event : Events, result : {"Ok", "UnsupportedFeature"}]

-----------------------------------------------------------------------------
(* The subscription filters of impl NotificationTrait for Notification *)

EventType(n) == n.event

ApplyOverallSubscription(n, sub) == IF sub.active THEN {n} ELSE {}

ApplyVspccKeepsIds(n, sub) == IF sub.active THEN {n} ELSE {}

ApplyVspccSubscription(n, sub) ==
    IF ~sub.active THEN {}
    ELSE IF EventType(n) = ChainChanged /\ ~sub.include /\ n.accepted # {}
         THEN {[n EXCEPT !.accepted = {}]}
         ELSE {n}

ApplyUtxosChangedSubscription(n, sub) == {n}

\* The notifier applies the filter that goes with the kind of subscription.
ApplySubscription(n, sub) ==
    CASE EventType(n) = ChainChanged -> ApplyVspccSubscription(n, sub)
      [] EventType(n) = UtxosChanged -> ApplyUtxosChangedSubscription(n, sub)
      [] OTHER                       -> ApplyOverallSubscription(n, sub)

-----------------------------------------------------------------------------
(* The notifier's subscription state *)

\* The global count of an event: the listeners whose subscription is active.
Count(subs, E) == Cardinality({l \in Ids : subs[l][E].active})

\* The wire commands a change of the subscriptions calls for: a Start for each
\* event whose count leaves zero, a Stop for each whose count returns to it.
Crossed(old, new) ==
    { [command |-> IF Count(new, E) > 0 THEN "Start" ELSE "Stop", event |-> E] :
        E \in { F \in Events : (Count(old, F) = 0) # (Count(new, F) = 0) } }

\* A mutation of the subscriptions, with the commands it hands to the subscriber.
Mutate(new) ==
    /\ subscription' = new
    /\ commands' = commands \o SetToSeq(Crossed(subscription, new))

Init ==
    /\ server \in ServerCaps
    /\ handle_stop_notify \in {server.has_notify_command, FALSE}
    /\ started = FALSE
    /\ registered = {}
    /\ nextId = 1
    /\ subscription = [l \in Ids |-> [E \in Events |-> Inactive]]
    /\ commands = <<>>
    /\ wire = <<>>
    /\ inflight = FALSE
    /\ serverSubscribed = [E \in Events |-> FALSE]
    /\ incoming = <<>>
    /\ channel = [l \in Ids |-> <<>>]
    /\ answer = NoAnswer
    /\ refused = {}
    /\ ops = 0
    /\ emitted = 0

-----------------------------------------------------------------------------
(* The facade: GrpcClient::start, stop and the notification API of RpcApi *)

\* A call of the API is counted, answers, and leaves the session alone.
Api(result) ==
    /\ ops < MaxOps
    /\ ops' = ops + 1
    /\ answer' = result
    /\ UNCHANGED <<server, handle_stop_notify, wireVars, incoming, emitted>>

\* GrpcClient::start: the notifier's tasks are started.
NotifierStart ==
    /\ ~started
    /\ started' = TRUE
    /\ Api(NoAnswer) /\ UNCHANGED <<registered, nextId, subscription, commands, channel>>

\* GrpcClient::stop: the notifier's tasks are stopped; what is queued stays.
NotifierStop ==
    /\ started
    /\ started' = FALSE
    /\ Api(NoAnswer) /\ UNCHANGED <<registered, nextId, subscription, commands, channel>>

\* register_new_listener: a listener with a fresh id and no subscription.
RegisterNewListener ==
    /\ nextId \in Ids
    /\ registered' = registered \cup {nextId}
    /\ nextId' = nextId + 1
    /\ Api(NoAnswer) /\ UNCHANGED <<started, subscription, commands, channel>>

\* unregister_listener: all its subscriptions end and its channel is dropped.
UnregisterListener(l) ==
    /\ l \in registered
    /\ Mutate([subscription EXCEPT ![l] = [E \in Events |-> Inactive]])
    /\ registered' = registered \ {l}
    /\ channel' = [channel EXCEPT ![l] = <<>>]
    /\ Api(NoAnswer) /\ UNCHANGED <<started, nextId>>

\* start_notify: the notifier records the subscription.
StartNotify(l, E, include) ==
    /\ l \in registered
    /\ include => E = ChainChanged
    /\ Mutate([subscription EXCEPT ![l][E] = [active |-> TRUE, include |-> include]])
    /\ Api(NoAnswer) /\ UNCHANGED <<started, registered, nextId, channel>>

\* stop_notify: passed to the notifier when the server handles the stop
\* commands, refused with UnsupportedFeature when it does not.
StopNotify(l, E) ==
    /\ l \in registered
    /\ \/ /\ handle_stop_notify
          /\ Mutate([subscription EXCEPT ![l][E] = Inactive])
          /\ Api([listener |-> l, event |-> E, result |-> "Ok"])
       \/ /\ ~handle_stop_notify
          /\ Api([listener |-> l, event |-> E, result |-> "UnsupportedFeature"])
          /\ UNCHANGED <<subscription, commands>>
    /\ UNCHANGED <<started, registered, nextId, channel>>

Facade ==
    \/ NotifierStart
    \/ NotifierStop
    \/ RegisterNewListener
    \/ \E l \in Ids : UnregisterListener(l)
    \/ \E l \in Ids, E \in Events, include \in BOOLEAN : StartNotify(l, E, include)
    \/ \E l \in Ids, E \in Events : StopNotify(l, E)

-----------------------------------------------------------------------------
(* The subscriber task and impl SubscriptionManager for Inner *)

Sent(command, E) ==
    /\ wire' = Append(wire, [command |-> command, event |-> E])
    /\ inflight' = TRUE

\* start_notify: the Start command goes to the server through Inner::call.
ManagerStartNotify(E) == Sent("Start", E)

ManagerStopNotifyNever(E) == UNCHANGED <<wire, inflight>>

\* stop_notify: the Stop command goes to the server when it handles it, and is
\* ignored when it does not.
ManagerStopNotify(E) ==
    \/ handle_stop_notify /\ Sent("Stop", E)
    \/ ~handle_stop_notify /\ UNCHANGED <<wire, inflight>>

\* The subscriber takes the next command once the call before it has returned.
SubscriberTakes ==
    /\ started /\ ~inflight
    /\ commands # <<>>
    /\ commands' = Tail(commands)
    /\ \/ Head(commands).command = "Start" /\ ManagerStartNotify(Head(commands).event)
       \/ Head(commands).command = "Stop"  /\ ManagerStopNotify(Head(commands).event)
    /\ UNCHANGED <<server, handle_stop_notify, started, registered, nextId,
                   subscription, answer, ops, serverSubscribed, refused, fanVars>>

\* The call of the manager returns an error before the server has handled the
\* command (`self.call(...).await?`): the subscriber is free again, and the
\* command may still reach the server.
CallTimesOut ==
    /\ inflight
    /\ inflight' = FALSE
    /\ UNCHANGED <<server, handle_stop_notify, apiVars, wire, serverSubscribed,
                   refused, fanVars>>

\* What the server makes of a command: it takes it up, or refuses it in its
\* response.
Handled(c, accepts) ==
    \/ /\ accepts
       /\ serverSubscribed' = [serverSubscribed EXCEPT ![c.event] = (c.command = "Start")]
       /\ UNCHANGED refused
    \/ /\ ~accepts
       /\ refused' = refused \cup {c.event}
       /\ UNCHANGED serverSubscribed

\* The server handles the oldest command; the call that waits for the response
\* returns it, and the manager looks no further than that it came.
ServerHandles ==
    /\ wire # <<>>
    /\ \E accepts \in BOOLEAN : Handled(Head(wire), accepts)
    /\ wire' = Tail(wire)
    /\ inflight' = (inflight /\ Len(wire) > 1)
    /\ UNCHANGED <<server, handle_stop_notify, apiVars, fanVars>>

-----------------------------------------------------------------------------
(* Fan-out *)

\* The server emits a notification of an event it was asked for; the receiver
\* task forwards it to the notifier.
ServerEmits(n) ==
    /\ serverSubscribed[EventType(n)]
    /\ emitted < MaxNotifications
    /\ incoming' = Append(incoming, n)
    /\ emitted' = emitted + 1
    /\ UNCHANGED <<server, handle_stop_notify, apiVars, wireVars, channel>>

TrySendUnbounded(ch, option) ==
    IF option = {} THEN ch ELSE Append(ch, CHOOSE n \in option : TRUE)

\* A non-blocking send: what does not fit is dropped.
TrySend(ch, option) ==
    IF option = {} \/ Len(ch) >= ChannelCapacity
    THEN ch
    ELSE Append(ch, CHOOSE n \in option : TRUE)

\* What the notifier has for a listener: nothing unless its subscription to
\* the event is active, else what the subscription's filter lets through.
Filtered(l, n) ==
    IF subscription[l][EventType(n)].active
    THEN ApplySubscription(n, subscription[l][EventType(n)])
    ELSE {}

\* The notifier dispatches the oldest notification to every listener.
Dispatch ==
    /\ started
    /\ incoming # <<>>
    /\ channel' = [l \in Ids |-> TrySend(channel[l], Filtered(l, Head(incoming)))]
    /\ incoming' = Tail(incoming)
    /\ UNCHANGED <<server, handle_stop_notify, apiVars, wireVars, emitted>>

\* The owner of a listener reads from its channel.
ListenerReceives(l) ==
    /\ channel[l] # <<>>
    /\ channel' = [channel EXCEPT ![l] = Tail(@)]
    /\ UNCHANGED <<server, handle_stop_notify, apiVars, wireVars, incoming, emitted>>

-----------------------------------------------------------------------------
(* Specification *)

Next ==
    \/ Facade
    \/ SubscriberTakes
    \/ CallTimesOut
    \/ ServerHandles
    \/ \E n \in Notifications : ServerEmits(n)
    \/ Dispatch
    \/ \E l \in Ids : ListenerReceives(l)

Spec == Init /\ [][Next]_vars

-----------------------------------------------------------------------------
(* Properties *)

\* The variables keep their types; a listener's channel never holds more than
\* its capacity, and a listener that is not registered has no subscription and
\* nothing in its channel.
TypeOK ==
    /\ server \in ServerCaps
    /\ handle_stop_notify \in BOOLEAN
    /\ started \in BOOLEAN
    /\ registered \subseteq 1 .. (nextId - 1)
    /\ nextId \in 1 .. MaxListeners + 1
    /\ subscription \in [Ids -> [Events -> Subscription]]
    /\ commands \in Seq(Commands)
    /\ wire \in Seq(Commands)
    /\ inflight \in BOOLEAN
    /\ serverSubscribed \in [Events -> BOOLEAN]
    /\ incoming \in Seq(Notifications)
    /\ \A l \in Ids :
          /\ channel[l] \in Seq(Notifications)
          /\ Len(channel[l]) <= ChannelCapacity
          /\ l \notin registered =>
                channel[l] = <<>> /\ \A E \in Events : ~subscription[l][E].active
    /\ answer \in Answers \cup {NoAnswer}
    /\ refused \subseteq Events
    /\ ops \in 0 .. MaxOps
    /\ emitted \in 0 .. MaxNotifications

\* Nothing is on its way between the notifier and the server.
Quiescent == started /\ commands = <<>> /\ wire = <<>> /\ ~inflight

\* Once the commands have reached a server that refused none of them, the
\* server sends an event exactly when some listener is subscribed to it: the
\* Start and Stop commands the subscription manager issues arrive in the order
\* of the changes, whatever calls timed out in between.  A server that does not
\* handle Stop keeps sending.  (SubscriptionManager::start_notify, stop_notify.)
WireFollowsLocal ==
    Quiescent =>
        \A E \in Events \ refused :
            /\ Count(subscription, E) > 0 => serverSubscribed[E]
            /\ handle_stop_notify /\ Count(subscription, E) = 0 => ~serverSubscribed[E]

\* What the subscription of a listener lets it see of a notification.
Visible(n, sub) ==
    IF ~sub.active THEN {}
    ELSE {[event |-> n.event,
           accepted |-> IF n.event = ChainChanged /\ ~sub.include THEN {} ELSE n.accepted]}

\* A dispatch puts in a listener's channel only what its subscription, as it
\* stands, lets it see (no accepted transaction ids unless it asked for them),
\* and passes over no listener that has room because another's channel is full.
\* (apply_*_subscription and the notifier's fan-out.)
FilteredDelivery ==
    [][\A l \in Ids :
          LET n == Head(incoming)
              seen == Visible(n, subscription[l][n.event])
          IN  /\ Len(channel'[l]) > Len(channel[l]) => Last(channel'[l]) \in seen
              /\ (/\ incoming # <<>> /\ incoming' = Tail(incoming)
                  /\ seen # {} /\ Len(channel[l]) < ChannelCapacity)
                    => channel'[l] = channel[l] \o SetToSeq(seen)]_vars

\* When nothing is on its way, the server sends every event some listener is
\* subscribed to: a wire subscription stands behind every positive count.
SubscribeAcknowledged ==
    Quiescent => \A E \in Events : Count(subscription, E) > 0 => serverSubscribed[E]

\* After stop_notify the listener's subscription to the event is not active,
\* whether or not the server handles a wire Stop.
StopNotifyStopsLocally ==
    answer # NoAnswer => ~subscription[answer.listener][answer.event].active
=============================================================================
