# TLA+ models of the rusty-kaspa gRPC client

This directory holds a model-checking development for the streaming RPC client
in `src/rpc/grpc/src/client/mod.rs` and the code around it. The modules are
written from the source; where the source of a collaborator is not in this
tree (the resolver, the notifier, the duplex trigger) it is modelled from
`spec.md` and marked `spec_modelled` in `PROJECT.json`.

## The system

| Part | Where | State | Operations |
|---|---|---|---|
| Session (`Inner`) | `mod.rs` 206-457 | capability flags, request channel (`mpsc::channel(16)`), resolver, two running flags, two duplex triggers | `connect`, `new`, `call`, `shutdown`, `stop_timeout_monitor`, `stop_response_receiver_task` |
| Timeout monitor task | `mod.rs` 336-363 | `timeout_is_running`, `timeout_shutdown` | each second: `remove_expired_requests`; on shutdown request: leave, clear flag, trigger response |
| Response receiver task | `mod.rs` 366-434 | `receiver_is_running`, `receiver_shutdown`, the response stream | read a message and `handle_response`; on end of stream or shutdown request: leave, clear flag, trigger response |
| Resolver (`IdResolver`, `QueueResolver`) | not in this tree | the pendings | `register_request`, `handle_response`, `remove_expired_requests` |
| Facade (`GrpcClient`) | `mod.rs` 49-165 | the `Inner` and the `Notifier` | one `route!` method per operation, listener registration, `start_notify`, `stop_notify`, `shutdown` |
| Subscription manager (`impl SubscriptionManager for Inner`) | `mod.rs` 459-478 | none of its own | wire Subscribe / Unsubscribe through `call` |
| Notifier | not in this tree | listeners, subscriptions | dispatch, subscribe, unsubscribe |
| Consensus notifications | `src/consensus/core/src/notification.rs` | none | the three `apply_*_subscription` filters |
| `DifficultyError`, wRPC server crate root, wallet account traits | three small files | none | none (declarations only) |

How the parts interact. A caller enters `Inner::call`, which draws an id,
registers a pending with the resolver, waits for room in the request channel and
then waits on the pending's one-shot receiver. The transport drains the channel
to the server. The receiver task reads the response stream and hands every
response to the resolver, which completes the pending it matches: by id when the
server echoes message ids, by operation and age when it does not. The timeout
monitor removes pendings that waited too long and completes them with a timeout.
`shutdown` asks each task to stop through the request half of its duplex trigger
and waits for the response half, but only for a task whose running flag is set.

What makes it hard: callers, two tasks, the owner calling `shutdown`, the
transport and the server all run concurrently; `call` has two suspension points
between three steps; a timeout races the late answer; a task can leave by itself
(the stream closed) around the moment `shutdown` reads its flag.

## Modules

**`Resolver.tla`** (modelled from the specification). Pure operators on the list
of pendings, kept in registration order: `RegisterRequest`, `MatchIndex` and
`WithoutMatch` (the oldest pending a response matches under the variant `ById`
or `ByQueue`), `ExpiredReqs` and `Unexpired`, and `Aged` for the clock. A
pending is `[op, id, req, age]`; `req` is a history value naming the call. In
keyed mode a registration whose id a live pending already has (`Collides`) is
dropped, which is how the specification's "detected and dropped, not merged"
is read; the caller of such a registration holds a receiver whose sender is
gone.

**`GrpcClient.tla`**. The session, its tasks and its environment.

| Code | Variables | Actions |
|---|---|---|
| `Inner::connect`, `Inner::new` | `session`, `handle_message_id`, `handle_stop_notify` | `Init` (channel created, probe sent), `ConnectReads`, `ConnectFails`; `Variant` is the `match` of `Inner::new` |
| `Inner::call` | `callPc`, `cur`, `oneshot`, `resolver`, `request_sender` | `CallMissingPayload`, `CallRegister`, `CallSend`, `CallSendFails`, `CallReturn` |
| timeout monitor | `is_running`, `trigger`, `taskPc` | `TimeoutFires`, `TaskSeesShutdown`, `TaskClearFlag`, `TaskAck` |
| receiver task, `handle_response` | `stream`, `notify_sender` | `ReceiverReads` (with `HandleResponse`, `ResolveResponse`, and `ForwardNotification` with both outcomes of its `try_send`), `ReceiverStreamClosed`, and the three leaving steps |
| `Inner::shutdown`, `stop_*` | `shutPc` | `ShutdownBegins`, `AwaitTask`, `StopReceiver` (`StopTask` is the body the two `stop_*` functions share) |
| transport, server, notifier's end, clock | `wire`, `channel_open`, `notify_open`, `server` | `TransportTakes`, `ChannelCloses`, `NotifierGoes`, `ServerResponds`, `ServerPushes`, `ServerCloses`, `Tick` |

Each action is one atomic step of the code between two suspension points. The
store to the running flag and the trigger after a task's loop are separate
actions because `shutdown` can observe the state between them. The two
`spawn_*` functions store `true` before they spawn, inside `connect`, so
`ConnectReads` sets both flags. History variables (`issued`, `pushed`,
`shutdowns`, `reaped`, `dropped`) exist for bounds and properties only.
`NotifierGoes`, the notifier dropping its end of the notification channel, is
taken only while a notification is on its way in the stream: nothing but a
`try_send` can tell whether it has happened.

Steps that share a body share an operator: `Enqueue` is the send of a request
(`CallSend` adds the wait for room), `Returns` the return of `call` with its
receiver dropped, `TaskMoves` a step of a task along its exit path, `Reap` the
delay branch of the monitor, `ServerAnswers` and `ServerSends` the two things a
server writes to the stream. `CallFrame`, `TaskFrame` and `EnvFrame` name what
the steps of a call, of a task and of the environment leave unchanged.

Abstractions. A request is an operation, an id and a serial number; payloads
are left out. The id comes from `DrawIds(n)`, the ids `rand::random` may give
the call made after `n` others: `FreshIds` never repeats an id, which is what 64
random bits give in practice, and `CollidingIds` always gives the same one.
Time is a `Tick` that ages every pending by one, capped at `TimeoutTicks`; the
monitor fires at any moment, which covers every phase of its one-second
interval against the deadlines. The facade takes `&mut self` for `shutdown`, so
one invocation runs at a time. gRPC over HTTP/2 neither loses nor duplicates nor
reorders messages of a stream, so the environment does not either; a server that
echoes ids may answer in any order.

**`RpcCall.tla`**. The abstract specification of a call, as a caller sees it:
a call is queued, admitted and returns; its outcome is decided once, while it is
in progress, by a response (its own when the session correlates by id, one of
its operation otherwise) or by the timeout; a call that is not admitted returns
an error. `GrpcClient` instantiates it as `Contract` with the refinement mapping

| `RpcCall` | `GrpcClient` |
|---|---|
| `ready` | `session = "Ready"` |
| `correlated` | `handle_message_id` |
| `phase[c]` | `callPc[c]`, with `registered` read as `queued` and `awaiting` as `waiting` |
| `request[c]` | `cur[c]` without its id |
| `result[c]` | `oneshot[c]` |

and `ImplementsRpcCall` is `Contract!Spec`. Every step of the channel, the
transport, the server, the clock and the two tasks is a step of the abstract
specification or leaves its variables unchanged.

**`MCGrpcClient.tla`**. The servers a run connects to (`IdServer`,
`QueueServer`, `AnyServer`), the id generators and the symmetry of the callers.

**`Subscriptions.tla`**. The notification side: the facade's listener API,
the notifier's subscription table, the subscription manager and the fan-out
through the filters of `notification.rs`.

| Code | Variables | Actions and operators |
|---|---|---|
| `GrpcClient::connect` | `server`, `handle_stop_notify` | `Init` (either outcome of the handshake) |
| `GrpcClient::start`, `stop` | `started` | `NotifierStart`, `NotifierStop` |
| `register_new_listener`, `unregister_listener` | `registered`, `nextId`, `subscription`, `channel` | `RegisterNewListener`, `UnregisterListener` |
| `start_notify`, `stop_notify` | `subscription`, `commands`, `answer` | `StartNotify`, `StopNotify` (the capability check, then the notifier) |
| subscriber task, `SubscriptionManager for Inner` | `commands`, `wire`, `inflight` | `SubscriberTakes` with `ManagerStartNotify` / `ManagerStopNotify`, `CallTimesOut` |
| server | `serverSubscribed`, `refused`, `incoming` | `ServerHandles`, `ServerEmits` |
| dispatch, `apply_*_subscription` | `incoming`, `channel` | `Dispatch` with `Filtered`, `ApplySubscription` and the three `Apply...Subscription` operators; `ListenerReceives` |

The notifier's source is not in this tree, so its part follows the
specification: a mutation of the table (`Mutate`) queues a Start command for
every event whose global count went from 0 to 1 and a Stop command for every one
that went from 1 to 0 (`Crossed`); the subscriber task takes one command at a
time and awaits the manager, so at most one call is in flight. The call the
manager makes is `GrpcClient`'s `Call`, reduced here to what the manager sees of
it: the command reaches the server in order and is handled, or the call
returns an error first (`CallTimesOut`) and the command is handled later all
the same. The module lets a call return early and does not say that it must:
that it does is shown of the real call, in `Client`. The
response is discarded, as in the code. A notification is `[event, accepted]`,
where `accepted` is the set of accepted transaction ids; only a chain-changed
notification carries any. Address filters of UTXO subscriptions are left out.

**`MCSubscriptions.tla`**. The servers of the subscription runs.

**`Client.tla`**. `struct GrpcClient` as a whole: module `GrpcClient` extended
with the notifier's variables, so that the subscriber task is a caller
(`Subscriber`) of the real `Inner::call`.

| Code | Actions |
|---|---|
| `GrpcClient::connect` | `ClientInit`: the session is ready with the flags either outcome of the handshake gives, both tasks run, the notifier is built and not started |
| notification API | `Facade`: `Subscriptions`' facade, which touches the notifier only |
| subscriber task, `SubscriptionManager for Inner` | `SubscriberTakes`: takes the next command when its call before has returned; `CallRegister` with the operation of the event (`NotifyOp`), or nothing for a Stop the server does not handle. From there the call is a call like any other (`CallSend`, `CallReturn`) |
| the other callers, the tasks, `shutdown`, transport, clock | `SessionStep`: the actions of `GrpcClient` |
| server | `ServerHandles` (answers a command and subscribes, unsubscribes or refuses), `ServerEmits` (a notification on the response stream, between the responses) |
| collector, notifier | `Dispatch` (takes the oldest notification `handle_response` forwarded), `ListenerReceives` |

`carried` records which command the request of a call carries. `Client`
instantiates `Subscriptions` as `Sub` with the refinement mapping

| `Subscriptions` | `Client` |
|---|---|
| `wire` | the commands of `Underway`: the requests that carry a command and are at the server, in the request channel, or registered and waiting for room, in that order |
| `inflight` | the subscriber is in a call, its one-shot is still empty and its request is still under way |
| `incoming` | the bodies of `Forwarded`: the notifications in `notify_sender`, then those still in the stream |
| the notifier's and the server's variables | themselves |

and `ImplementsSubscriptions` is `Sub!Spec`. A `CallRegister` of the subscriber
is the abstract `SubscriberTakes`; a timeout, or a response of the same
operation that completes the subscriber's call early, is the abstract
`CallTimesOut`; `ServerHandles` is itself; every other step of the session
leaves the abstract variables unchanged. Three assumptions are made of the
environment: the transport stays up (a call that fails in `send` loses its
command, which `Subscriptions` has no step for; what a closed channel does to a
call is checked on `GrpcClient`), the notifier lives as long as the session
(so the `try_send` of `handle_response` does not fail), and the server handles
notify commands in the order they arrive, also when it answers other requests
out of order.

**`MCClient.tla`**. The servers and the id generator of the composite run.

## Runs

| Run | Bounds | States | Result |
|---|---|---|---|
| `correlation` | 2 callers, 2 operations, 3 calls, channel of 1, timeout of 2 ticks, either server, fresh ids | 130,692 | `TypeOK`, `OwnResponse`, `NoSpuriousDrop`, `CompletionIsFinal`, `ImplementsRpcCall` hold |
| `shutdown` | 2 callers, 1 call, 1 server push or close, 2 shutdowns, either server, fair | 34,114 | `ShutdownQuiesces`, `ShutdownTerminates` hold |
| `call_liveness` | 2 callers, 2 calls, channel of 1, 1 push or close, either server, no shutdown, fair | 56,974 | `CallCompletes`, `PendingsAreReaped` hold |
| `queue_order` | server without ids, 2 callers, 2 calls | | `QueueAnswersInEnqueueOrder` violated |
| `late_response` | server without ids, 1 caller, 2 calls | | `LateResponseDropped` violated |
| `shutdown_pendings` | the whole client: 1 listener, 1 event, 3 API calls, 1 call (the subscriber's), 1 shutdown, fair | | `CallsReturn` violated |
| `id_collision` | server with ids, 2 callers, 2 calls, one id | | `OwnResponse` violated |
| `wire_commands` | 2 listeners, 2 events, 8 API calls, either server, either handshake outcome | 183,612 | `WireFollowsLocal` holds |
| `fanout` | 2 listeners, 3 events, 6 API calls, 2 notifications, listener channels of 1 | 296,120 | `TypeOK`, `FilteredDelivery` hold |
| `stop_unsupported` | server without notify commands, 1 listener, 1 event | | `StopNotifyStopsLocally` violated |
| `subscribe_refused` | full server, 1 listener, 1 event | | `SubscribeAcknowledged` violated |
| `client` | the subscriber as only caller, 3 calls, channel of 1, timeout of 1 tick, 1 listener, 1 event, 5 API calls, 2 pushes, three servers, either handshake outcome, fair | 160,092 | `ImplementsSubscriptions`, `SubscriberGetsThrough` hold |

What the passing runs show.

* `OwnResponse`: with message ids a call never returns another call's response,
  whatever the order of registration, sending, answering and timing out.
* `NoSpuriousDrop`: with message ids the resolver drops a response only when
  the monitor had removed its pending; registering before sending is what makes
  this true.
* `CompletionIsFinal`: a pending is completed at most once between the monitor
  and the receiver task.
* `ImplementsRpcCall`: the session refines `RpcCall`. Beyond the two
  properties above this says that no outcome appears for a caller that is not in
  a call, that an outcome is a response of the call's operation or a timeout,
  and that an admitted call returns only once its outcome is there.
* `TypeOK`: the types, and that the request channel never exceeds its capacity.
* `ShutdownQuiesces`, `ShutdownTerminates`: the flag-then-trigger protocol lets
  `shutdown` return, and only after both tasks left their loops, also when a
  task leaves by itself while `shutdown` is under way and when `shutdown` is
  called a second time.
* `CallCompletes`: as long as nobody shut the client down every call returns,
  even if the server never answers, closes the stream, or the channel closes.
* `PendingsAreReaped`: every pending leaves the resolver, by its response or by
  the monitor, as long as nobody shut the client down. This includes the
  pending of a call whose `send` failed: `call` returns through the `?` and
  leaves the pending it registered, with no caller behind it, until it expires.
* `WireFollowsLocal`: once every queued command has reached the server, the
  server sends an event the server did not refuse whenever a listener is
  subscribed to it, and (where the client may send Stop) only then. This holds
  through calls that time out, listeners that unregister while subscribed, and a
  handshake whose flag disagrees with the server. The wire of `Subscriptions`
  keeps the order of issue by definition; that the real session does is part
  of `ImplementsSubscriptions`.
* `FilteredDelivery`: a dispatch appends to a listener's channel exactly what
  the listener's subscription at that moment lets it see (nothing when
  inactive, no transaction ids unless asked for), and skips a listener only
  when its own channel is full.
* `ImplementsSubscriptions`: what the two properties above say of the
  notifier on an abstract session holds of the notifier on the real one. The
  subscriber's commands reach the server one at a time and in the order of
  issue; a command whose call timed out while it waited for room is still sent
  and handled before the next; against a server that handles notify commands
  without message ids the late answer to a timed-out command completes the
  subscriber's next call of that event, which then returns before its own
  command was handled, and the wire still follows; and
  `handle_response` hands the notifier every notification the server emitted,
  once and in order, among responses, notifications that fail to convert and
  the end of the stream.
* `SubscriberGetsThrough`: while the notifier runs and the session has not
  been shut down, the subscriber gets through its queue: a call that gets no
  response is ended by the timeout monitor, so no command holds the ones behind
  it for good. Nothing is assumed of the server or of the receiver task. The
  run makes no shutdown, and the property promises nothing after one:
  `shutdown_pendings` is what happens then.

What the violations show (details in `PROJECT.json`, `findings`).

* `queue_order`: `call` registers and sends in two steps, so without ids two
  concurrent calls of one operation can swap responses.
* `late_response`: without ids, the response to a timed-out call completes the
  next call of that operation.
* `shutdown_pendings`: `shutdown` cancels nothing. In the counterexample it
  returns with both tasks gone while a call waits: the response lies unread in
  the stream, the pending stays in the resolver, and the call never returns
  (which is why `CallCompletes` and `SubscriberGetsThrough` stop promising once
  `shutdown` was invoked). The run is made on `Client` under `ClientFairSpec`:
  `GrpcClient::shutdown` stops the session and leaves the notifier running, so
  the caller left waiting is the subscriber task, and the commands queued
  behind its call are never sent.
* `id_collision`: `call` sends its request whatever became of the
  registration. With two live calls of one id the resolver has one pending, and
  the response to the later request completes the earlier call.
* `stop_unsupported`: when the handshake left `handle_stop_notify` false the
  facade's `stop_notify` returns `UnsupportedFeature` before the notifier is
  reached, and the listener stays subscribed.
* `subscribe_refused`: the response to a Start command is discarded, so a
  refusal leaves a listener subscribed to an event the server never sends.

## Bounds

`QueueCapacity = 1` instead of 16: a caller waits for room as soon as one other
request (or the probe) is in the channel, which is the only thing capacity
changes. Three calls by two callers give two calls in flight plus one made after
a timeout or a return. Two operations let the queue resolver skip a pending of
another operation. `TimeoutTicks = 2` lets two pendings have different ages.
`MaxPush = 1` allows each kind of unasked message, or the end of the stream,
once. `MaxShutdowns = 2` covers the repeated shutdown. Every counter is capped
by a guard on the action that increments it.

In the subscription runs two listeners are what a global count needs to pass
through 0, 1 and 2; eight API calls let both register, start, stop and start
again, or unregister while subscribed. Two events show that commands of
different events do not disturb each other; the fan-out run has three, one for
each kind of subscription. A listener channel of one slot is full after one
notification, so two notifications reach the full-channel case. One
transaction id tells a stripped notification from a whole one. These runs do not
check for deadlock: a client whose owner makes no further call and whose server
sends nothing has nothing left to do.

The composite run keeps the one-slot request channel. Five API calls are
start, register, `start_notify`, `stop_notify` and `start_notify` again: three
commands of one operation, hence `MaxCalls = 3`. With a slot of one a command
waits for room behind the command before it, whose call timed out while the
transport had not taken it. `TimeoutTicks = 1` makes a pending expire after one
tick, which is enough for a command to time out while queued, at the server, or
answered and not yet read. The servers are the full one, the plain one and one
that handles notify commands without message ids: only against the last does
the client send Stop commands while it correlates by queue. `MaxPush = 2`
allows two notifications, so that one is forwarded while the other is still in
the stream, or a notification next to one that fails to convert or to the end
of the stream. `MaxShutdowns = 0`: shutdown is explored on the session alone
and, for what it leaves behind in the whole client, by `shutdown_pendings`;
with one shutdown this instance has more than four million states.
`MaxOtherCalls = 0`: the subscriber is the only caller. The other callers use
operations no command uses, so their pendings never match a command's
response; what they add is requests between the commands in the channel and at
the server. With one other caller making one call (`Callers = {sub, c1}`,
`MaxCalls = 3`, `MaxOtherCalls = 1`, `MaxOps = 4`, `MaxPush = 1`) both
properties hold over 510,182 states, in about five minutes.

That the bounds are large enough was confirmed by asking TLC for a state of
each kind, as the negation of an invariant under the run's own constants:

| Run | Reached |
|---|---|
| `correlation` | a response dropped in id mode; a call timed out while still waiting for room; a session in queue mode against a server that echoes ids |
| `shutdown` | a task that left by itself while `shutdown` was under way; a second `shutdown` returned; `shutdown` returned on a clear flag before the task triggered; a notification lost to a notifier that is gone |
| `call_liveness` | a pending whose call has returned |
| `wire_commands` | a refused command; two commands at the server at once |
| `fanout` | a dispatch to a listener whose channel is full |
| `client` | the subscriber's call completed by the answer to an earlier command; three commands issued; one notification forwarded and one still in the stream |

## Fairness

`FairSpec` assumes weak fairness of the steps the executor, the transport and
the timer take by themselves: a task that can leave its loop, clear its flag or
trigger does so; a caller admitted to the channel, failed or completed
continues; the transport keeps draining an open channel; time passes and the
monitor's delay elapses. tokio runs every ready task and `select!` polls a
triggered listener, which justifies these. Nothing is assumed of the server (it
need never answer), of callers starting calls, or of the owner calling
`shutdown`. The assumption that the transport drains is a real one: `send` has
no timeout, and a stalled connection blocks callers until the channel closes.

`Subscriptions` has no fairness and no liveness property: whether the call of
a command returns is a matter of `Inner::call`, which the module abstracts.

`Client`'s `ClientFairSpec` assumes weak fairness of the subscriber task taking
a command, of its call being admitted to the channel and returning, of the
transport draining the channel, of time passing and of the monitor's delay
elapsing while the monitor runs. Nothing is assumed of the server, the receiver
task or the listeners. Once the owner has shut the session down the monitor is
gone: `SubscriberGetsThrough` says so in its statement, and `shutdown_pendings`
is the case in which a call, and with it the subscriber, waits forever.

## Not modelled

* Queue keys finer than the operation: a member of `Ops` stands for an
  operation together with its key.
* Opening the connection (`Endpoint::connect`) and its timeouts.
* The payloads and their conversions, except whether the first response
  converts to a `GetInfoResponse`.
* A caller that drops the future of `call` before it returns.
* Address filters of UTXO subscriptions.
* A `try_send` at line 420 that fails although the notifier lives: the channel
  between the receiver task and the notifier (`NotificationChannel::default()`)
  has its source outside this tree and is taken as unbounded, so that the send
  fails only once the receiving end is gone (`NotifierGoes`, a step of
  `GrpcClient`; in `Client` the notifier lives as long as the session).
* In the composite, the server's pushes other than notifications are
  represented by the notification that fails to convert: an error status and a
  response without payload are, like it, read and passed over by the receiver
  task.
* In the composite, a request channel that closes under a queued command: the
  subscriber's call fails and its command is never sent, which `Subscriptions`
  has no step for.
* `DifficultyError`, the wRPC server crate root and the wallet account traits:
  declarations without behaviour.

## Possible extensions

1. A step of `Subscriptions` for a command that is lost with its call, so that
   the composite can include the closing of the request channel. The client
   does not reconnect, so such a step ends what the notifier can do on the
   wire; the session's side of it is what `call_liveness` checks.
2. The resolver and the notifier from their sources, once these are part of
   the tree: queue keys finer than the operation, address filters, and the
   channel between the receiver task and the notifier with its real bound.
3. The composite with other callers and with `shutdown` as regular runs, on a
   machine that gives them the time (see Bounds).

The contract of `shutdown` has no abstract specification of its own:
`ShutdownQuiesces` and `ShutdownTerminates` state all of it (no task is seen
running after the return, the return comes, a second call changes nothing).
