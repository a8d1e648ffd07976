# A verification project for the RMF2 Task Orchestrator

The orchestrator (`src/`, Rust, tokio + Bevy/crossflow) runs workflow diagrams whose nodes
command assets over AMQP and MQTT. This directory holds TLA+ models of the parts where
several tasks, brokers and assets meet, the TLC configurations that check them on small
instances, and proofs, checked by TLAPS, for every instance. Source files are named below
as `client/clients/amqp.rs` and so on, relative to `src/src/`.

## 1. The system

| Component | Source | State it keeps | Operations |
|---|---|---|---|
| AMQP request-response client | `client/clients/amqp.rs` 196-424 | `pending_responses` (task id -> oneshot senders, tokio mutex), one publish channel, one listener task | `connect`, `publish`, `request_response`, `await_response`, `response_listener_loop` |
| AMQP nodes | `node/amqp.rs` | none of their own | GoToNode: one `request_response`; DelayNode: a timer, then a publish; DefaultNode: nothing |
| Schedule consumer | `client/clients/amqp.rs` 97-194, `executor/amqp_handlers.rs`, `main.rs` | one task per delivery; what is unacknowledged lives in the broker | `run_consumer`, `consumer_loop`, `handle_workflow_execute` |
| MQTT handle | `client/clients/mqtt.rs` 74-174 | `subscriptions` (topic -> broadcast sender, DashMap), request channel, connection | `subscribe`, `publish`, the event loop of `connect` |
| EnsureMqtt | `client/clients/mqtt.rs` 183-208 | settings that are taken once | Bevy command that connects and inserts the resource |
| MQTT nodes | `node/mqtt.rs` | receivers, a message buffer, a timer | `mqtt_publish`, `mqtt_listen`, `mqtt_subscribe_and_wait`, `MqttDeviceReqNode` |
| Utility nodes | `node/utils.rs` | buffers of the workflow | CEL condition, consume_message, timer_countdown |
| Executor thread | `executor/mod.rs` | the Bevy app | `spawn`: AMQP client, node registry, update loop |
| Start-up, configuration, HTTP | `main.rs`, `config.rs` | `OnceLock` with the configuration | load, connect, spawn the consumer, bind, serve |

How they interact. An asset or the schedule service publishes to the fanout exchange
`@RECEIVE@`. Two durable queues are bound to it: the consumer's and the response queue, so
each of them sees every message. The consumer posts the diagram of a Schedule to the
process's own HTTP server; the executor runs its nodes as futures on tokio. A GoToNode calls
`request_response`, which files a oneshot sender under the task's URN, publishes and awaits;
the listener task matches TaskStatus messages to senders. MQTT nodes share one `MqttHandle`:
they receive from a broadcast channel per topic that the event loop feeds.

What is hard here: the map of waiters is changed by callers and listener in any order; the
listener reads its own requests and everybody's statuses; nothing is confirmed, nothing times
out; the process may die between any two steps while the broker redelivers; a handler lasts
as long as its workflow; the MQTT map is read and written in separate steps with an await
between them; channels are bounded; a reconnect loses the subscriptions; a wait races its
messages against a timer through queues whose order the wiring does not fix; two threads start
up together, and a panic on one must not leave half a process on the other.

What makes each component correct:

- client: a waiter is always findable and is woken by the next final status of its task, once,
  by nothing else; a published request does not fail; the map holds only what still can wait;
- nodes: what they hand on follows from a reply;
- consumer: acknowledged means succeeded; at most one run per process; a delivery does not wait
  for another's workflow;
- MQTT handle: order per receiver; a channel in the map is backed by a subscription; whoever
  loses its channel is told; `subscribe` returns;
- device requests: an asset that has the request can answer it, and the answer ends the node;
- subscribe-and-wait: a scope ends, once, with a message that arrived and that its condition
  accepts, or at most one frame before its time; the newest message is always looked at;
- start-up: the configuration is read once, one MQTT connection is opened, a node runs after
  the resource it needs, and a process serves with all its nodes or ends.

The hazards, each at its line, with the properties that would catch it, are in `PROJECT.json`.

## 2. The modules

| Module | Models | Built on |
|---|---|---|
| `RequestReply` | what `request_response` promises: no map, no queue, no listener | |
| `AmqpClient` | `AmqpClient`, with broker, connection and restart as environment; implements `RequestReply` | `RequestReply` (INSTANCE) |
| `AmqpNodes` | GoToNode and DelayNode as users of the client, liveness | `AmqpClient` |
| `ScheduleQueue` | what the consumer promises of a message: no tasks, deliveries, connections | |
| `ScheduleConsumer` | consumer, handler and start-up order; implements `ScheduleQueue` | `ScheduleQueue` (INSTANCE) |
| `TopicFeed` | what the handle promises a node that listens: no map, no channels, no requests | |
| `MqttHandle` | subscribe, publish, event loop, receivers, broker session; implements `TopicFeed` | `TopicFeed` (INSTANCE) |
| `DeviceRequest` | MqttDeviceReqNodes and one asset | `MqttHandle` |
| `WaitForMatch` | what `mqtt_subscribe_and_wait` promises: no broker, buffer, frames | |
| `CelCondition` | `cel_condition` as operators on messages, and what the docs say it means | |
| `SubscribeAndWait` | the scope: listen node, buffer, condition, timer; implements `WaitForMatch` | `MqttHandle`, `CelCondition`, `WaitForMatch` (INSTANCE) |
| `Startup` | main thread, configuration, Bevy thread, EnsureMqtt commands | |
| `MCAmqpNodes`, `MCScheduleConsumer`, `MCMqttHandle`, `MCDeviceRequest`, `MCSubscribeAndWait`, `MCStartup` | instances for TLC | |
| `AmqpClientProofs`, `AmqpNodesProofs`, `ScheduleConsumerProofs`, `StartupProofs`, `MqttHandleProofs`, `DeviceRequestProofs`, `SubscribeAndWaitProofs` | theorems | the modules they name |
| `TopicFeedProofs` | `MqttHandle` implements `TopicFeed` | `MqttHandleProofs` |

Operators named "Defective variant" in a comment stand before the action they vary. No
specification uses them; putting one in the place of its action makes a property fail, which
shows that the property can fail.

### AmqpClient

| Variable | Code |
|---|---|
| `call[c]` | where a `request_response` is: sender stored (`registered`, line 394), published (`awaiting`, 400), ended |
| `key[c]`, `reply[c]` | its `task_id`, what was sent into its oneshot channel |
| `pending` | `pending_responses`; a sender is named by the call that made it |
| `queue`, `buffer`, `inHand` | unsettled messages in the broker, the consumer's stream, the delivery the loop holds |
| `listener` | the await `response_listener_loop` stands at |
| `link`, `pubChan` | connection and publish channel: fine, gone but unnoticed, known to be closed |

Each critical section of the mutex is one step (it is never held over an await), and so is each stretch between awaits: `Register`, `Publish`/`PublishFails`,
`AwaitResponse` on the caller's side, `NextDelivery`, `Dispatch`, `Ack` on the listener's.
`DropCall` is a cancelled workflow. `Restart` is the death of the process at any point and the
start of the next one: the map is empty, and the broker delivers what was not acknowledged.

What the code does and the model keeps: the `?` after `publish` leaves the sender in the map;
publishing without confirms succeeds on a connection that is already dead; a publish to an
undeclared exchange closes the channel that all calls share; the error arm of
`await_response` removes only an empty entry (no entry ever is: `PendingExact`); the listener
ignores the result of ack and of every send.

Data: a message is its type, key and status. The key is the text before `:TaskStatus`; any
other text of an id is a key nobody waits for. Statuses that JSON can express but no one
sends are covered by "not final".

### ScheduleConsumer

`broker[m]` says where the broker has a message, `task[m]` how far the process is with its
delivery, `main` and `consumer` how far start-up is. `Boot`, `SpawnConsumer`, `Bind` follow
`main.rs` in their order, `QueueBound`/`SetupFails` are the set-up of `run_consumer`, and
`SpawnHandler` ... `Nack` are the loop and the spawned task. A workflow is one step that
succeeds or fails. `LinkLost` and `Crash` requeue; on a lost link a task goes on, and its ack
settles nothing. The consumer never reconnects. `lastRun` and `succeeded` are history: who ran
a message last, and what succeeded.

`ScheduleQueue` sees of this a message that is held, lost, accepted or rejected, the workflows
that run and the number of the process. Under the mapping `Queue` a message is held while the
broker has it, delivered or not; `Crash` is the end of a process, `Post` a run, an ack or nack on
a connection that is up a settlement, and all else stutters.

### MqttHandle

One step per access to the DashMap and per await: `CheckMap` (95-98), `SendRequest` (99-104),
`Insert` (105), `PollReceive` with `PassOn` (149-152), `RemoveDead` (153-154). `entry[t]` is the sender in
the map: a channel is named by the subscriber that created it. `PollReceive` sends to the
receivers of the channel that is in the map; a receiver lives while its node does
(`sub[s] = "listening"`). `Push` is a tokio broadcast channel: when full it loses its oldest
message. `SenderAlive` says whether `recv` can still return anything but `Closed`. `PollSend`
and `Disconnect` are rumqttc with a clean session (the options that `connect` sets leave it
clean): on an error rumqttc drains the request channel, and a new session clears what it has drained, so
the broker forgets the subscriptions and every request that waits is lost.

`TopicFeed` sees of this, per node, whether it listens and the number of the last message it
read, and per topic how many messages were passed on to the client. A node reads a later message
of its topic each time; from its first one on it misses none, unless more than a channel holds are
waiting or a connection was lost. Under the mapping `Feed` an insert or the look-up that finds a
channel is `Join`, `Recv` is `Read`, the broker's routing `PassOn`, and whatever ends a receiver `End`.

### DeviceRequest

Nodes are pairs of subscribers of `MqttHandle`, one per topic, and a publisher. `phase[n]` is
the place in `mqtt_device_req_node`; every step of a node is a step of the handle together
with a change of phase. The asset works on `jobs` one by one and reports as it likes. It may
have a job of someone else from the start.

### CelCondition and SubscribeAndWait

| Variable | Code (`node/mqtt.rs` 199-265) |
|---|---|
| `scope[w]` | not begun, running, or how it ended |
| `stream`, `buffer` | messages of the listen node on the way to `msg_buffer`, which keeps the newest |
| `firings` | how often the listener of the buffer is due |
| `remaining`, `timer` | `time_buffer`, the order at `timer_countdown` |
| `sinceFrame` | the time since the last update of the Bevy loop, the next `delta_secs` |
| `output`; `heard`, `passed` | what came out; history for `WaitForMatch` |

A wait is a subscriber of `MqttHandle`: `StartListen`, `Hear` and `ListenStep` are the future of
the inner listen node, one step of the handle each. `scope.start` is cloned into three branches
(`StartListen`, `StoreTime`, `AskTimer`) that go on in any order, and so do `BufferMessage`,
`Consume` and `TimeOut`: nothing is assumed of the order in which crossflow performs what is
queued, except that one link keeps its messages in order. `Tick` is time passing, for
the scopes that run (`passed`) and for the loop (`sinceFrame`). `Frame` is one run of the timer service: it
takes the time since the last run from every order whose time is in its buffer, also from an order or a scope that
came after that run, as `delta_secs` does, and completes those that reach 0. The longest time between two runs is
`MaxFrame`; that Bevy counts less than it for a very long frame only delays a time-out and is left out. Terminating the
scope drops its buffers, orders and queued operations; the future of the listen node goes at
its next await (`Drop`). An `Err` of that node goes nowhere, as in the code.

A condition compares one value of the message, named by a path, with a literal: enough to
tell apart true, false, error (a variable or key that is not there, a condition that does not
compile) and the flattening of objects into variables. `Means` is what docs/nodes.md and the
comment at `node/utils.rs` 81 say, `Accepted` what the code does. The promise is built on `Accepted`
(`Accepting`), the finding `NoMatchSkipped` on `Means` (`Wanted`), and `ReadAsDocumented` says when the two agree
and what is read when they do not: if the message has a field named `message` and the path begins with that prefix (`Hidden`),
it is the field (`MeansField`).

### Startup

`machine` is what the process finds: mode, env file, config.toml, whether the sections fit. `main`,
`thread` and `router` are the two threads and the channel between them. `Load` is
`load_base_configuration`: called by main and, as main passes no MQTT settings, by
`EnsureMqtt::new` on the Bevy thread. A panic there drops the sender of the router. `Build` is
the building of a diagram: every MQTT node queues an EnsureMqtt, also when the diagram turns
out not to be buildable; `ApplyCommand` is Bevy applying its queue in order. Connecting to AMQP,
binding and serving succeed or fail.

## 3. The runs

| Run | Checks | Shows |
|---|---|---|
| `amqp_nodes_safety` | `NodesTypeOK`, `WaitersRegistered`, `PendingExact`, `RepliesAreFinal`, `OutputAfterReply`, `NeverFailsAfterPublish`, `PromiseSpec` | no lost wake-up, exact map, right replies; the client implements `RequestReply` |
| `amqp_nodes_live` | `FinalStatusCompletesGoTo` | a delivered final status completes every node waiting for the task, also when the connection goes at once, also when a DelayNode sent it |
| `schedule_consumer` | `TypeOK`, `AckedMeansSucceeded`, `UnackedIsHeld`, `KeepsQueue`, `RunsOncePerBoot`, `TakenUp` | ack after success, one run per process, no head-of-line blocking; the consumer implements `ScheduleQueue` |
| `schedule_startup` | violates `DiscardedWasRun` | a Schedule that is delivered before the HTTP server listens is thrown away |
| `mqtt_handle` | `TypeOK`, `InOrder`, `EntryBacked`, `OrphanIsTold`, `SubscribeReturns`, `KeepsFeed` | order and lag per receiver, map and broker agree, losers of a channel are told; the handle implements `TopicFeed` |
| `mqtt_removal` | violates `RemovesOnlyDead` | the removal after a failed send can take a channel that has a receiver again |
| `mqtt_reconnect` | violates `ListenerIsServed` | after a reconnect listeners hear nothing and are not told |
| `device_request` | `DeviceTypeOK`, `AssetCanAnswer`, `OutcomeEndsNode` | the asset can answer each request it got; outcomes end the nodes that wait |
| `device_own_task` | violates `OkMeansDone` | a COMPLETED of an earlier task ends the new request |
| `subscribe_and_wait` | `WaitTypeOK`, `NewestIsConsidered`, `ReadAsDocumented`, `ScopeEnds`, `KeepsPromise` | the scope ends, once, rightly, and no more than a frame early; the last message is looked at; a condition means what the docs say of every message without a field named `message`, and reads that field of the others; the node implements `WaitForMatch` |
| `wait_skips` | violates `NoMatchSkipped` | a matching message is overwritten in the buffer before the condition sees it |
| `startup` | `TypeOK`, `LoadedOnce`, `OneConnection`, `HandleBeforeUse`, `ServesWithNodes`, `StartsOrEnds`, `RequestAnswered` | one load, one connection, no server without nodes, start-up and requests come to an end |

The five violations are behaviours of the code that a doc or a comment of the repository
contradicts; `PROJECT.json` quotes each one. Five more disagreements are seen in the models and
have no run:

- `response_listener_loop` (`client/clients/amqp.rs` 329) knows COMPLETED and ERROR;
  docs/interfaces.md 42 lists FAILED. Such a status is in the models one that is not final, and
  its GoToNode waits on.
- `node/amqp.rs` 249 hands on `{"status": "ok"}` also when nothing could be published, while
  docs/nodes.md 6 has the node wait for the TaskStatus (the second disjunct of `OutputAfterReply`).
- Two nodes that subscribe to a topic at the same time each make a channel, and the second
  insert (`client/clients/mqtt.rs` 105) cuts off the first, where the comment at line 94 has the
  second share it. `OrphanIsTold` shows that the node that lost its channel at least ends.
- A message with a field named `message` hides itself from a condition (`node/utils.rs` 91-95):
  `message.state`, the form docs/nodes.md uses, then looks into the field. The Err output of
  `cel_condition` has such a field, so two conditions in a row meet the case, and so does a device
  that adds a text of that name to its state. `subscribe_and_wait` has such a message: it says IDLE, the scope
  waits for IDLE, and passes it over. `ReadAsDocumented` shows that no other message is misread.
- docs/nodes.md 30 has the `Timeout` error when nothing matches "before the timeout". The first frame of a
  timer takes off the time since the update before it (`node/utils.rs` 123), in which the scope
  may not have been there: the time-out comes up to one frame early. `KeepsPromise` says that it is never more,
  and no less will do: with a time of 2 and frames of 2 TLC finds a time-out at once, with `passed` still 0.

Every cfg switches the deadlock check off: calls, messages, restarts and deliveries are finite
in each instance, and all the components do stop when everything has been delivered.

### Bounds

- Two callers are enough for what callers do to each other: they meet only in one entry of
  `pending`, and its treatment is the same for each sender. Two tasks give right and wrong keys.
- `MaxQueue = 2` bounds what an asset adds; publishes of the nodes come on top. Two messages
  in the queue give every order of a final and a non-final status, of a request and a status.
- One restart gives redelivery to an empty map. Callers begin anew after it.
- `MaxBoots = 2`, four messages of three kinds: both Schedules can be at any two stages.
- `MaxMessages`, `ChannelCapacity = 2`, `RequestCapacity = 1`: small enough that the channels
  of 16 and 64 overflow and block as they would with more traffic. `mqtt_handle` sends up to
  four messages into a channel of two.
- `device_request` uses channels that hold what is reported: `OutcomeEndsNode` is about a
  receiver that does not lag. With a lagging receiver an outcome can be lost for good, since
  no report is repeated and the node has no timeout.
- `subscribe_and_wait`: one wait with a time of 3 and one with a bad qos and a time of 0, steps of
  2 and frames of no more (so that the last one overshoots, and the first may be one before the scope's start), one
  message of a device that has a field named `message` or does not parse, one matching message of another workflow, one connection loss in any place. `wait_skips`
  has one wait and one message more.
- `startup`: diagrams with two, one and no MQTT nodes give commands of one diagram after
  those of another that was rejected half-way. All 32 machines are initial states.
- Symmetry is used only in `amqp_nodes_safety`, where callers are interchangeable and nothing
  is a liveness property.

### Fairness

Weak fairness for what tokio polls: the listener task, the futures of nodes, the spawned
handlers, the MQTT event loop; and for the broker's delivery to a consumer that is there. The
MQTT event loop selects between its requests and the network without a preference that could
starve one, so each is weakly fair. `Reconnect` is fair in `MqttHandle` alone: the loop retries for
ever, and the property it serves (`SubscribeReturns`) is meaningless while the broker is away.
In `SubscribeAndWait` time passes and the Bevy loop runs for ever, so frames come and what a scope has queued for
its timer is performed; the listen node and the messages are not fair, since a scope must end without
them. In `Startup` each thread goes on and every await of main is answered, by a success or an error.
Nothing is assumed of assets, other timers, workflows, the connection, cancellation or restarts.

## 4. The proofs

All for any set of callers, keys, statuses, messages, diagrams and any bounds, from the assumptions on
constants in `ClientAssumption`, `NodesAssumption`, `ConsumerAssumption`, `StartupAssumption`,
`HandleAssumption`, `DeviceAssumption` and `WaitAssumption`, which TLC evaluates in the runs. No theorem has a hypothesis
beyond these: what is said of conditions is said of every message, whatever its fields are named.

- `AmqpClientProofs`: `TypeCorrect`, `NoLostWakeup` (`WaitersRegistered`), `MapExact`
  (`PendingExact`), `RepliesFinal`, `PublishedNeverFails`, and `KeepsPromise`: `AmqpClient`
  implements `RequestReply` under the mapping `Promise`. The invariant is the conjunction of
  `TypeInv` (types; a call that has begun has a key; what the listener holds matches its place
  in the loop; while the link is up the broker's unsettled messages are what the listener holds
  followed by its buffer, so that an ack settles the right one) and `WaitInv`
  (`WaitersRegistered`, `PendingExact`, `RepliesAreFinal`, and no idle call has a reply).
  `WaitersRegistered` is not inductive alone: `Dispatch` removes a whole
  entry, and only `PendingExact` says that all senders in it were filed under its key, so that
  each of them is answered in the same step. `PublishedNeverFails` follows: a call that
  awaits has its reply or a live sender. For the refinement `Dispatch` of a final status is
  `Answer`, every other step of the listener and of the environment is a stutter.
- `AmqpNodesProofs`: each step of the composed system is a step of `AmqpClient` or leaves it
  alone (`NodesImplementClient`), so all of the above holds with nodes on top
  (`NodesKeepPromise`); `NodesTypeCorrect`; `OutputWithReply`, whose invariant adds that a call
  fails only on a closed channel or connection, and that neither opens again before a restart.
- `ScheduleConsumerProofs`: `TypeCorrect`, `AckAfterSuccess`, `OneRunPerBoot`, `UnackedHeld`,
  `ImplementsQueue`. `RunsOncePerBoot` needs the strengthening `FreshIsUnrun`: a message that this
  process may still run (buffered, with a handler that has not posted, or deliverable on the
  connection that is up) was last run by an earlier process. It is preserved because what a lost connection requeues
  is not fresh: the consumer does not come back. `ImplementsQueue` also needs `WorkedOnIsHeld`: the
  broker keeps a message as long as a task works on it, so a run is always of a message that is
  held, and a nack on a lost connection settles nothing.

- `StartupProofs`: `StartupTypeCorrect`, `ReadOnce`, `ConnectsOnce`, `HandleFirst`, `ServesComplete`.
  `HandleBeforeUse` needs `RunsGuarded`: ahead of each request in Bevy's queue whose diagram has MQTT
  nodes there is a command of an MQTT node, unless the handle is there already; and
  `SettingsOrHandle`: a command finds the settings or a handle. So applying a command always leaves
  a handle, and taking one off the queue never uncovers a request without it. `ThreadsAgree` and
  `LoadedBefore` say what the two threads know of each other: main passes the channel only when
  the thread loops, and the thread starts only with a configuration that has been read.

- `MqttHandleProofs`: `HandleTypeCorrect`, `ReceivedInOrder` (`InOrder`), `MapBacked` (`EntryBacked`).
  `InOrder` says of the messages in a channel that they have no gap; that the next one to arrive
  fits behind them is a fact about what is still on its way. `OrderInv` follows a message from
  the broker: what is on its way is the newest of its topic without a gap (`InboundNumbered`), all
  of it newer than what a receiver has (`InboxOlder`), and while the connection holds it continues what
  a receiver has whose channel is in the map (`Attached`, `InboxContinued`). A detached receiver gets
  nothing more, as a channel that was cut off never gets back into the map: only its creator inserts
  a channel, once, and nobody listens to it before (`ChannelsMade`). `EntryBacked` needs
  `InsertBacked`: from the request on a subscriber has its SUBSCRIBE at the broker or in the request channel.
- `TopicFeedProofs`: `ImplementsFeed` (`KeepsFeed`). In every step of the handle `Recv` is the only one that
  has to be justified: the message that is read is either the next one, or the channel has lost
  the oldest. `LostOnlyWhenFull` says that the channel is then full, `Spaced` that its last message
  is therefore as far ahead as a channel holds, and `CaughtUp` covers the receiver that has read
  everything: the next number is still on its way and not lost.
- `DeviceRequestProofs`: `DeviceTypeCorrect`, `AssetAnswers` (`AssetCanAnswer`), `NodesReceiveInOrder`. Each
  step of a node or the asset is a step of the handle or a departure of both receivers of a node, which
  is no step of the handle but keeps its invariant. `AssetCanAnswer` needs `SubscribedFirst`: a node that
  may publish has its responses subscribed or requested (from `EntryBacked`, also when it has only
  joined a channel of another node), and each publish in the request channel stands behind such a
  request, so that the asset gets it second.
- `SubscribeAndWaitProofs`: `WaitTypeCorrect`, `NewestConsidered`, `ScopesKeepPromise` (`KeepsPromise`),
  `ConditionAsDocumented` (`ReadAsDocumented`); and, as the scopes use only the operations of the handle
  (`ScopesUseHandle`), `ScopesReceiveInOrder` and `ScopesAreFed`. The invariant says of each scope what its parts know
  of each other: what is in stream and buffer was parsed, and the buffer is in the history (`Parsed`);
  the remaining time, the time that has passed and one frame make up at least the time-out and what the next frame
  will take off, so that an order that is due is at most a frame early (`Timed`); nothing of a scope is left when it ends (`Scoped`); a countdown
  overshoots once, by less than a frame (`Counted`). What is known about conditions is `AcceptedAsRead`: the
  evaluation over variables comes to what the docs say, but for the prefix of a message that a field hides.

Two proof attempts corrected the models. An earlier `EvalCondition` was a CASE with guards
that overlap, whose value TLC and the provers may choose differently; `EvalCondition` now says which
error comes first. And `WaitAssumption` left open what a condition may be, so that a literal could be the
error value itself.

Only model-checked: all liveness (`FinalStatusCompletesGoTo`, `TakenUp`, `OrphanIsTold`,
`SubscribeReturns`, `OutcomeEndsNode`, `ScopeEnds`, `StartsOrEnds`, `RequestAnswered`) - the prover
handles neither ENABLED nor fairness. Every safety property of the passing runs is proved.

## 5. Not modelled

- The CEL language beyond a comparison of one value with a literal, lists and their indices, JSON
  parsing beyond its outcome; qos levels, retained messages and last-will messages of MQTT,
  wildcards in topic filters (a topic is matched as it is), and topics that the client rejects as malformed; the
  diagrams that crossflow runs and the order in which it performs what is queued.
- The values of the configuration, the HTTP server's and the editor's own code: I/O and libraries.
- Confirmation and flow control of the broker beyond what the code uses.

## 6. Plan

Order of work, most important first; 1 to 12 are done.

1. `RequestReply`, `AmqpClient`: the shared listener and its map. Runs, refinement, proofs.
2. `AmqpNodes`: nodes on top, liveness, proofs of the composition.
3. `ScheduleConsumer`: delivery, run, settlement, start-up. Runs, proofs.
4. `MqttHandle`: the shared map and event loop. Runs.
5. `DeviceRequest`: device nodes over the handle. Runs.
6. `SubscribeAndWait` over `MqttHandle`, `CelCondition`, `WaitForMatch`: the race of messages and
   timer, and its refinement. Runs.
7. `Startup`: configuration, threads, EnsureMqtt. Runs.
8. `ScheduleQueue`: the consumer's promise. Refinement checked and proved.
9. Findings: the disagreements of code and docs.
10. Proofs about `Startup` for any diagrams.
11. Proofs about `MqttHandle` and `DeviceRequest`; `TopicFeed`, the handle's promise, checked and proved.
12. Proofs about `SubscribeAndWait`, its promise among them.
13. Left: what the refinements say of the composed systems, where it is not stated yet (device nodes
    over `TopicFeed`, whose departures the handle does not have).
