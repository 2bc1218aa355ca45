# A verification development of amq

amq is a Node.js library that offers background jobs, remote procedure calls and
publish/subscribe over RabbitMQ, on top of `amqplib`. What makes it hard is not any one of
those services but that all of them must survive channels that close, connections that
drop, and callers that dispose of things, while promises wait and timers run. This
directory holds TLA+ models of that core, TLC configurations that check them on small
instances, and proofs, checked by TLAPS, of the safety properties of all of them for
instances of any size.

`PROJECT.json` is the index: which definition models which lines (`map`), what each run
checks (`runs`), a plausible bug in the code that each property would notice (`mutants`),
what in this code is hard to test and which property covers it (`hazards`), where code and
documentation disagree (`findings`), and the proved results (`theorems`).

Files are named below without their directories under `src/src`, where the names are unique.

## The system

| Component | State it keeps | Operations | Talks to |
|---|---|---|---|
| `AmqpChannelExecutor`, `AmqpConnectionExecutor` | `isCancelled`, the maps of cancel and resume callbacks, one loop per call | `execute`, `resumeAll`, `cancelAll` | asks its container for a resource; its owner hears "resource became unavailable" |
| `AmqpChannelContainer`, `AmqpConnectionContainer` | the resource or null, the callbacks that wait for one | `set`, `getWhenAvailable`, forwarding of the resource's events | the executor waits on it |
| `AmqpConnection` | `amqplibConnection`, `isDisposed`, `isRecreatingChannel`, a container, an executor | `connect`, `recreateChannel`, `dispose`, the handlers of `close`, `error`, `return`, the commands | amqplib; announces `closed` and `channelRecreated` |
| `AmqpConnectionWrapper` | `state`, `isReconnecting`, a container of connections, an executor | `connect`, `reconnect`, `dispose`, event handlers, the commands | the initializer; announces `closed`, `reconnected` |
| `AmqpConnectionInitializer`, `AmqpConnectionProvider` | `initializationPromise`, `isCancelled`, the attempt number | `initializeConnection`, `cancel` | creates an `AmqpConnection`, calls its `connect()` |
| `AmqpDisposer` | the set of disposals under way | `disposeConnection`, `disposeChannel`, `flush` | closes amqplib objects, with a timeout |
| `JobServer`, `JobHandlerManager`, `Scheduler` | `state`, the handlers, the stale-job timers | `listen`, `setHandler`, `dispose`, `handleJobMessage`, `retry`, `discard` | consumes the job queue, publishes to the retry queues |
| `MessageRelevancyChecker` | correlation id -> latest delivery tag | `lock`, `getDeliveryTag`, `unlock`, `unlockAll` | used by `JobServer` and `RpcServer` |
| `JobQueueConsumer`, `JobQueueInitializer`, `JobRetryQueueProvider` | consumer tag, cached initialization promise | `consume`, `cancelConsumption`, `initialize`, `reset`, `dispose`, `create` | queues and exchanges of the broker |
| `JobClient` | the queue initializers by queue | `performInBackground`, `dispose` | publishes jobs |
| `RpcClient`, `CommandSender`, `CommandManager`, `ReplyQueueConsumer` | the pending commands by correlation id, `isInitialized`, the reply queue | `executeRemoteCommand`, reply and return handlers, timers, `dispose` | publishes commands, consumes replies |
| `RpcServer`, `CommandReceiver`, `CommandQueueConsumer` | handlers by command, relevancy checker | `listen`, `handleCommandMessage`, `dispose` | consumes commands, publishes replies |
| `PubSub` | a Set of consumer tags by topic | `publish`, `subscribe`, `unsubscribe` | exchanges and exclusive queues |
| retry delay calculators | none | `calculate` | `Scheduler` |

Everything that reaches the broker goes through a command of an executor: a job server's
acknowledgement is a command of `AmqpConnectionWrapper`, which runs as a command of the
`AmqpConnection` in its container, which runs on the channel in *its* container. A lost
channel is repaired by the `AmqpConnection`; when it cannot, it disposes of itself and
announces `closed`, and the wrapper repairs the connection. Events go up the same way:
`channelRecreated` and `reconnected` make the consumers consume again.

### What is hard about it

- **Interleaving.** JavaScript runs one task at a time, but every `await` is a point where
  anything else may happen: `dispose()` while `connect()`, `recreateChannel()` or
  `reconnect()` awaits; a channel's `close` while one of its commands is about to fail.
- **Wake-ups.** A command waits for a resource or for `resumeAll()`; if nobody is about to
  call them it waits for ever (or for its timer).
- **Late events.** A command that fails because of an old channel asks for a new channel
  when the new one may already be there.
- **At least once.** The broker delivers again whatever was not acknowledged, and delivery
  tags start again with every channel; the job server matches messages by correlation id.
- **Disposal.** Nothing may stay open, and nobody may stay waiting.

### What makes each part correct

- executor: each call settles once; a retryable one is never rejected because its resource
  went away; cancelling settles all of them; no attempt is begun after a timeout.
- `AmqpConnection`: the container holds an open channel or none; as long as somebody waits,
  a recreation is under way; only a dead channel is replaced; no channel is leaked;
  `closed` is announced exactly once.
- `AmqpConnectionWrapper`: the same one level up, with at most one connection open.
- `JobServer`: until a job is finished the broker has a message of it; attempts are counted
  exactly; a message is acknowledged for an attempt that is over; two runs of a job do not
  overlap; a job that can be read finishes.
- `JobClient`: a call that returns has put its job into the queue.
- the retry queues: a retry comes back, on time, after a delay within its bounds.
- `RpcClient` and `RpcServer`: every call settles once, with an answer that a handler gave
  to it; a command is not handled twice at once; while a caller waits, the broker has its
  command or the reply to it.
- the consumers: a queue is consumed once it is declared and bound, again after every loss,
  and not after `dispose()`.
- `PubSub`: every subscription has a queue of its own; whoever consumes can be
  unsubscribed; `unsubscribe(topic)` leaves nobody.

## The modules

| Module | Models | Builds on |
|---|---|---|
| `CommandExecution` | what `execute()` promises: an abstract specification | |
| `Executor` | the retry loop of both executor classes | |
| `AmqpConnection` | one connection and its channels; implements `CommandExecution` | `Executor` |
| `AmqpConnectionProofs` | its theorems | `AmqpConnection` |
| `AmqpConnectionInitializer` | the attempts of `initializeConnection()` | |
| `AmqpConnectionWrapper` | the reconnecting connection; implements `CommandExecution` | `Executor`, `AmqpConnectionInitializer` |
| `AmqpConnectionWrapperProofs` | its theorems | `AmqpConnectionWrapper` |
| `JobServer` | job server, relevancy checker, scheduler, on a broker and a channel that may be lost | |
| `JobServerProofs` | its theorems | `JobServer` |
| `RemoteCall` | what `executeRemoteCommand()` promises: an abstract specification | |
| `Rpc` | `RpcClient` and `RpcServer` on a broker; implements `RemoteCall` | |
| `RpcProofs` | its theorems | `Rpc` |
| `QueueListener` | how the job, command and reply queues come to be consumed, and again | |
| `QueueListenerProofs` | its theorems | `QueueListener` |
| `PubSub` | the subscriptions of one topic | |
| `PubSubProofs` | its theorems | `PubSub` |
| `JobClient` | `performInBackground()` and its queue initializers | |
| `JobClientProofs` | its theorems | `JobClient` |
| `RetryQueue` | retry delays and retry queues on a clock | |
| `RetryQueueProofs` | its theorems | `RetryQueue` |

The modules of proofs extend `TLAPS` and, where sets are counted or sequences taken apart,
`FiniteSetTheorems` and `SequenceTheorems`. `MC*.tla` give the constants small values;
`MC*.cfg` are the runs.

`AmqpConnectionWrapper` composes the connection's promise, not its module: a connection is
as much as `AmqpConnection` shows of itself. The modules above it (from `JobServer` on)
take from the core what it is shown to promise: a command is repeated until the broker has
answered it, if it is a retryable one; it may be rejected after its timeout; a lost channel
or connection is restored and announced.

### How time is modelled

A Node.js process takes a task (an answer from the network, a timer), runs it, then runs
every promise continuation that it queued, and only then takes the next task. Handlers are
actions; each `await` ends one. Actions that begin a task have the guard `Quiet`: no
continuation is queued. Continuations and the calls an application makes have no such
guard, because the application may call from a continuation, and any order among queued
continuations is allowed: this is more than Node.js does (its queue is FIFO), so what holds
here does not rest on the number of microtask hops of an `await`.

### Executor

`pc[c]` says where the loop of call `c` stands: `waiting` in the container's
`getWhenAvailable()`, `ready` when that promise has been resolved but not continued,
`running`, `lost`/`closing` when the command has thrown and the catch block is queued,
`suspended` on its resume callback, `delayed` in the pause after it. `on[c]` is the resource
that the attempt was given. `outcome[c]` is the caller's promise; after a timeout the two
part, since the loop goes on until it looks at `hasTimedOut`. `CommandExecution` knows only
`outcome` and `isCancelled`.

The callback maps are not variables: the waiting callbacks are the loops at `waiting`, the
resume callbacks those at `suspended`. `Execute`, `Again`, `TimeOut`, `Finish` are the parts
of `execute()`; `BecameAvailable`/`GivenTo` are the container's `set()`, `Resumed` is
`resumeAll()`, `Stopped`/`Rejected` are `cancelAll()`.

### AmqpConnection

`amqplib` and `chan` are the state of amqplib's objects, `channel` the one in the container,
`creation` the progress of the `create()` that `recreateChannel()` awaits. `Dispose` and
`RecreateChannel` are the bodies of the methods, called by several actions. A closing
connection keeps its channels open until it is closed, then closes all of them and itself in
one task (`ConnectionClosed`), as amqplib does. `FirstChannelRefused` leaves `isDisposed`
set, and `Connect` may come again on the same object, because that is what
`AmqpConnectionInitializer` does.

What a command asks of the broker (assert a queue, send, acknowledge ...) is left out: they
are all one call of `execute()` with `retryOnError` or without. The report `staleCommand`
and the events `error` and `return` change no state.

### AmqpConnectionInitializer and AmqpConnectionWrapper

The initializer's loop creates one connection object and calls `connect()` on it at most
`MaxAttempts` times. `AmqpConnectionWrapper` composes it with `reconnect()`, `dispose()` and
an executor whose resources are connections. A connection is `live`, `disposed`, or
`hollow` (connected without channel and listeners: see "Findings"), which is as
much as `AmqpConnection` shows of itself; `ConnectionLost` stands for every way in which
that module announces `closed`.

### JobServer

The broker is a set of message places (`ready`, `unacked` with a tag, `delayed` in the retry
queue); a run is one execution of `handleJobMessage()` past `lock()`. `locks` is the
relevancy checker's map. `Complete` is the end of `handleJobMessage()`: it acknowledges the
tag that the map has *then*, whichever message that is. `handled`, `finished`, `exhausted`
are history variables, and so are `entangled`: the jobs of which a run has published two
messages of next attempts, or the message that a run has published returned before that run
was over, and `adrift`: the jobs of which a run had called `scheduler.retry()` and was over
before the broker had a message of it. A lost channel returns unacknowledged messages to the
queue; the next channel starts its tags again. An acknowledgement with a tag that the new
channel does not know makes the broker close it (`doomed`), and so does, in the model, an
acknowledgement that is lost together with its channel.

`scheduler.retry()` is called by the server, which awaits it, or by the handler, with
`resetAttempts` or without, who goes on and need not wait (`Callers`; at most once per run
in the model, where the code allows more). It awaits two commands, one after the other:
`QueueCreated` is the answer to `create()`, `RetryPublished` the arrival of `sendToQueue()`
at the broker, `RetryConfirmed` its confirmation; `step` says how far it is. When the
channel is lost before the confirmation, only `sendToQueue()` is sent again. By then the
retry queue that `create()` has declared may have expired, or be about to expire, and the
message is dropped though the broker confirms it: `RetryDropped`, with `LateSends = TRUE`.
(*How* late that is, is the subject of `RetryQueue`.) `RetryFails` is a `retry()` whose
command timed out: when the server has called it, `handleJobMessage()` rejects and the lock
stays. The message may still get to the broker (`abandoned`), and so may that of a `retry()`
that the handler did not wait for, when its run is `over`. `published` are the messages that
a run's retries put into the retry queue; with `EarlyReturn = FALSE` they return only when
that run is over, that is, when the retry delay is longer than what is left of it. The check
at the top of the try block that discards a message beyond the last attempt is not modelled,
because no such message exists (`TypeOK` shows it).

### Rpc and RemoteCall

`Rpc` puts a client and a server on one broker, each with a channel of its own. `pc[c]` is
where `sendCommand()` of a call stands, `status[c]` the entry of the `CommandContainer`,
`outcome[c]` the caller's promise: the two differ while `sendToQueue()` is awaited, when a
reply, the timer, a `return` or `dispose()` sets a status that nobody waits for yet.
`consuming` is the progress of `ReplyQueueConsumer.consume()`; a second call finds
`isInitialized` set and does not wait for it. `sendToQueue()` is two steps, `SendReaches`
and `SendConfirmed`, so that a channel lost in between has the command sent again
(`copy`). A command that has timed out is not called back: `pc` is then `abandoned`, and the
message may still arrive; the same goes for the server's replies, and for the commands of
`consume()` (`late`). A command message expires with the caller's timer (`CommandExpires`),
the reply queue when nobody consumes it (`ReplyQueueExpires`). On the server, `lock[c]` is
the copy whose tag the relevancy checker has, and `run` the executions of
`handleCommandMessage()` with the reply in two steps likewise. `Malformed` are commands
whose content `deserialize()` throws on (of another client: a `CommandSender` sends what can
be read). That call is outside any `try`: `handleCommandMessage()` rejects with the lock
taken and nothing acknowledged, which `Deliver` is.
What happens to acknowledgements is as in `JobServer`. To listen again after a lost channel
is one step here; what may go wrong in between is the subject of `QueueListener`.

`RemoteCall` sees `outcome`, what handlers have given, what was returned and `isDisposed`.
`AnswersAreTheCalls` is the refinement: a call settles once, with an answer only if a
handler gave that answer to that very call, however replies are repeated or come late.

### QueueListener

Three classes consume a queue, and consume it again after `channelRecreated` and
`reconnected`: `JobServer`, `CommandReceiver` and `CommandSender`. `kind` says which one it
is. A pass is one `initialize()` and `consume()`, or one `consume()` alone, with `pc` at the
command that it awaits; `promise` is the pass whose `initializePromise` is the current one.
A pass whose command ran on the lost channel is repeated by the executor beside the pass
that the event begins: `overlapped` remembers that, and the properties name it as their
exception. The queue of a command receiver may be exclusive and is then gone with the
connection. `QueueNotFound` is the 404 of the broker, which closes the channel.

A pass may time out at each of its commands (`Fails`), which rejects the pass but does not
call back the command: one that still waits for its channel stays as a `late` one, and may
be run by the broker with nobody to go on; a `consumeQueue()` that the broker has carried
out leaves its consumer without a tag. `orphans` are the consumers that came so, or whose
tag was replaced by that of an overlapping pass.

### PubSub

The entry of `topicToConsumerTags` is a JavaScript Set, which is an object: `unsubscribe()`
holds on to the one it took before its await, while another call may have deleted it from
the Map or put another one there. `sets` are the Sets, `entry` the one that the Map has.
A Set has the number of the call that made it, and a consumer's tag is the number of its
`subscribe()`. `subscribe()` is one action per await; it counts the consumers
(`ConsumerNumber`) when `assertExchange()` has been answered. `unsubscribe(topic)` deletes
the entry and cancels the tags one after the other, in a loop over the Set it holds (in any
order). Auto-delete queues go with their last consumer.

A `subscribe()` may time out at each of its commands (`SubscribeFails`). The consumer that
it has asked for stays, without a tag in the entry; a `consumeQueue()` that still waits for
its channel (`abandoned`) is not given up either, and may consume after the rejection. That
an `assertQueue()` or `bindQueue()` may reach the broker late likewise is left out. Nothing
consumes again after a lost channel, and the model does not either.

### JobClient

`initializer[i]` is the `JobQueueInitializer` that call `i` has created, with the step it
awaits and whether its promise is still the current one (not after its `dispose()`);
`cached` is the one in the client's Map. `initialize()` that is disposed of stops after the
command it awaits, and *resolves*: its callers publish all the same. `declared` is what the
broker has; it forgets everything when it restarts without its definitions.
`publishToExchange()` is not mandatory: the broker confirms what it drops.

### RetryQueue

The four calculators as operators on fractions (a delay that is not a whole number is
refused by the broker, one that is counts by its value, in lowest terms or not), the queue
that `create()` declares for a delay, its `x-expires`, and the broker's treatment of both,
on a clock of ticks. What is due happens before the next tick; commands take any time up to
`CommandTimeout`. Each delay has its own queue; only the head of a queue is dead-lettered;
declaring a queue puts off its end. `age` counts the time since the declaration, as far as
`DisuseExpire`, after which a message may be sent into nothing. A job's handler retries with
`resetAttempts` or without: `CurrentAttempt` is the one that the delay is calculated for,
`number` counts the retries of a job and tells their messages apart, since attempt numbers
come again. With `resetAttempts` a job retries for ever, so `MaxRetries` bounds a behaviour.

## What is checked

| Run | Module | Shows |
|---|---|---|
| `connection` | `AmqpConnection` | `TypeOK`, `LiveChannel`, `NoLostWakeup`, `NoChannelLeak`, `ClosedAnnouncedOnce`, `HealthyChannelKept`, `NoRetryAfterTimeout`; the executor implements `CommandExecution` (`SafePromise`); `EveryCommandSettles` without timers |
| `wrapper` | `AmqpConnectionWrapper` | `TypeOK`, `NoLostWakeup`, `OneConnectionOpen`, `ClosedOnlyWhenGivenUp`, `HealthyConnectionKept`, `SafePromise`, `EveryCommandSettles` |
| `wrapper_dispose` | `AmqpConnectionWrapper` | finding: `DisposeLeavesNothingOpen` fails |
| `jobs` | `JobServer` | `TypeOK`, `JobNotLost`, `ExhaustedAtLastAttempt`, `OneRunOnAChannel`, `AckedWasHandled` |
| `jobs_liveness` | `JobServer` | `JobFinishes`, when a retry never returns before its run is over and is never too late for its queue |
| `jobs_early_return` | `JobServer` | finding: `JobFinishes` fails when it does |
| `rpc` | `Rpc` | it implements `RemoteCall` (`AnswersAreTheCalls`); `OneRunPerCommand`, `LockHasOwner`, `DroppedOnlyIfEarly`, `CommandOrReply`, `EveryCallSettles` |
| `listener` | `QueueListener` | `DisposedConsumesNothing`, `InitializedFirst`, `ConsumesAgain` |
| `listener_cancelled` | `QueueListener` | finding: `CancelledConsumesAgain` fails |
| `pubsub` | `PubSub` | `OwnQueue`, `ConsumersAreTracked`, `AllMeansAll` |
| `job_client` | `JobClient` | `ReturnedIsRouted`, `FailureForgotten`, `EveryCallSettles` |
| `retry_queue` | `RetryQueue` | `InTimeIsKept`, `BackOnTime`, `DelaysGrow` |

Several properties name an exception, since the code does not keep the plain one:

- `JobNotLost` excepts the jobs that are `adrift`: a `sendToQueue()` that came too late for
  its retry queue vanishes without an error, and so may one that the handler did not wait
  for, or went on after. The run acknowledges all the same.
- `AckedWasHandled` speaks of the first channel, `OneRunOnAChannel` of the first channel
  too: after a lost channel, a redelivered attempt and the next one may be in the queue
  together, and a run of an older channel unlocks what a newer one has locked.
  `AckedWasHandled` also excepts the jobs that are `entangled`, where the tag that the
  relevancy checker has may be of another message than the run's own.
- `OneRunPerCommand` ends with the server's first lost channel, for the same reason.
- `LockHasOwner`: a reply that could not be sent leaves its lock behind, and so does a
  command that cannot be read.
- `DroppedOnlyIfEarly`: a call made while the first one still initializes sends a command
  whose reply may find no queue; it holds until the reply queue expires.
- `CommandOrReply` excepts calls whose handler has timed out, and those whose reply found no
  reply queue or went with it. It speaks of callers that wait: once `sendToQueue()` has
  resolved and until the call settles.
- `DisposedConsumesNothing` excepts the `orphans`: consumers whose tag the listener never
  had, since `consumeQueue()` timed out, or which an overlapping pass has replaced.
- `InitializedFirst` excepts overlapping passes and, for what is consumed, rejected
  commands; `ConsumesAgain` excepts rejected commands and cancelled consumers.
- `OwnQueue` excepts overlapping `subscribe()` calls and any earlier `unsubscribe()`;
  `ConsumersAreTracked` and `AllMeansAll` except calls that race. All three except the
  consumers whose own `subscribe()` has timed out.
- `DelaysGrow` compares attempts until `resetAttempts` begins anew.
- `ReturnedIsRouted` excepts calls that a `reconnected` met on their way, and `dispose()`.
- the wrapper's `EveryCommandSettles` excepts a hollow connection (see below).

The exceptions that are history variables are set by what happens in the code, and each was
narrowed until TLC found a behaviour that needs it.

All runs set `CHECK_DEADLOCK FALSE`: a disposed connection whose calls have all settled
stops, and so does any system that has used up a bound.

### Bounds

- `connection`: three channels, so that a recreated channel is itself lost and replaced
  while a late error of the first arrives; two `connect()` attempts; three commands, of
  which one is not retryable, so that two retryable ones race each other into
  `recreateChannel()`; every fault. When `MaxChannels` is reached the next creation is
  refused, which is a fault the code handles (it gives the connection up); only the *loss*
  of a channel by the broker is bounded.
- `wrapper`: three connections, so that a replacement is itself replaced; two attempts.
- `jobs`: two jobs, one of which cannot be deserialized; two attempts; two concurrent
  runs; three message places (the original, its retry and a duplicate that an
  unconfirmed publication leaves, or another job's message); two channels, so a run and a
  `retry()` begun on the first can outlive it; one `scheduler.retry()` by a handler
  (`MaxAsked`), besides those of the server; sends that may be too late for their queue
  (`LateSends`); three deliveries on each channel (`MaxTag`, needed because a handler that
  always resets the attempts retries for ever). `jobs_liveness` has eight places and three
  runs for one job and one loss, so that no bound but `MaxAsked` ever blocks a step; its
  handlers succeed, throw or call `retry()`. They do not reset attempts, or the job would
  rightly never finish; and no send is too late, or the job would vanish, as the code has
  it.
- `rpc`: three calls to choose from, of which one cannot be read by the server, and at most
  two of them in a behaviour, so that one can be mistaken for the other and the second can
  find the first still initializing; two copies of a command and two runs of the server, the
  least with which one is handled twice; one lost channel, of either side, while there is
  one call, and none while there are two (`MaxLosses = <<1, 0>>`, whose length is the bound
  on the calls): what a loss does to a call does not depend on another call.
- `listener`: three passes and three channels: a pass that overlaps with the one after it
  while the channel is lost again. Channels closed for a missing queue are not counted.
- `pubsub`: three `subscribe()` and two `unsubscribe()` calls: two consumers to unsubscribe
  and one that comes meanwhile; one lost channel; the first `subscribe()` may time out.
- `job_client`: three calls (one that begins an initialization, one that shares it, one
  that comes after it was disposed of), two losses.
- `retry_queue`: two jobs that fail for ever, four attempts, so that a job has three delays
  (the exponential one reaches its maximum with the third, and the linear one of base 3/2 is
  a fraction that `retry()` rejects), three retries per job, any of them with
  `resetAttempts`, a broker that takes an
  `x-expires` of at most 5 ticks, with `DisuseExpire = 2` and `CommandTimeout = 3`, so that
  a command can be slower than the queue's disuse; seven calculators: a constant one, a
  list shorter than the attempts, linear and exponential ones with each bound in effect and
  with fractions. One publication is repeated. The two jobs are alike, so they are model
  values with a symmetry set; the properties speak of safety only.

### Fairness

`ContinuationsRun`: Node.js runs every queued continuation. `BrokerAnswers`: the broker
answers a request on an open channel, a close that was begun ends (`AmqpDisposer` waits for
it no longer than its timeout), pauses pass. Faults, `dispose()`, and the command timers
are never fair: `EveryCommandSettles` says that commands settle *without* their timers.
It is stated of commands of an owner that has connected; if the wrapper's first `connect()`
throws, what was submitted before it is left to its timers. `JobServer`'s `Spec` leaves out
`dispose()` and adds that handlers end (or have a `timeoutMs`) and that the retry queue
dead-letters.

`Rpc` assumes the least: the executor settles what it is given (by its own timer if need
be) and timers fire, for the client's own calls (those of `Malformed` are another client's);
nothing of the server, the broker or the network. `QueueListener` and
`JobClient` assume that a lost connection is restored and that the broker answers;
`JobClient` also that a publication to an exchange that is not there times out. `PubSub` and
`RetryQueue` are checked for safety only.

## What is proved

Each module of proofs has one inductive invariant `IInv`, one lemma per action (with a step
for each part of `IInv` that the action can disturb), the theorem `Invariance`, and the
theorems below, which state what the runs check. They hold for all values of the constants
that the modules' named assumptions allow (`RetryableAssumption` and `BoundsAssumption` of
the executor and the connections, `FaultsAssumption`, `InitializerAssumption`, and one
assumption in each of the other modules: sets are finite where something counts them,
bounds are numbers). These say no more than that the constants are of their kind. Bounds in
guards (`MaxChannels`, `MaxTag`, `MaxLosses` ...) are constants like the others: what is
proved is proved for every one of them, so the safety properties do not rest on how far the
runs go. Bounds that are part of a module's text stay (a run's handler calls `retry()` at
most once in `JobServer`, the first `subscribe()` alone may time out in `PubSub`).

### AmqpConnection

| Theorem | Property | |
|---|---|---|
| `TypeCorrect` | `TypeOK` | Every variable of AmqpConnection keeps its type, for any commands, channels, attempts and faults. |
| `ChannelIsLive` | `LiveChannel` | The container never holds a channel that has closed, nor one of a connection without listeners. |
| `NobodySleepsOn` | `NoLostWakeup` | While the connection is in use, a command that waits for a channel or to be resumed waits for a recreation under way. |
| `NoChannelIsLeaked` | `NoChannelLeak` | On an open connection every open channel is in the container or about to be put there. |
| `ClosedIsAnnouncedOnce` | `ClosedAnnouncedOnce` | 'closed' is emitted once when the connection gives itself up, whatever its causes, and never when its owner disposes of it. |
| `HealthyChannelIsKept` | `HealthyChannelKept` | A channel is replaced only after it has closed or the connection is disposed of, however late the errors of older channels are. |
| `NoRetryOnceTimedOut` | `NoRetryAfterTimeout` | execute() begins no further attempt of a command whose caller was rejected with CommandTimedOutError. |
| `PromiseIsKept` | `SafePromise` | AmqpConnection with its executor implements CommandExecution: each call settles once, a retryable one never for the loss of its channel, and dispose() settles all. |

The proofs use the three assumptions that `Executor` and `AmqpConnection` name
(`RetryableAssumption`, `BoundsAssumption`, `FaultsAssumption`) and nothing else. They rest
on one inductive invariant, `IInv`, in four parts besides the types:

- `LifeInv`: listeners are registered only on a resolved, undisposed, uncancelled object
  whose connection is open or closing; a cancelled one is disposed. `connect()` that was
  refused is disposed but *not* cancelled, which is why the two flags must be told apart.
- `ChannelInv`: the container is empty exactly while a recreation is under way, and the flag
  is set exactly while `creation` is not `none`. This couples the flag, the awaited promise
  and the container, and is what makes the wake-up property inductive: alone, "somebody
  waits, so a recreation is under way" does not say that the recreation that ends finds the
  container empty.
- `OpenInv`: an open channel is in the container, or about to be put there, or its
  connection is closing. `NoChannelLeak` alone is not inductive, since it says nothing while
  the connection closes.
- `LoopInv`: where a loop may stand. A `ready` or `running` loop has the channel of the
  container; a `lost` one exists only while the recreation that its channel's `close` began
  is under way. So `CatchLost` always finds the flag set and never tears down a new channel:
  the step behind `HealthyChannelKept`. It rests on `Quiet`, that is, on Node.js running the
  catch block before it takes the broker's next answer.

There is one lemma per action, with a step for each part. That `AmqpConnection` implements
`CommandExecution` follows from the same invariant: `Submit` maps to `Submit`; the end of a
command, its timer and the rejection of a non-retryable one to `Settle`; `Dispose` to
`Cancel`; all else stutters. (That a loop which was cancelled does not settle again is what
`Settled` and `Stopped` say; that a *late* result after a timeout is ignored needs the case
where the step stutters.)

### AmqpConnectionWrapper

| Theorem | Property | |
|---|---|---|
| `TypeCorrect` | `TypeOK` | Every variable of AmqpConnectionWrapper keeps its type, for any commands, connections, attempts and faults. |
| `NobodySleepsOn` | `NoLostWakeup` | A command that waits for a connection or to be resumed waits for a reconnect() that is under way. |
| `OnlyTheLastIsOpen` | `OneConnectionOpen` | connect(), reconnect() and dispose(), at any moments, keep at most one connection to the broker open: the last one created. |
| `ClosedMeansGivenUp` | `ClosedOnlyWhenGivenUp` | 'closed' is announced exactly when reconnect() has given up, and once. |
| `HealthyConnectionIsKept` | `HealthyConnectionKept` | reconnect() replaces a connection only after it was lost, however late the errors of older ones are. |
| `PromiseIsKept` | `SafePromise` | AmqpConnectionWrapper with its initializer and executor implements CommandExecution. |

The invariant has the parts of `AmqpConnection`'s, one level up, with these differences:

- `CallInv` says where `connect()` and `reconnect()` stand. Only one of them uses the
  initializer at a time, and an empty container of a connected wrapper means
  `isReconnecting`. This needs all ways in which `connect()` ends: before it has returned
  there are no listeners and no container.
- `DisposedInv` tells apart the three ways to come to `disposed`: `dispose()`, a
  `connect()` that threw, a `reconnect()` that gave up.
- `OpenInv` is stronger than `OneConnectionOpen`: what is open is *the last connection
  created*, and it is the one being set up, the container's, or one that a `dispose()` in
  the middle of an initialization has left behind (finding 1). `OneConnectionOpen` alone is
  not inductive, since nothing would keep the initializer from creating a second one.
- `LoopInv`: a `lost` loop exists only while `reconnect()` disposes of the old connection,
  so that its catch block finds `isReconnecting` set. `HealthyConnectionKept` follows.

### JobServer

| Theorem | Property | |
|---|---|---|
| `TypeCorrect` | `TypeOK` | Every variable of JobServer keeps its type: in particular no message and no run has an attempt beyond the last one. |
| `NoJobIsLost` | `JobNotLost` | Whatever the handlers do and however often the channel is lost, the broker has a message of every job that is not finished, but for the jobs whose retry() was too late for its queue, or was not waited for. |
| `ExhaustedAtTheLast` | `ExhaustedAtLastAttempt` | MaxAttemptCountReachedError comes at the last attempt, after every earlier one. |
| `RunsDoNotOverlap` | `OneRunOnAChannel` | The lock of the relevancy checker keeps two runs of a job on the first channel from overlapping. |
| `AcksOnlyWhatWasHandled` | `AckedWasHandled` | On the first channel an acknowledgement removes only the message of an attempt that is over, except for entangled jobs. |

`JobNotLost` is a matter of counting. What is inductive is `CountInv`: *a job that is not
finished and not adrift has at least one message more than it has runs that have published a
message of the next attempt*. A run that acknowledges gives up one message of its job,
whichever it is, but it also ends and so leaves the right-hand side; a run that acknowledges
without having published has finished its job or set it adrift; a duplicate, or a message
that arrives when its run is over, adds to the left. It does not matter which of the job's
messages the acknowledgement removes, so the theorem needs of the tags only that they are of
this job (`TagInv`), and nothing of the locks, which after a lost channel do not keep runs
apart.

The other parts say which messages and runs there are (`MessageInv`, `RunInv`), that tags
are of the present channel and of the right job (`TagInv`), that whoever has an attempt has
the earlier ones behind it (`AttemptInv`, which gives `ExhaustedAtLastAttempt`), that on the
first channel a run has the lock of its job (`LockInv`), and that there a job has one
message, or one that a run which is over has still to publish, besides those that its run
has published (`SingleInv`, which gives `AckedWasHandled`).

The attempt to prove `AckedWasHandled` showed that an earlier form of it, which excepted
only retries that return before their run is over, held only because the run has two
attempts (`MaxAttempts`). With three, a handler that calls `scheduler.retry()` and then
throws publishes the next attempt twice; the two messages are then in the queue together,
and the acknowledgement of a run of one can remove the other. `entangled` names such jobs,
and the run `jobs` now checks the property with the rest.

### Rpc

| Theorem | Property | |
|---|---|---|
| `RunsDoNotOverlap` | `OneRunPerCommand` | While the server keeps its channel, a command that was sent twice is not handled twice at once. |
| `LocksAreOwned` | `LockHasOwner` | A lock of the relevancy checker is held by a run, unless a reply could not be sent or the content of the command cannot be read. |
| `RepliesFindTheirQueue` | `DroppedOnlyIfEarly` | Until the reply queue expires, only a reply to a call that did not wait for the queue misses it. |
| `CommandsAreKept` | `CommandOrReply` | While a caller waits, its command, unacknowledged, or the reply to it is in the broker, unless a handler timed out or the reply queue was missing. |
| `AnswersReachTheirCalls` | `AnswersAreTheCalls` | RpcClient and RpcServer implement RemoteCall: a call settles once, with an answer only if a handler gave it to that call. |

- `CallInv` ties together the caller's promise, the entry in the `CommandContainer` and
  where `sendCommand()` stands; an answer in the entry was given to that call. `RunInv`
  says the same of runs and of replies on their way.
- `LockInv`: while the server has its first channel, a run's call is locked. Without a
  loss a second copy of a command finds the lock; after one it may not.
- `QueueInv`: until the reply queue expires, the client has declared it before anything of a
  call is under way (a command to be sent, a copy of it, a run), but for early calls.
- `AnswerInv`: a call whose message has reached the broker is settled, or `Kept`: it has a
  command there, unacknowledged, or a reply, or is one of the exceptions. And a run whose
  reply has reached the broker but is not confirmed finds that reply there, or its call
  settled: so it may acknowledge any copy of the command. With duplicates of a repeated
  send, requeued commands, replies that come again and acknowledgements by another run's
  tag, the acknowledgement and the reply that stands in for it need not be of one copy or of
  one run; the second part is what couples them.

The refinement: `Call` maps to `RemoteCall`'s call, the steps that settle a promise to a
return or a rejection, the handler's result to an answer given, `dispose()` to its namesake;
all else stutters, in particular a reply that finds no entry, or one that has a result.

### QueueListener

| Theorem | Property | |
|---|---|---|
| `NobodyConsumesOnceDisposed` | `DisposedConsumesNothing` | A listener that is disposed of and whose passes have ended has no consumer in the broker, however dispose(), losses of the channel and consume() are ordered, but for those whose tag it never had or an overlapping pass replaced. |
| `ConsumedIsInitialized` | `InitializedFirst` | No queue is consumed that is not there, and what is consumed is declared and bound, but for superseded passes and rejected commands. |

`PassInv` says that passes follow one another unless one was repeated by the executor
beside its successor (`overlapped`), and that what is late is not to be waited for;
`ConsumerInv` that every consumer which is not an orphan is known to the pass that asks for
it or to the listener, so that `dispose()` or the pass itself can cancel it; `BoundInv` that the
queue is bound or the pass of the current promise is about to bind it, and that a pass which
has come to consume finds it bound. The types are theorem `TypeCorrect`.

### JobClient

| Theorem | Property | |
|---|---|---|
| `WhatReturnsIsRouted` | `ReturnedIsRouted` | A performInBackground() that returns has put its job in the queue, unless a reconnection met it on its way, for any number of calls and losses. |
| `FailuresAreForgotten` | `FailureForgotten` | A call is rejected only for an initialization that has failed since the last reconnection before the call. |

`CacheInv`: only the initializer in the Map is current; if its promise has resolved, the
queue is declared and bound; if it was rejected, that was in the present epoch (the
`epoch` counts reconnections), so the next `reconnected` forgets it. `CallInv`: a call that
nothing has disturbed waits for the cached initializer or publishes into a bound queue. The
types are theorem `TypeCorrect`.

### RetryQueue

| Theorem | Property | |
|---|---|---|
| `RetriesInTimeAreKept` | `InTimeIsKept` | A retry that reaches its queue within disuseExpireMs of the declaration is in a queue or has come back: no queue expires under it, for all delays and options. |
| `RetriesComeBackOnTime` | `BackOnTime` | No message waits in its retry queue beyond its delay, whatever else is in the queue. |

`QueueInv`: the messages of a queue have its delay, the oldest first, none overdue. Since
each delay has its own queue the head is always the first that is due. `DeclaredInv` relates
two clocks: the life of a queue and the time since a `create()` that declared it, whose sum
is at least `disuseExpireMs` and the delay. `KeptInv`: an attempt published in time has come
back, or the life of its queue and its own age exceed the delay, so it leaves before the
queue does. This is why `x-expires` has to be the sum, and it rests on a declaration putting
off the end of a queue that is there. The types are theorem `TypeCorrect`.

They use nothing of `Calculate` but that what goes to the broker is a whole number of
milliseconds, so they hold for whatever calculators and whatever `resetAttempts` does.

### PubSub

| Theorem | Property | |
|---|---|---|
| `SubscribersDoNotShare` | `OwnQueue` | Calls of subscribe() that do not overlap get queues of their own as long as no unsubscribe() has been made, for any number of calls and lost channels. |
| `NoConsumerIsForgotten` | `ConsumersAreTracked` | Whoever consumes can be unsubscribed, unless calls have raced, a loop was cut short or its own subscribe() has timed out. |
| `NobodyIsLeft` | `AllMeansAll` | The last step of an unsubscribe(topic) leaves no consumer, with the same exceptions. |

`OwnerInv` and `NumberInv` carry `OwnQueue`: while calls keep apart, the numbers in use are
at most the count of the tags, which a call that generates a name exceeds by one. For the
other two, `HeldInv` says that beneath a call of `unsubscribe()` that does not race the
entry is the Set it holds or none; `LoopInv` that the loop of an `unsubscribe(topic)` is
still to get to everybody who consumes; `EntryInv` that without such a loop they are in the
entry. The types are theorem `TypeCorrect`.

### What is only model-checked

- Liveness: `EveryCommandSettles` (twice), `JobFinishes`, `EveryCallSettles` (twice),
  `ConsumesAgain`. TLAPS has no rule for fairness and `ENABLED`.
- `DelaysGrow`: it holds of options that the code nowhere checks (positive timeouts that do
  not shrink, a base of at least 1, `max` not below `min`), so it is checked of the seven
  calculators of the run. The default calculator is `base ^ (attempt - 1)`, and `^` is
  defined by recursion: a theorem on it needs an induction over data.
- What the violation runs show, which are counterexamples.

## Findings

1. `wrapper_dispose`. `dispose()` cancels the initializer while its `connect()` is under
   way; the loop then returns null (`AmqpConnectionInitializer.ts:68`) and the connection it
   has just opened stays open.
2. `jobs_early_return`. If the message of the next attempt returns before the run that
   published it is over, `lock()` refuses it but keeps its tag, and the run acknowledges that
   message instead of its own: the retry is gone.
3. `listener_cancelled`. `consumeQueue()` (`AmqpConnection.ts:387`) makes a record of
   whatever amqplib calls back with, so the null that announces a cancelled consumer never
   reaches the code in the three consumers that consumes again.

Seen while modelling, with no run of their own; the properties above name most of them as
exceptions:

- When the first channel is refused, `connect()` sets `isDisposed`
  (`AmqpConnection.ts:158`) and throws. The initializer calls `connect()` on the *same*
  object; if that succeeds, it returns without channel and listeners (a *hollow*
  connection) and the attempt counts as a success.
- `reconnect()` announces `reconnected` with an empty container when `dispose()` has
  cancelled the initializer (`AmqpConnectionWrapper.ts:210`).
- A run of an older channel unlocks what a newer run holds
  (`MessageRelevancyChecker.ts:25`); after a lost channel the run of a redelivered
  attempt may acknowledge the next attempt unhandled (`JobServer.ts:264`).
- A handler that timed out keeps its scheduler and may call `retry()` after its run.
- A retry that is published again after a lost channel, or late, may find its queue expired:
  `create()` is not repeated with `sendToQueue()` (`Scheduler.ts:97-101`), the broker
  confirms what it drops, and the run acknowledges the redelivered original. The job is gone
  without an error.
- A command whose content cannot be read rejects `handleCommandMessage()` unhandled
  (`RpcServer.ts:179`, outside any `try`), keeps its lock, and comes again with each new
  channel; a `JobServer` catches the same and reports it.
- A `consumeQueue()` that times out while it is pending leaves a consumer that `dispose()`
  does not cancel (`JobQueueConsumer.ts:36`).
- A reply that cannot be sent keeps the lock of its command (`RpcServer.ts:218`), and a
  `scheduler.retry()` that is rejected keeps the lock of its job.
- A first `initialize()` of a `CommandSender` that fails is never repeated until the
  channel is lost; "Commands are not retried", but `sendToQueue()` is.
- `unsubscribe(topic)` deletes the entry after the first cancellation; if a later one is
  rejected, the rest consume and cannot be unsubscribed (`PubSub.ts:98`). After
  `unsubscribe(topic, tag)` a new subscription may get the queue of another consumer.
- A `subscribe()` that times out leaves its consumer behind (`PubSub.ts:72`): no entry has
  its tag, so it cannot be unsubscribed; its number is given to the next `subscribe()` too,
  and with `singleActiveConsumer` the queue's messages go to the one that nobody knows.
- A handler that calls `scheduler.retry()` and then throws publishes two messages of the
  next attempt; when they are handled, an acknowledgement may remove a message whose own
  attempt nobody has gone through (`entangled`).
- A linear calculator with a fractional base makes those `retry()` calls reject whose delay
  is not a whole number.
- `src/README.md:32` gives the pause between attempts as `round(1.8 ^ (attempt - 1) * 1000)`;
  the code rounds before it multiplies (`AmqpConnectionInitializer.ts:94`).

## Not modelled

- Validators, error classes, serializers, factories, facades, the demo: stateless.
- The contents of messages, queue and exchange arguments other than `x-expires` and
  auto-delete, stale-command and stale-job reports, `expireMs` of jobs: no property here is
  about them.
- `AmqpDisposer`'s set of promises and `flush()`: a disposal is one asynchronous close that
  ends. `calculateAttemptTimeoutMs()`: pauses pass, however long.
- Handler registration of `JobServer` and `RpcServer`, which happens before `listen()`;
  custom `retryDelayMs` of `scheduler.retry()`.
- `publish()` of `PubSub`, which keeps no state.
- A crash of the process is the loss of all its runs: what the broker then has is the
  subject of `JobNotLost` and `CommandOrReply`, which speak of the broker's messages only.
- RabbitMQ and amqplib themselves: queues that requeue, expire, dead-letter and
  auto-delete, channels that close on a 404 or an unknown tag, confirmations and returns
  are modelled as the code in `src/` relies on them, and marked `external` in the map.

## Plan

Modelled: everything in the table above. Proved: every safety invariant and every action
property that a run checks, but for `DelaysGrow`. What is left:

1. Two hazards without a property of their own: a refused first channel
   (`AmqpConnection.ts:158`) is in the model as the hollow connection, and wants a
   property of the wrapper that says what such a connection does to its callers;
   `flush()` (`AmqpDisposer.ts:91`) wants a model of the disposer's set of promises.
2. `JobServer` after the first loss: the theorems that speak of the first channel have
   counterparts for a later one, for jobs that no run of an older channel still handles.
3. `AmqpConnectionWrapper` composes the connection's promise, not its module: that the
   states `live`, `disposed` and `hollow` and the announcement of `closed` are those of
   `AmqpConnection` can be stated as a refinement of one interface by both.
