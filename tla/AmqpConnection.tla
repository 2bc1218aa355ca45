--------------------------- MODULE AmqpConnection ---------------------------
(***************************************************************************)
(* One AmqpConnection object: connect(), the channel in its container, the *)
(* commands its AmqpChannelExecutor runs on that channel, recreateChannel()*)
(* when the channel goes away, and dispose() when the connection does.     *)
(*                                                                         *)
(* Node.js runs a task and then every promise continuation it has queued   *)
(* before it takes the next task from the network or the timers.  Actions  *)
(* that begin such a task (an answer or a failure of the broker, a timer)  *)
(* are therefore guarded by Quiet; queued continuations and calls by the   *)
(* application, which may come from a continuation too, are not, and any   *)
(* order among them is allowed.                                            *)
(***************************************************************************)
EXTENDS Executor

CONSTANTS
  MaxChannels,  \* bound: channels opened in a behaviour
  MaxConnects,  \* AmqpConnectionInitializer's maxAttempts: calls of connect()
  Faults        \* the failures of the environment that may happen

ASSUME BoundsAssumption == MaxChannels \in Nat \ {0} /\ MaxConnects \in Nat \ {0}

(***************************************************************************)
(* refuseConnection  amqplib.connect() rejects                             *)
(* refuseChannel     createConfirmChannel() rejects, the connection lives  *)
(* closeChannel      the broker closes a channel                           *)
(* closeConnection   the connection is lost                                *)
(* protocolError     amqplib begins to close the connection by itself      *)
(* refuseCommand     the broker refuses a command                          *)
(***************************************************************************)
FaultKinds == {"refuseConnection", "refuseChannel", "closeChannel",
               "closeConnection", "protocolError", "refuseCommand"}

ASSUME FaultsAssumption == Faults \subseteq FaultKinds

Channels == 1 .. MaxChannels

ChannelStates == {"unborn", "opening", "open", "closing", "closed"}

VARIABLES
  phase,                \* of connect()
  attempt,              \* how many times connect() was called
  amqplib,              \* the state of this.amqplibConnection
  chan,                 \* the state of each channel in amqplib
  born,                 \* how many channels were created
  channel,              \* this.amqpChannelContainer's channel
  creation,             \* the create() that recreateChannel() awaits
  isRecreatingChannel,  \* this.isRecreatingChannel
  isDisposed,           \* this.isDisposed
  listening,            \* connect() has registered the listeners
  closedEvents,         \* how often "closed" was emitted
  ownerDisposed         \* dispose() was called by the owner of the object

connVars == <<phase, attempt, amqplib, chan, born, channel, creation,
              isRecreatingChannel, isDisposed, listening, closedEvents,
              ownerDisposed>>

vars == <<connVars, execVars>>

Init ==
  /\ ExecInit
  /\ phase = "new"
  /\ attempt = 0
  /\ amqplib = "none"
  /\ chan = [k \in Channels |-> "unborn"]
  /\ born = 0
  /\ channel = None
  /\ creation = "none"
  /\ isRecreatingChannel = FALSE
  /\ isDisposed = FALSE
  /\ listening = FALSE
  /\ closedEvents = 0
  /\ ownerDisposed = FALSE

\* No continuation is queued: the event loop may take its next task.
Quiet ==
  /\ creation \notin {"opened", "refused"}
  /\ \A c \in Commands : pc[c] \notin {"ready", "lost", "closing"}

-----------------------------------------------------------------------------
(* connect() *)

\* Mutant: one attempt too many.
ConnectOnceMore ==
  /\ phase \in {"new", "rejected"}
  /\ attempt <= MaxConnects
  /\ phase' = "connecting"
  /\ attempt' = attempt + 1
  /\ UNCHANGED <<amqplib, chan, born, channel, creation, isRecreatingChannel,
                 isDisposed, listening, closedEvents, ownerDisposed, execVars>>

\* AmqpConnectionInitializer calls connect(), again on the same object if it threw.
Connect ==
  /\ phase \in {"new", "rejected"}
  /\ attempt < MaxConnects
  /\ phase' = "connecting"
  /\ attempt' = attempt + 1
  /\ UNCHANGED <<amqplib, chan, born, channel, creation, isRecreatingChannel,
                 isDisposed, listening, closedEvents, ownerDisposed, execVars>>

\* amqplibConnect() answers; on success the first channel is requested.
AmqplibConnected ==
  /\ phase = "connecting"
  /\ \/ /\ born < MaxChannels
        /\ amqplib' = "open"
        /\ phase' = "creating"
        /\ born' = born + 1
        /\ chan' = [chan EXCEPT ![born + 1] = "opening"]
     \/ /\ "refuseConnection" \in Faults
        /\ amqplib' = "none"
        /\ phase' = "rejected"
        /\ UNCHANGED <<born, chan>>
  /\ UNCHANGED <<attempt, channel, creation, isRecreatingChannel, isDisposed,
                 listening, closedEvents, ownerDisposed, execVars>>

\* Mutant: the rollback forgets the channel.
FirstChannelForgotten ==
  /\ phase = "creating"
  /\ amqplib = "open"
  /\ phase' = "resolved"
  /\ chan' = [chan EXCEPT ![born] = "open"]
  /\ channel' = IF isDisposed THEN None ELSE born
  /\ listening' = ~isDisposed
  /\ UNCHANGED <<attempt, amqplib, born, creation, isRecreatingChannel,
                 isDisposed, closedEvents, ownerDisposed, execVars>>

\* The first channel is open: keep it, or roll back when already disposed.
FirstChannelOpened ==
  /\ phase = "creating"
  /\ amqplib = "open"
  /\ phase' = "resolved"
  /\ IF isDisposed
     THEN /\ chan' = [chan EXCEPT ![born] = "closing"]
          /\ UNCHANGED <<channel, listening>>
     ELSE /\ chan' = [chan EXCEPT ![born] = "open"]
          /\ channel' = born
          /\ listening' = TRUE
  /\ UNCHANGED <<attempt, amqplib, born, creation, isRecreatingChannel,
                 isDisposed, closedEvents, ownerDisposed, execVars>>

(***************************************************************************)
(* The first channel cannot be created: connect() marks the object as      *)
(* disposed, closes the amqplib connection and throws.  (It awaits the     *)
(* close before throwing, which delays the next connect() and no more.)    *)
(***************************************************************************)
FirstChannelRefused ==
  /\ phase = "creating"
  /\ amqplib = "closed" \/ "refuseChannel" \in Faults
  /\ phase' = "rejected"
  /\ isDisposed' = TRUE
  /\ amqplib' = "closed"
  /\ chan' = [chan EXCEPT ![born] = "closed"]
  /\ UNCHANGED <<attempt, born, channel, creation, isRecreatingChannel,
                 listening, closedEvents, ownerDisposed, execVars>>

-----------------------------------------------------------------------------
(* dispose() and recreateChannel() *)

\* Mutant: the container keeps the channel.
DisposeKeepsChannel(amq) ==
  /\ isDisposed' = TRUE
  /\ listening' = FALSE
  /\ isCancelled' = TRUE
  /\ pc' = Stopped(pc)
  /\ outcome' = Rejected(outcome)
  /\ UNCHANGED channel
  /\ amqplib' = IF amq = "open" THEN "closing" ELSE amq

(***************************************************************************)
(* The body of dispose() behind its guard, on a connection in state amq.   *)
(***************************************************************************)
Dispose(amq) ==
  /\ isDisposed' = TRUE
  /\ listening' = FALSE
  /\ isCancelled' = TRUE
  /\ pc' = Stopped(pc)
  /\ outcome' = Rejected(outcome)
  /\ channel' = None
  /\ amqplib' = IF amq = "open" THEN "closing" ELSE amq

\* The owner calls dispose(); on a disposed object it returns at once.
OwnerDispose ==
  /\ phase = "resolved"
  /\ ~isDisposed
  /\ Dispose(amqplib)
  /\ ownerDisposed' = TRUE
  /\ UNCHANGED <<phase, attempt, chan, born, creation, isRecreatingChannel,
                 closedEvents, on>>

(***************************************************************************)
(* recreateChannel() up to its await, when the channels are in the states  *)
(* cs: the container is emptied, the old channel closed without waiting,   *)
(* and a new one requested.                                                *)
(***************************************************************************)
RecreateChannel(cs) ==
  IF isRecreatingChannel
  THEN /\ chan' = cs
       /\ UNCHANGED <<channel, isRecreatingChannel, creation, born>>
  ELSE LET old == [k \in Channels |->
                     IF k = channel /\ cs[k] = "open" THEN "closing" ELSE cs[k]]
       IN /\ isRecreatingChannel' = TRUE
          /\ channel' = None
          /\ IF amqplib = "open" /\ born < MaxChannels
             THEN /\ creation' = "pending"
                  /\ born' = born + 1
                  /\ chan' = [old EXCEPT ![born + 1] = "opening"]
             ELSE /\ creation' = "refused"
                  /\ chan' = old
                  /\ UNCHANGED born

\* The broker answers the request of the new channel.
CreationAnswered ==
  /\ Quiet
  /\ creation = "pending"
  /\ amqplib = "open"
  /\ \/ /\ creation' = "opened"
        /\ chan' = [chan EXCEPT ![born] = "open"]
     \/ /\ "refuseChannel" \in Faults
        /\ creation' = "refused"
        /\ chan' = [chan EXCEPT ![born] = "closed"]
  /\ UNCHANGED <<phase, attempt, amqplib, born, channel, isRecreatingChannel,
                 isDisposed, listening, closedEvents, ownerDisposed, execVars>>

\* recreateChannel() continues with the new channel.
ChannelRecreated ==
  /\ creation = "opened"
  /\ creation' = "none"
  /\ isRecreatingChannel' = FALSE
  /\ IF isDisposed
     THEN /\ chan' = [chan EXCEPT ![born] = "closing"]
          /\ UNCHANGED <<channel, pc, on>>
     ELSE /\ channel' = born
          /\ pc' = Resumed(BecameAvailable(pc))
          /\ on' = GivenTo(pc, born)
          /\ UNCHANGED chan
  /\ UNCHANGED <<phase, attempt, amqplib, born, isDisposed, listening,
                 closedEvents, ownerDisposed, outcome, isCancelled>>

\* Mutant: the catch block does not look at isDisposed.
RecreationFailedAnyway ==
  /\ creation = "refused"
  /\ creation' = "disposing"
  /\ closedEvents' = closedEvents + 1
  /\ Dispose(amqplib)
  /\ UNCHANGED <<phase, attempt, chan, born, ownerDisposed, on, isRecreatingChannel>>

\* recreateChannel()'s catch block: give the connection up.
RecreationFailed ==
  /\ creation = "refused"
  /\ IF isDisposed
     THEN /\ creation' = "none"
          /\ isRecreatingChannel' = FALSE
          /\ UNCHANGED <<closedEvents, isDisposed, listening, isCancelled, pc,
                         outcome, channel, amqplib>>
     ELSE /\ creation' = "disposing"
          /\ closedEvents' = closedEvents + 1
          /\ Dispose(amqplib)
          /\ UNCHANGED isRecreatingChannel
  /\ UNCHANGED <<phase, attempt, chan, born, ownerDisposed, on>>

\* The dispose() awaited in that catch block has flushed; finally runs.
RecreationDisposed ==
  /\ Quiet
  /\ creation = "disposing"
  /\ creation' = "none"
  /\ isRecreatingChannel' = FALSE
  /\ UNCHANGED <<phase, attempt, amqplib, chan, born, channel, isDisposed,
                 listening, closedEvents, ownerDisposed, execVars>>

-----------------------------------------------------------------------------
(* The broker and amqplib *)

(***************************************************************************)
(* A channel closes: amqplib rejects what runs on it (states p of the      *)
(* loops) and emits "close", which reaches handleChannelClose() only from  *)
(* the channel in the container.                                           *)
(***************************************************************************)
ChannelGone(k, p) ==
  /\ pc' = Thrown(p, {k})
  /\ IF k = channel
     THEN RecreateChannel([chan EXCEPT ![k] = "closed"])
     ELSE /\ chan' = [chan EXCEPT ![k] = "closed"]
          /\ UNCHANGED <<channel, isRecreatingChannel, creation, born>>

\* The broker closes a channel, or confirms that it is closed.
ChannelClosed(k) ==
  /\ Quiet
  /\ amqplib = "open"
  /\ \/ chan[k] = "closing"
     \/ chan[k] = "open" /\ "closeChannel" \in Faults /\ born < MaxChannels
  /\ ChannelGone(k, pc)
  /\ UNCHANGED <<phase, attempt, amqplib, isDisposed, listening, closedEvents,
                 ownerDisposed, on, outcome, isCancelled>>

(***************************************************************************)
(* The connection closes, on our request or on its own.  amqplib closes    *)
(* every channel first (handleChannelClose), then emits "close" on the     *)
(* connection (handleConnectionClose), all in one task.                    *)
(***************************************************************************)
ConnectionClosed ==
  /\ Quiet
  /\ amqplib = "closing" \/ (amqplib = "open" /\ "closeConnection" \in Faults)
  /\ chan' = [k \in Channels |-> IF chan[k] = "unborn" THEN "unborn" ELSE "closed"]
  /\ creation' = IF creation = "pending" \/ (listening /\ ~isRecreatingChannel)
                 THEN "refused" ELSE creation
  /\ isRecreatingChannel' = (isRecreatingChannel \/ listening)
  /\ IF listening
     THEN /\ Dispose("closed")
          /\ closedEvents' = closedEvents + 1
     ELSE /\ amqplib' = "closed"
          /\ UNCHANGED <<isDisposed, listening, isCancelled, pc, outcome, channel,
                         closedEvents>>
  /\ UNCHANGED <<phase, attempt, born, ownerDisposed, on>>

\* amqplib gives the connection up; its channels are told when it has closed.
ProtocolError ==
  /\ Quiet
  /\ "protocolError" \in Faults
  /\ amqplib = "open"
  /\ phase = "resolved"
  /\ amqplib' = "closing"
  /\ UNCHANGED <<phase, attempt, chan, born, channel, creation,
                 isRecreatingChannel, isDisposed, listening, closedEvents,
                 ownerDisposed, execVars>>

-----------------------------------------------------------------------------
(* The commands *)

\* The owner calls one of the methods that go through execute().
Submit(c) ==
  /\ phase = "resolved"
  /\ Execute(c, channel)
  /\ UNCHANGED connVars

\* executeOnce() continues with its channel; amqplib checks it at once.
Begin(c) ==
  /\ pc[c] = "ready"
  /\ pc' = [pc EXCEPT ![c] = IF chan[on[c]] # "open" THEN "lost"
                             ELSE IF amqplib = "open" THEN "running"
                             ELSE "closing"]
  /\ UNCHANGED <<connVars, on, outcome, isCancelled>>

\* The broker answers.
Reply(c) ==
  /\ Quiet
  /\ pc[c] = "running"
  /\ amqplib = "open"
  /\ Finish(c, "ok")
  /\ UNCHANGED connVars

(***************************************************************************)
(* The broker refuses the command: a negative confirmation leaves the      *)
(* channel open, an AMQP exception closes it.                              *)
(***************************************************************************)
Refuse(c) ==
  /\ Quiet
  /\ "refuseCommand" \in Faults
  /\ pc[c] = "running"
  /\ amqplib = "open"
  /\ outcome' = Settled(outcome, c, "error")
  /\ \/ /\ pc' = [pc EXCEPT ![c] = "done"]
        /\ UNCHANGED <<channel, isRecreatingChannel, creation, born, chan>>
     \/ /\ born < MaxChannels
        /\ ChannelGone(on[c], [pc EXCEPT ![c] = "done"])
  /\ UNCHANGED <<phase, attempt, amqplib, isDisposed, listening, closedEvents,
                 ownerDisposed, on, isCancelled>>

(***************************************************************************)
(* The catch block of execute() on ChannelBecameUnavailableError: suspend  *)
(* the loop and ask for a new channel, or reject.  (A loop that gets here  *)
(* is not cancelled, so dispose() has not removed the listener.)           *)
(***************************************************************************)
CatchLost(c) ==
  /\ pc[c] = "lost"
  /\ \/ /\ c \in Retryable
        /\ pc' = [pc EXCEPT ![c] = "suspended"]
        /\ RecreateChannel(chan)
        /\ UNCHANGED outcome
     \/ /\ c \notin Retryable
        /\ pc' = [pc EXCEPT ![c] = "done"]
        /\ outcome' = Settled(outcome, c, "lost")
        /\ UNCHANGED <<channel, isRecreatingChannel, creation, born, chan>>
  /\ UNCHANGED <<phase, attempt, amqplib, isDisposed, listening, closedEvents,
                 ownerDisposed, on, isCancelled>>

\* The same on ConnectionClosingError: handleConnectionClosing(), then reject.
CatchClosing(c) ==
  /\ pc[c] = "closing"
  /\ Dispose(amqplib)
  /\ closedEvents' = closedEvents + 1
  /\ UNCHANGED <<phase, attempt, chan, born, creation, isRecreatingChannel,
                 ownerDisposed, on>>

TimerFires(c) == Quiet /\ TimeOut(c) /\ UNCHANGED connVars

\* Mutant: the loop keeps the channel of its first attempt.
DelayOverSameChannel(c) ==
  Quiet /\ Again(c, IF on[c] = None THEN channel ELSE on[c]) /\ UNCHANGED connVars

DelayOver(c) == Quiet /\ Again(c, channel) /\ UNCHANGED connVars

-----------------------------------------------------------------------------
Next ==
  \/ Connect \/ AmqplibConnected \/ FirstChannelOpened \/ FirstChannelRefused
  \/ OwnerDispose
  \/ CreationAnswered \/ ChannelRecreated \/ RecreationFailed \/ RecreationDisposed
  \/ ConnectionClosed \/ ProtocolError
  \/ \E k \in Channels : ChannelClosed(k)
  \/ \E c \in Commands :
       \/ Submit(c) \/ Begin(c) \/ Reply(c) \/ Refuse(c)
       \/ CatchLost(c) \/ CatchClosing(c) \/ TimerFires(c) \/ DelayOver(c)

Safety == Init /\ [][Next]_vars

\* Node.js runs every queued continuation.
ContinuationsRun ==
  /\ WF_vars(ChannelRecreated)
  /\ WF_vars(RecreationFailed)
  /\ \A c \in Commands :
       WF_vars(Begin(c)) /\ WF_vars(CatchLost(c)) /\ WF_vars(CatchClosing(c))

(***************************************************************************)
(* The broker answers, a close that was begun ends (AmqpDisposer waits for *)
(* it no longer than its timeout), and the retry interval passes.          *)
(***************************************************************************)
BrokerAnswers ==
  /\ WF_vars(RecreationDisposed)
  /\ WF_vars(CreationAnswered)
  /\ WF_vars(ConnectionClosed /\ amqplib = "closing")
  /\ \A c \in Commands : WF_vars(Reply(c)) /\ WF_vars(DelayOver(c))

\* The command timers may fire, but nothing relies on it.
Spec == Safety /\ ContinuationsRun /\ BrokerAnswers

-----------------------------------------------------------------------------
(* What makes it correct *)

TypeOK ==
  /\ ExecTypeOK(Channels)
  /\ phase \in {"new", "connecting", "creating", "resolved", "rejected"}
  /\ attempt \in 0 .. MaxConnects
  /\ amqplib \in {"none", "open", "closing", "closed"}
  /\ chan \in [Channels -> ChannelStates]
  /\ born \in 0 .. MaxChannels
  /\ channel \in Channels \cup {None}
  /\ creation \in {"none", "pending", "opened", "refused", "disposing"}
  /\ isRecreatingChannel \in BOOLEAN
  /\ isDisposed \in BOOLEAN
  /\ listening \in BOOLEAN
  /\ ownerDisposed \in BOOLEAN
  /\ closedEvents \in Nat

\* A channel that the commands are given is open, whatever closed before.
LiveChannel ==
  channel # None => /\ listening
                    /\ chan[channel] = "open"
                    /\ amqplib \in {"open", "closing"}

\* recreateChannel() has something to wait for or to continue with.
Recreating == isRecreatingChannel /\ creation \in {"pending", "opened", "refused"}

(***************************************************************************)
(* No lost wake-up: as long as the connection is not given up, a loop that *)
(* waits for a channel or for resumeAll() waits for a recreation that is   *)
(* under way, so that execute() never depends on its timer to come back.   *)
(***************************************************************************)
NoLostWakeup ==
  listening => \A c \in Commands : pc[c] \in {"waiting", "suspended"}
                                     /\ Pending(c) => Recreating

\* No channel stays open that is neither in the container nor on its way there.
NoChannelLeak ==
  amqplib = "open" =>
    \A k \in Channels : chan[k] = "open" =>
                           k = channel \/ (k = born /\ creation = "opened")

(***************************************************************************)
(* "closed" is what makes AmqpConnectionWrapper reconnect: a connection    *)
(* that was connected and gives itself up emits it exactly once, and one   *)
(* that its owner disposes of never does.                                  *)
(***************************************************************************)
ClosedAnnouncedOnce ==
  closedEvents = IF isCancelled /\ ~ownerDisposed THEN 1 ELSE 0

(***************************************************************************)
(* Only a channel that has closed is replaced: a late error of a command   *)
(* never tears down the channel that replaced the one it ran on, with the  *)
(* consumers and the unacknowledged deliveries of that channel.            *)
(***************************************************************************)
KeepsChannel ==
  channel # None /\ channel' # channel => chan'[channel] = "closed" \/ isDisposed'

HealthyChannelKept == [][KeepsChannel]_vars

(***************************************************************************)
(* After CommandTimedOutError the loop may finish the attempt it is in (a  *)
(* loop that waits for a channel even begins it), but it never makes a     *)
(* further one.                                                            *)
(***************************************************************************)
EndsAfterTimeout(c) ==
  outcome[c] = "timeout" /\ pc[c] \notin {"waiting", "ready"} =>
    pc'[c] \notin {"waiting", "ready"}

NoRetryAfterTimeout == [][\A c \in Commands : EndsAfterTimeout(c)]_vars

\* AmqpChannelExecutor.execute() keeps the promise of CommandExecution.
CE == INSTANCE CommandExecution WITH outcome <- outcome, isCancelled <- isCancelled
SafePromise == CE!Safety

(***************************************************************************)
(* Without the help of its timer, every command of a connection that has   *)
(* connected settles: the resumes and the new channels reach all of them.  *)
(***************************************************************************)
EveryCommandSettles ==
  \A c \in Commands : (Pending(c) /\ listening) ~> ~Pending(c)
=============================================================================
