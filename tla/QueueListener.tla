--------------------------- MODULE QueueListener ---------------------------
(***************************************************************************)
(* How a queue comes to be consumed, and comes to be consumed again after  *)
(* "channelRecreated" and "reconnected".  Three classes do it, each in its *)
(* way: JobServer with JobQueueInitializer and JobQueueConsumer ("jobs"),  *)
(* CommandReceiver with CommandQueueInitializer and CommandQueueConsumer   *)
(* ("commands"), CommandSender with ReplyQueueConsumer ("replies").        *)
(*                                                                         *)
(* A pass is one execution of initialize() and consume(), or of consume()  *)
(* alone.  Its commands are repeated by the executor when the channel is   *)
(* lost, whatever the event handlers begin meanwhile.                      *)
(***************************************************************************)
EXTENDS Naturals, FiniteSets

CONSTANTS
  Kinds,        \* the classes to look at: "jobs", "commands", "replies"
  Passes,       \* bound: concurrent passes, 1 .. n
  MaxChannels,  \* bound: channels opened in a behaviour, those that the broker
                \* closes for a missing queue apart
  MaxTag        \* bound: consumers in a behaviour

ASSUME QueueListenerAssumption ==
  /\ Kinds \subseteq {"jobs", "commands", "replies"}
  /\ \A p \in Passes : p \in Nat \ {0}
  /\ MaxChannels \in Nat \ {0}
  /\ MaxTag \in Nat

VARIABLES
  kind,         \* which of the classes this is
  isExclusive,  \* CommandQueueInitializer.isExclusive
  state,        \* "ready", "listening", "disposed"
  promise,      \* initializePromise: the pass that it belongs to; 0: null
  pass,         \* [pc, tag, late] of each pass; tag: the consumer it has asked for;
                \* late: it has been rejected, but its command may still be run
  consumerTag,  \* the consumer's consumerTag; 0: null
  \* the broker
  channel,    \* "up"; "noChannel", "noConnection": lost
  opened,
  queue,      \* the queue exists
  bound,      \* and is bound to its exchange
  consumers,  \* consumers of the queue on the present channel
  nextTag,
  \* history
  overlapped,  \* on the present channel an event began a pass beside another one
  failed,      \* a command of a pass was rejected
  orphans,     \* consumers whose pass timed out before it had their tag, or whose tag
               \* was replaced by that of an overlapping pass
  notFound,    \* a listener whose passes did not overlap went to consume a queue
               \* that was not there
  cancelled    \* the broker has cancelled a consumer of its own accord

vars == <<kind, isExclusive, state, promise, pass, consumerTag, channel, opened, queue,
          bound, consumers, nextTag, overlapped, failed, orphans, notFound, cancelled>>

NoPass == [pc |-> "free", tag |-> 0, late |-> FALSE]
FreePasses == {p \in Passes : pass[p].pc = "free"}
UnderWay == {p \in Passes : pass[p].pc # "free" /\ ~pass[p].late}
\* Which of the free passes is taken makes no difference.
AnyOf(S) == CHOOSE x \in S : TRUE

Init ==
  /\ kind \in Kinds
  /\ isExclusive \in (IF kind = "commands" THEN BOOLEAN ELSE {FALSE})
  /\ state = "ready"
  /\ promise = 0
  /\ pass = [p \in Passes |-> NoPass]
  /\ consumerTag = 0
  /\ channel = "up"
  /\ opened = 1
  /\ queue = FALSE
  /\ bound = FALSE
  /\ consumers = {}
  /\ nextTag = 0
  /\ overlapped = FALSE
  /\ failed = FALSE
  /\ orphans = {}
  /\ notFound = FALSE
  /\ cancelled = FALSE

-----------------------------------------------------------------------------
\* consume() up to its first await.
FirstOfConsume == IF kind = "replies" THEN "queue" ELSE "consume"

\* Mutant: initialize() is not awaited.
StraightToConsume(initializes) ==
  LET p == AnyOf(FreePasses)
  IN /\ FreePasses # {}
     /\ pass' = [pass EXCEPT ![p].pc = "consume"]
     /\ promise' = IF initializes THEN p ELSE promise

(***************************************************************************)
(* A pass begins.  initialize() makes its promise the current one; a       *)
(* JobServer has reset() it before, so that none is reused.                *)
(***************************************************************************)
Begin(initializes) ==
  LET p == AnyOf(FreePasses)
  IN /\ FreePasses # {}
     /\ pass' = [pass EXCEPT ![p].pc = IF initializes THEN "exchange" ELSE FirstOfConsume]
     /\ promise' = IF initializes THEN p ELSE promise

\* listen(), or the first sendCommand().
Listen ==
  /\ state = "ready"
  /\ state' = "listening"
  /\ Begin(kind # "replies")
  /\ UNCHANGED <<kind, isExclusive, consumerTag, channel, opened, queue, bound,
                 consumers, nextTag, overlapped, failed, orphans, notFound, cancelled>>

(***************************************************************************)
(* The broker answers assertExchange(), assertQueue() or bindQueue().      *)
(* initialize() goes on while its promise is the current one; otherwise it *)
(* resolves, and its caller consumes all the same.  A late command has its *)
(* effect, with nobody to go on.                                           *)
(***************************************************************************)
Answered(p) ==
  LET step == pass[p].pc
      next == IF kind # "replies" /\ promise = p /\ step # "bind"
              THEN IF step = "exchange" THEN "queue" ELSE "bind"
              ELSE IF state = "disposed" THEN "free" ELSE "consume"
      rest == [pass EXCEPT ![p] = IF @.late THEN NoPass ELSE [@ EXCEPT !.pc = next]]
  IN /\ channel = "up"
     /\ step \in {"exchange", "queue"} \/ (step = "bind" /\ queue)
     /\ pass' = rest
     /\ queue' = (queue \/ step = "queue")
     /\ bound' = (bound \/ step = "bind" \/ (step = "queue" /\ kind = "replies"))
     /\ UNCHANGED <<kind, isExclusive, state, promise, consumerTag, channel, opened,
                 consumers, nextTag, overlapped, failed, orphans, notFound, cancelled>>

\* consumeQueue() reaches the broker, perhaps when it has timed out already.
ConsumeReaches(p) ==
  /\ channel = "up" /\ queue
  /\ pass[p].pc = "consume"
  /\ nextTag < MaxTag
  /\ nextTag' = nextTag + 1
  /\ consumers' = consumers \cup {nextTag'}
  /\ pass' = [pass EXCEPT ![p] = IF @.late THEN NoPass
                                 ELSE [pc |-> "asked", tag |-> nextTag', late |-> FALSE]]
  /\ orphans' = IF pass[p].late THEN orphans \cup {nextTag'} ELSE orphans
  /\ UNCHANGED <<kind, isExclusive, state, promise, consumerTag, channel, opened, queue,
                 bound, overlapped, failed, notFound, cancelled>>

\* Mutant: consume() does not look at isDisposed.
NoRollback(p) ==
  /\ pass[p].pc = "asked"
  /\ pass' = [pass EXCEPT ![p] = NoPass]
  /\ consumerTag' = pass[p].tag
  /\ UNCHANGED <<kind, isExclusive, state, promise, channel, opened, queue, bound,
                 consumers, nextTag, overlapped, failed, orphans, notFound, cancelled>>

\* consumeQueue() resolves: keep the tag, or roll back when disposed of meanwhile.
Consuming(p) ==
  /\ pass[p].pc = "asked"
  /\ pass' = [pass EXCEPT ![p] = NoPass]
  /\ IF state = "disposed"
     THEN consumerTag' = 0 /\ consumers' = consumers \ {pass[p].tag}
     ELSE consumerTag' = pass[p].tag /\ UNCHANGED consumers
  /\ orphans' = IF overlapped THEN orphans \cup {consumerTag} ELSE orphans
  /\ UNCHANGED <<kind, isExclusive, state, promise, channel, opened, queue, bound,
                 nextTag, overlapped, failed, notFound, cancelled>>

(***************************************************************************)
(* A command of the pass times out, and the pass is rejected.  The command *)
(* is not given up: if it waits for a channel it is run on the next one,   *)
(* and if it runs the broker does what it says.  The tag of a consumer     *)
(* that there is already never comes to be known.  Only what waits to be   *)
(* repeated is dropped.                                                    *)
(***************************************************************************)
Fails(p) ==
  /\ p \in UnderWay
  /\ \/ pass' = [pass EXCEPT ![p] = NoPass]
     \/ pass[p].pc # "asked" /\ pass' = [pass EXCEPT ![p].late = TRUE]
  /\ orphans' = IF pass[p].pc = "asked" THEN orphans \cup {pass[p].tag} ELSE orphans
  /\ failed' = TRUE
  /\ UNCHANGED <<kind, isExclusive, state, promise, consumerTag, channel, opened, queue,
                 bound, consumers, nextTag, overlapped, notFound, cancelled>>

\* What runs on the channel that is lost is to be repeated, unless it has timed out.
Interrupted(q) ==
  [p \in Passes |->
     IF q[p].late THEN NoPass
     ELSE IF q[p].pc = "asked" THEN [pc |-> "consume", tag |-> 0, late |-> FALSE] ELSE q[p]]

\* 404: there is no such queue.  The broker closes the channel, the pass is rejected.
QueueNotFound(p) ==
  /\ channel = "up" /\ ~queue
  /\ pass[p].pc \in {"bind", "consume"}
  /\ pass' = Interrupted([pass EXCEPT ![p] = NoPass])
  /\ channel' = "noChannel"
  /\ consumers' = {}
  /\ failed' = TRUE
  /\ notFound' = (notFound \/ (state = "listening" /\ ~failed /\ ~overlapped))
  /\ UNCHANGED <<kind, isExclusive, state, promise, consumerTag, opened, queue, bound,
                 nextTag, overlapped, orphans, cancelled>>

\* The channel is lost, perhaps with its connection and the connection's queues.
ChannelLost ==
  /\ channel = "up" /\ opened < MaxChannels
  /\ opened' = opened + 1
  /\ channel' \in {"noChannel", "noConnection"}
  /\ queue' = (queue /\ ~(isExclusive /\ channel' = "noConnection"))
  /\ bound' = (bound /\ queue')
  /\ pass' = Interrupted(pass)
  /\ consumers' = {}
  /\ UNCHANGED <<kind, isExclusive, state, promise, consumerTag, nextTag, overlapped,
                 failed, orphans, notFound, cancelled>>

\* Mutant: only "reconnected" is heeded.
ChannelBackUnnoticed ==
  /\ channel # "up"
  /\ channel' = "up"
  /\ IF state = "listening" /\ channel = "noConnection"
     THEN /\ Begin(kind # "replies")
          /\ overlapped' = (UnderWay # {})
     ELSE UNCHANGED <<pass, promise, overlapped>>
  /\ UNCHANGED <<kind, isExclusive, state, consumerTag, opened, queue, bound, consumers,
                 nextTag, failed, orphans, notFound, cancelled>>

(***************************************************************************)
(* "channelRecreated" or "reconnected".  After the former a JobServer only *)
(* consumes, and does not wait for an initialize() that is under way.      *)
(***************************************************************************)
ChannelBack ==
  /\ channel # "up"
  /\ channel' = "up"
  /\ IF state = "listening"
     THEN /\ Begin(kind = "commands" \/ (kind = "jobs" /\ channel = "noConnection"))
          /\ overlapped' = (UnderWay # {})
     ELSE UNCHANGED <<pass, promise, overlapped>>
  /\ UNCHANGED <<kind, isExclusive, state, consumerTag, opened, queue, bound, consumers,
                 nextTag, failed, orphans, notFound, cancelled>>

\* dispose(): cancelConsumption() of the tag that is known.
Dispose ==
  /\ state = "listening"
  /\ state' = "disposed"
  /\ promise' = 0
  /\ consumerTag' = 0
  /\ consumers' = consumers \ {consumerTag}
  /\ UNCHANGED <<kind, isExclusive, pass, channel, opened, queue, bound, nextTag,
                 overlapped, failed, orphans, notFound, cancelled>>

(***************************************************************************)
(* amqplib reports a consumer that the broker has cancelled by calling     *)
(* back with null.  consumeQueue() makes a record of whatever it is given, *)
(* so the handler, which consumes again when it is given null, never is,   *)
(* and takes the record for a message.                                     *)
(***************************************************************************)
ConsumerCancelled(t) ==
  /\ ~cancelled
  /\ t \in consumers
  /\ consumers' = consumers \ {t}
  /\ cancelled' = TRUE
  /\ UNCHANGED <<kind, isExclusive, state, promise, pass, consumerTag, channel, opened,
                 queue, bound, nextTag, overlapped, failed, orphans, notFound>>

-----------------------------------------------------------------------------
Continues(p) == Answered(p) \/ ConsumeReaches(p) \/ Consuming(p) \/ QueueNotFound(p)

Next ==
  \/ Listen \/ Dispose \/ ChannelLost \/ ChannelBack
  \/ \E p \in Passes : Continues(p) \/ Fails(p)
  \/ \E t \in consumers : ConsumerCancelled(t)

Safety == Init /\ [][Next]_vars

\* The broker answers, and a lost channel or connection is restored.
Spec ==
  /\ Safety
  /\ WF_vars(ChannelBack)
  /\ \A p \in Passes : WF_vars(Continues(p))

-----------------------------------------------------------------------------
(* What makes it correct *)

PassRecord ==
  [pc : {"free", "exchange", "queue", "bind", "consume", "asked"}, tag : Nat,
   late : BOOLEAN]

TypeOK ==
  /\ kind \in Kinds
  /\ isExclusive \in BOOLEAN /\ (isExclusive => kind = "commands")
  /\ state \in {"ready", "listening", "disposed"}
  /\ promise \in Passes \cup {0}
  /\ pass \in [Passes -> PassRecord]
  /\ consumerTag \in Nat /\ opened \in Nat /\ nextTag \in Nat
  /\ channel \in {"up", "noChannel", "noConnection"}
  /\ queue \in BOOLEAN /\ bound \in BOOLEAN
  /\ overlapped \in BOOLEAN /\ failed \in BOOLEAN
  /\ notFound \in BOOLEAN /\ cancelled \in BOOLEAN
  /\ consumers \subseteq Nat \ {0} /\ orphans \subseteq Nat

(***************************************************************************)
(* A listener that is disposed of consumes nothing once its passes have    *)
(* ended, however dispose(), losses of the channel and passes under way    *)
(* are ordered.  The consumers whose tag it never had, as their            *)
(* consumeQueue() timed out, and those whose tag an overlapping pass has   *)
(* replaced, are the exceptions: nobody cancels them, and nobody handles   *)
(* the messages that they are given.                                       *)
(***************************************************************************)
DisposedConsumesNothing ==
  state = "disposed" /\ UnderWay = {} => consumers \subseteq orphans

(***************************************************************************)
(* What is consumed has been declared and bound before, on this connection *)
(* if it is exclusive; nobody consumes a queue that is not there, for      *)
(* which the broker would close the channel.  Superseded initialize()      *)
(* calls and JobServer's "channelRecreated" are the exceptions.            *)
(***************************************************************************)
InitializedFirst ==
  ~notFound /\ (consumers # {} /\ ~failed /\ ~overlapped => queue /\ bound)

(***************************************************************************)
(* However often the channel and the connection are lost, a listener that  *)
(* is not disposed of consumes in the end, unless a command was rejected   *)
(* or the broker has cancelled its consumer.                               *)
(***************************************************************************)
ConsumesAgain ==
  []<>(consumers # {} \/ state # "listening" \/ failed \/ cancelled)

(***************************************************************************)
(* "If the consumer is cancelled by RabbitMQ, the message callback will be *)
(* invoked with null" (JobQueueConsumer.ts:53), whereupon the consumers    *)
(* consume again: the listener would consume in the end then as well.      *)
(***************************************************************************)
CancelledConsumesAgain ==
  []<>(consumers # {} \/ state # "listening" \/ failed)
=============================================================================
