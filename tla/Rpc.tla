-------------------------------- MODULE Rpc --------------------------------
(***************************************************************************)
(* An RpcClient (CommandSender, CommandManager, ReplyQueueConsumer) and an *)
(* RpcServer on a broker, each with a channel of its own that can be lost. *)
(* Commands and replies are sent by sendToQueue(), which the executor      *)
(* repeats when the channel is lost before the broker has confirmed.       *)
(*                                                                         *)
(* A call is the correlation id of one executeRemoteCommand(); a copy is   *)
(* one message of it in the command queue; a run is one execution of       *)
(* handleCommandMessage() past its lock.                                   *)
(***************************************************************************)
EXTENDS Naturals, FiniteSets

CONSTANTS
  Calls,            \* the calls of executeRemoteCommand(), on one queue
  Malformed,        \* those whose content the server cannot read: of another
                    \* client, as a CommandSender sends what can be read
  Answers,          \* what handlers answer: "ok", "error"
  Copies,           \* bound: messages of one call in the broker, 1 .. n
  Runs,             \* bound: concurrent runs of the server, 1 .. n
  MaxLosses         \* bound: channels lost by either side in a behaviour with
                    \* that many calls; none has more calls than its length

ASSUME RpcAssumption ==
  /\ Answers \subseteq {"ok", "error"}
  /\ "none" \notin Calls
  /\ Malformed \subseteq Calls
  /\ \A n \in DOMAIN MaxLosses : MaxLosses[n] \in Nat
  /\ Copies # {} /\ \A i \in Copies \cup Runs : i \in Nat \ {0}

VARIABLES
  \* the client
  pc,             \* where sendCommand() of each call stands
  status,         \* the entry of the CommandContainer: Command.status
  outcome,        \* the state of the promise the caller holds
  isInitialized,  \* CommandSender.isInitialized
  isDisposed,     \* RpcClient.isDisposed, and its sender's and consumer's
  consuming,      \* ReplyQueueConsumer.consume(): "no", "assert", "consume"
  late,           \* its commands that have timed out and may still be carried out
  clientUp,       \* the client has a channel
  clientLosses,
  \* the broker
  queue,       \* the command queue exists
  copy,        \* where each copy of a call's message is
  replyQueue,  \* the reply queue exists
  consumed,    \* the client consumes it on its present channel
  replies,     \* the <<call, answer>> in it
  \* the server
  state,         \* RpcServer.state
  channel,       \* "up"; "down"; "doomed": up, but about to be lost
  serverLosses,
  lock,          \* MessageRelevancyChecker: the copy delivered last; 0: no entry
  run,           \* [pc, call, answer] of each run
  \* history
  given,       \* the <<call, answer>> that handlers have given
  unroutable,  \* calls whose message was returned
  early,       \* later calls made while the reply queue did not exist
  expired,     \* the reply queue has expired
  dropped,     \* calls with a reply that found no queue, or was in it then
  timedOut,    \* calls with a handler that timed out
  unanswered   \* calls with a reply that could not be sent

clientVars == <<pc, status, outcome, isInitialized, isDisposed, consuming, late, clientUp,
                clientLosses>>
brokerVars == <<queue, copy, replyQueue, consumed, replies>>
serverVars == <<state, channel, serverLosses, lock, run>>
history == <<given, unroutable, early, expired, dropped, timedOut, unanswered>>
vars == <<clientVars, brokerVars, serverVars, history>>

(***************************************************************************)
(* pc of a call: its sendCommand() is idle, initializing, sending; sent,   *)
(* not yet confirmed; waiting; done; or abandoned, which is done while the *)
(* command may still reach the broker.                                     *)
(* pc of a run: free; handling; replying, replied, as for a command;       *)
(* acking; or abandoned, which is over while the reply may still reach it. *)
(***************************************************************************)
NoRun == [pc |-> "free", call |-> "none", answer |-> "none"]
Live(r) == run[r].pc \notin {"free", "abandoned"}
Made == {c \in Calls : pc[c] # "idle"}
MayLose == /\ Made # {}
           /\ clientLosses + serverLosses < MaxLosses[Cardinality(Made)]
MayCall == /\ Cardinality(Made) + 1 \in DOMAIN MaxLosses
           /\ clientLosses + serverLosses <= MaxLosses[Cardinality(Made) + 1]
AnyOf(S) == CHOOSE x \in S : TRUE

Init ==
  /\ pc = [c \in Calls |-> "idle"]
  /\ status = [c \in Calls |-> "none"]
  /\ outcome = [c \in Calls |-> "idle"]
  /\ isInitialized = FALSE
  /\ isDisposed = FALSE
  /\ consuming = "no"
  /\ late = {}
  /\ clientUp = TRUE
  /\ clientLosses = 0
  /\ queue = FALSE
  /\ copy = [c \in Calls |-> [i \in Copies |-> "none"]]
  /\ replyQueue = FALSE
  /\ consumed = FALSE
  /\ replies = {}
  /\ state = "ready"
  /\ channel = "up"
  /\ serverLosses = 0
  /\ lock = [c \in Calls |-> 0]
  /\ run = [r \in Runs |-> NoRun]
  /\ given = {}
  /\ unroutable = {}
  /\ early = {}
  /\ expired = FALSE
  /\ dropped = {}
  /\ timedOut = {}
  /\ unanswered = {}

-----------------------------------------------------------------------------
(* Command and CommandManager *)

(***************************************************************************)
(* succeed() and fail() of the call's entry.  Only the first one counts.   *)
(* A caller that waits is settled and its entry deleted; one that is still *)
(* sending finds the status afterwards.  The other calls then stand at     *)
(* where[c], which is pc[c] unless the channel is lost in the same step.   *)
(***************************************************************************)
SettleAll(S, result, where) ==
  LET open == {c \in S : status[c] = "ready"}
      waiting == {c \in open : pc[c] = "waiting"}
  IN /\ pc' = [c \in Calls |-> IF c \in waiting THEN "done" ELSE where[c]]
     /\ outcome' = [c \in Calls |-> IF c \in waiting THEN result ELSE outcome[c]]
     /\ status' = [c \in Calls |-> IF c \in waiting THEN "none"
                                   ELSE IF c \in open THEN result ELSE status[c]]

\* Mutant: the manager ignores the correlation id.
SettleAny(c, result, where) == SettleAll(Calls, result, where)

SettleOne(c, result, where) == SettleAll({c}, result, where)

\* The promise of sendCommand() is rejected; an entry that exists stays.
Reject(c, result) ==
  /\ pc' = [pc EXCEPT ![c] = "done"]
  /\ outcome' = [outcome EXCEPT ![c] = result]
  /\ UNCHANGED status

-----------------------------------------------------------------------------
(* The client: RpcClient, CommandSender, ReplyQueueConsumer *)

\* sendCommand() after initialize(): create the entry and the timer, and send.
AfterInitialize(c) ==
  IF isDisposed
  THEN Reject(c, "closed")
  ELSE /\ pc' = [pc EXCEPT ![c] = "sending"]
       /\ status' = [status EXCEPT ![c] = "ready"]
       /\ outcome' = [outcome EXCEPT ![c] = "pending"]

\* Mutant: initialize() is not awaited.
DoesNotWait(c) ==
  /\ pc[c] = "idle"
  /\ MayCall
  /\ AfterInitialize(c)
  /\ early' = IF isInitialized /\ ~replyQueue THEN early \cup {c} ELSE early
  /\ isInitialized' = TRUE
  /\ consuming' = IF isInitialized THEN consuming ELSE "assert"
  /\ UNCHANGED <<isDisposed, late, clientUp, clientLosses, brokerVars, serverVars, given,
                 unroutable, expired, dropped, timedOut, unanswered>>

(***************************************************************************)
(* executeRemoteCommand().  The first call initializes the sender; any     *)
(* other one finds isInitialized set and sends, whatever became of it.     *)
(***************************************************************************)
Call(c) ==
  /\ pc[c] = "idle"
  /\ MayCall
  /\ IF ~isDisposed /\ ~isInitialized
     THEN /\ isInitialized' = TRUE
          /\ consuming' = "assert"
          /\ pc' = [pc EXCEPT ![c] = "initializing"]
          /\ outcome' = [outcome EXCEPT ![c] = "pending"]
          /\ UNCHANGED <<status, early>>
     ELSE /\ AfterInitialize(c)
          /\ early' = IF replyQueue THEN early ELSE early \cup {c}
          /\ UNCHANGED <<isInitialized, consuming>>
  /\ UNCHANGED <<isDisposed, late, clientUp, clientLosses, brokerVars, serverVars, given,
                 unroutable, expired, dropped, timedOut, unanswered>>

\* The call whose initialize() has come to an end, if it still waits, goes on.
InitializerContinues ==
  IF \E c \in Calls : pc[c] = "initializing"
  THEN AfterInitialize(CHOOSE c \in Calls : pc[c] = "initializing")
  ELSE UNCHANGED <<pc, status, outcome>>

\* consume(): assertQueue() is answered.
ReplyQueueAsserted ==
  /\ clientUp /\ consuming = "assert"
  /\ replyQueue' = TRUE
  /\ IF isDisposed
     THEN consuming' = "no" /\ InitializerContinues
     ELSE consuming' = "consume" /\ UNCHANGED <<pc, status, outcome>>
  /\ UNCHANGED <<isInitialized, isDisposed, late, clientUp, clientLosses, queue, copy,
                 consumed, replies, serverVars, history>>

\* consume(): consumeQueue() is answered; disposed of meanwhile, it is cancelled.
ReplyQueueConsumed ==
  /\ clientUp /\ consuming = "consume" /\ replyQueue
  /\ consuming' = "no"
  /\ consumed' = ~isDisposed
  /\ InitializerContinues
  /\ UNCHANGED <<isInitialized, isDisposed, late, clientUp, clientLosses, queue, copy,
                 replyQueue, replies, serverVars, history>>

\* consume() rejects, its command having timed out; isInitialized stays.
ConsumeFails ==
  /\ consuming # "no"
  /\ consuming' = "no"
  /\ late' \in {late, late \cup {consuming}}
  /\ IF \E c \in Calls : pc[c] = "initializing"
     THEN Reject(CHOOSE c \in Calls : pc[c] = "initializing", "sendError")
     ELSE UNCHANGED <<pc, status, outcome>>
  /\ UNCHANGED <<isInitialized, isDisposed, clientUp, clientLosses, brokerVars, serverVars,
                 history>>

\* A command that consume() does not wait for any more is carried out.
LateConsume ==
  /\ clientUp
  /\ \/ /\ "assert" \in late /\ late' = late \ {"assert"}
        /\ replyQueue' = TRUE
        /\ UNCHANGED consumed
     \/ /\ "consume" \in late /\ replyQueue /\ late' = late \ {"consume"}
        /\ consumed' = TRUE
        /\ UNCHANGED replyQueue
  /\ UNCHANGED <<pc, status, outcome, isInitialized, isDisposed, consuming, clientUp,
                 clientLosses, queue, copy, replies, serverVars, history>>

(***************************************************************************)
(* The command reaches the broker.  It is mandatory: without a queue it    *)
(* comes back ("return") before it is confirmed.                           *)
(***************************************************************************)
SendReaches(c) ==
  LET places == {i \in Copies : copy[c][i] = "none"}
  IN /\ clientUp /\ pc[c] \in {"sending", "abandoned"}
     /\ IF queue
        THEN /\ places # {}
             /\ copy' = [copy EXCEPT ![c][AnyOf(places)] = "ready"]
             /\ UNCHANGED <<status, unroutable>>
        ELSE /\ status' = [status EXCEPT ![c] = IF @ = "ready" THEN "dismissed" ELSE @]
             /\ unroutable' = unroutable \cup {c}
             /\ UNCHANGED copy
     /\ pc' = [pc EXCEPT ![c] = IF @ = "sending" THEN "sent" ELSE "done"]
     /\ UNCHANGED <<outcome, isInitialized, isDisposed, consuming, late, clientUp,
                    clientLosses, queue, replyQueue, consumed, replies, serverVars, given,
                    early, expired, dropped, timedOut, unanswered>>

\* Mutant: sendCommand() does not look at isDisposed after sending, nor at the status.
WaitsAnyway(c) ==
  /\ clientUp /\ pc[c] = "sent"
  /\ pc' = [pc EXCEPT ![c] = "waiting"]
  /\ UNCHANGED <<status, outcome, isInitialized, isDisposed, consuming, late, clientUp,
                 clientLosses, brokerVars, serverVars, history>>

(***************************************************************************)
(* sendToQueue() resolves: sendCommand() throws when it was disposed of,   *)
(* else it waits, unless the command is settled already.                   *)
(***************************************************************************)
SendConfirmed(c) ==
  /\ clientUp /\ pc[c] = "sent"
  /\ \/ /\ isDisposed
        /\ Reject(c, "closed")
     \/ /\ ~isDisposed /\ status[c] = "ready"
        /\ pc' = [pc EXCEPT ![c] = "waiting"]
        /\ UNCHANGED <<status, outcome>>
     \/ /\ ~isDisposed /\ status[c] # "ready"
        /\ pc' = [pc EXCEPT ![c] = "done"]
        /\ outcome' = [outcome EXCEPT ![c] = status[c]]
        /\ status' = [status EXCEPT ![c] = "none"]
  /\ UNCHANGED <<isInitialized, isDisposed, consuming, late, clientUp, clientLosses,
                 brokerVars, serverVars, history>>

\* sendToQueue() rejects, by the executor's own timer: that does not call back a command
\* that still has to be sent.
SendFails(c) ==
  /\ pc[c] \in {"sending", "sent"}
  /\ \E end \in (IF pc[c] = "sending" THEN {"done", "abandoned"} ELSE {"done"}) :
       pc' = [pc EXCEPT ![c] = end]
  /\ outcome' = [outcome EXCEPT ![c] = "sendError"]
  /\ UNCHANGED <<status, isInitialized, isDisposed, consuming, late, clientUp,
                 clientLosses, brokerVars, serverVars, history>>

(***************************************************************************)
(* Nobody has taken the command before expireMs, which is the time of the  *)
(* timer of sendCommand() and begins later.                                *)
(***************************************************************************)
CommandExpires(c, i) ==
  /\ copy[c][i] = "ready"
  /\ ~(pc[c] \in {"sending", "sent", "waiting"} /\ status[c] = "ready")
  /\ copy' = [copy EXCEPT ![c][i] = "gone"]
  /\ UNCHANGED <<clientVars, queue, replyQueue, consumed, replies, serverVars, history>>

\* The timer of sendCommand(), which runs until its finally block.
TimerFires(c) ==
  /\ pc[c] \in {"sending", "sent", "waiting"}
  /\ status[c] = "ready"
  /\ SettleOne(c, "timeout", pc)
  /\ UNCHANGED <<isInitialized, isDisposed, consuming, late, clientUp, clientLosses,
                 brokerVars, serverVars, history>>

\* Where the calls stand without a channel: what is not confirmed will be sent again.
Unsent == [c \in Calls |-> IF pc[c] = "sent" THEN "sending" ELSE pc[c]]

(***************************************************************************)
(* handleReplyQueueMessage(): settle and acknowledge.  The acknowledgement *)
(* may be lost together with the channel, and the reply comes again.       *)
(***************************************************************************)
ReplyDelivered(c, a) ==
  /\ clientUp /\ consumed /\ ~isDisposed
  /\ <<c, a>> \in replies
  /\ \/ /\ SettleOne(c, a, pc)
        /\ replies' = replies \ {<<c, a>>}
        /\ UNCHANGED <<consumed, clientUp, clientLosses>>
     \/ /\ SettleOne(c, a, Unsent)
        /\ MayLose
        /\ clientLosses' = clientLosses + 1
        /\ clientUp' = FALSE
        /\ consumed' = FALSE
        /\ UNCHANGED replies
  /\ UNCHANGED <<isInitialized, isDisposed, consuming, late, queue, copy, replyQueue,
                 serverVars, history>>

\* The client loses its channel.
ClientLost ==
  /\ clientUp /\ MayLose
  /\ clientLosses' = clientLosses + 1
  /\ clientUp' = FALSE
  /\ consumed' = FALSE
  /\ pc' = Unsent
  /\ UNCHANGED <<status, outcome, isInitialized, isDisposed, consuming, late, queue, copy,
                 replyQueue, replies, serverVars, history>>

\* "channelRecreated" or "reconnected": consume() again.
ClientBack ==
  /\ ~clientUp
  /\ clientUp' = TRUE
  /\ consuming' = IF isInitialized /\ ~isDisposed THEN "assert" ELSE consuming
  /\ UNCHANGED <<pc, status, outcome, isInitialized, isDisposed, late, clientLosses,
                 brokerVars, serverVars, history>>

\* Nobody consumes the reply queue for replyQueueDisuseExpireMs: the broker deletes it.
ReplyQueueExpires ==
  /\ replyQueue /\ ~consumed
  /\ replyQueue' = FALSE
  /\ replies' = {}
  /\ expired' = TRUE
  /\ dropped' = dropped \cup {c \in Calls : \E a \in Answers : <<c, a>> \in replies}
  /\ UNCHANGED <<clientVars, queue, copy, consumed, serverVars, given, unroutable, early,
                 timedOut, unanswered>>

\* dispose(): failAllWithCode(CommandCancelled), and no replies any more.
ClientDispose ==
  /\ ~isDisposed
  /\ isDisposed' = TRUE
  /\ SettleAll(Calls, "closed", pc)
  /\ consumed' = FALSE
  /\ UNCHANGED <<isInitialized, consuming, late, clientUp, clientLosses, queue, copy,
                 replyQueue, replies, serverVars, history>>

-----------------------------------------------------------------------------
(* The server: RpcServer with its CommandReceiver *)

\* listen(): the queue is declared, bound and consumed.
Listen ==
  /\ state = "ready" /\ channel = "up"
  /\ state' = "listening"
  /\ queue' = TRUE
  /\ UNCHANGED <<clientVars, copy, replyQueue, consumed, replies, channel,
                 serverLosses, lock, run, history>>

\* Mutant: handleCommandMessage() does not look at what lock() returns.
StartsAnyway(c) == c \notin Malformed

Starts(c) == lock[c] = 0 /\ c \notin Malformed

(***************************************************************************)
(* A copy is delivered: lock(), which remembers the new tag either way.    *)
(* Content that cannot be read makes handleCommandMessage() throw there,   *)
(* with the lock taken and nothing acknowledged.                           *)
(***************************************************************************)
Deliver(c, i) ==
  LET free == {r \in Runs : run[r].pc = "free"}
  IN /\ state = "listening" /\ channel # "down"
     /\ copy[c][i] = "ready"
     /\ free # {}
     /\ copy' = [copy EXCEPT ![c][i] = "unacked"]
     /\ lock' = [lock EXCEPT ![c] = i]
     /\ run' = IF Starts(c)
               THEN [run EXCEPT ![AnyOf(free)] = [pc |-> "handling", call |-> c,
                                                  answer |-> "none"]]
               ELSE run
     /\ UNCHANGED <<clientVars, queue, replyQueue, consumed, replies, state,
                    channel, serverLosses, history>>

\* Mutant: the end of handleCommandMessage() leaves the lock.
NeverUnlocked(c) == lock

Unlocked(c) == [lock EXCEPT ![c] = 0]

(***************************************************************************)
(* The end of handleCommandMessage(): acknowledge the tag the checker has  *)
(* now, and unlock.  Without a channel acknowledge() waits for one; with   *)
(* one that is about to be lost, the acknowledgement is lost too.          *)
(***************************************************************************)
Complete(r) ==
  LET c == run[r].call
      i == lock[c]
  IN \/ /\ state = "disposed"
        /\ run' = [run EXCEPT ![r] = NoRun]
        /\ UNCHANGED <<copy, lock, channel, serverLosses>>
     \/ /\ state # "disposed" /\ i # 0 /\ channel = "down"
        /\ run' = [run EXCEPT ![r].pc = "acking"]
        /\ UNCHANGED <<copy, lock, channel, serverLosses>>
     \/ /\ state # "disposed" /\ (i = 0 \/ channel # "down")
        /\ run' = [run EXCEPT ![r] = NoRun]
        /\ lock' = Unlocked(c)
        /\ copy' = IF i # 0 /\ channel = "up" THEN [copy EXCEPT ![c][i] = "gone"] ELSE copy
        /\ UNCHANGED <<channel, serverLosses>>
     \/ /\ state # "disposed" /\ i # 0 /\ channel = "up" /\ MayLose
        /\ run' = [run EXCEPT ![r] = NoRun]
        /\ lock' = Unlocked(c)
        /\ channel' = "doomed"
        /\ serverLosses' = serverLosses + 1
        /\ UNCHANGED copy

\* The handler answers: the reply is to be sent.
HandlerAnswers(r, a) ==
  /\ run[r].pc = "handling"
  /\ given' = given \cup {<<run[r].call, a>>}
  /\ run' = [run EXCEPT ![r] = IF state = "disposed" THEN NoRun
                               ELSE [@ EXCEPT !.pc = "replying", !.answer = a]]
  /\ UNCHANGED <<clientVars, brokerVars, state, channel, serverLosses, lock,
                 unroutable, early, expired, dropped, timedOut, unanswered>>

\* commandTimeoutMs is over: no reply, "client doesn't care about response anymore".
HandlerTimesOut(r) ==
  /\ run[r].pc = "handling"
  /\ timedOut' = timedOut \cup {run[r].call}
  /\ Complete(r)
  /\ UNCHANGED <<clientVars, queue, replyQueue, consumed, replies, state, given,
                 unroutable, early, expired, dropped, unanswered>>

\* The reply reaches the broker.  It is not mandatory: without a queue it is dropped.
ReplyReaches(r) ==
  LET c == run[r].call
  IN /\ run[r].pc \in {"replying", "abandoned"} /\ channel # "down"
     /\ run' = [run EXCEPT ![r] = IF @.pc = "replying" THEN [@ EXCEPT !.pc = "replied"]
                                  ELSE NoRun]
     /\ IF replyQueue
        THEN replies' = replies \cup {<<c, run[r].answer>>} /\ UNCHANGED dropped
        ELSE dropped' = dropped \cup {c} /\ UNCHANGED replies
     /\ UNCHANGED <<clientVars, queue, copy, replyQueue, consumed, state,
                    channel, serverLosses, lock, given, unroutable, early, expired,
                    timedOut, unanswered>>

\* Mutant: the reply is not awaited.
NotAwaited == {"replying", "replied"}

Confirmable == {"replied"}

ReplyConfirmed(r) ==
  /\ run[r].pc \in Confirmable /\ channel # "down"
  /\ Complete(r)
  /\ UNCHANGED <<clientVars, queue, replyQueue, consumed, replies, state, history>>

(***************************************************************************)
(* sendToQueue() rejects, or the answer cannot be serialized:              *)
(* handleCommandMessage() ends, without unlock().                          *)
(***************************************************************************)
ReplyFails(r) ==
  /\ run[r].pc \in {"replying", "replied"}
  /\ \/ run' = [run EXCEPT ![r] = NoRun]
     \/ run[r].pc = "replying" /\ run' = [run EXCEPT ![r].pc = "abandoned"]
  /\ unanswered' = unanswered \cup {run[r].call}
  /\ UNCHANGED <<clientVars, brokerVars, state, channel, serverLosses, lock,
                 given, unroutable, early, expired, dropped, timedOut>>

\* acknowledge() rejects for want of a channel: "acknowledgeError", and unlock.
AcknowledgeFails(r) ==
  /\ run[r].pc = "acking" /\ channel = "down"
  /\ run' = [run EXCEPT ![r] = NoRun]
  /\ lock' = Unlocked(run[r].call)
  /\ UNCHANGED <<clientVars, brokerVars, state, channel, serverLosses, history>>

(***************************************************************************)
(* The server loses its channel: the broker requeues what is not           *)
(* acknowledged.                                                           *)
(***************************************************************************)
ServerLost ==
  /\ channel = "doomed" \/ (channel = "up" /\ MayLose)
  /\ serverLosses' = IF channel = "up" THEN serverLosses + 1 ELSE serverLosses
  /\ channel' = "down"
  /\ copy' = [c \in Calls |-> [i \in Copies |->
                IF copy[c][i] = "unacked" THEN "ready" ELSE copy[c][i]]]
  /\ run' = [r \in Runs |-> IF run[r].pc = "replied"
                            THEN [run[r] EXCEPT !.pc = "replying"] ELSE run[r]]
  /\ UNCHANGED <<clientVars, queue, replyQueue, consumed, replies, state, lock, history>>

(***************************************************************************)
(* "channelRecreated" or "reconnected": unlockAll(), declare and consume.  *)
(* The acknowledgements that were waiting go out first, with tags of the   *)
(* old channel, for which the broker closes the new one.                   *)
(***************************************************************************)
ServerBack ==
  /\ channel = "down"
  /\ channel' = IF \E r \in Runs : run[r].pc = "acking" THEN "doomed" ELSE "up"
  /\ queue' = (queue \/ state = "listening")
  /\ lock' = IF state = "listening" THEN [c \in Calls |-> 0] ELSE lock
  /\ run' = [r \in Runs |-> IF run[r].pc = "acking" THEN NoRun ELSE run[r]]
  /\ UNCHANGED <<clientVars, copy, replyQueue, consumed, replies, state,
                 serverLosses, history>>

ServerDispose ==
  /\ state = "listening"
  /\ state' = "disposed"
  /\ UNCHANGED <<clientVars, brokerVars, channel, serverLosses, lock, run,
                 history>>

-----------------------------------------------------------------------------
SendEnds(c) == SendConfirmed(c) \/ SendFails(c)

ConsumeEnds == ReplyQueueAsserted \/ ReplyQueueConsumed \/ ConsumeFails

ReplyEnds(r) == ReplyConfirmed(r) \/ ReplyFails(r)

Next ==
  \/ \E c \in Calls :
       \/ Call(c) \/ SendReaches(c) \/ SendEnds(c) \/ TimerFires(c)
       \/ \E a \in Answers : ReplyDelivered(c, a)
       \/ \E i \in Copies : Deliver(c, i) \/ CommandExpires(c, i)
  \/ ConsumeEnds \/ LateConsume \/ ClientLost \/ ClientBack \/ ReplyQueueExpires
  \/ ClientDispose
  \/ \E r \in Runs :
       \/ HandlerTimesOut(r) \/ ReplyReaches(r) \/ ReplyEnds(r) \/ AcknowledgeFails(r)
       \/ \E a \in Answers : HandlerAnswers(r, a)
  \/ Listen \/ ServerLost \/ ServerBack \/ ServerDispose

Safety == Init /\ [][Next]_vars

(***************************************************************************)
(* The executor settles every command it is given, by its own timer if     *)
(* need be, and timers fire.  Nothing is assumed of the server, of the     *)
(* broker, of the network or of another client.                            *)
(***************************************************************************)
Spec ==
  /\ Safety
  /\ WF_vars(ConsumeEnds)
  /\ \A c \in Calls \ Malformed : WF_vars(TimerFires(c)) /\ WF_vars(SendEnds(c))

-----------------------------------------------------------------------------
(* What makes it correct *)

CallStates == {"idle", "initializing", "sending", "sent", "waiting", "done",
               "abandoned"}
Statuses == Answers \cup {"none", "ready", "timeout", "dismissed", "closed"}
Outcomes ==
  Answers \cup {"idle", "pending", "timeout", "dismissed", "closed", "sendError"}

RunRecord ==
  [pc : {"free", "handling", "replying", "replied", "acking", "abandoned"},
   call : Calls \cup {"none"}, answer : Answers \cup {"none"}]

TypeOK ==
  /\ pc \in [Calls -> CallStates]
  /\ status \in [Calls -> Statuses]
  /\ outcome \in [Calls -> Outcomes]
  /\ isInitialized \in BOOLEAN /\ isDisposed \in BOOLEAN /\ clientUp \in BOOLEAN
  /\ consuming \in {"no", "assert", "consume"}
  /\ late \subseteq {"assert", "consume"}
  /\ clientLosses \in Nat
  /\ copy \in [Calls -> [Copies -> {"none", "ready", "unacked", "gone"}]]
  /\ queue \in BOOLEAN /\ replyQueue \in BOOLEAN /\ consumed \in BOOLEAN
  /\ replies \subseteq Calls \X Answers
  /\ state \in {"ready", "listening", "disposed"}
  /\ channel \in {"up", "doomed", "down"}
  /\ serverLosses \in Nat
  /\ lock \in [Calls -> Copies \cup {0}]
  /\ run \in [Runs -> RunRecord]
  /\ given \subseteq Calls \X Answers
  /\ unroutable \subseteq Calls /\ early \subseteq Calls /\ dropped \subseteq Calls
  /\ expired \in BOOLEAN
  /\ timedOut \subseteq Calls /\ unanswered \subseteq Calls

(***************************************************************************)
(* The whole of it keeps the promise of executeRemoteCommand(): one        *)
(* settlement, and an answer only if a handler gave it to this very call.  *)
(***************************************************************************)
Promise == INSTANCE RemoteCall WITH
  Calls <- Calls, Answers <- Answers, outcome <- outcome, given <- given,
  unroutable <- unroutable, isDisposed <- isDisposed

AnswersAreTheCalls == Promise!Safety

(***************************************************************************)
(* Every call settles, whatever the server and the broker do: the timer,   *)
(* the return, the reply and dispose() together leave no gap, not even     *)
(* when they come while sendToQueue() is awaited.                          *)
(***************************************************************************)
EveryCallSettles ==
  \A c \in Calls \ Malformed : pc[c] # "idle" ~> outcome[c] # "pending"

(***************************************************************************)
(* "Commands are not retried": the message that sendToQueue() repeats for  *)
(* a client that lost its channel is not handled beside the first one, as  *)
(* long as the server keeps its channel.                                   *)
(***************************************************************************)
OneRunPerCommand ==
  serverLosses = 0 =>
    \A r, s \in Runs : r # s /\ Live(r) /\ Live(s) => run[r].call # run[s].call

(***************************************************************************)
(* A lock that nobody will release, which stops the command from being     *)
(* handled until the channel is lost, is left only by a reply that could   *)
(* not be sent and by content that could not be read.                      *)
(***************************************************************************)
LockHasOwner ==
  \A c \in Calls :
    lock[c] # 0 /\ state # "disposed" /\ c \notin unanswered \cup Malformed
      => \E r \in Runs : Live(r) /\ run[r].call = c

(***************************************************************************)
(* A reply finds no queue only if its call did not wait for the queue,     *)
(* since the first call was still initializing or had failed to, or if the *)
(* queue has expired since.                                                *)
(***************************************************************************)
DroppedOnlyIfEarly == ~expired => dropped \subseteq early

\* What is left of a call in the broker: its command, or the reply to it.
HasCommand(c) == \E i \in Copies : copy[c][i] \in {"ready", "unacked"}
HasReply(c) == \E a \in Answers : <<c, a>> \in replies

(***************************************************************************)
(* A server that dies leaves every command to the next one: as long as a   *)
(* caller waits, the broker has the command, acknowledged by no run, or    *)
(* the reply to it.  Only a handler that has timed out gives up the        *)
(* command without a reply, and a reply may be lost with its queue.        *)
(***************************************************************************)
CommandOrReply ==
  \A c \in Calls :
    pc[c] = "waiting" /\ c \notin timedOut \cup dropped => HasCommand(c) \/ HasReply(c)
=============================================================================
