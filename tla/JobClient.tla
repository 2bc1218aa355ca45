----------------------------- MODULE JobClient -----------------------------
(***************************************************************************)
(* JobClient.performInBackground() for the jobs of one queue, with the     *)
(* JobQueueInitializers that the client keeps for it, on a connection that *)
(* can be lost, to a broker that can lose what was declared there.         *)
(***************************************************************************)
EXTENDS Naturals

CONSTANTS
  Calls,     \* bound: calls of performInBackground(), numbered as they are made
  MaxLosses  \* bound: channels or connections lost in a behaviour

ASSUME JobClientAssumption ==
  /\ Calls \subseteq Nat \ {0}
  /\ MaxLosses \in Nat

VARIABLES
  call,         \* [pc, initializer] of each performInBackground()
  initializer,  \* [step, isCurrent] of each JobQueueInitializer; isCurrent: its
                \* initializePromise is the one that runs, not null
  cached,       \* jobQueueInitializers.get(queue); 0: none
  isDisposed,
  \* the connection and the broker
  connection,  \* "up", "down"
  losses,
  declared,    \* which of "exchange", "queue", "binding" there are
  arrived,     \* calls whose job has been put in the queue
  \* history
  epoch,        \* times the client has handled "reconnected"
  begun,        \* epoch in which each call was made
  failedIn,     \* epoch in which each initialization was rejected
  disturbed     \* calls that were under way at a "reconnected"

vars == <<call, initializer, cached, isDisposed, connection, losses, declared, arrived,
          epoch, begun, failedIn, disturbed>>

\* An initializer has the number of the call that creates it; 0: none.
Initializers == Calls

UnderWay == {c \in Calls : call[c].pc \in {"initializing", "publishing", "sent"}}

Init ==
  /\ call = [c \in Calls |-> [pc |-> "idle", initializer |-> 0]]
  /\ initializer = [i \in Initializers |-> [step |-> "none", isCurrent |-> FALSE]]
  /\ cached = 0
  /\ isDisposed = FALSE
  /\ connection = "up"
  /\ losses = 0
  /\ declared \in {{}, {"exchange"}, {"exchange", "queue", "binding"}}
  /\ arrived = {}
  /\ epoch = 0
  /\ begun = [c \in Calls |-> 0]
  /\ failedIn = [i \in Initializers |-> 0]
  /\ disturbed = {}

-----------------------------------------------------------------------------
(* JobQueueInitializer *)

StepAfter == [created |-> "exchange", exchange |-> "queue", queue |-> "binding",
              binding |-> "resolved"]

\* Mutant: what is disposed of never resolves.
StopsThere(i) == IF initializer[i].isCurrent THEN StepAfter[initializer[i].step]
                 ELSE initializer[i].step

\* The step after this one has been answered; none once disposed of.
Following(i) == IF initializer[i].isCurrent THEN StepAfter[initializer[i].step]
                ELSE "resolved"

\* The first microtask of initialize(), or the broker's answer to assertExchange(),
\* assertQueue(), bindQueue().
InitializerContinues(i) ==
  LET step == initializer[i].step
  IN /\ \/ step = "created"
        \/ connection = "up" /\ step \in {"exchange", "queue"}
        \/ connection = "up" /\ step = "binding" /\ {"exchange", "queue"} \subseteq declared
     /\ initializer' = [initializer EXCEPT ![i].step = Following(i)]
     /\ declared' = declared \cup ({step} \ {"created"})
     /\ UNCHANGED <<call, cached, isDisposed, connection, losses, arrived, epoch, begun,
                    failedIn, disturbed>>

\* A command times out.
InitializerFails(i) ==
  /\ initializer[i].step \in {"exchange", "queue", "binding"}
  /\ initializer' = [initializer EXCEPT ![i].step = "rejected"]
  /\ failedIn' = [failedIn EXCEPT ![i] = epoch]
  /\ UNCHANGED <<call, cached, isDisposed, connection, losses, declared, arrived, epoch,
                 begun, disturbed>>

-----------------------------------------------------------------------------
(* JobClient *)

\* performInBackground() up to its first await.
Perform(c) ==
  /\ ~isDisposed
  /\ call[c].pc = "idle" /\ \A d \in Calls : d < c => call[d].pc # "idle"
  /\ IF cached # 0
     THEN UNCHANGED <<cached, initializer>>
     ELSE /\ cached' = c
          /\ initializer' = [initializer EXCEPT ![c] =
                               [step |-> "created", isCurrent |-> TRUE]]
  /\ call' = [call EXCEPT ![c] = [pc |-> "initializing", initializer |-> cached']]
  /\ begun' = [begun EXCEPT ![c] = epoch]
  /\ UNCHANGED <<isDisposed, connection, losses, declared, arrived, epoch, failedIn,
                 disturbed>>

\* Mutant: initialize() is not awaited.
NotAwaited(c) ==
  /\ call[c].pc = "initializing"
  /\ call' = [call EXCEPT ![c].pc = IF isDisposed THEN "returned" ELSE "publishing"]
  /\ UNCHANGED <<initializer, cached, isDisposed, connection, losses, declared, arrived,
                 epoch, begun, failedIn, disturbed>>

\* initialize() settles; performInBackground() goes on, or returns when disposed of.
Initialized(c) ==
  LET step == initializer[call[c].initializer].step
  IN /\ call[c].pc = "initializing"
     /\ step \in {"resolved", "rejected"}
     /\ call' = [call EXCEPT ![c].pc = IF step = "rejected" THEN "uninitialized"
                                       ELSE IF isDisposed THEN "returned" ELSE "publishing"]
     /\ UNCHANGED <<initializer, cached, isDisposed, connection, losses, declared,
                    arrived, epoch, begun, failedIn, disturbed>>

\* publishToExchange(): the broker routes the message to the queue, or nowhere.
PublishReaches(c) ==
  /\ connection = "up"
  /\ call[c].pc = "publishing"
  /\ "exchange" \in declared
  /\ call' = [call EXCEPT ![c].pc = "sent"]
  /\ arrived' = IF "binding" \in declared THEN arrived \cup {c} ELSE arrived
  /\ UNCHANGED <<initializer, cached, isDisposed, connection, losses, declared, epoch,
                 begun, failedIn, disturbed>>

\* The broker confirms, wherever the message has gone.
PublishConfirmed(c) ==
  /\ connection = "up"
  /\ call[c].pc = "sent"
  /\ call' = [call EXCEPT ![c].pc = "returned"]
  /\ UNCHANGED <<initializer, cached, isDisposed, connection, losses, declared, arrived,
                 epoch, begun, failedIn, disturbed>>

\* publishToExchange() times out.  Without the exchange every try closes the channel,
\* which looks like a lost one, so that it is tried until then.
PublishFails(c) ==
  /\ call[c].pc \in {"publishing", "sent"}
  /\ call' = [call EXCEPT ![c].pc = "rejected"]
  /\ UNCHANGED <<initializer, cached, isDisposed, connection, losses, declared, arrived,
                 epoch, begun, failedIn, disturbed>>

\* disposeJobQueueInitializers()
DisposeInitializers ==
  /\ cached' = 0
  /\ initializer' = IF cached = 0 THEN initializer
                    ELSE [initializer EXCEPT ![cached].isCurrent = FALSE]

Dispose ==
  /\ ~isDisposed
  /\ isDisposed' = TRUE
  /\ DisposeInitializers
  /\ UNCHANGED <<call, connection, losses, declared, arrived, epoch, begun, failedIn,
                 disturbed>>

-----------------------------------------------------------------------------
(* The connection and the broker *)

\* What is not confirmed is published again.
Repeated ==
  [c \in Calls |-> IF call[c].pc = "sent" THEN [call[c] EXCEPT !.pc = "publishing"]
                                          ELSE call[c]]

Lost ==
  /\ connection = "up" /\ losses < MaxLosses
  /\ losses' = losses + 1
  /\ call' = Repeated
  /\ UNCHANGED <<initializer, cached, isDisposed, arrived, epoch, begun, failedIn,
                 disturbed>>

\* The channel alone, of which the client is not told.
ChannelLost == Lost /\ UNCHANGED <<connection, declared>>

\* 404: what is to be bound has gone since it was asserted.  The broker closes the channel.
NotFound(i) ==
  /\ connection = "up"
  /\ initializer[i].step = "binding" /\ ~({"exchange", "queue"} \subseteq declared)
  /\ initializer' = [initializer EXCEPT ![i].step = "rejected"]
  /\ failedIn' = [failedIn EXCEPT ![i] = epoch]
  /\ call' = Repeated
  /\ UNCHANGED <<cached, isDisposed, connection, losses, declared, arrived, epoch, begun,
                 disturbed>>

\* The connection, perhaps because the broker restarts without its definitions.
ConnectionLost ==
  /\ Lost
  /\ connection' = "down"
  /\ declared' \in {declared, {}}

\* Mutant: the initializers stay.
ReconnectedUnnoticed ==
  /\ connection = "down"
  /\ connection' = "up"
  /\ epoch' = IF isDisposed THEN epoch ELSE epoch + 1
  /\ disturbed' = disturbed \cup UnderWay
  /\ UNCHANGED <<call, initializer, cached, isDisposed, losses, declared, arrived, begun,
                 failedIn>>

\* "reconnected", which a client that is disposed of does not listen to.
Reconnected ==
  /\ connection = "down"
  /\ connection' = "up"
  /\ IF isDisposed
     THEN UNCHANGED <<initializer, cached, epoch>>
     ELSE DisposeInitializers /\ epoch' = epoch + 1
  /\ disturbed' = disturbed \cup UnderWay
  /\ UNCHANGED <<call, isDisposed, losses, declared, arrived, begun, failedIn>>

-----------------------------------------------------------------------------
Continues(c) == Initialized(c) \/ PublishReaches(c) \/ PublishConfirmed(c)

Next ==
  \/ \E c \in Calls : Perform(c) \/ Continues(c) \/ PublishFails(c)
  \/ \E i \in Initializers : InitializerContinues(i) \/ InitializerFails(i) \/ NotFound(i)
  \/ Dispose \/ ChannelLost \/ ConnectionLost \/ Reconnected

Safety == Init /\ [][Next]_vars

\* The broker answers, a lost connection is restored, and a publication that cannot
\* succeed times out.
Spec ==
  /\ Safety
  /\ WF_vars(Reconnected)
  /\ \A i \in Initializers : WF_vars(InitializerContinues(i) \/ NotFound(i))
  /\ \A c \in Calls : /\ WF_vars(Continues(c))
                      /\ WF_vars(PublishFails(c) /\ "exchange" \notin declared)

-----------------------------------------------------------------------------
(* What makes it correct *)

CallRecord ==
  [pc : {"idle", "initializing", "publishing", "sent", "returned", "uninitialized",
         "rejected"},
   initializer : Calls \cup {0}]

InitializerRecord ==
  [step : {"none", "created", "exchange", "queue", "binding", "resolved", "rejected"},
   isCurrent : BOOLEAN]

TypeOK ==
  /\ call \in [Calls -> CallRecord]
  /\ initializer \in [Initializers -> InitializerRecord]
  /\ cached \in Initializers \cup {0}
  /\ isDisposed \in BOOLEAN
  /\ connection \in {"up", "down"}
  /\ losses \in Nat /\ epoch \in Nat
  /\ declared \subseteq {"exchange", "queue", "binding"}
  /\ arrived \subseteq Calls /\ disturbed \subseteq Calls
  /\ begun \in [Calls -> Nat]
  /\ failedIn \in [Initializers -> Nat]

(***************************************************************************)
(* A performInBackground() that returns has put its job in the queue (the  *)
(* publication is not mandatory: the broker confirms what it drops), but   *)
(* for calls that a "reconnected" has met on their way, whose              *)
(* initialization may return half done, and calls that dispose() has ended.*)
(***************************************************************************)
ReturnedIsRouted ==
  \A c \in Calls : call[c].pc = "returned" /\ ~isDisposed /\ c \notin disturbed =>
                     c \in arrived

(***************************************************************************)
(* An initialization that is rejected stays in the cache and rejects every *)
(* call from then on, but no call that is made after a "reconnected".      *)
(***************************************************************************)
FailureForgotten ==
  \A c \in Calls : call[c].pc = "uninitialized" => failedIn[call[c].initializer] >= begun[c]

\* Every call settles, also those that share an initialization which is disposed of.
EveryCallSettles == []<>(UnderWay = {})
=============================================================================
