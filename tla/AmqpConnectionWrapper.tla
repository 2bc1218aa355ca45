----------------------- MODULE AmqpConnectionWrapper -----------------------
(***************************************************************************)
(* AmqpConnectionWrapper, the connection the application holds: connect(), *)
(* reconnect() when the AmqpConnection in its container is closed,         *)
(* dispose(), and the commands its AmqpConnectionExecutor runs on whatever *)
(* connection is in the container.  Tasks and continuations are as in      *)
(* AmqpConnection.tla.                                                     *)
(***************************************************************************)
EXTENDS Executor, AmqpConnectionInitializer

CONSTANT Faults  \* failures of an established connection

(***************************************************************************)
(* loseConnection  an AmqpConnection gives itself up (AmqpConnection.tla   *)
(*                 has the ways)                                           *)
(* refuseCommand   the command fails with an error of its own              *)
(***************************************************************************)
ASSUME FaultsAssumption ==
  Faults \subseteq {"loseConnection", "refuseCommand"}

VARIABLES
  state,         \* this.state
  connectCall,   \* where the call of connect() stands
  reconnecting,  \* where reconnect() stands; "no": isReconnecting is false
  container,     \* this.amqpConnectionContainer's connection
  hearing,       \* the wrapper's listeners are registered
  reconnected,   \* how often "reconnected" was emitted
  closedEvents,  \* how often "closed" was emitted
  ownerDisposed, \* the application called dispose()
  lostConns      \* the connections that closed on their own

wrapperVars == <<state, connectCall, reconnecting, container, hearing,
                 reconnected, closedEvents, ownerDisposed, lostConns>>

vars == <<wrapperVars, initVars, execVars>>

isReconnecting == reconnecting # "no"

\* The connection in the container.
Held == {container} \ {NoConnection}

Init ==
  /\ ExecInit
  /\ InitializerInit
  /\ state = "ready"
  /\ connectCall = "none"
  /\ reconnecting = "no"
  /\ container = NoConnection
  /\ hearing = FALSE
  /\ reconnected = 0
  /\ closedEvents = 0
  /\ ownerDisposed = FALSE
  /\ lostConns = {}

\* No continuation is queued.
Quiet ==
  /\ initializing \notin {"starting", "resolved", "threw"}
  /\ \A c \in Commands : pc[c] \notin {"ready", "lost"}

\* Mutant: the amqplib connection is not closed.
DisposeConnectionsLeavesOpen(gone, p) ==
  LET live == {i \in gone : conn[i] = "live"}
  IN /\ conn' = [i \in Connections |-> IF i \in live THEN "disposed" ELSE conn[i]]
     /\ pc' = Thrown(p, live)
     /\ UNCHANGED amqp

(***************************************************************************)
(* AmqpConnection.dispose() of the connections in gone, which does nothing *)
(* unless they are live: the commands on them (loops in states p) are      *)
(* rejected and their amqplib connection is asked to close.                *)
(***************************************************************************)
DisposeConnections(gone, p) ==
  LET live == {i \in gone : conn[i] = "live"}
  IN /\ conn' = [i \in Connections |-> IF i \in live THEN "disposed" ELSE conn[i]]
     /\ amqp' = [i \in Connections |->
                   IF i \in live /\ amqp[i] = "open" THEN "closing" ELSE amqp[i]]
     /\ pc' = Thrown(p, live)

-----------------------------------------------------------------------------
(* connect() *)

\* The application calls connect(): up to its await.
Connect ==
  /\ state = "ready"
  /\ state' = "connected"
  /\ connectCall' = "waiting"
  /\ Initialize
  /\ UNCHANGED <<created, conn, amqp, reconnecting, container, hearing,
                 reconnected, closedEvents, ownerDisposed, lostConns, execVars>>

(***************************************************************************)
(* connect() continues.  A cancelled initialization gives it null: it goes *)
(* on, with listeners registered after dispose() has removed them.         *)
(***************************************************************************)
ConnectContinues ==
  /\ connectCall = "waiting"
  /\ initializing \in {"resolved", "threw"}
  /\ initializing' = "idle"
  /\ CASE initializing = "threw" ->
            /\ state' = "disposed"
            /\ connectCall' = "threw"
            /\ UNCHANGED <<container, hearing, pc, on, conn, amqp>>
       [] initializing = "resolved" /\ result # NoConnection /\ state = "disposed" ->
            /\ connectCall' = "returned"
            /\ DisposeConnections({result}, pc)
            /\ UNCHANGED <<state, container, hearing, on>>
       [] OTHER ->
            /\ connectCall' = "returned"
            /\ container' = result
            /\ hearing' = TRUE
            /\ pc' = IF result = NoConnection THEN pc ELSE BecameAvailable(pc)
            /\ on' = IF result = NoConnection THEN on ELSE GivenTo(pc, result)
            /\ UNCHANGED <<state, conn, amqp>>
  /\ UNCHANGED <<result, attempts, cancelled, created, reconnecting, reconnected,
                 closedEvents, ownerDisposed, lostConns, outcome, isCancelled>>

-----------------------------------------------------------------------------
(* reconnect() *)

(***************************************************************************)
(* reconnect() up to its first await, for a connection that closed on its  *)
(* own (gone, empty if the caller is the executor): the old connection is  *)
(* taken out of the container and disposed of.  p: states of the loops.    *)
(***************************************************************************)
StartReconnect(gone, p) ==
  IF isReconnecting \/ ~hearing
  THEN /\ DisposeConnections(gone, p)
       /\ UNCHANGED <<reconnecting, container, initializing, result, attempts,
                      cancelled>>
  ELSE /\ container' = NoConnection
       /\ DisposeConnections(gone \cup Held, p)
       /\ IF container # NoConnection
          THEN /\ reconnecting' = "disposingOld"
               /\ UNCHANGED <<initializing, result, attempts, cancelled>>
          ELSE /\ reconnecting' = "waiting"
               /\ Initialize

\* oldConnection.dispose() has returned: initialize a new connection.
OldConnectionDisposed ==
  /\ Quiet
  /\ reconnecting = "disposingOld"
  /\ reconnecting' = "waiting"
  /\ Initialize
  /\ UNCHANGED <<created, conn, amqp, state, connectCall, container, hearing,
                 reconnected, closedEvents, ownerDisposed, lostConns, execVars>>

(***************************************************************************)
(* The body of dispose() behind its guard, without the events.             *)
(***************************************************************************)
Dispose ==
  /\ state' = "disposed"
  /\ isCancelled' = TRUE
  /\ outcome' = Rejected(outcome)
  /\ hearing' = FALSE
  /\ container' = NoConnection
  /\ cancelled' = TRUE
  /\ DisposeConnections(Held, Stopped(pc))

\* The new connection is there: reconnect() continues.
Reconnected ==
  /\ reconnecting = "waiting"
  /\ initializing = "resolved"
  /\ initializing' = "idle"
  /\ IF state = "disposed" /\ result # NoConnection
     THEN /\ reconnecting' = "finishing"
          /\ DisposeConnections({result}, pc)
          /\ UNCHANGED <<container, reconnected, on>>
     ELSE /\ reconnecting' = "no"
          /\ reconnected' = reconnected + 1
          /\ container' = result
          /\ pc' = Resumed(IF result = NoConnection THEN pc ELSE BecameAvailable(pc))
          /\ on' = IF result = NoConnection THEN on ELSE GivenTo(pc, result)
          /\ UNCHANGED <<conn, amqp>>
  /\ UNCHANGED <<result, attempts, cancelled, created, state, connectCall,
                 hearing, closedEvents, ownerDisposed, lostConns, outcome,
                 isCancelled>>

\* Mutant: the catch block does not look at the state.
ReconnectFailedAnyway ==
  /\ reconnecting = "waiting"
  /\ initializing = "threw"
  /\ initializing' = "idle"
  /\ reconnecting' = "finishing"
  /\ closedEvents' = closedEvents + 1
  /\ Dispose
  /\ UNCHANGED <<result, attempts, created, connectCall, reconnected,
                 ownerDisposed, lostConns, on>>

\* Every attempt failed: reconnect()'s catch block.
ReconnectFailed ==
  /\ reconnecting = "waiting"
  /\ initializing = "threw"
  /\ initializing' = "idle"
  /\ IF state = "disposed"
     THEN /\ reconnecting' = "no"
          /\ UNCHANGED <<closedEvents, state, isCancelled, outcome, hearing,
                         container, cancelled, conn, amqp, pc>>
     ELSE /\ reconnecting' = "finishing"
          /\ closedEvents' = closedEvents + 1
          /\ Dispose
  /\ UNCHANGED <<result, attempts, created, connectCall, reconnected,
                 ownerDisposed, lostConns, on>>

\* The dispose() that reconnect() awaits has returned; finally runs.
ReconnectEnds ==
  /\ Quiet
  /\ reconnecting = "finishing"
  /\ reconnecting' = "no"
  /\ UNCHANGED <<initVars, execVars, state, connectCall, container, hearing,
                 reconnected, closedEvents, ownerDisposed, lostConns>>

-----------------------------------------------------------------------------
(* dispose() *)

\* The application calls dispose(); it returns at once if not connected.
OwnerDispose ==
  /\ state = "connected"
  /\ Dispose
  /\ ownerDisposed' = TRUE
  /\ UNCHANGED <<initializing, result, attempts, created, connectCall,
                 reconnecting, reconnected, closedEvents, lostConns, on>>

-----------------------------------------------------------------------------
(* The connections *)

(***************************************************************************)
(* A live AmqpConnection emits "closed" and disposes of itself (its        *)
(* amqplib connection is closing or has closed: "closing" stands for       *)
(* both).  The container passes the event on if it holds that connection.  *)
(***************************************************************************)
ConnectionLost(i) ==
  /\ Quiet
  /\ conn[i] = "live"
  /\ created < MaxConnections
  /\ "loseConnection" \in Faults
  /\ lostConns' = lostConns \cup {i}
  /\ IF container = i
     THEN StartReconnect({i}, pc)
     ELSE /\ DisposeConnections({i}, pc)
          /\ UNCHANGED <<reconnecting, container, initializing, result,
                         attempts, cancelled>>
  /\ UNCHANGED <<created, state, connectCall, hearing, reconnected, closedEvents,
                 ownerDisposed, on, outcome, isCancelled>>

\* amqplib's connection has closed as we asked.
AmqplibClosed(i) ==
  /\ Quiet
  /\ amqp[i] = "closing"
  /\ amqp' = [amqp EXCEPT ![i] = "closed"]
  /\ UNCHANGED <<initializing, result, attempts, cancelled, created, conn,
                 wrapperVars, execVars>>

-----------------------------------------------------------------------------
(* The commands *)

\* The application calls a method that goes through execute().
Submit(c) ==
  /\ Execute(c, container)
  /\ UNCHANGED <<wrapperVars, initVars>>

(***************************************************************************)
(* executeOnce() continues with its connection: a disposed one rejects the *)
(* command at once with ConnectionClosedError.                             *)
(***************************************************************************)
Begin(c) ==
  /\ pc[c] = "ready"
  /\ pc' = [pc EXCEPT ![c] = IF conn[on[c]] = "disposed" THEN "lost" ELSE "running"]
  /\ UNCHANGED <<wrapperVars, initVars, on, outcome, isCancelled>>

\* The command succeeds on a connection that has a channel, or fails.
Answer(c) ==
  /\ Quiet
  /\ pc[c] = "running"
  /\ conn[on[c]] = "live"
  /\ \/ Finish(c, "ok")
     \/ "refuseCommand" \in Faults /\ Finish(c, "error")
  /\ UNCHANGED <<wrapperVars, initVars>>

\* The catch block of execute() on ConnectionBecameUnavailableError.
CatchLost(c) ==
  /\ pc[c] = "lost"
  /\ \/ /\ c \in Retryable
        /\ StartReconnect({}, [pc EXCEPT ![c] = "suspended"])
        /\ UNCHANGED outcome
     \/ /\ c \notin Retryable
        /\ pc' = [pc EXCEPT ![c] = "done"]
        /\ outcome' = Settled(outcome, c, "lost")
        /\ UNCHANGED <<reconnecting, container, initializing, result, attempts,
                       cancelled, conn, amqp>>
  /\ UNCHANGED <<created, state, connectCall, hearing, reconnected, closedEvents,
                 ownerDisposed, lostConns, on, isCancelled>>

TimerFires(c) == Quiet /\ TimeOut(c) /\ UNCHANGED <<wrapperVars, initVars>>

\* Mutant: the loop keeps the connection of its first attempt.
DelayOverSameConnection(c) ==
  /\ Quiet
  /\ Again(c, IF on[c] = NoConnection THEN container ELSE on[c])
  /\ UNCHANGED <<wrapperVars, initVars>>

DelayOver(c) == Quiet /\ Again(c, container) /\ UNCHANGED <<wrapperVars, initVars>>

-----------------------------------------------------------------------------
\* The steps of initializeConnection() leave the rest alone.
InitializerContinues == LoopStarts /\ UNCHANGED <<wrapperVars, execVars>>

InitializerAnswered ==
  /\ Quiet
  /\ ConnectionAnswered \/ ChannelAnswered \/ SleepOver
  /\ UNCHANGED <<wrapperVars, execVars>>

Next ==
  \/ Connect \/ ConnectContinues
  \/ InitializerContinues \/ InitializerAnswered
  \/ OldConnectionDisposed \/ Reconnected \/ ReconnectFailed \/ ReconnectEnds
  \/ OwnerDispose
  \/ \E i \in Connections : ConnectionLost(i) \/ AmqplibClosed(i)
  \/ \E c \in Commands :
       \/ Submit(c) \/ Begin(c) \/ Answer(c) \/ CatchLost(c)
       \/ TimerFires(c) \/ DelayOver(c)

Safety == Init /\ [][Next]_vars

\* Node.js runs every queued continuation.
ContinuationsRun ==
  /\ WF_vars(ConnectContinues)
  /\ WF_vars(InitializerContinues)
  /\ WF_vars(Reconnected)
  /\ WF_vars(ReconnectFailed)
  /\ \A c \in Commands : WF_vars(Begin(c)) /\ WF_vars(CatchLost(c))

(***************************************************************************)
(* amqplib and the broker answer, AmqpDisposer waits no longer than its    *)
(* timeout, and the pauses between attempts and retries pass.              *)
(***************************************************************************)
BrokerAnswers ==
  /\ WF_vars(InitializerAnswered)
  /\ WF_vars(OldConnectionDisposed)
  /\ WF_vars(ReconnectEnds)
  /\ \A i \in Connections : WF_vars(AmqplibClosed(i))
  /\ \A c \in Commands : WF_vars(Answer(c)) /\ WF_vars(DelayOver(c))

\* The command timers may fire, but nothing relies on it.
Spec == Safety /\ ContinuationsRun /\ BrokerAnswers

-----------------------------------------------------------------------------
(* What makes it correct *)

TypeOK ==
  /\ ExecTypeOK(Connections)
  /\ InitializerTypeOK
  /\ state \in {"ready", "connected", "disposed"}
  /\ connectCall \in {"none", "waiting", "returned", "threw"}
  /\ reconnecting \in {"no", "disposingOld", "waiting", "finishing"}
  /\ container \in Connections \cup {NoConnection}
  /\ hearing \in BOOLEAN
  /\ reconnected \in Nat
  /\ closedEvents \in Nat
  /\ ownerDisposed \in BOOLEAN
  /\ lostConns \subseteq Connections

(***************************************************************************)
(* No lost wake-up: while the wrapper is connected, a command that waits   *)
(* for a connection or to be resumed waits for a reconnect() under way.    *)
(***************************************************************************)
NoLostWakeup ==
  hearing /\ state = "connected" =>
    \A c \in Commands : Pending(c) /\ pc[c] \in {"waiting", "suspended"} =>
      reconnecting = "disposingOld" \/ (reconnecting = "waiting" /\ initializing # "idle")

\* At most one connection to the broker is open at any time.
OneConnectionOpen ==
  \A i, j \in Connections : amqp[i] = "open" /\ amqp[j] = "open" => i = j

(***************************************************************************)
(* README on "closed": "Emits when connection failed and could not         *)
(* reconnect.  Does NOT emit on manual #dispose().  Does NOT emit on first *)
(* connection attempt".  Once, and exactly when reconnect() gave up.       *)
(***************************************************************************)
ClosedOnlyWhenGivenUp ==
  closedEvents = IF state = "disposed" /\ ~ownerDisposed /\ connectCall # "threw"
                 THEN 1 ELSE 0

KeepsConnection ==
  container # NoConnection /\ container' # container =>
    container \in lostConns' \/ state' = "disposed"

(***************************************************************************)
(* Only a connection that was lost is replaced: neither a late error of a  *)
(* command nor a late "closed" of an older connection tears down the one   *)
(* that replaced it.                                                       *)
(***************************************************************************)
HealthyConnectionKept == [][KeepsConnection]_vars

\* AmqpConnectionExecutor.execute() keeps the promise of CommandExecution.
CE == INSTANCE CommandExecution WITH outcome <- outcome, isCancelled <- isCancelled
SafePromise == CE!Safety

\* The container has a connection that is not one: connected, without a channel.
HasHollow == container # NoConnection /\ conn[container] = "hollow"

(***************************************************************************)
(* Without the help of its timer, every command of a connected wrapper     *)
(* settles: reconnect() reaches all of them.  (If connect() throws, the    *)
(* commands that were waiting for it are left to their timers; and so are  *)
(* all commands once the container has a hollow connection, which has no   *)
(* channel and does not notice when it is lost.)                           *)
(***************************************************************************)
EveryCommandSettles ==
  \A c \in Commands : (Pending(c) /\ hearing) ~> (~Pending(c) \/ HasHollow)

(***************************************************************************)
(* README on dispose(): "To close the connection gracefully": once it has  *)
(* been called and nothing else is under way, no connection is left open.  *)
(***************************************************************************)
DisposeLeavesNothingOpen ==
  /\ ownerDisposed
  /\ initializing = "idle"
  /\ ~isReconnecting
  => \A i \in Connections : amqp[i] # "open"
=============================================================================
