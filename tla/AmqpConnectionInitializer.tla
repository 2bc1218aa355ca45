--------------------- MODULE AmqpConnectionInitializer ---------------------
(***************************************************************************)
(* AmqpConnectionInitializer.initializeConnection(): one AmqpConnection    *)
(* object is created and its connect() is tried up to maxAttempts times;   *)
(* cancel() makes the loop return null at its next check.  The object is   *)
(* seen here as AmqpConnection.tla shows it from outside.                  *)
(***************************************************************************)
EXTENDS Naturals

CONSTANTS
  MaxConnections,  \* bound: AmqpConnection objects created in a behaviour
  MaxAttempts,     \* this.maxAttempts
  ConnectFaults    \* how connect() may fail: "refuseConnection", "refuseChannel"

ASSUME InitializerAssumption ==
  /\ MaxConnections \in Nat \ {0}
  /\ MaxAttempts \in Nat \ {0}
  /\ ConnectFaults \subseteq {"refuseConnection", "refuseChannel"}

Connections == 1 .. MaxConnections

NoConnection == 0  \* null

VARIABLES
  initializing,  \* where initializeConnection() stands
  result,        \* what its promise was resolved with
  attempts,      \* the variable attempt of its loop
  cancelled,     \* this.connectionPromise is not the promise of the loop
  created,       \* how many AmqpConnection objects were created
  conn,          \* the state of each AmqpConnection object
  amqp           \* the state of the amqplib connection of each object

initVars == <<initializing, result, attempts, cancelled, created, conn, amqp>>

(***************************************************************************)
(*  new       created, connect() has not returned                          *)
(*  marked    connect() threw after its channel was refused: isDisposed is *)
(*            set, nothing else of dispose() was done                      *)
(*  live      connect() returned, the listeners are registered             *)
(*  hollow    connect() returned on a marked object: it rolled the channel *)
(*            back, there are no listeners, and dispose() does nothing     *)
(*  disposed  by dispose()                                                 *)
(***************************************************************************)
ConnectionStates == {"unborn", "new", "marked", "live", "hollow", "disposed"}

InitializerInit ==
  /\ initializing = "idle"
  /\ result = NoConnection
  /\ attempts = 0
  /\ cancelled = FALSE
  /\ created = 0
  /\ conn = [i \in Connections |-> "unborn"]
  /\ amqp = [i \in Connections |-> "none"]

\* initializeConnection() returns its promise; the loop is queued.
Initialize ==
  /\ initializing' = "starting"
  /\ result' = NoConnection
  /\ attempts' = 0
  /\ cancelled' = FALSE

\* The loop ends: its promise is resolved with r.
Resolve(r) == initializing' = "resolved" /\ result' = r

\* The first continuation of the loop.
LoopStarts ==
  /\ initializing = "starting"
  /\ IF cancelled
     THEN /\ Resolve(NoConnection)
          /\ UNCHANGED <<attempts, created, conn>>
     ELSE /\ created < MaxConnections
          /\ initializing' = "connecting"
          /\ attempts' = 1
          /\ created' = created + 1
          /\ conn' = [conn EXCEPT ![created + 1] = "new"]
          /\ UNCHANGED result
  /\ UNCHANGED <<cancelled, amqp>>

\* Mutant: one attempt too many.
AttemptFailedOffByOne ==
  /\ IF cancelled THEN Resolve(NoConnection)
     ELSE /\ initializing' = IF attempts > MaxAttempts THEN "threw" ELSE "sleeping"
          /\ UNCHANGED result
  /\ UNCHANGED <<attempts, cancelled, created>>

\* The catch block of the loop.
AttemptFailed ==
  /\ IF cancelled THEN Resolve(NoConnection)
     ELSE /\ initializing' = IF attempts = MaxAttempts THEN "threw" ELSE "sleeping"
          /\ UNCHANGED result
  /\ UNCHANGED <<attempts, cancelled, created>>

\* amqplibConnect() answers to AmqpConnection.connect().
ConnectionAnswered ==
  /\ initializing = "connecting"
  /\ \/ /\ initializing' = "creating"
        /\ amqp' = [amqp EXCEPT ![created] = "open"]
        /\ UNCHANGED <<result, attempts, cancelled, created, conn>>
     \/ /\ "refuseConnection" \in ConnectFaults
        /\ AttemptFailed
        /\ UNCHANGED <<conn, amqp>>

\* The first channel is created or refused; connect() returns or throws.
ChannelAnswered ==
  /\ initializing = "creating"
  /\ \/ /\ conn' = [conn EXCEPT ![created] = IF @ = "new" THEN "live" ELSE "hollow"]
        /\ Resolve(IF cancelled THEN NoConnection ELSE created)
        /\ UNCHANGED <<attempts, cancelled, created, amqp>>
     \/ /\ "refuseChannel" \in ConnectFaults
        /\ conn' = [conn EXCEPT ![created] = "marked"]
        /\ amqp' = [amqp EXCEPT ![created] = "closed"]
        /\ AttemptFailed

\* The pause between two attempts is over.
SleepOver ==
  /\ initializing = "sleeping"
  /\ IF cancelled
     THEN Resolve(NoConnection) /\ UNCHANGED attempts
     ELSE /\ initializing' = "connecting"
          /\ attempts' = attempts + 1
          /\ UNCHANGED result
  /\ UNCHANGED <<cancelled, created, conn, amqp>>

InitializerTypeOK ==
  /\ initializing \in {"idle", "starting", "connecting", "creating", "sleeping",
                       "resolved", "threw"}
  /\ result \in Connections \cup {NoConnection}
  /\ attempts \in 0 .. MaxAttempts
  /\ cancelled \in BOOLEAN
  /\ created \in 0 .. MaxConnections
  /\ conn \in [Connections -> ConnectionStates]
  /\ amqp \in [Connections -> {"none", "open", "closing", "closed"}]
=============================================================================
