-------------------- MODULE AmqpConnectionWrapperProofs --------------------
(***************************************************************************)
(* What AmqpConnectionWrapper.tla states as invariants and action          *)
(* properties, proved for every set of commands, every number of           *)
(* connections and of attempts, and every set of faults.                   *)
(***************************************************************************)
EXTENDS AmqpConnectionWrapper, TLAPS

-----------------------------------------------------------------------------
(* The inductive invariant *)

\* Where connect() and reconnect() stand.
CallInv ==
  /\ state = "ready" <=> connectCall = "none"
  /\ connectCall = "threw" => state = "disposed"
  /\ initializing # "idle" <=> connectCall = "waiting" \/ reconnecting = "waiting"
  /\ connectCall # "returned" => /\ reconnecting = "no" /\ ~hearing
                                 /\ container = NoConnection
  /\ state = "connected" /\ connectCall = "returned" =>
       hearing /\ (container = NoConnection <=> isReconnecting)
  /\ state = "disposed" => container = NoConnection
  /\ reconnecting = "finishing" => state = "disposed"

\* How the wrapper came to its end.
DisposedInv ==
  /\ isCancelled => state = "disposed"
  /\ state = "disposed" => isCancelled \/ connectCall = "threw"
  /\ cancelled => state = "disposed"
  /\ ownerDisposed => state = "disposed"
  /\ state = "disposed" /\ connectCall = "waiting" => ownerDisposed
  /\ ClosedOnlyWhenGivenUp

\* What an initialization has brought.
ResultInv ==
  /\ initializing \in {"connecting", "creating", "sleeping"} => created # 0
  /\ initializing = "sleeping" => attempts < MaxAttempts
  /\ initializing = "resolved" =>
       IF result = NoConnection THEN state = "disposed"
       ELSE result = created /\ conn[result] \in {"live", "hollow"}
  /\ container # NoConnection => conn[container] \in {"live", "hollow"}

\* The connection that is open is the last one: the one being set up, the container's,
\* or one that dispose() has left behind.
OpenInv ==
  \A i \in Connections :
    amqp[i] = "open" =>
      /\ i = created
      /\ initializing \notin {"starting", "connecting", "sleeping", "threw"}
      /\ reconnecting # "disposingOld"
      /\ \/ initializing \in {"creating", "resolved"}
         \/ container = i
         \/ state = "disposed"

\* Where the loop of a command may stand in these states.
LoopInv ==
  \A c \in Commands :
    /\ isCancelled => pc[c] \in {"idle", "done"}
    /\ pc[c] = "waiting" => container = NoConnection
    /\ pc[c] \in {"ready", "running"} => container # NoConnection /\ on[c] = container
    /\ pc[c] = "lost" => reconnecting = "disposingOld"
    /\ pc[c] = "suspended" => reconnecting \in {"disposingOld", "waiting"}
    /\ outcome[c] = "idle" <=> pc[c] = "idle"

IInv == TypeOK /\ CallInv /\ DisposedInv /\ ResultInv /\ OpenInv /\ LoopInv

-----------------------------------------------------------------------------
(* What the helpers of Executor and AmqpConnectionWrapper return *)

\* cancelAll() on the loops and on the promises.
LEMMA StoppedType ==
  ASSUME NEW p \in [Commands -> LoopStates]
  PROVE  /\ Stopped(p) \in [Commands -> LoopStates]
         /\ \A c \in Commands : Stopped(p)[c] = IF p[c] = "idle" THEN "idle" ELSE "done"
  BY DEF Stopped, LoopStates

LEMMA RejectedType ==
  ASSUME NEW o \in [Commands -> Outcomes]
  PROVE  /\ Rejected(o) \in [Commands -> Outcomes]
         /\ \A c \in Commands :
              Rejected(o)[c] = IF o[c] = "pending" THEN "closed" ELSE o[c]
  BY DEF Rejected, Outcomes

\* A connection comes into the container.
LEMMA AvailableType ==
  ASSUME TypeOK, NEW i \in Connections
  PROVE  /\ BecameAvailable(pc) \in [Commands -> LoopStates]
         /\ GivenTo(pc, i) \in [Commands -> Connections \cup {None}]
         /\ \A c \in Commands :
              /\ BecameAvailable(pc)[c] = IF pc[c] = "waiting" THEN "ready" ELSE pc[c]
              /\ GivenTo(pc, i)[c] = IF pc[c] = "waiting" THEN i ELSE on[c]
  BY DEF BecameAvailable, GivenTo, LoopStates, TypeOK, ExecTypeOK

\* resumeAll().
LEMMA ResumedType ==
  ASSUME NEW p \in [Commands -> LoopStates]
  PROVE  /\ Resumed(p) \in [Commands -> LoopStates]
         /\ \A c \in Commands :
              Resumed(p)[c] = IF p[c] = "suspended" THEN "delayed" ELSE p[c]
  BY DEF Resumed, LoopStates

\* The connections disposed of, and what ran on them.
LEMMA DisposedOf ==
  ASSUME TypeOK, NEW gone \in SUBSET Connections, NEW p \in [Commands -> LoopStates],
         DisposeConnections(gone, p)
  PROVE  /\ conn' \in [Connections -> ConnectionStates]
         /\ amqp' \in [Connections -> {"none", "open", "closing", "closed"}]
         /\ pc' \in [Commands -> LoopStates]
         /\ \A i \in Connections :
              /\ conn'[i] = IF i \in gone /\ conn[i] = "live" THEN "disposed" ELSE conn[i]
              /\ amqp'[i] = "open" =>
                   amqp[i] = "open" /\ ~(i \in gone /\ conn[i] = "live")
         /\ \A c \in Commands :
              pc'[c] = IF p[c] = "running" /\ on[c] \in gone /\ conn[on[c]] = "live"
                       THEN "lost" ELSE p[c]
  BY DEF DisposeConnections, Thrown, TypeOK, InitializerTypeOK, ConnectionStates,
         LoopStates

\* dispose() leaves no loop where it would go on.
LEMMA StoppedLoops ==
  ASSUME IInv, Dispose
  PROVE  LoopInv'
<1>1. Stopped(pc) \in [Commands -> LoopStates]
  BY StoppedType DEF IInv, TypeOK, ExecTypeOK
<1>2. Held \in SUBSET Connections
  BY DEF Held, IInv, TypeOK
<1>3. \A c \in Commands : Stopped(pc)[c] = IF pc[c] = "idle" THEN "idle" ELSE "done"
  BY StoppedType DEF IInv, TypeOK, ExecTypeOK
<1>4. \A c \in Commands : pc'[c] = IF pc[c] = "idle" THEN "idle" ELSE "done"
  BY <1>1, <1>2, <1>3, DisposedOf DEF Dispose, IInv
<1>5. \A c \in Commands :
        outcome'[c] = IF outcome[c] = "pending" THEN "closed" ELSE outcome[c]
  BY RejectedType DEF Dispose, IInv, TypeOK, ExecTypeOK
<1> QED
  BY <1>4, <1>5 DEF IInv, LoopInv

\* initializeConnection() begins.
LEMMA InitializeType ==
  ASSUME InitializerTypeOK, Initialize, UNCHANGED created,
         conn' \in [Connections -> ConnectionStates],
         amqp' \in [Connections -> {"none", "open", "closing", "closed"}]
  PROVE  InitializerTypeOK'
<1>1. 0 \in 0 .. MaxAttempts
  BY InitializerAssumption
<1> QED
  BY <1>1 DEF Initialize, InitializerTypeOK

-----------------------------------------------------------------------------
(* Each action preserves it *)

\* connect() begins an initialization; nothing is there yet.
LEMMA ConnectStep == ASSUME IInv, Connect PROVE IInv'
<1>1. TypeOK'
  <2>1. ExecTypeOK(Connections)'
    BY DEF Connect, IInv, TypeOK, ExecTypeOK, execVars
  <2>2. InitializerTypeOK'
    BY InitializeType DEF Connect, IInv, TypeOK, InitializerTypeOK
  <2> QED
    BY <2>1, <2>2 DEF Connect, IInv, TypeOK
<1>2. CallInv'
  BY DEF Connect, Initialize, IInv, CallInv, isReconnecting
<1>3. DisposedInv'
  BY DEF Connect, Initialize, IInv, CallInv, DisposedInv, ClosedOnlyWhenGivenUp, execVars
<1>4. ResultInv'
  BY DEF Connect, Initialize, IInv, CallInv, ResultInv
<1>5. OpenInv'
  <2>1. connectCall = "none" /\ initializing = "idle" /\ container = NoConnection
    BY DEF Connect, IInv, CallInv
  <2>2. \A i \in Connections : amqp[i] # "open"
    BY <2>1 DEF Connect, IInv, OpenInv, Connections, NoConnection
  <2> QED
    BY <2>2 DEF Connect, OpenInv
<1>6. LoopInv'
  BY DEF Connect, Initialize, IInv, LoopInv, execVars
<1> QED
  BY <1>1, <1>2, <1>3, <1>4, <1>5, <1>6 DEF IInv

\* connect() ends: it throws, disposes of its connection, or puts it in the container.
LEMMA ConnectContinuesStep == ASSUME IInv, ConnectContinues PROVE IInv'
<1>1. CASE initializing = "threw"
  <2>1. TypeOK'
    BY <1>1 DEF ConnectContinues, IInv, TypeOK, ExecTypeOK, InitializerTypeOK
  <2>2. CallInv' /\ DisposedInv'
    BY <1>1 DEF ConnectContinues, IInv, CallInv, DisposedInv, ClosedOnlyWhenGivenUp,
                isReconnecting
  <2>3. ResultInv' /\ OpenInv' /\ LoopInv'
    BY <1>1 DEF ConnectContinues, IInv, CallInv, ResultInv, OpenInv, LoopInv
  <2> QED
    BY <2>1, <2>2, <2>3 DEF IInv
<1>2. CASE initializing = "resolved" /\ result # NoConnection /\ state = "disposed"
  <2>1. /\ DisposeConnections({result}, pc) /\ connectCall' = "returned"
        /\ {result} \in SUBSET Connections
        /\ UNCHANGED <<state, container, hearing, on>>
    BY <1>2 DEF ConnectContinues, IInv, TypeOK, InitializerTypeOK
  <2>2. TypeOK'
    BY <1>2, <2>1, DisposedOf
    DEF ConnectContinues, IInv, TypeOK, ExecTypeOK, InitializerTypeOK
  <2>3. CallInv' /\ DisposedInv'
    BY <1>2, <2>1
    DEF ConnectContinues, IInv, CallInv, DisposedInv, ClosedOnlyWhenGivenUp, isReconnecting
  <2>4. ResultInv' /\ OpenInv'
    BY <1>2, <2>1, DisposedOf
    DEF ConnectContinues, IInv, TypeOK, ExecTypeOK, CallInv, ResultInv, OpenInv
  <2>5. LoopInv'
    <3>1. \A c \in Commands :
            pc'[c] = IF pc[c] = "running" /\ on[c] \in {result} /\ conn[on[c]] = "live"
                     THEN "lost" ELSE pc[c]
      BY <2>1, DisposedOf DEF IInv, TypeOK, ExecTypeOK
    <3>2. container = NoConnection /\ reconnecting = "no"
      BY <1>2 DEF ConnectContinues, IInv, CallInv
    <3> QED
      BY <2>1, <3>1, <3>2 DEF ConnectContinues, IInv, LoopInv
  <2> QED
    BY <2>2, <2>3, <2>4, <2>5 DEF IInv
<1>3. CASE initializing = "resolved" /\ (result = NoConnection \/ state # "disposed")
  <2>1. /\ connectCall' = "returned" /\ container' = result /\ hearing' = TRUE
        /\ pc' = IF result = NoConnection THEN pc ELSE BecameAvailable(pc)
        /\ on' = IF result = NoConnection THEN on ELSE GivenTo(pc, result)
        /\ UNCHANGED <<state, conn, amqp>>
    BY <1>3 DEF ConnectContinues
  <2>2. TypeOK'
    BY <1>3, <2>1, AvailableType
    DEF ConnectContinues, IInv, TypeOK, ExecTypeOK, InitializerTypeOK
  <2>3. CallInv' /\ DisposedInv'
    BY <1>3, <2>1
    DEF ConnectContinues, IInv, TypeOK, CallInv, DisposedInv, ClosedOnlyWhenGivenUp,
        ResultInv, isReconnecting
  <2>4. ResultInv' /\ OpenInv'
    BY <1>3, <2>1 DEF ConnectContinues, IInv, CallInv, ResultInv, OpenInv
  <2>5. LoopInv'
    BY <1>3, <2>1, AvailableType
    DEF ConnectContinues, IInv, TypeOK, InitializerTypeOK, CallInv, DisposedInv, LoopInv
  <2> QED
    BY <2>2, <2>3, <2>4, <2>5 DEF IInv
<1> QED
  BY <1>1, <1>2, <1>3 DEF ConnectContinues

\* The loop of initializeConnection() starts: a new object, or null at once.
LEMMA InitializerContinuesStep == ASSUME IInv, InitializerContinues PROVE IInv'
<1>1. TypeOK'
  BY InitializerAssumption
  DEF InitializerContinues, LoopStarts, Resolve, IInv, TypeOK, ExecTypeOK,
      InitializerTypeOK, ConnectionStates, Connections, wrapperVars, execVars
<1>2. CallInv' /\ DisposedInv'
  BY DEF InitializerContinues, LoopStarts, Resolve, IInv, CallInv, DisposedInv,
         ClosedOnlyWhenGivenUp, isReconnecting, wrapperVars, execVars
<1>3. ResultInv' /\ OpenInv'
  BY InitializerAssumption
  DEF InitializerContinues, LoopStarts, Resolve, IInv, TypeOK, InitializerTypeOK, CallInv,
      DisposedInv, ResultInv, OpenInv, isReconnecting, wrapperVars
<1>4. LoopInv'
  BY DEF InitializerContinues, IInv, LoopInv, wrapperVars, execVars
<1> QED
  BY <1>1, <1>2, <1>3, <1>4 DEF IInv

\* The broker answers an attempt, or the pause between two of them is over.
LEMMA InitializerAnsweredStep == ASSUME IInv, InitializerAnswered PROVE IInv'
<1>1. ExecTypeOK(Connections)' /\ LoopInv'
  BY DEF InitializerAnswered, IInv, TypeOK, ExecTypeOK, LoopInv, wrapperVars, execVars
<1>2. created # 0 => created \in Connections
  BY DEF IInv, TypeOK, InitializerTypeOK, Connections
<1>3. CASE ConnectionAnswered
  <2>1. InitializerTypeOK'
    BY <1>3 DEF ConnectionAnswered, AttemptFailed, Resolve, IInv, TypeOK, InitializerTypeOK
  <2>2. CallInv' /\ DisposedInv'
    BY <1>3
    DEF ConnectionAnswered, AttemptFailed, Resolve, InitializerAnswered, IInv, CallInv,
        DisposedInv, ClosedOnlyWhenGivenUp, isReconnecting, wrapperVars, execVars
  <2>3. ResultInv' /\ OpenInv'
    BY <1>2, <1>3, InitializerAssumption
    DEF ConnectionAnswered, AttemptFailed, Resolve, InitializerAnswered, IInv, TypeOK,
        InitializerTypeOK, CallInv, DisposedInv, ResultInv, OpenInv, isReconnecting,
        wrapperVars
  <2> QED
    BY <1>1, <2>1, <2>2, <2>3 DEF InitializerAnswered, IInv, TypeOK, wrapperVars
<1>4. CASE ChannelAnswered
  <2>1. InitializerTypeOK'
    BY <1>2, <1>4
    DEF ChannelAnswered, AttemptFailed, Resolve, IInv, TypeOK, InitializerTypeOK,
        ConnectionStates, ResultInv
  <2>2. CallInv' /\ DisposedInv'
    BY <1>4
    DEF ChannelAnswered, AttemptFailed, Resolve, InitializerAnswered, IInv, CallInv,
        DisposedInv, ClosedOnlyWhenGivenUp, isReconnecting, wrapperVars, execVars
  <2>3. ResultInv' /\ OpenInv'
    <3>1. created \in Connections /\ initializing = "creating"
      BY <1>2, <1>4 DEF ChannelAnswered, IInv, ResultInv
    <3>2. container = NoConnection /\ reconnecting # "disposingOld"
      BY <3>1 DEF IInv, TypeOK, CallInv, isReconnecting
    <3>3. \A i \in Connections : i # created => amqp[i] # "open"
      BY DEF IInv, OpenInv
    <3>4. cancelled => state = "disposed"
      BY DEF IInv, DisposedInv
    <3>5. UNCHANGED <<created, container, state, reconnecting>>
      BY <1>4
      DEF ChannelAnswered, AttemptFailed, InitializerAnswered, wrapperVars
    <3>6. CASE /\ conn' = [conn EXCEPT ![created] = IF @ = "new" THEN "live" ELSE "hollow"]
               /\ Resolve(IF cancelled THEN NoConnection ELSE created)
               /\ UNCHANGED amqp
      <4>1. conn'[created] \in {"live", "hollow"}
        BY <3>1, <3>6 DEF IInv, TypeOK, InitializerTypeOK
      <4>2. /\ initializing' = "resolved"
            /\ result' = IF cancelled THEN NoConnection ELSE created
        BY <3>6 DEF Resolve
      <4>3. ResultInv'
        BY <3>1, <3>2, <3>4, <3>5, <4>1, <4>2 DEF ResultInv, NoConnection, Connections
      <4>4. OpenInv'
        BY <3>1, <3>2, <3>3, <3>5, <3>6, <4>2 DEF OpenInv
      <4> QED
        BY <4>3, <4>4
    <3>7. CASE /\ conn' = [conn EXCEPT ![created] = "marked"]
               /\ amqp' = [amqp EXCEPT ![created] = "closed"]
               /\ AttemptFailed
      <4>1. \A i \in Connections : amqp'[i] # "open"
        BY <3>1, <3>3, <3>7 DEF IInv, TypeOK, InitializerTypeOK
      <4>2. \/ initializing' = "resolved" /\ result' = NoConnection /\ cancelled
            \/ initializing' = "threw"
            \/ initializing' = "sleeping" /\ attempts # MaxAttempts /\ attempts' = attempts
        BY <3>7 DEF AttemptFailed, Resolve
      <4>3. attempts # MaxAttempts => attempts < MaxAttempts
        BY InitializerAssumption DEF IInv, TypeOK, InitializerTypeOK
      <4>4. ResultInv'
        BY <3>1, <3>2, <3>4, <3>5, <4>2, <4>3 DEF ResultInv, Connections
      <4>5. OpenInv'
        BY <4>1 DEF OpenInv
      <4> QED
        BY <4>4, <4>5
    <3> QED
      BY <1>4, <3>6, <3>7 DEF ChannelAnswered
  <2> QED
    BY <1>1, <2>1, <2>2, <2>3 DEF InitializerAnswered, IInv, TypeOK, wrapperVars
<1>5. CASE SleepOver
  <2>1. InitializerTypeOK'
    BY <1>5, InitializerAssumption
    DEF SleepOver, Resolve, IInv, TypeOK, InitializerTypeOK, ResultInv
  <2>2. CallInv' /\ DisposedInv'
    BY <1>5
    DEF SleepOver, Resolve, InitializerAnswered, IInv, CallInv, DisposedInv,
        ClosedOnlyWhenGivenUp, isReconnecting, wrapperVars, execVars
  <2>3. ResultInv' /\ OpenInv'
    BY <1>5
    DEF SleepOver, Resolve, InitializerAnswered, IInv, CallInv, DisposedInv, ResultInv,
        OpenInv, isReconnecting, wrapperVars
  <2> QED
    BY <1>1, <2>1, <2>2, <2>3 DEF InitializerAnswered, IInv, TypeOK, wrapperVars
<1> QED
  BY <1>3, <1>4, <1>5 DEF InitializerAnswered

\* reconnect() goes on to initialize another connection.
LEMMA OldConnectionDisposedStep == ASSUME IInv, OldConnectionDisposed PROVE IInv'
<1>1. TypeOK'
  BY InitializeType
  DEF OldConnectionDisposed, IInv, TypeOK, ExecTypeOK, InitializerTypeOK, execVars
<1>2. CallInv' /\ DisposedInv'
  BY DEF OldConnectionDisposed, Initialize, IInv, CallInv, DisposedInv,
         ClosedOnlyWhenGivenUp, isReconnecting, execVars
<1>3. ResultInv' /\ OpenInv'
  BY DEF OldConnectionDisposed, Initialize, IInv, ResultInv, OpenInv
<1>4. LoopInv'
  BY DEF OldConnectionDisposed, Quiet, IInv, LoopInv, execVars
<1> QED
  BY <1>1, <1>2, <1>3, <1>4 DEF IInv

\* reconnect() has its connection: all who wait have it too, unless dispose() came first.
LEMMA ReconnectedStep == ASSUME IInv, Reconnected PROVE IInv'
<1>1. CASE state = "disposed" /\ result # NoConnection
  <2>1. /\ DisposeConnections({result}, pc) /\ reconnecting' = "finishing"
        /\ {result} \in SUBSET Connections
        /\ UNCHANGED <<container, reconnected, on>>
    BY <1>1 DEF Reconnected, IInv, TypeOK, InitializerTypeOK
  <2>2. TypeOK'
    BY <2>1, DisposedOf DEF Reconnected, IInv, TypeOK, ExecTypeOK, InitializerTypeOK
  <2>3. CallInv' /\ DisposedInv'
    BY <1>1, <2>1
    DEF Reconnected, IInv, CallInv, DisposedInv, ClosedOnlyWhenGivenUp, isReconnecting
  <2>4. ResultInv' /\ OpenInv'
    BY <1>1, <2>1, DisposedOf
    DEF Reconnected, IInv, TypeOK, ExecTypeOK, CallInv, ResultInv, OpenInv
  <2>5. LoopInv'
    <3>1. \A c \in Commands :
            pc'[c] = IF pc[c] = "running" /\ on[c] \in {result} /\ conn[on[c]] = "live"
                     THEN "lost" ELSE pc[c]
      BY <2>1, DisposedOf DEF IInv, TypeOK, ExecTypeOK
    <3>2. isCancelled /\ container = NoConnection
      BY <1>1 DEF Reconnected, IInv, CallInv, DisposedInv
    <3> QED
      BY <2>1, <3>1, <3>2 DEF Reconnected, IInv, LoopInv
  <2> QED
    BY <2>2, <2>3, <2>4, <2>5 DEF IInv
<1>2. CASE ~(state = "disposed" /\ result # NoConnection)
  <2> DEFINE p == IF result = NoConnection THEN pc ELSE BecameAvailable(pc)
  <2>1. /\ reconnecting' = "no" /\ reconnected' = reconnected + 1 /\ container' = result
        /\ pc' = Resumed(p)
        /\ on' = IF result = NoConnection THEN on ELSE GivenTo(pc, result)
        /\ UNCHANGED <<conn, amqp>>
    BY <1>2 DEF Reconnected
  <2>2. p \in [Commands -> LoopStates]
    BY AvailableType DEF IInv, TypeOK, ExecTypeOK, InitializerTypeOK
  <2>3. TypeOK'
    BY <2>1, <2>2, AvailableType, ResumedType
    DEF Reconnected, IInv, TypeOK, ExecTypeOK, InitializerTypeOK
  <2>4. CallInv' /\ DisposedInv'
    BY <1>2, <2>1
    DEF Reconnected, IInv, CallInv, DisposedInv, ClosedOnlyWhenGivenUp, ResultInv,
        isReconnecting
  <2>5. ResultInv' /\ OpenInv'
    BY <1>2, <2>1 DEF Reconnected, IInv, CallInv, ResultInv, OpenInv
  <2>6. LoopInv'
    <3>1. CASE result = NoConnection
      BY <1>2, <2>1, <2>2, <3>1, ResumedType
      DEF Reconnected, IInv, CallInv, DisposedInv, ResultInv, LoopInv
    <3>2. CASE result # NoConnection
      <4>1. /\ state = "connected" /\ ~isCancelled /\ container = NoConnection
            /\ result \in Connections
        BY <1>2, <3>2
        DEF Reconnected, IInv, TypeOK, InitializerTypeOK, CallInv, DisposedInv, isReconnecting
      <4>2. \A c \in Commands :
              /\ pc'[c] = IF pc[c] = "waiting" THEN "ready"
                          ELSE IF pc[c] = "suspended" THEN "delayed" ELSE pc[c]
              /\ on'[c] = IF pc[c] = "waiting" THEN result ELSE on[c]
        BY <2>1, <2>2, <3>2, <4>1, AvailableType, ResumedType DEF IInv
      <4> QED
        BY <2>1, <3>2, <4>1, <4>2 DEF Reconnected, IInv, LoopInv
    <3> QED
      BY <3>1, <3>2
  <2> QED
    BY <2>3, <2>4, <2>5, <2>6 DEF IInv
<1> QED
  BY <1>1, <1>2

\* reconnect() gives up: dispose(), unless the application disposed of the wrapper.
LEMMA ReconnectFailedStep == ASSUME IInv, ReconnectFailed PROVE IInv'
<1>1. \A i \in Connections : amqp[i] # "open"
  BY DEF ReconnectFailed, IInv, OpenInv
<1>2. CASE state = "disposed"
  <2>1. TypeOK'
    BY <1>2 DEF ReconnectFailed, IInv, TypeOK, ExecTypeOK, InitializerTypeOK
  <2>2. CallInv' /\ DisposedInv'
    BY <1>2
    DEF ReconnectFailed, IInv, CallInv, DisposedInv, ClosedOnlyWhenGivenUp, isReconnecting
  <2>3. ResultInv' /\ OpenInv' /\ LoopInv'
    BY <1>1, <1>2
    DEF ReconnectFailed, IInv, CallInv, DisposedInv, ResultInv, OpenInv, LoopInv
  <2> QED
    BY <2>1, <2>2, <2>3 DEF IInv
<1>3. CASE state # "disposed"
  <2>1. Dispose /\ reconnecting' = "finishing" /\ closedEvents' = closedEvents + 1
    BY <1>3 DEF ReconnectFailed
  <2>2. DisposeConnections(Held, Stopped(pc)) /\ Held \in SUBSET Connections
    BY <2>1 DEF Dispose, Held, IInv, TypeOK
  <2>3. TypeOK'
    <3>1. outcome' \in [Commands -> Outcomes]
      BY <2>1, RejectedType DEF Dispose, IInv, TypeOK, ExecTypeOK
    <3>2. Stopped(pc) \in [Commands -> LoopStates]
      BY StoppedType DEF IInv, TypeOK, ExecTypeOK
    <3>3. /\ conn' \in [Connections -> ConnectionStates]
          /\ amqp' \in [Connections -> {"none", "open", "closing", "closed"}]
          /\ pc' \in [Commands -> LoopStates]
      BY <2>2, <3>2, DisposedOf DEF IInv
    <3>4. ExecTypeOK(Connections)' /\ InitializerTypeOK'
      BY <2>1, <3>1, <3>3
      DEF ReconnectFailed, Dispose, IInv, TypeOK, ExecTypeOK, InitializerTypeOK
    <3>5. closedEvents' \in Nat
      BY <2>1 DEF IInv, TypeOK
    <3>6. UNCHANGED <<connectCall, reconnected, ownerDisposed, lostConns>>
      BY DEF ReconnectFailed
    <3> QED
      BY <2>1, <3>4, <3>5, <3>6 DEF Dispose, IInv, TypeOK
  <2>4. CallInv' /\ DisposedInv'
    BY <1>3, <2>1
    DEF ReconnectFailed, Dispose, IInv, TypeOK, CallInv, DisposedInv, ClosedOnlyWhenGivenUp,
        isReconnecting
  <2>5. ResultInv' /\ OpenInv'
    <3>1. Stopped(pc) \in [Commands -> LoopStates]
      BY StoppedType DEF IInv, TypeOK, ExecTypeOK
    <3>2. \A i \in Connections : amqp'[i] # "open"
      BY <1>1, <2>2, <3>1, DisposedOf DEF IInv
    <3> QED
      BY <2>1, <3>2 DEF ReconnectFailed, Dispose, ResultInv, OpenInv
  <2>6. LoopInv'
    BY <2>1, <2>2, StoppedLoops DEF ReconnectFailed, Dispose
  <2> QED
    BY <2>3, <2>4, <2>5, <2>6 DEF IInv
<1> QED
  BY <1>2, <1>3

\* The dispose() inside reconnect() has returned.
LEMMA ReconnectEndsStep == ASSUME IInv, ReconnectEnds PROVE IInv'
<1>1. TypeOK'
  BY DEF ReconnectEnds, IInv, TypeOK, ExecTypeOK, InitializerTypeOK, initVars, execVars
<1>2. CallInv' /\ DisposedInv'
  BY DEF ReconnectEnds, IInv, CallInv, DisposedInv, ClosedOnlyWhenGivenUp, isReconnecting,
         initVars, execVars
<1>3. ResultInv' /\ OpenInv'
  BY DEF ReconnectEnds, IInv, ResultInv, OpenInv, initVars
<1>4. LoopInv'
  BY DEF ReconnectEnds, IInv, CallInv, LoopInv, execVars
<1> QED
  BY <1>1, <1>2, <1>3, <1>4 DEF IInv

\* The application's dispose(), whatever connect() or reconnect() is doing.
LEMMA OwnerDisposeStep == ASSUME IInv, OwnerDispose PROVE IInv'
<1>1. /\ Dispose /\ state = "connected" /\ ownerDisposed' = TRUE
      /\ DisposeConnections(Held, Stopped(pc)) /\ Held \in SUBSET Connections
  BY DEF OwnerDispose, Dispose, Held, IInv, TypeOK
<1>2. Stopped(pc) \in [Commands -> LoopStates]
  BY StoppedType DEF IInv, TypeOK, ExecTypeOK
<1>3. TypeOK'
  <2>1. outcome' \in [Commands -> Outcomes]
    BY <1>1, RejectedType DEF Dispose, IInv, TypeOK, ExecTypeOK
  <2> QED
    BY <1>1, <1>2, <2>1, DisposedOf
    DEF OwnerDispose, Dispose, IInv, TypeOK, ExecTypeOK, InitializerTypeOK
<1>4. CallInv' /\ DisposedInv'
  BY <1>1
  DEF OwnerDispose, Dispose, IInv, CallInv, DisposedInv, ClosedOnlyWhenGivenUp,
      isReconnecting
<1>5. ResultInv'
  <2>1. CASE initializing = "resolved"
    <3>1. CASE result = NoConnection
      BY <1>1, <2>1, <3>1 DEF OwnerDispose, Dispose, ResultInv
    <3>2. CASE result # NoConnection
      <4>1. container = NoConnection
        BY <2>1 DEF IInv, TypeOK, CallInv, isReconnecting
      <4>2. conn' = conn
        BY <1>1, <4>1 DEF DisposeConnections, Held, IInv, TypeOK, InitializerTypeOK
      <4> QED
        BY <1>1, <2>1, <3>2, <4>2 DEF OwnerDispose, Dispose, IInv, ResultInv
    <3> QED
      BY <3>1, <3>2
  <2>2. CASE initializing # "resolved"
    BY <1>1, <2>2 DEF OwnerDispose, Dispose, IInv, ResultInv
  <2> QED
    BY <2>1, <2>2
<1>6. OpenInv'
  BY <1>1, <1>2, DisposedOf DEF OwnerDispose, Dispose, IInv, OpenInv
<1>7. LoopInv'
  BY <1>1, StoppedLoops DEF OwnerDispose, Dispose
<1> QED
  BY <1>3, <1>4, <1>5, <1>6, <1>7 DEF IInv

-----------------------------------------------------------------------------
\* A connection closes on its own: the container's makes reconnect() begin.
LEMMA ConnectionLostStep ==
  ASSUME IInv, NEW i \in Connections, ConnectionLost(i) PROVE IInv'
<1>1. /\ conn[i] = "live" /\ lostConns' = lostConns \cup {i}
      /\ initializing \notin {"starting", "resolved", "threw"}
      /\ \A c \in Commands : pc[c] \notin {"ready", "lost"}
      /\ UNCHANGED <<created, state, connectCall, hearing, reconnected, closedEvents,
                     ownerDisposed, on, outcome, isCancelled>>
  BY DEF ConnectionLost, Quiet
<1>2. /\ {i} \in SUBSET Connections /\ pc \in [Commands -> LoopStates] /\ TypeOK
  BY DEF IInv, TypeOK, ExecTypeOK
<1>3. /\ DisposeConnections({i}, pc)
      /\ UNCHANGED <<initializing, result, attempts, cancelled>>
      /\ IF container = i
         THEN reconnecting = "no" /\ hearing /\ reconnecting' = "disposingOld"
              /\ container' = NoConnection /\ state = "connected"
              /\ connectCall = "returned"
         ELSE UNCHANGED <<reconnecting, container>>
  <2>1. CASE container = i
    <3>1. /\ container # NoConnection /\ hearing /\ reconnecting = "no"
          /\ state = "connected" /\ connectCall = "returned"
      BY <2>1 DEF IInv, TypeOK, CallInv, Connections, NoConnection, isReconnecting
    <3>2. {i} \cup Held = {i}
      BY <2>1 DEF Held
    <3> QED
      BY <2>1, <3>1, <3>2 DEF ConnectionLost, StartReconnect, isReconnecting
  <2>2. CASE container # i
    BY <2>2 DEF ConnectionLost
  <2> QED
    BY <2>1, <2>2
<1>4. /\ conn' \in [Connections -> ConnectionStates]
      /\ amqp' \in [Connections -> {"none", "open", "closing", "closed"}]
      /\ pc' \in [Commands -> LoopStates]
  BY <1>2, <1>3, DisposedOf
<1>5. \A j \in Connections :
        /\ conn'[j] = IF j = i THEN "disposed" ELSE conn[j]
        /\ amqp'[j] = "open" => amqp[j] = "open" /\ j # i
  <2>1. \A j \in Connections :
          /\ conn'[j] = IF j \in {i} /\ conn[j] = "live" THEN "disposed" ELSE conn[j]
          /\ amqp'[j] = "open" => amqp[j] = "open" /\ ~(j \in {i} /\ conn[j] = "live")
    BY <1>2, <1>3, DisposedOf
  <2> QED
    BY <1>1, <2>1
<1>6. \A c \in Commands :
        pc'[c] = IF pc[c] = "running" /\ on[c] = i THEN "lost" ELSE pc[c]
  <2>1. \A c \in Commands :
          pc'[c] = IF pc[c] = "running" /\ on[c] \in {i} /\ conn[on[c]] = "live"
                   THEN "lost" ELSE pc[c]
    BY <1>2, <1>3, DisposedOf
  <2> QED
    BY <1>1, <2>1
<1>7. TypeOK'
  BY <1>1, <1>3, <1>4 DEF IInv, TypeOK, ExecTypeOK, InitializerTypeOK
<1>8. CallInv' /\ DisposedInv'
  BY <1>1, <1>3
  DEF IInv, CallInv, DisposedInv, ClosedOnlyWhenGivenUp, isReconnecting
<1>9. ResultInv'
  BY <1>1, <1>3, <1>5 DEF IInv, TypeOK, ResultInv
<1>10. OpenInv'
  BY <1>1, <1>3, <1>5 DEF IInv, CallInv, OpenInv, isReconnecting
<1>11. LoopInv'
  BY <1>1, <1>3, <1>6 DEF IInv, LoopInv
<1> QED
  BY <1>7, <1>8, <1>9, <1>10, <1>11 DEF IInv

\* amqplib has closed a connection.
LEMMA AmqplibClosedStep ==
  ASSUME IInv, NEW i \in Connections, AmqplibClosed(i) PROVE IInv'
<1>1. /\ amqp' \in [Connections -> {"none", "open", "closing", "closed"}]
      /\ \A j \in Connections : amqp'[j] = "open" => amqp[j] = "open"
  BY DEF AmqplibClosed, IInv, TypeOK, InitializerTypeOK
<1>2. TypeOK'
  BY <1>1
  DEF AmqplibClosed, IInv, TypeOK, ExecTypeOK, InitializerTypeOK, wrapperVars, execVars
<1>3. CallInv' /\ DisposedInv'
  BY DEF AmqplibClosed, IInv, CallInv, DisposedInv, ClosedOnlyWhenGivenUp, isReconnecting,
         wrapperVars, execVars
<1>4. ResultInv' /\ OpenInv'
  BY <1>1 DEF AmqplibClosed, IInv, ResultInv, OpenInv, wrapperVars
<1>5. LoopInv'
  BY DEF AmqplibClosed, IInv, LoopInv, wrapperVars, execVars
<1> QED
  BY <1>2, <1>3, <1>4, <1>5 DEF IInv

\* Steps of the commands leave the connections and the two calls alone.
LEMMA CommandKeeps ==
  ASSUME IInv, UNCHANGED <<wrapperVars, initVars, isCancelled>>
  PROVE  /\ CallInv' /\ DisposedInv' /\ ResultInv' /\ OpenInv'
         /\ ExecTypeOK(Connections)' => TypeOK'
<1>1. CallInv' /\ DisposedInv'
  BY DEF IInv, CallInv, DisposedInv, ClosedOnlyWhenGivenUp, isReconnecting, wrapperVars,
         initVars
<1>2. ResultInv' /\ OpenInv'
  BY DEF IInv, ResultInv, OpenInv, wrapperVars, initVars
<1>3. ExecTypeOK(Connections)' => TypeOK'
  BY DEF IInv, TypeOK, InitializerTypeOK, wrapperVars, initVars
<1> QED
  BY <1>1, <1>2, <1>3

\* execute() is called: on the container's connection, or waiting for one.
LEMMA SubmitStep == ASSUME IInv, NEW c \in Commands, Submit(c) PROVE IInv'
<1>1. ExecTypeOK(Connections)' /\ UNCHANGED <<wrapperVars, initVars, isCancelled>>
  BY DEF Submit, Execute, Attempt, IInv, TypeOK, ExecTypeOK, LoopStates, Outcomes,
         None, NoConnection
<1>2. LoopInv'
  BY <1>1
  DEF Submit, Execute, Attempt, IInv, TypeOK, ExecTypeOK, LoopInv, None, NoConnection,
      wrapperVars
<1> QED
  BY <1>1, <1>2, CommandKeeps DEF IInv

\* An attempt has its connection, which is the container's and not disposed of.
LEMMA BeginStep == ASSUME IInv, NEW c \in Commands, Begin(c) PROVE IInv'
<1>1. pc' = [pc EXCEPT ![c] = "running"]
  BY DEF Begin, IInv, LoopInv, ResultInv
<1>2. ExecTypeOK(Connections)' /\ UNCHANGED <<wrapperVars, initVars, isCancelled>>
  BY <1>1 DEF Begin, IInv, TypeOK, ExecTypeOK, LoopStates
<1>3. LoopInv'
  BY <1>1, <1>2 DEF Begin, IInv, TypeOK, ExecTypeOK, LoopInv, wrapperVars
<1> QED
  BY <1>2, <1>3, CommandKeeps DEF IInv

\* The command ends, and its loop with it.
LEMMA AnswerStep == ASSUME IInv, NEW c \in Commands, Answer(c) PROVE IInv'
<1>1. /\ pc[c] = "running" /\ pc' = [pc EXCEPT ![c] = "done"]
      /\ \E r \in {"ok", "error"} : outcome' = Settled(outcome, c, r)
      /\ UNCHANGED <<wrapperVars, initVars, isCancelled, on>>
  BY DEF Answer, Finish
<1>2. ExecTypeOK(Connections)'
  BY <1>1 DEF Settled, IInv, TypeOK, ExecTypeOK, LoopStates, Outcomes
<1>3. LoopInv'
  BY <1>1 DEF Settled, IInv, TypeOK, ExecTypeOK, LoopInv, wrapperVars
<1> QED
  BY <1>1, <1>2, <1>3, CommandKeeps DEF IInv

\* The command lost its connection: reconnect() is under way already.
LEMMA CatchLostStep == ASSUME IInv, NEW c \in Commands, CatchLost(c) PROVE IInv'
<1>1. reconnecting = "disposingOld" /\ pc[c] = "lost"
  BY DEF CatchLost, IInv, LoopInv
<1>2. CASE c \in Retryable /\ StartReconnect({}, [pc EXCEPT ![c] = "suspended"])
           /\ UNCHANGED outcome
  <2>1. DisposeConnections({}, [pc EXCEPT ![c] = "suspended"])
    BY <1>1, <1>2 DEF StartReconnect, isReconnecting
  <2>2. UNCHANGED <<conn, amqp>> /\ pc' = [pc EXCEPT ![c] = "suspended"]
    BY <2>1 DEF DisposeConnections, Thrown, IInv, TypeOK, ExecTypeOK, InitializerTypeOK
  <2>3. UNCHANGED <<wrapperVars, initVars, isCancelled, on, outcome>>
    BY <1>1, <1>2, <2>2
    DEF CatchLost, StartReconnect, isReconnecting, wrapperVars, initVars
  <2>4. ExecTypeOK(Connections)'
    BY <2>2, <2>3 DEF IInv, TypeOK, ExecTypeOK, LoopStates
  <2>5. LoopInv'
    BY <1>1, <2>2, <2>3 DEF IInv, TypeOK, ExecTypeOK, LoopInv, wrapperVars
  <2> QED
    BY <2>3, <2>4, <2>5, CommandKeeps DEF IInv
<1>3. CASE pc' = [pc EXCEPT ![c] = "done"] /\ outcome' = Settled(outcome, c, "lost")
           /\ UNCHANGED <<reconnecting, container, initializing, result, attempts,
                          cancelled, conn, amqp>>
  <2>1. UNCHANGED <<wrapperVars, initVars, isCancelled, on>>
    BY <1>3 DEF CatchLost, wrapperVars, initVars
  <2>2. ExecTypeOK(Connections)'
    BY <1>3, <2>1 DEF Settled, IInv, TypeOK, ExecTypeOK, LoopStates, Outcomes
  <2>3. LoopInv'
    BY <1>1, <1>3, <2>1 DEF Settled, IInv, TypeOK, ExecTypeOK, LoopInv, wrapperVars
  <2> QED
    BY <2>1, <2>2, <2>3, CommandKeeps DEF IInv
<1> QED
  BY <1>2, <1>3 DEF CatchLost

\* The timer of a call fires.
LEMMA TimerFiresStep == ASSUME IInv, NEW c \in Commands, TimerFires(c) PROVE IInv'
<1>1. ExecTypeOK(Connections)' /\ UNCHANGED <<wrapperVars, initVars, isCancelled>>
  BY DEF TimerFires, TimeOut, IInv, TypeOK, ExecTypeOK, LoopStates, Outcomes
<1>2. LoopInv'
  BY <1>1
  DEF TimerFires, TimeOut, Pending, IInv, TypeOK, ExecTypeOK, LoopInv, wrapperVars
<1> QED
  BY <1>1, <1>2, CommandKeeps DEF IInv

\* The next attempt of a resumed command.
LEMMA DelayOverStep == ASSUME IInv, NEW c \in Commands, DelayOver(c) PROVE IInv'
<1>1. ExecTypeOK(Connections)' /\ UNCHANGED <<wrapperVars, initVars, isCancelled>>
  BY DEF DelayOver, Again, Attempt, IInv, TypeOK, ExecTypeOK, LoopStates, None,
         NoConnection
<1>2. LoopInv'
  BY <1>1
  DEF DelayOver, Again, Attempt, IInv, TypeOK, ExecTypeOK, LoopInv, None, NoConnection,
      wrapperVars
<1> QED
  BY <1>1, <1>2, CommandKeeps DEF IInv

-----------------------------------------------------------------------------
\* The initial state satisfies the invariant.
LEMMA InitialState == ASSUME Init PROVE IInv
<1>1. ExecTypeOK(Connections)
  BY DEF Init, ExecInit, ExecTypeOK, LoopStates, Outcomes, None
<1>2. InitializerTypeOK
  <2>1. conn \in [Connections -> ConnectionStates]
    BY DEF Init, InitializerInit, ConnectionStates
  <2>2. attempts \in 0 .. MaxAttempts /\ created \in 0 .. MaxConnections
    BY InitializerAssumption DEF Init, InitializerInit
  <2> QED
    BY <2>1, <2>2 DEF Init, InitializerInit, InitializerTypeOK
<1>3. TypeOK
  <2>1. reconnected \in Nat /\ closedEvents \in Nat
    BY DEF Init
  <2> QED
    BY <1>1, <1>2, <2>1 DEF Init, TypeOK
<1>4. CallInv
  BY DEF Init, InitializerInit, CallInv, isReconnecting
<1>5. DisposedInv
  BY DEF Init, InitializerInit, ExecInit, DisposedInv, ClosedOnlyWhenGivenUp
<1>6. ResultInv /\ OpenInv
  BY DEF Init, InitializerInit, ResultInv, OpenInv
<1>7. LoopInv
  BY DEF Init, ExecInit, LoopInv
<1> QED
  BY <1>3, <1>4, <1>5, <1>6, <1>7 DEF IInv

\* So does one whose variables do not change.
LEMMA Stutter == ASSUME IInv, UNCHANGED vars PROVE IInv'
<1>1. UNCHANGED <<wrapperVars, initVars, execVars>>
  BY DEF vars
<1>2. ExecTypeOK(Connections)' /\ LoopInv'
  BY <1>1 DEF IInv, TypeOK, ExecTypeOK, LoopInv, wrapperVars, execVars
<1> QED
  BY <1>1, <1>2, CommandKeeps DEF IInv, execVars

\* Every step preserves the invariant.
LEMMA Step == ASSUME IInv, [Next]_vars PROVE IInv'
<1>1. CASE Connect \/ ConnectContinues \/ InitializerContinues \/ InitializerAnswered
  BY <1>1, ConnectStep, ConnectContinuesStep, InitializerContinuesStep,
     InitializerAnsweredStep
<1>2. CASE OldConnectionDisposed \/ Reconnected \/ ReconnectFailed \/ ReconnectEnds
  BY <1>2, OldConnectionDisposedStep, ReconnectedStep, ReconnectFailedStep,
     ReconnectEndsStep
<1>3. CASE OwnerDispose
  BY <1>3, OwnerDisposeStep
<1>4. ASSUME NEW i \in Connections, ConnectionLost(i) \/ AmqplibClosed(i) PROVE IInv'
  BY <1>4, ConnectionLostStep, AmqplibClosedStep
<1>5. ASSUME NEW c \in Commands, Submit(c) \/ Begin(c) \/ Answer(c) PROVE IInv'
  BY <1>5, SubmitStep, BeginStep, AnswerStep
<1>6. ASSUME NEW c \in Commands, CatchLost(c) \/ TimerFires(c) \/ DelayOver(c)
      PROVE  IInv'
  BY <1>6, CatchLostStep, TimerFiresStep, DelayOverStep
<1>7. CASE UNCHANGED vars
  BY <1>7, Stutter
<1> QED
  BY <1>1, <1>2, <1>3, <1>4, <1>5, <1>6, <1>7 DEF Next

(***************************************************************************)
(* The inductive invariant holds in every reachable state of               *)
(* AmqpConnectionWrapper.                                                  *)
(***************************************************************************)
THEOREM Invariance == Safety => []IInv
<1>1. Init => IInv
  BY InitialState
<1>2. IInv /\ [Next]_vars => IInv'
  BY Step
<1> QED
  BY <1>1, <1>2, PTL DEF Safety

-----------------------------------------------------------------------------
(* The safety invariants *)

\* Every variable keeps its type.
THEOREM TypeCorrect == Safety => []TypeOK
<1>1. IInv => TypeOK
  BY DEF IInv
<1> QED
  BY <1>1, Invariance, PTL

(***************************************************************************)
(* A command that waits, for the container or for resumeAll(), waits for a *)
(* reconnect() that is under way: there is no moment between the loss of a *)
(* connection and the "set" of the next one that it could miss.            *)
(***************************************************************************)
THEOREM NobodySleepsOn == Safety => []NoLostWakeup
<1>1. IInv => NoLostWakeup
  BY DEF IInv, TypeOK, CallInv, LoopInv, NoLostWakeup, isReconnecting
<1> QED
  BY <1>1, Invariance, PTL

(***************************************************************************)
(* connect() and reconnect(), with dispose() at any moment, never keep two *)
(* connections to the broker: the open one is the last one created.        *)
(***************************************************************************)
THEOREM OnlyTheLastIsOpen == Safety => []OneConnectionOpen
<1>1. IInv => OneConnectionOpen
  BY DEF IInv, OpenInv, OneConnectionOpen
<1> QED
  BY <1>1, Invariance, PTL

(***************************************************************************)
(* The wrapper announces "closed" once, and exactly when reconnect() gave  *)
(* up: not on dispose(), and not when connect() threw.                     *)
(***************************************************************************)
THEOREM ClosedMeansGivenUp == Safety => []ClosedOnlyWhenGivenUp
<1>1. IInv => ClosedOnlyWhenGivenUp
  BY DEF IInv, DisposedInv
<1> QED
  BY <1>1, Invariance, PTL

-----------------------------------------------------------------------------
(* The action property *)

(***************************************************************************)
(* A connection leaves the container lost, or because of dispose(): by     *)
(* LoopInv the catch block of a command finds isReconnecting set, and by   *)
(* CallInv a new connection finds the container empty.                     *)
(***************************************************************************)
LEMMA ReplacedWhenLost == ASSUME IInv, [Next]_vars PROVE KeepsConnection
<1> USE DEF IInv, KeepsConnection
<1>1. CASE Connect \/ InitializerContinues \/ InitializerAnswered
           \/ OldConnectionDisposed \/ ReconnectEnds
  BY <1>1 DEF Connect, InitializerContinues, InitializerAnswered, OldConnectionDisposed,
              ReconnectEnds, wrapperVars
<1>2. CASE ConnectContinues
  BY <1>2 DEF ConnectContinues, CallInv
<1>3. CASE Reconnected
  BY <1>3 DEF Reconnected, TypeOK, CallInv, isReconnecting
<1>4. CASE ReconnectFailed \/ OwnerDispose
  BY <1>4 DEF ReconnectFailed, OwnerDispose, Dispose
<1>5. ASSUME NEW i \in Connections, ConnectionLost(i) PROVE KeepsConnection
  BY <1>5 DEF ConnectionLost
<1>6. ASSUME NEW i \in Connections, AmqplibClosed(i) PROVE KeepsConnection
  BY <1>6 DEF AmqplibClosed, wrapperVars
<1>7. ASSUME NEW c \in Commands, CatchLost(c) PROVE KeepsConnection
  BY <1>7 DEF CatchLost, StartReconnect, LoopInv, isReconnecting
<1>8. ASSUME NEW c \in Commands, Submit(c) \/ Begin(c) \/ Answer(c) PROVE KeepsConnection
  BY <1>8 DEF Submit, Begin, Answer, wrapperVars
<1>9. ASSUME NEW c \in Commands, TimerFires(c) \/ DelayOver(c) PROVE KeepsConnection
  BY <1>9 DEF TimerFires, DelayOver, wrapperVars
<1>10. CASE UNCHANGED vars
  BY <1>10 DEF vars, wrapperVars
<1> QED
  BY <1>1, <1>2, <1>3, <1>4, <1>5, <1>6, <1>7, <1>8, <1>9, <1>10 DEF Next

(***************************************************************************)
(* reconnect() never tears down a connection that is still good, however   *)
(* late the error is that asks for it.                                     *)
(***************************************************************************)
THEOREM HealthyConnectionIsKept == Safety => HealthyConnectionKept
<1>1. IInv /\ [Next]_vars => [KeepsConnection]_vars
  BY ReplacedWhenLost
<1> QED
  BY <1>1, Invariance, PTL DEF Safety, HealthyConnectionKept

-----------------------------------------------------------------------------
(* AmqpConnectionWrapper implements CommandExecution *)

\* A call of execute() is a Submit.
LEMMA SubmitIsSubmit ==
  ASSUME IInv, NEW c \in Commands, Submit(c) PROVE CE!Submit(c)
  BY DEF IInv, TypeOK, ExecTypeOK, LoopInv, Submit, Execute, CE!Submit

(***************************************************************************)
(* What settles one call is the abstract Settle, or nothing if the call    *)
(* was settled before.                                                     *)
(***************************************************************************)
LEMMA OneSettles ==
  ASSUME IInv, NEW c \in Commands, NEW r,
         r \in {"ok", "error", "timeout"} \/ (r = "lost" /\ c \notin Retryable),
         outcome' = Settled(outcome, c, r), isCancelled' = isCancelled
  PROVE  [CE!Next]_CE!vars
<1>1. CASE outcome[c] = "pending"
  <2>1. r \in CE!Results(c)
    BY DEF CE!Results
  <2>2. outcome' = [outcome EXCEPT ![c] = r]
    BY <1>1 DEF IInv, TypeOK, ExecTypeOK, Settled
  <2> QED
    BY <1>1, <2>1, <2>2 DEF CE!Settle, CE!Next
<1>2. CASE outcome[c] # "pending"
  <2>1. outcome' = outcome
    BY <1>2 DEF IInv, TypeOK, ExecTypeOK, Settled
  <2> QED
    BY <2>1 DEF CE!vars
<1> QED
  BY <1>1, <1>2

\* dispose() cancels the executor.
LEMMA DisposeIsCancel == ASSUME Dispose PROVE CE!Cancel
  BY DEF Dispose, Rejected, CE!Cancel

\* Every step is a step of CommandExecution or leaves it alone.
LEMMA StepRefines == ASSUME IInv, [Next]_vars PROVE [CE!Next]_CE!vars
<1>1. CASE UNCHANGED <<outcome, isCancelled>>
  BY <1>1 DEF CE!vars
<1>2. CASE Connect \/ ConnectContinues \/ InitializerContinues \/ InitializerAnswered
           \/ OldConnectionDisposed \/ Reconnected \/ ReconnectEnds
  BY <1>1, <1>2 DEF Connect, ConnectContinues, InitializerContinues, InitializerAnswered,
                    OldConnectionDisposed, Reconnected, ReconnectEnds, execVars
<1>3. CASE ReconnectFailed \/ OwnerDispose
  BY <1>1, <1>3, DisposeIsCancel DEF ReconnectFailed, OwnerDispose, CE!Next
<1>4. ASSUME NEW i \in Connections, ConnectionLost(i) \/ AmqplibClosed(i)
      PROVE  [CE!Next]_CE!vars
  BY <1>1, <1>4 DEF ConnectionLost, AmqplibClosed, execVars
<1>5. ASSUME NEW c \in Commands, Submit(c) PROVE [CE!Next]_CE!vars
  BY <1>5, SubmitIsSubmit DEF CE!Next
<1>6. ASSUME NEW c \in Commands, Begin(c) \/ DelayOver(c) PROVE [CE!Next]_CE!vars
  BY <1>1, <1>6 DEF Begin, DelayOver, Again
<1>7. ASSUME NEW c \in Commands, Answer(c) PROVE [CE!Next]_CE!vars
  BY <1>7, OneSettles DEF Answer, Finish
<1>8. ASSUME NEW c \in Commands, CatchLost(c) PROVE [CE!Next]_CE!vars
  BY <1>1, <1>8, OneSettles DEF CatchLost
<1>9. ASSUME NEW c \in Commands, TimerFires(c) PROVE [CE!Next]_CE!vars
  <2>1. outcome' = Settled(outcome, c, "timeout") /\ isCancelled' = isCancelled
    BY <1>9 DEF TimerFires, TimeOut, Pending, Settled, IInv, TypeOK, ExecTypeOK
  <2> QED
    BY <2>1, OneSettles
<1>10. CASE UNCHANGED vars
  BY <1>1, <1>10 DEF vars, execVars
<1> QED
  BY <1>2, <1>3, <1>4, <1>5, <1>6, <1>7, <1>8, <1>9, <1>10 DEF Next

(***************************************************************************)
(* AmqpConnectionWrapper implements CommandExecution: each call settles    *)
(* once, a retryable one is not rejected for the loss of its connection,   *)
(* and dispose() settles them all.                                         *)
(***************************************************************************)
THEOREM PromiseIsKept == Safety => SafePromise
<1>1. Init => CE!Init
  BY DEF Init, ExecInit, CE!Init
<1>2. IInv /\ [Next]_vars => [CE!Next]_CE!vars
  BY StepRefines
<1> QED
  BY <1>1, <1>2, Invariance, PTL DEF Safety, SafePromise, CE!Safety
=============================================================================
