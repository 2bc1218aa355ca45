------------------------ MODULE AmqpConnectionProofs ------------------------
(***************************************************************************)
(* What AmqpConnection.tla states as invariants and action properties,     *)
(* proved for every set of commands, every number of channels and of       *)
(* connect() attempts, and every set of faults.                            *)
(***************************************************************************)
EXTENDS AmqpConnection, TLAPS

-----------------------------------------------------------------------------
(* The inductive invariant *)

\* Where connect() and dispose() have brought the object.
LifeInv ==
  /\ listening => /\ phase = "resolved" /\ ~isDisposed /\ ~isCancelled
                  /\ amqplib \in {"open", "closing"}
  /\ phase = "resolved" => listening \/ isDisposed
  /\ phase \in {"creating", "resolved"} => born # 0
  /\ isCancelled => isDisposed /\ phase = "resolved"
  /\ ownerDisposed => isCancelled
  /\ amqplib = "closing" => phase = "resolved"
  /\ ClosedAnnouncedOnce

\* The container is empty exactly while a channel is being recreated.
ChannelInv ==
  /\ channel # None => listening /\ channel <= born /\ chan[channel] = "open"
  /\ listening => (channel = None <=> isRecreatingChannel)
  /\ isRecreatingChannel <=> creation # "none"
  /\ creation # "none" => phase = "resolved"
  /\ creation = "disposing" => isDisposed
  /\ creation = "opened" => chan[born] = "open"

\* The open channels, those of a closing connection included.
OpenInv ==
  \A k \in Channels :
    chan[k] = "open" => /\ phase = "resolved"
                        /\ \/ amqplib = "closing"
                           \/ k = channel
                           \/ k = born /\ creation = "opened"

\* Where the loop of a command may stand in these states.
LoopInv ==
  \A c \in Commands :
    /\ ~listening => pc[c] \in {"idle", "waiting", "done"}
    /\ pc[c] = "waiting" => /\ phase = "resolved" /\ ~isCancelled
                            /\ channel = None
    /\ pc[c] \in {"ready", "running"} => channel # None /\ on[c] = channel
    /\ pc[c] = "lost" => creation \in {"pending", "refused"}
    /\ pc[c] = "suspended" => creation \in {"pending", "opened", "refused"}
    /\ outcome[c] = "idle" <=> pc[c] = "idle"

IInv == TypeOK /\ LifeInv /\ ChannelInv /\ OpenInv /\ LoopInv

-----------------------------------------------------------------------------
(* What the helpers of Executor and AmqpConnection return *)

\* cancelAll() on the loops.
LEMMA StoppedType ==
  ASSUME NEW p \in [Commands -> LoopStates]
  PROVE  /\ Stopped(p) \in [Commands -> LoopStates]
         /\ \A c \in Commands : Stopped(p)[c] = IF p[c] = "idle" THEN "idle" ELSE "done"
  BY DEF Stopped, LoopStates

\* cancelAll() on the promises.
LEMMA RejectedType ==
  ASSUME NEW o \in [Commands -> Outcomes]
  PROVE  /\ Rejected(o) \in [Commands -> Outcomes]
         /\ \A c \in Commands :
              Rejected(o)[c] = IF o[c] = "pending" THEN "closed" ELSE o[c]
  BY DEF Rejected, Outcomes

\* The loops when a channel has gone.
LEMMA ThrownType ==
  ASSUME NEW p \in [Commands -> LoopStates], NEW gone
  PROVE  Thrown(p, gone) \in [Commands -> LoopStates]
  BY DEF Thrown, LoopStates

\* The loops after set() and resumeAll().
LEMMA ResumedType ==
  ASSUME NEW p \in [Commands -> LoopStates]
  PROVE  Resumed(BecameAvailable(p)) \in [Commands -> LoopStates]
  BY DEF Resumed, BecameAvailable, LoopStates

\* Once amqplib has connected, the channel created last is a channel.
LEMMA BornIsChannel ==
  ASSUME IInv, phase \in {"creating", "resolved"}
  PROVE  born \in Channels
  BY BoundsAssumption DEF IInv, TypeOK, LifeInv, Channels

\* recreateChannel() keeps the types.
LEMMA RecreateChannelType ==
  ASSUME TypeOK, NEW cs \in [Channels -> ChannelStates], RecreateChannel(cs)
  PROVE  /\ chan' \in [Channels -> ChannelStates]
         /\ born' \in 0 .. MaxChannels
         /\ channel' \in Channels \cup {None}
         /\ creation' \in {"none", "pending", "opened", "refused", "disposing"}
         /\ isRecreatingChannel' \in BOOLEAN
<1>1. CASE isRecreatingChannel
  BY <1>1 DEF RecreateChannel, TypeOK
<1>2. CASE ~isRecreatingChannel
  <2> DEFINE old == [k \in Channels |->
                       IF k = channel /\ cs[k] = "open" THEN "closing" ELSE cs[k]]
  <2>1. old \in [Channels -> ChannelStates]
    BY DEF ChannelStates
  <2>2. CASE amqplib = "open" /\ born < MaxChannels
    <3>1. chan' = [old EXCEPT ![born + 1] = "opening"] /\ born' = born + 1
      BY <1>2, <2>2 DEF RecreateChannel
    <3>2. chan' \in [Channels -> ChannelStates]
      BY <2>1, <3>1 DEF ChannelStates
    <3> QED
      BY <1>2, <2>2, <3>1, <3>2, BoundsAssumption DEF RecreateChannel, TypeOK
  <2>3. CASE ~(amqplib = "open" /\ born < MaxChannels)
    BY <1>2, <2>1, <2>3 DEF RecreateChannel, TypeOK
  <2> QED
    BY <2>2, <2>3
<1> QED
  BY <1>1, <1>2

\* dispose() keeps the types.
LEMMA DisposeType ==
  ASSUME TypeOK, NEW amq \in {"none", "open", "closing", "closed"}, Dispose(amq)
  PROVE  /\ pc' \in [Commands -> LoopStates]
         /\ outcome' \in [Commands -> Outcomes]
         /\ channel' \in Channels \cup {None}
         /\ amqplib' \in {"none", "open", "closing", "closed"}
         /\ isCancelled' \in BOOLEAN /\ isDisposed' \in BOOLEAN /\ listening' \in BOOLEAN
<1>1. pc' \in [Commands -> LoopStates] /\ outcome' \in [Commands -> Outcomes]
  BY StoppedType, RejectedType DEF TypeOK, ExecTypeOK, Dispose
<1> QED
  BY <1>1 DEF Dispose

-----------------------------------------------------------------------------
(* Each action preserves it *)

\* connect() begins: nothing is registered yet.
LEMMA ConnectStep == ASSUME IInv, Connect PROVE IInv'
<1>1. TypeOK'
  BY BoundsAssumption DEF Connect, IInv, TypeOK, ExecTypeOK, execVars
<1>2. LifeInv'
  BY DEF Connect, IInv, LifeInv, ClosedAnnouncedOnce, execVars
<1>3. ChannelInv'
  BY DEF Connect, IInv, ChannelInv
<1>4. OpenInv'
  BY DEF Connect, IInv, OpenInv
<1>5. LoopInv'
  BY DEF Connect, IInv, LoopInv, execVars
<1> QED
  BY <1>1, <1>2, <1>3, <1>4, <1>5 DEF IInv

\* amqplib has connected: the first channel is requested, or the attempt has failed.
LEMMA AmqplibConnectedStep == ASSUME IInv, AmqplibConnected PROVE IInv'
<1>1. TypeOK'
  BY BoundsAssumption DEF AmqplibConnected, IInv, TypeOK, ChannelStates, ExecTypeOK,
                          execVars
<1>2. LifeInv'
  BY DEF AmqplibConnected, IInv, TypeOK, LifeInv, ClosedAnnouncedOnce, execVars
<1>3. ChannelInv'
  BY DEF AmqplibConnected, IInv, LifeInv, ChannelInv
<1>4. OpenInv'
  BY DEF AmqplibConnected, IInv, TypeOK, OpenInv
<1>5. LoopInv'
  BY DEF AmqplibConnected, IInv, LoopInv, execVars
<1> QED
  BY <1>1, <1>2, <1>3, <1>4, <1>5 DEF IInv

\* connect() returns: the channel is in the container, or its object is disposed.
LEMMA FirstChannelOpenedStep == ASSUME IInv, FirstChannelOpened PROVE IInv'
<1>1. TypeOK'
  BY BornIsChannel DEF IInv, TypeOK, ExecTypeOK, ChannelStates, execVars,
                       FirstChannelOpened
<1>2. LifeInv'
  BY DEF FirstChannelOpened, IInv, LifeInv, ClosedAnnouncedOnce, execVars
<1>3. ChannelInv'
  BY BoundsAssumption DEF FirstChannelOpened, IInv, TypeOK, LifeInv, ChannelInv,
                          None, Channels
<1>4. OpenInv'
  BY DEF FirstChannelOpened, IInv, TypeOK, OpenInv
<1>5. LoopInv'
  BY DEF FirstChannelOpened, IInv, LifeInv, LoopInv, execVars
<1> QED
  BY <1>1, <1>2, <1>3, <1>4, <1>5 DEF IInv

\* connect() throws: the object is disposed but its executor is not cancelled.
LEMMA FirstChannelRefusedStep == ASSUME IInv, FirstChannelRefused PROVE IInv'
<1>1. TypeOK'
  BY DEF FirstChannelRefused, IInv, TypeOK, LifeInv, Channels, ChannelStates,
         ExecTypeOK, execVars
<1>2. LifeInv'
  BY DEF FirstChannelRefused, IInv, LifeInv, ClosedAnnouncedOnce, execVars
<1>3. ChannelInv'
  BY DEF FirstChannelRefused, IInv, LifeInv, ChannelInv
<1>4. OpenInv'
  BY DEF FirstChannelRefused, IInv, OpenInv
<1>5. LoopInv'
  BY DEF FirstChannelRefused, IInv, LoopInv, execVars
<1> QED
  BY <1>1, <1>2, <1>3, <1>4, <1>5 DEF IInv

\* dispose() by the owner empties the container and ends every loop.
LEMMA OwnerDisposeStep == ASSUME IInv, OwnerDispose PROVE IInv'
<1>1. TypeOK'
  BY DisposeType DEF IInv, TypeOK, ExecTypeOK, OwnerDispose
<1>2. LifeInv'
  BY DEF OwnerDispose, Dispose, IInv, LifeInv, ClosedAnnouncedOnce
<1>3. ChannelInv'
  BY DEF OwnerDispose, Dispose, IInv, ChannelInv
<1>4. OpenInv'
  BY DEF OwnerDispose, Dispose, IInv, LifeInv, OpenInv
<1>5. LoopInv'
  BY DEF OwnerDispose, Dispose, Rejected, Stopped, IInv, LoopInv
<1> QED
  BY <1>1, <1>2, <1>3, <1>4, <1>5 DEF IInv

\* The new channel is open or refused; no loop is in a catch block (Quiet).
LEMMA CreationAnsweredStep == ASSUME IInv, CreationAnswered PROVE IInv'
<1>1. TypeOK'
  BY DEF CreationAnswered, IInv, TypeOK, ChannelStates, ExecTypeOK, execVars
<1>2. LifeInv'
  BY DEF CreationAnswered, IInv, LifeInv, ClosedAnnouncedOnce, execVars
<1>3. ChannelInv'
  BY BoundsAssumption DEF CreationAnswered, IInv, TypeOK, LifeInv, ChannelInv,
                          Channels
<1>4. OpenInv'
  BY DEF CreationAnswered, IInv, TypeOK, ChannelInv, OpenInv
<1>5. LoopInv'
  BY DEF CreationAnswered, Quiet, IInv, LoopInv, execVars
<1> QED
  BY <1>1, <1>2, <1>3, <1>4, <1>5 DEF IInv

\* The new channel wakes all who wait; a disposed connection closes it.
LEMMA ChannelRecreatedStep == ASSUME IInv, ChannelRecreated PROVE IInv'
<1>1. TypeOK'
  <2>1. born \in Channels
    BY BornIsChannel DEF IInv, ChannelInv, ChannelRecreated
  <2>2. pc' \in [Commands -> LoopStates]
    BY ResumedType DEF IInv, TypeOK, ExecTypeOK, ChannelRecreated
  <2>3. on' \in [Commands -> Channels \cup {None}]
    BY <2>1 DEF IInv, TypeOK, ExecTypeOK, GivenTo, ChannelRecreated
  <2> QED
    BY <2>1, <2>2, <2>3 DEF IInv, TypeOK, ExecTypeOK, ChannelStates,
                            ChannelRecreated
<1>2. LifeInv'
  BY DEF ChannelRecreated, IInv, LifeInv, ClosedAnnouncedOnce
<1>3. ChannelInv'
  BY DEF ChannelRecreated, IInv, TypeOK, LifeInv, ChannelInv, None
<1>4. OpenInv'
  BY BoundsAssumption DEF ChannelRecreated, IInv, TypeOK, ChannelInv, OpenInv, None,
                          Channels
<1>5. LoopInv'
  BY DEF ChannelRecreated, BecameAvailable, GivenTo, Resumed, IInv, LifeInv,
         ChannelInv, LoopInv, None
<1> QED
  BY <1>1, <1>2, <1>3, <1>4, <1>5 DEF IInv

\* The recreation failed: the connection gives itself up, once.
LEMMA RecreationFailedStep == ASSUME IInv, RecreationFailed PROVE IInv'
<1>1. TypeOK'
  <2>1. CASE isDisposed
    BY <2>1 DEF IInv, TypeOK, ExecTypeOK, RecreationFailed
  <2>2. CASE ~isDisposed
    BY <2>2, DisposeType DEF IInv, TypeOK, ExecTypeOK, RecreationFailed
  <2> QED
    BY <2>1, <2>2
<1>2. LifeInv'
  <2>1. CASE isDisposed
    BY <2>1 DEF IInv, LifeInv, ClosedAnnouncedOnce, ChannelInv, RecreationFailed
  <2>2. CASE ~isDisposed
    BY <2>2 DEF IInv, LifeInv, ClosedAnnouncedOnce, ChannelInv, Dispose,
                RecreationFailed
  <2> QED
    BY <2>1, <2>2
<1>3. ChannelInv'
  <2>1. CASE isDisposed
    BY <2>1 DEF IInv, ChannelInv, LifeInv, RecreationFailed
  <2>2. CASE ~isDisposed
    BY <2>2 DEF IInv, ChannelInv, LifeInv, Dispose, RecreationFailed
  <2> QED
    BY <2>1, <2>2
<1>4. OpenInv'
  <2>1. CASE isDisposed
    BY <2>1 DEF IInv, OpenInv, ChannelInv, LifeInv, TypeOK, RecreationFailed
  <2>2. CASE ~isDisposed
    BY <2>2 DEF IInv, OpenInv, ChannelInv, LifeInv, TypeOK, Dispose,
                RecreationFailed
  <2> QED
    BY <2>1, <2>2
<1>5. LoopInv'
  <2>1. CASE isDisposed
    BY <2>1 DEF IInv, LoopInv, LifeInv, TypeOK, ExecTypeOK, RecreationFailed
  <2>2. CASE ~isDisposed
    BY <2>2, StoppedType, RejectedType DEF IInv, LoopInv, LifeInv, TypeOK,
                                           ExecTypeOK, Dispose, RecreationFailed
  <2> QED
    BY <2>1, <2>2
<1> QED
  BY <1>1, <1>2, <1>3, <1>4, <1>5 DEF IInv

\* The recreation that gave the connection up is over.
LEMMA RecreationDisposedStep == ASSUME IInv, RecreationDisposed PROVE IInv'
<1>1. TypeOK'
  BY DEF IInv, TypeOK, ExecTypeOK, execVars, RecreationDisposed
<1>2. LifeInv'
  BY DEF RecreationDisposed, IInv, LifeInv, ClosedAnnouncedOnce, execVars
<1>3. ChannelInv'
  BY DEF RecreationDisposed, IInv, LifeInv, ChannelInv
<1>4. OpenInv'
  BY DEF RecreationDisposed, IInv, OpenInv
<1>5. LoopInv'
  BY DEF RecreationDisposed, IInv, LoopInv, execVars
<1> QED
  BY <1>1, <1>2, <1>3, <1>4, <1>5 DEF IInv

\* The connection closes, its channels first: none stays open, and a connection
\* that was in use gives itself up.
LEMMA ConnectionClosedStep == ASSUME IInv, ConnectionClosed PROVE IInv'
<1>1. TypeOK'
  <2>1. chan' \in [Channels -> ChannelStates]
    BY DEF IInv, TypeOK, ChannelStates, ConnectionClosed
  <2>2. CASE listening
    BY <2>1, <2>2, DisposeType DEF IInv, TypeOK, ExecTypeOK, ConnectionClosed
  <2>3. CASE ~listening
    BY <2>1, <2>3 DEF IInv, TypeOK, ExecTypeOK, ConnectionClosed
  <2> QED
    BY <2>2, <2>3 DEF IInv, TypeOK
<1>2. LifeInv'
  BY DEF ConnectionClosed, Dispose, IInv, LifeInv, ClosedAnnouncedOnce
<1>3. ChannelInv'
  BY DEF ConnectionClosed, Dispose, Quiet, IInv, TypeOK, ChannelInv, OpenInv
<1>4. OpenInv'
  BY DEF ConnectionClosed, OpenInv
<1>5. LoopInv'
  BY DEF ConnectionClosed, Dispose, Rejected, Stopped, IInv, LoopInv
<1> QED
  BY <1>1, <1>2, <1>3, <1>4, <1>5 DEF IInv

\* amqplib begins to close; the channels stay open meanwhile.
LEMMA ProtocolErrorStep == ASSUME IInv, ProtocolError PROVE IInv'
<1>1. TypeOK'
  BY DEF ProtocolError, IInv, TypeOK, ExecTypeOK, execVars
<1>2. LifeInv'
  BY DEF ProtocolError, IInv, LifeInv, ClosedAnnouncedOnce, execVars
<1>3. ChannelInv'
  BY DEF ProtocolError, IInv, ChannelInv
<1>4. OpenInv'
  BY DEF ProtocolError, OpenInv
<1>5. LoopInv'
  BY DEF ProtocolError, IInv, LoopInv, execVars
<1> QED
  BY <1>1, <1>2, <1>3, <1>4, <1>5 DEF IInv

\* A channel closes: if it is the container's, a recreation begins and the commands
\* that ran on it are in their catch blocks.
LEMMA ChannelClosedStep == ASSUME IInv, NEW k \in Channels, ChannelClosed(k) PROVE IInv'
<1>1. TypeOK'
  <2>1. [chan EXCEPT ![k] = "closed"] \in [Channels -> ChannelStates] /\ TypeOK
    BY DEF IInv, TypeOK, ChannelStates
  <2>2. CASE k = channel
    BY <2>1, <2>2, RecreateChannelType, ThrownType
    DEF TypeOK, ExecTypeOK, ChannelGone, ChannelClosed
  <2>3. CASE k # channel
    BY <2>1, <2>3, ThrownType DEF TypeOK, ExecTypeOK, ChannelGone, ChannelClosed
  <2> QED
    BY <2>2, <2>3
<1>2. LifeInv'
  BY DEF ChannelClosed, ChannelGone, RecreateChannel, IInv, TypeOK, LifeInv,
         ClosedAnnouncedOnce
<1>3. ChannelInv'
  BY BoundsAssumption DEF ChannelClosed, ChannelGone, Quiet, RecreateChannel, IInv,
                          TypeOK, ChannelInv, OpenInv, None, Channels
<1>4. OpenInv'
  <2>1. CASE k = channel
    BY <2>1 DEF IInv, OpenInv, ChannelInv, LifeInv, TypeOK, None, Channels,
                RecreateChannel, ChannelGone, ChannelClosed
  <2>2. CASE k # channel
    BY <2>2 DEF IInv, OpenInv, TypeOK, ChannelGone, ChannelClosed
  <2> QED
    BY <2>1, <2>2
<1>5. LoopInv'
  BY DEF ChannelClosed, ChannelGone, Quiet, RecreateChannel, Thrown, IInv,
         ChannelInv, LoopInv
<1> QED
  BY <1>1, <1>2, <1>3, <1>4, <1>5 DEF IInv

\* A call of execute() waits, or has the container's channel.
LEMMA SubmitStep == ASSUME IInv, NEW c \in Commands, Submit(c) PROVE IInv'
<1>1. TypeOK'
  BY DEF Submit, Attempt, Execute, IInv, TypeOK, LoopStates, Outcomes, ExecTypeOK,
         connVars
<1>2. LifeInv'
  BY DEF Submit, Execute, IInv, LifeInv, ClosedAnnouncedOnce, connVars
<1>3. ChannelInv'
  BY DEF Submit, IInv, ChannelInv, connVars
<1>4. OpenInv'
  BY DEF Submit, IInv, OpenInv, connVars
<1>5. LoopInv'
  BY DEF Submit, Attempt, Execute, IInv, TypeOK, ChannelInv, LoopInv, ExecTypeOK,
         connVars
<1> QED
  BY <1>1, <1>2, <1>3, <1>4, <1>5 DEF IInv

\* An attempt begins on the container's channel, which is open.
LEMMA BeginStep == ASSUME IInv, NEW c \in Commands, Begin(c) PROVE IInv'
<1>1. TypeOK'
  BY DEF Begin, IInv, TypeOK, LoopStates, ExecTypeOK, connVars
<1>2. LifeInv'
  BY DEF Begin, IInv, LifeInv, ClosedAnnouncedOnce, connVars
<1>3. ChannelInv'
  BY DEF Begin, IInv, ChannelInv, connVars
<1>4. OpenInv'
  BY DEF Begin, IInv, OpenInv, connVars
<1>5. LoopInv'
  BY DEF Begin, IInv, ChannelInv, LoopInv, connVars
<1> QED
  BY <1>1, <1>2, <1>3, <1>4, <1>5 DEF IInv

\* A command ends; the broker's answer settles it.
LEMMA ReplyStep == ASSUME IInv, NEW c \in Commands, Reply(c) PROVE IInv'
<1>1. TypeOK'
  BY DEF Reply, Finish, Settled, IInv, TypeOK, LoopStates, Outcomes, ExecTypeOK,
         connVars
<1>2. LifeInv'
  BY DEF Reply, Finish, IInv, LifeInv, ClosedAnnouncedOnce, connVars
<1>3. ChannelInv'
  BY DEF Reply, IInv, ChannelInv, connVars
<1>4. OpenInv'
  BY DEF Reply, IInv, OpenInv, connVars
<1>5. LoopInv'
  BY DEF Reply, Finish, Settled, IInv, LoopInv, connVars
<1> QED
  BY <1>1, <1>2, <1>3, <1>4, <1>5 DEF IInv

\* A command ends with an error, which may have closed its channel.
LEMMA RefuseStep == ASSUME IInv, NEW c \in Commands, Refuse(c) PROVE IInv'
<1>1. TypeOK'
  <2>1. pc' \in [Commands -> LoopStates] /\ outcome' \in [Commands -> Outcomes]
    <3>1. [pc EXCEPT ![c] = "done"] \in [Commands -> LoopStates]
      BY DEF IInv, TypeOK, ExecTypeOK, LoopStates
    <3>2. outcome' \in [Commands -> Outcomes]
      BY DEF IInv, TypeOK, ExecTypeOK, Outcomes, Settled, Refuse
    <3>3. Thrown([pc EXCEPT ![c] = "done"], {on[c]}) \in [Commands -> LoopStates]
      BY <3>1, ThrownType
    <3>4. \/ pc' = [pc EXCEPT ![c] = "done"]
          \/ pc' = Thrown([pc EXCEPT ![c] = "done"], {on[c]})
      BY DEF ChannelGone, Refuse
    <3> QED
      BY <3>1, <3>2, <3>3, <3>4
  <2>2. CASE UNCHANGED <<channel, isRecreatingChannel, creation, born, chan>>
    BY <2>1, <2>2 DEF IInv, TypeOK, ExecTypeOK, Refuse
  <2>3. CASE ChannelGone(on[c], [pc EXCEPT ![c] = "done"])
    <3>1. [chan EXCEPT ![on[c]] = "closed"] \in [Channels -> ChannelStates]
      BY DEF IInv, TypeOK, ChannelStates
    <3>2. CASE on[c] = channel
      <4>1. RecreateChannel([chan EXCEPT ![on[c]] = "closed"])
        BY <2>3, <3>2 DEF ChannelGone
      <4>2. /\ TypeOK
            /\ UNCHANGED <<phase, attempt, amqplib, isDisposed, listening, closedEvents,
                           ownerDisposed, on, isCancelled>>
        BY DEF IInv, Refuse
      <4> QED
        BY <2>1, <3>1, <4>1, <4>2, RecreateChannelType DEF TypeOK, ExecTypeOK
    <3>3. CASE on[c] # channel
      <4>1. /\ chan' = [chan EXCEPT ![on[c]] = "closed"]
            /\ UNCHANGED <<channel, isRecreatingChannel, creation, born>>
        BY <2>3, <3>3 DEF ChannelGone
      <4> QED
        BY <2>1, <3>1, <4>1 DEF IInv, TypeOK, ExecTypeOK, Refuse
    <3> QED
      BY <3>2, <3>3
  <2> QED
    BY <2>2, <2>3 DEF Refuse
<1>2. LifeInv'
  BY DEF Refuse, ChannelGone, RecreateChannel, IInv, TypeOK, LifeInv,
         ClosedAnnouncedOnce
<1>3. ChannelInv'
  BY DEF Refuse, ChannelGone, RecreateChannel, IInv, LifeInv, ChannelInv, LoopInv
<1>4. OpenInv'
  BY DEF IInv, OpenInv, ChannelInv, LifeInv, TypeOK, ExecTypeOK, None, Channels,
         Quiet, RecreateChannel, ChannelGone, Refuse
<1>5. LoopInv'
  BY DEF Refuse, ChannelGone, Quiet, RecreateChannel, Settled, Thrown, IInv, TypeOK,
         ChannelInv, LoopInv, ExecTypeOK
<1> QED
  BY <1>1, <1>2, <1>3, <1>4, <1>5 DEF IInv

\* A command lost its channel: the recreation has begun, so it changes nothing more.
LEMMA CatchLostStep == ASSUME IInv, NEW c \in Commands, CatchLost(c) PROVE IInv'
<1>1. TypeOK'
  BY DEF CatchLost, RecreateChannel, Settled, IInv, TypeOK, ChannelInv, LoopInv,
         LoopStates, Outcomes, ExecTypeOK
<1>2. LifeInv'
  BY DEF CatchLost, RecreateChannel, IInv, LifeInv, ChannelInv, LoopInv,
         ClosedAnnouncedOnce
<1>3. ChannelInv'
  BY DEF CatchLost, RecreateChannel, IInv, ChannelInv, LoopInv
<1>4. OpenInv'
  BY DEF CatchLost, RecreateChannel, IInv, ChannelInv, OpenInv, LoopInv
<1>5. LoopInv'
  BY DEF CatchLost, RecreateChannel, Settled, IInv, TypeOK, ChannelInv, LoopInv,
         ExecTypeOK
<1> QED
  BY <1>1, <1>2, <1>3, <1>4, <1>5 DEF IInv

\* A command met a closing connection, which gives itself up.
LEMMA CatchClosingStep == ASSUME IInv, NEW c \in Commands, CatchClosing(c) PROVE IInv'
<1>1. TypeOK'
  BY DisposeType DEF IInv, TypeOK, ExecTypeOK, CatchClosing
<1>2. LifeInv'
  BY DEF CatchClosing, Dispose, IInv, LifeInv, LoopInv, ClosedAnnouncedOnce
<1>3. ChannelInv'
  BY DEF CatchClosing, Dispose, IInv, ChannelInv
<1>4. OpenInv'
  BY DEF CatchClosing, Dispose, IInv, LifeInv, OpenInv, LoopInv
<1>5. LoopInv'
  BY DEF CatchClosing, Dispose, Rejected, Stopped, IInv, LoopInv
<1> QED
  BY <1>1, <1>2, <1>3, <1>4, <1>5 DEF IInv

\* A timer rejects the caller; a suspended loop ends.
LEMMA TimerFiresStep == ASSUME IInv, NEW c \in Commands, TimerFires(c) PROVE IInv'
<1>1. TypeOK'
  BY DEF TimerFires, TimeOut, IInv, TypeOK, LoopStates, Outcomes, ExecTypeOK,
         connVars
<1>2. LifeInv'
  BY DEF TimerFires, TimeOut, IInv, LifeInv, ClosedAnnouncedOnce, connVars
<1>3. ChannelInv'
  BY DEF TimerFires, IInv, ChannelInv, connVars
<1>4. OpenInv'
  BY DEF TimerFires, IInv, OpenInv, connVars
<1>5. LoopInv'
  BY DEF TimerFires, Pending, TimeOut, IInv, LoopInv, connVars
<1> QED
  BY <1>1, <1>2, <1>3, <1>4, <1>5 DEF IInv

\* The pause is over: a further attempt, unless the caller was rejected.
LEMMA DelayOverStep == ASSUME IInv, NEW c \in Commands, DelayOver(c) PROVE IInv'
<1>1. TypeOK'
  BY DEF DelayOver, Again, Attempt, IInv, TypeOK, LoopStates, ExecTypeOK, connVars
<1>2. LifeInv'
  BY DEF DelayOver, Again, IInv, LifeInv, ClosedAnnouncedOnce, connVars
<1>3. ChannelInv'
  BY DEF DelayOver, IInv, ChannelInv, connVars
<1>4. OpenInv'
  BY DEF DelayOver, IInv, OpenInv, connVars
<1>5. LoopInv'
  BY DEF DelayOver, Again, Attempt, IInv, TypeOK, LifeInv, LoopInv, ExecTypeOK,
         connVars
<1> QED
  BY <1>1, <1>2, <1>3, <1>4, <1>5 DEF IInv

-----------------------------------------------------------------------------
(* The invariant holds in every reachable state *)

\* A new object satisfies the invariant.
LEMMA InitialState == ASSUME Init PROVE IInv
<1>1. ExecTypeOK(Channels)
  BY DEF Init, ExecInit, ExecTypeOK, LoopStates, Outcomes, None
<1>2. TypeOK
  <2>1. chan \in [Channels -> ChannelStates]
    BY DEF Init, ChannelStates
  <2>2. attempt \in 0 .. MaxConnects /\ born \in 0 .. MaxChannels
    BY BoundsAssumption DEF Init
  <2>3. closedEvents \in Nat
    BY DEF Init
  <2> QED
    BY <1>1, <2>1, <2>2, <2>3 DEF Init, TypeOK
<1>3. LifeInv
  BY DEF Init, ExecInit, LifeInv, ClosedAnnouncedOnce
<1>4. ChannelInv
  BY DEF Init, ChannelInv
<1>5. OpenInv
  BY DEF Init, OpenInv
<1>6. LoopInv
  BY DEF Init, ExecInit, LoopInv
<1> QED
  BY <1>2, <1>3, <1>4, <1>5, <1>6 DEF IInv

\* So does one whose variables do not change.
LEMMA Stutter == ASSUME IInv, UNCHANGED vars PROVE IInv'
  BY DEF IInv, TypeOK, ExecTypeOK, LifeInv, ClosedAnnouncedOnce, ChannelInv,
         OpenInv,
         LoopInv, vars, connVars, execVars

\* Every step preserves the invariant.
LEMMA Step == ASSUME IInv, [Next]_vars PROVE IInv'
<1>1. CASE Connect \/ AmqplibConnected \/ FirstChannelOpened \/ FirstChannelRefused
  BY <1>1, ConnectStep, AmqplibConnectedStep, FirstChannelOpenedStep,
     FirstChannelRefusedStep
<1>2. CASE OwnerDispose \/ ConnectionClosed \/ ProtocolError
  BY <1>2, OwnerDisposeStep, ConnectionClosedStep, ProtocolErrorStep
<1>3. CASE CreationAnswered \/ ChannelRecreated \/ RecreationFailed \/ RecreationDisposed
  BY <1>3, CreationAnsweredStep, ChannelRecreatedStep, RecreationFailedStep,
     RecreationDisposedStep
<1>4. ASSUME NEW k \in Channels, ChannelClosed(k) PROVE IInv'
  BY <1>4, ChannelClosedStep
<1>5. ASSUME NEW c \in Commands, Submit(c) \/ Begin(c) \/ Reply(c) \/ Refuse(c)
      PROVE  IInv'
  BY <1>5, SubmitStep, BeginStep, ReplyStep, RefuseStep
<1>6. ASSUME NEW c \in Commands, CatchLost(c) \/ CatchClosing(c)
      PROVE  IInv'
  BY <1>6, CatchLostStep, CatchClosingStep
<1>7. ASSUME NEW c \in Commands, TimerFires(c) \/ DelayOver(c)
      PROVE  IInv'
  BY <1>7, TimerFiresStep, DelayOverStep
<1>8. CASE UNCHANGED vars
  BY <1>8, Stutter
<1> QED
  BY <1>1, <1>2, <1>3, <1>4, <1>5, <1>6, <1>7, <1>8 DEF Next

(***************************************************************************)
(* The inductive invariant holds in every reachable state of               *)
(* AmqpConnection.                                                         *)
(***************************************************************************)
THEOREM Invariance == Safety => []IInv
<1>1. Init => IInv
  BY InitialState
<1>2. IInv /\ [Next]_vars => IInv'
  BY Step
<1> QED
  BY <1>1, <1>2, PTL DEF Safety

-----------------------------------------------------------------------------
(* The safety invariants *)

\* Every variable keeps its type.
THEOREM TypeCorrect == Safety => []TypeOK
<1>1. IInv => TypeOK
  BY DEF IInv
<1> QED
  BY <1>1, Invariance, PTL

(***************************************************************************)
(* The container never holds a channel that has closed: what execute()     *)
(* hands to a command is an open channel of a connection with its          *)
(* listeners.                                                              *)
(***************************************************************************)
THEOREM ChannelIsLive == Safety => []LiveChannel
<1>1. IInv => LiveChannel
  BY DEF IInv, LifeInv, ChannelInv, LiveChannel
<1> QED
  BY <1>1, Invariance, PTL

(***************************************************************************)
(* A command that waits, for the container or for resumeAll(), waits for a *)
(* recreateChannel() that is under way.                                    *)
(***************************************************************************)
THEOREM NobodySleepsOn == Safety => []NoLostWakeup
<1>1. IInv => NoLostWakeup
  BY DEF IInv, TypeOK, LifeInv, ChannelInv, LoopInv, NoLostWakeup, Recreating
<1> QED
  BY <1>1, Invariance, PTL

(***************************************************************************)
(* recreateChannel() and connect() leave no channel open that is not in    *)
(* the container or about to be put there.                                 *)
(***************************************************************************)
THEOREM NoChannelIsLeaked == Safety => []NoChannelLeak
<1>1. IInv => NoChannelLeak
  BY DEF IInv, OpenInv, NoChannelLeak
<1> QED
  BY <1>1, Invariance, PTL

(***************************************************************************)
(* Whichever of its causes come together, a connection announces "closed"  *)
(* once, and never if its owner disposed of it.                            *)
(***************************************************************************)
THEOREM ClosedIsAnnouncedOnce == Safety => []ClosedAnnouncedOnce
<1>1. IInv => ClosedAnnouncedOnce
  BY DEF IInv, LifeInv
<1> QED
  BY <1>1, Invariance, PTL

-----------------------------------------------------------------------------
(* The action properties *)

(***************************************************************************)
(* A channel leaves the container only closed, or because of dispose(): by *)
(* LoopInv the catch block of a command finds isRecreatingChannel set, and *)
(* by ChannelInv a new channel finds the container empty.                  *)
(***************************************************************************)
LEMMA ReplacedWhenClosed == ASSUME IInv, [Next]_vars PROVE KeepsChannel
<1> USE DEF IInv, LifeInv, ChannelInv, KeepsChannel
<1>1. CASE Connect \/ AmqplibConnected \/ FirstChannelOpened \/ FirstChannelRefused
  BY <1>1 DEF Connect, AmqplibConnected, FirstChannelOpened, FirstChannelRefused
<1>2. CASE OwnerDispose \/ ConnectionClosed \/ ProtocolError
  BY <1>2 DEF OwnerDispose, ConnectionClosed, ProtocolError, Dispose
<1>3. CASE CreationAnswered \/ ChannelRecreated \/ RecreationFailed \/ RecreationDisposed
  BY <1>3 DEF CreationAnswered, ChannelRecreated, RecreationFailed,
              RecreationDisposed, Dispose
<1>4. ASSUME NEW k \in Channels, NEW p, ChannelGone(k, p) PROVE KeepsChannel
  <2>1. CASE k # channel \/ isRecreatingChannel
    BY <1>4, <2>1 DEF ChannelGone, RecreateChannel, TypeOK
  <2>2. CASE k = channel /\ ~isRecreatingChannel
    <3>1. PICK old \in [Channels -> ChannelStates] :
            /\ old[k] = "closed"
            /\ chan' = old \/ (chan' = [old EXCEPT ![born + 1] = "opening"]
                              /\ born < MaxChannels)
      BY <1>4, <2>2 DEF ChannelGone, RecreateChannel, TypeOK, ChannelStates
    <3>2. channel # born + 1
      BY <2>2, BoundsAssumption DEF TypeOK, Channels, None
    <3> QED
      BY <2>2, <3>1, <3>2
  <2> QED
    BY <2>1, <2>2
<1>5. ASSUME NEW k \in Channels, ChannelClosed(k) PROVE KeepsChannel
  BY <1>4, <1>5 DEF ChannelClosed
<1>6. ASSUME NEW c \in Commands, Refuse(c) PROVE KeepsChannel
  <2>1. on[c] \in Channels
    BY <1>6 DEF Refuse, LoopInv, TypeOK
  <2> QED
    BY <1>4, <1>6, <2>1 DEF Refuse
<1>7. ASSUME NEW c \in Commands, CatchLost(c) PROVE KeepsChannel
  BY <1>7 DEF CatchLost, LoopInv, RecreateChannel
<1>8. ASSUME NEW c \in Commands, Submit(c) \/ Begin(c) \/ Reply(c) PROVE KeepsChannel
  BY <1>8 DEF Submit, Begin, Reply, connVars
<1>9. ASSUME NEW c \in Commands, CatchClosing(c) \/ TimerFires(c) \/ DelayOver(c)
      PROVE  KeepsChannel
  BY <1>9 DEF CatchClosing, TimerFires, DelayOver, Dispose, connVars
<1>10. CASE UNCHANGED vars
  BY <1>10 DEF vars, connVars
<1> QED
  BY <1>1, <1>2, <1>3, <1>5, <1>6, <1>7, <1>8, <1>9, <1>10 DEF Next

(***************************************************************************)
(* recreateChannel() never tears down a channel that is still good,        *)
(* however late the error is that asks for it.                             *)
(***************************************************************************)
THEOREM HealthyChannelIsKept == Safety => HealthyChannelKept
<1>1. IInv /\ [Next]_vars => [KeepsChannel]_vars
  BY ReplacedWhenClosed
<1> QED
  BY <1>1, Invariance, PTL DEF Safety, HealthyChannelKept

(***************************************************************************)
(* A loop whose caller was timed out begins no attempt: its resume         *)
(* callback is gone, or it sees hasTimedOut when its pause is over.        *)
(***************************************************************************)
LEMMA NoFurtherAttempt ==
  ASSUME IInv, [Next]_vars, NEW d \in Commands PROVE EndsAfterTimeout(d)
<1> USE DEF IInv, TypeOK, ExecTypeOK, EndsAfterTimeout
<1>1. CASE pc' = pc
  BY <1>1
<1>2. CASE pc' = Stopped(pc)
  BY <1>2 DEF Stopped
<1>3. ASSUME NEW c \in Commands, NEW s \in LoopStates \ {"waiting", "ready"},
             pc' = [pc EXCEPT ![c] = s]
      PROVE  EndsAfterTimeout(d)
  BY <1>3
<1>4. CASE Connect \/ AmqplibConnected \/ FirstChannelOpened \/ FirstChannelRefused
           \/ CreationAnswered \/ RecreationDisposed \/ ProtocolError
  BY <1>1, <1>4 DEF Connect, AmqplibConnected, FirstChannelOpened,
                    FirstChannelRefused,
                    CreationAnswered, RecreationDisposed, ProtocolError, execVars
<1>5. CASE OwnerDispose \/ ConnectionClosed \/ RecreationFailed
  BY <1>1, <1>2, <1>5 DEF OwnerDispose, ConnectionClosed, RecreationFailed, Dispose
<1>6. CASE ChannelRecreated
  BY <1>6 DEF ChannelRecreated, Resumed, BecameAvailable
<1>7. ASSUME NEW k \in Channels, ChannelClosed(k) PROVE EndsAfterTimeout(d)
  BY <1>7 DEF ChannelClosed, ChannelGone, Thrown
<1>8. ASSUME NEW c \in Commands, Submit(c) PROVE EndsAfterTimeout(d)
  BY <1>8 DEF Submit, Execute, Attempt, LoopInv
<1>9. ASSUME NEW c \in Commands, Begin(c) \/ Reply(c) PROVE EndsAfterTimeout(d)
  BY <1>9 DEF Begin, Reply, Finish
<1>10. ASSUME NEW c \in Commands, Refuse(c) PROVE EndsAfterTimeout(d)
  BY <1>10 DEF Refuse, ChannelGone, Thrown
<1>11. ASSUME NEW c \in Commands, CatchLost(c) \/ CatchClosing(c) PROVE EndsAfterTimeout(d)
  BY <1>2, <1>11 DEF CatchLost, CatchClosing, Dispose
<1>12. ASSUME NEW c \in Commands, TimerFires(c) PROVE EndsAfterTimeout(d)
  BY <1>12 DEF TimerFires, TimeOut, Pending
<1>13. ASSUME NEW c \in Commands, DelayOver(c) PROVE EndsAfterTimeout(d)
  BY <1>13 DEF DelayOver, Again, Attempt, Pending
<1>14. CASE UNCHANGED vars
  BY <1>1, <1>14 DEF vars, execVars
<1> QED
  BY <1>4, <1>5, <1>6, <1>7, <1>8, <1>9, <1>10, <1>11, <1>12, <1>13, <1>14 DEF Next

\* execute() makes no further attempt after CommandTimedOutError.
THEOREM NoRetryOnceTimedOut == Safety => NoRetryAfterTimeout
<1>1. IInv /\ [Next]_vars => [\A c \in Commands : EndsAfterTimeout(c)]_vars
  BY NoFurtherAttempt
<1> QED
  BY <1>1, Invariance, PTL DEF Safety, NoRetryAfterTimeout

-----------------------------------------------------------------------------
(* AmqpConnection implements CommandExecution *)

\* A call of execute() is the abstract call.
LEMMA SubmitIsSubmit ==
  ASSUME IInv, NEW c \in Commands, Submit(c) PROVE CE!Submit(c)
  BY DEF IInv, TypeOK, ExecTypeOK, LoopInv, Submit, Execute, CE!Submit

(***************************************************************************)
(* What settles one call is the abstract Settle, or nothing if the call    *)
(* was settled before.                                                     *)
(***************************************************************************)
LEMMA OneSettles ==
  ASSUME IInv, NEW c \in Commands, NEW result,
         result \in {"ok", "error", "timeout"} \/ (result = "lost" /\ c \notin Retryable),
         outcome' = Settled(outcome, c, result), isCancelled' = isCancelled
  PROVE  [CE!Next]_CE!vars
<1>1. CASE outcome[c] = "pending"
  <2>1. result \in CE!Results(c)
    BY DEF CE!Results
  <2>2. outcome' = [outcome EXCEPT ![c] = result]
    BY <1>1 DEF IInv, TypeOK, ExecTypeOK, Settled
  <2> QED
    BY <1>1, <2>1, <2>2 DEF CE!Settle, CE!Next
<1>2. CASE outcome[c] # "pending"
  <2>1. outcome' = outcome
    BY <1>2 DEF IInv, TypeOK, ExecTypeOK, Settled
  <2> QED
    BY <2>1 DEF CE!vars
<1> QED
  BY <1>1, <1>2

\* dispose() cancels the executor.
LEMMA DisposeIsCancel == ASSUME NEW amq, Dispose(amq) PROVE CE!Cancel
  BY DEF Dispose, Rejected, CE!Cancel

\* Every step is a step of CommandExecution or leaves it alone.
LEMMA StepRefines == ASSUME IInv, [Next]_vars PROVE [CE!Next]_CE!vars
<1>1. CASE UNCHANGED <<outcome, isCancelled>>
  BY <1>1 DEF CE!vars
<1>2. CASE Connect \/ AmqplibConnected \/ FirstChannelOpened \/ FirstChannelRefused
           \/ CreationAnswered \/ ChannelRecreated \/ RecreationDisposed \/ ProtocolError
  BY <1>1, <1>2 DEF Connect, AmqplibConnected, FirstChannelOpened,
                    FirstChannelRefused,
       CreationAnswered, ChannelRecreated, RecreationDisposed, ProtocolError, execVars
<1>3. CASE OwnerDispose \/ ConnectionClosed \/ RecreationFailed
  BY <1>1, <1>3, DisposeIsCancel DEF OwnerDispose, ConnectionClosed,
                                     RecreationFailed, CE!Next
<1>4. ASSUME NEW k \in Channels, ChannelClosed(k) PROVE [CE!Next]_CE!vars
  BY <1>1, <1>4 DEF ChannelClosed
<1>5. ASSUME NEW c \in Commands, Submit(c) PROVE [CE!Next]_CE!vars
  BY <1>5, SubmitIsSubmit DEF CE!Next
<1>6. ASSUME NEW c \in Commands, Begin(c) \/ DelayOver(c) PROVE [CE!Next]_CE!vars
  BY <1>1, <1>6 DEF Begin, DelayOver, Again
<1>7. ASSUME NEW c \in Commands, Reply(c) PROVE [CE!Next]_CE!vars
  BY <1>7, OneSettles DEF Reply, Finish
<1>8. ASSUME NEW c \in Commands, Refuse(c) PROVE [CE!Next]_CE!vars
  BY <1>8, OneSettles DEF Refuse
<1>9. ASSUME NEW c \in Commands, CatchLost(c) PROVE [CE!Next]_CE!vars
  BY <1>1, <1>9, OneSettles DEF CatchLost
<1>10. ASSUME NEW c \in Commands, CatchClosing(c) PROVE [CE!Next]_CE!vars
  BY <1>10, DisposeIsCancel DEF CatchClosing, CE!Next
<1>11. ASSUME NEW c \in Commands, TimerFires(c) PROVE [CE!Next]_CE!vars
  <2>1. outcome' = Settled(outcome, c, "timeout") /\ isCancelled' = isCancelled
    BY <1>11 DEF TimerFires, TimeOut, Pending, Settled, IInv, TypeOK, ExecTypeOK
  <2> QED
    BY <2>1, OneSettles
<1>12. CASE UNCHANGED vars
  BY <1>1, <1>12 DEF vars, execVars
<1> QED
  BY <1>2, <1>3, <1>4, <1>5, <1>6, <1>7, <1>8, <1>9, <1>10, <1>11, <1>12 DEF Next

(***************************************************************************)
(* AmqpConnection implements CommandExecution: each call settles once, a   *)
(* retryable one is not rejected for the loss of its channel, and          *)
(* dispose() settles them all.                                             *)
(***************************************************************************)
THEOREM PromiseIsKept == Safety => SafePromise
<1>1. Init => CE!Init
  BY DEF Init, ExecInit, CE!Init
<1>2. IInv /\ [Next]_vars => [CE!Next]_CE!vars
  BY StepRefines
<1> QED
  BY <1>1, <1>2, Invariance, PTL DEF Safety, SafePromise, CE!Safety
=============================================================================
