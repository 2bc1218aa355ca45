------------------------------- MODULE RpcProofs -------------------------------
(***************************************************************************)
(* What Rpc.tla states as invariants, and that it implements RemoteCall,   *)
(* proved for every set of calls, of answers, of copies and of runs, and   *)
(* any number of lost channels.                                            *)
(***************************************************************************)
EXTENDS Rpc, TLAPS

-----------------------------------------------------------------------------
(* The inductive invariant *)

\* A call's promise, its entry in the CommandContainer and where its sendCommand() stands.
Accounted(c) ==
  /\ outcome[c] = "idle" <=> pc[c] = "idle"
  /\ outcome[c] = "pending" <=> pc[c] \in {"initializing", "sending", "sent", "waiting"}
  /\ pc[c] \in {"sending", "sent"} => status[c] # "none"
  /\ pc[c] = "waiting" => status[c] = "ready"
  /\ status[c] \in Answers => <<c, status[c]>> \in given
  /\ status[c] = "dismissed" => c \in unroutable
  /\ status[c] = "closed" => isDisposed

CallInv == \A c \in Calls : Accounted(c)

\* The calls whose command has not been sent.
Unsaid == {"idle", "initializing"}

\* A run is of a call that was sent, and what it replies is what its handler has given.
RunInv ==
  /\ replies \subseteq given
  /\ \A r \in Runs :
       /\ run[r].pc = "free" <=> run[r].call = "none"
       /\ run[r].pc # "free" => pc[run[r].call] \notin Unsaid
       /\ run[r].pc \in {"replying", "replied", "abandoned"} =>
            <<run[r].call, run[r].answer>> \in given
       /\ run[r].pc = "abandoned" => run[r].call \in unanswered
  /\ \A c \in Calls : \A i \in Copies : copy[c][i] # "none" => pc[c] \notin Unsaid

\* Who holds the locks.
LockInv ==
  /\ state = "ready" => \A r \in Runs : run[r].pc = "free"
  /\ serverLosses = 0 =>
       channel = "up" /\ \A r \in Runs : Live(r) => lock[run[r].call] # 0
  /\ OneRunPerCommand
  /\ LockHasOwner

\* Some message of the call is on its way.
Underway(c) ==
  \/ pc[c] \in {"sending", "sent", "waiting", "abandoned"}
  \/ \E i \in Copies : copy[c][i] # "none"
  \/ \E r \in Runs : run[r].call = c

\* Until it expires, what is on its way will find the reply queue, but for early calls.
QueueInv ==
  /\ ~expired => \A c \in Calls : Underway(c) => replyQueue \/ c \in early
  /\ DroppedOnlyIfEarly

(***************************************************************************)
(* An entry that is open: its command is in the broker from its arrival    *)
(* on, and its reply from before the confirmation.                         *)
(***************************************************************************)
Settled(c) == status[c] # "ready"
Kept(c) == HasCommand(c) \/ HasReply(c) \/ c \in timedOut \cup dropped
Replied(c) == HasReply(c) \/ c \in dropped

AnswerInv ==
  /\ \A c \in Calls : pc[c] \in {"sent", "waiting"} => Settled(c) \/ Kept(c)
  /\ \A r \in Runs : run[r].pc = "replied" => Settled(run[r].call) \/ Replied(run[r].call)

IInv == TypeOK /\ CallInv /\ RunInv /\ LockInv /\ QueueInv /\ AnswerInv

-----------------------------------------------------------------------------
(* Parts of the invariant that a step leaves alone *)

\* A step of the client says nothing about locks.
LEMMA LocksKept == ASSUME IInv, UNCHANGED <<serverVars, unanswered>> PROVE LockInv'
  BY DEF IInv, LockInv, OneRunPerCommand, LockHasOwner, Live, serverVars

\* A call that was sent stays sent.
LEMMA RunsKept ==
  ASSUME IInv, UNCHANGED <<run, copy, given, unanswered>>, replies' \subseteq replies,
         \A c \in Calls : pc[c] \notin Unsaid => pc'[c] \notin Unsaid
  PROVE  RunInv'
<1>1. \A r \in Runs : run[r] \in RunRecord
  BY DEF IInv, TypeOK
<1>2. \A r \in Runs : run[r].pc # "free" => run[r].call \in Calls
  BY <1>1 DEF IInv, RunInv, RunRecord
<1> QED
  BY <1>2 DEF IInv, RunInv

\* A step of the server leaves the calls alone.
LEMMA CallsKept ==
  ASSUME IInv, UNCHANGED <<clientVars, unroutable>>, given \subseteq given'
  PROVE  CallInv'
  BY DEF IInv, CallInv, Accounted, clientVars

\* Nothing is underway that was not, and no reply queue has gone.
LEMMA QueueKept ==
  ASSUME IInv, expired' = expired, replyQueue => replyQueue', early \subseteq early',
         dropped' \subseteq dropped,
         \A c \in Calls : Underway(c)' => Underway(c) \/ c \in early' \/ replyQueue'
  PROVE  QueueInv'
  BY DEF IInv, QueueInv, DroppedOnlyIfEarly

\* What is underway is so with the messages and runs as they were.
LEMMA UnderwayBefore ==
  ASSUME NEW c \in Calls, UNCHANGED <<copy, run>>, Underway(c)',
         pc'[c] \in {"sending", "sent", "waiting", "abandoned"} =>
           pc[c] \in {"sending", "sent", "waiting", "abandoned"}
  PROVE  Underway(c)
  BY DEF Underway

\* No entry of a call that was sent is opened.
OpensNone ==
  \A c \in Calls : pc[c] \notin Unsaid /\ status'[c] = "ready" => status[c] = "ready"

\* The broker and the server have what they had, and no such entry is opened.
LEMMA AnswersKept ==
  ASSUME IInv, UNCHANGED <<copy, run, timedOut, dropped>>,
         \A c \in Calls : \A a \in Answers :
           <<c, a>> \in replies => <<c, a>> \in replies' \/ status'[c] # "ready",
         OpensNone,
         \A c \in Calls : pc'[c] \in {"sent", "waiting"} => pc[c] \in {"sent", "waiting"}
  PROVE  AnswerInv'
<1>1. \A c \in Calls : pc[c] \in {"sent", "waiting"} => pc[c] \notin Unsaid
  BY DEF Unsaid
<1>2. \A r \in Runs : run[r].pc = "replied" => run[r].call \in Calls
                                             /\ pc[run[r].call] \notin Unsaid
  BY DEF IInv, RunInv, TypeOK, RunRecord, Unsaid
<1>3. ASSUME NEW c \in Calls, pc'[c] \in {"sent", "waiting"}, status'[c] = "ready"
      PROVE  Kept(c)'
  BY <1>1, <1>3 DEF IInv, AnswerInv, Settled, Kept, HasCommand, HasReply, OpensNone
<1>4. ASSUME NEW r \in Runs, run[r].pc = "replied", status'[run[r].call] = "ready"
      PROVE  Replied(run[r].call)'
  BY <1>2, <1>4 DEF IInv, AnswerInv, Settled, Replied, HasReply, OpensNone
<1> QED
  BY <1>3, <1>4 DEF AnswerInv, Settled

\* A step of the server that leaves the broker what it has.
LEMMA AnswersKeptByServer ==
  ASSUME IInv, UNCHANGED <<clientVars>>, replies \subseteq replies',
         dropped \subseteq dropped', timedOut \subseteq timedOut',
         \A c \in Calls : HasCommand(c) => Kept(c)',
         \A r \in Runs : run'[r].pc = "replied" =>
           \/ run[r].pc = "replied" /\ run'[r].call = run[r].call
           \/ Replied(run[r].call)'
  PROVE  AnswerInv'
<1>1. \A c \in Calls : HasReply(c) => HasReply(c)'
  BY DEF HasReply
<1>2. ASSUME NEW c \in Calls, pc'[c] \in {"sent", "waiting"}, status'[c] = "ready"
      PROVE  Kept(c)'
  BY <1>1, <1>2 DEF IInv, AnswerInv, Settled, Kept, clientVars
<1>3. \A r \in Runs : run[r].pc = "replied" => run[r].call \in Calls
  BY DEF IInv, RunInv, TypeOK, RunRecord, Unsaid
<1>4. ASSUME NEW r \in Runs, run'[r].pc = "replied", status'[run'[r].call] = "ready"
      PROVE  Replied(run[r].call)'
  BY <1>1, <1>3, <1>4 DEF IInv, AnswerInv, Settled, Replied, clientVars
<1> QED
  BY <1>2, <1>4 DEF AnswerInv, Settled

-----------------------------------------------------------------------------
(* What the helpers of the client do *)

\* succeed() and fail().
LEMMA SettleAllIs ==
  ASSUME TypeOK, NEW S \in SUBSET Calls, NEW result \in Answers \cup {"timeout", "closed"},
         NEW where \in [Calls -> CallStates], SettleAll(S, result, where)
  PROVE  /\ pc' \in [Calls -> CallStates]
         /\ status' \in [Calls -> Statuses]
         /\ outcome' \in [Calls -> Outcomes]
         /\ \A c \in Calls :
              IF c \in S /\ status[c] = "ready" /\ pc[c] = "waiting"
              THEN pc'[c] = "done" /\ outcome'[c] = result /\ status'[c] = "none"
              ELSE /\ pc'[c] = where[c] /\ outcome'[c] = outcome[c]
                   /\ status'[c] = IF c \in S /\ status[c] = "ready" THEN result
                                   ELSE status[c]
  BY DEF SettleAll, TypeOK, CallStates, Statuses, Outcomes

\* They open no entry, and let go only those who wait.
LEMMA SettleAllCloses ==
  ASSUME TypeOK, NEW S \in SUBSET Calls, NEW result \in Answers \cup {"timeout", "closed"},
         NEW where \in [Calls -> CallStates], SettleAll(S, result, where)
  PROVE  /\ pc' \in [Calls -> CallStates]
         /\ status' \in [Calls -> Statuses]
         /\ outcome' \in [Calls -> Outcomes]
         /\ \A c \in Calls : pc'[c] = where[c] \/ (pc[c] = "waiting" /\ pc'[c] = "done")
         /\ OpensNone /\ \A c \in S : status'[c] # "ready"
<1>1. result # "ready"
  BY RpcAssumption
<1>2. /\ pc' \in [Calls -> CallStates]
      /\ status' \in [Calls -> Statuses]
      /\ outcome' \in [Calls -> Outcomes]
  BY SettleAllIs
<1>3. \A c \in Calls : pc'[c] = where[c] \/ (pc[c] = "waiting" /\ pc'[c] = "done")
  BY DEF SettleAll
<1>4. \A c \in Calls : status'[c] = "ready" => status[c] = "ready"
  BY <1>1 DEF SettleAll
<1>5. OpensNone
  BY <1>4 DEF OpensNone
<1>6. \A c \in S : status'[c] # "ready"
  BY <1>1 DEF SettleAll
<1> QED
  BY <1>2, <1>3, <1>5, <1>6

\* They keep the book of the calls.
LEMMA SettleKeeps ==
  ASSUME IInv, NEW S \in SUBSET Calls, NEW result \in Answers \cup {"timeout", "closed"},
         NEW where \in [Calls -> CallStates], where \in {pc, Unsent},
         SettleAll(S, result, where), UNCHANGED <<given, unroutable>>,
         isDisposed => isDisposed',
         result = "closed" => isDisposed',
         result \in Answers => \A c \in S : <<c, result>> \in given
  PROVE  CallInv'
<1> DEFINE settled(c) == c \in S /\ status[c] = "ready" /\ pc[c] = "waiting"
<1>1. TypeOK
  BY DEF IInv
<1>2. \A c \in Calls : settled(c) =>
        pc'[c] = "done" /\ outcome'[c] = result /\ status'[c] = "none"
  BY <1>1, SettleAllIs
<1>3. \A c \in Calls : ~settled(c) =>
        /\ pc'[c] = where[c] /\ outcome'[c] = outcome[c]
        /\ status'[c] = IF c \in S /\ status[c] = "ready" THEN result ELSE status[c]
  BY <1>1, SettleAllIs
<1>4. /\ result \notin {"idle", "pending", "none", "ready", "dismissed"}
      /\ "none" \notin Answers /\ "ready" \notin Answers
      /\ "timeout" \notin Answers /\ "closed" \notin Answers
  BY RpcAssumption
<1>5. \A c \in Calls : where[c] = pc[c] \/ (pc[c] = "sent" /\ where[c] = "sending")
  BY DEF Unsent
<1>6. ASSUME NEW c \in Calls, settled(c) PROVE Accounted(c)'
  BY <1>2, <1>4, <1>6 DEF Accounted
<1>7. ASSUME NEW c \in Calls, ~settled(c) PROVE Accounted(c)'
  <2>1. CASE c \in S /\ status[c] = "ready"
    BY <1>3, <1>4, <1>7, <1>5, <2>1 DEF IInv, CallInv, Accounted
  <2>2. CASE ~(c \in S /\ status[c] = "ready")
    BY <1>3, <1>4, <1>7, <1>5, <2>2 DEF IInv, CallInv, Accounted
  <2> QED
    BY <2>1, <2>2
<1> QED
  BY <1>6, <1>7 DEF CallInv

\* The promise of one call is rejected.
LEMMA RejectIs ==
  ASSUME IInv, NEW c \in Calls, NEW result \in {"closed", "sendError"}, Reject(c, result),
         UNCHANGED <<given, unroutable, isDisposed>>
  PROVE  /\ pc' = [pc EXCEPT ![c] = "done"]
         /\ pc' \in [Calls -> CallStates]
         /\ status' \in [Calls -> Statuses]
         /\ outcome' \in [Calls -> Outcomes]
         /\ CallInv' /\ OpensNone
  BY DEF Reject, IInv, TypeOK, CallInv, Accounted, CallStates, Outcomes, OpensNone

\* sendCommand() has been initialized: it is rejected or sends.
LEMMA AfterInitializeIs ==
  ASSUME IInv, NEW c \in Calls, pc[c] \in {"idle", "initializing"}, AfterInitialize(c),
         UNCHANGED <<given, unroutable, isDisposed>>
  PROVE  /\ \E s \in {"sending", "done"} : pc' = [pc EXCEPT ![c] = s]
         /\ pc' \in [Calls -> CallStates]
         /\ status' \in [Calls -> Statuses]
         /\ outcome' \in [Calls -> Outcomes]
         /\ CallInv' /\ OpensNone
<1>1. CASE isDisposed
  BY <1>1, RejectIs DEF AfterInitialize
<1>2. CASE ~isDisposed
  <2>1. /\ pc' = [pc EXCEPT ![c] = "sending"]
        /\ status' = [status EXCEPT ![c] = "ready"]
        /\ outcome' = [outcome EXCEPT ![c] = "pending"]
    BY <1>2 DEF AfterInitialize
  <2>2. pc' \in [Calls -> CallStates]
    BY <2>1 DEF IInv, TypeOK, CallStates, Statuses, Outcomes
  <2>3. status' \in [Calls -> Statuses]
    BY <2>1 DEF IInv, TypeOK, CallStates, Statuses, Outcomes
  <2>4. outcome' \in [Calls -> Outcomes]
    BY <2>1 DEF IInv, TypeOK, CallStates, Statuses, Outcomes
  <2>5. "ready" \notin Answers
    BY RpcAssumption
  <2>6. CallInv'
    BY <2>1, <2>5 DEF IInv, TypeOK, CallInv, Accounted
  <2>7. OpensNone
    BY <2>1 DEF IInv, TypeOK, OpensNone, Unsaid
  <2> QED
    BY <2>1, <2>2, <2>3, <2>4, <2>6, <2>7
<1> QED
  BY <1>1, <1>2

\* The call that waits for the initialization goes on.
LEMMA InitializerContinuesIs ==
  ASSUME IInv, InitializerContinues, UNCHANGED <<given, unroutable, isDisposed>>
  PROVE  /\ \A c \in Calls :
              pc'[c] = pc[c] \/ (pc[c] = "initializing" /\ pc'[c] \in {"sending", "done"})
         /\ pc' \in [Calls -> CallStates]
         /\ status' \in [Calls -> Statuses]
         /\ outcome' \in [Calls -> Outcomes]
         /\ CallInv' /\ OpensNone
<1>1. CASE \E c \in Calls : pc[c] = "initializing"
  <2>1. PICK c \in Calls : pc[c] = "initializing" /\ AfterInitialize(c)
    BY <1>1 DEF InitializerContinues
  <2> QED
    BY <2>1, AfterInitializeIs DEF IInv, TypeOK
<1>2. CASE ~ \E c \in Calls : pc[c] = "initializing"
  BY <1>2 DEF InitializerContinues, IInv, TypeOK, CallInv, Accounted, OpensNone
<1> QED
  BY <1>1, <1>2

-----------------------------------------------------------------------------
(* Each action of the client preserves the invariant *)

\* executeRemoteCommand() is called.
LEMMA CallStep == ASSUME IInv, NEW c \in Calls, Call(c) PROVE IInv'
<1>1. CASE ~isDisposed /\ ~isInitialized
  <2>1. /\ pc' = [pc EXCEPT ![c] = "initializing"] /\ pc[c] = "idle"
        /\ outcome' = [outcome EXCEPT ![c] = "pending"]
        /\ isInitialized' = TRUE /\ consuming' = "assert"
        /\ UNCHANGED <<status, early>>
    BY <1>1 DEF Call
  <2>2. TypeOK'
    BY <2>1
    DEF Call, IInv, TypeOK, CallStates, Outcomes, brokerVars, serverVars
  <2>3. CallInv'
    BY <2>1 DEF Call, IInv, TypeOK, CallInv, Accounted
  <2>4. RunInv' /\ LockInv'
    BY <2>1, RunsKept, LocksKept DEF Call, IInv, TypeOK, brokerVars, serverVars, Unsaid
  <2>5. QueueInv'
    <3>1. \A d \in Calls : Underway(d)' => Underway(d)
      BY <2>1, UnderwayBefore DEF Call, IInv, TypeOK, brokerVars, serverVars
    <3> QED
      BY <2>1, <3>1, QueueKept DEF Call, brokerVars
  <2>6. AnswerInv'
    <3>1. OpensNone
      BY <2>1 DEF OpensNone
    <3> QED
      BY <2>1, <3>1, AnswersKept DEF Call, IInv, TypeOK, brokerVars, serverVars
  <2> QED
    BY <2>2, <2>3, <2>4, <2>5, <2>6 DEF IInv
<1>2. CASE isDisposed \/ isInitialized
  <2>1. /\ AfterInitialize(c) /\ pc[c] = "idle"
        /\ early' = IF replyQueue THEN early ELSE early \cup {c}
        /\ UNCHANGED <<isInitialized, consuming, given, unroutable, isDisposed>>
    BY <1>2 DEF Call
  <2>2. /\ \E s \in {"sending", "done"} : pc' = [pc EXCEPT ![c] = s]
        /\ pc' \in [Calls -> CallStates]
        /\ status' \in [Calls -> Statuses]
        /\ outcome' \in [Calls -> Outcomes]
        /\ CallInv' /\ OpensNone
    BY <2>1, AfterInitializeIs
  <2>3. TypeOK'
    BY <2>1, <2>2 DEF Call, IInv, TypeOK, brokerVars, serverVars
  <2>4. RunInv' /\ LockInv'
    BY <2>2, RunsKept, LocksKept DEF Call, IInv, TypeOK, brokerVars, serverVars, Unsaid
  <2>5. QueueInv'
    <3>1. \A d \in Calls \ {c} : Underway(d)' => Underway(d)
      BY <2>2, UnderwayBefore DEF Call, IInv, TypeOK, brokerVars, serverVars
    <3>2. replyQueue' \/ c \in early'
      BY <2>1 DEF Call, brokerVars
    <3> QED
      BY <2>1, <3>1, <3>2, QueueKept DEF Call, brokerVars
  <2>6. AnswerInv'
    BY <2>2, AnswersKept DEF Call, IInv, TypeOK, brokerVars, serverVars
  <2> QED
    BY <2>2, <2>3, <2>4, <2>5, <2>6 DEF IInv
<1> QED
  BY <1>1, <1>2

\* assertQueue() for the reply queue is answered.
LEMMA ReplyQueueAssertedStep == ASSUME IInv, ReplyQueueAsserted PROVE IInv'
<1>1. /\ \A c \in Calls :
           pc'[c] = pc[c] \/ (pc[c] = "initializing" /\ pc'[c] \in {"sending", "done"})
      /\ pc' \in [Calls -> CallStates]
      /\ status' \in [Calls -> Statuses]
      /\ outcome' \in [Calls -> Outcomes]
      /\ CallInv' /\ OpensNone
  <2>1. CASE isDisposed
    BY <2>1, InitializerContinuesIs DEF ReplyQueueAsserted, history
  <2>2. CASE ~isDisposed
    BY <2>2 DEF ReplyQueueAsserted, IInv, TypeOK, CallInv, Accounted, OpensNone, history
  <2> QED
    BY <2>1, <2>2
<1>2. TypeOK'
  BY <1>1 DEF ReplyQueueAsserted, IInv, TypeOK, serverVars, history
<1>3. RunInv' /\ LockInv' /\ AnswerInv'
  BY <1>1, RunsKept, LocksKept, AnswersKept
  DEF ReplyQueueAsserted, serverVars, history, Unsaid
<1>4. QueueInv'
  BY QueueKept DEF ReplyQueueAsserted, history
<1> QED
  BY <1>1, <1>2, <1>3, <1>4 DEF IInv

\* consumeQueue() is answered.
LEMMA ReplyQueueConsumedStep == ASSUME IInv, ReplyQueueConsumed PROVE IInv'
<1>1. /\ \A c \in Calls :
           pc'[c] = pc[c] \/ (pc[c] = "initializing" /\ pc'[c] \in {"sending", "done"})
      /\ pc' \in [Calls -> CallStates]
      /\ status' \in [Calls -> Statuses]
      /\ outcome' \in [Calls -> Outcomes]
      /\ CallInv' /\ OpensNone
  BY InitializerContinuesIs DEF ReplyQueueConsumed, history
<1>2. TypeOK'
  BY <1>1 DEF ReplyQueueConsumed, IInv, TypeOK, serverVars, history
<1>3. RunInv' /\ LockInv' /\ AnswerInv'
  BY <1>1, RunsKept, LocksKept, AnswersKept
  DEF ReplyQueueConsumed, serverVars, history, Unsaid
<1>4. QueueInv'
  BY QueueKept DEF ReplyQueueConsumed, history
<1> QED
  BY <1>1, <1>2, <1>3, <1>4 DEF IInv

\* consume() rejects, and with it the call that waits for it.
LEMMA ConsumeFailsStep == ASSUME IInv, ConsumeFails PROVE IInv'
<1>1. /\ \A c \in Calls : pc'[c] = pc[c] \/ (pc[c] # "idle" /\ pc'[c] = "done")
      /\ pc' \in [Calls -> CallStates]
      /\ status' \in [Calls -> Statuses]
      /\ outcome' \in [Calls -> Outcomes]
      /\ CallInv' /\ OpensNone
  <2>1. CASE \E c \in Calls : pc[c] = "initializing"
    <3>1. PICK c \in Calls : pc[c] = "initializing" /\ Reject(c, "sendError")
      BY <2>1 DEF ConsumeFails
    <3> QED
      BY <3>1, RejectIs DEF ConsumeFails, IInv, TypeOK, history
  <2>2. CASE ~ \E c \in Calls : pc[c] = "initializing"
    BY <2>2 DEF ConsumeFails, IInv, TypeOK, CallInv, Accounted, OpensNone, history
  <2> QED
    BY <2>1, <2>2
<1>2. TypeOK'
  <2>1. late' \subseteq {"assert", "consume"} /\ consuming' = "no"
    BY DEF ConsumeFails, IInv, TypeOK
  <2> QED
    BY <1>1, <2>1 DEF ConsumeFails, IInv, TypeOK, brokerVars, serverVars, history
<1>3. RunInv' /\ LockInv' /\ AnswerInv'
  BY <1>1, RunsKept, LocksKept, AnswersKept
  DEF ConsumeFails, brokerVars, serverVars, history, Unsaid
<1>4. QueueInv'
  <2>1. \A c \in Calls : Underway(c)' => Underway(c)
    BY <1>1, UnderwayBefore DEF ConsumeFails, brokerVars, serverVars
  <2> QED
    BY <2>1, QueueKept DEF ConsumeFails, brokerVars, history
<1> QED
  BY <1>1, <1>2, <1>3, <1>4 DEF IInv

\* A command of consume() is carried out after it has timed out.
LEMMA LateConsumeStep == ASSUME IInv, LateConsume PROVE IInv'
<1>1. /\ late' \subseteq {"assert", "consume"}
      /\ replyQueue' \in BOOLEAN /\ consumed' \in BOOLEAN
  BY DEF LateConsume, IInv, TypeOK
<1>2. TypeOK' /\ CallInv'
  BY <1>1 DEF LateConsume, IInv, TypeOK, CallInv, Accounted, serverVars, history
<1>3. RunInv' /\ LockInv' /\ AnswerInv'
  BY RunsKept, LocksKept, AnswersKept DEF LateConsume, serverVars, history, OpensNone
<1>4. QueueInv'
  <2>1. \A c \in Calls : Underway(c)' => Underway(c)
    BY UnderwayBefore DEF LateConsume, serverVars
  <2> QED
    BY <2>1, QueueKept DEF LateConsume, history
<1> QED
  BY <1>2, <1>3, <1>4 DEF IInv

\* The command reaches the broker, or comes back from it.
LEMMA SendReachesStep == ASSUME IInv, NEW c \in Calls, SendReaches(c) PROVE IInv'
<1>1. /\ pc[c] \in {"sending", "abandoned"}
      /\ pc' = [pc EXCEPT ![c] = IF @ = "sending" THEN "sent" ELSE "done"]
  BY DEF SendReaches
<1>2. /\ pc' \in [Calls -> CallStates]
      /\ \A d \in Calls \ {c} : pc'[d] = pc[d]
      /\ pc'[c] = IF pc[c] = "sending" THEN "sent" ELSE "done"
      /\ \A d \in Calls : pc[d] \notin Unsaid => pc'[d] \notin Unsaid
  BY <1>1 DEF IInv, TypeOK, CallStates, Unsaid
<1>3. CASE queue
  <2>1. PICK i \in Copies : copy' = [copy EXCEPT ![c][i] = "ready"]
    BY <1>3 DEF SendReaches, AnyOf
  <2>2. TypeOK'
    BY <1>2, <1>3, <2>1 DEF SendReaches, IInv, TypeOK, serverVars
  <2>3. CallInv'
    BY <1>1, <1>2, <1>3 DEF SendReaches, IInv, CallInv, Accounted
  <2>4. RunInv' /\ LockInv'
    <3>1. \A d \in Calls : \A j \in Copies :
            copy'[d][j] # "none" => copy[d][j] # "none" \/ d = c
      BY <2>1 DEF IInv, TypeOK
    <3>2. \A r \in Runs : run[r].pc # "free" => run[r].call \in Calls
      BY DEF IInv, TypeOK, RunInv, RunRecord
    <3>3. pc'[c] \notin Unsaid
      BY <1>1, <1>2 DEF Unsaid
    <3> QED
      BY <1>2, <3>1, <3>2, <3>3, LocksKept DEF SendReaches, IInv, RunInv, serverVars
  <2>5. QueueInv'
    <3>1. Underway(c)
      BY <1>1 DEF Underway
    <3>2. \A d \in Calls \ {c} : Underway(d)' => Underway(d)
      BY <1>2, <2>1 DEF SendReaches, IInv, TypeOK, Underway, serverVars
    <3> QED
      BY <3>1, <3>2, QueueKept DEF SendReaches, IInv, QueueInv
  <2>6. AnswerInv'
    <3>1. HasCommand(c)' /\ \A d \in Calls : HasCommand(d) => HasCommand(d)'
      BY <2>1 DEF IInv, TypeOK, HasCommand
    <3>2. UNCHANGED <<status, replies, dropped, timedOut, run>>
      BY <1>3 DEF SendReaches, serverVars
    <3>3. \A d \in Calls : pc'[d] \in {"sent", "waiting"} =>
            Settled(d)' \/ Kept(d)'
      BY <1>2, <3>1, <3>2 DEF IInv, AnswerInv, Settled, Kept, HasReply
    <3> QED
      BY <3>2, <3>3 DEF IInv, AnswerInv, Settled, Replied, HasReply
  <2> QED
    BY <2>2, <2>3, <2>4, <2>5, <2>6 DEF IInv
<1>4. CASE ~queue
  <2>1. /\ status' = [status EXCEPT ![c] = IF @ = "ready" THEN "dismissed" ELSE @]
        /\ unroutable' = unroutable \cup {c}
        /\ UNCHANGED copy
    BY <1>4 DEF SendReaches
  <2>2. "dismissed" \notin Answers
    BY RpcAssumption
  <2>3. TypeOK'
    BY <1>2, <2>1 DEF SendReaches, IInv, TypeOK, Statuses, serverVars
  <2>4. CallInv'
    <3>1. /\ \A d \in Calls \ {c} : status'[d] = status[d]
          /\ status'[c] = IF status[c] = "ready" THEN "dismissed" ELSE status[c]
          /\ UNCHANGED <<outcome, given, isDisposed>>
      BY <2>1 DEF SendReaches, IInv, TypeOK
    <3>2. Accounted(c)'
      <4>1. Accounted(c) /\ c \in unroutable'
        BY <2>1 DEF IInv, CallInv
      <4>2. CASE status[c] = "ready"
        BY <1>1, <1>2, <2>2, <3>1, <4>1, <4>2 DEF Accounted
      <4>3. CASE status[c] # "ready"
        BY <1>1, <1>2, <2>2, <3>1, <4>1, <4>3 DEF Accounted
      <4> QED
        BY <4>2, <4>3
    <3>3. \A d \in Calls \ {c} : Accounted(d)'
      BY <1>2, <2>1, <3>1 DEF IInv, CallInv, Accounted
    <3> QED
      BY <3>2, <3>3 DEF CallInv
  <2>5. RunInv' /\ LockInv'
    BY <1>2, <2>1, RunsKept, LocksKept DEF SendReaches, serverVars
  <2>6. QueueInv'
    <3>1. \A d \in Calls : Underway(d)' => Underway(d)
      BY <1>1, <1>2, <2>1, UnderwayBefore DEF SendReaches, serverVars
    <3> QED
      BY <3>1, QueueKept DEF SendReaches
  <2>7. AnswerInv'
    <3>1. /\ \A d \in Calls \ {c} : status'[d] = status[d]
          /\ status'[c] # "ready"
      BY <2>1 DEF IInv, TypeOK
    <3>2. UNCHANGED <<copy, replies, dropped, timedOut, run>>
      BY <2>1 DEF SendReaches, serverVars
    <3>3. \A d \in Calls : pc'[d] \in {"sent", "waiting"} => Settled(d)' \/ Kept(d)'
      BY <1>2, <3>1, <3>2 DEF IInv, AnswerInv, Settled, Kept, HasReply, HasCommand
    <3>4. \A r \in Runs : run[r].pc = "replied" => run[r].call \in Calls
      BY DEF IInv, TypeOK, RunInv, RunRecord
    <3> QED
      BY <3>1, <3>2, <3>3, <3>4 DEF IInv, AnswerInv, Settled, Replied, HasReply
  <2> QED
    BY <2>3, <2>4, <2>5, <2>6, <2>7 DEF IInv
<1> QED
  BY <1>3, <1>4

\* sendToQueue() resolves.
LEMMA SendConfirmedStep == ASSUME IInv, NEW c \in Calls, SendConfirmed(c) PROVE IInv'
<1>1. /\ \E s \in {"waiting", "done"} : pc' = [pc EXCEPT ![c] = s]
      /\ pc[c] = "sent"
      /\ status' \in [Calls -> Statuses]
      /\ outcome' \in [Calls -> Outcomes]
      /\ CallInv' /\ OpensNone
  <2>1. CASE isDisposed /\ Reject(c, "closed")
    BY <2>1, RejectIs DEF SendConfirmed, history
  <2>2. CASE /\ status[c] = "ready"
             /\ pc' = [pc EXCEPT ![c] = "waiting"]
             /\ UNCHANGED <<status, outcome>>
    BY <2>2 DEF SendConfirmed, IInv, TypeOK, CallInv, Accounted, OpensNone, history
  <2>3. CASE /\ status[c] # "ready"
             /\ pc' = [pc EXCEPT ![c] = "done"]
             /\ outcome' = [outcome EXCEPT ![c] = status[c]]
             /\ status' = [status EXCEPT ![c] = "none"]
    <3>1. status[c] \in Outcomes \ {"idle", "pending"} /\ "none" \notin Answers
      BY <2>3, RpcAssumption
      DEF SendConfirmed, IInv, TypeOK, CallInv, Accounted, Statuses, Outcomes
    <3>2. status' \in [Calls -> Statuses] /\ outcome' \in [Calls -> Outcomes]
      BY <2>3, <3>1 DEF IInv, TypeOK, Statuses
    <3>3. CallInv' /\ OpensNone
      BY <2>3, <3>1 DEF SendConfirmed, IInv, TypeOK, CallInv, Accounted, OpensNone, history
    <3> QED
      BY <2>3, <3>2, <3>3 DEF SendConfirmed
  <2> QED
    BY <2>1, <2>2, <2>3 DEF SendConfirmed
<1>2. UNCHANGED <<isInitialized, isDisposed, consuming, late, clientUp, clientLosses,
                  brokerVars, serverVars, history>>
  BY DEF SendConfirmed
<1>3. TypeOK'
  <2>1. pc' \in [Calls -> CallStates]
    BY <1>1 DEF IInv, TypeOK, CallStates
  <2> QED
    BY <1>1, <1>2, <2>1 DEF IInv, TypeOK, brokerVars, serverVars, history
<1>4. RunInv' /\ LockInv' /\ AnswerInv'
  BY <1>1, <1>2, RunsKept, LocksKept, AnswersKept
  DEF IInv, TypeOK, brokerVars, serverVars, history, Unsaid
<1>5. QueueInv'
  <2>1. \A d \in Calls : Underway(d)' => Underway(d)
    BY <1>1, <1>2, UnderwayBefore DEF IInv, TypeOK, brokerVars, serverVars
  <2> QED
    BY <1>2, <2>1, QueueKept DEF brokerVars, history
<1> QED
  BY <1>1, <1>3, <1>4, <1>5 DEF IInv

\* sendToQueue() rejects; the command may reach the broker all the same.
LEMMA SendFailsStep == ASSUME IInv, NEW c \in Calls, SendFails(c) PROVE IInv'
<1>1. /\ \E s \in {"done", "abandoned"} : pc' = [pc EXCEPT ![c] = s]
      /\ pc[c] \in {"sending", "sent"}
      /\ outcome' = [outcome EXCEPT ![c] = "sendError"] /\ status' = status
  BY DEF SendFails
<1>2. UNCHANGED <<isInitialized, isDisposed, consuming, late, clientUp, clientLosses,
                  brokerVars, serverVars, history>>
  BY DEF SendFails
<1>3. pc' \in [Calls -> CallStates] /\ outcome' \in [Calls -> Outcomes] /\ OpensNone
  BY <1>1 DEF IInv, TypeOK, CallStates, Outcomes, OpensNone
<1>4. TypeOK'
  BY <1>1, <1>2, <1>3 DEF IInv, TypeOK, brokerVars, serverVars, history
<1>5. CallInv'
  BY <1>1, <1>2 DEF IInv, TypeOK, CallInv, Accounted, history
<1>6. RunInv' /\ LockInv' /\ AnswerInv'
  BY <1>1, <1>2, <1>3, RunsKept, LocksKept, AnswersKept
  DEF IInv, TypeOK, brokerVars, serverVars, history, Unsaid
<1>7. QueueInv'
  <2>1. \A d \in Calls : Underway(d)' => Underway(d)
    BY <1>1, <1>2, UnderwayBefore DEF IInv, TypeOK, brokerVars, serverVars
  <2> QED
    BY <1>2, <2>1, QueueKept DEF brokerVars, history
<1> QED
  BY <1>4, <1>5, <1>6, <1>7 DEF IInv

\* A message that nobody has taken expires, once its call is settled.
LEMMA CommandExpiresStep ==
  ASSUME IInv, NEW c \in Calls, NEW i \in Copies, CommandExpires(c, i) PROVE IInv'
<1>1. /\ copy[c][i] = "ready" /\ copy' = [copy EXCEPT ![c][i] = "gone"]
      /\ ~(pc[c] \in {"sending", "sent", "waiting"} /\ status[c] = "ready")
      /\ UNCHANGED <<clientVars, queue, replyQueue, consumed, replies, serverVars, history>>
  BY DEF CommandExpires
<1>2. /\ copy' \in [Calls -> [Copies -> {"none", "ready", "unacked", "gone"}]]
      /\ \A d \in Calls : \A j \in Copies : copy'[d][j] # "none" => copy[d][j] # "none"
      /\ \A d \in Calls \ {c} : copy'[d] = copy[d]
  BY <1>1 DEF IInv, TypeOK
<1>3. TypeOK' /\ CallInv'
  BY <1>1, <1>2, CallsKept DEF IInv, TypeOK, clientVars, serverVars, history
<1>4. RunInv' /\ LockInv'
  BY <1>1, <1>2, LocksKept DEF IInv, RunInv, clientVars, serverVars, history
<1>5. QueueInv'
  <2>1. \A d \in Calls : Underway(d)' => Underway(d)
    BY <1>1, <1>2 DEF Underway, clientVars, serverVars
  <2> QED
    BY <1>1, <2>1, QueueKept DEF history
<1>6. AnswerInv'
  <2>1. \A d \in Calls : pc[d] \in {"sent", "waiting"} => Settled(d)' \/ Kept(d)'
    <3>1. ASSUME pc[c] \in {"sent", "waiting"} PROVE Settled(c)'
      BY <1>1, <3>1 DEF Settled, clientVars
    <3>2. ASSUME NEW d \in Calls \ {c}, pc[d] \in {"sent", "waiting"}
          PROVE  Settled(d)' \/ Kept(d)'
      BY <1>1, <1>2, <3>2
      DEF IInv, AnswerInv, Settled, Kept, HasCommand, HasReply, clientVars, history
    <3> QED
      BY <3>1, <3>2
  <2> QED
    BY <1>1, <2>1
    DEF IInv, AnswerInv, Settled, Replied, HasReply, clientVars, serverVars, history
<1> QED
  BY <1>3, <1>4, <1>5, <1>6 DEF IInv

\* The timer settles the call, if nothing else has.
LEMMA TimerFiresStep == ASSUME IInv, NEW c \in Calls, TimerFires(c) PROVE IInv'
<1>1. /\ SettleAll({c}, "timeout", pc)
      /\ {c} \in SUBSET Calls /\ pc \in [Calls -> CallStates]
      /\ "timeout" \in Answers \cup {"timeout", "closed"} /\ "timeout" \notin Answers
      /\ UNCHANGED <<given, unroutable, isDisposed>> /\ TypeOK
  BY RpcAssumption DEF TimerFires, SettleOne, history, IInv, TypeOK
<1>2. CallInv'
  BY <1>1, SettleKeeps
<1>3. /\ pc' \in [Calls -> CallStates]
      /\ status' \in [Calls -> Statuses]
      /\ outcome' \in [Calls -> Outcomes]
      /\ \A d \in Calls : pc'[d] = pc[d] \/ (pc[d] = "waiting" /\ pc'[d] = "done")
      /\ OpensNone
  BY <1>1, SettleAllCloses
<1>4. TypeOK'
  BY <1>3 DEF TimerFires, IInv, TypeOK, brokerVars, serverVars, history
<1>5. RunInv' /\ LockInv' /\ AnswerInv'
  BY <1>3, RunsKept, LocksKept, AnswersKept
  DEF TimerFires, brokerVars, serverVars, history, Unsaid
<1>6. QueueInv'
  <2>1. \A d \in Calls : Underway(d)' => Underway(d)
    BY <1>3, UnderwayBefore DEF TimerFires, brokerVars, serverVars
  <2> QED
    BY <2>1, QueueKept DEF TimerFires, brokerVars, history
<1> QED
  BY <1>2, <1>4, <1>5, <1>6 DEF IInv

\* A reply settles the call that it names, with what the handler gave to that call.
LEMMA ReplyDeliveredStep ==
  ASSUME IInv, NEW c \in Calls, NEW a \in Answers, ReplyDelivered(c, a) PROVE IInv'
<1>1. /\ {c} \in SUBSET Calls /\ a \in Answers \cup {"timeout", "closed"}
      /\ a # "closed" /\ <<c, a>> \in given
      /\ UNCHANGED <<given, unroutable, isDisposed>> /\ TypeOK
      /\ pc \in [Calls -> CallStates] /\ Unsent \in [Calls -> CallStates]
  BY RpcAssumption
  DEF ReplyDelivered, history, IInv, TypeOK, RunInv, Unsent, CallStates
<1>2. PICK where \in {pc, Unsent} : SettleAll({c}, a, where)
  BY DEF ReplyDelivered, SettleOne
<1>3. \A d \in Calls :
        where[d] = pc[d] \/ (pc[d] = "sent" /\ where[d] = "sending")
  BY <1>2 DEF Unsent
<1>4. CallInv'
  BY <1>1, <1>2, SettleKeeps
<1>5. /\ pc' \in [Calls -> CallStates]
      /\ status' \in [Calls -> Statuses]
      /\ outcome' \in [Calls -> Outcomes]
      /\ \A d \in Calls : pc'[d] = where[d] \/ (pc[d] = "waiting" /\ pc'[d] = "done")
      /\ OpensNone /\ status'[c] # "ready"
  BY <1>1, <1>2, SettleAllCloses
<1>6. /\ replies' \subseteq replies /\ replies \ {<<c, a>>} \subseteq replies'
      /\ clientLosses' \in Nat /\ consumed' \in BOOLEAN /\ clientUp' \in BOOLEAN
  <2>1. CASE /\ replies' = replies \ {<<c, a>>}
             /\ UNCHANGED <<consumed, clientUp, clientLosses>>
    <3>1. replies' \subseteq replies /\ replies \ {<<c, a>>} \subseteq replies'
      BY <2>1
    <3>2. clientLosses' \in Nat /\ consumed' \in BOOLEAN /\ clientUp' \in BOOLEAN
      BY <1>1, <2>1 DEF TypeOK
    <3> QED
      BY <3>1, <3>2
  <2>2. CASE /\ clientLosses' = clientLosses + 1 /\ clientUp' = FALSE /\ consumed' = FALSE
             /\ UNCHANGED replies
    <3>1. clientLosses' \in Nat
      BY <1>1, <2>2 DEF TypeOK
    <3>2. replies' \subseteq replies /\ replies \ {<<c, a>>} \subseteq replies'
      BY <2>2
    <3> QED
      BY <2>2, <3>1, <3>2
  <2> QED
    BY <2>1, <2>2 DEF ReplyDelivered
<1>7. TypeOK'
  BY <1>5, <1>6 DEF ReplyDelivered, IInv, TypeOK, serverVars, history
<1>8. RunInv' /\ LockInv'
  BY <1>3, <1>5, <1>6, RunsKept, LocksKept
  DEF ReplyDelivered, serverVars, history, Unsaid
<1>9. AnswerInv'
  <2>1. \A d \in Calls : pc'[d] \in {"sent", "waiting"} => pc[d] \in {"sent", "waiting"}
    BY <1>3, <1>5
  <2>2. \A d \in Calls : \A b \in Answers :
          <<d, b>> \in replies => <<d, b>> \in replies' \/ status'[d] # "ready"
    BY <1>5, <1>6
  <2> QED
    BY <1>5, <2>1, <2>2, AnswersKept DEF ReplyDelivered, serverVars, history
<1>10. QueueInv'
  <2>1. \A d \in Calls : Underway(d)' => Underway(d)
    BY <1>3, <1>5, UnderwayBefore DEF ReplyDelivered, serverVars
  <2> QED
    BY <2>1, QueueKept DEF ReplyDelivered, history
<1> QED
  BY <1>4, <1>7, <1>8, <1>9, <1>10 DEF IInv

\* The client's channel is lost.
LEMMA ClientLostStep == ASSUME IInv, ClientLost PROVE IInv'
<1>1. clientLosses' \in Nat
  BY DEF ClientLost, IInv, TypeOK
<1>2. /\ pc' \in [Calls -> CallStates]
      /\ \A c \in Calls : pc'[c] = IF pc[c] = "sent" THEN "sending" ELSE pc[c]
      /\ OpensNone
  BY DEF ClientLost, Unsent, IInv, TypeOK, CallStates, OpensNone
<1>3. TypeOK'
  <2>1. /\ clientUp' \in BOOLEAN /\ consumed' \in BOOLEAN
        /\ UNCHANGED <<status, outcome, isInitialized, isDisposed, consuming, late, queue,
                       copy, replyQueue, replies, serverVars, history>>
    BY DEF ClientLost
  <2> QED
    BY <1>1, <1>2, <2>1 DEF IInv, TypeOK, serverVars, history
<1>4. CallInv'
  BY <1>2 DEF ClientLost, IInv, CallInv, Accounted, history
<1>5. RunInv' /\ LockInv' /\ AnswerInv'
  BY <1>2, RunsKept, LocksKept, AnswersKept
  DEF ClientLost, serverVars, history, Unsaid
<1>6. QueueInv'
  <2>1. \A d \in Calls : Underway(d)' => Underway(d)
    BY <1>2, UnderwayBefore DEF ClientLost, serverVars
  <2> QED
    BY <2>1, QueueKept DEF ClientLost, history
<1> QED
  BY <1>3, <1>4, <1>5, <1>6 DEF IInv

\* The client has a channel again.
LEMMA ClientBackStep == ASSUME IInv, ClientBack PROVE IInv'
<1>1. TypeOK' /\ CallInv' /\ OpensNone
  BY DEF ClientBack, IInv, TypeOK, CallInv, Accounted, OpensNone, brokerVars, serverVars,
         history
<1>2. RunInv' /\ LockInv' /\ AnswerInv'
  BY <1>1, RunsKept, LocksKept, AnswersKept DEF ClientBack, brokerVars, serverVars, history
<1>3. QueueInv'
  <2>1. \A d \in Calls : Underway(d)' => Underway(d)
    BY DEF ClientBack, brokerVars, serverVars, Underway
  <2> QED
    BY <2>1, QueueKept DEF ClientBack, brokerVars, history
<1> QED
  BY <1>1, <1>2, <1>3 DEF IInv

\* The reply queue expires, with the replies in it.
LEMMA ReplyQueueExpiresStep == ASSUME IInv, ReplyQueueExpires PROVE IInv'
<1>1. /\ replies' = {} /\ expired' = TRUE
      /\ dropped' = dropped \cup {c \in Calls : HasReply(c)}
      /\ UNCHANGED <<clientVars, queue, copy, consumed, serverVars, given, unroutable,
                     early, timedOut, unanswered>>
  BY DEF ReplyQueueExpires, HasReply
<1>2. TypeOK' /\ CallInv'
  <2>1. /\ replyQueue' \in BOOLEAN /\ expired' \in BOOLEAN /\ dropped' \subseteq Calls
        /\ replies' \subseteq Calls \X Answers
    BY <1>1 DEF ReplyQueueExpires, IInv, TypeOK
  <2>2. UNCHANGED <<pc, status, outcome, isInitialized, isDisposed, consuming, late,
                    clientUp, clientLosses, queue, copy, consumed, state, channel,
                    serverLosses, lock, run, given, unroutable, early, timedOut,
                    unanswered>>
    BY <1>1 DEF clientVars, serverVars
  <2>3. TypeOK'
    BY <2>1, <2>2 DEF IInv, TypeOK
  <2> QED
    BY <1>1, <2>3, CallsKept
<1>3. RunInv' /\ LockInv'
  BY <1>1, RunsKept, LocksKept DEF clientVars, serverVars
<1>4. QueueInv'
  BY <1>1 DEF QueueInv, DroppedOnlyIfEarly
<1>5. AnswerInv'
  <2>1. \A r \in Runs : run[r].pc = "replied" => run[r].call \in Calls
    BY DEF IInv, TypeOK, RunInv, RunRecord
  <2>2. \A c \in Calls : HasReply(c) \/ c \in dropped => c \in dropped'
    BY <1>1
  <2>3. \A c \in Calls : HasCommand(c) => HasCommand(c)'
    BY <1>1 DEF HasCommand
  <2>4. \A c \in Calls : Kept(c) => Kept(c)'
    BY <1>1, <2>2, <2>3 DEF Kept
  <2>5. \A c \in Calls : Replied(c) => Replied(c)'
    BY <2>2 DEF Replied
  <2> QED
    BY <1>1, <2>1, <2>4, <2>5 DEF IInv, AnswerInv, Settled, clientVars, serverVars
<1> QED
  BY <1>2, <1>3, <1>4, <1>5 DEF IInv

\* The client is disposed of.
LEMMA ClientDisposeStep == ASSUME IInv, ClientDispose PROVE IInv'
<1>1. /\ SettleAll(Calls, "closed", pc)
      /\ Calls \in SUBSET Calls /\ pc \in [Calls -> CallStates]
      /\ "closed" \in Answers \cup {"timeout", "closed"} /\ "closed" \notin Answers
      /\ isDisposed' = TRUE /\ UNCHANGED <<given, unroutable>> /\ TypeOK
  BY RpcAssumption DEF ClientDispose, history, IInv, TypeOK
<1>2. CallInv'
  BY <1>1, SettleKeeps
<1>3. /\ pc' \in [Calls -> CallStates]
      /\ status' \in [Calls -> Statuses]
      /\ outcome' \in [Calls -> Outcomes]
      /\ \A d \in Calls : pc'[d] = pc[d] \/ (pc[d] = "waiting" /\ pc'[d] = "done")
      /\ OpensNone
  BY <1>1, SettleAllCloses
<1>4. TypeOK'
  <2>1. /\ isDisposed' \in BOOLEAN /\ consumed' \in BOOLEAN
        /\ UNCHANGED <<isInitialized, consuming, late, clientUp, clientLosses, queue, copy,
                       replyQueue, replies, serverVars, history>>
    BY DEF ClientDispose
  <2> QED
    BY <1>1, <1>3, <2>1 DEF TypeOK, serverVars, history
<1>5. RunInv' /\ LockInv' /\ AnswerInv'
  BY <1>3, RunsKept, LocksKept, AnswersKept DEF ClientDispose, serverVars, history, Unsaid
<1>6. QueueInv'
  <2>1. \A d \in Calls : Underway(d)' => Underway(d)
    BY <1>3, UnderwayBefore DEF ClientDispose, serverVars
  <2> QED
    BY <2>1, QueueKept DEF ClientDispose, history
<1> QED
  BY <1>2, <1>4, <1>5, <1>6 DEF IInv

-----------------------------------------------------------------------------
(* What the server's helpers do *)

\* A run that is not free is of a call that was made.
LEMMA CallOfRun ==
  ASSUME IInv, NEW r \in Runs, run[r].pc # "free"
  PROVE  run[r] \in RunRecord /\ run[r].call \in Calls /\ run[r].call # "none"
  BY DEF IInv, TypeOK, RunInv, RunRecord

\* One that is under way has a call.
LEMMA LiveIs ==
  ASSUME NEW r \in Runs, Live(r) PROVE run[r].pc # "free" /\ run[r].pc # "abandoned"
  BY DEF Live

\* A run is over or not begun.
LEMMA NoRunIs == NoRun \in RunRecord /\ NoRun.pc = "free" /\ NoRun.call = "none"
  BY DEF NoRun, RunRecord

\* The end of handleCommandMessage().
LEMMA CompleteIs ==
  ASSUME IInv, NEW r \in Runs, run[r].pc # "free", Complete(r)
  PROVE  /\ run' \in [Runs -> RunRecord]
         /\ copy' \in [Calls -> [Copies -> {"none", "ready", "unacked", "gone"}]]
         /\ lock' \in [Calls -> Copies \cup {0}]
         /\ channel' \in {"up", "doomed", "down"}
         /\ serverLosses' \in Nat
         /\ serverLosses' = 0 => UNCHANGED <<serverLosses, channel>>
         /\ \A s \in Runs \ {r} : run'[s] = run[s]
         /\ \/ /\ run'[r] = NoRun
               /\ state # "disposed" => lock'[run[r].call] = 0
            \/ /\ run'[r].pc = "acking" /\ run'[r].call = run[r].call
               /\ lock' = lock
         /\ \A c \in Calls \ {run[r].call} : lock'[c] = lock[c] /\ copy'[c] = copy[c]
         /\ serverLosses' = 0 /\ lock' # lock => run'[r] = NoRun
<1> DEFINE c == run[r].call
           i == lock[c]
<1>1. /\ c \in Calls /\ i \in Copies \cup {0} /\ 0 \notin Copies
      /\ run \in [Runs -> RunRecord] /\ lock \in [Calls -> Copies \cup {0}]
      /\ copy \in [Calls -> [Copies -> {"none", "ready", "unacked", "gone"}]]
      /\ channel \in {"up", "doomed", "down"} /\ serverLosses \in Nat
  BY CallOfRun, RpcAssumption DEF IInv, TypeOK
<1>2. CASE state = "disposed" /\ run' = [run EXCEPT ![r] = NoRun]
           /\ UNCHANGED <<copy, lock, channel, serverLosses>>
  BY <1>1, <1>2, NoRunIs
<1>3. CASE run' = [run EXCEPT ![r].pc = "acking"]
           /\ UNCHANGED <<copy, lock, channel, serverLosses>>
  <2> DEFINE acking == [run[r] EXCEPT !.pc = "acking"]
  <2>1. acking \in RunRecord /\ acking.pc = "acking" /\ acking.call = c
    BY <1>1 DEF RunRecord
  <2>2. run' \in [Runs -> RunRecord] /\ run'[r] = acking
    BY <1>1, <1>3, <2>1
  <2>3. \A s \in Runs \ {r} : run'[s] = run[s]
    BY <1>1, <1>3
  <2> QED
    BY <1>1, <1>3, <2>1, <2>2, <2>3
<1>4. CASE /\ run' = [run EXCEPT ![r] = NoRun]
           /\ lock' = Unlocked(c)
           /\ copy' = IF i # 0 /\ channel = "up" THEN [copy EXCEPT ![c][i] = "gone"]
                      ELSE copy
           /\ UNCHANGED <<channel, serverLosses>>
  BY <1>1, <1>4, NoRunIs DEF Unlocked
<1>5. CASE /\ run' = [run EXCEPT ![r] = NoRun]
           /\ lock' = Unlocked(c)
           /\ channel' = "doomed"
           /\ serverLosses' = serverLosses + 1
           /\ UNCHANGED copy
  BY <1>1, <1>5, NoRunIs DEF Unlocked
<1> QED
  BY <1>2, <1>3, <1>4, <1>5 DEF Complete

-----------------------------------------------------------------------------
(* Each action of the server preserves the invariant *)

\* The end of handleCommandMessage() leaves its lock to nobody.
LEMMA CompleteKeeps ==
  ASSUME IInv, NEW r \in Runs, run[r].pc \in {"handling", "replied"}, Complete(r),
         timedOut' \subseteq Calls, timedOut \subseteq timedOut',
         \/ Settled(run[r].call) \/ Replied(run[r].call)
         \/ run[r].call \in timedOut',
         UNCHANGED <<clientVars, queue, replyQueue, consumed, replies, state, given,
                     unroutable, early, expired, dropped, unanswered>>
  PROVE  IInv'
<1> DEFINE c == run[r].call
<1>1. c \in Calls /\ c # "none" /\ pc[c] \notin Unsaid /\ Live(r)
  BY CallOfRun DEF IInv, RunInv, Live
<1>2. /\ run' \in [Runs -> RunRecord]
      /\ copy' \in [Calls -> [Copies -> {"none", "ready", "unacked", "gone"}]]
      /\ lock' \in [Calls -> Copies \cup {0}]
      /\ channel' \in {"up", "doomed", "down"} /\ serverLosses' \in Nat
  BY CompleteIs
<1>3. \A s \in Runs \ {r} : run'[s] = run[s]
  BY CompleteIs
<1>4. \/ /\ run'[r] = NoRun
         /\ state # "disposed" => lock'[c] = 0
      \/ run'[r].pc = "acking" /\ run'[r].call = c /\ lock' = lock
  BY CompleteIs
<1>5. \A d \in Calls \ {c} : lock'[d] = lock[d] /\ copy'[d] = copy[d]
  BY CompleteIs
<1>6. serverLosses' = 0 =>
        UNCHANGED <<serverLosses, channel>> /\ (lock' # lock => run'[r] = NoRun)
  BY CompleteIs
<1>7. TypeOK'
  BY <1>2 DEF IInv, TypeOK, clientVars
<1>8. CallInv'
  BY CallsKept
<1>9. RunInv'
  BY <1>1, <1>3, <1>4, <1>5, NoRunIs DEF IInv, RunInv, clientVars
<1>10. LockInv'
  <2>1. state # "ready"
    BY DEF IInv, LockInv, TypeOK
  <2>2. \A s \in Runs : Live(s)' => Live(s) /\ run'[s].call = run[s].call
    BY <1>1, <1>3, <1>4, NoRunIs DEF Live
  <2>3. serverLosses' = 0 =>
          channel' = "up" /\ \A s \in Runs : Live(s)' => lock'[run'[s].call] # 0
    <3>1. ASSUME serverLosses' = 0, NEW s \in Runs \ {r}, Live(s)'
          PROVE  lock'[run'[s].call] # 0
      <4>1. /\ Live(s) /\ run'[s].call = run[s].call
            /\ run[s].call \in Calls /\ serverLosses = 0
        BY <1>6, <2>2, <3>1, CallOfRun, LiveIs
      <4>2. run[s].call # c /\ lock[run[s].call] # 0
        BY <1>1, <4>1 DEF IInv, LockInv, OneRunPerCommand
      <4> QED
        BY <1>5, <4>1, <4>2
    <3>2. ASSUME serverLosses' = 0, Live(r)' PROVE lock'[run'[r].call] # 0
      BY <1>1, <1>4, <1>6, <3>2, NoRunIs DEF IInv, LockInv, Live
    <3> QED
      BY <1>6, <3>1, <3>2 DEF IInv, LockInv
  <2>4. OneRunPerCommand'
    BY <1>6, <2>2 DEF IInv, LockInv, OneRunPerCommand
  <2>5. LockHasOwner'
    <3> SUFFICES ASSUME NEW d \in Calls, lock'[d] # 0, state # "disposed",
                        d \notin unanswered \cup Malformed
                 PROVE  \E s \in Runs : Live(s)' /\ run'[s].call = d
      BY DEF LockHasOwner
    <3>1. CASE d = c
      BY <1>4, <3>1 DEF Live
    <3>2. CASE d # c
      <4>1. PICK s \in Runs : Live(s) /\ run[s].call = d
        BY <1>5, <3>2 DEF IInv, LockInv, LockHasOwner
      <4> QED
        BY <1>3, <3>2, <4>1 DEF Live
    <3> QED
      BY <3>1, <3>2
  <2> QED
    BY <2>1, <2>3, <2>4, <2>5 DEF LockInv
<1>11. QueueInv'
  <2>1. Underway(c)
    BY DEF Underway
  <2>2. \A d \in Calls \ {c} : Underway(d)' => Underway(d)
    BY <1>3, <1>4, <1>5, NoRunIs, RpcAssumption DEF Underway, clientVars
  <2> QED
    BY <2>1, <2>2, QueueKept DEF IInv, QueueInv, clientVars
<1>12. AnswerInv'
  <2>1. \A d \in Calls : pc'[d] \in {"sent", "waiting"} => Settled(d)' \/ Kept(d)'
    <3>1. ASSUME NEW d \in Calls, d = c PROVE Settled(d)' \/ Kept(d)'
      <4>1. Settled(d) \/ Replied(d) \/ d \in timedOut'
        BY <3>1
      <4> QED
        BY <4>1 DEF Settled, Kept, Replied, HasReply, clientVars
    <3>2. ASSUME NEW d \in Calls \ {c}, pc'[d] \in {"sent", "waiting"}
          PROVE  Settled(d)' \/ Kept(d)'
      BY <1>5, <3>2
      DEF IInv, AnswerInv, Settled, Kept, HasCommand, HasReply, clientVars
    <3> QED
      BY <3>1, <3>2
  <2>2. ASSUME NEW s \in Runs, run'[s].pc = "replied"
        PROVE  Settled(run[s].call)' \/ Replied(run[s].call)'
    <3>1. run'[s] = run[s] /\ run[s].pc = "replied"
      BY <1>3, <1>4, <2>2, NoRunIs
    <3>2. Settled(run[s].call) \/ Replied(run[s].call)
      BY <3>1 DEF IInv, AnswerInv
    <3> QED
      BY <3>1, <3>2 DEF Settled, Replied, HasReply, clientVars
  <2> QED
    BY <2>1, <2>2 DEF AnswerInv
<1> QED
  BY <1>7, <1>8, <1>9, <1>10, <1>11, <1>12 DEF IInv

\* The handler takes longer than commandTimeoutMs.
LEMMA HandlerTimesOutStep == ASSUME IInv, NEW r \in Runs, HandlerTimesOut(r) PROVE IInv'
<1>1. run[r].pc = "handling" /\ timedOut' = timedOut \cup {run[r].call}
  BY DEF HandlerTimesOut
<1>2. timedOut' \subseteq Calls
  BY <1>1, CallOfRun DEF IInv, TypeOK
<1> QED
  BY <1>1, <1>2, CompleteKeeps DEF HandlerTimesOut

\* The broker confirms the reply: it has been in the reply queue.
LEMMA ReplyConfirmedStep == ASSUME IInv, NEW r \in Runs, ReplyConfirmed(r) PROVE IInv'
<1>1. run[r].pc = "replied" /\ timedOut' = timedOut /\ timedOut' \subseteq Calls
  BY DEF ReplyConfirmed, Confirmable, history, IInv, TypeOK
<1>2. Settled(run[r].call) \/ Replied(run[r].call)
  BY <1>1 DEF IInv, AnswerInv
<1> QED
  BY <1>1, <1>2, CompleteKeeps DEF ReplyConfirmed, history

\* listen().
LEMMA ListenStep == ASSUME IInv, Listen PROVE IInv'
<1>1. TypeOK'
  BY DEF Listen, IInv, TypeOK, clientVars, history
<1>2. CallInv' /\ RunInv'
  BY CallsKept DEF Listen, IInv, RunInv, clientVars, history
<1>3. LockInv' /\ QueueInv'
  BY DEF Listen, IInv, LockInv, OneRunPerCommand, LockHasOwner, Live, QueueInv,
         DroppedOnlyIfEarly, Underway, clientVars, history
<1>4. AnswerInv'
  BY DEF Listen, IInv, AnswerInv, Settled, Kept, Replied, HasCommand, HasReply, clientVars,
         history
<1> QED
  BY <1>1, <1>2, <1>3, <1>4 DEF IInv

\* dispose() of the server.
LEMMA ServerDisposeStep == ASSUME IInv, ServerDispose PROVE IInv'
<1>1. TypeOK'
  BY DEF ServerDispose, IInv, TypeOK, clientVars, brokerVars, history
<1>2. CallInv' /\ RunInv'
  BY CallsKept DEF ServerDispose, IInv, RunInv, clientVars, brokerVars, history
<1>3. LockInv' /\ QueueInv'
  BY DEF ServerDispose, IInv, LockInv, OneRunPerCommand, LockHasOwner, Live, QueueInv,
         DroppedOnlyIfEarly, Underway, clientVars, brokerVars, history
<1>4. AnswerInv'
  BY DEF ServerDispose, IInv, AnswerInv, Settled, Kept, Replied, HasCommand, HasReply,
         clientVars, brokerVars, history
<1> QED
  BY <1>1, <1>2, <1>3, <1>4 DEF IInv

\* A copy is delivered: to a run of its own, or to the one that has the lock, or to nobody.
LEMMA DeliverStep ==
  ASSUME IInv, NEW c \in Calls, NEW i \in Copies, Deliver(c, i) PROVE IInv'
<1> DEFINE new == [pc |-> "handling", call |-> c, answer |-> "none"]
<1>1. /\ state = "listening" /\ copy[c][i] = "ready" /\ i # 0
      /\ copy' = [copy EXCEPT ![c][i] = "unacked"]
      /\ lock' = [lock EXCEPT ![c] = i]
      /\ UNCHANGED <<clientVars, queue, replyQueue, consumed, replies, state, channel,
                     serverLosses, history>>
  BY RpcAssumption DEF Deliver
<1>2. \/ (lock[c] # 0 \/ c \in Malformed) /\ run' = run
      \/ /\ lock[c] = 0
         /\ \E f \in Runs : run[f].pc = "free" /\ run' = [run EXCEPT ![f] = new]
  BY DEF Deliver, Starts, AnyOf
<1>3. new \in RunRecord /\ new.pc = "handling" /\ new.call = c
  BY DEF RunRecord
<1>4. pc[c] \notin Unsaid /\ c # "none"
  BY <1>1, RpcAssumption DEF IInv, RunInv
<1>5. \A d \in Calls \ {c} : lock'[d] = lock[d] /\ copy'[d] = copy[d]
  BY <1>1 DEF IInv, TypeOK
<1>6. lock'[c] = i
  BY <1>1 DEF IInv, TypeOK
<1>7. run' \in [Runs -> RunRecord]
  BY <1>2, <1>3 DEF IInv, TypeOK
<1>8. TypeOK'
  BY <1>1, <1>7 DEF IInv, TypeOK, clientVars, history
<1>9. CallInv'
  BY <1>1, CallsKept DEF history
<1>10. \A s \in Runs : run'[s] = run[s] \/ (run[s].pc = "free" /\ run'[s] = new)
  BY <1>2 DEF IInv, TypeOK
<1>11. RunInv'
  <2>1. \A s \in Runs : /\ run'[s].pc = "free" <=> run'[s].call = "none"
                        /\ run'[s].pc # "free" => pc'[run'[s].call] \notin Unsaid
    BY <1>1, <1>3, <1>4, <1>10 DEF IInv, RunInv, clientVars
  <2>2. \A s \in Runs : /\ run'[s].pc \in {"replying", "replied", "abandoned"} =>
                             <<run'[s].call, run'[s].answer>> \in given'
                        /\ run'[s].pc = "abandoned" => run'[s].call \in unanswered'
    BY <1>1, <1>3, <1>10 DEF IInv, RunInv, history
  <2>3. \A d \in Calls : \A j \in Copies : copy'[d][j] # "none" => pc'[d] \notin Unsaid
    BY <1>1, <1>4, <1>5 DEF IInv, RunInv, clientVars
  <2> QED
    BY <1>1, <2>1, <2>2, <2>3 DEF IInv, RunInv, history
<1>12. LockInv'
  <2>1. serverLosses' = 0 =>
          channel' = "up" /\ \A s \in Runs : Live(s)' => lock'[run'[s].call] # 0
    <3>1. ASSUME serverLosses = 0, NEW s \in Runs, Live(s)'
          PROVE  lock'[run'[s].call] # 0
      <4>1. CASE run'[s].call = c
        BY <1>1, <1>6, <4>1
      <4>2. CASE run'[s].call # c
        <5>1. run'[s] = run[s] /\ Live(s)
          BY <1>3, <1>10, <3>1, <4>2 DEF Live
        <5> QED
          BY <1>5, <3>1, <4>2, <5>1, CallOfRun, LiveIs DEF IInv, LockInv
      <4> QED
        BY <4>1, <4>2
    <3> QED
      BY <1>1, <3>1 DEF IInv, LockInv
  <2>2. OneRunPerCommand'
    <3>1. CASE run' = run
      BY <1>1, <3>1 DEF IInv, LockInv, OneRunPerCommand, Live
    <3>2. CASE lock[c] = 0 /\ \E f \in Runs : run[f].pc = "free"
                                              /\ run' = [run EXCEPT ![f] = new]
      <4>1. PICK f \in Runs : run[f].pc = "free" /\ run' = [run EXCEPT ![f] = new]
        BY <3>2
      <4>2. run'[f].call = c /\ \A s \in Runs \ {f} : run'[s] = run[s]
        BY <1>3, <4>1 DEF IInv, TypeOK
      <4>3. serverLosses = 0 => \A s \in Runs : Live(s) => run[s].call # c
        BY <3>2 DEF IInv, LockInv
      <4> QED
        BY <1>1, <4>2, <4>3 DEF IInv, LockInv, OneRunPerCommand, Live
    <3> QED
      BY <1>2, <3>1, <3>2
  <2>3. LockHasOwner'
    <3> SUFFICES ASSUME NEW d \in Calls, lock'[d] # 0, state # "disposed",
                        d \notin unanswered \cup Malformed
                 PROVE  \E s \in Runs : Live(s)' /\ run'[s].call = d
      BY <1>1 DEF LockHasOwner, history
    <3>1. CASE lock[d] # 0
      <4>1. PICK s \in Runs : Live(s) /\ run[s].call = d
        BY <3>1 DEF IInv, LockInv, LockHasOwner
      <4> QED
        BY <1>10, <4>1 DEF Live
    <3>2. CASE lock[d] = 0
      <4>1. d = c
        BY <1>5, <3>2
      <4>2. PICK f \in Runs : run[f].pc = "free" /\ run' = [run EXCEPT ![f] = new]
        BY <1>2, <3>2, <4>1
      <4>3. run'[f] = new
        BY <4>2 DEF IInv, TypeOK
      <4> QED
        BY <1>3, <4>1, <4>3 DEF Live
    <3> QED
      BY <3>1, <3>2
  <2> QED
    BY <1>1, <2>1, <2>2, <2>3 DEF LockInv
<1>13. QueueInv'
  <2>1. Underway(c)
    BY <1>1 DEF Underway
  <2>2. \A d \in Calls \ {c} : Underway(d)' => Underway(d)
    BY <1>1, <1>3, <1>5, <1>10 DEF Underway, clientVars
  <2> QED
    BY <1>1, <2>1, <2>2, QueueKept DEF IInv, QueueInv, clientVars, history
<1>14. AnswerInv'
  <2>1. \A d \in Calls : HasCommand(d) => HasCommand(d)'
    BY <1>1 DEF IInv, TypeOK, HasCommand
  <2>2. \A s \in Runs : run'[s].pc = "replied" => run'[s] = run[s]
    BY <1>3, <1>10
  <2> QED
    BY <1>1, <2>1, <2>2, AnswersKeptByServer DEF Kept, history
<1> QED
  BY <1>8, <1>9, <1>11, <1>12, <1>13, <1>14 DEF IInv

(***************************************************************************)
(* A run that goes on with its call, or is over without touching the lock. *)
(***************************************************************************)
LEMMA RunGoesOn ==
  ASSUME IInv, NEW r \in Runs, run[r].pc # "free", NEW m \in RunRecord,
         run' = [run EXCEPT ![r] = m],
         \/ Live(r) /\ m.pc \notin {"free", "abandoned"} /\ m.call = run[r].call
         \/ m.pc = "abandoned" /\ m.call = run[r].call /\ m.call \in unanswered'
         \/ m = NoRun /\ (state = "disposed" \/ run[r].call \in unanswered'),
         m.pc \in {"replying", "replied", "abandoned"} => <<m.call, m.answer>> \in given',
         m.pc = "replied" => Replied(m.call)',
         given \subseteq given', replies' \subseteq given', replies \subseteq replies',
         unanswered \subseteq unanswered', dropped \subseteq dropped',
         UNCHANGED <<clientVars, copy, replyQueue, state, channel, serverLosses, lock,
                     early, timedOut>>
  PROVE  /\ run' \in [Runs -> RunRecord]
         /\ RunInv' /\ LockInv' /\ AnswerInv'
         /\ \A c \in Calls : Underway(c)' => Underway(c)
<1>1. /\ run' \in [Runs -> RunRecord] /\ run'[r] = m
      /\ \A s \in Runs \ {r} : run'[s] = run[s]
  BY DEF IInv, TypeOK
<1>2. run[r].call \in Calls /\ run[r].call # "none"
  BY CallOfRun
<1>3. RunInv'
  BY <1>1, <1>2, NoRunIs DEF IInv, RunInv, clientVars
<1>4. \A s \in Runs : Live(s)' => Live(s) /\ run'[s].call = run[s].call
  BY <1>1, NoRunIs DEF Live
<1>5. OneRunPerCommand'
  BY <1>4 DEF IInv, LockInv, OneRunPerCommand
<1>6. LockHasOwner'
  <2> SUFFICES ASSUME NEW d \in Calls, lock[d] # 0, state # "disposed",
                      d \notin unanswered' \cup Malformed
               PROVE  \E s \in Runs : Live(s)' /\ run'[s].call = d
    BY DEF LockHasOwner
  <2>1. PICK s \in Runs : Live(s) /\ run[s].call = d
    BY DEF IInv, LockInv, LockHasOwner
  <2> QED
    BY <1>1, <2>1 DEF Live
<1>7. state = "ready" => \A s \in Runs : run'[s].pc = "free"
  BY DEF IInv, LockInv
<1>8. LockInv'
  BY <1>4, <1>5, <1>6, <1>7 DEF IInv, LockInv
<1>9. \A c \in Calls : Underway(c)' => Underway(c)
  BY <1>1, NoRunIs, RpcAssumption DEF Underway, clientVars
<1>10. AnswerInv'
  <2>1. \A c \in Calls : HasCommand(c) => Kept(c)'
    BY DEF HasCommand, Kept
  <2>2. \A s \in Runs : run'[s].pc = "replied" =>
          \/ run[s].pc = "replied" /\ run'[s].call = run[s].call
          \/ Replied(run[s].call)'
    BY <1>1
  <2> QED
    BY <2>1, <2>2, AnswersKeptByServer
<1> QED
  BY <1>1, <1>3, <1>8, <1>9, <1>10

\* The handler answers.
LEMMA HandlerAnswersStep ==
  ASSUME IInv, NEW r \in Runs, NEW a \in Answers, HandlerAnswers(r, a) PROVE IInv'
<1> DEFINE m == IF state = "disposed" THEN NoRun
                ELSE [run[r] EXCEPT !.pc = "replying", !.answer = a]
<1>1. /\ run[r].pc = "handling" /\ run' = [run EXCEPT ![r] = m]
      /\ given' = given \cup {<<run[r].call, a>>}
      /\ UNCHANGED <<clientVars, brokerVars, state, channel, serverLosses, lock, unroutable,
                     early, expired, dropped, timedOut, unanswered>>
  BY DEF HandlerAnswers
<1>2. run[r] \in RunRecord /\ run[r].call \in Calls /\ Live(r)
  BY <1>1, CallOfRun DEF Live
<1>3. /\ m \in RunRecord
      /\ \/ m = NoRun /\ state = "disposed"
         \/ m.pc = "replying" /\ m.call = run[r].call /\ m.answer = a
  BY <1>2, NoRunIs DEF RunRecord
<1>4. m.pc \in {"replying", "replied", "abandoned"} => <<m.call, m.answer>> \in given'
  BY <1>1, <1>3, NoRunIs
<1>5. replies' \subseteq given' /\ given \subseteq given'
  BY <1>1 DEF IInv, RunInv, brokerVars
<1>6. /\ run' \in [Runs -> RunRecord] /\ RunInv' /\ LockInv' /\ AnswerInv'
      /\ \A c \in Calls : Underway(c)' => Underway(c)
  <2>1. m.pc # "replied"
    BY <1>3, NoRunIs
  <2> HIDE DEF m
  <2> QED
    BY <1>1, <1>2, <1>3, <1>4, <1>5, <2>1, RunGoesOn DEF brokerVars
<1>7. TypeOK' /\ CallInv'
  <2>1. given' \subseteq Calls \X Answers
    BY <1>1, <1>2 DEF IInv, TypeOK
  <2> QED
    BY <1>1, <1>5, <1>6, <2>1, CallsKept DEF IInv, TypeOK, clientVars, brokerVars
<1>8. QueueInv'
  BY <1>1, <1>6, QueueKept DEF brokerVars
<1> QED
  BY <1>6, <1>7, <1>8 DEF IInv

\* The reply reaches the broker, and its queue if that exists.
LEMMA ReplyReachesStep == ASSUME IInv, NEW r \in Runs, ReplyReaches(r) PROVE IInv'
<1> DEFINE m == IF run[r].pc = "replying" THEN [run[r] EXCEPT !.pc = "replied"] ELSE NoRun
           c == run[r].call
<1>1. /\ run[r].pc \in {"replying", "abandoned"} /\ run' = [run EXCEPT ![r] = m]
      /\ UNCHANGED <<clientVars, queue, copy, replyQueue, consumed, state, channel,
                     serverLosses, lock, given, unroutable, early, expired, timedOut,
                     unanswered>>
  BY DEF ReplyReaches
<1>2. /\ run[r] \in RunRecord /\ c \in Calls /\ <<c, run[r].answer>> \in given
      /\ run[r].pc = "abandoned" => c \in unanswered
  BY <1>1, CallOfRun DEF IInv, RunInv
<1>3. m \in RunRecord
  BY <1>2, NoRunIs DEF RunRecord
<1>4. \/ /\ run[r].pc = "replying" /\ m.pc = "replied"
         /\ m.call = c /\ m.answer = run[r].answer
      \/ run[r].pc = "abandoned" /\ m = NoRun
  BY <1>1, <1>2 DEF RunRecord
<1>5. \/ replyQueue /\ replies' = replies \cup {<<c, run[r].answer>>} /\ UNCHANGED dropped
      \/ ~replyQueue /\ dropped' = dropped \cup {c} /\ UNCHANGED replies
  BY DEF ReplyReaches
<1>6. replies' \subseteq given' /\ replies \subseteq replies' /\ dropped \subseteq dropped'
  BY <1>1, <1>2, <1>5 DEF IInv, RunInv
<1>7. TypeOK' /\ \A d \in Calls : d = c => Replied(d)'
  <2>1. replies' \subseteq Calls \X Answers /\ dropped' \subseteq Calls
    BY <1>1, <1>2, <1>5, <1>6 DEF IInv, TypeOK
  <2>2. <<c, run[r].answer>> \in Calls \X Answers
    BY <1>2 DEF IInv, TypeOK
  <2>3. ASSUME NEW d \in Calls, d = c PROVE Replied(d)'
    BY <1>5, <2>2, <2>3 DEF Replied, HasReply
  <2>4. run' \in [Runs -> RunRecord]
    BY <1>1, <1>3 DEF IInv, TypeOK
  <2> QED
    BY <1>1, <2>1, <2>3, <2>4 DEF IInv, TypeOK, clientVars
<1>8. /\ RunInv' /\ LockInv' /\ AnswerInv'
      /\ \A d \in Calls : Underway(d)' => Underway(d)
  <2>1. m.pc = "replied" => m.call \in Calls /\ m.call = c
    BY <1>2, <1>4, NoRunIs
  <2>2. m.pc \in {"replying", "replied", "abandoned"} => <<m.call, m.answer>> \in given'
    BY <1>1, <1>2, <1>4, NoRunIs
  <2>3. \/ Live(r) /\ m.pc \notin {"free", "abandoned"} /\ m.call = c
        \/ m = NoRun /\ c \in unanswered'
    BY <1>1, <1>2, <1>4 DEF Live
  <2>4. run[r].pc # "free"
    BY <1>1
  <2> HIDE DEF m
  <2> QED
    BY <1>1, <1>3, <1>6, <1>7, <2>1, <2>2, <2>3, <2>4, RunGoesOn
<1>9. CallInv'
  BY <1>1, CallsKept
<1>10. QueueInv'
  <2>1. Underway(c)
    BY DEF Underway
  <2>2. ~expired => dropped' \subseteq early
    BY <1>2, <1>5, <2>1 DEF IInv, QueueInv, DroppedOnlyIfEarly
  <2> QED
    BY <1>1, <1>8, <2>2 DEF IInv, QueueInv, DroppedOnlyIfEarly
<1> QED
  BY <1>7, <1>8, <1>9, <1>10 DEF IInv

\* The reply cannot be sent: handleCommandMessage() ends without unlock().
LEMMA ReplyFailsStep == ASSUME IInv, NEW r \in Runs, ReplyFails(r) PROVE IInv'
<1> DEFINE left == [run[r] EXCEPT !.pc = "abandoned"]
<1>1. /\ run[r].pc \in {"replying", "replied"}
      /\ unanswered' = unanswered \cup {run[r].call}
      /\ UNCHANGED <<clientVars, brokerVars, state, channel, serverLosses, lock, given,
                     unroutable, early, expired, dropped, timedOut>>
  BY DEF ReplyFails
<1>2. /\ run[r] \in RunRecord /\ run[r].call \in Calls
      /\ <<run[r].call, run[r].answer>> \in given
  BY <1>1, CallOfRun DEF IInv, RunInv
<1>3. /\ left \in RunRecord /\ left.pc = "abandoned" /\ left.call = run[r].call
      /\ left.answer = run[r].answer
  BY <1>2 DEF RunRecord
<1>4. run' = [run EXCEPT ![r] = NoRun] \/ run' = [run EXCEPT ![r] = left]
  BY DEF ReplyFails
<1> HIDE DEF left
<1>5. PICK m \in {NoRun, left} : run' = [run EXCEPT ![r] = m]
  BY <1>4
<1>6. replies' \subseteq given' /\ replies \subseteq replies'
  BY <1>1 DEF IInv, RunInv, brokerVars
<1>7. /\ run' \in [Runs -> RunRecord] /\ RunInv' /\ LockInv' /\ AnswerInv'
      /\ \A c \in Calls : Underway(c)' => Underway(c)
  <2>1. /\ m \in RunRecord /\ m.pc # "replied"
        /\ m.pc \in {"replying", "replied", "abandoned"} => <<m.call, m.answer>> \in given'
        /\ \/ m.pc = "abandoned" /\ m.call = run[r].call /\ m.call \in unanswered'
           \/ m = NoRun /\ run[r].call \in unanswered'
    BY <1>1, <1>2, <1>3, <1>5, NoRunIs
  <2> QED
    BY <1>1, <1>5, <1>6, <2>1, RunGoesOn DEF brokerVars
<1>8. TypeOK' /\ CallInv'
  BY <1>1, <1>2, <1>7, CallsKept DEF IInv, TypeOK, clientVars, brokerVars
<1>9. QueueInv'
  BY <1>1, <1>7, QueueKept DEF brokerVars
<1> QED
  BY <1>7, <1>8, <1>9 DEF IInv

\* acknowledge() finds no channel and rejects; unlock() all the same.
LEMMA AcknowledgeFailsStep ==
  ASSUME IInv, NEW r \in Runs, AcknowledgeFails(r) PROVE IInv'
<1> DEFINE c == run[r].call
<1>1. /\ run[r].pc = "acking" /\ channel = "down" /\ run' = [run EXCEPT ![r] = NoRun]
      /\ lock' = [lock EXCEPT ![c] = 0]
      /\ UNCHANGED <<clientVars, brokerVars, state, channel, serverLosses, history>>
  BY DEF AcknowledgeFails, Unlocked
<1>2. c \in Calls /\ serverLosses # 0
  BY <1>1, CallOfRun DEF IInv, LockInv
<1>3. /\ run' \in [Runs -> RunRecord] /\ run'[r] = NoRun
      /\ \A s \in Runs \ {r} : run'[s] = run[s]
  BY <1>1, NoRunIs DEF IInv, TypeOK
<1>4. TypeOK' /\ CallInv'
  <2>1. lock' \in [Calls -> Copies \cup {0}]
    BY <1>1 DEF IInv, TypeOK
  <2>2. TypeOK'
    BY <1>1, <1>3, <2>1 DEF IInv, TypeOK, clientVars, brokerVars, history
  <2> QED
    BY <1>1, <2>2, CallsKept DEF history
<1>5. RunInv'
  <2>1. NoRun.pc = "free" /\ NoRun.call = "none"
    BY DEF NoRun
  <2>2. UNCHANGED <<replies, given, unanswered, pc, copy>>
    BY <1>1 DEF clientVars, brokerVars, history
  <2> QED
    BY <1>3, <2>1, <2>2 DEF IInv, RunInv
<1>6. LockInv'
  <2>1. LockHasOwner'
    <3> SUFFICES ASSUME NEW d \in Calls, lock'[d] # 0, state # "disposed",
                        d \notin unanswered \cup Malformed
                 PROVE  \E s \in Runs : Live(s)' /\ run'[s].call = d
      BY <1>1 DEF LockHasOwner, history
    <3>1. d # c /\ lock[d] # 0
      BY <1>1 DEF IInv, TypeOK
    <3> QED
      BY <1>3, <3>1 DEF IInv, LockInv, LockHasOwner, Live
  <2> QED
    BY <1>1, <1>2, <1>3, <2>1, NoRunIs DEF IInv, LockInv, OneRunPerCommand
<1>7. AnswerInv'
  <2>1. \A d \in Calls : HasCommand(d) => Kept(d)'
    BY <1>1 DEF HasCommand, Kept, brokerVars
  <2>2. \A s \in Runs : run'[s].pc = "replied" => run'[s] = run[s]
    BY <1>3, NoRunIs
  <2> QED
    BY <1>1, <2>1, <2>2, AnswersKeptByServer DEF brokerVars, history
<1>8. QueueInv'
  <2>1. \A d \in Calls : Underway(d)' => Underway(d)
    BY <1>1, <1>3, NoRunIs, RpcAssumption DEF Underway, clientVars, brokerVars
  <2> QED
    BY <1>1, <2>1, QueueKept DEF IInv, QueueInv, clientVars, brokerVars, history
<1> QED
  BY <1>4, <1>5, <1>6, <1>7, <1>8 DEF IInv

\* The server's channel is lost.
LEMMA ServerLostStep == ASSUME IInv, ServerLost PROVE IInv'
<1>1. /\ channel' = "down"
      /\ UNCHANGED <<clientVars, queue, replyQueue, consumed, replies, state, lock,
                     history>>
  BY DEF ServerLost
<1>2. serverLosses' \in Nat /\ serverLosses' # 0
  BY DEF ServerLost, IInv, TypeOK, LockInv
<1>3. /\ copy' \in [Calls -> [Copies -> {"none", "ready", "unacked", "gone"}]]
      /\ \A c \in Calls : \A i \in Copies : copy'[c][i] # "none" => copy[c][i] # "none"
      /\ \A c \in Calls : HasCommand(c) => HasCommand(c)'
  BY DEF ServerLost, IInv, TypeOK, HasCommand
<1>4. \A r \in Runs : run[r] \in RunRecord
  BY DEF IInv, TypeOK
<1>5. \A r \in Runs :
        /\ [run[r] EXCEPT !.pc = "replying"] \in RunRecord
        /\ [run[r] EXCEPT !.pc = "replying"].pc = "replying"
        /\ [run[r] EXCEPT !.pc = "replying"].call = run[r].call
        /\ [run[r] EXCEPT !.pc = "replying"].answer = run[r].answer
  BY <1>4 DEF RunRecord
<1>6. /\ run' \in [Runs -> RunRecord]
      /\ \A r \in Runs :
           /\ run'[r].call = run[r].call /\ run'[r].answer = run[r].answer
           /\ run'[r].pc = IF run[r].pc = "replied" THEN "replying" ELSE run[r].pc
  BY <1>4, <1>5 DEF ServerLost
<1>7. TypeOK' /\ CallInv'
  BY <1>1, <1>2, <1>3, <1>6, CallsKept DEF IInv, TypeOK, clientVars, history
<1>8. RunInv'
  <2>1. /\ \A r \in Runs :
             /\ run'[r].pc \in {"replying", "replied", "abandoned"} =>
                  run[r].pc \in {"replying", "replied", "abandoned"}
             /\ run'[r].pc = "free" <=> run[r].pc = "free"
             /\ run'[r].pc = "abandoned" => run[r].pc = "abandoned"
    BY <1>6
  <2>2. UNCHANGED <<replies, given, unanswered, pc>>
    BY <1>1 DEF clientVars, history
  <2> QED
    BY <1>3, <1>6, <2>1, <2>2 DEF IInv, RunInv
<1>9. LockInv'
  BY <1>1, <1>2, <1>6
  DEF IInv, LockInv, OneRunPerCommand, LockHasOwner, Live, history
<1>10. AnswerInv'
  <2>1. \A r \in Runs : run'[r].pc # "replied"
    BY <1>6
  <2> QED
    BY <1>1, <1>3, <2>1, AnswersKeptByServer DEF Kept, history
<1>11. QueueInv'
  <2>1. \A c \in Calls : Underway(c)' => Underway(c)
    BY <1>1, <1>3, <1>6 DEF Underway, clientVars
  <2> QED
    BY <1>1, <2>1, QueueKept DEF IInv, QueueInv, clientVars, history
<1> QED
  BY <1>7, <1>8, <1>9, <1>10, <1>11 DEF IInv

\* The server has a channel again: unlockAll().
LEMMA ServerBackStep == ASSUME IInv, ServerBack PROVE IInv'
<1>1. /\ channel = "down" /\ channel' \in {"doomed", "up"} /\ queue' \in BOOLEAN
      /\ UNCHANGED <<clientVars, copy, replyQueue, consumed, replies, state, serverLosses,
                     history>>
  BY DEF ServerBack
<1>2. serverLosses # 0
  BY <1>1 DEF IInv, LockInv
<1>3. lock' = IF state = "listening" THEN [c \in Calls |-> 0] ELSE lock
  BY DEF ServerBack
<1>4. /\ run' \in [Runs -> RunRecord]
      /\ \A r \in Runs : run'[r] = IF run[r].pc = "acking" THEN NoRun ELSE run[r]
  BY NoRunIs DEF ServerBack, IInv, TypeOK
<1>5. TypeOK' /\ CallInv'
  BY <1>1, <1>3, <1>4, CallsKept DEF IInv, TypeOK, clientVars, history
<1>6. RunInv'
  BY <1>1, <1>4, NoRunIs DEF IInv, RunInv, clientVars, history
<1>7. LockInv'
  <2>1. CASE state = "listening"
    BY <1>1, <1>2, <1>3, <2>1 DEF LockInv, OneRunPerCommand, LockHasOwner, Live
  <2>2. CASE state = "disposed"
    BY <1>1, <1>2, <2>2 DEF LockInv, OneRunPerCommand, LockHasOwner, Live
  <2>3. CASE state = "ready"
    BY <1>1, <1>2, <1>3, <1>4, <2>3, NoRunIs
    DEF IInv, LockInv, OneRunPerCommand, LockHasOwner, Live, history
  <2> QED
    BY <2>1, <2>2, <2>3 DEF IInv, TypeOK
<1>8. QueueInv'
  <2>1. \A c \in Calls : Underway(c)' => Underway(c)
    BY <1>1, <1>4, NoRunIs, RpcAssumption DEF Underway, clientVars
  <2> QED
    BY <1>1, <2>1, QueueKept DEF IInv, QueueInv, clientVars, history
<1>9. AnswerInv'
  <2>1. \A c \in Calls : HasCommand(c) => Kept(c)'
    BY <1>1 DEF HasCommand, Kept
  <2>2. \A r \in Runs : run'[r].pc = "replied" => run'[r] = run[r]
    BY <1>4, NoRunIs
  <2> QED
    BY <1>1, <2>1, <2>2, AnswersKeptByServer DEF history
<1> QED
  BY <1>5, <1>6, <1>7, <1>8, <1>9 DEF IInv

-----------------------------------------------------------------------------
\* The initial state satisfies the invariant.
LEMMA InitialState == ASSUME Init PROVE IInv
<1>1. TypeOK
  <2>1. /\ pc \in [Calls -> CallStates] /\ status \in [Calls -> Statuses]
        /\ outcome \in [Calls -> Outcomes]
    BY DEF Init, CallStates, Statuses, Outcomes
  <2>2. run \in [Runs -> RunRecord]
    BY NoRunIs DEF Init
  <2> QED
    BY <2>1, <2>2 DEF Init, TypeOK
<1>2. CallInv
  BY RpcAssumption DEF Init, CallInv, Accounted
<1>3. RunInv
  BY NoRunIs DEF Init, RunInv
<1>4. LockInv
  BY NoRunIs DEF Init, LockInv, OneRunPerCommand, LockHasOwner, Live
<1>5. QueueInv
  BY NoRunIs, RpcAssumption DEF Init, QueueInv, DroppedOnlyIfEarly, Underway
<1>6. AnswerInv
  BY NoRunIs DEF Init, AnswerInv
<1> QED
  BY <1>1, <1>2, <1>3, <1>4, <1>5, <1>6 DEF IInv

\* So does one whose variables do not change.
LEMMA Stutter == ASSUME IInv, UNCHANGED vars PROVE IInv'
<1>1. UNCHANGED <<clientVars, brokerVars, serverVars, history>>
  BY DEF vars
<1>2. TypeOK' /\ CallInv'
  BY <1>1, CallsKept
  DEF IInv, TypeOK, clientVars, brokerVars, serverVars, history
<1>3. RunInv' /\ LockInv'
  BY <1>1, RunsKept, LocksKept DEF clientVars, brokerVars, serverVars, history
<1>4. QueueInv'
  BY <1>1
  DEF IInv, QueueInv, DroppedOnlyIfEarly, Underway, clientVars, brokerVars, serverVars,
      history
<1>5. AnswerInv'
  BY <1>1
  DEF IInv, AnswerInv, Settled, Kept, Replied, HasCommand, HasReply, clientVars, brokerVars,
      serverVars, history
<1> QED
  BY <1>2, <1>3, <1>4, <1>5 DEF IInv

\* Every step preserves the invariant.
LEMMA Step == ASSUME IInv, [Next]_vars PROVE IInv'
<1>1. ASSUME NEW c \in Calls, Call(c) \/ SendReaches(c) \/ SendEnds(c) \/ TimerFires(c)
      PROVE  IInv'
  BY <1>1, CallStep, SendReachesStep, SendConfirmedStep, SendFailsStep, TimerFiresStep
  DEF SendEnds
<1>2. ASSUME NEW c \in Calls, NEW a \in Answers, ReplyDelivered(c, a) PROVE IInv'
  BY <1>2, ReplyDeliveredStep
<1>3. ASSUME NEW c \in Calls, NEW i \in Copies, Deliver(c, i) \/ CommandExpires(c, i)
      PROVE  IInv'
  BY <1>3, DeliverStep, CommandExpiresStep
<1>4. CASE \/ ConsumeEnds \/ LateConsume \/ ClientLost \/ ClientBack
           \/ ReplyQueueExpires \/ ClientDispose
  BY <1>4, ReplyQueueAssertedStep, ReplyQueueConsumedStep, ConsumeFailsStep,
     LateConsumeStep, ClientLostStep, ClientBackStep, ReplyQueueExpiresStep,
     ClientDisposeStep
  DEF ConsumeEnds
<1>5. ASSUME NEW r \in Runs,
             HandlerTimesOut(r) \/ ReplyReaches(r) \/ ReplyEnds(r) \/ AcknowledgeFails(r)
      PROVE  IInv'
  BY <1>5, HandlerTimesOutStep, ReplyReachesStep, ReplyConfirmedStep, ReplyFailsStep,
     AcknowledgeFailsStep
  DEF ReplyEnds
<1>6. ASSUME NEW r \in Runs, NEW a \in Answers, HandlerAnswers(r, a) PROVE IInv'
  BY <1>6, HandlerAnswersStep
<1>7. CASE Listen \/ ServerLost \/ ServerBack \/ ServerDispose
  BY <1>7, ListenStep, ServerLostStep, ServerBackStep, ServerDisposeStep
<1>8. CASE UNCHANGED vars
  BY <1>8, Stutter
<1> QED
  BY <1>1, <1>2, <1>3, <1>4, <1>5, <1>6, <1>7, <1>8 DEF Next

\* The inductive invariant holds in every reachable state of Rpc.
THEOREM Invariance == Safety => []IInv
<1>1. Init => IInv
  BY InitialState
<1>2. IInv /\ [Next]_vars => IInv'
  BY Step
<1> QED
  BY <1>1, <1>2, PTL DEF Safety

-----------------------------------------------------------------------------
(* The safety invariants *)

\* Every variable keeps its type.
THEOREM TypeCorrect == Safety => []TypeOK
<1>1. IInv => TypeOK
  BY DEF IInv
<1> QED
  BY <1>1, Invariance, PTL

(***************************************************************************)
(* While the server keeps its channel, a command that the client's         *)
(* executor has sent twice is not handled twice at once.                   *)
(***************************************************************************)
THEOREM RunsDoNotOverlap == Safety => []OneRunPerCommand
<1>1. IInv => OneRunPerCommand
  BY DEF IInv, LockInv
<1> QED
  BY <1>1, Invariance, PTL

(***************************************************************************)
(* A lock that is held is held by a run, unless a reply to its call could  *)
(* not be sent or the content of the call cannot be read.                  *)
(***************************************************************************)
THEOREM LocksAreOwned == Safety => []LockHasOwner
<1>1. IInv => LockHasOwner
  BY DEF IInv, LockInv
<1> QED
  BY <1>1, Invariance, PTL

(***************************************************************************)
(* Until the reply queue expires, a reply misses it only if its call did   *)
(* not wait for the queue.                                                 *)
(***************************************************************************)
THEOREM RepliesFindTheirQueue == Safety => []DroppedOnlyIfEarly
<1>1. IInv => DroppedOnlyIfEarly
  BY DEF IInv, QueueInv
<1> QED
  BY <1>1, Invariance, PTL

(***************************************************************************)
(* A server that is lost at any moment leaves the broker the command of    *)
(* every caller that waits, or the reply to it, unless a handler timed out *)
(* or the reply queue is gone.                                             *)
(***************************************************************************)
THEOREM CommandsAreKept == Safety => []CommandOrReply
<1>1. ASSUME IInv, NEW c \in Calls, pc[c] = "waiting", c \notin timedOut \cup dropped
      PROVE  HasCommand(c) \/ HasReply(c)
  <2>1. status[c] = "ready"
    BY <1>1 DEF IInv, CallInv, Accounted
  <2> QED
    BY <1>1, <2>1 DEF IInv, AnswerInv, Settled, Kept
<1>2. IInv => CommandOrReply
  BY <1>1 DEF CommandOrReply
<1> QED
  BY <1>2, Invariance, PTL

-----------------------------------------------------------------------------
(* Rpc implements RemoteCall *)

\* One call settles in a way that it may.
LEMMA SettlesOne ==
  ASSUME IInv, NEW c \in Calls, NEW result \in Promise!Results(c),
         outcome[c] = "pending", outcome' = [outcome EXCEPT ![c] = result],
         UNCHANGED <<given, unroutable, isDisposed>>
  PROVE  [Promise!Next]_Promise!vars
  BY DEF Promise!Next, Promise!Settle

\* A command found in the CommandContainer settles, or its caller still sends.
LEMMA SettledIsSettle ==
  ASSUME IInv, NEW c \in Calls, NEW result \in Answers \cup {"timeout"},
         NEW where, SettleOne(c, result, where), result \in Promise!Results(c),
         UNCHANGED <<given, unroutable, isDisposed>>
  PROVE  [Promise!Next]_Promise!vars
<1>1. CASE status[c] = "ready" /\ pc[c] = "waiting"
  <2>1. outcome[c] = "pending"
    BY <1>1 DEF IInv, CallInv, Accounted
  <2>2. outcome' = [outcome EXCEPT ![c] = result]
    BY <1>1 DEF SettleOne, SettleAll, IInv, TypeOK
  <2> QED
    BY <2>1, <2>2, SettlesOne
<1>2. CASE ~(status[c] = "ready" /\ pc[c] = "waiting")
  <2>1. outcome' = outcome
    BY <1>2 DEF SettleOne, SettleAll, IInv, TypeOK
  <2> QED
    BY <2>1 DEF Promise!vars
<1> QED
  BY <1>1, <1>2

\* sendCommand() after initialize() settles only if the client was disposed of.
LEMMA ContinuingSettles ==
  ASSUME IInv, InitializerContinues, UNCHANGED <<given, unroutable, isDisposed>>
  PROVE  [Promise!Next]_Promise!vars
<1>1. CASE \E c \in Calls : pc[c] = "initializing"
  <2>1. PICK c \in Calls : pc[c] = "initializing" /\ AfterInitialize(c)
    BY <1>1 DEF InitializerContinues
  <2>2. outcome[c] = "pending"
    BY <2>1 DEF IInv, CallInv, Accounted
  <2>3. CASE isDisposed
    BY <2>1, <2>2, <2>3, SettlesOne DEF AfterInitialize, Reject, Promise!Results
  <2>4. CASE ~isDisposed
    BY <2>1, <2>2, <2>4 DEF AfterInitialize, IInv, TypeOK, Promise!vars
  <2> QED
    BY <2>3, <2>4
<1>2. CASE ~ \E c \in Calls : pc[c] = "initializing"
  BY <1>2 DEF InitializerContinues, Promise!vars
<1> QED
  BY <1>1, <1>2

\* executeRemoteCommand().
LEMMA CallIsCall == ASSUME IInv, NEW c \in Calls, Call(c) PROVE Promise!Call(c)
<1>1. outcome[c] = "idle"
  BY DEF Call, IInv, CallInv, Accounted
<1> QED
  BY <1>1 DEF Call, AfterInitialize, Reject, Promise!Call

\* sendToQueue() has resolved: the call settles with the status that came meanwhile.
LEMMA ConfirmedSettles ==
  ASSUME IInv, NEW c \in Calls, SendConfirmed(c) PROVE [Promise!Next]_Promise!vars
<1>1. outcome[c] = "pending" /\ UNCHANGED <<given, unroutable, isDisposed>>
  BY DEF SendConfirmed, IInv, CallInv, Accounted, history
<1>2. CASE isDisposed /\ Reject(c, "closed")
  BY <1>1, <1>2, SettlesOne DEF Reject, Promise!Results
<1>3. CASE UNCHANGED outcome
  BY <1>1, <1>3 DEF Promise!vars
<1>4. CASE status[c] # "ready" /\ outcome' = [outcome EXCEPT ![c] = status[c]]
  <2>1. status[c] \in Answers \cup {"timeout", "dismissed", "closed"}
    BY <1>4 DEF SendConfirmed, IInv, TypeOK, CallInv, Accounted, Statuses
  <2>2. status[c] \in Promise!Results(c)
    BY <2>1 DEF IInv, CallInv, Accounted, Promise!Results
  <2> QED
    BY <1>1, <1>4, <2>2, SettlesOne
<1> QED
  BY <1>2, <1>3, <1>4 DEF SendConfirmed

\* What the broker returns was sent, and so was called.
LEMMA ReturnIsReturned ==
  ASSUME IInv, NEW c \in Calls, SendReaches(c) PROVE [Promise!Next]_Promise!vars
<1>1. CASE queue
  BY <1>1 DEF SendReaches, Promise!vars
<1>2. CASE ~queue
  <2>1. outcome[c] # "idle"
    BY DEF SendReaches, IInv, CallInv, Accounted
  <2> QED
    BY <1>2, <2>1 DEF SendReaches, Promise!Returned, Promise!Next
<1> QED
  BY <1>1, <1>2

\* What a handler gives is an answer to a call that was made.
LEMMA AnswerIsAnswered ==
  ASSUME IInv, NEW r \in Runs, NEW a \in Answers, HandlerAnswers(r, a)
  PROVE  [Promise!Next]_Promise!vars
<1>1. run[r].call \in Calls /\ outcome[run[r].call] # "idle"
  BY CallOfRun DEF HandlerAnswers, IInv, RunInv, CallInv, Accounted, Unsaid
<1> QED
  BY <1>1 DEF HandlerAnswers, clientVars, Promise!Answered, Promise!Next

\* dispose() rejects those who wait.
LEMMA DisposeIsDispose == ASSUME IInv, ClientDispose PROVE Promise!Dispose
<1> DEFINE S == {c \in Calls : status[c] = "ready" /\ pc[c] = "waiting"}
<1>1. S \in SUBSET {c \in Calls : outcome[c] = "pending"}
  BY DEF IInv, CallInv, Accounted
<1>2. outcome' = [c \in Calls |-> IF c \in S THEN "closed" ELSE outcome[c]]
  BY DEF ClientDispose, SettleAll
<1> QED
  BY <1>1, <1>2 DEF ClientDispose, history, Promise!Dispose

\* Every step is a step of RemoteCall or leaves it alone.
LEMMA StepRefines == ASSUME IInv, [Next]_vars PROVE [Promise!Next]_Promise!vars
<1>1. CASE UNCHANGED <<outcome, given, unroutable, isDisposed>>
  BY <1>1 DEF Promise!vars
<1>2. ASSUME NEW c \in Calls, Call(c) PROVE [Promise!Next]_Promise!vars
  BY <1>2, CallIsCall DEF Promise!Next
<1>3. ASSUME NEW c \in Calls, SendReaches(c) \/ SendConfirmed(c)
      PROVE  [Promise!Next]_Promise!vars
  BY <1>3, ReturnIsReturned, ConfirmedSettles
<1>4. ASSUME NEW c \in Calls, SendFails(c) PROVE [Promise!Next]_Promise!vars
  <2>1. outcome[c] = "pending"
    BY <1>4 DEF SendFails, IInv, CallInv, Accounted
  <2> QED
    BY <1>4, <2>1, SettlesOne DEF SendFails, history, Promise!Results
<1>5. ASSUME NEW c \in Calls, TimerFires(c) PROVE [Promise!Next]_Promise!vars
  BY <1>5, SettledIsSettle DEF TimerFires, history, Promise!Results
<1>6. ASSUME NEW c \in Calls, NEW a \in Answers, ReplyDelivered(c, a)
      PROVE  [Promise!Next]_Promise!vars
  <2>1. <<c, a>> \in given
    BY <1>6 DEF ReplyDelivered, IInv, RunInv
  <2> QED
    <3>1. PICK where \in {pc, Unsent} : SettleOne(c, a, where)
      BY <1>6 DEF ReplyDelivered
    <3> QED
      BY <1>6, <2>1, <3>1, SettledIsSettle DEF ReplyDelivered, history, Promise!Results
<1>7. CASE ReplyQueueAsserted
  <2>1. CASE isDisposed
    BY <1>7, <2>1, ContinuingSettles DEF ReplyQueueAsserted, history
  <2>2. CASE ~isDisposed
    BY <1>1, <1>7, <2>2 DEF ReplyQueueAsserted, history
  <2> QED
    BY <2>1, <2>2
<1>8. CASE ReplyQueueConsumed
  BY <1>8, ContinuingSettles DEF ReplyQueueConsumed, history
<1>9. CASE ConsumeFails
  <2>1. CASE \E c \in Calls : pc[c] = "initializing"
    <3>1. PICK c \in Calls : pc[c] = "initializing" /\ Reject(c, "sendError")
      BY <1>9, <2>1 DEF ConsumeFails
    <3>2. outcome[c] = "pending"
      BY <3>1 DEF IInv, CallInv, Accounted
    <3> QED
      BY <1>9, <3>1, <3>2, SettlesOne DEF ConsumeFails, Reject, history, Promise!Results
  <2>2. CASE ~ \E c \in Calls : pc[c] = "initializing"
    BY <1>1, <1>9, <2>2 DEF ConsumeFails, history
  <2> QED
    BY <2>1, <2>2
<1>10. CASE ClientDispose
  BY <1>10, DisposeIsDispose DEF Promise!Next
<1>11. CASE LateConsume \/ ClientLost \/ ClientBack \/ ReplyQueueExpires
  BY <1>1, <1>11
  DEF LateConsume, ClientLost, ClientBack, ReplyQueueExpires, clientVars, history
<1>12. ASSUME NEW r \in Runs, NEW a \in Answers, HandlerAnswers(r, a)
       PROVE  [Promise!Next]_Promise!vars
  BY <1>12, AnswerIsAnswered
<1>13. ASSUME NEW c \in Calls, NEW i \in Copies, Deliver(c, i) \/ CommandExpires(c, i)
       PROVE  [Promise!Next]_Promise!vars
  BY <1>1, <1>13 DEF Deliver, CommandExpires, clientVars, history
<1>14. ASSUME NEW r \in Runs,
              HandlerTimesOut(r) \/ ReplyReaches(r) \/ ReplyEnds(r) \/ AcknowledgeFails(r)
       PROVE  [Promise!Next]_Promise!vars
  BY <1>1, <1>14
  DEF HandlerTimesOut, ReplyReaches, ReplyEnds, ReplyConfirmed, ReplyFails,
      AcknowledgeFails, clientVars, history
<1>15. CASE Listen \/ ServerLost \/ ServerBack \/ ServerDispose \/ UNCHANGED vars
  BY <1>1, <1>15
  DEF Listen, ServerLost, ServerBack, ServerDispose, vars, clientVars, history
<1> QED
  BY <1>2, <1>3, <1>4, <1>5, <1>6, <1>7, <1>8, <1>9, <1>10, <1>11, <1>12, <1>13, <1>14,
     <1>15
  DEF Next, SendEnds, ConsumeEnds

(***************************************************************************)
(* RpcClient and RpcServer together implement RemoteCall: a call settles   *)
(* once, and with an answer only if a handler has given that answer to it, *)
(* however commands and replies are repeated, lost or late.                *)
(***************************************************************************)
THEOREM AnswersReachTheirCalls == Safety => AnswersAreTheCalls
<1>1. Init => Promise!Init
  BY DEF Init, Promise!Init
<1>2. IInv /\ [Next]_vars => [Promise!Next]_Promise!vars
  BY StepRefines
<1> QED
  BY <1>1, <1>2, Invariance, PTL DEF Safety, AnswersAreTheCalls, Promise!Safety
===============================================================================
