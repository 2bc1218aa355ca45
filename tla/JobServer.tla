----------------------------- MODULE JobServer -----------------------------
(***************************************************************************)
(* JobServer with its MessageRelevancyChecker and Scheduler, on a queue of *)
(* the broker: deliveries, handlers, retries through the retry queue,      *)
(* acknowledgements by the tag that the checker remembers for the job, and *)
(* what a lost channel does to all of them.                                *)
(*                                                                         *)
(* A job is identified by its correlation id, which every retry of it      *)
(* carries too.  A message is a place in the broker; a run is one          *)
(* execution of handleJobMessage() past its lock.                          *)
(***************************************************************************)
EXTENDS Naturals, FiniteSets

CONSTANTS
  Jobs,         \* correlation ids of the jobs that are performed
  Malformed,    \* those whose content cannot be deserialized
  MaxAttempts,  \* JobHandlerManager.getMaxAttemptCount()
  Messages,     \* bound: places for messages in the broker, 1 .. n
  Runs,         \* bound: concurrent executions of handleJobMessage(), 1 .. n
  MaxChannels,  \* bound: channels opened in a behaviour
  MaxTag,       \* bound: deliveries on one channel
  MaxAsked,     \* bound: calls of scheduler.retry() by handlers
  EarlyReturn,  \* a retried message may return while the run that published
                \* it is not over: a short retry delay, or a handler that
                \* goes on after scheduler.retry()
  LateSends,    \* sendToQueue() may reach the broker when the retry queue that
                \* create() has declared has expired, or is about to
  Behaviours    \* what handlers do: "succeed", "throw", "discard"; "retry", and
                \* "reset" for a retry with resetAttempts; "timeout" for a retry that
                \* is rejected

ASSUME JobServerAssumption ==
  /\ "none" \notin Jobs
  /\ Malformed \subseteq Jobs
  /\ IsFiniteSet(Messages) /\ IsFiniteSet(Runs)
  /\ MaxAttempts \in Nat \ {0}
  /\ MaxChannels \in Nat \ {0}
  /\ MaxTag \in Nat \ {0}
  /\ MaxAsked \in Nat
  /\ EarlyReturn \in BOOLEAN /\ LateSends \in BOOLEAN
  /\ Behaviours \subseteq {"succeed", "throw", "retry", "reset", "discard", "timeout"}

VARIABLES
  \* the broker
  msg,      \* [place, job, attempt, tag] of each message
  channel,  \* "up"; "down"; "doomed": up, but the broker is about to close it
  opened,   \* channels opened so far
  nextTag,  \* last delivery tag given on the channel
  \* the job server
  state,    \* this.state
  locks,    \* MessageRelevancyChecker.correlationIds; 0: no entry
  run,      \* [pc, job, attempt, discarded, step, next, published, tag, epoch]
            \* of each run
  asked,    \* how often a handler has called scheduler.retry()
  \* history
  performed,  \* the jobs a client has published
  handled,    \* the <<job, attempt>> of which a run is over
  finished,   \* the jobs that succeeded or were discarded
  exhausted,  \* the <<job, attempt>> reported with MaxAttemptCountReachedError
  entangled,  \* the jobs with a run that has published two messages, or whose
              \* message has returned before it was over
  adrift      \* the jobs with a run that had called scheduler.retry() and was
              \* over before the broker had a message of it

vars == <<msg, channel, opened, nextTag, state, locks, run, asked, performed, handled,
          finished, exhausted, entangled, adrift>>

(***************************************************************************)
(* Places: "free"; "ready" in the queue; "unacked" on the channel;         *)
(* "delayed" in the retry queue until its TTL dead-letters it.             *)
(***************************************************************************)
NoMessage == [place |-> "free", job |-> "none", attempt |-> 0, tag |-> 0]

(***************************************************************************)
(* pc of a run:  handling    handle() or handleError() of the handler runs *)
(*               retrying    it awaits a scheduler.retry() of its own      *)
(*               acking      acknowledge() awaits a channel                *)
(*               over        only a retry() it has called still goes on    *)
(* step says how far scheduler.retry() has come, of the handler, who need  *)
(* not wait for it, and of the server: create() is awaited; sendToQueue()  *)
(* is; so is the broker's confirmation; or the caller was rejected while   *)
(* the command may still reach the broker (abandoned).                     *)
(* next is the attempt that the handler has asked for, published are the   *)
(* messages that the run's retries have put into a retry queue, epoch is   *)
(* the channel (opened) it began on.                                       *)
(***************************************************************************)
Callers == {"handler", "server"}
Unconfirmed == {"creating", "sending", "confirming"}
Active == Unconfirmed \cup {"abandoned"}

NoRun == [pc |-> "free", job |-> "none", attempt |-> 0, discarded |-> FALSE,
          step |-> [w \in Callers |-> "none"], next |-> 0,
          published |-> {}, tag |-> 0, epoch |-> 0]

NewRun(j, a) ==
  [NoRun EXCEPT !.pc = "handling", !.job = j, !.attempt = a, !.epoch = opened]

\* What is left of a run that has ended: its retries that still go on.
Left(rec) ==
  IF \E w \in Callers : rec.step[w] \in Active
  THEN [rec EXCEPT !.pc = "over", !.discarded = FALSE, !.tag = 0, !.epoch = 0]
  ELSE NoRun

\* The run r with a retry() at another step.
Stepped(r, w, step) == [run[r] EXCEPT !.step = [@ EXCEPT ![w] = step]]

Live(r) == run[r].pc \notin {"free", "over"}
FreeRuns == {r \in Runs : run[r].pc = "free"}
FreeMessages == {m \in Messages : msg[m].place = "free"}
\* Which of the free places is taken makes no difference.
AnyOf(S) == CHOOSE x \in S : TRUE

\* A message of a job is put in a free place of the broker.
Put(place, j, a) ==
  [msg EXCEPT ![AnyOf(FreeMessages)] =
     [place |-> place, job |-> j, attempt |-> a, tag |-> 0]]

Init ==
  /\ msg = [m \in Messages |-> NoMessage]
  /\ channel = "up"
  /\ opened = 1
  /\ nextTag = 0
  /\ state = "listening"
  /\ locks = [j \in Jobs |-> 0]
  /\ run = [r \in Runs |-> NoRun]
  /\ asked = 0
  /\ performed = {}
  /\ handled = {}
  /\ finished = {}
  /\ exhausted = {}
  /\ entangled = {}
  /\ adrift = {}

-----------------------------------------------------------------------------
(* MessageRelevancyChecker: the operations that change the map *)

\* Mutants: the lock is kept; a new channel keeps the tags of the old one.
StillLocked(j) == locks
AllStillLocked == locks

Unlocked(j) == [locks EXCEPT ![j] = 0]
UnlockedAll == [j \in Jobs |-> 0]

-----------------------------------------------------------------------------
\* JobClient.performInBackground() has published the job, with attempt 1.
Perform(j) ==
  /\ j \notin performed
  /\ FreeMessages # {}
  /\ msg' = Put("ready", j, 1)
  /\ performed' = performed \cup {j}
  /\ UNCHANGED <<channel, opened, nextTag, state, locks, run, asked, handled, finished,
                 exhausted, entangled, adrift>>

\* Mutant: lock() always succeeds.
StartsAnyway(j) == j \notin Malformed

\* lock() finds no entry, and the content can be read.
Starts(j) == locks[j] = 0 /\ j \notin Malformed

(***************************************************************************)
(* The broker delivers a message; handleJobMessage() up to its await.  The *)
(* new tag replaces the one in the checker whether the lock is free or     *)
(* not; with the lock taken, or content that cannot be read, it returns.   *)
(* (No message has an attempt beyond the last one, see TypeOK, so the      *)
(* discard that comes first in the try block never happens.)               *)
(***************************************************************************)
Deliver(m) ==
  LET j == msg[m].job
  IN /\ channel = "up"
     /\ state = "listening"
     /\ msg[m].place = "ready"
     /\ FreeRuns # {}
     /\ nextTag < MaxTag
     /\ nextTag' = nextTag + 1
     /\ msg' = [msg EXCEPT ![m].place = "unacked", ![m].tag = nextTag + 1]
     /\ locks' = [locks EXCEPT ![j] = nextTag + 1]
     /\ run' = IF Starts(j)
               THEN [run EXCEPT ![AnyOf(FreeRuns)] = NewRun(j, msg[m].attempt)]
               ELSE run
     /\ UNCHANGED <<channel, opened, state, asked, performed, handled, finished, exhausted,
                    entangled, adrift>>

(***************************************************************************)
(* The run r, now rec, reaches the end of handleJobMessage(): acknowledge  *)
(* the tag that the checker has now, whatever message it is of, and        *)
(* unlock.  The acknowledgement may be lost with the channel; without a    *)
(* channel acknowledge() waits for one.                                    *)
(***************************************************************************)
Complete(r, rec) ==
  LET j == run[r].job
      tag == locks[j]
      Acknowledged(m) == msg[m].place = "unacked" /\ msg[m].tag = tag
  IN /\ handled' = handled \cup {<<j, run[r].attempt>>}
     /\ \/ /\ state = "disposed"
           /\ run' = [run EXCEPT ![r] = Left(rec)]
           /\ UNCHANGED <<locks, msg, channel>>
        \/ /\ state # "disposed"
           /\ tag = 0 \/ channel # "down"
           /\ run' = [run EXCEPT ![r] = Left(rec)]
           /\ locks' = Unlocked(j)
           /\ \/ /\ msg' = [m \in Messages |->
                              IF tag # 0 /\ Acknowledged(m) THEN NoMessage ELSE msg[m]]
                 /\ UNCHANGED channel
              \/ /\ tag # 0 /\ channel = "up" /\ opened < MaxChannels
                 /\ channel' = "doomed"
                 /\ UNCHANGED msg
        \/ /\ state # "disposed" /\ tag # 0 /\ channel = "down"
           /\ run' = [run EXCEPT ![r] = [rec EXCEPT !.pc = "acking", !.tag = tag]]
           /\ UNCHANGED <<locks, msg, channel>>

\* The run r has called scheduler.retry() and is over.
CastsOff(r) ==
  adrift' = IF run[r].published = {} THEN adrift \cup {run[r].job} ELSE adrift

\* handle() returns, or handleError() does.
HandlerSucceeds(r) ==
  /\ "succeed" \in Behaviours
  /\ run[r].pc = "handling"
  /\ Complete(r, run[r])
  /\ IF run[r].step["handler"] = "none"
     THEN finished' = finished \cup {run[r].job} /\ UNCHANGED adrift
     ELSE CastsOff(r) /\ UNCHANGED finished
  /\ UNCHANGED <<opened, nextTag, state, asked, performed, exhausted, entangled>>

(***************************************************************************)
(* scheduler.retry(): ignored once discarded; beyond the last attempt it   *)
(* discards and reports; otherwise it awaits create(), then sendToQueue(). *)
(***************************************************************************)

\* Mutants: one attempt too many, one too few.
ExceedingOneLater(attempt) == attempt > MaxAttempts + 1
ExceedingOneEarlier(attempt) == attempt >= MaxAttempts

IsExceedingMaxAttemptCount(attempt) == attempt > MaxAttempts

Exhaust(r) ==
  /\ finished' = finished \cup {run[r].job}
  /\ exhausted' = exhausted \cup {<<run[r].job, run[r].attempt>>}

(***************************************************************************)
(* The handler calls scheduler.retry() itself and goes on, whether or not  *)
(* it waits for it.  (Bound: once in a run.)                               *)
(***************************************************************************)
HandlerRetries(r) ==
  \E next \in (IF "retry" \in Behaviours THEN {run[r].attempt + 1} ELSE {})
              \cup (IF "reset" \in Behaviours THEN {2} ELSE {}) :
     /\ run[r].pc = "handling"
     /\ run[r].step["handler"] = "none"
     /\ asked < MaxAsked
     /\ asked' = asked + 1
     /\ ~run[r].discarded
     /\ IF IsExceedingMaxAttemptCount(next)
        THEN /\ run' = [run EXCEPT ![r].discarded = TRUE]
             /\ Exhaust(r)
        ELSE /\ run' = [run EXCEPT ![r] =
                          [Stepped(r, "handler", "creating") EXCEPT !.next = next]]
             /\ UNCHANGED <<finished, exhausted>>
     /\ UNCHANGED <<msg, channel, opened, nextTag, state, locks, performed, handled,
                    entangled, adrift>>

\* The handler calls scheduler.discard() and goes on.
HandlerDiscards(r) ==
  /\ "discard" \in Behaviours
  /\ run[r].pc = "handling"
  /\ ~run[r].discarded
  /\ run' = [run EXCEPT ![r].discarded = TRUE]
  /\ finished' = finished \cup {run[r].job}
  /\ UNCHANGED <<msg, channel, opened, nextTag, state, locks, asked, performed, handled,
                 exhausted, entangled, adrift>>

(***************************************************************************)
(* handle() throws or times out and handleError() throws or is missing:    *)
(* "jobError", then scheduler.retry() as above, awaited.                   *)
(***************************************************************************)
HandlerThrows(r) ==
  LET again == ~IsExceedingMaxAttemptCount(run[r].attempt + 1)
  IN /\ "throw" \in Behaviours
     /\ run[r].pc = "handling"
     /\ \/ /\ state = "disposed"
           /\ run' = [run EXCEPT ![r] = Left(run[r])]
           /\ handled' = handled \cup {<<run[r].job, run[r].attempt>>}
           /\ UNCHANGED <<locks, msg, channel, finished, exhausted>>
        \/ /\ state # "disposed" /\ run[r].discarded
           /\ Complete(r, run[r])
           /\ UNCHANGED <<finished, exhausted>>
        \/ /\ state # "disposed" /\ ~run[r].discarded /\ ~again
           /\ Complete(r, run[r])
           /\ Exhaust(r)
        \/ /\ state # "disposed" /\ ~run[r].discarded /\ again
           /\ run' = [run EXCEPT ![r] =
                        [Stepped(r, "server", "creating") EXCEPT !.pc = "retrying"]]
           /\ UNCHANGED <<locks, msg, channel, handled, finished, exhausted>>
     /\ UNCHANGED <<opened, nextTag, state, asked, performed, entangled, adrift>>

-----------------------------------------------------------------------------
(* A retry() under way, of the caller w of the run r *)

NextAttempt(r, w) == IF w = "server" THEN run[r].attempt + 1 ELSE run[r].next

\* JobRetryQueueProvider.create(): the retry queue is declared.
QueueCreated(r, w) ==
  /\ run[r].step[w] = "creating"
  /\ channel = "up"
  /\ run' = [run EXCEPT ![r] = Stepped(r, w, "sending")]
  /\ UNCHANGED <<msg, channel, opened, nextTag, state, locks, asked, performed, handled,
                 finished, exhausted, entangled, adrift>>

\* sendToQueue() gets to the broker; nobody waits for it if it was abandoned.
Sends(r, w) == run[r].step[w] \in {"sending", "abandoned"} /\ channel = "up"
Sent(r, w) ==
  Stepped(r, w, IF run[r].step[w] = "sending" THEN "confirming" ELSE "done")

\* A run that is over is gone with the last of its retries.
Rest(r, rec) == IF run[r].pc = "over" THEN Left(rec) ELSE rec

\* The message is in a place of the broker from which it comes back.
Published(r, w, place) ==
  /\ Sends(r, w)
  /\ FreeMessages # {}
  /\ msg' = Put(place, run[r].job, NextAttempt(r, w))
  /\ run' = [run EXCEPT ![r] =
               Rest(r, [Sent(r, w) EXCEPT !.published = @ \cup {AnyOf(FreeMessages)}])]
  /\ entangled' = IF run[r].published # {} THEN entangled \cup {run[r].job} ELSE entangled
  /\ UNCHANGED <<channel, opened, nextTag, state, locks, asked, performed, handled,
                 finished, exhausted, adrift>>

\* Mutant: the next attempt goes straight to the job queue.
RetryPublishedAtOnce(r, w) == Published(r, w, "ready")

RetryPublished(r, w) == Published(r, w, "delayed")

(***************************************************************************)
(* Later than disuseExpireMs after create(), which is not repeated with    *)
(* sendToQueue(): the queue may have expired, or expire under the message. *)
(* The broker confirms all the same.                                       *)
(***************************************************************************)
RetryDropped(r, w) ==
  /\ LateSends
  /\ Sends(r, w)
  /\ run' = [run EXCEPT ![r] = Rest(r, Sent(r, w))]
  /\ UNCHANGED <<msg, channel, opened, nextTag, state, locks, asked, performed, handled,
                 finished, exhausted, entangled, adrift>>

\* The broker confirms it; retry() returns, for the server to its last lines.
RetryConfirmed(r, w) ==
  /\ run[r].step[w] = "confirming"
  /\ channel = "up"
  /\ \/ /\ w = "handler"
        /\ run' = [run EXCEPT ![r] = Rest(r, Stepped(r, w, "done"))]
        /\ UNCHANGED <<msg, channel, locks, handled, adrift>>
     \/ /\ w = "server"
        /\ Complete(r, Stepped(r, w, "done"))
        /\ CastsOff(r)
  /\ UNCHANGED <<opened, nextTag, state, asked, performed, finished, exhausted, entangled>>

(***************************************************************************)
(* retry() is rejected, which does not call back the command.  The server  *)
(* ends handleJobMessage() there, and unlocks nothing.                     *)
(***************************************************************************)
RetryFails(r, w) ==
  /\ "timeout" \in Behaviours
  /\ run[r].step[w] \in Unconfirmed
  /\ \E step \in (IF run[r].step[w] = "sending" THEN {"done", "abandoned"} ELSE {"done"}) :
       run' = [run EXCEPT ![r] = IF w = "server" THEN Left(Stepped(r, w, step))
                                 ELSE Rest(r, Stepped(r, w, step))]
  /\ handled' = IF w = "server" THEN handled \cup {<<run[r].job, run[r].attempt>>}
                ELSE handled
  /\ UNCHANGED <<msg, channel, opened, nextTag, state, locks, asked, performed, finished,
                 exhausted, entangled, adrift>>

\* The TTL of a message in the retry queue is over: it goes to the job queue.
DeadLettered(m) ==
  /\ msg[m].place = "delayed"
  /\ EarlyReturn \/ \A r \in Runs : Live(r) => m \notin run[r].published
  /\ msg' = [msg EXCEPT ![m].place = "ready"]
  /\ entangled' = IF \E r \in Runs : /\ Live(r) /\ run[r].job = msg[m].job
                                    /\ m \in run[r].published
                  THEN entangled \cup {msg[m].job} ELSE entangled
  /\ UNCHANGED <<channel, opened, nextTag, state, locks, run, asked, performed, handled,
                 finished, exhausted, adrift>>

-----------------------------------------------------------------------------
(***************************************************************************)
(* The channel or the connection is lost: the broker requeues what is not  *)
(* acknowledged; an unconfirmed publication will be made again.            *)
(***************************************************************************)
ChannelLost ==
  /\ channel = "doomed" \/ (channel = "up" /\ opened < MaxChannels)
  /\ channel' = "down"
  /\ msg' = [m \in Messages |->
               IF msg[m].place = "unacked"
               THEN [msg[m] EXCEPT !.place = "ready", !.tag = 0] ELSE msg[m]]
  /\ run' = [r \in Runs |->
               [run[r] EXCEPT !.step =
                  [w \in Callers |-> IF @[w] = "confirming" THEN "sending" ELSE @[w]]]]
  /\ UNCHANGED <<opened, nextTag, state, locks, asked, performed, handled, finished,
                 exhausted, entangled, adrift>>

(***************************************************************************)
(* "channelRecreated" or "reconnected": unlockAll(), then consume again.   *)
(* The acknowledgements that were waiting go out first, with tags the new  *)
(* channel does not know, for which the broker closes it.                  *)
(***************************************************************************)
ChannelRecreated ==
  /\ channel = "down"
  /\ opened' = opened + 1
  /\ channel' = IF \E r \in Runs : run[r].pc = "acking" THEN "doomed" ELSE "up"
  /\ nextTag' = 0
  /\ locks' = IF state = "listening" THEN UnlockedAll ELSE locks
  /\ run' = [r \in Runs |-> IF run[r].pc = "acking" THEN Left(run[r]) ELSE run[r]]
  /\ UNCHANGED <<msg, state, asked, performed, handled, finished, exhausted, entangled, adrift>>

\* acknowledge() times out before there is a channel: "acknowledgeError", unlock.
AcknowledgeFails(r) ==
  /\ run[r].pc = "acking"
  /\ channel = "down"
  /\ run' = [run EXCEPT ![r] = Left(run[r])]
  /\ locks' = Unlocked(run[r].job)
  /\ UNCHANGED <<msg, channel, opened, nextTag, state, asked, performed, handled, finished,
                 exhausted, entangled, adrift>>

\* dispose(): no deliveries any more; runs that end do not acknowledge.
Dispose ==
  /\ state = "listening"
  /\ state' = "disposed"
  /\ UNCHANGED <<msg, channel, opened, nextTag, locks, run, asked, performed, handled,
                 finished, exhausted, entangled, adrift>>

-----------------------------------------------------------------------------
HandlerEnds(r) == HandlerSucceeds(r) \/ HandlerThrows(r)

Working ==
  \/ \E j \in Jobs : Perform(j)
  \/ \E m \in Messages : Deliver(m) \/ DeadLettered(m)
  \/ \E r \in Runs :
       \/ HandlerEnds(r) \/ HandlerRetries(r) \/ HandlerDiscards(r)
       \/ AcknowledgeFails(r)
       \/ \E w \in Callers :
            \/ QueueCreated(r, w) \/ RetryPublished(r, w) \/ RetryDropped(r, w)
            \/ RetryConfirmed(r, w) \/ RetryFails(r, w)
  \/ ChannelLost \/ ChannelRecreated

Next == Working \/ Dispose

Safety == Init /\ [][Next]_vars

(***************************************************************************)
(* A server that is not disposed of, a broker that delivers, connections   *)
(* that are restored (bound: MaxChannels), and handlers that end or have a *)
(* timeoutMs.                                                              *)
(***************************************************************************)
Spec ==
  /\ Init /\ [][Working]_vars
  /\ WF_vars(ChannelRecreated)
  /\ WF_vars(ChannelLost /\ channel = "doomed")
  /\ \A m \in Messages : WF_vars(Deliver(m)) /\ WF_vars(DeadLettered(m))
  /\ \A r \in Runs :
       /\ WF_vars(HandlerEnds(r))
       /\ \A w \in Callers : /\ WF_vars(QueueCreated(r, w))
                             /\ WF_vars(RetryPublished(r, w))
                             /\ WF_vars(RetryConfirmed(r, w))

-----------------------------------------------------------------------------
(* What makes it correct *)

MessageRecord ==
  [place : {"free", "ready", "unacked", "delayed"}, job : Jobs \cup {"none"},
   attempt : 0 .. MaxAttempts, tag : Nat]

RunRecord ==
  [pc : {"free", "handling", "retrying", "acking", "over"},
   job : Jobs \cup {"none"}, attempt : 0 .. MaxAttempts, discarded : BOOLEAN,
   step : [Callers -> Active \cup {"none", "done"}], next : 0 .. MaxAttempts,
   published : SUBSET Messages, tag : Nat, epoch : Nat]

TypeOK ==
  /\ msg \in [Messages -> MessageRecord]
  /\ channel \in {"up", "down", "doomed"}
  /\ {opened, nextTag, asked} \subseteq Nat
  /\ state \in {"listening", "disposed"}
  /\ locks \in [Jobs -> Nat]
  /\ run \in [Runs -> RunRecord]
  /\ performed \subseteq Jobs
  /\ handled \subseteq Jobs \X (1 .. MaxAttempts)
  /\ finished \subseteq performed
  /\ exhausted \subseteq Jobs \X (1 .. MaxAttempts)
  /\ {entangled, adrift} \subseteq SUBSET performed

(***************************************************************************)
(* "Jobs are retried when failed": until a job has succeeded or has been   *)
(* discarded, the broker (not just this process) has a message of it.      *)
(* Not so for the jobs that are adrift: a run had called scheduler.retry() *)
(* and acknowledged with no message of it in the broker, because           *)
(* sendToQueue() was too late for the retry queue, the handler had not     *)
(* waited for it, or had gone on after it was rejected.                    *)
(***************************************************************************)
JobNotLost ==
  \A j \in performed \ (finished \cup adrift) : \E m \in Messages : msg[m].job = j

(***************************************************************************)
(* MaxAttemptCountReachedError comes at the last attempt, neither sooner   *)
(* nor later, and every earlier attempt has run, or still runs.            *)
(***************************************************************************)
ExhaustedAtLastAttempt ==
  \A e \in exhausted :
    /\ e[2] = MaxAttempts
    /\ \A a \in 1 .. MaxAttempts - 1 :
         \/ <<e[1], a>> \in handled
         \/ \E r \in Runs : run[r].job = e[1] /\ run[r].attempt = a

(***************************************************************************)
(* An acknowledgement removes a message only when its attempt of its job   *)
(* has been gone through to the end: "When delivery tag for a message has  *)
(* changed, it would mean that RabbitMQ has sent that message to the       *)
(* system again" (MessageRelevancyChecker).  So it is for as long as the   *)
(* channel lives, no retried message returns before its run is over, and   *)
(* no run of the job publishes two, as it does when the handler calls      *)
(* scheduler.retry() and then throws.                                      *)
(***************************************************************************)
AcksWhatWasHandled ==
  \A m \in Messages :
    opened = 1 /\ msg[m].place = "unacked" /\ msg'[m].place = "free" =>
      <<msg[m].job, msg[m].attempt>> \in handled' \/ msg[m].job \in entangled

AckedWasHandled == [][AcksWhatWasHandled]_vars

\* A job that can be read succeeds or is discarded in the end.
JobFinishes ==
  \A j \in Jobs \ Malformed : j \in performed ~> j \in finished

(***************************************************************************)
(* The lock of a job: two runs of it never overlap on the first channel,   *)
(* whatever returns early.  (On a later one they may: a run of an older    *)
(* channel that ends unlocks what a newer run has locked.)                 *)
(***************************************************************************)
OneRunOnAChannel ==
  \A r, s \in Runs :
    r # s /\ Live(r) /\ Live(s) /\ run[r].job = run[s].job =>
      ~(run[r].epoch = 1 /\ run[s].epoch = 1)
=============================================================================
