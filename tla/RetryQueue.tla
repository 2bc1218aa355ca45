----------------------------- MODULE RetryQueue -----------------------------
(***************************************************************************)
(* How the next attempt of a job waits for its turn: Scheduler.retry(),    *)
(* the retry delay calculators, JobRetryQueueProvider and its queues in    *)
(* the broker, which dead-letter their messages into the job queue, and    *)
(* which expire when nobody has declared them for some time.               *)
(*                                                                         *)
(* Time goes in ticks.  What is due happens before the next tick; commands *)
(* take as long as they like, up to the executor's commandTimeoutMs.       *)
(***************************************************************************)
EXTENDS Integers, Sequences, FiniteSets

CONSTANTS
  Jobs,            \* jobs that fail whenever they are handled
  Calculators,     \* the retry delay calculators to look at
  MaxAttempts,     \* JobHandlerManager.getMaxAttemptCount()
  DisuseExpire,    \* JobRetryQueueProvider.disuseExpireMs
  CommandTimeout,  \* commandTimeoutMs
  MaxArgument,     \* the broker's greatest x-expires
  MaxRepeats,      \* bound: publications that are repeated, in a behaviour
  MaxRetries       \* bound: retries of a job

\* A calculator's base is the fraction base[1] / base[2]; its kind says which it is.
ASSUME RetryQueueAssumption ==
  /\ {MaxAttempts, DisuseExpire, CommandTimeout, MaxArgument} \subseteq Nat \ {0}
  /\ {MaxRepeats, MaxRetries} \subseteq Nat
  /\ \A c \in Calculators : c.kind \in {"constant", "predefined", "linear", "exponential"}

VARIABLES
  calculator,  \* the handlers' calculator
  retry,       \* [pc, attempt, delay, number, waited, age] of the present attempt of each
               \* job: number: of its retries so far, which tells them apart; waited: ticks
               \* in this command; age: since it has declared its queue, as far as
               \* DisuseExpire
  queues,      \* the retry queues there are
  life,        \* ticks that each has left
  messages,    \* the <<[job, number, ttl, age], ...>> in each
  returned,    \* the <<job, number>> in the job queue again
  repeats,
  inTime       \* history: the <<job, number>> published soon after the declaration, until
               \* they are handled

vars == <<calculator, retry, queues, life, messages, returned, repeats, inTime>>

-----------------------------------------------------------------------------
(* The calculators, in fractions <<n, d>> *)

Whole(i) == <<i, 1>>
Value(x) == x[1] \div x[2]
Floor(x) == Whole(Value(x))
IsInteger(x) == x[1] % x[2] = 0
AtMost(i, x) == IF x[1] > i * x[2] THEN Whole(i) ELSE x
AtLeast(i, x) == IF x[1] < i * x[2] THEN Whole(i) ELSE x

\* Mutant: max is forgotten.
NotCapped(c, attempt) == AtLeast(c.min, <<c.base[1] * attempt, c.base[2]>>)

Constant(c, attempt) == Whole(c.timeout)

Predefined(c, attempt) ==
  Whole(c.timeouts[IF attempt < Len(c.timeouts) THEN attempt ELSE Len(c.timeouts)])

Linear(c, attempt) == AtMost(c.max, AtLeast(c.min, <<c.base[1] * attempt, c.base[2]>>))

Exponential(c, attempt) ==
  Floor(AtMost(c.max, AtLeast(c.min, <<c.base[1] ^ (attempt - 1) * c.multiplier,
                                       c.base[2] ^ (attempt - 1)>>)))

Calculate(attempt) ==
  CASE calculator.kind = "constant" -> Constant(calculator, attempt)
    [] calculator.kind = "predefined" -> Predefined(calculator, attempt)
    [] calculator.kind = "linear" -> Linear(calculator, attempt)
    [] calculator.kind = "exponential" -> Exponential(calculator, attempt)

\* calculateRetryDelayMs() refuses what is not a positive integer.
IsDelay(x) == IsInteger(x) /\ Value(x) \in Nat \ {0}

-----------------------------------------------------------------------------
(* The queues *)

\* Mutant: one retry queue for all delays.
OneQueue(delay) == 1

\* Which queue, and its x-expires.
QueueOf(delay) == delay
Expires(delay) == DisuseExpire + delay

Delays == 1 .. MaxArgument
NoRetry ==
  [pc |-> "handling", attempt |-> 1, delay |-> 0, number |-> 0, waited |-> 0, age |-> 0]

Init ==
  /\ calculator \in Calculators
  /\ retry = [j \in Jobs |-> NoRetry]
  /\ queues = {}
  /\ life = [q \in Delays |-> 0]
  /\ messages = [q \in Delays |-> <<>>]
  /\ returned = {}
  /\ repeats = 0
  /\ inTime = {}

IsExceedingMaxAttemptCount(attempt) == attempt > MaxAttempts
CurrentAttempt(j, resetAttempts) == IF resetAttempts THEN 1 ELSE retry[j].attempt
NextAttempt(j) == retry[j].attempt + 1

\* The handler fails and scheduler.retry() goes as far as create(), unless this was the
\* last attempt, or the delay cannot be calculated: then retry() is rejected.
Retry(j, resetAttempts) ==
  LET currentAttempt == CurrentAttempt(j, resetAttempts)
      isLast == IsExceedingMaxAttemptCount(currentAttempt + 1)
      delay == Calculate(currentAttempt)
  IN /\ retry[j].pc = "handling"
     /\ isLast \/ retry[j].number < MaxRetries
     /\ retry' = [retry EXCEPT ![j] =
                    IF isLast
                    THEN [@ EXCEPT !.pc = "discarded"]
                    ELSE IF ~IsDelay(delay) THEN [@ EXCEPT !.pc = "rejected"]
                    ELSE [@ EXCEPT !.pc = "creating", !.attempt = currentAttempt,
                                   !.delay = Value(delay),
                                   !.number = retry[j].number + 1, !.waited = 0]]
     /\ UNCHANGED <<calculator, queues, life, messages, returned, repeats, inTime>>

\* Mutant: a queue that is there is not declared again.
CreatedOnce(j) ==
  LET q == QueueOf(retry[j].delay)
      x == Expires(retry[j].delay)
  IN /\ retry[j].pc = "creating" /\ x <= MaxArgument
     /\ queues' = queues \cup {q}
     /\ life' = IF q \in queues THEN life ELSE [life EXCEPT ![q] = x]
     /\ retry' = [retry EXCEPT ![j].pc = "sending", ![j].waited = 0, ![j].age = 0]
     /\ UNCHANGED <<calculator, messages, returned, repeats, inTime>>

\* create(): the broker declares the queue, which puts off its end.
Created(j) ==
  LET q == QueueOf(retry[j].delay)
      x == Expires(retry[j].delay)
  IN /\ retry[j].pc = "creating" /\ x <= MaxArgument
     /\ queues' = queues \cup {q}
     /\ life' = [life EXCEPT ![q] = x]
     /\ retry' = [retry EXCEPT ![j].pc = "sending", ![j].waited = 0, ![j].age = 0]
     /\ UNCHANGED <<calculator, messages, returned, repeats, inTime>>

\* The broker refuses an x-expires that is too large.
Refused(j) ==
  /\ retry[j].pc = "creating" /\ Expires(retry[j].delay) > MaxArgument
  /\ retry' = [retry EXCEPT ![j].pc = "rejected"]
  /\ UNCHANGED <<calculator, queues, life, messages, returned, repeats, inTime>>

\* sendToQueue(): the message is in the queue, or nowhere when that has gone.
Sent(j) ==
  LET q == QueueOf(retry[j].delay)
      m == [job |-> j, number |-> retry[j].number, ttl |-> retry[j].delay, age |-> 0]
  IN /\ retry[j].pc = "sending"
     /\ messages' = IF q \in queues THEN [messages EXCEPT ![q] = Append(@, m)] ELSE messages
     /\ retry' = [retry EXCEPT ![j].pc = "confirming"]
     /\ inTime' = IF retry[j].age < DisuseExpire THEN inTime \cup {<<j, retry[j].number>>}
                  ELSE inTime
     /\ UNCHANGED <<calculator, queues, life, returned, repeats>>

\* The channel is lost before the broker has confirmed: it is sent again.
SentAgain(j) ==
  /\ retry[j].pc = "confirming"
  /\ repeats < MaxRepeats
  /\ repeats' = repeats + 1
  /\ retry' = [retry EXCEPT ![j].pc = "sending"]
  /\ UNCHANGED <<calculator, queues, life, messages, returned, inTime>>

\* The broker confirms, wherever the message has gone.
Confirmed(j) ==
  /\ retry[j].pc = "confirming"
  /\ retry' = [retry EXCEPT ![j] = [NoRetry EXCEPT !.pc = "waiting",
                                                   !.attempt = NextAttempt(j),
                                                   !.delay = retry[j].delay,
                                                   !.number = retry[j].number]]
  /\ UNCHANGED <<calculator, queues, life, messages, returned, repeats, inTime>>

\* A command times out, and retry() is rejected.
TimesOut(j) ==
  /\ retry[j].pc \in {"creating", "sending", "confirming"}
  /\ retry[j].waited = CommandTimeout
  /\ retry' = [retry EXCEPT ![j].pc = "rejected"]
  /\ UNCHANGED <<calculator, queues, life, messages, returned, repeats, inTime>>

\* The next attempt has come back and is handled.
Handled(j) ==
  /\ retry[j].pc = "waiting"
  /\ <<j, retry[j].number>> \in returned
  /\ retry' = [retry EXCEPT ![j].pc = "handling"]
  /\ returned' = returned \ {<<j, retry[j].number>>}
  /\ inTime' = inTime \ {<<j, retry[j].number>>}
  /\ UNCHANGED <<calculator, queues, life, messages, repeats>>

-----------------------------------------------------------------------------
(* The broker and its clock *)

IsDue(q) == messages[q] # <<>> /\ Head(messages[q]).age >= Head(messages[q]).ttl

\* The message at the head of a queue is dead-lettered into the job queue.
DeadLettered(q) ==
  /\ IsDue(q)
  /\ returned' = returned \cup {<<Head(messages[q]).job, Head(messages[q]).number>>}
  /\ messages' = [messages EXCEPT ![q] = Tail(@)]
  /\ UNCHANGED <<calculator, retry, queues, life, repeats, inTime>>

\* A queue expires, and its messages with it.
Expired(q) ==
  /\ q \in queues /\ life[q] = 0
  /\ queues' = queues \ {q}
  /\ messages' = [messages EXCEPT ![q] = <<>>]
  /\ UNCHANGED <<calculator, retry, life, returned, repeats, inTime>>

Pending(j) == retry[j].pc \in {"creating", "sending", "confirming"}

Tick ==
  /\ queues # {} \/ \E j \in Jobs : Pending(j)
  /\ \A q \in queues : ~IsDue(q) /\ life[q] > 0
  /\ \A j \in Jobs : ~(Pending(j) /\ retry[j].waited = CommandTimeout)
  /\ life' = [q \in Delays |-> IF q \in queues THEN life[q] - 1 ELSE 0]
  /\ messages' = [q \in Delays |->
                    [i \in DOMAIN messages[q] |-> [messages[q][i] EXCEPT !.age = @ + 1]]]
  /\ retry' = [j \in Jobs |->
                 IF Pending(j)
                 THEN [retry[j] EXCEPT !.waited = @ + 1,
                                       !.age = IF @ < DisuseExpire THEN @ + 1 ELSE @]
                 ELSE retry[j]]
  /\ UNCHANGED <<calculator, queues, returned, repeats, inTime>>

-----------------------------------------------------------------------------
Next ==
  \/ \E j \in Jobs : \/ \E resetAttempts \in BOOLEAN : Retry(j, resetAttempts)
                     \/ Created(j) \/ Refused(j) \/ Sent(j) \/ SentAgain(j)
                     \/ Confirmed(j) \/ TimesOut(j) \/ Handled(j)
  \/ \E q \in Delays : DeadLettered(q) \/ Expired(q)
  \/ Tick

Spec == Init /\ [][Next]_vars

-----------------------------------------------------------------------------
(* What makes it correct *)

RetryRecord ==
  [pc : {"handling", "creating", "sending", "confirming", "waiting", "discarded",
         "rejected"},
   attempt : Nat \ {0}, delay : Nat, number : Nat, waited : Nat, age : Nat]
Message == [job : Jobs, number : Nat, ttl : Delays, age : Nat]

\* The values that the variables take.
TypeOK ==
  /\ calculator \in Calculators
  /\ retry \in [Jobs -> RetryRecord]
  /\ queues \subseteq Delays
  /\ life \in [Delays -> Nat]
  /\ messages \in [Delays -> Seq(Message)]
  /\ returned \subseteq Jobs \X Nat
  /\ repeats \in Nat
  /\ inTime \subseteq Jobs \X Nat

(***************************************************************************)
(* A job that waits is in its retry queue or has come back, if only one    *)
(* sendToQueue() of it has reached the broker within disuseExpireMs of the *)
(* declaration: the queue does not expire under it, whatever else was in   *)
(* the queue before.  Later than that the job may vanish without an error. *)
(***************************************************************************)
InTimeIsKept ==
  \A j \in Jobs :
    LET attempt == <<j, retry[j].number>>
    IN retry[j].pc = "waiting" /\ attempt \in inTime =>
         \/ attempt \in returned
         \/ \E q \in queues : \E i \in DOMAIN messages[q] :
              <<messages[q][i].job, messages[q][i].number>> = attempt

(***************************************************************************)
(* An attempt comes back when its delay is over and not later: no message  *)
(* waits behind one with a longer delay (only the head of a queue expires).*)
(***************************************************************************)
BackOnTime ==
  \A q \in Delays : \A i \in DOMAIN messages[q] : messages[q][i].age <= messages[q][i].ttl

(***************************************************************************)
(* The delays of a job's attempts stay within the bounds of its calculator *)
(* and do not shrink from one attempt to the next, whichever of the two    *)
(* bounds cuts them off, until resetAttempts begins anew (the bases looked *)
(* at are at least 1, the predefined timeouts grow).  Only a linear        *)
(* calculator gives a fraction, for which retry() is rejected: its job     *)
(* keeps its lock and waits for the channel to be lost.                    *)
(***************************************************************************)
DelaysGrow ==
  [][\A j \in Jobs :
       /\ retry[j].pc = "handling" /\ retry'[j].pc = "creating" =>
            /\ retry'[j].attempt # 1 => retry'[j].delay >= retry[j].delay
            /\ calculator.kind \in {"linear", "exponential"} =>
                 retry'[j].delay \in calculator.min .. calculator.max
       /\ retry[j].pc = "handling" /\ retry'[j].pc = "rejected" =>
            calculator.kind = "linear" /\ calculator.base[2] > 1]_vars
=============================================================================
