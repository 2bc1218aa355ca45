-------------------------- MODULE RetryQueueProofs --------------------------
(***************************************************************************)
(* The safety properties of RetryQueue.tla, proved for every set of jobs   *)
(* and of calculators, and for all values of the options.                  *)
(***************************************************************************)
EXTENDS RetryQueue, SequenceTheorems, TLAPS

-----------------------------------------------------------------------------
(* The inductive invariant *)

\* A queue holds messages of its own delay, the oldest first, and none that should
\* have left it before the last tick.
QueueInv ==
  \A q \in Delays :
    /\ q \notin queues => messages[q] = <<>>
    /\ \A i \in 1 .. Len(messages[q]) :
         /\ messages[q][i].ttl = q /\ messages[q][i].age <= q
         /\ \A k \in i .. Len(messages[q]) : messages[q][k].age <= messages[q][i].age

\* What create() declares is there for disuseExpireMs, and for a delay after that.
DeclaredInv ==
  \A j \in Jobs :
    LET q == retry[j].delay
    IN /\ retry[j].pc = "creating" => q # 0
       /\ retry[j].pc \in {"sending", "confirming"} =>
            /\ q \in Delays
            /\ retry[j].age < DisuseExpire =>
                 q \in queues /\ life[q] + retry[j].age >= DisuseExpire + q

\* An attempt has come back, or will be due before its queue expires.
Kept(attempt) ==
  \/ attempt \in returned
  \/ \E q \in queues : \E i \in 1 .. Len(messages[q]) :
       /\ <<messages[q][i].job, messages[q][i].number>> = attempt
       /\ life[q] + messages[q][i].age > q

KeptInv == \A attempt \in inTime : Kept(attempt)

IInv == TypeOK /\ QueueInv /\ DeclaredInv /\ KeptInv

-----------------------------------------------------------------------------
(* What the messages are, and what a step leaves as it was *)

LEMMA MessagesAre ==
  ASSUME TypeOK, NEW q \in Delays
  PROVE  /\ messages[q] \in Seq(Message) /\ Len(messages[q]) \in Nat
         /\ DOMAIN messages[q] = 1 .. Len(messages[q])
         /\ \A i \in 1 .. Len(messages[q]) : /\ messages[q][i] \in Message
                                             /\ messages[q][i].age \in Nat
<1>1. messages[q] \in Seq(Message)
  BY DEF TypeOK
<1>2. \A i \in 1 .. Len(messages[q]) : messages[q][i] \in Message
  BY <1>1, ElementOfSeq
<1>3. \A i \in 1 .. Len(messages[q]) : messages[q][i].age \in Nat
  BY <1>2 DEF Message
<1> QED
  BY <1>1, <1>2, <1>3, LenProperties

\* An attempt goes on; nothing changes in the broker.
LEMMA RetryGoesOn ==
  ASSUME IInv, NEW j \in Jobs, NEW new \in RetryRecord,
         retry' = [retry EXCEPT ![j] = new],
         UNCHANGED <<calculator, queues, life, messages, returned, inTime>>,
         repeats' \in Nat,
         new.pc = "creating" => new.delay # 0,
         new.pc \in {"sending", "confirming"} =>
           /\ retry[j].pc \in {"sending", "confirming"}
           /\ new.delay = retry[j].delay /\ new.age = retry[j].age
  PROVE  IInv'
<1>1. /\ retry' \in [Jobs -> RetryRecord] /\ retry'[j] = new
      /\ \A k \in Jobs : k # j => retry'[k] = retry[k]
  BY DEF IInv, TypeOK
<1>2. TypeOK'
  BY <1>1 DEF IInv, TypeOK
<1>3. QueueInv'
  BY DEF IInv, QueueInv
<1>4. KeptInv'
  BY DEF IInv, KeptInv, Kept
<1>5. DeclaredInv'
  BY <1>1 DEF IInv, DeclaredInv
<1> QED
  BY <1>2, <1>3, <1>4, <1>5 DEF IInv

-----------------------------------------------------------------------------
(* What a step of retry() does *)

LEMMA RetryStep ==
  ASSUME IInv, NEW j \in Jobs, NEW resetAttempts \in BOOLEAN, Retry(j, resetAttempts)
  PROVE  IInv'
<1> DEFINE current == CurrentAttempt(j, resetAttempts)
           delay == Calculate(current)
           discarded == [retry[j] EXCEPT !.pc = "discarded"]
           rejected == [retry[j] EXCEPT !.pc = "rejected"]
           value == Value(delay)
           number == retry[j].number + 1
           creating == [retry[j] EXCEPT !.pc = "creating", !.attempt = current,
                                        !.delay = value, !.number = number, !.waited = 0]
<1>1. retry[j] \in RetryRecord /\ current \in Nat \ {0} /\ number \in Nat
  BY DEF IInv, TypeOK, RetryRecord, CurrentAttempt
<1>2. /\ discarded \in RetryRecord /\ discarded.pc = "discarded"
      /\ rejected \in RetryRecord /\ rejected.pc = "rejected"
  BY <1>1 DEF RetryRecord
<1>3. IsDelay(delay) => /\ creating \in RetryRecord
                        /\ creating.pc = "creating" /\ creating.delay # 0
  <2>1. IsDelay(delay) => value \in Nat \ {0}
    BY DEF IsDelay
  <2> HIDE DEF value, current, number
  <2> QED
    BY <1>1, <2>1 DEF RetryRecord
<1>4. /\ UNCHANGED <<calculator, queues, life, messages, returned, inTime>>
      /\ repeats' \in Nat
  BY DEF Retry, IInv, TypeOK
<1>5. \/ retry' = [retry EXCEPT ![j] = discarded]
      \/ retry' = [retry EXCEPT ![j] = rejected]
      \/ IsDelay(delay) /\ retry' = [retry EXCEPT ![j] = creating]
  <2>1. retry' = [retry EXCEPT ![j] = IF IsExceedingMaxAttemptCount(current + 1)
                                      THEN discarded
                                      ELSE IF ~IsDelay(delay) THEN rejected ELSE creating]
    BY DEF Retry
  <2> HIDE DEF delay, discarded, rejected, creating
  <2> QED
    BY <2>1
<1> HIDE DEF current, delay, value, number, discarded, rejected, creating
<1>6. CASE retry' = [retry EXCEPT ![j] = discarded]
  BY <1>2, <1>4, <1>6, RetryGoesOn
<1>7. CASE retry' = [retry EXCEPT ![j] = rejected]
  BY <1>2, <1>4, <1>7, RetryGoesOn
<1>8. CASE IsDelay(delay) /\ retry' = [retry EXCEPT ![j] = creating]
  BY <1>3, <1>4, <1>8, RetryGoesOn
<1> QED
  BY <1>5, <1>6, <1>7, <1>8

\* The queue is declared.
LEMMA CreatedStep == ASSUME IInv, NEW j \in Jobs, Created(j) PROVE IInv'
<1> DEFINE q == retry[j].delay
           new == [retry[j] EXCEPT !.pc = "sending", !.waited = 0, !.age = 0]
<1>1. /\ DisuseExpire \in Nat \ {0} /\ MaxArgument \in Nat
      /\ DisuseExpire + q <= MaxArgument
  BY RetryQueueAssumption DEF Created, Expires
<1>2. q \in Nat /\ q # 0
  BY DEF Created, IInv, TypeOK, RetryRecord, DeclaredInv
<1>3. q \in Delays
  BY <1>1, <1>2 DEF Delays
<1>4. /\ queues' = queues \cup {q} /\ life' = [life EXCEPT ![q] = DisuseExpire + q]
      /\ UNCHANGED <<calculator, messages, returned, repeats, inTime>>
  BY DEF Created, QueueOf, Expires
<1>5. new \in RetryRecord /\ new.pc = "sending" /\ new.delay = q /\ new.age = 0
  BY DEF IInv, TypeOK, RetryRecord
<1>6. retry' = [retry EXCEPT ![j] = new]
  BY DEF Created
<1> HIDE DEF q, new
<1>7. /\ retry' \in [Jobs -> RetryRecord] /\ retry'[j] = new
      /\ \A k \in Jobs : k # j => retry'[k] = retry[k]
  BY <1>5, <1>6 DEF IInv, TypeOK
<1>8. /\ life' \in [Delays -> Nat] /\ life'[q] = DisuseExpire + q
      /\ \A p \in Delays : p # q => life'[p] = life[p]
  BY <1>1, <1>2, <1>3, <1>4 DEF IInv, TypeOK
<1>9. TypeOK'
  BY <1>3, <1>4, <1>7, <1>8 DEF IInv, TypeOK
<1>10. QueueInv'
  BY <1>4 DEF IInv, QueueInv
<1>11. DeclaredInv'
  <2>1. ASSUME NEW k \in Jobs, k # j, retry[k].pc \in {"sending", "confirming"},
               retry[k].age < DisuseExpire
        PROVE  /\ retry[k].delay \in queues'
               /\ life'[retry[k].delay] + retry[k].age >= DisuseExpire + retry[k].delay
    <3>1. /\ retry[k].delay \in Delays /\ retry[k].delay \in queues
          /\ life[retry[k].delay] + retry[k].age >= DisuseExpire + retry[k].delay
      BY <2>1 DEF IInv, DeclaredInv
    <3>2. retry[k].age \in Nat /\ retry[k].delay \in Nat
      BY DEF IInv, TypeOK, RetryRecord
    <3>3. CASE retry[k].delay = q
      BY <1>1, <1>2, <1>4, <1>8, <3>2, <3>3
    <3>4. CASE retry[k].delay # q
      BY <1>4, <1>8, <3>1, <3>4
    <3> QED
      BY <3>3, <3>4
  <2>2. /\ retry'[j].pc = "sending" /\ retry'[j].delay = q /\ retry'[j].age = 0
        /\ q \in queues' /\ life'[q] + 0 >= DisuseExpire + q
    BY <1>1, <1>2, <1>4, <1>5, <1>7, <1>8
  <2> QED
    BY <1>3, <1>7, <2>1, <2>2 DEF IInv, DeclaredInv
<1>12. KeptInv'
  <2> SUFFICES ASSUME NEW attempt \in inTime', attempt \notin returned' PROVE Kept(attempt)'
    BY DEF KeptInv, Kept
  <2>1. PICK p \in queues : \E i \in 1 .. Len(messages[p]) :
          /\ <<messages[p][i].job, messages[p][i].number>> = attempt
          /\ life[p] + messages[p][i].age > p
    BY <1>4 DEF IInv, KeptInv, Kept
  <2>2. PICK i \in 1 .. Len(messages[p]) :
          /\ <<messages[p][i].job, messages[p][i].number>> = attempt
          /\ life[p] + messages[p][i].age > p
    BY <2>1
  <2>3. p \in Delays /\ p \in queues' /\ messages' = messages
    BY <1>4 DEF IInv, TypeOK
  <2>4. messages[p][i].age \in Nat
    BY <2>3, MessagesAre DEF IInv
  <2>5. life'[p] + messages[p][i].age > p
    <3>1. CASE p = q
      BY <1>1, <1>2, <1>8, <2>4, <3>1
    <3>2. CASE p # q
      BY <1>8, <2>2, <2>3, <3>2
    <3> QED
      BY <3>1, <3>2
  <2> QED
    BY <2>2, <2>3, <2>5 DEF Kept
<1> QED
  BY <1>9, <1>10, <1>11, <1>12 DEF IInv

\* The broker refuses to declare it, or a command times out.
LEMMA RejectedStep ==
  ASSUME IInv, NEW j \in Jobs, Refused(j) \/ TimesOut(j)
  PROVE  IInv'
<1> DEFINE new == [retry[j] EXCEPT !.pc = "rejected"]
<1>1. new \in RetryRecord /\ new.pc = "rejected"
  BY DEF IInv, TypeOK, RetryRecord
<1>2. /\ retry' = [retry EXCEPT ![j] = new]
      /\ UNCHANGED <<calculator, queues, life, messages, returned, repeats, inTime>>
  BY DEF Refused, TimesOut
<1>3. repeats' \in Nat
  BY <1>2 DEF IInv, TypeOK
<1> HIDE DEF new
<1> QED
  BY <1>1, <1>2, <1>3, RetryGoesOn

\* The message is to be sent again.
LEMMA SentAgainStep == ASSUME IInv, NEW j \in Jobs, SentAgain(j) PROVE IInv'
<1> DEFINE new == [retry[j] EXCEPT !.pc = "sending"]
<1>1. /\ new \in RetryRecord /\ new.pc = "sending"
      /\ new.delay = retry[j].delay /\ new.age = retry[j].age
  BY DEF IInv, TypeOK, RetryRecord
<1>2. /\ retry[j].pc = "confirming" /\ retry' = [retry EXCEPT ![j] = new]
      /\ UNCHANGED <<calculator, queues, life, messages, returned, inTime>>
  BY DEF SentAgain
<1>3. repeats' \in Nat
  BY DEF SentAgain, IInv, TypeOK
<1> HIDE DEF new
<1> QED
  BY <1>1, <1>2, <1>3, RetryGoesOn

\* The message is confirmed.
LEMMA ConfirmedStep == ASSUME IInv, NEW j \in Jobs, Confirmed(j) PROVE IInv'
<1> DEFINE new == [NoRetry EXCEPT !.pc = "waiting", !.attempt = NextAttempt(j),
                                  !.delay = retry[j].delay, !.number = retry[j].number]
<1>1. new \in RetryRecord /\ new.pc = "waiting"
  <2>1. /\ retry[j].attempt \in Nat \ {0}
        /\ retry[j].delay \in Nat /\ retry[j].number \in Nat
    BY DEF IInv, TypeOK, RetryRecord
  <2>2. NextAttempt(j) \in Nat \ {0}
    BY <2>1 DEF NextAttempt
  <2>3. NoRetry \in RetryRecord
    BY DEF NoRetry, RetryRecord
  <2> QED
    BY <2>1, <2>2, <2>3 DEF RetryRecord
<1>2. /\ retry' = [retry EXCEPT ![j] = new]
      /\ UNCHANGED <<calculator, queues, life, messages, returned, repeats, inTime>>
  BY DEF Confirmed
<1>3. repeats' \in Nat
  BY <1>2 DEF IInv, TypeOK
<1> HIDE DEF new
<1> QED
  BY <1>1, <1>2, <1>3, RetryGoesOn

\* The next attempt is handled.
LEMMA HandledStep == ASSUME IInv, NEW j \in Jobs, Handled(j) PROVE IInv'
<1> DEFINE new == [retry[j] EXCEPT !.pc = "handling"]
           this == <<j, retry[j].number>>
<1>1. new \in RetryRecord /\ new.pc = "handling"
  BY DEF IInv, TypeOK, RetryRecord
<1>2. /\ retry' = [retry EXCEPT ![j] = new]
      /\ returned' = returned \ {this} /\ inTime' = inTime \ {this}
      /\ UNCHANGED <<calculator, queues, life, messages, repeats>>
  BY DEF Handled
<1> HIDE DEF new, this
<1>3. /\ retry' \in [Jobs -> RetryRecord] /\ retry'[j] = new
      /\ \A k \in Jobs : k # j => retry'[k] = retry[k]
  BY <1>1, <1>2 DEF IInv, TypeOK
<1>4. TypeOK'
  BY <1>2, <1>3 DEF IInv, TypeOK
<1>5. QueueInv'
  BY <1>2 DEF IInv, QueueInv
<1>6. DeclaredInv'
  BY <1>1, <1>2, <1>3 DEF IInv, DeclaredInv
<1>7. KeptInv'
  BY <1>2 DEF IInv, KeptInv, Kept
<1> QED
  BY <1>4, <1>5, <1>6, <1>7 DEF IInv

\* A message is sent: it goes to the end of the queue that is there.
LEMMA SentStep == ASSUME IInv, NEW j \in Jobs, Sent(j) PROVE IInv'
<1> DEFINE q == retry[j].delay
           number == retry[j].number
           m == [job |-> j, number |-> number, ttl |-> q, age |-> 0]
           new == [retry[j] EXCEPT !.pc = "confirming"]
<1>1. /\ retry[j].pc = "sending" /\ retry[j].age \in Nat
      /\ q \in Delays /\ q \in Nat
      /\ number \in Nat
  BY DEF Sent, IInv, TypeOK, RetryRecord, DeclaredInv
<1>2. retry[j].age < DisuseExpire =>
        q \in queues /\ life[q] + retry[j].age >= DisuseExpire + q
  BY <1>1 DEF IInv, DeclaredInv
<1>3. /\ m \in Message /\ m.job = j /\ m.number = number /\ m.ttl = q /\ m.age = 0
  BY <1>1 DEF Message
<1>4. /\ new \in RetryRecord /\ new.pc = "confirming"
      /\ new.delay = retry[j].delay /\ new.age = retry[j].age
  BY DEF IInv, TypeOK, RetryRecord
<1>5. /\ messages' = IF q \in queues THEN [messages EXCEPT ![q] = Append(messages[q], m)]
                     ELSE messages
      /\ retry' = [retry EXCEPT ![j] = new]
      /\ inTime' = IF retry[j].age < DisuseExpire THEN inTime \cup {<<j, number>>}
                   ELSE inTime
      /\ UNCHANGED <<calculator, queues, life, returned, repeats>>
  BY DEF Sent, QueueOf
<1> HIDE DEF q, number, m, new
<1>6. /\ messages[q] \in Seq(Message) /\ Len(messages[q]) \in Nat
      /\ \A i \in 1 .. Len(messages[q]) : messages[q][i].age \in Nat
  BY <1>1, MessagesAre DEF IInv
<1>7. /\ Append(messages[q], m) \in Seq(Message)
      /\ Len(Append(messages[q], m)) = Len(messages[q]) + 1
      /\ \A i \in 1 .. Len(messages[q]) : Append(messages[q], m)[i] = messages[q][i]
      /\ Append(messages[q], m)[Len(messages[q]) + 1] = m
  BY <1>3, <1>6
<1>8. /\ retry' \in [Jobs -> RetryRecord] /\ retry'[j] = new
      /\ \A k \in Jobs : k # j => retry'[k] = retry[k]
  BY <1>4, <1>5 DEF IInv, TypeOK
<1>9. /\ messages' \in [Delays -> Seq(Message)]
      /\ \A p \in Delays : p # q \/ q \notin queues => messages'[p] = messages[p]
      /\ q \in queues => messages'[q] = Append(messages[q], m)
  BY <1>1, <1>5, <1>7 DEF IInv, TypeOK
<1>10. TypeOK'
  BY <1>1, <1>5, <1>8, <1>9 DEF IInv, TypeOK
<1>11. DeclaredInv'
  BY <1>1, <1>2, <1>4, <1>5, <1>8 DEF IInv, DeclaredInv
<1>12. QueueInv'
  <2> SUFFICES ASSUME NEW p \in Delays
               PROVE  /\ p \notin queues' => messages'[p] = <<>>
                      /\ \A i \in 1 .. Len(messages'[p]) :
                           /\ messages'[p][i].ttl = p /\ messages'[p][i].age <= p
                           /\ \A k \in i .. Len(messages'[p]) :
                                messages'[p][k].age <= messages'[p][i].age
    BY DEF QueueInv
  <2>1. /\ p \notin queues => messages[p] = <<>>
        /\ \A i \in 1 .. Len(messages[p]) :
             /\ messages[p][i].ttl = p /\ messages[p][i].age <= p
             /\ \A k \in i .. Len(messages[p]) : messages[p][k].age <= messages[p][i].age
    BY DEF IInv, QueueInv
  <2>2. CASE p # q \/ q \notin queues
    BY <1>5, <1>9, <2>1, <2>2
  <2>3. CASE p = q /\ q \in queues
    <3>1. messages'[p] = Append(messages[p], m)
      BY <1>9, <2>3
    <3>2. ASSUME NEW i \in 1 .. Len(messages[p]) + 1
          PROVE  /\ messages'[p][i].ttl = p /\ messages'[p][i].age <= p
                 /\ messages'[p][i].age \in Nat
                 /\ i = Len(messages[p]) + 1 => messages'[p][i].age = 0
                 /\ i # Len(messages[p]) + 1 =>
                      i \in 1 .. Len(messages[p]) /\ messages'[p][i] = messages[p][i]
      <4>1. CASE i = Len(messages[p]) + 1
        BY <1>1, <1>3, <1>7, <2>3, <3>1, <4>1
      <4>2. CASE i # Len(messages[p]) + 1
        <5>1. i \in 1 .. Len(messages[p])
          BY <1>6, <2>3, <4>2
        <5> QED
          BY <1>6, <1>7, <2>1, <2>3, <3>1, <4>2, <5>1
      <4> QED
        BY <4>1, <4>2
    <3>3. ASSUME NEW i \in 1 .. Len(messages[p]) + 1, NEW k \in i .. Len(messages[p]) + 1
          PROVE  messages'[p][k].age <= messages'[p][i].age
      <4>1. k \in 1 .. Len(messages[p]) + 1
        BY <1>6, <2>3
      <4>2. CASE k = Len(messages[p]) + 1
        <5>1. messages'[p][k].age = 0 /\ messages'[p][i].age \in Nat
          BY <3>2, <4>1, <4>2
        <5> QED
          BY <5>1
      <4>3. CASE k # Len(messages[p]) + 1
        <5>1. i \in 1 .. Len(messages[p]) /\ k \in i .. Len(messages[p])
          BY <1>6, <2>3, <4>3
        <5>2. messages'[p][i] = messages[p][i] /\ messages'[p][k] = messages[p][k]
          BY <1>7, <2>3, <3>1, <5>1
        <5> QED
          BY <2>1, <5>1, <5>2
      <4> QED
        BY <4>2, <4>3
    <3> QED
      BY <1>5, <1>7, <2>3, <3>1, <3>2, <3>3
  <2> QED
    BY <2>2, <2>3
<1>13. KeptInv'
  <2>1. ASSUME NEW a, Kept(a) PROVE Kept(a)'
    <3>1. CASE a \in returned
      BY <1>5, <3>1 DEF Kept
    <3>2. CASE a \notin returned
      <4>1. PICK p \in queues : \E i \in 1 .. Len(messages[p]) :
              /\ <<messages[p][i].job, messages[p][i].number>> = a
              /\ life[p] + messages[p][i].age > p
        BY <2>1, <3>2 DEF Kept
      <4>2. PICK i \in 1 .. Len(messages[p]) :
              /\ <<messages[p][i].job, messages[p][i].number>> = a
              /\ life[p] + messages[p][i].age > p
        BY <4>1
      <4>3. p \in Delays /\ p \in queues'
        BY <1>5 DEF IInv, TypeOK
      <4>4. i \in 1 .. Len(messages'[p]) /\ messages'[p][i] = messages[p][i]
        <5>1. CASE p = q
          BY <1>6, <1>7, <1>9, <5>1
        <5>2. CASE p # q
          BY <1>9, <4>3, <5>2
        <5> QED
          BY <5>1, <5>2
      <4> QED
        BY <1>5, <4>2, <4>3, <4>4 DEF Kept
    <3> QED
      BY <3>1, <3>2
  <2>2. ASSUME NEW a, a = <<j, number>>, retry[j].age < DisuseExpire PROVE Kept(a)'
    <3> DEFINE l == Len(messages[q]) + 1
    <3>1. q \in queues' /\ l \in 1 .. Len(messages'[q]) /\ messages'[q][l] = m
      BY <1>2, <1>5, <1>6, <1>7, <1>9, <2>2
    <3>2. life[q] \in Nat /\ DisuseExpire \in Nat
      BY <1>1, RetryQueueAssumption DEF IInv, TypeOK
    <3>3. life[q] + 0 > q
      BY <1>1, <1>2, <2>2, <3>2
    <3> HIDE DEF l
    <3>4. /\ <<messages'[q][l].job, messages'[q][l].number>> = <<j, number>>
          /\ life'[q] + messages'[q][l].age > q
      BY <1>3, <1>5, <3>1, <3>3
    <3> QED
      BY <2>2, <3>1, <3>4 DEF Kept
  <2>3. \A a \in inTime : Kept(a)
    BY DEF IInv, KeptInv
  <2>4. CASE retry[j].age < DisuseExpire
    <3>1. inTime' = inTime \cup {<<j, number>>}
      BY <1>5, <2>4
    <3>2. \A a \in inTime' : a \in inTime \/ a = <<j, number>>
      BY <3>1
    <3> QED
      BY <2>1, <2>2, <2>3, <2>4, <3>2 DEF KeptInv
  <2>5. CASE ~(retry[j].age < DisuseExpire)
    <3>1. inTime' = inTime
      BY <1>5, <2>5
    <3> QED
      BY <2>1, <2>3, <3>1 DEF KeptInv
  <2> QED
    BY <2>4, <2>5
<1> QED
  BY <1>10, <1>11, <1>12, <1>13 DEF IInv

-----------------------------------------------------------------------------
(* What a step of the broker does *)

\* A message at the head of a queue leaves it; the others move on.
LEMMA DeadLetteredStep == ASSUME IInv, NEW q \in Delays, DeadLettered(q) PROVE IInv'
<1> DEFINE l == Len(messages[q])
<1>1. /\ messages[q] # <<>>
      /\ returned' = returned \cup {<<Head(messages[q]).job, Head(messages[q]).number>>}
      /\ messages' = [messages EXCEPT ![q] = Tail(messages[q])]
      /\ UNCHANGED <<calculator, retry, queues, life, repeats, inTime>>
  BY DEF DeadLettered, IsDue
<1>2. /\ messages[q] \in Seq(Message) /\ l \in Nat
      /\ \A i \in 1 .. l : messages[q][i] \in Message
  BY MessagesAre DEF IInv
<1>3. /\ Tail(messages[q]) \in Seq(Message) /\ Len(Tail(messages[q])) = l - 1
      /\ \A i \in 1 .. l - 1 : Tail(messages[q])[i] = messages[q][i + 1]
  BY <1>1, <1>2, HeadTailProperties
<1>4. Head(messages[q]) = messages[q][1] /\ l >= 1
  BY <1>1, <1>2
<1>5. /\ messages' \in [Delays -> Seq(Message)] /\ messages'[q] = Tail(messages[q])
      /\ \A p \in Delays : p # q => messages'[p] = messages[p]
  BY <1>1, <1>3 DEF IInv, TypeOK
<1> HIDE DEF l
<1>6. Len(messages'[q]) = l - 1
  BY <1>3, <1>5
<1>7. TypeOK'
  <2>1. messages[q][1].job \in Jobs /\ messages[q][1].number \in Nat
    BY <1>2, <1>4 DEF Message
  <2>2. returned' \subseteq Jobs \X Nat
    BY <1>1, <1>4, <2>1 DEF IInv, TypeOK
  <2> QED
    BY <1>1, <1>5, <2>2 DEF IInv, TypeOK
<1>8. DeclaredInv'
  BY <1>1 DEF IInv, DeclaredInv
<1>9. QueueInv'
  <2> SUFFICES ASSUME NEW p \in Delays
               PROVE  /\ p \notin queues' => messages'[p] = <<>>
                      /\ \A i \in 1 .. Len(messages'[p]) :
                           /\ messages'[p][i].ttl = p /\ messages'[p][i].age <= p
                           /\ \A k \in i .. Len(messages'[p]) :
                                messages'[p][k].age <= messages'[p][i].age
    BY DEF QueueInv
  <2>1. /\ p \notin queues => messages[p] = <<>>
        /\ \A i \in 1 .. Len(messages[p]) :
             /\ messages[p][i].ttl = p /\ messages[p][i].age <= p
             /\ \A k \in i .. Len(messages[p]) : messages[p][k].age <= messages[p][i].age
    BY DEF IInv, QueueInv
  <2>2. CASE p # q
    BY <1>1, <1>5, <2>1, <2>2
  <2>3. CASE p = q
    <3>1. p \in queues'
      BY <1>1, <2>1, <2>3
    <3>2. ASSUME NEW i \in 1 .. Len(messages'[p])
          PROVE  /\ messages'[p][i].ttl = p /\ messages'[p][i].age <= p
                 /\ \A k \in i .. Len(messages'[p]) :
                      messages'[p][k].age <= messages'[p][i].age
      <4>1. i \in 1 .. l - 1 /\ i + 1 \in 1 .. l
        BY <1>2, <1>6, <2>3
      <4>2. i + 1 \in 1 .. l /\ messages'[p][i] = messages[p][i + 1]
        BY <1>3, <1>5, <2>3, <4>1
      <4>3. ASSUME NEW k \in i .. Len(messages'[p])
            PROVE  /\ k + 1 \in i + 1 .. l
                   /\ messages'[p][k] = messages[p][k + 1]
        <5>1. k \in 1 .. l - 1 /\ k + 1 \in i + 1 .. l
          BY <1>2, <1>6, <2>3, <4>1
        <5> QED
          BY <1>3, <1>5, <2>3, <5>1
      <4> QED
        BY <2>1, <2>3, <4>2, <4>3 DEF l
    <3> QED
      BY <3>1, <3>2
  <2> QED
    BY <2>2, <2>3
<1>10. KeptInv'
  <2>1. ASSUME NEW a, Kept(a) PROVE Kept(a)'
    <3>1. CASE a \in returned
      BY <1>1, <3>1 DEF Kept
    <3>2. CASE a \notin returned
      <4>1. PICK p \in queues : \E i \in 1 .. Len(messages[p]) :
              /\ <<messages[p][i].job, messages[p][i].number>> = a
              /\ life[p] + messages[p][i].age > p
        BY <2>1, <3>2 DEF Kept
      <4>2. PICK i \in 1 .. Len(messages[p]) :
              /\ <<messages[p][i].job, messages[p][i].number>> = a
              /\ life[p] + messages[p][i].age > p
        BY <4>1
      <4>3. p \in Delays /\ p \in queues'
        BY <1>1 DEF IInv, TypeOK
      <4>4. CASE p # q
        BY <1>1, <1>5, <4>2, <4>3, <4>4 DEF Kept
      <4>5. CASE p = q /\ i = 1
        BY <1>1, <1>4, <4>2, <4>5 DEF Kept
      <4>6. CASE p = q /\ i # 1
        <5>1. i - 1 \in 1 .. Len(messages'[p]) /\ (i - 1) + 1 = i
          BY <1>2, <1>6, <4>6 DEF l
        <5>2. messages'[p][i - 1] = messages[p][i]
          BY <1>3, <1>5, <1>6, <4>6, <5>1
        <5> QED
          BY <1>1, <4>2, <4>3, <5>1, <5>2 DEF Kept
      <4> QED
        BY <4>4, <4>5, <4>6
    <3> QED
      BY <3>1, <3>2
  <2> QED
    BY <1>1, <2>1 DEF IInv, KeptInv
<1> QED
  BY <1>7, <1>8, <1>9, <1>10 DEF IInv

\* A queue expires: whatever was declared or sent in time is not in it.
LEMMA ExpiredStep == ASSUME IInv, NEW q \in Delays, Expired(q) PROVE IInv'
<1>1. /\ q \in queues /\ life[q] = 0
      /\ queues' = queues \ {q}
      /\ messages' = [messages EXCEPT ![q] = <<>>]
      /\ UNCHANGED <<calculator, retry, life, returned, repeats, inTime>>
  BY DEF Expired
<1>2. q \in Nat /\ DisuseExpire \in Nat
  BY RetryQueueAssumption DEF Delays
<1>3. /\ messages' \in [Delays -> Seq(Message)] /\ messages'[q] = <<>>
      /\ \A p \in Delays : p # q => messages'[p] = messages[p]
  BY <1>1, EmptySeq DEF IInv, TypeOK
<1>4. TypeOK'
  BY <1>1, <1>3 DEF IInv, TypeOK
<1>5. QueueInv'
  <2>1. \A p \in Delays : p # q /\ p \notin queues' => p \notin queues
    BY <1>1
  <2>2. Len(messages'[q]) = 0 /\ 1 .. 0 = {}
    BY <1>3, EmptySeq
  <2> QED
    BY <1>3, <2>1, <2>2 DEF IInv, QueueInv
<1>6. DeclaredInv'
  <2>1. ASSUME NEW j \in Jobs, retry[j].pc \in {"sending", "confirming"},
               retry[j].age < DisuseExpire
        PROVE  retry[j].delay \in queues'
    <3>1. /\ retry[j].delay \in queues
          /\ life[retry[j].delay] + retry[j].age >= DisuseExpire + retry[j].delay
      BY <2>1 DEF IInv, DeclaredInv
    <3>2. retry[j].age \in Nat
      BY DEF IInv, TypeOK, RetryRecord
    <3>3. retry[j].delay # q
      BY <1>1, <1>2, <2>1, <3>1, <3>2
    <3> QED
      BY <1>1, <3>1, <3>3
  <2> QED
    BY <1>1, <2>1 DEF IInv, DeclaredInv
<1>7. KeptInv'
  <2>1. ASSUME NEW a, Kept(a) PROVE Kept(a)'
    <3>1. CASE a \in returned
      BY <1>1, <3>1 DEF Kept
    <3>2. CASE a \notin returned
      <4>1. PICK p \in queues : \E i \in 1 .. Len(messages[p]) :
              /\ <<messages[p][i].job, messages[p][i].number>> = a
              /\ life[p] + messages[p][i].age > p
        BY <2>1, <3>2 DEF Kept
      <4>2. PICK i \in 1 .. Len(messages[p]) :
              /\ <<messages[p][i].job, messages[p][i].number>> = a
              /\ life[p] + messages[p][i].age > p
        BY <4>1
      <4>3. p \in Delays
        BY DEF IInv, TypeOK
      <4>4. messages[p][i].age <= p /\ messages[p][i].age \in Nat
        BY <4>3, MessagesAre DEF IInv, QueueInv
      <4>5. p # q
        BY <1>1, <1>2, <4>2, <4>4
      <4>6. p \in queues' /\ messages'[p] = messages[p]
        BY <1>1, <1>3, <4>3, <4>5
      <4> QED
        BY <1>1, <4>2, <4>6 DEF Kept
    <3> QED
      BY <3>1, <3>2
  <2> QED
    BY <1>1, <2>1 DEF IInv, KeptInv
<1> QED
  BY <1>4, <1>5, <1>6, <1>7 DEF IInv

\* All that waits gets older, and the queues come nearer to their ends.
LEMMA TickStep == ASSUME IInv, Tick PROVE IInv'
<1>1. /\ \A q \in queues : ~IsDue(q) /\ life[q] > 0
      /\ life' = [q \in Delays |-> IF q \in queues THEN life[q] - 1 ELSE 0]
      /\ messages' = [q \in Delays |->
                        [i \in DOMAIN messages[q] |->
                           [messages[q][i] EXCEPT !.age = messages[q][i].age + 1]]]
      /\ UNCHANGED <<calculator, queues, returned, repeats, inTime>>
  BY DEF Tick
<1>2. \A q \in Delays : q \in Nat
  BY DEF Delays
<1>3. queues \subseteq Delays
  BY DEF IInv, TypeOK
<1>4. ASSUME NEW q \in Delays
      PROVE  /\ life'[q] \in Nat
             /\ q \in queues => life'[q] = life[q] - 1
  BY <1>1 DEF IInv, TypeOK
<1>5. ASSUME NEW q \in Delays, NEW i \in 1 .. Len(messages[q])
      PROVE  /\ [messages[q][i] EXCEPT !.age = messages[q][i].age + 1] \in Message
             /\ messages'[q][i].job = messages[q][i].job
             /\ messages'[q][i].number = messages[q][i].number
             /\ messages'[q][i].ttl = messages[q][i].ttl
             /\ messages'[q][i].age = messages[q][i].age + 1
             /\ messages[q][i].age \in Nat
  <2> DEFINE older == [messages[q][i] EXCEPT !.age = messages[q][i].age + 1]
  <2>1. messages[q][i] \in Message /\ i \in DOMAIN messages[q]
    BY MessagesAre DEF IInv
  <2>2. /\ older \in Message /\ older.job = messages[q][i].job
        /\ older.number = messages[q][i].number /\ older.ttl = messages[q][i].ttl
        /\ older.age = messages[q][i].age + 1 /\ messages[q][i].age \in Nat
    BY <2>1 DEF Message
  <2>3. messages'[q][i] = older
    BY <1>1, <2>1
  <2> HIDE DEF older
  <2>4. older \in Message
    BY <2>2
  <2> QED
    BY <2>2, <2>3 DEF older
<1>6. ASSUME NEW q \in Delays
      PROVE  messages'[q] \in Seq(Message) /\ Len(messages'[q]) = Len(messages[q])
  <2>1. DOMAIN messages[q] = 1 .. Len(messages[q]) /\ Len(messages[q]) \in Nat
    BY MessagesAre DEF IInv
  <2>2. messages'[q] = [i \in 1 .. Len(messages[q]) |->
                          [messages[q][i] EXCEPT !.age = messages[q][i].age + 1]]
    BY <1>1, <2>1
  <2>3. messages'[q] \in [1 .. Len(messages[q]) -> Message]
    BY <1>5, <2>2
  <2> QED
    BY <2>1, <2>3
<1>7. ASSUME NEW j \in Jobs
      PROVE  /\ retry'[j] \in RetryRecord
             /\ retry'[j].pc = retry[j].pc /\ retry'[j].delay = retry[j].delay
             /\ retry[j].age \in Nat /\ retry'[j].age \in Nat
             /\ retry[j].pc \in {"sending", "confirming"} /\ retry[j].age < DisuseExpire =>
                  retry'[j].age = retry[j].age + 1
             /\ retry[j].pc \in {"sending", "confirming"} /\ retry'[j].age < DisuseExpire =>
                  retry[j].age < DisuseExpire
  <2> DEFINE age == IF retry[j].age < DisuseExpire THEN retry[j].age + 1 ELSE retry[j].age
             waited == retry[j].waited + 1
             older == [retry[j] EXCEPT !.waited = waited, !.age = age]
  <2>1. /\ retry[j] \in RetryRecord /\ retry[j].age \in Nat
        /\ age \in Nat /\ waited \in Nat
    BY DEF IInv, TypeOK, RetryRecord
  <2>2. retry'[j] = IF Pending(j) THEN older ELSE retry[j]
    BY DEF Tick
  <2>3. age = IF retry[j].age < DisuseExpire THEN retry[j].age + 1 ELSE retry[j].age
    OBVIOUS
  <2> HIDE DEF age, waited
  <2>4. /\ older \in RetryRecord /\ older.pc = retry[j].pc /\ older.delay = retry[j].delay
        /\ older.age = age
    BY <2>1 DEF RetryRecord
  <2>5. retry[j].pc \in {"sending", "confirming"} => Pending(j)
    BY DEF Pending
  <2>6. DisuseExpire \in Nat
    BY RetryQueueAssumption
  <2> HIDE DEF older
  <2> QED
    BY <2>1, <2>4, <2>2, <2>5, <2>6, <2>3
<1>8. TypeOK'
  <2>1. retry' \in [Jobs -> RetryRecord]
    BY <1>7 DEF Tick
  <2>2. life' \in [Delays -> Nat]
    BY <1>1, <1>4
  <2>3. messages' \in [Delays -> Seq(Message)]
    BY <1>1, <1>6
  <2> QED
    BY <1>1, <2>1, <2>2, <2>3 DEF IInv, TypeOK
<1>9. QueueInv'
  <2> SUFFICES ASSUME NEW q \in Delays
               PROVE  /\ q \notin queues' => messages'[q] = <<>>
                      /\ \A i \in 1 .. Len(messages'[q]) :
                           /\ messages'[q][i].ttl = q /\ messages'[q][i].age <= q
                           /\ \A k \in i .. Len(messages'[q]) :
                                messages'[q][k].age <= messages'[q][i].age
    BY DEF QueueInv
  <2>1. /\ q \notin queues => messages[q] = <<>>
        /\ \A i \in 1 .. Len(messages[q]) :
             /\ messages[q][i].ttl = q /\ messages[q][i].age <= q
             /\ \A k \in i .. Len(messages[q]) : messages[q][k].age <= messages[q][i].age
    BY DEF IInv, QueueInv
  <2>2. q \notin queues' => messages'[q] = <<>>
    <3>1. messages[q] = <<>> => Len(messages'[q]) = 0
      BY <1>6, EmptySeq
    <3> QED
      BY <1>1, <1>6, <2>1, <3>1, EmptySeq
  <2>3. ASSUME NEW i \in 1 .. Len(messages[q]) PROVE messages[q][i].age < q
    <3>1. messages[q] # <<>> /\ Len(messages[q]) \in Nat /\ i \in Nat /\ 1 <= i
      BY MessagesAre, EmptySeq DEF IInv
    <3>2. q \in queues
      BY <2>1, <3>1
    <3>3. messages[q] \in Seq(Message) /\ Head(messages[q]) = messages[q][1]
      BY <3>1, MessagesAre DEF IInv
    <3>4. ~(messages[q][1].age >= messages[q][1].ttl)
      BY <1>1, <3>1, <3>2, <3>3 DEF IsDue
    <3>5. 1 \in 1 .. Len(messages[q]) /\ i \in 1 .. Len(messages[q])
      BY <3>1
    <3>6. /\ messages[q][1].ttl = q /\ messages[q][i].age <= messages[q][1].age
          /\ messages[q][1].age \in Nat /\ messages[q][i].age \in Nat
      BY <1>5, <2>1, <3>5
    <3> QED
      BY <1>2, <3>4, <3>6
  <2>4. ASSUME NEW i \in 1 .. Len(messages[q]), NEW k \in i .. Len(messages[q])
        PROVE  messages'[q][k].age <= messages'[q][i].age
    <3>1. k \in 1 .. Len(messages[q])
      BY MessagesAre DEF IInv
    <3>2. messages[q][k].age <= messages[q][i].age
      BY <2>1
    <3>3. messages'[q][i].age = messages[q][i].age + 1 /\ messages[q][i].age \in Nat
      BY <1>5
    <3>4. messages'[q][k].age = messages[q][k].age + 1 /\ messages[q][k].age \in Nat
      BY <1>5, <3>1
    <3> QED
      BY <3>2, <3>3, <3>4
  <2>5. ASSUME NEW i \in 1 .. Len(messages[q])
        PROVE  messages'[q][i].ttl = q /\ messages'[q][i].age <= q
    <3>1. /\ messages'[q][i].ttl = messages[q][i].ttl /\ messages[q][i].ttl = q
          /\ messages'[q][i].age = messages[q][i].age + 1 /\ messages[q][i].age \in Nat
      BY <1>5, <2>1
    <3>2. messages[q][i].age < q /\ q \in Nat
      BY <1>2, <2>3
    <3> QED
      BY <3>1, <3>2
  <2> QED
    BY <1>6, <2>2, <2>4, <2>5
<1>10. DeclaredInv'
  <2>1. ASSUME NEW j \in Jobs, retry[j].pc \in {"sending", "confirming"},
               retry'[j].age < DisuseExpire
        PROVE  /\ retry[j].delay \in queues
               /\ life'[retry[j].delay] + retry'[j].age >= DisuseExpire + retry[j].delay
    <3>1. /\ retry[j].delay \in Delays /\ retry[j].delay \in queues
          /\ life[retry[j].delay] + retry[j].age >= DisuseExpire + retry[j].delay
          /\ retry'[j].age = retry[j].age + 1
      BY <1>7, <2>1 DEF IInv, DeclaredInv
    <3>2. life'[retry[j].delay] = life[retry[j].delay] - 1
      BY <1>4, <3>1
    <3>3. life[retry[j].delay] \in Nat /\ retry[j].age \in Nat
      BY <1>7, <3>1 DEF IInv, TypeOK
    <3> QED
      BY <3>1, <3>2, <3>3
  <2> QED
    BY <1>1, <1>7, <2>1 DEF IInv, DeclaredInv
<1>11. KeptInv'
  <2>1. ASSUME NEW a, Kept(a) PROVE Kept(a)'
    <3>1. CASE a \in returned
      BY <1>1, <3>1 DEF Kept
    <3>2. CASE a \notin returned
      <4>1. PICK p \in queues : \E i \in 1 .. Len(messages[p]) :
              /\ <<messages[p][i].job, messages[p][i].number>> = a
              /\ life[p] + messages[p][i].age > p
        BY <2>1, <3>2 DEF Kept
      <4>2. PICK i \in 1 .. Len(messages[p]) :
              /\ <<messages[p][i].job, messages[p][i].number>> = a
              /\ life[p] + messages[p][i].age > p
        BY <4>1
      <4>3. p \in Delays /\ life[p] \in Nat
        BY <1>3 DEF IInv, TypeOK
      <4>4. life'[p] + messages'[p][i].age = life[p] + messages[p][i].age
        <5>1. life'[p] = life[p] - 1 /\ life[p] \in Int
          BY <1>4, <4>3
        <5>2. messages'[p][i].age = messages[p][i].age + 1 /\ messages[p][i].age \in Nat
          BY <1>5, <4>3
        <5> DEFINE l == life[p]
                   m == messages[p][i].age
        <5>3. l \in Int /\ m \in Nat /\ life'[p] = l - 1 /\ messages'[p][i].age = m + 1
          BY <5>1, <5>2
        <5> HIDE DEF l, m
        <5>4. life'[p] + messages'[p][i].age = l + m
          BY <5>3
        <5> QED
          BY <5>4 DEF l, m
      <4>5. <<messages'[p][i].job, messages'[p][i].number>> = a
        BY <1>5, <4>2, <4>3
      <4>6. i \in 1 .. Len(messages'[p])
        BY <1>6, <4>3
      <4> QED
        BY <1>1, <4>2, <4>4, <4>5, <4>6 DEF Kept
    <3> QED
      BY <3>1, <3>2
  <2> QED
    BY <1>1, <2>1 DEF IInv, KeptInv
<1> QED
  BY <1>8, <1>9, <1>10, <1>11 DEF IInv

-----------------------------------------------------------------------------
(* The theorems *)

\* Nothing has been retried yet.
LEMMA Initially == ASSUME Init PROVE IInv
<1>1. NoRetry \in RetryRecord /\ NoRetry.pc = "handling"
  BY DEF NoRetry, RetryRecord
<1>2. \A q \in Delays : messages[q] = <<>> /\ Len(messages[q]) = 0
  BY EmptySeq DEF Init
<1>3. messages \in [Delays -> Seq(Message)]
  BY EmptySeq DEF Init
<1>4. TypeOK
  BY <1>1, <1>3 DEF Init, TypeOK
<1>5. QueueInv
  BY <1>2 DEF QueueInv
<1>6. DeclaredInv
  BY <1>1 DEF Init, DeclaredInv
<1>7. KeptInv
  BY DEF Init, KeptInv
<1> QED
  BY <1>4, <1>5, <1>6, <1>7 DEF IInv

\* No step leaves the invariant.
LEMMA Step == ASSUME IInv, [Next]_vars PROVE IInv'
<1>1. ASSUME NEW j \in Jobs,
             \/ \E resetAttempts \in BOOLEAN : Retry(j, resetAttempts)
             \/ Created(j) \/ Refused(j) \/ Sent(j) \/ SentAgain(j)
             \/ Confirmed(j) \/ TimesOut(j) \/ Handled(j)
      PROVE  IInv'
  BY <1>1, RetryStep, CreatedStep, RejectedStep, SentStep, SentAgainStep, ConfirmedStep,
     HandledStep
<1>2. ASSUME NEW q \in Delays, DeadLettered(q) \/ Expired(q) PROVE IInv'
  BY <1>2, DeadLetteredStep, ExpiredStep
<1>3. CASE Tick
  BY <1>3, TickStep
<1>4. CASE UNCHANGED vars
  BY <1>4 DEF vars, IInv, TypeOK, QueueInv, DeclaredInv, KeptInv, Kept
<1> QED
  BY <1>1, <1>2, <1>3, <1>4 DEF Next

\* The inductive invariant holds in every reachable state of RetryQueue.
THEOREM Invariance == Spec => []IInv
<1>1. Init => IInv
  BY Initially
<1>2. IInv /\ [Next]_vars => IInv'
  BY Step
<1> QED
  BY <1>1, <1>2, PTL DEF Spec

\* Every variable keeps its type.
THEOREM TypeCorrect == Spec => []TypeOK
<1>1. IInv => TypeOK
  BY DEF IInv
<1> QED
  BY <1>1, Invariance, PTL

(***************************************************************************)
(* A retry whose message has reached the broker within disuseExpireMs of   *)
(* the declaration of its queue is in a queue or has come back: no retry   *)
(* queue expires under it.                                                 *)
(***************************************************************************)
THEOREM RetriesInTimeAreKept == Spec => []InTimeIsKept
<1>1. IInv => InTimeIsKept
  <2> SUFFICES ASSUME IInv, NEW j \in Jobs, <<j, retry[j].number>> \in inTime,
                      <<j, retry[j].number>> \notin returned
               PROVE  \E q \in queues : \E i \in DOMAIN messages[q] :
                        <<messages[q][i].job, messages[q][i].number>> =
                          <<j, retry[j].number>>
    BY DEF InTimeIsKept
  <2>1. PICK q \in queues : \E i \in 1 .. Len(messages[q]) :
          <<messages[q][i].job, messages[q][i].number>> = <<j, retry[j].number>>
    BY DEF IInv, KeptInv, Kept
  <2>2. DOMAIN messages[q] = 1 .. Len(messages[q])
    BY MessagesAre DEF IInv, TypeOK
  <2> QED
    BY <2>1, <2>2
<1> QED
  BY <1>1, Invariance, PTL

(***************************************************************************)
(* No message is in its retry queue for longer than its delay: those that  *)
(* are before it have the same delay and are older.                        *)
(***************************************************************************)
THEOREM RetriesComeBackOnTime == Spec => []BackOnTime
<1>1. IInv => BackOnTime
  BY MessagesAre DEF IInv, QueueInv, BackOnTime
<1> QED
  BY <1>1, Invariance, PTL
=============================================================================
