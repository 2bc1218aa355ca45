------------------------- MODULE QueueListenerProofs -------------------------
(***************************************************************************)
(* The safety properties of QueueListener.tla, proved for every set of     *)
(* passes and any number of channels and of consumers.                     *)
(***************************************************************************)
EXTENDS QueueListener, TLAPS

-----------------------------------------------------------------------------
(* The inductive invariant *)

Active(p) == pass[p].pc # "free" /\ ~pass[p].late
Initializing(p) == pass[p].pc \in {"exchange", "queue", "bind"} /\ ~pass[p].late
Consumes(p) == pass[p].pc \in {"consume", "asked"} /\ ~pass[p].late

\* Passes that do not overlap: one at a time.  A pass that is late has failed.
PassInv ==
  /\ state = "ready" => FreePasses = Passes /\ ~overlapped
  /\ ~overlapped => \A p, q \in Passes : Active(p) /\ Active(q) => p = q
  /\ \A p \in Passes : pass[p].pc = "asked" => channel = "up" /\ pass[p].tag # 0
  /\ \A p \in Passes : pass[p].late => failed /\ pass[p].pc \notin {"free", "asked"}
  /\ kind = "replies" => \A p \in Passes : pass[p].pc \notin {"exchange", "bind"}

\* A consumer is known: to the pass that has asked for it, and then to the listener; to
\* the pass alone, as long as passes do not overlap.
Asked(t) == \E p \in Passes : pass[p].pc = "asked" /\ pass[p].tag = t
ConsumerInv ==
  /\ channel # "up" => consumers = {}
  /\ state = "ready" => consumers = {}
  /\ state = "disposed" => consumerTag = 0
  /\ \A t \in consumers \ orphans : Asked(t) \/ t = consumerTag
  /\ ~overlapped => \A t \in consumers \ orphans : Asked(t) \/ UnderWay = {}

\* The queue is bound, or a pass that can still be trusted is about to do it.
BoundInv ==
  /\ bound => queue
  /\ kind = "replies" => \A p \in Passes : Consumes(p) => bound
  /\ state = "listening" /\ ~failed /\ channel # "noConnection" /\ kind # "replies" =>
       \/ bound
       \/ promise # 0 /\ Initializing(promise) /\ (pass[promise].pc = "bind" => queue)
  /\ state = "listening" /\ ~overlapped /\ kind # "replies" =>
       \A p \in Passes : Initializing(p) => promise = p
  /\ ~overlapped /\ ~failed /\ queue => \A p \in Passes : Consumes(p) => bound

IInv == TypeOK /\ PassInv /\ ConsumerInv /\ BoundInv /\ InitializedFirst

-----------------------------------------------------------------------------
(* What the helpers return *)

\* A pass begins in a free place.
LEMMA BeginIs ==
  ASSUME TypeOK, NEW b \in BOOLEAN, Begin(b)
  PROVE  /\ pass' \in [Passes -> PassRecord]
         /\ \E p \in Passes :
              /\ pass[p].pc = "free"
              /\ pass'[p].late = pass[p].late
              /\ pass'[p].pc = IF b THEN "exchange" ELSE FirstOfConsume
              /\ \A q \in Passes : q # p => pass'[q] = pass[q]
              /\ promise' = IF b THEN p ELSE promise
<1> DEFINE p == AnyOf(FreePasses)
           step == IF b THEN "exchange" ELSE FirstOfConsume
<1>1. p \in Passes /\ pass[p].pc = "free"
  BY DEF Begin, AnyOf, FreePasses
<1>2. step \in {"exchange", "queue", "consume"}
  BY DEF FirstOfConsume
<1>3. /\ pass' = [pass EXCEPT ![p].pc = step]
      /\ promise' = IF b THEN p ELSE promise
  BY DEF Begin
<1> HIDE DEF p, step
<1>4. /\ pass' \in [Passes -> PassRecord]
      /\ pass'[p].pc = step
      /\ pass'[p].late = pass[p].late
      /\ \A q \in Passes : q # p => pass'[q] = pass[q]
  BY <1>1, <1>2, <1>3 DEF TypeOK, PassRecord
<1> QED
  BY <1>1, <1>3, <1>4 DEF step

\* Where a pass whose consumer is gone goes on.
Again == [pc |-> "consume", tag |-> 0, late |-> FALSE]

\* A pass whose consumeQueue() has reached the broker is to ask again.
LEMMA InterruptedIs ==
  ASSUME NEW q \in [Passes -> PassRecord]
  PROVE  /\ Interrupted(q) \in [Passes -> PassRecord]
         /\ \A p \in Passes : Interrupted(q)[p] =
              IF q[p].late THEN NoPass
              ELSE IF q[p].pc = "asked" THEN Again ELSE q[p]
<1>1. Again \in PassRecord /\ NoPass \in PassRecord
  BY DEF PassRecord, Again, NoPass
<1> QED
  BY <1>1 DEF Interrupted, Again

\* A pass ends.
LEMMA EndedIs ==
  ASSUME TypeOK, NEW p \in Passes
  PROVE  /\ [pass EXCEPT ![p] = NoPass] \in [Passes -> PassRecord]
         /\ NoPass.pc = "free" /\ NoPass.late = FALSE
BY DEF TypeOK, PassRecord, NoPass

-----------------------------------------------------------------------------
(* Every action preserves the invariant *)

\* listen() begins the first pass.
LEMMA ListenStep == ASSUME IInv, Listen PROVE IInv'
<1> DEFINE b == kind # "replies"
<1>1. TypeOK /\ b \in BOOLEAN /\ Begin(b) /\ state = "ready" /\ state' = "listening"
  BY DEF IInv, Listen
<1>2. PICK p \in Passes :
        /\ pass[p].pc = "free" /\ pass'[p].late = pass[p].late
        /\ pass'[p].pc = IF b THEN "exchange" ELSE FirstOfConsume
        /\ \A q \in Passes : q # p => pass'[q] = pass[q]
        /\ promise' = IF b THEN p ELSE promise
  BY <1>1, BeginIs
<1>3. pass' \in [Passes -> PassRecord]
  BY <1>1, BeginIs
<1>4. UNCHANGED <<kind, isExclusive, consumerTag, channel, opened, queue, bound,
                  consumers, nextTag, overlapped, failed, orphans, notFound, cancelled>>
  BY DEF Listen
<1>5. TypeOK'
  BY <1>1, <1>2, <1>3, <1>4 DEF TypeOK
<1>6. /\ \A q \in Passes : q # p => pass'[q].pc = "free" /\ ~pass'[q].late
      /\ ~pass'[p].late
  BY <1>1, <1>2 DEF IInv, PassInv, FreePasses
<1>7. PassInv'
  BY <1>1, <1>2, <1>4, <1>6 DEF IInv, PassInv, Active, FirstOfConsume
<1>8. ConsumerInv'
  BY <1>1, <1>2, <1>4 DEF IInv, ConsumerInv
<1>9. BoundInv'
  <2>1. p # 0
    BY QueueListenerAssumption
  <2>2. \A q \in Passes : ~Consumes(q)'
    BY <1>2, <1>6 DEF Consumes, FirstOfConsume
  <2> QED
    BY <1>1, <1>2, <1>4, <1>6, <2>1, <2>2
    DEF IInv, BoundInv, Initializing, FirstOfConsume
<1>10. InitializedFirst'
  BY <1>1, <1>4 DEF IInv, ConsumerInv, InitializedFirst
<1> QED
  BY <1>5, <1>7, <1>8, <1>9, <1>10 DEF IInv

\* dispose() cancels the consumer that the listener knows of.
LEMMA DisposeStep == ASSUME IInv, Dispose PROVE IInv'
<1>1. TypeOK'
  BY DEF Dispose, IInv, TypeOK
<1>2. PassInv'
  BY DEF Dispose, IInv, PassInv, Active, FreePasses
<1>3. ConsumerInv'
  BY DEF Dispose, IInv, ConsumerInv, Asked, UnderWay
<1>4. BoundInv'
  BY DEF Dispose, IInv, BoundInv, Consumes
<1>5. InitializedFirst'
  BY DEF Dispose, IInv, InitializedFirst
<1> QED
  BY <1>1, <1>2, <1>3, <1>4, <1>5 DEF IInv

\* The channel is lost: nobody consumes, and who was about to is to ask again.
LEMMA ChannelLostStep == ASSUME IInv, ChannelLost PROVE IInv'
<1>1. /\ pass' \in [Passes -> PassRecord]
      /\ \A p \in Passes :
           pass'[p] = IF pass[p].late THEN NoPass
                      ELSE IF pass[p].pc = "asked" THEN Again ELSE pass[p]
  BY InterruptedIs DEF ChannelLost, IInv, TypeOK
<1>2. /\ channel' \in {"noChannel", "noConnection"}
      /\ channel = "up"
      /\ channel' = "noConnection" \/ (queue' = queue /\ bound' = (bound /\ queue))
      /\ queue' \in BOOLEAN /\ bound' \in BOOLEAN
      /\ queue' => queue
      /\ bound' => queue'
      /\ bound => (queue' => bound')
      /\ kind = "replies" => queue' = queue
      /\ consumers' = {}
      /\ opened' \in Nat
      /\ UNCHANGED <<kind, isExclusive, state, promise, consumerTag, nextTag, overlapped,
                     failed, orphans, notFound, cancelled>>
  BY DEF ChannelLost, IInv, TypeOK
<1>3. TypeOK'
  BY <1>1, <1>2 DEF IInv, TypeOK
<1>4. PassInv'
  BY <1>1, <1>2 DEF IInv, PassInv, Active, FreePasses, NoPass, Again
<1>5. ConsumerInv'
  BY <1>2 DEF IInv, ConsumerInv
<1>6. BoundInv'
  BY <1>1, <1>2 DEF IInv, TypeOK, BoundInv, Initializing, Consumes, NoPass, Again
<1>7. InitializedFirst'
  BY <1>2 DEF IInv, InitializedFirst
<1> QED
  BY <1>3, <1>4, <1>5, <1>6, <1>7 DEF IInv

\* A channel is there again: the listener begins a pass, which overlaps with those that
\* are not over.
LEMMA ChannelBackStep == ASSUME IInv, ChannelBack PROVE IInv'
<1>1. /\ channel # "up" /\ channel' = "up" /\ consumers = {} /\ TypeOK
      /\ \A p \in Passes : pass[p].pc # "asked"
      /\ UNCHANGED <<kind, isExclusive, state, consumerTag, opened, queue, bound, consumers,
                     nextTag, failed, orphans, notFound, cancelled>>
  BY DEF ChannelBack, IInv, PassInv, ConsumerInv
<1>2. CASE state # "listening"
  <2>1. UNCHANGED <<pass, promise, overlapped>>
    BY <1>2 DEF ChannelBack
  <2>2. TypeOK' /\ InitializedFirst'
    BY <1>1, <2>1 DEF IInv, TypeOK, InitializedFirst
  <2>3. PassInv' /\ ConsumerInv'
    BY <1>1, <2>1 DEF IInv, PassInv, ConsumerInv, Active, FreePasses
  <2>4. BoundInv'
    BY <1>1, <1>2, <2>1 DEF IInv, BoundInv, Initializing, Consumes
  <2> QED
    BY <2>2, <2>3, <2>4 DEF IInv
<1>3. CASE state = "listening"
  <2> DEFINE b == kind = "commands" \/ (kind = "jobs" /\ channel = "noConnection")
  <2>1. Begin(b) /\ overlapped' = (UnderWay # {}) /\ b \in BOOLEAN
    BY <1>3 DEF ChannelBack
  <2>2. PICK p \in Passes :
          /\ pass[p].pc = "free" /\ pass'[p].late = pass[p].late
          /\ pass'[p].pc = IF b THEN "exchange" ELSE FirstOfConsume
          /\ \A q \in Passes : q # p => pass'[q] = pass[q]
          /\ promise' = IF b THEN p ELSE promise
    BY <1>1, <2>1, BeginIs
  <2>3. pass' \in [Passes -> PassRecord]
    BY <1>1, <2>1, BeginIs
  <2>4. TypeOK' /\ InitializedFirst'
    BY <1>1, <2>1, <2>2, <2>3 DEF IInv, TypeOK, InitializedFirst
  <2>5. /\ ~overlapped' => \A q \in Passes : q # p => pass'[q].pc = "free" \/ pass'[q].late
        /\ ~pass'[p].late
    BY <2>1, <2>2 DEF UnderWay, IInv, PassInv
  <2>6. PassInv'
    BY <1>1, <1>3, <2>2, <2>5 DEF IInv, PassInv, Active, FirstOfConsume
  <2>7. ConsumerInv'
    BY <1>1, <1>3 DEF IInv, ConsumerInv
  <2>8. BoundInv'
    <3>1. p # 0
      BY QueueListenerAssumption
    <3>2. CASE kind = "replies"
      BY <1>1, <2>2, <2>5, <3>2
      DEF IInv, BoundInv, Initializing, Consumes, FirstOfConsume
    <3>3. CASE b
      BY <1>1, <2>2, <2>5, <3>1, <3>3 DEF IInv, BoundInv, Initializing, Consumes
    <3>4. CASE kind = "jobs" /\ channel # "noConnection"
      <4>1. pass'[p].pc = "consume" /\ promise' = promise
        BY <2>2, <3>4 DEF FirstOfConsume
      <4>2. ~Initializing(p)
        BY <2>2 DEF Initializing
      <4>3. ~failed =>
              \/ bound
              \/ /\ promise # 0 /\ Initializing(promise)
                 /\ pass[promise].pc = "bind" => queue
        BY <1>3, <3>4 DEF IInv, BoundInv
      <4>4. promise \in Passes \cup {0}
        BY <1>1 DEF TypeOK
      <4>5. ~failed /\ ~overlapped' => bound
        BY <2>2, <2>5, <4>2, <4>3, <4>4 DEF Initializing
      <4> QED
        BY <1>1, <2>2, <2>5, <3>4, <4>1, <4>2, <4>3, <4>4, <4>5
        DEF IInv, BoundInv, Initializing, Consumes
    <3> QED
      BY <1>1, <3>2, <3>3, <3>4, QueueListenerAssumption DEF TypeOK
  <2> QED
    BY <2>4, <2>6, <2>7, <2>8 DEF IInv
<1> QED
  BY <1>2, <1>3

\* A pass goes on: to the next command of initialize(), or to consume().
LEMMA AnsweredStep == ASSUME IInv, NEW p \in Passes, Answered(p) PROVE IInv'
<1> DEFINE step == pass[p].pc
           trusted == kind # "replies" /\ promise = p /\ step # "bind"
           next == IF trusted THEN IF step = "exchange" THEN "queue" ELSE "bind"
                   ELSE IF state = "disposed" THEN "free" ELSE "consume"
           new == IF pass[p].late THEN NoPass ELSE [pass[p] EXCEPT !.pc = next]
<1>1. /\ channel = "up" /\ step \in {"exchange", "queue", "bind"}
      /\ pass' = [pass EXCEPT ![p] = new]
      /\ queue' = (queue \/ step = "queue")
      /\ bound' = (bound \/ step = "bind" \/ (step = "queue" /\ kind = "replies"))
      /\ step = "bind" => queue
      /\ UNCHANGED <<kind, isExclusive, state, promise, consumerTag, channel, opened,
                     consumers, nextTag, overlapped, failed, orphans, notFound, cancelled>>
  BY DEF Answered
<1>2. next \in {"queue", "bind", "free", "consume"}
  BY <1>1
<1>3. new \in PassRecord /\ pass[p] \in PassRecord
  BY <1>2 DEF IInv, TypeOK, PassRecord, NoPass
<1>4. pass[p].late => new.pc = "free" /\ new.late = FALSE
  BY DEF NoPass
<1>5. ~pass[p].late => new.pc = next /\ new.late = FALSE
  BY <1>3 DEF PassRecord
<1> HIDE DEF next, new
<1>6. /\ pass' \in [Passes -> PassRecord]
      /\ pass'[p] = new
      /\ \A q \in Passes : q # p => pass'[q] = pass[q]
  BY <1>1, <1>3 DEF IInv, TypeOK
<1>7. TypeOK'
  BY <1>1, <1>6 DEF IInv, TypeOK
<1>8. state # "ready" /\ next # "asked"
  BY <1>1, <1>2 DEF IInv, PassInv, FreePasses
<1>9. PassInv'
  BY <1>1, <1>4, <1>5, <1>6, <1>8 DEF IInv, PassInv, Active, next
<1>10. ConsumerInv'
  <2>1. \A t : Asked(t) => Asked(t)'
    BY <1>1, <1>6 DEF Asked
  <2>2. UnderWay = {} => UnderWay' = {}
    BY <1>1, <1>4, <1>6 DEF UnderWay
  <2> QED
    BY <1>1, <1>8, <2>1, <2>2 DEF IInv, ConsumerInv
<1>11. BoundInv'
  <2>0. CASE pass[p].late
    BY <1>1, <1>4, <1>6, <2>0 DEF IInv, PassInv, BoundInv, Initializing, Consumes
  <2>1. CASE ~pass[p].late /\ kind = "replies"
    BY <1>1, <1>5, <1>6, <2>1 DEF IInv, PassInv, BoundInv, Initializing, Consumes, next
  <2>2. CASE ~pass[p].late /\ kind # "replies" /\ promise = p
    <3>1. CASE step = "bind"
      BY <1>1, <1>5, <1>6, <2>2, <3>1 DEF IInv, BoundInv, Initializing, Consumes, next
    <3>2. CASE step # "bind"
      <4>1. p # 0 /\ next \in {"queue", "bind"} /\ (next = "bind" => queue')
        BY <1>1, <2>2, <3>2, QueueListenerAssumption DEF next
      <4>2. ~overlapped => \A q \in Passes : q # p => ~Active(q)
        BY <1>1, <2>2 DEF IInv, PassInv, Active
      <4> QED
        BY <1>1, <1>5, <1>6, <2>2, <3>2, <4>1, <4>2
        DEF IInv, BoundInv, Active, Initializing, Consumes
    <3> QED
      BY <3>1, <3>2
  <2>3. CASE ~pass[p].late /\ kind # "replies" /\ promise # p
    <3>1. next = IF state = "disposed" THEN "free" ELSE "consume"
      BY <2>3 DEF next
    <3>2. ~overlapped => state = "disposed"
      BY <1>1, <1>8, <2>3 DEF IInv, TypeOK, BoundInv, Initializing
    <3>3. ~overlapped => \A q \in Passes : q # p => ~Active(q)
      BY <1>1, <2>3 DEF IInv, PassInv, Active
    <3> QED
      BY <1>1, <1>5, <1>6, <2>3, <3>1, <3>2, <3>3
      DEF IInv, TypeOK, BoundInv, Active, Initializing, Consumes
  <2> QED
    BY <2>0, <2>1, <2>2, <2>3
<1>12. InitializedFirst'
  BY <1>1 DEF IInv, InitializedFirst
<1> QED
  BY <1>7, <1>9, <1>10, <1>11, <1>12 DEF IInv

\* There is a consumer, which the pass does not know of yet.
LEMMA ConsumeReachesStep == ASSUME IInv, NEW p \in Passes, ConsumeReaches(p) PROVE IInv'
<1> DEFINE tag == nextTag + 1
           new == IF pass[p].late THEN NoPass
                  ELSE [pc |-> "asked", tag |-> tag, late |-> FALSE]
<1>1. /\ channel = "up" /\ queue /\ pass[p].pc = "consume"
      /\ nextTag' = tag /\ consumers' = consumers \cup {tag}
      /\ pass' = [pass EXCEPT ![p] = new]
      /\ orphans' = IF pass[p].late THEN orphans \cup {tag} ELSE orphans
      /\ UNCHANGED <<kind, isExclusive, state, promise, consumerTag, channel, opened,
                     queue, bound, overlapped, failed, notFound, cancelled>>
  BY DEF ConsumeReaches
<1>2. tag \in Nat \ {0}
  BY DEF IInv, TypeOK
<1>3. /\ new \in PassRecord /\ new.late = FALSE
      /\ IF pass[p].late THEN new.pc = "free" ELSE new.pc = "asked" /\ new.tag = tag
  BY <1>2 DEF PassRecord, NoPass
<1> HIDE DEF new, tag
<1>4. /\ pass' \in [Passes -> PassRecord]
      /\ pass'[p] = new
      /\ \A q \in Passes : q # p => pass'[q] = pass[q]
  BY <1>1, <1>3 DEF IInv, TypeOK
<1>5. orphans' \subseteq Nat /\ orphans \subseteq orphans'
  BY <1>1, <1>2 DEF IInv, TypeOK
<1>6. TypeOK'
  BY <1>1, <1>2, <1>4, <1>5 DEF IInv, TypeOK
<1>7. state # "ready"
  BY <1>1 DEF IInv, PassInv, FreePasses
<1>8. PassInv'
  BY <1>1, <1>2, <1>3, <1>4, <1>7 DEF IInv, PassInv, Active
<1>9. ConsumerInv'
  <2>1. \A t : Asked(t) => Asked(t)'
    BY <1>1, <1>4 DEF Asked
  <2>2. ~pass[p].late => \A t : t = tag => Asked(t)'
    BY <1>3, <1>4 DEF Asked
  <2>3. pass[p].late /\ UnderWay = {} => UnderWay' = {}
    BY <1>3, <1>4 DEF UnderWay
  <2>4. ~pass[p].late => UnderWay # {}
    BY <1>1 DEF UnderWay
  <2> QED
    BY <1>1, <1>5, <1>7, <2>1, <2>2, <2>3, <2>4 DEF IInv, ConsumerInv
<1>10. BoundInv'
  BY <1>1, <1>3, <1>4 DEF IInv, TypeOK, BoundInv, Initializing, Consumes
<1>11. InitializedFirst'
  BY <1>1 DEF IInv, PassInv, BoundInv, Consumes, InitializedFirst
<1> QED
  BY <1>6, <1>8, <1>9, <1>10, <1>11 DEF IInv

\* The pass ends: the listener has its consumer, or has cancelled it.
LEMMA ConsumingStep == ASSUME IInv, NEW p \in Passes, Consuming(p) PROVE IInv'
<1>1. /\ pass' \in [Passes -> PassRecord]
      /\ pass'[p].pc = "free" /\ ~pass'[p].late
      /\ \A q \in Passes : q # p => pass'[q] = pass[q]
  BY EndedIs DEF Consuming, IInv, TypeOK
<1>2. /\ pass[p].pc = "asked" /\ pass[p].tag \in Nat
      /\ consumers' \subseteq consumers
      /\ IF state = "disposed"
         THEN consumerTag' = 0 /\ consumers' = consumers \ {pass[p].tag}
         ELSE consumerTag' = pass[p].tag /\ UNCHANGED consumers
      /\ orphans' = IF overlapped THEN orphans \cup {consumerTag} ELSE orphans
      /\ UNCHANGED <<kind, isExclusive, state, promise, channel, opened, queue, bound,
                     nextTag, overlapped, failed, notFound, cancelled>>
  BY DEF Consuming, IInv, TypeOK, PassRecord
<1>3. orphans' \subseteq Nat /\ orphans \subseteq orphans'
  BY <1>2 DEF IInv, TypeOK
<1>4. TypeOK'
  BY <1>1, <1>2, <1>3 DEF IInv, TypeOK
<1>5. state # "ready" /\ ~pass[p].late
  BY <1>2 DEF IInv, PassInv, FreePasses
<1>6. PassInv'
  BY <1>1, <1>2, <1>5 DEF IInv, PassInv, Active
<1>7. ConsumerInv'
  <2>1. \A t : Asked(t) => Asked(t)' \/ t = pass[p].tag
    BY <1>1 DEF Asked
  <2>2. UnderWay # {}
    BY <1>2, <1>5 DEF UnderWay
  \* A tag that is replaced is an orphan's when passes overlap; otherwise there is none.
  <2>3. \A t \in consumers' \ orphans' : Asked(t)' \/ t = consumerTag'
    BY <1>2, <1>3, <2>1, <2>2 DEF IInv, ConsumerInv
  <2>4. ~overlapped => UnderWay' = {}
    BY <1>1, <1>2, <1>5 DEF IInv, PassInv, Active, UnderWay
  <2> QED
    BY <1>2, <1>5, <2>3, <2>4 DEF IInv, ConsumerInv
<1>8. BoundInv'
  BY <1>1, <1>2 DEF IInv, TypeOK, BoundInv, Initializing, Consumes
<1>9. InitializedFirst'
  BY <1>2 DEF IInv, InitializedFirst
<1> QED
  BY <1>4, <1>6, <1>7, <1>8, <1>9 DEF IInv

\* A pass that was to consume a queue that is not there ends: it is not one that the
\* listener could trust.
LEMMA QueueNotFoundStep == ASSUME IInv, NEW p \in Passes, QueueNotFound(p) PROVE IInv'
<1> DEFINE ended == [pass EXCEPT ![p] = NoPass]
<1>1. /\ ended \in [Passes -> PassRecord]
      /\ ended[p].pc = "free" /\ ~ended[p].late
      /\ \A q \in Passes : q # p => ended[q] = pass[q]
  BY EndedIs DEF IInv, TypeOK
<1>2. pass' = Interrupted(ended)
  BY DEF QueueNotFound
<1> HIDE DEF ended
<1>3. /\ pass' \in [Passes -> PassRecord]
      /\ pass'[p].pc = "free" /\ ~pass'[p].late
      /\ \A q \in Passes : q # p =>
           pass'[q] = IF pass[q].late THEN NoPass
                      ELSE IF pass[q].pc = "asked" THEN Again ELSE pass[q]
  BY <1>1, <1>2, InterruptedIs
<1>4. /\ channel = "up" /\ ~queue /\ pass[p].pc \in {"bind", "consume"}
      /\ channel' = "noChannel" /\ consumers' = {} /\ failed' = TRUE
      /\ notFound' = (notFound \/ (state = "listening" /\ ~failed /\ ~overlapped))
      /\ UNCHANGED <<kind, isExclusive, state, promise, consumerTag, opened, queue, bound,
                     nextTag, overlapped, orphans, cancelled>>
  BY DEF QueueNotFound
<1>5. TypeOK'
  BY <1>3, <1>4 DEF IInv, TypeOK
<1>6. state # "ready"
  BY <1>4 DEF IInv, PassInv, FreePasses
<1>7. PassInv'
  BY <1>3, <1>4, <1>6 DEF IInv, PassInv, Active, NoPass, Again
<1>8. ConsumerInv'
  BY <1>4 DEF IInv, ConsumerInv
<1>9. BoundInv'
  BY <1>3, <1>4 DEF IInv, BoundInv, Initializing, Consumes, NoPass, Again
<1>10. InitializedFirst'
  <2>1. ASSUME state = "listening", ~failed, ~overlapped PROVE FALSE
    <3>1. ~bound /\ kind # "replies"
      BY <1>4, <2>1 DEF IInv, PassInv, BoundInv, Consumes
    <3>2. promise \in Passes /\ Initializing(promise) /\ pass[promise].pc # "bind"
      BY <1>4, <2>1, <3>1 DEF IInv, TypeOK, BoundInv
    <3> QED
      BY <1>4, <2>1, <3>2 DEF IInv, PassInv, Active, Initializing
  <2> QED
    BY <1>4, <2>1 DEF IInv, InitializedFirst
<1> QED
  BY <1>5, <1>7, <1>8, <1>9, <1>10 DEF IInv

\* A command of a pass times out.
LEMMA FailsStep == ASSUME IInv, NEW p \in Passes, Fails(p) PROVE IInv'
<1> DEFINE late == [pass EXCEPT ![p].late = TRUE]
<1>1. /\ pass[p].pc # "free" /\ ~pass[p].late /\ failed' = TRUE
      /\ \/ pass' = [pass EXCEPT ![p] = NoPass]
         \/ pass[p].pc # "asked" /\ pass' = late
      /\ orphans' = IF pass[p].pc = "asked" THEN orphans \cup {pass[p].tag} ELSE orphans
      /\ UNCHANGED <<kind, isExclusive, state, promise, consumerTag, channel, opened, queue,
                     bound, consumers, nextTag, overlapped, notFound, cancelled>>
  BY DEF Fails, UnderWay
<1>2. /\ late \in [Passes -> PassRecord]
      /\ late[p].late /\ late[p].pc = pass[p].pc
      /\ \A q \in Passes : q # p => late[q] = pass[q]
  BY DEF IInv, TypeOK, PassRecord
<1> HIDE DEF late
<1>3. /\ pass' \in [Passes -> PassRecord]
      /\ \/ pass'[p].pc = "free" /\ ~pass'[p].late
         \/ pass[p].pc # "asked" /\ pass'[p].pc = pass[p].pc /\ pass'[p].late
      /\ \A q \in Passes : q # p => pass'[q] = pass[q]
  BY <1>1, <1>2, EndedIs DEF IInv, TypeOK
<1>4. orphans' \subseteq Nat /\ orphans \subseteq orphans'
  BY <1>1 DEF IInv, TypeOK, PassRecord
<1>5. TypeOK'
  BY <1>1, <1>3, <1>4 DEF IInv, TypeOK
<1>6. state # "ready"
  BY <1>1 DEF IInv, PassInv, FreePasses
<1>7. PassInv'
  BY <1>1, <1>3, <1>6 DEF IInv, PassInv, Active
<1>8. ConsumerInv'
  <2>1. \A t : Asked(t) /\ t \notin orphans' => Asked(t)'
    BY <1>1, <1>3 DEF Asked
  <2>2. UnderWay = {} => UnderWay' = {}
    BY <1>3 DEF UnderWay
  <2> QED
    BY <1>1, <1>4, <1>6, <2>1, <2>2 DEF IInv, ConsumerInv
<1>9. BoundInv'
  BY <1>1, <1>3 DEF IInv, BoundInv, Initializing, Consumes
<1>10. InitializedFirst'
  BY <1>1 DEF IInv, InitializedFirst
<1> QED
  BY <1>5, <1>7, <1>8, <1>9, <1>10 DEF IInv

\* The broker cancels a consumer.
LEMMA ConsumerCancelledStep ==
  ASSUME IInv, NEW t \in consumers, ConsumerCancelled(t) PROVE IInv'
<1>1. TypeOK'
  BY DEF ConsumerCancelled, IInv, TypeOK
<1>2. PassInv'
  BY DEF ConsumerCancelled, IInv, PassInv, Active, FreePasses
<1>3. ConsumerInv'
  BY DEF ConsumerCancelled, IInv, ConsumerInv, Asked, UnderWay
<1>4. BoundInv'
  BY DEF ConsumerCancelled, IInv, BoundInv, Initializing, Consumes
<1>5. InitializedFirst'
  BY DEF ConsumerCancelled, IInv, InitializedFirst
<1> QED
  BY <1>1, <1>2, <1>3, <1>4, <1>5 DEF IInv

-----------------------------------------------------------------------------
(* The theorems *)

\* Nothing is going on at first.
LEMMA Initially == ASSUME Init PROVE IInv
<1>1. NoPass \in PassRecord /\ NoPass.pc = "free" /\ ~NoPass.late
  BY DEF NoPass, PassRecord
<1>2. TypeOK
  BY <1>1, QueueListenerAssumption DEF Init, TypeOK
<1>3. PassInv /\ ConsumerInv /\ BoundInv /\ InitializedFirst
  BY <1>1 DEF Init, PassInv, ConsumerInv, BoundInv, InitializedFirst, Active, FreePasses,
              Consumes
<1> QED
  BY <1>2, <1>3 DEF IInv

\* No step takes the system out of the invariant.
LEMMA Step == ASSUME IInv, [Next]_vars PROVE IInv'
<1>1. CASE Listen \/ Dispose \/ ChannelLost \/ ChannelBack
  BY <1>1, ListenStep, DisposeStep, ChannelLostStep, ChannelBackStep
<1>2. ASSUME NEW p \in Passes, Continues(p) \/ Fails(p) PROVE IInv'
  BY <1>2, AnsweredStep, ConsumeReachesStep, ConsumingStep, QueueNotFoundStep, FailsStep
  DEF Continues
<1>3. ASSUME NEW t \in consumers, ConsumerCancelled(t) PROVE IInv'
  BY <1>3, ConsumerCancelledStep
<1>4. CASE UNCHANGED vars
  BY <1>4 DEF vars, IInv, TypeOK, PassInv, ConsumerInv, BoundInv, InitializedFirst, Active,
              Initializing, Consumes, FreePasses, UnderWay, Asked
<1> QED
  BY <1>1, <1>2, <1>3, <1>4 DEF Next

\* The inductive invariant holds in every reachable state of QueueListener.
THEOREM Invariance == Safety => []IInv
<1>1. Init => IInv
  BY Initially
<1>2. IInv /\ [Next]_vars => IInv'
  BY Step
<1> QED
  BY <1>1, <1>2, PTL DEF Safety

\* Every variable keeps its type.
THEOREM TypeCorrect == Safety => []TypeOK
<1>1. IInv => TypeOK
  BY DEF IInv
<1> QED
  BY <1>1, Invariance, PTL

(***************************************************************************)
(* dispose() leaves nobody consuming, whatever passes are under way and    *)
(* however often the channel is lost, but for the consumers whose tag the  *)
(* listener never had or has lost to an overlapping pass.                  *)
(***************************************************************************)
THEOREM NobodyConsumesOnceDisposed == Safety => []DisposedConsumesNothing
<1>1. ASSUME IInv, state = "disposed", UnderWay = {} PROVE consumers \subseteq orphans
  <2>1. \A t : ~Asked(t)
    BY <1>1 DEF IInv, PassInv, Asked, UnderWay
  <2> QED
    BY <1>1, <2>1 DEF IInv, TypeOK, ConsumerInv
<1>2. IInv => DisposedConsumesNothing
  BY <1>1 DEF DisposedConsumesNothing
<1> QED
  BY <1>2, Invariance, PTL

(***************************************************************************)
(* The listener's own passes never go to consume a queue that is not       *)
(* there, and what is consumed is declared and bound.                      *)
(***************************************************************************)
THEOREM ConsumedIsInitialized == Safety => []InitializedFirst
<1>1. IInv => InitializedFirst
  BY DEF IInv
<1> QED
  BY <1>1, Invariance, PTL
=============================================================================
