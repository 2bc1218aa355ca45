---------------------------- MODULE PubSubProofs ----------------------------
(***************************************************************************)
(* The safety properties of PubSub.tla, proved for any number of calls and *)
(* of lost channels.                                                       *)
(***************************************************************************)
EXTENDS PubSub, FiniteSetTheorems, TLAPS

-----------------------------------------------------------------------------
(* The inductive invariant *)

\* A consumer is that of a call which has asked for it; in a Set are those of calls
\* that have got it.
OwnerInv ==
  /\ \A c \in consumers :
       /\ sub[c[1]].pc \in {"asked", "subscribed", "rejected"}
       /\ sub[c[1]].pc = "asked" => c[2] = sub[c[1]].queue
  /\ \A c, d \in consumers : c[1] = d[1] => c = d
  /\ \A i \in Sets : \A s \in sets[i] : sub[s].pc = "subscribed"

\* While calls keep apart, a generated number is greater than those in use.
NumberInv ==
  ~crowded =>
    /\ \A u \in Unsubscribers : unsub[u].pc = "idle"
    /\ \A r, s \in Subscribing : r = s
    /\ \A s \in Subscribing : sub[s].queue \in {0, ConsumerNumber}
    /\ \A c \in consumers :
         sub[c[1]].pc = "subscribed" => c[2] <= Cardinality(Tracked)

\* Calls of unsubscribe() that are not alone and have not raced work on the entry.
RacedInv ==
  ~raced =>
    \A u \in Unsubscribing :
      Subscribing \cup Unsubscribing # {u} =>
        /\ ~unsub[u].all
        /\ unsub[u].set = entry /\ unsub[u].tag \in sets[entry]

\* No other Set than that of a call becomes the entry beneath it.
HeldInv ==
  \A u \in Unsubscribing :
    unsub[u].set # 0 /\ (~raced => entry \in {0, unsub[u].set})

\* The loop of an unsubscribe() gets to whoever consumes.
LoopInv ==
  ~raced /\ ~cutShort =>
    \A u \in Unsubscribing :
      unsub[u].all => Live \subseteq (sets[unsub[u].set] \ unsub[u].done) \cup Rejected

\* With no loop under way, whoever consumes is in the entry.
EntryInv ==
  ~raced /\ ~cutShort =>
    \/ \E u \in Unsubscribing : unsub[u].all
    \/ \A s \in Live : s \in Tracked \/ sub[s].pc \in {"asked", "rejected"}

IInv ==
  /\ TypeOK /\ OwnerInv /\ NumberInv /\ OwnQueue
  /\ RacedInv /\ HeldInv /\ LoopInv /\ EntryInv

-----------------------------------------------------------------------------
(* What the history records, and what the steps of subscribe() leave as it was *)

LEMMA ObservedIs ==
  ASSUME TypeOK, Observed
  PROVE  /\ crowded' \in BOOLEAN /\ raced' \in BOOLEAN
         /\ ~crowded' => /\ ~crowded
                         /\ \A u \in Unsubscribers : unsub'[u].pc = "idle"
                         /\ \A r, s \in Subscribing' : r = s
         /\ ~raced' => ~raced
         /\ RacedInv'
<1>1. /\ crowded' \in BOOLEAN
      /\ ~crowded' => /\ ~crowded
                      /\ \A u \in Unsubscribers : unsub'[u].pc = "idle"
                      /\ \A r, s \in Subscribing' : r = s
  BY DEF Observed, TypeOK
<1>2. raced' \in BOOLEAN /\ (~raced' => ~raced)
  BY DEF Observed, TypeOK
<1>3. RacedInv'
  BY DEF Observed, RacedInv
<1> QED
  BY <1>1, <1>2, <1>3

\* A consumer is that of a call of subscribe().
LEMMA ConsumersAre ==
  ASSUME TypeOK
  PROVE  /\ \A c \in consumers : /\ c = <<c[1], c[2]>>
                                 /\ c[1] \in Subscribers /\ c[1] \in Live /\ c[2] \in Nat
         /\ \A s \in Live : s \in Subscribers /\ \E c \in consumers : c[1] = s
  BY DEF TypeOK, Live

\* A call goes on that neither gets a consumer nor the tag of one.
LEMMA SubscribeGoesOn ==
  ASSUME IInv, Observed,
         UNCHANGED <<autoDelete, unsub, sets, entry, cutShort>>,
         sub' \in [Subscribers -> SubRecord],
         queues' \subseteq Nat, opened' \in Nat, consumers' \subseteq consumers,
         \A s \in Subscribers :
           /\ sub[s].pc = "subscribed" <=> sub'[s].pc = "subscribed"
           /\ sub[s].pc = "rejected" => sub'[s].pc = "rejected",
         \A c \in consumers' : sub'[c[1]] = sub[c[1]] \/ sub'[c[1]].pc = "rejected",
         \A s \in Subscribing' : \/ sub'[s].queue \in {0, ConsumerNumber}
                                 \/ s \in Subscribing /\ sub'[s].queue = sub[s].queue
  PROVE  IInv'
<1>1. TypeOK /\ TypeOK'
  BY ObservedIs DEF IInv, TypeOK
<1>2. /\ ~crowded' => /\ ~crowded
                      /\ \A u \in Unsubscribers : unsub'[u].pc = "idle"
                      /\ \A r, s \in Subscribing' : r = s
      /\ ~raced' => ~raced
      /\ RacedInv'
  BY <1>1, ObservedIs
<1>3. /\ \A c \in consumers : c[1] \in Subscribers
      /\ Live' \subseteq Live /\ Live \subseteq Subscribers
      /\ Rejected \subseteq Rejected'
      /\ \A s \in Live' : sub'[s] = sub[s] \/ sub'[s].pc = "rejected"
  <2>1. Live' \subseteq Live
    BY DEF Live
  <2>2. \A s \in Live' : \E c \in consumers' : c[1] = s
    BY DEF Live
  <2>3. Rejected \subseteq Rejected'
    BY DEF Rejected
  <2> QED
    BY <1>1, <2>1, <2>2, <2>3, ConsumersAre
<1>4. Tracked' = Tracked /\ ConsumerNumber' = ConsumerNumber
  BY DEF Tracked, ConsumerNumber
<1>5. OwnerInv'
  BY <1>1, <1>3 DEF IInv, OwnerInv, TypeOK
<1>6. NumberInv'
  <2> SUFFICES ASSUME ~crowded' PROVE NumberInv'
    BY DEF NumberInv
  <2>1. \A s \in Subscribing' : sub'[s].queue \in {0, ConsumerNumber'}
    BY <1>2, <1>4 DEF IInv, NumberInv
  <2>2. \A c \in consumers' :
          sub'[c[1]].pc = "subscribed" => c[2] <= Cardinality(Tracked')
    BY <1>2, <1>3, <1>4 DEF IInv, NumberInv
  <2> QED
    BY <1>2, <2>1, <2>2 DEF NumberInv
<1>7. OwnQueue'
  BY <1>2, <1>3 DEF IInv, OwnQueue
<1>8. HeldInv'
  BY <1>2 DEF IInv, HeldInv, Unsubscribing
<1>9. LoopInv'
  BY <1>2, <1>3 DEF IInv, LoopInv, Unsubscribing
<1>10. EntryInv'
  <2> SUFFICES ASSUME ~raced', ~cutShort', \A u \in Unsubscribing : ~unsub[u].all,
                      NEW s \in Live'
               PROVE  s \in Tracked' \/ sub'[s].pc \in {"asked", "rejected"}
    BY DEF EntryInv, Unsubscribing
  <2>1. s \in Tracked \/ sub[s].pc \in {"asked", "rejected"}
    BY <1>2, <1>3 DEF IInv, EntryInv
  <2> QED
    BY <1>3, <1>4, <2>1
<1> QED
  BY <1>1, <1>2, <1>5, <1>6, <1>7, <1>8, <1>9, <1>10 DEF IInv

-----------------------------------------------------------------------------
(* What a step of subscribe() does *)

\* A call goes on in a way of its own, and nothing else changes.
LEMMA OneGoesOn ==
  ASSUME IInv, Observed, NEW s \in Subscribers, NEW new \in SubRecord,
         UNCHANGED <<autoDelete, unsub, sets, entry, cutShort, consumers, opened>>,
         queues' \subseteq Nat,
         sub' = [sub EXCEPT ![s] = new],
         sub[s].pc \notin {"subscribed", "rejected"}, new.pc # "subscribed",
         sub[s].pc = "asked" => new.pc = "rejected",
         \/ new.queue \in {0, ConsumerNumber}
         \/ s \in Subscribing /\ new.queue = sub[s].queue
         \/ new.pc = "abandoned"
  PROVE  IInv'
<1>1. /\ sub' \in [Subscribers -> SubRecord] /\ sub'[s] = new
      /\ \A r \in Subscribers : r # s => sub'[r] = sub[r]
  BY DEF IInv, TypeOK
<1>2. opened' \in Nat /\ consumers' \subseteq consumers
  BY DEF IInv, TypeOK
<1>3. \A r \in Subscribers :
        /\ sub[r].pc = "subscribed" <=> sub'[r].pc = "subscribed"
        /\ sub[r].pc = "rejected" => sub'[r].pc = "rejected"
  BY <1>1
<1>4. \A c \in consumers' : sub'[c[1]] = sub[c[1]] \/ sub'[c[1]].pc = "rejected"
  BY <1>1, ConsumersAre DEF IInv, OwnerInv
<1>5. \A r \in Subscribing' : \/ sub'[r].queue \in {0, ConsumerNumber}
                              \/ r \in Subscribing /\ sub'[r].queue = sub[r].queue
  BY <1>1 DEF Subscribing
<1> QED
  BY <1>1, <1>2, <1>3, <1>4, <1>5, SubscribeGoesOn

\* The sizes of the Sets are numbers.
LEMMA ConsumerNumberType == ASSUME TypeOK PROVE ConsumerNumber \in Nat
<1>1. \A i \in Sets : IsFiniteSet(sets[i])
  BY PubSubAssumption, FS_Subset DEF TypeOK
<1>2. \A i \in Sets : Cardinality(sets[i]) \in Nat
  BY <1>1, FS_CardinalityType
<1> QED
  BY <1>2 DEF ConsumerNumber, TypeOK

LEMMA SubscribeStep == ASSUME IInv, NEW s \in Subscribers, Subscribe(s) PROVE IInv'
<1>1. PICK q \in {ConsumerNumber, 0} : sub' = [sub EXCEPT ![s] = Call("queue", q)]
  BY DEF Subscribe
<1>2. /\ Observed /\ sub[s].pc = "idle"
      /\ UNCHANGED <<autoDelete, unsub, sets, entry, cutShort, consumers, opened, queues>>
  BY DEF Subscribe
<1>3. q \in Nat
  BY ConsumerNumberType DEF IInv
<1> DEFINE new == Call("queue", q)
<1>4. new \in SubRecord /\ new.pc = "queue" /\ new.queue = q
  BY <1>3 DEF Call, SubRecord
<1>5. queues' \subseteq Nat
  BY <1>2 DEF IInv, TypeOK
<1> HIDE DEF new
<1> QED
  BY <1>1, <1>2, <1>4, <1>5, OneGoesOn DEF new

LEMMA QueueAssertedStep == ASSUME IInv, NEW s \in Subscribers, QueueAsserted(s) PROVE IInv'
<1> DEFINE new == [sub[s] EXCEPT !.pc = "bind"]
<1>1. /\ Observed /\ sub[s].pc = "queue" /\ sub' = [sub EXCEPT ![s] = new]
      /\ UNCHANGED <<autoDelete, unsub, sets, entry, cutShort, consumers, opened>>
      /\ queues' = queues \cup {sub[s].queue}
  BY DEF QueueAsserted
<1>2. /\ new \in SubRecord /\ new.pc = "bind" /\ new.queue = sub[s].queue
      /\ sub[s].queue \in Nat
  BY DEF IInv, TypeOK, SubRecord
<1>3. queues' \subseteq Nat /\ s \in Subscribing
  BY <1>1, <1>2 DEF IInv, TypeOK, Subscribing
<1> HIDE DEF new
<1> QED
  BY <1>1, <1>2, <1>3, OneGoesOn

LEMMA QueueBoundStep == ASSUME IInv, NEW s \in Subscribers, QueueBound(s) PROVE IInv'
<1> DEFINE new == [sub[s] EXCEPT !.pc = "consume"]
<1>1. /\ Observed /\ sub[s].pc = "bind" /\ sub' = [sub EXCEPT ![s] = new]
      /\ UNCHANGED <<autoDelete, unsub, sets, entry, cutShort, consumers, opened, queues>>
  BY DEF QueueBound
<1>2. new \in SubRecord /\ new.pc = "consume" /\ new.queue = sub[s].queue
  BY DEF IInv, TypeOK, SubRecord
<1>3. queues' \subseteq Nat /\ s \in Subscribing
  BY <1>1 DEF IInv, TypeOK, Subscribing
<1> HIDE DEF new
<1> QED
  BY <1>1, <1>2, <1>3, OneGoesOn

LEMMA SubscribeFailsStep == ASSUME IInv, NEW s \in Subscribers, SubscribeFails(s) PROVE IInv'
<1> DEFINE new == IF sub[s].pc = "consume" THEN Call("abandoned", sub[s].queue)
                  ELSE Call("rejected", 0)
<1>1. /\ Observed /\ sub[s].pc \in {"queue", "bind", "consume", "asked"}
      /\ sub' = [sub EXCEPT ![s] = new]
      /\ UNCHANGED <<autoDelete, unsub, sets, entry, cutShort, consumers, opened, queues>>
  BY DEF SubscribeFails
<1>2. /\ new \in SubRecord
      /\ new.pc = "rejected" => new.queue = 0
      /\ new.pc \in {"abandoned", "rejected"}
      /\ sub[s].pc = "asked" => new.pc = "rejected"
  <2>1. sub[s].queue \in Nat
    BY DEF IInv, TypeOK, SubRecord
  <2>2. /\ Call("abandoned", sub[s].queue) \in SubRecord
        /\ Call("abandoned", sub[s].queue).pc = "abandoned"
        /\ Call("rejected", 0) \in SubRecord
        /\ Call("rejected", 0).pc = "rejected" /\ Call("rejected", 0).queue = 0
    BY <2>1 DEF SubRecord, Call
  <2>3. CASE sub[s].pc = "consume"
    BY <2>2, <2>3
  <2>4. CASE sub[s].pc # "consume"
    BY <2>2, <2>4
  <2> QED
    BY <2>3, <2>4
<1>3. queues' \subseteq Nat
  BY <1>1 DEF IInv, TypeOK
<1> HIDE DEF new
<1> QED
  BY <1>1, <1>2, <1>3, OneGoesOn

\* A generated number is that of the tags in the entry, and one.
LEMMA NumbersAre ==
  ASSUME TypeOK
  PROVE  /\ IsFiniteSet(Tracked) /\ Cardinality(Tracked) \in Nat
         /\ ConsumerNumber = Cardinality(Tracked) + 1
         /\ Tracked \subseteq Subscribers
<1>1. Tracked \subseteq Subscribers
  BY DEF TypeOK, Tracked
<1>2. IsFiniteSet(Tracked)
  BY <1>1, PubSubAssumption, FS_Subset
<1>3. Cardinality(Tracked) \in Nat
  BY <1>2, FS_CardinalityType
<1>4. ConsumerNumber = Cardinality(Tracked) + 1
  <2>1. CASE entry = 0
    BY <2>1, FS_EmptySet DEF ConsumerNumber, Tracked
  <2>2. CASE entry # 0
    BY <2>2 DEF ConsumerNumber, Tracked
  <2> QED
    BY <2>1, <2>2
<1> QED
  BY <1>1, <1>2, <1>3, <1>4

\* The broker has a consumer more, whose number is greater than those in use.
LEMMA ConsumeReachesStep == ASSUME IInv, NEW s \in Subscribers, ConsumeReaches(s) PROVE IInv'
<1> DEFINE new == [sub[s] EXCEPT !.pc = IF sub[s].pc = "consume" THEN "asked"
                                        ELSE "rejected"]
           this == <<s, sub[s].queue>>
<1>1. /\ Observed /\ sub[s].pc \in {"consume", "abandoned"}
      /\ sub' = [sub EXCEPT ![s] = new] /\ consumers' = consumers \cup {this}
      /\ UNCHANGED <<autoDelete, unsub, sets, entry, cutShort, queues, opened>>
  BY DEF ConsumeReaches
<1>2. /\ new \in SubRecord /\ new.queue = sub[s].queue /\ new.queue \in Nat
      /\ new.pc = IF sub[s].pc = "consume" THEN "asked" ELSE "rejected"
  BY DEF IInv, TypeOK, SubRecord
<1>3. this[1] = s /\ this[2] = sub[s].queue /\ this \in Subscribers \X Nat
  BY <1>2
<1> HIDE DEF new, this
<1>4. /\ sub' \in [Subscribers -> SubRecord] /\ sub'[s] = new
      /\ \A r \in Subscribers : r # s => sub'[r] = sub[r]
  BY <1>1, <1>2 DEF IInv, TypeOK
<1>5. TypeOK /\ TypeOK'
  <2>1. consumers' \subseteq Subscribers \X Nat
    BY <1>1, <1>3 DEF IInv, TypeOK
  <2> QED
    BY <1>1, <1>4, <2>1, ObservedIs DEF IInv, TypeOK
<1>6. /\ ~crowded' => /\ ~crowded
                      /\ \A u \in Unsubscribers : unsub'[u].pc = "idle"
                      /\ \A r, t \in Subscribing' : r = t
      /\ ~raced' => ~raced
      /\ RacedInv'
  BY <1>1, <1>5, ObservedIs
<1>7. \A c \in consumers : c[1] \in Subscribers /\ c[1] # s /\ c[2] \in Nat
  BY <1>1, <1>5, ConsumersAre DEF IInv, OwnerInv
<1>8. Live' = Live \cup {s} /\ Live \subseteq Subscribers \ {s}
  <2>1. Live' = Live \cup {s}
    BY <1>1, <1>3 DEF Live
  <2>2. Live \subseteq Subscribers \ {s}
    BY <1>5, <1>7, ConsumersAre
  <2> QED
    BY <2>1, <2>2
<1>9. /\ Tracked' = Tracked /\ ConsumerNumber' = ConsumerNumber
      /\ Rejected \subseteq Rejected' /\ Unsubscribing' = Unsubscribing
      /\ sub[s].pc = "abandoned" => s \in Rejected'
      /\ sub[s].pc = "consume" => s \in Subscribing /\ s \in Subscribing'
      /\ \A r \in Subscribing' : r \in Subscribing /\ sub'[r].queue = sub[r].queue
  <2>1. /\ Tracked' = Tracked /\ ConsumerNumber' = ConsumerNumber
        /\ Unsubscribing' = Unsubscribing
    BY <1>1 DEF Tracked, ConsumerNumber, Unsubscribing
  <2>2. /\ Rejected \subseteq Rejected'
        /\ sub[s].pc = "abandoned" => s \in Rejected'
    BY <1>1, <1>2, <1>4 DEF Rejected
  <2>3. sub[s].pc = "consume" => s \in Subscribing /\ s \in Subscribing'
    BY <1>1, <1>2, <1>4 DEF Subscribing
  <2>4. \A r \in Subscribing' : r \in Subscribing /\ sub'[r].queue = sub[r].queue
    BY <1>1, <1>2, <1>4 DEF Subscribing
  <2> QED
    BY <2>1, <2>2, <2>3, <2>4
<1>10. OwnerInv'
  <2>1. \A c \in consumers' : /\ sub'[c[1]].pc \in {"asked", "subscribed", "rejected"}
                              /\ sub'[c[1]].pc = "asked" => c[2] = sub'[c[1]].queue
    <3>1. /\ sub'[s].pc \in {"asked", "rejected"} /\ sub'[s].queue = this[2]
      BY <1>2, <1>3, <1>4
    <3> QED
      BY <1>1, <1>3, <1>4, <1>7, <3>1 DEF IInv, OwnerInv
  <2>2. \A c, d \in consumers' : c[1] = d[1] => c = d
    BY <1>1, <1>3, <1>7 DEF IInv, OwnerInv
  <2>3. \A i \in Sets : \A t \in sets'[i] : sub'[t].pc = "subscribed"
    BY <1>1, <1>4, <1>5 DEF IInv, OwnerInv, TypeOK
  <2> QED
    BY <2>1, <2>2, <2>3 DEF OwnerInv
<1>11. NumberInv'
  <2> SUFFICES ASSUME ~crowded' PROVE NumberInv'
    BY DEF NumberInv
  <2>1. \A r \in Subscribing' : sub'[r].queue \in {0, ConsumerNumber'}
    BY <1>6, <1>9 DEF IInv, NumberInv
  <2>2. sub'[s].pc # "subscribed"
    BY <1>2, <1>4
  <2>3. \A c \in consumers' :
          sub'[c[1]].pc = "subscribed" => c[2] <= Cardinality(Tracked')
    BY <1>1, <1>3, <1>4, <1>6, <1>7, <1>9, <2>2 DEF IInv, NumberInv
  <2> QED
    BY <1>6, <2>1, <2>3 DEF NumberInv
<1>12. OwnQueue'
  <2> SUFFICES ASSUME ~crowded', NEW c \in consumers', NEW d \in consumers',
                      c[1] \notin Rejected', d[1] \notin Rejected', c[2] = d[2], c[2] # 0
               PROVE  c = d
    BY DEF OwnQueue
  <2>1. ASSUME NEW e \in consumers, e[1] \notin Rejected', e[2] # 0, s \notin Rejected'
        PROVE  e[2] # this[2]
    <3>1. s \in Subscribing
      BY <1>1, <1>9, <2>1
    <3>2. sub[e[1]].pc = "subscribed"
      <4>1. sub[e[1]].pc \in {"asked", "subscribed"}
        BY <1>7, <1>9, <2>1 DEF IInv, OwnerInv, Rejected
      <4>2. sub[e[1]].pc # "asked"
        BY <1>6, <1>7, <3>1 DEF IInv, NumberInv, Subscribing
      <4> QED
        BY <4>1, <4>2
    <3>3. e[2] <= Cardinality(Tracked) /\ this[2] \in {0, Cardinality(Tracked) + 1}
      BY <1>3, <1>5, <1>6, <3>1, <3>2, NumbersAre DEF IInv, NumberInv
    <3>4. e[2] \in Nat /\ Cardinality(Tracked) \in Nat
      BY <1>5, <1>7, NumbersAre
    <3> QED
      BY <2>1, <3>3, <3>4
  <2>2. CASE c = this \/ d = this
    BY <1>1, <1>3, <2>1, <2>2
  <2>3. CASE c # this /\ d # this
    <3>1. /\ c \in consumers /\ d \in consumers
          /\ {c[1], d[1]} \cap Rejected = {}
      BY <1>1, <1>9, <2>3
    <3> QED
      BY <1>6, <3>1 DEF IInv, OwnQueue
  <2> QED
    BY <2>2, <2>3
<1>13. HeldInv'
  BY <1>1, <1>6, <1>9 DEF IInv, HeldInv
<1>14. LoopInv'
  <2> SUFFICES ASSUME ~raced', ~cutShort', NEW u \in Unsubscribing, unsub[u].all
               PROVE  Live' \subseteq (sets[unsub[u].set] \ unsub[u].done) \cup Rejected'
    BY <1>1, <1>9 DEF LoopInv
  <2>1. Live \subseteq (sets[unsub[u].set] \ unsub[u].done) \cup Rejected
    BY <1>1, <1>6 DEF IInv, LoopInv
  <2>2. u # s
    BY PubSubAssumption DEF Unsubscribing
  <2>3. sub[s].pc = "abandoned"
    BY <1>1, <1>6, <1>9, <2>2 DEF RacedInv
  <2> QED
    BY <1>8, <1>9, <2>1, <2>3
<1>15. EntryInv'
  <2> SUFFICES ASSUME ~raced', ~cutShort', \A u \in Unsubscribing : ~unsub[u].all,
                      NEW t \in Live'
               PROVE  t \in Tracked' \/ sub'[t].pc \in {"asked", "rejected"}
    BY <1>1, <1>9 DEF EntryInv
  <2>1. sub'[s].pc \in {"asked", "rejected"}
    BY <1>2, <1>4
  <2>2. t # s => t \in Tracked \/ sub[t].pc \in {"asked", "rejected"}
    BY <1>1, <1>6, <1>8 DEF IInv, EntryInv
  <2> QED
    BY <1>4, <1>8, <1>9, <2>1, <2>2
<1> QED
  BY <1>5, <1>6, <1>10, <1>11, <1>12, <1>13, <1>14, <1>15 DEF IInv

\* The tag is put into the entry, which is one larger.
LEMMA SubscribedStep == ASSUME IInv, NEW s \in Subscribers, Subscribed(s) PROVE IInv'
<1> DEFINE new == Call("subscribed", 0)
<1>1. /\ Observed /\ sub[s].pc = "asked" /\ sub' = [sub EXCEPT ![s] = new]
      /\ entry' = IF entry # 0 THEN entry ELSE s
      /\ sets' = [sets EXCEPT ![entry'] = sets[entry'] \cup {s}]
      /\ UNCHANGED <<autoDelete, unsub, queues, consumers, opened, cutShort>>
  BY DEF Subscribed, ConsumerTags
<1>2. new \in SubRecord /\ new.pc = "subscribed"
  BY DEF Call, SubRecord
<1>3. entry' \in Sets /\ entry' # 0
  BY <1>1, PubSubAssumption DEF IInv, TypeOK, Sets
<1> HIDE DEF new
<1>4. /\ sub' \in [Subscribers -> SubRecord] /\ sub'[s] = new
      /\ \A r \in Subscribers : r # s => sub'[r] = sub[r]
  BY <1>1, <1>2 DEF IInv, TypeOK
<1>5. /\ sets' \in [Sets -> SUBSET Subscribers] /\ sets'[entry'] = sets[entry'] \cup {s}
      /\ \A i \in Sets : sets'[i] \subseteq sets[i] \cup {s} /\ sets[i] \subseteq sets'[i]
  BY <1>1, <1>3 DEF IInv, TypeOK
<1>6. TypeOK /\ TypeOK'
  BY <1>1, <1>3, <1>4, <1>5, ObservedIs DEF IInv, TypeOK
<1>7. /\ ~crowded' => /\ ~crowded
                      /\ \A u \in Unsubscribers : unsub'[u].pc = "idle"
                      /\ \A r, t \in Subscribing' : r = t
      /\ ~raced' => ~raced
      /\ RacedInv'
  BY <1>1, <1>6, ObservedIs
<1>8. Tracked \cup {s} \subseteq Tracked' /\ s \notin Tracked
  <2>1. Tracked' = sets[entry'] \cup {s}
    BY <1>3, <1>5 DEF Tracked
  <2>2. Tracked \subseteq sets[entry']
    BY <1>1 DEF Tracked
  <2>3. s \notin Tracked
    BY <1>1, <1>6 DEF IInv, OwnerInv, Tracked, TypeOK
  <2> QED
    BY <2>1, <2>2, <2>3
<1>9. Cardinality(Tracked') \in Nat /\ Cardinality(Tracked) + 1 <= Cardinality(Tracked')
  <2>1. IsFiniteSet(Tracked) /\ IsFiniteSet(Tracked') /\ Cardinality(Tracked') \in Nat
    <3>1. Tracked' \subseteq Subscribers
      BY <1>6 DEF Tracked, TypeOK
    <3>2. IsFiniteSet(Tracked')
      BY <3>1, PubSubAssumption, FS_Subset
    <3> QED
      BY <1>6, <3>2, NumbersAre, FS_CardinalityType
  <2>2. Cardinality(Tracked \cup {s}) = Cardinality(Tracked) + 1
    BY <1>8, <2>1, FS_AddElement
  <2>3. Cardinality(Tracked \cup {s}) <= Cardinality(Tracked')
    BY <1>8, <2>1, FS_Subset
  <2> QED
    BY <2>1, <2>2, <2>3
<1>10. /\ s \in Subscribing /\ Unsubscribing' = Unsubscribing /\ Live' = Live
       /\ Rejected' = Rejected
       /\ \A r \in Subscribing' : r \in Subscribing /\ r # s
  <2>1. Unsubscribing' = Unsubscribing /\ Live' = Live
    BY <1>1 DEF Unsubscribing, Live
  <2>2. s \in Subscribing /\ \A r \in Subscribing' : r \in Subscribing /\ r # s
    BY <1>1, <1>2, <1>4 DEF Subscribing
  <2>3. Rejected' = Rejected
    BY <1>1, <1>2, <1>4 DEF Rejected
  <2> QED
    BY <2>1, <2>2, <2>3
<1>11. OwnerInv'
  <2>1. \A c \in consumers' : /\ sub'[c[1]].pc \in {"asked", "subscribed", "rejected"}
                              /\ sub'[c[1]].pc = "asked" => c[2] = sub'[c[1]].queue
    BY <1>1, <1>2, <1>4, <1>6, ConsumersAre DEF IInv, OwnerInv
  <2>2. \A i \in Sets : \A t \in sets'[i] : sub'[t].pc = "subscribed"
    BY <1>2, <1>4, <1>5, <1>6 DEF IInv, OwnerInv, TypeOK
  <2> QED
    BY <1>1, <2>1, <2>2 DEF IInv, OwnerInv
<1>12. NumberInv'
  <2> SUFFICES ASSUME ~crowded' PROVE NumberInv'
    BY DEF NumberInv
  <2>1. Subscribing' = {}
    BY <1>7, <1>10 DEF IInv, NumberInv
  <2>2. ASSUME NEW c \in consumers', sub'[c[1]].pc = "subscribed"
        PROVE  c[2] <= Cardinality(Tracked')
    <3>1. c[2] \in Nat /\ c[1] \in Subscribers /\ Cardinality(Tracked) \in Nat
      BY <1>1, <1>6, ConsumersAre, NumbersAre
    <3>2. CASE c[1] = s
      <4>1. c[2] = sub[s].queue
        BY <1>1, <3>2 DEF IInv, OwnerInv
      <4>2. sub[s].queue \in {0, Cardinality(Tracked) + 1}
        BY <1>6, <1>7, <1>10, NumbersAre DEF IInv, NumberInv
      <4> QED
        BY <1>9, <3>1, <4>1, <4>2
    <3>3. CASE c[1] # s
      <4>1. c[2] <= Cardinality(Tracked)
        BY <1>1, <1>4, <1>7, <2>2, <3>1, <3>3 DEF IInv, NumberInv
      <4> QED
        BY <1>9, <3>1, <4>1
    <3> QED
      BY <3>2, <3>3
  <2> QED
    BY <1>7, <2>1, <2>2 DEF NumberInv
<1>13. OwnQueue'
  BY <1>1, <1>7, <1>10 DEF IInv, OwnQueue
<1>14. ASSUME NEW u \in Unsubscribing
       PROVE  Subscribing \cup Unsubscribing # {u}
  BY <1>10, PubSubAssumption DEF Unsubscribing
<1>15. HeldInv'
  <2> SUFFICES ASSUME NEW u \in Unsubscribing
               PROVE  unsub[u].set # 0 /\ (~raced' => entry' \in {0, unsub[u].set})
    BY <1>1, <1>10 DEF HeldInv
  <2>1. unsub[u].set # 0
    BY DEF IInv, HeldInv
  <2>2. ~raced' => unsub[u].set = entry
    BY <1>7, <1>14 DEF IInv, RacedInv
  <2> QED
    BY <1>1, <2>1, <2>2
<1>16. LoopInv'
  <2>1. ~raced' => \A u \in Unsubscribing : ~unsub'[u].all
    BY <1>1, <1>7, <1>14 DEF IInv, RacedInv
  <2> QED
    BY <1>10, <2>1 DEF LoopInv
<1>17. EntryInv'
  <2> SUFFICES ASSUME ~raced', ~cutShort', \A u \in Unsubscribing : ~unsub[u].all,
                      NEW t \in Live
               PROVE  t \in Tracked' \/ sub'[t].pc \in {"asked", "rejected"}
    BY <1>1, <1>10 DEF EntryInv
  <2>1. t \in Tracked \/ sub[t].pc \in {"asked", "rejected"}
    BY <1>1, <1>7 DEF IInv, EntryInv
  <2>2. t \in Subscribers
    BY <1>6, ConsumersAre
  <2> QED
    BY <1>4, <1>8, <2>1, <2>2
<1> QED
  BY <1>6, <1>7, <1>11, <1>12, <1>13, <1>15, <1>16, <1>17 DEF IInv

-----------------------------------------------------------------------------
(* What a loss of the channel does *)

LEMMA InterruptedIs ==
  ASSUME NEW q \in [Subscribers -> SubRecord]
  PROVE  /\ Interrupted(q) \in [Subscribers -> SubRecord]
         /\ \A s \in Subscribers :
              /\ Interrupted(q)[s].queue = q[s].queue
              /\ Interrupted(q)[s].pc = IF q[s].pc = "asked" THEN "consume" ELSE q[s].pc
<1>1. ASSUME NEW s \in Subscribers
      PROVE  /\ Call("consume", q[s].queue) \in SubRecord /\ q[s] \in SubRecord
             /\ Call("consume", q[s].queue).queue = q[s].queue
             /\ Call("consume", q[s].queue).pc = "consume"
  BY DEF Call, SubRecord
<1> QED
  BY <1>1 DEF Interrupted

LEMMA QueuesLeftAre == ASSUME TypeOK, NEW c PROVE QueuesLeft(c) \subseteq Nat
  BY DEF QueuesLeft, TypeOK

LEMMA ChannelLostStep == ASSUME IInv, ChannelLost PROVE IInv'
<1>1. /\ Observed /\ sub' = Interrupted(sub) /\ consumers' = {}
      /\ UNCHANGED <<autoDelete, unsub, sets, entry, cutShort>>
      /\ opened' = opened + 1 /\ queues' = QueuesLeft({})
  BY DEF ChannelLost
<1>2. /\ sub' \in [Subscribers -> SubRecord]
      /\ \A s \in Subscribers :
           /\ sub'[s].queue = sub[s].queue
           /\ sub'[s].pc = IF sub[s].pc = "asked" THEN "consume" ELSE sub[s].pc
  BY <1>1, InterruptedIs DEF IInv, TypeOK
<1>3. queues' \subseteq Nat /\ opened' \in Nat /\ consumers' \subseteq consumers
  BY <1>1, QueuesLeftAre DEF IInv, TypeOK
<1>4. \A s \in Subscribing' : s \in Subscribing /\ sub'[s].queue = sub[s].queue
  BY <1>2 DEF Subscribing
<1>5. \A s \in Subscribers :
        /\ sub[s].pc = "subscribed" <=> sub'[s].pc = "subscribed"
        /\ sub[s].pc = "rejected" => sub'[s].pc = "rejected"
  BY <1>2
<1> QED
  BY <1>1, <1>2, <1>3, <1>4, <1>5, SubscribeGoesOn

LEMMA QueueNotFoundStep == ASSUME IInv, NEW s \in Subscribers, QueueNotFound(s) PROVE IInv'
<1> DEFINE new == Call("rejected", 0)
           q == [sub EXCEPT ![s] = new]
<1>1. /\ Observed /\ sub' = Interrupted(q) /\ consumers' = {}
      /\ UNCHANGED <<autoDelete, unsub, sets, entry, cutShort, opened>>
      /\ queues' = QueuesLeft({}) /\ sub[s].pc \in {"bind", "consume", "abandoned"}
  BY DEF QueueNotFound
<1>2. new \in SubRecord /\ new.pc = "rejected" /\ new.queue = 0
  BY DEF Call, SubRecord
<1> HIDE DEF new
<1>3. /\ q \in [Subscribers -> SubRecord] /\ q[s] = new
      /\ \A r \in Subscribers : r # s => q[r] = sub[r]
  BY <1>2 DEF IInv, TypeOK
<1> HIDE DEF q
<1>4. /\ sub' \in [Subscribers -> SubRecord]
      /\ \A r \in Subscribers :
           /\ sub'[r].queue = q[r].queue
           /\ sub'[r].pc = IF q[r].pc = "asked" THEN "consume" ELSE q[r].pc
  BY <1>1, <1>3, InterruptedIs
<1>5. queues' \subseteq Nat /\ opened' \in Nat /\ consumers' \subseteq consumers
  BY <1>1, QueuesLeftAre DEF IInv, TypeOK
<1>6. \A r \in Subscribing' : r \in Subscribing /\ sub'[r].queue = sub[r].queue
  BY <1>2, <1>3, <1>4 DEF Subscribing
<1>7. \A r \in Subscribers :
        /\ sub[r].pc = "subscribed" <=> sub'[r].pc = "subscribed"
        /\ sub[r].pc = "rejected" => sub'[r].pc = "rejected"
  BY <1>1, <1>2, <1>3, <1>4
<1> QED
  BY <1>1, <1>4, <1>5, <1>6, <1>7, SubscribeGoesOn

-----------------------------------------------------------------------------
(* What a step of unsubscribe() does *)

\* The history tells that a call of unsubscribe() has been made.
LEMMA CrowdedIs ==
  ASSUME TypeOK, Observed, NEW u \in Unsubscribers, unsub'[u].pc # "idle"
  PROVE  crowded' /\ NumberInv' /\ OwnQueue'
<1>1. crowded'
  BY ObservedIs
<1> QED
  BY <1>1 DEF NumberInv, OwnQueue

LEMMA CancelledIs ==
  ASSUME TypeOK, NEW u \in Unsubscribers, Cancelled(u)
  PROVE  /\ consumers' \subseteq consumers /\ queues' \subseteq Nat
         /\ Live' \subseteq Live \ {unsub[u].tag}
<1>1. consumers' = {c \in consumers : c[1] # unsub[u].tag}
  BY DEF Cancelled
<1>2. queues' \subseteq Nat
  BY QueuesLeftAre DEF Cancelled
<1>3. Live' \subseteq Live \ {unsub[u].tag}
  BY <1>1 DEF Live
<1> QED
  BY <1>1, <1>2, <1>3

\* A call begins, on the Set of the entry or on a new one.
LEMMA UnsubscribeStep == ASSUME IInv, NEW u \in Unsubscribers, Unsubscribe(u) PROVE IInv'
<1> DEFINE set == ConsumerTags(u)
           Cancelling(all, t) == [pc |-> "cancelling", all |-> all, tag |-> t, set |-> set,
                                  done |-> {}]
<1>1. /\ Observed /\ unsub[u].pc = "idle"
      /\ UNCHANGED <<autoDelete, sub, sets, entry, queues, consumers, opened, cutShort>>
  BY DEF Unsubscribe
<1>2. set \in Sets /\ set # 0 /\ entry \in {0, set}
  BY PubSubAssumption DEF IInv, TypeOK, ConsumerTags, Sets
<1>3. PICK new \in UnsubRecord :
        /\ unsub' = [unsub EXCEPT ![u] = new]
        /\ new.pc \in {"cancelling", "returned"}
        /\ new.pc = "cancelling" => new.set = set /\ new.done = {}
  <2>1. ASSUME NEW t \in Subscribers, NEW all \in BOOLEAN
        PROVE  /\ Cancelling(all, t) \in UnsubRecord
               /\ Cancelling(all, t).pc = "cancelling"
               /\ Cancelling(all, t).set = set /\ Cancelling(all, t).done = {}
    BY <1>2 DEF UnsubRecord
  <2>2. Over("returned") \in UnsubRecord /\ Over("returned").pc = "returned"
    BY DEF UnsubRecord, Over, Sets
  <2>3. sets[set] \subseteq Subscribers
    BY <1>2 DEF IInv, TypeOK
  <2>4. \/ \E t \in Subscribers : unsub' = [unsub EXCEPT ![u] = Cancelling(FALSE, t)]
        \/ \E t \in Subscribers : unsub' = [unsub EXCEPT ![u] = Cancelling(TRUE, t)]
        \/ unsub' = [unsub EXCEPT ![u] = Over("returned")]
    BY <2>3 DEF Unsubscribe
  <2> HIDE DEF Cancelling, set
  <2> QED
    BY <2>1, <2>2, <2>4
<1> HIDE DEF set
<1>4. /\ unsub' \in [Unsubscribers -> UnsubRecord] /\ unsub'[u] = new
      /\ \A v \in Unsubscribers : v # u => unsub'[v] = unsub[v]
  BY <1>3 DEF IInv, TypeOK
<1>5. TypeOK /\ TypeOK'
  BY <1>1, <1>4, ObservedIs DEF IInv, TypeOK
<1>6. /\ ~raced' => ~raced
      /\ RacedInv'
  BY <1>1, <1>5, ObservedIs
<1>7. NumberInv' /\ OwnQueue'
  BY <1>1, <1>3, <1>4, <1>5, CrowdedIs
<1>8. /\ Live' = Live /\ Tracked' = Tracked /\ Rejected' = Rejected
      /\ Subscribing' = Subscribing
      /\ \A v \in Unsubscribing : v # u /\ v \in Unsubscribing'
      /\ \A v \in Unsubscribing' : v # u => v \in Unsubscribing
      /\ \A v \in Unsubscribing' : v \in Unsubscribers
  <2>1. /\ Live' = Live /\ Tracked' = Tracked /\ Rejected' = Rejected
        /\ Subscribing' = Subscribing
    BY <1>1 DEF Live, Tracked, Rejected, Subscribing
  <2> QED
    BY <1>1, <1>4, <2>1 DEF Unsubscribing
<1>9. OwnerInv'
  BY <1>1 DEF IInv, OwnerInv
<1>10. u \in Unsubscribing' => unsub'[u].set = set /\ unsub'[u].done = {}
  BY <1>3, <1>4 DEF Unsubscribing
<1>11. HeldInv'
  <2> SUFFICES ASSUME NEW v \in Unsubscribing'
               PROVE  unsub'[v].set # 0 /\ (~raced' => entry' \in {0, unsub'[v].set})
    BY DEF HeldInv
  <2>1. CASE v = u
    BY <1>1, <1>2, <1>10, <2>1
  <2>2. CASE v # u
    BY <1>1, <1>4, <1>6, <1>8, <2>2 DEF IInv, HeldInv
  <2> QED
    BY <2>1, <2>2
<1>12. LoopInv'
  <2> SUFFICES ASSUME ~raced', ~cutShort', NEW v \in Unsubscribing', unsub'[v].all
               PROVE  Live \subseteq (sets[unsub'[v].set] \ unsub'[v].done) \cup Rejected
    BY <1>1, <1>8 DEF LoopInv
  <2>1. CASE v # u
    BY <1>1, <1>4, <1>6, <1>8, <2>1 DEF IInv, LoopInv
  <2>2. CASE v = u
    <3>1. Subscribing' \cup Unsubscribing' = {u}
      BY <1>6, <2>2 DEF RacedInv
    <3>2. Unsubscribing = {}
      BY <1>8, <3>1
    <3>3. ASSUME NEW s \in Live PROVE s \in Tracked \/ s \in Rejected
      <4>1. s \in Tracked \/ sub[s].pc \in {"asked", "rejected"}
        BY <1>1, <1>6, <3>2 DEF IInv, EntryInv
      <4>2. s \in Subscribers /\ s # u
        BY <1>5, ConsumersAre, PubSubAssumption
      <4>3. sub[s].pc # "asked"
        BY <1>8, <3>1, <4>2 DEF Subscribing
      <4> QED
        BY <4>1, <4>2, <4>3 DEF Rejected
    <3>4. Tracked \subseteq sets[set]
      BY <1>2 DEF Tracked
    <3> QED
      BY <1>10, <2>2, <3>3, <3>4
  <2> QED
    BY <2>1, <2>2
<1>13. EntryInv'
  <2> SUFFICES ASSUME ~raced', ~cutShort', \A v \in Unsubscribing' : ~unsub'[v].all
               PROVE  \A s \in Live' : s \in Tracked' \/ sub'[s].pc \in {"asked", "rejected"}
    BY DEF EntryInv
  <2>1. \A v \in Unsubscribing : ~unsub[v].all
    BY <1>4, <1>8
  <2> QED
    BY <1>1, <1>6, <1>8, <2>1 DEF IInv, EntryInv
<1> QED
  BY <1>5, <1>6, <1>7, <1>9, <1>11, <1>12, <1>13 DEF IInv

\* What every turn of a call of unsubscribe() does.
LEMMA TurnIs ==
  ASSUME IInv, Observed, NEW u \in Unsubscribers, NEW new \in UnsubRecord,
         unsub[u].pc = "cancelling", new.pc # "idle",
         unsub' = [unsub EXCEPT ![u] = new],
         UNCHANGED <<autoDelete, sub, opened>>,
         sets' \in [Sets -> SUBSET Subscribers], entry' \in Sets,
         queues' \subseteq Nat, consumers' \subseteq consumers, cutShort' \in BOOLEAN,
         \A i \in Sets : sets'[i] \subseteq sets[i]
  PROVE  /\ TypeOK /\ TypeOK' /\ OwnerInv' /\ NumberInv' /\ OwnQueue'
         /\ RacedInv' /\ (~raced' => ~raced)
         /\ Rejected' = Rejected /\ Live' \subseteq Live /\ Live \subseteq Subscribers
         /\ u \in Unsubscribing /\ unsub'[u] = new
         /\ \A v \in Unsubscribing : v \in Unsubscribers
         /\ \A v \in Unsubscribing : v # u => v \in Unsubscribing' /\ unsub'[v] = unsub[v]
         /\ \A v \in Unsubscribing' : v # u => v \in Unsubscribing /\ unsub'[v] = unsub[v]
         /\ u \in Unsubscribing' => new.pc = "cancelling"
<1>1. /\ unsub' \in [Unsubscribers -> UnsubRecord] /\ unsub'[u] = new
      /\ \A v \in Unsubscribers : v # u => unsub'[v] = unsub[v]
  BY DEF IInv, TypeOK
<1>2. TypeOK /\ TypeOK'
  BY <1>1, ObservedIs DEF IInv, TypeOK
<1>3. NumberInv' /\ OwnQueue' /\ RacedInv' /\ (~raced' => ~raced)
  BY <1>1, <1>2, CrowdedIs, ObservedIs
<1>4. Rejected' = Rejected /\ Live' \subseteq Live /\ Live \subseteq Subscribers
  <2>1. Rejected' = Rejected /\ Live' \subseteq Live
    BY DEF Rejected, Live
  <2> QED
    BY <1>2, <2>1, ConsumersAre
<1>5. OwnerInv'
  BY DEF IInv, OwnerInv
<1>6. /\ u \in Unsubscribing
      /\ \A v \in Unsubscribing : v \in Unsubscribers
      /\ \A v \in Unsubscribing : v # u => v \in Unsubscribing' /\ unsub'[v] = unsub[v]
      /\ \A v \in Unsubscribing' : v # u => v \in Unsubscribing /\ unsub'[v] = unsub[v]
      /\ u \in Unsubscribing' => new.pc = "cancelling"
  BY <1>1 DEF Unsubscribing
<1> QED
  BY <1>1, <1>2, <1>3, <1>4, <1>5, <1>6

\* The end of a call leaves no record of its loop.
LEMMA OverIs ==
  ASSUME NEW pc \in {"returned", "rejected"}
  PROVE  Over(pc) \in UnsubRecord /\ Over(pc).pc = pc
  BY DEF Over, UnsubRecord, Sets

\* One consumer is cancelled, and the Set that the call holds is the entry.
LEMMA OneUnsubscribedStep ==
  ASSUME IInv, NEW u \in Unsubscribers, OneUnsubscribed(u)
  PROVE  IInv'
<1> DEFINE new == Over("returned")
           set == unsub[u].set
           tag == unsub[u].tag
<1>1. /\ Observed /\ unsub[u].pc = "cancelling" /\ ~unsub[u].all
      /\ Cancelled(u) /\ entry' = set
      /\ sets' = [sets EXCEPT ![set] = sets[set] \ {tag}]
      /\ unsub' = [unsub EXCEPT ![u] = new]
      /\ UNCHANGED <<autoDelete, sub, opened, cutShort>>
  BY DEF OneUnsubscribed
<1>2. new \in UnsubRecord /\ new.pc = "returned"
  BY OverIs
<1>3. set \in Sets
  BY DEF IInv, TypeOK, UnsubRecord
<1> HIDE DEF new, set, tag
<1>4. /\ consumers' \subseteq consumers /\ queues' \subseteq Nat
      /\ Live' \subseteq Live \ {tag}
  BY <1>1, CancelledIs DEF IInv, tag
<1>5. /\ sets' \in [Sets -> SUBSET Subscribers] /\ sets'[set] = sets[set] \ {tag}
      /\ \A i \in Sets : sets'[i] \subseteq sets[i]
      /\ \A i \in Sets : i # set => sets'[i] = sets[i]
  BY <1>1, <1>3 DEF IInv, TypeOK
<1>6. cutShort' \in BOOLEAN /\ entry' \in Sets
  BY <1>1, <1>3 DEF IInv, TypeOK
<1>7. /\ TypeOK /\ TypeOK' /\ OwnerInv' /\ NumberInv' /\ OwnQueue'
      /\ RacedInv' /\ (~raced' => ~raced)
      /\ Rejected' = Rejected /\ Live \subseteq Subscribers
      /\ u \in Unsubscribing /\ u \notin Unsubscribing'
      /\ \A v \in Unsubscribing : v # u => v \in Unsubscribing' /\ unsub'[v] = unsub[v]
      /\ \A v \in Unsubscribing' : v \in Unsubscribing /\ unsub'[v] = unsub[v]
  BY <1>1, <1>2, <1>4, <1>5, <1>6, TurnIs
<1>8. ASSUME ~raced, NEW v \in Unsubscribing, v # u
      PROVE  ~unsub[v].all /\ unsub[v].set = entry /\ set = entry
  BY <1>7, <1>8 DEF IInv, RacedInv, set
<1>9. set # 0 /\ (~raced => entry \in {0, set})
  BY <1>7 DEF IInv, HeldInv, set
<1>10. HeldInv'
  <2> SUFFICES ASSUME NEW v \in Unsubscribing'
               PROVE  unsub'[v].set # 0 /\ (~raced' => entry' \in {0, unsub'[v].set})
    BY DEF HeldInv
  <2>1. v \in Unsubscribing /\ v # u /\ unsub'[v] = unsub[v]
    BY <1>7
  <2> QED
    BY <1>1, <1>7, <1>8, <2>1 DEF IInv, HeldInv
<1>11. LoopInv'
  <2>1. ~raced' => \A v \in Unsubscribing' : ~unsub'[v].all
    BY <1>7, <1>8
  <2> QED
    BY <2>1 DEF LoopInv
<1>12. EntryInv'
  <2> SUFFICES ASSUME ~raced', ~cutShort', NEW s \in Live'
               PROVE  s \in Tracked' \/ sub'[s].pc \in {"asked", "rejected"}
    BY DEF EntryInv
  <2>1. \A v \in Unsubscribing : ~unsub[v].all
    BY <1>1, <1>7, <1>8
  <2>2. s \in Live /\ s # tag
    BY <1>4
  <2>3. s \in Tracked \/ sub[s].pc \in {"asked", "rejected"}
    BY <1>1, <1>7, <2>1, <2>2 DEF IInv, EntryInv
  <2>4. s \in Tracked => s \in Tracked'
    BY <1>1, <1>5, <1>7, <1>9, <2>2 DEF Tracked
  <2> QED
    BY <1>1, <2>3, <2>4
<1> QED
  BY <1>7, <1>10, <1>11, <1>12 DEF IInv

\* A turn of the loop: the entry is deleted, and the next one is to be cancelled.
LEMMA AllUnsubscribedStep ==
  ASSUME IInv, NEW u \in Unsubscribers, AllUnsubscribed(u)
  PROVE  /\ IInv'
         /\ ~raced' /\ ~cutShort /\ unsub'[u].pc = "returned" => Live' \subseteq Rejected'
<1> DEFINE set == unsub[u].set
           tag == unsub[u].tag
           done == unsub[u].done \cup {tag}
           left == sets[set] \ done
<1>1. /\ Observed /\ unsub[u].pc = "cancelling" /\ unsub[u].all
      /\ Cancelled(u) /\ entry' = 0
      /\ UNCHANGED <<autoDelete, sub, sets, opened, cutShort>>
  BY DEF AllUnsubscribed
<1>2. PICK new \in UnsubRecord :
        /\ unsub' = [unsub EXCEPT ![u] = new]
        /\ \/ new.pc = "returned" /\ left = {}
           \/ /\ new.pc = "cancelling" /\ new.all
              /\ new.set = set /\ new.done = done
  <2>1. CASE left = {} /\ unsub' = [unsub EXCEPT ![u] = Over("returned")]
    BY <2>1, OverIs
  <2>2. CASE \E t \in left : unsub' = [unsub EXCEPT ![u].done = done, ![u].tag = t]
    <3>1. PICK t \in left : unsub' = [unsub EXCEPT ![u].done = done, ![u].tag = t]
      BY <2>2
    <3> DEFINE next == [unsub[u] EXCEPT !.done = done, !.tag = t]
    <3>2. /\ unsub[u] \in UnsubRecord /\ sets[set] \subseteq Subscribers
          /\ unsub \in [Unsubscribers -> UnsubRecord]
      BY DEF IInv, TypeOK, UnsubRecord
    <3>3. t \in Subscribers
      BY <3>2
    <3>4. tag \in Subscribers \cup {0} /\ unsub[u].done \subseteq Subscribers \cup {0}
      BY <3>2 DEF UnsubRecord
    <3>5. done \subseteq Subscribers \cup {0}
      BY <3>4
    <3>6. unsub' = [unsub EXCEPT ![u] = next]
      BY <3>1, <3>2
    <3> HIDE DEF done, left
    <3>7. /\ next \in UnsubRecord /\ next.pc = "cancelling" /\ next.all
          /\ next.set = set /\ next.done = done
      BY <1>1, <3>2, <3>3, <3>5 DEF UnsubRecord
    <3> QED
      BY <3>6, <3>7
  <2> QED
    BY <2>1, <2>2 DEF AllUnsubscribed
<1>3. /\ consumers' \subseteq consumers /\ queues' \subseteq Nat
      /\ Live' \subseteq Live \ {tag}
  BY <1>1, CancelledIs DEF IInv
<1>4. /\ sets' \in [Sets -> SUBSET Subscribers] /\ \A i \in Sets : sets'[i] \subseteq sets[i]
      /\ cutShort' \in BOOLEAN /\ entry' \in Sets
  BY <1>1 DEF IInv, TypeOK, Sets
<1>5. new.pc # "idle"
  BY <1>2
<1> HIDE DEF set, tag, done, left
<1>6. /\ TypeOK /\ TypeOK' /\ OwnerInv' /\ NumberInv' /\ OwnQueue'
      /\ RacedInv' /\ (~raced' => ~raced)
      /\ Rejected' = Rejected /\ Live \subseteq Subscribers
      /\ u \in Unsubscribing /\ unsub'[u] = new
      /\ \A v \in Unsubscribing' : v # u => v \in Unsubscribing /\ unsub'[v] = unsub[v]
      /\ u \in Unsubscribing' => new.pc = "cancelling"
  BY <1>1, <1>2, <1>3, <1>4, <1>5, TurnIs
<1>7. ~raced => \A v \in Unsubscribing : v = u
  BY <1>1, <1>6 DEF IInv, RacedInv
<1>8. ~raced /\ ~cutShort => Live' \subseteq left \cup Rejected
  <2>1. ~raced /\ ~cutShort => Live \subseteq (sets[set] \ unsub[u].done) \cup Rejected
    BY <1>1, <1>6 DEF IInv, LoopInv, set
  <2> QED
    BY <1>3, <2>1 DEF left, done
<1>9. HeldInv'
  <2> SUFFICES ASSUME NEW v \in Unsubscribing' PROVE unsub'[v].set # 0
    BY <1>1 DEF HeldInv
  <2>1. CASE v = u
    BY <1>2, <1>6, <2>1 DEF IInv, HeldInv, set
  <2>2. CASE v # u
    BY <1>6, <2>2 DEF IInv, HeldInv
  <2> QED
    BY <2>1, <2>2
<1>10. LoopInv'
  <2> SUFFICES ASSUME ~raced', ~cutShort', NEW v \in Unsubscribing', unsub'[v].all
               PROVE  Live' \subseteq (sets'[unsub'[v].set] \ unsub'[v].done) \cup Rejected'
    BY DEF LoopInv
  <2>1. v = u
    BY <1>6, <1>7
  <2>2. unsub'[v].set = set /\ unsub'[v].done = done
    BY <1>2, <1>6, <2>1
  <2> QED
    BY <1>1, <1>6, <1>8, <2>2 DEF left
<1>11. ~raced' /\ ~cutShort /\ new.pc = "returned" => Live' \subseteq Rejected'
  BY <1>2, <1>6, <1>8
<1>12. EntryInv'
  <2> SUFFICES ASSUME ~raced', ~cutShort'
               PROVE  \/ \E v \in Unsubscribing' : unsub'[v].all
                      \/ \A s \in Live' : s \in Tracked' \/ sub'[s].pc \in {"asked", "rejected"}
    BY DEF EntryInv
  <2>1. CASE new.pc = "returned"
    <3>1. Live' \subseteq Rejected'
      BY <1>1, <1>11, <2>1
    <3> QED
      BY <3>1 DEF Rejected
  <2>2. CASE new.pc # "returned"
    <3>1. u \in Unsubscribing' /\ unsub'[u].all
      BY <1>2, <1>6, <2>2 DEF Unsubscribing
    <3> QED
      BY <3>1
  <2> QED
    BY <2>1, <2>2
<1>13. IInv'
  BY <1>6, <1>9, <1>10, <1>12 DEF IInv
<1> QED
  BY <1>6, <1>11, <1>13

\* A cancellation is rejected: that of a loop leaves the rest as they are.
LEMMA UnsubscribeFailsStep ==
  ASSUME IInv, NEW u \in Unsubscribers, UnsubscribeFails(u)
  PROVE  IInv'
<1> DEFINE new == Over("rejected")
<1>1. /\ Observed /\ unsub[u].pc = "cancelling"
      /\ Cancelled(u) \/ UNCHANGED <<consumers, queues>>
      /\ unsub' = [unsub EXCEPT ![u] = new]
      /\ cutShort' = (cutShort \/ unsub[u].all)
      /\ UNCHANGED <<autoDelete, sub, sets, entry, opened>>
  BY DEF UnsubscribeFails
<1>2. new \in UnsubRecord /\ new.pc = "rejected"
  BY OverIs
<1> HIDE DEF new
<1>3. consumers' \subseteq consumers /\ queues' \subseteq Nat
  BY <1>1, CancelledIs DEF IInv, TypeOK
<1>4. /\ sets' \in [Sets -> SUBSET Subscribers] /\ \A i \in Sets : sets'[i] \subseteq sets[i]
      /\ entry' \in Sets
  BY <1>1 DEF IInv, TypeOK
<1>5. cutShort' \in BOOLEAN /\ (~cutShort' => ~cutShort /\ ~unsub[u].all)
  BY <1>1 DEF IInv, TypeOK
<1>6. /\ TypeOK /\ TypeOK' /\ OwnerInv' /\ NumberInv' /\ OwnQueue'
      /\ RacedInv' /\ (~raced' => ~raced)
      /\ Rejected' = Rejected /\ Live' \subseteq Live
      /\ u \notin Unsubscribing'
      /\ \A v \in Unsubscribing : v # u => v \in Unsubscribing' /\ unsub'[v] = unsub[v]
      /\ \A v \in Unsubscribing' : v \in Unsubscribing /\ unsub'[v] = unsub[v]
  BY <1>1, <1>2, <1>3, <1>4, <1>5, TurnIs
<1>7. HeldInv'
  BY <1>1, <1>6 DEF IInv, HeldInv
<1>8. LoopInv'
  BY <1>1, <1>5, <1>6 DEF IInv, LoopInv
<1>9. EntryInv'
  <2> SUFFICES ASSUME ~raced', ~cutShort', \A v \in Unsubscribing' : ~unsub'[v].all,
                      NEW s \in Live'
               PROVE  s \in Tracked' \/ sub'[s].pc \in {"asked", "rejected"}
    BY DEF EntryInv
  <2>1. \A v \in Unsubscribing : ~unsub[v].all
    BY <1>5, <1>6
  <2>2. s \in Tracked \/ sub[s].pc \in {"asked", "rejected"}
    BY <1>5, <1>6, <2>1 DEF IInv, EntryInv
  <2> QED
    BY <1>1, <2>2 DEF Tracked
<1> QED
  BY <1>6, <1>7, <1>8, <1>9 DEF IInv

-----------------------------------------------------------------------------
(* The theorems *)

\* Nobody has subscribed yet.
LEMMA Initially == ASSUME Init PROVE IInv
<1>1. Call("idle", 0) \in SubRecord /\ Call("idle", 0).pc = "idle"
  BY DEF Call, SubRecord
<1>2. Over("idle") \in UnsubRecord /\ Over("idle").pc = "idle"
  BY DEF Over, UnsubRecord, Sets
<1>3. /\ \A s \in Subscribers : sub[s].pc = "idle"
      /\ \A u \in Unsubscribers : unsub[u].pc = "idle"
  BY <1>1, <1>2 DEF Init
<1>4. TypeOK
  BY <1>1, <1>2 DEF Init, TypeOK, Sets
<1>5. Live = {} /\ Subscribing = {} /\ Unsubscribing = {}
  BY <1>3 DEF Init, Live, Subscribing, Unsubscribing
<1>6. OwnerInv /\ OwnQueue
  BY DEF Init, OwnerInv, OwnQueue
<1>7. NumberInv
  BY <1>3, <1>5 DEF Init, NumberInv
<1>8. RacedInv /\ HeldInv /\ LoopInv /\ EntryInv
  BY <1>5 DEF RacedInv, HeldInv, LoopInv, EntryInv
<1> QED
  BY <1>4, <1>6, <1>7, <1>8 DEF IInv

\* No step leaves the invariant.
LEMMA Step == ASSUME IInv, [Next]_vars PROVE IInv'
<1>1. ASSUME NEW s \in Subscribers,
             \/ Subscribe(s) \/ QueueAsserted(s) \/ QueueBound(s) \/ ConsumeReaches(s)
             \/ Subscribed(s) \/ SubscribeFails(s) \/ QueueNotFound(s)
      PROVE  IInv'
  BY <1>1, SubscribeStep, QueueAssertedStep, QueueBoundStep, ConsumeReachesStep,
     SubscribedStep, SubscribeFailsStep, QueueNotFoundStep
<1>2. ASSUME NEW u \in Unsubscribers,
             \/ Unsubscribe(u) \/ OneUnsubscribed(u) \/ AllUnsubscribed(u)
             \/ UnsubscribeFails(u)
      PROVE  IInv'
  BY <1>2, UnsubscribeStep, OneUnsubscribedStep, AllUnsubscribedStep, UnsubscribeFailsStep
<1>3. CASE ChannelLost
  BY <1>3, ChannelLostStep
<1>4. CASE UNCHANGED vars
  BY <1>4 DEF vars, IInv, TypeOK, OwnerInv, NumberInv, OwnQueue, RacedInv, HeldInv, LoopInv,
              EntryInv, Live, Tracked, Rejected, Subscribing, Unsubscribing, ConsumerNumber
<1> QED
  BY <1>1, <1>2, <1>3, <1>4 DEF Next

\* The inductive invariant holds in every reachable state of PubSub.
THEOREM Invariance == Spec => []IInv
<1>1. Init => IInv
  BY Initially
<1>2. IInv /\ [Next]_vars => IInv'
  BY Step
<1> QED
  BY <1>1, <1>2, PTL DEF Spec

\* Every variable keeps its type.
THEOREM TypeCorrect == Spec => []TypeOK
<1>1. IInv => TypeOK
  BY DEF IInv
<1> QED
  BY <1>1, Invariance, PTL

(***************************************************************************)
(* Calls of subscribe() that do not overlap get queues of their own, as    *)
(* long as no unsubscribe() has freed a number.                            *)
(***************************************************************************)
THEOREM SubscribersDoNotShare == Spec => []OwnQueue
<1>1. IInv => OwnQueue
  BY DEF IInv
<1> QED
  BY <1>1, Invariance, PTL

(***************************************************************************)
(* Whoever consumes can be unsubscribed, as long as no calls have raced,   *)
(* no loop was cut short and its own subscribe() has not timed out.        *)
(***************************************************************************)
THEOREM NoConsumerIsForgotten == Spec => []ConsumersAreTracked
<1>1. IInv => ConsumersAreTracked
  <2> SUFFICES ASSUME IInv, ~raced, ~cutShort, NEW s \in Live
               PROVE  \/ s \in Tracked \cup Subscribing \cup Rejected
                      \/ \E u \in Unsubscribing : s \in sets[unsub[u].set] \ unsub[u].done
    BY DEF ConsumersAreTracked
  <2>1. s \in Subscribers
    BY ConsumersAre DEF IInv
  <2>2. CASE \E u \in Unsubscribing : unsub[u].all
    BY <2>2 DEF IInv, LoopInv
  <2>3. CASE ~\E u \in Unsubscribing : unsub[u].all
    BY <2>1, <2>3 DEF IInv, EntryInv, Subscribing, Rejected
  <2> QED
    BY <2>2, <2>3
<1> QED
  BY <1>1, Invariance, PTL

\* A loop over all consumers ends in its own turn only.
LEMMA LoopEndsInATurn ==
  ASSUME IInv, [Next]_vars, NEW u \in Unsubscribers,
         unsub[u].all, unsub[u].pc = "cancelling", unsub'[u].pc = "returned"
  PROVE  AllUnsubscribed(u)
<1>1. CASE \E v \in Unsubscribers : v # u /\ (\/ Unsubscribe(v) \/ OneUnsubscribed(v)
                                              \/ AllUnsubscribed(v) \/ UnsubscribeFails(v))
  <2>1. unsub'[u] = unsub[u]
    BY <1>1 DEF IInv, TypeOK, Unsubscribe, OneUnsubscribed, AllUnsubscribed, UnsubscribeFails
  <2> QED
    BY <2>1
<1>2. CASE UnsubscribeFails(u)
  <2>1. unsub'[u].pc = "rejected"
    BY <1>2, OverIs DEF UnsubscribeFails, IInv, TypeOK
  <2> QED
    BY <2>1
<1>3. CASE Unsubscribe(u) \/ OneUnsubscribed(u)
  BY <1>3 DEF Unsubscribe, OneUnsubscribed
<1>4. CASE UNCHANGED unsub
  BY <1>4
<1>5. \/ UNCHANGED unsub
      \/ \E v \in Unsubscribers : \/ Unsubscribe(v) \/ OneUnsubscribed(v)
                                  \/ AllUnsubscribed(v) \/ UnsubscribeFails(v)
  BY DEF Next, vars, Subscribe, QueueAsserted, QueueBound, ConsumeReaches, Subscribed,
         SubscribeFails, QueueNotFound, ChannelLost
<1> QED
  BY <1>1, <1>2, <1>3, <1>4, <1>5

(***************************************************************************)
(* unsubscribe(topic) leaves no consumer, as long as no calls have raced,  *)
(* no loop was cut short and no subscribe() that timed out has left one.   *)
(***************************************************************************)
THEOREM NobodyIsLeft == Spec => AllMeansAll
<1> DEFINE Left == \A u \in Unsubscribers :
             unsub[u].all /\ unsub[u].pc = "cancelling" /\ unsub'[u].pc = "returned"
               /\ ~raced' /\ ~cutShort => Live' \subseteq Rejected'
<1>1. IInv /\ [Next]_vars => Left
  BY LoopEndsInATurn, AllUnsubscribedStep
<1>2. IInv /\ [Next]_vars => [Left]_vars
  BY <1>1
<1> QED
  BY <1>2, Invariance, PTL DEF Spec, AllMeansAll
=============================================================================
