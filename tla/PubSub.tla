------------------------------- MODULE PubSub -------------------------------
(***************************************************************************)
(* The subscriptions of one topic of a PubSub: subscribe(), unsubscribe()  *)
(* and the Map entry topicToConsumerTags.get(topic) that both work on,     *)
(* with the queues and consumers they bring about.  Other topics have      *)
(* other entries, other exchanges and other queues.                        *)
(*                                                                         *)
(* The entry is a JavaScript Set: an object that calls hold on to across   *)
(* their awaits while the Map may come to hold another one.                *)
(***************************************************************************)
EXTENDS Naturals, FiniteSets

CONSTANTS
  Subscribers,    \* bound: calls of subscribe(), numbered in the order they are made
  Unsubscribers,  \* bound: calls of unsubscribe(), numbered likewise
  MaxChannels     \* bound: channels opened in a behaviour, those that the broker
                  \* closes for a missing queue apart

ASSUME PubSubAssumption ==
  /\ Subscribers \cup Unsubscribers \subseteq Nat \ {0}
  /\ Subscribers \cap Unsubscribers = {}
  /\ IsFiniteSet(Subscribers)
  /\ MaxChannels \in Nat \ {0}

VARIABLES
  autoDelete,  \* the option autoDeleteQueue of the subscriptions
  sub,         \* [pc, queue] of each subscribe(); queue: 0: named by the caller; n: a
               \* generated name with that number.  Its consumer has its number as a tag
  unsub,       \* [pc, all, tag, set, done] of each unsubscribe(): for all consumers or
               \* one, the tag it awaits, the Set it holds, the tags it has been through
  sets,        \* the tags in each Set object, which has the number of the call it is of
  entry,       \* the Set that topicToConsumerTags holds; 0: none
  \* the broker
  queues,     \* the queues there are
  consumers,  \* the <<tag, queue>> of the present channel
  opened,
  \* history
  crowded,   \* two calls of subscribe() were under way together, or a call of
             \* unsubscribe() has been made
  raced,     \* a call of unsubscribe() was under way beside another call, one
             \* of them for all consumers or for a tag that is not in the entry
  cutShort   \* a call of unsubscribe() for all consumers was rejected

vars == <<autoDelete, sub, unsub, sets, entry, queues, consumers, opened,
          crowded, raced, cutShort>>

Sets == {0} \cup Subscribers \cup Unsubscribers

Call(pc, queue) == [pc |-> pc, queue |-> queue]
Over(pc) == [pc |-> pc, all |-> FALSE, tag |-> 0, set |-> 0, done |-> {}]

\* getConsumerTags(topic): the Set of the entry, or a new one.
ConsumerTags(call) == IF entry # 0 THEN entry ELSE call

Init ==
  /\ autoDelete \in BOOLEAN
  /\ sub = [s \in Subscribers |-> Call("idle", 0)]
  /\ unsub = [u \in Unsubscribers |-> Over("idle")]
  /\ sets = [i \in Sets |-> {}]
  /\ entry = 0
  /\ queues = {}
  /\ consumers = {}
  /\ opened = 1
  /\ crowded = FALSE
  /\ raced = FALSE
  /\ cutShort = FALSE

Subscribing == {s \in Subscribers : sub[s].pc \in {"queue", "bind", "consume", "asked"}}
Unsubscribing == {u \in Unsubscribers : unsub[u].pc = "cancelling"}

\* The history of what runs beside what, part of every action.
Observed ==
  /\ crowded' = (\/ crowded
                 \/ \E r, s \in Subscribing' : r # s
                 \/ \E u \in Unsubscribers : unsub'[u].pc # "idle")
  /\ raced' = (\/ raced
               \/ \E u \in Unsubscribing' :
                    /\ Subscribing' \cup Unsubscribing' # {u}
                    /\ \/ unsub'[u].all
                       \/ unsub'[u].set # entry'
                       \/ unsub'[u].tag \notin sets'[entry'])

-----------------------------------------------------------------------------
(* subscribe() *)

\* Mutant: the consumers are not counted.
SameNumber == 1

\* generateQueueName(): consumerNumber.
ConsumerNumber == IF entry = 0 THEN 1 ELSE Cardinality(sets[entry]) + 1

(***************************************************************************)
(* subscribe(), once assertExchange() has been answered: only now does it  *)
(* look at the entry, to generate a name unless it is given one.  (Bound:  *)
(* given one for auto-delete queues only, where sharing a queue matters.)  *)
(***************************************************************************)
Subscribe(s) ==
  /\ sub[s].pc = "idle" /\ \A r \in Subscribers : r < s => sub[r].pc # "idle"
  /\ \E q \in {ConsumerNumber} \cup (IF autoDelete THEN {0} ELSE {}) :
       sub' = [sub EXCEPT ![s] = Call("queue", q)]
  /\ UNCHANGED <<autoDelete, unsub, sets, entry, queues, consumers, opened, cutShort>>
  /\ Observed

\* assertQueue() has been answered.
QueueAsserted(s) ==
  /\ sub[s].pc = "queue"
  /\ queues' = queues \cup {sub[s].queue}
  /\ sub' = [sub EXCEPT ![s].pc = "bind"]
  /\ UNCHANGED <<autoDelete, unsub, sets, entry, consumers, opened, cutShort>>
  /\ Observed

\* bindQueue() has been answered.
QueueBound(s) ==
  /\ sub[s].pc = "bind"
  /\ sub[s].queue \in queues
  /\ sub' = [sub EXCEPT ![s].pc = "consume"]
  /\ UNCHANGED <<autoDelete, unsub, sets, entry, queues, consumers, opened,
                 cutShort>>
  /\ Observed

\* consumeQueue() reaches the broker, perhaps when the call has timed out already.
ConsumeReaches(s) ==
  /\ sub[s].pc \in {"consume", "abandoned"}
  /\ sub[s].queue \in queues
  /\ sub' = [sub EXCEPT ![s].pc = IF @ = "consume" THEN "asked" ELSE "rejected"]
  /\ consumers' = consumers \cup {<<s, sub[s].queue>>}
  /\ UNCHANGED <<autoDelete, unsub, sets, entry, queues, opened, cutShort>>
  /\ Observed

\* Mutant: the entry is a Set of this tag alone.
SubscribedAlone(s) ==
  /\ sub[s].pc = "asked"
  /\ sub' = [sub EXCEPT ![s] = Call("subscribed", 0)]
  /\ entry' = ConsumerTags(s)
  /\ sets' = [sets EXCEPT ![entry'] = {s}]
  /\ UNCHANGED <<autoDelete, unsub, queues, consumers, opened, cutShort>>
  /\ Observed

\* consumeQueue() resolves: the tag goes into the Set that is there now.
Subscribed(s) ==
  /\ sub[s].pc = "asked"
  /\ sub' = [sub EXCEPT ![s] = Call("subscribed", 0)]
  /\ entry' = ConsumerTags(s)
  /\ sets' = [sets EXCEPT ![entry'] = @ \cup {s}]
  /\ UNCHANGED <<autoDelete, unsub, queues, consumers, opened, cutShort>>
  /\ Observed

(***************************************************************************)
(* A command of subscribe() times out, and the call is rejected.  The      *)
(* consumer that it has asked for stays; a consumeQueue() that still waits *)
(* for a channel is not given up.  (Bound: of the first subscribe() only.) *)
(***************************************************************************)
SubscribeFails(s) ==
  /\ \A r \in Subscribers : s <= r
  /\ sub[s].pc \in {"queue", "bind", "consume", "asked"}
  /\ sub' = [sub EXCEPT ![s] = IF sub[s].pc = "consume" THEN Call("abandoned", sub[s].queue)
                               ELSE Call("rejected", 0)]
  /\ UNCHANGED <<autoDelete, unsub, sets, entry, queues, consumers, opened,
                 cutShort>>
  /\ Observed

-----------------------------------------------------------------------------
(* The broker and the channel *)

\* The queues that remain when these are the consumers: an auto-delete queue goes
\* with its last one.
QueuesLeft(c) ==
  {q \in queues : autoDelete /\ (\E t \in consumers : t[2] = q) => \E t \in c : t[2] = q}

\* The commands that run when the channel is lost are to be repeated.
Interrupted(q) ==
  [s \in Subscribers |-> IF q[s].pc = "asked" THEN Call("consume", q[s].queue) ELSE q[s]]

\* The channel is lost and another one opened.  Nobody consumes again.
ChannelLost ==
  /\ opened < MaxChannels
  /\ opened' = opened + 1
  /\ sub' = Interrupted(sub)
  /\ consumers' = {}
  /\ queues' = QueuesLeft({})
  /\ UNCHANGED <<autoDelete, unsub, sets, entry, cutShort>>
  /\ Observed

\* 404: there is no such queue any more.  The broker closes the channel.
QueueNotFound(s) ==
  /\ sub[s].pc \in {"bind", "consume", "abandoned"}
  /\ sub[s].queue \notin queues
  /\ sub' = Interrupted([sub EXCEPT ![s] = Call("rejected", 0)])
  /\ consumers' = {}
  /\ queues' = QueuesLeft({})
  /\ UNCHANGED <<autoDelete, unsub, sets, entry, opened, cutShort>>
  /\ Observed

-----------------------------------------------------------------------------
(* unsubscribe() *)

(***************************************************************************)
(* unsubscribe(topic, tag) for a tag that subscribe() has returned, or     *)
(* unsubscribe(topic), which is over at once when there is no tag.  (A Set *)
(* is iterated in the order in which its elements were added; nothing      *)
(* depends on it: any order.)                                              *)
(***************************************************************************)
Unsubscribe(u) ==
  LET set == ConsumerTags(u)
      Cancelling(all, t) == [pc |-> "cancelling", all |-> all, tag |-> t, set |-> set,
                             done |-> {}]
      returned == {s \in Subscribers : sub[s].pc = "subscribed"}
  IN /\ unsub[u].pc = "idle" /\ \A v \in Unsubscribers : v < u => unsub[v].pc # "idle"
     /\ \/ \E t \in returned : unsub' = [unsub EXCEPT ![u] = Cancelling(FALSE, t)]
        \/ \E t \in sets[set] : unsub' = [unsub EXCEPT ![u] = Cancelling(TRUE, t)]
        \/ sets[set] = {} /\ unsub' = [unsub EXCEPT ![u] = Over("returned")]
     /\ UNCHANGED <<autoDelete, sub, sets, entry, queues, consumers, opened,
                    cutShort>>
     /\ Observed

\* The broker cancels the consumer.
Cancelled(u) ==
  /\ consumers' = {t \in consumers : t[1] # unsub[u].tag}
  /\ queues' = QueuesLeft(consumers')

\* cancelConsumption(tag) resolves: the Set that was there at first becomes the entry.
OneUnsubscribed(u) ==
  /\ unsub[u].pc = "cancelling" /\ ~unsub[u].all
  /\ Cancelled(u)
  /\ sets' = [sets EXCEPT ![unsub[u].set] = @ \ {unsub[u].tag}]
  /\ entry' = unsub[u].set
  /\ unsub' = [unsub EXCEPT ![u] = Over("returned")]
  /\ UNCHANGED <<autoDelete, sub, opened, cutShort>>
  /\ Observed

\* Mutant: the loop ends when it has deleted the entry.
OnlyTheFirst(u) ==
  /\ unsub[u].pc = "cancelling" /\ unsub[u].all
  /\ Cancelled(u)
  /\ entry' = 0
  /\ unsub' = [unsub EXCEPT ![u] = Over("returned")]
  /\ UNCHANGED <<autoDelete, sub, sets, opened, cutShort>>
  /\ Observed

\* A turn of the loop over the Set, those added meanwhile included: the entry is deleted,
\* then the next tag cancelled.
AllUnsubscribed(u) ==
  LET done == unsub[u].done \cup {unsub[u].tag}
      left == sets[unsub[u].set] \ done
  IN /\ unsub[u].pc = "cancelling" /\ unsub[u].all
     /\ Cancelled(u)
     /\ entry' = 0
     /\ \/ left = {} /\ unsub' = [unsub EXCEPT ![u] = Over("returned")]
        \/ \E t \in left : unsub' = [unsub EXCEPT ![u].done = done, ![u].tag = t]
     /\ UNCHANGED <<autoDelete, sub, sets, opened, cutShort>>
     /\ Observed

\* cancelConsumption() is rejected (it is not repeated when the channel is lost, and it
\* may time out), whether the broker has cancelled or not.
UnsubscribeFails(u) ==
  /\ unsub[u].pc = "cancelling"
  /\ Cancelled(u) \/ UNCHANGED <<consumers, queues>>
  /\ unsub' = [unsub EXCEPT ![u] = Over("rejected")]
  /\ cutShort' = (cutShort \/ unsub[u].all)
  /\ UNCHANGED <<autoDelete, sub, sets, entry, opened>>
  /\ Observed

-----------------------------------------------------------------------------
Next ==
  \/ \E s \in Subscribers :
       \/ Subscribe(s) \/ QueueAsserted(s) \/ QueueBound(s) \/ ConsumeReaches(s)
       \/ Subscribed(s) \/ SubscribeFails(s) \/ QueueNotFound(s)
  \/ \E u \in Unsubscribers :
       \/ Unsubscribe(u) \/ OneUnsubscribed(u) \/ AllUnsubscribed(u)
       \/ UnsubscribeFails(u)
  \/ ChannelLost

Spec == Init /\ [][Next]_vars

-----------------------------------------------------------------------------
(* What makes it correct *)

SubRecord ==
  [pc : {"idle", "queue", "bind", "consume", "asked", "subscribed", "abandoned", "rejected"},
   queue : Nat]
UnsubRecord ==
  [pc : {"idle", "cancelling", "returned", "rejected"}, all : BOOLEAN,
   tag : Subscribers \cup {0}, set : Sets, done : SUBSET (Subscribers \cup {0})]

\* The values that the variables take.
TypeOK ==
  /\ autoDelete \in BOOLEAN
  /\ sub \in [Subscribers -> SubRecord]
  /\ unsub \in [Unsubscribers -> UnsubRecord]
  /\ sets \in [Sets -> SUBSET Subscribers]
  /\ entry \in Sets
  /\ queues \subseteq Nat
  /\ consumers \subseteq Subscribers \X Nat
  /\ opened \in Nat
  /\ crowded \in BOOLEAN /\ raced \in BOOLEAN /\ cutShort \in BOOLEAN

Live == {c[1] : c \in consumers}
Tracked == IF entry = 0 THEN {} ELSE sets[entry]

\* Those who do not know that they consume: their subscribe() has timed out.
Rejected == {s \in Subscribers : sub[s].pc = "rejected"}

(***************************************************************************)
(* Every subscriber without a queueName has a queue of its own, and hears  *)
(* all that is published: a queue with two consumers gives a message to    *)
(* one of them, with singleActiveConsumer always to the same.  Calls of    *)
(* subscribe() that overlap, consumers left by those that time out, and    *)
(* numbers that unsubscribe() frees, are the exceptions.                   *)
(***************************************************************************)
OwnQueue ==
  ~crowded => \A c, d \in consumers :
    {c[1], d[1]} \cap Rejected = {} /\ c[2] = d[2] /\ c[2] # 0 => c = d

(***************************************************************************)
(* Whoever consumes can be unsubscribed: its tag is in the entry, or the   *)
(* call that is to put it there or to cancel it is under way, unless calls *)
(* have raced, the loop of an unsubscribe() was cut short, or its own      *)
(* subscribe() has timed out.                                              *)
(***************************************************************************)
ConsumersAreTracked ==
  ~raced /\ ~cutShort =>
    Live \subseteq Tracked \cup Subscribing \cup Rejected
      \cup UNION {sets[unsub[u].set] \ unsub[u].done : u \in Unsubscribing}

(***************************************************************************)
(* unsubscribe(topic) leaves no consumer, whatever subscriptions and       *)
(* losses came before it; unless it raced with other calls, or the call    *)
(* that asked for the consumer has timed out.                              *)
(***************************************************************************)
AllMeansAll ==
  [][\A u \in Unsubscribers :
       unsub[u].all /\ unsub[u].pc = "cancelling" /\ unsub'[u].pc = "returned"
         /\ ~raced' /\ ~cutShort => Live' \subseteq Rejected']_vars

=============================================================================
