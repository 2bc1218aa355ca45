---------------------------- MODULE JobClientProofs ----------------------------
(***************************************************************************)
(* The safety properties of JobClient.tla, proved for every set of calls   *)
(* and any number of lost connections.                                     *)
(***************************************************************************)
EXTENDS JobClient, TLAPS

-----------------------------------------------------------------------------
(* The inductive invariant *)

\* The cached initializer, the only one that goes on, is of the present epoch.
CacheInv ==
  /\ isDisposed => cached = 0
  /\ \A i \in Initializers :
       /\ initializer[i].isCurrent <=> i = cached
       /\ initializer[i].step # "none" => call[i].pc # "idle"
  /\ cached # 0 =>
       /\ initializer[cached].step # "none"
       /\ initializer[cached].step = "resolved" /\ connection = "up" =>
            "binding" \in declared
       /\ initializer[cached].step = "rejected" => failedIn[cached] = epoch

\* A call has got its initializer, which has not failed before the call was made.
Joined(c) ==
  LET i == call[c].initializer
  IN /\ i # 0 /\ initializer[i].step # "none"
     /\ initializer[i].step = "rejected" => failedIn[i] >= begun[c]

\* A call that nothing has disturbed can rely on what was declared.
OnItsWay(c) ==
  /\ call[c].pc = "initializing" => call[c].initializer = cached
  /\ call[c].pc \in {"publishing", "sent"} /\ connection = "up" => "binding" \in declared
  /\ call[c].pc \in {"sent", "returned"} => c \in arrived

CallInv ==
  \A c \in Calls :
    /\ begun[c] <= epoch
    /\ call[c].pc \in {"initializing", "uninitialized"} => Joined(c)
    /\ call[c].pc = "uninitialized" => initializer[call[c].initializer].step = "rejected"
    /\ ~isDisposed /\ c \notin disturbed => OnItsWay(c)

IInv == TypeOK /\ CacheInv /\ CallInv

-----------------------------------------------------------------------------
(* What the helpers return *)

\* A call goes on.
LEMMA CallGoesOn ==
  ASSUME TypeOK, NEW c \in Calls,
         NEW pc \in {"returned", "publishing", "sent", "uninitialized", "rejected"},
         call' = [call EXCEPT ![c].pc = pc]
  PROVE  /\ call' \in [Calls -> CallRecord]
         /\ call'[c].pc = pc
         /\ \A d \in Calls : /\ call'[d].initializer = call[d].initializer
                             /\ d # c => call'[d] = call[d]
  BY DEF TypeOK, CallRecord

\* An initialization goes on.
LEMMA InitializerGoesOn ==
  ASSUME TypeOK, NEW i \in Initializers,
         NEW step \in {"exchange", "queue", "binding", "resolved", "rejected"},
         initializer' = [initializer EXCEPT ![i].step = step]
  PROVE  /\ initializer' \in [Initializers -> InitializerRecord]
         /\ initializer'[i].step = step
         /\ \A j \in Initializers : /\ initializer'[j].isCurrent = initializer[j].isCurrent
                                    /\ j # i => initializer'[j] = initializer[j]
  BY DEF TypeOK, InitializerRecord

\* To where it goes on.
LEMMA FollowingType ==
  ASSUME NEW i, initializer[i].step \in {"created", "exchange", "queue", "binding"}
  PROVE  /\ Following(i) \in {"exchange", "queue", "binding", "resolved"}
         /\ Following(i) = "resolved" /\ initializer[i].isCurrent =>
              initializer[i].step = "binding"
  BY DEF Following, StepAfter

\* What is not confirmed is published again.
LEMMA RepeatedIs ==
  ASSUME TypeOK
  PROVE  /\ Repeated \in [Calls -> CallRecord]
         /\ \A c \in Calls :
              /\ Repeated[c].initializer = call[c].initializer
              /\ Repeated[c].pc = IF call[c].pc = "sent" THEN "publishing" ELSE call[c].pc
<1>1. \A c \in Calls : /\ call[c] \in CallRecord
                       /\ [call[c] EXCEPT !.pc = "publishing"] \in CallRecord
  BY DEF TypeOK, CallRecord
<1> QED
  BY <1>1 DEF Repeated, CallRecord

\* The cache is emptied.
LEMMA InitializersDisposed ==
  ASSUME IInv, DisposeInitializers
  PROVE  /\ cached' = 0
         /\ initializer' \in [Initializers -> InitializerRecord]
         /\ \A i \in Initializers : /\ initializer'[i].step = initializer[i].step
                                    /\ ~initializer'[i].isCurrent
<1>1. CASE cached = 0
  BY <1>1, JobClientAssumption DEF DisposeInitializers, IInv, TypeOK, CacheInv, Initializers
<1>2. CASE cached # 0
  <2> DEFINE new == [initializer[cached] EXCEPT !.isCurrent = FALSE]
  <2>1. cached \in Initializers
    BY <1>2 DEF IInv, TypeOK
  <2>2. new \in InitializerRecord /\ new.step = initializer[cached].step /\ ~new.isCurrent
    BY <2>1 DEF IInv, TypeOK, InitializerRecord
  <2>3. initializer' = [initializer EXCEPT ![cached] = new] /\ cached' = 0
    BY <1>2 DEF DisposeInitializers
  <2> HIDE DEF new
  <2> QED
    BY <2>1, <2>2, <2>3 DEF IInv, TypeOK, CacheInv
<1> QED
  BY <1>1, <1>2

-----------------------------------------------------------------------------
(* Every action preserves the invariant *)

\* A step of the initializer i, towards the queue or not.
LEMMA InitializationStep ==
  ASSUME IInv, NEW i \in Initializers,
         NEW step \in {"exchange", "queue", "binding", "resolved", "rejected"},
         initializer' = [initializer EXCEPT ![i].step = step],
         initializer[i].step \in {"created", "exchange", "queue", "binding"},
         declared \subseteq declared', declared' \subseteq {"exchange", "queue", "binding"},
         step = "resolved" /\ initializer[i].isCurrent => "binding" \in declared',
         failedIn' = IF step = "rejected" THEN [failedIn EXCEPT ![i] = epoch] ELSE failedIn,
         call' \in {call, Repeated},
         UNCHANGED <<cached, isDisposed, connection, losses, arrived, epoch, begun,
                     disturbed>>
  PROVE  IInv'
<1>1. /\ initializer' \in [Initializers -> InitializerRecord]
      /\ initializer'[i].step = step
      /\ \A j \in Initializers : /\ initializer'[j].isCurrent = initializer[j].isCurrent
                                 /\ j # i => initializer'[j] = initializer[j]
  BY InitializerGoesOn DEF IInv
<1>2. /\ call' \in [Calls -> CallRecord]
      /\ \A c \in Calls :
           /\ call'[c].initializer = call[c].initializer
           /\ call'[c].pc \in {call[c].pc,
                                IF call[c].pc = "sent" THEN "publishing" ELSE call[c].pc}
  BY RepeatedIs DEF IInv, TypeOK
<1>3. /\ failedIn' \in [Initializers -> Nat]
      /\ \A j \in Initializers : j # i => failedIn'[j] = failedIn[j]
      /\ step = "rejected" => failedIn'[i] = epoch
  BY DEF IInv, TypeOK
<1>4. TypeOK'
  BY <1>1, <1>2, <1>3 DEF IInv, TypeOK
<1>5. CacheInv'
  BY <1>1, <1>2, <1>3 DEF IInv, TypeOK, CacheInv, Initializers
<1>6. CallInv'
  <2> SUFFICES ASSUME NEW c \in Calls
               PROVE  /\ begun[c] <= epoch
                      /\ call'[c].pc \in {"initializing", "uninitialized"} => Joined(c)'
                      /\ call'[c].pc = "uninitialized" =>
                           initializer'[call'[c].initializer].step = "rejected"
                      /\ ~isDisposed /\ c \notin disturbed => OnItsWay(c)'
    BY DEF CallInv
  <2>1. /\ begun[c] <= epoch
        /\ call[c].pc \in {"initializing", "uninitialized"} => Joined(c)
        /\ call[c].pc = "uninitialized" => initializer[call[c].initializer].step = "rejected"
        /\ ~isDisposed /\ c \notin disturbed => OnItsWay(c)
    BY DEF IInv, CallInv
  <2>2. call[c].initializer \in Initializers \cup {0}
    BY DEF IInv, TypeOK, CallRecord, Initializers
  <2>3. call'[c].pc \in {"initializing", "uninitialized"} => Joined(c)'
    BY <1>1, <1>2, <1>3, <2>1, <2>2 DEF Joined
  <2>4. call'[c].pc = "uninitialized" => initializer'[call'[c].initializer].step = "rejected"
    BY <1>1, <1>2, <2>1, <2>2 DEF Joined
  <2>5. ~isDisposed /\ c \notin disturbed => OnItsWay(c)'
    BY <1>2, <2>1 DEF OnItsWay
  <2> QED
    BY <2>1, <2>3, <2>4, <2>5
<1> QED
  BY <1>4, <1>5, <1>6 DEF IInv

\* The broker answers, or initialize() begins.
LEMMA InitializerContinuesStep ==
  ASSUME IInv, NEW i \in Initializers, InitializerContinues(i) PROVE IInv'
<1>1. initializer[i].step \in {"created", "exchange", "queue", "binding"}
  BY DEF InitializerContinues
<1>2. /\ Following(i) \in {"exchange", "queue", "binding", "resolved"}
      /\ Following(i) = "resolved" /\ initializer[i].isCurrent =>
           initializer[i].step = "binding"
  BY <1>1, FollowingType
<1> QED
  BY <1>1, <1>2, InitializationStep DEF InitializerContinues, IInv, TypeOK

\* A command of initialize() is rejected.
LEMMA InitializerFailsStep ==
  ASSUME IInv, NEW i \in Initializers, InitializerFails(i) PROVE IInv'
  BY InitializationStep DEF InitializerFails, IInv, TypeOK

LEMMA NotFoundStep == ASSUME IInv, NEW i \in Initializers, NotFound(i) PROVE IInv'
  BY InitializationStep DEF NotFound, IInv, TypeOK

\* A call begins; it creates an initializer when there is none.
LEMMA PerformStep == ASSUME IInv, NEW c \in Calls, Perform(c) PROVE IInv'
<1> DEFINE made == [pc |-> "initializing", initializer |-> cached']
           new == [step |-> "created", isCurrent |-> TRUE]
<1>1. /\ ~isDisposed /\ call[c].pc = "idle"
      /\ call' = [call EXCEPT ![c] = made]
      /\ begun' = [begun EXCEPT ![c] = epoch]
      /\ UNCHANGED <<isDisposed, connection, losses, declared, arrived, epoch, failedIn,
                     disturbed>>
  BY DEF Perform
<1>2. c # 0 /\ c \in Initializers
  BY JobClientAssumption DEF Initializers
<1>3. /\ cached' \in Initializers
      /\ cached # 0 => cached' = cached /\ initializer' = initializer
      /\ cached = 0 => cached' = c /\ initializer' = [initializer EXCEPT ![c] = new]
  BY <1>2 DEF Perform, IInv, TypeOK
<1>4. made \in CallRecord /\ made.pc = "initializing" /\ made.initializer = cached'
  BY <1>3 DEF CallRecord, Initializers
<1>5. new \in InitializerRecord /\ new.step = "created" /\ new.isCurrent
  BY DEF InitializerRecord
<1> HIDE DEF made, new
<1>6. /\ call' \in [Calls -> CallRecord] /\ call'[c] = made
      /\ \A d \in Calls : d # c => call'[d] = call[d]
  BY <1>1, <1>4 DEF IInv, TypeOK
<1>7. /\ initializer' \in [Initializers -> InitializerRecord]
      /\ \A i \in Initializers :
           initializer'[i] = IF cached = 0 /\ i = c THEN new ELSE initializer[i]
  BY <1>2, <1>3, <1>5 DEF IInv, TypeOK
<1>8. begun' \in [Calls -> Nat] /\ begun'[c] = epoch
      /\ \A d \in Calls : d # c => begun'[d] = begun[d]
  BY <1>1 DEF IInv, TypeOK
<1>9. initializer[c].step = "none"
  BY <1>1, <1>2 DEF IInv, CacheInv
<1>10. TypeOK'
  BY <1>1, <1>3, <1>6, <1>7, <1>8 DEF IInv, TypeOK
<1>11. CacheInv'
  <2>1. ASSUME NEW i \in Initializers
        PROVE  /\ initializer'[i].isCurrent <=> i = cached'
               /\ initializer'[i].step # "none" => call'[i].pc # "idle"
    <3>1. /\ initializer[i].isCurrent <=> i = cached
          /\ initializer[i].step # "none" => call[i].pc # "idle"
      BY DEF IInv, CacheInv
    <3>2. initializer'[i].isCurrent <=> i = cached'
      <4>1. CASE cached = 0 /\ i = c
        BY <1>3, <1>5, <1>7, <4>1
      <4>2. CASE cached = 0 /\ i # c
        <5>1. ~initializer[i].isCurrent /\ i # cached'
          BY <1>3, <3>1, <4>2, JobClientAssumption DEF Initializers
        <5> QED
          BY <1>7, <4>2, <5>1
      <4>3. CASE cached # 0
        BY <1>3, <3>1, <4>3
      <4> QED
        BY <4>1, <4>2, <4>3
    <3>3. i # c => call'[i] = call[i] /\ initializer'[i] = initializer[i]
      BY <1>6, <1>7 DEF Initializers
    <3>4. call'[c].pc # "idle"
      BY <1>4, <1>6
    <3> QED
      BY <3>1, <3>2, <3>3, <3>4
  <2>2. CASE cached = 0
    <3>1. initializer'[cached'].step = "created"
      BY <1>2, <1>3, <1>5, <1>7, <2>2
    <3>2. ~isDisposed'
      BY <1>1
    <3>3. /\ initializer'[cached'].step # "none"
          /\ ~(initializer'[cached'].step = "resolved")
          /\ ~(initializer'[cached'].step = "rejected")
      BY <3>1
    <3>4. isDisposed' => cached' = 0
      BY <3>2
    <3>5. cached' # 0 =>
            /\ initializer'[cached'].step # "none"
            /\ initializer'[cached'].step = "resolved" /\ connection' = "up" =>
                 "binding" \in declared'
            /\ initializer'[cached'].step = "rejected" => failedIn'[cached'] = epoch'
      BY <3>3
    <3> QED
      BY <2>1, <3>4, <3>5 DEF CacheInv
  <2>3. CASE cached # 0
    BY <1>1, <1>3, <1>7, <2>1, <2>3 DEF IInv, CacheInv
  <2> QED
    BY <2>2, <2>3
<1>12. CallInv'
  <2>1. ASSUME NEW d \in Calls, d # c
        PROVE  /\ begun'[d] <= epoch
               /\ call'[d].pc \in {"initializing", "uninitialized"} => Joined(d)'
               /\ call'[d].pc = "uninitialized" =>
                    initializer'[call'[d].initializer].step = "rejected"
               /\ ~isDisposed /\ d \notin disturbed => OnItsWay(d)'
    <3>1. /\ begun[d] <= epoch
          /\ call[d].pc \in {"initializing", "uninitialized"} => Joined(d)
          /\ call[d].pc = "uninitialized" =>
               initializer[call[d].initializer].step = "rejected"
          /\ ~isDisposed /\ d \notin disturbed => OnItsWay(d)
      BY DEF IInv, CallInv
    <3>2. call[d].initializer \in Initializers \cup {0}
      BY DEF IInv, TypeOK, CallRecord, Initializers
    <3>3. call[d].pc \in {"initializing", "uninitialized"} =>
            initializer'[call[d].initializer] = initializer[call[d].initializer]
      BY <1>7, <1>9, <3>1, <3>2 DEF Joined
    <3>4. call[d].pc = "initializing" /\ ~isDisposed /\ d \notin disturbed =>
            cached' = cached
      BY <1>3, <3>1 DEF OnItsWay, Joined
    <3> QED
      BY <1>1, <1>6, <1>8, <2>1, <3>1, <3>3, <3>4 DEF Joined, OnItsWay
  <2>2. Joined(c)'
    <3>1. CASE cached = 0
      BY <1>2, <1>3, <1>4, <1>5, <1>6, <1>7, <3>1 DEF Joined
    <3>2. CASE cached # 0
      BY <1>1, <1>3, <1>4, <1>6, <1>8, <3>2 DEF Joined, IInv, TypeOK, CacheInv
    <3> QED
      BY <3>1, <3>2
  <2>3. OnItsWay(c)'
    BY <1>4, <1>6 DEF OnItsWay
  <2>4. begun'[c] <= epoch'
    BY <1>1, <1>8 DEF IInv, TypeOK
  <2> QED
    BY <1>1, <1>4, <1>6, <2>1, <2>2, <2>3, <2>4 DEF CallInv
<1> QED
  BY <1>10, <1>11, <1>12 DEF IInv

\* A call goes on to pc.
LEMMA CallStep ==
  ASSUME IInv, NEW c \in Calls,
         NEW pc \in {"returned", "publishing", "sent", "uninitialized", "rejected"},
         call' = [call EXCEPT ![c].pc = pc],
         call[c].pc # "idle", arrived \subseteq arrived', arrived' \subseteq Calls,
         pc = "uninitialized" =>
           call[c].pc = "initializing" /\ initializer[call[c].initializer].step = "rejected",
         pc = "publishing" => isDisposed \/ (/\ call[c].pc = "initializing"
                                           /\ initializer[call[c].initializer].step = "resolved"),
         pc = "sent" => call[c].pc = "publishing" /\ connection = "up"
                          /\ ("binding" \in declared => c \in arrived'),
         pc = "returned" => isDisposed \/ call[c].pc = "sent",
         UNCHANGED <<initializer, cached, isDisposed, connection, losses, declared, epoch,
                     begun, failedIn, disturbed>>
  PROVE  IInv'
<1>1. /\ call' \in [Calls -> CallRecord]
      /\ call'[c].pc = pc
      /\ \A d \in Calls : /\ call'[d].initializer = call[d].initializer
                          /\ d # c => call'[d] = call[d]
  BY CallGoesOn DEF IInv
<1>2. TypeOK'
  BY <1>1 DEF IInv, TypeOK
<1>3. CacheInv'
  BY <1>1 DEF IInv, CacheInv, Initializers
<1>4. CallInv'
  <2>1. ASSUME NEW d \in Calls, d # c
        PROVE  /\ begun[d] <= epoch
               /\ call'[d].pc \in {"initializing", "uninitialized"} => Joined(d)'
               /\ call'[d].pc = "uninitialized" =>
                    initializer[call'[d].initializer].step = "rejected"
               /\ ~isDisposed /\ d \notin disturbed => OnItsWay(d)'
    BY <1>1, <2>1 DEF IInv, CallInv, Joined, OnItsWay
  <2>2. pc = "uninitialized" => Joined(c)'
    BY <1>1 DEF IInv, CallInv, Joined
  <2>3. ~isDisposed /\ c \notin disturbed => OnItsWay(c)'
    BY <1>1, JobClientAssumption DEF IInv, CacheInv, CallInv, Joined, OnItsWay
  <2> QED
    BY <1>1, <2>1, <2>2, <2>3 DEF IInv, CallInv
<1> QED
  BY <1>2, <1>3, <1>4 DEF IInv

LEMMA InitializedStep == ASSUME IInv, NEW c \in Calls, Initialized(c) PROVE IInv'
<1>1. CASE initializer[call[c].initializer].step = "rejected"
  BY <1>1, CallStep DEF Initialized, IInv, TypeOK
<1>2. CASE initializer[call[c].initializer].step = "resolved"
  BY <1>2, CallStep DEF Initialized, IInv, TypeOK
<1> QED
  BY <1>1, <1>2 DEF Initialized

LEMMA PublishReachesStep == ASSUME IInv, NEW c \in Calls, PublishReaches(c) PROVE IInv'
  BY CallStep DEF PublishReaches, IInv, TypeOK

LEMMA PublishConfirmedStep == ASSUME IInv, NEW c \in Calls, PublishConfirmed(c) PROVE IInv'
  BY CallStep DEF PublishConfirmed, IInv, TypeOK

LEMMA PublishFailsStep == ASSUME IInv, NEW c \in Calls, PublishFails(c) PROVE IInv'
  BY CallStep DEF PublishFails, IInv, TypeOK

\* dispose()
LEMMA DisposeStep == ASSUME IInv, Dispose PROVE IInv'
<1>1. /\ cached' = 0
      /\ initializer' \in [Initializers -> InitializerRecord]
      /\ \A i \in Initializers : /\ initializer'[i].step = initializer[i].step
                                 /\ ~initializer'[i].isCurrent
  BY InitializersDisposed DEF Dispose
<1>2. isDisposed' /\ isDisposed' \in BOOLEAN
      /\ UNCHANGED <<call, connection, losses, declared, arrived, epoch, begun, failedIn,
                     disturbed>>
  BY DEF Dispose
<1>3. TypeOK'
  BY <1>1, <1>2 DEF IInv, TypeOK
<1>4. CacheInv'
  BY <1>1, <1>2, JobClientAssumption DEF IInv, CacheInv, Initializers
<1>5. CallInv'
  <2>1. \A c \in Calls : call[c].initializer \in Initializers \cup {0}
    BY DEF IInv, TypeOK, CallRecord, Initializers
  <2> QED
    BY <1>1, <1>2, <2>1 DEF IInv, CallInv, Joined
<1> QED
  BY <1>3, <1>4, <1>5 DEF IInv

\* The channel is lost, or the connection and what was declared there.
LEMMA LostStep ==
  ASSUME IInv, Lost,
         \/ UNCHANGED <<connection, declared>>
         \/ connection' = "down" /\ declared' \in {declared, {}}
  PROVE  IInv'
<1>1. /\ call' \in [Calls -> CallRecord]
      /\ \A c \in Calls :
           /\ call'[c].initializer = call[c].initializer
           /\ call'[c].pc = IF call[c].pc = "sent" THEN "publishing" ELSE call[c].pc
  BY RepeatedIs DEF Lost, IInv
<1>2. losses' \in Nat
  BY DEF Lost, IInv, TypeOK
<1>3. UNCHANGED <<initializer, cached, isDisposed, arrived, epoch, begun, failedIn,
                  disturbed>>
  BY DEF Lost
<1>4. TypeOK'
  BY <1>1, <1>2, <1>3 DEF IInv, TypeOK
<1>5. CacheInv'
  BY <1>1, <1>3 DEF IInv, CacheInv, Initializers
<1>6. CallInv'
  BY <1>1, <1>3 DEF IInv, CallInv, Joined, OnItsWay
<1> QED
  BY <1>4, <1>5, <1>6 DEF IInv

\* "reconnected" disturbs the calls under way and empties the cache.
LEMMA ReconnectedStep == ASSUME IInv, Reconnected PROVE IInv'
<1>1. CASE isDisposed
  <2>1. /\ connection' = "up" /\ disturbed' = disturbed \cup UnderWay
        /\ UNCHANGED <<initializer, cached, epoch, call, isDisposed, losses, declared,
                       arrived, begun, failedIn>>
    BY <1>1 DEF Reconnected
  <2>2. TypeOK'
    BY <2>1 DEF IInv, TypeOK, UnderWay
  <2>3. CacheInv' /\ CallInv'
    BY <1>1, <2>1 DEF IInv, CacheInv, CallInv, Joined
  <2> QED
    BY <2>2, <2>3 DEF IInv
<1>2. CASE ~isDisposed
  <2>1. /\ cached' = 0
        /\ initializer' \in [Initializers -> InitializerRecord]
        /\ \A i \in Initializers : /\ initializer'[i].step = initializer[i].step
                                   /\ ~initializer'[i].isCurrent
    BY <1>2, InitializersDisposed DEF Reconnected
  <2>2. /\ connection' = "up" /\ disturbed' = disturbed \cup UnderWay
        /\ epoch' = epoch + 1
        /\ UNCHANGED <<call, isDisposed, losses, declared, arrived, begun, failedIn>>
    BY <1>2 DEF Reconnected
  <2>3. epoch' \in Nat /\ \A c \in Calls : begun[c] <= epoch => begun[c] <= epoch'
    BY <2>2 DEF IInv, TypeOK
  <2>4. TypeOK'
    BY <2>1, <2>2, <2>3 DEF IInv, TypeOK, UnderWay
  <2>5. CacheInv'
    BY <2>1, <2>2, JobClientAssumption DEF IInv, CacheInv, Initializers
  <2>6. CallInv'
    <3>1. \A c \in Calls : call[c].initializer \in Initializers \cup {0}
      BY DEF IInv, TypeOK, CallRecord, Initializers
    <3>2. \A c \in Calls :
            call[c].pc \in {"initializing", "publishing", "sent"} => c \in disturbed'
      BY <2>2 DEF UnderWay
    <3>3. \A c \in Calls : Joined(c) => Joined(c)'
      BY <2>1, <2>2, <3>1 DEF Joined
    <3> QED
      BY <2>1, <2>2, <2>3, <3>1, <3>2, <3>3 DEF IInv, CallInv, Joined, OnItsWay
  <2> QED
    BY <2>4, <2>5, <2>6 DEF IInv
<1> QED
  BY <1>1, <1>2

-----------------------------------------------------------------------------
(* The theorems *)

\* Nobody has called yet.
LEMMA Initially == ASSUME Init PROVE IInv
<1>1. /\ [pc |-> "idle", initializer |-> 0] \in CallRecord
      /\ [step |-> "none", isCurrent |-> FALSE] \in InitializerRecord
  BY DEF CallRecord, InitializerRecord
<1>2. TypeOK
  BY <1>1 DEF Init, TypeOK
<1>3. CacheInv
  BY JobClientAssumption DEF Init, CacheInv, Initializers
<1>4. CallInv
  <2>1. \A c \in Calls : call[c].pc = "idle" /\ begun[c] = 0 /\ epoch = 0
    BY DEF Init
  <2>2. ASSUME NEW c \in Calls PROVE begun[c] <= epoch
    <3>1. begun[c] = 0 /\ epoch = 0
      BY <2>1
    <3>2. begun[c] = epoch /\ epoch \in Nat
      BY <3>1
    <3> QED
      BY <3>2
  <2>3. \A c \in Calls : OnItsWay(c)
    BY <2>1 DEF OnItsWay
  <2> QED
    BY <2>1, <2>2, <2>3 DEF CallInv
<1> QED
  BY <1>2, <1>3, <1>4 DEF IInv

\* No step takes the client out of the invariant.
LEMMA Step == ASSUME IInv, [Next]_vars PROVE IInv'
<1>1. ASSUME NEW c \in Calls, Perform(c) \/ Continues(c) \/ PublishFails(c) PROVE IInv'
  BY <1>1, PerformStep, InitializedStep, PublishReachesStep, PublishConfirmedStep,
     PublishFailsStep DEF Continues
<1>2. ASSUME NEW i \in Initializers,
             InitializerContinues(i) \/ InitializerFails(i) \/ NotFound(i)
      PROVE  IInv'
  BY <1>2, InitializerContinuesStep, InitializerFailsStep, NotFoundStep
<1>3. CASE Dispose \/ Reconnected
  BY <1>3, DisposeStep, ReconnectedStep
<1>4. CASE ChannelLost \/ ConnectionLost
  BY <1>4, LostStep DEF ChannelLost, ConnectionLost
<1>5. CASE UNCHANGED vars
  BY <1>5 DEF vars, IInv, TypeOK, CacheInv, CallInv, Joined, OnItsWay
<1> QED
  BY <1>1, <1>2, <1>3, <1>4, <1>5 DEF Next

\* The inductive invariant holds in every reachable state of JobClient.
THEOREM Invariance == Safety => []IInv
<1>1. Init => IInv
  BY Initially
<1>2. IInv /\ [Next]_vars => IInv'
  BY Step
<1> QED
  BY <1>1, <1>2, PTL DEF Safety

\* Every variable keeps its type.
THEOREM TypeCorrect == Safety => []TypeOK
<1>1. IInv => TypeOK
  BY DEF IInv
<1> QED
  BY <1>1, Invariance, PTL

(***************************************************************************)
(* A performInBackground() that returns has put its job in the queue,      *)
(* unless a "reconnected" has met it on its way or the client is disposed  *)
(* of.                                                                     *)
(***************************************************************************)
THEOREM WhatReturnsIsRouted == Safety => []ReturnedIsRouted
<1>1. IInv => ReturnedIsRouted
  BY DEF IInv, CallInv, OnItsWay, ReturnedIsRouted
<1> QED
  BY <1>1, Invariance, PTL

(***************************************************************************)
(* A call is rejected for an initialization only if that has failed since  *)
(* the last "reconnected" before the call.                                 *)
(***************************************************************************)
THEOREM FailuresAreForgotten == Safety => []FailureForgotten
<1>1. IInv => FailureForgotten
  BY DEF IInv, CallInv, Joined, FailureForgotten
<1> QED
  BY <1>1, Invariance, PTL
=============================================================================
