--------------------------- MODULE JobServerProofs ---------------------------
(***************************************************************************)
(* The properties of JobServer.tla, proved for every set of jobs, every    *)
(* number of attempts, of messages, of runs and of channels, and every     *)
(* behaviour of the handlers.                                              *)
(***************************************************************************)
EXTENDS JobServer, FiniteSetTheorems, TLAPS

-----------------------------------------------------------------------------
(* The inductive invariant *)

\* What is known of a message and of a run that are there.
MessageInv ==
  \A m \in Messages :
    IF msg[m].place = "free" THEN msg[m] = NoMessage
    ELSE msg[m].job \in performed /\ msg[m].attempt # 0

RunOK(rec) ==
  IF rec.pc = "free" THEN rec = NoRun
  ELSE /\ rec.job \in performed /\ rec.attempt # 0
       /\ rec.step["server"] \in Active => rec.attempt < MaxAttempts
       /\ rec.step["server"] \in Unconfirmed => rec.pc = "retrying"
       /\ rec.step["handler"] \in Active =>
            rec.next \in 1 .. MaxAttempts /\ rec.next \in {rec.attempt + 1, 2}
       /\ rec.pc \in {"acking", "over"} => <<rec.job, rec.attempt>> \in handled
       /\ rec.discarded => rec.job \in finished

RunInv == \A r \in Runs : RunOK(run[r])

\* The tag of a lock, if it is of a delivery at all, is of one of this job.
TagInv ==
  /\ \A m \in Messages :
       msg[m].place = "unacked" => channel # "down" /\ msg[m].tag \in 1 .. nextTag
  /\ \A m, n \in Messages :
       m # n /\ msg[m].place = "unacked" /\ msg[n].place = "unacked" =>
         msg[m].tag # msg[n].tag
  /\ state = "listening" /\ channel # "down" =>
       /\ \A j \in Jobs : locks[j] <= nextTag
       /\ \A j \in Jobs : \A m \in Messages :
            msg[m].place = "unacked" /\ msg[m].tag = locks[j] => msg[m].job = j

\* Somebody has gone through the attempt a of the job j, or is about to.
GoneThrough(j, a) ==
  \/ <<j, a>> \in handled
  \/ \E r \in Runs : run[r].job = j /\ run[r].attempt = a

Traced(j, k) == \A a \in 1 .. MaxAttempts : a < k => GoneThrough(j, a)

AttemptInv ==
  /\ \A m \in Messages : Traced(msg[m].job, msg[m].attempt)
  /\ \A r \in Runs : Traced(run[r].job, run[r].attempt)
  /\ \A e \in exhausted : e[2] = MaxAttempts /\ Traced(e[1], MaxAttempts)

\* On the first channel a run has the lock of its job.
LockInv ==
  /\ opened # 0
  /\ opened = 1 =>
       \A r \in Runs : Live(r) => locks[run[r].job] # 0 /\ run[r].epoch = 1
  /\ OneRunOnAChannel

\* A job that is neither finished nor adrift has a message more than it has runs, not
\* yet over, that published one.
MessagesOf(j) == {m \in Messages : msg[m].job = j}
RetriedBy(j) == {r \in Runs : run[r].job = j /\ Live(r) /\ run[r].published # {}}

CountInv ==
  \A j \in performed \ (finished \cup adrift) :
    Cardinality(MessagesOf(j)) > Cardinality(RetriedBy(j))

\* A run that is over and still has the first message to publish.
Belated(j, r) == run[r].job = j /\ run[r].pc = "over" /\ run[r].published = {}

\* On the first channel, a job whose runs publish once and whose retries take their
\* time has one message, or one that is still to be published, besides the one that
\* its run has published.
Unstarted(j) ==
  /\ \A r \in Runs : run[r].job = j => ~Live(r)
  /\ \A m, n \in Messages : msg[m].job = j /\ msg[n].job = j => m = n
  /\ \A r, s \in Runs : Belated(j, r) /\ Belated(j, s) => r = s
  /\ \A m \in Messages : \A r \in Runs : ~(msg[m].job = j /\ Belated(j, r))

OwnMessages(j, r) ==
  /\ \A m, n \in run[r].published : m = n
  /\ \A m \in Messages : msg[m].job = j =>
       \/ msg[m].place = "delayed" /\ m \in run[r].published
       \/ /\ msg[m].place = "unacked" /\ msg[m].tag = locks[j]
          /\ msg[m].attempt = run[r].attempt
  /\ \A q \in Runs : ~Belated(j, q)

SingleInv ==
  \A j \in Jobs :
    opened = 1 /\ j \notin entangled =>
      /\ channel = "up" /\ locks[j] = 0 => Unstarted(j)
      /\ \A r \in Runs :
           channel # "down" /\ run[r].job = j /\ Live(r) => OwnMessages(j, r)

IInv == /\ TypeOK /\ MessageInv /\ RunInv /\ TagInv /\ AttemptInv /\ LockInv
        /\ CountInv /\ SingleInv

-----------------------------------------------------------------------------
(* Finite sets: how the two sides of CountInv grow and shrink *)

\* The first set may grow, the second may shrink.
LEMMA CountKept ==
  ASSUME NEW A, NEW B, NEW A2, NEW B2, IsFiniteSet(B), IsFiniteSet(A2),
         Cardinality(A) > Cardinality(B), A \subseteq A2, B2 \subseteq B
  PROVE  Cardinality(A2) > Cardinality(B2)
<1>1. IsFiniteSet(A) /\ Cardinality(A) <= Cardinality(A2)
  BY FS_Subset
<1>2. IsFiniteSet(B2) /\ Cardinality(B2) <= Cardinality(B)
  BY FS_Subset
<1> QED
  BY <1>1, <1>2, FS_CardinalityType

\* The first gains an element, the second one at most.
LEMMA CountGained ==
  ASSUME NEW A, NEW B, NEW A2, NEW B2, NEW x, NEW y, IsFiniteSet(A), IsFiniteSet(B),
         Cardinality(A) > Cardinality(B), x \notin A, A2 = A \cup {x},
         B2 \subseteq B \cup {y}
  PROVE  Cardinality(A2) > Cardinality(B2)
<1>1. Cardinality(A2) = Cardinality(A) + 1
  BY FS_AddElement
<1>2. IsFiniteSet(B \cup {y}) /\ Cardinality(B \cup {y}) <= Cardinality(B) + 1
  <2>1. /\ IsFiniteSet(B \cup {y})
        /\ Cardinality(B \cup {y}) =
             IF y \in B THEN Cardinality(B) ELSE Cardinality(B) + 1
    BY FS_AddElement
  <2> QED
    BY <2>1, FS_CardinalityType
<1>3. Cardinality(B2) <= Cardinality(B \cup {y}) /\ IsFiniteSet(B2)
  BY <1>2, FS_Subset
<1> QED
  BY <1>1, <1>2, <1>3, FS_CardinalityType

\* The first loses an element at most, the second one.
LEMMA CountLost ==
  ASSUME NEW A, NEW B, NEW A2, NEW B2, NEW x, NEW y, IsFiniteSet(A), IsFiniteSet(B),
         Cardinality(A) > Cardinality(B), A \ {x} \subseteq A2, A2 \subseteq A,
         y \in B, B2 \subseteq B \ {y}
  PROVE  Cardinality(A2) > Cardinality(B2)
<1>1. IsFiniteSet(A \ {x}) /\ Cardinality(A \ {x}) >= Cardinality(A) - 1
  <2>1. /\ IsFiniteSet(A \ {x})
        /\ Cardinality(A \ {x}) =
             IF x \in A THEN Cardinality(A) - 1 ELSE Cardinality(A)
    BY FS_RemoveElement
  <2> QED
    BY <2>1, FS_CardinalityType
<1>2. IsFiniteSet(B \ {y}) /\ Cardinality(B \ {y}) = Cardinality(B) - 1
  BY FS_RemoveElement
<1>3. IsFiniteSet(A2) /\ Cardinality(A \ {x}) <= Cardinality(A2)
  <2>1. IsFiniteSet(A2)
    BY FS_Subset
  <2> QED
    BY <2>1, FS_Subset
<1>4. IsFiniteSet(B2) /\ Cardinality(B2) <= Cardinality(B \ {y})
  BY <1>2, FS_Subset
<1> QED
  BY <1>1, <1>2, <1>3, <1>4, FS_CardinalityType

-----------------------------------------------------------------------------
(* What the helpers of JobServer return *)

\* The place that Put() takes.
Taken == AnyOf(FreeMessages)

LEMMA TakenIsFree ==
  ASSUME FreeMessages # {}
  PROVE  Taken \in Messages /\ msg[Taken].place = "free"
  BY DEF Taken, AnyOf, FreeMessages

\* A message that is put is there, and the others are as they were.
LEMMA PutType ==
  ASSUME TypeOK, NEW place \in {"ready", "delayed"}, NEW j \in Jobs,
         NEW a \in 1 .. MaxAttempts, FreeMessages # {}
  PROVE  /\ \A m \in Messages :
              Put(place, j, a)[m] =
                IF m = Taken
                THEN [place |-> place, job |-> j, attempt |-> a, tag |-> 0]
                ELSE msg[m]
         /\ Put(place, j, a) \in [Messages -> MessageRecord]
<1>1. Taken \in Messages
  BY TakenIsFree
<1> QED
  BY <1>1, JobServerAssumption DEF Put, TypeOK, MessageRecord, Taken

\* The messages and the runs of a job are finitely many.
LEMMA Finite ==
  ASSUME NEW j
  PROVE  /\ IsFiniteSet(MessagesOf(j)) /\ IsFiniteSet(RetriedBy(j))
         /\ IsFiniteSet(MessagesOf(j)') /\ IsFiniteSet(RetriedBy(j)')
  BY JobServerAssumption, FS_Subset DEF MessagesOf, RetriedBy

\* The fields of a place for a run that is free.
LEMMA NoRunIs ==
  /\ NoRun.pc = "free" /\ NoRun.job = "none" /\ NoRun.attempt = 0
  /\ NoRun.published = {} /\ NoRun.tag = 0 /\ NoRun.epoch = 0
  /\ NoRun.discarded = FALSE /\ NoRun.next = 0
  /\ NoRun.step = [w \in Callers |-> "none"]
  /\ NoRun \in RunRecord
  BY JobServerAssumption DEF NoRun, RunRecord

LEMMA NewRunIs ==
  ASSUME NEW j \in Jobs, NEW a \in 1 .. MaxAttempts, opened \in Nat
  PROVE  /\ NewRun(j, a) \in RunRecord
         /\ NewRun(j, a).pc = "handling" /\ NewRun(j, a).job = j
         /\ NewRun(j, a).attempt = a /\ NewRun(j, a).published = {}
         /\ NewRun(j, a).epoch = opened /\ ~NewRun(j, a).discarded
         /\ NewRun(j, a).step["server"] = "none"
         /\ NewRun(j, a).step["handler"] = "none"
<1>1. a \in 0 .. MaxAttempts /\ {} \in SUBSET Messages /\ 0 \in 0 .. MaxAttempts
  BY JobServerAssumption
<1>2. NoRun \in RunRecord /\ NoRun.published = {} /\ ~NoRun.discarded
  BY NoRunIs
<1>3. NoRun.step["server"] = "none" /\ NoRun.step["handler"] = "none"
  BY NoRunIs DEF Callers
<1> QED
  BY <1>1, <1>2, <1>3 DEF NewRun, RunRecord

\* A run with a retry() at another step is as it was otherwise.
LEMMA SteppedIs ==
  ASSUME TypeOK, NEW r \in Runs, NEW w \in Callers,
         NEW step \in Active \cup {"none", "done"}
  PROVE  LET rec == Stepped(r, w, step)
         IN  /\ rec \in RunRecord
             /\ rec.pc = run[r].pc /\ rec.job = run[r].job
             /\ rec.attempt = run[r].attempt /\ rec.discarded = run[r].discarded
             /\ rec.next = run[r].next /\ rec.published = run[r].published
             /\ rec.epoch = run[r].epoch /\ rec.tag = run[r].tag
             /\ rec.step[w] = step
             /\ \A v \in Callers \ {w} : rec.step[v] = run[r].step[v]
<1>1. run[r] \in RunRecord
  BY DEF TypeOK
<1>2. run[r].step \in [Callers -> Active \cup {"none", "done"}]
  BY <1>1 DEF RunRecord
<1>3. [run[r].step EXCEPT ![w] = step] \in [Callers -> Active \cup {"none", "done"}]
  BY <1>2
<1> QED
  BY <1>1, <1>2, <1>3 DEF Stepped, RunRecord

\* What is left of a run is nothing, or the run with its retries.
LEMMA LeftIs ==
  ASSUME NEW rec \in RunRecord
  PROVE  /\ Left(rec) \in RunRecord
         /\ \/ Left(rec) = NoRun
            \/ /\ Left(rec).pc = "over" /\ Left(rec).job = rec.job
               /\ Left(rec).attempt = rec.attempt /\ Left(rec).published = rec.published
               /\ Left(rec).step = rec.step /\ Left(rec).next = rec.next
               /\ ~Left(rec).discarded
  BY NoRunIs DEF Left, RunRecord

\* The fields of what is there.
LEMMA Fields ==
  ASSUME TypeOK, MessageInv, RunInv
  PROVE  /\ \A m \in Messages :
              /\ msg[m].attempt \in Nat /\ msg[m].tag \in Nat
              /\ msg[m].place # "free" =>
                   /\ msg[m].job \in Jobs /\ msg[m].job \in performed
                   /\ msg[m].attempt \in 1 .. MaxAttempts
         /\ \A r \in Runs :
              /\ run[r].attempt \in Nat /\ run[r].published \subseteq Messages
              /\ run[r].pc # "free" =>
                   /\ run[r].job \in Jobs /\ run[r].job \in performed
                   /\ run[r].attempt \in 1 .. MaxAttempts
         /\ performed \subseteq Jobs /\ opened \in Nat /\ nextTag \in Nat
<1>1. performed \subseteq Jobs /\ opened \in Nat /\ nextTag \in Nat
  BY DEF TypeOK
<1>2. ASSUME NEW m \in Messages
      PROVE  /\ msg[m].attempt \in 0 .. MaxAttempts /\ msg[m].tag \in Nat
             /\ msg[m].place # "free" => msg[m].job \in performed /\ msg[m].attempt # 0
  BY DEF TypeOK, MessageRecord, MessageInv
<1>3. ASSUME NEW r \in Runs
      PROVE  /\ run[r].attempt \in 0 .. MaxAttempts /\ run[r].published \subseteq Messages
             /\ run[r].pc # "free" => run[r].job \in performed /\ run[r].attempt # 0
  <2>1. run[r] \in RunRecord
    BY DEF TypeOK
  <2>2. run[r].attempt \in 0 .. MaxAttempts /\ run[r].published \subseteq Messages
    BY <2>1 DEF RunRecord
  <2> QED
    BY <2>2 DEF RunInv, RunOK
<1> QED
  BY <1>1, <1>2, <1>3, JobServerAssumption

\* What carries the name of a job is not free.
LEMMA JobIsThere ==
  ASSUME MessageInv, RunInv, NEW j \in Jobs
  PROVE  /\ \A r \in Runs : run[r].job = j => run[r].pc # "free" /\ j \in performed
         /\ \A m \in Messages : msg[m].job = j => msg[m].place # "free" /\ j \in performed
<1>1. ASSUME NEW r \in Runs, run[r].job = j PROVE run[r].pc # "free"
  <2>1. run[r].pc = "free" => run[r] = NoRun
    BY DEF RunInv, RunOK
  <2> QED
    BY <1>1, <2>1, NoRunIs, JobServerAssumption
<1>2. ASSUME NEW m \in Messages, msg[m].job = j PROVE msg[m].place # "free"
  BY <1>2, JobServerAssumption DEF MessageInv, NoMessage
<1> QED
  BY <1>1, <1>2 DEF RunInv, RunOK, MessageInv

\* The history grows, and what is known of a run stays so.
LEMMA RunsKept ==
  ASSUME NEW rec, RunOK(rec), performed \subseteq performed', handled \subseteq handled',
         finished \subseteq finished'
  PROVE  RunOK(rec)'
  BY DEF RunOK

\* What has been gone through stays so, and the attempts that are there are traced
\* if each was there before, on a message or in a run.
LEMMA AttemptsKept ==
  ASSUME IInv,
         \A j \in Jobs : \A a \in 1 .. MaxAttempts :
           GoneThrough(j, a) => GoneThrough(j, a)',
         \A m \in Messages :
           \/ msg'[m].attempt = 0
           \/ \E n \in Messages : /\ msg[n].job = msg'[m].job
                                 /\ msg[n].attempt = msg'[m].attempt
           \/ Traced(msg[m].job, msg[m].attempt)',
         \A r \in Runs :
           \/ run'[r].attempt = 0
           \/ \E n \in Messages : /\ msg[n].job = run'[r].job
                                 /\ msg[n].attempt = run'[r].attempt
           \/ \E q \in Runs : /\ run[q].job = run'[r].job
                             /\ run[q].attempt = run'[r].attempt,
         \A e \in exhausted' :
           \/ e \in exhausted
           \/ \E r \in Runs : /\ run[r].attempt = MaxAttempts
                             /\ e = <<run[r].job, MaxAttempts>>
  PROVE  AttemptInv'
<1>1. ASSUME NEW j \in Jobs, NEW k, Traced(j, k) PROVE Traced(j, k)'
  BY <1>1 DEF Traced
<1>2. ASSUME NEW j, NEW k, k = 0 PROVE Traced(j, k)'
  BY <1>2, JobServerAssumption DEF Traced
<1>3. ASSUME NEW n \in Messages, msg[n].attempt # 0
      PROVE  Traced(msg[n].job, msg[n].attempt) /\ msg[n].job \in Jobs
  BY <1>3, Fields DEF IInv, MessageInv, NoMessage, AttemptInv
<1>4. ASSUME NEW q \in Runs, run[q].attempt # 0
      PROVE  Traced(run[q].job, run[q].attempt) /\ run[q].job \in Jobs
  BY <1>4, Fields, NoRunIs DEF IInv, RunInv, RunOK, AttemptInv
<1>5. ASSUME NEW m \in Messages PROVE Traced(msg[m].job, msg[m].attempt)'
  BY <1>1, <1>2, <1>3
<1>6. ASSUME NEW r \in Runs PROVE Traced(run[r].job, run[r].attempt)'
  BY <1>1, <1>2, <1>3, <1>4
<1>7. ASSUME NEW e \in exhausted' PROVE e[2] = MaxAttempts /\ Traced(e[1], MaxAttempts)'
  <2>1. CASE e \in exhausted
    BY <1>1, <2>1 DEF IInv, TypeOK, AttemptInv
  <2>2. CASE e \notin exhausted
    BY <1>1, <1>4, <2>2, JobServerAssumption
  <2> QED
    BY <2>1, <2>2
<1> QED
  BY <1>5, <1>6, <1>7 DEF AttemptInv

-----------------------------------------------------------------------------
(* Each action preserves it *)

\* A new job has its first message.
LEMMA PerformStep == ASSUME IInv, NEW j \in Jobs, Perform(j) PROVE IInv'
<1> DEFINE m == Taken
<1>1. /\ m \in Messages /\ msg[m].place = "free"
      /\ \A n \in Messages :
           msg'[n] = IF n = m
                     THEN [place |-> "ready", job |-> j, attempt |-> 1, tag |-> 0]
                     ELSE msg[n]
      /\ msg' \in [Messages -> MessageRecord]
  BY PutType, TakenIsFree, JobServerAssumption DEF Perform, IInv
<1>2. /\ \A r \in Runs : run[r].job # j
      /\ \A n \in Messages : msg[n].job # j
  BY JobIsThere DEF Perform, IInv
<1>3. TypeOK' /\ MessageInv'
  BY <1>1 DEF Perform, IInv, TypeOK, MessageInv, NoMessage
<1>4. RunInv'
  BY RunsKept DEF Perform, IInv, RunInv
<1>5. TagInv'
  BY <1>1 DEF Perform, IInv, TagInv
<1>6. AttemptInv'
  <2>1. Traced(j, 1)'
    BY JobServerAssumption DEF Traced
  <2> QED
    BY <1>1, <2>1, AttemptsKept DEF Perform, GoneThrough
<1>7. LockInv'
  BY DEF Perform, IInv, LockInv, OneRunOnAChannel, Live
<1>8. CountInv'
  <2> SUFFICES ASSUME NEW i \in (performed \ (finished \cup adrift))'
               PROVE  Cardinality(MessagesOf(i)') > Cardinality(RetriedBy(i)')
    BY DEF CountInv
  <2>1. RetriedBy(i)' = RetriedBy(i)
    BY DEF Perform, RetriedBy, Live
  <2>2. CASE i = j
    <3>1. RetriedBy(i)' = {}
      BY <1>2, <2>1, <2>2 DEF RetriedBy
    <3>2. m \in MessagesOf(i)'
      BY <1>1, <2>2 DEF MessagesOf
    <3> QED
      BY <3>1, <3>2, Finite, FS_EmptySet, FS_CardinalityType
  <2>3. CASE i # j
    <3>1. MessagesOf(i) \subseteq MessagesOf(i)'
      BY <1>1, <2>3, JobServerAssumption
      DEF IInv, TypeOK, MessageInv, NoMessage, MessagesOf, Perform
    <3> QED
      BY <2>1, <2>3, <3>1, Finite, CountKept DEF Perform, IInv, CountInv
  <2> QED
    BY <2>2, <2>3
<1>9. SingleInv'
  <2> SUFFICES ASSUME NEW i \in Jobs, opened = 1, i \notin entangled
               PROVE  /\ channel = "up" /\ locks[i] = 0 => Unstarted(i)'
                      /\ \A r \in Runs :
                           channel # "down" /\ run[r].job = i /\ Live(r) =>
                             OwnMessages(i, r)'
    BY DEF Perform, SingleInv, Live
  <2>1. CASE i = j
    BY <1>1, <1>2, <2>1 DEF Perform, Unstarted, Belated
  <2>2. CASE i # j
    BY <1>1, <2>2, JobServerAssumption
    DEF Perform, IInv, SingleInv, MessageInv, NoMessage, Unstarted, OwnMessages, Live,
        Belated
  <2> QED
    BY <2>1, <2>2
<1> QED
  BY <1>2, <1>3, <1>4, <1>5, <1>6, <1>7, <1>8, <1>9 DEF IInv

\* A delivery locks its job, and starts a run of it if the job was not locked.
LEMMA DeliverStep == ASSUME IInv, NEW m \in Messages, Deliver(m) PROVE IInv'
<1> DEFINE j == msg[m].job
           tag == nextTag + 1
           new == NewRun(j, msg[m].attempt)
<1>1. /\ j \in Jobs /\ j \in performed /\ msg[m].attempt \in 1 .. MaxAttempts
      /\ msg[m].place = "ready" /\ tag \in Nat \ {0} /\ opened \in Nat
  BY Fields DEF Deliver, IInv
<1>2. /\ \A n \in Messages :
           /\ msg'[n].job = msg[n].job /\ msg'[n].attempt = msg[n].attempt
           /\ msg'[n].place = IF n = m THEN "unacked" ELSE msg[n].place
           /\ msg'[n].tag = IF n = m THEN tag ELSE msg[n].tag
      /\ msg' \in [Messages -> MessageRecord]
      /\ \A n \in Messages : n # m => msg'[n] = msg[n]
  <2>1. msg' = [msg EXCEPT ![m] = [msg[m] EXCEPT !.place = "unacked", !.tag = tag]]
    BY DEF Deliver, IInv, TypeOK
  <2> QED
    BY <1>1, <2>1 DEF IInv, TypeOK, MessageRecord
<1>3. /\ new \in RunRecord
      /\ new.pc = "handling" /\ new.job = j /\ new.attempt = msg[m].attempt
      /\ new.published = {} /\ new.epoch = opened /\ ~new.discarded
      /\ new.step["server"] = "none" /\ new.step["handler"] = "none"
  BY <1>1, NewRunIs
<1>4. PICK s \in Runs :
        /\ run[s].pc = "free"
        /\ \A q \in Runs : run'[q] = IF Starts(j) /\ q = s THEN new ELSE run[q]
        /\ run' \in [Runs -> RunRecord]
  <2>1. AnyOf(FreeRuns) \in Runs /\ run[AnyOf(FreeRuns)].pc = "free"
    BY DEF Deliver, AnyOf, FreeRuns
  <2> QED
    BY <1>3, <2>1 DEF Deliver, IInv, TypeOK
<1> HIDE DEF new
<1>5. \A i \in Jobs : locks'[i] = IF i = j THEN tag ELSE locks[i]
  BY <1>1 DEF Deliver, IInv, TypeOK
<1>6. TypeOK'
  BY <1>1, <1>2, <1>4, <1>5 DEF Deliver, IInv, TypeOK
<1>7. MessageInv'
  BY <1>1, <1>2 DEF Deliver, IInv, MessageInv
<1>8. RunInv'
  <2>1. RunOK(new)
    BY <1>1, <1>3 DEF RunOK, Active, Unconfirmed
  <2> QED
    BY <1>4, <2>1, RunsKept DEF Deliver, IInv, RunInv
<1>9. TagInv'
  BY <1>1, <1>2, <1>5 DEF Deliver, IInv, TypeOK, TagInv
<1>10. AttemptInv'
  <2>1. \A i \in Jobs : \A a \in 1 .. MaxAttempts :
         GoneThrough(i, a) => GoneThrough(i, a)'
    BY <1>3, <1>4, NoRunIs, JobServerAssumption
    DEF Deliver, IInv, RunInv, RunOK, GoneThrough
  <2> QED
    BY <1>2, <1>3, <1>4, <2>1, AttemptsKept DEF Deliver
<1>11. LockInv'
  <2>1. ASSUME opened = 1, NEW q \in Runs, Live(q)'
        PROVE  locks'[run'[q].job] # 0 /\ run'[q].epoch = 1
    BY <1>1, <1>3, <1>4, <1>5, <2>1, Fields DEF IInv, LockInv, Live
  <2>2. ASSUME NEW q \in Runs, q # s, Starts(j), run[q].job = j, Live(q)
        PROVE  opened # 1
    BY <1>1, <2>2 DEF IInv, LockInv, Starts
  <2>3. OneRunOnAChannel'
    BY <1>3, <1>4, <2>2 DEF IInv, LockInv, OneRunOnAChannel, Live
  <2> QED
    BY <2>1, <2>3 DEF Deliver, IInv, LockInv
<1>12. CountInv'
  <2> SUFFICES ASSUME NEW i \in performed \ (finished \cup adrift)
               PROVE  Cardinality(MessagesOf(i)') > Cardinality(RetriedBy(i)')
    BY DEF Deliver, CountInv
  <2>1. MessagesOf(i)' = MessagesOf(i) /\ RetriedBy(i)' \subseteq RetriedBy(i)
    BY <1>2, <1>3, <1>4 DEF MessagesOf, RetriedBy, Live
  <2> QED
    BY <2>1, Finite, CountKept DEF IInv, CountInv
<1>13. SingleInv'
  <2> SUFFICES ASSUME NEW i \in Jobs, opened = 1, i \notin entangled
               PROVE  /\ locks'[i] = 0 => Unstarted(i)'
                      /\ \A r \in Runs :
                           run'[r].job = i /\ Live(r)' => OwnMessages(i, r)'
    BY DEF Deliver, SingleInv, Live
  <2>1. \A q \in Runs : Belated(i, q)' <=> Belated(i, q)
    BY <1>3, <1>4 DEF Belated
  <2>2. CASE i # j
    BY <1>1, <1>2, <1>3, <1>4, <1>5, <2>1, <2>2
    DEF Deliver, IInv, SingleInv, Unstarted, OwnMessages, Live
  <2>3. CASE i = j /\ Starts(j)
    <3>1. Unstarted(i)
      BY <2>3 DEF Deliver, Starts, IInv, SingleInv
    <3>2. ASSUME NEW r \in Runs, run'[r].job = i, Live(r)' PROVE r = s /\ run'[r] = new
      BY <1>4, <2>3, <3>1, <3>2 DEF Unstarted, Live
    <3> QED
      BY <1>1, <1>2, <1>3, <1>5, <2>1, <2>3, <3>1, <3>2 DEF Unstarted, OwnMessages
  <2>4. CASE i = j /\ ~Starts(j)
    BY <1>1, <1>2, <1>3, <1>4, <1>5, <2>1, <2>4
    DEF Deliver, IInv, SingleInv, OwnMessages, Live
  <2> QED
    BY <2>2, <2>3, <2>4
<1> QED
  BY <1>6, <1>7, <1>8, <1>9, <1>10, <1>11, <1>12, <1>13 DEF IInv

\* What a run that comes to its end does to the history.
Concludes(r) ==
  /\ Live(r)
  /\ handled' = handled \cup {<<run[r].job, run[r].attempt>>}
  /\ finished' \in {finished, finished \cup {run[r].job}}
  /\ adrift' \in {adrift, adrift \cup {run[r].job}}
  /\ \/ UNCHANGED exhausted
     \/ /\ run[r].attempt = MaxAttempts
        /\ exhausted' = exhausted \cup {<<run[r].job, MaxAttempts>>}
  /\ UNCHANGED <<opened, nextTag, state, asked, performed, entangled>>

\* What it may do to the broker: remove the message that the lock of its job is of.
Acknowledges(r) ==
  \A m \in Messages :
    \/ msg'[m] = msg[m]
    \/ /\ msg'[m] = NoMessage
       /\ msg[m].place = "unacked" /\ msg[m].tag = locks[run[r].job]
       /\ state = "listening" /\ channel # "down"
       /\ run[r].published # {} \/ run[r].job \in finished' \cup adrift'

\* What is left of it.
Leaves(r, rec) ==
  /\ rec \in RunRecord /\ run' = [run EXCEPT ![r] = rec]
  /\ \/ rec = NoRun
     \/ /\ rec.pc = "over" /\ rec.job = run[r].job /\ rec.attempt = run[r].attempt
        /\ rec.published = run[r].published
  /\ RunOK(rec)'

LEMMA RunEndsStep ==
  ASSUME IInv, NEW r \in Runs, NEW rec, Leaves(r, rec), Concludes(r),
         Acknowledges(r), msg' \in [Messages -> MessageRecord],
         locks' \in {locks, Unlocked(run[r].job)},
         channel' = channel \/ (channel = "up" /\ channel' = "doomed"),
         locks' # locks /\ channel' = "up" =>
           \A m \in Messages :
             msg[m].place = "unacked" /\ msg[m].tag = locks[run[r].job] =>
               msg'[m] = NoMessage
  PROVE  IInv'
<1> DEFINE j == run[r].job
<1>1. /\ j \in Jobs /\ j \in performed /\ run[r].attempt \in 1 .. MaxAttempts
      /\ run[r].pc # "free" /\ Live(r)
  BY Fields DEF Concludes, IInv, Live
<1>2. /\ \A q \in Runs : run'[q] = IF q = r THEN rec ELSE run[q]
      /\ run' \in [Runs -> RunRecord]
      /\ ~Live(r)' /\ \A q \in Runs : q # r => (Live(q)' <=> Live(q))
  BY NoRunIs DEF IInv, TypeOK, Leaves, Live
<1>3. /\ \A i \in Jobs : i # j => locks'[i] = locks[i]
      /\ locks'[j] \in {0, locks[j]}
      /\ locks' \in [Jobs -> Nat]
  BY <1>1 DEF IInv, TypeOK, Unlocked
<1>4. NoMessage.place = "free" /\ NoMessage.attempt = 0 /\ NoMessage.job \notin Jobs
  BY JobServerAssumption DEF NoMessage
<1>5. ASSUME NEW m \in Messages, msg'[m] # msg[m] PROVE msg[m].job = j
  BY <1>1, <1>5 DEF Acknowledges, IInv, TagInv
<1>6. TypeOK'
  BY <1>1, <1>2, <1>3 DEF Concludes, IInv, TypeOK
<1>7. MessageInv'
  BY <1>4 DEF Acknowledges, Concludes, IInv, MessageInv
<1>8. RunInv'
  BY <1>2, RunsKept DEF Concludes, Leaves, IInv, RunInv
<1>9. TagInv'
  BY <1>1, <1>3, <1>4 DEF Concludes, Acknowledges, IInv, TypeOK, TagInv
<1>10. AttemptInv'
  <2>1. \A i \in Jobs : \A a \in 1 .. MaxAttempts :
         GoneThrough(i, a) => GoneThrough(i, a)'
    BY <1>2 DEF Concludes, GoneThrough
  <2> QED
    BY <1>2, <1>4, <2>1, AttemptsKept, NoRunIs DEF Concludes, Acknowledges, Leaves
<1>11. LockInv'
  <2>1. ASSUME opened = 1, NEW q \in Runs, q # r, Live(q) PROVE run[q].job # j
    BY <1>1, <2>1 DEF IInv, LockInv, OneRunOnAChannel
  <2>2. ASSUME opened = 1, NEW q \in Runs, Live(q)'
        PROVE  locks'[run[q].job] # 0 /\ run'[q].epoch = 1 /\ run'[q] = run[q]
    <3>1. q # r /\ Live(q) /\ run'[q] = run[q]
      BY <1>2, <2>2
    <3>2. run[q].job \in Jobs
      BY <3>1, Fields DEF IInv, Live
    <3> QED
      BY <1>3, <2>1, <2>2, <3>1, <3>2 DEF IInv, LockInv
  <2>3. OneRunOnAChannel'
    BY <1>2 DEF IInv, LockInv, OneRunOnAChannel
  <2> QED
    BY <2>2, <2>3 DEF Concludes, IInv, LockInv
<1>12. CountInv'
  <2> SUFFICES ASSUME NEW i \in performed \ (finished' \cup adrift')
               PROVE  Cardinality(MessagesOf(i)') > Cardinality(RetriedBy(i)')
    BY DEF Concludes, CountInv
  <2>1. i \in performed \ (finished \cup adrift) /\ i \in Jobs
    BY Fields DEF Concludes, IInv
  <2>2. RetriedBy(i)' \subseteq RetriedBy(i) /\ r \notin RetriedBy(i)'
    BY <1>2 DEF RetriedBy
  <2>3. MessagesOf(i)' \subseteq MessagesOf(i)
    BY <1>4, <2>1 DEF MessagesOf, Acknowledges
  <2>4. CASE \A m \in Messages : msg[m].job = i => msg'[m] = msg[m]
    <3>1. MessagesOf(i) \subseteq MessagesOf(i)'
      BY <2>4 DEF MessagesOf
    <3> QED
      BY <2>1, <2>2, <3>1, Finite, CountKept DEF IInv, CountInv
  <2>5. CASE \E m \in Messages : msg[m].job = i /\ msg'[m] # msg[m]
    <3>1. PICK m \in Messages : msg[m].job = i /\ msg'[m] # msg[m]
      BY <2>5
    <3>2. i = j /\ r \in RetriedBy(i)
      BY <1>1, <1>5, <3>1 DEF Acknowledges, RetriedBy
    <3>3. MessagesOf(i) \ {m} \subseteq MessagesOf(i)'
      BY <3>1 DEF MessagesOf, Acknowledges, IInv, TagInv
    <3>4. RetriedBy(i)' \subseteq RetriedBy(i) \ {r}
      BY <2>2
    <3>5. Cardinality(MessagesOf(i)) > Cardinality(RetriedBy(i))
      BY <2>1 DEF IInv, CountInv
    <3>6. IsFiniteSet(MessagesOf(i)) /\ IsFiniteSet(RetriedBy(i))
      BY Finite
    <3> QED
      BY <2>3, <3>2, <3>3, <3>4, <3>5, <3>6, CountLost
  <2> QED
    BY <2>4, <2>5
<1>13. SingleInv'
  <2> SUFFICES ASSUME NEW i \in Jobs, opened = 1, i \notin entangled
               PROVE  /\ channel' = "up" /\ locks'[i] = 0 => Unstarted(i)'
                      /\ \A q \in Runs :
                           channel' # "down" /\ run'[q].job = i /\ Live(q)' =>
                             OwnMessages(i, q)'
    BY DEF Concludes, SingleInv
  <2>1. \A q \in Runs : q # r /\ run[q].job = j => ~Live(q)
    BY <1>1 DEF IInv, LockInv, OneRunOnAChannel
  <2>2. CASE i # j
    <3>1. \A q \in Runs : Belated(i, q)' => Belated(i, q)
      BY <1>2, <2>2, NoRunIs, JobServerAssumption DEF Leaves, Belated
    <3>2. \A q \in Runs : run'[q].job = i /\ Live(q)' =>
                            run[q].job = i /\ Live(q) /\ run'[q] = run[q]
      BY <1>2
    <3>3. \A m \in Messages : msg'[m].job = i => msg[m].job = i /\ msg'[m] = msg[m]
      BY <1>4 DEF Acknowledges
    <3>4. channel' = "up" /\ locks'[i] = 0 => Unstarted(i)'
      BY <1>3, <2>2, <3>1, <3>2, <3>3 DEF IInv, SingleInv, Unstarted
    <3>5. ASSUME NEW q \in Runs, channel' # "down", run'[q].job = i, Live(q)'
          PROVE  OwnMessages(i, q)'
      <4>1. OwnMessages(i, q) /\ run'[q] = run[q]
        BY <3>2, <3>5 DEF IInv, SingleInv
      <4> QED
        BY <1>3, <2>2, <3>1, <3>3, <4>1 DEF OwnMessages
    <3> QED
      BY <3>4, <3>5
  <2>3. CASE i = j
    <3>1. \A q \in Runs : run'[q].job = i => ~Live(q)'
      BY <1>2, <2>1, <2>3
    <3>2. ASSUME channel' = "up", locks'[i] = 0 PROVE Unstarted(i)'
      <4>1. locks' # locks /\ channel = "up" /\ OwnMessages(i, r)
        BY <1>1, <2>3, <3>2 DEF IInv, LockInv, SingleInv
      <4>2. \A m \in Messages : msg'[m].job = i =>
              msg'[m] = msg[m] /\ m \in run[r].published
        BY <1>4, <3>2, <4>1, <2>3 DEF Acknowledges, OwnMessages
      <4>3. \A q \in Runs : Belated(i, q)' => q = r /\ run[r].published = {}
        BY <1>2, <4>1, NoRunIs, JobServerAssumption DEF Leaves, Belated, OwnMessages
      <4>4. \A m, n \in run[r].published : m = n
        BY <4>1 DEF OwnMessages
      <4> QED
        BY <3>1, <4>2, <4>3, <4>4 DEF Unstarted
    <3> QED
      BY <3>1, <3>2
  <2> QED
    BY <2>2, <2>3
<1> QED
  BY <1>6, <1>7, <1>8, <1>9, <1>10, <1>11, <1>12, <1>13 DEF IInv

\* The acknowledgement waits for a channel: the run is still there.
LEMMA RunWaitsStep ==
  ASSUME IInv, NEW r \in Runs, NEW new \in RunRecord, channel = "down",
         run' = [run EXCEPT ![r] = new], new.pc = "acking", RunOK(new)',
         new.job = run[r].job, new.attempt = run[r].attempt,
         new.published = run[r].published, new.epoch = run[r].epoch,
         Concludes(r), UNCHANGED <<msg, locks, channel>>
  PROVE  IInv'
<1>1. /\ run[r].job \in Jobs /\ run[r].job \in performed
      /\ run[r].attempt \in 1 .. MaxAttempts /\ Live(r)
  BY Fields DEF Concludes, IInv, Live
<1>2. /\ \A q \in Runs :
           /\ run'[q].job = run[q].job /\ run'[q].attempt = run[q].attempt
           /\ run'[q].published = run[q].published /\ run'[q].epoch = run[q].epoch
           /\ Live(q)' <=> Live(q)
           /\ q # r => run'[q] = run[q]
      /\ run'[r] = new /\ run' \in [Runs -> RunRecord]
  BY <1>1 DEF IInv, TypeOK, Live
<1>3. TypeOK'
  BY <1>1, <1>2 DEF Concludes, IInv, TypeOK
<1>4. MessageInv'
  BY DEF Concludes, IInv, MessageInv
<1>5. RunInv'
  BY <1>2, RunsKept DEF Concludes, IInv, RunInv
<1>6. TagInv'
  BY DEF Concludes, IInv, TagInv
<1>7. AttemptInv'
  <2>1. \A i \in Jobs : \A a \in 1 .. MaxAttempts :
         GoneThrough(i, a) => GoneThrough(i, a)'
    BY <1>2 DEF Concludes, GoneThrough
  <2> QED
    BY <1>2, <2>1, AttemptsKept DEF Concludes
<1>8. LockInv'
  BY <1>2 DEF Concludes, IInv, LockInv, OneRunOnAChannel
<1>9. CountInv'
  <2>1. \A i : MessagesOf(i)' = MessagesOf(i) /\ RetriedBy(i)' = RetriedBy(i)
    BY <1>2 DEF MessagesOf, RetriedBy
  <2> QED
    BY <2>1 DEF Concludes, IInv, CountInv
<1>10. SingleInv'
  BY DEF SingleInv
<1> QED
  BY <1>3, <1>4, <1>5, <1>6, <1>7, <1>8, <1>9, <1>10 DEF IInv

\* The run r as handleJobMessage() comes to its end: no retry of the server goes on.
Ending(r, rec) ==
  /\ rec \in RunRecord
  /\ rec.job = run[r].job /\ rec.attempt = run[r].attempt
  /\ rec.published = run[r].published /\ rec.epoch = run[r].epoch
  /\ rec.discarded => run[r].discarded
  /\ rec.step["server"] \in Active => run[r].attempt < MaxAttempts
  /\ rec.step["server"] \notin Unconfirmed
  /\ rec.step["handler"] \in Active =>
       rec.next \in 1 .. MaxAttempts /\ rec.next \in {run[r].attempt + 1, 2}

LEMMA EndingIs ==
  ASSUME IInv, NEW r \in Runs, NEW rec, Ending(r, rec), Concludes(r), NEW tag \in Nat
  PROVE  /\ run' = [run EXCEPT ![r] = Left(rec)] => Leaves(r, Left(rec))
         /\ LET new == [rec EXCEPT !.pc = "acking", !.tag = tag]
            IN  /\ new \in RunRecord /\ new.pc = "acking" /\ RunOK(new)'
                /\ new.job = run[r].job /\ new.attempt = run[r].attempt
                /\ new.published = run[r].published /\ new.epoch = run[r].epoch
<1> DEFINE new == [rec EXCEPT !.pc = "acking", !.tag = tag]
<1>1. /\ run[r].job \in performed /\ run[r].attempt # 0
      /\ run[r].discarded => run[r].job \in finished
  BY DEF IInv, RunInv, RunOK, Concludes, Live
<1>2. RunOK(Left(rec))'
  <2>1. CASE Left(rec) = NoRun
    BY <2>1, NoRunIs DEF RunOK
  <2>2. CASE Left(rec) # NoRun
    BY <1>1, <2>2, LeftIs DEF Ending, Concludes, RunOK
  <2> QED
    BY <2>1, <2>2
<1>3. /\ new \in RunRecord /\ new.pc = "acking" /\ new.job = rec.job
      /\ new.attempt = rec.attempt /\ new.published = rec.published
      /\ new.epoch = rec.epoch /\ new.step = rec.step /\ new.next = rec.next
      /\ new.discarded = rec.discarded
  BY DEF Ending, RunRecord
<1> HIDE DEF new
<1>4. RunOK(new)'
  BY <1>1, <1>3 DEF Ending, Concludes, RunOK
<1>5. ASSUME run' = [run EXCEPT ![r] = Left(rec)] PROVE Leaves(r, Left(rec))
  BY <1>2, <1>5, LeftIs DEF Ending, Leaves
<1> QED
  BY <1>3, <1>4, <1>5 DEF Ending, new

\* The end of handleJobMessage(), whatever becomes of the acknowledgement.
LEMMA CompleteStep ==
  ASSUME IInv, NEW r \in Runs, NEW rec, Ending(r, rec), Complete(r, rec), Concludes(r),
         \/ state = "disposed" \/ run[r].published # {}
         \/ run[r].job \in finished' \cup adrift'
  PROVE  IInv'
<1> DEFINE j == run[r].job
           acked == [m \in Messages |->
                       IF /\ locks[j] # 0
                          /\ msg[m].place = "unacked" /\ msg[m].tag = locks[j]
                       THEN NoMessage ELSE msg[m]]
<1>1. j \in Jobs /\ locks[j] \in Nat
  BY Fields DEF Concludes, IInv, TypeOK, Live
<1>2. \A m \in Messages : msg[m].place = "unacked" => msg[m].tag # 0
  BY DEF IInv, TypeOK, TagInv
<1>3. run' = [run EXCEPT ![r] = Left(rec)] => Leaves(r, Left(rec))
  BY <1>1, EndingIs
<1>4. CASE /\ run' = [run EXCEPT ![r] = Left(rec)]
           /\ UNCHANGED <<locks, msg, channel>>
  BY <1>3, <1>4, RunEndsStep DEF Acknowledges, IInv, TypeOK
<1>5. CASE /\ state = "listening" /\ (locks[j] = 0 \/ channel # "down")
           /\ run' = [run EXCEPT ![r] = Left(rec)] /\ locks' = Unlocked(j)
           /\ msg' = acked /\ UNCHANGED channel
  <2>1. acked \in [Messages -> MessageRecord]
    BY JobServerAssumption DEF NoMessage, MessageRecord, IInv, TypeOK
  <2>2. Acknowledges(r)
    BY <1>2, <1>5 DEF Acknowledges, IInv, TagInv
  <2>3. locks' # locks => locks[j] # 0
    BY <1>1, <1>5 DEF Unlocked, IInv, TypeOK
  <2> QED
    BY <1>2, <1>3, <1>5, <2>1, <2>2, <2>3, RunEndsStep
<1>6. CASE /\ run' = [run EXCEPT ![r] = Left(rec)] /\ locks' = Unlocked(j)
           /\ channel = "up" /\ channel' = "doomed" /\ UNCHANGED msg
  BY <1>3, <1>6, RunEndsStep DEF Acknowledges, IInv, TypeOK
<1>7. CASE /\ channel = "down" /\ UNCHANGED <<locks, msg, channel>>
           /\ run' = [run EXCEPT ![r] = [rec EXCEPT !.pc = "acking", !.tag = locks[j]]]
  BY <1>1, <1>7, EndingIs, RunWaitsStep
<1> QED
  BY <1>4, <1>5, <1>6, <1>7 DEF Complete, IInv, TypeOK

\* A run as it is may come to its end when no retry of the server goes on.
LEMMA EndingAsItIs ==
  ASSUME IInv, NEW r \in Runs, run[r].pc \in {"handling", "acking"}
  PROVE  Ending(r, run[r])
  BY DEF Ending, IInv, RunInv, RunOK, TypeOK

\* So it may when its retry is at an end, or abandoned.
LEMMA EndingOfRetry ==
  ASSUME IInv, NEW r \in Runs, NEW step \in {"done", "abandoned"},
         run[r].step["server"] \in Unconfirmed
  PROVE  Ending(r, Stepped(r, "server", step)) /\ Live(r)
<1>1. "server" \in Callers /\ "handler" \in Callers \ {"server"}
      /\ step \in Active \cup {"none", "done"} /\ step \notin Unconfirmed
      /\ run[r].step["server"] \in Active
  BY DEF Callers, Active, Unconfirmed
<1>2. run[r].pc = "retrying"
  <2>1. run[r].pc # "free"
    BY <1>1, NoRunIs DEF IInv, RunInv, RunOK, Active, Unconfirmed
  <2> QED
    BY <2>1 DEF IInv, RunInv, RunOK
<1>3. RunOK(run[r])
  BY DEF IInv, RunInv
<1> HIDE DEF IInv
<1> DEFINE rec == Stepped(r, "server", step)
<1>4. /\ rec \in RunRecord
      /\ rec.job = run[r].job /\ rec.attempt = run[r].attempt
      /\ rec.discarded = run[r].discarded /\ rec.next = run[r].next
      /\ rec.published = run[r].published /\ rec.epoch = run[r].epoch
      /\ rec.step["server"] = step /\ rec.step["handler"] = run[r].step["handler"]
  BY <1>1, SteppedIs DEF IInv
<1> HIDE DEF rec
<1>5. Ending(r, rec) /\ Live(r)
  BY <1>1, <1>2, <1>3, <1>4 DEF Ending, RunOK, Live
<1> QED
  BY <1>5 DEF rec

\* handle() or handleError() returns.
LEMMA HandlerSucceedsStep == ASSUME IInv, NEW r \in Runs, HandlerSucceeds(r) PROVE IInv'
<1>1. Concludes(r)
  BY DEF HandlerSucceeds, Complete, Concludes, CastsOff, Live
<1>2. run[r].published # {} \/ run[r].job \in finished' \cup adrift'
  BY DEF HandlerSucceeds, CastsOff
<1>3. Ending(r, run[r]) /\ Complete(r, run[r])
  BY EndingAsItIs DEF HandlerSucceeds
<1> QED
  BY <1>1, <1>2, <1>3, CompleteStep

-----------------------------------------------------------------------------
(* Runs that go on *)

\* A retry goes from one step to the next: what is known of the run stays so.
LEMMA SteppedOK ==
  ASSUME IInv, NEW r \in Runs, NEW w \in Callers,
         NEW step \in Active \cup {"none", "done"},
         run[r].step[w] \in Active,
         step \in Unconfirmed => run[r].step[w] \in Unconfirmed
  PROVE  run[r].pc # "free" /\ RunOK(Stepped(r, w, step))
<1>1. run[r].pc # "free" /\ RunOK(run[r])
  BY NoRunIs DEF IInv, RunInv, RunOK, Active, Unconfirmed
<1> DEFINE rec == Stepped(r, w, step)
<1>2. /\ rec.pc = run[r].pc /\ rec.job = run[r].job
      /\ rec.attempt = run[r].attempt /\ rec.discarded = run[r].discarded
      /\ rec.next = run[r].next
      /\ rec.step[w] = step /\ \A v \in Callers \ {w} : rec.step[v] = run[r].step[v]
  BY SteppedIs DEF IInv
<1> HIDE DEF rec
<1>3. "handler" \in Callers /\ "server" \in Callers
  BY DEF Callers
<1>4. RunOK(rec)
  BY <1>1, <1>2, <1>3 DEF RunOK
<1> QED
  BY <1>1, <1>4 DEF rec

\* A run that is over is gone when none of its retries goes on.
LEMMA RestIs ==
  ASSUME NEW r \in Runs, NEW rec \in RunRecord, rec.pc = run[r].pc, rec.pc # "free",
         RunOK(rec)
  PROVE  /\ Rest(r, rec) \in RunRecord /\ RunOK(Rest(r, rec))
         /\ \/ run[r].pc = "over" /\ Rest(r, rec) = NoRun
            \/ /\ Rest(r, rec).pc = run[r].pc /\ Rest(r, rec).job = rec.job
               /\ Rest(r, rec).attempt = rec.attempt
               /\ Rest(r, rec).published = rec.published
               /\ run[r].pc # "over" => Rest(r, rec).epoch = rec.epoch
<1>1. CASE run[r].pc # "over"
  BY <1>1 DEF Rest
<1>2. CASE run[r].pc = "over"
  <2> DEFINE left == Left(rec)
  <2>1. Rest(r, rec) = left
    BY <1>2 DEF Rest
  <2>2. /\ left \in RunRecord
        /\ \/ left = NoRun
           \/ /\ left.pc = "over" /\ left.job = rec.job
              /\ left.attempt = rec.attempt /\ left.published = rec.published
              /\ left.step = rec.step /\ left.next = rec.next /\ ~left.discarded
    BY LeftIs
  <2> HIDE DEF left
  <2>3. RunOK(left)
    BY <1>2, <2>2, NoRunIs DEF RunOK
  <2> QED
    BY <1>2, <2>1, <2>2, <2>3
<1> QED
  BY <1>1, <1>2

\* Nothing but one run changes, and that only in how far its retries have come.
LEMMA MoveStep ==
  ASSUME IInv, NEW r \in Runs, NEW rec \in RunRecord,
         run' = [run EXCEPT ![r] = rec], RunOK(rec), run[r].pc # "free",
         \/ run[r].pc = "over" /\ rec = NoRun
         \/ /\ rec.pc # "free" /\ (rec.pc = "over" <=> run[r].pc = "over")
            /\ rec.job = run[r].job /\ rec.attempt = run[r].attempt
            /\ rec.published = run[r].published
            /\ rec.pc # "over" => rec.epoch = run[r].epoch,
         asked' \in Nat,
         UNCHANGED <<msg, channel, opened, nextTag, state, locks, performed, handled,
                     finished, exhausted, entangled, adrift>>
  PROVE  IInv'
<1>1. /\ \A q \in Runs : run'[q] = IF q = r THEN rec ELSE run[q]
      /\ run' \in [Runs -> RunRecord]
  BY DEF IInv, TypeOK
<1>2. run[r].pc = "over" => <<run[r].job, run[r].attempt>> \in handled
  BY DEF IInv, RunInv, RunOK
<1>3. \A q \in Runs :
        /\ Live(q)' <=> Live(q)
        /\ Live(q) => /\ run'[q].job = run[q].job /\ run'[q].attempt = run[q].attempt
                      /\ run'[q].published = run[q].published
                      /\ run'[q].epoch = run[q].epoch
  BY <1>1, NoRunIs DEF Live
<1>4. TypeOK' /\ MessageInv' /\ TagInv'
  BY <1>1 DEF IInv, TypeOK, MessageInv, TagInv
<1>5. RunInv'
  BY <1>1, RunsKept DEF IInv, RunInv
<1>6. AttemptInv'
  <2>1. \A i \in Jobs : \A a \in 1 .. MaxAttempts :
         GoneThrough(i, a) => GoneThrough(i, a)'
    BY <1>1, <1>2 DEF GoneThrough
  <2> QED
    BY <1>1, <2>1, AttemptsKept, NoRunIs
<1>7. LockInv'
  BY <1>3 DEF IInv, LockInv, OneRunOnAChannel
<1>8. CountInv'
  <2>1. \A i \in Jobs : MessagesOf(i)' = MessagesOf(i) /\ RetriedBy(i)' = RetriedBy(i)
    <3>1. ASSUME NEW i \in Jobs, NEW q \in Runs
          PROVE  q \in RetriedBy(i)' <=> q \in RetriedBy(i)
      <4>1. CASE Live(q)
        BY <1>3, <4>1 DEF RetriedBy
      <4>2. CASE ~Live(q)
        BY <1>3, <4>2 DEF RetriedBy
      <4> QED
        BY <4>1, <4>2
    <3>2. \A i \in Jobs : RetriedBy(i) \subseteq Runs /\ RetriedBy(i)' \subseteq Runs
      BY DEF RetriedBy
    <3> QED
      BY <3>1, <3>2 DEF MessagesOf
  <2>2. performed \subseteq Jobs
    BY DEF IInv, TypeOK
  <2> QED
    BY <2>1, <2>2 DEF IInv, CountInv
<1>9. SingleInv'
  <2> SUFFICES ASSUME NEW i \in Jobs, opened = 1, i \notin entangled
               PROVE  /\ channel = "up" /\ locks[i] = 0 => Unstarted(i)'
                      /\ \A q \in Runs :
                           channel # "down" /\ run'[q].job = i /\ Live(q)' =>
                             OwnMessages(i, q)'
    BY DEF SingleInv
  <2>1. \A q \in Runs : Belated(i, q)' => Belated(i, q)
    BY <1>1, NoRunIs, JobServerAssumption DEF Belated
  <2>2. ASSUME channel = "up", locks[i] = 0 PROVE Unstarted(i)'
    <3>1. Unstarted(i)
      BY <2>2 DEF IInv, SingleInv
    <3>2. \A q \in Runs : run'[q].job = i => ~Live(q)'
      BY <1>3, <3>1 DEF Unstarted
    <3> QED
      BY <2>1, <3>1, <3>2 DEF Unstarted
  <2>3. ASSUME NEW q \in Runs, channel # "down", run'[q].job = i, Live(q)'
        PROVE  OwnMessages(i, q)'
    <3>1. OwnMessages(i, q) /\ run'[q].published = run[q].published
          /\ run'[q].attempt = run[q].attempt
      BY <1>3, <2>3 DEF IInv, SingleInv
    <3> QED
      BY <2>1, <3>1 DEF OwnMessages
  <2> QED
    BY <2>2, <2>3
<1> QED
  BY <1>4, <1>5, <1>6, <1>7, <1>8, <1>9 DEF IInv

\* The handler throws: its run ends, or it is to retry.
LEMMA HandlerThrowsStep == ASSUME IInv, NEW r \in Runs, HandlerThrows(r) PROVE IInv'
<1> DEFINE again == ~IsExceedingMaxAttemptCount(run[r].attempt + 1)
<1>1. /\ run[r].attempt \in 1 .. MaxAttempts /\ run[r].pc = "handling" /\ Live(r)
      /\ run[r].discarded => run[r].job \in finished
      /\ run[r].job \in Jobs
  BY Fields DEF HandlerThrows, IInv, RunInv, RunOK, Live
<1>2. Ending(r, run[r])
  BY <1>1, EndingAsItIs
<1>3. UNCHANGED <<opened, nextTag, state, asked, performed, entangled, adrift>>
  BY DEF HandlerThrows
<1>4. CASE /\ run' = [run EXCEPT ![r] = Left(run[r])]
           /\ handled' = handled \cup {<<run[r].job, run[r].attempt>>}
           /\ UNCHANGED <<locks, msg, channel, finished, exhausted>>
  <2>1. Concludes(r) /\ Acknowledges(r)
    BY <1>1, <1>3, <1>4 DEF Concludes, Acknowledges
  <2>2. Leaves(r, Left(run[r])) /\ 0 \in Nat
    BY <1>2, <1>4, <2>1, EndingIs
  <2> QED
    BY <1>4, <2>1, <2>2, RunEndsStep DEF IInv, TypeOK
<1>5. CASE Complete(r, run[r]) /\ run[r].discarded /\ UNCHANGED <<finished, exhausted>>
  <2>1. Concludes(r)
    BY <1>1, <1>3, <1>5 DEF Complete, Concludes
  <2> QED
    BY <1>1, <1>2, <1>5, <2>1, CompleteStep
<1>6. CASE Complete(r, run[r]) /\ ~again /\ Exhaust(r)
  <2>1. run[r].attempt = MaxAttempts
    BY <1>1, <1>6, JobServerAssumption DEF IsExceedingMaxAttemptCount
  <2>2. Concludes(r)
    BY <1>1, <1>3, <1>6, <2>1 DEF Exhaust, Complete, Concludes
  <2> QED
    BY <1>2, <1>6, <2>2, CompleteStep DEF Exhaust
<1>7. CASE /\ again
           /\ run' = [run EXCEPT ![r] =
                        [Stepped(r, "server", "creating") EXCEPT !.pc = "retrying"]]
           /\ UNCHANGED <<locks, msg, channel, handled, finished, exhausted>>
  <2> DEFINE old == Stepped(r, "server", "creating")
             rec == [old EXCEPT !.pc = "retrying"]
  <2>1. "server" \in Callers /\ "handler" \in Callers \ {"server"}
        /\ "creating" \in Active \cup {"none", "done"}
    BY DEF Callers, Active, Unconfirmed
  <2>2. /\ old \in RunRecord
        /\ old.job = run[r].job /\ old.attempt = run[r].attempt
        /\ old.discarded = run[r].discarded /\ old.next = run[r].next
        /\ old.published = run[r].published /\ old.epoch = run[r].epoch
        /\ old.step["handler"] = run[r].step["handler"]
    BY <2>1, SteppedIs DEF IInv
  <2> HIDE DEF old
  <2>3. /\ rec \in RunRecord /\ rec.pc = "retrying"
        /\ rec.job = old.job /\ rec.attempt = old.attempt
        /\ rec.discarded = old.discarded /\ rec.next = old.next
        /\ rec.published = old.published /\ rec.epoch = old.epoch
        /\ rec.step = old.step
    BY <2>2 DEF RunRecord
  <2>4. run' = [run EXCEPT ![r] = rec]
    BY <1>7 DEF old
  <2> HIDE DEF rec
  <2>5. run[r].attempt < MaxAttempts
    BY <1>1, <1>7, JobServerAssumption DEF IsExceedingMaxAttemptCount
  <2>6. RunOK(run[r])
    BY DEF IInv, RunInv
  <2>7. RunOK(rec)
    BY <1>1, <2>2, <2>3, <2>5, <2>6 DEF RunOK
  <2>8. asked' \in Nat
    BY <1>3 DEF IInv, TypeOK
  <2> QED
    BY <1>1, <1>3, <1>7, <2>2, <2>3, <2>4, <2>7, <2>8, MoveStep
<1> QED
  BY <1>4, <1>5, <1>6, <1>7 DEF HandlerThrows

\* create() has declared the retry queue.
LEMMA QueueCreatedStep ==
  ASSUME IInv, NEW r \in Runs, NEW w \in Callers, QueueCreated(r, w) PROVE IInv'
<1> DEFINE rec == Stepped(r, w, "sending")
<1>1. /\ "sending" \in Active \cup {"none", "done"} /\ "sending" \in Unconfirmed
      /\ run[r].step[w] \in Active /\ run[r].step[w] \in Unconfirmed
  BY DEF QueueCreated, Active, Unconfirmed
<1>2. run[r].pc # "free" /\ RunOK(rec)
  BY <1>1, SteppedOK
<1>3. /\ rec \in RunRecord /\ rec.pc = run[r].pc /\ rec.job = run[r].job
      /\ rec.attempt = run[r].attempt /\ rec.published = run[r].published
      /\ rec.epoch = run[r].epoch
  BY <1>1, SteppedIs DEF IInv
<1>4. /\ run' = [run EXCEPT ![r] = rec] /\ asked' \in Nat
      /\ UNCHANGED <<msg, channel, opened, nextTag, state, locks, performed, handled,
                     finished, exhausted, entangled, adrift>>
  BY DEF QueueCreated, IInv, TypeOK
<1> HIDE DEF rec
<1> QED
  BY <1>2, <1>3, <1>4, MoveStep

\* The run as sendToQueue() gets to the broker.
LEMMA SentIs ==
  ASSUME IInv, NEW r \in Runs, NEW w \in Callers, Sends(r, w)
  PROVE  /\ Sent(r, w) \in RunRecord /\ RunOK(Sent(r, w)) /\ run[r].pc # "free"
         /\ Sent(r, w).pc = run[r].pc /\ Sent(r, w).job = run[r].job
         /\ Sent(r, w).attempt = run[r].attempt
         /\ Sent(r, w).published = run[r].published /\ Sent(r, w).epoch = run[r].epoch
<1> DEFINE step == IF run[r].step[w] = "sending" THEN "confirming" ELSE "done"
<1>1. /\ step \in Active \cup {"none", "done"}
      /\ step \in Unconfirmed => run[r].step[w] \in Unconfirmed
      /\ run[r].step[w] \in Active
  BY DEF Sends, Active, Unconfirmed
<1>2. Sent(r, w) = Stepped(r, w, step)
  BY DEF Sent
<1> HIDE DEF step
<1> QED
  BY <1>1, <1>2, SteppedIs, SteppedOK DEF IInv

\* The message is dropped with the queue: only the retry goes on.
LEMMA RetryDroppedStep ==
  ASSUME IInv, NEW r \in Runs, NEW w \in Callers, RetryDropped(r, w) PROVE IInv'
<1> DEFINE sent == Sent(r, w)
           rec == Rest(r, sent)
<1>1. /\ sent \in RunRecord /\ RunOK(sent) /\ run[r].pc # "free"
      /\ sent.pc = run[r].pc /\ sent.job = run[r].job
      /\ sent.attempt = run[r].attempt
      /\ sent.published = run[r].published /\ sent.epoch = run[r].epoch
  BY SentIs DEF RetryDropped
<1> HIDE DEF sent
<1>2. /\ rec \in RunRecord /\ RunOK(rec)
      /\ \/ run[r].pc = "over" /\ rec = NoRun
         \/ /\ rec.pc = run[r].pc /\ rec.job = sent.job /\ rec.attempt = sent.attempt
            /\ rec.published = sent.published
            /\ run[r].pc # "over" => rec.epoch = sent.epoch
  BY <1>1, RestIs
<1>3. /\ run' = [run EXCEPT ![r] = rec] /\ asked' \in Nat
      /\ UNCHANGED <<msg, channel, opened, nextTag, state, locks, performed, handled,
                     finished, exhausted, entangled, adrift>>
  BY DEF RetryDropped, IInv, TypeOK, sent
<1> HIDE DEF rec
<1> QED
  BY <1>1, <1>2, <1>3, MoveStep

\* A retry of the handler comes to an end while its run goes on, or is over.
LEMMA HandlersRetryEnds ==
  ASSUME IInv, NEW r \in Runs, NEW step \in {"done", "abandoned"},
         run[r].step["handler"] \in Unconfirmed,
         run' = [run EXCEPT ![r] = Rest(r, Stepped(r, "handler", step))],
         asked' = asked,
         UNCHANGED <<msg, channel, opened, nextTag, state, locks, performed, handled,
                     finished, exhausted, entangled, adrift>>
  PROVE  IInv'
<1> DEFINE next == Stepped(r, "handler", step)
           rec == Rest(r, next)
<1>1. /\ step \in Active \cup {"none", "done"} /\ step \notin Unconfirmed
      /\ run[r].step["handler"] \in Active /\ "handler" \in Callers
  BY DEF Active, Unconfirmed, Callers
<1>2. run[r].pc # "free" /\ RunOK(next)
  BY <1>1, SteppedOK
<1>3. /\ next \in RunRecord /\ next.pc = run[r].pc /\ next.job = run[r].job
      /\ next.attempt = run[r].attempt /\ next.published = run[r].published
      /\ next.epoch = run[r].epoch
  BY <1>1, SteppedIs DEF IInv
<1> HIDE DEF next
<1>4. /\ rec \in RunRecord /\ RunOK(rec)
      /\ \/ run[r].pc = "over" /\ rec = NoRun
         \/ /\ rec.pc = run[r].pc /\ rec.job = next.job /\ rec.attempt = next.attempt
            /\ rec.published = next.published
            /\ run[r].pc # "over" => rec.epoch = next.epoch
  BY <1>2, <1>3, RestIs
<1>5. run' = [run EXCEPT ![r] = rec] /\ asked' \in Nat
  BY DEF IInv, TypeOK, next
<1> HIDE DEF rec
<1> QED
  BY <1>2, <1>3, <1>4, <1>5, MoveStep

\* The broker's confirmation arrives: the handler goes on, the server completes the run.
LEMMA RetryConfirmedStep ==
  ASSUME IInv, NEW r \in Runs, NEW w \in Callers, RetryConfirmed(r, w) PROVE IInv'
<1>1. run[r].step[w] \in Unconfirmed
  BY DEF RetryConfirmed, Unconfirmed
<1>2. CASE w = "handler"
  BY <1>1, <1>2, HandlersRetryEnds DEF RetryConfirmed
<1>3. CASE w = "server"
  <2> DEFINE rec == Stepped(r, w, "done")
  <2>1. Ending(r, rec) /\ Live(r)
    BY <1>1, <1>3, EndingOfRetry
  <2>2. Complete(r, rec) /\ CastsOff(r)
        /\ UNCHANGED <<opened, nextTag, state, asked, performed, finished, exhausted,
                       entangled>>
    BY <1>3 DEF RetryConfirmed
  <2> HIDE DEF rec
  <2>3. Concludes(r) /\ (run[r].published # {} \/ run[r].job \in finished' \cup adrift')
    BY <2>1, <2>2 DEF Concludes, Complete, CastsOff
  <2> QED
    BY <2>1, <2>2, <2>3, CompleteStep
<1> QED
  BY <1>2, <1>3 DEF Callers

\* A retry is rejected: the handler goes on, the run of the server ends and the lock
\* stays.
LEMMA RetryFailsStep ==
  ASSUME IInv, NEW r \in Runs, NEW w \in Callers, RetryFails(r, w) PROVE IInv'
<1>1. PICK step \in {"done", "abandoned"} :
        run' = [run EXCEPT ![r] = IF w = "server" THEN Left(Stepped(r, w, step))
                                  ELSE Rest(r, Stepped(r, w, step))]
  BY DEF RetryFails
<1>2. run[r].step[w] \in Unconfirmed
      /\ handled' = (IF w = "server" THEN handled \cup {<<run[r].job, run[r].attempt>>}
                     ELSE handled)
      /\ UNCHANGED <<msg, channel, opened, nextTag, state, locks, asked, performed,
                     finished, exhausted, entangled, adrift>>
  BY DEF RetryFails
<1>3. CASE w = "handler"
  BY <1>1, <1>2, <1>3, HandlersRetryEnds
<1>4. CASE w = "server"
  <2> DEFINE rec == Stepped(r, w, step)
  <2>1. Ending(r, rec) /\ Live(r)
    BY <1>2, <1>4, EndingOfRetry
  <2>2. run' = [run EXCEPT ![r] = Left(rec)]
    BY <1>1, <1>4
  <2> HIDE DEF rec
  <2>3. Concludes(r) /\ Acknowledges(r)
    BY <1>2, <1>4, <2>1 DEF Concludes, Acknowledges
  <2>4. Leaves(r, Left(rec)) /\ 0 \in Nat
    BY <2>1, <2>2, <2>3, EndingIs
  <2> QED
    BY <1>2, <2>3, <2>4, RunEndsStep DEF IInv, TypeOK
<1> QED
  BY <1>3, <1>4 DEF Callers

\* The acknowledgement times out: the run ends and the lock is released.
LEMMA AcknowledgeFailsStep == ASSUME IInv, NEW r \in Runs, AcknowledgeFails(r) PROVE IInv'
<1>1. <<run[r].job, run[r].attempt>> \in handled /\ Live(r)
  BY DEF AcknowledgeFails, IInv, RunInv, RunOK, Live
<1>2. Concludes(r) /\ Acknowledges(r)
  BY <1>1 DEF AcknowledgeFails, Concludes, Acknowledges
<1>3. Ending(r, run[r])
  BY EndingAsItIs DEF AcknowledgeFails
<1>4. run' = [run EXCEPT ![r] = Left(run[r])] /\ 0 \in Nat
  BY DEF AcknowledgeFails
<1>5. Leaves(r, Left(run[r]))
  BY <1>2, <1>3, <1>4, EndingIs
<1> QED
  BY <1>2, <1>5, RunEndsStep DEF AcknowledgeFails, IInv, TypeOK

\* scheduler.discard() and a retry beyond the last attempt: the job is finished, and the
\* run goes on.
LEMMA DiscardStep ==
  ASSUME IInv, NEW r \in Runs, run[r].pc = "handling",
         run' = [run EXCEPT ![r].discarded = TRUE],
         finished' = finished \cup {run[r].job},
         \/ UNCHANGED exhausted
         \/ /\ run[r].attempt = MaxAttempts
            /\ exhausted' = exhausted \cup {<<run[r].job, run[r].attempt>>},
         asked' \in Nat,
         UNCHANGED <<msg, channel, opened, nextTag, state, locks, performed, handled,
                     entangled, adrift>>
  PROVE  IInv'
<1> DEFINE j == run[r].job
<1>1. j \in Jobs /\ j \in performed /\ run[r].attempt \in 1 .. MaxAttempts
  BY Fields DEF IInv
<1>2. PICK new \in RunRecord :
           /\ run' = [run EXCEPT ![r] = new]
           /\ new.job = run[r].job /\ new.attempt = run[r].attempt
           /\ new.published = run[r].published /\ new.epoch = run[r].epoch
           /\ new.step = run[r].step /\ new.next = run[r].next
           /\ new.pc = run[r].pc
  <2> DEFINE rec == [run[r] EXCEPT !.discarded = TRUE]
  <2>1. /\ rec \in RunRecord
        /\ rec.job = run[r].job /\ rec.attempt = run[r].attempt
        /\ rec.published = run[r].published /\ rec.epoch = run[r].epoch
        /\ rec.step = run[r].step /\ rec.next = run[r].next
        /\ rec.pc = run[r].pc
    <3>1. run[r] \in RunRecord
      BY DEF IInv, TypeOK
    <3>2. rec \in RunRecord
      BY <3>1 DEF RunRecord
    <3> QED
      BY <3>1, <3>2 DEF RunRecord
  <2>2. run' = [run EXCEPT ![r] = rec]
    OBVIOUS
  <2> HIDE DEF rec
  <2> QED
    BY <2>1, <2>2
<1>4. /\ \A q \in Runs :
           /\ run'[q].job = run[q].job /\ run'[q].attempt = run[q].attempt
           /\ run'[q].published = run[q].published /\ run'[q].epoch = run[q].epoch
           /\ run'[q].pc = run[q].pc
           /\ q # r => run'[q] = run[q]
      /\ run'[r] = new
      /\ run' \in [Runs -> RunRecord]
  BY <1>2 DEF IInv, TypeOK
<1>5. TypeOK' /\ MessageInv' /\ TagInv'
  BY <1>1, <1>4 DEF IInv, TypeOK, MessageInv, TagInv
<1>6. RunInv'
  <2>1. RunOK(run[r])
    BY DEF IInv, RunInv
  <2>2. RunOK(new)'
    BY <1>2, <2>1 DEF RunOK
  <2> QED
    BY <1>4, <2>2, RunsKept DEF IInv, RunInv
<1>7. AttemptInv'
  <2>1. \A i \in Jobs : \A a \in 1 .. MaxAttempts :
         GoneThrough(i, a) => GoneThrough(i, a)'
    BY <1>4 DEF GoneThrough
  <2> QED
    BY <1>4, <2>1, AttemptsKept
<1>8. LockInv'
  BY <1>4 DEF IInv, LockInv, OneRunOnAChannel, Live
<1>9. CountInv'
  <2>1. \A i : MessagesOf(i)' = MessagesOf(i) /\ RetriedBy(i)' = RetriedBy(i)
    BY <1>4 DEF MessagesOf, RetriedBy, Live
  <2> QED
    BY <2>1 DEF IInv, CountInv
<1>10. SingleInv'
  BY <1>4 DEF IInv, SingleInv, Unstarted, OwnMessages, Belated, Live
<1> QED
  BY <1>5, <1>6, <1>7, <1>8, <1>9, <1>10 DEF IInv

\* The handler calls scheduler.discard().
LEMMA HandlerDiscardsStep == ASSUME IInv, NEW r \in Runs, HandlerDiscards(r) PROVE IInv'
<1>1. asked' \in Nat
  BY DEF HandlerDiscards, IInv, TypeOK
<1> QED
  BY <1>1, DiscardStep DEF HandlerDiscards

\* The handler calls scheduler.retry() itself.
LEMMA HandlerRetriesStep == ASSUME IInv, NEW r \in Runs, HandlerRetries(r) PROVE IInv'
<1>1. run[r].attempt \in 1 .. MaxAttempts /\ run[r].pc = "handling" /\ asked' \in Nat
  BY Fields DEF HandlerRetries, IInv, TypeOK
<1>2. PICK next \in {run[r].attempt + 1, 2} :
        /\ run[r].step["handler"] = "none" /\ ~run[r].discarded
        /\ IF IsExceedingMaxAttemptCount(next)
           THEN /\ run' = [run EXCEPT ![r].discarded = TRUE]
                /\ Exhaust(r)
           ELSE /\ run' = [run EXCEPT ![r] =
                             [Stepped(r, "handler", "creating") EXCEPT !.next = next]]
                /\ UNCHANGED <<finished, exhausted>>
        /\ UNCHANGED <<msg, channel, opened, nextTag, state, locks, performed, handled,
                       entangled, adrift>>
  BY DEF HandlerRetries
<1>3. CASE IsExceedingMaxAttemptCount(next)
  <2>1. run[r].attempt = MaxAttempts \/ MaxAttempts = 1
    BY <1>1, <1>2, <1>3, JobServerAssumption DEF IsExceedingMaxAttemptCount
  <2>2. run[r].attempt = MaxAttempts
    BY <1>1, <2>1, JobServerAssumption
  <2> QED
    BY <1>1, <1>2, <1>3, <2>2, DiscardStep DEF Exhaust
<1>4. CASE ~IsExceedingMaxAttemptCount(next)
  <2> DEFINE old == Stepped(r, "handler", "creating")
             rec == [old EXCEPT !.next = next]
  <2>1. "handler" \in Callers /\ "server" \in Callers \ {"handler"}
        /\ "creating" \in Active \cup {"none", "done"}
    BY DEF Callers, Active, Unconfirmed
  <2>2. next \in 1 .. MaxAttempts /\ next \in 0 .. MaxAttempts
    BY <1>1, <1>2, <1>4, JobServerAssumption DEF IsExceedingMaxAttemptCount
  <2>3. /\ old \in RunRecord /\ old.pc = run[r].pc
        /\ old.job = run[r].job /\ old.attempt = run[r].attempt
        /\ old.discarded = run[r].discarded
        /\ old.published = run[r].published /\ old.epoch = run[r].epoch
        /\ old.step["server"] = run[r].step["server"]
    BY <2>1, SteppedIs DEF IInv
  <2>4. run' = [run EXCEPT ![r] = rec] /\ UNCHANGED <<finished, exhausted>>
    BY <1>2, <1>4
  <2> HIDE DEF old
  <2>5. /\ rec \in RunRecord /\ rec.pc = old.pc
        /\ rec.job = old.job /\ rec.attempt = old.attempt
        /\ rec.discarded = old.discarded /\ rec.next = next
        /\ rec.published = old.published /\ rec.epoch = old.epoch
        /\ rec.step = old.step
    <3>1. rec \in RunRecord
      BY <2>2, <2>3 DEF RunRecord
    <3> QED
      BY <2>3, <3>1 DEF RunRecord
  <2> HIDE DEF rec
  <2>6. RunOK(run[r])
    BY DEF IInv, RunInv
  <2>7. RunOK(rec)
    BY <1>1, <1>2, <2>2, <2>3, <2>5, <2>6 DEF RunOK
  <2> QED
    BY <1>1, <1>2, <2>3, <2>4, <2>5, <2>7, MoveStep
<1> QED
  BY <1>3, <1>4

\* The attempt that a retry is to publish: a further one or, on a reset, the second.
LEMMA NextAttemptIs ==
  ASSUME IInv, NEW r \in Runs, NEW w \in Callers, run[r].step[w] \in Active
  PROVE  /\ NextAttempt(r, w) \in 1 .. MaxAttempts
         /\ NextAttempt(r, w) \in {run[r].attempt + 1, 2}
<1>1. RunOK(run[r]) /\ run[r].pc # "free"
  BY NoRunIs DEF IInv, RunInv, RunOK, Active, Unconfirmed
<1>2. run[r].attempt \in 1 .. MaxAttempts
  BY <1>1, Fields DEF IInv
<1>3. CASE w = "server"
  <2>1. run[r].attempt < MaxAttempts
    BY <1>1, <1>3 DEF RunOK
  <2> QED
    BY <1>2, <1>3, <2>1, JobServerAssumption DEF NextAttempt
<1>4. CASE w = "handler"
  BY <1>1, <1>4 DEF RunOK, NextAttempt
<1> QED
  BY <1>3, <1>4 DEF Callers

\* The message of a retry is in the retry queue.
LEMMA RetryPublishedStep ==
  ASSUME IInv, NEW r \in Runs, NEW w \in Callers, RetryPublished(r, w) PROVE IInv'
<1> DEFINE j == run[r].job
           next == NextAttempt(r, w)
           sent == [Sent(r, w) EXCEPT !.published = @ \cup {Taken}]
           rec == Rest(r, sent)
<1>1. /\ Sends(r, w) /\ FreeMessages # {} /\ msg' = Put("delayed", j, next)
      /\ run' = [run EXCEPT ![r] = rec]
      /\ entangled' = IF run[r].published # {} THEN entangled \cup {j} ELSE entangled
      /\ UNCHANGED <<channel, opened, nextTag, state, locks, asked, performed, handled,
                     finished, exhausted, adrift>>
  BY DEF RetryPublished, Published, Taken
<1>2. next \in 1 .. MaxAttempts /\ next \in {run[r].attempt + 1, 2}
  BY <1>1, NextAttemptIs DEF Sends, Active, Unconfirmed
<1>3. /\ run[r].pc # "free" /\ j \in Jobs /\ j \in performed
      /\ run[r].attempt \in 1 .. MaxAttempts /\ run[r].published \subseteq Messages
  BY <1>1, SentIs, Fields DEF IInv
<1>4. /\ Taken \in Messages /\ msg[Taken].place = "free"
      /\ \A n \in Messages :
           msg'[n] = IF n = Taken
                     THEN [place |-> "delayed", job |-> j, attempt |-> next, tag |-> 0]
                     ELSE msg[n]
      /\ msg' \in [Messages -> MessageRecord]
  BY <1>1, <1>2, <1>3, PutType, TakenIsFree DEF IInv
<1> HIDE DEF next
<1>5. /\ sent \in RunRecord /\ RunOK(sent)
      /\ sent.pc = run[r].pc /\ sent.job = j /\ sent.attempt = run[r].attempt
      /\ sent.published = run[r].published \cup {Taken} /\ sent.epoch = run[r].epoch
  <2> DEFINE old == Sent(r, w)
             new == [old EXCEPT !.published = @ \cup {Taken}]
  <2>1. /\ old \in RunRecord /\ RunOK(old)
        /\ old.pc = run[r].pc /\ old.job = j /\ old.attempt = run[r].attempt
        /\ old.published = run[r].published /\ old.epoch = run[r].epoch
    BY <1>1, SentIs
  <2> HIDE DEF old
  <2>2. /\ new \in RunRecord
        /\ new.pc = old.pc /\ new.job = old.job /\ new.attempt = old.attempt
        /\ new.published = old.published \cup {Taken} /\ new.epoch = old.epoch
        /\ new.step = old.step /\ new.next = old.next /\ new.discarded = old.discarded
    BY <1>4, <2>1 DEF RunRecord
  <2> HIDE DEF new
  <2>3. RunOK(new)
    BY <1>3, <2>1, <2>2 DEF RunOK
  <2> QED
    BY <2>1, <2>2, <2>3 DEF new, old
<1> HIDE DEF sent
<1>6. /\ rec \in RunRecord /\ RunOK(rec)
      /\ \/ run[r].pc = "over" /\ rec = NoRun
         \/ /\ rec.pc = run[r].pc /\ rec.job = j /\ rec.attempt = run[r].attempt
            /\ rec.published = run[r].published \cup {Taken}
            /\ run[r].pc # "over" => rec.epoch = run[r].epoch
  BY <1>3, <1>5, RestIs
<1> HIDE DEF rec
<1>7. /\ \A q \in Runs : run'[q] = IF q = r THEN rec ELSE run[q]
      /\ run' \in [Runs -> RunRecord]
  BY <1>1, <1>6 DEF IInv, TypeOK
<1>8. \A q \in Runs :
        /\ Live(q)' <=> Live(q)
        /\ Live(q) => /\ run'[q].job = run[q].job /\ run'[q].attempt = run[q].attempt
                      /\ run'[q].epoch = run[q].epoch
                      /\ run'[q].published = IF q = r THEN run[r].published \cup {Taken}
                                             ELSE run[q].published
  BY <1>3, <1>6, <1>7, NoRunIs DEF Live
<1>9. TypeOK' /\ MessageInv'
  BY <1>1, <1>2, <1>3, <1>4, <1>7 DEF IInv, TypeOK, MessageInv
<1>10. RunInv'
  BY <1>1, <1>6, <1>7, RunsKept DEF IInv, RunInv
<1>11. TagInv'
  BY <1>1, <1>4 DEF IInv, TagInv
<1>12. AttemptInv'
  <2>1. run[r].pc = "over" => <<j, run[r].attempt>> \in handled
    BY <1>3 DEF IInv, RunInv, RunOK
  <2>2. \A i \in Jobs : \A a \in 1 .. MaxAttempts :
         GoneThrough(i, a) => GoneThrough(i, a)'
    BY <1>1, <1>6, <1>7, <2>1 DEF GoneThrough
  <2>3. GoneThrough(j, run[r].attempt)
    BY DEF GoneThrough
  <2>4. Traced(j, next)
    BY <1>2, <1>3, <2>3, JobServerAssumption DEF IInv, AttemptInv, Traced
  <2>5. PICK i \in Jobs, k \in 1 .. MaxAttempts : i = j /\ k = next /\ Traced(i, k)
    BY <1>2, <1>3, <2>4
  <2>6. Traced(i, k)'
    BY <2>2, <2>5 DEF Traced
  <2>7. \A m \in Messages :
           \/ msg'[m].attempt = 0
           \/ \E n \in Messages : /\ msg[n].job = msg'[m].job
                                 /\ msg[n].attempt = msg'[m].attempt
           \/ Traced(msg[m].job, msg[m].attempt)'
    BY <1>4, <2>5, <2>6
  <2> QED
    BY <1>1, <1>6, <1>7, <2>2, <2>7, AttemptsKept, NoRunIs
<1>13. LockInv'
  BY <1>1, <1>8 DEF IInv, LockInv, OneRunOnAChannel
<1>14. CountInv'
  <2> SUFFICES ASSUME NEW i \in performed \ (finished \cup adrift)
               PROVE  Cardinality(MessagesOf(i)') > Cardinality(RetriedBy(i)')
    BY <1>1 DEF CountInv
  <2>1. Cardinality(MessagesOf(i)) > Cardinality(RetriedBy(i)) /\ i \in Jobs
    BY Fields DEF IInv, CountInv
  <2>2. /\ IsFiniteSet(MessagesOf(i)) /\ IsFiniteSet(MessagesOf(i)')
        /\ IsFiniteSet(RetriedBy(i))
    BY Finite
  <2>3. RetriedBy(i)' \subseteq RetriedBy(i) \cup (IF i = j THEN {r} ELSE {})
    BY <1>8 DEF RetriedBy
  <2>4. CASE i = j
    <3>1. Taken \notin MessagesOf(i) /\ MessagesOf(i)' = MessagesOf(i) \cup {Taken}
      BY <1>3, <1>4, <2>4, JobIsThere DEF MessagesOf, IInv
    <3>2. RetriedBy(i)' \subseteq RetriedBy(i) \cup {r}
      BY <2>3, <2>4
    <3> QED
      BY <2>1, <2>2, <3>1, <3>2, CountGained
  <2>5. CASE i # j
    <3>1. MessagesOf(i) \subseteq MessagesOf(i)'
      BY <1>4, <2>1, <2>5, JobIsThere DEF MessagesOf, IInv
    <3>2. RetriedBy(i)' \subseteq RetriedBy(i)
      BY <2>3, <2>5
    <3> QED
      BY <2>1, <2>2, <3>1, <3>2, CountKept
  <2> QED
    BY <2>4, <2>5
<1>15. SingleInv'
  <2> SUFFICES ASSUME NEW i \in Jobs, opened = 1, i \notin entangled'
               PROVE  /\ channel = "up" /\ locks[i] = 0 => Unstarted(i)'
                      /\ \A q \in Runs :
                           channel # "down" /\ run'[q].job = i /\ Live(q)' =>
                             OwnMessages(i, q)'
    BY <1>1 DEF SingleInv
  <2>1. \A q \in Runs : Belated(i, q)' => Belated(i, q) /\ q # r
    BY <1>6, <1>7, NoRunIs, JobServerAssumption DEF Belated
  <2>2. \A q \in Runs : run'[q].job = i /\ Live(q)' => run[q].job = i /\ Live(q)
    BY <1>8
  <2>3. CASE i # j
    <3>1. \A m \in Messages : msg'[m].job = i => msg'[m] = msg[m]
      BY <1>4, <2>3
    <3>2. ASSUME channel = "up", locks[i] = 0 PROVE Unstarted(i)'
      <4>1. Unstarted(i)
        BY <1>1, <3>2 DEF IInv, SingleInv
      <4> QED
        BY <2>1, <2>2, <3>1, <4>1 DEF Unstarted
    <3>3. ASSUME NEW q \in Runs, channel # "down", run'[q].job = i, Live(q)'
          PROVE  OwnMessages(i, q)'
      <4>1. OwnMessages(i, q) /\ run'[q] = run[q]
        BY <1>1, <1>3, <1>7, <2>2, <2>3, <3>3 DEF IInv, SingleInv
      <4> QED
        BY <1>1, <2>1, <3>1, <4>1 DEF OwnMessages
    <3> QED
      BY <3>2, <3>3
  <2>4. CASE i = j
    <3>1. run[r].published = {} /\ i \notin entangled /\ channel = "up"
      BY <1>1, <2>4 DEF Sends
    <3>2. CASE Live(r)
      <4>1. locks[i] # 0 /\ OwnMessages(i, r)
        BY <2>4, <3>1, <3>2 DEF IInv, LockInv, SingleInv
      <4>2. \A q \in Runs : run'[q].job = i /\ Live(q)' => q = r
        BY <2>2, <2>4, <3>2 DEF IInv, LockInv, OneRunOnAChannel
      <4>3. /\ run'[r].published = {Taken} /\ run'[r].attempt = run[r].attempt
        BY <1>8, <3>1, <3>2
      <4>4. OwnMessages(i, r)'
        BY <1>1, <1>4, <2>1, <2>4, <3>1, <4>1, <4>3 DEF OwnMessages
      <4> QED
        BY <4>1, <4>2, <4>4
    <3>3. CASE ~Live(r)
      <4>1. Belated(i, r)
        BY <1>3, <2>4, <3>1, <3>3 DEF Belated, Live
      <4>2. \A q \in Runs : run'[q].job = i => ~Live(q)'
        BY <2>2, <3>1, <4>1 DEF IInv, SingleInv, OwnMessages
      <4>3. ASSUME locks[i] = 0 PROVE Unstarted(i)'
        <5>1. Unstarted(i)
          BY <3>1, <4>3 DEF IInv, SingleInv
        <5>2. \A q \in Runs : ~Belated(i, q)'
          BY <2>1, <4>1, <5>1 DEF Unstarted
        <5>3. \A m \in Messages : msg'[m].job = i => m = Taken
          BY <1>4, <4>1, <5>1 DEF Unstarted
        <5> QED
          BY <4>2, <5>2, <5>3 DEF Unstarted
      <4> QED
        BY <4>2, <4>3
    <3> QED
      BY <3>2, <3>3
  <2> QED
    BY <2>3, <2>4
<1> QED
  BY <1>9, <1>10, <1>11, <1>12, <1>13, <1>14, <1>15 DEF IInv

\* A message leaves the retry queue: its job is entangled if its run is not over.
LEMMA DeadLetteredStep == ASSUME IInv, NEW m \in Messages, DeadLettered(m) PROVE IInv'
<1> DEFINE j == msg[m].job
<1>1. j \in Jobs /\ j \in performed /\ msg[m].place = "delayed"
  BY Fields DEF DeadLettered, IInv
<1>2. /\ \A n \in Messages :
           /\ msg'[n].job = msg[n].job /\ msg'[n].attempt = msg[n].attempt
           /\ msg'[n].tag = msg[n].tag
           /\ msg'[n].place = IF n = m THEN "ready" ELSE msg[n].place
           /\ n # m => msg'[n] = msg[n]
      /\ msg' \in [Messages -> MessageRecord]
  BY DEF DeadLettered, IInv, TypeOK, MessageRecord
<1>3. TypeOK' /\ MessageInv' /\ RunInv'
  BY <1>1, <1>2, RunsKept DEF DeadLettered, IInv, TypeOK, MessageInv, RunInv
<1>4. TagInv'
  BY <1>2 DEF DeadLettered, IInv, TagInv
<1>5. AttemptInv'
  BY <1>2, AttemptsKept DEF DeadLettered, GoneThrough
<1>6. LockInv'
  BY DEF DeadLettered, IInv, LockInv, OneRunOnAChannel, Live
<1>7. CountInv'
  <2>1. \A i : MessagesOf(i)' = MessagesOf(i) /\ RetriedBy(i)' = RetriedBy(i)
    BY <1>2 DEF DeadLettered, MessagesOf, RetriedBy, Live
  <2> QED
    BY <2>1 DEF DeadLettered, IInv, CountInv
<1>8. SingleInv'
  <2> SUFFICES ASSUME NEW i \in Jobs, opened = 1, i \notin entangled'
               PROVE  /\ channel = "up" /\ locks[i] = 0 => Unstarted(i)'
                      /\ \A r \in Runs :
                           channel # "down" /\ run[r].job = i /\ Live(r) =>
                             OwnMessages(i, r)'
    BY DEF DeadLettered, SingleInv, Live
  <2>1. channel = "up" /\ locks[i] = 0 => Unstarted(i)'
    BY <1>2 DEF DeadLettered, IInv, SingleInv, Unstarted, Belated, Live
  <2>2. ASSUME NEW r \in Runs, channel # "down", run[r].job = i, Live(r)
        PROVE  OwnMessages(i, r)'
    <3>1. OwnMessages(i, r) /\ ~(m \in run[r].published /\ j = i)
      BY <2>2 DEF DeadLettered, IInv, SingleInv
    <3>2. j # i
      BY <1>1, <3>1 DEF OwnMessages
    <3> QED
      BY <1>2, <3>1, <3>2 DEF DeadLettered, OwnMessages, Belated
  <2> QED
    BY <2>1, <2>2
<1> QED
  BY <1>3, <1>4, <1>5, <1>6, <1>7, <1>8 DEF IInv

\* The channel goes: nothing is unacknowledged any more.
LEMMA ChannelLostStep == ASSUME IInv, ChannelLost PROVE IInv'
<1>1. /\ \A n \in Messages :
           /\ msg'[n].job = msg[n].job /\ msg'[n].attempt = msg[n].attempt
           /\ msg'[n].place = IF msg[n].place = "unacked" THEN "ready" ELSE msg[n].place
           /\ msg[n].place # "unacked" => msg'[n] = msg[n]
      /\ msg' \in [Messages -> MessageRecord]
  <2>1. \A n \in Messages : msg[n] \in MessageRecord
    BY DEF IInv, TypeOK
  <2>2. \A n \in Messages : [msg[n] EXCEPT !.place = "ready", !.tag = 0] \in MessageRecord
    BY <2>1 DEF MessageRecord
  <2>3. msg' \in [Messages -> MessageRecord]
    BY <2>1, <2>2 DEF ChannelLost
  <2>4. \A n \in Messages : IF msg[n].place = "unacked"
                             THEN msg'[n] = [msg[n] EXCEPT !.place = "ready", !.tag = 0]
                             ELSE msg'[n] = msg[n]
    BY DEF ChannelLost
  <2> QED
    BY <2>1, <2>3, <2>4 DEF MessageRecord
<1>2. /\ \A q \in Runs :
           /\ run'[q].job = run[q].job /\ run'[q].attempt = run[q].attempt
           /\ run'[q].epoch = run[q].epoch /\ run'[q].discarded = run[q].discarded
           /\ run'[q].published = run[q].published /\ run'[q].next = run[q].next
           /\ run'[q].pc = run[q].pc
           /\ \A w \in Callers :
                run'[q].step[w] = IF run[q].step[w] = "confirming" THEN "sending"
                                  ELSE run[q].step[w]
      /\ run' \in [Runs -> RunRecord]
  <2> DEFINE Back(step) ==
               [w \in Callers |-> IF step[w] = "confirming" THEN "sending" ELSE step[w]]
             new(q) == [run[q] EXCEPT !.step = Back(run[q].step)]
  <2>1. ASSUME NEW q \in Runs
        PROVE  /\ new(q).job = run[q].job /\ new(q).attempt = run[q].attempt
               /\ new(q).epoch = run[q].epoch /\ new(q).discarded = run[q].discarded
               /\ new(q).published = run[q].published /\ new(q).next = run[q].next
               /\ new(q).pc = run[q].pc /\ new(q).step = Back(run[q].step)
               /\ new(q) \in RunRecord
    <3>1. run[q] \in RunRecord
      BY DEF IInv, TypeOK
    <3>2. run[q].step \in [Callers -> Active \cup {"none", "done"}]
      BY <3>1 DEF RunRecord
    <3>3. Back(run[q].step) \in [Callers -> Active \cup {"none", "done"}]
      BY <3>2 DEF Active, Unconfirmed
    <3> HIDE DEF Back
    <3> QED
      BY <3>1, <3>3 DEF RunRecord
  <2>2. run' = [q \in Runs |-> new(q)]
    BY DEF ChannelLost
  <2> HIDE DEF new
  <2> QED
    BY <2>1, <2>2
<1>3. UNCHANGED <<opened, nextTag, state, locks, asked, performed, handled, finished,
                  exhausted, entangled, adrift>> /\ channel' = "down"
  BY DEF ChannelLost
<1>4. TypeOK' /\ MessageInv'
  BY <1>1, <1>2, <1>3 DEF IInv, TypeOK, MessageInv
<1>5. RunInv'
  <2> SUFFICES ASSUME NEW q \in Runs PROVE RunOK(run[q])'
    BY DEF RunInv
  <2>1. RunOK(run[q])
    BY DEF IInv, RunInv
  <2>2. /\ "server" \in Callers /\ "handler" \in Callers
        /\ "sending" \in Unconfirmed /\ "confirming" \in Unconfirmed
        /\ Unconfirmed \subseteq Active
    BY DEF Callers, Unconfirmed, Active
  <2>3. CASE run[q].pc = "free"
    <3>1. run[q] = NoRun
      BY <2>1, <2>3 DEF RunOK
    <3>2. [w \in Callers |-> IF NoRun.step[w] = "confirming" THEN "sending"
                             ELSE NoRun.step[w]] = NoRun.step
      BY NoRunIs
    <3>3. run'[q] = [NoRun EXCEPT !.step = NoRun.step]
      BY <3>1, <3>2 DEF ChannelLost
    <3>4. [NoRun EXCEPT !.step = NoRun.step] = NoRun
      BY NoRunIs DEF RunRecord
    <3>5. run'[q] = NoRun
      BY <3>3, <3>4
    <3> QED
      BY <3>5, NoRunIs DEF RunOK
  <2>4. CASE run[q].pc # "free"
    BY <1>2, <1>3, <2>1, <2>2, <2>4 DEF RunOK
  <2> QED
    BY <2>3, <2>4
<1>6. TagInv'
  BY <1>1, <1>3 DEF IInv, TagInv
<1>7. AttemptInv'
  <2>1. \A i \in Jobs : \A a \in 1 .. MaxAttempts :
         GoneThrough(i, a) => GoneThrough(i, a)'
    BY <1>2, <1>3 DEF GoneThrough
  <2> QED
    BY <1>1, <1>2, <1>3, <2>1, AttemptsKept
<1>8. LockInv'
  BY <1>2, <1>3 DEF IInv, LockInv, OneRunOnAChannel, Live
<1>9. CountInv'
  <2>1. \A i : MessagesOf(i)' = MessagesOf(i) /\ RetriedBy(i)' = RetriedBy(i)
    BY <1>1, <1>2 DEF MessagesOf, RetriedBy, Live
  <2> QED
    BY <1>3, <2>1 DEF IInv, CountInv
<1>10. SingleInv'
  BY <1>3 DEF SingleInv
<1> QED
  BY <1>4, <1>5, <1>6, <1>7, <1>8, <1>9, <1>10 DEF IInv

\* Another channel: no lock, and no acknowledgement that waits.
LEMMA ChannelRecreatedStep == ASSUME IInv, ChannelRecreated PROVE IInv'
<1>1. \A q \in Runs :
        IF run[q].pc = "acking"
        THEN /\ run'[q] \in RunRecord /\ RunOK(run'[q]) /\ ~Live(q)'
             /\ <<run[q].job, run[q].attempt>> \in handled
             /\ \/ run'[q] = NoRun
                \/ run'[q].job = run[q].job /\ run'[q].attempt = run[q].attempt
        ELSE run'[q] = run[q]
  <2> SUFFICES ASSUME NEW q \in Runs, run[q].pc = "acking"
               PROVE  /\ run'[q] \in RunRecord /\ RunOK(run'[q]) /\ ~Live(q)'
                      /\ <<run[q].job, run[q].attempt>> \in handled
                      /\ \/ run'[q] = NoRun
                         \/ /\ run'[q].job = run[q].job
                            /\ run'[q].attempt = run[q].attempt
    BY DEF ChannelRecreated
  <2>1. run[q] \in RunRecord /\ RunOK(run[q])
    BY DEF IInv, TypeOK, RunInv
  <2>2. PICK left \in RunRecord :
          /\ run'[q] = left
          /\ \/ left = NoRun
             \/ /\ left.pc = "over" /\ left.job = run[q].job
                /\ left.attempt = run[q].attempt /\ left.published = run[q].published
                /\ left.step = run[q].step /\ left.next = run[q].next
                /\ ~left.discarded
    <3>1. run'[q] = Left(run[q])
      BY DEF ChannelRecreated
    <3> QED
      BY <2>1, <3>1, LeftIs
  <2>3. RunOK(left)
    BY <2>1, <2>2, NoRunIs DEF RunOK
  <2> QED
    BY <2>1, <2>2, <2>3, NoRunIs DEF RunOK, Live
<1>2. run' \in [Runs -> RunRecord]
  <2>1. run' = [q \in Runs |-> run'[q]]
    BY DEF ChannelRecreated
  <2> QED
    BY <1>1, <2>1 DEF IInv, TypeOK
<1>3. /\ opened' = opened + 1 /\ opened \in Nat \ {0} /\ nextTag' = 0
      /\ channel = "down" /\ channel' \in {"up", "doomed"}
      /\ locks' \in [Jobs -> Nat]
      /\ state = "listening" => \A j \in Jobs : locks'[j] = 0
      /\ UNCHANGED <<msg, state, asked, performed, handled, finished, exhausted,
                     entangled, adrift>>
  BY DEF ChannelRecreated, UnlockedAll, IInv, TypeOK, LockInv
<1>4. \A q \in Runs : Live(q)' => Live(q) /\ run'[q] = run[q]
  BY <1>1 DEF Live
<1>5. TypeOK' /\ MessageInv'
  BY <1>2, <1>3 DEF IInv, TypeOK, MessageInv
<1>6. RunInv'
  BY <1>1, <1>3, RunsKept DEF IInv, RunInv
<1>7. TagInv'
  BY <1>3 DEF IInv, TagInv
<1>8. AttemptInv'
  <2>1. \A i \in Jobs : \A a \in 1 .. MaxAttempts :
         GoneThrough(i, a) => GoneThrough(i, a)'
    BY <1>1, <1>3 DEF GoneThrough
  <2> QED
    BY <1>1, <1>3, <2>1, AttemptsKept, NoRunIs
<1>9. LockInv'
  BY <1>3, <1>4 DEF IInv, LockInv, OneRunOnAChannel
<1>10. CountInv'
  <2> SUFFICES ASSUME NEW i \in performed \ (finished \cup adrift)
               PROVE  Cardinality(MessagesOf(i)') > Cardinality(RetriedBy(i)')
    BY <1>3 DEF CountInv
  <2>1. MessagesOf(i)' = MessagesOf(i) /\ RetriedBy(i)' \subseteq RetriedBy(i)
    BY <1>3, <1>4 DEF MessagesOf, RetriedBy
  <2> QED
    BY <2>1, Finite, CountKept DEF IInv, CountInv
<1>11. SingleInv'
  BY <1>3 DEF SingleInv
<1> QED
  BY <1>5, <1>6, <1>7, <1>8, <1>9, <1>10, <1>11 DEF IInv

\* The server is disposed of.
LEMMA DisposeStep == ASSUME IInv, Dispose PROVE IInv'
<1>1. TypeOK' /\ MessageInv' /\ RunInv' /\ TagInv'
  BY RunsKept DEF Dispose, IInv, TypeOK, MessageInv, RunInv, TagInv
<1>2. AttemptInv'
  BY DEF Dispose, IInv, AttemptInv, Traced, GoneThrough
<1>3. LockInv' /\ CountInv'
  BY DEF Dispose, IInv, LockInv, OneRunOnAChannel, CountInv, MessagesOf, RetriedBy, Live
<1>4. SingleInv'
  BY DEF Dispose, IInv, SingleInv, Unstarted, OwnMessages, Belated, Live
<1> QED
  BY <1>1, <1>2, <1>3, <1>4 DEF IInv

-----------------------------------------------------------------------------
(* The invariant holds in every behaviour *)

\* The initial state has it.
LEMMA InitialState == ASSUME Init PROVE IInv
<1>1. /\ \A m \in Messages : msg[m] = NoMessage
      /\ \A r \in Runs : run[r] = NoRun
      /\ NoMessage \in MessageRecord /\ NoMessage.place = "free" /\ NoMessage.attempt = 0
      /\ NoMessage.job \notin Jobs
  BY JobServerAssumption DEF Init, NoMessage, MessageRecord
<1>2. TypeOK
  BY <1>1, NoRunIs DEF Init, TypeOK
<1>3. MessageInv /\ RunInv /\ TagInv
  BY <1>1, NoRunIs DEF Init, MessageInv, RunInv, RunOK, TagInv
<1>4. AttemptInv
  BY <1>1, NoRunIs, JobServerAssumption DEF Init, AttemptInv, Traced
<1>5. LockInv
  BY <1>1, NoRunIs DEF Init, LockInv, OneRunOnAChannel, Live
<1>6. CountInv
  BY DEF Init, CountInv
<1>7. SingleInv
  BY <1>1, NoRunIs, JobServerAssumption
     DEF Init, SingleInv, Unstarted, OwnMessages, Belated, Live
<1> QED
  BY <1>2, <1>3, <1>4, <1>5, <1>6, <1>7 DEF IInv

\* A step that changes nothing keeps it.
LEMMA Stutter == ASSUME IInv, UNCHANGED vars PROVE IInv'
<1>1. TypeOK' /\ MessageInv' /\ RunInv' /\ TagInv'
  BY RunsKept DEF vars, IInv, TypeOK, MessageInv, RunInv, TagInv
<1>2. AttemptInv'
  BY DEF vars, IInv, AttemptInv, Traced, GoneThrough
<1>3. LockInv' /\ CountInv'
  BY DEF vars, IInv, LockInv, OneRunOnAChannel, CountInv, MessagesOf, RetriedBy, Live
<1>4. SingleInv'
  BY DEF vars, IInv, SingleInv, Unstarted, OwnMessages, Belated, Live
<1> QED
  BY <1>1, <1>2, <1>3, <1>4 DEF IInv

\* Every step keeps it.
LEMMA Step == ASSUME IInv, [Next]_vars PROVE IInv'
<1>1. ASSUME NEW j \in Jobs, Perform(j) PROVE IInv'
  BY <1>1, PerformStep
<1>2. ASSUME NEW m \in Messages, Deliver(m) \/ DeadLettered(m) PROVE IInv'
  BY <1>2, DeliverStep, DeadLetteredStep
<1>3. ASSUME NEW r \in Runs, HandlerEnds(r) PROVE IInv'
  BY <1>3, HandlerSucceedsStep, HandlerThrowsStep DEF HandlerEnds
<1>4. ASSUME NEW r \in Runs, HandlerRetries(r) \/ HandlerDiscards(r) PROVE IInv'
  BY <1>4, HandlerRetriesStep, HandlerDiscardsStep
<1>5. ASSUME NEW r \in Runs, NEW w \in Callers,
             \/ QueueCreated(r, w) \/ RetryPublished(r, w) \/ RetryDropped(r, w)
             \/ RetryConfirmed(r, w) \/ RetryFails(r, w)
      PROVE  IInv'
  BY <1>5, QueueCreatedStep, RetryPublishedStep, RetryDroppedStep, RetryConfirmedStep,
     RetryFailsStep
<1>6. ASSUME NEW r \in Runs, AcknowledgeFails(r) PROVE IInv'
  BY <1>6, AcknowledgeFailsStep
<1>7. CASE ChannelLost \/ ChannelRecreated \/ Dispose
  BY <1>7, ChannelLostStep, ChannelRecreatedStep, DisposeStep
<1>8. CASE UNCHANGED vars
  BY <1>8, Stutter
<1> QED
  BY <1>1, <1>2, <1>3, <1>4, <1>5, <1>6, <1>7, <1>8 DEF Next, Working

\* The inductive invariant is an invariant.
THEOREM Invariance == Safety => []IInv
<1>1. Init => IInv
  BY InitialState
<1>2. IInv /\ [Next]_vars => IInv'
  BY Step
<1> QED
  BY <1>1, <1>2, PTL DEF Safety

-----------------------------------------------------------------------------
(* The properties *)

\* The variables keep their types: no attempt exceeds getMaxAttemptCount(), nothing is
\* finished that was not performed.
THEOREM TypeCorrect == Safety => []TypeOK
<1>1. IInv => TypeOK
  BY DEF IInv
<1> QED
  BY <1>1, Invariance, PTL

\* "Jobs are retried when failed": an unfinished job has a message in the broker, unless
\* a run of it had called scheduler.retry() and was over before a message of it was
\* there (adrift): sendToQueue() came too late for the retry queue, or the handler had
\* not waited for it.  A job has one message more than it has runs, not yet over, that
\* published one, and a run removes one at most.
THEOREM NoJobIsLost == Safety => []JobNotLost
<1>1. ASSUME IInv, NEW j \in performed \ (finished \cup adrift)
      PROVE  \E m \in Messages : msg[m].job = j
  <2>1. IsFiniteSet(MessagesOf(j)) /\ IsFiniteSet(RetriedBy(j))
    BY Finite
  <2>2. Cardinality(MessagesOf(j)) > Cardinality(RetriedBy(j))
    BY <1>1 DEF IInv, CountInv
  <2>3. MessagesOf(j) # {}
    BY <2>1, <2>2, FS_EmptySet, FS_CardinalityType
  <2> QED
    BY <2>3 DEF MessagesOf
<1>2. IInv => JobNotLost
  BY <1>1 DEF JobNotLost
<1> QED
  BY <1>2, Invariance, PTL

\* MaxAttemptCountReachedError comes at the last attempt, after all the earlier ones.
THEOREM ExhaustedAtTheLast == Safety => []ExhaustedAtLastAttempt
<1>1. IInv => ExhaustedAtLastAttempt
  BY JobServerAssumption DEF IInv, AttemptInv, Traced, GoneThrough,
                             ExhaustedAtLastAttempt
<1> QED
  BY <1>1, Invariance, PTL

\* Two runs of a job never overlap on the first channel.
THEOREM RunsDoNotOverlap == Safety => []OneRunOnAChannel
<1>1. IInv => OneRunOnAChannel
  BY DEF IInv, LockInv
<1> QED
  BY <1>1, Invariance, PTL

\* On the first channel a message is removed by the end of a run only.
LEMMA RemovedByItsRun ==
  ASSUME IInv, [Next]_vars, NEW m \in Messages, opened = 1,
         msg[m].place = "unacked", msg'[m].place = "free"
  PROVE  \E r \in Runs :
           /\ (\E rec : Complete(r, rec)) /\ Live(r) /\ state = "listening"
           /\ channel # "down" /\ msg[m].tag = locks[run[r].job]
<1>1. ASSUME NEW place \in {"ready", "delayed"}, NEW j, NEW a, FreeMessages # {},
             msg' = Put(place, j, a)
      PROVE  FALSE
  BY <1>1, TakenIsFree DEF Put, Taken, IInv, TypeOK
<1>2. ASSUME UNCHANGED msg PROVE FALSE
  BY <1>2
<1>3. ASSUME NEW r \in Runs, NEW rec, Complete(r, rec)
      PROVE  /\ state = "listening" /\ channel # "down"
             /\ msg[m].tag = locks[run[r].job]
  BY <1>3 DEF Complete, IInv, TypeOK, TagInv
<1>4. ~(\E j \in Jobs : Perform(j))
  BY <1>1 DEF Perform
<1>5. ~(\E n \in Messages : Deliver(n) \/ DeadLettered(n))
  BY DEF Deliver, DeadLettered, IInv, TypeOK, MessageRecord
<1>6. \A r \in Runs : \A w \in Callers :
        ~(QueueCreated(r, w) \/ RetryPublished(r, w) \/ RetryDropped(r, w)
            \/ RetryFails(r, w))
  BY <1>1, <1>2 DEF QueueCreated, RetryPublished, Published, RetryDropped, RetryFails
<1>7. \A r \in Runs : ~(HandlerRetries(r) \/ HandlerDiscards(r) \/ AcknowledgeFails(r))
  BY <1>2 DEF HandlerRetries, HandlerDiscards, AcknowledgeFails
<1>8. ~(ChannelLost \/ ChannelRecreated \/ Dispose \/ UNCHANGED vars)
  <2>1. ASSUME ChannelLost PROVE FALSE
    <3>1. msg[m] \in MessageRecord
      BY DEF IInv, TypeOK
    <3>2. msg'[m] = [msg[m] EXCEPT !.place = "ready", !.tag = 0]
      BY <2>1 DEF ChannelLost
    <3>3. msg'[m].place = "ready"
      BY <3>1, <3>2 DEF MessageRecord
    <3> QED
      BY <3>3
  <2> QED
    BY <1>2, <2>1 DEF ChannelRecreated, Dispose, vars
<1>9. PICK r \in Runs : \/ HandlerSucceeds(r) \/ HandlerThrows(r)
                        \/ \E w \in Callers : RetryConfirmed(r, w)
  BY <1>4, <1>5, <1>6, <1>7, <1>8 DEF Next, Working, HandlerEnds
<1>10. PICK rec : Complete(r, rec)
  BY <1>2, <1>9 DEF HandlerSucceeds, HandlerThrows, RetryConfirmed
<1>11. Live(r)
  <2>1. CASE HandlerSucceeds(r) \/ HandlerThrows(r)
    BY <2>1 DEF HandlerSucceeds, HandlerThrows, Live
  <2>2. CASE \E w \in Callers : RetryConfirmed(r, w)
    <3>1. run[r].step["server"] \in Unconfirmed /\ "done" \in {"done", "abandoned"}
      BY <1>2, <2>2 DEF RetryConfirmed, Unconfirmed
    <3> QED
      BY <3>1, EndingOfRetry
  <2> QED
    BY <1>9, <2>1, <2>2
<1> QED
  BY <1>3, <1>10, <1>11

\* The message that a run removes is of its own attempt.
LEMMA AckedByItsRun == ASSUME IInv, [Next]_vars PROVE AcksWhatWasHandled
<1> SUFFICES ASSUME NEW m \in Messages, opened = 1, msg[m].place = "unacked",
                    msg'[m].place = "free", msg[m].job \notin entangled
             PROVE  <<msg[m].job, msg[m].attempt>> \in handled'
  BY DEF AcksWhatWasHandled
<1>1. PICK r \in Runs : /\ (\E rec : Complete(r, rec)) /\ Live(r)
                        /\ state = "listening"
                        /\ channel # "down" /\ msg[m].tag = locks[run[r].job]
  BY RemovedByItsRun
<1>2. run[r].job \in Jobs
  BY <1>1, Fields DEF IInv, Live
<1>3. msg[m].job = run[r].job
  BY <1>1, <1>2 DEF IInv, TagInv
<1>4. msg[m].attempt = run[r].attempt
  BY <1>1, <1>2, <1>3 DEF IInv, SingleInv, OwnMessages
<1> QED
  BY <1>1, <1>3, <1>4 DEF Complete

\* On the first channel an acknowledgement removes only what has been gone through,
\* except for the jobs that are entangled.
THEOREM AcksOnlyWhatWasHandled == Safety => AckedWasHandled
<1>1. IInv /\ [Next]_vars => AcksWhatWasHandled
  BY AckedByItsRun
<1> QED
  BY <1>1, Invariance, PTL DEF Safety, AckedWasHandled
=============================================================================
