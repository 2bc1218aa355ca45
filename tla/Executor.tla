------------------------------ MODULE Executor ------------------------------
(***************************************************************************)
(* The retry loop that AmqpChannelExecutor and AmqpConnectionExecutor have *)
(* in common: execute() races a loop of attempts against a callback that   *)
(* rejects on cancellation and on a timer.  A "resource" is a channel for  *)
(* the first class and a connection for the second.  The modules of those  *)
(* classes' owners extend this one and say what an attempt meets.          *)
(***************************************************************************)
EXTENDS Naturals

CONSTANTS
  Commands,   \* the calls of execute()
  Retryable   \* those made with retryOnError: true

ASSUME RetryableAssumption == Retryable \subseteq Commands

VARIABLES
  pc,          \* where the loop of each call stands
  on,          \* the resource the current attempt was given
  outcome,     \* the state of the promise the caller holds
  isCancelled  \* AmqpChannelExecutor.isCancelled

execVars == <<pc, on, outcome, isCancelled>>

None == 0  \* the container holds null

(***************************************************************************)
(*  idle       not called yet                                              *)
(*  waiting    in getWhenAvailable(), whose promise is pending             *)
(*  ready      that promise is resolved, its continuation is queued        *)
(*  running    the command runs on the resource                            *)
(*  lost       it threw: the resource is gone; the catch block is queued   *)
(*  closing    it threw: the connection is closing; catch block queued     *)
(*  suspended  awaits its resume callback                                  *)
(*  delayed    resumed, sleeps for commandRetryIntervalMs                  *)
(*  done       the loop has ended or will never be continued               *)
(***************************************************************************)
LoopStates == {"idle", "waiting", "ready", "running", "lost", "closing",
               "suspended", "delayed", "done"}

Outcomes == {"idle", "pending", "ok", "error", "lost", "closed", "timeout"}

Pending(c) == outcome[c] = "pending"

\* Promise.race: only the first settlement of a call counts.
Settled(o, c, result) == [o EXCEPT ![c] = IF @ = "pending" THEN result ELSE @]

ExecInit ==
  /\ pc = [c \in Commands |-> "idle"]
  /\ on = [c \in Commands |-> None]
  /\ outcome = [c \in Commands |-> "idle"]
  /\ isCancelled = FALSE

\* executeOnce() up to its first await: container.getWhenAvailable().
Attempt(c, resource) ==
  /\ pc' = [pc EXCEPT ![c] = IF resource = None THEN "waiting" ELSE "ready"]
  /\ on' = [on EXCEPT ![c] = resource]

\* execute() up to its first await.
Execute(c, resource) ==
  /\ pc[c] = "idle"
  /\ IF isCancelled
     THEN /\ pc' = [pc EXCEPT ![c] = "done"]
          /\ outcome' = [outcome EXCEPT ![c] = "closed"]
          /\ UNCHANGED on
     ELSE /\ Attempt(c, resource)
          /\ outcome' = [outcome EXCEPT ![c] = "pending"]
  /\ UNCHANGED isCancelled

\* Mutant: set() does not run the callbacks.
NobodyWoken(p) == p

\* The container's set(resource): handleBecameAvailable() runs every callback.
BecameAvailable(p) == [c \in Commands |-> IF p[c] = "waiting" THEN "ready" ELSE p[c]]
GivenTo(p, resource) == [c \in Commands |-> IF p[c] = "waiting" THEN resource ELSE on[c]]

\* Mutant: resumeAll() forgets its callbacks.
NobodyResumed(p) == p

\* resumeAll()
Resumed(p) == [c \in Commands |-> IF p[c] = "suspended" THEN "delayed" ELSE p[c]]

\* The commands running on a resource throw when it goes away.
Thrown(p, gone) ==
  [c \in Commands |-> IF p[c] = "running" /\ on[c] \in gone THEN "lost" ELSE p[c]]

\* Mutant: cancelAll() does not reject the promises.
NobodyRejected(o) == o

(***************************************************************************)
(* cancelAll(): every cancel callback rejects, and the loops end at their  *)
(* next check of isCancelled, without any further effect.                  *)
(***************************************************************************)
Stopped(p) == [c \in Commands |-> IF p[c] = "idle" THEN "idle" ELSE "done"]
Rejected(o) == [c \in Commands |-> IF o[c] = "pending" THEN "closed" ELSE o[c]]

(***************************************************************************)
(* The command's own result.  The loop ends.                               *)
(***************************************************************************)
Finish(c, result) ==
  /\ pc' = [pc EXCEPT ![c] = "done"]
  /\ outcome' = Settled(outcome, c, result)
  /\ UNCHANGED <<on, isCancelled>>

(***************************************************************************)
(* The timer of execute() fires.  The caller is rejected and the resume    *)
(* callback is deleted (finally), so a suspended loop never continues; any *)
(* other loop goes on until it looks at hasTimedOut.                       *)
(***************************************************************************)
TimeOut(c) ==
  /\ Pending(c)
  /\ outcome' = [outcome EXCEPT ![c] = "timeout"]
  /\ pc' = [pc EXCEPT ![c] = IF @ = "suspended" THEN "done" ELSE @]
  /\ UNCHANGED <<on, isCancelled>>

\* Mutant: the loop does not look at hasTimedOut.
AgainAnyway(c, resource) ==
  /\ pc[c] = "delayed"
  /\ Attempt(c, resource)
  /\ UNCHANGED <<outcome, isCancelled>>

(***************************************************************************)
(* The sleep after a resume is over: while (!isCancelled && !hasTimedOut). *)
(***************************************************************************)
Again(c, resource) ==
  /\ pc[c] = "delayed"
  /\ IF Pending(c)
     THEN Attempt(c, resource)
     ELSE /\ pc' = [pc EXCEPT ![c] = "done"]
          /\ UNCHANGED on
  /\ UNCHANGED <<outcome, isCancelled>>

ExecTypeOK(Resources) ==
  /\ pc \in [Commands -> LoopStates]
  /\ on \in [Commands -> Resources \cup {None}]
  /\ outcome \in [Commands -> Outcomes]
  /\ isCancelled \in BOOLEAN
=============================================================================
