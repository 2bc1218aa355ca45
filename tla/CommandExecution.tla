-------------------------- MODULE CommandExecution --------------------------
(***************************************************************************)
(* What a caller is promised by AmqpChannelExecutor.execute() and by       *)
(* AmqpConnectionExecutor.execute(), with nothing of how it is done: a     *)
(* command is pending from the call until its promise settles, it settles  *)
(* once, a retryable command is never rejected because the resource went   *)
(* away, and cancelling the executor settles every pending command at      *)
(* once and refuses the later ones.                                        *)
(***************************************************************************)

CONSTANTS
  Commands,   \* the calls of execute()
  Retryable   \* those made with retryOnError: true

VARIABLES
  outcome,     \* the state of each call's promise
  isCancelled  \* cancelAll() has been called

vars == <<outcome, isCancelled>>

(***************************************************************************)
(* "lost": rejected with ChannelBecameUnavailableError (or its connection  *)
(* counterpart); "closed": rejected with the cancellation error, or with   *)
(* ConnectionClosingError; "timeout": with CommandTimedOutError; "error":  *)
(* with the command's own error.                                           *)
(***************************************************************************)
Outcomes == {"idle", "pending", "ok", "error", "lost", "closed", "timeout"}

Results(c) == {"ok", "error", "closed", "timeout"}
              \cup (IF c \in Retryable THEN {} ELSE {"lost"})

Init ==
  /\ outcome = [c \in Commands |-> "idle"]
  /\ isCancelled = FALSE

\* execute() is called.
Submit(c) ==
  /\ outcome[c] = "idle"
  /\ outcome' = [outcome EXCEPT ![c] = IF isCancelled THEN "closed" ELSE "pending"]
  /\ UNCHANGED isCancelled

\* The promise of one call settles.
Settle(c) ==
  /\ outcome[c] = "pending"
  /\ \E r \in Results(c) : outcome' = [outcome EXCEPT ![c] = r]
  /\ UNCHANGED isCancelled

\* cancelAll(): nothing stays pending.
Cancel ==
  /\ isCancelled' = TRUE
  /\ outcome' = [c \in Commands |->
                   IF outcome[c] = "pending" THEN "closed" ELSE outcome[c]]

Next == Cancel \/ \E c \in Commands : Submit(c) \/ Settle(c)

Safety == Init /\ [][Next]_vars
=============================================================================
