----------------------------- MODULE RemoteCall -----------------------------
(***************************************************************************)
(* What a caller is promised by RpcClient.executeRemoteCommand(), with     *)
(* nothing of how it is done: a call is pending until its promise settles, *)
(* it settles once, with the result of a handler only if a handler gave    *)
(* that result for this very call, as dismissed only if the broker could   *)
(* not route it, as closed only if the client was disposed of.             *)
(***************************************************************************)

CONSTANTS
  Calls,    \* the calls of executeRemoteCommand()
  Answers   \* what a handler answers: "ok", "error"

VARIABLES
  outcome,     \* the state of each call's promise
  given,       \* the <<call, answer>> a handler has given
  unroutable,  \* the calls whose message the broker has returned
  isDisposed   \* RpcClient.dispose() has been called

vars == <<outcome, given, unroutable, isDisposed>>

Init ==
  /\ outcome = [c \in Calls |-> "idle"]
  /\ given = {}
  /\ unroutable = {}
  /\ isDisposed = FALSE

\* executeRemoteCommand() is called.
Call(c) ==
  /\ outcome[c] = "idle"
  /\ outcome' = [outcome EXCEPT ![c] = IF isDisposed THEN "closed" ELSE "pending"]
  /\ UNCHANGED <<given, unroutable, isDisposed>>

\* The message of a call that has been made reaches a handler, or nobody.
Answered(c) ==
  /\ outcome[c] # "idle"
  /\ \E a \in Answers : given' = given \cup {<<c, a>>}
  /\ UNCHANGED <<outcome, unroutable, isDisposed>>

Returned(c) ==
  /\ outcome[c] # "idle"
  /\ unroutable' = unroutable \cup {c}
  /\ UNCHANGED <<outcome, given, isDisposed>>

\* The ways in which the promise of a call may settle.
Results(c) ==
  {a \in Answers : <<c, a>> \in given}
  \cup {"timeout", "sendError"}
  \cup (IF c \in unroutable THEN {"dismissed"} ELSE {})
  \cup (IF isDisposed THEN {"closed"} ELSE {})

Settle(c) ==
  /\ outcome[c] = "pending"
  /\ \E r \in Results(c) : outcome' = [outcome EXCEPT ![c] = r]
  /\ UNCHANGED <<given, unroutable, isDisposed>>

\* dispose(): some of the pending calls are rejected at once.
Dispose ==
  /\ isDisposed' = TRUE
  /\ \E S \in SUBSET {c \in Calls : outcome[c] = "pending"} :
       outcome' = [c \in Calls |-> IF c \in S THEN "closed" ELSE outcome[c]]
  /\ UNCHANGED <<given, unroutable>>

Next ==
  \/ \E c \in Calls : Call(c) \/ Answered(c) \/ Returned(c) \/ Settle(c)
  \/ Dispose

Safety == Init /\ [][Next]_vars
=============================================================================
