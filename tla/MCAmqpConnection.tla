-------------------------- MODULE MCAmqpConnection --------------------------
(* AmqpConnection on small instances. *)
EXTENDS AmqpConnection

MCCommands == {"assertQueue", "sendToQueue", "acknowledge"}
MCRetryable == {"assertQueue", "sendToQueue"}

AllFaults == FaultKinds
=============================================================================
