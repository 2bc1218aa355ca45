---------------------- MODULE MCAmqpConnectionWrapper ----------------------
(* AmqpConnectionWrapper on small instances. *)
EXTENDS AmqpConnectionWrapper

MCCommands == {"assertQueue", "acknowledge"}
MCRetryable == {"assertQueue"}
MCFaults == {"loseConnection", "refuseCommand"}
MCConnectFaults == {"refuseConnection", "refuseChannel"}
=============================================================================
