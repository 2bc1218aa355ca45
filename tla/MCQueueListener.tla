-------------------------- MODULE MCQueueListener --------------------------
(* QueueListener on small instances. *)
EXTENDS QueueListener

MCKinds == {"jobs", "commands", "replies"}
MCPasses == 1 .. 3
=============================================================================
