------------------------------- MODULE MCRpc -------------------------------
(* Rpc on small instances. *)
EXTENDS Rpc

MCCalls == {"first", "second", "broken"}
MCMalformed == {"broken"}
MCAnswers == {"ok"}
MCCopies == 1 .. 2
MCMaxLosses == <<1, 0>>
MCRuns == 1 .. 2
=============================================================================
