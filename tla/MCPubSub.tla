------------------------------ MODULE MCPubSub ------------------------------
(* PubSub on small instances. *)
EXTENDS PubSub

MCSubscribers == 1 .. 3
MCUnsubscribers == 4 .. 5
=============================================================================
