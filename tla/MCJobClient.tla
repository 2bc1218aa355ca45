----------------------------- MODULE MCJobClient -----------------------------
(* JobClient on small instances. *)
EXTENDS JobClient

MCCalls == 1 .. 3
=============================================================================
