----------------------------- MODULE MCJobServer -----------------------------
(* JobServer on small instances. *)
EXTENDS JobServer

MCJobs == {"email", "broken"}
MCOneJob == {"email"}
MCMalformed == {"broken"}
MCNone == {}
MCMessages == 1 .. 3
MCFourMessages == 1 .. 4
MCManyMessages == 1 .. 8
MCRuns == 1 .. 2
MCThreeRuns == 1 .. 3
AllBehaviours == {"succeed", "throw", "retry", "reset", "discard", "timeout"}
MCBounded == {"succeed", "throw", "retry"}
=============================================================================
