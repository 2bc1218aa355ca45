---------------------------- MODULE MCRetryQueue ----------------------------
(* RetryQueue on small instances. *)
EXTENDS RetryQueue, TLC

\* The jobs differ in nothing.
Symmetry == Permutations(Jobs)

\* MIN_SAFE_INTEGER and MAX_SAFE_INTEGER stand for no bound.
MinSafe == -1000
MaxSafe == 1000

MCCalculators ==
  {[kind |-> "constant", timeout |-> 2],
   [kind |-> "predefined", timeouts |-> <<1, 3>>],
   [kind |-> "linear", base |-> <<2, 1>>, min |-> 2, max |-> 3],
   [kind |-> "linear", base |-> <<3, 2>>, min |-> 2, max |-> MaxSafe],
   [kind |-> "exponential", base |-> <<3, 2>>, multiplier |-> 1, min |-> MinSafe,
    max |-> MaxSafe],
   [kind |-> "exponential", base |-> <<4, 1>>, multiplier |-> 1, min |-> MinSafe,
    max |-> MaxSafe],
   [kind |-> "exponential", base |-> <<2, 1>>, multiplier |-> 1, min |-> 2, max |-> 3]}
=============================================================================
