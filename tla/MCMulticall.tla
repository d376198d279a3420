---------------------------- MODULE MCMulticall -----------------------------
(***************************************************************************)
(* RouterMulticall for TLC.                                                *)
(***************************************************************************)
EXTENDS RouterMulticall

\* A required and an optional call, with and without a budget, and one with
\* more arguments than allowed.
SomeCalls == {[required |-> TRUE, budget |-> 2, args |-> 0],
              [required |-> FALSE, budget |-> None, args |-> 1],
              [required |-> FALSE, budget |-> 1, args |-> 2]}

=============================================================================
