---------------------------- MODULE HttpRequests ----------------------------
(***************************************************************************)
(* What the two services have in common: they serve HTTP requests.         *)
(***************************************************************************)
EXTENDS Integers

CONSTANTS
    None,          \* an absent Option
    MaxRequests    \* how many requests are made, taken in order

Requests == 1 .. MaxRequests

=============================================================================
