------------------------------ MODULE Accounts ------------------------------
(***************************************************************************)
(* What the registry, execution and quote contracts have in common.        *)
(***************************************************************************)
EXTENDS Vectors

CONSTANTS
    None,       \* an absent Option or storage key
    Addresses   \* accounts that call the contracts

ASSUME NoneIsNoAddress == None \notin Addresses \cup Nat

=============================================================================
