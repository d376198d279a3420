------------------------------ MODULE MCAccess ------------------------------
(***************************************************************************)
(* RouterAccess for TLC.                                                   *)
(***************************************************************************)
EXTENDS RouterAccess, TLC

OneOfEach == [roles |-> 2, grants |-> 1]
ThreeRoles == [roles |-> 3, grants |-> 1]
LowerLimits == {[roles |-> 1, grants |-> 2]}

AccessSymmetry == Permutations(Accounts) \cup Permutations(Roles)

=============================================================================
