----------------------------- MODULE MCTimelock -----------------------------
(***************************************************************************)
(* RouterTimelock for TLC: the safety runs, and the runs that show where   *)
(* the code departs from its comments.                                     *)
(***************************************************************************)
EXTENDS RouterTimelock

=============================================================================
