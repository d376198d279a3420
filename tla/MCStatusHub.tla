----------------------------- MODULE MCStatusHub ----------------------------
(***************************************************************************)
(* StatusHub for TLC.                                                      *)
(***************************************************************************)
EXTENDS StatusHub
=============================================================================
