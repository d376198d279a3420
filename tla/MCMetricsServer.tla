--------------------------- MODULE MCMetricsServer --------------------------
(***************************************************************************)
(* MetricsServer for TLC.                                                  *)
(***************************************************************************)
EXTENDS MetricsServer, TLC

ServerSymmetry == Permutations(Clients) \cup Permutations(Nonces)

=============================================================================
