------------------------- MODULE MCOperationalMetrics -------------------------
(* The ledger with the metrics that are projected from it. *)
EXTENDS OperationalMetrics, TLC

MCSymmetry == Permutations(Requests) \cup Permutations(Writers)
=============================================================================
