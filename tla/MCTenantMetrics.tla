-------------------------- MODULE MCTenantMetrics ---------------------------
(***************************************************************************)
(* Instances of TenantMetrics for TLC.                                     *)
(***************************************************************************)
EXTENDS TenantMetrics, TLC

Symmetry == Permutations(Tasks)

=============================================================================
