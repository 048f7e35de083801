------------------------- MODULE MCDatabaseProvider -------------------------
(***************************************************************************)
(* Instances of DatabaseProvider for TLC.  Every tenant has a shard of its *)
(* own, the finest interleaving of evict_expired there is.                 *)
(***************************************************************************)
EXTENDS DatabaseProvider, TLC

OwnShards == {{t} : t \in Tenants}

Symmetry == Permutations(Tenants) \cup Permutations(Tasks)

=============================================================================
