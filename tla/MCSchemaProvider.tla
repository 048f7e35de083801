-------------------------- MODULE MCSchemaProvider --------------------------
(***************************************************************************)
(* Instances of SchemaProvider for TLC.                                    *)
(***************************************************************************)
EXTENDS SchemaProvider, FiniteSets, TLC

NoneRefused == {Tenants}

OneRefused == {Q \in SUBSET Tenants : Cardinality(Tenants \ Q) <= 1}

Symmetry == Permutations(Tenants) \cup Permutations(Tasks)
            \cup Permutations(Sessions \ SharedSessions)

=============================================================================
