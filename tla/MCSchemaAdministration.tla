----------------------- MODULE MCSchemaAdministration -----------------------
(***************************************************************************)
(* An instance of SchemaAdministration for TLC.                            *)
(***************************************************************************)
EXTENDS SchemaAdministration, TLC

Symmetry == Permutations(Sessions \ SharedSessions)

=============================================================================
