--------------------------- MODULE MCRowSecurity ---------------------------
(***************************************************************************)
(* Instances of RowSecurity for TLC.                                       *)
(***************************************************************************)
EXTENDS RowSecurity, FiniteSets, TLC

CONSTANTS p1, s1  \* a task and the session it has to itself

\* The other tasks have the one connection of a DiscriminatorProvider.
Pools == [p \in Tasks |-> IF p = p1 THEN {s1} ELSE Sessions \ {s1}]

OneConnection == [p \in Tasks |-> Sessions]

Symmetry == Permutations(Tenants) \cup Permutations(Managers)
            \cup Permutations(Tasks \ {p1}) \cup Permutations(Sessions \ {s1})

=============================================================================
