----------------------- MODULE TenantProvisionerProofs -----------------------
(***************************************************************************)
(* Theorems about TenantProvisioner, for every number of operators, every  *)
(* set of names and sessions, and each backend.                            *)
(***************************************************************************)
EXTENDS TenantProvisioner, TLAPS

-----------------------------------------------------------------------------
(* Types *)

\* An operator returns to where it can call again.
LEMMA Returns ==
  ASSUME TypeOK, NEW o \in Operators, Return(o)
  PROVE  /\ at' \in [Operators -> {"idle", "first", "second"}]
         /\ DOMAIN request' = Operators
         /\ at'[o] = "idle" /\ request'[o] = None
         /\ \A q \in Operators \ {o} : at'[q] = at[q] /\ request'[q] = request[q]
BY DEF TypeOK, Return

LEMMA InitType ==
  ASSUME ProvisionerAssumption
  PROVE  Init => TypeOK
BY DEF ProvisionerAssumption, Init, TypeOK, Object, Schema

LEMMA StepType ==
  ASSUME ProvisionerAssumption
  PROVE  TypeOK /\ [Next]_<<provisionerVars, path>> => TypeOK'
<1> USE DEF ProvisionerAssumption
<1> SUFFICES ASSUME TypeOK, [Next]_<<provisionerVars, path>> PROVE TypeOK'
  OBVIOUS
<1>1. CASE UNCHANGED <<provisionerVars, path>>
  BY <1>1 DEF TypeOK, provisionerVars
<1>2. ASSUME NEW o \in Operators, NEW op \in Operations, NEW n \in Tenants,
             Call(o, op, n)
      PROVE  TypeOK'
  BY <1>2 DEF TypeOK, Call, Accepts
<1>3. ASSUME NEW o \in Operators, Ddl(o)
      PROVE  TypeOK'
  <2>1. request[o].name \in Tenants
    BY <1>3 DEF TypeOK, Ddl
  <2>2. Schema(request[o].name) \in Object /\ Database(request[o].name) \in Object
    BY <2>1 DEF Schema, Database, Object
  <2>3. catalog' \subseteq Object
    BY <1>3, <2>2 DEF TypeOK, Ddl
  <2> QED
    BY <1>3, <2>3, Returns DEF TypeOK, Ddl
<1>4. ASSUME NEW o \in Operators, Select(o)
      PROVE  path' \in [Sessions -> Tenants \cup {Admin}]
  BY <1>4 DEF TypeOK, Select
<1>5. ASSUME NEW o \in Operators, Switch(o)
      PROVE  TypeOK'
  BY <1>4, <1>5 DEF TypeOK, Switch, Select
<1>6. ASSUME NEW o \in Operators, SwitchLost(o)
      PROVE  TypeOK'
  BY <1>4, <1>6, Returns DEF TypeOK, SwitchLost, Select
<1>7. ASSUME NEW o \in Operators, Migrate(o)
      PROVE  TypeOK'
  <2>1. request[o].name \in Tenants
    BY <1>7 DEF TypeOK, Migrate
  <2>2. ran' \in [Operators -> {None} \cup [meant : Tenants,
                                            where : Tenants \cup {Admin}]]
    BY <1>7, <2>1 DEF TypeOK, Migrate
  <2> QED
    BY <1>7, <2>2, Returns DEF TypeOK, Migrate
<1>8. ASSUME NEW o \in Operators, Fails(o)
      PROVE  TypeOK'
  BY <1>8, Returns DEF TypeOK, Fails
<1> QED
  BY <1>1, <1>2, <1>3, <1>5, <1>6, <1>7, <1>8 DEF Next, Progress

\* The state keeps its types, and a call under way has a request that passed the
\* checks of the provisioner.
THEOREM TypeCorrect ==
  ASSUME ProvisionerAssumption
  PROVE  Spec => []TypeOK
BY InitType, StepType, PTL DEF Spec

=============================================================================
