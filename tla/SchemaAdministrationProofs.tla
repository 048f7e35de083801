--------------------- MODULE SchemaAdministrationProofs ---------------------
(***************************************************************************)
(* Theorems about SchemaAdministration: the provider beside a provisioner  *)
(* on the sessions of its shared connection, for every set of tenants,     *)
(* tasks, operators and sessions.  What the provider does by itself is     *)
(* taken from SchemaProviderProofs, what the provisioner does from         *)
(* TenantProvisionerProofs; here is what either does to the other.         *)
(***************************************************************************)
EXTENDS SchemaAdministration, SchemaProviderProofs

PP == INSTANCE TenantProvisionerProofs

\* The provisioner has the shared connection, or part of its sessions.
SharedPool == AdminSessions \subseteq SharedSessions

\* The provisioner's calls keep their types, tenants' calls what they know, and
\* with a URL the sessions of tenants are apart from all others.  The provider's
\* own invariant is not kept: migrations move the paths of shared sessions, to
\* schemas whose names need not be quotable.
AdminInv ==
  /\ PP!TypeOK
  /\ CallInv
  /\ dedicated => Separation

-----------------------------------------------------------------------------
(* The provisioner in the composition *)

\* What its proofs assume.
LEMMA ProvisionerAssumed == PP!ProvisionerAssumption
BY AdministrationAssumption DEF P!ProvisionerAssumption, PP!ProvisionerAssumption

\* PP, the proofs, is an instance of the same provisioner as P.
LEMMA SameProvisioner ==
  /\ P!Init <=> PP!Init
  /\ \A o \in Operators :
       /\ P!Progress(o) <=> PP!Progress(o)
       /\ P!Select(o) <=> PP!Select(o)
       /\ \A op \in P!Operations, n \in Tenants : P!Call(o, op, n) <=> PP!Call(o, op, n)
  /\ P!Operations = PP!Operations
<1>1. P!Init <=> PP!Init
  BY DEF P!Init, PP!Init, P!Schema, PP!Schema
<1>2. ASSUME NEW o \in Operators
      PROVE  P!Select(o) <=> PP!Select(o)
  BY DEF P!Select, PP!Select, P!Selectable, PP!Selectable, P!Schema, PP!Schema
<1>3. ASSUME NEW o \in Operators
      PROVE  P!Progress(o) <=> PP!Progress(o)
  <2>1. P!Ddl(o) <=> PP!Ddl(o)
    BY DEF P!Ddl, PP!Ddl, P!Schema, PP!Schema, P!Database, PP!Database,
           P!Return, PP!Return
  <2>2. P!Switch(o) <=> PP!Switch(o)
    BY <1>2 DEF P!Switch, PP!Switch
  <2>3. P!SwitchLost(o) <=> PP!SwitchLost(o)
    BY <1>2 DEF P!SwitchLost, PP!SwitchLost, P!Return, PP!Return
  <2>4. P!Migrate(o) <=> PP!Migrate(o)
    BY DEF P!Migrate, PP!Migrate, P!Populated, PP!Populated, P!Schema, PP!Schema,
           P!Return, PP!Return
  <2>5. P!Fails(o) <=> PP!Fails(o)
    BY DEF P!Fails, PP!Fails, P!Return, PP!Return
  <2> QED
    BY <2>1, <2>2, <2>3, <2>4, <2>5 DEF P!Progress, PP!Progress
<1>4. ASSUME NEW o \in Operators, NEW op \in P!Operations, NEW n \in Tenants
      PROVE  P!Call(o, op, n) <=> PP!Call(o, op, n)
  BY DEF P!Call, PP!Call, P!Accepts, PP!Accepts
<1>5. P!Operations = PP!Operations
  BY DEF P!Operations, PP!Operations
<1> QED
  BY <1>1, <1>2, <1>3, <1>4, <1>5

-----------------------------------------------------------------------------
(* Steps *)

\* A step of the composition is one of the provider or one of the provisioner, and
\* leaves what is the other's alone.
LEMMA Steps ==
  ASSUME [AdministrationNext]_administrationVars
  PROVE  \/ [Next]_vars /\ UNCHANGED provisionerVars
         \/ [PP!Next]_<<PP!provisionerVars, path>> /\ UNCHANGED providerVars
<1> USE DEF vars, providerVars, mapVars, callVars, envVars
<1>1. CASE UNCHANGED administrationVars
  BY <1>1 DEF administrationVars
<1>2. ASSUME NEW p \in Tasks, Serve(p)
      PROVE  Next /\ UNCHANGED provisionerVars
  BY <1>2 DEF Serve, SelectSchema, SelectSchemaLost, Next, Progress
<1>3. ASSUME NEW p \in Tasks, QueryPopulated(p)
      PROVE  Next
  BY <1>3 DEF QueryPopulated, Next
<1>4. ASSUME NEW o \in Operators, Administer(o)
      PROVE  PP!Next /\ UNCHANGED providerVars
  BY <1>4, SameProvisioner DEF Administer, PP!Next
<1>5. ASSUME NEW o \in Operators, NEW op \in P!Operations, NEW n \in Tenants,
             P!Call(o, op, n)
      PROVE  PP!Next
  BY <1>5, SameProvisioner DEF PP!Next
<1> QED
  BY <1>1, <1>2, <1>3, <1>4, <1>5 DEF AdministrationNext, Next

\* The provider moves search paths, to schemas of tenants and back.
LEMMA ProviderKeepsTypes ==
  ASSUME PP!TypeOK, CallInv', UNCHANGED provisionerVars
  PROVE  PP!TypeOK'
BY DEF PP!TypeOK, CallInv, TypeOK, Principals, provisionerVars

\* The provisioner moves none but shared sessions, which no tenant has.
LEMMA AdministrationMoves ==
  ASSUME SharedPool, CallInv, PP!TypeOK,
         [PP!Next]_<<PP!provisionerVars, path>>, UNCHANGED providerVars
  PROVE  \A s \in Sessions \ SharedSessions : path'[s] = path[s]
BY DEF SharedPool, CallInv, TypeOK, PP!Next, PP!Progress, PP!Call, PP!Ddl, PP!Switch,
       PP!SwitchLost, PP!Select, PP!Migrate, PP!Fails

LEMMA AdministrationKeeps ==
  ASSUME SharedPool, AdminInv, PP!TypeOK',
         [PP!Next]_<<PP!provisionerVars, path>>, UNCHANGED providerVars
  PROVE  AdminInv'
<1>1. UNCHANGED <<dedicated, quotable, schemaCache, connections, pc, tenant, schema,
                  conn, seen, now, reconnects>>
  BY DEF providerVars, mapVars, callVars, envVars
<1>2. CallInv'
  <2>1. path' \in [Sessions -> Principals]
    BY DEF PP!TypeOK, Principals
  <2>2. TypeOK'
    BY <1>1, <2>1 DEF AdminInv, CallInv, TypeOK, Cached
  <2> QED
    BY <1>1, <2>2 DEF AdminInv, CallInv, CallState
<1>3. ASSUME dedicated
      PROVE  Separation'
  <2>1. Separation /\ CallInv /\ PP!TypeOK
    BY <1>3 DEF AdminInv
  <2>2. \A s \in Sessions : \A t \in Tenants : Holds(s, t) => path'[s] = path[s]
    BY <2>1, AdministrationMoves DEF Separation, Exclusive
  <2>3. \A s \in Sessions : \A t \in Tenants : Holds(s, t)' <=> Holds(s, t)
    BY <1>1 DEF Holds, Cached
  <2>4. Exclusive' /\ OwnPath'
    BY <2>1, <2>2, <2>3 DEF Separation, Exclusive, OwnPath
  <2>5. Selected'
    <3> SUFFICES ASSUME reconnects = 0 PROVE Selected'
      BY <1>1 DEF Selected
    <3>1. ASSUME NEW t \in Cached, NEW s \in connections[t].conn
          PROVE  path'[s] = t
      <4>1. t \in Tenants /\ s \in Sessions /\ Holds(s, t) /\ path[s] = t
        BY <2>1 DEF CallInv, TypeOK, Holds, Separation, Selected
      <4> QED
        BY <2>2, <4>1
    <3>2. ASSUME NEW p \in Tasks, pc[p] \in {"insert", "ok"}, tenant[p] \in Tenants,
                 NEW s \in conn[p]
          PROVE  path'[s] = tenant[p]
      <4>1. s \in Sessions /\ Holds(s, tenant[p]) /\ path[s] = tenant[p]
        BY <2>1, <3>2 DEF CallInv, TypeOK, Holds, Separation, Selected
      <4> QED
        BY <2>2, <3>2, <4>1
    <3> QED
      BY <1>1, <3>1, <3>2 DEF Selected, Cached
  <2>6. AdminShared' /\ Single'
    BY <1>1, <2>1 DEF Separation, AdminShared, Single
  <2> QED
    BY <2>4, <2>5, <2>6 DEF Separation
<1> QED
  BY <1>1, <1>2, <1>3 DEF AdminInv

LEMMA StepAdmin == SharedPool /\ AdminInv /\ [AdministrationNext]_administrationVars
                     => AdminInv'
<1> SUFFICES ASSUME SharedPool, AdminInv, [AdministrationNext]_administrationVars
             PROVE  AdminInv'
  OBVIOUS
<1>1. CASE [Next]_vars /\ UNCHANGED provisionerVars
  <2>1. CallInv'
    BY <1>1, StepCall DEF AdminInv
  <2>2. PP!TypeOK'
    BY <1>1, <2>1, ProviderKeepsTypes DEF AdminInv
  <2>3. dedicated' => Separation'
    BY <1>1, StepDedicated, StepSeparation DEF AdminInv
  <2> QED
    BY <2>1, <2>2, <2>3 DEF AdminInv
<1>2. CASE [PP!Next]_<<PP!provisionerVars, path>> /\ UNCHANGED providerVars
  <2>1. PP!TypeOK'
    BY <1>2, ProvisionerAssumed, PP!StepType DEF AdminInv
  <2> QED
    BY <1>2, <2>1, AdministrationKeeps
<1> QED
  BY <1>1, <1>2, Steps

LEMMA InitAdmin == AdministrationInit => AdminInv
<1> SUFFICES ASSUME AdministrationInit PROVE AdminInv
  OBVIOUS
<1>1. CallInv /\ (dedicated => Separation)
  BY InitIInv DEF AdministrationInit, IInv
<1>2. PP!TypeOK
  BY SameProvisioner, ProvisionerAssumed, PP!InitType DEF AdministrationInit
<1> QED
  BY <1>1, <1>2 DEF AdminInv

\* The inductive invariant of the two together.
THEOREM Coexistence ==
  ASSUME SharedPool
  PROVE  AdministrationSpec => []AdminInv
BY InitAdmin, StepAdmin, PTL DEF AdministrationSpec

\* Both keep their types, on whichever of each other's sessions they work.
THEOREM TypesCorrect ==
  ASSUME SharedPool
  PROVE  AdministrationSpec => []AdministrationTypeOK
<1>1. PP!TypeOK <=> P!TypeOK
  BY DEF PP!TypeOK, P!TypeOK, PP!Object, P!Object, PP!Operations, P!Operations
<1>2. AdminInv => AdministrationTypeOK
  BY <1>1 DEF AdminInv, CallInv, AdministrationTypeOK
<1> QED
  BY <1>2, Coexistence, PTL

-----------------------------------------------------------------------------
(* The tenants *)

\* With a URL the tenants' sessions are where they should be, whatever is created,
\* dropped or migrated over the shared connection, by any number of operators and
\* however it ends: on the tenant's schema until a session is replaced, and never
\* on the schema of another.
THEOREM TenantsServed ==
  ASSUME SharedPool
  PROVE  AdministrationSpec => []TenantsUndisturbed
<1>1. AdminInv => TenantsUndisturbed
  BY PinnedSessions, OwnSessions DEF AdminInv, TenantsUndisturbed
<1> QED
  BY <1>1, Coexistence, PTL

-----------------------------------------------------------------------------
(* The migrations *)

\* A call selects its schema while a migration of another waits for its own.
Disturbs(o) ==
  /\ PP!Select(o)
  /\ \E q \in Operators : at[q] = "second" /\ request[q].name # request[o].name

\* No operator selects a schema between the two statements of another's migration.
NoDisturbance == [][\A o \in Operators : ~Disturbs(o)]_administrationVars

\* Wherever a migration that has selected its schema is going to run, that schema
\* is selected, or a session has been replaced and nothing is.
Ready ==
  dedicated => \A o \in Operators : at[o] = "second" =>
    \A s \in AdminSessions : \/ path[s] = request[o].name
                             \/ path[s] = Admin /\ reconnects > 0

\* Tenants leave the shared sessions where they are, pools put them back.
LEMMA TenantsLeave ==
  ASSUME SharedPool, AdminInv, Ready, MigrationUndisturbed,
         [Next]_vars, UNCHANGED provisionerVars
  PROVE  Ready' /\ MigrationUndisturbed'
<1> SUFFICES ASSUME dedicated PROVE Ready' /\ MigrationUndisturbed'
  BY StepDedicated DEF Ready, MigrationUndisturbed
<1>1. /\ \A s \in AdminSessions : \/ path'[s] = path[s]
                                  \/ path'[s] = Admin /\ reconnects' > 0
      /\ reconnects > 0 => reconnects' > 0
  BY SharedStep DEF SharedPool, AdminInv
<1>2. Ready'
  BY <1>1 DEF Ready, provisionerVars
<1>3. MigrationUndisturbed'
  BY <1>1 DEF MigrationUndisturbed, provisionerVars
<1> QED
  BY <1>2, <1>3

LEMMA OperatorStep ==
  ASSUME SharedPool, AdminInv, Ready, MigrationUndisturbed,
         PP!Next, UNCHANGED providerVars, \A o \in Operators : ~Disturbs(o),
         \A s, u \in AdminSessions : s = u
  PROVE  Ready' /\ MigrationUndisturbed'
<1> USE DEF AdminInv
<1>1. UNCHANGED <<dedicated, reconnects>>
  BY DEF providerVars, mapVars, envVars
<1>2. ASSUME NEW o \in Operators, NEW op \in PP!Operations, NEW n \in Tenants,
             PP!Call(o, op, n)
      PROVE  Ready' /\ MigrationUndisturbed'
  BY <1>1, <1>2 DEF PP!TypeOK, Ready, MigrationUndisturbed, PP!Call
<1>3. ASSUME NEW o \in Operators, PP!Ddl(o) \/ PP!Fails(o)
      PROVE  Ready' /\ MigrationUndisturbed'
  BY <1>1, <1>3, ProvisionerAssumed, PP!Returns
  DEF Ready, MigrationUndisturbed, PP!Ddl, PP!Fails
<1>4. ASSUME NEW o \in Operators, PP!Switch(o) \/ PP!SwitchLost(o)
      PROVE  Ready' /\ MigrationUndisturbed'
  <2>1. PP!Select(o)
    BY <1>4 DEF PP!Switch, PP!SwitchLost
  <2>2. \A s \in AdminSessions : path'[s] = request[o].name
    BY <2>1, ProvisionerAssumed DEF PP!ProvisionerAssumption, PP!TypeOK, PP!Select
  <2>3. ASSUME NEW q \in Operators, at'[q] = "second"
        PROVE  request'[q] = request[q] /\ request[q].name = request[o].name
    <3>1. CASE q # o
      <4>1. request'[q] = request[q] /\ at[q] = "second"
        BY <1>4, <2>3, <3>1, ProvisionerAssumed, PP!Returns
        DEF PP!TypeOK, PP!Switch, PP!SwitchLost
      <4> QED
        BY <2>1, <4>1 DEF Disturbs
    <3>2. CASE q = o
      BY <1>4, <2>3, <3>2, ProvisionerAssumed, PP!Returns
      DEF PP!Switch, PP!SwitchLost
    <3> QED
      BY <3>1, <3>2
  <2>4. ran' = ran
    BY <2>1 DEF PP!Select
  <2> QED
    BY <1>1, <2>2, <2>3, <2>4 DEF Ready, MigrationUndisturbed
<1>5. ASSUME NEW o \in Operators, PP!Migrate(o)
      PROVE  Ready' /\ MigrationUndisturbed'
  <2>1. PICK s \in AdminSessions :
          ran' = [ran EXCEPT ![o] = [meant |-> request[o].name, where |-> path[s]]]
    BY <1>5 DEF PP!Migrate
  <2>2. dedicated => \/ path[s] = request[o].name
                     \/ path[s] = Admin /\ reconnects > 0
    BY <1>5 DEF Ready, PP!Migrate
  <2>3. MigrationUndisturbed'
    BY <1>1, <2>1, <2>2 DEF PP!TypeOK, MigrationUndisturbed
  <2>4. Ready'
    BY <1>1, <1>5, ProvisionerAssumed, PP!Returns DEF Ready, PP!Migrate
  <2> QED
    BY <2>3, <2>4
<1> QED
  BY <1>2, <1>3, <1>4, <1>5 DEF PP!Next, PP!Progress

\* With a URL, tenants do not disturb the migrations over the one session of the
\* shared connection, however many call: a migration runs in its schema, or after a
\* session was replaced on the default path, as long as no other operator comes in
\* between.
THEOREM MigrationsServed ==
  ASSUME SharedPool, \A s, u \in AdminSessions : s = u
  PROVE  AdministrationSpec /\ NoDisturbance => []MigrationUndisturbed
<1>1. AdministrationInit => Ready /\ MigrationUndisturbed
  BY DEF AdministrationInit, P!Init, Ready, MigrationUndisturbed
<1>2. /\ AdminInv /\ Ready /\ MigrationUndisturbed
      /\ [AdministrationNext]_administrationVars
      /\ [\A o \in Operators : ~Disturbs(o)]_administrationVars
      => Ready' /\ MigrationUndisturbed'
  <2> SUFFICES ASSUME AdminInv, Ready, MigrationUndisturbed,
                      [AdministrationNext]_administrationVars,
                      [\A o \in Operators : ~Disturbs(o)]_administrationVars
               PROVE  Ready' /\ MigrationUndisturbed'
    OBVIOUS
  <2>1. CASE [Next]_vars /\ UNCHANGED provisionerVars
    BY <2>1, TenantsLeave
  <2>2. CASE UNCHANGED administrationVars
    BY <2>2 DEF administrationVars, provisionerVars, providerVars, mapVars, envVars,
                Ready, MigrationUndisturbed
  <2>3. CASE /\ PP!Next /\ UNCHANGED providerVars
             /\ \A o \in Operators : ~Disturbs(o)
    BY <2>3, OperatorStep
  <2>4. CASE UNCHANGED <<PP!provisionerVars, path>> /\ UNCHANGED providerVars
    BY <2>2, <2>4 DEF administrationVars, provisionerVars, PP!provisionerVars
  <2> QED
    BY <2>1, <2>2, <2>3, <2>4, Steps
<1> QED
  BY <1>1, <1>2, Coexistence, PTL DEF AdministrationSpec, NoDisturbance

\* So it is for one operator.
THEOREM MigrationsOfOne ==
  ASSUME SharedPool, \A s, u \in AdminSessions : s = u, \A o, q \in Operators : o = q
  PROVE  AdministrationSpec => []MigrationUndisturbed
<1>1. [AdministrationNext]_administrationVars =>
        [\A o \in Operators : ~Disturbs(o)]_administrationVars
  BY DEF Disturbs, PP!Select
<1> QED
  BY <1>1, MigrationsServed, PTL DEF AdministrationSpec, NoDisturbance

-----------------------------------------------------------------------------
(* The abstract provider *)

\* Every step of a task is a step of the abstract provider, or none.
LEMMA TaskServes ==
  ASSUME CallInv, Separation, reconnects' = 0, NEW p \in Tasks,
         \/ \E t \in Tenants : ConnectionFor(p, t)
         \/ AnyConnection(p)
         \/ Progress(p)
         \/ Query(p)
         \/ Leave(p)
  PROVE  Tenancy!Next \/ UNCHANGED Tenancy!abstractVars
<1> USE DEF Goto, mapVars, callVars, envVars
<1>t. /\ pc \in [Tasks -> Locations]
      /\ tenant \in [Tasks -> Principals \cup {None}]
      /\ seen \in [Tasks -> Principals \cup {None}]
      /\ \A q \in Tasks : pc[q] # "ok" => seen[q] = None
  BY DEF CallInv, TypeOK, CallState
<1>1. ASSUME NEW t \in Principals, tenant' = [tenant EXCEPT ![p] = t],
             UNCHANGED seen, pc[p] = "idle", NEW a \in {"schema", "any"},
             pc' = [pc EXCEPT ![p] = a]
      PROVE  Tenancy!Call(p, t)
  <2>1. seen[p] = None
    BY <1>1, <1>t
  <2> QED
    BY <1>1, <1>t, <2>1 DEF Tenancy!Call
<1>2. ASSUME NEW t \in Tenants, ConnectionFor(p, t)
      PROVE  Tenancy!Call(p, t)
  BY <1>1, <1>2 DEF ConnectionFor, Principals
<1>3. ASSUME AnyConnection(p)
      PROVE  Tenancy!Call(p, Admin)
  BY <1>1, <1>3 DEF AnyConnection, Principals
<1>4. ASSUME Hit(p) \/ Fail(p) \/ Insert(p) \/ CloneShared(p) \/ ExecLost(p)
      PROVE  Tenancy!Answer(p)
  BY <1>4, <1>t DEF Hit, Fail, Insert, CloneShared, ExecLost, Tenancy!Answer
<1>5. ASSUME \/ SchemaHit(p) \/ SchemaMiss(p) \/ SchemaFor(p) \/ Remember(p)
             \/ Expired(p) \/ RemoveExpired(p) \/ Miss(p) \/ UseShared(p)
             \/ Connect(p) \/ Exec(p)
      PROVE  UNCHANGED Tenancy!abstractVars
  BY <1>5, <1>t DEF SchemaHit, SchemaMiss, SchemaFor, Remember, Expired,
                    RemoveExpired, Miss, UseShared, Connect, Exec,
                    Tenancy!abstractVars
<1>6. ASSUME Query(p), tenant[p] = Admin
      PROVE  UNCHANGED Tenancy!abstractVars
  BY <1>6, <1>t DEF Query, Tenancy!abstractVars
<1>7. ASSUME Query(p), tenant[p] # Admin
      PROVE  Tenancy!Query(p)
  <2>1. pc[p] = "ok" /\ reconnects = 0 /\ tenant[p] \in Tenants
    BY <1>7 DEF Query, CallInv, CallState, Principals
  <2>2. \A s \in conn[p] : path[s] = tenant[p]
    BY <2>1 DEF Separation, Selected
  <2>3. seen' = [seen EXCEPT ![p] = tenant[p]]
    BY <1>7, <2>2 DEF Query
  <2> QED
    BY <1>7, <1>t, <2>1, <2>3 DEF Query, Tenancy!Query
<1>8. ASSUME Leave(p)
      PROVE  Tenancy!Leave(p)
  BY <1>8, <1>t, ConstantsAssumption DEF Leave, Tenancy!Leave
<1> QED
  BY <1>2, <1>3, <1>4, <1>5, <1>6, <1>7, <1>8
     DEF Progress, Tenancy!Next, Tenancy!Principals

\* With a URL the provider beside a provisioner, on the same sessions, still does
\* for those who ask for a tenant what a TenantConnectionProvider promises, until a
\* session is replaced.
THEOREM Implementation ==
  ASSUME SharedPool
  PROVE  AdministrationSpec => ServesTenants
<1>1. AdministrationInit => Tenancy!Init
  BY ConstantsAssumption DEF AdministrationInit, Init, Tenancy!Init
<1>2. AdminInv /\ [AdministrationNext]_administrationVars =>
        (dedicated /\ reconnects' = 0 => [Tenancy!Next]_Tenancy!abstractVars)
  <2> SUFFICES ASSUME AdminInv, [AdministrationNext]_administrationVars,
                      dedicated, reconnects' = 0
               PROVE  Tenancy!Next \/ UNCHANGED Tenancy!abstractVars
    OBVIOUS
  <2>1. CASE Next
    BY <2>1, TaskServes
    DEF AdminInv, Next, Tick, Reconnect, callVars, Tenancy!abstractVars
  <2>2. CASE UNCHANGED vars \/ UNCHANGED providerVars
    BY <2>2 DEF vars, providerVars, callVars, Tenancy!abstractVars
  <2> QED
    BY <2>1, <2>2, Steps
<1>3. AdminInv /\ [AdministrationNext]_administrationVars =>
        [dedicated /\ reconnects' = 0
           => [Tenancy!Next]_Tenancy!abstractVars]_administrationVars
  BY <1>2
<1> QED
  BY <1>1, <1>3, Coexistence, PTL DEF AdministrationSpec, ServesTenants

=============================================================================
