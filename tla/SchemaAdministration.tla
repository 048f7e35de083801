------------------------ MODULE SchemaAdministration ------------------------
(***************************************************************************)
(* SchemaProvider beside TenantProvisioner: tenants are served while their *)
(* schemas are created, dropped and migrated.  Both work on the sessions   *)
(* of one server and its search paths; what exists decides what a session  *)
(* can select and read.  Where the application gives both the same pool,   *)
(* AdminSessions is SharedSessions.                                        *)
(***************************************************************************)
EXTENDS SchemaProvider

CONSTANTS
  Operators, Backends, Valid, Existing, AdminSessions  \* as in TenantProvisioner

VARIABLES backend, catalog, request, at, ran           \* as in TenantProvisioner

P == INSTANCE TenantProvisioner

ASSUME AdministrationAssumption == P!ProvisionerAssumption

provisionerVars == <<backend, catalog, request, at, ran>>
providerVars    == <<mapVars, pc, callVars, envVars>>

-----------------------------------------------------------------------------
(* The statements of the provider, on what the provisioner has left *)

\* schema_sql refuses SQLite, and the server refuses what it cannot select.
SelectSchema(p) ==
  /\ Exec(p)
  /\ P!Selectable(schema[p])

SelectSchemaLost(p) ==
  /\ ExecLost(p)
  /\ P!Selectable(schema[p])

\* A query fails, and reads nothing, on a schema that does not exist.
QueryPopulated(p) ==
  /\ Query(p)
  /\ P!Populated(seen'[p])

-----------------------------------------------------------------------------
(* Specification *)

AdministrationInit == Init /\ P!Init

Serve(p) ==
  /\ \/ SchemaHit(p)
     \/ SchemaMiss(p)
     \/ SchemaFor(p)
     \/ Remember(p)
     \/ Hit(p)
     \/ Expired(p)
     \/ RemoveExpired(p)
     \/ Miss(p)
     \/ UseShared(p)
     \/ Connect(p)
     \/ SelectSchema(p)
     \/ SelectSchemaLost(p)
     \/ Fail(p)
     \/ Insert(p)
     \/ CloneShared(p)
  /\ UNCHANGED provisionerVars

Administer(o) == P!Progress(o) /\ UNCHANGED providerVars

AdministrationNext ==
  \/ \E p \in Tasks : Serve(p)
  \/ /\ \/ \E p \in Tasks :
             \/ \E t \in Tenants : ConnectionFor(p, t)
             \/ AnyConnection(p)
             \/ QueryPopulated(p)
             \/ Leave(p)
        \/ Tick
        \/ \E s \in Sessions : Reconnect(s)
     /\ UNCHANGED provisionerVars
  \/ \E o \in Operators : Administer(o)
  \/ /\ \E o \in Operators, op \in P!Operations, n \in Tenants :
             P!Call(o, op, n)
     /\ UNCHANGED providerVars

administrationVars == <<provisionerVars, providerVars, path>>

AdministrationSpec == AdministrationInit /\ [][AdministrationNext]_administrationVars

-----------------------------------------------------------------------------
(* Properties *)

\* Types of the state of both, and what a call of either knows: moving the paths
\* of each other's sessions takes them nowhere that is no schema.
AdministrationTypeOK == TypeOK /\ P!TypeOK

\* With a URL, migrations do not disturb the tenants, even where the admin
\* connection is the shared one: what the provider promises of their sessions
\* is so at every moment of a migration, and after one that was left halfway.
TenantsUndisturbed == Pinned /\ NoForeignSchema

\* Nor do tenants disturb a migration that has the only session of the shared
\* connection: it runs in its schema, and if the pool has replaced the session
\* in between, on the default path and in no other tenant's schema.
MigrationUndisturbed ==
  dedicated => \A o \in Operators : ran[o] # None =>
    \/ ran[o].where = ran[o].meant
    \/ ran[o].where = Admin /\ reconnects > 0

\* To those who ask for a tenant the provider is a TenantConnectionProvider still,
\* with a URL and until a session is replaced: schemas come and go, and what is
\* read is the tenant's.  What any_connection reads is hidden: its session may be
\* one that a migration has moved.
Tenancy == INSTANCE ConnectionProvider WITH
  phase <- [p \in Tasks |-> IF pc[p] \in {"idle", "ok", "err"} THEN pc[p]
                                                              ELSE "pending"],
  seen  <- [p \in Tasks |-> IF tenant[p] = Admin THEN None ELSE seen[p]]
ServesTenants ==
  /\ Tenancy!Init
  /\ [][dedicated /\ reconnects' = 0
          => [Tenancy!Next]_Tenancy!abstractVars]_administrationVars

=============================================================================
