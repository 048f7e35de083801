------------------------- MODULE TenantProvisioner -------------------------
(***************************************************************************)
(* TenantProvisioner (tenant-sea-orm/src/provisioning.rs): creates, drops  *)
(* and migrates the schemas and databases of tenants, over an admin        *)
(* connection.                                                             *)
(*                                                                         *)
(* A call checks the name and the backend, and then runs one statement, or *)
(* two to migrate: the first selects the schema on some session of the     *)
(* admin connection, the second is the migration, on some session too.     *)
(* Nothing resets what the first has selected.  Names are those of the     *)
(* tenants they are for.                                                   *)
(***************************************************************************)
CONSTANTS
  Tenants, Admin, None,  \* as in ConnectionProvider
  Operators,      \* who calls the provisioner
  Backends,       \* what the database server may be
  Valid,          \* the names validate_identifier accepts
  Existing,       \* the names of the schemas that there are at the start
  Sessions,       \* the sessions of the database server
  AdminSessions   \* those of `admin_conn`

\* What the theorems assume, and SchemaAdministration of its instance.
ProvisionerAssumption ==
  /\ Admin \notin Tenants
  /\ None \notin Tenants \cup {Admin}
  /\ Backends \subseteq {"postgres", "mysql", "sqlite"}
  /\ Valid \subseteq Tenants
  /\ Existing \subseteq Tenants
  /\ AdminSessions \subseteq Sessions

VARIABLES
  backend,  \* the backend of `admin_conn`, which nothing changes
  catalog,  \* the schemas and databases that exist
  path,     \* the search path of each session
  request,  \* the call each operator is in, or None
  at,       \* the statement it has to run next, "first" or "second"
  ran       \* history: each operator's last migration, where meant and where run

provisionerVars == <<backend, catalog, request, at, ran>>

Operations == {"create_schema", "drop_schema", "create_database",
               "drop_database", "schema_exists", "run_migration_sql"}

Object == [kind : {"schema", "database"}, name : Tenants]

\* "MySQL schemas = databases".
Schema(n)   == [kind |-> IF backend = "mysql" THEN "database" ELSE "schema",
                name |-> n]
Database(n) == [kind |-> "database", name |-> n]

\* SET search_path takes any name; USE, that of a database there is.
Selectable(n) ==
  \/ backend = "postgres"
  \/ /\ backend = "mysql"
     /\ Schema(n) \in catalog

\* Whether the objects of a search path are there to be read or migrated.
Populated(n) == n = Admin \/ Schema(n) \in catalog

Init ==
  /\ backend \in Backends
  /\ catalog = {Schema(n) : n \in Existing}
  /\ path    = [s \in Sessions |-> Admin]
  /\ request = [o \in Operators |-> None]
  /\ at      = [o \in Operators |-> "idle"]
  /\ ran     = [o \in Operators |-> None]

-----------------------------------------------------------------------------
(* A call, up to its first statement *)

\* validate_identifier, and SQLite, which has nothing to provision: else the
\* call returns an error at once.
Accepts(n) == backend # "sqlite" /\ n \in Valid

Call(o, op, n) ==
  /\ at[o] = "idle"
  /\ Accepts(n)
  /\ at' = [at EXCEPT ![o] = "first"]
  /\ request' = [request EXCEPT ![o] = [op |-> op, name |-> n]]
  /\ UNCHANGED <<backend, catalog, path, ran>>

\* Mutant: the call leaves its request behind.
ReturnKeeping(o) ==
  /\ at' = [at EXCEPT ![o] = "idle"]
  /\ UNCHANGED request

\* The call of o is over.
Return(o) ==
  /\ at' = [at EXCEPT ![o] = "idle"]
  /\ request' = [request EXCEPT ![o] = None]

-----------------------------------------------------------------------------
(* Statements.  Each may be the last of its call even if more should follow: *)
(* its answer is lost, or the future dropped, when it has run.               *)

\* CREATE SCHEMA, CREATE DATABASE (with IF NOT EXISTS on MySQL alone), DROP
\* SCHEMA and DROP DATABASE IF EXISTS, and the query of schema_exists.
Ddl(o) ==
  LET r == request[o] IN
  /\ at[o] = "first"
  /\ \/ r.op = "create_schema" /\ catalog' = catalog \cup {Schema(r.name)}
     \/ r.op = "drop_schema"   /\ catalog' = catalog \ {Schema(r.name)}
     \/ /\ r.op = "create_database"
        /\ backend = "postgres" => Database(r.name) \notin catalog
        /\ catalog' = catalog \cup {Database(r.name)}
     \/ r.op = "drop_database" /\ catalog' = catalog \ {Database(r.name)}
     \/ r.op = "schema_exists" /\ UNCHANGED catalog
  /\ Return(o)
  /\ UNCHANGED <<backend, path, ran>>

\* The search path of one session of the admin connection is set.
Select(o) ==
  /\ at[o] = "first"
  /\ request[o].op = "run_migration_sql"
  /\ Selectable(request[o].name)
  /\ \E s \in AdminSessions : path' = [path EXCEPT ![s] = request[o].name]
  /\ UNCHANGED <<backend, catalog, ran>>

Switch(o) ==
  /\ Select(o)
  /\ at' = [at EXCEPT ![o] = "second"]
  /\ UNCHANGED request

SwitchLost(o) == Select(o) /\ Return(o)

\* The migration, in whatever schema the session it runs on has selected.
Migrate(o) ==
  /\ at[o] = "second"
  /\ \E s \in AdminSessions :
       /\ Populated(path[s])
       /\ ran' = [ran EXCEPT ![o] = [meant |-> request[o].name, where |-> path[s]]]
  /\ Return(o)
  /\ UNCHANGED <<backend, catalog, path>>

\* A statement fails, or the future is dropped before it has run.
Fails(o) ==
  /\ at[o] # "idle"
  /\ Return(o)
  /\ UNCHANGED <<backend, catalog, path, ran>>

-----------------------------------------------------------------------------
(* Specification *)

Progress(o) ==
  \/ Ddl(o)
  \/ Switch(o)
  \/ SwitchLost(o)
  \/ Migrate(o)
  \/ Fails(o)

Next ==
  \E o \in Operators :
    \/ \E op \in Operations, n \in Tenants : Call(o, op, n)
    \/ Progress(o)

Spec == Init /\ [][Next]_<<provisionerVars, path>>

-----------------------------------------------------------------------------
(* Properties *)

\* Types of the state, and what a call knows of its request.
TypeOK ==
  /\ backend \in Backends
  /\ catalog \subseteq Object
  /\ path \in [Sessions -> Tenants \cup {Admin}]
  /\ at \in [Operators -> {"idle", "first", "second"}]
  /\ DOMAIN request = Operators
  /\ \A o \in Operators :
       /\ at[o] = "idle" => request[o] = None
       /\ at[o] # "idle" => request[o] \in [op : Operations, name : Valid]
       /\ at[o] = "second" => request[o].op = "run_migration_sql"
  /\ ran \in [Operators -> {None} \cup [meant : Tenants, where : Tenants \cup {Admin}]]

\* "Switches to the given schema, runs the SQL, then returns": a migration runs
\* in the schema it is meant for.
MigrationInSchema == \A o \in Operators : ran[o] # None => ran[o].where = ran[o].meant

=============================================================================
