--------------------------- MODULE SchemaProvider ---------------------------
(***************************************************************************)
(* SchemaPerTenantProvider (tenant-sea-orm/src/schema.rs): all tenants in  *)
(* one database, each in a schema of its own that `SET search_path`        *)
(* selects.                                                                *)
(*                                                                         *)
(* What the statement changes is a session of the database server, and a   *)
(* connection is a pool: a set of sessions, any of which may run the next  *)
(* statement.  The provider either opens a pool of one session for each    *)
(* tenant (it was given a URL), or falls back on the shared connection.  A *)
(* schema is named by the tenant it belongs to; Admin stands for the       *)
(* search path a session starts with.                                      *)
(***************************************************************************)
EXTENDS Naturals, Functions

CONSTANTS
  Tenants, Admin, Tasks, None,  \* as in ConnectionProvider
  Urls,            \* whether `base_url` may be set, and whether it may be empty
  Sessions,        \* the sessions the database server has or may open
  SharedSessions,  \* those of `shared_connection`
  Quotables,       \* the sets of tenants whose schema names may be those that
                   \* quote_identifier accepts
  Ttl,             \* `ttl`, in ticks
  MaxClock,        \* bound: ticks of the clock
  MaxReconnects    \* bound: sessions that a pool replaces

ASSUME ConstantsAssumption ==
  /\ Admin \notin Tenants
  /\ None \notin Tenants \cup {Admin}
  /\ Urls \subseteq BOOLEAN
  /\ SharedSessions \subseteq Sessions
  /\ SharedSessions # {}
  /\ Quotables \subseteq SUBSET Tenants
  /\ {Ttl, MaxClock, MaxReconnects} \subseteq Nat

VARIABLES
  dedicated,    \* whether `base_url` is set, which nothing changes
  quotable,     \* the tenants whose schema names quote_identifier accepts
  schemaCache,  \* `schema_cache`
  connections,  \* `connections`
  path,         \* the search path of each session
  pc,           \* where each task is in its call
  tenant,       \* the tenant each task's call is for
  schema,       \* the schema that the call has been told
  conn,         \* the sessions of the connection the call has
  seen,         \* whose data the task last read
  now,          \* the clock behind Instant::now()
  reconnects    \* sessions replaced so far

vars == <<dedicated, quotable, schemaCache, connections, path, pc, tenant, schema,
          conn, seen, now, reconnects>>

mapVars  == <<dedicated, quotable, schemaCache, connections>>
callVars == <<tenant, schema, conn, seen>>
envVars  == <<now, reconnects>>

Principals == Tenants \cup {Admin}
Locations  == {"idle", "schema", "mapping", "remember", "lookup", "expired",
               "create", "exec", "insert", "any", "ok", "err"}

Cached   == DOMAIN connections
Fresh(t) == now - connections[t].created < Ttl

\* The sessions some pool is made of, now or before its last holder drops it.
InUse == UNION ({SharedSessions} \cup {connections[t].conn : t \in Cached}
                \cup {conn[p] : p \in Tasks})

Goto(p, from, to) ==
  /\ pc[p] = from
  /\ pc' = [pc EXCEPT ![p] = to]

\* f with x mapped to y, whether or not it was mapped before.
With(f, x, y) == [z \in DOMAIN f \cup {x} |-> IF z = x THEN y ELSE f[z]]

Init ==
  /\ dedicated \in Urls
  /\ quotable \in Quotables
  /\ schemaCache = [t \in {} |-> None]
  /\ connections = [t \in {} |-> None]
  /\ path        = [s \in Sessions |-> Admin]
  /\ pc          = [p \in Tasks |-> "idle"]
  /\ tenant      = [p \in Tasks |-> None]
  /\ schema      = [p \in Tasks |-> None]
  /\ conn        = [p \in Tasks |-> {}]
  /\ seen        = [p \in Tasks |-> None]
  /\ now         = 0
  /\ reconnects  = 0

-----------------------------------------------------------------------------
(* connection_for: which schema *)

ConnectionFor(p, t) ==
  /\ Goto(p, "idle", "schema")
  /\ tenant' = [tenant EXCEPT ![p] = t]
  /\ UNCHANGED <<mapVars, path, schema, conn, seen, envVars>>

SchemaHit(p) ==
  /\ tenant[p] \in DOMAIN schemaCache
  /\ Goto(p, "schema", "lookup")
  /\ schema' = [schema EXCEPT ![p] = schemaCache[tenant[p]]]
  /\ UNCHANGED <<mapVars, path, tenant, conn, seen, envVars>>

SchemaMiss(p) ==
  /\ tenant[p] \notin DOMAIN schemaCache
  /\ Goto(p, "schema", "mapping")
  /\ UNCHANGED <<mapVars, path, callVars, envVars>>

SchemaFor(p) ==
  /\ Goto(p, "mapping", "remember")
  /\ schema' = [schema EXCEPT ![p] = tenant[p]]
  /\ UNCHANGED <<mapVars, path, tenant, conn, seen, envVars>>

Remember(p) ==
  /\ Goto(p, "remember", "lookup")
  /\ schemaCache' = With(schemaCache, tenant[p], schema[p])
  /\ UNCHANGED <<dedicated, quotable, connections, path, callVars, envVars>>

-----------------------------------------------------------------------------
(* get_or_create_connection *)

Hit(p) ==
  /\ tenant[p] \in Cached
  /\ Fresh(tenant[p])
  /\ Goto(p, "lookup", "ok")
  /\ conn' = [conn EXCEPT ![p] = connections[tenant[p]].conn]
  /\ UNCHANGED <<mapVars, path, tenant, schema, seen, envVars>>

Expired(p) ==
  /\ tenant[p] \in Cached
  /\ ~Fresh(tenant[p])
  /\ Goto(p, "lookup", "expired")
  /\ UNCHANGED <<mapVars, path, callVars, envVars>>

RemoveExpired(p) ==
  /\ Goto(p, "expired", "create")
  /\ connections' = Restrict(connections, Cached \ {tenant[p]})
  /\ UNCHANGED <<dedicated, quotable, schemaCache, path, callVars, envVars>>

Miss(p) ==
  /\ tenant[p] \notin Cached
  /\ Goto(p, "lookup", "create")
  /\ UNCHANGED <<mapVars, path, callVars, envVars>>

\* Mutant: the shared connection is used whether or not there is a URL.
UseSharedAlways(p) ==
  /\ Goto(p, "create", "exec")
  /\ conn' = [conn EXCEPT ![p] = SharedSessions]
  /\ UNCHANGED <<mapVars, path, tenant, schema, seen, envVars>>

\* The fallback: the tenant's connection is the shared one.
UseShared(p) ==
  /\ ~dedicated
  /\ Goto(p, "create", "exec")
  /\ conn' = [conn EXCEPT ![p] = SharedSessions]
  /\ UNCHANGED <<mapVars, path, tenant, schema, seen, envVars>>

\* Mutant: the session that a dropped entry leaves behind is pooled and reused,
\* while a caller may still hold it.
ConnectPooled(p) ==
  /\ dedicated
  /\ Goto(p, "create", "exec")
  /\ \E s \in Sessions \ SharedSessions :
       /\ \A t \in Cached : s \notin connections[t].conn
       /\ conn' = [conn EXCEPT ![p] = {s}]
  /\ UNCHANGED <<mapVars, path, tenant, schema, seen, envVars>>

\* A pool of its own, of exactly one new session.
Connect(p) ==
  /\ dedicated
  /\ Goto(p, "create", "exec")
  /\ \E s \in Sessions \ InUse :
       /\ conn' = [conn EXCEPT ![p] = {s}]
       /\ path' = [path EXCEPT ![s] = Admin]
  /\ UNCHANGED <<mapVars, tenant, schema, seen, envVars>>

\* Mutant: a schema name that cannot be quoted is skipped over.
ExecLenient(p) ==
  /\ Goto(p, "exec", "insert")
  /\ \E s \in conn[p] :
       path' = IF schema[p] \in quotable
                 THEN [path EXCEPT ![s] = schema[p]] ELSE path
  /\ UNCHANGED <<mapVars, callVars, envVars>>

\* SET search_path runs, on one of the sessions of the pool.
Exec(p) ==
  /\ schema[p] \in quotable
  /\ Goto(p, "exec", "insert")
  /\ \E s \in conn[p] : path' = [path EXCEPT ![s] = schema[p]]
  /\ UNCHANGED <<mapVars, callVars, envVars>>

\* It runs and its answer is lost.
ExecLost(p) ==
  /\ schema[p] \in quotable
  /\ Goto(p, "exec", "err")
  /\ \E s \in conn[p] : path' = [path EXCEPT ![s] = schema[p]]
  /\ UNCHANGED <<mapVars, callVars, envVars>>

\* The mapping, the connection, the quoting of the name or the statement fails.
Fail(p) ==
  /\ \E from \in {"mapping", "exec"} \cup (IF dedicated THEN {"create"} ELSE {}) :
       Goto(p, from, "err")
  /\ UNCHANGED <<mapVars, path, callVars, envVars>>

\* Mutant: the entry is dated by its expiry instead of its creation.
InsertExpiry(p) ==
  /\ Goto(p, "insert", "ok")
  /\ connections' = With(connections, tenant[p],
                         [conn |-> conn[p], created |-> now + Ttl])
  /\ UNCHANGED <<dedicated, quotable, schemaCache, path, callVars, envVars>>

Insert(p) ==
  /\ Goto(p, "insert", "ok")
  /\ connections' = With(connections, tenant[p], [conn |-> conn[p], created |-> now])
  /\ UNCHANGED <<dedicated, quotable, schemaCache, path, callVars, envVars>>

-----------------------------------------------------------------------------
(* any_connection *)

AnyConnection(p) ==
  /\ Goto(p, "idle", "any")
  /\ tenant' = [tenant EXCEPT ![p] = Admin]
  /\ UNCHANGED <<mapVars, path, schema, conn, seen, envVars>>

\* Mutant: any connection will do, so one that the tenants have cached does.
CloneCached(p) ==
  /\ Goto(p, "any", "ok")
  /\ \E c \in {connections[t].conn : t \in Cached} \cup {SharedSessions} :
       conn' = [conn EXCEPT ![p] = c]
  /\ UNCHANGED <<mapVars, path, tenant, schema, seen, envVars>>

CloneShared(p) ==
  /\ Goto(p, "any", "ok")
  /\ conn' = [conn EXCEPT ![p] = SharedSessions]
  /\ UNCHANGED <<mapVars, path, tenant, schema, seen, envVars>>

-----------------------------------------------------------------------------
(* The caller *)

\* A statement of the handler runs on some session of its connection.
Query(p) ==
  /\ pc[p] = "ok"
  /\ \E s \in conn[p] : seen' = [seen EXCEPT ![p] = path[s]]
  /\ UNCHANGED <<mapVars, path, pc, tenant, schema, conn, envVars>>

\* The request ends; or its future is dropped where it awaits.
Leave(p) ==
  /\ \/ pc[p] \in {"ok", "err", "mapping", "exec"}
     \/ pc[p] = "create" /\ dedicated
  /\ pc'     = [pc EXCEPT ![p] = "idle"]
  /\ tenant' = [tenant EXCEPT ![p] = None]
  /\ schema' = [schema EXCEPT ![p] = None]
  /\ conn'   = [conn EXCEPT ![p] = {}]
  /\ seen'   = [seen EXCEPT ![p] = None]
  /\ UNCHANGED <<mapVars, path, envVars>>

-----------------------------------------------------------------------------
(* Environment *)

Tick ==
  /\ now < MaxClock
  /\ now' = now + 1
  /\ UNCHANGED <<mapVars, path, pc, callVars, reconnects>>

\* A pool replaces a session that has died or grown old: the new session
\* starts with the server's default search path.
Reconnect(s) ==
  /\ s \in InUse
  /\ reconnects < MaxReconnects
  /\ reconnects' = reconnects + 1
  /\ path' = [path EXCEPT ![s] = Admin]
  /\ UNCHANGED <<mapVars, pc, callVars, now>>

-----------------------------------------------------------------------------
(* Specification *)

Progress(p) ==
  \/ SchemaHit(p)
  \/ SchemaMiss(p)
  \/ SchemaFor(p)
  \/ Remember(p)
  \/ Hit(p)
  \/ Expired(p)
  \/ RemoveExpired(p)
  \/ Miss(p)
  \/ UseShared(p)
  \/ Connect(p)
  \/ Exec(p)
  \/ ExecLost(p)
  \/ Fail(p)
  \/ Insert(p)
  \/ CloneShared(p)

Next ==
  \/ \E p \in Tasks :
       \/ \E t \in Tenants : ConnectionFor(p, t)
       \/ AnyConnection(p)
       \/ Progress(p)
       \/ Query(p)
       \/ Leave(p)
  \/ Tick
  \/ \E s \in Sessions : Reconnect(s)

Spec == Init /\ [][Next]_vars

-----------------------------------------------------------------------------
(* Properties *)

\* Types of the state.
TypeOK ==
  /\ dedicated \in Urls
  /\ quotable \in Quotables
  /\ DOMAIN schemaCache \subseteq Tenants
  /\ \A t \in DOMAIN schemaCache : schemaCache[t] \in Tenants
  /\ Cached \subseteq Tenants
  /\ \A t \in Cached : /\ connections[t].conn \subseteq Sessions
                       /\ connections[t].created \in 0 .. now
  /\ path \in [Sessions -> Principals]
  /\ pc \in [Tasks -> Locations]
  /\ tenant \in [Tasks -> Principals \cup {None}]
  /\ schema \in [Tasks -> Tenants \cup {None}]
  /\ conn \in [Tasks -> SUBSET Sessions]
  /\ seen \in [Tasks -> Principals \cup {None}]
  /\ now \in Nat
  /\ reconnects \in Nat

\* "Each tenant receives a dedicated connection (pool of size 1) with the search
\* path pinned to its schema": every session of a tenant's cached connection, and
\* of the one a caller for the tenant has been given, is on that tenant's schema.
EachPinned ==
  /\ \A t \in Cached : \A s \in connections[t].conn : path[s] = t
  /\ \A p \in Tasks : pc[p] = "ok" /\ tenant[p] \in Tenants =>
       \A s \in conn[p] : path[s] = tenant[p]

\* With a URL that is so over every interleaving, for as long as a session is
\* held and no pool has replaced one.
Pinned == dedicated /\ reconnects = 0 => EachPinned

\* With a URL, even where a pool replaces its session, and with it loses the
\* search path: no session of a tenant's connection is ever on another tenant's
\* schema, from the moment it is connected to the moment it is let go.
NoForeignSchema == dedicated =>
  /\ \A t \in Cached : \A s \in connections[t].conn : path[s] \in {t, Admin}
  /\ \A p \in Tasks : tenant[p] \in Tenants =>
       \A s \in conn[p] : path[s] \in {tenant[p], Admin}

\* "No schema pinning": with a URL the shared connection stays on the default
\* path, whatever the tenants' calls do.
SharedUnpinned == dedicated => \A s \in SharedSessions : path[s] = Admin

\* A schema whose name is refused is never selected on any session, and no call
\* leaves a connection behind for its tenant, on whichever path it failed.
RefusedSchemas ==
  /\ \A s \in Sessions : path[s] \in quotable \cup {Admin}
  /\ Cached \subseteq quotable

\* With a URL the provider is a TenantConnectionProvider, for as long as no pool
\* has replaced a session: what is read over an answer is the data of the tenant
\* asked for.
Provider == INSTANCE ConnectionProvider WITH
  phase <- [p \in Tasks |-> IF pc[p] \in {"idle", "ok", "err"} THEN pc[p]
                                                              ELSE "pending"]
ImplementsUntilReplaced ==
  /\ Provider!Init
  /\ [][dedicated /\ reconnects' = 0 => [Provider!Next]_Provider!abstractVars]_vars

=============================================================================
