# axum-tenant in TLA+

This directory holds TLA+ models of axum-tenant, the TLC configurations that
check them on small instances, and proofs, checked by TLAPS, of what must hold
for every instance. `PROJECT.json` is the index: components, runs, the mutant
that shows each property to have teeth, the source lines behind each
definition, findings, hazards and theorems.

Run a check with `tlc -config MCDatabaseProvider_safety.cfg MCDatabaseProvider`,
and a proof with `tlapm DatabaseProviderProofs.tla` (or another of the eight
`...Proofs` modules).

## The system

A request passes through up to three Tower layers and reaches a handler:

    MetricsTenantLayer( TenantLayer( TenantDbLayer( handler )))

| Component | State it keeps | Operations | Interacts with |
|---|---|---|---|
| `TenantId`, `CompositeTenantResolver` (tenant-core) | none | `new`, `resolve` | called by the layer, once a request |
| HTTP resolvers, `HttpTenantConfig` (tenant-axum) | none | seven `resolve`s, `build`, `into_resolver` | read headers, path and query |
| `TenantLayer` / `TenantMiddleware` | its configuration | `from_config`, `with_claims`, `with_skip_paths`, `call` | reads the `JwtClaims` extension, writes the `TenantContext` extension |
| extractors, `TenantRejection` | none | `from_request_parts` | read the `TenantContext` extension |
| `TenantDbLayer` (tenant-sea-orm) | a shared provider | `call` | reads the `TenantId` extension, writes `TenantDb`, calls the provider |
| `DatabasePerTenantProvider` | two concurrent maps: pools by tenant, the admin pool | `connection_for`, `any_connection`, `evict_tenant`, `evict_expired` | the application's mapping, the database |
| `SchemaPerTenantProvider` | two concurrent maps: schema names, connections | `connection_for`, `any_connection` | the mapping, sessions of the database server |
| `TenantMetrics`, `MetricsTenantLayer` | five atomic counters | `call`, `snapshot` | sees the responses of everything inside |
| `TenantProvisioner` | none | `create_` and `drop_` of schemas and databases, `schema_exists`, `run_migration_sql` | sessions of the server, which the schema provider may share |
| `RlsManager` | none | `enable_rls`, `disable_rls`, `set_tenant`, `reset_tenant` | a table, sessions of the server |
| `DiscriminatorProvider`, `TenantFilter` | one connection | a clone; a condition | rows that `RlsManager` secures |
| `TenantConfig`, core `TenantContext` | plain data | setters | nothing in the repository |

What is hard in it, and what makes each part correct:

* **The providers** are shared by every request of a multi-threaded runtime.
  They lock one shard of a map at a time and never across an await, so a call
  is a sequence of steps between which anything may happen to the entry it
  looked up, measured or chose. Correct means: a tenant only ever gets its own
  data, the cache keeps to its bound, what is evicted was due, an eviction is
  not undone, every call returns, whatever fails or is cancelled.
* **Search paths** are a state of database *sessions*, while the provider
  caches *pools*. Correct means that every session a tenant's connection may
  use is on the tenant's schema for as long as it is held.
* **Administration** runs as lists of statements, each on any session of a pool,
  beside the requests. Correct means that a list that stops or interleaves
  leaves neither a hole nor a lock-out, that a migration runs where it is meant
  to, and that the tenants' connections are not disturbed.
* **The layers** communicate through extensions found by their type, in an
  order the application chooses. Correct means that no handler runs without a
  tenant or a connection that should have one, that the sources of a tenant take
  precedence as documented, that errors refuse, and that the connection belongs to
  the tenant in the context.
* **The metrics** are updated and read without a lock and without ordering.
  Correct means that each request ends up under one outcome and that a scraper
  never sees a counter go back.

## The modules

| Module | Models |
|---|---|
| `ConnectionProvider` | what a `TenantConnectionProvider` promises: the abstract specification |
| `DatabaseProvider` | `DatabasePerTenantProvider` |
| `SchemaProvider` | `SchemaPerTenantProvider` |
| `TenantProvisioner` | `TenantProvisioner` |
| `SchemaAdministration` | the last two over the sessions and the catalog of one server: it extends `SchemaProvider` and instantiates `TenantProvisioner` |
| `RowSecurity` | `RlsManager`, `DiscriminatorProvider`, `TenantFilter` |
| `TenantResolution` | `TenantId`, the resolvers, the configuration, the chain: pure operators |
| `TenantMiddleware` | `TenantLayer`, `TenantDbLayer`, extractors and claims, composed over `ConnectionProvider` and `TenantResolution` |
| `TenantApplication` | `TenantMiddleware` with `DatabaseProvider` in place of the abstract provider |
| `TenantMetrics` | `MetricsTenantLayer` and its counters |
| `...Proofs` | the theorems about `DatabaseProvider`, `SchemaProvider`, `TenantProvisioner`, `SchemaAdministration`, `RowSecurity`, `TenantMiddleware` (with `TenantResolution`), `TenantApplication` and `TenantMetrics` |
| `MC...` | the instances for TLC |

Operators whose comment begins with "Mutant:" are not part of any
specification. Each is a plausible bug in the definition that follows it; with
it in that definition's place, TLC finds the property that `PROJECT.json` names
violated.

### DatabaseProvider

`cache` and `default` are the two maps, `sweep` the shards a running
`evict_expired` has left. Each task has a location `pc` in its call, a tenant,
the URL of its connection, the key `evict_if_full` has chosen (`victim`), and
what it last read (`seen`). One action is one access to a map or one await:

    lookup -> Hit -> ok
           -> Expired -> RemoveExpired -> UrlFor -> Connect -> CheckLen
           -> Miss ------------------------^                     |-> Insert -> ok
                                       PickOldest <- full -------|
                                       RemoveOldest -------------^

* A URL is a pair `[db, rev]`: whose database it addresses, and the revision
  of the mapping that gave it. The mapping is the application's; it is assumed
  to answer with the tenant's own database. `Rehome` moves a tenant.
* `Leave` at `url`, `connect` or `default` is a future dropped where it
  awaits; elsewhere the code runs to its next await.
* `DashMap::retain` visits the shards one by one (`SweepShard`); `len()` and the
  scan for the oldest key are one step each. The scan keeps a reference into
  the best entry's shard while it goes on, and entries inserted meanwhile are
  younger, so what a longer scan could add is a key that is gone by the time it
  is removed, which the separate removal allows already.
* `flushed` and `raced` are history variables: the revision the mapping held at
  the last `evict_tenant`, and whether a call carried an older one then. So is
  `overtaken`: whether a call has inserted (`Overtake`) while another had found or
  was about to make a place for its own entry.

### SchemaProvider

`path` gives each session of the server its search path; a connection is the
set of sessions its pool is made of, one for a dedicated connection
(`max_connections(1).min_connections(1)`), all of `SharedSessions` for the
shared one. `Exec` and `Query` run on any session of the pool. `dedicated` is
whether `base_url` was set, and `quotable` the tenants whose schema names
`quote_identifier` accepts; both are chosen at the start and do not change.
`ExecLost` is a statement that ran and whose answer did not arrive; `Reconnect`
is a pool replacing a session, which starts on the default path. Backends
differ only in the statement's text, save SQLite, where every call fails as for
a name that is refused. On MySQL the text is `USE "name"`, which the server
accepts in its `ANSI_QUOTES` mode only; the model is of a server that does.

### TenantProvisioner and SchemaAdministration

An operator's call is checked (`Accepts`), and then runs one statement (`Ddl`) or,
for `run_migration_sql`, two: `Switch` sets the search path of some session of
`admin_conn`, `Migrate` runs on some session. `catalog` is what exists; a schema
of MySQL is a database. A statement may fail, or its answer may be lost when it
has run (`SwitchLost`, and `Ddl` followed by an error looks the same). `ran` is a
history variable.

In `SchemaAdministration` both programs work on the same `path`; `catalog` decides
what the provider can select (`USE` needs the database, `SET search_path` does
not) and what a query can read. A MySQL session whose database was dropped keeps
its name here, and its queries fail until it is created again; the server would
make them fail longer. `ServesTenants` is the refinement of `ConnectionProvider`
again, from the view of those who ask for a tenant: `any_connection` hands out a
session that a migration may have moved, and what is read there is hidden.

### RowSecurity

The rows of a tenant are named by the tenant. A call of `enable_rls` or
`disable_rls` is a list of statements (`EnableStatements`, `DisableStatements`) that
`Exec` runs one by one, `ExecLast` ends with `Ok` and `ExecFails` stops anywhere,
the failing statement having run or not. Each session has two settings,
`localTenant`, which lasts until the end of a transaction, and `sessionTenant`;
`SET LOCAL` outside of a transaction sets neither. `Brackets` are the requests for
which the application opens a transaction on a session of its own, which the
crate does not do and `set_tenant` needs. `Visible` is what the server lets a query
see, `Filter` what the WHERE condition leaves.

`CREATE POLICY IF NOT EXISTS` (rls.rs:70) is no statement of PostgreSQL, which is
the only backend that `check_postgres` lets through: the server refuses it, and
every `enable_rls` that gets there answers `Err` (`Refuse`), with the table enabled
and forced and without a policy. What an application does about that is its own
affair; the model lets it make the policy by hand (`CreatePolicy`, external), so
that what comes after can be looked at. `secured` is the time from the end of an
`enable_rls` that ran up to the policy, with no `disable_rls` beside it, to the next
`disable_rls`: as the answer is always an error, it is not what the call says that
the properties rest on, but what it has done.

### TenantResolution

Strings are members of a set `Raw` with a function `Trim`. A request is given
in the pieces that the resolvers cut it into (labels of the host, pairs of the
query, segments of the path, the flags and claim of a token), for any content of
these pieces. The result of a resolver is a tenant, `Nobody` (`Ok(None)`) or
`Invalid` (`Err(InvalidTenant)`, the one error the resolvers have). A claim that is no string is
a member of `DOMAIN Json`, a JSON value with its text (`ClaimText`).

### TenantMiddleware

Per task: where the request is, its extensions (`context`, `tenantId`, `db`) and
the status of its response; the provider's variables are `ConnectionProvider`'s
and its actions are used as they are. Resolution is synchronous, so it is one
step. `GetStr`, `Lacks` and `IntoLayer` are the parts of `claims.rs`.

`TenantDbLayer` reads a `TenantId` extension, and nothing in the repository inserts
one: `TenantLayer` inserts a `TenantContext`. With `Bridged = FALSE` the model is the
stack as documented, and `middleware_documented` shows that its handlers have no
connection. For the rest of the layer to be reached at all, `Bridged = TRUE` adds a
layer of the application that copies the tenant (`Bridge`, external). No property
asks for it by name: `Connectedness` speaks of requests whose `TenantId` the layer
finds, wherever that comes from, and `EndToEnd` of what is read.

### TenantApplication

The same request path over the state of `DatabaseProvider`: `stage` is the
provider's location, `phase` what `TenantMiddleware` sees of it, and a step of one
that concerns the other is a step of both (`CallProvider`, `ProviderReturns`,
`EndCall`). `QueryDatabase` reads through the pool the task was given and does not
use the abstract `HandlerQueries`, which promises the tenant's data; that the
whole implements `TenantMiddleware`'s specification (`ImplementsMiddleware`) says
that it is the tenant's data.

### TenantMetrics

One action per atomic access, and all accesses are `Relaxed`. `result` and `truth`
record what became of each request, which the middleware does not see. `metrics`
is the latest value of each counter, which is what an increment, an atomic
read-modify-write, acts on. A relaxed load may answer with an older value; all it
owes a thread, or threads that synchronise otherwise, is not to go back on one
counter. So `visible` is the value of each counter that has reached the scraper,
`Propagate` lets an increment reach it, at any time and in no order with those of
other counters, and `Load` answers with `visible`. Nothing relates the counters of
one snapshot: `resolved_total` may exceed `requests_total` in it. Two scrapers that
do not synchronise are each as this one, and their snapshots are not compared.

## The runs

| Run | Shows | Instance |
|---|---|---|
| `database_safety` | `TypeOK`, `OwnDatabase`, `FlushEffective`, `CapacityKept`, `ImplementsProvider` | 2 tasks, 2 tenants, 1 place, TTL 1, 1 tick, 1 move; 1.05 million states |
| `database_capacity` | `CapacityRespected` violated | 2 tasks, 2 tenants, 1 place |
| `schema_dedicated` | `TypeOK`, `Pinned`, `NoForeignSchema`, `SharedUnpinned`, `RefusedSchemas`, `ImplementsUntilReplaced` | URL or none, 2 tasks, 2 tenants, as many sessions as can be held, at most one name refused, one session replaced at any moment |
| `schema_administration` | `AdministrationTypeOK`, `TenantsUndisturbed`, `MigrationUndisturbed`, `ServesTenants` | 1 task and 1 operator over one shared session, 3 backends, URL or none |
| `schema_sequential` | `EachPinned` violated | no URL, pool of 1, 1 task, 2 tenants |
| `provisioner_migration` | `MigrationInSchema` violated | 1 operator, admin pool of 2 |
| `middleware_resolution` | `TypeOK`, `NoTenantNoHandler`, `ClaimsWin`, `DefaultIsLast`, `ErrorsRefused` | 1 task, every pair of places varied, all chains of up to 2 strategies |
| `application_stack` | `EndToEnd`, `Connectedness`, `ImplementsMiddleware`, `RequestAnswered` | 2 tasks, 3 requests, 2 tenants, `max_connections` 0, bridged, fair |
| `middleware_documented` | `DbInjected` violated | 1 task, 1 request, the two layers alone |
| `rls_shared` | `TypeOK`, `Protected`, `NeverHalfEnabled`, `Isolated`, `BracketedReadOwnRows` | 2 managers, 3 requests, one of them bracketed, 3 sessions, 2 tenants |
| `rls_setting` | `ReadsOwnRows` violated | 1 manager, 1 request, 1 session, no transaction |
| `metrics_accounting` | `TypeOK`, `Accounting`, `MissingCounted`, `SnapshotsGrow` | 2 tasks, 3 requests; 1.7 million states |

`RefusedSchemas` holds with a URL and without, the other properties of the schema
provider with one only. `schema_dedicated` shows `Pinned` and the refinement for as
long as no session has been replaced, and `NoForeignSchema` from then on. The properties of
`schema_administration` speak of a provider with a URL; the run also has one
without, whose tenants and migrations do disturb each other.

### The bounds

`MaxClock`, `MaxRevision`, `MaxReconnects` and `MaxRequests` stop what the
program does not. The hazards of the providers need two parties for one
entry: two tasks, or a task and the administration; a second tenant competes
for the place. With a TTL of one tick, one tick lets an entry expire, and be
renewed by one call while another has found it expired or has chosen it to be
evicted. One move of one tenant makes a URL old. The application run has no expiry
and no move, which `database_safety` has, and evictions at every moment; its cache
is told to hold nothing, so that every insertion wants an eviction, of a map that
may be empty, and still one entry is there to be hit. Five sessions are as many as
two tenants' entries, two calls and the shared pool can hold at once, so no call
waits for a session for the lack of one. A migration needs two sessions to go
wrong by itself, and one other party on a single session to be disturbed. Two
managers interleave every pair of lists of statements; two sessions for two
requests let a setting and a query miss each other. Two strategies and two places varied
together show every pair's precedence; every resolver's edge values (blank,
padded, repeated, missing, opaque) are among the variants. Symmetry is used in
runs that check invariants and action properties only.

### Fairness

`ApplicationSpec` gives each task weak fairness on the steps of its own request,
the layers' and the provider's, taken together: the runtime polls a
woken task, the mapping and the database answer, fail or time out (sea-orm's
pools have a connect timeout), and a handler returns. Nothing is assumed of
arrivals, of callers that query or leave, of the clock, or of the environment.
The other specifications state safety only: the progress of the database provider is
covered by `RequestAnswered`, and a call of the schema provider, of the provisioner
or of `RlsManager` is a straight line of steps with no loop and no wait for another
task, so that its end says nothing beyond fairness itself.
No run turns the deadlock check off.

## What is proved

`DatabaseProviderProofs`, from `ConstantsAssumption` alone (the tenants do not
include the admin or no-value marks, the shards cover the tenants, the numbers
are naturals), for every set of tenants and of tasks:

* `Invariance`: `IInv` is inductive. Neither `TypeOK` nor `OwnDatabase` is by
  itself: `OwnDatabase` needs to know that a task between `url` and `insert`
  serves a tenant and not `Admin`, and that a chosen victim is a tenant. `IInv`
  adds these per-location facts.
* `TypeCorrect`, `Isolation`: `[]TypeOK` and `[]OwnDatabase`, from it.
* `Implements`: `Spec => ImplementsProvider`. Each action is a step of the
  abstract provider or leaves its variables alone; the one that matters is
  `Query`, where what is read over the URL is the task's tenant by `IInv`.
* `Flush`: `[]FlushEffective`, by an invariant that says of each call under way
  that it carries a URL at least as new as the last eviction, unless `raced`.
* `Capacity`: `[]CapacityKept`, for any number of concurrent calls and any capacity,
  zero included: until a call overtakes another, the cache keeps to
  `max_connections`. `database_capacity` shows that overtaking exceeds it. The
  invariant is that at `insert` and `remove` there is a place left or one about to
  be freed.
* `Eviction`: what `evict_if_full` removes is an oldest entry (`EvictsOldest`, stated
  beside the proof), under `NoRenewal`: no call inserts for a key that another has
  chosen and is about to remove. `DueInv` says of each such key that its entry is
  oldest if it is still there; other calls, evictions, moves and the clock do not
  change that. A renewal does, see below.
* `OneAtATime`: if all tasks are one task, neither condition can fail, and capacity
  and order of eviction hold as they stand.

`SchemaProviderProofs`, from `ConstantsAssumption`. What is conditional in the
properties is so here: with a URL (`dedicated`), until a session is replaced.

* `Invariance`: `IInv` is what each call knows at each await (`CallInv`), and, with
  a URL, `Separation` and `SharedUnpinned`. `Pinned` and `NoForeignSchema` are not
  inductive: that a statement on a dedicated connection leaves the other tenants
  alone needs `Exclusive`, that a session belongs to one tenant at most and is not
  a shared one, and `AdminShared`, that `any_connection` is on shared ones.
  `Separation` does not speak of the paths of shared sessions, so that it is also
  kept where a provisioner moves them. Without a URL it does not hold, and
  `schema_sequential` shows what follows.
* `TypeCorrect`, `Refused`, `Pinning`, `Isolation`, `SharedPath`: the invariants of
  `schema_dedicated`. `Implements`: the abstract provider's steps, as there.

`TenantProvisionerProofs`, from `ProvisionerAssumption`, a hypothesis of each
theorem, which `SchemaAdministration` assumes of its instance:

* `TypeCorrect`: `[]TypeOK`, which is inductive.
  Nothing is proved of where migrations run over the admin connection in general:
  `provisioner_migration` shows that they run elsewhere.

`SchemaAdministrationProofs`, from `ConstantsAssumption` and
`AdministrationAssumption` (`ProvisionerAssumption` of the instance), for a
provisioner that has the shared connection of the provider or some of its
sessions (`SharedPool`):

* `Coexistence`: `AdminInv` is inductive: `TypeOK` of the provisioner, `CallInv`, and
  with a URL `Separation`. It is made of the two programs' own invariants, and
  `Steps` says that each step is one of theirs, whose lemma is then cited. What is
  new is what either does to the other (`AdministrationKeeps`, `TenantsLeave`).
  `IInv` of the provider is not kept: a migration moves shared sessions, so
  `SharedUnpinned` fails, and to names that need not be quotable, so
  `RefusedSchemas` does.
* `TypesCorrect`: `[]AdministrationTypeOK`, from it.
* `TenantsServed`: `[]TenantsUndisturbed`, for any number of operators, sessions and
  tenants, and without any condition on what they do.
* `MigrationsServed`: `[]MigrationUndisturbed`, over a shared connection of one session
  and under `NoDisturbance`, for any number of tenants' calls. What it says is about
  the tenants, the other party on that session: operators disturb each other,
  tenants do not disturb them. Nothing in the code makes an application share one
  session only; with more, a migration goes wrong without anybody's help.
  `MigrationsOfOne`: for one operator, without `NoDisturbance`.
* `Implementation`: `ServesTenants`.

`RowSecurityProofs`, from `SecurityAssumption` and `BracketsAssumption` (the pools of
requests that open transactions are their own):

* `Invariance`: `IInv` has the lists that calls may have left (`Lists`), what an
  `enable_rls` that no `disable_rls` overlaps has secured so far (`Protecting`),
  that a table half enabled is still to be forced by someone (`Completing`), and
  that the variable is set on sessions of open transactions only, to the tenant of
  the request that opened it (`Bracketing`). `Protected` speaks of calls that have
  ended, so it needs to know what those that have not have done.
* `TypeCorrect`, `Protection`, `Enabling`, `Isolation`, `OwnRows`: the invariants of
  `rls_shared`, for any number of managers, requests and sessions. `OwnRows` is for
  tables whose policy the application has made.

`TenantMiddlewareProofs`, from `ResolutionAssumption` and `MiddlewareAssumption`
(what trimming does, what requests and configurations contain, and that the
marks for no value are no values). Its lemmas are about resolution: `ResolveNames`,
every strategy answers a `TenantId`, nobody or an error; `ChainEnds`, a chain of
any length answers what its first strategy that is not silent answers, or the
default.

* `Invariance`: `IInv` says where the tenant of a request past the layer comes from
  (`Provenance`), that its extensions are set in order and agree (`Extensions`), and
  that its call of the provider is for it (`Calls`). `EndToEnd` alone is not
  inductive, as it does not say for whom a pending call is.
* `TypeCorrect`, `Required`, `ClaimsFirst`, `DefaultLast`, `Refusal`, `Reads` and
  `Connection`: the invariants of `middleware_resolution` and `application_stack`,
  bridged or not. `Connection` has no hypothesis on the application: it is about
  requests in which the layer finds a `TenantId`.

`TenantApplicationProofs`, from these assumptions and `ApplicationAssumption`,
composes the two proofs above:

* `ProviderInside`: `ApplicationSpec` implies the specification of the database
  provider, so that `Isolation` of `DatabaseProviderProofs`, instantiated, holds in
  the application. `SameProvider` says, action by action, that the instance of
  the proofs is the instance of the model.
* `Composition`: `ApplicationSpec => ImplementsMiddleware`. The step that matters is
  `QueryDatabase`, which reads the URL of a pool and must read the tenant; it does
  by `Isolation` and by `Linked`, that `phase` is what `stage` looks like outside.
* `ReadsDatabase` and `HasConnection` are the theorems of `TenantMiddlewareProofs`, carried
  over: end to end, over the cache itself, for every number of requests, tenants
  and strategies, and every capacity and TTL.

`TenantMetricsProofs`, from `MetricsAssumption` (finitely many tasks):

* `Invariance`: `IInv` adds what is known of the loads (`Growing`): no counter has
  reached the scraper beyond what it is, and a snapshot under way has loaded no more
  than has reached it and no less than the snapshot before.
* `TypeCorrect`, `Accounted`, `MissingIn` and `Growth`: all properties of
  `metrics_accounting`.

Every safety property that a passing run checks is a theorem, under the conditions
named above where one is needed. Only model-checked is the liveness property
`RequestAnswered` (liveness under fairness, and `ENABLED` in it, are out of this
prover's reach). What a recursive definition computes for all inputs would be out
of reach as well; there is none in these modules.

## Where the code and its docs disagree

Five runs expect a violation; each checks a sentence of a doc against the code,
and `PROJECT.json` quotes it under "findings":

* `database_capacity`: two calls that miss together exceed `max_connections`
  (database.rs:96), and the excess outlives them.
* `schema_sequential`: without a URL, tenants that call one after the other, over
  a pool of one session, end up on each other's schema (schema.rs:104-110).
  Nothing concurrent is needed, though the comment there blames larger pools.
* `provisioner_migration`: `run_migration_sql` sets the search path on one session
  of the pool and may run the migration on another (provisioning.rs:242, :250).
* `rls_setting`: `set_tenant` uses `SET LOCAL` outside of any transaction, where it
  has no effect (rls.rs:124). The failure is closed: the policy then shows no rows
  (`Isolated` holds), unless the table is not protected. `BracketedReadOwnRows` says
  what an application has to add. The trace gets that far only by an action of the
  application: `enable_rls` is refused at `CREATE POLICY IF NOT EXISTS` (rls.rs:70),
  the first time as every time, and leaves the table forced and without a policy,
  where its doc says that it creates one and is idempotent (rls.rs:50, :56).
* `middleware_documented`: `TenantDbLayer` waits for a `TenantId` extension, and
  `TenantLayer` inserts a `TenantContext` (tenant-sea-orm/src/middleware.rs:114, against
  :4-7, :15-18 and README.md:224). In the documented stack no handler ever gets a
  connection, and the `TenantDb` it is promised is not there.

The cache removes by name what it has found expired (database.rs:120) or chosen as the
oldest (:104), in a step of its own. With two calls that overlap, the second may
renew the entry in between, and the first then removes the fresh connection: what
is evicted is not the oldest entry (against database.rs:65 and :98), and what is
removed has not expired (against :118). Nothing is wrong in the answers, which is what
`OwnDatabase` and `ImplementsProvider` say of these very interleavings; the price is a
reconnection. No run is kept for it. That a renewal is the one way to get there is
the theorem `Eviction`.

Properties that hold under a condition only say which: `Pinned` holds with a URL and
until a pool replaces its session, after which `NoForeignSchema` remains;
`BracketedReadOwnRows` holds of tables that have a policy and requests that have a
transaction. A snapshot of the metrics, which metrics.rs:73 calls "point-in-time", is of
five moments, one per counter, and in no order.

Other divergences, which show in the code without a model: a layer made from a
configuration with `enabled = false` resolves all the same (middleware.rs:124,
against :120); `resolved_by` names the composite and not the resolver that found
the tenant (middleware.rs:216, against extractor.rs:27); claims are tried before
the configured order of strategies (middleware.rs:199, against config.rs:47);
`skipped_total` is never incremented (metrics.rs:52); `missing_total` counts
every 400 (metrics.rs:158); a blank `default_tenant` is dropped without a word
(config.rs:240); `SubdomainTenantResolver` asks for three labels, its doc for two
(resolver.rs:89, :106).

## Not modelled, and the plan

Left for later, in this order:

1. `TenantApplication` over `SchemaProvider` in place of `DatabaseProvider`, and a
   clock in `application_stack`, whose two requests meet evictions and moves of
   tenants but no expiry.
2. The contract of Tower's `poll_ready`: `call` clones the inner service and calls the
   clone, which was never polled ready. It concerns services of limited
   readiness, which axum's routers are not.
3. Names of more than 63 characters, which the server truncates, and a second
   `tenant_column` for `enable_rls`. Both need data that the models leave out.

Left out for good: `TenantConfig` and the core `TenantContext`, plain data that no
code in the repository reads; `AsyncTenantResolver`, of which there is the blanket
implementation alone and no caller; `compat.rs` and the re-exports of the
`lib.rs` files; the examples; logging, latencies and the wording of errors.
