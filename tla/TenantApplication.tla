-------------------------- MODULE TenantApplication --------------------------
(***************************************************************************)
(* A whole application: TenantLayer around TenantDbLayer around handlers,  *)
(* over the DatabasePerTenantProvider itself in place of the abstract      *)
(* provider of TenantMiddleware, beside whoever evicts and moves tenants.  *)
(*                                                                         *)
(* A step of the request path that calls the provider is a step of both.   *)
(* `phase` is what TenantMiddleware sees of the provider's `stage`.        *)
(***************************************************************************)
EXTENDS TenantMiddleware

CONSTANTS
  Shards, MaxConnections, Ttl, MaxClock, MaxRevision  \* as in DatabaseProvider

ASSUME ApplicationAssumption ==
  /\ UNION Shards = TenantIds
  /\ {MaxConnections, Ttl, MaxClock, MaxRevision} \subseteq Nat

VARIABLES
  cache, default, sweep,          \* as in DatabaseProvider
  stage,                          \* its `pc`
  url, victim, now, revision, flushed, raced, overtaken

D == INSTANCE DatabaseProvider WITH Tenants <- TenantIds, pc <- stage

databaseVars == <<cache, default, sweep, stage, url, victim, now, revision,
                  flushed, raced, overtaken>>
pathVars     == <<layer, pc, req, context, tenantId, db, status, phase>>

Phase(s) == IF s \in {"idle", "ok", "err"} THEN s ELSE "pending"

ApplicationInit == D!Init /\ Init

-----------------------------------------------------------------------------
(* Steps of the request path and of the provider together *)

\* TenantDbMiddleware calls connection_for.
CallProvider(p) ==
  /\ \E t \in TenantIds : D!ConnectionFor(p, t)
  /\ Connect(p)

\* The provider goes on with the call, which is answered or not yet.
ProviderWorks(p) ==
  /\ D!Progress(p)
  /\ Phase(stage'[p]) = phase[p]
  /\ UNCHANGED pathVars

ProviderReturns(p) ==
  /\ D!Progress(p)
  /\ ProviderAnswers(p)
  /\ phase'[p] = Phase(stage'[p])

\* The handler reads what the pool in its TenantDb leads to: not, as in
\* HandlerQueries, what the abstract provider promises.
QueryDatabase(p) ==
  /\ InHandler(p)
  /\ db[p]
  /\ D!Query(p)
  /\ UNCHANGED pathVars

\* A request ends that has a call, answered or dropped where it awaits.
EndCall(p) ==
  /\ D!Leave(p)
  /\ End(p)

-----------------------------------------------------------------------------
(* Steps of either alone *)

\* What TenantMiddleware does without the provider.
PathStep(p) ==
  /\ \/ Skip(p)
     \/ ResolvedFromClaims(p)
     \/ ResolvedByChain(p)
     \/ Missing(p)
     \/ Failed(p)
     \/ Bridge(p)
     \/ NoTenantId(p)
     \/ Connected(p)
     \/ ConnectError(p)
     \/ HandlerResponds(p)
  /\ UNCHANGED databaseVars

ArriveOrEnd(p) ==
  /\ \/ \E r \in Requests : Arrive(p, r)
     \/ phase[p] = "idle" /\ End(p)
  /\ UNCHANGED databaseVars

\* Evictions, the clock and the mapping, beside the requests.
Administration ==
  /\ \/ \E t \in TenantIds : D!EvictTenant(t)
     \/ D!EvictExpired
     \/ \E s \in sweep : D!SweepShard(s)
     \/ \E t \in TenantIds : D!Rehome(t)
     \/ D!Tick
  /\ UNCHANGED pathVars

-----------------------------------------------------------------------------
(* Specification *)

RequestProgress(p) ==
  \/ PathStep(p)
  \/ CallProvider(p)
  \/ ProviderWorks(p)
  \/ ProviderReturns(p)

ApplicationNext ==
  \/ \E p \in Tasks :
       \/ RequestProgress(p)
       \/ QueryDatabase(p)
       \/ EndCall(p)
       \/ ArriveOrEnd(p)
  \/ Administration

\* The runtime polls every ready task, and whatever a task awaits, the mapping, a
\* pool or the handler, answers or fails.
ApplicationSpec ==
  /\ ApplicationInit
  /\ [][ApplicationNext]_<<pathVars, databaseVars, tenant, seen>>
  /\ \A p \in Tasks :
       WF_<<pathVars, databaseVars, tenant, seen>>(RequestProgress(p))

-----------------------------------------------------------------------------
(* Properties *)

\* The layers over the database provider do what TenantMiddleware does over the
\* abstract one, so that what it shows of requests holds here: each step is one
\* of its own, the queries of handlers included, or none that it sees.
ImplementsMiddleware == Spec

=============================================================================
