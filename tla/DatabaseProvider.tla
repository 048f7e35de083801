-------------------------- MODULE DatabaseProvider --------------------------
(***************************************************************************)
(* DatabasePerTenantProvider (tenant-sea-orm/src/database.rs): one         *)
(* database per tenant, behind a concurrent map of connection pools with a *)
(* capacity and a time to live.                                            *)
(*                                                                         *)
(* The provider is shared by all requests of a multi-threaded runtime, so  *)
(* each access to the DashMap is a step of its own: a task may be          *)
(* preempted, or parked at an await, between any two of them.  A URL is    *)
(* the tenant whose database it addresses and the revision of the          *)
(* mapping it was read from.                                               *)
(***************************************************************************)
EXTENDS Naturals, FiniteSets, Functions

CONSTANTS
  Tenants, Admin, Tasks, None,  \* as in ConnectionProvider
  Shards,          \* how the DashMap distributes the tenants over its locks
  MaxConnections,  \* `max_connections`
  Ttl,             \* `ttl`, in ticks
  MaxClock,        \* bound: ticks of the clock
  MaxRevision      \* bound: revisions of a tenant's URL

ASSUME ConstantsAssumption ==
  /\ Admin \notin Tenants
  /\ None \notin Tenants \cup {Admin}
  /\ UNION Shards = Tenants
  /\ {MaxConnections, Ttl, MaxClock, MaxRevision} \subseteq Nat

VARIABLES
  cache,     \* `cache`: the tenants that have an entry, each with its own
  default,   \* whether `default_connection` holds the admin connection
  sweep,     \* the shards a running evict_expired has still to visit
  pc,        \* where each task is in its call
  tenant,    \* the tenant each task's call is for
  url,       \* the URL that the task's connection goes to, once it is known
  victim,    \* the key evict_if_full has chosen and not removed yet
  seen,      \* whose database the task last read
  now,       \* the clock behind Instant::now()
  revision,  \* the revision of each tenant's URL that the mapping holds
  flushed,   \* history: the revision held at the last evict_tenant
  raced,     \* history: a call held an older URL at the last evict_tenant
  overtaken  \* history: a call has taken the place that another had found

vars == <<cache, default, sweep, pc, tenant, url, victim, seen,
          now, revision, flushed, raced, overtaken>>

mapVars  == <<cache, default, sweep>>
taskVars == <<pc, tenant, url, victim, seen>>
envVars  == <<now, revision, flushed, raced, overtaken>>

Principals == Tenants \cup {Admin}
Url        == [db : Principals, rev : Nat]
Entry      == [url : [db : Tenants, rev : Nat], created : Nat]

Locations == {"idle", "lookup", "expired", "url", "connect", "len", "oldest",
              "remove", "insert", "any", "default", "ok", "err"}

Cached      == DOMAIN cache
Fresh(t)    == now - cache[t].created < Ttl
Without(S)  == Restrict(cache, Cached \ S)
OldestKeys  == {t \in Cached : \A u \in Cached :
                                 cache[t].created <= cache[u].created}

\* Task p moves from one point of connection_for to another.
Goto(p, from, to) ==
  /\ pc[p] = from
  /\ pc' = [pc EXCEPT ![p] = to]

Init ==
  /\ cache    = [t \in {} |-> None]
  /\ default  = FALSE
  /\ sweep    = {}
  /\ pc       = [p \in Tasks |-> "idle"]
  /\ tenant   = [p \in Tasks |-> None]
  /\ url      = [p \in Tasks |-> None]
  /\ victim   = [p \in Tasks |-> None]
  /\ seen     = [p \in Tasks |-> None]
  /\ now      = 0
  /\ revision = [t \in Tenants |-> 0]
  /\ flushed  = [t \in Tenants |-> 0]
  /\ raced    = [t \in Tenants |-> FALSE]
  /\ overtaken = FALSE

-----------------------------------------------------------------------------
(* connection_for *)

ConnectionFor(p, t) ==
  /\ Goto(p, "idle", "lookup")
  /\ tenant' = [tenant EXCEPT ![p] = t]
  /\ UNCHANGED <<mapVars, url, victim, seen, envVars>>

\* The lookup, its TTL test and the clone happen under one shard guard.
Hit(p) ==
  /\ tenant[p] \in Cached
  /\ Fresh(tenant[p])
  /\ Goto(p, "lookup", "ok")
  /\ url' = [url EXCEPT ![p] = cache[tenant[p]].url]
  /\ UNCHANGED <<mapVars, tenant, victim, seen, envVars>>

\* The entry has expired: the guard is dropped before the entry is removed.
Expired(p) ==
  /\ tenant[p] \in Cached
  /\ ~Fresh(tenant[p])
  /\ Goto(p, "lookup", "expired")
  /\ UNCHANGED <<mapVars, tenant, url, victim, seen, envVars>>

RemoveExpired(p) ==
  /\ Goto(p, "expired", "url")
  /\ cache' = Without({tenant[p]})
  /\ UNCHANGED <<default, sweep, tenant, url, victim, seen, envVars>>

Miss(p) ==
  /\ tenant[p] \notin Cached
  /\ Goto(p, "lookup", "url")
  /\ UNCHANGED <<mapVars, tenant, url, victim, seen, envVars>>

\* Mutant: concurrent misses share one lookup, which is not keyed by tenant.
UrlForShared(p) ==
  /\ Goto(p, "url", "connect")
  /\ \E q \in Tasks :
       /\ q # p => pc[q] = "connect"
       /\ url' = [url EXCEPT ![p] =
            IF q # p THEN url[q]
            ELSE [db |-> tenant[p], rev |-> revision[tenant[p]]]]
  /\ UNCHANGED <<mapVars, tenant, victim, seen, envVars>>

\* mapping.url_for answers with the URL the mapping holds at that moment.
UrlFor(p) ==
  /\ Goto(p, "url", "connect")
  /\ url' = [url EXCEPT ![p] = [db |-> tenant[p], rev |-> revision[tenant[p]]]]
  /\ UNCHANGED <<mapVars, tenant, victim, seen, envVars>>

\* url_for or Database::connect fails: the error is returned, nothing cached.
Fail(p) ==
  /\ \E from \in {"url", "connect", "default"} : Goto(p, from, "err")
  /\ UNCHANGED <<mapVars, tenant, url, victim, seen, envVars>>

Connect(p) ==
  /\ Goto(p, "connect", "len")
  /\ UNCHANGED <<mapVars, tenant, url, victim, seen, envVars>>

\* Mutant: eviction is wanted only above the capacity.
CheckLenAbove(p) ==
  /\ Goto(p, "len", IF Cardinality(Cached) > MaxConnections
                      THEN "oldest" ELSE "insert")
  /\ UNCHANGED <<mapVars, tenant, url, victim, seen, envVars>>

\* evict_if_full, its test: eviction is wanted at or above the capacity.
CheckLen(p) ==
  /\ Goto(p, "len", IF Cardinality(Cached) >= MaxConnections
                      THEN "oldest" ELSE "insert")
  /\ UNCHANGED <<mapVars, tenant, url, victim, seen, envVars>>

\* Mutant: the scan takes it that the map has an oldest key.
PickOldestOfSome(p) ==
  /\ \E k \in OldestKeys : victim' = [victim EXCEPT ![p] = k]
  /\ Goto(p, "oldest", "remove")
  /\ UNCHANGED <<mapVars, tenant, url, seen, envVars>>

\* evict_if_full, its scan: any of the oldest keys, none if the map is empty.
PickOldest(p) ==
  /\ \/ /\ Cached = {}
        /\ Goto(p, "oldest", "insert")
        /\ UNCHANGED victim
     \/ /\ \E k \in OldestKeys : victim' = [victim EXCEPT ![p] = k]
        /\ Goto(p, "oldest", "remove")
  /\ UNCHANGED <<mapVars, tenant, url, seen, envVars>>

\* evict_if_full, its removal, by key, whatever the entry has become since.
RemoveOldest(p) ==
  /\ Goto(p, "remove", "insert")
  /\ cache'  = Without({victim[p]})
  /\ victim' = [victim EXCEPT ![p] = None]
  /\ UNCHANGED <<default, sweep, tenant, url, seen, envVars>>

\* The history of an insertion by p: whether it takes a place that another call
\* has found, or is about to make, for itself.
Overtake(p) ==
  overtaken' = (overtaken \/ \E q \in Tasks \ {p} : pc[q] \in {"remove", "insert"})

\* Mutant: the entry is dated by its expiry instead of its creation.
InsertExpiry(p) ==
  /\ Goto(p, "insert", "ok")
  /\ cache' = [t \in Cached \cup {tenant[p]} |->
                 IF t = tenant[p] THEN [url |-> url[p], created |-> now + Ttl]
                                  ELSE cache[t]]
  /\ Overtake(p)
  /\ UNCHANGED <<default, sweep, tenant, url, victim, seen, now, revision, flushed,
                 raced>>

Insert(p) ==
  /\ Goto(p, "insert", "ok")
  /\ cache' = [t \in Cached \cup {tenant[p]} |->
                 IF t = tenant[p] THEN [url |-> url[p], created |-> now]
                                  ELSE cache[t]]
  /\ Overtake(p)
  /\ UNCHANGED <<default, sweep, tenant, url, victim, seen, now, revision, flushed,
                 raced>>

-----------------------------------------------------------------------------
(* any_connection *)

DefaultUrl == [db |-> Admin, rev |-> 0]

AnyConnection(p) ==
  /\ Goto(p, "idle", "any")
  /\ tenant' = [tenant EXCEPT ![p] = Admin]
  /\ UNCHANGED <<mapVars, url, victim, seen, envVars>>

\* Mutant: any connection will do, so one that the tenants have cached does.
LookupDefaultInCache(p) ==
  /\ Goto(p, "any", "ok")
  /\ url' \in {[url EXCEPT ![p] = cache[t].url] : t \in Cached}
  /\ UNCHANGED <<mapVars, tenant, victim, seen, envVars>>

LookupDefault(p) ==
  /\ Goto(p, "any", IF default THEN "ok" ELSE "default")
  /\ url' = [url EXCEPT ![p] = DefaultUrl]
  /\ UNCHANGED <<mapVars, tenant, victim, seen, envVars>>

\* Two tasks may both have found no connection: the later one replaces it.
ConnectDefault(p) ==
  /\ Goto(p, "default", "ok")
  /\ default' = TRUE
  /\ UNCHANGED <<cache, sweep, tenant, url, victim, seen, envVars>>

-----------------------------------------------------------------------------
(* The caller *)

\* The handler reads over the pool it was given, which is bound to its URL.
Query(p) ==
  /\ pc[p] = "ok"
  /\ seen' = [seen EXCEPT ![p] = url[p].db]
  /\ UNCHANGED <<mapVars, pc, tenant, url, victim, envVars>>

\* The request ends; or its future is dropped where it awaits: the mapping,
\* or a connection.
Leave(p) ==
  /\ pc[p] \in {"ok", "err", "url", "connect", "default"}
  /\ pc'     = [pc EXCEPT ![p] = "idle"]
  /\ tenant' = [tenant EXCEPT ![p] = None]
  /\ url'    = [url EXCEPT ![p] = None]
  /\ seen'   = [seen EXCEPT ![p] = None]
  /\ UNCHANGED <<mapVars, victim, envVars>>

-----------------------------------------------------------------------------
(* Administration and environment *)

\* The calls that will cache the URL they have read, if they are not dropped.
Carrying(p) == pc[p] \in {"connect", "len", "oldest", "remove", "insert"}

\* Mutant: eviction spares an entry that has not expired.
EvictTenantIfExpired(t) ==
  /\ cache'   = Without({t} \cap {u \in Cached : ~Fresh(u)})
  /\ flushed' = [flushed EXCEPT ![t] = revision[t]]
  /\ raced'   = [raced EXCEPT ![t] =
                   \E p \in Tasks : /\ tenant[p] = t
                                    /\ Carrying(p)
                                    /\ url[p].rev < revision[t]]
  /\ UNCHANGED <<default, sweep, taskVars, now, revision, overtaken>>

EvictTenant(t) ==
  /\ cache'   = Without({t})
  /\ flushed' = [flushed EXCEPT ![t] = revision[t]]
  /\ raced'   = [raced EXCEPT ![t] =
                   \E p \in Tasks : /\ tenant[p] = t
                                    /\ Carrying(p)
                                    /\ url[p].rev < revision[t]]
  /\ UNCHANGED <<default, sweep, taskVars, now, revision, overtaken>>

\* evict_expired is a DashMap::retain: it locks one shard after the other.
EvictExpired ==
  /\ sweep = {}
  /\ sweep' = Shards
  /\ UNCHANGED <<cache, default, taskVars, envVars>>

SweepShard(s) ==
  /\ sweep' = sweep \ {s}
  /\ cache' = Without({t \in s \cap Cached : ~Fresh(t)})
  /\ UNCHANGED <<default, taskVars, envVars>>

\* The tenant is moved to another database: the mapping's answer changes.
Rehome(t) ==
  /\ revision[t] < MaxRevision
  /\ revision' = [revision EXCEPT ![t] = @ + 1]
  /\ UNCHANGED <<mapVars, taskVars, now, flushed, raced, overtaken>>

Tick ==
  /\ now < MaxClock
  /\ now' = now + 1
  /\ UNCHANGED <<mapVars, taskVars, revision, flushed, raced, overtaken>>

-----------------------------------------------------------------------------
(* Specification *)

\* What the runtime does for a task whose request was accepted.
Progress(p) ==
  \/ Hit(p)
  \/ Expired(p)
  \/ RemoveExpired(p)
  \/ Miss(p)
  \/ UrlFor(p)
  \/ Fail(p)
  \/ Connect(p)
  \/ CheckLen(p)
  \/ PickOldest(p)
  \/ RemoveOldest(p)
  \/ Insert(p)
  \/ LookupDefault(p)
  \/ ConnectDefault(p)

Next ==
  \/ \E p \in Tasks :
       \/ \E t \in Tenants : ConnectionFor(p, t)
       \/ AnyConnection(p)
       \/ Progress(p)
       \/ Query(p)
       \/ Leave(p)
  \/ \E t \in Tenants : EvictTenant(t)
  \/ EvictExpired
  \/ \E s \in sweep : SweepShard(s)
  \/ \E t \in Tenants : Rehome(t)
  \/ Tick

Spec == Init /\ [][Next]_vars

-----------------------------------------------------------------------------
(* Properties *)

\* Types of the state; no entry and no chosen key is from the future: an
\* entry is dated by a clock that has been read already.
TypeOK ==
  /\ Cached \subseteq Tenants
  /\ \A t \in Cached : cache[t] \in Entry /\ cache[t].created <= now
  /\ default \in BOOLEAN
  /\ sweep \subseteq Shards
  /\ pc \in [Tasks -> Locations]
  /\ tenant \in [Tasks -> Principals \cup {None}]
  /\ url \in [Tasks -> Url \cup {None}]
  /\ victim \in [Tasks -> Tenants \cup {None}]
  /\ seen \in [Tasks -> Principals \cup {None}]
  /\ now \in Nat
  /\ revision \in [Tenants -> Nat]
  /\ flushed \in [Tenants -> Nat]
  /\ raced \in [Tenants -> BOOLEAN]
  /\ overtaken \in BOOLEAN

\* Whatever the interleaving of lookups, insertions and evictions, the entry
\* of a tenant is a pool on that tenant's database, and so is the connection
\* any call for the tenant goes on with.
OwnDatabase ==
  /\ \A t \in Cached : cache[t].url.db = t
  /\ \A p \in Tasks : Carrying(p) \/ pc[p] = "ok" => url[p].db = tenant[p]

\* "Maximum number of cached tenant connections": the cache never holds more than
\* `max_connections` entries (one, if that is zero: eviction comes before the
\* insertion).
Limit == IF MaxConnections = 0 THEN 1 ELSE MaxConnections
CapacityRespected == Cardinality(Cached) <= Limit

\* The one way to exceed it is to overtake: as long as no call inserts while
\* another has found or is making a place, calls may overlap in any other way,
\* fail, be dropped, and be joined by evictions, and the capacity holds.
CapacityKept == ~overtaken => CapacityRespected

\* evict_tenant makes a new URL effective: unless a call that had read an older
\* URL was under way when the tenant was evicted, no entry made before or after
\* holds a URL older than the mapping's at the eviction.
FlushEffective ==
  \A t \in Cached : ~raced[t] => cache[t].url.rev >= flushed[t]

\* The provider is a TenantConnectionProvider: every answer is for the tenant
\* asked for, and what is read over it is that tenant's.
Provider == INSTANCE ConnectionProvider WITH
  phase <- [p \in Tasks |-> IF pc[p] \in {"idle", "ok", "err"} THEN pc[p]
                                                              ELSE "pending"]
ImplementsProvider == Provider!Spec

=============================================================================
