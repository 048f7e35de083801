------------------------ MODULE SchemaProviderProofs ------------------------
(***************************************************************************)
(* Theorems about SchemaProvider, for every set of tenants, tasks and      *)
(* sessions, every shared pool and time to live, any number of replaced    *)
(* sessions, and whichever names are refused.                              *)
(***************************************************************************)
EXTENDS SchemaProvider, TLAPS

Tenanted == {"schema", "mapping", "remember", "lookup", "expired", "create",
             "exec", "insert", "err"}
Told     == {"remember", "lookup", "expired", "create", "exec", "insert"}
Bare     == {"idle", "schema", "mapping", "remember", "lookup", "expired",
             "create", "any"}

\* What connection_for and any_connection know at each of their points.
CallState ==
  /\ \A t \in DOMAIN schemaCache : schemaCache[t] = t
  /\ \A p \in Tasks :
       /\ pc[p] = "idle" => tenant[p] = None
       /\ pc[p] \in Tenanted => tenant[p] \in Tenants
       /\ pc[p] = "any" => tenant[p] = Admin
       /\ pc[p] = "ok" => tenant[p] \in Principals
       /\ pc[p] \in Told => schema[p] = tenant[p]
       /\ pc[p] \in Bare => conn[p] = {}
       /\ pc[p] = "insert" => tenant[p] \in quotable
       /\ pc[p] # "ok" => seen[p] = None

\* Whose connections, cached or with a call, a session belongs to.
Holds(s, t) ==
  \/ t \in Cached /\ s \in connections[t].conn
  \/ \E p \in Tasks : tenant[p] = t /\ s \in conn[p]

\* A session belongs to one tenant at most and is not a shared one.
Exclusive ==
  \A s \in Sessions, t \in Tenants : Holds(s, t) =>
    /\ s \notin SharedSessions
    /\ \A u \in Tenants : Holds(s, u) => u = t

\* It is on that tenant's schema, or still or again on the default path.
OwnPath ==
  \A s \in Sessions, t \in Tenants : Holds(s, t) => path[s] \in {t, Admin}

\* Until a session is replaced, those of a connection that is cached, that is
\* about to be or that a caller has been given are on the schema.
Selected ==
  reconnects = 0 =>
    /\ \A t \in Cached : \A s \in connections[t].conn : path[s] = t
    /\ \A p \in Tasks : pc[p] \in {"insert", "ok"} /\ tenant[p] \in Tenants =>
         \A s \in conn[p] : path[s] = tenant[p]

\* The sessions of any_connection are shared ones.
AdminShared == \A p \in Tasks : tenant[p] = Admin => conn[p] \subseteq SharedSessions

\* What a statement is about to select a schema on is one session.
Single == \A p \in Tasks : pc[p] = "exec" => \E s \in Sessions : conn[p] = {s}

\* None of this speaks of the paths of the shared sessions, which others than the
\* provider may move.
Separation == Exclusive /\ OwnPath /\ Selected /\ AdminShared /\ Single

CallInv == TypeOK /\ CallState

IInv ==
  /\ CallInv
  /\ RefusedSchemas
  /\ dedicated => Separation /\ SharedUnpinned

USE ConstantsAssumption

-----------------------------------------------------------------------------
(* Maps and pools *)

\* Removing keys leaves every other as it is.
LEMMA Removal ==
  ASSUME NEW f, NEW S \in SUBSET DOMAIN f
  PROVE  /\ DOMAIN Restrict(f, S) = S
         /\ \A z \in S : Restrict(f, S)[z] = f[z]
BY DEF Restrict

\* A session that no pool uses belongs to nobody.
LEMMA Unused ==
  ASSUME NEW s \in Sessions \ InUse
  PROVE  /\ s \notin SharedSessions
         /\ \A t : ~Holds(s, t)
<1>1. /\ s \notin SharedSessions
      /\ \A t \in Cached : s \notin connections[t].conn
      /\ \A p \in Tasks : s \notin conn[p]
  BY DEF InUse
<1> QED
  BY <1>1 DEF Holds

-----------------------------------------------------------------------------
(* Types and calls *)

LEMMA InitIInv == Init => IInv
<1> SUFFICES ASSUME Init PROVE IInv
  OBVIOUS
<1>1. TypeOK
  BY DEF Init, TypeOK, Cached, Locations, Principals
<1>2. CallState
  BY DEF Init, CallState, Tenanted, Told, Bare
<1>3. RefusedSchemas
  BY DEF Init, RefusedSchemas, Cached
<1>4. Separation
  BY DEF Init, Separation, Exclusive, OwnPath, Selected, AdminShared, Single,
         Holds, Cached
<1>5. SharedUnpinned
  BY DEF Init, SharedUnpinned
<1> QED
  BY <1>1, <1>2, <1>3, <1>4, <1>5 DEF IInv, CallInv

\* A step of a call, or of its caller.
LEMMA TaskCall ==
  ASSUME CallInv, NEW p \in Tasks,
         \/ \E t \in Tenants : ConnectionFor(p, t)
         \/ AnyConnection(p)
         \/ Progress(p)
         \/ Query(p)
         \/ Leave(p)
  PROVE  CallInv'
<1> USE DEF CallInv, TypeOK, CallState, Goto, mapVars, envVars,
            Tenanted, Told, Bare
<1>1. ASSUME NEW t \in Tenants, ConnectionFor(p, t)
      PROVE  CallInv'
  BY <1>1 DEF Cached, ConnectionFor, Locations, Principals
<1>2. CASE AnyConnection(p)
  BY <1>2 DEF Cached, AnyConnection, Locations, Principals
<1>3. CASE SchemaHit(p)
  BY <1>3 DEF Cached, SchemaHit, Locations
<1>4. CASE SchemaMiss(p)
  BY <1>4 DEF Cached, SchemaMiss, Locations, callVars
<1>5. CASE SchemaFor(p)
  BY <1>5 DEF Cached, SchemaFor, Locations
<1>6. CASE Remember(p)
  <2>1. /\ DOMAIN schemaCache' = DOMAIN schemaCache \cup {tenant[p]}
        /\ schemaCache'[tenant[p]] = tenant[p]
        /\ \A t \in DOMAIN schemaCache : t # tenant[p] => schemaCache'[t] = schemaCache[t]
    BY <1>6 DEF Remember, With
  <2> QED
    BY <1>6, <2>1 DEF Cached, Remember, Locations, callVars
<1>7. CASE Hit(p)
  BY <1>7 DEF Cached, Hit, Locations, Principals
<1>8. CASE Expired(p) \/ Miss(p)
  BY <1>8 DEF Cached, Expired, Miss, Locations, callVars
<1>9. CASE RemoveExpired(p)
  BY <1>9, Removal DEF Cached, RemoveExpired, Locations, callVars
<1>10. CASE UseShared(p)
  BY <1>10 DEF Cached, UseShared, Locations
<1>11. CASE Connect(p)
  <2>1. PICK s \in Sessions \ InUse : /\ conn' = [conn EXCEPT ![p] = {s}]
                                     /\ path' = [path EXCEPT ![s] = Admin]
    BY <1>11 DEF Connect
  <2>2. s \in Sessions
    OBVIOUS
  <2>3. TypeOK'
    <3>1. /\ conn' \in [Tasks -> SUBSET Sessions]
          /\ path' \in [Sessions -> Principals]
      BY <2>1, <2>2 DEF Principals
    <3>2. pc' \in [Tasks -> Locations]
      BY <1>11 DEF Connect, Locations
    <3>3. UNCHANGED <<mapVars, tenant, schema, seen, envVars>>
      BY <1>11 DEF Connect
    <3> QED
      BY <3>1, <3>2, <3>3 DEF Cached
  <2>4. CallState'
    BY <1>11, <2>1 DEF Connect, Locations
  <2> QED
    BY <2>3, <2>4
<1>12. CASE Exec(p) \/ ExecLost(p)
  BY <1>12 DEF Cached, Exec, ExecLost, Locations, Principals, callVars
<1>13. CASE Fail(p)
  BY <1>13 DEF Cached, Fail, Locations, callVars
<1>14. CASE Insert(p)
  <2>1. /\ Cached' = Cached \cup {tenant[p]}
        /\ connections'[tenant[p]] = [conn |-> conn[p], created |-> now]
        /\ \A t \in Cached : t # tenant[p] => connections'[t] = connections[t]
    BY <1>14 DEF Insert, Cached, With
  <2>2. TypeOK'
    BY <1>14, <2>1 DEF Insert, Locations, callVars
  <2>3. CallState'
    BY <1>14 DEF Insert, Locations, callVars
  <2> QED
    BY <2>2, <2>3
<1>15. CASE CloneShared(p)
  BY <1>15 DEF Cached, CloneShared, Locations, Principals
<1>16. CASE Query(p)
  BY <1>16 DEF Cached, Query
<1>17. CASE Leave(p)
  BY <1>17 DEF Cached, Leave, Locations
<1> QED
  BY <1>1, <1>2, <1>3, <1>4, <1>5, <1>6, <1>7, <1>8, <1>9, <1>10, <1>11, <1>12,
     <1>13, <1>14, <1>15, <1>16, <1>17 DEF Progress

\* A step of the environment, or none.
LEMMA OtherCall ==
  ASSUME CallInv, Tick \/ (\E s \in Sessions : Reconnect(s)) \/ UNCHANGED vars
  PROVE  CallInv'
<1> USE DEF CallInv, TypeOK, CallState, mapVars, callVars, Cached
<1>1. CASE Tick
  BY <1>1 DEF Tick
<1>2. ASSUME NEW s \in Sessions, Reconnect(s)
      PROVE  CallInv'
  BY <1>2 DEF Reconnect, Principals
<1>3. CASE UNCHANGED vars
  BY <1>3 DEF vars
<1> QED
  BY <1>1, <1>2, <1>3

LEMMA StepCall == CallInv /\ [Next]_vars => CallInv'
BY TaskCall, OtherCall DEF Next

-----------------------------------------------------------------------------
(* Refused names *)

\* Only the statement moves a search path to a schema, and it has been quoted;
\* only a call that has run it adds to the cache.
LEMMA StepRefused == CallInv /\ RefusedSchemas /\ [Next]_vars => RefusedSchemas'
<1> SUFFICES ASSUME CallInv, RefusedSchemas, [Next]_vars PROVE RefusedSchemas'
  OBVIOUS
<1> USE DEF mapVars, callVars, envVars
<1>t. path \in [Sessions -> Principals]
  BY DEF CallInv, TypeOK
<1>1. quotable' = quotable
  BY DEF Next, Progress, vars, ConnectionFor, AnyConnection, SchemaHit,
         SchemaMiss, SchemaFor, Remember, Hit, Expired, RemoveExpired, Miss, UseShared,
         Connect, Exec, ExecLost, Fail, Insert, CloneShared, Query, Leave, Tick,
         Reconnect
<1>2. \A s \in Sessions : path'[s] \in quotable \cup {Admin}
  <2>1. CASE \E p \in Tasks : Connect(p)
    BY <1>t, <2>1 DEF RefusedSchemas, Connect
  <2>2. CASE \E p \in Tasks : Exec(p) \/ ExecLost(p)
    BY <1>t, <2>2 DEF RefusedSchemas, Exec, ExecLost
  <2>3. CASE \E s \in Sessions : Reconnect(s)
    BY <1>t, <2>3 DEF RefusedSchemas, Reconnect
  <2>4. CASE UNCHANGED path
    BY <2>4 DEF RefusedSchemas
  <2> QED
    BY <2>1, <2>2, <2>3, <2>4
    DEF Next, Progress, vars, ConnectionFor, AnyConnection, SchemaHit, SchemaMiss,
        SchemaFor, Remember, Hit, Expired, RemoveExpired, Miss, UseShared, Fail,
        Insert, CloneShared, Query, Leave, Tick
<1>3. Cached' \subseteq quotable
  <2>1. ASSUME NEW p \in Tasks, Insert(p)
        PROVE  Cached' \subseteq quotable
    <3>1. tenant[p] \in quotable
      BY <2>1 DEF CallInv, CallState, Insert, Goto
    <3>2. Cached' = Cached \cup {tenant[p]}
      BY <2>1 DEF Insert, Cached, With
    <3> QED
      BY <3>1, <3>2 DEF RefusedSchemas
  <2>2. ASSUME NEW p \in Tasks, RemoveExpired(p)
        PROVE  Cached' \subseteq quotable
    BY <2>2, Removal DEF RemoveExpired, RefusedSchemas, Cached
  <2>3. CASE UNCHANGED connections
    BY <2>3 DEF RefusedSchemas, Cached
  <2> QED
    BY <2>1, <2>2, <2>3
    DEF Next, Progress, vars, ConnectionFor, AnyConnection, SchemaHit, SchemaMiss,
        SchemaFor, Remember, Hit, Expired, Miss, UseShared, Connect, Exec, ExecLost,
        Fail, CloneShared, Query, Leave, Tick, Reconnect
<1> QED
  BY <1>1, <1>2, <1>3 DEF RefusedSchemas

-----------------------------------------------------------------------------
(* Separation, with a URL *)

\* Who holds fewer sessions than before, on paths that have not moved.
LEMMA Fewer ==
  ASSUME Exclusive, OwnPath, UNCHANGED path,
         \A s \in Sessions, t \in Tenants : Holds(s, t)' => Holds(s, t)
  PROVE  Exclusive' /\ OwnPath'
BY DEF Exclusive, OwnPath

\* A step of a call that only moves on, or ends in an error.
LEMMA MoveSeparation ==
  ASSUME CallInv, Separation, NEW p \in Tasks,
         \/ SchemaHit(p) \/ SchemaMiss(p) \/ SchemaFor(p) \/ Remember(p)
         \/ Expired(p) \/ Miss(p) \/ Fail(p) \/ Query(p)
  PROVE  Separation'
<1>1. UNCHANGED <<connections, conn, tenant, path, reconnects>>
  BY DEF SchemaHit, SchemaMiss, SchemaFor, Remember, Expired, Miss, Fail, Query,
         mapVars, callVars, envVars
<1>2. /\ pc' \in [Tasks -> Locations]
      /\ \A q \in Tasks : pc'[q] \in {"exec", "insert", "ok"} => pc[q] = pc'[q]
  BY DEF CallInv, TypeOK, Goto, SchemaHit, SchemaMiss, SchemaFor, Remember, Expired,
         Miss, Fail, Query, Locations
<1>3. \A s \in Sessions, t \in Tenants : Holds(s, t)' => Holds(s, t)
  BY <1>1 DEF Holds, Cached
<1>4. Exclusive' /\ OwnPath'
  BY <1>1, <1>3, Fewer DEF Separation
<1>5. Selected'
  BY <1>1, <1>2 DEF Separation, Selected, Cached
<1>6. AdminShared'
  BY <1>1 DEF Separation, AdminShared
<1>7. Single'
  BY <1>1, <1>2 DEF Separation, Single
<1> QED
  BY <1>4, <1>5, <1>6, <1>7 DEF Separation

\* A call begins, when its task holds nothing, or a task lets go of what it has.
LEMMA EndsSeparation ==
  ASSUME CallInv, Separation, NEW p \in Tasks,
         \/ \E t \in Tenants : ConnectionFor(p, t)
         \/ AnyConnection(p)
         \/ Leave(p)
  PROVE  Separation'
<1>1. UNCHANGED <<connections, path, reconnects>>
  BY DEF ConnectionFor, AnyConnection, Leave, mapVars, envVars
<1>2. /\ conn' = [conn EXCEPT ![p] = {}]
      /\ \A q \in Tasks : q # p => tenant'[q] = tenant[q]
  BY DEF CallInv, TypeOK, CallState, Bare, Goto, ConnectionFor, AnyConnection, Leave
<1>3. \A q \in Tasks : pc'[q] \in {"exec", "insert", "ok"} => q # p /\ pc[q] = pc'[q]
  BY DEF CallInv, TypeOK, Goto, ConnectionFor, AnyConnection, Leave
<1>4. \A s \in Sessions, t \in Tenants : Holds(s, t)' => Holds(s, t)
  BY <1>1, <1>2 DEF CallInv, TypeOK, Holds, Cached
<1>5. Exclusive' /\ OwnPath'
  BY <1>1, <1>4, Fewer DEF Separation
<1>6. Selected'
  BY <1>1, <1>2, <1>3 DEF CallInv, TypeOK, Separation, Selected, Cached
<1>7. AdminShared'
  BY <1>1, <1>2 DEF CallInv, TypeOK, Separation, AdminShared
<1>8. Single'
  BY <1>2, <1>3 DEF CallInv, TypeOK, Separation, Single
<1> QED
  BY <1>5, <1>6, <1>7, <1>8 DEF Separation

\* A call removes an expired entry, takes a cached connection, caches its own or
\* takes the shared one.
LEMMA CacheSeparation ==
  ASSUME CallInv, Separation, NEW p \in Tasks,
         RemoveExpired(p) \/ Hit(p) \/ Insert(p) \/ CloneShared(p)
  PROVE  Separation'
<1> USE DEF CallInv, TypeOK, CallState, Goto, Tenanted, Bare
<1>1. CASE RemoveExpired(p)
  <2>1. /\ Cached' = Cached \ {tenant[p]}
        /\ \A t \in Cached' : connections'[t] = connections[t]
    BY <1>1, Removal DEF RemoveExpired, Cached
  <2>2. UNCHANGED <<conn, tenant, path, reconnects>>
    BY <1>1 DEF RemoveExpired, callVars, envVars
  <2>3. \A q \in Tasks : pc'[q] \in {"exec", "insert", "ok"} => pc[q] = pc'[q]
    BY <1>1 DEF RemoveExpired
  <2>4. \A s \in Sessions, t \in Tenants : Holds(s, t)' => Holds(s, t)
    BY <2>1, <2>2 DEF Holds
  <2>5. Exclusive' /\ OwnPath'
    BY <2>2, <2>4, Fewer DEF Separation
  <2>6. Selected' /\ AdminShared' /\ Single'
    BY <2>1, <2>2, <2>3 DEF Separation, Selected, AdminShared, Single
  <2> QED
    BY <2>5, <2>6 DEF Separation
<1>2. CASE Hit(p)
  <2>1. /\ conn' = [conn EXCEPT ![p] = connections[tenant[p]].conn]
        /\ tenant[p] \in Cached
        /\ UNCHANGED <<connections, tenant, path, reconnects>>
    BY <1>2 DEF Hit, mapVars, envVars
  <2>2. pc' = [pc EXCEPT ![p] = "ok"]
    BY <1>2 DEF Hit
  <2>3. \A s \in Sessions, t \in Tenants : Holds(s, t)' => Holds(s, t)
    BY <2>1 DEF Holds, Cached
  <2>4. Exclusive' /\ OwnPath'
    BY <2>1, <2>3, Fewer DEF Separation
  <2>5. Selected'
    BY <2>1, <2>2 DEF Separation, Selected, Cached
  <2>6. AdminShared' /\ Single'
    BY <2>1, <2>2 DEF Separation, AdminShared, Single
  <2> QED
    BY <2>4, <2>5, <2>6 DEF Separation
<1>3. CASE Insert(p)
  <2>1. /\ Cached' = Cached \cup {tenant[p]}
        /\ connections'[tenant[p]] = [conn |-> conn[p], created |-> now]
        /\ \A t \in Cached : t # tenant[p] => connections'[t] = connections[t]
    BY <1>3 DEF Insert, Cached, With
  <2>2. /\ pc' = [pc EXCEPT ![p] = "ok"]
        /\ pc[p] = "insert"
        /\ UNCHANGED <<conn, tenant, path, reconnects>>
    BY <1>3 DEF Insert, callVars, envVars
  <2>3. \A s \in Sessions, t \in Tenants : Holds(s, t)' => Holds(s, t)
    BY <2>1, <2>2 DEF Holds
  <2>4. Exclusive' /\ OwnPath'
    BY <2>2, <2>3, Fewer DEF Separation
  <2>5. Selected'
    BY <2>1, <2>2 DEF Separation, Selected
  <2>6. AdminShared' /\ Single'
    BY <2>2 DEF Separation, AdminShared, Single
  <2> QED
    BY <2>4, <2>5, <2>6 DEF Separation
<1>4. CASE CloneShared(p)
  <2>1. /\ conn' = [conn EXCEPT ![p] = SharedSessions]
        /\ pc' = [pc EXCEPT ![p] = "ok"]
        /\ tenant[p] = Admin
        /\ UNCHANGED <<connections, tenant, path, reconnects>>
    BY <1>4 DEF CloneShared, mapVars, envVars
  <2>2. \A s \in Sessions, t \in Tenants : Holds(s, t)' => Holds(s, t)
    BY <2>1 DEF Holds, Cached
  <2>3. Exclusive' /\ OwnPath'
    BY <2>1, <2>2, Fewer DEF Separation
  <2>4. Selected'
    BY <2>1 DEF Separation, Selected, Cached
  <2>5. AdminShared' /\ Single'
    BY <2>1 DEF Separation, AdminShared, Single
  <2> QED
    BY <2>3, <2>4, <2>5 DEF Separation
<1> QED
  BY <1>1, <1>2, <1>3, <1>4

\* A pool of one new session is opened: it was nobody's.
LEMMA ConnectSeparation ==
  ASSUME CallInv, Separation, NEW p \in Tasks, Connect(p)
  PROVE  Separation'
<1> USE DEF CallInv, TypeOK, CallState, Goto, Tenanted, Bare
<1>1. PICK n \in Sessions \ InUse : /\ conn' = [conn EXCEPT ![p] = {n}]
                                   /\ path' = [path EXCEPT ![n] = Admin]
  BY DEF Connect
<1>2. /\ pc' = [pc EXCEPT ![p] = "exec"]
      /\ tenant[p] \in Tenants
      /\ UNCHANGED <<connections, tenant, reconnects>>
  BY DEF Connect, mapVars, envVars
<1>3. n \in Sessions /\ n \notin SharedSessions /\ \A t : ~Holds(n, t)
  BY Unused
<1>4. \A s \in Sessions, t \in Tenants :
        Holds(s, t)' => Holds(s, t) \/ (s = n /\ t = tenant[p])
  BY <1>1, <1>2 DEF Holds, Cached
<1>5. Exclusive'
  BY <1>3, <1>4 DEF Separation, Exclusive
<1>6. \A s \in Sessions : path'[s] = IF s = n THEN Admin ELSE path[s]
  BY <1>1, <1>3
<1>7. OwnPath'
  BY <1>3, <1>4, <1>6 DEF Separation, OwnPath
<1>8. Selected'
  <2>1. \A t \in Cached : n \notin connections[t].conn
    BY <1>3 DEF Holds
  <2>2. \A q \in Tasks : tenant[q] \in Tenants => n \notin conn[q]
    BY <1>3 DEF Holds
  <2> QED
    BY <1>1, <1>2, <1>6, <2>1, <2>2 DEF Separation, Selected, Cached
<1>9. AdminShared'
  BY <1>1, <1>2, <1>3, ConstantsAssumption DEF Separation, AdminShared
<1>10. Single'
  BY <1>1, <1>2, <1>3 DEF Separation, Single
<1> QED
  BY <1>5, <1>7, <1>8, <1>9, <1>10 DEF Separation

\* The statement runs, on the one session of the new pool.
LEMMA ExecSeparation ==
  ASSUME CallInv, Separation, NEW p \in Tasks, Exec(p) \/ ExecLost(p)
  PROVE  Separation'
<1> USE DEF CallInv, TypeOK, CallState, Goto, Tenanted, Told
<1>1. /\ pc[p] = "exec"
      /\ \/ pc' = [pc EXCEPT ![p] = "insert"]
         \/ pc' = [pc EXCEPT ![p] = "err"]
      /\ UNCHANGED <<connections, conn, tenant, reconnects>>
  BY DEF Exec, ExecLost, mapVars, callVars, envVars
<1>2. tenant[p] \in Tenants /\ schema[p] = tenant[p]
  BY <1>1
<1>3. PICK n \in Sessions : conn[p] = {n}
  BY <1>1 DEF Separation, Single
<1>4. path' = [path EXCEPT ![n] = tenant[p]]
  BY <1>2, <1>3 DEF Exec, ExecLost
<1>5. Holds(n, tenant[p])
  BY <1>3 DEF Holds
<1>6. n \notin SharedSessions /\ \A t \in Tenants : Holds(n, t) => t = tenant[p]
  BY <1>2, <1>5 DEF Separation, Exclusive
<1>7. \A s \in Sessions, t \in Tenants : Holds(s, t)' <=> Holds(s, t)
  BY <1>1 DEF Holds, Cached
<1>8. Exclusive'
  BY <1>7 DEF Separation, Exclusive
<1>9. \A s \in Sessions : path'[s] = IF s = n THEN tenant[p] ELSE path[s]
  BY <1>4
<1>10. OwnPath'
  BY <1>6, <1>7, <1>9 DEF Separation, OwnPath
<1>11. Selected'
  <2> SUFFICES ASSUME reconnects = 0 PROVE Selected'
    BY <1>1 DEF Selected
  <2>1. ASSUME NEW t \in Cached, NEW s \in connections[t].conn
        PROVE  path'[s] = t
    <3>1. s \in Sessions /\ t \in Tenants /\ Holds(s, t) /\ path[s] = t
      BY <2>1 DEF Separation, Selected, Holds
    <3> QED
      BY <1>6, <1>9, <3>1
  <2>2. ASSUME NEW q \in Tasks, pc'[q] \in {"insert", "ok"}, tenant[q] \in Tenants,
               NEW s \in conn[q]
        PROVE  path'[s] = tenant[q]
    <3>1. CASE q = p
      BY <1>3, <1>9, <3>1
    <3>2. CASE q # p
      <4>1. s \in Sessions /\ Holds(s, tenant[q]) /\ path[s] = tenant[q]
        BY <1>1, <2>2, <3>2 DEF Separation, Selected, Holds
      <4> QED
        BY <1>6, <1>9, <2>2, <4>1
    <3> QED
      BY <3>1, <3>2
  <2> QED
    BY <1>1, <2>1, <2>2 DEF Selected, Cached
<1>12. AdminShared'
  BY <1>1 DEF Separation, AdminShared
<1>13. Single'
  BY <1>1 DEF Separation, Single
<1> QED
  BY <1>8, <1>10, <1>11, <1>12, <1>13 DEF Separation

\* The clock goes on, a pool replaces a session, or nothing happens.
LEMMA OtherSeparation ==
  ASSUME CallInv, Separation,
         Tick \/ (\E s \in Sessions : Reconnect(s)) \/ UNCHANGED vars
  PROVE  Separation'
<1>1. ASSUME Tick \/ UNCHANGED vars
      PROVE  Separation'
  <2>1. UNCHANGED <<connections, conn, tenant, path, pc, reconnects>>
    BY <1>1 DEF Tick, vars, mapVars, callVars
  <2> QED
    BY <2>1 DEF Separation, Exclusive, OwnPath, Selected, AdminShared, Single,
                Holds, Cached
<1>2. ASSUME NEW n \in Sessions, Reconnect(n)
      PROVE  Separation'
  <2>1. /\ path' = [path EXCEPT ![n] = Admin]
        /\ reconnects' # 0
        /\ UNCHANGED <<connections, conn, tenant, pc>>
    BY <1>2 DEF Reconnect, mapVars, callVars, CallInv, TypeOK
  <2>2. \A s \in Sessions : path'[s] = IF s = n THEN Admin ELSE path[s]
    BY <2>1 DEF CallInv, TypeOK
  <2>3. \A s \in Sessions, t \in Tenants : Holds(s, t)' <=> Holds(s, t)
    BY <2>1 DEF Holds, Cached
  <2>4. Exclusive' /\ OwnPath'
    BY <2>2, <2>3 DEF Separation, Exclusive, OwnPath
  <2>5. Selected' /\ AdminShared' /\ Single'
    BY <2>1, <2>2, ConstantsAssumption DEF Separation, Selected, AdminShared, Single
  <2> QED
    BY <2>4, <2>5 DEF Separation
<1> QED
  BY <1>1, <1>2

LEMMA StepSeparation ==
  ASSUME CallInv, Separation, dedicated, [Next]_vars
  PROVE  Separation'
<1>1. \A p \in Tasks : ~UseShared(p)
  BY DEF UseShared
<1> QED
  BY <1>1, MoveSeparation, EndsSeparation, CacheSeparation, ConnectSeparation,
     ExecSeparation, OtherSeparation DEF Next, Progress

\* With a URL, what the provider and its callers do to a shared session is nothing,
\* or to replace it.
LEMMA SharedStep ==
  ASSUME CallInv, Separation, dedicated, [Next]_vars
  PROVE  /\ \A s \in SharedSessions : \/ path'[s] = path[s]
                                      \/ path'[s] = Admin /\ reconnects' > 0
         /\ reconnects > 0 => reconnects' > 0
<1> USE DEF CallInv, TypeOK
<1>1. CASE \E s \in Sessions : Reconnect(s)
  BY <1>1, ConstantsAssumption DEF Reconnect
<1>2. ASSUME NEW p \in Tasks, Connect(p)
      PROVE  UNCHANGED reconnects /\ \A s \in SharedSessions : path'[s] = path[s]
  BY <1>2, Unused, ConstantsAssumption DEF Connect, envVars
<1>3. ASSUME NEW p \in Tasks, Exec(p) \/ ExecLost(p)
      PROVE  UNCHANGED reconnects /\ \A s \in SharedSessions : path'[s] = path[s]
  <2>1. tenant[p] \in Tenants
    BY <1>3 DEF CallState, Tenanted, Exec, ExecLost, Goto
  <2>2. \A s \in conn[p] : s \in Sessions /\ Holds(s, tenant[p])
    BY DEF Holds
  <2>3. \A s \in conn[p] : s \notin SharedSessions
    BY <2>1, <2>2 DEF Separation, Exclusive
  <2> QED
    BY <1>3, <2>3, ConstantsAssumption DEF Exec, ExecLost, envVars
<1>4. CASE UNCHANGED <<path, reconnects>>
  BY <1>4
<1> QED
  BY <1>1, <1>2, <1>3, <1>4
  DEF Next, Progress, vars, mapVars, callVars, envVars, ConnectionFor, AnyConnection,
      SchemaHit, SchemaMiss, SchemaFor, Remember, Hit, Expired, RemoveExpired, Miss,
      UseShared, Fail, Insert, CloneShared, Query, Leave, Tick

-----------------------------------------------------------------------------
(* The invariants *)

LEMMA StepDedicated == [Next]_vars => dedicated' = dedicated
BY DEF Next, Progress, vars, mapVars, ConnectionFor, AnyConnection, SchemaHit,
       SchemaMiss, SchemaFor, Remember, Hit, Expired, RemoveExpired, Miss, UseShared,
       Connect, Exec, ExecLost, Fail, Insert, CloneShared, Query, Leave, Tick,
       Reconnect

LEMMA StepIInv == IInv /\ [Next]_vars => IInv'
<1> SUFFICES ASSUME IInv, [Next]_vars PROVE IInv'
  OBVIOUS
<1>1. CallInv' /\ RefusedSchemas'
  BY StepCall, StepRefused DEF IInv
<1>2. ASSUME dedicated PROVE Separation' /\ SharedUnpinned'
  BY <1>2, StepSeparation, SharedStep DEF IInv, SharedUnpinned
<1> QED
  BY <1>1, <1>2, StepDedicated DEF IInv

\* What separation says of the sessions that tenants have.
LEMMA PinnedSessions == (dedicated => Separation) => Pinned
BY DEF Separation, Selected, Pinned, EachPinned

LEMMA OwnSessions == CallInv /\ (dedicated => Separation) => NoForeignSchema
<1> SUFFICES ASSUME CallInv, dedicated, Separation
             PROVE  /\ \A t \in Cached : \A s \in connections[t].conn :
                         path[s] \in {t, Admin}
                    /\ \A p \in Tasks : tenant[p] \in Tenants =>
                         \A s \in conn[p] : path[s] \in {tenant[p], Admin}
  BY DEF NoForeignSchema
<1>1. ASSUME NEW t \in Cached, NEW s \in connections[t].conn
      PROVE  path[s] \in {t, Admin}
  <2>1. t \in Tenants /\ s \in Sessions /\ Holds(s, t)
    BY DEF CallInv, TypeOK, Holds
  <2> QED
    BY <2>1 DEF Separation, OwnPath
<1>2. ASSUME NEW p \in Tasks, tenant[p] \in Tenants, NEW s \in conn[p]
      PROVE  path[s] \in {tenant[p], Admin}
  <2>1. s \in Sessions /\ Holds(s, tenant[p])
    BY DEF CallInv, TypeOK, Holds
  <2> QED
    BY <1>2, <2>1 DEF Separation, OwnPath
<1> QED
  BY <1>1, <1>2

\* The inductive invariant: what a call knows at each of its awaits, and, with a
\* URL, whom each session belongs to.
THEOREM Invariance == Spec => []IInv
BY InitIInv, StepIInv, PTL DEF Spec

\* The state keeps its types, and no entry is dated later than the clock.
THEOREM TypeCorrect == Spec => []TypeOK
BY Invariance, PTL DEF IInv, CallInv

\* A schema whose name is refused is selected on no session and has no cached
\* connection, with a URL and without.
THEOREM Refused == Spec => []RefusedSchemas
BY Invariance, PTL DEF IInv

\* With a URL, and until a session is replaced, a tenant's connections are on its
\* schema for as long as they are held, for any number of concurrent calls.
THEOREM Pinning == Spec => []Pinned
<1>1. IInv => Pinned
  BY PinnedSessions DEF IInv
<1> QED
  BY <1>1, Invariance, PTL

\* With a URL no session of a tenant's connection is ever on another tenant's
\* schema, whatever sessions are replaced.
THEOREM Isolation == Spec => []NoForeignSchema
<1>1. IInv => NoForeignSchema
  BY OwnSessions DEF IInv
<1> QED
  BY <1>1, Invariance, PTL

\* With a URL no call moves the search path of a shared session.
THEOREM SharedPath == Spec => []SharedUnpinned
<1>1. IInv => SharedUnpinned
  BY DEF IInv, SharedUnpinned
<1> QED
  BY <1>1, Invariance, PTL

-----------------------------------------------------------------------------
(* The provider implements ConnectionProvider *)

\* Every step of a task is a step of the abstract provider, or none.
LEMMA TaskImplements ==
  ASSUME IInv, dedicated, reconnects' = 0, NEW p \in Tasks,
         \/ \E t \in Tenants : ConnectionFor(p, t)
         \/ AnyConnection(p)
         \/ Progress(p)
         \/ Query(p)
         \/ Leave(p)
  PROVE  Provider!Next \/ UNCHANGED Provider!abstractVars
<1> USE DEF Goto, mapVars, callVars, envVars
<1>t. pc \in [Tasks -> Locations]
  BY DEF IInv, CallInv, TypeOK
<1>1. ASSUME NEW t \in Tenants, ConnectionFor(p, t)
      PROVE  Provider!Call(p, t)
  BY <1>1, <1>t DEF ConnectionFor, Provider!Call
<1>2. ASSUME AnyConnection(p)
      PROVE  Provider!Call(p, Admin)
  BY <1>2, <1>t DEF AnyConnection, Provider!Call
<1>3. ASSUME Hit(p) \/ Fail(p) \/ Insert(p) \/ CloneShared(p) \/ ExecLost(p)
      PROVE  Provider!Answer(p)
  BY <1>3, <1>t DEF Hit, Fail, Insert, CloneShared, ExecLost, Provider!Answer
<1>4. ASSUME \/ SchemaHit(p) \/ SchemaMiss(p) \/ SchemaFor(p) \/ Remember(p)
             \/ Expired(p) \/ RemoveExpired(p) \/ Miss(p) \/ UseShared(p)
             \/ Connect(p) \/ Exec(p)
      PROVE  UNCHANGED Provider!abstractVars
  BY <1>4, <1>t DEF SchemaHit, SchemaMiss, SchemaFor, Remember, Expired,
                    RemoveExpired, Miss, UseShared, Connect, Exec,
                    Provider!abstractVars
<1>5. ASSUME Query(p)
      PROVE  Provider!Query(p)
  <2>1. pc[p] = "ok" /\ reconnects = 0
    BY <1>5 DEF Query
  <2>2. \A s \in conn[p] : path[s] = tenant[p]
    <3>1. CASE tenant[p] \in Tenants
      BY <2>1, <3>1 DEF IInv, Separation, Selected
    <3>2. CASE tenant[p] = Admin
      BY <3>2, ConstantsAssumption DEF IInv, Separation, AdminShared, SharedUnpinned
    <3> QED
      BY <2>1, <3>1, <3>2 DEF IInv, CallInv, CallState, Principals
  <2>3. seen' = [seen EXCEPT ![p] = tenant[p]]
    BY <1>5, <2>2 DEF Query
  <2> QED
    BY <1>5, <1>t, <2>1, <2>3 DEF Query, Provider!Query
<1>6. ASSUME Leave(p)
      PROVE  Provider!Leave(p)
  BY <1>6, <1>t DEF Leave, Provider!Leave
<1> QED
  BY <1>1, <1>2, <1>3, <1>4, <1>5, <1>6
     DEF Progress, Provider!Next, Provider!Principals

\* The clock and the pools are nothing to the abstract provider.
LEMMA OtherImplements ==
  ASSUME Tick \/ (\E s \in Sessions : Reconnect(s)) \/ UNCHANGED vars
  PROVE  UNCHANGED Provider!abstractVars
BY DEF Tick, Reconnect, vars, callVars, Provider!abstractVars

\* With a URL, schema-per-tenant is a TenantConnectionProvider until a session is
\* replaced: what a caller reads is the data of the tenant it asked for.
THEOREM Implements == Spec => ImplementsUntilReplaced
<1>1. Init => Provider!Init
  BY DEF Init, Provider!Init
<1>2. IInv /\ [Next]_vars =>
        (dedicated /\ reconnects' = 0 => [Provider!Next]_Provider!abstractVars)
  BY TaskImplements, OtherImplements DEF Next
<1>3. IInv /\ [Next]_vars =>
        [dedicated /\ reconnects' = 0 => [Provider!Next]_Provider!abstractVars]_vars
  BY <1>2
<1> QED
  BY <1>1, <1>3, Invariance, PTL DEF Spec, ImplementsUntilReplaced

=============================================================================
