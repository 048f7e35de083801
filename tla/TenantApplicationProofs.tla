---------------------- MODULE TenantApplicationProofs ----------------------
(***************************************************************************)
(* Theorems about TenantApplication: the application behaves as its        *)
(* database provider does, and as TenantMiddleware does, so that what is   *)
(* proved of both holds of it.                                             *)
(***************************************************************************)
EXTENDS TenantApplication, TenantMiddlewareProofs

DP == INSTANCE DatabaseProviderProofs WITH Tenants <- TenantIds, pc <- stage

applicationVars == <<pathVars, databaseVars, tenant, seen>>

\* The request path sees where the provider is with its call.
Linked ==
  /\ stage \in [Tasks -> D!Locations]
  /\ phase \in [Tasks -> {"idle", "pending", "ok", "err"}]
  /\ \A p \in Tasks : phase[p] = Phase(stage[p])

-----------------------------------------------------------------------------
(* The database provider in the application *)

LEMMA ProviderStep == [ApplicationNext]_applicationVars => [D!Next]_(D!vars)
<1> SUFFICES ASSUME [ApplicationNext]_applicationVars PROVE [D!Next]_(D!vars)
  OBVIOUS
<1> USE DEF D!vars, databaseVars, applicationVars
<1>1. CASE UNCHANGED applicationVars
  BY <1>1
<1>2. ASSUME NEW p \in Tasks, PathStep(p) PROVE UNCHANGED D!vars
  BY <1>2
  DEF PathStep, Skip, ResolvedFromClaims, ResolvedByChain, Inject, Missing, Failed,
      Bridge, NoTenantId, Connected, ConnectError, HandlerResponds, providerVars
<1>3. ASSUME NEW p \in Tasks, ArriveOrEnd(p) PROVE UNCHANGED D!vars
  BY <1>3 DEF ArriveOrEnd, Arrive, End, providerVars
<1>4. ASSUME NEW p \in Tasks,
             CallProvider(p) \/ ProviderWorks(p) \/ ProviderReturns(p)
               \/ QueryDatabase(p) \/ EndCall(p)
      PROVE  D!Next
  BY <1>4
  DEF CallProvider, ProviderWorks, ProviderReturns, QueryDatabase, EndCall, D!Next
<1>5. CASE Administration
  BY <1>5 DEF Administration, D!Next
<1> QED
  BY <1>1, <1>2, <1>3, <1>4, <1>5 DEF ApplicationNext, RequestProgress

\* What happens to the provider in the application happens to it on its own, too.
THEOREM ProviderInside == ApplicationSpec => D!Spec
<1>1. ApplicationInit => D!Init
  BY DEF ApplicationInit
<1> QED
  BY <1>1, ProviderStep, PTL DEF ApplicationSpec, D!Spec, applicationVars

\* DP, the proofs, is an instance of the same provider as D.
LEMMA SameProvider == (D!Spec <=> DP!Spec) /\ (D!OwnDatabase <=> DP!OwnDatabase)
<1>1. ASSUME NEW p \in Tasks PROVE D!Progress(p) <=> DP!Progress(p)
  <2>1. D!Hit(p) <=> DP!Hit(p)
    BY DEF D!Hit, DP!Hit, D!Cached, DP!Cached, D!Fresh, DP!Fresh,
           D!Goto, DP!Goto, D!mapVars, DP!mapVars, D!envVars, DP!envVars
  <2>2. D!Expired(p) <=> DP!Expired(p)
    BY DEF D!Expired, DP!Expired, D!Cached, DP!Cached, D!Fresh, DP!Fresh,
           D!Goto, DP!Goto, D!mapVars, DP!mapVars, D!envVars, DP!envVars
  <2>3. D!RemoveExpired(p) <=> DP!RemoveExpired(p)
    BY DEF D!RemoveExpired, DP!RemoveExpired, D!Cached, DP!Cached,
           D!Without, DP!Without, D!Restrict, DP!Restrict,
           D!Goto, DP!Goto, D!envVars, DP!envVars
  <2>4. D!Miss(p) <=> DP!Miss(p)
    BY DEF D!Miss, DP!Miss, D!Cached, DP!Cached, D!Goto, DP!Goto,
           D!mapVars, DP!mapVars, D!envVars, DP!envVars
  <2>5. D!UrlFor(p) <=> DP!UrlFor(p)
    BY DEF D!UrlFor, DP!UrlFor, D!Goto, DP!Goto, D!mapVars, DP!mapVars,
           D!envVars, DP!envVars
  <2>6. D!Fail(p) <=> DP!Fail(p)
    BY DEF D!Fail, DP!Fail, D!Goto, DP!Goto, D!mapVars, DP!mapVars,
           D!envVars, DP!envVars
  <2>7. D!Connect(p) <=> DP!Connect(p)
    BY DEF D!Connect, DP!Connect, D!Goto, DP!Goto, D!mapVars, DP!mapVars,
           D!envVars, DP!envVars
  <2>8. D!CheckLen(p) <=> DP!CheckLen(p)
    BY DEF D!CheckLen, DP!CheckLen, D!Cardinality, DP!Cardinality,
           D!Cached, DP!Cached, D!Goto, DP!Goto, D!mapVars, DP!mapVars,
           D!envVars, DP!envVars
  <2>9. D!PickOldest(p) <=> DP!PickOldest(p)
    BY DEF D!PickOldest, DP!PickOldest, D!Cached, DP!Cached,
           D!OldestKeys, DP!OldestKeys, D!Goto, DP!Goto, D!mapVars, DP!mapVars,
           D!envVars, DP!envVars
  <2>10. D!RemoveOldest(p) <=> DP!RemoveOldest(p)
    BY DEF D!RemoveOldest, DP!RemoveOldest, D!Cached, DP!Cached,
           D!Without, DP!Without, D!Restrict, DP!Restrict,
           D!Goto, DP!Goto, D!envVars, DP!envVars
  <2>11. D!Insert(p) <=> DP!Insert(p)
    BY DEF D!Insert, DP!Insert, D!Overtake, DP!Overtake, D!Cached, DP!Cached,
           D!Goto, DP!Goto
  <2>12. D!LookupDefault(p) <=> DP!LookupDefault(p)
    BY DEF D!LookupDefault, DP!LookupDefault, D!DefaultUrl, DP!DefaultUrl,
           D!Goto, DP!Goto, D!mapVars, DP!mapVars, D!envVars, DP!envVars
  <2>13. D!ConnectDefault(p) <=> DP!ConnectDefault(p)
    BY DEF D!ConnectDefault, DP!ConnectDefault, D!Goto, DP!Goto,
           D!envVars, DP!envVars
  <2> QED
    BY <2>1, <2>2, <2>3, <2>4, <2>5, <2>6, <2>7, <2>8, <2>9, <2>10,
       <2>11, <2>12, <2>13
    DEF D!Progress, DP!Progress
<1>2. D!Next <=> DP!Next
  <2>1. \A p \in Tasks : \A t \in TenantIds :
          D!ConnectionFor(p, t) <=> DP!ConnectionFor(p, t)
    BY DEF D!ConnectionFor, DP!ConnectionFor, D!Goto, DP!Goto,
           D!mapVars, DP!mapVars, D!envVars, DP!envVars
  <2>2. \A p \in Tasks : D!AnyConnection(p) <=> DP!AnyConnection(p)
    BY DEF D!AnyConnection, DP!AnyConnection, D!Goto, DP!Goto,
           D!mapVars, DP!mapVars, D!envVars, DP!envVars
  <2>3. \A p \in Tasks : D!Query(p) <=> DP!Query(p)
    BY DEF D!Query, DP!Query, D!mapVars, DP!mapVars, D!envVars, DP!envVars
  <2>4. \A p \in Tasks : D!Leave(p) <=> DP!Leave(p)
    BY DEF D!Leave, DP!Leave, D!mapVars, DP!mapVars, D!envVars, DP!envVars
  <2>5. \A t \in TenantIds : D!EvictTenant(t) <=> DP!EvictTenant(t)
    BY DEF D!EvictTenant, DP!EvictTenant, D!Cached, DP!Cached,
           D!Without, DP!Without, D!Restrict, DP!Restrict, D!Carrying, DP!Carrying,
           D!taskVars, DP!taskVars
  <2>6. D!EvictExpired <=> DP!EvictExpired
    BY DEF D!EvictExpired, DP!EvictExpired, D!taskVars, DP!taskVars,
           D!envVars, DP!envVars
  <2>7. \A s \in sweep : D!SweepShard(s) <=> DP!SweepShard(s)
    BY DEF D!SweepShard, DP!SweepShard, D!Cached, DP!Cached, D!Fresh, DP!Fresh,
           D!Without, DP!Without, D!Restrict, DP!Restrict, D!taskVars, DP!taskVars,
           D!envVars, DP!envVars
  <2>8. \A t \in TenantIds : D!Rehome(t) <=> DP!Rehome(t)
    BY DEF D!Rehome, DP!Rehome, D!mapVars, DP!mapVars, D!taskVars, DP!taskVars
  <2>9. D!Tick <=> DP!Tick
    BY DEF D!Tick, DP!Tick, D!mapVars, DP!mapVars, D!taskVars, DP!taskVars
  <2> QED
    BY <1>1, <2>1, <2>2, <2>3, <2>4, <2>5, <2>6, <2>7, <2>8, <2>9, Zenon
    DEF D!Next, DP!Next
<1>3. D!Init <=> DP!Init
  BY DEF D!Init, DP!Init
<1>4. D!vars = DP!vars
  BY DEF D!vars, DP!vars
<1>5. D!OwnDatabase <=> DP!OwnDatabase
  BY DEF D!OwnDatabase, DP!OwnDatabase, D!Cached, DP!Cached, D!Carrying, DP!Carrying
<1>6. [D!Next]_(D!vars) <=> [DP!Next]_(DP!vars)
  <2>1. D!Next \/ D!vars' = D!vars <=> DP!Next \/ DP!vars' = DP!vars
    <3>1. D!vars' = D!vars <=> DP!vars' = DP!vars
      BY DEF D!vars, DP!vars
    <3> QED
      BY <1>2, <3>1, Zenon
  <2> QED
    BY <2>1
<1>7. D!Spec <=> DP!Spec
  BY <1>3, <1>6, PTL DEF D!Spec, DP!Spec
<1> QED
  BY <1>5, <1>7

\* The database provider keeps the tenants apart in the application.
LEMMA OwnInside == ApplicationSpec => []D!OwnDatabase
<1>1. DP!ConstantsAssumption
  BY ApplicationAssumption, MiddlewareAssumption DEF DP!ConstantsAssumption
<1>2. DP!Spec => []DP!OwnDatabase
  BY <1>1, DP!Isolation
<1>3. D!OwnDatabase <=> DP!OwnDatabase
  BY SameProvider
<1>4. D!Spec <=> DP!Spec
  BY SameProvider
<1> QED
  BY <1>2, <1>3, <1>4, ProviderInside, PTL

-----------------------------------------------------------------------------
(* The application implements TenantMiddleware *)

LEMMA InitLinked == ApplicationInit => Linked
BY DEF ApplicationInit, D!Init, Init, Provider!Init, Linked, Phase, D!Locations

\* A step of a call changes the location of that call alone.
LEMMA CallMoves ==
  ASSUME NEW p \in Tasks, stage \in [Tasks -> D!Locations], D!Progress(p)
  PROVE  /\ \E s \in D!Locations : stage' = [stage EXCEPT ![p] = s]
         /\ stage[p] \notin {"idle", "ok", "err"}
         /\ UNCHANGED <<tenant, seen>>
BY DEF D!Progress, D!Hit, D!Expired, D!RemoveExpired, D!Miss, D!UrlFor, D!Fail,
       D!Connect, D!CheckLen, D!PickOldest, D!RemoveOldest, D!Insert,
       D!LookupDefault, D!ConnectDefault, D!Goto, D!Locations

LEMMA NextLinked == Linked /\ [ApplicationNext]_applicationVars => Linked'
<1> SUFFICES ASSUME Linked, [ApplicationNext]_applicationVars PROVE Linked'
  OBVIOUS
<1>1. CASE UNCHANGED applicationVars
  BY <1>1 DEF Linked, applicationVars, pathVars, databaseVars
<1>2. ASSUME NEW p \in Tasks, PathStep(p) PROVE Linked'
  <2>1. UNCHANGED <<stage, phase>>
    BY <1>2
    DEF PathStep, Skip, ResolvedFromClaims, ResolvedByChain, Inject, Missing, Failed,
        Bridge, NoTenantId, Connected, ConnectError, HandlerResponds, providerVars,
        databaseVars
  <2> QED
    BY <2>1 DEF Linked
<1>3. ASSUME NEW p \in Tasks, ArriveOrEnd(p) PROVE Linked'
  <2>1. UNCHANGED <<stage, phase>>
    BY <1>3 DEF ArriveOrEnd, Arrive, End, providerVars, databaseVars
  <2> QED
    BY <2>1 DEF Linked
<1>4. ASSUME NEW p \in Tasks, CallProvider(p) PROVE Linked'
  <2>1. /\ stage' = [stage EXCEPT ![p] = "lookup"]
        /\ phase' = [phase EXCEPT ![p] = "pending"]
    BY <1>4 DEF CallProvider, D!ConnectionFor, D!Goto, Connect, Provider!Call
  <2> QED
    BY <2>1 DEF Linked, Phase, D!Locations
<1>5. ASSUME NEW p \in Tasks, ProviderWorks(p) PROVE Linked'
  <2>1. /\ \E s \in D!Locations : stage' = [stage EXCEPT ![p] = s]
        /\ Phase(stage'[p]) = phase[p] /\ phase' = phase
    BY <1>5, CallMoves DEF Linked, ProviderWorks, pathVars
  <2> QED
    BY <2>1 DEF Linked
<1>6. ASSUME NEW p \in Tasks, ProviderReturns(p) PROVE Linked'
  <2>1. /\ \E s \in D!Locations : stage' = [stage EXCEPT ![p] = s]
        /\ \E a \in {"ok", "err"} : phase' = [phase EXCEPT ![p] = a]
        /\ phase'[p] = Phase(stage'[p])
    BY <1>6, CallMoves DEF Linked, ProviderReturns, ProviderAnswers, Provider!Answer
  <2> QED
    BY <2>1 DEF Linked
<1>7. ASSUME NEW p \in Tasks, QueryDatabase(p) PROVE Linked'
  BY <1>7 DEF Linked, QueryDatabase, D!Query, pathVars
<1>8. ASSUME NEW p \in Tasks, EndCall(p) PROVE Linked'
  <2>1. stage[p] # "idle" /\ stage' = [stage EXCEPT ![p] = "idle"]
    BY <1>8 DEF EndCall, D!Leave
  <2>2. phase[p] # "idle"
    BY <2>1 DEF Linked, Phase
  <2>3. phase' = [phase EXCEPT ![p] = "idle"]
    BY <1>8, <2>2 DEF EndCall, End, Provider!Leave
  <2> QED
    BY <2>1, <2>3 DEF Linked, Phase, D!Locations
<1>9. CASE Administration
  <2>1. UNCHANGED <<stage, phase>>
    BY <1>9
    DEF Administration, D!EvictTenant, D!EvictExpired, D!SweepShard, D!Rehome, D!Tick,
        D!taskVars, pathVars
  <2> QED
    BY <2>1 DEF Linked
<1> QED
  BY <1>1, <1>2, <1>3, <1>4, <1>5, <1>6, <1>7, <1>8, <1>9
  DEF ApplicationNext, RequestProgress

LEMMA MiddlewareStep ==
  Linked /\ D!OwnDatabase /\ [ApplicationNext]_applicationVars => [Next]_vars
<1> SUFFICES ASSUME Linked, D!OwnDatabase, [ApplicationNext]_applicationVars
             PROVE  [Next]_vars
  OBVIOUS
<1> USE DEF vars, pathVars, requestVars, providerVars
<1>1. CASE UNCHANGED applicationVars
  BY <1>1 DEF applicationVars
<1>2. ASSUME NEW p \in Tasks, PathStep(p) PROVE Next
  BY <1>2 DEF PathStep, Progress, Next
<1>3. ASSUME NEW p \in Tasks, ArriveOrEnd(p) PROVE Next
  BY <1>3 DEF ArriveOrEnd, Next
<1>4. ASSUME NEW p \in Tasks, CallProvider(p) PROVE Next
  BY <1>4 DEF CallProvider, Progress, Next
<1>5. ASSUME NEW p \in Tasks, ProviderWorks(p) PROVE UNCHANGED vars
  BY <1>5, CallMoves DEF ProviderWorks, Linked
<1>6. ASSUME NEW p \in Tasks, ProviderReturns(p) PROVE Next
  BY <1>6 DEF ProviderReturns, Progress, Next
<1>7. ASSUME NEW p \in Tasks, QueryDatabase(p) PROVE Next
  <2>1. /\ InHandler(p) /\ db[p] /\ UNCHANGED pathVars
        /\ stage[p] = "ok" /\ seen' = [seen EXCEPT ![p] = url[p].db]
        /\ UNCHANGED tenant
    BY <1>7 DEF QueryDatabase, D!Query
  <2>2. url[p].db = tenant[p]
    BY <2>1 DEF D!OwnDatabase
  <2>3. phase[p] = "ok"
    BY <2>1 DEF Linked, Phase
  <2>4. HandlerQueries(p)
    BY <2>1, <2>2, <2>3 DEF HandlerQueries, Provider!Query
  <2> QED
    BY <2>4 DEF Next
<1>8. ASSUME NEW p \in Tasks, EndCall(p) PROVE Next
  BY <1>8 DEF EndCall, Next
<1>9. CASE Administration
  BY <1>9
  DEF Administration, D!EvictTenant, D!EvictExpired, D!SweepShard, D!Rehome, D!Tick,
      D!taskVars
<1> QED
  BY <1>1, <1>2, <1>3, <1>4, <1>5, <1>6, <1>7, <1>8, <1>9
  DEF ApplicationNext, RequestProgress

\* The layers over the database provider do what they do over the abstract one, the
\* reads of handlers included.
THEOREM Composition == ApplicationSpec => ImplementsMiddleware
<1>1. ApplicationInit => Init
  BY DEF ApplicationInit
<1> QED
  BY <1>1, InitLinked, NextLinked, MiddlewareStep, OwnInside, PTL
  DEF ApplicationSpec, applicationVars, ImplementsMiddleware, Spec

\* What a handler reads over its pool is of the tenant in its TenantContext, beside
\* any other requests, evictions, expiry and moves of tenants.
THEOREM ReadsDatabase == ApplicationSpec => []EndToEnd
BY Composition, Reads, PTL DEF ImplementsMiddleware

\* A handler that TenantDbLayer found a TenantId for has its connection, answered
\* for that tenant, whatever fails, is evicted or overlaps in the provider.
THEOREM HasConnection == ApplicationSpec => []Connectedness
BY Composition, Connection, PTL DEF ImplementsMiddleware

=============================================================================
