----------------------- MODULE DatabaseProviderProofs -----------------------
(***************************************************************************)
(* Theorems about DatabaseProvider, for every set of tenants and tasks,    *)
(* every capacity, time to live and sharding.                              *)
(***************************************************************************)
EXTENDS DatabaseProvider, FiniteSetTheorems, TLAPS

Tenanted == {"lookup", "expired", "url", "connect", "len", "oldest", "remove",
             "insert"}

\* What connection_for and any_connection know at each of their points.
CallState ==
  \A p \in Tasks :
    /\ pc[p] = "idle" => tenant[p] = None
    /\ pc[p] \in Tenanted => tenant[p] \in Tenants
    /\ pc[p] \in {"any", "default"} => tenant[p] = Admin
    /\ pc[p] = "default" => url[p] = DefaultUrl
    /\ Carrying(p) => url[p] \in [db : Tenants, rev : Nat]
    /\ pc[p] = "ok" => url[p] \in Url
    /\ pc[p] = "remove" => victim[p] \in Tenants

IInv == TypeOK /\ OwnDatabase /\ CallState

USE ConstantsAssumption

\* Removing keys leaves every other entry as it is.
LEMMA Removal ==
  ASSUME NEW S, cache' = Without(S)
  PROVE  /\ Cached' = Cached \ S
         /\ \A t \in Cached' : cache'[t] = cache[t]
BY DEF Without, Restrict, Cached

LEMMA InitIInv == Init => IInv
<1> SUFFICES ASSUME Init PROVE IInv
  OBVIOUS
<1>1. TypeOK
  BY DEF Init, TypeOK, Cached, Locations
<1>2. OwnDatabase
  BY DEF Init, OwnDatabase, Cached, Carrying
<1>3. CallState
  BY DEF Init, CallState, Carrying, Tenanted
<1> QED
  BY <1>1, <1>2, <1>3 DEF IInv

LEMMA TaskStep ==
  ASSUME IInv, NEW p \in Tasks,
         \/ \E t \in Tenants : ConnectionFor(p, t)
         \/ AnyConnection(p)
         \/ Progress(p)
         \/ Query(p)
         \/ Leave(p)
  PROVE  IInv'
<1> USE DEF IInv, TypeOK, OwnDatabase, CallState, Carrying, Tenanted, Goto,
            mapVars, envVars
<1>1. ASSUME NEW t \in Tenants, ConnectionFor(p, t)
      PROVE  IInv'
  BY <1>1 DEF Cached, ConnectionFor, Locations, Principals
<1>2. ASSUME AnyConnection(p)
      PROVE  IInv'
  BY <1>2 DEF Cached, AnyConnection, Locations, Principals
<1>3. ASSUME Hit(p)
      PROVE  IInv'
  BY <1>3 DEF Cached, Hit, Locations, Entry, Url, Principals
<1>4. ASSUME Expired(p)
      PROVE  IInv'
  BY <1>4 DEF Cached, Expired, Locations
<1>5. ASSUME RemoveExpired(p)
      PROVE  IInv'
  <2>1. cache' = Without({tenant[p]})
    BY <1>5 DEF RemoveExpired
  <2>2. /\ Cached' = Cached \ {tenant[p]}
        /\ \A k \in Cached' : cache'[k] = cache[k]
    BY <2>1, Removal
  <2>3. TypeOK'
    BY <1>5, <2>2 DEF RemoveExpired, Locations
  <2>4. OwnDatabase'
    BY <1>5, <2>2, ZenonT(30) DEF RemoveExpired, Locations
  <2>5. CallState'
    BY <1>5, <2>2 DEF RemoveExpired, Locations
  <2> QED
    BY <2>3, <2>4, <2>5
<1>6. ASSUME Miss(p)
      PROVE  IInv'
  BY <1>6 DEF Cached, Miss, Locations
<1>7. ASSUME UrlFor(p)
      PROVE  IInv'
  BY <1>7 DEF Cached, UrlFor, Locations, Url, Principals
<1>8. ASSUME Fail(p)
      PROVE  IInv'
  BY <1>8 DEF Cached, Fail, Locations
<1>9. ASSUME Connect(p)
      PROVE  IInv'
  BY <1>9 DEF Cached, Connect, Locations
<1>10. ASSUME CheckLen(p)
      PROVE  IInv'
  BY <1>10 DEF Cached, CheckLen, Locations
<1>11. ASSUME PickOldest(p)
      PROVE  IInv'
  <2>1. CASE Cached = {} /\ Goto(p, "oldest", "insert") /\ UNCHANGED victim
    BY <1>11, <2>1 DEF Cached, PickOldest, Locations
  <2>2. CASE Goto(p, "oldest", "remove")
    <3>1. PICK k \in OldestKeys : victim' = [victim EXCEPT ![p] = k]
      BY <1>11, <2>2 DEF PickOldest
    <3>2. k \in Tenants
      BY DEF OldestKeys
    <3> QED
      BY <1>11, <2>2, <3>1, <3>2 DEF Cached, PickOldest, Locations
  <2> QED
    BY <1>11, <2>1, <2>2 DEF PickOldest
<1>12. ASSUME RemoveOldest(p)
      PROVE  IInv'
  <2>1. cache' = Without({victim[p]})
    BY <1>12 DEF RemoveOldest
  <2>2. /\ Cached' = Cached \ {victim[p]}
        /\ \A k \in Cached' : cache'[k] = cache[k]
    BY <2>1, Removal
  <2>3. TypeOK'
    BY <1>12, <2>2 DEF RemoveOldest, Locations
  <2>4. OwnDatabase'
    BY <1>12, <2>2, ZenonT(30) DEF RemoveOldest, Locations
  <2>5. CallState'
    BY <1>12, <2>2 DEF RemoveOldest, Locations
  <2> QED
    BY <2>3, <2>4, <2>5
<1>13. ASSUME Insert(p)
      PROVE  IInv'
  BY <1>13 DEF Cached, Insert, Overtake, Locations, Entry, Url, Principals
<1>14. ASSUME LookupDefault(p)
      PROVE  IInv'
  BY <1>14 DEF Cached, LookupDefault, Locations, DefaultUrl, Url, Principals
<1>15. ASSUME ConnectDefault(p)
      PROVE  IInv'
  BY <1>15 DEF Cached, ConnectDefault, Locations, DefaultUrl, Url, Principals
<1>16. ASSUME Query(p)
      PROVE  IInv'
  BY <1>16 DEF Cached, Query, Url
<1>17. ASSUME Leave(p)
      PROVE  IInv'
  BY <1>17 DEF Cached, Leave, Locations
<1> QED
  BY <1>1, <1>2, <1>3, <1>4, <1>5, <1>6, <1>7, <1>8, <1>9, <1>10, <1>11, <1>12,
     <1>13, <1>14, <1>15, <1>16, <1>17
  DEF Progress

LEMMA AdminStep ==
  ASSUME IInv,
         \/ \E t \in Tenants : EvictTenant(t) \/ Rehome(t)
         \/ EvictExpired
         \/ \E s \in sweep : SweepShard(s)
         \/ Tick
  PROVE  IInv'
<1> USE DEF IInv, TypeOK, OwnDatabase, CallState, Carrying, Tenanted, taskVars
<1>1. ASSUME NEW t \in Tenants, EvictTenant(t)
      PROVE  IInv'
  <2>1. cache' = Without({t})
    BY <1>1 DEF EvictTenant
  <2>2. /\ Cached' = Cached \ {t}
        /\ \A k \in Cached' : cache'[k] = cache[k]
    BY <2>1, Removal
  <2> QED
    BY <1>1, <2>2 DEF EvictTenant
<1>2. ASSUME NEW t \in Tenants, Rehome(t)
      PROVE  IInv'
  BY <1>2 DEF Cached, Rehome, mapVars
<1>3. ASSUME EvictExpired
      PROVE  IInv'
  BY <1>3 DEF Cached, EvictExpired, envVars
<1>4. ASSUME NEW s \in sweep, SweepShard(s)
      PROVE  IInv'
  <2>1. cache' = Without({t \in s \cap Cached : ~Fresh(t)})
    BY <1>4 DEF SweepShard
  <2>2. /\ Cached' = Cached \ {t \in s \cap Cached : ~Fresh(t)}
        /\ \A k \in Cached' : cache'[k] = cache[k]
    BY <2>1, Removal
  <2> QED
    BY <1>4, <2>2 DEF SweepShard, envVars
<1>5. ASSUME Tick
      PROVE  IInv'
  BY <1>5 DEF Cached, Tick, mapVars, Entry
<1> QED
  BY <1>1, <1>2, <1>3, <1>4, <1>5

LEMMA StutterStep ==
  ASSUME IInv, UNCHANGED vars
  PROVE  IInv'
BY DEF IInv, TypeOK, OwnDatabase, CallState, Carrying, Cached, vars

\* The inductive invariant: types, whose database each connection is, and what
\* a call knows at each of its awaits.
THEOREM Invariance == Spec => []IInv
<1>1. Init => IInv
  BY InitIInv
<1>2. IInv /\ [Next]_vars => IInv'
  BY TaskStep, AdminStep, StutterStep DEF Next
<1> QED
  BY <1>1, <1>2, PTL DEF Spec

\* The state keeps its types, and no entry is dated later than the clock.
THEOREM TypeCorrect == Spec => []TypeOK
BY Invariance, PTL DEF IInv

\* A tenant's entry, and the connection a call goes on with, are on that
\* tenant's database, under every interleaving of any number of calls.
THEOREM Isolation == Spec => []OwnDatabase
BY Invariance, PTL DEF IInv

-----------------------------------------------------------------------------
(* The provider implements ConnectionProvider *)

LEMMA InitImplements == Init => Provider!Init
BY DEF Init, Provider!Init

\* Every step of a task is a step of the abstract provider, or none.
LEMMA TaskImplements ==
  ASSUME IInv, NEW p \in Tasks,
         \/ \E t \in Tenants : ConnectionFor(p, t)
         \/ AnyConnection(p)
         \/ Progress(p)
         \/ Query(p)
         \/ Leave(p)
  PROVE  Provider!Next \/ UNCHANGED Provider!abstractVars
<1> USE DEF Goto, mapVars, envVars
<1>t. pc \in [Tasks -> Locations]
  BY DEF IInv, TypeOK
<1>1. ASSUME NEW t \in Tenants, ConnectionFor(p, t)
      PROVE  Provider!Call(p, t)
  BY <1>1, <1>t DEF ConnectionFor, Provider!Call
<1>2. ASSUME AnyConnection(p)
      PROVE  Provider!Call(p, Admin)
  BY <1>2, <1>t DEF AnyConnection, Provider!Call
<1>3. ASSUME Hit(p) \/ Fail(p) \/ Insert(p) \/ ConnectDefault(p)
      PROVE  Provider!Answer(p)
  BY <1>3, <1>t DEF Hit, Fail, Insert, ConnectDefault, Provider!Answer
<1>4. ASSUME LookupDefault(p)
      PROVE  Provider!Answer(p) \/ UNCHANGED Provider!abstractVars
  BY <1>4, <1>t DEF LookupDefault, Provider!Answer, Provider!abstractVars
<1>5. ASSUME \/ Expired(p) \/ RemoveExpired(p) \/ Miss(p) \/ UrlFor(p)
             \/ Connect(p) \/ CheckLen(p) \/ PickOldest(p) \/ RemoveOldest(p)
      PROVE  UNCHANGED Provider!abstractVars
  BY <1>5, <1>t DEF Expired, RemoveExpired, Miss, UrlFor, Connect, CheckLen,
                    PickOldest, RemoveOldest, Provider!abstractVars
<1>6. ASSUME Query(p)
      PROVE  Provider!Query(p)
  BY <1>6, <1>t DEF IInv, OwnDatabase, Query, Provider!Query
<1>7. ASSUME Leave(p)
      PROVE  Provider!Leave(p)
  BY <1>7, <1>t DEF Leave, Provider!Leave
<1> QED
  BY <1>1, <1>2, <1>3, <1>4, <1>5, <1>6, <1>7
     DEF Progress, Provider!Next, Provider!Principals

LEMMA AdminImplements ==
  ASSUME \/ \E t \in Tenants : EvictTenant(t) \/ Rehome(t)
         \/ EvictExpired
         \/ \E s \in sweep : SweepShard(s)
         \/ Tick
         \/ UNCHANGED vars
  PROVE  UNCHANGED Provider!abstractVars
BY DEF EvictTenant, Rehome, EvictExpired, SweepShard, Tick, vars, taskVars,
       Provider!abstractVars

\* Database-per-tenant is a TenantConnectionProvider: each call is answered for
\* its own tenant, and all that is read over the answer is that tenant's.
THEOREM Implements == Spec => ImplementsProvider
<1>1. IInv /\ [Next]_vars => [Provider!Next]_Provider!abstractVars
  BY TaskImplements, AdminImplements DEF Next
<1> QED
  BY InitImplements, Invariance, <1>1, PTL DEF Spec, ImplementsProvider, Provider!Spec

-----------------------------------------------------------------------------
(* A flush is effective *)

\* Why FlushEffective is preserved: while no older call is under way, neither
\* the entry nor any call that may still write it is older than the flush.
FlushInv ==
  \A t \in Tenants :
    /\ flushed[t] <= revision[t]
    /\ ~raced[t] =>
         /\ t \in Cached => cache[t].url.rev >= flushed[t]
         /\ \A p \in Tasks :
              Carrying(p) /\ tenant[p] = t => url[p].rev >= flushed[t]

LEMMA TaskFlush ==
  ASSUME IInv, FlushInv, NEW p \in Tasks,
         \/ \E t \in Tenants : ConnectionFor(p, t)
         \/ AnyConnection(p)
         \/ Progress(p)
         \/ Query(p)
         \/ Leave(p)
  PROVE  FlushInv'
<1> USE DEF FlushInv, Carrying, Goto, mapVars, envVars
<1>t. /\ pc \in [Tasks -> Locations]
      /\ tenant \in [Tasks -> Principals \cup {None}]
      /\ url \in [Tasks -> Url \cup {None}]
      /\ revision \in [Tenants -> Nat]
  BY DEF IInv, TypeOK
<1>1. ASSUME NEW t \in Tenants, ConnectionFor(p, t)
      PROVE  FlushInv'
  BY <1>1, <1>t DEF Cached, ConnectionFor
<1>2. ASSUME \/ AnyConnection(p) \/ LookupDefault(p) \/ ConnectDefault(p)
             \/ Hit(p) \/ Expired(p) \/ Miss(p) \/ Fail(p)
             \/ Query(p) \/ Leave(p)
      PROVE  FlushInv'
  BY <1>2, <1>t DEF Cached, AnyConnection, LookupDefault, ConnectDefault, Hit,
                    Expired, Miss, Fail, Query, Leave
<1>3. ASSUME UrlFor(p)
      PROVE  FlushInv'
  BY <1>3, <1>t DEF Cached, UrlFor, IInv, CallState, Tenanted
<1>4. ASSUME Connect(p) \/ CheckLen(p) \/ PickOldest(p)
      PROVE  FlushInv'
  BY <1>4, <1>t DEF Cached, Connect, CheckLen, PickOldest
<1>5. ASSUME RemoveExpired(p) \/ RemoveOldest(p)
      PROVE  FlushInv'
  <2>1. PICK S : cache' = Without(S)
    BY <1>5 DEF RemoveExpired, RemoveOldest
  <2>2. Cached' \subseteq Cached /\ \A k \in Cached' : cache'[k] = cache[k]
    BY <2>1, Removal
  <2> QED
    BY <1>5, <1>t, <2>2 DEF RemoveExpired, RemoveOldest
<1>6. ASSUME Insert(p)
      PROVE  FlushInv'
  BY <1>6, <1>t DEF Cached, Insert
<1> QED
  BY <1>1, <1>2, <1>3, <1>4, <1>5, <1>6 DEF Progress

LEMMA AdminFlush ==
  ASSUME IInv, FlushInv,
         \/ \E t \in Tenants : EvictTenant(t) \/ Rehome(t)
         \/ EvictExpired
         \/ \E s \in sweep : SweepShard(s)
         \/ Tick
         \/ UNCHANGED vars
  PROVE  FlushInv'
<1> USE DEF FlushInv, Carrying, taskVars
<1>t. /\ revision \in [Tenants -> Nat]
      /\ flushed \in [Tenants -> Nat]
      /\ raced \in [Tenants -> BOOLEAN]
      /\ \A p \in Tasks : Carrying(p) => url[p].rev \in Nat
  BY DEF IInv, TypeOK, CallState
<1>1. ASSUME NEW t \in Tenants, EvictTenant(t)
      PROVE  FlushInv'
  <2>1. cache' = Without({t})
    BY <1>1 DEF EvictTenant
  <2>2. Cached' = Cached \ {t} /\ \A k \in Cached' : cache'[k] = cache[k]
    BY <2>1, Removal
  <2>3. ASSUME NEW u \in Tenants, u # t
        PROVE  FlushInv!(u)'
    BY <1>1, <1>t, <2>2, <2>3 DEF EvictTenant
  <2>4. ASSUME ~raced'[t], NEW p \in Tasks, Carrying(p), tenant[p] = t
        PROVE  url[p].rev >= revision[t]
    <3>1. raced'[t] = \E q \in Tasks : /\ tenant[q] = t
                                       /\ Carrying(q)
                                       /\ url[q].rev < revision[t]
      BY <1>1, <1>t DEF EvictTenant
    <3>2. ~(url[p].rev < revision[t])
      BY <2>4, <3>1
    <3> QED
      BY <1>t, <2>4, <3>2
  <2>5. FlushInv!(t)'
    BY <1>1, <1>t, <2>2, <2>4 DEF EvictTenant
  <2> QED
    BY <2>3, <2>5
<1>2. ASSUME NEW t \in Tenants, Rehome(t)
      PROVE  FlushInv'
  BY <1>2, <1>t DEF Cached, Rehome, mapVars
<1>3. ASSUME EvictExpired \/ Tick \/ UNCHANGED vars
      PROVE  FlushInv'
  BY <1>3 DEF Cached, EvictExpired, Tick, mapVars, envVars, vars
<1>4. ASSUME NEW s \in sweep, SweepShard(s)
      PROVE  FlushInv'
  <2>1. cache' = Without({t \in s \cap Cached : ~Fresh(t)})
    BY <1>4 DEF SweepShard
  <2>2. Cached' \subseteq Cached /\ \A k \in Cached' : cache'[k] = cache[k]
    BY <2>1, Removal
  <2> QED
    BY <1>4, <2>2 DEF SweepShard, envVars
<1> QED
  BY <1>1, <1>2, <1>3, <1>4

\* Once a tenant is evicted while no call held an older URL, its older URLs are
\* never served from the cache again.
THEOREM Flush == Spec => []FlushEffective
<1>1. Init => FlushInv
  BY DEF Init, FlushInv, Cached, Carrying
<1>2. IInv /\ FlushInv /\ [Next]_vars => FlushInv'
  BY TaskFlush, AdminFlush DEF Next
<1>3. IInv /\ FlushInv => FlushEffective
  BY DEF IInv, TypeOK, FlushInv, FlushEffective
<1> QED
  BY Invariance, <1>1, <1>2, <1>3, PTL DEF Spec

-----------------------------------------------------------------------------
(* The capacity, as long as nobody takes the place another has made *)

\* Why the capacity is kept until a call overtakes another: between the test of the
\* length and the insertion only removals happen, so the place found or made stays.
CapacityInv ==
  /\ IsFiniteSet(Cached)
  /\ Cardinality(Cached) <= Limit
  /\ \A p \in Tasks :
       /\ pc[p] = "insert" => Cardinality(Cached) < Limit
       /\ pc[p] = "remove" => victim[p] \in Cached \/ Cardinality(Cached) < Limit

LEMMA LimitType == Limit \in Nat /\ 0 < Limit /\ MaxConnections <= Limit
BY DEF Limit

\* A removal makes the cache smaller exactly if it finds its key.
LEMMA RemovalSize ==
  ASSUME IsFiniteSet(Cached), NEW S, cache' = Without(S)
  PROVE  /\ IsFiniteSet(Cached')
         /\ Cardinality(Cached') <= Cardinality(Cached)
         /\ \A k \in Cached : k \notin Cached' =>
                              Cardinality(Cached') < Cardinality(Cached)
         /\ Cardinality(Cached) \in Nat /\ Cardinality(Cached') \in Nat
<1>1. Cached' \subseteq Cached
  BY Removal
<1>2. /\ IsFiniteSet(Cached')
      /\ Cardinality(Cached') <= Cardinality(Cached)
      /\ Cardinality(Cached) = Cardinality(Cached') => Cached = Cached'
  BY <1>1, FS_Subset
<1>3. Cardinality(Cached) \in Nat /\ Cardinality(Cached') \in Nat
  BY <1>2, FS_CardinalityType
<1> QED
  BY <1>2, <1>3

\* A removal by evict_tenant, by a sweep or by a lookup disturbs no call.
LEMMA RemovalCapacity ==
  ASSUME CapacityInv, NEW S, cache' = Without(S), UNCHANGED victim,
         pc \in [Tasks -> Locations],
         \/ UNCHANGED pc
         \/ \E p \in Tasks : Goto(p, "expired", "url")
  PROVE  CapacityInv'
<1>1. \A p \in Tasks : pc'[p] \in {"insert", "remove"} => pc'[p] = pc[p]
  BY DEF Goto
<1>2. Cardinality(Cached) \in Nat /\ Cardinality(Cached') \in Nat
  BY RemovalSize DEF CapacityInv
<1>3. Cardinality(Cached') <= Limit /\ IsFiniteSet(Cached')
  BY RemovalSize, LimitType, <1>2 DEF CapacityInv
<1>4. ASSUME NEW p \in Tasks, pc'[p] = "insert"
      PROVE  Cardinality(Cached') < Limit
  BY RemovalSize, LimitType, <1>1, <1>2, <1>4 DEF CapacityInv
<1>5. ASSUME NEW p \in Tasks, pc'[p] = "remove"
      PROVE  victim'[p] \in Cached' \/ Cardinality(Cached') < Limit
  BY RemovalSize, LimitType, <1>1, <1>2, <1>5 DEF CapacityInv
<1> QED
  BY <1>3, <1>4, <1>5 DEF CapacityInv

LEMMA StepCapacity ==
  ASSUME IInv, CapacityInv, [Next]_vars, ~overtaken'
  PROVE  CapacityInv'
<1> USE DEF Goto, mapVars, taskVars, envVars
<1>t. /\ pc \in [Tasks -> Locations]
      /\ victim \in [Tasks -> Tenants \cup {None}]
  BY DEF IInv, TypeOK
<1>c. Cardinality(Cached) \in Nat
  BY FS_CardinalityType DEF CapacityInv
<1>1. ASSUME UNCHANGED <<cache, victim>>, NEW p \in Tasks, NEW a \in Locations,
             pc' = [pc EXCEPT ![p] = a], a \notin {"insert", "remove"}
      PROVE  CapacityInv'
  BY <1>1, <1>t DEF CapacityInv, Cached
<1>2. ASSUME UNCHANGED <<cache, victim, pc>>
      PROVE  CapacityInv'
  BY <1>2 DEF CapacityInv, Cached
<1>3. ASSUME NEW p \in Tasks, CheckLen(p)
      PROVE  CapacityInv'
  BY <1>3, <1>t, <1>c, LimitType DEF CapacityInv, Cached, CheckLen
<1>4. ASSUME NEW p \in Tasks, PickOldest(p)
      PROVE  CapacityInv'
  <2>1. CASE Cached = {} /\ Goto(p, "oldest", "insert") /\ UNCHANGED victim
    <3>1. Cardinality(Cached) = 0
      BY <2>1, FS_EmptySet
    <3>2. Cached' = Cached
      BY <1>4 DEF PickOldest, Cached
    <3> QED
      BY <1>t, <2>1, <3>1, <3>2, LimitType DEF CapacityInv
  <2>2. CASE Goto(p, "oldest", "remove")
    <3>1. PICK k \in Cached : victim' = [victim EXCEPT ![p] = k]
      BY <1>4, <1>t, <2>2 DEF PickOldest, OldestKeys
    <3>2. Cached' = Cached
      BY <1>4 DEF PickOldest, Cached
    <3>3. victim'[p] \in Cached /\ pc'[p] = "remove"
      BY <1>t, <2>2, <3>1
    <3>4. \A q \in Tasks : q # p => UNCHANGED <<pc[q], victim[q]>>
      BY <1>t, <2>2, <3>1
    <3> QED
      BY <3>2, <3>3, <3>4 DEF CapacityInv
  <2> QED
    BY <1>4, <2>1, <2>2 DEF PickOldest
<1>5. ASSUME NEW p \in Tasks, RemoveOldest(p)
      PROVE  CapacityInv'
  <2>1. cache' = Without({victim[p]})
    BY <1>5 DEF RemoveOldest
  <2>2. /\ Cached' = Cached \ {victim[p]}
        /\ IsFiniteSet(Cached')
        /\ Cardinality(Cached') \in Nat
        /\ Cardinality(Cached') <= Cardinality(Cached)
        /\ victim[p] \in Cached => Cardinality(Cached') < Cardinality(Cached)
    BY <2>1, Removal, RemovalSize DEF CapacityInv
  <2>3. Cardinality(Cached') < Limit
    BY <1>5, <1>c, <2>2, LimitType DEF CapacityInv, RemoveOldest
  <2>4. IsFiniteSet(Cached') /\ Cardinality(Cached') <= Limit
    BY <2>2, <2>3, LimitType
  <2> QED
    BY <2>3, <2>4 DEF CapacityInv
<1>6. ASSUME NEW p \in Tasks, Insert(p)
      PROVE  CapacityInv'
  <2>1. Cached' = Cached \cup {tenant[p]}
    BY <1>6 DEF Insert, Cached
  <2>2. /\ IsFiniteSet(Cached \cup {tenant[p]})
        /\ Cardinality(Cached \cup {tenant[p]}) =
             IF tenant[p] \in Cached THEN Cardinality(Cached)
                                      ELSE Cardinality(Cached) + 1
    BY FS_AddElement DEF CapacityInv
  <2>3. /\ IsFiniteSet(Cached')
        /\ Cardinality(Cached') <= Cardinality(Cached) + 1
        /\ Cardinality(Cached') \in Nat
    BY <1>c, <2>1, <2>2, FS_CardinalityType
  <2>4. Cardinality(Cached') <= Limit
    BY <1>6, <1>c, <2>3, LimitType DEF CapacityInv, Insert
  <2>5. \A q \in Tasks : pc'[q] \notin {"remove", "insert"}
    BY <1>6, <1>t DEF Insert, Overtake
  <2> QED
    BY <2>3, <2>4, <2>5 DEF CapacityInv
<1>7. ASSUME NEW p \in Tasks, RemoveExpired(p)
      PROVE  CapacityInv'
  BY <1>7, <1>t, RemovalCapacity DEF RemoveExpired
<1>8. ASSUME NEW p \in Tasks,
             \/ \E t \in Tenants : ConnectionFor(p, t)
             \/ AnyConnection(p) \/ Hit(p) \/ Expired(p) \/ Miss(p)
             \/ UrlFor(p) \/ Fail(p) \/ Connect(p)
             \/ LookupDefault(p) \/ ConnectDefault(p) \/ Leave(p)
      PROVE  CapacityInv'
  <2>1. /\ UNCHANGED <<cache, victim>>
        /\ \E a \in Locations : /\ pc' = [pc EXCEPT ![p] = a]
                                /\ a \notin {"insert", "remove"}
    BY <1>8 DEF ConnectionFor, AnyConnection, Hit, Expired, Miss, UrlFor, Fail,
                Connect, LookupDefault, ConnectDefault, Leave, Locations
  <2> QED
    BY <1>1, <2>1
<1>9. ASSUME NEW t \in Tenants, EvictTenant(t)
      PROVE  CapacityInv'
  BY <1>9, <1>t, RemovalCapacity DEF EvictTenant
<1>10. ASSUME NEW s \in sweep, SweepShard(s)
      PROVE  CapacityInv'
  BY <1>10, <1>t, RemovalCapacity DEF SweepShard
<1>11. ASSUME \/ \E p \in Tasks : Query(p)
              \/ \E t \in Tenants : Rehome(t)
              \/ EvictExpired \/ Tick \/ UNCHANGED vars
      PROVE  CapacityInv'
  BY <1>2, <1>11 DEF Query, Rehome, EvictExpired, Tick, vars
<1> QED
  BY <1>3, <1>4, <1>5, <1>6, <1>7, <1>8, <1>9, <1>10, <1>11 DEF Next, Progress

\* Once a call has overtaken another, that stays on record.
LEMMA Recorded == [Next]_vars => (overtaken => overtaken')
<1>1. ASSUME NEW p \in Tasks, \/ \E t \in Tenants : ConnectionFor(p, t)
                              \/ AnyConnection(p) \/ Progress(p)
                              \/ Query(p) \/ Leave(p)
      PROVE  overtaken => overtaken'
  BY <1>1
  DEF ConnectionFor, AnyConnection, Progress, Hit, Expired, RemoveExpired, Miss,
      UrlFor, Fail, Connect, CheckLen, PickOldest, RemoveOldest, Insert, Overtake,
      LookupDefault, ConnectDefault, Query, Leave, envVars
<1>2. ASSUME \/ \E t \in Tenants : EvictTenant(t) \/ Rehome(t)
             \/ EvictExpired
             \/ \E s \in sweep : SweepShard(s)
             \/ Tick
             \/ UNCHANGED vars
      PROVE  overtaken => overtaken'
  BY <1>2 DEF EvictTenant, Rehome, EvictExpired, SweepShard, Tick, envVars, vars
<1> QED
  BY <1>1, <1>2 DEF Next

\* Any number of overlapping calls keep to the capacity, whatever the administration
\* does meanwhile, until one inserts while another has a place to take; calls that
\* do that exceed it (a run shows it).
THEOREM Capacity == Spec => []CapacityKept
<1>1. Init => (~overtaken => CapacityInv)
  <2>1. Init => Cached = {}
    BY DEF Init, Cached
  <2>2. Init => IsFiniteSet(Cached) /\ Cardinality(Cached) = 0
    BY <2>1, FS_EmptySet
  <2> QED
    BY <2>2, LimitType DEF Init, CapacityInv
<1>2. IInv /\ (~overtaken => CapacityInv) /\ [Next]_vars
        => (~overtaken => CapacityInv)'
  BY StepCapacity, Recorded
<1>3. (~overtaken => CapacityInv) => CapacityKept
  BY DEF CapacityInv, CapacityRespected, CapacityKept
<1> QED
  BY Invariance, <1>1, <1>2, <1>3, PTL DEF Spec

-----------------------------------------------------------------------------
(* What is evicted is the oldest, as long as nobody renews it in between *)

\* "Evicting oldest tenant connection to make room": what a call removes is, when it
\* removes it, an oldest entry.
EvictsOldest ==
  [][\A p \in Tasks : RemoveOldest(p) /\ victim[p] \in Cached
                        => victim[p] \in OldestKeys]_vars

\* A call renews a doomed entry: it caches a connection for a tenant that another
\* has chosen as the oldest, and is about to remove.
Renews(q) ==
  /\ Insert(q)
  /\ \E p \in Tasks : pc[p] = "remove" /\ victim[p] = tenant[q]

NoRenewal == [][\A q \in Tasks : ~Renews(q)]_vars

\* What a call has chosen to remove is still an oldest entry, if it is still there,
\* whatever was inserted and removed since.
DueInv ==
  \A p \in Tasks :
    pc[p] = "remove" /\ victim[p] \in Cached => victim[p] \in OldestKeys

\* The calls that are about to remove an entry were so before, for the same key.
Dooms ==
  \A p \in Tasks : pc'[p] = "remove" => pc[p] = "remove" /\ UNCHANGED victim[p]

\* Other removals leave an oldest entry oldest.
LEMMA RemovalDue ==
  ASSUME DueInv, Dooms, UNCHANGED cache \/ \E S : cache' = Without(S)
  PROVE  DueInv'
<1>1. Cached' \subseteq Cached /\ \A t \in Cached' : cache'[t] = cache[t]
  BY Removal DEF Cached
<1>2. \A t \in Cached' : t \in OldestKeys => t \in OldestKeys'
  BY <1>1 DEF OldestKeys
<1> QED
  BY <1>1, <1>2 DEF DueInv, Dooms

\* An insertion for another tenant does so, too: the new entry is the youngest.
LEMMA InsertDue ==
  ASSUME IInv, DueInv, NEW q \in Tasks, Insert(q), ~Renews(q)
  PROVE  DueInv'
<1> USE DEF IInv, TypeOK, Goto, envVars
<1>1. /\ Cached' = Cached \cup {tenant[q]}
      /\ cache'[tenant[q]].created = now
      /\ \A t \in Cached : t # tenant[q] => cache'[t] = cache[t]
  BY DEF Insert, Cached
<1>2. /\ pc[q] = "insert" /\ pc' = [pc EXCEPT ![q] = "ok"]
      /\ UNCHANGED <<tenant, victim, now>>
  BY DEF Insert
<1>3. \A t \in Cached : cache[t].created \in Nat /\ cache[t].created <= now
  BY DEF Entry
<1>4. ASSUME NEW p \in Tasks, pc'[p] = "remove", victim[p] \in Cached'
      PROVE  victim[p] \in OldestKeys'
  <2>1. pc[p] = "remove"
    BY <1>2, <1>4
  <2>2. victim[p] # tenant[q]
    BY <2>1 DEF Renews
  <2>3. victim[p] \in OldestKeys
    BY <1>1, <1>4, <2>1, <2>2 DEF DueInv
  <2>4. ASSUME NEW u \in Cached'
        PROVE  cache'[victim[p]].created <= cache'[u].created
    BY <1>1, <1>3, <2>2, <2>3, <2>4 DEF OldestKeys
  <2> QED
    BY <1>4, <2>4 DEF OldestKeys
<1> QED
  BY <1>2, <1>4 DEF DueInv

LEMMA StepDue ==
  ASSUME IInv, DueInv, [Next]_vars, [\A q \in Tasks : ~Renews(q)]_vars
  PROVE  DueInv'
<1> USE DEF Goto, mapVars, taskVars, envVars
<1>t. /\ pc \in [Tasks -> Locations]
      /\ victim \in [Tasks -> Tenants \cup {None}]
  BY DEF IInv, TypeOK
<1>1. ASSUME NEW p \in Tasks,
             \/ \E t \in Tenants : ConnectionFor(p, t)
             \/ AnyConnection(p) \/ Hit(p) \/ Expired(p) \/ Miss(p)
             \/ UrlFor(p) \/ Fail(p) \/ Connect(p) \/ CheckLen(p) \/ LookupDefault(p)
             \/ ConnectDefault(p) \/ Query(p) \/ Leave(p)
      PROVE  DueInv'
  <2>1. Dooms /\ UNCHANGED cache
    BY <1>1, <1>t DEF ConnectionFor, AnyConnection, Hit, Expired, Miss, UrlFor, Fail,
                      Connect, CheckLen, LookupDefault, ConnectDefault, Query, Leave, Dooms
  <2> QED
    BY <2>1, RemovalDue
<1>2. ASSUME NEW p \in Tasks, RemoveExpired(p) \/ RemoveOldest(p)
      PROVE  DueInv'
  <2>1. Dooms /\ \E S : cache' = Without(S)
    BY <1>2, <1>t DEF RemoveExpired, RemoveOldest, Dooms
  <2> QED
    BY <2>1, RemovalDue
<1>3. ASSUME NEW p \in Tasks, PickOldest(p)
      PROVE  DueInv'
  <2>1. UNCHANGED cache
    BY <1>3 DEF PickOldest
  <2>2. /\ \A q \in Tasks : q # p => UNCHANGED <<pc[q], victim[q]>>
        /\ pc'[p] = "remove" => victim'[p] \in OldestKeys
    BY <1>3, <1>t DEF PickOldest
  <2> QED
    BY <2>1, <2>2 DEF DueInv, Cached, OldestKeys
<1>4. ASSUME NEW p \in Tasks, Insert(p), ~Renews(p)
      PROVE  DueInv'
  BY <1>4, InsertDue
<1>5. ASSUME \/ \E t \in Tenants : EvictTenant(t) \/ Rehome(t)
             \/ EvictExpired
             \/ \E s \in sweep : SweepShard(s)
             \/ Tick
             \/ UNCHANGED vars
      PROVE  DueInv'
  <2>1. Dooms
    BY <1>5 DEF EvictTenant, Rehome, EvictExpired, SweepShard, Tick, vars, Dooms
  <2>2. UNCHANGED cache \/ \E S : cache' = Without(S)
    BY <1>5 DEF EvictTenant, Rehome, EvictExpired, SweepShard, Tick, vars
  <2> QED
    BY <2>1, <2>2, RemovalDue
<1> QED
  BY <1>1, <1>2, <1>3, <1>4, <1>5 DEF Next, Progress

LEMMA Dueness == Spec /\ NoRenewal => []DueInv
<1>1. Init => DueInv
  BY DEF Init, DueInv
<1>2. IInv /\ DueInv /\ [Next]_vars /\ [\A q \in Tasks : ~Renews(q)]_vars => DueInv'
  BY StepDue
<1> QED
  BY <1>1, <1>2, Invariance, PTL DEF Spec, NoRenewal

\* Under any number of overlapping calls, what evict_if_full removes is an oldest
\* entry, unless another call renews that very entry after it was chosen.
THEOREM Eviction == Spec /\ NoRenewal => EvictsOldest
<1>1. DueInv => [\A p \in Tasks : RemoveOldest(p) /\ victim[p] \in Cached
                                  => victim[p] \in OldestKeys]_vars
  BY DEF DueInv, RemoveOldest, Goto
<1> QED
  BY <1>1, Dueness, PTL DEF EvictsOldest

\* Calls that do not overlap do neither, so that both hold of them, whatever the
\* administration does meanwhile.
THEOREM OneAtATime ==
  ASSUME \A p, q \in Tasks : p = q
  PROVE  Spec => []CapacityRespected /\ EvictsOldest
<1>1. [Next]_vars => [\A q \in Tasks : ~Renews(q)]_vars
  BY DEF Renews, Insert, Goto
<1>2. Init => ~overtaken
  BY DEF Init
<1>3. ~overtaken /\ [Next]_vars => ~overtaken'
  <2> SUFFICES ASSUME ~overtaken, [Next]_vars PROVE ~overtaken'
    OBVIOUS
  <2>1. ASSUME NEW p \in Tasks, \/ \E t \in Tenants : ConnectionFor(p, t)
                                \/ AnyConnection(p) \/ Progress(p)
                                \/ Query(p) \/ Leave(p)
        PROVE  ~overtaken'
    BY <2>1
    DEF ConnectionFor, AnyConnection, Progress, Hit, Expired, RemoveExpired, Miss,
        UrlFor, Fail, Connect, CheckLen, PickOldest, RemoveOldest, Insert, Overtake,
        LookupDefault, ConnectDefault, Query, Leave, envVars
  <2>2. ASSUME \/ \E t \in Tenants : EvictTenant(t) \/ Rehome(t)
               \/ EvictExpired
               \/ \E s \in sweep : SweepShard(s)
               \/ Tick
               \/ UNCHANGED vars
        PROVE  ~overtaken'
    BY <2>2 DEF EvictTenant, Rehome, EvictExpired, SweepShard, Tick, envVars, vars
  <2> QED
    BY <2>1, <2>2 DEF Next
<1>4. ~overtaken /\ CapacityKept => CapacityRespected
  BY DEF CapacityKept
<1> QED
  BY <1>1, <1>2, <1>3, <1>4, Capacity, Eviction, PTL DEF Spec, NoRenewal

=============================================================================
