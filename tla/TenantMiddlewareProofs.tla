----------------------- MODULE TenantMiddlewareProofs -----------------------
(***************************************************************************)
(* Theorems about TenantMiddleware and the resolution it rests on, for     *)
(* every set of strings, requests, layers and tasks.                       *)
(***************************************************************************)
EXTENDS TenantMiddleware, WellFoundedInduction, TLAPS

Names == TenantIds \cup {Nobody}

-----------------------------------------------------------------------------
(* Resolution: what resolvers answer is a TenantId, no tenant or an error *)

\* A set of positions that is not empty has a first one.
LEMMA First ==
  ASSUME NEW T, T \subseteq Nat, T # {}
  PROVE  LET first == CHOOSE i \in T : \A j \in T : i <= j
         IN  first \in T /\ \A j \in T : first <= j
<1> DEFINE R == OpToRel(<, Nat)
<1>1. R = {ss \in Nat \X Nat : ss[1] < ss[2]}
  BY Zenon DEF OpToRel
<1>2. IsWellFoundedOn(R, Nat)
  BY NatLessThanWellFounded
<1> HIDE DEF R
<1>3. PICK x \in T : \A y \in T : ~(<<y, x>> \in R)
  BY <1>2, WFMin
<1>4. ASSUME NEW y \in T, y < x PROVE <<y, x>> \in R
  <2> DEFINE pair == <<y, x>>
  <2>1. pair \in Nat \X Nat /\ pair[1] = y /\ pair[2] = x
    OBVIOUS
  <2> HIDE DEF pair
  <2>2. pair \in R
    BY <1>1, <1>4, <2>1, Zenon
  <2> QED
    BY <2>2 DEF pair
<1>5. ASSUME NEW y \in T PROVE x <= y
  <2>1. ~(y < x)
    BY <1>3, <1>4, <1>5, Zenon
  <2> QED
    BY <2>1
<1> QED
  BY <1>5

LEMMA Distinct ==
  /\ TenantIds \subseteq Raw \ {Blank}
  /\ {Nobody, Invalid, Absent, Opaque} \cap TenantIds = {}
BY ResolutionAssumption DEF TenantIds

LEMMA NewName == ASSUME NEW v \in Raw PROVE TenantIdNew(v) \in Names
BY ResolutionAssumption DEF Names, TenantIdNew, TenantIds

LEMMA NameOf == ASSUME NEW v \in Raw \cup {Absent} PROVE TenantOf(v) \in Names
BY NewName, ResolutionAssumption DEF Names, TenantOf

LEMMA TextOf ==
  ASSUME NEW v \in Raw \cup DOMAIN Json \cup {Absent}
  PROVE  ClaimText(v) \in Raw \cup {Absent}
BY ResolutionAssumption DEF ClaimText

LEMMA ValueOf ==
  ASSUME NEW pairs \in Pairs, NEW H \in SUBSET DOMAIN pairs, H # {}
  PROVE  pairs[CHOOSE i \in H : \A j \in H : i <= j].value \in Raw
<1> DEFINE first == CHOOSE i \in H : \A j \in H : i <= j
<1>1. H \subseteq Nat
  BY DEF Pairs
<1>2. first \in DOMAIN pairs
  BY <1>1, First
<1> HIDE DEF first
<1> DEFINE Pair == [key : Raw \cup {Absent}, value : Raw]
<1>3. pairs \in Seq(Pair)
  BY DEF Pairs
<1> HIDE DEF Pair
<1>4. pairs[first] \in Pair
  BY <1>2, <1>3
<1> QED
  BY <1>4 DEF first, Pair

LEMMA ResolveNames ==
  ASSUME NEW l \in Layers, NEW r, IsRequest(r), NEW name \in Strategies
  PROVE  Resolve(name, l.config, r) \in Names \cup {Invalid}
<1> USE ResolutionAssumption
<1>1. CASE name = "header"
  <2>1. Header(r, "tenant") \in Raw \cup {Absent}
    BY DEF Header, IsRequest
  <2> QED
    BY <1>1, <2>1, NameOf DEF Resolve, HeaderResolver
<1>2. CASE name = "path"
  <2> DEFINE segments == {i \in DOMAIN r.path : r.path[i] # Blank}
             hits == {i \in segments : Cardinality({j \in segments : j < i})
                                         = l.config.path_segment_index}
             hit == CHOOSE i \in hits : TRUE
  <2>1. Resolve(name, l.config, r) = IF hits = {} THEN Nobody
                                     ELSE TenantIdNew(r.path[hit])
    BY <1>2 DEF Resolve, PathResolver
  <2>2. CASE hits = {}
    BY <2>1, <2>2 DEF Names
  <2>3. CASE hits # {}
    <3>1. hit \in DOMAIN r.path
      BY <2>3
    <3> HIDE DEF hit
    <3>2. r.path[hit] \in Raw
      BY <3>1 DEF IsRequest
    <3> QED
      BY <2>1, <2>3, <3>2, NewName
  <2> QED
    BY <2>2, <2>3
<1>3. CASE name = "subdomain"
  <2>1. Header(r, "host") \in Seq(Raw) \cup {Absent}
    BY DEF Header, IsRequest
  <2> DEFINE labels == Header(r, "host")
  <2>2. Resolve(name, l.config, r) =
          IF labels = Absent THEN Nobody
          ELSE IF Len(labels) < 3 THEN Nobody ELSE TenantIdNew(labels[1])
    BY <1>3 DEF Resolve, SubdomainResolver
  <2>3. labels # Absent /\ ~(Len(labels) < 3) => labels[1] \in Raw
    BY <2>1
  <2> HIDE DEF labels
  <2> QED
    BY <2>2, <2>3, NewName DEF Names
<1>4. CASE name = "query"
  <2> DEFINE hits == {i \in DOMAIN r.query :
                        /\ r.query[i].key # Absent
                        /\ r.query[i].key = l.config.query_param_name}
             hit == CHOOSE i \in hits : \A j \in hits : i <= j
  <2>1. Resolve(name, l.config, r) =
          IF r.query = Absent THEN Nobody
          ELSE TenantOf(IF hits = {} THEN Absent ELSE r.query[hit].value)
    BY <1>4 DEF Resolve, QueryResolver, FirstValue
  <2>2. r.query # Absent /\ hits # {} => r.query[hit].value \in Raw
    <3>1. r.query \in Pairs \cup {Absent}
      BY DEF IsRequest
    <3>2. hits \subseteq DOMAIN r.query
      OBVIOUS
    <3> HIDE DEF hits
    <3> QED
      BY <3>1, <3>2, ValueOf
  <2> HIDE DEF hits, hit
  <2> QED
    BY <2>1, <2>2, NameOf DEF Names
<1>5. CASE name = "cookie"
  <2> DEFINE pairs == Header(r, "cookie")
             hits == {i \in DOMAIN pairs :
                        /\ pairs[i].key # Absent
                        /\ Trim[pairs[i].key] = l.config.cookie_name}
             hit == CHOOSE i \in hits : \A j \in hits : i <= j
  <2>1. Resolve(name, l.config, r) =
          IF pairs = Absent THEN Nobody
          ELSE TenantOf(IF hits = {} THEN Absent ELSE pairs[hit].value)
    BY <1>5 DEF Resolve, CookieResolver, FirstValue
  <2>2. pairs \in Pairs \cup {Absent}
    BY DEF Header, IsRequest
  <2> HIDE DEF pairs
  <2>3. pairs # Absent /\ hits # {} => pairs[hit].value \in Raw
    BY <2>2, ValueOf
  <2> HIDE DEF hits, hit
  <2> QED
    BY <2>1, <2>3, NameOf DEF Names
<1>6. CASE name = "jwt"
  <2> DEFINE token == Header(r, "authorization")
  <2>1. token \in Token \cup {Absent}
    BY DEF Header, IsRequest
  <2>2. Resolve(name, l.config, r) =
          IF token = Absent THEN Nobody
          ELSE IF ~token.bearer THEN Nobody
          ELSE IF ~token.wellFormed \/ (l.config.jwt_validate /\ ~token.genuine)
                 THEN Invalid
          ELSE TenantOf(ClaimText(token.claim))
    BY <1>6 DEF Resolve, JwtResolver
  <2> HIDE DEF token
  <2>3. token # Absent => TenantOf(ClaimText(token.claim)) \in Names
    BY <2>1, TextOf, NameOf DEF Token
  <2> QED
    BY <2>2, <2>3 DEF Names
<1> QED
  BY <1>1, <1>2, <1>3, <1>4, <1>5, <1>6 DEF Strategies

\* The chain answers Nobody if all its resolvers do, and otherwise what the first
\* answers that does not.
LEMMA ChainEnds ==
  ASSUME NEW l \in Layers, NEW r
  PROVE  LET s == l.config.strategies
             c == Composite(IntoResolver(l.config), l.config, r)
             d == l.config.default_tenant
         IN  \/ \E i \in DOMAIN s :
                  /\ Resolve(s[i], l.config, r) = c
                  /\ c # Nobody
                  /\ \A j \in DOMAIN s : j < i => Resolve(s[j], l.config, r) = Nobody
             \/ /\ \A i \in DOMAIN s : Resolve(s[i], l.config, r) = Nobody
                /\ \/ c = Nobody
                   \/ d # Absent /\ c = TenantIdNew(d)
<1> DEFINE s == l.config.strategies
           d == l.config.default_tenant
           chain == IntoResolver(l.config)
           c == Composite(chain, l.config, r)
           hits == Decisive(chain, l.config, r)
           hit == CHOOSE i \in hits : \A j \in hits : i <= j
<1>1. s \in Seq(Strategies)
  BY MiddlewareAssumption
<1>2. \/ chain = s
      \/ chain = s \o <<"default">> /\ d # Absent
  BY DEF IntoResolver
<1>3. /\ chain \in Seq(Strategies \cup {"default"})
      /\ \A i \in DOMAIN s : i \in DOMAIN chain /\ chain[i] = s[i]
      /\ \A i \in DOMAIN chain \ DOMAIN s :
           /\ chain[i] = "default" /\ d # Absent
           /\ \A j \in DOMAIN s : j < i
  <2> HIDE DEF chain, s, d
  <2>1. CASE chain = s
    BY <1>1, <2>1
  <2>2. CASE chain = s \o <<"default">> /\ d # Absent
    BY <1>1, <2>2
  <2> QED
    BY <1>2, <2>1, <2>2
<1>4. c = IF hits = {} THEN Nobody ELSE Resolve(chain[hit], l.config, r)
  BY DEF Composite
<1>5. /\ hits \subseteq DOMAIN chain
      /\ \A i \in DOMAIN chain : i \in hits <=> Resolve(chain[i], l.config, r) # Nobody
  BY DEF Decisive
<1>6. hits # {} => hit \in hits /\ \A j \in hits : hit <= j
  <2>1. hits \subseteq Nat
    BY <1>3, <1>5
  <2> HIDE DEF hits
  <2> QED
    BY <2>1, First
<1>7. Resolve("default", l.config, r) = TenantIdNew(d)
  BY DEF Resolve, DefaultResolver
<1> HIDE DEF s, d, chain, c, hits, hit
<1>8. CASE hits = {}
  BY <1>3, <1>4, <1>5, <1>8 DEF s, c, chain
<1>9. CASE hits # {} /\ hit \in DOMAIN s
  <2>1. \A j \in DOMAIN s : j < hit => Resolve(s[j], l.config, r) = Nobody
    BY <1>1, <1>3, <1>5, <1>6, <1>9
  <2>2. Resolve(s[hit], l.config, r) = c /\ c # Nobody
    BY <1>3, <1>4, <1>5, <1>6, <1>9
  <2> QED
    BY <1>9, <2>1, <2>2 DEF s, c, chain
<1>10. CASE hits # {} /\ hit \notin DOMAIN s
  <2>1. c = TenantIdNew(d) /\ d # Absent
    BY <1>3, <1>4, <1>5, <1>6, <1>7, <1>10
  <2>2. \A j \in DOMAIN s : j < hit
    BY <1>3, <1>5, <1>6, <1>10
  <2>3. \A j \in DOMAIN s : Resolve(s[j], l.config, r) = Nobody
    BY <1>1, <1>3, <1>5, <1>6, <1>10, <2>2
  <2> QED
    BY <2>1, <2>3 DEF s, d, c, chain
<1> QED
  BY <1>8, <1>9, <1>10

LEMMA ChainNames ==
  ASSUME NEW l \in Layers, NEW r, IsRequest(r)
  PROVE  Composite(IntoResolver(l.config), l.config, r) \in Names \cup {Invalid}
<1> DEFINE s == l.config.strategies
           c == Composite(IntoResolver(l.config), l.config, r)
<1>1. \A i \in DOMAIN s : s[i] \in Strategies
  BY MiddlewareAssumption
<1>2. \A i \in DOMAIN s : Resolve(s[i], l.config, r) \in Names \cup {Invalid}
  BY <1>1, ResolveNames
<1>3. l.config.default_tenant # Absent => TenantIdNew(l.config.default_tenant) \in Names
  BY NewName, MiddlewareAssumption
<1>4. \/ \E i \in DOMAIN s : Resolve(s[i], l.config, r) = c
      \/ c = Nobody
      \/ l.config.default_tenant # Absent /\ c = TenantIdNew(l.config.default_tenant)
  BY ChainEnds
<1> HIDE DEF c, s
<1>5. c \in Names \cup {Invalid}
  BY <1>2, <1>3, <1>4 DEF Names
<1> QED
  BY <1>5 DEF c

-----------------------------------------------------------------------------
(* The invariant *)

\* The middleware lets a request go on.
Past(p) == pc[p] \in {"bridge", "db", "connect", "handler"}

Types ==
  /\ TypeOK
  /\ req \in [Tasks -> Requests \cup {None}]
  /\ \A p \in Tasks : pc[p] # "idle" => req[p] \in Requests
  /\ phase \in [Tasks -> {"idle", "pending", "ok", "err"}]
  /\ seen \in [Tasks -> Provider!Principals \cup {None}]

\* Where the tenant of a request that was let on comes from.
Provenance ==
  \A p \in Tasks : Past(p) =>
    \/ /\ Skipped(p)
       /\ context[p] = Absent
    \/ /\ ~Skipped(p)
       /\ context[p] \in Contexts
       /\ context[p].resolvedBy = "JwtClaims"
       /\ context[p].tenant = FromClaims(p)
    \/ /\ ~Skipped(p)
       /\ context[p] \in Contexts
       /\ context[p].resolvedBy = "CompositeTenantResolver"
       /\ FromClaims(p) = Nobody
       /\ context[p].tenant = FromChain(p)

\* The extensions of a request are set in order, and agree.
Extensions ==
  \A p \in Tasks :
    /\ pc[p] \in {"idle", "tenant"} => context[p] = Absent
    /\ pc[p] \in {"idle", "tenant", "bridge"} => tenantId[p] = Absent
    /\ tenantId[p] # Absent => context[p] # Absent /\ tenantId[p] = context[p].tenant
    /\ pc[p] = "handler" /\ tenantId[p] # Absent => db[p] /\ phase[p] = "ok"

\* A call of the provider is for the TenantId of the request that makes it.
Calls ==
  \A p \in Tasks :
    /\ pc[p] \notin {"connect", "handler", "done"} => phase[p] = "idle"
    /\ pc[p] = "connect" => tenantId[p] # Absent
    /\ phase[p] # "idle" => tenantId[p] # Absent /\ tenant[p] = tenantId[p]
    /\ seen[p] # None => phase[p] # "idle" /\ seen[p] = tenant[p]

IInv == Types /\ Provenance /\ Extensions /\ Calls

LEMMA ClaimNames ==
  ASSUME Types, NEW p \in Tasks, pc[p] # "idle"
  PROVE  FromClaims(p) \in Names
<1>1. req[p].claims # Absent =>
        req[p].claims.tenant \in Raw \cup DOMAIN Json \cup {Absent}
  <2>1. req[p] \in Requests
    BY DEF Types
  <2> DEFINE c == req[p].claims
  <2>2. c \in [tenant : Raw \cup DOMAIN Json \cup {Absent}] \cup {Absent}
    BY <2>1, MiddlewareAssumption
  <2> HIDE DEF c
  <2>3. c # Absent => c.tenant \in Raw \cup DOMAIN Json \cup {Absent}
    BY <2>2
  <2> QED
    BY <2>3 DEF c
<1>2. GetStr(req[p].claims) \in Raw \cup {Absent}
  BY <1>1, TextOf DEF GetStr
<1>3. TenantOf(GetStr(req[p].claims)) \in Names
  BY <1>2, NameOf
<1> QED
  BY <1>3, Zenon DEF FromClaims, Names

LEMMA FromChainNames ==
  ASSUME Types, NEW p \in Tasks, pc[p] # "idle"
  PROVE  FromChain(p) \in Names \cup {Invalid}
<1>1. layer \in Layers /\ IsRequest(req[p])
  BY DEF Types, TypeOK
<1> QED
  BY <1>1, ChainNames DEF FromChain

LEMMA InitIInv == Init => IInv
<1> SUFFICES ASSUME Init PROVE IInv
  OBVIOUS
<1> USE DEF Init, Provider!Init
<1>1. TypeOK
  BY DEF TypeOK
<1>2. Types
  BY <1>1 DEF Types
<1>3. Provenance /\ Extensions /\ Calls
  BY DEF Provenance, Past, Extensions, Calls
<1> QED
  BY <1>2, <1>3 DEF IInv

\* Steps before the database layer.
LEMMA TenantStep ==
  ASSUME IInv, NEW p \in Tasks,
         \/ \E r \in Requests : Arrive(p, r)
         \/ Skip(p)
         \/ ResolvedFromClaims(p)
         \/ ResolvedByChain(p)
         \/ Missing(p)
         \/ Failed(p)
  PROVE  IInv'
<1> USE DEF IInv
<1> USE DEF Goto, requestVars, providerVars
<1>1. ASSUME NEW r \in Requests, Arrive(p, r) PROVE IInv'
  <2> USE <1>1 DEF Arrive
  <2>1. IsRequest(r)
    BY MiddlewareAssumption
  <2>2. TypeOK'
    BY <2>1 DEF Types, TypeOK
  <2>3. Types'
    BY <2>2 DEF Types, TypeOK
  <2>4. Provenance'
    BY DEF Types, TypeOK, Provenance, Past, Skipped, FromClaims, FromChain
  <2>5. Extensions' /\ Calls'
    BY DEF Types, TypeOK, Extensions, Calls
  <2> QED
    BY <2>3, <2>4, <2>5
<1>2. CASE Skip(p)
  <2> USE <1>2 DEF Skip
  <2>1. TypeOK'
    BY DEF Types, TypeOK
  <2>2. Types'
    BY <2>1 DEF Types, TypeOK
  <2>3. Provenance'
    BY DEF Types, TypeOK, Provenance, Past, Skipped, FromClaims, FromChain, Extensions
  <2>4. Extensions' /\ Calls'
    BY DEF Types, TypeOK, Extensions, Calls
  <2> QED
    BY <2>2, <2>3, <2>4
<1>3. ASSUME NEW t \in TenantIds, NEW name, Inject(p, t, name), ~Skipped(p),
             \/ name = "JwtClaims" /\ t = FromClaims(p)
             \/ /\ name = "CompositeTenantResolver"
                /\ FromClaims(p) = Nobody
                /\ t = FromChain(p)
      PROVE  IInv'
  <2> USE <1>3 DEF Inject
  <2> DEFINE c == [tenant |-> t, resolvedBy |-> name]
  <2>1. c \in Contexts /\ c.tenant = t /\ c.resolvedBy = name
    BY DEF Contexts
  <2>2. c # Absent
    BY <2>1, MiddlewareAssumption
  <2>3. context' = [context EXCEPT ![p] = c]
    OBVIOUS
  <2> HIDE DEF c
  <2>4. TypeOK'
    BY <2>1, <2>3 DEF Types, TypeOK
  <2>5. Types'
    BY <2>4 DEF Types, TypeOK
  <2>6. Provenance'
    BY <2>1, <2>3
    DEF Types, TypeOK, Provenance, Past, Skipped, FromClaims, FromChain
  <2>7. Extensions' /\ Calls'
    BY <2>1, <2>2, <2>3 DEF Types, TypeOK, Extensions, Calls
  <2> QED
    BY <2>5, <2>6, <2>7
<1>4. CASE ResolvedFromClaims(p)
  <2>1. FromClaims(p) \in TenantIds
    BY <1>4, ClaimNames DEF ResolvedFromClaims, Resolving, Names
  <2> QED
    BY <1>3, <1>4, <2>1 DEF ResolvedFromClaims, Resolving
<1>5. CASE ResolvedByChain(p)
  <2>1. FromChain(p) \in TenantIds
    BY <1>5, FromChainNames DEF ResolvedByChain, Resolving, Names
  <2> QED
    BY <1>3, <1>5, <2>1 DEF ResolvedByChain, Resolving
<1>6. CASE Missing(p) \/ Failed(p)
  <2>1. /\ pc[p] = "tenant"
        /\ pc' = [pc EXCEPT ![p] = "done"]
        /\ status' = [status EXCEPT ![p] = 400]
        /\ UNCHANGED <<layer, requestVars, providerVars>>
    BY <1>6 DEF Missing, Failed, Resolving, Respond
  <2>2. TypeOK'
    BY <2>1 DEF Types, TypeOK
  <2>3. Types'
    BY <2>1, <2>2 DEF Types, TypeOK
  <2>4. Provenance'
    BY <2>1 DEF Types, TypeOK, Provenance, Past, Skipped, FromClaims, FromChain
  <2>5. Extensions' /\ Calls'
    BY <2>1 DEF Types, TypeOK, Extensions, Calls
  <2> QED
    BY <2>3, <2>4, <2>5
<1> QED
  BY <1>1, <1>2, <1>4, <1>5, <1>6

\* Steps of the database layer.
LEMMA DatabaseStep ==
  ASSUME IInv, NEW p \in Tasks,
         \/ Bridge(p)
         \/ NoTenantId(p)
         \/ Connect(p)
         \/ ProviderAnswers(p)
         \/ Connected(p)
         \/ ConnectError(p)
  PROVE  IInv'
<1> USE DEF IInv
<1> USE DEF Goto, requestVars, providerVars
<1>1. CASE Bridge(p)
  <2> USE <1>1 DEF Bridge
  <2>1. context[p] # Absent => context[p].tenant \in TenantIds
    BY DEF Types, TypeOK, Contexts
  <2>2. TypeOK'
    BY <2>1 DEF Types, TypeOK
  <2>3. Types'
    BY <2>2 DEF Types, TypeOK
  <2>4. Provenance'
    BY DEF Types, TypeOK, Provenance, Past, Skipped, FromClaims, FromChain
  <2>5. Extensions' /\ Calls'
    BY <2>1, Distinct DEF Types, TypeOK, Extensions, Calls
  <2> QED
    BY <2>3, <2>4, <2>5
<1>2. CASE NoTenantId(p)
  <2> USE <1>2 DEF NoTenantId
  <2>1. TypeOK'
    BY DEF Types, TypeOK
  <2>2. Types'
    BY <2>1 DEF Types, TypeOK
  <2>3. Provenance'
    BY DEF Types, TypeOK, Provenance, Past, Skipped, FromClaims, FromChain
  <2>4. Extensions' /\ Calls'
    BY DEF Types, TypeOK, Extensions, Calls
  <2> QED
    BY <2>2, <2>3, <2>4
<1>3. CASE Connect(p)
  <2> USE <1>3 DEF Connect, Provider!Call
  <2>1. tenantId[p] \in TenantIds
    BY DEF Types, TypeOK
  <2>2. TypeOK'
    BY <2>1 DEF Types, TypeOK, Provider!Principals
  <2>3. Types'
    BY <2>2 DEF Types, TypeOK
  <2>4. Provenance'
    BY DEF Types, TypeOK, Provenance, Past, Skipped, FromClaims, FromChain
  <2>5. Extensions' /\ Calls'
    BY DEF Types, TypeOK, Extensions, Calls
  <2> QED
    BY <2>3, <2>4, <2>5
<1>4. CASE ProviderAnswers(p)
  <2> USE <1>4 DEF ProviderAnswers, Provider!Answer
  <2>1. TypeOK'
    BY DEF Types, TypeOK
  <2>2. Types'
    BY <2>1 DEF Types, TypeOK
  <2>3. Provenance'
    BY DEF Types, TypeOK, Provenance, Past, Skipped, FromClaims, FromChain
  <2>4. Extensions' /\ Calls'
    BY DEF Types, TypeOK, Extensions, Calls
  <2> QED
    BY <2>2, <2>3, <2>4
<1>5. CASE Connected(p)
  <2> USE <1>5 DEF Connected
  <2>1. TypeOK'
    BY DEF Types, TypeOK
  <2>2. Types'
    BY <2>1 DEF Types, TypeOK
  <2>3. Provenance'
    BY DEF Types, TypeOK, Provenance, Past, Skipped, FromClaims, FromChain
  <2>4. Extensions' /\ Calls'
    BY DEF Types, TypeOK, Extensions, Calls
  <2> QED
    BY <2>2, <2>3, <2>4
<1>6. CASE ConnectError(p)
  <2> USE <1>6 DEF ConnectError, Respond
  <2>1. TypeOK'
    BY DEF Types, TypeOK
  <2>2. Types'
    BY <2>1 DEF Types, TypeOK
  <2>3. Provenance'
    BY DEF Types, TypeOK, Provenance, Past, Skipped, FromClaims, FromChain
  <2>4. Extensions' /\ Calls'
    BY DEF Types, TypeOK, Extensions, Calls
  <2> QED
    BY <2>2, <2>3, <2>4
<1> QED
  BY <1>1, <1>2, <1>3, <1>4, <1>5, <1>6

\* Steps of the handler, and the end of the request.
LEMMA HandlerStep ==
  ASSUME IInv, NEW p \in Tasks,
         HandlerQueries(p) \/ HandlerResponds(p) \/ End(p)
  PROVE  IInv'
<1> USE DEF IInv
<1> USE DEF Goto, requestVars, providerVars
<1>1. CASE HandlerQueries(p)
  <2> USE <1>1 DEF HandlerQueries, InHandler, Provider!Query
  <2>1. TypeOK'
    BY DEF Types, TypeOK
  <2>2. Types'
    BY <2>1 DEF Types, TypeOK
  <2>3. Provenance'
    BY DEF Types, TypeOK, Provenance, Past, Skipped, FromClaims, FromChain
  <2>4. Extensions' /\ Calls'
    BY DEF Types, TypeOK, Extensions, Calls
  <2> QED
    BY <2>2, <2>3, <2>4
<1>2. CASE HandlerResponds(p)
  <2>1. PICK code \in {200, 400, 404, 500} :
          /\ pc[p] = "handler"
          /\ pc' = [pc EXCEPT ![p] = "done"]
          /\ status' = [status EXCEPT ![p] = code]
          /\ UNCHANGED <<layer, requestVars, providerVars>>
    BY <1>2 DEF HandlerResponds, Respond
  <2>2. TypeOK'
    BY <2>1 DEF Types, TypeOK
  <2>3. Types'
    BY <2>1, <2>2 DEF Types, TypeOK
  <2>4. Provenance'
    BY <2>1 DEF Types, TypeOK, Provenance, Past, Skipped, FromClaims, FromChain
  <2>5. Extensions' /\ Calls'
    BY <2>1 DEF Types, TypeOK, Extensions, Calls
  <2> QED
    BY <2>3, <2>4, <2>5
<1>3. CASE End(p)
  <2> USE <1>3 DEF End, Provider!Leave
  <2>1. TypeOK'
    BY DEF Types, TypeOK
  <2>2. Types'
    BY <2>1 DEF Types, TypeOK
  <2>3. Provenance'
    BY DEF Types, TypeOK, Provenance, Past, Skipped, FromClaims, FromChain
  <2>4. Extensions' /\ Calls'
    BY DEF Types, TypeOK, Extensions, Calls
  <2> QED
    BY <2>2, <2>3, <2>4
<1> QED
  BY <1>1, <1>2, <1>3

LEMMA Stutter == IInv /\ UNCHANGED vars => IInv'
<1> SUFFICES ASSUME IInv, UNCHANGED vars PROVE IInv'
  OBVIOUS
<1> USE DEF IInv, vars, requestVars, providerVars
<1>1. TypeOK'
  BY DEF Types, TypeOK
<1>2. Types'
  BY <1>1 DEF Types
<1>3. Provenance'
  BY DEF Provenance, Past, Skipped, FromClaims, FromChain
<1>4. Extensions' /\ Calls'
  BY DEF Extensions, Calls
<1> QED
  BY <1>2, <1>3, <1>4

\* The inductive invariant: a request past the tenant layer has the tenant that its
\* claims or its chain name, its extensions agree on it, and the call of the
\* provider it makes is for it.
THEOREM Invariance == Spec => []IInv
<1>1. IInv /\ [Next]_vars => IInv'
  <2> SUFFICES ASSUME IInv, [Next]_vars PROVE IInv'
    OBVIOUS
  <2>1. CASE UNCHANGED vars
    BY <2>1, Stutter
  <2>2. CASE Next
    BY <2>2, TenantStep, DatabaseStep, HandlerStep DEF Next, Progress
  <2> QED
    BY <2>1, <2>2
<1> QED
  BY <1>1, InitIInv, PTL DEF Spec

-----------------------------------------------------------------------------
(* The theorems *)

\* The state of the request path is well typed: no TenantId that is blank or
\* padded is ever in it, whatever the request and the configuration.
THEOREM TypeCorrect == Spec => []TypeOK
<1>1. IInv => TypeOK
  BY DEF IInv, Types
<1> QED
  BY <1>1, Invariance, PTL

\* A handler runs without a tenant on skip paths alone.
THEOREM Required == Spec => []NoTenantNoHandler
<1>1. IInv => NoTenantNoHandler
  BY MiddlewareAssumption
  DEF IInv, Types, TypeOK, NoTenantNoHandler, Provenance, Past, InHandler
<1> QED
  BY <1>1, Invariance, PTL

\* Claims that were verified upstream are not overruled by the request.
THEOREM ClaimsFirst == Spec => []ClaimsWin
<1>1. IInv => ClaimsWin
  BY DEF IInv, Types, TypeOK, ClaimsWin, Provenance, Past, InHandler
<1> QED
  BY <1>1, Invariance, PTL

\* What a chain answers to a request that is let on: the answer of its first
\* strategy that has one, or the default.
LEMMA LetOn ==
  ASSUME IInv, NEW p \in Tasks, InHandler(p), ~Skipped(p), FromClaims(p) = Nobody
  PROVE  LET s == layer.config.strategies
             t == context[p].tenant
             d == layer.config.default_tenant
         IN  \/ \E i \in DOMAIN s :
                  /\ Resolve(s[i], layer.config, req[p]) = t
                  /\ \A j \in DOMAIN s : j < i =>
                       Resolve(s[j], layer.config, req[p]) = Nobody
             \/ /\ \A i \in DOMAIN s : Resolve(s[i], layer.config, req[p]) = Nobody
                /\ d # Absent /\ t = TenantIdNew(d)
<1>1. context[p].tenant = FromChain(p) /\ context[p].tenant \in TenantIds
  <2>1. context[p] \in Contexts => context[p].tenant \in TenantIds
    BY DEF Contexts
  <2>2. Nobody \notin TenantIds
    BY Distinct
  <2> QED
    BY <2>1, <2>2 DEF IInv, Provenance, Past, InHandler
<1>2. context[p].tenant # Nobody
  BY <1>1, Distinct
<1>3. layer \in Layers
  BY DEF IInv, Types, TypeOK
<1> QED
  BY <1>1, <1>2, <1>3, ChainEnds DEF FromChain

\* The default tenant neither hides another one nor an error.
THEOREM DefaultLast == Spec => []DefaultIsLast
<1>1. IInv => DefaultIsLast
  <2> SUFFICES ASSUME IInv, NEW p \in Tasks, InHandler(p), context[p] # Absent,
                      context[p].resolvedBy = "CompositeTenantResolver"
               PROVE  LET s == layer.config.strategies
                      IN  \/ \A i \in DOMAIN s :
                               Resolve(s[i], layer.config, req[p]) = Nobody
                          \/ \E i \in DOMAIN s :
                               Resolve(s[i], layer.config, req[p]) = context[p].tenant
    BY DEF DefaultIsLast
  <2>1. ~Skipped(p) /\ FromClaims(p) = Nobody
    BY DEF IInv, Provenance, Past, InHandler
  <2> QED
    BY <2>1, LetOn
<1> QED
  BY <1>1, Invariance, PTL

\* No invalid token is passed over, unless the tenant had been found before it.
THEOREM Refusal == Spec => []ErrorsRefused
<1>1. IInv => ErrorsRefused
  <2> SUFFICES ASSUME IInv, NEW p \in Tasks, InHandler(p), ~Skipped(p),
                      FromClaims(p) = Nobody,
                      NEW i \in DOMAIN layer.config.strategies,
                      Resolve(layer.config.strategies[i], layer.config, req[p])
                        = Invalid
               PROVE  \E j \in 1 .. i - 1 :
                        Resolve(layer.config.strategies[j], layer.config, req[p])
                          = context[p].tenant
    BY DEF ErrorsRefused
  <2> DEFINE s == layer.config.strategies
             R(j) == Resolve(s[j], layer.config, req[p])
  <2>1. DOMAIN s \subseteq Nat \ {0}
    BY MiddlewareAssumption DEF IInv, Types, TypeOK
  <2>2. Invalid # Nobody
    BY ResolutionAssumption
  <2>3. PICK j \in DOMAIN s : /\ R(j) = context[p].tenant
                              /\ \A k \in DOMAIN s : k < j => R(k) = Nobody
    BY <2>2, LetOn
  <2>4. context[p].tenant # Invalid
    <3>1. context[p] \in Contexts
      BY DEF IInv, Provenance, Past, InHandler
    <3> QED
      BY <3>1, Distinct DEF Contexts
  <2> HIDE DEF s
  <2>5. j # i /\ ~(i < j)
    BY <2>2, <2>3, <2>4 DEF s
  <2>6. j \in 1 .. i - 1
    BY <2>1, <2>5 DEF s
  <2> QED
    BY <2>3, <2>6 DEF s
<1> QED
  BY <1>1, Invariance, PTL

\* What a handler reads is of the tenant in its TenantContext.
THEOREM Reads == Spec => []EndToEnd
<1>1. IInv => EndToEnd
  BY DEF IInv, EndToEnd, Extensions, Calls
<1> QED
  BY <1>1, Invariance, PTL

\* A handler that TenantDbLayer found a TenantId for has the provider's answer to a
\* call for it.
THEOREM Connection == Spec => []Connectedness
<1>1. IInv => Connectedness
  BY DEF IInv, Connectedness, Extensions, Calls, InHandler
<1> QED
  BY <1>1, Invariance, PTL

=============================================================================
