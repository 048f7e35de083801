-------------------------- MODULE TenantResolution --------------------------
(***************************************************************************)
(* How a request names its tenant: TenantId (tenant-core/src/tenant.rs),   *)
(* the composite resolver (tenant-core/src/resolver.rs), the HTTP          *)
(* resolvers (tenant-axum/src/resolver.rs) and the configuration that      *)
(* chains them (tenant-axum/src/config.rs).  All of it is pure.            *)
(*                                                                         *)
(* A string is a member of Raw, and all that is known of one is what it    *)
(* trims to.  A request is given in the pieces the resolvers cut it into:  *)
(* path segments, key-value pairs, host labels, the claim of a token.      *)
(***************************************************************************)
EXTENDS Naturals, Sequences, FiniteSets

CONSTANTS
  Raw,      \* the strings found in requests and configurations
  Trim,     \* str::trim, a function on Raw
  Json,     \* Value::to_string, of the JSON values that are no strings
  Blank,    \* the empty string
  Nobody,   \* Ok(None): no tenant here
  Invalid,  \* Err(InvalidTenant)
  Absent,   \* an Option that is None
  Opaque    \* a header value that is not visible ASCII

ASSUME ResolutionAssumption ==
  /\ Trim \in [Raw -> Raw]
  /\ \A v \in Raw : Trim[Trim[v]] = Trim[v]
  /\ Json \in [DOMAIN Json -> Raw]
  /\ DOMAIN Json \cap (Raw \cup {Absent}) = {}
  /\ Blank \in Raw /\ Trim[Blank] = Blank
  /\ {Nobody, Invalid, Absent, Opaque} \cap Raw = {}
  /\ Nobody # Invalid

\* The strings a TenantId can hold: trimmed and not empty.
TenantIds == {v \in Raw : Trim[v] = v} \ {Blank}

\* Mutant: the emptiness test comes before the trimming.
TenantIdNewUntrimmed(v) == IF v = Blank THEN Nobody ELSE Trim[v]

\* TenantId::new.
TenantIdNew(v) == IF Trim[v] = Blank THEN Nobody ELSE Trim[v]

\* A claim as a string: the text of any other JSON value, null included.
ClaimText(v) == IF v \in DOMAIN Json THEN Json[v] ELSE v

\* TenantId::new on an Option, as every resolver ends.
TenantOf(v) == IF v = Absent THEN Nobody ELSE TenantIdNew(v)

-----------------------------------------------------------------------------
(* Requests and configurations *)

Pairs == Seq([key : Raw \cup {Absent}, value : Raw])  \* Absent: no `=`
Token == [bearer : BOOLEAN, wellFormed : BOOLEAN, genuine : BOOLEAN,
          claim : Raw \cup DOMAIN Json \cup {Absent}]

\* The headers, each with its own kind of content, that resolvers look for.
HeaderNames == {"tenant", "host", "cookie", "authorization"}

Strategies == {"header", "jwt", "cookie", "path", "query", "subdomain"}

IsRequest(r) ==
  /\ DOMAIN r.headers = HeaderNames
  /\ r.headers["tenant"] \in Raw \cup {Absent, Opaque}
  /\ r.headers["host"] \in Seq(Raw) \cup {Absent, Opaque}
  /\ r.headers["cookie"] \in Pairs \cup {Absent, Opaque}
  /\ r.headers["authorization"] \in Token \cup {Absent, Opaque}
  /\ r.path \in Seq(Raw)
  /\ r.query \in Pairs \cup {Absent}

-----------------------------------------------------------------------------
(* The resolvers, each a function of the configuration and the request *)

\* HttpResolutionContext::header: a value to_str refuses is no value.
Header(r, name) == IF r.headers[name] = Opaque THEN Absent ELSE r.headers[name]

\* The value of the first pair that passes the test.
FirstValue(pairs, Test(_)) ==
  LET hits == {i \in DOMAIN pairs : pairs[i].key # Absent /\ Test(pairs[i].key)}
  IN  IF hits = {} THEN Absent
      ELSE pairs[CHOOSE i \in hits : \A j \in hits : i <= j].value

HeaderResolver(c, r) == TenantOf(Header(r, "tenant"))

\* The segment of the configured index among those that are not empty: it has as
\* many of them before it.
PathResolver(c, r) ==
  LET segments == {i \in DOMAIN r.path : r.path[i] # Blank}
      hits == {i \in segments :
                 Cardinality({j \in segments : j < i}) = c.path_segment_index}
  IN  IF hits = {} THEN Nobody ELSE TenantIdNew(r.path[CHOOSE i \in hits : TRUE])

\* The first of at least three labels of the host name, its port left out.
SubdomainResolver(c, r) ==
  LET labels == Header(r, "host")
  IN  IF labels = Absent THEN Nobody
      ELSE IF Len(labels) < 3 THEN Nobody ELSE TenantIdNew(labels[1])

QueryResolver(c, r) ==
  IF r.query = Absent THEN Nobody
  ELSE TenantOf(FirstValue(r.query, LAMBDA k : k = c.query_param_name))

CookieResolver(c, r) ==
  LET pairs == Header(r, "cookie")
  IN  IF pairs = Absent THEN Nobody
      ELSE TenantOf(FirstValue(pairs, LAMBDA k : Trim[k] = c.cookie_name))

\* Another scheme than Bearer is no token; a token that cannot be decoded, or
\* that fails the validation asked for, is an error.
JwtResolver(c, r) ==
  LET token == Header(r, "authorization")
  IN  IF token = Absent THEN Nobody
      ELSE IF ~token.bearer THEN Nobody
      ELSE IF ~token.wellFormed \/ (c.jwt_validate /\ ~token.genuine) THEN Invalid
      ELSE TenantOf(ClaimText(token.claim))

DefaultResolver(c, r) == TenantIdNew(c.default_tenant)

Resolve(name, c, r) ==
  CASE name = "header"    -> HeaderResolver(c, r)
    [] name = "path"      -> PathResolver(c, r)
    [] name = "subdomain" -> SubdomainResolver(c, r)
    [] name = "query"     -> QueryResolver(c, r)
    [] name = "cookie"    -> CookieResolver(c, r)
    [] name = "jwt"       -> JwtResolver(c, r)
    [] name = "default"   -> DefaultResolver(c, r)

-----------------------------------------------------------------------------
(* The chain *)

\* HttpTenantConfigBuilder::build: what was not set takes its default.
Build(b) ==
  [b EXCEPT !.enabled = IF @ = Absent THEN TRUE ELSE @,
            !.strategies = IF @ = << >> THEN <<"header">> ELSE @,
            !.jwt_validate = IF @ = Absent THEN FALSE ELSE @,
            !.path_segment_index = IF @ = Absent THEN 0 ELSE @]

\* Mutant: the fallback is put in front of the strategies.
IntoResolverDefaultFirst(c) ==
  IF c.default_tenant = Absent THEN c.strategies
  ELSE IF TenantIdNew(c.default_tenant) = Nobody THEN c.strategies
  ELSE <<"default">> \o c.strategies

\* HttpTenantConfig::into_resolver: the strategies in order, then the fallback,
\* which a blank name silently loses.
IntoResolver(c) ==
  IF c.default_tenant = Absent THEN c.strategies
  ELSE IF TenantIdNew(c.default_tenant) = Nobody THEN c.strategies
  ELSE c.strategies \o <<"default">>

\* The positions of the chain that end it: with a tenant or with an error.
Decisive(chain, c, r) ==
  {i \in DOMAIN chain : Resolve(chain[i], c, r) # Nobody}

\* Mutant: a resolver that fails is passed over.
CompositeLenient(chain, c, r) ==
  LET hits == {i \in Decisive(chain, c, r) : Resolve(chain[i], c, r) # Invalid}
  IN  IF hits = {} THEN Nobody
      ELSE Resolve(chain[CHOOSE i \in hits : \A j \in hits : i <= j], c, r)

\* CompositeTenantResolver::resolve: the loop ends at the first of them.
Composite(chain, c, r) ==
  LET hits == Decisive(chain, c, r)
  IN  IF hits = {} THEN Nobody
      ELSE Resolve(chain[CHOOSE i \in hits : \A j \in hits : i <= j], c, r)

=============================================================================
