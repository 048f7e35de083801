-------------------------- MODULE TenantMiddleware --------------------------
(***************************************************************************)
(* The request path of an application: TenantLayer                         *)
(* (tenant-axum/src/middleware.rs) around TenantDbLayer                    *)
(* (tenant-sea-orm/src/middleware.rs) around a handler with the extractors *)
(* of tenant-axum/src/extractor.rs.  The layers talk through the typed     *)
(* extensions of the request; TenantDbLayer calls a                        *)
(* TenantConnectionProvider, here the abstract one.                        *)
(*                                                                         *)
(* TenantDbLayer looks for a TenantId among the extensions, where          *)
(* TenantLayer puts a TenantContext and nothing of the repository a        *)
(* TenantId.  `Bridged` says whether the application has written a layer   *)
(* of its own for in between, which copies the one into the other: that    *)
(* layer, Bridge, is external, and without it TenantDbLayer does nothing.  *)
(***************************************************************************)
EXTENDS TenantResolution

CONSTANTS
  Admin, Tasks, None,  \* as in ConnectionProvider
  Requests,  \* the requests: what the resolvers read of each (IsRequest), the
             \* skip prefixes its path starts with, the JwtClaims that an upstream
             \* layer has left, what its handler extracts
  Layers,    \* the TenantLayers: configuration, claim lookup, skip prefixes
  Bridged    \* whether the application has such a layer; the repository has none

\* The TenantContexts that the layer can make.
Contexts ==
  [tenant : TenantIds, resolvedBy : {"JwtClaims", "CompositeTenantResolver"}]

ASSUME MiddlewareAssumption ==
  /\ \A r \in Requests :
       /\ IsRequest(r)
       /\ r.claims \in [tenant : Raw \cup DOMAIN Json \cup {Absent}] \cup {Absent}
       /\ r.wants \subseteq {"tenant", "claims"}
  /\ Admin \notin TenantIds
  /\ None \notin TenantIds \cup {Admin}
  /\ \A l \in Layers :
       /\ l.config.strategies \in Seq(Strategies)
       /\ l.config.default_tenant \in Raw \cup {Absent}
  /\ Absent \notin Contexts
  /\ Bridged \in BOOLEAN

VARIABLES
  layer,       \* the TenantLayer of this run of the program
  pc,          \* where each task's request is
  req,         \* the request
  context,     \* extension TenantContext: [tenant, resolvedBy], or Absent
  tenantId,    \* extension TenantId, or Absent
  db,          \* whether the extension TenantDb is there
  status,      \* the status of the response, None before there is one
  phase, tenant, seen  \* the provider's state, see ConnectionProvider

requestVars  == <<req, context, tenantId, db>>
providerVars == <<phase, tenant, seen>>
vars == <<layer, pc, requestVars, status, providerVars>>

Provider == INSTANCE ConnectionProvider WITH Tenants <- TenantIds

\* TenantLayer::from_config; whether the configuration is `enabled` is not
\* looked at.  Claims are looked up iff Jwt is among the strategies.
FromConfig(c) ==
  [config |-> c,
   claims |-> \E i \in DOMAIN c.strategies : c.strategies[i] = "jwt",
   skip   |-> {}]

WithClaims(l) == [l EXCEPT !.claims = TRUE]

\* ClaimsTenantResolver::into_layer, with the chain of a layer to fall back on.
IntoLayer(fallback) == WithClaims(fallback)

WithSkipPaths(l, prefixes) == [l EXCEPT !.skip = prefixes]

Goto(p, from, to) ==
  /\ pc[p] = from
  /\ pc' = [pc EXCEPT ![p] = to]

Init ==
  /\ layer \in Layers
  /\ pc       = [p \in Tasks |-> "idle"]
  /\ req      = [p \in Tasks |-> None]
  /\ context  = [p \in Tasks |-> Absent]
  /\ tenantId = [p \in Tasks |-> Absent]
  /\ db       = [p \in Tasks |-> FALSE]
  /\ status   = [p \in Tasks |-> None]
  /\ Provider!Init

\* A request arrives.
Arrive(p, r) ==
  /\ Goto(p, "idle", "tenant")
  /\ req' = [req EXCEPT ![p] = r]
  /\ UNCHANGED <<layer, context, tenantId, db, status, providerVars>>

-----------------------------------------------------------------------------
(* TenantMiddleware::call *)

Skipped(p) == req[p].under \cap layer.skip # {}

Resolving(p) == pc[p] = "tenant" /\ ~Skipped(p)

\* JwtClaims::get_str, of the extension that an upstream layer has left.
GetStr(claims) == IF claims = Absent THEN Absent ELSE ClaimText(claims.tenant)

\* The tenant that the claims of an upstream layer name.
FromClaims(p) == IF layer.claims THEN TenantOf(GetStr(req[p].claims)) ELSE Nobody

FromChain(p) == Composite(IntoResolver(layer.config), layer.config, req[p])

Skip(p) ==
  /\ Goto(p, "tenant", "bridge")
  /\ Skipped(p)
  /\ UNCHANGED <<layer, requestVars, status, providerVars>>

\* The request goes on with a TenantContext.
Inject(p, t, name) ==
  /\ Goto(p, "tenant", "bridge")
  /\ context' = [context EXCEPT ![p] = [tenant |-> t, resolvedBy |-> name]]
  /\ UNCHANGED <<layer, req, tenantId, db, status, providerVars>>

ResolvedFromClaims(p) ==
  /\ Resolving(p)
  /\ FromClaims(p) # Nobody
  /\ Inject(p, FromClaims(p), "JwtClaims")

\* Mutant: the chain comes first, the claims are its fallback.
ResolvedByChainFirst(p) ==
  /\ Resolving(p)
  /\ FromChain(p) \notin {Nobody, Invalid}
  /\ Inject(p, FromChain(p), "CompositeTenantResolver")

ResolvedByChain(p) ==
  /\ Resolving(p)
  /\ FromClaims(p) = Nobody
  /\ FromChain(p) \notin {Nobody, Invalid}
  /\ Inject(p, FromChain(p), "CompositeTenantResolver")

\* The response to a request that is refused here.
Respond(p, from, code) ==
  /\ Goto(p, from, "done")
  /\ status' = [status EXCEPT ![p] = code]
  /\ UNCHANGED <<layer, requestVars>>

\* Mutant: a request without a tenant is let through.
LetThrough(p) ==
  /\ Resolving(p)
  /\ FromClaims(p) = Nobody
  /\ FromChain(p) = Nobody
  /\ Goto(p, "tenant", "bridge")
  /\ UNCHANGED <<layer, requestVars, status, providerVars>>

\* MissingTenant and InvalidTenant are both answered with 400.
Missing(p) ==
  /\ Resolving(p)
  /\ FromClaims(p) = Nobody
  /\ FromChain(p) = Nobody
  /\ Respond(p, "tenant", 400)
  /\ UNCHANGED providerVars

Failed(p) ==
  /\ Resolving(p)
  /\ FromClaims(p) = Nobody
  /\ FromChain(p) = Invalid
  /\ Respond(p, "tenant", 400)
  /\ UNCHANGED providerVars

-----------------------------------------------------------------------------
(* Between the layers: the application's own, if it has one *)

Bridge(p) ==
  /\ Goto(p, "bridge", "db")
  /\ tenantId' = [tenantId EXCEPT ![p] =
       IF Bridged /\ context[p] # Absent THEN context[p].tenant ELSE @]
  /\ UNCHANGED <<layer, req, context, db, status, providerVars>>

-----------------------------------------------------------------------------
(* TenantDbMiddleware::call *)

NoTenantId(p) ==
  /\ tenantId[p] = Absent
  /\ Goto(p, "db", "handler")
  /\ UNCHANGED <<layer, requestVars, status, providerVars>>

\* Mutant: the connection is asked for the tenant that the request names.
ConnectForNamed(p) ==
  /\ tenantId[p] # Absent
  /\ Goto(p, "db", "connect")
  /\ Provider!Call(p, IF FromChain(p) \in TenantIds THEN FromChain(p)
                      ELSE tenantId[p])
  /\ UNCHANGED <<layer, requestVars, status>>

\* provider.connection_for(tenant) is called.
Connect(p) ==
  /\ tenantId[p] # Absent
  /\ Goto(p, "db", "connect")
  /\ Provider!Call(p, tenantId[p])
  /\ UNCHANGED <<layer, requestVars, status>>

ProviderAnswers(p) ==
  /\ Provider!Answer(p)
  /\ UNCHANGED <<layer, pc, requestVars, status>>

Connected(p) ==
  /\ phase[p] = "ok"
  /\ Goto(p, "connect", "handler")
  /\ db' = [db EXCEPT ![p] = TRUE]
  /\ UNCHANGED <<layer, req, context, tenantId, status, providerVars>>

\* Mutant: the handler runs without a connection when the provider fails.
ConnectErrorIgnored(p) ==
  /\ phase[p] = "err"
  /\ Goto(p, "connect", "handler")
  /\ UNCHANGED <<layer, requestVars, status, providerVars>>

ConnectError(p) ==
  /\ phase[p] = "err"
  /\ Respond(p, "connect", 500)
  /\ UNCHANGED providerVars

-----------------------------------------------------------------------------
(* The handler, and the end of the request *)

InHandler(p) == pc[p] = "handler"

\* It uses its connection, if there is one.
HandlerQueries(p) ==
  /\ InHandler(p)
  /\ db[p]
  /\ Provider!Query(p)
  /\ UNCHANGED <<layer, pc, requestVars, status>>

\* What its extractors look for is missing: a TenantContext, for CurrentTenant and
\* for TenantContext; the extension of the same name, for JwtClaims.
Lacks(p) ==
  \/ "tenant" \in req[p].wants /\ context[p] = Absent
  \/ "claims" \in req[p].wants /\ req[p].claims = Absent

\* An extractor refuses the request, or the handler's own status is the response's.
HandlerResponds(p) ==
  /\ InHandler(p)
  /\ \/ Lacks(p) /\ Respond(p, "handler", 400)
     \/ ~Lacks(p) /\ \E code \in {200, 404, 500} : Respond(p, "handler", code)
  /\ UNCHANGED providerVars

\* The response is sent, or the client has gone and the future is dropped where
\* it awaits; the request and its extensions are dropped with it.
End(p) ==
  /\ pc[p] \in {"done", "connect", "handler"}
  /\ pc'       = [pc EXCEPT ![p] = "idle"]
  /\ req'      = [req EXCEPT ![p] = None]
  /\ context'  = [context EXCEPT ![p] = Absent]
  /\ tenantId' = [tenantId EXCEPT ![p] = Absent]
  /\ db'       = [db EXCEPT ![p] = FALSE]
  /\ status'   = [status EXCEPT ![p] = None]
  /\ IF phase[p] = "idle" THEN UNCHANGED providerVars ELSE Provider!Leave(p)
  /\ UNCHANGED layer

-----------------------------------------------------------------------------
(* Specification *)

Progress(p) ==
  \/ Skip(p)
  \/ ResolvedFromClaims(p)
  \/ ResolvedByChain(p)
  \/ Missing(p)
  \/ Failed(p)
  \/ Bridge(p)
  \/ NoTenantId(p)
  \/ Connect(p)
  \/ ProviderAnswers(p)
  \/ Connected(p)
  \/ ConnectError(p)
  \/ HandlerResponds(p)

Next ==
  \E p \in Tasks :
    \/ \E r \in Requests : Arrive(p, r)
    \/ Progress(p)
    \/ HandlerQueries(p)
    \/ End(p)

Spec == Init /\ [][Next]_vars

-----------------------------------------------------------------------------
(* Properties *)

\* Types of the state; a TenantId is never blank nor padded.
TypeOK ==
  /\ layer \in Layers
  /\ pc \in [Tasks -> {"idle", "tenant", "bridge", "db", "connect", "handler",
                       "done"}]
  /\ DOMAIN req = Tasks
  /\ \A p \in Tasks : pc[p] # "idle" => IsRequest(req[p])
  /\ context \in [Tasks -> Contexts \cup {Absent}]
  /\ tenantId \in [Tasks -> TenantIds \cup {Absent}]
  /\ db \in [Tasks -> BOOLEAN]
  /\ status \in [Tasks -> {200, 400, 404, 500, None}]
  /\ tenant \in [Tasks -> Provider!Principals \cup {None}]

\* Without a tenant no request gets past the middleware, save on a skip path;
\* and there it carries none.
NoTenantNoHandler ==
  \A p \in Tasks : InHandler(p) => (Skipped(p) <=> context[p] = Absent)

\* Claims that an upstream layer verified win over anything in the request that
\* a client writes.
ClaimsWin ==
  \A p \in Tasks : InHandler(p) /\ ~Skipped(p) /\ FromClaims(p) # Nobody =>
    context[p].tenant = FromClaims(p)

\* The default tenant is for requests that name none: it hides neither a tenant
\* that some strategy finds nor the error of one that fails.
DefaultIsLast ==
  \A p \in Tasks :
    /\ InHandler(p) /\ context[p] # Absent
    /\ context[p].resolvedBy = "CompositeTenantResolver"
    /\ layer.config.default_tenant # Absent
    /\ context[p].tenant = TenantIdNew(layer.config.default_tenant)
    => \/ \A i \in DOMAIN layer.config.strategies :
            Resolve(layer.config.strategies[i], layer.config, req[p]) = Nobody
       \/ \E i \in DOMAIN layer.config.strategies :
            Resolve(layer.config.strategies[i], layer.config, req[p])
              = context[p].tenant

\* An invalid token is refused wherever its strategy stands in the chain, unless
\* a strategy before it has found the tenant.
ErrorsRefused ==
  \A p \in Tasks : InHandler(p) /\ ~Skipped(p) /\ FromClaims(p) = Nobody =>
    \A i \in DOMAIN layer.config.strategies :
      Resolve(layer.config.strategies[i], layer.config, req[p]) = Invalid =>
        \E j \in 1 .. i - 1 :
          Resolve(layer.config.strategies[j], layer.config, req[p])
            = context[p].tenant

\* What a handler reads over its TenantDb is the data of the tenant in its
\* TenantContext, over every way the tenant was resolved and every
\* interleaving of requests in the provider.
EndToEnd ==
  \A p \in Tasks : seen[p] # None =>
    context[p] # Absent /\ seen[p] = context[p].tenant

\* Where TenantDbLayer finds a TenantId, the handler is reached with a connection
\* or not at all, and the connection is the provider's answer to a call for that
\* tenant, whatever else fails or waits in the provider.
Connectedness ==
  \A p \in Tasks : InHandler(p) /\ tenantId[p] # Absent =>
    db[p] /\ phase[p] = "ok" /\ tenant[p] = tenantId[p]

\* "Place this layer after the TenantLayer (which inserts TenantId). It reads the
\* resolved TenantId from extensions": behind the two layers as they are
\* documented, a handler that has a tenant has its connection too.
DbInjected ==
  \A p \in Tasks : InHandler(p) /\ context[p] # Absent => db[p]

\* Every request is answered, unless its client goes away.
RequestAnswered ==
  \A p \in Tasks : pc[p] # "idle" ~> status[p] # None \/ pc[p] = "idle"

=============================================================================
