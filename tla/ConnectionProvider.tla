------------------------- MODULE ConnectionProvider -------------------------
(***************************************************************************)
(* What a TenantConnectionProvider promises, whatever the isolation        *)
(* strategy behind it (tenant-sea-orm/src/connection.rs): a call for a     *)
(* tenant is answered with a connection to that tenant's data, or with an  *)
(* error, and everything later read over the connection it returned is     *)
(* that tenant's.  `any_connection` is a call made for the pseudo-tenant   *)
(* Admin.  The concrete providers are shown to implement this module.      *)
(***************************************************************************)
CONSTANTS
  Tenants,   \* the tenants
  Admin,     \* whom any_connection serves: no tenant, the admin database
  Tasks,     \* the requests in flight, one asynchronous task each
  None       \* no value: neither a tenant nor Admin

VARIABLES
  phase,     \* where each task's call stands
  tenant,    \* whom each task's call is for
  seen       \* whose data the task last read over its connection

abstractVars == <<phase, tenant, seen>>

Principals == Tenants \cup {Admin}

Init ==
  /\ phase  = [p \in Tasks |-> "idle"]
  /\ tenant = [p \in Tasks |-> None]
  /\ seen   = [p \in Tasks |-> None]

\* connection_for(t), or any_connection() when t is Admin.
Call(p, t) ==
  /\ phase[p] = "idle"
  /\ phase'  = [phase EXCEPT ![p] = "pending"]
  /\ tenant' = [tenant EXCEPT ![p] = t]
  /\ UNCHANGED seen

\* The call answers Ok(connection) or Err(error).
Answer(p) ==
  /\ phase[p] = "pending"
  /\ \E a \in {"ok", "err"} : phase' = [phase EXCEPT ![p] = a]
  /\ UNCHANGED <<tenant, seen>>

\* The caller reads over the connection it was given.
Query(p) ==
  /\ phase[p] = "ok"
  /\ seen' = [seen EXCEPT ![p] = tenant[p]]
  /\ UNCHANGED <<phase, tenant>>

\* The caller is done with the answer, or drops the future before one comes.
Leave(p) ==
  /\ phase[p] # "idle"
  /\ phase'  = [phase EXCEPT ![p] = "idle"]
  /\ tenant' = [tenant EXCEPT ![p] = None]
  /\ seen'   = [seen EXCEPT ![p] = None]

Next ==
  \E p \in Tasks :
    \/ \E t \in Principals : Call(p, t)
    \/ Answer(p)
    \/ Query(p)
    \/ Leave(p)

Spec == Init /\ [][Next]_abstractVars

=============================================================================
