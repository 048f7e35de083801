---------------------------- MODULE RowSecurity ----------------------------
(***************************************************************************)
(* The discriminator strategy: all tenants in one table of one database.   *)
(* DiscriminatorProvider (tenant-sea-orm/src/discriminator.rs) gives every *)
(* caller a clone of one connection, TenantFilter (filter.rs) adds a WHERE *)
(* clause to a query, and RlsManager (rls.rs) has PostgreSQL filter rows   *)
(* by a variable of the session, whether or not the query does.            *)
(*                                                                         *)
(* The rows of a tenant are named by the tenant.  A call of enable_rls or  *)
(* disable_rls is a list of statements that run one after the other; the   *)
(* check of the backend and of the names comes before the first, and a     *)
(* call that fails it has changed nothing.  The application owns the       *)
(* table, so that row security binds it only where it is forced.           *)
(*                                                                         *)
(* PostgreSQL, the one backend that the check lets through, has no         *)
(* CREATE POLICY IF NOT EXISTS: it refuses the third statement of          *)
(* enable_rls, which therefore always answers with an error and leaves the *)
(* policy to be made by hand.                                              *)
(***************************************************************************)
EXTENDS Naturals, Sequences

CONSTANTS
  Tenants,   \* the tenants
  Tasks,     \* the requests in flight, one asynchronous task each
  Managers,  \* the callers of enable_rls and disable_rls
  None,      \* no tenant
  Sessions,  \* the sessions of the database server
  Pool,      \* the sessions that the connection of each task is made of
  Brackets   \* the tasks whose application opens a transaction for a request

ASSUME SecurityAssumption ==
  /\ None \notin Tenants
  /\ Pool \in [Tasks -> SUBSET Sessions]
  /\ Brackets \subseteq Tasks

\* set_tenant takes a connection and no transaction object, so that whoever wants
\* it inside a transaction needs a connection of one session, to itself.
ASSUME BracketsAssumption ==
  \A p \in Brackets :
    /\ \E s \in Sessions : Pool[p] = {s}
    /\ \A q \in Tasks \ {p} : Pool[p] \cap Pool[q] = {}

VARIABLES
  table,          \* the table: row security enabled, forced, with its policy
  call,           \* what each manager is in: "enable", "disable" or "none"
  todo,           \* the statements that its call has still to run
  overlapped,     \* history: the enable_rls calls that a disable_rls overlaps
  secured,        \* history: enable_rls ran up to the policy, no disable_rls since
  failed,         \* history: some call has stopped between its statements
  pc,             \* where each request is: "idle", "open", or its tenant "set"
  tenant,         \* the tenant of each request
  inTxn,          \* the sessions that are in a transaction
  localTenant,    \* app.tenant_id of each session, until its transaction ends
  sessionTenant   \* app.tenant_id of each session, outside of a transaction

vars == <<table, call, todo, overlapped, secured, failed, pc, tenant, inTxn,
          localTenant, sessionTenant>>

managerVars == <<table, call, todo, overlapped, secured, failed>>
requestVars == <<pc, tenant, inTxn, localTenant, sessionTenant>>

Init ==
  /\ table         = [enabled |-> FALSE, forced |-> FALSE, policy |-> FALSE]
  /\ call          = [m \in Managers |-> "none"]
  /\ todo          = [m \in Managers |-> << >>]
  /\ overlapped    = {}
  /\ secured       = FALSE
  /\ failed        = FALSE
  /\ pc            = [p \in Tasks |-> "idle"]
  /\ tenant        = [p \in Tasks |-> None]
  /\ inTxn         = {}
  /\ localTenant   = [s \in Sessions |-> None]
  /\ sessionTenant = [s \in Sessions |-> None]

-----------------------------------------------------------------------------
(* RlsManager::enable_rls and disable_rls *)

\* Mutant: whatever there is is taken down first, and set up afresh.
EnableAfresh == <<"disable", "drop", "enable", "force", "policy">>

\* Mutant: the policy comes before the table is forced.
EnablePolicyFirst == <<"enable", "policy", "force">>

EnableStatements == <<"enable", "force", "policy">>

DisableStatements == <<"drop", "disable">>

\* Row security binds the application.
Binding == table.enabled /\ table.forced

\* The table t after a statement: ALTER TABLE .. ENABLE, FORCE and DISABLE ROW
\* LEVEL SECURITY, CREATE POLICY IF NOT EXISTS, DROP POLICY IF EXISTS.
After(t, statement) ==
  CASE statement = "enable"  -> [t EXCEPT !.enabled = TRUE]
    [] statement = "force"   -> [t EXCEPT !.forced = TRUE]
    [] statement = "policy"  -> t
    [] statement = "drop"    -> [t EXCEPT !.policy = FALSE]
    [] statement = "disable" -> [t EXCEPT !.enabled = FALSE]

EnableRls(m) ==
  /\ call[m] = "none"
  /\ call' = [call EXCEPT ![m] = "enable"]
  /\ todo' = [todo EXCEPT ![m] = EnableStatements]
  /\ overlapped' = IF \E n \in Managers : call[n] = "disable"
                     THEN overlapped \cup {m} ELSE overlapped \ {m}
  /\ UNCHANGED <<table, secured, failed, requestVars>>

DisableRls(m) ==
  /\ call[m] = "none"
  /\ call' = [call EXCEPT ![m] = "disable"]
  /\ todo' = [todo EXCEPT ![m] = DisableStatements]
  /\ overlapped' = overlapped \cup {n \in Managers : call[n] = "enable"}
  /\ secured' = FALSE
  /\ UNCHANGED <<table, failed, requestVars>>

\* The next statement runs; a call of one more statement goes on to it.
Exec(m) ==
  /\ Len(todo[m]) > 1
  /\ Head(todo[m]) # "policy"
  /\ table' = After(table, Head(todo[m]))
  /\ todo' = [todo EXCEPT ![m] = Tail(@)]
  /\ UNCHANGED <<call, overlapped, secured, failed, requestVars>>

\* The last statement runs, and the call answers Ok.
ExecLast(m) ==
  /\ Len(todo[m]) = 1
  /\ Head(todo[m]) # "policy"
  /\ table' = After(table, Head(todo[m]))
  /\ todo' = [todo EXCEPT ![m] = << >>]
  /\ call' = [call EXCEPT ![m] = "none"]
  /\ UNCHANGED <<overlapped, secured, failed, requestVars>>

\* The server refuses CREATE POLICY IF NOT EXISTS, and the call answers Err.
Refuse(m) ==
  /\ todo[m] # << >>
  /\ Head(todo[m]) = "policy"
  /\ todo' = [todo EXCEPT ![m] = << >>]
  /\ call' = [call EXCEPT ![m] = "none"]
  /\ secured' = (secured \/ m \notin overlapped)
  /\ UNCHANGED <<table, overlapped, failed, requestVars>>

\* The application makes the policy by hand, on a table that enable_rls has left
\* without: external, nothing of the repository does.
CreatePolicy ==
  /\ Binding
  /\ ~table.policy
  /\ table' = [table EXCEPT !.policy = TRUE]
  /\ UNCHANGED <<call, todo, overlapped, secured, failed, requestVars>>

\* Mutant: all statements are under way together, and those behind the one that
\* fails run all the same.
ExecFailsConcurrent(m) ==
  /\ todo[m] # << >>
  /\ todo' = [todo EXCEPT ![m] = Tail(@)]
  /\ call' = [call EXCEPT ![m] = "none"]
  /\ failed' = TRUE
  /\ UNCHANGED <<table, overlapped, secured, requestVars>>

\* A statement fails, `?` returns at once; or its answer is lost, or the future
\* dropped, when it has run.
ExecFails(m) ==
  /\ todo[m] # << >>
  /\ table' \in {table, After(table, Head(todo[m]))}
  /\ todo' = [todo EXCEPT ![m] = << >>]
  /\ call' = [call EXCEPT ![m] = "none"]
  /\ failed' = TRUE
  /\ UNCHANGED <<overlapped, secured, requestVars>>

-----------------------------------------------------------------------------
(* A request, RlsManager::set_tenant and reset_tenant *)

\* DiscriminatorProvider::connection_for clones the connection it was made
\* with, whoever asks.  An application that brackets its requests opens a
\* transaction on it.
ConnectionFor(p, t) ==
  /\ pc[p] = "idle"
  /\ pc' = [pc EXCEPT ![p] = "open"]
  /\ tenant' = [tenant EXCEPT ![p] = t]
  /\ inTxn' = IF p \in Brackets THEN inTxn \cup Pool[p] ELSE inTxn
  /\ UNCHANGED <<localTenant, sessionTenant, managerVars>>

\* Mutant: SET without LOCAL.
SetTenantForSession(p) ==
  /\ pc[p] = "open"
  /\ pc' = [pc EXCEPT ![p] = "set"]
  /\ \E s \in Pool[p] : sessionTenant' = [sessionTenant EXCEPT ![s] = tenant[p]]
  /\ UNCHANGED <<tenant, inTxn, localTenant, managerVars>>

\* Mutant: the statement goes to the manager's own connection.
SetTenantOfManager(p) ==
  /\ pc[p] = "open"
  /\ pc' = [pc EXCEPT ![p] = "set"]
  /\ \E s \in Sessions \ Pool[p] :
       localTenant' = IF s \in inTxn THEN [localTenant EXCEPT ![s] = tenant[p]]
                                     ELSE localTenant
  /\ UNCHANGED <<tenant, inTxn, sessionTenant, managerVars>>

\* SET LOCAL, on one of the sessions of the connection.  It lasts until the
\* transaction ends: outside of one, until its own end, that is not at all.
SetTenant(p) ==
  /\ pc[p] = "open"
  /\ pc' = [pc EXCEPT ![p] = "set"]
  /\ \E s \in Pool[p] :
       localTenant' = IF s \in inTxn THEN [localTenant EXCEPT ![s] = tenant[p]]
                                     ELSE localTenant
  /\ UNCHANGED <<tenant, inTxn, sessionTenant, managerVars>>

ResetTenant(p) ==
  /\ pc[p] = "set"
  /\ pc' = [pc EXCEPT ![p] = "open"]
  /\ \E s \in Pool[p] :
       /\ localTenant' = [localTenant EXCEPT ![s] = None]
       /\ sessionTenant' = [sessionTenant EXCEPT ![s] = None]
  /\ UNCHANGED <<tenant, inTxn, managerVars>>

\* The request ends, and with it the transaction that it has opened.
End(p) ==
  /\ pc[p] # "idle"
  /\ pc' = [pc EXCEPT ![p] = "idle"]
  /\ tenant' = [tenant EXCEPT ![p] = None]
  /\ inTxn' = IF p \in Brackets THEN inTxn \ Pool[p] ELSE inTxn
  /\ localTenant' = [s \in Sessions |->
                       IF s \in inTxn' THEN localTenant[s] ELSE None]
  /\ UNCHANGED <<sessionTenant, managerVars>>

-----------------------------------------------------------------------------
(* What a query reads *)

\* current_setting('app.tenant_id').
Setting(s) == IF localTenant[s] # None THEN localTenant[s] ELSE sessionTenant[s]

\* The rows that the server lets a query on session s see.  Row security without
\* a policy lets none through, and neither does the policy without a setting.
Visible(s) ==
  CASE ~Binding -> Tenants
    [] Binding /\ ~table.policy -> {}
    [] Binding /\ table.policy  -> {t \in Tenants : t = Setting(s)}

\* TenantFilter::filter and condition: WHERE tenant_id = ?.
Filter(rows, t) == rows \cap {t}

Reads(p, s, filtered) ==
  IF filtered THEN Filter(Visible(s), tenant[p]) ELSE Visible(s)

InRequest(p) == pc[p] # "idle"

-----------------------------------------------------------------------------
(* Specification *)

Next ==
  \/ \E m \in Managers :
       \/ EnableRls(m)
       \/ DisableRls(m)
       \/ Exec(m)
       \/ ExecLast(m)
       \/ Refuse(m)
       \/ ExecFails(m)
  \/ CreatePolicy
  \/ \E p \in Tasks :
       \/ \E t \in Tenants : ConnectionFor(p, t)
       \/ SetTenant(p)
       \/ ResetTenant(p)
       \/ End(p)

Spec == Init /\ [][Next]_vars

-----------------------------------------------------------------------------
(* Properties *)

Statements == {"enable", "force", "policy", "drop", "disable"}

\* Types of the state; a call is under way exactly while it has statements left.
TypeOK ==
  /\ table \in [enabled : BOOLEAN, forced : BOOLEAN, policy : BOOLEAN]
  /\ call \in [Managers -> {"none", "enable", "disable"}]
  /\ todo \in [Managers -> Seq(Statements)]
  /\ \A m \in Managers : call[m] = "none" <=> todo[m] = << >>
  /\ overlapped \subseteq Managers
  /\ secured \in BOOLEAN
  /\ failed \in BOOLEAN
  /\ pc \in [Tasks -> {"idle", "open", "set"}]
  /\ tenant \in [Tasks -> Tenants \cup {None}]
  /\ inTxn \subseteq Sessions
  /\ localTenant \in [Sessions -> Tenants \cup {None}]
  /\ sessionTenant \in [Sessions -> Tenants \cup {None}]

\* "This is idempotent — safe to call multiple times", as far as it goes: once an
\* enable_rls that no disable_rls overlaps has run up to its policy, row security
\* binds the table until the next disable_rls, whatever calls failed before and
\* whatever enable_rls calls run, fail or are refused meanwhile.
Protected == secured => Binding

\* Calls that do not fail before the policy, however they interleave, never leave a
\* table whose row security its owner does not feel.
NeverHalfEnabled ==
  ~failed /\ (\A m \in Managers : call[m] = "none")
    => (table.enabled => table.forced)

\* "Even if application code forgets to filter, the database enforces
\* isolation": on a secured table, with a policy or still without, no query of a
\* request, over whichever session of its connection it runs, and whether or not
\* the tenant was set on it, reads a row of another tenant.
Isolated ==
  secured => \A p \in Tasks : InRequest(p) =>
               \A s \in Pool[p] : Reads(p, s, FALSE) \subseteq {tenant[p]}

\* Once the table has its policy and a task its tenant set, a query of these tasks
\* reads the rows of the tenant, all of them and no others, with the filter and
\* without.
OwnRowsReadBy(tasks) ==
  secured /\ table.policy => \A p \in tasks : pc[p] = "set" =>
    \A s \in Pool[p], filtered \in BOOLEAN : Reads(p, s, filtered) = {tenant[p]}

\* Where the application opens a transaction on a session of its own, set_tenant
\* does what it is for, beside requests that do without and share sessions.
BracketedReadOwnRows == OwnRowsReadBy(Brackets)

\* "All subsequent queries on `conn` are now filtered by tenant", whoever calls.
ReadsOwnRows == OwnRowsReadBy(Tasks)

=============================================================================
