-------------------------- MODULE RowSecurityProofs --------------------------
(***************************************************************************)
(* Theorems about RowSecurity, for every set of tenants, requests,         *)
(* managers and sessions, and every pool of each request.                  *)
(***************************************************************************)
EXTENDS RowSecurity, TLAPS

\* The lists of statements that a call may have left to run.
E3 == <<"enable", "force", "policy">>
E2 == <<"force", "policy">>
E1 == <<"policy">>
D2 == <<"drop", "disable">>
D1 == <<"disable">>

\* A call has left the end of its list, and none of it once it has returned.
Lists ==
  \A m \in Managers :
    \/ call[m] = "none"    /\ todo[m] = << >>
    \/ call[m] = "enable"  /\ todo[m] \in {E3, E2, E1}
    \/ call[m] = "disable" /\ todo[m] \in {D2, D1}

\* An enable_rls that may secure the table is beside no disable_rls, and what it has
\* run so far holds.
Protecting ==
  /\ secured => Binding
  /\ secured => \A n \in Managers : call[n] # "disable"
  /\ \A m, n \in Managers :
       call[m] = "enable" /\ call[n] = "disable" => m \in overlapped
  /\ \A m \in Managers : call[m] = "enable" /\ m \notin overlapped =>
       /\ todo[m] \in {E2, E1} => table.enabled
       /\ todo[m] = E1 => table.forced

\* While no call has failed, a table that is enabled and not forced is still to be
\* forced by some call.
Completing ==
  ~failed /\ table.enabled /\ ~table.forced => \E m \in Managers : todo[m] = E2

\* The variable is set on the sessions of open transactions alone, each to the
\* tenant of the request that has opened it.
Bracketing ==
  /\ \A s \in Sessions : sessionTenant[s] = None
  /\ \A p \in Tasks : InRequest(p) => tenant[p] \in Tenants
  /\ \A s \in inTxn : \E q \in Brackets : InRequest(q) /\ s \in Pool[q]
  /\ \A q \in Brackets : InRequest(q) => Pool[q] \subseteq inTxn
  /\ \A s \in Sessions : localTenant[s] # None => s \in inTxn
  /\ \A q \in Brackets : \A s \in Pool[q] : InRequest(q) =>
       localTenant[s] \in {None, tenant[q]}
  /\ \A q \in Brackets : \A s \in Pool[q] : pc[q] = "set" =>
       localTenant[s] = tenant[q]

IInv == TypeOK /\ Lists /\ Protecting /\ Completing /\ Bracketing

USE SecurityAssumption, BracketsAssumption

-----------------------------------------------------------------------------
(* Lists of statements *)

\* The lists differ, and are made of statements.
LEMMA DifferentLists ==
  /\ << >> \notin {E3, E2, E1, D2, D1}
  /\ E3 \notin {E2, E1, D2, D1}
  /\ E2 \notin {E1, D2, D1}
  /\ E1 \notin {D2, D1}
  /\ D2 # D1
  /\ {<< >>, E3, E2, E1, D2, D1} \subseteq Seq(Statements)
BY DEF E3, E2, E1, D2, D1, Statements

\* What stands first in each list, and what it leaves.
LEMMA Heads ==
  /\ Head(E3) = "enable"  /\ Tail(E3) = E2 /\ Len(E3) > 1
  /\ Head(E2) = "force"   /\ Tail(E2) = E1 /\ Len(E2) > 1
  /\ Head(E1) = "policy"  /\ Len(E1) = 1
  /\ Head(D2) = "drop"    /\ Tail(D2) = D1 /\ Len(D2) > 1
  /\ Head(D1) = "disable" /\ Tail(D1) = << >> /\ Len(D1) = 1
  /\ Len(<< >>) = 0
BY DEF E3, E2, E1, D2, D1

\* What each statement does to a table.
LEMMA Statement ==
  /\ After(table, "enable")  = [table EXCEPT !.enabled = TRUE]
  /\ After(table, "force")   = [table EXCEPT !.forced = TRUE]
  /\ After(table, "policy")  = table
  /\ After(table, "drop")    = [table EXCEPT !.policy = FALSE]
  /\ After(table, "disable") = [table EXCEPT !.enabled = FALSE]
BY Zenon DEF After

\* The five statements that may be next, whoever runs them, and what they leave.
LEMMA Runs ==
  ASSUME TypeOK, Lists, NEW m \in Managers, todo[m] # << >>
  PROVE  \/ /\ call[m] = "enable" /\ todo[m] = E3 /\ Len(todo[m]) > 1
            /\ Tail(todo[m]) = E2
            /\ After(table, Head(todo[m])) = [table EXCEPT !.enabled = TRUE]
         \/ /\ call[m] = "enable" /\ todo[m] = E2 /\ Len(todo[m]) > 1
            /\ Tail(todo[m]) = E1
            /\ After(table, Head(todo[m])) = [table EXCEPT !.forced = TRUE]
         \/ /\ call[m] = "enable" /\ todo[m] = E1 /\ Head(todo[m]) = "policy"
            /\ After(table, Head(todo[m])) = table
         \/ /\ call[m] = "disable" /\ todo[m] = D2 /\ Len(todo[m]) > 1
            /\ Tail(todo[m]) = D1
            /\ After(table, Head(todo[m])) = [table EXCEPT !.policy = FALSE]
         \/ /\ call[m] = "disable" /\ todo[m] = D1 /\ Len(todo[m]) = 1
            /\ After(table, Head(todo[m])) = [table EXCEPT !.enabled = FALSE]
<1>1. CASE call[m] = "enable" /\ todo[m] = E3
  BY <1>1, Heads, Statement
<1>2. CASE call[m] = "enable" /\ todo[m] = E2
  BY <1>2, Heads, Statement
<1>3. CASE call[m] = "enable" /\ todo[m] = E1
  BY <1>3, Heads, Statement
<1>4. CASE call[m] = "disable" /\ todo[m] = D2
  BY <1>4, Heads, Statement
<1>5. CASE call[m] = "disable" /\ todo[m] = D1
  BY <1>5, Heads, Statement
<1> QED
  BY <1>1, <1>2, <1>3, <1>4, <1>5 DEF Lists

-----------------------------------------------------------------------------
(* The invariant *)

LEMMA InitIInv == Init => IInv
<1> SUFFICES ASSUME Init PROVE IInv
  OBVIOUS
<1>1. TypeOK
  BY DifferentLists DEF Init, TypeOK
<1>2. Lists
  BY DEF Init, Lists
<1>3. Protecting /\ Completing
  BY DEF Init, Protecting, Completing
<1>4. Bracketing
  BY DEF Init, Bracketing, InRequest
<1> QED
  BY <1>1, <1>2, <1>3, <1>4 DEF IInv

\* A step of a call to enable_rls or disable_rls.
LEMMA ManagerStep ==
  ASSUME IInv, NEW m \in Managers,
         \/ EnableRls(m)
         \/ DisableRls(m)
         \/ Exec(m)
         \/ ExecLast(m)
         \/ Refuse(m)
         \/ ExecFails(m)
  PROVE  IInv'
<1> USE DEF IInv
<1>0. Bracketing'
  <2>1. UNCHANGED requestVars
    BY DEF EnableRls, DisableRls, Exec, ExecLast, Refuse, ExecFails
  <2> QED
    BY <2>1 DEF Bracketing, InRequest, requestVars
<1>1. CASE EnableRls(m)
  <2> USE <1>1 DEF EnableRls
  <2>1. EnableStatements = E3 /\ E3 \in Seq(Statements)
    BY DifferentLists DEF EnableStatements, E3
  <2>2. TypeOK'
    BY <2>1, DifferentLists DEF TypeOK, requestVars
  <2>3. Lists'
    BY <2>1 DEF TypeOK, Lists
  <2>4. Protecting'
    BY <2>1, DifferentLists DEF TypeOK, Protecting, Binding
  <2>5. Completing'
    BY <2>1, DifferentLists DEF TypeOK, Lists, Completing
  <2> QED
    BY <1>0, <2>2, <2>3, <2>4, <2>5
<1>2. CASE DisableRls(m)
  <2> USE <1>2 DEF DisableRls
  <2>1. DisableStatements = D2 /\ D2 \in Seq(Statements)
    BY DifferentLists DEF DisableStatements, D2
  <2>2. TypeOK'
    BY <2>1, DifferentLists DEF TypeOK, requestVars
  <2>3. Lists'
    BY <2>1 DEF TypeOK, Lists
  <2>4. Protecting'
    BY <2>1, DifferentLists DEF TypeOK, Protecting, Binding
  <2>5. Completing'
    BY <2>1, DifferentLists DEF TypeOK, Lists, Completing
  <2> QED
    BY <1>0, <2>2, <2>3, <2>4, <2>5
<1>3. CASE Exec(m)
  <2> DEFINE Ran(c, list, rest, t) ==
        /\ call[m] = c
        /\ todo[m] = list
        /\ todo' = [todo EXCEPT ![m] = rest]
        /\ table' = t
  <2>1. todo[m] # << >>
    BY <1>3, Heads DEF Exec
  <2>2. \/ Ran("enable", E3, E2, [table EXCEPT !.enabled = TRUE])
        \/ Ran("enable", E2, E1, [table EXCEPT !.forced = TRUE])
        \/ Ran("disable", D2, D1, [table EXCEPT !.policy = FALSE])
    <3>1. /\ Len(todo[m]) > 1
          /\ table' = After(table, Head(todo[m]))
          /\ todo' = [todo EXCEPT ![m] = Tail(todo[m])]
      BY <1>3 DEF Exec
    <3>2. todo[m] \notin {E1, D1}
      BY <3>1, Heads
    <3> QED
      BY <2>1, <3>1, <3>2, Runs
  <2>3. UNCHANGED <<call, overlapped, secured, failed, requestVars>>
    BY <1>3 DEF Exec
  <2>4. TypeOK'
    <3>1. PICK rest \in {E2, E1, D1} : todo' = [todo EXCEPT ![m] = rest]
      BY <2>2
    <3>2. rest \in Seq(Statements) /\ rest # << >>
      BY DifferentLists
    <3>3. todo' \in [Managers -> Seq(Statements)]
      BY <3>1, <3>2 DEF TypeOK
    <3>4. call[m] # "none"
      BY <2>2
    <3>5. \A n \in Managers : call'[n] = "none" <=> todo'[n] = << >>
      BY <2>3, <3>1, <3>2, <3>4 DEF TypeOK
    <3>6. table' \in [enabled : BOOLEAN, forced : BOOLEAN, policy : BOOLEAN]
      BY <2>2 DEF TypeOK
    <3> QED
      BY <2>3, <3>3, <3>5, <3>6 DEF TypeOK, requestVars
  <2>5. Lists'
    BY <2>2, <2>3 DEF TypeOK, Lists
  <2>6. Protecting'
    BY <2>2, <2>3, DifferentLists DEF TypeOK, Protecting, Binding
  <2>7. Completing'
    BY <2>2, <2>3, DifferentLists DEF TypeOK, Completing
  <2> QED
    BY <1>0, <2>4, <2>5, <2>6, <2>7
<1>4. CASE ExecLast(m)
  <2>1. todo[m] # << >>
    BY <1>4, Heads DEF ExecLast
  <2>2. /\ call[m] = "disable" /\ todo[m] = D1
        /\ table' = [table EXCEPT !.enabled = FALSE]
    <3>1. /\ Len(todo[m]) = 1 /\ Head(todo[m]) # "policy"
          /\ table' = After(table, Head(todo[m]))
      BY <1>4 DEF ExecLast
    <3>2. todo[m] \notin {E3, E2, E1, D2}
      BY <3>1, Heads
    <3> QED
      BY <2>1, <3>1, <3>2, Runs
  <2>3. /\ todo' = [todo EXCEPT ![m] = << >>]
        /\ call' = [call EXCEPT ![m] = "none"]
        /\ UNCHANGED <<overlapped, secured, failed, requestVars>>
    BY <1>4 DEF ExecLast
  <2>4. TypeOK'
    BY <2>2, <2>3, DifferentLists DEF TypeOK, requestVars
  <2>5. Lists'
    BY <2>3 DEF TypeOK, Lists
  <2>6. Protecting'
    BY <2>2, <2>3, DifferentLists DEF TypeOK, Protecting, Binding
  <2>7. Completing'
    BY <2>2, <2>3, DifferentLists DEF TypeOK, Completing
  <2> QED
    BY <1>0, <2>4, <2>5, <2>6, <2>7
<1>6. CASE Refuse(m)
  <2>1. call[m] = "enable" /\ todo[m] = E1
    <3>1. todo[m] # << >> /\ Head(todo[m]) = "policy"
      BY <1>6 DEF Refuse
    <3>2. todo[m] \notin {E3, E2, D2, D1}
      BY <3>1, Heads
    <3> QED
      BY <3>1, <3>2, Runs
  <2>2. /\ todo' = [todo EXCEPT ![m] = << >>]
        /\ call' = [call EXCEPT ![m] = "none"]
        /\ secured' = (secured \/ m \notin overlapped)
        /\ UNCHANGED <<table, overlapped, failed, requestVars>>
    BY <1>6 DEF Refuse
  <2>3. TypeOK'
    BY <2>2, DifferentLists DEF TypeOK, requestVars
  <2>4. Lists'
    BY <2>2 DEF TypeOK, Lists
  <2>5. Protecting'
    BY <2>1, <2>2, DifferentLists DEF TypeOK, Protecting, Binding
  <2>6. Completing'
    BY <2>1, <2>2, DifferentLists DEF TypeOK, Completing
  <2> QED
    BY <1>0, <2>3, <2>4, <2>5, <2>6
<1>5. CASE ExecFails(m)
  <2>1. \/ table' = table
        \/ /\ call[m] = "enable"
           /\ \/ table' = [table EXCEPT !.enabled = TRUE]
              \/ table' = [table EXCEPT !.forced = TRUE]
        \/ /\ call[m] = "disable"
           /\ \/ table' = [table EXCEPT !.policy = FALSE]
              \/ table' = [table EXCEPT !.enabled = FALSE]
    BY <1>5, Runs DEF ExecFails
  <2>2. /\ todo' = [todo EXCEPT ![m] = << >>]
        /\ call' = [call EXCEPT ![m] = "none"]
        /\ failed' = TRUE
        /\ UNCHANGED <<overlapped, secured, requestVars>>
    BY <1>5 DEF ExecFails
  <2>3. TypeOK'
    BY <2>1, <2>2, DifferentLists DEF TypeOK, requestVars
  <2>4. Lists'
    BY <2>2 DEF TypeOK, Lists
  <2>5. Protecting'
    BY <2>1, <2>2, DifferentLists DEF TypeOK, Protecting, Binding
  <2>6. Completing'
    BY <2>2 DEF Completing
  <2> QED
    BY <1>0, <2>3, <2>4, <2>5, <2>6
<1> QED
  BY <1>1, <1>2, <1>3, <1>4, <1>5, <1>6

\* The policy that is made by hand disturbs no call.
LEMMA PolicyStep == IInv /\ CreatePolicy => IInv'
<1> SUFFICES ASSUME IInv, CreatePolicy PROVE IInv'
  OBVIOUS
<1> USE DEF IInv, CreatePolicy
<1>1. TypeOK'
  BY DEF TypeOK, requestVars
<1>2. Lists' /\ Protecting' /\ Completing'
  BY DEF TypeOK, Lists, Protecting, Completing, Binding
<1>3. Bracketing'
  BY DEF Bracketing, InRequest, requestVars
<1> QED
  BY <1>1, <1>2, <1>3

\* A step of a request.
LEMMA RequestStep ==
  ASSUME IInv, NEW p \in Tasks,
         \/ \E t \in Tenants : ConnectionFor(p, t)
         \/ SetTenant(p)
         \/ ResetTenant(p)
         \/ End(p)
  PROVE  IInv'
<1> USE DEF IInv
<1>0. Lists' /\ Protecting' /\ Completing'
  <2>1. UNCHANGED managerVars
    BY DEF ConnectionFor, SetTenant, ResetTenant, End
  <2> QED
    BY <2>1 DEF Lists, Protecting, Completing, Binding, managerVars
<1>1. ASSUME NEW t \in Tenants, ConnectionFor(p, t)
      PROVE  IInv'
  <2> USE <1>1 DEF ConnectionFor
  <2>1. TypeOK'
    BY DEF TypeOK, managerVars
  <2>2. Bracketing'
    BY DEF TypeOK, Bracketing, InRequest
  <2> QED
    BY <1>0, <2>1, <2>2
<1>2. CASE SetTenant(p)
  <2> USE <1>2 DEF SetTenant
  <2>1. PICK s \in Pool[p] :
          localTenant' = IF s \in inTxn THEN [localTenant EXCEPT ![s] = tenant[p]]
                                        ELSE localTenant
    OBVIOUS
  <2>2. TypeOK'
    BY <2>1 DEF TypeOK, managerVars
  <2>3. s \in inTxn => p \in Brackets
    BY <2>1 DEF Bracketing
  <2>4. Bracketing'
    BY <2>1, <2>3 DEF TypeOK, Bracketing, InRequest
  <2> QED
    BY <1>0, <2>2, <2>4
<1>3. CASE ResetTenant(p)
  <2> USE <1>3 DEF ResetTenant
  <2>1. TypeOK'
    BY DEF TypeOK, managerVars
  <2>2. Bracketing'
    BY DEF TypeOK, Bracketing, InRequest
  <2> QED
    BY <1>0, <2>1, <2>2
<1>4. CASE End(p)
  <2> USE <1>4 DEF End
  <2>1. TypeOK'
    BY DEF TypeOK, managerVars
  <2>2. Bracketing'
    BY DEF TypeOK, Bracketing, InRequest
  <2> QED
    BY <1>0, <2>1, <2>2
<1> QED
  BY <1>1, <1>2, <1>3, <1>4

\* A step that changes nothing keeps it.
LEMMA StutterStep == IInv /\ UNCHANGED vars => IInv'
BY DEF vars, IInv, TypeOK, Lists, Protecting, Binding, Completing, Bracketing, InRequest

\* The inductive invariant that the theorems rest on.
THEOREM Invariance == Spec => []IInv
<1>1. IInv /\ [Next]_vars => IInv'
  BY ManagerStep, PolicyStep, RequestStep, StutterStep DEF Next
<1> QED
  BY <1>1, InitIInv, PTL DEF Spec

-----------------------------------------------------------------------------
(* Theorems *)

\* The state is well typed: a call is under way exactly while it has statements
\* left to run.
THEOREM TypeCorrect == Spec => []TypeOK
<1>1. IInv => TypeOK
  BY DEF IInv
<1> QED
  BY <1>1, Invariance, PTL

\* Once an enable_rls that no disable_rls overlaps has run up to its policy, row
\* security binds the table until the next disable_rls, however many calls are made,
\* fail, are refused or overlap.
THEOREM Protection == Spec => []Protected
<1>1. IInv => Protected
  BY DEF IInv, Protecting, Protected
<1> QED
  BY <1>1, Invariance, PTL

\* No interleaving of calls that do not fail before the policy leaves a table half
\* enabled.
THEOREM Enabling == Spec => []NeverHalfEnabled
<1>1. IInv => NeverHalfEnabled
  <2> SUFFICES ASSUME IInv, ~failed, \A m \in Managers : call[m] = "none",
                      table.enabled
               PROVE  table.forced
    BY DEF NeverHalfEnabled
  <2>1. \A m \in Managers : todo[m] = << >>
    BY DEF IInv, Lists
  <2> QED
    BY <2>1, DifferentLists DEF IInv, Completing
<1> QED
  BY <1>1, Invariance, PTL

\* On a session that some request can use, the variable is that request's tenant
\* or is not set.
LEMMA OwnSetting ==
  ASSUME IInv, NEW p \in Tasks, InRequest(p), NEW s \in Pool[p]
  PROVE  /\ Setting(s) \in {None, tenant[p]}
         /\ p \in Brackets /\ pc[p] = "set" => Setting(s) = tenant[p]
<1>1. s \in Sessions
  OBVIOUS
<1>2. Setting(s) = localTenant[s]
  BY <1>1 DEF IInv, Bracketing, Setting
<1>3. CASE p \in Brackets
  BY <1>2, <1>3 DEF IInv, Bracketing
<1>4. CASE p \notin Brackets
  <2>1. s \notin inTxn
    BY <1>4 DEF IInv, Bracketing
  <2>2. localTenant[s] = None
    BY <1>1, <2>1 DEF IInv, Bracketing
  <2> QED
    BY <1>2, <1>4, <2>2
<1> QED
  BY <1>3, <1>4

\* What a secured table lets through on a session: nothing without a policy, and the
\* rows of the setting with it.
LEMMA PolicyRows ==
  ASSUME IInv, secured, NEW s
  PROVE  /\ Visible(s) \subseteq {t \in Tenants : t = Setting(s)}
         /\ table.policy => Visible(s) = {t \in Tenants : t = Setting(s)}
<1>1. Binding
  BY DEF IInv, Protecting
<1>2. table.policy \in BOOLEAN
  BY DEF IInv, TypeOK
<1>3. CASE table.policy
  BY <1>1, <1>3, Zenon DEF Visible
<1>4. CASE ~table.policy
  BY <1>1, <1>4, Zenon DEF Visible
<1> QED
  BY <1>2, <1>3, <1>4

\* No query on a secured table reads a foreign row, with the tenant set or not, on
\* whichever session of a shared connection it runs, whether or not there is a policy.
THEOREM Isolation == Spec => []Isolated
<1>1. IInv => Isolated
  <2> SUFFICES ASSUME IInv, secured, NEW p \in Tasks, InRequest(p),
                      NEW s \in Pool[p]
               PROVE  Reads(p, s, FALSE) \subseteq {tenant[p]}
    BY DEF Isolated
  <2>1. Reads(p, s, FALSE) \subseteq {t \in Tenants : t = Setting(s)}
    BY PolicyRows DEF Reads
  <2>2. Setting(s) \in {None, tenant[p]}
    BY OwnSetting
  <2>3. {t \in Tenants : t = Setting(s)} \subseteq {tenant[p]}
    BY <2>2
  <2> QED
    BY <2>1, <2>3, Zenon
<1> QED
  BY <1>1, Invariance, PTL

\* A request that has a transaction on a session of its own reads, once its
\* tenant is set and the table has its policy, all of its rows and no others.
THEOREM OwnRows == Spec => []BracketedReadOwnRows
<1>1. IInv => BracketedReadOwnRows
  <2> SUFFICES ASSUME IInv, secured, table.policy, NEW p \in Brackets, pc[p] = "set",
                      NEW s \in Pool[p], NEW filtered \in BOOLEAN
               PROVE  Reads(p, s, filtered) = {tenant[p]}
    BY DEF BracketedReadOwnRows, OwnRowsReadBy
  <2>1. p \in Tasks /\ InRequest(p)
    BY SecurityAssumption DEF InRequest
  <2>2. Setting(s) = tenant[p] /\ tenant[p] \in Tenants
    BY <2>1, OwnSetting DEF IInv, Bracketing
  <2>3. Visible(s) = {tenant[p]}
    BY <2>2, PolicyRows
  <2> QED
    BY <2>3 DEF Reads, Filter
<1> QED
  BY <1>1, Invariance, PTL

=============================================================================
