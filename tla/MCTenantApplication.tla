------------------------ MODULE MCTenantApplication ------------------------
(***************************************************************************)
(* An instance of TenantApplication for TLC: the tenants "a" and "b".      *)
(***************************************************************************)
EXTENDS TenantApplication, MCTenantMiddleware

AppStrings == {"", "a", " a", "b"}

NoJson == [v \in {} |-> ""]

AppTrim == [v \in AppStrings |-> IF v = " a" THEN "a" ELSE v]

\* A tenant in a header, claims of an upstream layer, and neither on a skip path.
AppRequests ==
  {Request([Plain EXCEPT !["tenant"] = 4]),
   Request([Plain EXCEPT !["tenant"] = 4, !["claims"] = 2]),
   Request([Plain EXCEPT !["under"] = 2, !["wants"] = 2])}

AppLayers ==
  {WithSkipPaths(FromConfig(Config(<<"header", "jwt">>, Absent, Absent)),
                 {"/health"})}

OwnShards == {{t} : t \in TenantIds}

=============================================================================
