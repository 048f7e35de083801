------------------------- MODULE MCTenantMiddleware -------------------------
(***************************************************************************)
(* Instances of TenantMiddleware for TLC: a handful of strings, the        *)
(* requests that vary at most two of the places a tenant can be named in,  *)
(* and the layers with up to two strategies.                               *)
(***************************************************************************)
EXTENDS TenantMiddleware, TLC

RawStrings == {"", " ", "a", " a", "b", " b", "k", " k", "x", "null"}

CONSTANT Null

JsonText == [v \in {Null} |-> "null"]

Trimmed == [v \in RawStrings |-> CASE v = " "  -> ""
                                   [] v = " a" -> "a"
                                   [] v = " b" -> "b"
                                   [] v = " k" -> "k"
                                   [] OTHER    -> v]

Pair(k, v) == [key |-> k, value |-> v]

Bearer(wellFormed, genuine, claim) ==
  [bearer |-> TRUE, wellFormed |-> wellFormed, genuine |-> genuine, claim |-> claim]

\* What each place may hold, the first of them what it holds by default.
Variants(place) ==
  CASE place = "tenant" -> <<Absent, Opaque, " ", " a">>
    [] place = "host"   -> <<Absent, <<"b", "x">>, <<"b", "x", "x">>, <<"", "x", "x">>>>
    [] place = "cookie" -> <<Absent, <<Pair("x", "a"), Pair(" k", "b"), Pair("k", "a")>>,
                             <<Pair(Absent, "k"), Pair("k", " ")>>>>
    [] place = "authorization" ->
         <<Absent, [Bearer(TRUE, TRUE, "b") EXCEPT !.bearer = FALSE],
           Bearer(FALSE, FALSE, Absent), Bearer(TRUE, TRUE, "b"),
           Bearer(TRUE, FALSE, "b"), Bearer(TRUE, TRUE, Absent), Bearer(TRUE, TRUE, ""),
           Bearer(TRUE, TRUE, Null)>>
    [] place = "path"   -> << <<"", "">>, <<"", "a", "", "b">>, <<"", " ">> >>
    [] place = "query"  -> <<Absent, <<Pair(" k", "a"), Pair("k", " b")>>,
                             <<Pair("k", ""), Pair("k", "a")>>>>
    [] place = "claims" -> <<Absent, [tenant |-> "b"], [tenant |-> " "],
                             [tenant |-> Absent], [tenant |-> Null]>>
    [] place = "under"  -> << {}, {"/health"} >>
    [] place = "wants"  -> << {"tenant"}, {}, {"claims"} >>

Places == {"tenant", "host", "cookie", "authorization", "path", "query", "claims",
           "under", "wants"}

\* The request that holds the n[place]-th variant in every place.
Request(n) ==
  [headers |-> [h \in HeaderNames |-> Variants(h)[n[h]]],
   path |-> Variants("path")[n["path"]],
   query |-> Variants("query")[n["query"]],
   claims |-> Variants("claims")[n["claims"]],
   under |-> Variants("under")[n["under"]],
   wants |-> Variants("wants")[n["wants"]]]

Plain == [place \in Places |-> 1]

Varied(p, q) == {[Plain EXCEPT ![p] = i, ![q] = j] :
                   i \in 1 .. Len(Variants(p)), j \in 1 .. Len(Variants(q))}

AllRequests == {Request(n) : n \in UNION {Varied(p, q) : p, q \in Places}}

Config(strategies, validate, default) ==
  Build([enabled |-> Absent, strategies |-> strategies, jwt_validate |-> validate,
         path_segment_index |-> Absent, query_param_name |-> "k",
         cookie_name |-> "k", default_tenant |-> default])

Chains == {<< >>} \cup {<<s>> : s \in Strategies}
          \cup {<<s, t>> : s, t \in Strategies}

\* Validation matters to tokens only; a blank default, to no strategy.
AllLayers ==
  {WithSkipPaths(FromConfig(c), {"/health"}) : c \in
     {Config(c, Absent, d) : c \in Chains, d \in {Absent, "x"}}
     \cup {Config(<<s, "jwt">>, TRUE, Absent) : s \in Strategies}
     \cup {Config(<<"header">>, Absent, " ")}}
  \cup {IntoLayer(FromConfig(Config(<<"header">>, Absent, Absent)))}

\* The stack of the documented example: a tenant in a header, and one strategy.
DocumentedRequests == {Request([Plain EXCEPT !["tenant"] = 4])}

DocumentedLayers == {FromConfig(Config(<<"header">>, Absent, Absent))}

=============================================================================
