--------------------------- MODULE TenantMetrics ----------------------------
(***************************************************************************)
(* MetricsTenantLayer and TenantMetrics (tenant-axum/src/metrics.rs): five *)
(* counters kept by all requests without a lock, and a snapshot that loads *)
(* one after the other.  The middleware sees no more of a request than the *)
(* status of its response; `truth` is the history of what became of them.  *)
(*                                                                         *)
(* All accesses are Ordering::Relaxed.  An increment is an atomic          *)
(* read-modify-write, which acts on the latest value of its counter; a     *)
(* load may answer with an older value, of each counter as old as it       *)
(* likes, as long as the values it answers with do not go back.  `visible` *)
(* is the value of each counter that has reached the scraper.              *)
(***************************************************************************)
EXTENDS Naturals, Sequences, FiniteSets

CONSTANTS
  Tasks,       \* the requests in flight, one asynchronous task each
  None,        \* no value
  MaxRequests  \* bound: requests that arrive

ASSUME MetricsAssumption ==
  /\ IsFiniteSet(Tasks)
  /\ MaxRequests \in Nat

Counters == {"requests", "resolved", "missing", "errors", "skipped"}
Kinds    == {"resolved", "missing", "failed", "skipped", "lost"}

VARIABLES
  metrics,  \* TenantMetrics: the latest value of each counter
  visible,  \* the value of each counter that a load answers with
  pc,       \* where each task's request is
  result,   \* what became of the request inside: [kind, status]
  truth,    \* history: how many requests have ended in each way
  loaded,   \* the values a running snapshot has loaded so far
  last      \* the MetricsSnapshot taken last

vars == <<metrics, visible, pc, result, truth, loaded, last>>

\* The snapshot's loads, in the order of the struct expression.
LoadOrder == <<"requests", "resolved", "missing", "errors", "skipped">>

\* What TenantMiddleware and the handler behind it can answer: a handler, with a
\* tenant or on a skip path, answers as it likes; no tenant is a 400; an error
\* of the resolver, 400, 404 or 500 (TenantRejection::into_response).
HandlerStatus == {200, 400, 404, 500}
Results ==
  [kind : {"resolved", "skipped"}, status : HandlerStatus]
  \cup [kind : {"missing"}, status : {400}]
  \cup [kind : {"failed"}, status : {400, 404, 500}]

Goto(p, from, to) ==
  /\ pc[p] = from
  /\ pc' = [pc EXCEPT ![p] = to]

Init ==
  /\ metrics = [c \in Counters |-> 0]
  /\ visible = [c \in Counters |-> 0]
  /\ pc      = [p \in Tasks |-> "idle"]
  /\ result  = [p \in Tasks |-> None]
  /\ truth   = [k \in Kinds |-> 0]
  /\ loaded  = << >>
  /\ last    = [c \in Counters |-> 0]

-----------------------------------------------------------------------------
(* MetricsTenantMiddleware::call *)

Call(p) ==
  /\ metrics["requests"] < MaxRequests
  /\ Goto(p, "idle", "inner")
  /\ metrics' = [metrics EXCEPT !["requests"] = @ + 1]
  /\ UNCHANGED <<visible, result, truth, loaded, last>>

\* Mutant: a response without an outcome goes on to be counted.
InnerRespondsNothing(p, r) ==
  /\ Goto(p, "inner", "count")
  /\ UNCHANGED <<metrics, visible, result, truth, loaded, last>>

\* The inner service has responded.
InnerResponds(p, r) ==
  /\ Goto(p, "inner", "count")
  /\ result' = [result EXCEPT ![p] = r]
  /\ UNCHANGED <<metrics, visible, truth, loaded, last>>

\* The inner service fails, `?` returns at once; or the future is dropped.
InnerFails(p) ==
  /\ Goto(p, "inner", "idle")
  /\ truth' = [truth EXCEPT !["lost"] = @ + 1]
  /\ UNCHANGED <<metrics, visible, result, loaded, last>>

\* Mutant: an unknown tenant is taken for the missing one.
CountedAsNotFound(status) ==
  CASE status = 404  -> "missing"
    [] status >= 500 -> "errors"
    [] OTHER         -> "resolved"

\* The outcome, inferred from the status alone.
CountedAs(status) ==
  CASE status = 400  -> "missing"
    [] status >= 500 -> "errors"
    [] OTHER         -> "resolved"

\* Mutant: every response counts as resolved, beside what else it counts as.
CountTwice(p) ==
  /\ Goto(p, "count", "idle")
  /\ metrics' = [c \in Counters |->
       IF c = CountedAs(result[p].status) \/ c = "resolved" THEN metrics[c] + 1
                                                            ELSE metrics[c]]
  /\ truth'  = [truth EXCEPT ![result[p].kind] = @ + 1]
  /\ result' = [result EXCEPT ![p] = None]
  /\ UNCHANGED <<visible, loaded, last>>

Count(p) ==
  /\ Goto(p, "count", "idle")
  /\ metrics' = [metrics EXCEPT ![CountedAs(result[p].status)] = @ + 1]
  /\ truth'   = [truth EXCEPT ![result[p].kind] = @ + 1]
  /\ result'  = [result EXCEPT ![p] = None]
  /\ UNCHANGED <<visible, loaded, last>>

-----------------------------------------------------------------------------
(* TenantMetrics::snapshot *)

\* The snapshot is complete when every counter is loaded.
Loading == Len(loaded) < Len(LoadOrder)

\* An increment reaches the thread of the scraper, sooner or later and in no order
\* with those of the other counters.
Propagate(c) ==
  /\ visible[c] < metrics[c]
  /\ visible' = [visible EXCEPT ![c] = @ + 1]
  /\ UNCHANGED <<metrics, pc, result, truth, loaded, last>>

\* Mutant: a counter is reset by the load, `swap(0)` for `load()`.
LoadAndReset ==
  /\ Loading
  /\ LET c == LoadOrder[Len(loaded) + 1]
     IN  /\ loaded'  = Append(loaded, metrics[c])
         /\ metrics' = [metrics EXCEPT ![c] = 0]
         /\ visible' = [visible EXCEPT ![c] = 0]
  /\ UNCHANGED <<pc, result, truth, last>>

\* One relaxed load: no more than what has reached the scraper.
Load ==
  /\ Loading
  /\ loaded' = Append(loaded, visible[LoadOrder[Len(loaded) + 1]])
  /\ UNCHANGED <<metrics, visible, pc, result, truth, last>>

Snapshot ==
  /\ ~Loading
  /\ last' = [c \in Counters |->
                loaded[CHOOSE i \in DOMAIN LoadOrder : LoadOrder[i] = c]]
  /\ loaded' = << >>
  /\ UNCHANGED <<metrics, visible, pc, result, truth>>

-----------------------------------------------------------------------------
(* Specification *)

Next ==
  \/ \E p \in Tasks :
       \/ Call(p)
       \/ \E r \in Results : InnerResponds(p, r)
       \/ InnerFails(p)
       \/ Count(p)
  \/ \E c \in Counters : Propagate(c)
  \/ Load
  \/ Snapshot

Spec == Init /\ [][Next]_vars

-----------------------------------------------------------------------------
(* Properties *)

\* Types of the state.
TypeOK ==
  /\ metrics \in [Counters -> Nat]
  /\ visible \in [Counters -> Nat]
  /\ pc \in [Tasks -> {"idle", "inner", "count"}]
  /\ result \in [Tasks -> Results \cup {None}]
  /\ \A p \in Tasks : pc[p] = "count" => result[p] \in Results
  /\ truth \in [Kinds -> Nat]
  /\ loaded \in Seq(Nat)
  /\ last \in [Counters -> Nat]

InFlight == {p \in Tasks : pc[p] # "idle"}

\* Every request is accounted for once, however requests overlap: it is in
\* flight, has been lost, or has been counted under one outcome.
Accounting ==
  metrics["requests"] =
    metrics["resolved"] + metrics["missing"] + metrics["errors"]
      + Cardinality(InFlight) + truth["lost"]

\* A scraper never sees a counter go back from one snapshot to the next, nor ahead
\* of what the counter is, however old the values are that its loads answer with.
\* Nothing more is promised: the counters of one snapshot are of different moments.
SnapshotsGrow ==
  /\ [][\A c \in Counters : last[c] <= last'[c]]_last
  /\ [](\A c \in Counters : last[c] <= metrics[c])

\* missing_total, inferred from the status, may count too much; it never counts
\* too little: every request refused for want of a tenant is in it.
MissingCounted == truth["missing"] <= metrics["missing"]

=============================================================================
