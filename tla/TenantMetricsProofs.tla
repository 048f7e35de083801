------------------------- MODULE TenantMetricsProofs -------------------------
(***************************************************************************)
(* Theorems about TenantMetrics, for every finite number of tasks and any  *)
(* bound on the requests.                                                  *)
(***************************************************************************)
EXTENDS TenantMetrics, FiniteSetTheorems, TLAPS

\* No snapshot has loaded more than there is to see, nor less than the one before it.
Growing ==
  /\ Len(loaded) <= 5
  /\ \A c \in Counters : last[c] <= visible[c] /\ visible[c] <= metrics[c]
  /\ \A i \in DOMAIN loaded :
       last[LoadOrder[i]] <= loaded[i] /\ loaded[i] <= visible[LoadOrder[i]]

IInv ==
  /\ TypeOK
  /\ Accounting
  /\ MissingCounted
  /\ Growing

LEMMA Order ==
  /\ Len(LoadOrder) = 5 /\ DOMAIN LoadOrder = 1 .. 5
  /\ \A i \in 1 .. 5 : LoadOrder[i] \in Counters
  /\ LoadOrder[1] = "requests" /\ LoadOrder[2] = "resolved"
  /\ LoadOrder[3] = "missing"  /\ LoadOrder[4] = "errors"
  /\ LoadOrder[5] = "skipped"
BY DEF LoadOrder, Counters

LEMMA InFlightBound ==
  /\ IsFiniteSet(InFlight) /\ Cardinality(InFlight) \in Nat
  /\ Cardinality(Tasks) \in Nat /\ Cardinality(InFlight) <= Cardinality(Tasks)
<1>1. InFlight \subseteq Tasks
  BY DEF InFlight
<1> QED
  BY <1>1, MetricsAssumption, FS_Subset, FS_CardinalityType

LEMMA Loaded ==
  ASSUME TypeOK, Growing
  PROVE  /\ Len(loaded) \in 0 .. 5 /\ DOMAIN loaded = 1 .. Len(loaded)
         /\ \A i \in DOMAIN loaded : loaded[i] \in Nat
<1>1. loaded \in Seq(Nat)
  BY DEF TypeOK
<1>2. Len(loaded) <= 5
  BY DEF Growing
<1>3. Len(loaded) \in Nat
  BY <1>1
<1>4. DOMAIN loaded = 1 .. Len(loaded)
  BY <1>1
<1>5. \A i \in DOMAIN loaded : loaded[i] \in Nat
  BY <1>1
<1>6. Len(loaded) \in 0 .. 5
  <2> DEFINE n == Len(loaded)
  <2>1. n \in Nat /\ n <= 5
    BY <1>2, <1>3
  <2> HIDE DEF n
  <2>2. n \in 0 .. 5
    BY <2>1
  <2> QED
    BY <2>2 DEF n
<1> QED
  BY <1>4, <1>5, <1>6

LEMMA InitIInv == Init => IInv
<1> SUFFICES ASSUME Init PROVE IInv
  OBVIOUS
<1> USE DEF Init
<1>1. TypeOK
  BY DEF TypeOK
<1>2. InFlight = {}
  BY DEF InFlight
<1>3. Accounting /\ MissingCounted
  BY <1>2, FS_EmptySet DEF Accounting, MissingCounted, Counters, Kinds
<1>4. Growing
  BY DEF Growing
<1> QED
  BY <1>1, <1>3, <1>4 DEF IInv

\* A request that comes in or goes out changes the number in flight by one.
LEMMA InFlightChanges ==
  ASSUME TypeOK, NEW p \in Tasks, NEW to \in {"idle", "inner", "count"},
         pc' = [pc EXCEPT ![p] = to]
  PROVE  /\ pc[p] = "idle" /\ to # "idle" =>
              Cardinality(InFlight') = Cardinality(InFlight) + 1
         /\ pc[p] # "idle" /\ to = "idle" =>
              Cardinality(InFlight) = Cardinality(InFlight') + 1
         /\ pc[p] # "idle" /\ to # "idle" => InFlight' = InFlight
<1>1. pc[p] = "idle" /\ to # "idle" => InFlight' = InFlight \cup {p} /\ p \notin InFlight
  BY DEF TypeOK, InFlight
<1>2. pc[p] # "idle" /\ to = "idle" => InFlight = InFlight' \cup {p} /\ p \notin InFlight'
  BY DEF TypeOK, InFlight
<1>3. pc[p] # "idle" /\ to # "idle" => InFlight' = InFlight
  BY DEF TypeOK, InFlight
<1>4. IsFiniteSet(InFlight) /\ IsFiniteSet(InFlight')
  <2>1. InFlight \subseteq Tasks /\ InFlight' \subseteq Tasks
    BY DEF InFlight
  <2> QED
    BY <2>1, MetricsAssumption, FS_Subset
<1> QED
  BY <1>1, <1>2, <1>3, <1>4, FS_AddElement

\* A counter that goes up leaves behind what is visible of it.
LEMMA Upward ==
  ASSUME IInv, TypeOK', UNCHANGED <<visible, loaded, last>>,
         \A c \in Counters : metrics'[c] >= metrics[c]
  PROVE  Growing'
<1> USE DEF IInv
<1>1. /\ \A c \in Counters : metrics[c] \in Nat /\ metrics'[c] \in Nat
      /\ \A c \in Counters : visible[c] \in Nat
  BY DEF TypeOK
<1> QED
  BY <1>1 DEF Growing

\* The account balances when both sides change by as much.
LEMMA Balance ==
  ASSUME TypeOK, TypeOK', Accounting,
         Cardinality(InFlight) \in Nat, Cardinality(InFlight') \in Nat,
         metrics'["requests"] - metrics["requests"] =
           (metrics'["resolved"] - metrics["resolved"])
           + (metrics'["missing"] - metrics["missing"])
           + (metrics'["errors"] - metrics["errors"])
           + (Cardinality(InFlight') - Cardinality(InFlight))
           + (truth'["lost"] - truth["lost"])
  PROVE  Accounting'
<1> DEFINE a == metrics["requests"]
           b == metrics["resolved"]
           c == metrics["missing"]
           d == metrics["errors"]
           n == Cardinality(InFlight)
           lost == truth["lost"]
           a1 == metrics'["requests"]
           b1 == metrics'["resolved"]
           c1 == metrics'["missing"]
           d1 == metrics'["errors"]
           n1 == Cardinality(InFlight')
           lost1 == truth'["lost"]
<1>1. /\ a \in Nat /\ b \in Nat /\ c \in Nat /\ d \in Nat /\ lost \in Nat
      /\ a1 \in Nat /\ b1 \in Nat /\ c1 \in Nat /\ d1 \in Nat /\ lost1 \in Nat
  BY DEF TypeOK, Counters, Kinds
<1>2. n \in Nat /\ n1 \in Nat
  OBVIOUS
<1>3. a = b + c + d + n + lost
  BY DEF Accounting
<1>4. a1 - a = (b1 - b) + (c1 - c) + (d1 - d) + (n1 - n) + (lost1 - lost)
  OBVIOUS
<1> HIDE DEF a, b, c, d, n, lost, a1, b1, c1, d1, n1, lost1
<1>5. a1 = b1 + c1 + d1 + n1 + lost1
  BY <1>1, <1>2, <1>3, <1>4
<1> QED
  BY <1>5 DEF Accounting, a1, b1, c1, d1, n1, lost1

\* A request comes in, goes on or is lost.
LEMMA InnerStep ==
  ASSUME IInv, NEW p \in Tasks,
         \/ Call(p)
         \/ \E r \in Results : InnerResponds(p, r)
         \/ InnerFails(p)
  PROVE  IInv'
<1> USE DEF IInv
<1> USE DEF Goto
<1>0. /\ \A c \in Counters : metrics[c] \in Nat
      /\ \A k \in Kinds : truth[k] \in Nat
      /\ Cardinality(InFlight) \in Nat
  BY InFlightBound DEF TypeOK
<1>1. CASE Call(p)
  <2> USE <1>1 DEF Call
  <2>1. TypeOK'
    <3>1. metrics' \in [Counters -> Nat]
      <4>1. "requests" \in Counters /\ metrics \in [Counters -> Nat]
        BY DEF TypeOK, Counters
      <4>2. metrics' = [metrics EXCEPT !["requests"] = metrics["requests"] + 1]
        OBVIOUS
      <4> QED
        BY <4>1, <4>2, SMT
    <3>2. pc' \in [Tasks -> {"idle", "inner", "count"}]
      BY DEF TypeOK
    <3>3. \A q \in Tasks : pc'[q] = "count" => result'[q] \in Results
      BY DEF TypeOK
    <3> QED
      BY <3>1, <3>2, <3>3 DEF TypeOK
  <2>2. Cardinality(InFlight') = Cardinality(InFlight) + 1
    BY InFlightChanges
  <2>3. Accounting' /\ MissingCounted'
    <3>1. /\ truth'["missing"] = truth["missing"]
          /\ metrics'["missing"] = metrics["missing"]
          /\ metrics'["resolved"] = metrics["resolved"]
          /\ metrics'["errors"] = metrics["errors"]
          /\ metrics'["requests"] = metrics["requests"] + 1
          /\ truth'["lost"] = truth["lost"]
      BY <1>0 DEF TypeOK, Counters, Kinds
    <3>2. MissingCounted'
      BY <3>1 DEF MissingCounted
    <3>3. /\ metrics["requests"] \in Nat /\ metrics["resolved"] \in Nat
          /\ metrics["missing"] \in Nat /\ metrics["errors"] \in Nat
          /\ truth["lost"] \in Nat
      BY <1>0 DEF Counters, Kinds
    <3>4. Accounting'
      BY <1>0, <2>1, <2>2, <3>1, <3>3, Balance
    <3> QED
      BY <3>2, <3>4
  <2>4. \A c \in Counters : metrics'[c] >= metrics[c]
    BY <1>0 DEF TypeOK
  <2> QED
    BY <2>1, <2>3, <2>4, Upward
<1>2. ASSUME NEW r \in Results, InnerResponds(p, r) PROVE IInv'
  <2> USE <1>2 DEF InnerResponds
  <2>1. TypeOK'
    BY DEF TypeOK
  <2>2. InFlight' = InFlight
    BY InFlightChanges
  <2>3. Accounting' /\ MissingCounted'
    BY <2>2 DEF Accounting, MissingCounted
  <2>4. \A c \in Counters : metrics'[c] >= metrics[c]
    BY <1>0
  <2> QED
    BY <2>1, <2>3, <2>4, Upward
<1>3. CASE InnerFails(p)
  <2> USE <1>3 DEF InnerFails
  <2>1. TypeOK'
    <3>1. truth' \in [Kinds -> Nat]
      <4>1. "lost" \in Kinds /\ truth \in [Kinds -> Nat]
        BY DEF TypeOK, Kinds
      <4>2. truth' = [truth EXCEPT !["lost"] = truth["lost"] + 1]
        OBVIOUS
      <4> QED
        BY <4>1, <4>2, SMT
    <3>2. pc' \in [Tasks -> {"idle", "inner", "count"}]
      BY DEF TypeOK
    <3>3. \A q \in Tasks : pc'[q] = "count" => result'[q] \in Results
      BY DEF TypeOK
    <3> QED
      BY <3>1, <3>2, <3>3 DEF TypeOK
  <2>2. Cardinality(InFlight) = Cardinality(InFlight') + 1 /\ Cardinality(InFlight') \in Nat
    <3>1. Cardinality(InFlight) = Cardinality(InFlight') + 1
      BY InFlightChanges
    <3>2. IsFiniteSet(InFlight')
      <4>1. InFlight' \subseteq Tasks
        BY DEF InFlight
      <4> QED
        BY <4>1, MetricsAssumption, FS_Subset
    <3> QED
      BY <3>1, <3>2, FS_CardinalityType
  <2>3. Accounting' /\ MissingCounted'
    <3>1. /\ truth'["missing"] = truth["missing"]
          /\ metrics'["missing"] = metrics["missing"]
          /\ metrics'["resolved"] = metrics["resolved"]
          /\ metrics'["errors"] = metrics["errors"]
          /\ metrics'["requests"] = metrics["requests"]
          /\ truth'["lost"] = truth["lost"] + 1
      BY <1>0 DEF TypeOK, Counters, Kinds
    <3>2. MissingCounted'
      BY <3>1 DEF MissingCounted
    <3>3. /\ metrics["requests"] \in Nat /\ metrics["resolved"] \in Nat
          /\ metrics["missing"] \in Nat /\ metrics["errors"] \in Nat
          /\ truth["lost"] \in Nat
      BY <1>0 DEF Counters, Kinds
    <3>4. Accounting'
      BY <1>0, <2>1, <2>2, <3>1, <3>3, Balance
    <3> QED
      BY <3>2, <3>4
  <2>4. \A c \in Counters : metrics'[c] >= metrics[c]
    BY <1>0
  <2> QED
    BY <2>1, <2>3, <2>4, Upward
<1> QED
  BY <1>1, <1>2, <1>3

\* A request is counted.
LEMMA CountStep == ASSUME IInv, NEW p \in Tasks, Count(p) PROVE IInv'
<1> DEFINE k == result[p].kind
           c == CountedAs(result[p].status)
<1>1. /\ TypeOK /\ Accounting /\ MissingCounted
      /\ \A d \in Counters : metrics[d] \in Nat
      /\ \A d \in Kinds : truth[d] \in Nat
      /\ Cardinality(InFlight) \in Nat
  BY InFlightBound DEF IInv, TypeOK
<1>2. /\ pc[p] = "count" /\ pc' = [pc EXCEPT ![p] = "idle"]
      /\ metrics' = [metrics EXCEPT ![c] = @ + 1]
      /\ truth' = [truth EXCEPT ![k] = @ + 1]
      /\ result' = [result EXCEPT ![p] = None]
      /\ UNCHANGED <<visible, loaded, last>>
  BY DEF Count, Goto
<1>3. /\ k \in {"resolved", "skipped", "missing", "failed"}
      /\ c \in {"resolved", "missing", "errors"}
      /\ k = "missing" => c = "missing"
  <2>1. result[p] \in Results
    BY <1>1, <1>2 DEF TypeOK
  <2>2. /\ k \in {"resolved", "skipped", "missing", "failed"}
        /\ result[p].status \in Nat
        /\ k = "missing" => result[p].status = 400
    BY <2>1 DEF Results, HandlerStatus
  <2> QED
    BY <2>2 DEF CountedAs
<1> HIDE DEF k, c
<1>4. TypeOK'
  <2>1. metrics[c] + 1 \in Nat /\ truth[k] + 1 \in Nat
    BY <1>1, <1>3 DEF Counters, Kinds
  <2>2. metrics' \in [Counters -> Nat] /\ truth' \in [Kinds -> Nat]
    BY <1>1, <1>2, <2>1 DEF TypeOK
  <2> QED
    BY <1>1, <1>2, <2>2 DEF TypeOK
<1>5. Cardinality(InFlight) = Cardinality(InFlight') + 1 /\ Cardinality(InFlight') \in Nat
  <2>1. Cardinality(InFlight) = Cardinality(InFlight') + 1
    BY <1>1, <1>2, InFlightChanges
  <2>2. InFlight' \subseteq Tasks
    BY DEF InFlight
  <2> QED
    BY <2>1, <2>2, MetricsAssumption, FS_Subset, FS_CardinalityType
<1>6. /\ truth'["lost"] = truth["lost"]
      /\ \A d \in Counters : metrics'[d] = IF d = c THEN metrics[d] + 1 ELSE metrics[d]
      /\ \A d \in Kinds : truth'[d] = IF d = k THEN truth[d] + 1 ELSE truth[d]
  BY <1>1, <1>2, <1>3 DEF TypeOK, Kinds
<1>7. Accounting'
  <2>1. /\ metrics["requests"] \in Nat /\ metrics["resolved"] \in Nat
        /\ metrics["missing"] \in Nat /\ metrics["errors"] \in Nat
        /\ truth["lost"] \in Nat
    BY <1>1 DEF Counters, Kinds
  <2>2. /\ metrics'["requests"] = metrics["requests"]
        /\ (metrics'["resolved"] - metrics["resolved"])
           + (metrics'["missing"] - metrics["missing"])
           + (metrics'["errors"] - metrics["errors"]) = 1
    BY <1>3, <1>6, <2>1 DEF Counters
  <2> QED
    BY <1>1, <1>4, <1>5, <1>6, <2>1, <2>2, Balance
<1>8. MissingCounted'
  BY <1>1, <1>3, <1>6 DEF MissingCounted, Counters, Kinds
<1>9. \A d \in Counters : metrics'[d] >= metrics[d]
  BY <1>1, <1>6
<1>10. Growing'
  BY <1>2, <1>4, <1>9, Upward
<1> QED
  BY <1>4, <1>7, <1>8, <1>10 DEF IInv

\* An increment reaches the scraper.
LEMMA PropagateStep == ASSUME IInv, NEW c \in Counters, Propagate(c) PROVE IInv'
<1> USE DEF IInv
<1>1. /\ visible[c] < metrics[c] /\ visible' = [visible EXCEPT ![c] = @ + 1]
      /\ UNCHANGED <<metrics, pc, result, truth, loaded, last>>
  BY DEF Propagate
<1>2. \A d \in Counters : metrics[d] \in Nat /\ visible[d] \in Nat /\ last[d] \in Nat
  BY DEF TypeOK
<1>3. TypeOK'
  BY <1>1, <1>2 DEF TypeOK
<1>4. Accounting' /\ MissingCounted'
  BY <1>1 DEF Accounting, MissingCounted, InFlight
<1>5. \A d \in Counters : visible[d] <= visible'[d] /\ visible'[d] <= metrics[d]
  <2>1. ASSUME NEW d \in Counters
        PROVE  visible[d] <= visible'[d] /\ visible'[d] <= metrics[d]
    <3>1. visible'[d] = IF d = c THEN visible[d] + 1 ELSE visible[d]
      BY <1>1 DEF TypeOK
    <3> QED
      BY <1>1, <1>2, <3>1 DEF Growing
  <2> QED
    BY <2>1
<1>6. Growing'
  <2>1. \A i \in DOMAIN loaded : LoadOrder[i] \in Counters /\ loaded[i] \in Nat
    BY Order, Loaded
  <2>2. \A d \in Counters : visible'[d] \in Nat
    BY <1>3 DEF TypeOK
  <2> QED
    BY <1>1, <1>2, <1>5, <2>1, <2>2 DEF Growing
<1> QED
  BY <1>3, <1>4, <1>6

\* A step of the snapshot.
LEMMA SnapshotStep == ASSUME IInv, Load \/ Snapshot PROVE IInv'
<1> USE DEF IInv
<1>1. UNCHANGED <<metrics, visible, pc, result, truth>>
  BY DEF Load, Snapshot
<1>2. Accounting' /\ MissingCounted'
  BY <1>1 DEF Accounting, MissingCounted, InFlight
<1>3. /\ loaded \in Seq(Nat) /\ Len(loaded) \in 0 .. 5
      /\ DOMAIN loaded = 1 .. Len(loaded)
      /\ \A i \in DOMAIN loaded : loaded[i] \in Nat
      /\ \A c \in Counters : visible[c] \in Nat /\ metrics[c] \in Nat /\ last[c] \in Nat
  BY Loaded DEF TypeOK
<1>4. CASE Load
  <2> DEFINE n == Len(loaded) + 1
             v == visible[LoadOrder[n]]
  <2>1. n \in 1 .. 5 /\ v \in Nat
    BY <1>3, <1>4, Order DEF Load, Loading
  <2>2. loaded' = Append(loaded, v) /\ last' = last
    BY <1>4 DEF Load
  <2>3. /\ loaded' \in Seq(Nat) /\ Len(loaded') = n
        /\ DOMAIN loaded' = 1 .. n /\ DOMAIN loaded = 1 .. n - 1
        /\ loaded'[n] = v
        /\ \A i \in 1 .. n - 1 : loaded'[i] = loaded[i]
    <3> HIDE DEF v
    <3> QED
      BY <1>3, <2>1, <2>2
  <2> HIDE DEF n
  <2>4. TypeOK'
    BY <1>1, <2>2, <2>3 DEF TypeOK
  <2>5. Growing'
    <3>1. last[LoadOrder[n]] <= v
      BY <2>1, Order DEF Growing
    <3>2. \A i \in 1 .. n - 1 :
            last[LoadOrder[i]] <= loaded[i] /\ loaded[i] <= visible[LoadOrder[i]]
      BY <2>3 DEF Growing
    <3>3. \A i \in 1 .. n :
            last[LoadOrder[i]] <= loaded'[i] /\ loaded'[i] <= visible[LoadOrder[i]]
      <4>1. v <= v
        BY <2>1
      <4>2. \A i \in 1 .. n : i = n \/ i \in 1 .. n - 1
        BY <2>1
      <4> QED
        BY <2>3, <3>1, <3>2, <4>1, <4>2 DEF v
    <3> QED
      BY <1>1, <2>1, <2>2, <2>3, <3>3 DEF Growing
  <2> QED
    BY <1>2, <2>4, <2>5
<1>5. CASE Snapshot
  <2>1. Len(loaded) = 5 /\ loaded' = << >>
    BY <1>3, <1>5, Order DEF Snapshot, Loading
  <2>2. /\ last' \in [Counters -> Nat]
        /\ \A i \in 1 .. 5 : last'[LoadOrder[i]] = loaded[i]
        /\ \A c \in Counters : last'[c] <= visible[c]
    <3> DEFINE at(c) == CHOOSE i \in DOMAIN LoadOrder : LoadOrder[i] = c
    <3>1. last' = [c \in Counters |-> loaded[at(c)]]
      BY <1>5 DEF Snapshot
    <3>2. /\ at("requests") = 1 /\ at("resolved") = 2 /\ at("missing") = 3
          /\ at("errors") = 4 /\ at("skipped") = 5
      <4>1. DOMAIN LoadOrder = 1 .. 5
        BY Order
      <4> QED
        BY <4>1, Order
    <3> HIDE DEF at
    <3>3. \A i \in 1 .. 5 : loaded[i] \in Nat /\ loaded[i] <= visible[LoadOrder[i]]
      BY <1>3, <2>1 DEF Growing
    <3> QED
      BY <3>1, <3>2, <3>3, Order DEF Counters
  <2>3. TypeOK'
    <3>1. loaded' \in Seq(Nat)
      BY <2>1
    <3>2. TypeOK
      OBVIOUS
    <3> QED
      BY <1>1, <2>2, <3>1, <3>2 DEF TypeOK
  <2>4. Growing'
    BY <1>1, <2>1, <2>2 DEF Growing
  <2> QED
    BY <1>2, <2>3, <2>4
<1> QED
  BY <1>4, <1>5

\* The inductive invariant: the counters and the snapshots, finished and under way.
THEOREM Invariance == Spec => []IInv
<1>1. IInv /\ [Next]_vars => IInv'
  <2> SUFFICES ASSUME IInv, [Next]_vars PROVE IInv'
    OBVIOUS
  <2>1. CASE UNCHANGED vars
    BY <2>1
    DEF vars, IInv, TypeOK, Accounting, InFlight, MissingCounted, Growing
  <2>2. CASE Next
    BY <2>2, InnerStep, CountStep, PropagateStep, SnapshotStep DEF Next
  <2> QED
    BY <2>1, <2>2
<1> QED
  BY <1>1, InitIInv, PTL DEF Spec

-----------------------------------------------------------------------------
(* The theorems *)

\* Counters and snapshots are well typed.
THEOREM TypeCorrect == Spec => []TypeOK
<1>1. IInv => TypeOK
  BY DEF IInv
<1> QED
  BY <1>1, Invariance, PTL

\* Every request is accounted for exactly once, whatever the interleaving.
THEOREM Accounted == Spec => []Accounting
<1>1. IInv => Accounting
  BY DEF IInv
<1> QED
  BY <1>1, Invariance, PTL

\* No refusal for want of a tenant is missing from missing_total.
THEOREM MissingIn == Spec => []MissingCounted
<1>1. IInv => MissingCounted
  BY DEF IInv
<1> QED
  BY <1>1, Invariance, PTL

\* No counter goes back from one snapshot to the next, nor ahead of what it is.
THEOREM Growth == Spec => SnapshotsGrow
<1>1. IInv /\ [Next]_vars => [\A c \in Counters : last[c] <= last'[c]]_last
  <2> SUFFICES ASSUME IInv, [Next]_vars, ~(UNCHANGED last)
               PROVE  \A c \in Counters : last[c] <= last'[c]
    OBVIOUS
  <2>1. Snapshot
    BY DEF Next, vars, Call, InnerResponds, InnerFails, Count, Propagate, Load
  <2>2. Len(loaded) \in 0 .. 5 /\ DOMAIN loaded = 1 .. Len(loaded)
    BY Loaded DEF IInv
  <2>3. DOMAIN loaded = 1 .. 5
    BY <2>1, <2>2, Order DEF Snapshot, Loading
  <2>4. \A i \in 1 .. 5 : last[LoadOrder[i]] <= loaded[i]
    BY <2>3 DEF IInv, Growing
  <2>5. \A c \in Counters : last[c] <= last'[c]
    <3>1. ASSUME NEW c \in Counters PROVE last[c] <= last'[c]
      <4> DEFINE at == CHOOSE i \in DOMAIN LoadOrder : LoadOrder[i] = c
      <4>1. last'[c] = loaded[at]
        BY <2>1 DEF Snapshot
      <4>2. \E i \in DOMAIN LoadOrder : LoadOrder[i] = c
        BY Order DEF Counters
      <4>3. at \in 1 .. 5 /\ LoadOrder[at] = c
        BY <4>2, Order
      <4> HIDE DEF at
      <4> QED
        BY <2>4, <4>1, <4>3
    <3> QED
      BY <3>1
  <2> QED
    BY <2>5
<1>2. IInv => \A c \in Counters : last[c] <= metrics[c]
  BY DEF IInv, TypeOK, Growing
<1> QED
  BY <1>1, <1>2, Invariance, PTL DEF Spec, SnapshotsGrow

=============================================================================
