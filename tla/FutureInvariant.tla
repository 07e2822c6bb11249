---------------------------- MODULE FutureInvariant ----------------------------
(***************************************************************************)
(* The inductive invariant of the futures' life, and the lemmas that every *)
(* step of it rests on: what the registry's operators and the quota return,*)
(* and what leaves a part of the invariant alone.  The invariant holds     *)
(* initially, and the steps that create and that discard futures preserve  *)
(* it.                                                                     *)
(***************************************************************************)
EXTENDS FutureLifecycle, FiniteSetTheorems, TLAPS

Records == [Threads -> [FutureIds -> FutureRecord]]

\* Leases in dispatches and cleared flags were issued: their generation is not
\* ahead of the generation counter of their id.
LeasesIssued ==
    /\ \A d \in dispatches : d.future[2] <= futureGen[d.future[1]]
    /\ \A l \in inactive : l[2] <= futureGen[l[1]]

\* A record that exists has its active flag set and its owner is not a
\* cancelled thread; a created future holds no request; a running provider or
\* adapter future holds one and has a waiter.
ActiveRecord(t, f) ==
    /\ Present(records, t, f) => Lease(f) \notin inactive /\ thread[t] # "cancelled"
    /\ records[t][f].state = "created" => records[t][f].request = NoRequest
    /\ records[t][f].state = "running" /\ records[t][f].kind \in External
          => records[t][f].request \in RequestIds /\ records[t][f].waiters # {}

RecordsActive == mode = "open" => \A t \in Threads, f \in FutureIds : ActiveRecord(t, f)

\* Only a running future has a waiter, its owner, which is blocked and waits
\* on nothing else.
WaitersBlocked ==
    mode = "open" =>
        \A t \in Threads, f \in FutureIds :
            records[t][f].waiters # {} =>
                /\ records[t][f].waiters = {t}
                /\ records[t][f].state = "running"
                /\ thread[t] = "blocked"
                /\ \A g \in FutureIds : records[t][g].waiters # {} => g = f

\* The inductive invariant.
Inv ==
    /\ TypeOK
    /\ ResolvedByOwnLease
    /\ LeasesIssued
    /\ AccountsExact
    /\ RecordsActive
    /\ WaitersBlocked
    /\ BlockedIsServed

-------------------------------------------------------------------------------
(* Lemmas about the registry's operators and the quota. *)

\* The absent and the created record are records.
LEMMA NewRecords ==
    /\ Absent \in FutureRecord
    /\ \A kind \in Kind : Created(kind, FALSE) \in FutureRecord
    /\ \A kind \in Kind : /\ Created(kind, FALSE).state = "created"
                          /\ Created(kind, FALSE).kind = kind
                          /\ Created(kind, FALSE).waiters = {}
                          /\ Created(kind, FALSE).request = NoRequest
    /\ Absent.state = "absent" /\ Absent.waiters = {}
<1>1. Absent \in FutureRecord
    BY Zenon DEF Absent, FutureRecord, FutureState, Kind, Outcome
<1>2. ASSUME NEW kind \in Kind
      PROVE  /\ Created(kind, FALSE) \in FutureRecord
             /\ Created(kind, FALSE).state = "created"
             /\ Created(kind, FALSE).kind = kind
             /\ Created(kind, FALSE).waiters = {}
             /\ Created(kind, FALSE).request = NoRequest
    BY Zenon DEF Created, FutureRecord, FutureState, Outcome
<1> QED
    BY <1>1, <1>2, Zenon DEF Absent

\* A resolved record is a record.
LEMMA ResolvedRecord ==
    ASSUME NEW rec \in FutureRecord, NEW lease \in FutureLease, NEW outcome \in Outcome
    PROVE  /\ Resolved(rec, lease, outcome) \in FutureRecord
           /\ Resolved(rec, lease, outcome).state = "resolved"
           /\ Resolved(rec, lease, outcome).by = lease
           /\ Resolved(rec, lease, outcome).waiters = {}
BY Zenon DEF Resolved, FutureRecord, FutureState

\* Releasing the quota of some of the elements leaves the count of the rest.
LEMMA MinusCardinality ==
    ASSUME NEW A, IsFiniteSet(A), NEW B, B \subseteq A
    PROVE  Minus(Cardinality(A), Cardinality(B)) = Cardinality(A \ B)
<1>1. A \cap B = B
    BY Zenon
<1>2. /\ Cardinality(A \ B) = Cardinality(A) - Cardinality(B)
      /\ Cardinality(A) \in Nat /\ Cardinality(B) \in Nat /\ Cardinality(A \ B) \in Nat
    BY <1>1, FS_Difference, FS_CardinalityType, FS_Subset, ZenonT(30)
<1> QED
    BY <1>2 DEF Minus

\* The saturating subtraction stays a natural number.
LEMMA MinusType ==
    ASSUME NEW n \in Nat, NEW B, IsFiniteSet(B)
    PROVE  Minus(n, Cardinality(B)) \in Nat
BY FS_CardinalityType DEF Minus

\* Sets of ids are finite.
LEMMA IdsFinite ==
    ASSUME TypeOK PROVE IsFiniteSet(activeFutures) /\ IsFiniteSet(activeRequests)
BY LimitsAssumption, FS_Subset, Zenon DEF TypeOK

-------------------------------------------------------------------------------
(* Frame lemmas: what keeps a part of the invariant. *)

\* A blocked thread stays served while its record, the generations of its
\* future and request, its active flag and its dispatch are left alone.
LEMMA ServedFrame ==
    ASSUME TypeOK, RecordsActive, mode = "open", NEW u \in Threads, AwaitIsServed(u),
           ASSUME NEW g \in FutureIds, u \in records[u][g].waiters
           PROVE  /\ records'[u][g] = records[u][g]
                  /\ futureGen'[g] = futureGen[g]
                  /\ Lease(g) \in inactive' => Lease(g) \in inactive
                  /\ records[u][g].request \in RequestIds =>
                        requestGen'[records[u][g].request] = requestGen[records[u][g].request]
                  /\ \A d \in dispatches : Serves(d, u, g) =>
                        \E e \in dispatches' :
                            /\ e.owner = d.owner /\ e.future = d.future
                            /\ e.request = d.request /\ e.stage # "answered"
    PROVE  AwaitIsServed(u)'
<1>1. PICK g \in FutureIds :
         /\ u \in records[u][g].waiters
         /\ records[u][g].state = "running"
         /\ records[u][g].kind \in External => \E d \in dispatches : Serves(d, u, g)
    BY Zenon DEF AwaitIsServed
<1>2. /\ records'[u][g] = records[u][g]
      /\ futureGen'[g] = futureGen[g]
      /\ Lease(g) \in inactive' => Lease(g) \in inactive
      /\ records[u][g].request \in RequestIds =>
            requestGen'[records[u][g].request] = requestGen[records[u][g].request]
      /\ \A d \in dispatches : Serves(d, u, g) =>
            \E e \in dispatches' :
                /\ e.owner = d.owner /\ e.future = d.future
                /\ e.request = d.request /\ e.stage # "answered"
    BY <1>1, Zenon
<1>3. ASSUME records[u][g].kind \in External
      PROVE  \E e \in dispatches' : Serves(e, u, g)'
    <2>1. PICK d \in dispatches : Serves(d, u, g)
        BY <1>1, <1>3, Zenon
    <2>2. PICK e \in dispatches' : /\ e.owner = d.owner /\ e.future = d.future
                                   /\ e.request = d.request /\ e.stage # "answered"
        BY <1>2, <2>1, Zenon
    <2>3. records[u][g].request \in RequestIds
        BY <1>1, <1>3, Zenon DEF RecordsActive, ActiveRecord
    <2>4. Serves(e, u, g)'
        BY <1>2, <2>1, <2>2, <2>3, Zenon DEF Serves, Lease
    <2> QED
        BY <2>2, <2>4, Zenon
<1> QED
    BY <1>1, <1>2, <1>3, Zenon DEF AwaitIsServed

\* Requests are accounted for while no record changes its request.
LEMMA SameRequestsAccounts ==
    ASSUME RequestAccounts, UNCHANGED <<activeRequests, requestsUsed>>,
           \A u \in Threads, g \in FutureIds : request_id(records, u, g)' = request_id(records, u, g)
    PROVE  RequestAccounts'
BY DEF RequestAccounts

\* Futures are accounted for while no record comes or goes.
LEMMA SameFuturesAccounts ==
    ASSUME FutureAccounts, UNCHANGED <<activeFutures, futuresUsed>>,
           \A u \in Threads, g \in FutureIds : Present(records, u, g)' <=> Present(records, u, g)
    PROVE  FutureAccounts'
BY Zenon DEF FutureAccounts

\* Requests are accounted for after those of some futures are freed.
LEMMA FreeRequestsAccounts ==
    ASSUME TypeOK, RequestAccounts, NEW R, free_request_id(R),
           NEW X \in SUBSET (Threads \X FutureIds),
           \A r : r \in R <=> \E k \in X : r \in request_id(records, k[1], k[2]),
           \A u \in Threads, g \in FutureIds :
               request_id(records, u, g)' =
                   IF <<u, g>> \in X THEN {} ELSE request_id(records, u, g)
    PROVE  /\ RequestAccounts'
           /\ activeRequests' \in SUBSET RequestIds /\ requestsUsed' \in Nat
<1>1. \A u \in Threads, g \in FutureIds : request_id(records, u, g) \in SUBSET RequestIds
    BY DEF TypeOK, request_id, FutureRecord
<1>2. R \subseteq activeRequests
    BY <1>1, Zenon DEF RequestAccounts
<1>3. activeRequests' = activeRequests \ R /\ requestsUsed' = Minus(requestsUsed, Cardinality(R))
    BY Zenon DEF free_request_id
<1>4. requestsUsed' = Cardinality(activeRequests') /\ requestsUsed' \in Nat
    <2>1. IsFiniteSet(activeRequests) /\ IsFiniteSet(activeRequests \ R)
        BY IdsFinite, FS_Difference, Zenon
    <2> QED
        BY <1>2, <1>3, <2>1, MinusCardinality, FS_CardinalityType DEF RequestAccounts
<1>5. ASSUME NEW r \in RequestIds
      PROVE  r \in activeRequests' <=>
                 \E u \in Threads, g \in FutureIds : r \in request_id(records, u, g)'
    <2>1. ASSUME r \in activeRequests'
          PROVE  \E u \in Threads, g \in FutureIds : r \in request_id(records, u, g)'
        <3>1. PICK u \in Threads, g \in FutureIds : r \in request_id(records, u, g)
            BY <1>3, <2>1, Zenon DEF RequestAccounts
        <3>2. <<u, g>> \notin X
            BY <1>3, <2>1, <3>1, Zenon
        <3> QED
            BY <3>1, <3>2, Zenon
    <2>2. ASSUME NEW u \in Threads, NEW g \in FutureIds, r \in request_id(records, u, g)'
          PROVE  r \in activeRequests'
        <3>1. <<u, g>> \notin X /\ r \in request_id(records, u, g)
            BY <2>2, Zenon
        <3>2. r \notin R
            <4>1. SUFFICES ASSUME r \in R PROVE FALSE
                BY Zenon
            <4>2. PICK k \in X : r \in request_id(records, k[1], k[2])
                BY <4>1, Zenon
            <4>3. k[1] \in Threads /\ k[2] \in FutureIds /\ k = <<k[1], k[2]>>
                OBVIOUS
            <4>4. k[1] = u /\ k[2] = g
                BY <3>1, <4>2, <4>3 DEF RequestAccounts
            <4> QED
                BY <3>1, <4>3, <4>4, Zenon
        <3> QED
            BY <1>3, <3>1, <3>2, Zenon DEF RequestAccounts
    <2> QED
        BY <2>1, <2>2, Zenon
<1>6. ASSUME NEW r \in RequestIds, NEW t \in Threads, NEW u \in Threads,
             NEW f \in FutureIds, NEW g \in FutureIds,
             r \in request_id(records, t, f)', r \in request_id(records, u, g)'
      PROVE  t = u /\ f = g
    <2>1. r \in request_id(records, t, f) /\ r \in request_id(records, u, g)
        BY <1>6, Zenon
    <2> QED
        BY <2>1 DEF RequestAccounts
<1> QED
    BY <1>3, <1>4, <1>5, <1>6 DEF RequestAccounts, TypeOK

\* Once the execution is not open only the unconditional parts remain.
LEMMA NotOpenInv ==
    ASSUME TypeOK', ResolvedByOwnLease', LeasesIssued', mode' # "open"
    PROVE  Inv'
BY Zenon DEF Inv, AccountsExact, RecordsActive, WaitersBlocked, BlockedIsServed

\* A step that changes nothing preserves the invariant.
LEMMA UnchangedInv == Inv /\ UNCHANGED vars => Inv'
<1> SUFFICES ASSUME Inv, UNCHANGED vars PROVE Inv'
    BY Zenon
<1> USE DEF Inv, vars, idVars, requestVars
<1>1. TypeOK'
    BY Zenon DEF TypeOK
<1>2. ResolvedByOwnLease' /\ LeasesIssued'
    BY Zenon DEF ResolvedByOwnLease, LeasesIssued, Lease
<1>3. FutureAccounts' = FutureAccounts
    BY Zenon DEF FutureAccounts, Present
<1>4. RequestAccounts' = RequestAccounts
    BY DEF RequestAccounts, request_id
<1>5. RecordsActive' /\ WaitersBlocked'
    BY Zenon DEF RecordsActive, ActiveRecord, WaitersBlocked, Lease, Present
<1>6. BlockedIsServed'
    <2>1. \A d, u, g : Serves(d, u, g)' <=> Serves(d, u, g)
        BY Zenon DEF Serves, Lease
    <2>2. \A u : AwaitIsServed(u)' <=> AwaitIsServed(u)
        BY <2>1, Zenon DEF AwaitIsServed
    <2> QED
        BY <2>2, Zenon DEF BlockedIsServed
<1> QED
    BY <1>1, <1>2, <1>3, <1>4, <1>5, <1>6, Zenon DEF AccountsExact

\* A step that sets failure and leaves the registry and the ids alone.
LEMMA FailInv ==
    ASSUME Inv, NEW t \in Threads, FailThread(t), held' \in [Threads -> SUBSET FutureIds],
           UNCHANGED <<records, idVars, requestVars, inactive>>,
           dispatches' \in SUBSET Dispatch,
           \A e \in dispatches' : \E d \in dispatches : e.future = d.future
    PROVE  Inv'
<1>1. TypeOK'
    BY Zenon DEF Inv, TypeOK, FailThread, ThreadStatus, idVars, requestVars
<1>2. ResolvedByOwnLease' /\ LeasesIssued'
    BY Zenon DEF Inv, ResolvedByOwnLease, LeasesIssued, Lease, idVars
<1>3. mode' # "open"
    BY Zenon DEF FailThread
<1> QED
    BY <1>1, <1>2, <1>3, NotOpenInv, Zenon

-------------------------------------------------------------------------------
(* The initial state, and a created future. *)

\* The empty registry.
LEMMA EmptyRegistry ==
    /\ discard_all \in Records
    /\ \A t \in Threads, f \in FutureIds : discard_all[t][f] = Absent
BY NewRecords, Zenon DEF discard_all, NoRecords, Records

\* The invariant holds in the initial states.
LEMMA InitInv == Init => Inv
<1> SUFFICES ASSUME Init PROVE Inv
    BY Zenon
<1>1. /\ records \in Records
      /\ \A t \in Threads, f \in FutureIds :
            /\ records[t][f].state = "absent" /\ records[t][f].waiters = {}
            /\ ~Present(records, t, f)
            /\ request_id(records, t, f) = {}
    BY EmptyRegistry, NewRecords, Zenon DEF Init, Present, request_id
<1>2. TypeOK
    BY <1>1, Zenon DEF Init, TypeOK, Records, ThreadStatus
<1>3. ResolvedByOwnLease /\ LeasesIssued /\ RecordsActive /\ WaitersBlocked
    BY <1>1, Zenon DEF Init, ResolvedByOwnLease, LeasesIssued, RecordsActive,
               ActiveRecord, WaitersBlocked, Present
<1>4. AccountsExact
    BY <1>1, FS_EmptySet, Zenon DEF Init, AccountsExact, FutureAccounts, RequestAccounts
<1>5. BlockedIsServed
    BY Zenon DEF Init, BlockedIsServed
<1> QED
    BY <1>2, <1>3, <1>4, <1>5, Zenon DEF Inv

\* A created future gets a fresh lease: its id had no record.
LEMMA CreateFutureInv ==
    ASSUME Inv, NEW t \in Threads, NEW f \in FutureIds, NEW kind \in Kinds,
           CreateFuture(t, f, kind)
    PROVE  Inv'
<1> USE DEF Inv
<1>1. mode = "open" /\ thread[t] \in {"running", "cancelled"} /\ f \notin activeFutures
    BY Zenon DEF CreateFuture, Calling
<1>2. \A u \in Threads : ~Present(records, u, f)
    BY <1>1, Zenon DEF AccountsExact, FutureAccounts
<1>3. /\ records' = insert_created(records, t, f, kind)
      /\ held' = [held EXCEPT ![t] = @ \cup {f}]
      /\ thread' = [thread EXCEPT ![t] = IF @ = "cancelled" THEN "ended" ELSE "running"]
      /\ mode' = mode
      /\ activeFutures' = activeFutures \cup {f}
      /\ futureGen' = [futureGen EXCEPT ![f] = @ + 1]
      /\ futuresUsed' = futuresUsed + 1
      /\ UNCHANGED <<activeRequests, requestGen, requestsUsed, notified, dispatches, inactive>>
    BY <1>2, Zenon DEF CreateFuture, Resume, requestVars
<1>4. kind \in Kind
    BY LimitsAssumption, Zenon
<1>5. /\ records' \in Records
      /\ records'[t][f] = Created(kind, FALSE)
      /\ \A u \in Threads, g \in FutureIds :
            (u # t \/ g # f) => records'[u][g] = records[u][g]
    <2>1. records \in Records /\ Created(kind, FALSE) \in FutureRecord
        BY <1>4, NewRecords, Zenon DEF TypeOK, Records
    <2>2. records' = [records EXCEPT ![t][f] = Created(kind, FALSE)]
        BY <1>3, Zenon DEF insert_created
    <2> QED
        BY <2>1, <2>2, Zenon DEF Records
<1>6. /\ records'[t][f].state = "created" /\ records'[t][f].waiters = {}
      /\ records'[t][f].request = NoRequest
    BY <1>4, <1>5, NewRecords, Zenon
<1>7. /\ thread'[t] \in {"running", "ended"}
      /\ \A u \in Threads : u # t => thread'[u] = thread[u]
    BY <1>1, <1>3, Zenon DEF TypeOK
<1>8. \A g \in FutureIds : g # f => futureGen'[g] = futureGen[g] /\ Lease(g)' = Lease(g)
    BY <1>3, Zenon DEF TypeOK, Lease
<1>9. futureGen'[f] = futureGen[f] + 1 /\ futureGen[f] \in Nat
    BY <1>3, Zenon DEF TypeOK
<1>10. TypeOK'
    <2>1. thread' \in [Threads -> ThreadStatus] /\ held' \in [Threads -> SUBSET FutureIds]
        BY <1>1, <1>3, Zenon DEF TypeOK, ThreadStatus
    <2>2. futureGen' \in [FutureIds -> Nat] /\ futuresUsed' \in Nat
        BY <1>3 DEF TypeOK
    <2> QED
        BY <1>3, <1>5, <2>1, <2>2, Zenon DEF TypeOK, Records
<1>11. LeasesIssued'
    <2>1. \A g \in FutureIds : futureGen[g] <= futureGen'[g]
        BY <1>8, <1>9 DEF TypeOK
    <2>2. \A d \in dispatches : d.future[1] \in FutureIds /\ d.future[2] \in Nat
        BY Zenon DEF TypeOK, Dispatch, FutureLease
    <2>3. \A l \in inactive : l[1] \in FutureIds /\ l[2] \in Nat
        BY Zenon DEF TypeOK, FutureLease
    <2>4. \A g \in FutureIds : futureGen[g] \in Nat /\ futureGen'[g] \in Nat
        BY <1>10, Zenon DEF TypeOK
    <2> QED
        BY <1>3, <2>1, <2>2, <2>3, <2>4 DEF LeasesIssued
<1>12. ResolvedByOwnLease'
    <2> SUFFICES ASSUME NEW u \in Threads, NEW g \in FutureIds,
                        records'[u][g].state = "resolved"
                 PROVE  records'[u][g].by = Lease(g)'
        BY Zenon DEF ResolvedByOwnLease
    <2>1. records'[u][g] = records[u][g]
        BY <1>5, <1>6, Zenon
    <2>2. g # f
        BY <1>2, <2>1, Zenon DEF Present
    <2> QED
        BY <1>8, <2>1, <2>2, Zenon DEF ResolvedByOwnLease
<1>13. FutureAccounts'
    <2>1. \A u \in Threads, g \in FutureIds :
             Present(records, u, g)' <=> Present(records, u, g) \/ (u = t /\ g = f)
        BY <1>5, <1>6, Zenon DEF Present
    <2>2. futuresUsed' = Cardinality(activeFutures')
        BY <1>1, <1>3, IdsFinite, FS_AddElement, Zenon DEF AccountsExact, FutureAccounts
    <2>3. \A g \in FutureIds : g \in activeFutures' <=> \E u \in Threads : Present(records, u, g)'
        BY <1>1, <1>3, <2>1, Zenon DEF AccountsExact, FutureAccounts
    <2>4. \A g \in FutureIds, u, v \in Threads :
             Present(records, u, g)' /\ Present(records, v, g)' => u = v
        BY <1>1, <1>2, <2>1 DEF AccountsExact, FutureAccounts
    <2> QED
        BY <2>2, <2>3, <2>4, Zenon DEF FutureAccounts
<1>14. RequestAccounts'
    <2>1. ASSUME NEW u \in Threads, NEW g \in FutureIds
          PROVE  request_id(records, u, g)' = request_id(records, u, g)
        BY <1>2, <1>5, <1>6, Zenon DEF request_id, Present
    <2> QED
        BY <1>1, <1>3, <2>1 DEF AccountsExact, RequestAccounts
<1>15. RecordsActive'
    <2>1. <<f, futureGen[f] + 1>> \notin inactive
        BY <1>9 DEF LeasesIssued
    <2> SUFFICES ASSUME NEW u \in Threads, NEW g \in FutureIds
                 PROVE  ActiveRecord(u, g)'
        BY Zenon DEF RecordsActive
    <2>2. CASE u = t /\ g = f
        BY <1>3, <1>6, <1>7, <1>9, <2>1, <2>2 DEF ActiveRecord, Lease
    <2>3. CASE u # t \/ g # f
        <3>1. records'[u][g] = records[u][g]
            BY <1>5, <2>3, Zenon
        <3>2. Present(records, u, g)' => g # f /\ Present(records, u, g)
            BY <1>2, <3>1, Zenon DEF Present
        <3> QED
            BY <1>1, <1>3, <1>7, <1>8, <3>1, <3>2 DEF RecordsActive, ActiveRecord, Present
    <2> QED
        BY <2>2, <2>3, Zenon
<1>16. WaitersBlocked'
    <2>1. \A g \in FutureIds : records'[t][g].waiters = {}
        BY <1>1, <1>5, <1>6, ZenonT(30) DEF WaitersBlocked
    <2>2. \A u \in Threads, g \in FutureIds : u # t => records'[u][g] = records[u][g]
        BY <1>5, Zenon
    <2> QED
        BY <1>1, <1>7, <2>1, <2>2 DEF WaitersBlocked
<1>17. BlockedIsServed'
    <2> SUFFICES ASSUME NEW u \in Threads, thread'[u] = "blocked"
                 PROVE  AwaitIsServed(u)'
        BY Zenon DEF BlockedIsServed
    <2>1. u # t /\ AwaitIsServed(u)
        BY <1>1, <1>7, Zenon DEF BlockedIsServed
    <2>2. ASSUME NEW g \in FutureIds, u \in records[u][g].waiters
          PROVE  g # f /\ records'[u][g] = records[u][g]
        BY <1>1, <1>2, <1>5, <2>1, <2>2 DEF WaitersBlocked, Present
    <2>3. \A d \in dispatches, g \in FutureIds : Serves(d, u, g) => d.stage # "answered"
        BY Zenon DEF Serves
    <2> QED
        BY <1>1, <1>3, <1>8, <2>1, <2>2, <2>3, ServedFrame, Zenon
<1> QED
    BY <1>10, <1>11, <1>12, <1>13, <1>14, <1>15, <1>16, <1>17, Zenon DEF AccountsExact

\* A creation that fails after the allocation has taken an id without a record.
LEMMA CreateFutureBadArgumentInv ==
    ASSUME Inv, NEW t \in Threads, NEW f \in FutureIds, CreateFutureBadArgument(t, f)
    PROVE  Inv'
<1> USE DEF Inv
<1>1. /\ mode = "open" /\ f \notin activeFutures
      /\ activeFutures' = activeFutures \cup {f}
      /\ futureGen' = [futureGen EXCEPT ![f] = @ + 1]
      /\ futuresUsed' = futuresUsed + 1
      /\ FailThread(t)
      /\ UNCHANGED <<held, records, activeRequests, requestGen, requestsUsed, notified,
                     dispatches, inactive>>
    BY Zenon DEF CreateFutureBadArgument, Calling, requestVars
<1>2. \A u \in Threads : records[u][f].state = "absent"
    BY <1>1, Zenon DEF AccountsExact, FutureAccounts, Present
<1>3. /\ futureGen' \in [FutureIds -> Nat]
      /\ \A g \in FutureIds : g # f => futureGen'[g] = futureGen[g]
      /\ \A g \in FutureIds : futureGen[g] <= futureGen'[g]
    BY <1>1 DEF TypeOK
<1>4. TypeOK'
    BY <1>1, <1>3 DEF TypeOK, FailThread, ThreadStatus
<1>5. ResolvedByOwnLease'
    BY <1>1, <1>2, <1>3, Zenon DEF ResolvedByOwnLease, Lease
<1>6. LeasesIssued'
    <2>1. \A d \in dispatches : d.future[1] \in FutureIds /\ d.future[2] \in Nat
        BY Zenon DEF TypeOK, Dispatch, FutureLease
    <2>2. \A l \in inactive : l[1] \in FutureIds /\ l[2] \in Nat
        BY Zenon DEF TypeOK, FutureLease
    <2>3. \A g \in FutureIds : futureGen[g] \in Nat /\ futureGen'[g] \in Nat
        BY <1>3, Zenon DEF TypeOK
    <2> QED
        BY <1>1, <1>3, <2>1, <2>2, <2>3 DEF LeasesIssued
<1> QED
    BY <1>1, <1>4, <1>5, <1>6, NotOpenInv, Zenon DEF FailThread

-------------------------------------------------------------------------------
(* Discarding futures: a drop, a cancelled, failed or finished thread, the   *)
(* shutdown.                                                                *)

\* Freed ids leave well-typed managers and quotas.
LEMMA FreeTypes ==
    ASSUME TypeOK, NEW F \in SUBSET FutureIds, NEW R \in SUBSET RequestIds,
           free_future_id(F), free_request_id(R)
    PROVE  /\ activeFutures' \in SUBSET FutureIds /\ futuresUsed' \in Nat
           /\ activeRequests' \in SUBSET RequestIds /\ requestsUsed' \in Nat
           /\ futureGen' = futureGen /\ requestGen' = requestGen
<1>1. IsFiniteSet(F) /\ IsFiniteSet(R)
    BY LimitsAssumption, FS_Subset, Zenon
<1> QED
    BY <1>1, MinusType, Zenon DEF TypeOK, free_future_id, free_request_id

\* What a host is told are leases.
LEMMA ToldLeases ==
    ASSUME TypeOK, NEW R \in SUBSET RequestIds, notified' = notified \cup Leases(R)
    PROVE  notified' \in SUBSET RequestLease
BY DEF TypeOK, Leases, RequestLease

\* The parts that hold in every mode survive a discard of some futures.
LEMMA DiscardTypes ==
    ASSUME Inv, mode' \in {"open", "failed", "closed"},
           records' \in Records,
           \A u \in Threads, g \in FutureIds :
               records'[u][g] = records[u][g] \/ records'[u][g] = Absent,
           NEW F \in SUBSET FutureIds, NEW R \in SUBSET RequestIds,
           free_future_id(F), free_request_id(R),
           inactive' \subseteq inactive \cup {Lease(f) : f \in F},
           notified' \in SUBSET RequestLease,
           dispatches' = dispatches,
           thread' \in [Threads -> ThreadStatus], held' \in [Threads -> SUBSET FutureIds]
    PROVE  TypeOK' /\ ResolvedByOwnLease' /\ LeasesIssued'
<1> USE DEF Inv
<1>1. /\ activeFutures' \in SUBSET FutureIds /\ futuresUsed' \in Nat
      /\ activeRequests' \in SUBSET RequestIds /\ requestsUsed' \in Nat
      /\ futureGen' = futureGen /\ requestGen' = requestGen
    BY FreeTypes, Zenon
<1>2. \A f \in F : Lease(f) \in FutureLease
    BY Zenon DEF TypeOK, Lease, FutureLease
<1>3. inactive' \in SUBSET FutureLease
    BY <1>2 DEF TypeOK
<1>4. TypeOK'
    BY <1>1, <1>3, Zenon DEF TypeOK, Records
<1>5. ResolvedByOwnLease'
    BY <1>1, NewRecords DEF ResolvedByOwnLease, Lease
<1>6. LeasesIssued'
    <2>1. \A f \in F : Lease(f)[2] <= futureGen[Lease(f)[1]]
        BY DEF TypeOK, Lease
    <2> QED
        BY <1>1, <2>1, Zenon DEF LeasesIssued
<1> QED
    BY <1>4, <1>5, <1>6, Zenon

\* Discarding some futures of one thread, and freeing their ids and requests,
\* preserves the invariant when the thread is not left blocked.
LEMMA DiscardInv ==
    ASSUME Inv, mode = "open", mode' = "open", NEW t \in Threads,
           NEW F \in SUBSET OwnedBy(records, t),
           records' \in Records,
           \A g \in F : records'[t][g] = Absent,
           \A g \in FutureIds \ F :
               \/ records'[t][g] = records[t][g]
               \/ records[t][g].state = "absent" /\ records'[t][g] = Absent,
           \A u \in Threads \ {t}, g \in FutureIds : records'[u][g] = records[u][g],
           free_future_id(F), free_request_id(RequestsOf(t, F)),
           inactive' \subseteq inactive \cup {Lease(f) : f \in F},
           notified' \in SUBSET RequestLease,
           dispatches' = dispatches,
           thread' \in [Threads -> ThreadStatus], held' \in [Threads -> SUBSET FutureIds],
           thread'[t] # "blocked", \A u \in Threads \ {t} : thread'[u] = thread[u],
           thread'[t] = "cancelled" => F = OwnedBy(records, t),
           thread[t] = "blocked" => F = OwnedBy(records, t)
    PROVE  Inv'
<1> USE DEF Inv
<1>1. F \in SUBSET FutureIds /\ \A f \in F : Present(records, t, f)
    BY Zenon DEF OwnedBy
<1>2. RequestsOf(t, F) \in SUBSET RequestIds
    BY <1>1 DEF RequestsOf, request_id, TypeOK, FutureRecord
<1>3. TypeOK' /\ ResolvedByOwnLease' /\ LeasesIssued'
    <2>1. \A u \in Threads, g \in FutureIds :
             records'[u][g] = records[u][g] \/ records'[u][g] = Absent
        BY <1>1, Zenon
    <2> QED
        BY <1>1, <1>2, <2>1, DiscardTypes, Zenon
<1>4. futureGen' = futureGen /\ requestGen' = requestGen /\ \A g \in FutureIds : Lease(g)' = Lease(g)
    BY Zenon DEF free_future_id, free_request_id, Lease
<1>5. \A u \in Threads, g \in FutureIds :
         Present(records, u, g)' <=> Present(records, u, g) /\ ~(u = t /\ g \in F)
    BY NewRecords DEF Present
<1>6. \A u \in Threads, g \in FutureIds :
         Present(records, u, g)' => records'[u][g] = records[u][g]
    BY <1>1, NewRecords DEF Present
<1>7. FutureAccounts'
    <2>1. F \subseteq activeFutures
        BY <1>1, Zenon DEF AccountsExact, FutureAccounts
    <2>2. futuresUsed' = Cardinality(activeFutures')
        BY <2>1, IdsFinite, MinusCardinality, Zenon DEF AccountsExact, FutureAccounts, free_future_id
    <2>3. ASSUME NEW g \in FutureIds
          PROVE  g \in activeFutures' <=> \E u \in Threads : Present(records, u, g)'
        BY <1>1, <1>5, Zenon DEF AccountsExact, FutureAccounts, free_future_id
    <2> QED
        BY <1>5, <2>2, <2>3, Zenon DEF AccountsExact, FutureAccounts
<1>8. RequestAccounts'
    <2> DEFINE X == {t} \X F
    <2>1. X \in SUBSET (Threads \X FutureIds)
        BY <1>1, Zenon
    <2>2. \A r : r \in RequestsOf(t, F) <=> \E k \in X : r \in request_id(records, k[1], k[2])
        <3>1. ASSUME NEW r, NEW f \in F, r \in request_id(records, t, f)
              PROVE  \E k \in X : r \in request_id(records, k[1], k[2])
            <4>1. <<t, f>> \in X
                BY Zenon
            <4> QED
                BY <3>1, <4>1, Zenon
        <3>2. \A k \in X : k[1] = t /\ k[2] \in F
            BY Zenon
        <3> QED
            BY <3>1, <3>2 DEF RequestsOf
    <2>3. ASSUME NEW u \in Threads, NEW g \in FutureIds
          PROVE  request_id(records, u, g)' =
                     IF <<u, g>> \in X THEN {} ELSE request_id(records, u, g)
        <3>1. CASE u = t /\ g \in F
            BY <3>1, NewRecords, Zenon DEF request_id
        <3>2. CASE ~(u = t /\ g \in F)
            <4>1. \/ records'[u][g] = records[u][g]
                  \/ records[u][g].state = "absent" /\ records'[u][g].state = "absent"
                BY <3>2, NewRecords
            <4> QED
                BY <3>2, <4>1, Zenon DEF request_id
        <3> QED
            BY <3>1, <3>2, Zenon
    <2>4. RequestAccounts
        BY Zenon DEF AccountsExact
    <2> HIDE DEF X
    <2> QED
        BY <2>1, <2>2, <2>3, <2>4, FreeRequestsAccounts
<1>9. RecordsActive'
    <2> SUFFICES ASSUME NEW u \in Threads, NEW g \in FutureIds, Present(records, u, g)'
                 PROVE  ActiveRecord(u, g)'
        BY Zenon DEF RecordsActive, ActiveRecord, Present
    <2>1. records'[u][g] = records[u][g] /\ Present(records, u, g) /\ ~(u = t /\ g \in F)
        BY <1>5, <1>6, Zenon
    <2>2. ASSUME NEW f \in F, Lease(g) = Lease(f)
          PROVE  FALSE
        <3>1. g = f
            BY <2>2, Zenon DEF Lease
        <3> QED
            BY <1>1, <2>1, <3>1, Zenon DEF AccountsExact, FutureAccounts
    <2>3. Lease(g) \notin inactive'
        BY <2>1, <2>2, Zenon DEF RecordsActive, ActiveRecord
    <2>4. thread'[u] # "cancelled"
        BY <2>1, Zenon DEF RecordsActive, ActiveRecord, OwnedBy
    <2> QED
        BY <1>4, <2>1, <2>3, <2>4 DEF RecordsActive, ActiveRecord
<1>10. WaitersBlocked'
    <2>1. ASSUME NEW g \in FutureIds
          PROVE  records'[t][g].waiters = {}
        <3>1. CASE records'[t][g] = Absent
            BY <3>1, NewRecords, Zenon
        <3>2. CASE g \notin F /\ records'[t][g] = records[t][g]
            BY <3>2, Zenon DEF WaitersBlocked, OwnedBy, Present
        <3> QED
            BY <3>1, <3>2, Zenon
    <2>2. ASSUME NEW u \in Threads, NEW g \in FutureIds, records'[u][g].waiters # {}
          PROVE  /\ records'[u][g].waiters = {u} /\ records'[u][g].state = "running"
                 /\ thread'[u] = "blocked"
                 /\ \A h \in FutureIds : records'[u][h].waiters # {} => h = g
        <3>1. u \in Threads \ {t}
            BY <2>1, <2>2, Zenon
        <3>2. thread'[u] = thread[u] /\ \A h \in FutureIds : records'[u][h] = records[u][h]
            BY <3>1, Zenon
        <3> QED
            BY <2>2, <3>2 DEF WaitersBlocked
    <2> QED
        BY <2>2 DEF WaitersBlocked
<1>11. BlockedIsServed'
    <2> SUFFICES ASSUME NEW u \in Threads, thread'[u] = "blocked"
                 PROVE  AwaitIsServed(u)'
        BY Zenon DEF BlockedIsServed
    <2>1. u # t /\ AwaitIsServed(u)
        BY Zenon DEF BlockedIsServed
    <2>2. ASSUME NEW g \in FutureIds, u \in records[u][g].waiters
          PROVE  Lease(g) \in inactive' => Lease(g) \in inactive
        <3>1. Present(records, u, g)
            BY <2>2, Zenon DEF WaitersBlocked, Present
        <3>2. \A f \in F : Lease(g) # Lease(f)
            BY <1>1, <2>1, <3>1, Zenon DEF AccountsExact, FutureAccounts, Lease
        <3> QED
            BY <3>2, Zenon
    <2>3. \A d \in dispatches, g \in FutureIds : Serves(d, u, g) => d.stage # "answered"
        BY Zenon DEF Serves
    <2> QED
        BY <1>4, <2>1, <2>2, <2>3, ServedFrame, Zenon
<1> QED
    BY <1>3, <1>7, <1>8, <1>9, <1>10, <1>11, Zenon DEF AccountsExact

\* Dropping a handle discards its future; a future with waiters is not dropped,
\* since its owner is blocked.
LEMMA DropFutureInv ==
    ASSUME Inv, NEW t \in Threads, NEW f \in FutureIds, DropFuture(t, f)
    PROVE  Inv'
<1>1. /\ mode = "open" /\ thread[t] \in {"running", "cancelled"}
      /\ held' = [held EXCEPT ![t] = @ \ {f}] /\ dispatches' = dispatches
    BY Zenon DEF DropFuture, Calling
<1>2. held' \in [Threads -> SUBSET FutureIds]
    BY <1>1, Zenon DEF Inv, TypeOK
<1>3. CASE ~Present(records, t, f)
    <2>1. FailThread(t) /\ UNCHANGED <<records, idVars, requestVars, inactive>>
        BY <1>3, Zenon DEF DropFuture
    <2> QED
        BY <1>1, <1>2, <2>1, FailInv, Zenon DEF Inv, TypeOK
<1>4. CASE Present(records, t, f)
    <2>1. ~Retained(records, t, f) /\ thread[t] = "running"
        BY <1>1, <1>4, Zenon DEF Inv, WaitersBlocked, Retained, RecordsActive, ActiveRecord
    <2>2. /\ records' = discard_inner(records, t, f)
          /\ free_future_id({f}) /\ free_request_id(request_id(records, t, f))
          /\ inactive' \subseteq inactive \cup {Lease(f)}
          /\ notified' = notified \cup Leases(request_id(records, t, f))
          /\ Resume(t) /\ mode' = mode
        BY <1>4, <2>1, Zenon DEF DropFuture
    <2>3. /\ records' \in Records /\ records'[t][f] = Absent
          /\ \A u \in Threads, g \in FutureIds :
                (u # t \/ g # f) => records'[u][g] = records[u][g]
        BY <2>2, NewRecords, Zenon DEF discard_inner, Inv, TypeOK, Records
    <2>4. RequestsOf(t, {f}) = request_id(records, t, f)
        BY Zenon DEF RequestsOf
    <2>5. thread' = thread
        BY <2>1, <2>2, Zenon DEF Resume, Inv, TypeOK
    <2>6. {f} \in SUBSET OwnedBy(records, t) /\ {Lease(g) : g \in {f}} = {Lease(f)}
        BY <1>4, Zenon DEF OwnedBy
    <2>7. thread \in [Threads -> ThreadStatus]
        BY Zenon DEF Inv, TypeOK
    <2>8. notified' \in SUBSET RequestLease
        <3>1. request_id(records, t, f) \in SUBSET RequestIds
            BY DEF request_id, Inv, TypeOK, FutureRecord
        <3> QED
            BY <2>2, <3>1, ToldLeases, Zenon DEF Inv
    <2> QED
        BY <1>1, <1>2, <2>1, <2>2, <2>3, <2>4, <2>5, <2>6, <2>7, <2>8, DiscardInv
<1> QED
    BY <1>3, <1>4, Zenon

\* cancel_thread_futures leaves the thread without records.
LEMMA CancelThreadFuturesDiscards ==
    ASSUME Inv, NEW t \in Threads, CancelThreadFutures(t)
    PROVE  /\ records' \in Records
           /\ \A g \in FutureIds : records'[t][g] = Absent
           /\ \A u \in Threads \ {t}, g \in FutureIds : records'[u][g] = records[u][g]
           /\ inactive' \subseteq inactive \cup {Lease(f) : f \in OwnedBy(records, t)}
           /\ free_future_id(OwnedBy(records, t))
           /\ free_request_id(RequestsOf(t, OwnedBy(records, t)))
           /\ notified' \in SUBSET RequestLease
<1>1. RequestsOf(t, OwnedBy(records, t)) \in SUBSET RequestIds
    BY DEF OwnedBy, RequestsOf, request_id, Inv, TypeOK, FutureRecord
<1>2. notified' \in SUBSET RequestLease
    BY <1>1, ToldLeases DEF Inv, CancelThreadFutures
<1> QED
    BY <1>2, NewRecords
    DEF CancelThreadFutures, discard_all_for_owner, NoRecords, Inv, TypeOK, Records

\* The end of a thread, and its cancellation, release all it owns.
LEMMA EndOfThreadInv ==
    ASSUME Inv, mode = "open", mode' = "open", NEW t \in Threads, CancelThreadFutures(t),
           NEW status \in ThreadStatus \ {"blocked"}, thread' = [thread EXCEPT ![t] = status],
           held' \in [Threads -> SUBSET FutureIds], dispatches' = dispatches
    PROVE  Inv'
<1>1. /\ records' \in Records
      /\ \A g \in FutureIds : records'[t][g] = Absent
      /\ \A u \in Threads \ {t}, g \in FutureIds : records'[u][g] = records[u][g]
      /\ inactive' \subseteq inactive \cup {Lease(f) : f \in OwnedBy(records, t)}
      /\ free_future_id(OwnedBy(records, t))
      /\ free_request_id(RequestsOf(t, OwnedBy(records, t)))
      /\ notified' \in SUBSET RequestLease
    BY CancelThreadFuturesDiscards
<1>2. \A g \in FutureIds \ OwnedBy(records, t) : records[t][g].state = "absent"
    BY DEF OwnedBy, Present
<1>3. /\ thread' \in [Threads -> ThreadStatus] /\ thread'[t] # "blocked"
      /\ \A u \in Threads \ {t} : thread'[u] = thread[u]
    BY DEF Inv, TypeOK
<1>4. OwnedBy(records, t) \in SUBSET FutureIds
    BY DEF OwnedBy
<1> DEFINE F == OwnedBy(records, t)
<1>5. F \in SUBSET OwnedBy(records, t) /\ F = OwnedBy(records, t)
    BY Zenon
<1>6. /\ \A g \in F : records'[t][g] = Absent
      /\ \A g \in FutureIds \ F : records[t][g].state = "absent" /\ records'[t][g] = Absent
      /\ free_future_id(F) /\ free_request_id(RequestsOf(t, F))
      /\ inactive' \subseteq inactive \cup {Lease(f) : f \in F}
    BY <1>1, <1>2, <1>4, Zenon
<1> HIDE DEF F
<1> QED
    BY <1>1, <1>3, <1>5, <1>6, DiscardInv

\* A VM error releases what the thread owns and fails the execution.
LEMMA FailedInv ==
    ASSUME Inv, NEW t \in Threads, Failed(t)
    PROVE  Inv'
<1>1. /\ records' \in Records
      /\ \A u \in Threads, g \in FutureIds :
             records'[u][g] = records[u][g] \/ records'[u][g] = Absent
      /\ inactive' \subseteq inactive \cup {Lease(f) : f \in OwnedBy(records, t)}
      /\ free_future_id(OwnedBy(records, t))
      /\ free_request_id(RequestsOf(t, OwnedBy(records, t)))
      /\ notified' \in SUBSET RequestLease
    BY CancelThreadFuturesDiscards DEF Failed
<1>2. mode' = "failed" /\ dispatches' = dispatches
    BY DEF Failed, FailThread
<1>3. thread' \in [Threads -> ThreadStatus] /\ held' \in [Threads -> SUBSET FutureIds]
    BY DEF Failed, FailThread, Inv, TypeOK, ThreadStatus
<1>4. OwnedBy(records, t) \in SUBSET FutureIds
    BY DEF OwnedBy
<1>5. RequestsOf(t, OwnedBy(records, t)) \in SUBSET RequestIds
    BY <1>4 DEF RequestsOf, request_id, Inv, TypeOK, FutureRecord
<1>6. TypeOK' /\ ResolvedByOwnLease' /\ LeasesIssued'
    BY <1>1, <1>2, <1>3, <1>4, <1>5, DiscardTypes
<1> QED
    BY <1>2, <1>6, NotOpenInv

\* Shutdown empties the registry.
LEMMA ShutdownInv == ASSUME Inv, Shutdown PROVE Inv'
<1> DEFINE F == UNION {OwnedBy(records, t) : t \in Threads}
           R == UNION {RequestsOf(t, FutureIds) : t \in Threads}
<1>1. F \in SUBSET FutureIds
    BY DEF OwnedBy
<1>2. R \in SUBSET RequestIds
    BY DEF RequestsOf, request_id, Inv, TypeOK, FutureRecord
<1>3. /\ mode' = "closed" /\ dispatches' = dispatches
      /\ thread' \in [Threads -> ThreadStatus] /\ held' \in [Threads -> SUBSET FutureIds]
      /\ records' = discard_all
      /\ inactive' \subseteq inactive \cup {Lease(f) : f \in F}
      /\ free_future_id(F) /\ free_request_id(R)
      /\ notified' = notified \cup Leases(R)
    BY DEF Shutdown, ThreadStatus
<1>4. records' \in Records /\ \A u \in Threads, g \in FutureIds : records'[u][g] = Absent
    BY <1>3, EmptyRegistry
<1> HIDE DEF F, R
<1>5. notified' \in SUBSET RequestLease
    BY <1>2, <1>3, ToldLeases DEF Inv
<1>6. TypeOK' /\ ResolvedByOwnLease' /\ LeasesIssued'
    BY <1>1, <1>2, <1>3, <1>4, <1>5, DiscardTypes
<1> QED
    BY <1>3, <1>6, NotOpenInv

================================================================================
