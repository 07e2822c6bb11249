------------------------- MODULE FutureLifecycleProofs -------------------------
(***************************************************************************)
(* The life of futures, for every number of threads, ids and requests and  *)
(* every quota: a future is resolved by its own request only, the quotas   *)
(* and id managers account for exactly the live futures and requests, and  *)
(* no blocked thread loses the dispatch that will wake it.                 *)
(***************************************************************************)
EXTENDS FutureInvariant

(* The outcomes of an await. *)

(* An await that dispatches nothing. *)

\* An await that runs a Galfus function inline takes its activation only.
LEMMA AwaitInlineInv ==
    ASSUME Inv, NEW t \in Threads, NEW f \in FutureIds, AwaitInline(t, f)
    PROVE  Inv'
<1> USE DEF Inv
<1>1. /\ mode = "open" /\ thread[t] \in {"running", "cancelled"}
      /\ records[t][f].state = "created" /\ records[t][f].kind = "galfus"
      /\ records' = [records EXCEPT ![t][f].state = "running"]
      /\ Resume(t)
      /\ mode' = mode /\ held' = held /\ dispatches' = dispatches /\ inactive' = inactive
      /\ UNCHANGED <<activeFutures, futureGen, futuresUsed>>
      /\ UNCHANGED <<activeRequests, requestGen, requestsUsed, notified>>
    BY DEF AwaitInline, Calling, take_activation_for_start, idVars, requestVars
<1>2. thread[t] = "running" /\ records[t][f].request = NoRequest
    BY <1>1 DEF RecordsActive, ActiveRecord, Present
<1>3. thread' = thread
    BY <1>1, <1>2 DEF Resume, TypeOK
<1>4. \A g \in FutureIds : records[t][g].waiters = {}
    BY <1>1 DEF WaitersBlocked
<1>5. /\ records' \in Records
      /\ records'[t][f].state = "running" /\ records'[t][f].kind = "galfus"
      /\ records'[t][f].request = NoRequest /\ records'[t][f].waiters = {}
      /\ \A u \in Threads, g \in FutureIds :
            (u # t \/ g # f) => records'[u][g] = records[u][g]
    <2> DEFINE rec == [records[t][f] EXCEPT !.state = "running"]
    <2>1. records \in Records /\ records[t][f] \in FutureRecord
        BY DEF TypeOK, Records
    <2>2. /\ rec \in FutureRecord /\ rec.state = "running" /\ rec.kind = records[t][f].kind
          /\ rec.request = records[t][f].request /\ rec.waiters = records[t][f].waiters
        BY <2>1 DEF FutureRecord, FutureState
    <2>3. records' = [records EXCEPT ![t][f] = rec]
        BY <1>1
    <2> HIDE DEF rec
    <2>4. /\ records' \in Records /\ records'[t][f] = rec
          /\ \A u \in Threads, g \in FutureIds :
                (u # t \/ g # f) => records'[u][g] = records[u][g]
        BY <2>1, <2>2, <2>3 DEF Records
    <2> QED
        BY <1>1, <1>2, <1>4, <2>2, <2>4
<1>6. TypeOK'
    BY <1>1, <1>3, <1>5 DEF TypeOK, Records
<1>7. ResolvedByOwnLease' /\ LeasesIssued'
    BY <1>1, <1>5 DEF ResolvedByOwnLease, LeasesIssued, Lease
<1>8. FutureAccounts'
    <2>1. \A u \in Threads, g \in FutureIds : Present(records, u, g)' <=> Present(records, u, g)
        BY <1>1, <1>5 DEF Present
    <2> QED
        BY <1>1, <2>1, SameFuturesAccounts, Zenon DEF AccountsExact
<1>9. RequestAccounts'
    <2>1. ASSUME NEW u \in Threads, NEW g \in FutureIds
          PROVE  request_id(records, u, g)' = request_id(records, u, g)
        <3>1. CASE u = t /\ g = f
            BY <1>1, <1>2, <1>5, <3>1 DEF request_id
        <3>2. CASE u # t \/ g # f
            BY <1>5, <3>2, Zenon DEF request_id
        <3> QED
            BY <3>1, <3>2
    <2> QED
        BY <1>1, <2>1, SameRequestsAccounts, Zenon DEF AccountsExact
<1>10. RecordsActive'
    BY <1>1, <1>2, <1>3, <1>5 DEF RecordsActive, ActiveRecord, Present, Lease, External
<1>11. WaitersBlocked'
    BY <1>1, <1>3, <1>4, <1>5 DEF WaitersBlocked
<1>12. BlockedIsServed'
    <2> SUFFICES ASSUME NEW u \in Threads, thread'[u] = "blocked"
                 PROVE  AwaitIsServed(u)'
        BY DEF BlockedIsServed
    <2>1. u # t /\ AwaitIsServed(u)
        BY <1>1, <1>2, <1>3 DEF BlockedIsServed
    <2>2. \A d \in dispatches, g \in FutureIds : Serves(d, u, g) => d.stage # "answered"
        BY DEF Serves
    <2> QED
        BY <1>1, <1>5, <2>1, <2>2, ServedFrame, Zenon
<1> QED
    BY <1>6, <1>7, <1>8, <1>9, <1>10, <1>11, <1>12 DEF AccountsExact

\* An await of a resolved future changes nothing or fails.
LEMMA AwaitResolvedInv ==
    ASSUME Inv, NEW t \in Threads, NEW f \in FutureIds, AwaitResolved(t, f)
    PROVE  Inv'
<1>1. thread[t] = "running"
    BY DEF AwaitResolved, Calling, Inv, RecordsActive, ActiveRecord, Present
<1>2. CASE FailThread(t)
    BY <1>2, FailInv DEF AwaitResolved, Inv, TypeOK
<1>3. CASE Resume(t) /\ UNCHANGED mode
    <2>1. thread' = thread
        BY <1>1, <1>3 DEF Resume, Inv, TypeOK
    <2> QED
        BY <1>3, <2>1, UnchangedInv DEF AwaitResolved, vars, idVars, requestVars
<1> QED
    BY <1>2, <1>3 DEF AwaitResolved

\* An await of a future that runs already: the caller is not blocked, so the
\* future has no waiter and is an inline Galfus future.
LEMMA AwaitRunningInv ==
    ASSUME Inv, NEW t \in Threads, NEW f \in FutureIds, AwaitRunning(t, f)
    PROVE  Inv'
<1> USE DEF Inv
<1>1. /\ mode = "open" /\ thread[t] \in {"running", "cancelled"}
      /\ records[t][f].state = "running"
      /\ records' = [records EXCEPT ![t][f].waiters = @ \cup {t}]
      /\ Block(t)
      /\ mode' = mode /\ held' = held /\ dispatches' = dispatches /\ inactive' = inactive
      /\ UNCHANGED <<activeFutures, futureGen, futuresUsed>>
      /\ UNCHANGED <<activeRequests, requestGen, requestsUsed, notified>>
    BY DEF AwaitRunning, Calling, add_waiter, idVars, requestVars
<1>2. \A g \in FutureIds : records[t][g].waiters = {}
    BY <1>1 DEF WaitersBlocked
<1>3. thread[t] = "running" /\ records[t][f].kind \notin External
    BY <1>1, <1>2 DEF RecordsActive, ActiveRecord, Present
<1>4. /\ thread' \in [Threads -> ThreadStatus] /\ thread'[t] = "blocked"
      /\ \A u \in Threads : u # t => thread'[u] = thread[u]
    BY <1>1, <1>3 DEF Block, TypeOK, ThreadStatus
<1>5. /\ records' \in Records
      /\ records'[t][f].state = "running" /\ records'[t][f].kind = records[t][f].kind
      /\ records'[t][f].request = records[t][f].request /\ records'[t][f].waiters = {t}
      /\ \A u \in Threads, g \in FutureIds :
            (u # t \/ g # f) => records'[u][g] = records[u][g]
    <2> DEFINE rec == [records[t][f] EXCEPT !.waiters = @ \cup {t}]
    <2>1. records \in Records /\ records[t][f] \in FutureRecord
        BY DEF TypeOK, Records
    <2>2. /\ rec \in FutureRecord /\ rec.state = records[t][f].state
          /\ rec.kind = records[t][f].kind
          /\ rec.request = records[t][f].request /\ rec.waiters = records[t][f].waiters \cup {t}
        BY <2>1, LimitsAssumption DEF FutureRecord
    <2>3. records' = [records EXCEPT ![t][f] = rec]
        BY <1>1
    <2> HIDE DEF rec
    <2>4. /\ records' \in Records /\ records'[t][f] = rec
          /\ \A u \in Threads, g \in FutureIds :
                (u # t \/ g # f) => records'[u][g] = records[u][g]
        BY <2>1, <2>2, <2>3 DEF Records
    <2> QED
        BY <1>1, <1>2, <2>2, <2>4
<1>6. TypeOK'
    BY <1>1, <1>4, <1>5 DEF TypeOK, Records
<1>7. ResolvedByOwnLease' /\ LeasesIssued'
    BY <1>1, <1>5 DEF ResolvedByOwnLease, LeasesIssued, Lease
<1>8. FutureAccounts'
    <2>1. \A u \in Threads, g \in FutureIds : Present(records, u, g)' <=> Present(records, u, g)
        BY <1>1, <1>5 DEF Present
    <2> QED
        BY <1>1, <2>1, SameFuturesAccounts, Zenon DEF AccountsExact
<1>9. RequestAccounts'
    <2>1. \A u \in Threads, g \in FutureIds : request_id(records, u, g)' = request_id(records, u, g)
        BY <1>1, <1>5, ZenonT(30) DEF request_id
    <2> QED
        BY <1>1, <2>1, SameRequestsAccounts, Zenon DEF AccountsExact
<1>10. RecordsActive'
    BY <1>1, <1>3, <1>4, <1>5 DEF RecordsActive, ActiveRecord, Present, Lease
<1>11. WaitersBlocked'
    BY <1>1, <1>2, <1>4, <1>5 DEF WaitersBlocked
<1>12. BlockedIsServed'
    <2> SUFFICES ASSUME NEW u \in Threads, thread'[u] = "blocked"
                 PROVE  AwaitIsServed(u)'
        BY DEF BlockedIsServed
    <2>1. CASE u = t
        BY <1>3, <1>5, <2>1 DEF AwaitIsServed
    <2>2. CASE u # t
        <3>1. AwaitIsServed(u)
            BY <1>1, <1>4, <2>2 DEF BlockedIsServed
        <3>2. \A d \in dispatches, g \in FutureIds : Serves(d, u, g) => d.stage # "answered"
            BY DEF Serves
        <3> QED
            BY <1>1, <1>5, <2>2, <3>1, <3>2, ServedFrame, Zenon
    <2> QED
        BY <2>1, <2>2
<1> QED
    BY <1>6, <1>7, <1>8, <1>9, <1>10, <1>11, <1>12 DEF AccountsExact

-------------------------------------------------------------------------------
(* An await that starts, or may not start, the future's request. *)

\* What the first await of a provider or adapter call does to the record.
LEMMA StartedRecords ==
    ASSUME NEW recs \in Records, NEW t \in Threads, NEW f \in FutureIds,
           NEW new, new = take_activation_for_start(add_waiter(recs, t, f, t), t, f)
    PROVE  /\ new \in Records
           /\ new[t][f].state = "running" /\ new[t][f].kind = recs[t][f].kind
           /\ new[t][f].waiters = recs[t][f].waiters \cup {t}
           /\ \A u \in Threads, g \in FutureIds : (u # t \/ g # f) => new[u][g] = recs[u][g]
<1> DEFINE a == [recs[t][f] EXCEPT !.waiters = @ \cup {t}]
           b == [a EXCEPT !.state = "running"]
           mid == add_waiter(recs, t, f, t)
<1>1. /\ a \in FutureRecord /\ a.kind = recs[t][f].kind
      /\ a.waiters = recs[t][f].waiters \cup {t}
    <2>1. recs[t][f] \in FutureRecord
        BY DEF Records
    <2> QED
        BY <2>1, LimitsAssumption DEF FutureRecord
<1>2. mid = [recs EXCEPT ![t][f] = a]
    BY DEF add_waiter
<1> HIDE DEF a, mid
<1>3. /\ mid \in Records /\ mid[t][f] = a
      /\ \A u \in Threads, g \in FutureIds : (u # t \/ g # f) => mid[u][g] = recs[u][g]
    BY <1>1, <1>2 DEF Records
<1>4. b \in FutureRecord /\ b.state = "running" /\ b.kind = a.kind /\ b.waiters = a.waiters
    BY <1>1 DEF FutureRecord, FutureState
<1>5. new = [mid EXCEPT ![t][f] = b]
    BY <1>3 DEF take_activation_for_start, mid
<1> HIDE DEF b
<1>6. /\ new \in Records /\ new[t][f] = b
      /\ \A u \in Threads, g \in FutureIds : (u # t \/ g # f) => new[u][g] = mid[u][g]
    BY <1>3, <1>4, <1>5 DEF Records
<1> QED
    BY <1>1, <1>3, <1>4, <1>6

\* A refused await has changed its record when it fails.
LEMMA AwaitRefusedInv ==
    ASSUME Inv, NEW t \in Threads, NEW f \in FutureIds, AwaitRefused(t, f)
    PROVE  Inv'
<1> USE DEF Inv
<1>1. /\ records' = take_activation_for_start(add_waiter(records, t, f, t), t, f)
      /\ FailThread(t)
      /\ UNCHANGED <<held, activeFutures, futureGen, futuresUsed, activeRequests,
                     requestGen, requestsUsed, notified, dispatches, inactive>>
    BY DEF AwaitRefused, idVars, requestVars
<1>2. records \in Records
    BY DEF TypeOK, Records
<1>3. /\ records' \in Records /\ records'[t][f].state = "running"
      /\ \A u \in Threads, g \in FutureIds :
            (u # t \/ g # f) => records'[u][g] = records[u][g]
    BY <1>1, <1>2, StartedRecords
<1>4. mode' = "failed" /\ thread' \in [Threads -> ThreadStatus]
    BY <1>1 DEF FailThread, TypeOK, ThreadStatus
<1>5. TypeOK'
    BY <1>1, <1>3, <1>4 DEF TypeOK, Records
<1>6. ResolvedByOwnLease' /\ LeasesIssued'
    BY <1>1, <1>3, Zenon DEF ResolvedByOwnLease, LeasesIssued, Lease
<1> QED
    BY <1>4, <1>5, <1>6, NotOpenInv

\* The same with the request the activation is given.
LEMMA DispatchedRecords ==
    ASSUME NEW recs \in Records, NEW t \in Threads, NEW f \in FutureIds, NEW r \in RequestIds,
           NEW new, new = assign_request_id(take_activation_for_start(
                             add_waiter(recs, t, f, t), t, f), t, f, r)
    PROVE  /\ new \in Records
           /\ new[t][f].state = "running" /\ new[t][f].kind = recs[t][f].kind
           /\ new[t][f].waiters = recs[t][f].waiters \cup {t} /\ new[t][f].request = r
           /\ \A u \in Threads, g \in FutureIds : (u # t \/ g # f) => new[u][g] = recs[u][g]
<1> DEFINE mid == take_activation_for_start(add_waiter(recs, t, f, t), t, f)
           b == [mid[t][f] EXCEPT !.request = r]
<1>1. /\ mid \in Records
      /\ mid[t][f].state = "running" /\ mid[t][f].kind = recs[t][f].kind
      /\ mid[t][f].waiters = recs[t][f].waiters \cup {t}
      /\ \A u \in Threads, g \in FutureIds : (u # t \/ g # f) => mid[u][g] = recs[u][g]
    BY StartedRecords
<1>2. new = [mid EXCEPT ![t][f] = b]
    BY DEF assign_request_id
<1> HIDE DEF mid
<1>3. /\ b \in FutureRecord /\ b.state = mid[t][f].state /\ b.kind = mid[t][f].kind
      /\ b.waiters = mid[t][f].waiters /\ b.request = r
    <2>1. mid[t][f] \in FutureRecord
        BY <1>1 DEF Records
    <2> QED
        BY <2>1 DEF FutureRecord
<1> HIDE DEF b
<1>4. /\ new \in Records /\ new[t][f] = b
      /\ \A u \in Threads, g \in FutureIds : (u # t \/ g # f) => new[u][g] = mid[u][g]
    BY <1>1, <1>2, <1>3 DEF Records
<1> QED
    BY <1>1, <1>3, <1>4

\* The first await of a provider or adapter call gives its future a fresh
\* request and a dispatch that will answer it.
LEMMA AwaitStartsInv ==
    ASSUME Inv, NEW t \in Threads, NEW f \in FutureIds, NEW r \in RequestIds,
           AwaitStarts(t, f, r)
    PROVE  Inv'
<1> USE DEF Inv
<1> DEFINE new == [owner |-> t, future |-> Lease(f), request |-> <<r, requestGen[r] + 1>>,
                   kind |-> records[t][f].kind, stage |-> "queued"]
<1>1. /\ mode = "open" /\ thread[t] \in {"running", "cancelled"}
      /\ records[t][f].state = "created" /\ records[t][f].kind \in External
      /\ r \notin activeRequests
      /\ records' = assign_request_id(take_activation_for_start(
                         add_waiter(records, t, f, t), t, f), t, f, r)
      /\ activeRequests' = activeRequests \cup {r}
      /\ requestGen' = [requestGen EXCEPT ![r] = @ + 1]
      /\ requestsUsed' = requestsUsed + 1 /\ notified' = notified
      /\ dispatches' = dispatches \cup {new}
      /\ Block(t)
      /\ mode' = mode /\ held' = held /\ inactive' = inactive
      /\ UNCHANGED <<activeFutures, futureGen, futuresUsed>>
    BY Zenon DEF AwaitStarts, Calling, idVars
<1>2. records \in Records
    BY DEF TypeOK, Records
<1>3. \A g \in FutureIds : records[t][g].waiters = {}
    BY <1>1, Zenon DEF WaitersBlocked
<1>4. /\ records' \in Records
      /\ records'[t][f].state = "running" /\ records'[t][f].kind = records[t][f].kind
      /\ records'[t][f].request = r /\ records'[t][f].waiters = {t}
      /\ \A u \in Threads, g \in FutureIds :
            (u # t \/ g # f) => records'[u][g] = records[u][g]
    BY <1>1, <1>2, <1>3, DispatchedRecords
<1>5. thread[t] = "running" /\ Lease(f) \notin inactive
    BY <1>1, Zenon DEF RecordsActive, ActiveRecord, Present
<1>6. /\ thread' \in [Threads -> ThreadStatus] /\ thread'[t] = "blocked"
      /\ \A u \in Threads : u # t => thread'[u] = thread[u]
    BY <1>1, <1>5 DEF Block, TypeOK, ThreadStatus
<1>7. /\ requestGen' \in [RequestIds -> Nat] /\ requestGen'[r] = requestGen[r] + 1
      /\ \A q \in RequestIds : q # r => requestGen'[q] = requestGen[q]
    BY <1>1 DEF TypeOK
<1>8. new \in Dispatch
    BY <1>1 DEF TypeOK, Dispatch, FutureLease, RequestLease, Lease, Stage
<1>9. TypeOK'
    <2> HIDE DEF new
    <2>1. /\ activeRequests' \in SUBSET RequestIds /\ requestsUsed' \in Nat
          /\ dispatches' \in SUBSET Dispatch
        BY <1>1, <1>8 DEF TypeOK
    <2> QED
        BY <1>1, <1>4, <1>6, <1>7, <2>1, Zenon DEF TypeOK, Records
<1>10. ResolvedByOwnLease' /\ LeasesIssued'
    <2>1. new.future[2] <= futureGen[new.future[1]]
        BY DEF TypeOK, Lease
    <2> HIDE DEF new
    <2> QED
        BY <1>1, <1>4, <2>1, ZenonT(30) DEF ResolvedByOwnLease, LeasesIssued, Lease
<1>11. FutureAccounts'
    <2>1. \A u \in Threads, g \in FutureIds : Present(records, u, g)' <=> Present(records, u, g)
        BY <1>1, <1>4, Zenon DEF Present
    <2> QED
        BY <1>1, <2>1, SameFuturesAccounts, Zenon DEF AccountsExact
<1>12. RequestAccounts'
    <2>1. request_id(records, t, f)' = {r} /\ request_id(records, t, f) = {}
        BY <1>1, <1>4, IdsAssumption DEF request_id, NoRequest
    <2>2. \A u \in Threads, g \in FutureIds :
             (u # t \/ g # f) => request_id(records, u, g)' = request_id(records, u, g)
        BY <1>4 DEF request_id
    <2>3. \A u \in Threads, g \in FutureIds : r \notin request_id(records, u, g)
        BY <1>1, Zenon DEF AccountsExact, RequestAccounts
    <2>4. requestsUsed' = Cardinality(activeRequests')
        BY <1>1, IdsFinite, FS_AddElement, Zenon DEF AccountsExact, RequestAccounts
    <2>5. ASSUME NEW q \in RequestIds
          PROVE  q \in activeRequests' <=>
                     \E u \in Threads, g \in FutureIds : q \in request_id(records, u, g)'
        <3>1. CASE q = r
            BY <1>1, <2>1, <3>1, Zenon
        <3>2. CASE q # r
            <4>1. q \in activeRequests <=>
                     \E u \in Threads, g \in FutureIds : q \in request_id(records, u, g)
                BY <1>1, Zenon DEF AccountsExact, RequestAccounts
            <4>2. \A u \in Threads, g \in FutureIds :
                     q \in request_id(records, u, g)' <=> q \in request_id(records, u, g)
                BY <2>1, <2>2, <3>2
            <4> QED
                BY <1>1, <3>2, <4>1, <4>2, Zenon
        <3> QED
            BY <3>1, <3>2
    <2>6. ASSUME NEW q \in RequestIds, NEW v \in Threads, NEW u \in Threads,
                 NEW h \in FutureIds, NEW g \in FutureIds,
                 q \in request_id(records, v, h)', q \in request_id(records, u, g)'
          PROVE  v = u /\ h = g
        BY <1>1, <2>1, <2>2, <2>3, <2>6 DEF AccountsExact, RequestAccounts
    <2> QED
        BY <2>4, <2>5, <2>6 DEF RequestAccounts
<1>13. RecordsActive'
    <2> HIDE DEF new
    <2> SUFFICES ASSUME NEW u \in Threads, NEW g \in FutureIds PROVE ActiveRecord(u, g)'
        BY DEF RecordsActive
    <2>1. ActiveRecord(u, g) /\ Lease(g)' = Lease(g)
        BY <1>1, Zenon DEF RecordsActive, Lease
    <2>2. CASE u = t /\ g = f
        BY <1>1, <1>4, <1>5, <1>6, <2>1, <2>2, Zenon DEF ActiveRecord
    <2>3. CASE u # t \/ g # f
        <3>1. records'[u][g] = records[u][g] /\ (thread'[u] = "cancelled" => thread[u] = "cancelled")
            BY <1>4, <1>6, <2>3, Zenon
        <3> QED
            BY <1>1, <2>1, <3>1, Zenon DEF ActiveRecord, Present
    <2> QED
        BY <2>2, <2>3
<1>14. WaitersBlocked'
    <2> HIDE DEF new
    <2> SUFFICES ASSUME NEW u \in Threads, NEW g \in FutureIds, records'[u][g].waiters # {}
                 PROVE  /\ records'[u][g].waiters = {u}
                        /\ records'[u][g].state = "running"
                        /\ thread'[u] = "blocked"
                        /\ \A h \in FutureIds : records'[u][h].waiters # {} => h = g
        BY DEF WaitersBlocked
    <2>1. CASE u = t
        <3>1. g = f
            BY <1>3, <1>4, <2>1, Zenon
        <3> QED
            BY <1>3, <1>4, <1>6, <2>1, <3>1, Zenon
    <2>2. CASE u # t
        <3>1. \A h \in FutureIds : records'[u][h] = records[u][h]
            BY <1>4, <2>2, Zenon
        <3> QED
            BY <1>1, <1>6, <2>2, <3>1 DEF WaitersBlocked
    <2> QED
        BY <2>1, <2>2
<1>15. BlockedIsServed'
    <2> SUFFICES ASSUME NEW u \in Threads, thread'[u] = "blocked"
                 PROVE  AwaitIsServed(u)'
        BY DEF BlockedIsServed
    <2>1. CASE u = t
        <3>1. ASSUME NEW d \in dispatches', d = new PROVE Serves(d, t, f)'
            BY <1>1, <1>4, <1>5, <1>7, <3>1, Zenon DEF Serves, Lease
        <3>2. \E d \in dispatches' : Serves(d, t, f)'
            <4> HIDE DEF new
            <4> QED
                BY <1>1, <3>1, Zenon
        <3> QED
            BY <1>4, <2>1, <3>2 DEF AwaitIsServed
    <2>2. CASE u # t
        <3>1. AwaitIsServed(u)
            BY <1>1, <1>6, <2>2, Zenon DEF BlockedIsServed
        <3>2. \A d \in dispatches, g \in FutureIds : Serves(d, u, g) => d.stage # "answered"
            BY DEF Serves
        <3>3. ASSUME NEW g \in FutureIds, u \in records[u][g].waiters,
                     records[u][g].request \in RequestIds
              PROVE  requestGen'[records[u][g].request] = requestGen[records[u][g].request]
            <4>1. records[u][g].request \in request_id(records, u, g)
                BY <1>1, <3>3, IdsAssumption DEF WaitersBlocked, request_id, NoRequest
            <4>2. records[u][g].request \in activeRequests
                BY <1>1, <3>3, <4>1, Zenon DEF AccountsExact, RequestAccounts
            <4> QED
                BY <1>1, <1>7, <3>3, <4>2, Zenon
        <3> HIDE DEF new
        <3> QED
            BY <1>1, <1>4, <2>2, <3>1, <3>2, <3>3, ServedFrame, Zenon
    <2> QED
        BY <2>1, <2>2
<1> QED
    BY <1>1, <1>9, <1>10, <1>11, <1>12, <1>13, <1>14, <1>15, Zenon DEF AccountsExact

-------------------------------------------------------------------------------

(* Dispatch tasks and answers preserve the invariant. *)

\* A dispatch that moves on keeps its owner, its leases and its kind.
LEMMA MovedDispatch ==
    ASSUME TypeOK, NEW d \in dispatches, NEW stage \in Stage, MoveTo(d, stage)
    PROVE  /\ dispatches' \in SUBSET Dispatch
           /\ \A e \in dispatches' : \E c \in dispatches : e.future = c.future
           /\ \A c \in dispatches : c # d => c \in dispatches'
           /\ \E e \in dispatches' : /\ e.owner = d.owner /\ e.future = d.future
                                     /\ e.request = d.request /\ e.stage = stage
<1> DEFINE moved == [d EXCEPT !.stage = stage]
<1>1. d \in Dispatch /\ dispatches \in SUBSET Dispatch
    BY DEF TypeOK
<1>2. /\ moved \in Dispatch /\ moved.owner = d.owner /\ moved.future = d.future
      /\ moved.request = d.request /\ moved.stage = stage
    BY <1>1 DEF Dispatch
<1>3. dispatches' = (dispatches \ {d}) \cup {moved}
    BY DEF MoveTo
<1> HIDE DEF moved
<1> QED
    BY <1>1, <1>2, <1>3

\* A step of the dispatches alone preserves the invariant when it leaves every
\* blocked thread its dispatch.
LEMMA DispatchStepInv ==
    ASSUME Inv, UNCHANGED <<mode, thread, held, records, idVars, requestVars, inactive>>,
           dispatches' \in SUBSET Dispatch,
           \A e \in dispatches' : \E c \in dispatches : e.future = c.future,
           ASSUME NEW u \in Threads, NEW g \in FutureIds, NEW c \in dispatches,
                  mode = "open", records[u][g].state = "running", Serves(c, u, g)
           PROVE  \E e \in dispatches' : /\ e.owner = c.owner /\ e.future = c.future
                                         /\ e.request = c.request /\ e.stage # "answered"
    PROVE  Inv'
<1> USE DEF Inv, idVars, requestVars
<1>1. TypeOK'
    BY DEF TypeOK
<1>2. ResolvedByOwnLease' /\ LeasesIssued'
    BY DEF ResolvedByOwnLease, LeasesIssued, Lease
<1>3. FutureAccounts' <=> FutureAccounts
    BY DEF FutureAccounts, Present
<1>4. RequestAccounts' <=> RequestAccounts
    BY DEF RequestAccounts, request_id
<1>5. RecordsActive'
    BY DEF RecordsActive, ActiveRecord, Lease, Present
<1>6. WaitersBlocked'
    BY DEF WaitersBlocked
<1>7. BlockedIsServed'
    <2> SUFFICES ASSUME mode = "open", NEW u \in Threads, thread[u] = "blocked"
                 PROVE  AwaitIsServed(u)'
        BY Zenon DEF BlockedIsServed
    <2>1. AwaitIsServed(u)
        BY DEF BlockedIsServed
    <2>2. ASSUME NEW g \in FutureIds, u \in records[u][g].waiters
          PROVE  records[u][g].state = "running"
        BY <2>2 DEF WaitersBlocked
    <2> QED
        BY <2>1, <2>2, ServedFrame, Zenon
<1> QED
    BY <1>1, <1>2, <1>3, <1>4, <1>5, <1>6, <1>7 DEF AccountsExact

\* A dispatch task.
LEMMA TaskInv ==
    ASSUME Inv, NEW d \in dispatches, CheckTask(d) \/ DispatchTask(d)
    PROVE  Inv'
<1>1. UNCHANGED <<mode, thread, held, records, idVars, requestVars, inactive>> /\ TypeOK
    BY DEF CheckTask, DispatchTask, Inv
<1>2. CASE CheckTask(d) /\ d.future \in inactive
    <2>1. dispatches' = dispatches \ {d}
        BY <1>2 DEF CheckTask
    <2>2. dispatches' \in SUBSET Dispatch
        BY <1>1, <2>1 DEF TypeOK
    <2>3. \A u, g : ~Serves(d, u, g)
        BY <1>2 DEF Serves
    <2>4. \A c \in dispatches : \A u, g : Serves(c, u, g) => c.stage # "answered"
        BY DEF Serves
    <2> QED
        BY <1>1, <2>1, <2>2, <2>3, <2>4, DispatchStepInv, Zenon
<1>3. ASSUME NEW stage \in Stage, MoveTo(d, stage), stage # "answered"
      PROVE  Inv'
    <2>1. /\ dispatches' \in SUBSET Dispatch
          /\ \A e \in dispatches' : \E c \in dispatches : e.future = c.future
          /\ \A c \in dispatches : c # d => c \in dispatches'
          /\ \E e \in dispatches' : /\ e.owner = d.owner /\ e.future = d.future
                                    /\ e.request = d.request /\ e.stage = stage
        BY <1>1, <1>3, MovedDispatch
    <2>2. ASSUME NEW u \in Threads, NEW g \in FutureIds, NEW c \in dispatches,
                 mode = "open", records[u][g].state = "running", Serves(c, u, g)
          PROVE  \E e \in dispatches' : /\ e.owner = c.owner /\ e.future = c.future
                                        /\ e.request = c.request /\ e.stage # "answered"
        BY <1>3, <2>1, <2>2 DEF Serves
    <2> QED
        BY <1>1, <2>1, <2>2, DispatchStepInv, Zenon
<1>4. CASE CheckTask(d) /\ d.future \notin inactive
    <2>1. MoveTo(d, "checked") \/ MoveTo(d, "dispatched")
        BY <1>4 DEF CheckTask
    <2> QED
        BY <1>3, <2>1 DEF Stage
<1>5. CASE DispatchTask(d)
    BY <1>3, <1>5 DEF DispatchTask, Stage
<1> QED
    BY <1>2, <1>4, <1>5

\* An answer that is stale, or to a future that is not waiting for one, leaves
\* every blocked thread its dispatch.
LEMMA StaleAnswerInv ==
    ASSUME Inv, NEW d \in dispatches, MoveTo(d, "answered"),
           UNCHANGED <<mode, thread, held, records, idVars, requestVars, inactive>>,
           d.future[2] # futureGen[d.future[1]] \/ ~CanComplete(records, d.owner, d.future[1])
    PROVE  Inv'
<1>1. /\ dispatches' \in SUBSET Dispatch
      /\ \A e \in dispatches' : \E c \in dispatches : e.future = c.future
      /\ \A c \in dispatches : c # d => c \in dispatches'
    BY MovedDispatch DEF Inv, Stage
<1>2. ASSUME NEW u \in Threads, NEW g \in FutureIds, records[u][g].state = "running",
             Serves(d, u, g)
      PROVE  FALSE
    <2>1. d.owner = u /\ d.future[1] = g /\ d.future[2] = futureGen[g]
        BY <1>2 DEF Serves, Lease
    <2> QED
        BY <1>2, <2>1 DEF CanComplete
<1>3. ASSUME NEW u \in Threads, NEW g \in FutureIds, NEW c \in dispatches,
             records[u][g].state = "running", Serves(c, u, g)
      PROVE  c \in dispatches' /\ c.stage # "answered"
    BY <1>1, <1>2, <1>3 DEF Serves
<1> QED
    BY <1>1, <1>3, DispatchStepInv, Zenon

\* The answer with the current lease resolves the future, frees its request and
\* resumes its waiter.
LEMMA CompleteInv ==
    ASSUME Inv, mode = "open", NEW d \in dispatches, NEW outcome \in {"ok", "err"},
           MoveTo(d, "answered"), CompleteFuture(d.owner, d.future[1], d.future, outcome),
           d.future[2] = futureGen[d.future[1]], CanComplete(records, d.owner, d.future[1])
    PROVE  Inv'
<1> USE DEF Inv
<1> DEFINE t == d.owner
           f == d.future[1]
           R == request_id(records, t, f)
<1>1. /\ t \in Threads /\ f \in FutureIds /\ d.future \in FutureLease
      /\ d.future = <<d.future[1], d.future[2]>>
    BY DEF TypeOK, Dispatch, FutureLease
<1>2. d.future = Lease(f)
    BY <1>1 DEF Lease
<1>3. /\ records' = complete(records, t, f, d.future, outcome)
      /\ IF records[t][f].waiters = {}
           THEN UNCHANGED <<mode, thread>>
           ELSE IF outcome = "err" THEN FailThread(t)
           ELSE thread' = [thread EXCEPT ![t] = "running"] /\ UNCHANGED mode
      /\ free_request_id(R)
      /\ UNCHANGED <<held, activeFutures, futureGen, futuresUsed, notified, inactive>>
    BY Zenon DEF CompleteFuture, idVars
<1>4. /\ dispatches' \in SUBSET Dispatch
      /\ \A e \in dispatches' : \E c \in dispatches : e.future = c.future
      /\ \A c \in dispatches : c # d => c \in dispatches'
    BY MovedDispatch DEF Stage
<1>5. Present(records, t, f)
    BY DEF CanComplete, Present
<1> HIDE DEF t, f, R
<1>6. /\ records' \in Records /\ records'[t][f].state = "resolved"
      /\ records'[t][f].by = Lease(f) /\ records'[t][f].waiters = {}
      /\ \A u \in Threads, g \in FutureIds :
            (u # t \/ g # f) => records'[u][g] = records[u][g]
    <2> DEFINE rec == Resolved(records[t][f], d.future, outcome)
    <2>1. records \in Records /\ records[t][f] \in FutureRecord
        BY <1>1 DEF TypeOK, Records
    <2>2. /\ rec \in FutureRecord /\ rec.state = "resolved"
          /\ rec.by = d.future /\ rec.waiters = {}
        BY <1>1, <2>1, ResolvedRecord DEF Outcome
    <2>3. records' = [records EXCEPT ![t][f] = rec]
        BY <1>3 DEF complete
    <2> HIDE DEF rec
    <2>4. /\ records' \in Records /\ records'[t][f] = rec
          /\ \A u \in Threads, g \in FutureIds :
                (u # t \/ g # f) => records'[u][g] = records[u][g]
        BY <1>1, <2>1, <2>2, <2>3 DEF Records
    <2> QED
        BY <1>2, <2>2, <2>4
<1>7. /\ mode' \in {"open", "failed"} /\ thread' \in [Threads -> ThreadStatus]
      /\ \A u \in Threads \ {t} : thread'[u] = thread[u]
      /\ mode' = "open" => thread'[t] = IF records[t][f].waiters = {} THEN thread[t] ELSE "running"
    BY <1>1, <1>3, Zenon DEF TypeOK, ThreadStatus, FailThread
<1>8. R \in SUBSET RequestIds /\ IsFiniteSet(R)
    BY <1>1, LimitsAssumption, FS_Subset DEF R, request_id, TypeOK, FutureRecord
<1>9. TypeOK'
    <2>1. activeRequests' \in SUBSET RequestIds /\ requestsUsed' \in Nat /\ requestGen' = requestGen
        BY <1>3, <1>8, MinusType, Zenon DEF TypeOK, free_request_id
    <2> QED
        BY <1>3, <1>4, <1>6, <1>7, <2>1, Zenon DEF TypeOK, Records
<1>10. ResolvedByOwnLease' /\ LeasesIssued'
    BY <1>1, <1>3, <1>4, <1>6 DEF ResolvedByOwnLease, LeasesIssued, Lease
<1>11. FutureAccounts'
    <2>1. \A u \in Threads, g \in FutureIds : Present(records, u, g)' <=> Present(records, u, g)
        BY <1>5, <1>6, Zenon DEF Present
    <2> QED
        BY <1>3, <2>1, SameFuturesAccounts, Zenon DEF AccountsExact
<1>12. RequestAccounts'
    <2> DEFINE X == {<<t, f>>}
    <2>1. X \in SUBSET (Threads \X FutureIds)
        BY <1>1
    <2>2. \A r : r \in R <=> \E k \in X : r \in request_id(records, k[1], k[2])
        BY DEF R
    <2>3. ASSUME NEW u \in Threads, NEW g \in FutureIds
          PROVE  request_id(records, u, g)' =
                     IF <<u, g>> \in X THEN {} ELSE request_id(records, u, g)
        BY <1>6, Zenon DEF request_id
    <2>4. RequestAccounts
        BY DEF AccountsExact
    <2> HIDE DEF X
    <2> QED
        BY <1>3, <2>1, <2>2, <2>3, <2>4, FreeRequestsAccounts
<1>13. RecordsActive'
    <2> SUFFICES ASSUME mode' = "open", NEW u \in Threads, NEW g \in FutureIds
                 PROVE  ActiveRecord(u, g)'
        BY DEF RecordsActive
    <2>1. ActiveRecord(u, g) /\ ActiveRecord(t, f) /\ Lease(g)' = Lease(g)
        BY <1>1, <1>3 DEF RecordsActive, Lease
    <2>2. thread'[u] = "cancelled" => thread[u] = "cancelled"
        BY <1>7
    <2>3. CASE u = t /\ g = f
        BY <1>3, <1>5, <1>6, <2>1, <2>2, <2>3, Zenon DEF ActiveRecord
    <2>4. CASE u # t \/ g # f
        BY <1>3, <1>6, <2>1, <2>2, <2>4, Zenon DEF ActiveRecord, Present
    <2> QED
        BY <2>3, <2>4
<1>14. WaitersBlocked'
    <2> SUFFICES ASSUME mode' = "open", NEW u \in Threads, NEW g \in FutureIds,
                        records'[u][g].waiters # {}
                 PROVE  /\ records'[u][g].waiters = {u}
                        /\ records'[u][g].state = "running"
                        /\ thread'[u] = "blocked"
                        /\ \A h \in FutureIds : records'[u][h].waiters # {} => h = g
        BY DEF WaitersBlocked
    <2>1. (u # t \/ g # f) /\ records'[u][g] = records[u][g]
        BY <1>6, Zenon
    <2>2. /\ records[u][g].waiters = {u} /\ records[u][g].state = "running"
          /\ thread[u] = "blocked"
          /\ \A h \in FutureIds : records[u][h].waiters # {} => h = g
        BY <2>1 DEF WaitersBlocked
    <2>3. thread'[u] = "blocked"
        BY <1>1, <1>7, <2>1, <2>2
    <2>4. \A h \in FutureIds : records'[u][h].waiters # {} => records[u][h].waiters # {}
        BY <1>6, Zenon
    <2> QED
        BY <2>1, <2>2, <2>3, <2>4
<1>15. BlockedIsServed'
    <2> SUFFICES ASSUME mode' = "open", NEW u \in Threads, thread'[u] = "blocked"
                 PROVE  AwaitIsServed(u)'
        BY DEF BlockedIsServed
    <2>1. thread[u] = "blocked" /\ (u = t => records[t][f].waiters = {})
        BY <1>7
    <2>2. AwaitIsServed(u)
        BY <2>1 DEF BlockedIsServed
    <2>3. ASSUME NEW g \in FutureIds, u \in records[u][g].waiters
          PROVE  u # t \/ g # f
        BY <2>1, <2>3
    <2>4. ASSUME NEW g \in FutureIds, u \in records[u][g].waiters,
                 NEW c \in dispatches, Serves(c, u, g)
          PROVE  c \in dispatches' /\ c.stage # "answered"
        <3>1. c.owner = u /\ c.future = <<g, futureGen[g]>> /\ c.stage # "answered"
            BY <2>4 DEF Serves, Lease
        <3>2. c # d
            BY <2>3, <2>4, <3>1 DEF t, f
        <3> QED
            BY <1>4, <3>1, <3>2
    <2>5. requestGen' = requestGen
        BY <1>3 DEF free_request_id
    <2> QED
        BY <1>3, <1>6, <2>2, <2>3, <2>4, <2>5, ServedFrame, Zenon
<1> QED
    BY <1>9, <1>10, <1>11, <1>12, <1>13, <1>14, <1>15 DEF AccountsExact

\* A host's answer, whichever and whenever.
LEMMA AnswerInv ==
    ASSUME Inv, NEW d \in dispatches,
           (\E outcome \in {"ok", "err"} : Respond(d, outcome)) \/ RespondInvalid(d)
    PROVE  Inv'
<1>1. d.owner \in Threads /\ d.future[1] \in FutureIds
    BY DEF Inv, TypeOK, Dispatch, FutureLease
<1>2. ASSUME NEW outcome \in {"ok", "err"}, Respond(d, outcome)
      PROVE  Inv'
    <2>1. /\ mode = "open" /\ MoveTo(d, "answered")
          /\ CompleteFuture(d.owner, d.future[1], d.future, outcome)
        BY <1>2 DEF Respond
    <2>2. CASE d.future[2] # futureGen[d.future[1]] \/ ~CanComplete(records, d.owner, d.future[1])
        BY <2>1, <2>2, StaleAnswerInv, Zenon DEF CompleteFuture
    <2>3. CASE ~(d.future[2] # futureGen[d.future[1]] \/ ~CanComplete(records, d.owner, d.future[1]))
        BY <2>1, <2>3, CompleteInv
    <2> QED
        BY <2>2, <2>3
<1>3. CASE RespondInvalid(d)
    <2>1. /\ MoveTo(d, "answered") /\ mode = "open"
          /\ UNCHANGED <<held, records, idVars, requestVars, inactive>>
        BY <1>3 DEF RespondInvalid
    <2>2. CASE d.future[2] = futureGen[d.future[1]] /\ Present(records, d.owner, d.future[1])
        <3>1. FailThread(d.owner)
            BY <1>3, <2>2 DEF RespondInvalid
        <3>2. /\ dispatches' \in SUBSET Dispatch
              /\ \A e \in dispatches' : \E c \in dispatches : e.future = c.future
            BY <2>1, MovedDispatch DEF Inv, Stage
        <3>3. held' \in [Threads -> SUBSET FutureIds]
            BY <2>1 DEF Inv, TypeOK
        <3> QED
            BY <1>1, <2>1, <3>1, <3>2, <3>3, FailInv
    <2>3. CASE ~(d.future[2] = futureGen[d.future[1]] /\ Present(records, d.owner, d.future[1]))
        <3>1. UNCHANGED <<mode, thread>>
            BY <1>3, <2>3 DEF RespondInvalid
        <3>2. d.future[2] # futureGen[d.future[1]] \/ ~CanComplete(records, d.owner, d.future[1])
            BY <2>3 DEF Present, CanComplete
        <3> QED
            BY <2>1, <3>1, <3>2, StaleAnswerInv
    <2> QED
        BY <2>2, <2>3
<1> QED
    BY <1>2, <1>3

-------------------------------------------------------------------------------
(* The invariant, and what it establishes. *)

\* The steps of a thread.
LEMMA ThreadStepInv ==
    ASSUME Inv, NEW t \in Threads, ThreadStep(t)
    PROVE  Inv'
<1>1. ASSUME NEW f \in FutureIds, NEW kind \in Kinds, CreateFuture(t, f, kind)
      PROVE  Inv'
    BY <1>1, CreateFutureInv
<1>2. ASSUME NEW f \in FutureIds, CreateFutureBadArgument(t, f)
      PROVE  Inv'
    BY <1>2, CreateFutureBadArgumentInv
<1>3. ASSUME CreateFutureRefused(t) \/ \E f \in FutureIds : AwaitUnknown(t, f)
      PROVE  Inv'
    <2>1. /\ FailThread(t) /\ held' = held /\ dispatches' = dispatches
          /\ UNCHANGED <<records, idVars, requestVars, inactive>>
        BY <1>3, Zenon DEF CreateFutureRefused, AwaitUnknown
    <2> QED
        BY <2>1, FailInv, Zenon DEF Inv, TypeOK
<1>4. ASSUME NEW f \in FutureIds, DropFuture(t, f)
      PROVE  Inv'
    BY <1>4, DropFutureInv
<1>5. ASSUME NEW f \in FutureIds, AwaitInline(t, f)
      PROVE  Inv'
    BY <1>5, AwaitInlineInv
<1>6. ASSUME NEW f \in FutureIds, AwaitResolved(t, f)
      PROVE  Inv'
    BY <1>6, AwaitResolvedInv
<1>7. ASSUME NEW f \in FutureIds, AwaitRunning(t, f)
      PROVE  Inv'
    BY <1>7, AwaitRunningInv
<1>8. ASSUME NEW f \in FutureIds, NEW r \in RequestIds, AwaitStarts(t, f, r)
      PROVE  Inv'
    BY <1>8, AwaitStartsInv
<1>9. ASSUME NEW f \in FutureIds, AwaitRefused(t, f)
      PROVE  Inv'
    BY <1>9, AwaitRefusedInv
<1>10. ASSUME Exited(t) \/ CancelParkedThread(t)
       PROVE  Inv'
    <2>1. /\ mode = "open" /\ mode' = "open" /\ CancelThreadFutures(t)
          /\ thread' = [thread EXCEPT ![t] = "ended"] /\ dispatches' = dispatches
          /\ held' = [held EXCEPT ![t] = {}]
        BY <1>10 DEF Exited, CancelParkedThread, Calling
    <2>2. held' \in [Threads -> SUBSET FutureIds]
        BY <2>1 DEF Inv, TypeOK
    <2> QED
        BY <2>1, <2>2, EndOfThreadInv, Zenon DEF ThreadStatus
<1>11. ASSUME CancelThreadInFlight(t)
       PROVE  Inv'
    <2>1. /\ mode = "open" /\ mode' = "open" /\ CancelThreadFutures(t)
          /\ thread' = [thread EXCEPT ![t] = "cancelled"] /\ dispatches' = dispatches
          /\ held' \in [Threads -> SUBSET FutureIds]
        BY <1>11 DEF CancelThreadInFlight, Inv, TypeOK
    <2> QED
        BY <2>1, EndOfThreadInv, Zenon DEF ThreadStatus
<1>12. ASSUME Failed(t)
       PROVE  Inv'
    BY <1>12, FailedInv
<1> QED
    BY <1>1, <1>2, <1>3, <1>4, <1>5, <1>6, <1>7, <1>8, <1>9, <1>10, <1>11, <1>12 DEF ThreadStep

\* Inv is an invariant of the specification.
THEOREM Invariance == Spec => []Inv
<1>1. Init => Inv
    BY InitInv
<1>2. Inv /\ [Next]_vars => Inv'
    <2> SUFFICES ASSUME Inv, [Next]_vars PROVE Inv'
        OBVIOUS
    <2>1. ASSUME NEW t \in Threads, ThreadStep(t)
          PROVE  Inv'
        BY <2>1, ThreadStepInv
    <2>2. ASSUME NEW d \in dispatches, TaskStep(d) \/ HostStep(d)
          PROVE  Inv'
        BY <2>2, TaskInv, AnswerInv DEF TaskStep, HostStep
    <2>3. CASE Shutdown
        BY <2>3, ShutdownInv
    <2>4. CASE Done \/ UNCHANGED vars
        BY <2>4, UnchangedInv DEF Done
    <2> QED
        BY <2>1, <2>2, <2>3, <2>4 DEF Next
<1> QED
    BY <1>1, <1>2, PTL DEF Spec

\* The state of the orchestrator keeps its type: no handler reads a record, an
\* id or a quota that is not there.
THEOREM TypeCorrect == Spec => []TypeOK
BY Invariance, PTL DEF Inv

\* The generation check of FutureCompleted is enough: whatever ids are recycled
\* and however late or often a host answers, a future is resolved only by the
\* answer to its own request.
THEOREM OwnAnswersOnly == Spec => []ResolvedByOwnLease
BY Invariance, PTL DEF Inv

\* The id managers and quotas of an open execution count precisely the live
\* futures and the requests of running ones, after any drops, completions and
\* cancellations.
THEOREM NothingLeaks == Spec => []AccountsExact
BY Invariance, PTL DEF Inv

\* No blocked thread is ever without the dispatch that will wake it, whatever
\* was cancelled, dropped and reallocated before.
THEOREM NoLostWakeup == Spec => []BlockedIsServed
BY Invariance, PTL DEF Inv

================================================================================
