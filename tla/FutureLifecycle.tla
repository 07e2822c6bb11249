---------------------------- MODULE FutureLifecycle ----------------------------
(***************************************************************************)
(* The life of a future in the Orchestrator: a thread creates it, awaits   *)
(* it, the orchestrator dispatches its activation to a provider or to an   *)
(* adapter, the host answers, the waiting thread is resumed, and the       *)
(* future is dropped, cancelled with its thread, or released at shutdown.  *)
(*                                                                         *)
(* The orchestrator runs on one thread and handles one event at a time:    *)
(* each action is a whole event handler.  Dispatch tasks run on the driver *)
(* (orchestrator/adapter.rs), the ones of providers with affinity Any on   *)
(* worker threads when Workers holds.  The host answers when it likes,     *)
(* late or more than once.  An answer and the FutureCompleted event that   *)
(* carries it are one step: the orchestrator is the only reader of both.   *)
(*                                                                         *)
(* Aggregate awaits, internal operations (timers, mailboxes) and the       *)
(* kernel's queues are not part of this module.  Thread ids are not reused *)
(* here.  One FuturesDropped effect carries one future.                    *)
(***************************************************************************)
EXTENDS FutureRegistry, FiniteSets

CONSTANTS Kinds,            \* kinds of future the program creates
          MaxFutures,       \* quota of live futures
          MaxRequests,      \* quota of pending requests
          MaxGeneration,    \* bound: allocations of one id
          Workers           \* provider tasks run on other threads

ASSUME LimitsAssumption ==
    /\ Kinds \subseteq Kind \ {"internal"}
    /\ MaxFutures \in Nat
    /\ MaxRequests \in Nat
    /\ MaxGeneration \in Nat
    /\ Workers \in BOOLEAN
    /\ IsFiniteSet(Threads) /\ IsFiniteSet(FutureIds) /\ IsFiniteSet(RequestIds)
    /\ Waiters = Threads

VARIABLES mode,             \* "open", "failed" (failure is set) or "closed"
          thread,           \* where each thread is
          held,             \* future handles in each thread's registers
          records,          \* the future registry
          activeFutures,    \* future_id_manager's active ids
          futureGen,        \* future_generations, 0 for never allocated
          futuresUsed,      \* quota.futures
          activeRequests,   \* request_id_manager's active ids
          requestGen,       \* request_generations
          requestsUsed,     \* quota.pending_requests
          notified,         \* request leases that a host was told to cancel
          dispatches,       \* provider and adapter dispatch tasks and requests
          inactive          \* leases whose active flag was cleared

idVars == <<activeFutures, futureGen, futuresUsed>>
requestVars == <<activeRequests, requestGen, requestsUsed, notified>>
vars == <<mode, thread, held, records, idVars, requestVars, dispatches, inactive>>

\* A thread is "running" from its dispatch until its next event, "blocked" in
\* an await, "cancelled" when CancelThread removed it while its task was in
\* flight (the task still submits one event), and "ended" otherwise.
ThreadStatus == {"running", "blocked", "cancelled", "ended"}

\* A dispatch is "queued" at the driver, "checked" when its task has read the
\* active flag, "dispatched" when the host has it, "answered" once the host
\* has answered it.
Stage == {"queued", "checked", "dispatched", "answered"}

Dispatch ==
    [owner : Threads, future : FutureLease, request : RequestLease,
     kind : External, stage : Stage]

Init ==
    /\ mode = "open"
    /\ thread = [t \in Threads |-> "running"]
    /\ held = [t \in Threads |-> {}]
    /\ records = discard_all
    /\ activeFutures = {} /\ futureGen = [f \in FutureIds |-> 0] /\ futuresUsed = 0
    /\ activeRequests = {} /\ requestGen = [r \in RequestIds |-> 0] /\ requestsUsed = 0
    /\ notified = {}
    /\ dispatches = {}
    /\ inactive = {}

-------------------------------------------------------------------------------
(* Helpers of the handlers. *)

Lease(f) == <<f, futureGen[f]>>

\* GlobalQuota::release_* saturates at zero.
Minus(n, k) == IF k > n THEN 0 ELSE n - k

\* The thread's state goes back to the kernel, or is dropped with a cancelled
\* thread, whose control block is gone.
Resume(t) ==
    thread' = [thread EXCEPT ![t] = IF @ = "cancelled" THEN "ended" ELSE "running"]

\* failure is set and the kernel cancels the thread.
FailThread(t) ==
    /\ mode' = "failed"
    /\ thread' = [thread EXCEPT ![t] = "ended"]

free_future_id(F) ==
    /\ activeFutures' = activeFutures \ F
    /\ futuresUsed' = Minus(futuresUsed, Cardinality(F))
    /\ UNCHANGED futureGen

free_request_id(R) ==
    /\ activeRequests' = activeRequests \ R
    /\ requestsUsed' = Minus(requestsUsed, Cardinality(R))
    /\ UNCHANGED requestGen

\* The requests that a set of the owner's running futures hold.
RequestsOf(t, F) == UNION {request_id(records, t, f) : f \in F}

\* cancel_future_activation calls cancel of the host that has the request, with
\* the request's current generation.
Leases(R) == {<<r, requestGen[r]>> : r \in R}

\* A thread whose next event is a syscall.
Calling(t) == mode = "open" /\ thread[t] \in {"running", "cancelled"}

-------------------------------------------------------------------------------
(* Effects of a thread. *)

\* allocate_future_lease, then the registry record, then the thread goes on
\* with the handle.
CreateFuture(t, f, kind) ==
    /\ Calling(t)
    /\ futuresUsed < MaxFutures
    /\ f \in FutureIds \ activeFutures
    /\ futureGen[f] < MaxGeneration
    /\ activeFutures' = activeFutures \cup {f}
    /\ futureGen' = [futureGen EXCEPT ![f] = @ + 1]
    /\ futuresUsed' = futuresUsed + 1
    /\ IF Present(records, t, f)
         THEN FailThread(t) /\ UNCHANGED <<records, held>>
         ELSE /\ records' = insert_created(records, t, f, kind)
              /\ held' = [held EXCEPT ![t] = @ \cup {f}]
              /\ Resume(t)
              /\ UNCHANGED mode
    /\ UNCHANGED <<requestVars, dispatches, inactive>>

\* The argument does not decode: the id and the quota stay reserved.
CreateFutureBadArgument(t, f) ==
    /\ Calling(t)
    /\ futuresUsed < MaxFutures
    /\ f \in FutureIds \ activeFutures
    /\ futureGen[f] < MaxGeneration
    /\ activeFutures' = activeFutures \cup {f}
    /\ futureGen' = [futureGen EXCEPT ![f] = @ + 1]
    /\ futuresUsed' = futuresUsed + 1
    /\ FailThread(t)
    /\ UNCHANGED <<held, records, requestVars, dispatches, inactive>>

CreateFutureRefused(t) ==
    /\ Calling(t)
    /\ futuresUsed >= MaxFutures \/ activeFutures = FutureIds
    /\ FailThread(t)
    /\ UNCHANGED <<held, records, idVars, requestVars, dispatches, inactive>>

\* handle_future_dropped: the last handle of a future left the registers.
DropFuture(t, f) ==
    /\ Calling(t)
    /\ f \in held[t]
    /\ held' = [held EXCEPT ![t] = @ \ {f}]
    /\ IF ~Present(records, t, f)
         THEN FailThread(t) /\ UNCHANGED <<records, idVars, requestVars, inactive>>
         ELSE IF Retained(records, t, f)
         THEN Resume(t) /\ UNCHANGED <<mode, records, idVars, requestVars, inactive>>
         ELSE /\ records' = discard_inner(records, t, f)
              /\ free_future_id({f})
              /\ free_request_id(request_id(records, t, f))
              /\ notified' = notified \cup Leases(request_id(records, t, f))
              /\ inactive' = IF records[t][f].state \in {"created", "running"}
                               THEN inactive \cup {Lease(f)} ELSE inactive
              /\ Resume(t)
              /\ UNCHANGED mode
    /\ UNCHANGED dispatches

Block(t) ==
    thread' = [thread EXCEPT ![t] = IF @ = "cancelled" THEN "ended" ELSE "blocked"]

\* handle_future_wait on a future that has no record, or no longer has one.
AwaitUnknown(t, f) ==
    /\ Calling(t)
    /\ f \in held[t]
    /\ ~Present(records, t, f)
    /\ FailThread(t)
    /\ UNCHANGED <<held, records, idVars, requestVars, dispatches, inactive>>

\* The first await of a Galfus function runs it inline, in the same thread.
AwaitInline(t, f) ==
    /\ Calling(t)
    /\ f \in held[t]
    /\ records[t][f].state = "created"
    /\ records[t][f].kind = "galfus"
    /\ records' = take_activation_for_start(records, t, f)
    /\ Resume(t)
    /\ UNCHANGED <<mode, held, idVars, requestVars, dispatches, inactive>>

\* The result is cached: the thread goes on at once, or fails with it.
AwaitResolved(t, f) ==
    /\ Calling(t)
    /\ f \in held[t]
    /\ records[t][f].state = "resolved"
    /\ IF records[t][f].outcome = "err" /\ thread[t] # "cancelled"
         THEN FailThread(t)
         ELSE Resume(t) /\ UNCHANGED mode
    /\ UNCHANGED <<held, records, idVars, requestVars, dispatches, inactive>>

\* A started future gets one more waiter and nothing is dispatched.
AwaitRunning(t, f) ==
    /\ Calling(t)
    /\ f \in held[t]
    /\ records[t][f].state = "running"
    /\ records' = add_waiter(records, t, f, t)
    /\ Block(t)
    /\ UNCHANGED <<mode, held, idVars, requestVars, dispatches, inactive>>

\* The first await of a provider or adapter call: the waiter is registered,
\* the activation is taken, a request is allocated and its task dispatched.
AwaitStarts(t, f, r) ==
    /\ Calling(t)
    /\ f \in held[t]
    /\ records[t][f].state = "created"
    /\ records[t][f].kind \in External
    /\ requestsUsed < MaxRequests
    /\ r \in RequestIds \ activeRequests
    /\ requestGen[r] < MaxGeneration
    /\ records' = assign_request_id(take_activation_for_start(
                     add_waiter(records, t, f, t), t, f), t, f, r)
    /\ activeRequests' = activeRequests \cup {r}
    /\ requestGen' = [requestGen EXCEPT ![r] = @ + 1]
    /\ requestsUsed' = requestsUsed + 1
    /\ UNCHANGED notified
    /\ dispatches' = dispatches \cup
         {[owner |-> t, future |-> Lease(f), request |-> <<r, requestGen[r] + 1>>,
           kind |-> records[t][f].kind, stage |-> "queued"]}
    /\ Block(t)
    /\ UNCHANGED <<mode, held, idVars, inactive>>

\* No request quota or id is left: the waiter stays, the execution fails.
AwaitRefused(t, f) ==
    /\ Calling(t)
    /\ f \in held[t]
    /\ records[t][f].state = "created"
    /\ records[t][f].kind \in External
    /\ requestsUsed >= MaxRequests \/ activeRequests = RequestIds
    /\ records' = take_activation_for_start(add_waiter(records, t, f, t), t, f)
    /\ FailThread(t)
    /\ UNCHANGED <<held, idVars, requestVars, dispatches, inactive>>

-------------------------------------------------------------------------------
(* Ends of threads and of the execution. *)

\* Faulty variant: the hosts are not told.
CancelThreadFutures_Silent(t) ==
    LET F == OwnedBy(records, t) IN
    /\ records' = discard_all_for_owner(records, t)
    /\ inactive' = inactive \cup {Lease(f) : f \in F}
    /\ free_future_id(F)
    /\ free_request_id(RequestsOf(t, F))
    /\ UNCHANGED notified

\* cancel_thread_futures: every future of the thread is discarded, running
\* ones are cancelled at the host, ids and quota are released.
CancelThreadFutures(t) ==
    LET F == OwnedBy(records, t) IN
    /\ records' = discard_all_for_owner(records, t)
    /\ inactive' = inactive \cup {Lease(f) : f \in F}
    /\ free_future_id(F)
    /\ free_request_id(RequestsOf(t, F))
    /\ notified' = notified \cup Leases(RequestsOf(t, F))

Exited(t) ==
    /\ Calling(t)
    /\ CancelThreadFutures(t)
    /\ held' = [held EXCEPT ![t] = {}]
    /\ thread' = [thread EXCEPT ![t] = "ended"]
    /\ UNCHANGED <<mode, dispatches>>

\* A VM error of the thread ends the execution.
Failed(t) ==
    /\ Calling(t)
    /\ CancelThreadFutures(t)
    /\ held' = [held EXCEPT ![t] = {}]
    /\ FailThread(t)
    /\ UNCHANGED dispatches

\* ExecutionHandle::cancel_thread of a thread the kernel holds.
CancelParkedThread(t) ==
    /\ mode = "open"
    /\ thread[t] \in {"running", "blocked"}
    /\ CancelThreadFutures(t)
    /\ held' = [held EXCEPT ![t] = {}]
    /\ thread' = [thread EXCEPT ![t] = "ended"]
    /\ UNCHANGED <<mode, dispatches>>

\* ExecutionHandle::cancel_thread of a thread whose task is in flight: its
\* registers are in the task, which still submits one event.
CancelThreadInFlight(t) ==
    /\ mode = "open"
    /\ thread[t] = "running"
    /\ CancelThreadFutures(t)
    /\ thread' = [thread EXCEPT ![t] = "cancelled"]
    /\ UNCHANGED <<mode, held, dispatches>>

\* Orchestrator::shutdown, after a failure, on CancelExecution or at the end.
Shutdown ==
    /\ mode # "closed"
    /\ mode' = "closed"
    /\ thread' = [t \in Threads |-> "ended"]
    /\ held' = [t \in Threads |-> {}]
    /\ records' = discard_all
    /\ LET F == UNION {OwnedBy(records, t) : t \in Threads} IN
         /\ inactive' = inactive \cup {Lease(f) : f \in F}
         /\ free_future_id(F)
    /\ LET R == UNION {RequestsOf(t, FutureIds) : t \in Threads} IN
         /\ free_request_id(R)
         /\ notified' = notified \cup Leases(R)
    /\ UNCHANGED dispatches

-------------------------------------------------------------------------------
(* Dispatch tasks and the host. *)

MoveTo(d, stage) == dispatches' = (dispatches \ {d}) \cup {[d EXCEPT !.stage = stage]}

OnWorker(d) == Workers /\ d.kind = "provider"

\* The task reads the active flag.  On the orchestrator's own lane the
\* dispatch follows before anything else happens.
CheckTask(d) ==
    /\ d.stage = "queued"
    /\ IF d.future \in inactive
         THEN dispatches' = dispatches \ {d}
         ELSE MoveTo(d, IF OnWorker(d) THEN "checked" ELSE "dispatched")
    /\ UNCHANGED <<mode, thread, held, records, idVars, requestVars, inactive>>

\* A worker calls the provider after it read the flag.
DispatchTask(d) ==
    /\ d.stage = "checked"
    /\ MoveTo(d, "dispatched")
    /\ UNCHANGED <<mode, thread, held, records, idVars, requestVars, inactive>>

\* Faulty variant: the generation of the lease is not compared.
CompleteFuture_AnyGeneration(t, f, lease, outcome) ==
    IF ~CanComplete(records, t, f)
      THEN UNCHANGED <<mode, thread, held, records, idVars, requestVars, inactive>>
      ELSE /\ records' = complete(records, t, f, lease, outcome)
           /\ IF records[t][f].waiters = {}
                THEN UNCHANGED <<mode, thread>>
                ELSE IF outcome = "err" THEN FailThread(t)
                ELSE thread' = [thread EXCEPT ![t] = "running"] /\ UNCHANGED mode
           /\ free_request_id(request_id(records, t, f))
           /\ UNCHANGED <<held, idVars, notified, inactive>>

\* Faulty variant: the waiters are taken and not resumed.
CompleteFuture_Unresumed(t, f, lease, outcome) ==
    IF lease[2] # futureGen[f] \/ ~CanComplete(records, t, f)
      THEN UNCHANGED <<mode, thread, held, records, idVars, requestVars, inactive>>
      ELSE /\ records' = complete(records, t, f, lease, outcome)
           /\ free_request_id(request_id(records, t, f))
           /\ UNCHANGED <<mode, thread, held, idVars, notified, inactive>>

\* Faulty variant: the request id is not freed.
CompleteFuture_KeepsRequest(t, f, lease, outcome) ==
    IF lease[2] # futureGen[f] \/ ~CanComplete(records, t, f)
      THEN UNCHANGED <<mode, thread, held, records, idVars, requestVars, inactive>>
      ELSE /\ records' = complete(records, t, f, lease, outcome)
           /\ IF records[t][f].waiters = {}
                THEN UNCHANGED <<mode, thread>>
                ELSE IF outcome = "err" THEN FailThread(t)
                ELSE thread' = [thread EXCEPT ![t] = "running"] /\ UNCHANGED mode
           /\ UNCHANGED <<held, idVars, requestVars, inactive>>

\* FutureCompleted: complete_future and the resumption of the waiters.
\* Only a completion that carries the current generation reaches the record.
CompleteFuture(t, f, lease, outcome) ==
    IF lease[2] # futureGen[f] \/ ~CanComplete(records, t, f)
      THEN UNCHANGED <<mode, thread, held, records, idVars, requestVars, inactive>>
      ELSE /\ records' = complete(records, t, f, lease, outcome)
           /\ IF records[t][f].waiters = {}
                THEN UNCHANGED <<mode, thread>>
                ELSE IF outcome = "err" THEN FailThread(t)
                ELSE thread' = [thread EXCEPT ![t] = "running"] /\ UNCHANGED mode
           /\ free_request_id(request_id(records, t, f))
           /\ UNCHANGED <<held, idVars, notified, inactive>>

\* The host answers a dispatched request, possibly not for the first time.
Respond(d, outcome) ==
    /\ mode = "open"
    /\ d.stage \in {"dispatched", "answered"}
    /\ MoveTo(d, "answered")
    /\ CompleteFuture(d.owner, d.future[1], d.future, outcome)

\* The result does not decode as the future's type.
RespondInvalid(d) ==
    /\ mode = "open"
    /\ d.stage \in {"dispatched", "answered"}
    /\ MoveTo(d, "answered")
    /\ IF d.future[2] = futureGen[d.future[1]] /\ Present(records, d.owner, d.future[1])
         THEN FailThread(d.owner)
         ELSE UNCHANGED <<mode, thread>>
    /\ UNCHANGED <<held, records, idVars, requestVars, inactive>>

\* A closed execution stays closed.
Done == mode = "closed" /\ UNCHANGED vars

ThreadStep(t) ==
    \/ \E f \in FutureIds, kind \in Kinds : CreateFuture(t, f, kind)
    \/ \E f \in FutureIds : CreateFutureBadArgument(t, f)
    \/ CreateFutureRefused(t)
    \/ \E f \in FutureIds : DropFuture(t, f)
    \/ \E f \in FutureIds : AwaitUnknown(t, f)
    \/ \E f \in FutureIds : AwaitInline(t, f)
    \/ \E f \in FutureIds : AwaitResolved(t, f)
    \/ \E f \in FutureIds : AwaitRunning(t, f)
    \/ \E f \in FutureIds, r \in RequestIds : AwaitStarts(t, f, r)
    \/ \E f \in FutureIds : AwaitRefused(t, f)
    \/ Exited(t)
    \/ Failed(t)
    \/ CancelParkedThread(t)
    \/ CancelThreadInFlight(t)

TaskStep(d) == CheckTask(d) \/ DispatchTask(d)

HostStep(d) ==
    \/ \E outcome \in {"ok", "err"} : Respond(d, outcome)
    \/ RespondInvalid(d)

Next ==
    \/ \E t \in Threads : ThreadStep(t)
    \/ \E d \in dispatches : TaskStep(d) \/ HostStep(d)
    \/ Shutdown
    \/ Done

Spec == Init /\ [][Next]_vars

\* The driver runs every task it is given, every provider and adapter answers
\* each request once at least, and a failed execution is closed by the poll
\* that noticed the failure.
LiveSpec ==
    /\ Spec
    /\ WF_vars(\E d \in dispatches : TaskStep(d))
    /\ WF_vars(\E d \in dispatches : d.stage = "dispatched" /\ HostStep(d))
    /\ WF_vars(mode = "failed" /\ Shutdown)

-------------------------------------------------------------------------------
(* Properties. *)

\* Every variable has its type.
TypeOK ==
    /\ mode \in {"open", "failed", "closed"}
    /\ thread \in [Threads -> ThreadStatus]
    /\ held \in [Threads -> SUBSET FutureIds]
    /\ records \in [Threads -> [FutureIds -> FutureRecord]]
    /\ activeFutures \in SUBSET FutureIds
    /\ futureGen \in [FutureIds -> Nat]
    /\ futuresUsed \in Nat
    /\ activeRequests \in SUBSET RequestIds
    /\ requestGen \in [RequestIds -> Nat]
    /\ requestsUsed \in Nat
    /\ notified \in SUBSET RequestLease
    /\ dispatches \in SUBSET Dispatch
    /\ inactive \in SUBSET FutureLease

\* A future is resolved by the answer to its own request, never by a late or
\* repeated answer to an earlier future that had the same id: the generation
\* check of FutureCompleted (event_loop.rs) against reuse of future ids.
ResolvedByOwnLease ==
    \A t \in Threads, f \in FutureIds :
        records[t][f].state = "resolved" => records[t][f].by = Lease(f)

\* A dispatch that can still complete the future f of thread t.
Serves(d, t, f) ==
    /\ d.owner = t
    /\ d.future = Lease(f)
    /\ d.request = <<records[t][f].request, requestGen[records[t][f].request]>>
    /\ d.stage # "answered"
    /\ d.future \notin inactive

\* Thread t waits on a running future of its own that, when it is a provider's
\* or an adapter's, has a dispatch on its way.
AwaitIsServed(t) ==
    \E f \in FutureIds :
        /\ t \in records[t][f].waiters
        /\ records[t][f].state = "running"
        /\ records[t][f].kind \in External => \E d \in dispatches : Serves(d, t, f)

\* A thread blocked on a provider or adapter call waits on a running future of
\* its own, and a dispatch with the current leases of that future and of its
\* request is still on its way: no wakeup is lost, whatever was cancelled,
\* dropped and reallocated before.
BlockedIsServed ==
    mode = "open" => \A t \in Threads : thread[t] = "blocked" => AwaitIsServed(t)

\* Every await is answered, those of Galfus functions included: what the
\* registry's cached results promise to later awaits of the same future.
EveryAwaitServed ==
    mode = "open" =>
        \A t \in Threads : thread[t] = "blocked" =>
            \E f \in FutureIds, d \in dispatches :
                t \in records[t][f].waiters /\ Serves(d, t, f)

\* A future id is in use exactly when one thread has a record for it.
FutureAccounts ==
    /\ \A f \in FutureIds : f \in activeFutures <=> \E t \in Threads : Present(records, t, f)
    /\ \A f \in FutureIds, t, u \in Threads :
          Present(records, t, f) /\ Present(records, u, f) => t = u
    /\ futuresUsed = Cardinality(activeFutures)

\* A request id is in use exactly when one running future holds it.
RequestAccounts ==
    /\ \A r \in RequestIds :
          r \in activeRequests <=>
              \E t \in Threads, f \in FutureIds : r \in request_id(records, t, f)
    /\ \A r \in RequestIds, t, u \in Threads, f, g \in FutureIds :
          r \in request_id(records, t, f) /\ r \in request_id(records, u, g) => t = u /\ f = g
    /\ requestsUsed = Cardinality(activeRequests)

\* While the execution is open, the id managers and the quotas count precisely
\* the futures with a record and the requests of running futures: nothing
\* leaks and nothing is released twice, in any order of completions, drops and
\* cancellations.
AccountsExact == mode = "open" => FutureAccounts /\ RequestAccounts

\* A host is told to cancel exactly the calls whose futures were dropped or
\* cancelled before they were answered, each under the lease it was dispatched
\* with (cancel_future_activation).  That includes a call which its worker makes
\* after the cancellation, having read the active flag before it
\* (ProviderDispatchTask::run), and excludes the later users of its ids.
CancelledCallsAreTold ==
    \A d \in dispatches :
        d.stage # "answered" => (d.request \in notified <=> d.future \in inactive)

\* A thread blocked on a provider or adapter call is eventually resumed, or
\* ended with its execution, if tasks run and hosts answer.
AwaitEnds ==
    \A t \in Threads, f \in FutureIds :
        (thread[t] = "blocked" /\ records[t][f].kind \in External /\ t \in records[t][f].waiters)
            ~> thread[t] # "blocked"

================================================================================
