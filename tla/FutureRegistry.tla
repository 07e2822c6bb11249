----------------------------- MODULE FutureRegistry -----------------------------
(***************************************************************************)
(* FutureRegistry (orchestrator/future_registry.rs): the table of futures, *)
(* keyed by owner thread and future id.  The operators are the registry's  *)
(* methods, as functions on the table; a key without a record maps to      *)
(* Absent.  A record's waiters are a set: they are resumed together and    *)
(* all belong to the owner, the only thread whose keys reach the record.   *)
(*                                                                         *)
(* `by` and `outcome` are the result of a resolved future: the lease that  *)
(* completed it and whether it was a value or an error.                    *)
(***************************************************************************)
EXTENDS Naturals

CONSTANTS Threads, FutureIds, RequestIds, Waiters

\* Ids are handed out from 1 upwards (LocalIdManager::new(1)).
ASSUME IdsAssumption == FutureIds \subseteq Nat \ {0} /\ RequestIds \subseteq Nat \ {0}

\* A future or request id with the generation of its allocation; generations
\* start at 1, so generation 0 names no allocation.
FutureLease == FutureIds \X Nat
RequestLease == RequestIds \X Nat

External == {"provider", "adapter"}     \* activations that dispatch a request
Kind == {"galfus", "internal"} \cup External

NoRequest == 0
NoLease == <<0, 0>>

FutureState == {"absent", "created", "running", "resolved"}
Outcome == {"none", "ok", "err"}

FutureRecord ==
    [state : FutureState, kind : Kind, request : RequestIds \cup {NoRequest},
     direct : BOOLEAN, waiters : SUBSET Waiters,
     by : FutureLease \cup {NoLease}, outcome : Outcome]

Absent ==
    [state |-> "absent", kind |-> "galfus", request |-> NoRequest, direct |-> FALSE,
     waiters |-> {}, by |-> NoLease, outcome |-> "none"]

Created(kind, direct) ==
    [state |-> "created", kind |-> kind, request |-> NoRequest, direct |-> direct,
     waiters |-> {}, by |-> NoLease, outcome |-> "none"]

Present(recs, t, f) == recs[t][f].state # "absent"

OwnedBy(recs, t) == {f \in FutureIds : Present(recs, t, f)}

insert_created(recs, t, f, kind) ==
    [recs EXCEPT ![t][f] = Created(kind, FALSE)]

take_activation_for_start(recs, t, f) ==
    [recs EXCEPT ![t][f].state = "running"]

assign_request_id(recs, t, f, r) ==
    [recs EXCEPT ![t][f].request = r]

\* The request a running future holds, as a set: empty when it holds none.
request_id(recs, t, f) ==
    IF recs[t][f].state = "running" THEN {recs[t][f].request} \ {NoRequest} ELSE {}

add_waiter(recs, t, f, w) ==
    [recs EXCEPT ![t][f].waiters = @ \cup {w}]

CanComplete(recs, t, f) == recs[t][f].state \in {"created", "running"}

Resolved(record, lease, outcome) ==
    [state |-> "resolved", kind |-> record.kind, request |-> NoRequest,
     direct |-> record.direct, waiters |-> {}, by |-> lease, outcome |-> outcome]

complete(recs, t, f, lease, outcome) ==
    [recs EXCEPT ![t][f] = Resolved(recs[t][f], lease, outcome)]

\* discard without force keeps a record that has waiters.
Retained(recs, t, f) == recs[t][f].waiters # {}

discard_inner(recs, t, f) ==
    [recs EXCEPT ![t][f] = Absent]

NoRecords == [f \in FutureIds |-> Absent]

discard_all_for_owner(recs, t) ==
    [recs EXCEPT ![t] = NoRecords]

discard_all == [t \in Threads |-> NoRecords]

================================================================================
