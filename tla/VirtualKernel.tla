----------------------------- MODULE VirtualKernel -----------------------------
(***************************************************************************)
(* VirtualKernel with its thread registry, runnable queue and blocked set: *)
(* the state is a record, a method is an operator from the state to the    *)
(* next one.  The VM state of a thread is moved out of the registry when   *)
(* the thread is taken and moved back when it is parked; it is named by    *)
(* the registration it was made for.                                       *)
(*                                                                         *)
(* The orchestrator blocks threads without a timeout only, so the timers   *)
(* of BlockedQueue are not part of the state.                              *)
(***************************************************************************)
EXTENDS Naturals, Sequences, FiniteSets, FiniteSetsExt, SequencesExt

CONSTANTS ThreadIds,        \* thread ids, numbers from 1
          Keys,             \* thread keys; NoKey is not one of them
          NoKey,
          MaxThreads, MaxRunnable, MaxPending,  \* quotas; start expects a first thread
          Tombstones        \* MAX_EXITED_TOMBSTONES

ASSUME KernelAssumption ==
    /\ IsFiniteSet(ThreadIds) /\ ThreadIds = 1..Cardinality(ThreadIds) /\ 1 \in ThreadIds
    /\ NoKey \notin Keys
    /\ MaxThreads \in Nat \ {0} /\ MaxRunnable \in Nat \ {0} /\ MaxPending \in Nat
    /\ Tombstones \in Nat

\* No VM state is parked.
Gone == 0

Absent == [state |-> "absent", vm |-> Gone, key |-> NoKey]

NewKernel ==
    [tcbs    |-> [t \in ThreadIds |-> Absent],
     born    |-> [t \in ThreadIds |-> 0],   \* registrations of each id so far
     freed   |-> <<>>,                      \* thread_id_manager's free_list
     fresh   |-> 1,                         \* and its next id
     exited  |-> <<>>,                      \* exited_order
     active  |-> 0,                         \* active_count
     queue   |-> <<>>,                      \* RunnableQueue
     blocked |-> {},
     threads |-> 0, runnable |-> 0, pending |-> 0]  \* GlobalQuota

Minus(n, m) == IF m > n THEN 0 ELSE n - m

-------------------------------------------------------------------------------
(* ThreadRegistry. *)

Registered(k, t) == k.tcbs[t].state # "absent"

IsExited(k, t) == k.tcbs[t].state = "exited"

\* A VM state that nothing holds any more gives its place in the quota back.
DropVm(k) == [k EXCEPT !.threads = Minus(@, 1)]

restore_vm_state(k, t, vm) ==
    IF ~Registered(k, t) THEN DropVm(k)
    ELSE LET parked == [k EXCEPT !.tcbs[t].vm = vm]
         IN  IF k.tcbs[t].vm = Gone THEN parked ELSE DropVm(parked)

mark_running(k, t) ==
    IF Registered(k, t) /\ ~IsExited(k, t) THEN [k EXCEPT !.tcbs[t].state = "running"] ELSE k

\* Exited threads stay as tombstones; the oldest goes when there are too many,
\* its id is not freed.
ExpireTombstone(k) ==
    IF Len(k.exited) <= Tombstones THEN k
    ELSE LET oldest == Head(k.exited)
         IN  [IF k.tcbs[oldest].vm = Gone THEN k ELSE DropVm(k) EXCEPT
                !.tcbs[oldest] = Absent, !.exited = Tail(@)]

\* Mutant: the VM state of an exited thread stays parked.
mark_exited_KeepsVm(k, t, vm) ==
    LET parked == restore_vm_state(k, t, vm) IN
    IF ~Registered(k, t) \/ IsExited(k, t) THEN parked
    ELSE ExpireTombstone([DropVm(parked) EXCEPT !.tcbs[t].state = "exited",
                                                !.active = @ - 1, !.exited = Append(@, t)])

mark_exited(k, t, vm) ==
    LET parked == restore_vm_state(k, t, vm) IN
    IF ~Registered(k, t) \/ IsExited(k, t) THEN parked
    ELSE ExpireTombstone(
             [DropVm(parked) EXCEPT !.tcbs[t].vm = Gone, !.tcbs[t].state = "exited",
                                    !.active = @ - 1, !.exited = Append(@, t)])

-------------------------------------------------------------------------------
(* RunnableQueue, as the line of distinct threads it implements (module     *)
(* RunnableQueue).                                                          *)

IsQueued(k, t) == t \in Range(k.queue)

\* Mutant: a thread is queued at the front.
enqueue_AtFront(k, t) == [k EXCEPT !.queue = <<t>> \o @]

enqueue(k, t) == [k EXCEPT !.queue = Append(@, t)]

enqueue_front(k, t) == [k EXCEPT !.queue = <<t>> \o @]

Unqueue(k, t) == [k EXCEPT !.queue = RemoveFirst(@, t)]

-------------------------------------------------------------------------------
(* VirtualKernel. *)

\* thread_id_manager hands out the id freed last first.
NextId(k) == IF k.freed # <<>> THEN Last(k.freed) ELSE k.fresh

CanSpawn(k, key) ==
    /\ k.threads < MaxThreads
    /\ key # NoKey => \A t \in ThreadIds : k.tcbs[t].key # key

spawn(k, key) ==
    LET t == NextId(k) IN
    [k EXCEPT !.threads = @ + 1, !.active = @ + 1,
              !.freed = IF @ # <<>> THEN Front(@) ELSE @,
              !.fresh = IF k.freed # <<>> THEN @ ELSE @ + 1,
              !.born[t] = @ + 1,
              !.tcbs[t] = [state |-> "created", vm |-> k.born[t] + 1, key |-> key]]

\* Taking a parked VM state gives a place among the runnable ones back,
\* wherever it was parked.
take_thread(k, t) ==
    IF k.tcbs[t].vm = Gone THEN k
    ELSE [k EXCEPT !.tcbs[t].vm = Gone, !.runnable = Minus(@, 1)]

RunnableRefused(k, t) == ~IsQueued(k, t) /\ k.runnable >= MaxRunnable

\* enqueue_runnable and enqueue_runnable_front: a thread that is queued keeps
\* its place, one that the quota refuses is parked without being queued.
Enqueued(k, t, vm, front) ==
    LET parked == restore_vm_state(k, t, vm)
        placed == [parked EXCEPT !.runnable = @ + 1]
    IN  IF IsQueued(k, t) \/ RunnableRefused(k, t) THEN parked
        ELSE IF front THEN enqueue_front(placed, t) ELSE enqueue(placed, t)

enqueue_runnable(k, t, vm) == Enqueued(k, t, vm, FALSE)

enqueue_runnable_front(k, t, vm) == Enqueued(k, t, vm, TRUE)

BlockRefused(k) == k.pending >= MaxPending

block(k, t, vm) ==
    restore_vm_state([k EXCEPT !.pending = @ + 1, !.blocked = @ \cup {t}], t, vm)

WasBlocked(k, t) == t \in k.blocked /\ k.tcbs[t].vm # Gone

\* The thread is parked again as runnable, at the back of the queue.
unblock(k, t) ==
    IF ~WasBlocked(k, t) THEN [k EXCEPT !.blocked = @ \ {t}]
    ELSE LET taken == [k EXCEPT !.blocked = @ \ {t}, !.tcbs[t].vm = Gone,
                                !.pending = Minus(@, 1)]
         IN  enqueue_runnable(taken, t, k.tcbs[t].vm)

\* The parts of the quota that go with the VM state are given back only when
\* it is still parked.
cancel(k, t) ==
    LET parked == k.tcbs[t].vm # Gone
        released == IF parked
                    THEN [DropVm(k) EXCEPT
                            !.runnable = IF IsQueued(k, t) THEN Minus(@, 1) ELSE @,
                            !.pending = IF t \in k.blocked THEN Minus(@, 1) ELSE @]
                    ELSE k
        unqueued == [Unqueue(released, t) EXCEPT
                       !.blocked = @ \ {t}, !.exited = RemoveFirst(@, t)]
    IN  IF ~Registered(k, t) THEN unqueued
        ELSE [unqueued EXCEPT !.tcbs[t] = Absent, !.freed = Append(@, t),
                              !.active = IF IsExited(k, t) THEN @ ELSE @ - 1]

===============================================================================
