------------------------------ MODULE NativeDriver ------------------------------
(***************************************************************************)
(* The native host's driver under the orchestrator's loop.  The owner      *)
(* thread polls: it drains the event bridge, handles the events in         *)
(* sequence, dispatches runnable threads to a pool of workers as far as    *)
(* the pool has capacity, and then sleeps until there is an event or no    *)
(* worker is active.  A worker takes a task, runs it (its last act is to   *)
(* submit one event), decrements active_workers and notifies the owner.    *)
(*                                                                         *)
(* A thread's task ends in a Yielded, Syscall or Exited event.  A syscall  *)
(* awaits a provider: its handler dispatches a provider task, whatever the *)
(* pool's capacity, and the provider answers from the worker or later from *)
(* a thread of its own (the native host runs its providers on tokio).      *)
(* Main-affinity tasks, failures and cancellations are left out.           *)
(*                                                                         *)
(* NativeEventBridge is the bounded channel through which workers and      *)
(* hosts hand events to the one thread that owns an execution.  submit     *)
(* numbers an event under the next_sequence and pending locks; drain       *)
(* empties the channel under the pending lock; wait_for_event_or sleeps on *)
(* the condvar of that lock, notify_waiters wakes it without taking it.    *)
(* Who holds the pending lock is only visible while the owner is between   *)
(* its test and its sleep; every other critical section is one step.       *)
(***************************************************************************)
EXTENDS Naturals, Sequences, FiniteSets, SequencesExt

CONSTANTS Events,           \* what the events say
          EventLimit,       \* limits().max_event_queue, at most the capacity
          Threads,          \* virtual threads of the program
          Pool,             \* max_workers operating-system threads
          MaxTurns,         \* bound: turns a thread takes before it exits
          SpawnMayFail      \* the operating system may refuse a worker

ASSUME DriverAssumption ==
    /\ EventLimit \in Nat
    /\ IsFiniteSet(Threads) /\ IsFiniteSet(Pool) /\ Pool # {}
    /\ MaxTurns \in Nat \ {0}
    /\ SpawnMayFail \in BOOLEAN
    /\ Events = [kind : {"yielded", "syscall", "exited", "completed"}, thread : Threads]

VARIABLES channel,              \* sent and not yet drained, with their numbers
          next_sequence,
          pending,              \* the count guarded by the lock
          notification_pending,
          owner                 \* the step of the owner's loop; "committed" holds the
                                \* pending lock: the wait condition was tested and the
                                \* condvar does not have the thread yet

bridgeVars == <<channel, next_sequence, pending, notification_pending>>

FIRST == 1

BridgeInit ==
    /\ channel = <<>>
    /\ next_sequence = FIRST
    /\ pending = 0
    /\ notification_pending = FALSE

Unlocked == owner # "committed"

\* A notification reaches only a thread that is already asleep.
Notify == owner' = IF owner = "asleep" THEN "wait" ELSE owner

-------------------------------------------------------------------------------

Accepts == Unlocked /\ pending < EventLimit

\* Mutant: the number is kept for the next event.
submit_SameSequence(e) ==
    /\ Accepts
    /\ channel' = Append(channel, [sequence |-> next_sequence, event |-> e])
    /\ pending' = pending + 1
    /\ UNCHANGED next_sequence
    /\ notification_pending' = TRUE
    /\ IF notification_pending THEN UNCHANGED owner ELSE Notify

submit(e) ==
    /\ Accepts
    /\ channel' = Append(channel, [sequence |-> next_sequence, event |-> e])
    /\ pending' = pending + 1
    /\ next_sequence' = next_sequence + 1
    /\ notification_pending' = TRUE
    /\ IF notification_pending THEN UNCHANGED owner ELSE Notify

\* QueueUnavailable: the event is dropped and its number is not used.
submit_refused ==
    /\ Unlocked
    /\ pending >= EventLimit
    /\ UNCHANGED <<bridgeVars, owner>>

Left == IF pending < Len(channel) THEN 0 ELSE pending - Len(channel)

\* Mutant: the flag that a waiter was notified outlives the notified events.
drain_KeepsFlag ==
    /\ channel' = <<>>
    /\ pending' = Left
    /\ UNCHANGED <<next_sequence, notification_pending>>

\* Everything that was sent is received: sends happen under the same lock.
drain ==
    /\ channel' = <<>>
    /\ pending' = Left
    /\ notification_pending' = (Left # 0)
    /\ UNCHANGED next_sequence

has_pending == pending # 0

notify_waiters ==
    /\ Notify
    /\ UNCHANGED bridgeVars

\* The owner's part of wait_for_event_or, for a stop condition: test under the
\* lock, then atomically release it and sleep.
wait_test(stop) ==
    /\ owner = "wait"
    /\ owner' = IF pending = 0 /\ ~stop THEN "committed" ELSE "drain"
    /\ UNCHANGED bridgeVars

wait_sleep ==
    /\ owner = "committed"
    /\ owner' = "asleep"
    /\ UNCHANGED bridgeVars

\* The standard library's condvar may wake without a notification.
wait_spurious ==
    /\ owner = "asleep"
    /\ owner' = "wait"
    /\ UNCHANGED bridgeVars

-------------------------------------------------------------------------------
(* The state of the driver and of the orchestrator's loop. *)

VARIABLES thread,               \* the registry's state of each thread
          turns,                \* turns a thread has ended without exiting
          runnable,             \* the kernel's runnable queue
          pending_events,       \* drained and not yet handled
          next_event_sequence,  \* the orchestrator's
          remaining,            \* dispatch_runnables's local
          worker_queue,
          worker,               \* what each worker is doing
          active_workers,
          hosted,               \* threads whose provider answers by itself
          lost                  \* threads whose event the bridge refused

loopVars == <<pending_events, next_event_sequence, remaining>>
threadVars == <<thread, runnable>>
poolVars == <<worker_queue, worker, active_workers>>
taskVars == <<turns, hosted, lost>>
driverVars == <<bridgeVars, owner, loopVars, threadVars, poolVars, taskVars>>

\* A worker is "absent" until it is spawned, "idle" in recv, "running" its
\* task, "done" when the task returned and active_workers still counts it,
\* "notifying" after the decrement.

\* The owner's step, the state of every thread and the runnable queue at first.
DriverStart(step, state, queue) ==
    /\ BridgeInit
    /\ owner = step
    /\ thread = [t \in Threads |-> state]
    /\ turns = [t \in Threads |-> 0]
    /\ runnable = queue
    /\ pending_events = {}
    /\ next_event_sequence = FIRST
    /\ remaining = 0
    /\ worker_queue = <<>>
    /\ worker = [w \in Pool |-> [state |-> "absent", task |-> {}]]
    /\ active_workers = 0
    /\ hosted = {} /\ lost = {}

DriverInit == DriverStart("drain", "runnable", SetToSeq(Threads))

-------------------------------------------------------------------------------
(* A task's run, on a worker or inline on the owner. *)

\* The event is submitted with let _ =: when the bridge refuses it, the
\* thread's state goes with it.
Deliver(e) ==
    \/ submit(e) /\ UNCHANGED lost
    \/ submit_refused /\ lost' = lost \cup {e.thread}

\* RuntimeTask::run: one quantum, one event.
RunThread(t) ==
    \/ /\ turns[t] < MaxTurns
       /\ \E kind \in {"yielded", "syscall"} : Deliver([kind |-> kind, thread |-> t])
       /\ turns' = [turns EXCEPT ![t] = @ + 1]
       /\ UNCHANGED hosted
    \/ /\ Deliver([kind |-> "exited", thread |-> t])
       /\ UNCHANGED <<turns, hosted>>

\* ProviderDispatchTask::run: the provider answers before it returns, or keeps
\* the injector and answers later.
RunProvider(t) ==
    \/ /\ Deliver([kind |-> "completed", thread |-> t])
       /\ UNCHANGED <<turns, hosted>>
    \/ /\ hosted' = hosted \cup {t}
       /\ UNCHANGED <<bridgeVars, owner, turns, lost>>

RunTask(task) == IF task.kind = "thread" THEN RunThread(task.thread) ELSE RunProvider(task.thread)

-------------------------------------------------------------------------------
(* Dispatch to the pool. *)

Unspawned == {w \in Pool : worker[w].state = "absent"}

\* ensure_worker_capacity: the workers that are spawned so that there are as
\* many as tasks, up to max_workers; fewer when the operating system refuses.
Spawns(required) ==
    LET wanted == Min({required, Cardinality(Pool)})
        present == Cardinality(Pool \ Unspawned)
        Count(new) == present + Cardinality(new)
    IN  IF present >= wanted THEN {{}}
        ELSE {new \in SUBSET Unspawned : Count(new) = wanted \/ (SpawnMayFail /\ Count(new) < wanted)}

dispatch(task) ==
    \E new \in Spawns(active_workers + 1) :
        /\ worker' = [w \in Pool |-> IF w \in new THEN [worker[w] EXCEPT !.state = "idle"]
                                                  ELSE worker[w]]
        /\ IF Unspawned # Pool \/ new # {}
           THEN /\ active_workers' = active_workers + 1
                /\ worker_queue' = Append(worker_queue, task)
                /\ UNCHANGED <<bridgeVars, owner, taskVars>>
           ELSE /\ RunTask(task)
                /\ UNCHANGED <<active_workers, worker_queue>>

\* Mutant: active workers are not counted.
available_task_capacity_All == Cardinality(Pool)

available_task_capacity ==
    IF active_workers > Cardinality(Pool) THEN 0 ELSE Cardinality(Pool) - active_workers

-------------------------------------------------------------------------------
(* The owner's loop: Execution::poll, which run_sync_to_completion repeats. *)

\* process_events, its first half: events below next_event_sequence are
\* skipped, the others wait for their turn.
Drain ==
    /\ owner = "drain"
    /\ drain
    /\ pending_events' = pending_events \cup
           {e \in ToSet(channel) : e.sequence >= next_event_sequence}
    /\ owner' = "process"
    /\ UNCHANGED <<next_event_sequence, remaining, threadVars, poolVars, taskVars>>

NextEvents == {e \in pending_events : e.sequence = next_event_sequence}

\* The thread is parked and queued.
Enqueue(t) ==
    /\ thread' = [thread EXCEPT ![t] = "runnable"]
    /\ runnable' = Append(runnable, t)

Handle_Yielded(t) ==
    /\ Enqueue(t)
    /\ UNCHANGED <<bridgeVars, owner, remaining, poolVars, taskVars>>

\* A provider call: the thread blocks, its dispatch goes to the driver.
Handle_Syscall(t) ==
    /\ thread' = [thread EXCEPT ![t] = "blocked"]
    /\ dispatch([kind |-> "provider", thread |-> t])
    /\ UNCHANGED <<runnable, remaining>>

Handle_Exited(t) ==
    /\ thread' = [thread EXCEPT ![t] = "exited"]
    /\ UNCHANGED <<runnable, bridgeVars, owner, remaining, poolVars, taskVars>>

\* The waiting thread is unblocked, which queues it, and dispatch_runnables
\* runs at once (resume_or_fail_front).
Handle_Completed(t) ==
    /\ Enqueue(t)
    /\ owner' = "resume"
    /\ remaining' = available_task_capacity
    /\ UNCHANGED <<bridgeVars, poolVars, taskVars>>

\* process_events, one turn of its second loop.
ProcessEvent ==
    /\ owner = "process"
    /\ \E e \in NextEvents :
        /\ pending_events' = pending_events \ {e}
        /\ next_event_sequence' = next_event_sequence + 1
        /\ \/ e.event.kind = "yielded" /\ Handle_Yielded(e.event.thread)
           \/ e.event.kind = "syscall" /\ Handle_Syscall(e.event.thread)
           \/ e.event.kind = "exited" /\ Handle_Exited(e.event.thread)
           \/ e.event.kind = "completed" /\ Handle_Completed(e.event.thread)

EventsProcessed ==
    /\ owner = "process"
    /\ NextEvents = {}
    /\ owner' = "dispatch"
    /\ remaining' = available_task_capacity
    /\ UNCHANGED <<bridgeVars, pending_events, next_event_sequence, threadVars, poolVars, taskVars>>

\* Mutant: the dispatched thread stays in the queue.
DispatchRunnable_Peeks ==
    /\ owner \in {"resume", "dispatch"}
    /\ remaining > 0 /\ runnable # <<>>
    /\ LET t == Head(runnable) IN
        /\ thread' = [thread EXCEPT ![t] = "running"]
        /\ dispatch([kind |-> "thread", thread |-> t])
    /\ UNCHANGED runnable
    /\ remaining' = remaining - 1
    /\ UNCHANGED <<pending_events, next_event_sequence>>

\* dispatch_runnables, one turn of its loop and its end; after the last one
\* step reports completion when no thread is active.
DispatchRunnable ==
    /\ owner \in {"resume", "dispatch"}
    /\ remaining > 0 /\ runnable # <<>>
    /\ LET t == Head(runnable) IN
        /\ thread' = [thread EXCEPT ![t] = "running"]
        /\ dispatch([kind |-> "thread", thread |-> t])
    /\ runnable' = Tail(runnable)
    /\ remaining' = remaining - 1
    /\ UNCHANGED <<pending_events, next_event_sequence>>

\* Mutant: blocked threads do not keep the execution open.
DispatchEnds_Blocked ==
    /\ owner \in {"resume", "dispatch"}
    /\ remaining = 0 \/ runnable = <<>>
    /\ owner' = IF owner = "resume" THEN "process"
                ELSE IF \A t \in Threads : thread[t] \in {"blocked", "exited"} THEN "closed"
                ELSE "step"
    /\ UNCHANGED <<bridgeVars, loopVars, threadVars, poolVars, taskVars>>

DispatchEnds ==
    /\ owner \in {"resume", "dispatch"}
    /\ remaining = 0 \/ runnable = <<>>
    /\ owner' = IF owner = "resume" THEN "process"
                ELSE IF \A t \in Threads : thread[t] = "exited" THEN "closed"
                ELSE "step"
    /\ UNCHANGED <<bridgeVars, loopVars, threadVars, poolVars, taskVars>>

\* NativeDriver::step, without a task on the main queue.  A Blocked result is
\* followed by another poll: has_pending_events is always true.
Step ==
    /\ owner = "step"
    /\ owner' = IF has_pending THEN "drain" ELSE "load"
    /\ UNCHANGED <<bridgeVars, loopVars, threadVars, poolVars, taskVars>>

LoadActive ==
    /\ owner = "load"
    /\ owner' = IF active_workers > 0 THEN "wait" ELSE "drain"
    /\ UNCHANGED <<bridgeVars, loopVars, threadVars, poolVars, taskVars>>

WaitTest ==
    /\ wait_test(active_workers = 0)
    /\ UNCHANGED <<loopVars, threadVars, poolVars, taskVars>>

WaitSleep ==
    /\ wait_sleep
    /\ UNCHANGED <<loopVars, threadVars, poolVars, taskVars>>

SpuriousWakeup ==
    /\ wait_spurious
    /\ UNCHANGED <<loopVars, threadVars, poolVars, taskVars>>

-------------------------------------------------------------------------------
(* Workers and hosts. *)

Recv(w) ==
    /\ worker[w].state = "idle"
    /\ worker_queue # <<>>
    /\ worker' = [worker EXCEPT ![w] = [state |-> "running", task |-> {Head(worker_queue)}]]
    /\ worker_queue' = Tail(worker_queue)
    /\ UNCHANGED <<bridgeVars, owner, loopVars, threadVars, active_workers, taskVars>>

Run(w) ==
    /\ worker[w].state = "running"
    /\ \E task \in worker[w].task : RunTask(task)
    /\ worker' = [worker EXCEPT ![w] = [state |-> "done", task |-> {}]]
    /\ UNCHANGED <<loopVars, threadVars, worker_queue, active_workers>>

Decrement(w) ==
    /\ worker[w].state = "done"
    /\ active_workers' = active_workers - 1
    /\ worker' = [worker EXCEPT ![w].state = "notifying"]
    /\ UNCHANGED <<bridgeVars, owner, loopVars, threadVars, worker_queue, taskVars>>

NotifyWaiters(w) ==
    /\ worker[w].state = "notifying"
    /\ notify_waiters
    /\ worker' = [worker EXCEPT ![w].state = "idle"]
    /\ UNCHANGED <<loopVars, threadVars, worker_queue, active_workers, taskVars>>

\* A provider that kept its injector completes the future from its own thread.
HostCompletes(t) ==
    /\ t \in hosted
    /\ Deliver([kind |-> "completed", thread |-> t])
    /\ hosted' = hosted \ {t}
    /\ UNCHANGED <<loopVars, threadVars, poolVars, turns>>

Closed ==
    /\ owner = "closed"
    /\ UNCHANGED driverVars

OwnerNext ==
    \/ Drain \/ ProcessEvent \/ EventsProcessed \/ DispatchRunnable \/ DispatchEnds
    \/ Step \/ LoadActive \/ WaitTest \/ WaitSleep

WorkerNext(w) == Recv(w) \/ Run(w) \/ Decrement(w) \/ NotifyWaiters(w)

DriverNext ==
    \/ OwnerNext
    \/ SpuriousWakeup
    \/ \E w \in Pool : WorkerNext(w)
    \/ \E t \in Threads : HostCompletes(t)
    \/ Closed

DriverSpec == DriverInit /\ [][DriverNext]_driverVars

\* The operating system runs the owner and every worker that is not waiting;
\* a provider that kept its injector uses it.  Nothing wakes a condvar but a
\* notification.
DriverFairness ==
    /\ WF_driverVars(OwnerNext)
    /\ \A w \in Pool : WF_driverVars(WorkerNext(w))
    /\ \A t \in Threads : WF_driverVars(HostCompletes(t))

-------------------------------------------------------------------------------
(* Properties. *)

\* The events that are drained or in the channel carry exactly the numbers from
\* next_event_sequence up to next_sequence, each once and in sending order: no
\* gap for process_events to stop at, no number twice (submit takes a number
\* only for an event the channel accepted).
DeliveredInOrder ==
    LET drained == {e.sequence : e \in pending_events}
    IN  /\ Cardinality(drained) = Cardinality(pending_events)
        /\ pending = Len(channel)
        /\ drained = next_event_sequence..(next_sequence - Len(channel) - 1)
        /\ \A i \in DOMAIN channel :
               channel[i].sequence = next_sequence - Len(channel) + i - 1

\* The owner never sleeps in wait_for_event_or while an event is in the channel:
\* the notification_pending flag, which suppresses repeated notifications, is
\* cleared by every drain before the next event arrives.
NoSleepOnEvents == owner = "asleep" => channel = <<>>

\* The places that can hold thread t's VM state or the answer it waits for.
Carriers(t) ==
    LET InQueue(task) == {<<"queue", i>> : i \in {i \in DOMAIN worker_queue : worker_queue[i] = task}}
        OnWorker(task) == {<<"worker", w>> : w \in {w \in Pool : task \in worker[w].task}}
        Tasks(kind) == InQueue([kind |-> kind, thread |-> t]) \cup OnWorker([kind |-> kind, thread |-> t])
        InBridge == {<<"channel", i>> : i \in {i \in DOMAIN channel : channel[i].event.thread = t}}
        Drained == {<<"drained", e>> : e \in {e \in pending_events : e.event.thread = t}}
        Runnable == {<<"runnable", i>> : i \in {i \in DOMAIN runnable : runnable[i] = t}}
        Host == IF t \in hosted THEN {<<"host", 1>>} ELSE {}
    IN  Tasks("thread") \cup Tasks("provider") \cup InBridge \cup Drained \cup Runnable \cup Host

\* A thread that has not exited is carried by exactly one of the queues, tasks,
\* events and providers, so that it is never run twice at once and never
\* forgotten; one whose event the bridge refused is carried by none.  And
\* active_workers, which available_task_capacity rests on, counts exactly the
\* tasks that wait for a worker and those a worker has not finished.
OneCarrier ==
    /\ \A t \in Threads :
          Cardinality(Carriers(t)) = IF thread[t] = "exited" \/ t \in lost THEN 0 ELSE 1
    /\ active_workers = Len(worker_queue)
                          + Cardinality({w \in Pool : worker[w].state \in {"running", "done"}})

\* A virtual thread that dispatch_runnables hands to the pool never queues
\* behind other tasks: there is a worker about to take it, or one that the
\* operating system has refused so far (driver.rs, the contract of
\* available_task_capacity).
NoQueueingBehindWorkers ==
    \A i \in DOMAIN worker_queue :
        worker_queue[i].kind = "thread" =>
            i <= Cardinality({w \in Pool : worker[w].state \in {"absent", "idle", "notifying"}})

\* Every event the bridge accepts is handled, whatever the owner was doing when
\* it arrived (process_events): as the threads take MaxTurns turns each, the
\* orchestrator catches up with the bridge again and again.
EventsHandled == []<>(next_event_sequence = next_sequence)

\* wait_for_event_or "blocks until an event is available or the caller's stop
\* condition becomes true": a sleeping owner does not stay asleep once no
\* worker is active (NativeDriver::step).
WaitEnds == (owner = "asleep" /\ active_workers = 0) ~> (owner # "asleep" \/ active_workers # 0)

===============================================================================
