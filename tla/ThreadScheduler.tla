---------------------------- MODULE ThreadScheduler ----------------------------
(***************************************************************************)
(* The orchestrator's handling of the events of thread tasks, on top of    *)
(* VirtualKernel: dispatch, yield, await and resume, thread creation and   *)
(* start, messages, exit and cancellation.                                 *)
(*                                                                         *)
(* A task owns the VM state it runs.  Its next event is one of the actions *)
(* below, and the task is over when the orchestrator handles it.  Which    *)
(* future a thread awaits is left out: only the number of continuations    *)
(* registered for the thread is kept.                                      *)
(***************************************************************************)
EXTENDS VirtualKernel

CONSTANTS MaxTasks,   \* tasks in flight, the driver's workers
          MaxWaits,   \* bound: continuations registered for one thread
          MaxBorn     \* bound: registrations of one thread id

ASSUME SchedulerAssumption ==
    MaxTasks \in Nat /\ MaxWaits \in Nat /\ MaxBorn \in Nat

VARIABLES kernel,     \* VirtualKernel
          waits,      \* [ThreadIds -> number of registered continuations]
          tasks,      \* RuntimeTasks in flight: [id, vm]
          owed,       \* history: VM states that await and have not got a value
          fronted,    \* history: the last step put a thread at the front
          status      \* "open", "failed" or "panicked"

vars == <<kernel, waits, tasks, owed, fronted, status>>

Tasks == [id : ThreadIds, vm : 1..MaxBorn]

\* Runtime::start: the root thread is registered, marked running and queued.
Init ==
    /\ kernel = LET k == mark_running(spawn(NewKernel, NoKey), 1)
                IN  enqueue_runnable(take_thread(k, 1), 1, 1)
    /\ waits = [t \in ThreadIds |-> 0]
    /\ tasks = {} /\ owed = {} /\ fronted = FALSE
    /\ status = "open"

-------------------------------------------------------------------------------
(* Steps that several handlers share. *)

\* The orchestrator is open and handles the next event of task e.
Event(e) ==
    /\ status = "open"
    /\ e \in tasks
    /\ tasks' = tasks \ {e}

\* The kernel becomes k, or the execution fails; what is left of it then is torn
\* down and not followed further.
Settle(k, refused) ==
    IF refused THEN status' = "failed" /\ UNCHANGED kernel
    ELSE kernel' = k /\ UNCHANGED status

\* resume_or_fail_front.
ResumeFront(k, t, vm) == Settle(enqueue_runnable_front(k, t, vm), RunnableRefused(k, t))

\* resume_pending: the thread is unblocked, taken, given its value and queued.
resume_pending(k, t) ==
    LET woken == unblock(k, t)
        vm    == woken.tcbs[t].vm
    IN  IF vm = Gone THEN woken ELSE enqueue_runnable_front(take_thread(woken, t), t, vm)

ResumeRefused(k, t) ==
    LET woken == unblock(k, t)
        vm    == woken.tcbs[t].vm
    IN  \/ WasBlocked(k, t) /\ ~IsQueued(woken, t)
        \/ vm # Gone /\ RunnableRefused(take_thread(woken, t), t)

\* An internal operation that completes at once blocks its thread and resumes it.
CompleteAtOnce(k, t, vm) ==
    LET parked == block(k, t, vm)
    IN  IF BlockRefused(k) THEN Settle(restore_vm_state(k, t, vm), TRUE)
        ELSE Settle(resume_pending(parked, t), ResumeRefused(parked, t))

\* The value goes to the VM state that is parked for the thread.
Delivered(k, t) == owed \ {[id |-> t, vm |-> unblock(k, t).tcbs[t].vm]}

-------------------------------------------------------------------------------
(* dispatch_runnables, at the end of every step and of every resume: it      *)
(* takes threads off the queue until the driver has no capacity left, which  *)
(* may be at once.                                                           *)

DispatchNext ==
    /\ status = "open" /\ Cardinality(tasks) < MaxTasks
    /\ kernel.queue # <<>>
    /\ LET t == Head(kernel.queue)
           k == Unqueue(kernel, t)
           vm == k.tcbs[t].vm
       IN  IF vm = Gone
           THEN kernel' = k /\ UNCHANGED tasks
           ELSE /\ kernel' = mark_running(take_thread(k, t), t)
                /\ tasks' = tasks \cup {[id |-> t, vm |-> vm]}
    /\ fronted' = FALSE
    /\ UNCHANGED <<waits, owed, status>>

-------------------------------------------------------------------------------
(* Events of a task. *)

Yielded(e) ==
    /\ Event(e)
    /\ Settle(enqueue_runnable(kernel, e.id, e.vm), RunnableRefused(kernel, e.id))
    /\ fronted' = FALSE
    /\ UNCHANGED <<waits, owed>>

\* A synchronous internal call, or an await whose result is already there.
Call(e) ==
    /\ Event(e)
    /\ ResumeFront(kernel, e.id, e.vm)
    /\ fronted' = TRUE
    /\ UNCHANGED <<waits, owed>>

\* Mutant: the continuation is not registered.
Await_KeepsOldWait(e) ==
    /\ Event(e)
    /\ waits[e.id] < MaxWaits
    /\ Settle(block(kernel, e.id, e.vm), BlockRefused(kernel))
    /\ owed' = owed \cup {e}
    /\ fronted' = FALSE
    /\ UNCHANGED waits

\* An await of something that is not there yet.
Await(e) ==
    /\ Event(e)
    /\ waits[e.id] < MaxWaits
    /\ IF BlockRefused(kernel)
       THEN /\ Settle(restore_vm_state(kernel, e.id, e.vm), TRUE)
            /\ UNCHANGED <<waits, owed>>
       ELSE /\ Settle(block(kernel, e.id, e.vm), FALSE)
            /\ waits' = [waits EXCEPT ![e.id] = @ + 1]
            /\ owed' = owed \cup {e}
    /\ fronted' = FALSE

\* The future that a continuation waits for completes: a result of a provider,
\* an expired timer, the exit of another thread.
Complete(t) ==
    /\ status = "open"
    /\ waits[t] > 0
    /\ waits' = [waits EXCEPT ![t] = @ - 1]
    /\ Settle(resume_pending(kernel, t), ResumeRefused(kernel, t))
    /\ owed' = Delivered(kernel, t)
    /\ fronted' = FALSE
    /\ UNCHANGED tasks

Create(e, key) ==
    /\ Event(e)
    /\ NextId(kernel) \in ThreadIds /\ kernel.born[NextId(kernel)] < MaxBorn
    /\ IF CanSpawn(kernel, key)
       THEN CompleteAtOnce(spawn(kernel, key), e.id, e.vm)
       ELSE Settle(cancel(kernel, e.id), TRUE)
    /\ fronted' = FALSE
    /\ UNCHANGED <<waits, owed>>

\* __internal_thread_spawn of a created thread; of any other it is a call that
\* returns false.
Startable(t) == kernel.tcbs[t].state = "created" /\ kernel.tcbs[t].vm # Gone

Start(e, t) ==
    /\ Event(e)
    /\ Startable(t)
    /\ LET taken == [kernel EXCEPT !.tcbs[t].vm = Gone]
           queued == enqueue_runnable(taken, t, kernel.tcbs[t].vm)
       IN  IF RunnableRefused(taken, t)
           THEN Settle(queued, TRUE)
           ELSE CompleteAtOnce(mark_running(queued, t), e.id, e.vm)
    /\ fronted' = FALSE
    /\ UNCHANGED <<waits, owed>>

\* Arguments are copied before the new thread has its entry frame, and the copy
\* expects the frame.
StartWithArguments(e, t) ==
    /\ Event(e)
    /\ Startable(t)
    /\ status' = "panicked"
    /\ kernel' = [kernel EXCEPT !.tcbs[t].vm = Gone]
    /\ fronted' = FALSE
    /\ UNCHANGED <<waits, owed>>

\* A message is put in the mailbox of t and t is unblocked, whatever it waits
\* for; then it is given to a receive of t that waits for it, if there is one.
Send(e, t) ==
    /\ Event(e)
    /\ Registered(kernel, t) /\ ~IsExited(kernel, t)
    /\ fronted' = TRUE
    /\ LET woken   == unblock(kernel, t)
           refused == WasBlocked(kernel, t) /\ ~IsQueued(woken, t)
       IN  \/ /\ refused
              /\ Settle(cancel(woken, t), TRUE)
              /\ UNCHANGED <<waits, owed>>
           \/ /\ ~refused
              /\ ResumeFront(woken, e.id, e.vm)
              /\ UNCHANGED <<waits, owed>>
           \/ /\ ~refused /\ waits[t] > 0
              /\ waits' = [waits EXCEPT ![t] = @ - 1]
              /\ owed' = Delivered(woken, t)
              /\ IF ResumeRefused(woken, t)
                 THEN Settle(woken, TRUE)
                 ELSE ResumeFront(resume_pending(woken, t), e.id, e.vm)

Exited(e) ==
    /\ Event(e)
    /\ kernel' = mark_exited(kernel, e.id, e.vm)
    /\ waits' = [waits EXCEPT ![e.id] = 0]
    /\ owed' = owed \ {e}
    /\ fronted' = FALSE
    /\ UNCHANGED status

\* CancelThread: cancel_and_teardown_thread takes the VM state first, so that
\* kernel.cancel finds none.
CancelThread(t) ==
    /\ status = "open"
    /\ Registered(kernel, t)
    /\ LET taken == take_thread(kernel, t)
           dropped == IF kernel.tcbs[t].vm = Gone THEN taken ELSE DropVm(taken)
       IN  kernel' = cancel(dropped, t)
    /\ waits' = [waits EXCEPT ![t] = 0]
    /\ owed' = {o \in owed : o.id # t}
    /\ fronted' = FALSE
    /\ UNCHANGED <<tasks, status>>

\* Nothing is left to do: the execution is over, or waits for the host.
Over ==
    /\ status # "open" \/ (tasks = {} /\ kernel.queue = <<>>)
    /\ UNCHANGED vars

TaskEvent(e) ==
    \/ Yielded(e) \/ Call(e) \/ Await(e) \/ Exited(e)
    \/ \E key \in Keys \cup {NoKey} : Create(e, key)
    \/ \E t \in ThreadIds : Start(e, t) \/ StartWithArguments(e, t) \/ Send(e, t)

Next ==
    \/ DispatchNext
    \/ \E e \in tasks : TaskEvent(e)
    \/ \E t \in ThreadIds : Complete(t) \/ CancelThread(t)
    \/ Over

Spec == Init /\ [][Next]_vars

\* Every step of the orchestrator ends in dispatch_runnables, and a worker runs
\* a task to its next event within the instruction budget.
Fairness ==
    /\ WF_vars(DispatchNext)
    /\ \A e \in Tasks : WF_vars(TaskEvent(e))

-------------------------------------------------------------------------------

Parked == {t \in ThreadIds : kernel.tcbs[t].vm # Gone}

\* The kernel's accounts: the thread quota counts the VM states that exist,
\* parked or in a task (mark_spawned and Drop of VmThreadState); active_count,
\* which ends the execution when it is 0, counts the registered threads that
\* have not exited (register, mark_exited, cancel); a key finds one thread and a
\* free id is the id of no thread; a pending state is never given back twice, so
\* that their limit covers every blocked thread (block, unblock, cancel).
AccountingExact ==
    /\ status = "open" => kernel.threads = Cardinality(Parked) + Cardinality(tasks)
    /\ kernel.active =
          Cardinality({t \in ThreadIds : Registered(kernel, t) /\ ~IsExited(kernel, t)})
    /\ \A t, u \in ThreadIds :
          kernel.tcbs[t].key # NoKey /\ kernel.tcbs[t].key = kernel.tcbs[u].key => t = u
    /\ \A t \in Range(kernel.freed) : ~Registered(kernel, t) /\ t < kernel.fresh
    /\ IsInjective(kernel.queue)
    /\ kernel.pending >= Cardinality(kernel.blocked)

\* A thread that runs is never forgotten: it is in the queue with its VM state,
\* in a task, or blocked with a continuation that can resume it (park, block,
\* unblock, resume_pending).
NobodyForgotten ==
    status = "open" =>
        \A t \in ThreadIds : kernel.tcbs[t].state = "running" =>
            \/ IsQueued(kernel, t) /\ t \in Parked
            \/ \E e \in tasks : e.id = t
            \/ t \in kernel.blocked /\ t \in Parked /\ waits[t] > 0

\* A queued thread is dispatched, or leaves the queue by being cancelled, unless
\* synchronous calls go on for ever putting their threads in front of it
\* (enqueue_runnable, unblock, dispatch_runnables; resume_or_fail_front).
QueuedRuns ==
    <>[]~fronted =>
        \A t \in ThreadIds :
            IsQueued(kernel, t) ~> (~IsQueued(kernel, t) \/ status # "open")

\* "await expressions suspend execution until an asynchronous operation or
\* Future<T> resolves": a VM state that awaits is in no task.  A message breaks
\* it (send_internal_thread_message).
AwaitSuspends == tasks \cap owed = {}

===============================================================================
