---------------------------- MODULE SchedulerProofs ----------------------------
(***************************************************************************)
(* Every step of the scheduler keeps SchedulerInv, for every number of     *)
(* threads, tasks and continuations and every quota.                       *)
(***************************************************************************)
EXTENDS RegistryProofs

\* A step that registers and resumes no continuation.
LEMMA SameWaits == \A W, t : OnlyWaits(W, W, t)
BY DEF OnlyWaits

\* An event that queues its thread again.
LEMMA EnqueueTask ==
    ASSUME NEW k, NEW W, NEW T \in SUBSET TaskOf, IsFiniteSet(T), NEW e \in T,
           AllInHand(k, W, T), NEW front \in BOOLEAN, ~RunnableRefused(k, e.id)
    PROVE  AllInHand(Enqueued(k, e.id, e.vm, front), W, T \ {e})
<1>1. KernelInv(k) /\ Held(k, T) /\ Covers(k, Cardinality(T))
    BY DEF AllInHand
<1>2. /\ e.id \in ThreadIds /\ e.vm \in Nat \ {0} /\ e.vm <= k.born[e.id]
      /\ Cardinality(T \ {e}) \in Nat
      /\ Cardinality(T) = Cardinality(T \ {e}) + 1
    BY Zenon, <1>1, TaskTypes
<1>3. Covers(k, Cardinality(T \ {e}) + 1)
    BY <1>1, <1>2
<1>4. PICK r : r = Enqueued(k, e.id, e.vm, front)
    OBVIOUS
<1>5. Parks(k, r, e.id, e.vm) /\ Covers(r, Cardinality(T \ {e})) /\ IsQueued(r, e.id)
    BY <1>1, <1>2, <1>3, <1>4, EnqueueParks
<1>6. OnlyWaits(W, W, e.id)
    BY SameWaits
<1> QED
    BY Zenon, <1>4, <1>5, <1>6, ParkTask

\* A thread that yields is queued again (ThreadTaskEvent::Yielded).
LEMMA YieldedStep == ASSUME SchedulerInv, NEW e, Yielded(e) PROVE SchedulerInv'
<1>1. Event(e) /\ waits' = waits
    BY DEF Yielded
<1>2. /\ e \in tasks /\ tasks' = tasks \ {e} /\ AllInHand(kernel, waits, tasks) /\ KernelInv(kernel)
      /\ tasks \in SUBSET TaskOf /\ IsFiniteSet(tasks) /\ waits' \in [ThreadIds -> Nat]
    BY Zenon, <1>1, EventFacts
<1>3. CASE RunnableRefused(kernel, e.id)
    <2>1. status' = "failed" /\ kernel' = kernel
        BY <1>3 DEF Yielded, Settle
    <2> QED
        BY <1>2, <2>1, Ends
<1>4. CASE ~RunnableRefused(kernel, e.id)
    <2>1. kernel' = Enqueued(kernel, e.id, e.vm, FALSE)
        BY <1>4 DEF Yielded, Settle, enqueue_runnable
    <2>2. AllInHand(kernel', waits', tasks')
        BY Zenon, <1>1, <1>2, <1>4, <2>1, EnqueueTask
    <2> QED
        BY <1>2, <2>2, GoesOn
<1> QED
    BY <1>3, <1>4

\* A thread whose call has a result is queued at the front.
LEMMA CallStep == ASSUME SchedulerInv, NEW e, Call(e) PROVE SchedulerInv'
<1>1. Event(e) /\ waits' = waits
    BY DEF Call
<1>2. /\ e \in tasks /\ tasks' = tasks \ {e} /\ AllInHand(kernel, waits, tasks) /\ KernelInv(kernel)
      /\ tasks \in SUBSET TaskOf /\ IsFiniteSet(tasks) /\ waits' \in [ThreadIds -> Nat]
    BY Zenon, <1>1, EventFacts
<1>3. CASE RunnableRefused(kernel, e.id)
    <2>1. status' = "failed" /\ kernel' = kernel
        BY <1>3 DEF Call, ResumeFront, Settle
    <2> QED
        BY <1>2, <2>1, Ends
<1>4. CASE ~RunnableRefused(kernel, e.id)
    <2>1. kernel' = Enqueued(kernel, e.id, e.vm, TRUE)
        BY <1>4 DEF Call, ResumeFront, Settle, enqueue_runnable_front
    <2>2. AllInHand(kernel', waits', tasks')
        BY Zenon, <1>1, <1>2, <1>4, <2>1, EnqueueTask
    <2> QED
        BY <1>2, <2>2, GoesOn
<1> QED
    BY <1>3, <1>4

\* A thread that awaits is blocked with a continuation.
LEMMA AwaitStep == ASSUME SchedulerInv, NEW e, Await(e) PROVE SchedulerInv'
<1>1. Event(e)
    BY DEF Await
<1>2. /\ e \in tasks /\ tasks' = tasks \ {e} /\ AllInHand(kernel, waits, tasks) /\ KernelInv(kernel)
      /\ tasks \in SUBSET TaskOf /\ IsFiniteSet(tasks) /\ waits \in [ThreadIds -> Nat]
      /\ e.id \in ThreadIds /\ e.vm \in Nat \ {0} /\ e.vm <= kernel.born[e.id]
      /\ Cardinality(tasks \ {e}) \in Nat
      /\ Covers(kernel, Cardinality(tasks \ {e}) + 1)
    BY Zenon, <1>1, EventFacts
<1>3. CASE BlockRefused(kernel)
    <2>1. status' = "failed" /\ kernel' = kernel /\ waits' = waits
        BY <1>3 DEF Await, Settle
    <2> QED
        BY <1>2, <2>1, Ends
<1>4. CASE ~BlockRefused(kernel)
    <2>1. kernel' = block(kernel, e.id, e.vm) /\ waits' = [waits EXCEPT ![e.id] = @ + 1]
        BY <1>4 DEF Await, Settle
    <2>2. /\ waits' \in [ThreadIds -> Nat] /\ waits'[e.id] > 0
          /\ \A u \in ThreadIds \ {e.id} : waits'[u] = waits[u]
        <3>1. waits[e.id] + 1 \in Nat /\ waits[e.id] + 1 > 0
            BY <1>2
        <3> QED
            BY <1>2, <2>1, <3>1
    <2>3. OnlyWaits(waits, waits', e.id)
        BY <2>2 DEF OnlyWaits
    <2>4. /\ Parks(kernel, kernel', e.id, e.vm) /\ Covers(kernel', Cardinality(tasks \ {e}))
          /\ e.id \in kernel'.blocked
        BY <1>2, <2>1, BlockParks
    <2>5. AllInHand(kernel', waits', tasks \ {e})
        BY <1>2, <2>2, <2>3, <2>4, ParkTask
    <2> QED
        BY <1>2, <2>2, <2>5, GoesOn
<1> QED
    BY <1>3, <1>4

\* A continuation resumes its thread.
LEMMA CompleteStep == ASSUME SchedulerInv, NEW t \in ThreadIds, Complete(t) PROVE SchedulerInv'
<1>1. /\ status = "open" /\ AllInHand(kernel, waits, tasks) /\ tasks' = tasks
      /\ tasks \in SUBSET TaskOf /\ IsFiniteSet(tasks) /\ waits \in [ThreadIds -> Nat]
      /\ waits[t] > 0 /\ waits' = [waits EXCEPT ![t] = @ - 1]
    BY DEF Complete, SchedulerInv
<1>2. waits' \in [ThreadIds -> Nat] /\ OnlyWaits(waits, waits', t)
    <2>1. waits[t] - 1 \in Nat
        BY <1>1
    <2> QED
        BY <1>1, <2>1 DEF OnlyWaits
<1>3. KernelInv(kernel) /\ Covers(kernel, Cardinality(tasks))
    BY <1>1 DEF AllInHand
<1>4. CASE ResumeRefused(kernel, t)
    <2>1. status' = "failed" /\ kernel' = kernel
        BY <1>4 DEF Complete, Settle
    <2> QED
        BY <1>1, <1>2, <1>3, <2>1 DEF SchedulerInv
<1>5. CASE ~ResumeRefused(kernel, t)
    <2>1. kernel' = resume_pending(kernel, t)
        BY <1>5 DEF Complete, Settle
    <2>2. /\ Wakes(kernel, kernel', t) /\ Covers(kernel', Cardinality(tasks))
          /\ kernel.tcbs[t].vm # Gone => IsQueued(kernel', t)
        BY <1>3, <1>5, <2>1, ResumeWakes
    <2>3. WasBlocked(kernel, t) => IsQueued(kernel', t)
        BY <2>2 DEF WasBlocked
    <2>4. AllInHand(kernel', waits', tasks)
        BY <1>1, <1>2, <2>2, <2>3, WakeThread
    <2> QED
        BY Zenon, <1>1, <1>2, <2>4 DEF SchedulerInv, AllInHand
<1> QED
    BY <1>4, <1>5

\* An operation of a task that completes at once.
LEMMA CompleteAtOnceStep ==
    ASSUME SchedulerInv, NEW e, Event(e), waits' = waits, NEW k, AllInHand(k, waits, tasks),
           CompleteAtOnce(k, e.id, e.vm)
    PROVE  SchedulerInv'
<1>1. /\ e \in tasks /\ tasks' = tasks \ {e} /\ KernelInv(kernel)
      /\ tasks \in SUBSET TaskOf /\ IsFiniteSet(tasks) /\ waits' \in [ThreadIds -> Nat]
    BY Zenon, EventFacts
<1>2. KernelInv(k) /\ Held(k, tasks) /\ Covers(k, Cardinality(tasks))
    BY DEF AllInHand
<1>3. /\ e.id \in ThreadIds /\ e.vm \in Nat \ {0} /\ e.vm <= k.born[e.id]
      /\ Cardinality(tasks \ {e}) \in Nat
      /\ Cardinality(tasks) = Cardinality(tasks \ {e}) + 1
    BY Zenon, <1>1, <1>2, TaskTypes
<1>4. Covers(k, Cardinality(tasks \ {e}) + 1)
    BY <1>2, <1>3
<1>5. CASE BlockRefused(k) \/ ResumeRefused(block(k, e.id, e.vm), e.id)
    <2>1. status' = "failed" /\ kernel' = kernel
        BY <1>5 DEF CompleteAtOnce, Settle
    <2> QED
        BY <1>1, <2>1, Ends
<1>6. CASE ~BlockRefused(k) /\ ~ResumeRefused(block(k, e.id, e.vm), e.id)
    <2>1. kernel' = resume_pending(block(k, e.id, e.vm), e.id)
        BY <1>6 DEF CompleteAtOnce, Settle
    <2>2. /\ Parks(k, kernel', e.id, e.vm) /\ Covers(kernel', Cardinality(tasks \ {e}))
          /\ Registered(k, e.id) => IsQueued(kernel', e.id)
        BY <1>2, <1>3, <1>4, <1>6, <2>1, BlockAndResume
    <2>3. OnlyWaits(waits, waits, e.id)
        BY SameWaits
    <2>4. AllInHand(kernel', waits, tasks \ {e})
        BY <1>1, <2>2, <2>3, ParkTask
    <2>5. AllInHand(kernel', waits', tasks')
        BY <1>1, <2>4
    <2> QED
        BY <1>1, <2>5, GoesOn
<1> QED
    BY <1>5, <1>6

\* A new thread is registered, and its creator goes on.
LEMMA CreateStep ==
    ASSUME SchedulerInv, NEW e, NEW key \in Keys \cup {NoKey}, Create(e, key)
    PROVE  SchedulerInv'
<1>1. Event(e) /\ waits' = waits
    BY DEF Create
<1>2. /\ e \in tasks /\ tasks' = tasks \ {e} /\ AllInHand(kernel, waits, tasks) /\ KernelInv(kernel)
      /\ tasks \in SUBSET TaskOf /\ IsFiniteSet(tasks) /\ waits' \in [ThreadIds -> Nat]
    BY Zenon, <1>1, EventFacts
<1>3. CASE ~CanSpawn(kernel, key)
    <2>1. status' = "failed" /\ kernel' = kernel
        BY <1>3 DEF Create, Settle
    <2> QED
        BY <1>2, <2>1, Ends
<1>4. CASE CanSpawn(kernel, key)
    <2>1. PICK t \in ThreadIds : t = NextId(kernel)
        BY DEF Create
    <2>2. PICK k : k = spawn(kernel, key)
        OBVIOUS
    <2>3. CompleteAtOnce(k, e.id, e.vm)
        BY <1>4, <2>2 DEF Create
    <2>4. /\ Covers(kernel, Cardinality(tasks)) /\ Held(kernel, tasks)
          /\ \A u \in ThreadIds : Minded(kernel, waits, tasks, u)
        BY <1>2 DEF AllInHand
    <2>5. /\ KernelInv(k) /\ Covers(k, Cardinality(tasks)) /\ ~Registered(kernel, t)
          /\ k.queue = kernel.queue /\ k.blocked = kernel.blocked
          /\ k.born = [kernel.born EXCEPT ![t] = @ + 1]
          /\ k.tcbs = [kernel.tcbs EXCEPT ![t] = [state |-> "created", vm |-> kernel.born[t] + 1, key |-> key]]
        BY <1>2, <1>4, <2>1, <2>2, <2>4, SpawnKeeps
    <2>6. /\ kernel.tcbs \in [ThreadIds -> Tcb] /\ kernel.born \in [ThreadIds -> Nat]
        BY <1>2 DEF KernelInv, Kernels
    <2>7. /\ k.tcbs[t].state = "created" /\ k.tcbs[t].vm = kernel.born[t] + 1
          /\ k.born[t] = kernel.born[t] + 1
          /\ \A u \in ThreadIds \ {t} : k.tcbs[u] = kernel.tcbs[u] /\ k.born[u] = kernel.born[u]
        BY <2>5, <2>6
    <2>8. Held(k, tasks)
        <3>1. ASSUME NEW d \in tasks PROVE d.vm <= k.born[d.id] /\ k.tcbs[d.id].vm # d.vm
            <4>1. d.id \in ThreadIds /\ d.vm \in Nat /\ d.vm <= kernel.born[d.id] /\ kernel.tcbs[d.id].vm # d.vm
                BY <1>2, <2>4 DEF Held, TaskOf
            <4>2. CASE d.id = t
                BY <2>6, <2>7, <4>1, <4>2
            <4>3. CASE d.id # t
                BY <2>7, <4>1, <4>3
            <4> QED
                BY <4>2, <4>3
        <3> QED
            BY <3>1 DEF Held
    <2>9. ASSUME NEW u \in ThreadIds PROVE Minded(k, waits, tasks, u)
        <3>1. CASE u = t
            BY <2>7, <3>1 DEF Minded
        <3>2. CASE u # t
            <4>1. k.tcbs[u] = kernel.tcbs[u] /\ (IsQueued(k, u) <=> IsQueued(kernel, u))
                BY <2>5, <2>7, <3>2 DEF IsQueued
            <4> QED
                BY <2>4, <2>5, <4>1 DEF Minded
        <3> QED
            BY <3>1, <3>2
    <2>10. AllInHand(k, waits, tasks)
        BY <2>5, <2>8, <2>9 DEF AllInHand
    <2> QED
        BY <1>1, <2>3, <2>10, CompleteAtOnceStep
<1> QED
    BY <1>3, <1>4

\* A step on thread t: other threads are as they were, or gone.
OthersKept(k, r, t) ==
    \A u \in ThreadIds \ {t} :
        /\ r.tcbs[u] = k.tcbs[u] \/ r.tcbs[u] = Absent
        /\ r.born[u] = k.born[u]
        /\ u \in r.blocked <=> u \in k.blocked
        /\ IsQueued(r, u) <=> IsQueued(k, u)

\* A step on thread t keeps everything in hand when it does so for t.
LEMMA OneThread ==
    ASSUME NEW k, NEW W, NEW V, NEW T \in SUBSET TaskOf, AllInHand(k, W, T),
           NEW S \in SUBSET TaskOf, NEW t \in ThreadIds, NEW r,
           KernelInv(r), Covers(r, Cardinality(S)), OthersKept(k, r, t), OnlyWaits(W, V, t),
           \A d \in TaskOf : d.id # t => (d \in S <=> d \in T),
           \A d \in S : d.id = t => d.vm <= r.born[t] /\ r.tcbs[t].vm # d.vm,
           Minded(r, V, S, t)
    PROVE  AllInHand(r, V, S)
<1>1. Held(k, T) /\ \A u \in ThreadIds : Minded(k, W, T, u)
    BY DEF AllInHand
<1>2. Held(r, S)
    <2>1. ASSUME NEW d \in S PROVE d.vm <= r.born[d.id] /\ r.tcbs[d.id].vm # d.vm
        <3>1. CASE d.id = t
            BY <3>1
        <3>2. CASE d.id # t
            <4>1. d \in T /\ d.id \in ThreadIds \ {t} /\ d.vm \in Nat \ {0}
                BY <3>2 DEF TaskOf
            <4>2. d.vm <= k.born[d.id] /\ k.tcbs[d.id].vm # d.vm
                BY <1>1, <4>1 DEF Held
            <4>3. r.born[d.id] = k.born[d.id] /\ (r.tcbs[d.id] = k.tcbs[d.id] \/ r.tcbs[d.id] = Absent)
                BY <4>1 DEF OthersKept
            <4>4. Absent.vm # d.vm
                BY <4>1 DEF Absent, Gone
            <4> QED
                BY <4>2, <4>3, <4>4
        <3> QED
            BY <3>1, <3>2
    <2> QED
        BY <2>1 DEF Held
<1>3. ASSUME NEW u \in ThreadIds \ {t} PROVE Minded(r, V, S, u)
    <2>1. CASE r.tcbs[u] = Absent
        BY <2>1 DEF Minded, Absent
    <2>2. CASE r.tcbs[u] # Absent
        <3>1. r.tcbs[u] = k.tcbs[u] /\ (u \in r.blocked <=> u \in k.blocked) /\ (IsQueued(r, u) <=> IsQueued(k, u))
            BY <2>2 DEF OthersKept
        <3>2. V[u] = W[u]
            BY DEF OnlyWaits
        <3>3. (\E d \in T : d.id = u) => \E d \in S : d.id = u
            OBVIOUS
        <3> QED
            BY <1>1, <3>1, <3>2, <3>3 DEF Minded
    <2> QED
        BY <2>1, <2>2
<1>4. \A u \in ThreadIds : Minded(r, V, S, u)
    BY <1>3
<1> QED
    BY <1>2, <1>4 DEF AllInHand

\* A thread exits and its VM state is dropped (mark_exited).
LEMMA ExitedStep == ASSUME SchedulerInv, NEW e, Exited(e) PROVE SchedulerInv'
<1>1. Event(e) /\ kernel' = mark_exited(kernel, e.id, e.vm) /\ waits' = [waits EXCEPT ![e.id] = 0]
    BY DEF Exited
<1>2. /\ e \in tasks /\ tasks' = tasks \ {e} /\ AllInHand(kernel, waits, tasks) /\ KernelInv(kernel)
      /\ tasks \in SUBSET TaskOf /\ IsFiniteSet(tasks) /\ waits \in [ThreadIds -> Nat]
      /\ e.id \in ThreadIds /\ e.vm \in Nat \ {0} /\ e.vm <= kernel.born[e.id]
      /\ Cardinality(tasks \ {e}) \in Nat
      /\ Covers(kernel, Cardinality(tasks \ {e}) + 1)
    BY Zenon, <1>1, EventFacts
<1>3. PICK t \in ThreadIds : t = e.id
    BY <1>2
<1>4. /\ KernelInv(kernel') /\ Covers(kernel', Cardinality(tasks \ {e}))
      /\ kernel'.born = kernel.born /\ kernel'.queue = kernel.queue /\ kernel'.blocked = kernel.blocked
      /\ kernel'.tcbs[t].state # "running"
      /\ kernel'.tcbs[t].vm \in {Gone, e.vm}
      /\ \A u \in ThreadIds \ {t} : kernel'.tcbs[u] = kernel.tcbs[u] \/ kernel'.tcbs[u] = Absent
    BY <1>1, <1>2, <1>3, MarkExitedKeeps
<1>5. waits' \in [ThreadIds -> Nat] /\ OnlyWaits(waits, waits', t)
    BY <1>1, <1>2, <1>3 DEF OnlyWaits
<1>6. OthersKept(kernel, kernel', t)
    BY <1>4 DEF OthersKept, IsQueued
<1>7. Held(kernel, tasks)
    BY <1>2 DEF AllInHand
<1>8. tasks \ {e} \in SUBSET TaskOf /\ \A d \in tasks \ {e} : d.id = t => d.vm # e.vm
    BY <1>2, <1>3, <1>7, TaskTypes
<1>9. ASSUME NEW d \in tasks \ {e}, d.id = t
      PROVE  d.vm <= kernel'.born[t] /\ kernel'.tcbs[t].vm # d.vm
    <2>1. d.vm \in Nat \ {0} /\ d.vm <= kernel.born[t]
        BY <1>7, <1>8, <1>9 DEF Held, TaskOf
    <2> QED
        BY <1>4, <1>8, <1>9, <2>1 DEF Gone
<1>10. Minded(kernel', waits', tasks \ {e}, t)
    BY <1>4 DEF Minded
<1>11. \A d \in TaskOf : d.id # t => (d \in tasks \ {e} <=> d \in tasks)
    BY <1>3
<1>12. AllInHand(kernel', waits', tasks \ {e})
    BY <1>2, <1>4, <1>5, <1>6, <1>8, <1>9, <1>10, <1>11, OneThread
<1> QED
    BY <1>2, <1>5, <1>12, GoesOn

\* mark_running, of a kernel that has a name.
LEMMA MarkedRunning ==
    ASSUME NEW k, KernelInv(k), NEW t \in ThreadIds, NEW n, Covers(k, n), NEW r, r = mark_running(k, t)
    PROVE  /\ KernelInv(r) /\ Covers(r, n)
           /\ r.born = k.born /\ r.queue = k.queue /\ r.blocked = k.blocked
           /\ r.tcbs[t].vm = k.tcbs[t].vm
           /\ \A u \in ThreadIds \ {t} : r.tcbs[u] = k.tcbs[u]
BY MarkRunningKeeps

\* dispatch_runnables takes the first thread, and its VM state into a task.
LEMMA DispatchNextStep == ASSUME SchedulerInv, DispatchNext PROVE SchedulerInv'
<1>1. /\ status = "open" /\ kernel.queue # <<>> /\ waits' = waits /\ status' = status
    BY DEF DispatchNext
<1>2. /\ AllInHand(kernel, waits, tasks) /\ KernelInv(kernel)
      /\ tasks \in SUBSET TaskOf /\ IsFiniteSet(tasks) /\ waits \in [ThreadIds -> Nat]
    BY <1>1 DEF SchedulerInv
<1>3. /\ Covers(kernel, Cardinality(tasks)) /\ Held(kernel, tasks)
      /\ \A u \in ThreadIds : Minded(kernel, waits, tasks, u)
    BY <1>2 DEF AllInHand
<1>4. PICK t \in ThreadIds : t = Head(kernel.queue)
    BY <1>1, <1>2 DEF KernelInv, Kernels
<1>5. PICK k : k = Unqueue(kernel, t)
    OBVIOUS
<1>6. /\ KernelInv(k) /\ Covers(k, Cardinality(tasks)) /\ LeavesRest(kernel, k, t)
      /\ k.tcbs = kernel.tcbs /\ k.blocked = kernel.blocked
    BY <1>2, <1>3, <1>5, UnqueueKeeps
<1>7. OnlyWaits(waits, waits, t)
    BY SameWaits
<1>8. CASE kernel.tcbs[t].vm = Gone
    <2>1. kernel' = k /\ tasks' = tasks
        BY <1>4, <1>5, <1>6, <1>8 DEF DispatchNext
    <2>2. OthersKept(kernel, k, t)
        BY <1>6 DEF OthersKept, LeavesRest
    <2>3. \A d \in tasks : d.id = t => d.vm <= k.born[t] /\ k.tcbs[t].vm # d.vm
        BY <1>3, <1>6 DEF Held, LeavesRest
    <2>4. Minded(k, waits, tasks, t)
        BY <1>3, <1>6, <1>8 DEF Minded
    <2>5. AllInHand(k, waits, tasks)
        BY <1>2, <1>6, <1>7, <2>2, <2>3, <2>4, OneThread
    <2> QED
        BY <1>1, <1>2, <1>6, <2>1, <2>5 DEF SchedulerInv
<1>9. CASE kernel.tcbs[t].vm # Gone
    <2>1. PICK vm : vm = kernel.tcbs[t].vm
        OBVIOUS
    <2>2. vm \in Nat \ {0} /\ vm <= kernel.born[t]
        <3>1. kernel.tcbs[t] \in Tcb /\ kernel.tcbs[t].vm <= kernel.born[t]
            BY <1>2 DEF KernelInv, Kernels, QueuesInv
        <3> QED
            BY <1>9, <2>1, <3>1 DEF Tcb, Gone
    <2>3. PICK e : e = [id |-> t, vm |-> vm]
        BY Zenon
    <2>4. e \in TaskOf /\ e.id = t /\ e.vm = vm
        BY <2>2, <2>3 DEF TaskOf
    <2>5. PICK p : p = take_thread(k, t)
        OBVIOUS
    <2>6. /\ KernelInv(p) /\ LeavesRest(k, p, t) /\ Covers(p, Cardinality(tasks) + 1)
          /\ p.tcbs = [k.tcbs EXCEPT ![t].vm = Gone]
          /\ p.queue = k.queue /\ p.blocked = k.blocked
        BY <1>6, <1>9, <2>5, TakeThread
    <2>7. PICK r : r = mark_running(p, t)
        OBVIOUS
    <2>8. /\ KernelInv(r) /\ Covers(r, Cardinality(tasks) + 1)
          /\ r.born = p.born /\ r.queue = p.queue /\ r.blocked = p.blocked
          /\ r.tcbs[t].vm = p.tcbs[t].vm
          /\ \A u \in ThreadIds \ {t} : r.tcbs[u] = p.tcbs[u]
        <3>1. KernelInv(p) /\ Covers(p, Cardinality(tasks) + 1)
            BY <2>6
        <3> QED
            BY <2>7, <3>1, MarkedRunning
    <2>9. kernel' = r /\ tasks' = tasks \cup {e}
        BY <1>4, <1>5, <1>6, <1>9, <2>1, <2>3, <2>5, <2>7 DEF DispatchNext
    <2>10. e \notin tasks
        BY <1>3, <2>1, <2>4 DEF Held
    <2>11. /\ IsFiniteSet(tasks \cup {e}) /\ Cardinality(tasks \cup {e}) = Cardinality(tasks) + 1
           /\ tasks \cup {e} \in SUBSET TaskOf
        BY <1>2, <2>4, <2>10, FS_AddElement
    <2>12. r.born = kernel.born /\ r.tcbs[t].vm = Gone
        <3>1. kernel.tcbs \in [ThreadIds -> Tcb]
            BY <1>2 DEF KernelInv, Kernels
        <3>2. p.tcbs[t].vm = Gone
            BY <1>6, <2>6, <3>1 DEF Tcb
        <3> QED
            BY <1>6, <2>6, <2>8, <3>2 DEF LeavesRest
    <2>13. OthersKept(kernel, r, t)
        <3>1. \A u \in ThreadIds \ {t} : IsQueued(r, u) <=> IsQueued(kernel, u)
            BY <1>6, <2>6, <2>8 DEF LeavesRest, IsQueued
        <3>2. \A u \in ThreadIds \ {t} : r.tcbs[u] = kernel.tcbs[u]
            BY <1>6, <2>6, <2>8 DEF LeavesRest
        <3> QED
            BY <1>6, <2>6, <2>8, <2>12, <3>1, <3>2 DEF OthersKept
    <2>14. ASSUME NEW d \in tasks \cup {e}, d.id = t
           PROVE  d.vm <= r.born[t] /\ r.tcbs[t].vm # d.vm
        <3>1. d.vm \in Nat \ {0}
            BY <2>11 DEF TaskOf
        <3>2. d.vm <= kernel.born[t]
            BY <1>3, <2>2, <2>4, <2>14 DEF Held
        <3> QED
            BY <2>12, <3>1, <3>2 DEF Gone
    <2>15. Minded(r, waits, tasks \cup {e}, t)
        BY <2>4 DEF Minded
    <2>16. \A d \in TaskOf : d.id # t => (d \in tasks \cup {e} <=> d \in tasks)
        BY <2>4
    <2>17. Covers(r, Cardinality(tasks \cup {e}))
        BY <2>8, <2>11
    <2>18. AllInHand(r, waits, tasks \cup {e})
        BY <1>2, <1>7, <2>8, <2>11, <2>13, <2>14, <2>15, <2>16, <2>17, OneThread
    <2> QED
        BY <1>1, <1>2, <2>8, <2>9, <2>11, <2>18 DEF SchedulerInv
<1> QED
    BY <1>8, <1>9

\* cancel_and_teardown_thread removes a thread, wherever it is.
LEMMA CancelThreadStep == ASSUME SchedulerInv, NEW t \in ThreadIds, CancelThread(t) PROVE SchedulerInv'
<1>1. /\ status = "open" /\ Registered(kernel, t) /\ waits' = [waits EXCEPT ![t] = 0]
      /\ tasks' = tasks /\ status' = status
    BY DEF CancelThread
<1>2. /\ AllInHand(kernel, waits, tasks) /\ KernelInv(kernel)
      /\ tasks \in SUBSET TaskOf /\ IsFiniteSet(tasks) /\ waits \in [ThreadIds -> Nat]
    BY <1>1 DEF SchedulerInv
<1>3. /\ Covers(kernel, Cardinality(tasks)) /\ Held(kernel, tasks) /\ Cardinality(tasks) \in Nat
    BY <1>2, FS_CardinalityType DEF AllInHand
<1>4. PICK d : d = IF kernel.tcbs[t].vm = Gone THEN take_thread(kernel, t) ELSE DropVm(take_thread(kernel, t))
    OBVIOUS
<1>5. kernel' = cancel(d, t)
    BY <1>4 DEF CancelThread
<1>6. /\ KernelInv(d) /\ Covers(d, Cardinality(tasks)) /\ LeavesRest(kernel, d, t)
      /\ d.tcbs[t].vm = Gone
    <2>1. CASE kernel.tcbs[t].vm = Gone
        <3>1. d = kernel
            BY <1>4, <2>1 DEF take_thread
        <3> QED
            BY <1>2, <1>3, <2>1, <3>1 DEF LeavesRest
    <2>2. CASE kernel.tcbs[t].vm # Gone
        <3>1. PICK p : p = take_thread(kernel, t)
            OBVIOUS
        <3>2. /\ KernelInv(p) /\ LeavesRest(kernel, p, t) /\ Covers(p, Cardinality(tasks) + 1)
              /\ p.tcbs = [kernel.tcbs EXCEPT ![t].vm = Gone]
            BY <1>2, <1>3, <2>2, <3>1, TakeThread
        <3>3. d = DropVm(p)
            BY <1>4, <2>2, <3>1
        <3>4. /\ KernelInv(d) /\ Covers(d, Cardinality(tasks)) /\ d.tcbs = p.tcbs /\ LeavesRest(p, d, t)
            BY <1>3, <3>2, <3>3, DropCovers
        <3>5. LeavesRest(kernel, d, t)
            BY <3>2, <3>4, LeavesRestTransitive
        <3>6. kernel.tcbs \in [ThreadIds -> Tcb]
            BY <1>2 DEF KernelInv, Kernels
        <3> QED
            BY <3>2, <3>4, <3>5, <3>6 DEF Tcb
    <2> QED
        BY <2>1, <2>2
<1>7. Registered(d, t)
    BY <1>1, <1>6 DEF Registered, LeavesRest
<1>8. /\ KernelInv(kernel') /\ Covers(kernel', Cardinality(tasks))
      /\ kernel'.born = d.born /\ kernel'.tcbs = [d.tcbs EXCEPT ![t] = Absent]
      /\ \A u \in ThreadIds \ {t} : /\ u \in kernel'.blocked <=> u \in d.blocked
                                    /\ IsQueued(kernel', u) <=> IsQueued(d, u)
    BY <1>5, <1>6, <1>7, CancelKeeps
<1>9. d.tcbs \in [ThreadIds -> Tcb]
    BY <1>6 DEF KernelInv, Kernels
<1>10. kernel'.tcbs[t] = Absent /\ \A u \in ThreadIds \ {t} : kernel'.tcbs[u] = d.tcbs[u]
    BY <1>8, <1>9
<1>11. OthersKept(kernel, kernel', t)
    BY <1>6, <1>8, <1>10 DEF OthersKept, LeavesRest
<1>12. waits' \in [ThreadIds -> Nat] /\ OnlyWaits(waits, waits', t)
    BY <1>1, <1>2 DEF OnlyWaits
<1>13. ASSUME NEW x \in tasks, x.id = t PROVE x.vm <= kernel'.born[t] /\ kernel'.tcbs[t].vm # x.vm
    <2>1. x.vm \in Nat \ {0} /\ x.vm <= kernel.born[t]
        BY <1>2, <1>3, <1>13 DEF TaskOf, Held
    <2>2. kernel'.born = kernel.born
        BY <1>6, <1>8 DEF LeavesRest
    <2> QED
        BY <1>10, <2>1, <2>2 DEF Absent, Gone
<1>14. Minded(kernel', waits', tasks, t)
    BY <1>10 DEF Minded, Absent
<1>15. AllInHand(kernel', waits', tasks)
    BY Zenon, <1>2, <1>8, <1>11, <1>12, <1>13, <1>14, OneThread
<1> QED
    BY <1>1, <1>2, <1>8, <1>12, <1>15 DEF SchedulerInv

\* The VM state of a created thread is parked.
LEMMA StartableFacts ==
    ASSUME SchedulerInv, NEW e, Event(e), NEW t \in ThreadIds, Startable(t)
    PROVE  /\ kernel.tcbs[t].vm # Gone /\ kernel.tcbs[t].vm \in Nat \ {0}
           /\ kernel.tcbs[t].vm <= kernel.born[t]
           /\ Registered(kernel, t) /\ kernel.tcbs[t].state = "created"
           /\ KernelInv(kernel) /\ Covers(kernel, Cardinality(tasks)) /\ Cardinality(tasks) \in Nat
<1>1. /\ AllInHand(kernel, waits, tasks) /\ IsFiniteSet(tasks) /\ KernelInv(kernel)
    BY Zenon, EventFacts
<1>2. kernel.tcbs[t] \in Tcb /\ kernel.tcbs[t].vm <= kernel.born[t]
    BY <1>1 DEF KernelInv, Kernels, QueuesInv
<1>3. Covers(kernel, Cardinality(tasks)) /\ Cardinality(tasks) \in Nat
    BY <1>1, FS_CardinalityType DEF AllInHand
<1> QED
    BY <1>1, <1>2, <1>3 DEF Startable, Tcb, Gone, Registered

\* A created thread is queued, and the starter goes on.
LEMMA StartStep == ASSUME SchedulerInv, NEW e, NEW t \in ThreadIds, Start(e, t) PROVE SchedulerInv'
<1>1. Event(e) /\ Startable(t) /\ waits' = waits
    BY DEF Start
<1>2. /\ e \in tasks /\ tasks' = tasks \ {e} /\ AllInHand(kernel, waits, tasks)
      /\ tasks \in SUBSET TaskOf /\ IsFiniteSet(tasks) /\ waits' \in [ThreadIds -> Nat]
    BY Zenon, <1>1, EventFacts
<1>3. /\ kernel.tcbs[t].vm # Gone /\ kernel.tcbs[t].vm \in Nat \ {0}
      /\ kernel.tcbs[t].vm <= kernel.born[t] /\ Registered(kernel, t)
      /\ KernelInv(kernel) /\ Covers(kernel, Cardinality(tasks)) /\ Cardinality(tasks) \in Nat
    BY <1>1, StartableFacts
<1>4. PICK vm : vm = kernel.tcbs[t].vm
    OBVIOUS
<1>5. PICK k : k = [kernel EXCEPT !.tcbs[t].vm = Gone]
    BY Zenon
<1>6. /\ KernelInv(k) /\ LeavesRest(kernel, k, t) /\ Covers(k, Cardinality(tasks) + 1)
      /\ k.tcbs = [kernel.tcbs EXCEPT ![t].vm = Gone]
      /\ k.queue = kernel.queue /\ k.blocked = kernel.blocked
    BY <1>3, <1>5, VmTaken
<1>7. CASE RunnableRefused(k, t)
    <2>1. status' = "failed" /\ kernel' = kernel
        BY <1>5, <1>7 DEF Start, Settle
    <2> QED
        BY <1>2, <1>3, <2>1, Ends
<1>8. CASE ~RunnableRefused(k, t)
    <2>1. PICK q : q = Enqueued(k, t, vm, FALSE)
        BY Zenon
    <2>2. vm \in Nat \ {0} /\ vm <= k.born[t]
        BY <1>3, <1>4, <1>6 DEF LeavesRest
    <2>3. Parks(k, q, t, vm) /\ Covers(q, Cardinality(tasks)) /\ IsQueued(q, t) /\ q.blocked = k.blocked
        BY Zenon, <1>3, <1>6, <1>8, <2>1, <2>2, EnqueueParks
    <2>4. PICK r : r = mark_running(q, t)
        OBVIOUS
    <2>5. /\ KernelInv(q) /\ LeavesRest(k, q, t)
          /\ q.tcbs = IF Registered(k, t) THEN [k.tcbs EXCEPT ![t].vm = vm] ELSE k.tcbs
        BY <2>3 DEF Parks
    <2>6. /\ KernelInv(r) /\ Covers(r, Cardinality(tasks))
          /\ r.born = q.born /\ r.queue = q.queue /\ r.blocked = q.blocked
          /\ r.tcbs[t].vm = q.tcbs[t].vm
          /\ \A u \in ThreadIds \ {t} : r.tcbs[u] = q.tcbs[u]
        <3>1. KernelInv(q) /\ Covers(q, Cardinality(tasks))
            BY <2>3, <2>5
        <3> QED
            BY <2>4, <3>1, MarkedRunning
    <2>7. CompleteAtOnce(r, e.id, e.vm)
        BY Zenon, <1>4, <1>5, <1>8, <2>1, <2>4 DEF Start, enqueue_runnable
    <2>8. LeavesRest(kernel, q, t)
        BY <1>6, <2>5, LeavesRestTransitive
    <2>9. r.tcbs[t].vm = vm
        <3>1. Registered(k, t)
            BY <1>3, <1>6 DEF LeavesRest, Registered
        <3>2. k.tcbs \in [ThreadIds -> Tcb]
            BY Zenon, <1>6 DEF KernelInv, Kernels
        <3>3. q.tcbs[t].vm = vm
            BY <2>5, <3>1, <3>2 DEF Tcb
        <3> QED
            BY <2>6, <3>3
    <2>10. OthersKept(kernel, r, t)
        BY <2>6, <2>8 DEF OthersKept, LeavesRest, IsQueued
    <2>11. OnlyWaits(waits, waits, t)
        BY SameWaits
    <2>12. \A d \in tasks : d.id = t => d.vm <= r.born[t] /\ r.tcbs[t].vm # d.vm
        <3>1. r.born = kernel.born
            BY <2>6, <2>8 DEF LeavesRest
        <3>2. Held(kernel, tasks)
            BY <1>2 DEF AllInHand
        <3> QED
            BY <1>4, <2>9, <3>1, <3>2 DEF Held
    <2>13. Minded(r, waits, tasks, t)
        BY <2>2, <2>3, <2>6, <2>9 DEF Minded, IsQueued, Gone
    <2>14. AllInHand(r, waits, tasks)
        BY <1>2, <2>6, <2>10, <2>11, <2>12, <2>13, OneThread
    <2> QED
        BY <1>1, <2>7, <2>14, CompleteAtOnceStep
<1> QED
    BY <1>7, <1>8

\* The panic of a start with arguments ends the execution.
LEMMA StartWithArgumentsStep ==
    ASSUME SchedulerInv, NEW e, NEW t \in ThreadIds, StartWithArguments(e, t)
    PROVE  SchedulerInv'
<1>1. /\ Event(e) /\ Startable(t) /\ waits' = waits /\ status' = "panicked"
      /\ kernel' = [kernel EXCEPT !.tcbs[t].vm = Gone]
    BY DEF StartWithArguments
<1>2. /\ e \in tasks /\ tasks' = tasks \ {e} /\ waits' \in [ThreadIds -> Nat]
    BY Zenon, <1>1, EventFacts
<1>3. /\ kernel.tcbs[t].vm # Gone /\ KernelInv(kernel) /\ Covers(kernel, Cardinality(tasks))
    BY <1>1, StartableFacts
<1>4. KernelInv(kernel')
    BY <1>1, <1>3, VmTaken
<1> QED
    BY <1>1, <1>2, <1>4, Ends

\* A message unblocks its receiver, and resumes a receive that waits.
LEMMA SendStep == ASSUME SchedulerInv, NEW e, NEW t \in ThreadIds, Send(e, t) PROVE SchedulerInv'
<1>1. Event(e)
    BY DEF Send
<1>2. /\ e \in tasks /\ tasks' = tasks \ {e} /\ AllInHand(kernel, waits, tasks) /\ KernelInv(kernel)
      /\ tasks \in SUBSET TaskOf /\ IsFiniteSet(tasks) /\ waits \in [ThreadIds -> Nat]
    BY Zenon, <1>1, EventFacts
<1>3. Covers(kernel, Cardinality(tasks))
    BY <1>2 DEF AllInHand
<1>4. PICK k : k = unblock(kernel, t)
    OBVIOUS
<1>5. CASE WasBlocked(kernel, t) /\ ~IsQueued(k, t)
    <2>1. status' = "failed" /\ kernel' = kernel /\ waits' = waits
        BY <1>4, <1>5 DEF Send, Settle
    <2> QED
        BY <1>2, <2>1, Ends
<1>6. CASE ~(WasBlocked(kernel, t) /\ ~IsQueued(k, t))
    <2>1. WasBlocked(kernel, t) => IsQueued(k, t)
        BY <1>6
    <2>2. Wakes(kernel, k, t) /\ Covers(k, Cardinality(tasks))
        BY <1>2, <1>3, <1>4, <2>1, UnblockWakes
    <2>3. OnlyWaits(waits, waits, t)
        BY SameWaits
    <2>4. AllInHand(k, waits, tasks)
        BY <1>2, <2>1, <2>2, <2>3, WakeThread
    <2>5. ASSUME NEW l, ResumeFront(l, e.id, e.vm), waits' \in [ThreadIds -> Nat],
                 AllInHand(l, waits', tasks)
          PROVE  SchedulerInv'
        <3>1. CASE RunnableRefused(l, e.id)
            <4>1. status' = "failed" /\ kernel' = kernel
                BY <2>5, <3>1 DEF ResumeFront, Settle
            <4> QED
                BY <1>2, <2>5, <4>1, Ends
        <3>2. CASE ~RunnableRefused(l, e.id)
            <4>1. kernel' = Enqueued(l, e.id, e.vm, TRUE)
                BY <2>5, <3>2 DEF ResumeFront, Settle, enqueue_runnable_front
            <4>2. AllInHand(kernel', waits', tasks')
                BY Zenon, <1>2, <2>5, <3>2, <4>1, EnqueueTask
            <4> QED
                BY <1>2, <2>5, <4>2, GoesOn
        <3> QED
            BY <3>1, <3>2
    <2>6. CASE ResumeFront(k, e.id, e.vm) /\ waits' = waits
        <3>1. waits' \in [ThreadIds -> Nat] /\ AllInHand(k, waits', tasks)
            BY <1>2, <2>4, <2>6
        <3> QED
            BY <2>5, <2>6, <3>1
    <2>7. CASE /\ waits[t] > 0 /\ waits' = [waits EXCEPT ![t] = @ - 1]
               /\ IF ResumeRefused(k, t) THEN Settle(k, TRUE)
                  ELSE ResumeFront(resume_pending(k, t), e.id, e.vm)
        <3>1. waits' \in [ThreadIds -> Nat] /\ OnlyWaits(waits, waits', t)
            <4>1. waits[t] - 1 \in Nat
                BY <1>2, <2>7
            <4> QED
                BY <1>2, <2>7, <4>1 DEF OnlyWaits
        <3>2. CASE ResumeRefused(k, t)
            <4>1. status' = "failed" /\ kernel' = kernel
                BY <2>7, <3>2 DEF Settle
            <4> QED
                BY <1>2, <3>1, <4>1, Ends
        <3>3. CASE ~ResumeRefused(k, t)
            <4>1. PICK l : l = resume_pending(k, t)
                OBVIOUS
            <4>2. KernelInv(k)
                BY <2>2 DEF Wakes
            <4>3. /\ Wakes(k, l, t) /\ Covers(l, Cardinality(tasks))
                  /\ k.tcbs[t].vm # Gone => IsQueued(l, t)
                BY <2>2, <3>3, <4>1, <4>2, ResumeWakes
            <4>4. WasBlocked(k, t) => IsQueued(l, t)
                BY <4>3 DEF WasBlocked
            <4>5. AllInHand(l, waits', tasks)
                BY <1>2, <2>4, <3>1, <4>3, <4>4, WakeThread
            <4>6. ResumeFront(l, e.id, e.vm)
                BY <2>7, <3>3, <4>1
            <4> QED
                BY <2>5, <3>1, <4>5, <4>6
        <3> QED
            BY <3>2, <3>3
    <2> QED
        BY Zenon, <1>4, <1>6, <2>6, <2>7 DEF Send
<1> QED
    BY <1>5, <1>6

-------------------------------------------------------------------------------

\* Runtime::start leaves the root thread queued with its VM state.
LEMMA StartOfRuntime == ASSUME Init PROVE SchedulerInv
<1>1. PICK a : a = NewKernel
    OBVIOUS
<1>2. /\ a.tcbs = [t \in ThreadIds |-> Absent] /\ a.born = [t \in ThreadIds |-> 0]
      /\ a.freed = <<>> /\ a.fresh = 1 /\ a.exited = <<>> /\ a.active = 0
      /\ a.queue = <<>> /\ a.blocked = {} /\ a.threads = 0 /\ a.runnable = 0 /\ a.pending = 0
    BY <1>1 DEF NewKernel
<1>3. Absent \in Tcb
    BY DEF Absent, Tcb, Gone
<1>4. a \in Kernels
    <2>1. /\ a.tcbs \in [ThreadIds -> Tcb] /\ a.born \in [ThreadIds -> Nat]
          /\ <<>> \in Seq(ThreadIds) /\ {} \in SUBSET ThreadIds
        BY <1>2, <1>3
    <2> QED
        BY <1>1, <1>2, <2>1 DEF Kernels, NewKernel
<1>5. \A t \in ThreadIds : a.tcbs[t] = Absent /\ a.born[t] = 0
    BY <1>2
<1>6. Cardinality({}) = 0
    BY FS_EmptySet
<1>7. Living(a) = {} /\ ParkedIn(a) = {}
    BY <1>5 DEF Living, ParkedIn, Registered, Absent
<1>8. IsLine(<<>>) /\ Range(<<>>) = {}
    BY EmptyLine
<1>9. RegistryInv(a)
    <2>1. \A t \in ThreadIds : ~Registered(a, t) /\ a.tcbs[t].key = NoKey
        BY <1>5 DEF Registered, Absent
    <2> QED
        BY <1>2, <1>5, <1>6, <1>7, <1>8, <2>1 DEF RegistryInv
<1>10. QueuesInv(a)
    <2>1. \A t \in ThreadIds : a.tcbs[t].vm <= a.born[t]
        BY <1>5 DEF Absent, Gone
    <2> QED
        BY <1>2, <1>6, <1>8, <2>1 DEF QueuesInv
<1>11. KernelInv(a) /\ Covers(a, 0)
    BY <1>2, <1>4, <1>6, <1>7, <1>9, <1>10 DEF KernelInv, Covers
<1>12. 1 \in ThreadIds /\ MaxThreads > 0 /\ MaxRunnable > 0
    BY KernelAssumption
<1>13. CanSpawn(a, NoKey) /\ NextId(a) = 1
    BY <1>2, <1>12 DEF CanSpawn, NextId
<1>14. PICK b : b = spawn(a, NoKey)
    OBVIOUS
<1>15. /\ KernelInv(b) /\ Covers(b, 0)
       /\ b.queue = a.queue /\ b.blocked = a.blocked
       /\ b.born = [a.born EXCEPT ![1] = @ + 1]
       /\ b.tcbs = [a.tcbs EXCEPT ![1] = [state |-> "created", vm |-> a.born[1] + 1, key |-> NoKey]]
    BY <1>11, <1>12, <1>13, <1>14, SpawnKeeps
<1>16. b.tcbs[1].vm = 1 /\ b.born[1] = 1 /\ \A u \in ThreadIds \ {1} : b.tcbs[u] = Absent
    BY <1>2, <1>5, <1>12, <1>15
<1>17. PICK c : c = mark_running(b, 1)
    OBVIOUS
<1>18. /\ KernelInv(c) /\ Covers(c, 0)
       /\ c.born = b.born /\ c.queue = b.queue /\ c.blocked = b.blocked
       /\ c.tcbs[1].vm = b.tcbs[1].vm
       /\ \A u \in ThreadIds \ {1} : c.tcbs[u] = b.tcbs[u]
    <2>1. KernelInv(b) /\ Covers(b, 0)
        BY <1>15
    <2> QED
        BY <1>12, <1>17, <2>1, MarkedRunning
<1>19. PICK d : d = take_thread(c, 1)
    OBVIOUS
<1>20. /\ KernelInv(d) /\ LeavesRest(c, d, 1) /\ Covers(d, 0 + 1) /\ d.queue = c.queue
    <2>1. c.tcbs[1].vm # Gone
        BY <1>16, <1>18 DEF Gone
    <2> QED
        BY Zenon, <1>12, <1>18, <1>19, <2>1, TakeThread
<1>21. d.runnable = 0
    <2>1. b.runnable = 0
        BY <1>2, <1>14 DEF spawn
    <2>2. c.runnable = 0
        BY <1>17, <2>1 DEF mark_running
    <2>3. Minus(0, 1) = 0
        BY DEF Minus
    <2>4. c \in Kernels
        BY <1>18 DEF KernelInv
    <2> QED
        BY <1>19, <2>2, <2>3, <2>4 DEF take_thread, Kernels
<1>22. ~RunnableRefused(d, 1)
    BY <1>12, <1>21, KernelAssumption DEF RunnableRefused
<1>23. 1 \in Nat \ {0} /\ 1 <= d.born[1] /\ 0 \in Nat
    BY <1>16, <1>18, <1>20 DEF LeavesRest
<1>24. kernel = Enqueued(d, 1, 1, FALSE)
    BY <1>1, <1>14, <1>17, <1>19 DEF Init, enqueue_runnable
<1>25. Parks(d, kernel, 1, 1) /\ Covers(kernel, 0) /\ IsQueued(kernel, 1)
    BY Zenon, <1>12, <1>20, <1>22, <1>23, <1>24, EnqueueParks
<1>26. /\ tasks = {} /\ IsFiniteSet(tasks) /\ Cardinality(tasks) = 0 /\ tasks \in SUBSET TaskOf
       /\ waits \in [ThreadIds -> Nat]
    BY FS_EmptySet DEF Init
<1>27. ASSUME NEW u \in ThreadIds PROVE Minded(kernel, waits, tasks, u)
    <2>1. CASE u = 1
        <3>1. d.tcbs \in [ThreadIds -> Tcb] /\ (~Registered(d, 1) => d.tcbs[1] = Absent)
            BY <1>12, <1>20 DEF KernelInv, Kernels, RegistryInv
        <3>2. CASE Registered(d, 1)
            <4>1. kernel.tcbs[1].vm = 1
                BY <1>12, <1>25, <3>1, <3>2 DEF Parks, Tcb
            <4> QED
                BY <1>25, <2>1, <4>1 DEF Minded, Gone
        <3>3. CASE ~Registered(d, 1)
            BY <1>25, <2>1, <3>1, <3>3 DEF Parks, Minded, Absent
        <3> QED
            BY <3>2, <3>3
    <2>2. CASE u # 1
        <3>1. kernel.tcbs[u] = Absent
            BY <1>16, <1>18, <1>20, <1>25, <2>2 DEF Parks, LeavesRest
        <3> QED
            BY <3>1 DEF Minded, Absent
    <2> QED
        BY <2>1, <2>2
<1>28. AllInHand(kernel, waits, tasks)
    BY <1>25, <1>26, <1>27 DEF AllInHand, Parks, Held
<1> QED
    BY <1>25, <1>26, <1>28 DEF SchedulerInv, Parks

\* Every step of the scheduler keeps the invariant.
LEMMA SchedulerStep == ASSUME SchedulerInv, [Next]_vars PROVE SchedulerInv'
<1>1. CASE DispatchNext
    BY <1>1, DispatchNextStep
<1>2. ASSUME NEW e \in tasks, TaskEvent(e) PROVE SchedulerInv'
    <2>1. CASE Yielded(e)
        BY <2>1, YieldedStep
    <2>2. CASE Call(e)
        BY <2>2, CallStep
    <2>3. CASE Await(e)
        BY <2>3, AwaitStep
    <2>4. CASE Exited(e)
        BY <2>4, ExitedStep
    <2>5. ASSUME NEW key \in Keys \cup {NoKey}, Create(e, key) PROVE SchedulerInv'
        BY <2>5, CreateStep
    <2>6. ASSUME NEW t \in ThreadIds, Start(e, t) PROVE SchedulerInv'
        BY <2>6, StartStep
    <2>7. ASSUME NEW t \in ThreadIds, StartWithArguments(e, t) PROVE SchedulerInv'
        BY <2>7, StartWithArgumentsStep
    <2>8. ASSUME NEW t \in ThreadIds, Send(e, t) PROVE SchedulerInv'
        BY <2>8, SendStep
    <2> QED
        BY <1>2, <2>1, <2>2, <2>3, <2>4, <2>5, <2>6, <2>7, <2>8 DEF TaskEvent
<1>3. ASSUME NEW t \in ThreadIds, Complete(t) PROVE SchedulerInv'
    BY <1>3, CompleteStep
<1>4. ASSUME NEW t \in ThreadIds, CancelThread(t) PROVE SchedulerInv'
    BY <1>4, CancelThreadStep
<1>5. CASE UNCHANGED vars
    BY <1>5 DEF vars, SchedulerInv
<1> QED
    BY <1>1, <1>2, <1>3, <1>4, <1>5 DEF Next, Over

\* Whatever the threads do and in whatever order the host completes what they
\* wait for, the registry, the queue, the blocked set and the quotas of the
\* kernel agree with one another and with the tasks in flight.
THEOREM SchedulerInvariant == Spec => []SchedulerInv
<1>1. Init => SchedulerInv
    BY StartOfRuntime
<1>2. SchedulerInv /\ [Next]_vars => SchedulerInv'
    BY SchedulerStep
<1> QED
    BY <1>1, <1>2, PTL DEF Spec

\* A line has no thread twice.
LEMMA InjectiveLine == ASSUME NEW q, IsLine(q) PROVE IsInjective(q)
BY LineFacts DEF IsLine, IsInjective

\* The quotas and counters of the kernel are exact: VM states are neither lost
\* nor counted twice, an id that is free belongs to no thread, a key to one, and
\* the count that ends the execution is of the threads that live (register,
\* mark_exited, cancel, block, unblock).
THEOREM AccountsAreExact == Spec => []AccountingExact
<1>1. SchedulerInv => AccountingExact
    <2> SUFFICES ASSUME SchedulerInv PROVE AccountingExact
        OBVIOUS
    <2>1. RegistryInv(kernel) /\ QueuesInv(kernel)
        BY DEF SchedulerInv, KernelInv
    <2>2. status = "open" => kernel.threads = Cardinality(Parked) + Cardinality(tasks)
        BY DEF SchedulerInv, AllInHand, Covers, Parked, ParkedIn
    <2>3. IsInjective(kernel.queue)
        BY <2>1, InjectiveLine DEF QueuesInv
    <2> QED
        BY <2>1, <2>2, <2>3 DEF AccountingExact, RegistryInv, QueuesInv, Living
<1> QED
    BY <1>1, SchedulerInvariant, PTL

\* A running thread is always queued, in a task or blocked with a continuation
\* (park, block, unblock, resume_pending).
THEOREM NoThreadIsForgotten == Spec => []NobodyForgotten
<1>1. SchedulerInv => NobodyForgotten
    BY DEF SchedulerInv, AllInHand, Minded, NobodyForgotten, Parked
<1> QED
    BY <1>1, SchedulerInvariant, PTL

================================================================================
