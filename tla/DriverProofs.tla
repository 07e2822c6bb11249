----------------------------- MODULE DriverProofs ------------------------------
(***************************************************************************)
(* What holds of the native driver for every number of threads, workers    *)
(* and turns and every limit of the event bridge: events are numbered      *)
(* without gaps, the owner does not sleep on one, active_workers counts    *)
(* exactly the tasks that are not finished, and no virtual thread queues   *)
(* behind the workers.                                                     *)
(***************************************************************************)
EXTENDS NativeDriver, FiniteSetTheorems, SequenceTheorems, TLAPS

Task == [kind : {"thread", "provider"}, thread : Threads]
Message == [sequence : Nat, event : Events]
OwnerSteps == {"drain", "process", "resume", "dispatch", "step", "load", "wait",
               "committed", "asleep", "closed"}
WorkerStates == {"absent", "idle", "running", "done", "notifying"}

\* The number of the oldest event that is not drained.
First == next_sequence - Len(channel)

\* What a notification does to the owner.
Woken == owner' = owner \/ (owner = "asleep" /\ owner' = "wait")

\* The channel holds consecutive numbers, its length is what the lock guards,
\* the flag says whether there is anything in it, and the owner is past its
\* test only when there is not.
ChannelInv ==
    /\ channel \in Seq(Message)
    /\ next_sequence \in Nat
    /\ notification_pending \in BOOLEAN
    /\ owner \in OwnerSteps
    /\ pending = Len(channel)
    /\ First >= FIRST
    /\ \A i \in 1 .. Len(channel) : channel[i].sequence = First + i - 1
    /\ notification_pending <=> pending # 0
    /\ owner \in {"committed", "asleep"} => pending = 0

\* The drained events carry the numbers below, each once.
DrainedInv ==
    /\ pending_events \in SUBSET Message
    /\ IsFiniteSet(pending_events)
    /\ next_event_sequence \in Nat
    /\ next_event_sequence <= First
    /\ \A e \in pending_events : e.sequence \in next_event_sequence .. (First - 1)
    /\ \A n \in next_event_sequence .. (First - 1) : \E e \in pending_events : e.sequence = n
    /\ \A e, f \in pending_events : e.sequence = f.sequence => e = f

BridgeInv == ChannelInv /\ DrainedInv

WorkerTypes == [Pool -> [state : WorkerStates, task : SUBSET Task]]
BusyIn(workers) == {w \in Pool : workers[w].state \in {"running", "done"}}
FreeIn(workers) == {w \in Pool : workers[w].state \in {"absent", "idle", "notifying"}}

\* A worker has a task just when it runs one, active_workers counts the queue
\* and the busy workers, and the tasks of threads are ahead in the queue.
PoolInv ==
    /\ worker_queue \in Seq(Task)
    /\ worker \in WorkerTypes
    /\ \A w \in Pool : IF worker[w].state = "running"
                       THEN \E task \in Task : worker[w].task = {task}
                       ELSE worker[w].task = {}
    /\ active_workers = Len(worker_queue) + Cardinality(BusyIn(worker))
    /\ NoQueueingBehindWorkers

\* What dispatch_runnables still means to dispatch fits the pool.
CapacityInv ==
    /\ remaining \in Nat
    /\ owner \in {"resume", "dispatch"} /\ remaining > 0 =>
           active_workers + remaining <= Cardinality(Pool)

ThreadInv ==
    /\ thread \in [Threads -> {"runnable", "running", "blocked", "exited"}]
    /\ turns \in [Threads -> Nat]
    /\ runnable \in Seq(Threads)
    /\ hosted \in SUBSET Threads
    /\ lost \in SUBSET Threads

DriverInv == BridgeInv /\ PoolInv /\ CapacityInv /\ ThreadInv

-------------------------------------------------------------------------------
(* The bridge. *)

\* submit numbers an event and wakes the owner if it sleeps; a refused event
\* changes nothing.  The owner is where it was, unless it was asleep.
LEMMA DeliverChannel ==
    ASSUME ChannelInv, NEW e \in Events, Deliver(e)
    PROVE  ChannelInv' /\ First' = First /\ Woken
<1>1. CASE submit(e)
    <2> DEFINE m == [sequence |-> next_sequence, event |-> e]
    <2>1. channel \in Seq(Message) /\ m \in Message /\ channel' = Append(channel, m)
        BY <1>1 DEF ChannelInv, Message, submit
    <2>2. /\ channel' \in Seq(Message)
          /\ Len(channel') = Len(channel) + 1
          /\ \A i \in 1 .. Len(channel) : channel'[i] = channel[i]
          /\ channel'[Len(channel) + 1] = m
        BY <2>1, AppendProperties
    <2>3. First' = First /\ Len(channel) \in Nat /\ First \in Int
        BY <1>1, <2>1, <2>2 DEF ChannelInv, submit, First
    <2>4. \A i \in 1 .. Len(channel') : channel'[i].sequence = First' + i - 1
        <3>1. \A i \in 1 .. Len(channel) : channel'[i].sequence = First' + i - 1
            BY <2>2, <2>3 DEF ChannelInv
        <3>2. channel'[Len(channel) + 1].sequence = First' + (Len(channel) + 1) - 1
            BY <2>2, <2>3 DEF ChannelInv, First
        <3>3. \A i \in 1 .. Len(channel') : i \in 1 .. Len(channel) \/ i = Len(channel) + 1
            BY <2>2, <2>3
        <3> QED
            BY <3>1, <3>2, <3>3
    <2>5. owner' \in OwnerSteps /\ owner' \notin {"committed", "asleep"} /\ Woken
        BY <1>1 DEF ChannelInv, submit, Accepts, Unlocked, Notify, OwnerSteps, Woken
    <2> QED
        BY <1>1, <2>2, <2>3, <2>4, <2>5 DEF ChannelInv, submit
<1>2. CASE submit_refused
    BY <1>2 DEF submit_refused, bridgeVars, ChannelInv, First, Woken
<1> QED
    BY <1>1, <1>2 DEF Deliver

\* Nothing about the drained events depends on the channel but where it starts.
LEMMA DrainedFrame ==
    ASSUME DrainedInv, First' = First, UNCHANGED <<pending_events, next_event_sequence>>
    PROVE  DrainedInv'
BY DEF DrainedInv

\* drain empties the channel and process_events keeps what it held: no number
\* is below next_event_sequence.
LEMMA DrainBridge ==
    ASSUME BridgeInv, Drain
    PROVE  BridgeInv'
<1> USE DEF BridgeInv
<1> DEFINE n == Len(channel)
<1>1. n \in Nat /\ pending = n /\ channel' = <<>> /\ pending' = 0
    BY DEF ChannelInv, Drain, drain, Left
<1>2. /\ next_sequence \in Nat /\ next_sequence' = next_sequence
      /\ First' = next_sequence /\ First = next_sequence - n
    BY <1>1 DEF First, Drain, drain, ChannelInv
<1>3. /\ channel \in [1 .. n -> Message]
      /\ \A i \in 1 .. n : channel[i].sequence = First + i - 1
    BY DEF ChannelInv
<1>4. ToSet(channel) = {channel[i] : i \in 1 .. n}
    BY <1>3 DEF ToSet
<1>5. pending_events' = pending_events \cup ToSet(channel)
    <2>1. \A e \in ToSet(channel) : e.sequence >= next_event_sequence
        BY <1>1, <1>2, <1>3, <1>4 DEF DrainedInv, ChannelInv
    <2> QED
        BY <2>1 DEF Drain
<1>6. ChannelInv'
    <2>1. channel' \in Seq(Message) /\ Len(channel') = 0 /\ next_sequence' >= FIRST
        BY <1>1, <1>2 DEF ChannelInv, FIRST
    <2>2. notification_pending' = FALSE /\ owner' = "process"
        BY Zenon, <1>1 DEF Drain, drain, Left
    <2>3. \A i \in 1 .. Len(channel') : channel'[i].sequence = First' + i - 1
        BY <2>1
    <2>4. owner' \in OwnerSteps /\ (owner' \in {"committed", "asleep"} => pending' = 0)
        BY <1>1, <2>2 DEF OwnerSteps
    <2>5. notification_pending' \in BOOLEAN /\ (notification_pending' <=> pending' # 0)
        BY Zenon, <1>1, <2>2
    <2> QED
        BY <1>1, <1>2, <2>1, <2>3, <2>4, <2>5 DEF ChannelInv
<1>7. IsFiniteSet(pending_events')
    <2>1. ToSet(channel) \in SUBSET Message
        BY <1>3, <1>4
    <2>2. [i \in 1 .. n |-> channel[i]] \in Surjection(1 .. n, ToSet(channel))
        BY <1>3, <1>4 DEF Surjection
    <2>3. IsFiniteSet(ToSet(channel))
        BY <1>1, <2>2, FS_Interval, FS_Surjection
    <2> QED
        BY Zenon, <1>5, <2>3, FS_Union DEF DrainedInv
<1>8. DrainedInv'
    <2>1. next_event_sequence' = next_event_sequence /\ next_event_sequence \in Nat /\ First \in Int
        BY <1>1, <1>2 DEF Drain, DrainedInv, ChannelInv
    <2>2. pending_events' \in SUBSET Message
        BY <1>3, <1>4, <1>5 DEF DrainedInv
    <2>3. \A e \in pending_events' : e.sequence \in next_event_sequence' .. (First' - 1)
        BY <1>1, <1>2, <1>3, <1>4, <1>5, <2>1 DEF DrainedInv
    <2>4. ASSUME NEW k \in next_event_sequence' .. (First' - 1)
          PROVE  \E e \in pending_events' : e.sequence = k
        <3>1. CASE k < First
            BY <1>1, <1>2, <1>5, <2>1, <3>1 DEF DrainedInv
        <3>2. CASE k >= First
            <4>1. k - First + 1 \in 1 .. n
                BY <1>1, <1>2, <2>1, <3>2
            <4>2. channel[k - First + 1].sequence = k /\ channel[k - First + 1] \in ToSet(channel)
                BY <1>1, <1>3, <1>4, <2>1, <4>1
            <4> QED
                BY <1>5, <4>2
        <3> QED
            BY <2>1, <3>1, <3>2
    <2>5. ASSUME NEW e \in pending_events', NEW f \in pending_events', e.sequence = f.sequence
          PROVE  e = f
        BY <1>1, <1>3, <1>4, <1>5, <2>1, <2>5 DEF DrainedInv
    <2> QED
        BY <1>1, <1>2, <1>7, <2>1, <2>2, <2>3, <2>4, <2>5 DEF DrainedInv
<1> QED
    BY <1>6, <1>8

\* Handling the event that is next leaves the numbers that follow it.
LEMMA HandleDrained ==
    ASSUME DrainedInv, First \in Int, First' = First, NEW e \in NextEvents,
           pending_events' = pending_events \ {e},
           next_event_sequence' = next_event_sequence + 1
    PROVE  DrainedInv'
<1>1. e \in pending_events /\ e.sequence = next_event_sequence /\ next_event_sequence \in Nat
    BY DEF NextEvents, DrainedInv
<1>2. next_event_sequence \in next_event_sequence .. (First - 1)
    BY <1>1 DEF DrainedInv
<1>3. IsFiniteSet(pending_events')
    BY FS_RemoveElement DEF DrainedInv
<1> QED
    BY <1>1, <1>2, <1>3 DEF DrainedInv

-------------------------------------------------------------------------------
(* The pool. *)

\* Every worker is free or busy.
LEMMA PoolParts ==
    ASSUME NEW f \in WorkerTypes
    PROVE  /\ IsFiniteSet(BusyIn(f)) /\ IsFiniteSet(FreeIn(f))
           /\ Cardinality(BusyIn(f)) \in Nat /\ Cardinality(FreeIn(f)) \in Nat
           /\ Cardinality(Pool) \in Nat
           /\ Cardinality(BusyIn(f)) + Cardinality(FreeIn(f)) = Cardinality(Pool)
<1>1. BusyIn(f) \in SUBSET Pool /\ FreeIn(f) \in SUBSET Pool
    BY DEF BusyIn, FreeIn
<1>2. BusyIn(f) \cup FreeIn(f) = Pool /\ BusyIn(f) \cap FreeIn(f) = {}
    BY DEF BusyIn, FreeIn, WorkerTypes, WorkerStates
<1>3. IsFiniteSet(Pool)
    BY DriverAssumption
<1>4. IsFiniteSet(BusyIn(f)) /\ IsFiniteSet(FreeIn(f))
    BY <1>1, <1>3, FS_Subset
<1>5. /\ Cardinality(BusyIn(f)) \in Nat /\ Cardinality(FreeIn(f)) \in Nat
      /\ Cardinality(Pool) \in Nat
    BY <1>3, <1>4, FS_CardinalityType
<1>6. Cardinality(Pool) = Cardinality(BusyIn(f)) + Cardinality(FreeIn(f)) - 0
    BY <1>2, <1>4, FS_Union, FS_EmptySet
<1> QED
    BY <1>4, <1>5, <1>6

\* One more worker is busy.
LEMMA OneMoreBusy ==
    ASSUME NEW f \in WorkerTypes, NEW g \in WorkerTypes, NEW w \in Pool,
           \A v \in Pool \ {w} : g[v] = f[v], w \notin BusyIn(f), w \in BusyIn(g)
    PROVE  /\ Cardinality(BusyIn(g)) = Cardinality(BusyIn(f)) + 1
           /\ Cardinality(FreeIn(f)) = Cardinality(FreeIn(g)) + 1
<1>1. BusyIn(g) = BusyIn(f) \cup {w}
    BY DEF BusyIn
<1>2. Cardinality(BusyIn(g)) = Cardinality(BusyIn(f)) + 1
    BY Zenon, <1>1, PoolParts, FS_AddElement
<1> QED
    BY <1>2, PoolParts

\* A task's run, on a worker or on the owner: the bridge and the driver's own
\* sets stay well-formed, and at most a sleeping owner is woken.
LEMMA RunTaskSteps ==
    ASSUME ChannelInv, ThreadInv, NEW task \in Task, RunTask(task)
    PROVE  /\ ChannelInv' /\ First' = First
           /\ Woken
           /\ turns' \in [Threads -> Nat]
           /\ hosted' \in SUBSET Threads
           /\ lost' \in SUBSET Threads
<1> DEFINE t == task.thread
<1>1. t \in Threads
    BY DEF Task
<1>2. \A kind \in {"yielded", "syscall", "exited", "completed"} :
          [kind |-> kind, thread |-> t] \in Events
    BY <1>1, DriverAssumption
<1>3. ASSUME NEW kind \in {"yielded", "syscall", "exited", "completed"},
             Deliver([kind |-> kind, thread |-> t])
      PROVE  /\ ChannelInv' /\ First' = First
             /\ Woken
             /\ lost' \in SUBSET Threads
    BY <1>1, <1>2, <1>3, DeliverChannel DEF Deliver, ThreadInv
<1>4. CASE RunThread(t)
    BY <1>1, <1>3, <1>4 DEF RunThread, ThreadInv
<1>5. CASE RunProvider(t)
    <2>1. CASE Deliver([kind |-> "completed", thread |-> t]) /\ UNCHANGED <<turns, hosted>>
        BY <1>1, <1>3, <2>1 DEF ThreadInv
    <2>2. CASE hosted' = hosted \cup {t} /\ UNCHANGED <<bridgeVars, owner, turns, lost>>
        BY <1>1, <2>2 DEF ThreadInv, bridgeVars, ChannelInv, First, Woken
    <2> QED
        BY <1>5, <2>1, <2>2 DEF RunProvider
<1> QED
    BY <1>4, <1>5 DEF RunTask

\* dispatch: the task joins the queue or, without a worker, runs at once.  A
\* virtual thread is only dispatched when the pool has room for it.
LEMMA DispatchPool ==
    ASSUME ChannelInv, PoolInv, ThreadInv, owner # "asleep", NEW task \in Task, dispatch(task),
           task.kind = "thread" => active_workers + 1 <= Cardinality(Pool)
    PROVE  /\ ChannelInv' /\ First' = First /\ owner' = owner
           /\ PoolInv'
           /\ active_workers' \in {active_workers, active_workers + 1}
           /\ turns' \in [Threads -> Nat]
           /\ hosted' \in SUBSET Threads
           /\ lost' \in SUBSET Threads
<1>1. PICK new \in Spawns(active_workers + 1) :
          /\ worker' = [w \in Pool |-> IF w \in new THEN [worker[w] EXCEPT !.state = "idle"]
                                                    ELSE worker[w]]
          /\ IF Unspawned # Pool \/ new # {}
             THEN /\ active_workers' = active_workers + 1
                  /\ worker_queue' = Append(worker_queue, task)
                  /\ UNCHANGED <<bridgeVars, owner, taskVars>>
             ELSE /\ RunTask(task)
                  /\ UNCHANGED <<active_workers, worker_queue>>
    BY DEF dispatch
<1>2. new \in SUBSET Unspawned
    <2>1. new = {} \/ new \in SUBSET Unspawned
        BY DEF Spawns
    <2> QED
        BY <2>1
<1>3. /\ worker' \in WorkerTypes
      /\ \A w \in Pool : IF worker'[w].state = "running"
                         THEN \E k \in Task : worker'[w].task = {k}
                         ELSE worker'[w].task = {}
      /\ BusyIn(worker') = BusyIn(worker) /\ FreeIn(worker') = FreeIn(worker)
    <2>1. ASSUME NEW w \in Pool
          PROVE  /\ worker'[w] \in [state : WorkerStates, task : SUBSET Task]
                 /\ worker'[w].task = worker[w].task
                 /\ \/ worker'[w].state = worker[w].state
                    \/ worker[w].state = "absent" /\ worker'[w].state = "idle"
        BY <1>1, <1>2 DEF PoolInv, WorkerTypes, WorkerStates, Unspawned
    <2>2. \A w \in Pool : worker'[w] \in [state : WorkerStates, task : SUBSET Task]
        BY <2>1
    <2>3. worker' \in WorkerTypes
        BY <1>1, <2>2 DEF WorkerTypes
    <2>4. \A w \in Pool : IF worker'[w].state = "running"
                         THEN \E k \in Task : worker'[w].task = {k}
                         ELSE worker'[w].task = {}
        BY <2>1 DEF PoolInv
    <2>5. BusyIn(worker') = BusyIn(worker)
        BY <2>1 DEF BusyIn
    <2>6. FreeIn(worker') = FreeIn(worker)
        BY <2>1 DEF FreeIn
    <2> QED
        BY <2>3, <2>4, <2>5, <2>6
<1>4. /\ Cardinality(BusyIn(worker)) \in Nat /\ Cardinality(FreeIn(worker)) \in Nat
      /\ Cardinality(Pool) \in Nat /\ Len(worker_queue) \in Nat /\ active_workers \in Nat
      /\ Cardinality(BusyIn(worker)) + Cardinality(FreeIn(worker)) = Cardinality(Pool)
    BY PoolParts DEF PoolInv
<1>5. CASE Unspawned # Pool \/ new # {}
    <2>1. /\ active_workers' = active_workers + 1
          /\ worker_queue' = Append(worker_queue, task)
          /\ UNCHANGED <<bridgeVars, owner, taskVars>>
        BY <1>1, <1>5
    <2>2. worker_queue \in Seq(Task)
        BY DEF PoolInv
    <2>3. /\ worker_queue' \in Seq(Task)
          /\ Len(worker_queue') = Len(worker_queue) + 1
          /\ \A i \in 1 .. Len(worker_queue) : worker_queue'[i] = worker_queue[i]
          /\ worker_queue'[Len(worker_queue) + 1] = task
        BY <2>1, <2>2, AppendProperties
    <2>4. NoQueueingBehindWorkers'
        <3>1. ASSUME NEW i \in 1 .. Len(worker_queue'), worker_queue'[i].kind = "thread"
              PROVE  i <= Cardinality(FreeIn(worker'))
            <4>1. CASE i \in 1 .. Len(worker_queue)
                BY <1>3, <2>2, <2>3, <3>1, <4>1 DEF PoolInv, NoQueueingBehindWorkers, FreeIn
            <4>2. CASE i = Len(worker_queue) + 1
                BY <1>3, <1>4, <2>3, <3>1, <4>2 DEF PoolInv
            <4> QED
                BY <1>4, <2>3, <4>1, <4>2
        <3> QED
            BY <2>3, <3>1 DEF NoQueueingBehindWorkers, FreeIn
    <2>5. PoolInv'
        BY <1>3, <1>4, <2>1, <2>3, <2>4 DEF PoolInv
    <2> QED
        BY <2>1, <2>5 DEF bridgeVars, taskVars, ChannelInv, First, ThreadInv
<1>6. CASE ~(Unspawned # Pool \/ new # {})
    <2>1. RunTask(task) /\ UNCHANGED <<active_workers, worker_queue>>
        BY <1>1, <1>6
    <2>2. PoolInv'
        BY <1>3, <2>1 DEF PoolInv, NoQueueingBehindWorkers, FreeIn
    <2> QED
        BY <2>1, <2>2, RunTaskSteps DEF Woken
<1> QED
    BY <1>5, <1>6

(* The steps of the driver keep DriverInv. *)

\* The driver as NativeDriver::new leaves it.
LEMMA DriverInitInv == DriverInit => DriverInv
<1> SUFFICES ASSUME DriverInit PROVE DriverInv
    OBVIOUS
<1> USE DEF DriverInit, DriverStart
<1>1. ChannelInv /\ First = 1
    <2>1. channel \in Seq(Message) /\ Len(channel) = 0 /\ First = 1
        BY EmptySeq DEF BridgeInit, First, FIRST
    <2>2. \A i \in 1 .. Len(channel) : channel[i].sequence = First + i - 1
        BY <2>1
    <2>3. owner \in OwnerSteps /\ owner \notin {"committed", "asleep"}
        BY DEF OwnerSteps
    <2>4. notification_pending \in BOOLEAN /\ (notification_pending <=> pending # 0)
        BY Zenon DEF BridgeInit
    <2>5. next_sequence \in Nat /\ pending = Len(channel) /\ First >= FIRST
        BY <2>1 DEF BridgeInit, FIRST
    <2> QED
        BY <2>1, <2>2, <2>3, <2>4, <2>5 DEF ChannelInv
<1>2. DrainedInv
    BY <1>1, FS_EmptySet DEF DrainedInv, FIRST
<1>3. PoolInv
    <2>1. worker \in WorkerTypes /\ BusyIn(worker) = {}
        BY DEF WorkerTypes, WorkerStates, BusyIn
    <2>2. worker_queue \in Seq(Task) /\ DOMAIN worker_queue = {} /\ Len(worker_queue) = 0
        BY EmptySeq
    <2>3. NoQueueingBehindWorkers
        BY <2>2 DEF NoQueueingBehindWorkers
    <2>4. \A w \in Pool : worker[w].state # "running" /\ worker[w].task = {}
        OBVIOUS
    <2>5. active_workers = Len(worker_queue) + Cardinality(BusyIn(worker))
        <3>1. Cardinality(BusyIn(worker)) = 0
            BY Zenon, <2>1, FS_EmptySet
        <3> QED
            BY <2>2, <3>1
    <2> QED
        BY Zenon, <2>1, <2>2, <2>3, <2>4, <2>5 DEF PoolInv
<1>4. CapacityInv
    BY DEF CapacityInv
<1>5. ThreadInv
    <2>1. Cardinality(Threads) \in Nat /\ ExistsBijection(1 .. Cardinality(Threads), Threads)
        BY DriverAssumption, FS_CardinalityType
    <2>2. PICK f \in [1 .. Cardinality(Threads) -> Threads] : IsInjective(f)
        BY <2>1 DEF ExistsBijection, Bijection, Injection, IsInjective
    <2>3. SetToSeq(Threads) \in [1 .. Cardinality(Threads) -> Threads]
        BY <2>2 DEF SetToSeq
    <2>4. runnable \in Seq(Threads)
        BY <2>1, <2>3
    <2> QED
        BY <2>4 DEF ThreadInv
<1> QED
    BY <1>1, <1>2, <1>3, <1>4, <1>5 DEF DriverInv, BridgeInv

\* A step that leaves the worker pool alone.
LEMMA PoolFrame ==
    ASSUME PoolInv, UNCHANGED poolVars
    PROVE  PoolInv'
BY DEF PoolInv, poolVars, NoQueueingBehindWorkers

\* A step that leaves the orchestrator's threads and tasks alone.
LEMMA ThreadFrame ==
    ASSUME ThreadInv, UNCHANGED <<threadVars, taskVars>>
    PROVE  ThreadInv'
BY DEF ThreadInv, threadVars, taskVars

\* What is left of the pool is what may be dispatched.
LEMMA CapacityFits ==
    ASSUME PoolInv
    PROVE  /\ available_task_capacity \in Nat
           /\ available_task_capacity > 0 =>
                  active_workers + available_task_capacity <= Cardinality(Pool)
<1>1. active_workers \in Nat /\ Cardinality(Pool) \in Nat
    BY PoolParts DEF PoolInv
<1> QED
    BY <1>1 DEF available_task_capacity

\* The loop drains the event bridge.
LEMMA DrainStep ==
    ASSUME DriverInv, Drain
    PROVE  DriverInv'
<1>1. BridgeInv'
    BY DrainBridge DEF DriverInv
<1>2. CapacityInv'
    BY DEF DriverInv, CapacityInv, Drain
<1> QED
    BY <1>1, <1>2, PoolFrame, ThreadFrame DEF DriverInv, Drain

\* One event is handled: the thread is queued, its provider is dispatched or it
\* is gone.
LEMMA ProcessEventStep ==
    ASSUME DriverInv, ProcessEvent
    PROVE  DriverInv'
<1> USE DEF DriverInv, BridgeInv
<1>1. PICK e \in NextEvents :
        /\ pending_events' = pending_events \ {e}
        /\ next_event_sequence' = next_event_sequence + 1
        /\ \/ e.event.kind = "yielded" /\ Handle_Yielded(e.event.thread)
           \/ e.event.kind = "syscall" /\ Handle_Syscall(e.event.thread)
           \/ e.event.kind = "exited" /\ Handle_Exited(e.event.thread)
           \/ e.event.kind = "completed" /\ Handle_Completed(e.event.thread)
    BY DEF ProcessEvent
<1> DEFINE t == e.event.thread
<1>2. t \in Threads /\ owner = "process" /\ First \in Int
    <2>1. e.event \in Events
        BY DEF NextEvents, DrainedInv, Message
    <2> QED
        BY <2>1, DriverAssumption DEF ProcessEvent, ChannelInv, First
<1>3. First' = First => DrainedInv'
    BY <1>1, <1>2, HandleDrained
<1>4. CASE Handle_Yielded(t)
    <2>1. ChannelInv' /\ First' = First
        BY <1>4 DEF Handle_Yielded, bridgeVars, ChannelInv, First
    <2>2. ThreadInv'
        BY <1>2, <1>4 DEF Handle_Yielded, Enqueue, taskVars, ThreadInv
    <2>3. CapacityInv'
        BY <1>2, <1>4 DEF Handle_Yielded, CapacityInv
    <2> QED
        BY <1>3, <1>4, <2>1, <2>2, <2>3, PoolFrame DEF Handle_Yielded
<1>5. CASE Handle_Syscall(t)
    <2>1. [kind |-> "provider", thread |-> t] \in Task
        BY <1>2 DEF Task
    <2>2. /\ ChannelInv' /\ First' = First /\ owner' = owner /\ PoolInv'
          /\ turns' \in [Threads -> Nat]
          /\ hosted' \in SUBSET Threads
          /\ lost' \in SUBSET Threads
        BY <1>2, <1>5, <2>1, DispatchPool DEF Handle_Syscall
    <2>3. CapacityInv'
        BY <1>2, <1>5, <2>2 DEF Handle_Syscall, CapacityInv
    <2>4. ThreadInv'
        BY Zenon, <1>2, <1>5, <2>2 DEF Handle_Syscall, ThreadInv
    <2> QED
        BY <1>3, <2>2, <2>3, <2>4
<1>6. CASE Handle_Exited(t)
    <2>1. ChannelInv' /\ First' = First
        BY <1>6 DEF Handle_Exited, bridgeVars, ChannelInv, First
    <2>2. ThreadInv'
        BY <1>2, <1>6 DEF Handle_Exited, taskVars, ThreadInv
    <2>3. CapacityInv'
        BY <1>2, <1>6 DEF Handle_Exited, CapacityInv
    <2> QED
        BY <1>3, <1>6, <2>1, <2>2, <2>3, PoolFrame DEF Handle_Exited
<1>7. CASE Handle_Completed(t)
    <2>1. ChannelInv' /\ First' = First
        BY <1>2, <1>7 DEF Handle_Completed, bridgeVars, ChannelInv, First, OwnerSteps
    <2>2. ThreadInv'
        BY <1>2, <1>7 DEF Handle_Completed, Enqueue, taskVars, ThreadInv
    <2>3. CapacityInv'
        BY <1>7, CapacityFits DEF Handle_Completed, CapacityInv, poolVars
    <2> QED
        BY <1>3, <1>7, <2>1, <2>2, <2>3, PoolFrame DEF Handle_Completed
<1> QED
    BY <1>1, <1>4, <1>5, <1>6, <1>7

\* The loop has handled the events it drained.
LEMMA EventsProcessedStep ==
    ASSUME DriverInv, EventsProcessed
    PROVE  DriverInv'
<1> USE DEF DriverInv, BridgeInv
<1>1. ChannelInv' /\ First' = First
    BY DEF EventsProcessed, bridgeVars, ChannelInv, First, OwnerSteps
<1>2. CapacityInv'
    BY CapacityFits DEF EventsProcessed, CapacityInv, poolVars
<1> QED
    BY <1>1, <1>2, DrainedFrame, PoolFrame, ThreadFrame DEF EventsProcessed

\* dispatch_runnables, one turn: what remains shrinks as the pool fills.
LEMMA DispatchRunnableStep ==
    ASSUME DriverInv, DispatchRunnable
    PROVE  DriverInv'
<1> USE DEF DriverInv, BridgeInv
<1> DEFINE t == Head(runnable)
           task == [kind |-> "thread", thread |-> t]
<1>1. /\ owner \in {"resume", "dispatch"} /\ remaining > 0
      /\ thread' = [thread EXCEPT ![t] = "running"] /\ dispatch(task)
      /\ runnable' = Tail(runnable) /\ remaining' = remaining - 1
      /\ UNCHANGED <<pending_events, next_event_sequence>>
    BY DEF DispatchRunnable
<1>2. t \in Threads /\ Tail(runnable) \in Seq(Threads)
    BY HeadTailProperties DEF DispatchRunnable, ThreadInv
<1>3. active_workers \in Nat /\ Cardinality(Pool) \in Nat /\ remaining \in Nat
    BY PoolParts DEF PoolInv, CapacityInv
<1>4. active_workers + remaining <= Cardinality(Pool)
    BY <1>1 DEF CapacityInv
<1>5. /\ ChannelInv' /\ First' = First /\ owner' = owner /\ PoolInv'
      /\ active_workers' \in {active_workers, active_workers + 1}
      /\ turns' \in [Threads -> Nat]
      /\ hosted' \in SUBSET Threads
      /\ lost' \in SUBSET Threads
    <2>1. task \in Task
        BY <1>2 DEF Task
    <2>2. active_workers + 1 <= Cardinality(Pool)
        BY <1>1, <1>3, <1>4
    <2> QED
        BY <1>1, <2>1, <2>2, DispatchPool
<1>6. CapacityInv'
    BY <1>1, <1>3, <1>4, <1>5 DEF CapacityInv
<1>7. ThreadInv'
    BY Zenon, <1>1, <1>2, <1>5 DEF ThreadInv
<1> QED
    BY <1>1, <1>5, <1>6, <1>7, DrainedFrame

\* The owner's steps that change nothing but where it is.
LEMMA OwnerMoves ==
    ASSUME DriverInv, DispatchEnds \/ Step \/ LoadActive \/ WaitTest \/ WaitSleep \/ SpuriousWakeup
    PROVE  DriverInv'
<1> USE DEF DriverInv, BridgeInv
<1>1. /\ UNCHANGED <<bridgeVars, loopVars, threadVars, poolVars, taskVars>>
      /\ owner' \in OwnerSteps /\ owner' \notin {"resume", "dispatch"}
      /\ owner' \in {"committed", "asleep"} => pending = 0
    BY DEF DispatchEnds, Step, LoadActive, WaitTest, WaitSleep, SpuriousWakeup, wait_test,
           wait_sleep, wait_spurious, OwnerSteps, ChannelInv
<1>2. ChannelInv' /\ First' = First
    BY <1>1 DEF bridgeVars, ChannelInv, First
<1>3. CapacityInv'
    BY <1>1 DEF loopVars, CapacityInv
<1> QED
    BY <1>1, <1>2, <1>3, DrainedFrame, PoolFrame, ThreadFrame DEF loopVars

\* A worker takes the task at the head: the queue moves up as a worker that was
\* free becomes busy.
LEMMA RecvStep ==
    ASSUME DriverInv, NEW w \in Pool, Recv(w)
    PROVE  DriverInv'
<1> USE DEF DriverInv, BridgeInv
<1>1. /\ worker_queue \in Seq(Task) /\ worker_queue # <<>> /\ worker_queue' = Tail(worker_queue)
      /\ worker' = [worker EXCEPT ![w] = [state |-> "running", task |-> {Head(worker_queue)}]]
      /\ worker \in WorkerTypes /\ worker[w].state = "idle"
    BY DEF Recv, PoolInv
<1>2. /\ Head(worker_queue) \in Task /\ worker_queue' \in Seq(Task)
      /\ Len(worker_queue') = Len(worker_queue) - 1 /\ Len(worker_queue) \in Nat
      /\ \A i \in 1 .. Len(worker_queue') : worker_queue'[i] = worker_queue[i + 1]
    BY <1>1, HeadTailProperties, LenProperties
<1>3. /\ worker' \in WorkerTypes
      /\ \A v \in Pool \ {w} : worker'[v] = worker[v]
      /\ worker'[w] = [state |-> "running", task |-> {Head(worker_queue)}]
    BY <1>1, <1>2 DEF WorkerTypes, WorkerStates
<1>4. /\ Cardinality(BusyIn(worker')) = Cardinality(BusyIn(worker)) + 1
      /\ Cardinality(FreeIn(worker)) = Cardinality(FreeIn(worker')) + 1
    <2>1. w \notin BusyIn(worker) /\ w \in BusyIn(worker')
        BY <1>1, <1>3 DEF BusyIn
    <2> QED
        BY Zenon, <1>1, <1>3, <2>1, OneMoreBusy
<1>5. /\ Cardinality(BusyIn(worker)) \in Nat /\ Cardinality(FreeIn(worker)) \in Nat
      /\ Cardinality(FreeIn(worker')) \in Nat
    BY <1>1, <1>3, PoolParts
<1>6. NoQueueingBehindWorkers'
    <2>1. ASSUME NEW i \in 1 .. Len(worker_queue'), worker_queue'[i].kind = "thread"
          PROVE  i <= Cardinality(FreeIn(worker'))
        <3>1. i + 1 \in DOMAIN worker_queue /\ worker_queue[i + 1].kind = "thread"
            BY <1>1, <1>2, <2>1
        <3>2. i + 1 <= Cardinality(FreeIn(worker))
            BY <3>1 DEF PoolInv, NoQueueingBehindWorkers, FreeIn
        <3> QED
            BY <1>4, <1>5, <3>2
    <2> QED
        BY <1>2, <2>1 DEF NoQueueingBehindWorkers, FreeIn
<1>7. PoolInv'
    <2>1. active_workers' = Len(worker_queue') + Cardinality(BusyIn(worker'))
        BY <1>2, <1>4, <1>5 DEF Recv, PoolInv
    <2>2. ASSUME NEW v \in Pool
          PROVE  IF worker'[v].state = "running"
                 THEN \E task \in Task : worker'[v].task = {task}
                 ELSE worker'[v].task = {}
        <3>1. CASE v = w
            BY <1>2, <1>3, <3>1
        <3>2. CASE v # w
            BY <1>3, <3>2 DEF PoolInv
        <3> QED
            BY <3>1, <3>2
    <2> QED
        BY <1>2, <1>3, <1>6, <2>1, <2>2 DEF PoolInv
<1>8. ChannelInv' /\ First' = First /\ CapacityInv'
    BY DEF Recv, bridgeVars, loopVars, ChannelInv, First, CapacityInv
<1> QED
    BY <1>7, <1>8, DrainedFrame, ThreadFrame DEF Recv, loopVars

\* A worker that changes its state and stays free or busy changes nothing of
\* what is counted.
LEMMA RunStep ==
    ASSUME DriverInv, NEW w \in Pool, Run(w)
    PROVE  DriverInv'
<1> USE DEF DriverInv, BridgeInv
<1>1. PICK task \in worker[w].task : RunTask(task)
    BY DEF Run
<1>2. task \in Task
    BY <1>1 DEF PoolInv, WorkerTypes
<1>3. /\ ChannelInv' /\ First' = First
      /\ Woken
      /\ turns' \in [Threads -> Nat]
      /\ hosted' \in SUBSET Threads
      /\ lost' \in SUBSET Threads
    BY <1>1, <1>2, RunTaskSteps
<1>4. /\ worker' \in WorkerTypes
      /\ \A v \in Pool \ {w} : worker'[v] = worker[v]
      /\ worker[w].state = "running" /\ worker'[w] = [state |-> "done", task |-> {}]
    BY DEF Run, PoolInv, WorkerTypes, WorkerStates
<1>5. BusyIn(worker') = BusyIn(worker) /\ FreeIn(worker') = FreeIn(worker)
    BY <1>4 DEF BusyIn, FreeIn
<1>6. PoolInv'
    <2>1. NoQueueingBehindWorkers'
        BY <1>5 DEF Run, PoolInv, NoQueueingBehindWorkers, FreeIn
    <2> QED
        BY <1>4, <1>5, <2>1 DEF Run, PoolInv
<1>7. CapacityInv'
    <2>1. owner' = owner \/ owner' = "wait"
        BY <1>3 DEF Woken
    <2> QED
        BY <2>1 DEF Run, loopVars, CapacityInv
<1>8. ThreadInv'
    BY <1>3 DEF Run, threadVars, ThreadInv
<1> QED
    BY <1>3, <1>6, <1>7, <1>8, DrainedFrame DEF Run, loopVars

\* A worker counts itself out of active_workers when its task is finished.
LEMMA DecrementStep ==
    ASSUME DriverInv, NEW w \in Pool, Decrement(w)
    PROVE  DriverInv'
<1> USE DEF DriverInv, BridgeInv
<1>1. /\ worker' \in WorkerTypes /\ worker \in WorkerTypes
      /\ \A v \in Pool \ {w} : worker'[v] = worker[v]
      /\ worker[w].state = "done" /\ worker'[w].state = "notifying"
      /\ worker'[w].task = worker[w].task
    BY DEF Decrement, PoolInv, WorkerTypes, WorkerStates
<1>2. /\ Cardinality(BusyIn(worker)) = Cardinality(BusyIn(worker')) + 1
      /\ Cardinality(FreeIn(worker')) = Cardinality(FreeIn(worker)) + 1
    <2>1. w \in BusyIn(worker) /\ w \notin BusyIn(worker')
        BY <1>1 DEF BusyIn
    <2> QED
        BY <1>1, <2>1, OneMoreBusy
<1>3. /\ Cardinality(BusyIn(worker)) \in Nat /\ Cardinality(FreeIn(worker)) \in Nat
      /\ Cardinality(BusyIn(worker')) \in Nat /\ Len(worker_queue) \in Nat
      /\ Cardinality(Pool) \in Nat /\ DOMAIN worker_queue = 1 .. Len(worker_queue)
    BY <1>1, PoolParts DEF PoolInv
<1>4. NoQueueingBehindWorkers'
    <2>1. \A i \in DOMAIN worker_queue : worker_queue[i].kind = "thread" =>
              i <= Cardinality(FreeIn(worker))
        BY DEF PoolInv, NoQueueingBehindWorkers, FreeIn
    <2>2. \A i \in DOMAIN worker_queue : worker_queue[i].kind = "thread" =>
              i <= Cardinality(FreeIn(worker'))
        BY <1>2, <1>3, <2>1
    <2> QED
        BY <2>2 DEF Decrement, NoQueueingBehindWorkers, FreeIn
<1>5. PoolInv'
    <2>1. active_workers' = Len(worker_queue') + Cardinality(BusyIn(worker'))
        BY <1>2, <1>3 DEF Decrement, PoolInv
    <2>2. \A v \in Pool : IF worker'[v].state = "running"
                         THEN \E task \in Task : worker'[v].task = {task}
                         ELSE worker'[v].task = {}
        BY <1>1 DEF PoolInv
    <2> QED
        BY <1>1, <1>4, <2>1, <2>2 DEF Decrement, PoolInv
<1>6. ChannelInv' /\ First' = First
    BY DEF Decrement, bridgeVars, ChannelInv, First
<1>7. CapacityInv'
    <2>1. active_workers \in Nat /\ active_workers' = active_workers - 1
        BY <1>3 DEF Decrement, PoolInv
    <2> QED
        BY <1>3, <2>1 DEF Decrement, loopVars, CapacityInv
<1> QED
    BY <1>5, <1>6, <1>7, DrainedFrame, ThreadFrame DEF Decrement, loopVars

\* notify_waiters wakes the owner, with or without an event.
LEMMA NotifyStep ==
    ASSUME DriverInv, NEW w \in Pool, NotifyWaiters(w)
    PROVE  DriverInv'
<1> USE DEF DriverInv, BridgeInv
<1>1. ChannelInv' /\ First' = First /\ Woken
    BY DEF NotifyWaiters, notify_waiters, Notify, bridgeVars, ChannelInv, First, OwnerSteps, Woken
<1>2. CapacityInv'
    BY <1>1 DEF NotifyWaiters, loopVars, CapacityInv, Woken
<1>3. /\ worker' \in WorkerTypes
      /\ \A v \in Pool \ {w} : worker'[v] = worker[v]
      /\ worker[w].state = "notifying" /\ worker'[w].state = "idle"
      /\ worker'[w].task = worker[w].task
    BY DEF NotifyWaiters, PoolInv, WorkerTypes, WorkerStates
<1>4. BusyIn(worker') = BusyIn(worker) /\ FreeIn(worker') = FreeIn(worker)
    BY <1>3 DEF BusyIn, FreeIn
<1>5. PoolInv'
    <2>1. NoQueueingBehindWorkers'
        BY <1>4 DEF NotifyWaiters, PoolInv, NoQueueingBehindWorkers, FreeIn
    <2>2. \A v \in Pool : IF worker'[v].state = "running"
                         THEN \E task \in Task : worker'[v].task = {task}
                         ELSE worker'[v].task = {}
        BY <1>3 DEF PoolInv
    <2> QED
        BY <1>3, <1>4, <2>1, <2>2 DEF NotifyWaiters, PoolInv
<1> QED
    BY <1>1, <1>2, <1>5, DrainedFrame, ThreadFrame DEF NotifyWaiters, loopVars

\* The host completes what a thread waits for, from a thread of its own.
LEMMA HostStep ==
    ASSUME DriverInv, NEW t \in Threads, HostCompletes(t)
    PROVE  DriverInv'
<1> USE DEF DriverInv, BridgeInv
<1>1. [kind |-> "completed", thread |-> t] \in Events
    BY DriverAssumption
<1>2. ChannelInv' /\ First' = First /\ Woken
    BY <1>1, DeliverChannel DEF HostCompletes
<1>3. CapacityInv'
    BY <1>2 DEF HostCompletes, loopVars, poolVars, CapacityInv, Woken
<1>4. ThreadInv'
    BY DEF HostCompletes, Deliver, threadVars, ThreadInv
<1> QED
    BY <1>2, <1>3, <1>4, DrainedFrame, PoolFrame DEF HostCompletes, loopVars

\* The numbers of the drained events are as many as the events.
LEMMA DrainedCount ==
    ASSUME DrainedInv
    PROVE  Cardinality({e.sequence : e \in pending_events}) = Cardinality(pending_events)
<1> DEFINE S == {e.sequence : e \in pending_events}
           f == [e \in pending_events |-> e.sequence]
<1>1. f \in Bijection(pending_events, S)
    BY DEF DrainedInv, Bijection, Injection, Surjection, IsInjective
<1>2. ExistsBijection(pending_events, S)
    BY <1>1 DEF ExistsBijection
<1> QED
    BY <1>2, FS_Bijection DEF DrainedInv

\* DriverInv holds in every reachable state of the driver.
THEOREM DriverInvariant_Holds == DriverSpec => []DriverInv
<1>1. DriverInv /\ [DriverNext]_driverVars => DriverInv'
    <2> SUFFICES ASSUME DriverInv, [DriverNext]_driverVars PROVE DriverInv'
        OBVIOUS
    <2>1. CASE OwnerNext
        BY <2>1, DrainStep, ProcessEventStep, EventsProcessedStep, DispatchRunnableStep, OwnerMoves
           DEF OwnerNext
    <2>2. CASE SpuriousWakeup
        BY <2>2, OwnerMoves
    <2>3. ASSUME NEW w \in Pool, WorkerNext(w) PROVE DriverInv'
        BY <2>3, RecvStep, RunStep, DecrementStep, NotifyStep DEF WorkerNext
    <2>4. ASSUME NEW t \in Threads, HostCompletes(t) PROVE DriverInv'
        BY <2>4, HostStep
    <2>5. CASE UNCHANGED driverVars
        <3>1. ChannelInv' /\ First' = First /\ CapacityInv'
            BY <2>5 DEF driverVars, bridgeVars, loopVars, poolVars, DriverInv, BridgeInv,
                        ChannelInv, First, CapacityInv
        <3> QED
            BY <2>5, <3>1, DrainedFrame, PoolFrame, ThreadFrame
               DEF driverVars, loopVars, DriverInv, BridgeInv
    <2> QED
        BY <2>1, <2>2, <2>3, <2>4, <2>5 DEF DriverNext, Closed
<1> QED
    BY <1>1, DriverInitInv, PTL DEF DriverSpec

\* Events are numbered without gap or repetition, from the one process_events
\* waits for to the next one that submit will number.
THEOREM EventsInOrder == DriverSpec => []DeliveredInOrder
<1>1. DriverInv => DeliveredInOrder
    <2> SUFFICES ASSUME DriverInv PROVE DeliveredInOrder
        OBVIOUS
    <2> USE DEF DriverInv, BridgeInv
    <2>1. {e.sequence : e \in pending_events} = next_event_sequence .. (First - 1)
        BY DEF DrainedInv
    <2>2. DOMAIN channel = 1 .. Len(channel)
        BY DEF ChannelInv
    <2> QED
        BY <2>1, <2>2, DrainedCount DEF DeliveredInOrder, ChannelInv, First
<1> QED
    BY <1>1, DriverInvariant_Holds, PTL

\* wait_for_event_or does not sleep while the bridge holds an event.
THEOREM OwnerAwake == DriverSpec => []NoSleepOnEvents
<1>1. DriverInv => NoSleepOnEvents
    <2> SUFFICES ASSUME DriverInv, owner = "asleep" PROVE channel = <<>>
        BY DEF NoSleepOnEvents
    <2>1. channel \in Seq(Message) /\ Len(channel) = 0
        BY DEF DriverInv, BridgeInv, ChannelInv
    <2> QED
        BY <2>1, EmptySeq
<1> QED
    BY <1>1, DriverInvariant_Holds, PTL

\* available_task_capacity keeps its contract: a virtual thread is dispatched
\* only where a worker can take it.
THEOREM ThreadsDoNotQueue == DriverSpec => []NoQueueingBehindWorkers
<1>1. DriverInv => NoQueueingBehindWorkers
    BY DEF DriverInv, PoolInv
<1> QED
    BY <1>1, DriverInvariant_Holds, PTL
================================================================================
