----------------------------- MODULE CarrierProofs -----------------------------
(***************************************************************************)
(* A virtual thread is in one place at a time: the places that can hold it *)
(* are counted, and every step of the driver moves it from one to another. *)
(***************************************************************************)
EXTENDS DriverProofs

\* The positions of s that hold a member of A.
Occ(s, A) == {i \in DOMAIN s : s[i] \in A}

TasksOf(t) == {task \in Task : task.thread = t}
MessagesOf(t) == {m \in Message : m.event.thread = t}
WorkersOf(workers, t) == {w \in Pool : workers[w].task \cap TasksOf(t) # {}}

\* How often thread t is in the worker queue, on a worker, in the channel,
\* drained, in the runnable queue and with a provider of the host.
Queued(t) == Cardinality(Occ(worker_queue, TasksOf(t)))
OnWorkers(t) == Cardinality(WorkersOf(worker, t))
Sent(t) == Cardinality(Occ(channel, MessagesOf(t)))
Received(t) == Cardinality(pending_events \cap MessagesOf(t))
Waiting(t) == Cardinality(Occ(runnable, {t}))
Hosted(t) == IF t \in hosted THEN 1 ELSE 0

Out(t) == Sent(t) + Hosted(t)
Held(t) == Queued(t) + OnWorkers(t) + Out(t)
Total(t) == Held(t) + Received(t) + Waiting(t)

CarrierInv ==
    \A t \in Threads : Total(t) = IF thread[t] = "exited" \/ t \in lost THEN 0 ELSE 1

-------------------------------------------------------------------------------
(* Counting. *)

\* The positions of a queue can be counted.
LEMMA OccFinite ==
    ASSUME NEW S, NEW s \in Seq(S), NEW A
    PROVE  IsFiniteSet(Occ(s, A)) /\ Cardinality(Occ(s, A)) \in Nat
<1>1. Len(s) \in Nat /\ Occ(s, A) \in SUBSET (1 .. Len(s))
    BY LenProperties DEF Occ
<1>2. IsFiniteSet(1 .. Len(s))
    BY <1>1, FS_Interval
<1> QED
    BY <1>1, <1>2, FS_Subset, FS_CardinalityType

\* A queue with one item more.
LEMMA OccAppend ==
    ASSUME NEW S, NEW s \in Seq(S), NEW x \in S, NEW A
    PROVE  Cardinality(Occ(Append(s, x), A)) = Cardinality(Occ(s, A)) + (IF x \in A THEN 1 ELSE 0)
<1> DEFINE u == Append(s, x)
           n == Len(s) + 1
<1>1. /\ Len(s) \in Nat /\ DOMAIN s = 1 .. Len(s) /\ DOMAIN u = 1 .. n
      /\ \A i \in 1 .. Len(s) : u[i] = s[i]
      /\ u[n] = x
    BY AppendProperties, LenProperties
<1>2. \A i \in DOMAIN u : i \in DOMAIN s \/ i = n
    BY <1>1
<1>3. DOMAIN s \subseteq DOMAIN u /\ n \in DOMAIN u /\ n \notin DOMAIN s
    BY <1>1
<1>4. CASE x \in A
    <2>1. Occ(u, A) = Occ(s, A) \cup {n}
        BY <1>1, <1>2, <1>3, <1>4 DEF Occ
    <2>2. n \notin Occ(s, A)
        BY <1>3 DEF Occ
    <2> QED
        BY Zenon, <1>4, <2>1, <2>2, OccFinite, FS_AddElement
<1>5. CASE x \notin A
    <2>1. Occ(u, A) = Occ(s, A)
        BY <1>1, <1>2, <1>3, <1>5 DEF Occ
    <2> QED
        BY <1>5, <2>1, OccFinite
<1> QED
    BY <1>4, <1>5

\* A queue with its first item taken.
LEMMA OccTail ==
    ASSUME NEW S, NEW s \in Seq(S), s # <<>>, NEW A
    PROVE  Cardinality(Occ(Tail(s), A)) = Cardinality(Occ(s, A)) - (IF Head(s) \in A THEN 1 ELSE 0)
<1> DEFINE u == Tail(s)
           rest == Occ(s, A) \ {1}
           f == [i \in Occ(u, A) |-> i + 1]
<1>1. /\ Len(s) \in Nat \ {0} /\ DOMAIN s = 1 .. Len(s) /\ Head(s) = s[1]
      /\ u \in Seq(S) /\ DOMAIN u = 1 .. (Len(s) - 1)
      /\ \A i \in 1 .. (Len(s) - 1) : u[i] = s[i + 1]
    BY EmptySeq, HeadTailProperties, LenProperties
<1>2. f \in Bijection(Occ(u, A), rest)
    <2>1. \A i \in Occ(u, A) : i \in 1 .. (Len(s) - 1) /\ i + 1 \in rest
        BY <1>1 DEF Occ
    <2>2. \A j \in rest : j - 1 \in Occ(u, A) /\ f[j - 1] = j
        <3> SUFFICES ASSUME NEW j \in rest PROVE j - 1 \in Occ(u, A) /\ f[j - 1] = j
            BY Zenon
        <3>1. j \in 2 .. Len(s) /\ s[j] \in A
            BY <1>1 DEF Occ
        <3>2. j - 1 \in 1 .. (Len(s) - 1) /\ (j - 1) + 1 = j
            BY <1>1, <3>1
        <3> QED
            BY <1>1, <3>1, <3>2 DEF Occ
    <2>3. f \in [Occ(u, A) -> rest]
        BY <2>1
    <2>4. IsInjective(f)
        BY <2>1 DEF IsInjective
    <2> QED
        BY Zenon, <2>2, <2>3, <2>4 DEF Bijection, Injection, Surjection
<1>3. Cardinality(rest) = Cardinality(Occ(u, A))
    <2>1. IsFiniteSet(Occ(u, A)) /\ ExistsBijection(Occ(u, A), rest)
        BY Zenon, <1>1, <1>2, OccFinite DEF ExistsBijection
    <2> HIDE DEF rest
    <2> QED
        BY <2>1, FS_Bijection
<1>4. IsFiniteSet(Occ(s, A)) /\ Cardinality(Occ(s, A)) \in Nat
    BY OccFinite
<1>5. 1 \in Occ(s, A) <=> Head(s) \in A
    BY <1>1 DEF Occ
<1>6. Cardinality(rest) = IF 1 \in Occ(s, A) THEN Cardinality(Occ(s, A)) - 1 ELSE Cardinality(Occ(s, A))
    BY Zenon, <1>4, FS_RemoveElement
<1> QED
    BY <1>3, <1>4, <1>5, <1>6

\* A worker takes up or puts down the tasks of one thread.
LEMMA WorkersFinite ==
    ASSUME NEW f, NEW t
    PROVE  IsFiniteSet(WorkersOf(f, t)) /\ Cardinality(WorkersOf(f, t)) \in Nat
<1>1. IsFiniteSet(Pool) /\ WorkersOf(f, t) \in SUBSET Pool
    BY DriverAssumption DEF WorkersOf
<1> QED
    BY <1>1, FS_Subset, FS_CardinalityType

\* A worker takes a task.
LEMMA OneMoreWorker ==
    ASSUME NEW f, NEW g, NEW t, NEW w \in Pool, \A v \in Pool \ {w} : g[v].task = f[v].task,
           f[w].task = {}, NEW task \in Task, g[w].task = {task}
    PROVE  Cardinality(WorkersOf(g, t)) =
               Cardinality(WorkersOf(f, t)) + (IF task.thread = t THEN 1 ELSE 0)
<1>1. w \notin WorkersOf(f, t)
    BY DEF WorkersOf
<1>2. CASE task.thread = t
    <2>1. WorkersOf(g, t) = WorkersOf(f, t) \cup {w}
        BY <1>2 DEF WorkersOf, TasksOf
    <2> QED
        BY Zenon, <1>1, <1>2, <2>1, WorkersFinite, FS_AddElement
<1>3. CASE task.thread # t
    <2>1. WorkersOf(g, t) = WorkersOf(f, t)
        BY <1>3 DEF WorkersOf, TasksOf
    <2> QED
        BY <1>3, <2>1, WorkersFinite
<1> QED
    BY <1>2, <1>3

-------------------------------------------------------------------------------
(* Where a step puts a thread. *)

\* The places that can hold a thread, counted.
LEMMA CountsAreNat ==
    ASSUME DriverInv, NEW t
    PROVE  /\ Queued(t) \in Nat /\ OnWorkers(t) \in Nat /\ Sent(t) \in Nat
           /\ Received(t) \in Nat /\ Waiting(t) \in Nat /\ Hosted(t) \in {0, 1}
<1>1. worker_queue \in Seq(Task) /\ channel \in Seq(Message) /\ runnable \in Seq(Threads)
    BY DEF DriverInv, BridgeInv, ChannelInv, PoolInv, ThreadInv
<1>2. IsFiniteSet(pending_events \cap MessagesOf(t))
    <2>1. IsFiniteSet(pending_events) /\ pending_events \cap MessagesOf(t) \in SUBSET pending_events
        BY DEF DriverInv, BridgeInv, DrainedInv
    <2> QED
        BY <2>1, FS_Subset
<1>3. Received(t) \in Nat
    BY <1>2, FS_CardinalityType DEF Received
<1>4. Queued(t) \in Nat /\ Sent(t) \in Nat /\ Waiting(t) \in Nat
    BY <1>1, OccFinite DEF Queued, Sent, Waiting
<1> QED
    BY <1>3, <1>4, WorkersFinite DEF OnWorkers, Hosted

\* An event carries its thread into the channel, or it is refused and the
\* thread is lost.
LEMMA DeliverCarries ==
    ASSUME ChannelInv, NEW u \in Threads, NEW kind \in {"yielded", "syscall", "exited", "completed"},
           Deliver([kind |-> kind, thread |-> u])
    PROVE  /\ \A t \in Threads \ {u} : Sent(t)' = Sent(t)
           /\ \/ Sent(u)' = Sent(u) + 1 /\ lost' = lost
              \/ Sent(u)' = Sent(u) /\ lost' = lost \cup {u}
<1> DEFINE e == [kind |-> kind, thread |-> u]
           m == [sequence |-> next_sequence, event |-> e]
<1>1. m \in Message /\ channel \in Seq(Message)
    BY DriverAssumption DEF Message, ChannelInv
<1>2. CASE submit(e) /\ UNCHANGED lost
    <2>1. channel' = Append(channel, m)
        BY <1>2 DEF submit
    <2>2. \A t : m \in MessagesOf(t) <=> u = t
        BY <1>1 DEF MessagesOf
    <2>3. \A t : Cardinality(Occ(Append(channel, m), MessagesOf(t))) =
                  Cardinality(Occ(channel, MessagesOf(t))) + (IF m \in MessagesOf(t) THEN 1 ELSE 0)
        BY <1>1, OccAppend
    <2>4. \A t : Cardinality(Occ(channel, MessagesOf(t))) \in Nat
        BY <1>1, OccFinite
    <2> QED
        BY <1>2, <2>1, <2>2, <2>3, <2>4 DEF Sent
<1>3. CASE submit_refused /\ lost' = lost \cup {u}
    BY <1>3 DEF submit_refused, bridgeVars, Sent
<1> QED
    BY <1>2, <1>3 DEF Deliver

\* A task that runs hands its thread to the channel or to the host.
LEMMA RunTaskCarries ==
    ASSUME ChannelInv, ThreadInv, NEW task \in Task, RunTask(task), task.thread \notin hosted
    PROVE  /\ \A t \in Threads \ {task.thread} : Out(t)' = Out(t)
           /\ \/ Out(task.thread)' = Out(task.thread) + 1 /\ lost' = lost
              \/ Out(task.thread)' = Out(task.thread) /\ lost' = lost \cup {task.thread}
<1> DEFINE u == task.thread
<1>1. u \in Threads
    BY DEF Task
<1>2. \A t : Sent(t) \in Nat
    BY OccFinite DEF ChannelInv, Sent
<1>3. ASSUME NEW kind \in {"yielded", "syscall", "exited", "completed"},
             Deliver([kind |-> kind, thread |-> u]), UNCHANGED hosted
      PROVE  /\ \A t \in Threads \ {u} : Out(t)' = Out(t)
             /\ \/ Out(u)' = Out(u) + 1 /\ lost' = lost
                \/ Out(u)' = Out(u) /\ lost' = lost \cup {u}
    <2>1. \A t : Hosted(t)' = Hosted(t) /\ Hosted(t) \in {0, 1}
        BY <1>3 DEF Hosted
    <2>2. /\ \A t \in Threads \ {u} : Sent(t)' = Sent(t)
          /\ \/ Sent(u)' = Sent(u) + 1 /\ lost' = lost
             \/ Sent(u)' = Sent(u) /\ lost' = lost \cup {u}
        BY Zenon, <1>1, <1>3, DeliverCarries
    <2> QED
        BY <1>1, <1>2, <2>1, <2>2 DEF Out
<1>4. CASE hosted' = hosted \cup {u} /\ UNCHANGED <<bridgeVars, owner, turns, lost>>
    <2>1. \A t : Sent(t)' = Sent(t)
        BY <1>4 DEF bridgeVars, Sent
    <2>2. /\ \A t \in Threads \ {u} : Hosted(t)' = Hosted(t)
          /\ Hosted(u) = 0 /\ Hosted(u)' = 1
        BY <1>4 DEF Hosted
    <2> QED
        BY <1>1, <1>2, <1>4, <2>1, <2>2 DEF Out
<1>5. CASE RunThread(u)
    BY <1>3, <1>5 DEF RunThread
<1>6. CASE RunProvider(u)
    BY <1>3, <1>4, <1>6 DEF RunProvider
<1> QED
    BY <1>5, <1>6 DEF RunTask

\* A dispatched task takes its thread to the queue or runs at once.
LEMMA DispatchCarries ==
    ASSUME DriverInv, NEW task \in Task, dispatch(task), task.thread \notin hosted
    PROVE  /\ \A t \in Threads \ {task.thread} : Held(t)' = Held(t)
           /\ \/ Held(task.thread)' = Held(task.thread) + 1 /\ lost' = lost
              \/ Held(task.thread)' = Held(task.thread) /\ lost' = lost \cup {task.thread}
<1> DEFINE u == task.thread
<1>1. PICK new \in Spawns(active_workers + 1) :
          /\ worker' = [w \in Pool |-> IF w \in new THEN [worker[w] EXCEPT !.state = "idle"]
                                                    ELSE worker[w]]
          /\ IF Unspawned # Pool \/ new # {}
             THEN /\ active_workers' = active_workers + 1
                  /\ worker_queue' = Append(worker_queue, task)
                  /\ UNCHANGED <<bridgeVars, owner, taskVars>>
             ELSE /\ RunTask(task)
                  /\ UNCHANGED <<active_workers, worker_queue>>
    BY DEF dispatch
<1>2. \A t : OnWorkers(t)' = OnWorkers(t)
    <2>1. \A w \in Pool : worker'[w].task = worker[w].task
        BY <1>1 DEF DriverInv, PoolInv, WorkerTypes
    <2>2. \A t : WorkersOf(worker', t) = WorkersOf(worker, t)
        BY <2>1 DEF WorkersOf
    <2> QED
        BY <2>2 DEF OnWorkers
<1>3. \A t : Queued(t) \in Nat /\ OnWorkers(t) \in Nat /\ Sent(t) \in Nat /\ Hosted(t) \in Nat
    BY CountsAreNat
<1>4. CASE Unspawned # Pool \/ new # {}
    <2>1. worker_queue' = Append(worker_queue, task) /\ UNCHANGED <<bridgeVars, taskVars>>
        BY <1>1, <1>4
    <2>2. worker_queue \in Seq(Task)
        BY DEF DriverInv, PoolInv
    <2>3. \A t : Queued(t)' = Queued(t) + (IF task \in TasksOf(t) THEN 1 ELSE 0)
        BY <2>1, <2>2, OccAppend DEF Queued
    <2>4. \A t : Out(t)' = Out(t)
        BY <2>1 DEF Out, Sent, Hosted, bridgeVars, taskVars
    <2>5. \A t : task \in TasksOf(t) <=> t = u
        BY DEF TasksOf
    <2> QED
        BY <1>2, <1>3, <2>1, <2>3, <2>4, <2>5 DEF Held, Out, taskVars
<1>5. CASE ~(Unspawned # Pool \/ new # {})
    <2>1. RunTask(task) /\ UNCHANGED worker_queue
        BY <1>1, <1>5
    <2>2. \A t : Queued(t)' = Queued(t)
        BY <2>1 DEF Queued
    <2>3. /\ \A t \in Threads \ {u} : Out(t)' = Out(t)
          /\ \/ Out(u)' = Out(u) + 1 /\ lost' = lost
             \/ Out(u)' = Out(u) /\ lost' = lost \cup {u}
        BY <2>1, RunTaskCarries DEF DriverInv, BridgeInv
    <2>4. \A t : Out(t) \in Nat
        BY <1>3 DEF Out
    <2> QED
        BY <1>2, <1>3, <2>2, <2>3, <2>4 DEF Held
<1> QED
    BY <1>4, <1>5

\* drain moves what the channel carries to the drained events.
LEMMA DrainCarries ==
    ASSUME DriverInv, Drain, NEW t
    PROVE  Sent(t)' = 0 /\ Received(t)' = Received(t) + Sent(t)
<1> USE DEF DriverInv, BridgeInv
<1> DEFINE M == MessagesOf(t)
           P == pending_events \cap M
           I == Occ(channel, M)
           T == {channel[i] : i \in I}
           f == [i \in I |-> channel[i]]
<1>1. /\ channel \in [1 .. Len(channel) -> Message] /\ Len(channel) \in Nat /\ First \in Int
      /\ \A i \in 1 .. Len(channel) : channel[i].sequence = First + i - 1
      /\ channel' = <<>>
    BY DEF ChannelInv, First, Drain, drain
<1>2. IsFiniteSet(I) /\ IsFiniteSet(P) /\ Cardinality(I) \in Nat /\ Cardinality(P) \in Nat
    BY CountsAreNat, OccFinite, FS_Subset, FS_CardinalityType DEF ChannelInv, DrainedInv
<1>3. f \in Bijection(I, T)
    <2>1. \A i, j \in I : channel[i] = channel[j] => i = j
        BY <1>1 DEF Occ
    <2> QED
        BY <2>1 DEF Bijection, Injection, Surjection, IsInjective
<1>4. IsFiniteSet(T) /\ Cardinality(T) = Cardinality(I)
    <2>1. ExistsBijection(I, T)
        BY <1>3 DEF ExistsBijection
    <2> HIDE DEF I, T
    <2> QED
        BY <1>2, <2>1, FS_Bijection
<1>5. pending_events' \cap M = P \cup T
    <2>1. ToSet(channel) = {channel[i] : i \in 1 .. Len(channel)}
        BY <1>1 DEF ToSet
    <2>2. \A e \in ToSet(channel) : e.sequence >= next_event_sequence
        BY <1>1, <2>1 DEF DrainedInv
    <2>3. pending_events' = pending_events \cup ToSet(channel)
        BY <2>2 DEF Drain
    <2>4. ToSet(channel) \cap M = T
        BY <1>1, <2>1 DEF Occ
    <2> QED
        BY <2>3, <2>4
<1>6. P \cap T = {}
    <2>1. \A e \in P : e.sequence < First
        BY <1>1 DEF DrainedInv
    <2>2. \A e \in T : e.sequence >= First
        BY <1>1 DEF Occ
    <2>3. \A e \in P : e.sequence \in Nat
        BY DEF DrainedInv, Message
    <2> QED
        BY <1>1, <2>1, <2>2, <2>3
<1>7. Cardinality(P \cup T) = Cardinality(P) + Cardinality(I)
    <2> HIDE DEF P, T, I
    <2>1. Cardinality(P \cup T) = Cardinality(P) + Cardinality(T) - Cardinality(P \cap T)
        BY <1>2, <1>4, FS_Union
    <2>2. Cardinality(P \cap T) = 0
        BY <1>6, FS_EmptySet
    <2> QED
        BY <1>2, <1>4, <2>1, <2>2
<1>8. Occ(channel', M) = {}
    BY <1>1 DEF Occ
<1> QED
    BY <1>5, <1>7, <1>8, FS_EmptySet DEF Sent, Received

-------------------------------------------------------------------------------
(* The steps. *)

\* A thread that is anywhere has not exited and is not lost, and is nowhere else.
LEMMA CarriedOnce ==
    ASSUME DriverInv, CarrierInv, NEW t \in Threads, Total(t) > 0
    PROVE  Total(t) = 1 /\ thread[t] # "exited" /\ t \notin lost
BY DEF CarrierInv

\* Nothing moves.
LEMMA CarrierFrame ==
    ASSUME CarrierInv, \A w \in Pool : worker'[w].task = worker[w].task,
           UNCHANGED <<worker_queue, channel, pending_events, runnable, hosted, thread, lost>>
    PROVE  CarrierInv'
<1>1. \A t : WorkersOf(worker', t) = WorkersOf(worker, t)
    BY DEF WorkersOf
<1>2. \A t : Total(t)' = Total(t)
    BY <1>1 DEF Total, Held, Out, Queued, OnWorkers, Sent, Received, Waiting, Hosted
<1> QED
    BY <1>2 DEF CarrierInv

\* A drained message is in the loop's hands, and in the channel no more.
LEMMA DrainCarrier ==
    ASSUME DriverInv, CarrierInv, Drain
    PROVE  CarrierInv'
<1>1. \A t : /\ Queued(t)' = Queued(t) /\ OnWorkers(t)' = OnWorkers(t)
             /\ Waiting(t)' = Waiting(t) /\ Hosted(t)' = Hosted(t)
    BY DEF Drain, poolVars, threadVars, taskVars, Queued, OnWorkers, Waiting, Hosted
<1>2. \A t : Total(t)' = Total(t)
    BY <1>1, DrainCarries, CountsAreNat DEF Total, Held, Out
<1> QED
    BY <1>2 DEF CarrierInv, Drain, threadVars, taskVars

\* An event that is handled is no longer drained.
LEMMA HandledCarries ==
    ASSUME DriverInv, NEW e \in NextEvents, pending_events' = pending_events \ {e}, NEW t
    PROVE  Received(t)' = Received(t) - (IF e.event.thread = t THEN 1 ELSE 0)
<1> DEFINE P == pending_events \cap MessagesOf(t)
<1>1. e \in pending_events /\ e \in Message
    BY DEF NextEvents, DriverInv, BridgeInv, DrainedInv
<1>2. IsFiniteSet(P) /\ Cardinality(P) \in Nat
    BY FS_Subset, FS_CardinalityType DEF DriverInv, BridgeInv, DrainedInv
<1>3. e \in P <=> e.event.thread = t
    BY <1>1 DEF MessagesOf
<1>4. pending_events' \cap MessagesOf(t) = P \ {e}
    OBVIOUS
<1>5. Cardinality(P \ {e}) = IF e \in P THEN Cardinality(P) - 1 ELSE Cardinality(P)
    BY <1>2, FS_RemoveElement
<1> QED
    BY <1>2, <1>3, <1>4, <1>5 DEF Received

\* A queued thread is in the queue once more.
LEMMA EnqueueCarries ==
    ASSUME DriverInv, NEW u \in Threads, runnable' = Append(runnable, u), NEW t
    PROVE  Waiting(t)' = Waiting(t) + (IF u = t THEN 1 ELSE 0)
<1>1. runnable \in Seq(Threads)
    BY DEF DriverInv, ThreadInv
<1>2. u \in {t} <=> u = t
    OBVIOUS
<1> QED
    BY <1>1, <1>2, OccAppend DEF Waiting

\* A handled event leaves its thread queued, with the host or gone.
LEMMA ProcessEventCarrier ==
    ASSUME DriverInv, CarrierInv, ProcessEvent
    PROVE  CarrierInv'
<1>1. PICK e \in NextEvents :
        /\ pending_events' = pending_events \ {e}
        /\ next_event_sequence' = next_event_sequence + 1
        /\ \/ e.event.kind = "yielded" /\ Handle_Yielded(e.event.thread)
           \/ e.event.kind = "syscall" /\ Handle_Syscall(e.event.thread)
           \/ e.event.kind = "exited" /\ Handle_Exited(e.event.thread)
           \/ e.event.kind = "completed" /\ Handle_Completed(e.event.thread)
    BY DEF ProcessEvent
<1> DEFINE u == e.event.thread
<1>2. u \in Threads
    BY DriverAssumption DEF NextEvents, DriverInv, BridgeInv, DrainedInv, Message
<1>3. \A t : Received(t)' = Received(t) - (IF u = t THEN 1 ELSE 0)
    BY <1>1, HandledCarries
<1>4. \A t : /\ Queued(t) \in Nat /\ OnWorkers(t) \in Nat /\ Sent(t) \in Nat
             /\ Received(t) \in Nat /\ Waiting(t) \in Nat /\ Hosted(t) \in {0, 1}
    BY CountsAreNat
<1>5. Received(u) >= 1
    <2>1. e \in pending_events \cap MessagesOf(u) /\ IsFiniteSet(pending_events \cap MessagesOf(u))
        BY FS_Subset DEF NextEvents, DriverInv, BridgeInv, DrainedInv, MessagesOf
    <2>2. Cardinality(pending_events \cap MessagesOf(u)) # 0
        BY <2>1, FS_EmptySet
    <2> QED
        BY <1>4, <2>2 DEF Received
<1>6. Total(u) = 1 /\ thread[u] # "exited" /\ u \notin lost /\ Hosted(u) = 0
    BY <1>2, <1>4, <1>5, CarriedOnce DEF Total, Held, Out
<1>7. ASSUME Enqueue(u), UNCHANGED <<bridgeVars, poolVars, taskVars>>
      PROVE  CarrierInv'
    <2>1. \A t : Waiting(t)' = Waiting(t) + (IF u = t THEN 1 ELSE 0)
        BY <1>2, <1>7, EnqueueCarries DEF Enqueue
    <2>2. \A t : /\ Queued(t)' = Queued(t) /\ OnWorkers(t)' = OnWorkers(t)
                 /\ Sent(t)' = Sent(t) /\ Hosted(t)' = Hosted(t)
        BY <1>7 DEF bridgeVars, poolVars, taskVars, Queued, OnWorkers, Sent, Hosted
    <2>3. \A t : Total(t)' = Total(t)
        BY <1>3, <1>4, <2>1, <2>2 DEF Total, Held, Out
    <2>4. \A t \in Threads : (thread'[t] = "exited" \/ t \in lost') <=> (thread[t] = "exited" \/ t \in lost)
        BY <1>2, <1>6, <1>7 DEF Enqueue, taskVars, DriverInv, ThreadInv
    <2> QED
        BY <2>3, <2>4 DEF CarrierInv
<1>8. CASE Handle_Syscall(u)
    <2> DEFINE task == [kind |-> "provider", thread |-> u]
    <2>1. task \in Task /\ task.thread = u /\ u \notin hosted /\ dispatch(task)
        BY <1>2, <1>6, <1>8 DEF Task, Hosted, Handle_Syscall
    <2>2. /\ \A t \in Threads \ {u} : Held(t)' = Held(t)
          /\ \/ Held(u)' = Held(u) + 1 /\ lost' = lost
             \/ Held(u)' = Held(u) /\ lost' = lost \cup {u}
        BY <2>1, DispatchCarries
    <2>3. \A t : Waiting(t)' = Waiting(t)
        BY <1>8 DEF Handle_Syscall, Waiting
    <2>4. /\ thread' \in [Threads -> {"runnable", "running", "blocked", "exited"}]
          /\ thread'[u] = "blocked" /\ \A t \in Threads \ {u} : thread'[t] = thread[t]
        BY <1>2, <1>8 DEF Handle_Syscall, DriverInv, ThreadInv
    <2>5. \A t : Held(t) \in Nat
        BY <1>4 DEF Held, Out
    <2> QED
        BY <1>2, <1>3, <1>4, <1>6, <2>2, <2>3, <2>4, <2>5 DEF CarrierInv, Total
<1>9. CASE Handle_Exited(u)
    <2>1. \A t : /\ Queued(t)' = Queued(t) /\ OnWorkers(t)' = OnWorkers(t)
                 /\ Sent(t)' = Sent(t) /\ Hosted(t)' = Hosted(t) /\ Waiting(t)' = Waiting(t)
        BY <1>9 DEF Handle_Exited, bridgeVars, poolVars, taskVars, Queued, OnWorkers, Sent, Hosted, Waiting
    <2>2. \A t : Total(t)' = Total(t) - (IF u = t THEN 1 ELSE 0)
        BY <1>3, <1>4, <2>1 DEF Total, Held, Out
    <2>3. thread'[u] = "exited" /\ lost' = lost /\ \A t \in Threads \ {u} : thread'[t] = thread[t]
        BY <1>2, <1>9 DEF Handle_Exited, taskVars, DriverInv, ThreadInv
    <2> QED
        BY <1>2, <1>6, <2>2, <2>3 DEF CarrierInv
<1> QED
    BY <1>1, <1>7, <1>8, <1>9 DEF Handle_Yielded, Handle_Completed

\* A dispatched thread leaves the queue for the pool.
LEMMA DispatchRunnableCarrier ==
    ASSUME DriverInv, CarrierInv, DispatchRunnable
    PROVE  CarrierInv'
<1>1. runnable \in Seq(Threads) /\ runnable # <<>> /\ runnable' = Tail(runnable)
    BY DEF DispatchRunnable, DriverInv, ThreadInv
<1>0. PICK u \in Threads : u = Head(runnable)
    BY <1>1, HeadTailProperties
<1> DEFINE task == [kind |-> "thread", thread |-> u]
<1>2. \A t : /\ Queued(t) \in Nat /\ OnWorkers(t) \in Nat /\ Sent(t) \in Nat
             /\ Received(t) \in Nat /\ Waiting(t) \in Nat /\ Hosted(t) \in {0, 1}
    BY CountsAreNat
<1>3. \A t : Waiting(t)' = Waiting(t) - (IF u = t THEN 1 ELSE 0)
    <2>1. \A t : u \in {t} <=> u = t
        OBVIOUS
    <2> QED
        BY <1>0, <1>1, <2>1, OccTail DEF Waiting
<1>4. Waiting(u) >= 1
    <2>1. 1 \in Occ(runnable, {u})
        BY <1>0, <1>1, EmptySeq, LenProperties DEF Occ
    <2>2. Cardinality(Occ(runnable, {u})) # 0
        BY <1>1, <2>1, OccFinite, FS_EmptySet
    <2>3. Waiting(u) # 0
        BY <2>2 DEF Waiting
    <2> QED
        BY <1>2, <2>3
<1>5. Total(u) = 1 /\ thread[u] # "exited" /\ u \notin lost /\ Hosted(u) = 0
    BY <1>2, <1>4, CarriedOnce DEF Total, Held, Out
<1>6. task \in Task /\ task.thread = u /\ u \notin hosted /\ dispatch(task)
    BY <1>0, <1>5 DEF Task, Hosted, DispatchRunnable
<1>7. /\ \A t \in Threads \ {u} : Held(t)' = Held(t)
      /\ \/ Held(u)' = Held(u) + 1 /\ lost' = lost
         \/ Held(u)' = Held(u) /\ lost' = lost \cup {u}
    BY <1>6, DispatchCarries
<1>8. (\A t : Received(t)' = Received(t)) /\ (\A t : Held(t) \in Nat)
    <2>1. \A t : Received(t)' = Received(t)
        BY DEF DispatchRunnable, Received
    <2>2. \A t : Held(t) \in Nat
        BY <1>2 DEF Held, Out
    <2> QED
        BY <2>1, <2>2
<1>9. thread'[u] = "running" /\ \A t \in Threads \ {u} : thread'[t] = thread[t]
    BY <1>0 DEF DispatchRunnable, DriverInv, ThreadInv
<1> QED
    BY <1>2, <1>3, <1>5, <1>7, <1>8, <1>9 DEF CarrierInv, Total

\* A worker receives a task: it leaves the pool's queue.
LEMMA RecvCarrier ==
    ASSUME DriverInv, CarrierInv, NEW w \in Pool, Recv(w)
    PROVE  CarrierInv'
<1>1. worker_queue \in Seq(Task) /\ worker_queue # <<>> /\ worker_queue' = Tail(worker_queue)
    BY DEF Recv, DriverInv, PoolInv
<1>0. PICK task \in Task : task = Head(worker_queue)
    BY <1>1, HeadTailProperties
<1>2. /\ \A v \in Pool \ {w} : worker'[v].task = worker[v].task
      /\ worker[w].task = {} /\ worker'[w].task = {task}
    BY <1>0 DEF Recv, DriverInv, PoolInv, WorkerTypes
<1>3. \A t : task \in TasksOf(t) <=> task.thread = t
    BY DEF TasksOf
<1>4. \A t : Queued(t)' = Queued(t) - (IF task.thread = t THEN 1 ELSE 0)
    BY <1>0, <1>1, <1>3, OccTail DEF Queued
<1>5. \A t : OnWorkers(t)' = OnWorkers(t) + (IF task.thread = t THEN 1 ELSE 0)
    BY <1>2, OneMoreWorker DEF OnWorkers
<1>6. \A t : /\ Queued(t) \in Nat /\ OnWorkers(t) \in Nat
             /\ Out(t)' = Out(t) /\ Received(t)' = Received(t) /\ Waiting(t)' = Waiting(t)
    BY Zenon, CountsAreNat DEF Recv, bridgeVars, loopVars, threadVars, taskVars, Out, Sent, Hosted, Received, Waiting
<1>7. \A t : Total(t)' = Total(t)
    BY <1>4, <1>5, <1>6 DEF Total, Held
<1> QED
    BY <1>7 DEF CarrierInv, Recv, threadVars, taskVars

\* A finished task becomes the message of what it did.
LEMMA RunCarrier ==
    ASSUME DriverInv, CarrierInv, NEW w \in Pool, Run(w)
    PROVE  CarrierInv'
<1>1. PICK task \in Task : worker[w].task = {task} /\ RunTask(task)
    BY DEF Run, DriverInv, PoolInv
<1> DEFINE u == task.thread
<1>2. u \in Threads
    BY DEF Task
<1>3. /\ \A v \in Pool \ {w} : worker[v].task = worker'[v].task
      /\ worker'[w].task = {}
    BY DEF Run, DriverInv, PoolInv, WorkerTypes
<1>4. \A t : /\ Queued(t) \in Nat /\ OnWorkers(t) \in Nat /\ Sent(t) \in Nat
             /\ Received(t) \in Nat /\ Waiting(t) \in Nat /\ Hosted(t) \in {0, 1}
    BY CountsAreNat
<1>5. \A t : OnWorkers(t) = OnWorkers(t)' + (IF u = t THEN 1 ELSE 0) /\ OnWorkers(t)' \in Nat
    BY <1>1, <1>3, OneMoreWorker, WorkersFinite DEF OnWorkers
<1>6. Total(u) = 1 /\ thread[u] # "exited" /\ u \notin lost /\ Hosted(u) = 0
    BY <1>2, <1>4, <1>5, CarriedOnce DEF Total, Held, Out
<1>7. /\ \A t \in Threads \ {u} : Out(t)' = Out(t)
      /\ \/ Out(u)' = Out(u) + 1 /\ lost' = lost
         \/ Out(u)' = Out(u) /\ lost' = lost \cup {u}
    <2>1. u \notin hosted
        BY <1>6 DEF Hosted
    <2> QED
        BY <1>1, <2>1, RunTaskCarries DEF DriverInv, BridgeInv
<1>8. \A t : /\ Queued(t)' = Queued(t) /\ Received(t)' = Received(t) /\ Waiting(t)' = Waiting(t)
             /\ Out(t) \in Nat
    <2>1. \A t : Queued(t)' = Queued(t) /\ Received(t)' = Received(t) /\ Waiting(t)' = Waiting(t)
        BY DEF Run, loopVars, threadVars, Queued, Received, Waiting
    <2>2. \A t : Out(t) \in Nat
        BY <1>4 DEF Out
    <2> QED
        BY <2>1, <2>2
<1>9. thread' = thread
    BY DEF Run, threadVars
<1> QED
    BY <1>2, <1>4, <1>5, <1>6, <1>7, <1>8, <1>9 DEF CarrierInv, Total, Held

\* A host that completes no longer holds the thread.
LEMMA HostCarrier ==
    ASSUME DriverInv, CarrierInv, NEW u \in Threads, HostCompletes(u)
    PROVE  CarrierInv'
<1>1. \A t : /\ Queued(t) \in Nat /\ OnWorkers(t) \in Nat /\ Sent(t) \in Nat
             /\ Received(t) \in Nat /\ Waiting(t) \in Nat /\ Hosted(t) \in {0, 1}
    BY CountsAreNat
<1>2. /\ Hosted(u) = 1 /\ Hosted(u)' = 0
      /\ \A t \in Threads \ {u} : Hosted(t)' = Hosted(t)
    BY DEF HostCompletes, Hosted
<1>3. Total(u) = 1 /\ thread[u] # "exited" /\ u \notin lost
    BY <1>1, <1>2, CarriedOnce DEF Total, Held, Out
<1>4. /\ \A t \in Threads \ {u} : Sent(t)' = Sent(t)
      /\ \/ Sent(u)' = Sent(u) + 1 /\ lost' = lost
         \/ Sent(u)' = Sent(u) /\ lost' = lost \cup {u}
    BY Zenon, DeliverCarries DEF HostCompletes, DriverInv, BridgeInv
<1>5. \A t : /\ Queued(t)' = Queued(t) /\ OnWorkers(t)' = OnWorkers(t)
             /\ Received(t)' = Received(t) /\ Waiting(t)' = Waiting(t)
    BY DEF HostCompletes, loopVars, threadVars, poolVars, Queued, OnWorkers, Received, Waiting
<1>6. thread' = thread
    BY DEF HostCompletes, threadVars
<1> QED
    BY <1>1, <1>2, <1>3, <1>4, <1>5, <1>6 DEF CarrierInv, Total, Held, Out

\* At the start every thread is in one place.
LEMMA CarrierInit ==
    ASSUME DriverInit
    PROVE  CarrierInv
<1> SUFFICES ASSUME NEW t \in Threads PROVE Total(t) = 1
    BY DEF DriverInit, DriverStart, CarrierInv
<1>1. Cardinality(Threads) \in Nat /\ IsFiniteSet(Threads)
    BY DriverAssumption, FS_CardinalityType
<1>2. runnable \in Injection(1 .. Cardinality(Threads), Threads)
    <2>1. PICK f \in [1 .. Cardinality(Threads) -> Threads] : IsInjective(f)
        BY <1>1, FS_CardinalityType DEF ExistsBijection, Bijection, Injection, IsInjective
    <2> QED
        BY <2>1 DEF DriverInit, DriverStart, SetToSeq, Injection
<1>3. runnable \in Surjection(1 .. Cardinality(Threads), Threads)
    <2>1. Cardinality(1 .. Cardinality(Threads)) = Cardinality(Threads)
        BY <1>1, FS_Interval
    <2> QED
        BY <1>1, <1>2, <2>1, FS_Injection
<1>4. PICK i \in 1 .. Cardinality(Threads) : runnable[i] = t
    BY <1>3 DEF Surjection
<1>5. Occ(runnable, {t}) = {i}
    BY <1>2, <1>4 DEF Occ, Injection, IsInjective
<1>6. Waiting(t) = 1
    BY Zenon, <1>5, FS_Singleton DEF Waiting
<1>7. /\ Occ(worker_queue, TasksOf(t)) = {} /\ Occ(channel, MessagesOf(t)) = {}
      /\ WorkersOf(worker, t) = {} /\ pending_events \cap MessagesOf(t) = {} /\ t \notin hosted
    BY DEF DriverInit, DriverStart, BridgeInit, Occ, WorkersOf
<1>8. Queued(t) = 0 /\ OnWorkers(t) = 0 /\ Sent(t) = 0 /\ Received(t) = 0 /\ Hosted(t) = 0
    BY <1>7, FS_EmptySet DEF Queued, OnWorkers, Sent, Received, Hosted
<1> QED
    BY <1>6, <1>8 DEF Total, Held, Out

-------------------------------------------------------------------------------
(* The places, each with its name. *)

Tagged(name, S) == {<<name, x>> : x \in S}

\* Places of different kinds are different.
LEMMA TaggedUnion ==
    ASSUME NEW name, NEW S, IsFiniteSet(S), NEW U, IsFiniteSet(U), Tagged(name, S) \cap U = {}
    PROVE  /\ IsFiniteSet(Tagged(name, S) \cup U)
           /\ Cardinality(Tagged(name, S) \cup U) = Cardinality(S) + Cardinality(U)
<1> DEFINE T == Tagged(name, S)
           f == [x \in S |-> <<name, x>>]
<1>1. f \in Bijection(S, T)
    BY DEF Tagged, Bijection, Injection, Surjection, IsInjective
<1>2. IsFiniteSet(T) /\ Cardinality(T) = Cardinality(S)
    <2>1. ExistsBijection(S, T)
        BY <1>1 DEF ExistsBijection
    <2> HIDE DEF T
    <2> QED
        BY <2>1, FS_Bijection
<1>3. IsFiniteSet(T \cup U) /\ Cardinality(T \cup U) = Cardinality(T) + Cardinality(U) - Cardinality(T \cap U)
    <2> HIDE DEF T
    <2> QED
        BY <1>2, FS_Union
<1>4. Cardinality(T \cap U) = 0 /\ Cardinality(S) \in Nat /\ Cardinality(U) \in Nat
    BY Zenon, FS_EmptySet, FS_CardinalityType
<1> QED
    BY <1>2, <1>3, <1>4

\* The set of places that hold a thread has as many members as were counted.
LEMMA CarriersCounted ==
    ASSUME DriverInv, NEW t \in Threads
    PROVE  Cardinality(Carriers(t)) = Total(t)
<1> DEFINE Q == Occ(worker_queue, TasksOf(t))
           W == WorkersOf(worker, t)
           C == Occ(channel, MessagesOf(t))
           D == pending_events \cap MessagesOf(t)
           R == Occ(runnable, {t})
           H == IF t \in hosted THEN {1} ELSE {}
           U6 == Tagged("host", H) \cup {}
           U5 == Tagged("runnable", R) \cup U6
           U4 == Tagged("drained", D) \cup U5
           U3 == Tagged("channel", C) \cup U4
           U2 == Tagged("worker", W) \cup U3
           U1 == Tagged("queue", Q) \cup U2
<1>1. /\ worker_queue \in Seq(Task) /\ channel \in Seq(Message) /\ runnable \in Seq(Threads)
      /\ worker \in WorkerTypes /\ pending_events \in SUBSET Message /\ IsFiniteSet(pending_events)
    BY DEF DriverInv, BridgeInv, ChannelInv, DrainedInv, PoolInv, ThreadInv
<1>2. /\ IsFiniteSet(Q) /\ IsFiniteSet(W) /\ IsFiniteSet(C) /\ IsFiniteSet(D) /\ IsFiniteSet(R)
      /\ IsFiniteSet(H) /\ IsFiniteSet({})
    BY Zenon, <1>1, OccFinite, WorkersFinite, FS_Subset, FS_EmptySet, FS_Singleton
<1>3. Cardinality(H) = Hosted(t)
    BY FS_EmptySet, FS_Singleton DEF Hosted
<1>4. Carriers(t) = U1
    <2>1. Tagged("queue", Q) = {<<"queue", i>> : i \in {i \in DOMAIN worker_queue : worker_queue[i] = [kind |-> "thread", thread |-> t]}}
              \cup {<<"queue", i>> : i \in {i \in DOMAIN worker_queue : worker_queue[i] = [kind |-> "provider", thread |-> t]}}
        <3>1. \A i \in DOMAIN worker_queue : worker_queue[i] \in TasksOf(t) <=>
                  worker_queue[i] \in {[kind |-> "thread", thread |-> t], [kind |-> "provider", thread |-> t]}
            BY <1>1 DEF TasksOf, Task
        <3> QED
            BY <3>1 DEF Tagged, Occ
    <2>2. Tagged("worker", W) = {<<"worker", w>> : w \in {w \in Pool : [kind |-> "thread", thread |-> t] \in worker[w].task}}
              \cup {<<"worker", w>> : w \in {w \in Pool : [kind |-> "provider", thread |-> t] \in worker[w].task}}
        <3>1. TasksOf(t) = {[kind |-> "thread", thread |-> t], [kind |-> "provider", thread |-> t]}
            BY DEF TasksOf, Task
        <3>2. \A w \in Pool : worker[w].task \cap TasksOf(t) # {} <=>
                  \/ [kind |-> "thread", thread |-> t] \in worker[w].task
                  \/ [kind |-> "provider", thread |-> t] \in worker[w].task
            BY <3>1
        <3> QED
            BY <3>2 DEF Tagged, WorkersOf
    <2>3. Tagged("channel", C) = {<<"channel", i>> : i \in {i \in DOMAIN channel : channel[i].event.thread = t}}
        BY <1>1 DEF Tagged, Occ, MessagesOf
    <2>4. Tagged("drained", D) = {<<"drained", e>> : e \in {e \in pending_events : e.event.thread = t}}
        BY <1>1 DEF Tagged, MessagesOf
    <2>5. Tagged("runnable", R) = {<<"runnable", i>> : i \in {i \in DOMAIN runnable : runnable[i] = t}}
        BY DEF Tagged, Occ
    <2>6. Tagged("host", H) = IF t \in hosted THEN {<<"host", 1>>} ELSE {}
        BY DEF Tagged
    <2> HIDE DEF Q, W, C, D, R, H
    <2> QED
        BY <2>1, <2>2, <2>3, <2>4, <2>5, <2>6, Zenon DEF Carriers
<1>5. Cardinality(U1) = Total(t)
    <2> HIDE DEF Q, W, C, D, R, H
    <2>1. \A name, S : \A p \in Tagged(name, S) : p[1] = name
        BY DEF Tagged
    <2>2. IsFiniteSet(U6) /\ Cardinality(U6) = Cardinality(H) + 0
        BY <1>2, FS_EmptySet, TaggedUnion
    <2>3. IsFiniteSet(U5) /\ Cardinality(U5) = Cardinality(R) + Cardinality(U6)
        <3>1. Tagged("runnable", R) \cap U6 = {}
            BY <2>1
        <3> HIDE DEF U6
        <3>2. IsFiniteSet(R) /\ IsFiniteSet(U6)
            BY <1>2, <2>2
        <3> QED
            BY <3>1, <3>2, TaggedUnion
    <2>4. IsFiniteSet(U4) /\ Cardinality(U4) = Cardinality(D) + Cardinality(U5)
        <3>1. Tagged("drained", D) \cap U5 = {}
            BY <2>1
        <3> HIDE DEF U5
        <3>2. IsFiniteSet(D) /\ IsFiniteSet(U5)
            BY <1>2, <2>3
        <3> QED
            BY <3>1, <3>2, TaggedUnion
    <2>5. IsFiniteSet(U3) /\ Cardinality(U3) = Cardinality(C) + Cardinality(U4)
        <3>1. Tagged("channel", C) \cap U4 = {}
            BY <2>1
        <3> HIDE DEF U4
        <3>2. IsFiniteSet(C) /\ IsFiniteSet(U4)
            BY <1>2, <2>4
        <3> QED
            BY <3>1, <3>2, TaggedUnion
    <2>6. IsFiniteSet(U2) /\ Cardinality(U2) = Cardinality(W) + Cardinality(U3)
        <3>1. Tagged("worker", W) \cap U3 = {}
            BY <2>1
        <3> HIDE DEF U3
        <3>2. IsFiniteSet(W) /\ IsFiniteSet(U3)
            BY <1>2, <2>5
        <3> QED
            BY <3>1, <3>2, TaggedUnion
    <2>7. Cardinality(U1) = Cardinality(Q) + Cardinality(U2)
        <3>1. Tagged("queue", Q) \cap U2 = {}
            BY <2>1
        <3> HIDE DEF U2
        <3>2. IsFiniteSet(Q) /\ IsFiniteSet(U2)
            BY <1>2, <2>6
        <3> QED
            BY <3>1, <3>2, TaggedUnion
    <2>8. /\ Cardinality(Q) = Queued(t) /\ Cardinality(W) = OnWorkers(t) /\ Cardinality(C) = Sent(t)
          /\ Cardinality(D) = Received(t) /\ Cardinality(R) = Waiting(t)
        BY DEF Q, W, C, D, R, Queued, OnWorkers, Sent, Received, Waiting
    <2>9. /\ Queued(t) \in Nat /\ OnWorkers(t) \in Nat /\ Sent(t) \in Nat
          /\ Received(t) \in Nat /\ Waiting(t) \in Nat /\ Hosted(t) \in {0, 1}
        BY CountsAreNat
    <2> HIDE DEF U1, U2, U3, U4, U5, U6
    <2> QED
        BY <1>3, <2>2, <2>3, <2>4, <2>5, <2>6, <2>7, <2>8, <2>9 DEF Total, Held, Out
<1> QED
    BY <1>4, <1>5

\* OneCarrier holds of every run of the driver: no thread is run twice at once
\* or forgotten, and active_workers is exact.
THEOREM ThreadsHaveOneCarrier == DriverSpec => []OneCarrier
<1>1. DriverInv /\ CarrierInv /\ [DriverNext]_driverVars => CarrierInv'
    <2> SUFFICES ASSUME DriverInv, CarrierInv, [DriverNext]_driverVars PROVE CarrierInv'
        OBVIOUS
    <2>1. CASE Drain \/ ProcessEvent \/ DispatchRunnable
        BY <2>1, DrainCarrier, ProcessEventCarrier, DispatchRunnableCarrier
    <2>2. CASE EventsProcessed \/ DispatchEnds \/ Step \/ LoadActive \/ WaitTest \/ WaitSleep \/ SpuriousWakeup
               \/ UNCHANGED driverVars
        BY Zenon, <2>2, CarrierFrame DEF EventsProcessed, DispatchEnds, Step, LoadActive, WaitTest, WaitSleep,
           SpuriousWakeup, wait_test, wait_sleep, wait_spurious, driverVars, bridgeVars, loopVars,
           threadVars, poolVars, taskVars
    <2>3. ASSUME NEW w \in Pool, Recv(w) \/ Run(w) PROVE CarrierInv'
        BY <2>3, RecvCarrier, RunCarrier
    <2>4. ASSUME NEW w \in Pool, Decrement(w) \/ NotifyWaiters(w) PROVE CarrierInv'
        <3>1. \A v \in Pool : worker'[v].task = worker[v].task
            BY <2>4 DEF Decrement, NotifyWaiters, DriverInv, PoolInv, WorkerTypes
        <3> QED
            BY <2>4, <3>1, CarrierFrame DEF Decrement, NotifyWaiters, notify_waiters, bridgeVars,
               loopVars, threadVars, taskVars
    <2>5. ASSUME NEW t \in Threads, HostCompletes(t) PROVE CarrierInv'
        BY <2>5, HostCarrier
    <2> QED
        BY <2>1, <2>2, <2>3, <2>4, <2>5 DEF DriverNext, OwnerNext, WorkerNext, Closed
<1>2. DriverInit => CarrierInv
    BY CarrierInit
<1>3. DriverInv /\ CarrierInv => OneCarrier
    BY CarriersCounted DEF OneCarrier, CarrierInv, DriverInv, PoolInv, BusyIn
<1> QED
    BY <1>1, <1>2, <1>3, DriverInvariant_Holds, PTL DEF DriverSpec
================================================================================
