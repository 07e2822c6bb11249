---------------------------- MODULE StructureProofs ----------------------------
(***************************************************************************)
(* LocalIdManager never hands out an id that is held, for every size of    *)
(* the id space and every sequence of allocations and frees; RunnableQueue *)
(* is a line of distinct threads, for every set of threads and every       *)
(* sequence of calls.                                                      *)
(***************************************************************************)
EXTENDS IdManager, RunnableQueue, SequenceTheorems, FiniteSetTheorems,
        WellFoundedInduction, TLAPS

(* The id manager. *)

Inv == TypeOK /\ Partition

\* The empty manager satisfies the invariant (LocalIdManager::new).
LEMMA InitInv == Init => Inv
<1> SUFFICES ASSUME Init PROVE Inv
    OBVIOUS
<1>1. TypeOK
    <2>1. free_list \in Seq(Ids)
        BY DEF Init
    <2> QED
        BY <2>1, IdAssumption DEF Init, TypeOK
<1>2. Partition
    BY DEF Init, Partition
<1> QED
    BY <1>1, <1>2 DEF Inv

\* Taking the last freed id keeps the invariant and hands out an id nobody held.
LEMMA ReuseInv == Inv /\ Reuse => Inv' /\ Pool!Allocate
<1> SUFFICES ASSUME Inv, Reuse PROVE Inv' /\ Pool!Allocate
    OBVIOUS
<1> USE IdAssumption DEF Inv
<1> DEFINE n == Len(free_list)
           last == free_list[n]
<1>1. n \in Nat \ {0} /\ free_list \in [1 .. n -> Ids]
    BY DEF TypeOK, Reuse
<1>2. last \in Ids /\ last \notin active_ids /\ last < next_id
    BY <1>1 DEF Partition
<1>3. /\ free_list' \in Seq(Ids)
      /\ Len(free_list') = n - 1
      /\ \A i \in 1 .. n - 1 : free_list'[i] = free_list[i]
    <2>1. \A i \in 1 .. n - 1 : free_list[i] \in Ids
        BY <1>1
    <2> HIDE DEF Ids
    <2> QED
        BY <1>1, <2>1, SubSeqProperties DEF TypeOK, Reuse
<1>4. TypeOK'
    <2>1. last \in Ids /\ active_ids' = active_ids \cup {last} /\ returned' = {last}
        BY <1>2 DEF Reuse
    <2> QED
        BY <1>3, <2>1 DEF TypeOK, Reuse
<1>5. Partition'
    <2>1. active_ids' = active_ids \cup {last} /\ next_id' = next_id
        BY DEF Reuse
    <2>2. \A i \in 1 .. n - 1 : free_list[i] # last
        BY <1>1 DEF Partition
    <2>3. \A i \in 1 .. Len(free_list') :
             /\ free_list'[i] < next_id'
             /\ free_list'[i] \notin active_ids'
             /\ \A j \in 1 .. Len(free_list') :
                   free_list'[i] = free_list'[j] => i = j
        BY <1>1, <1>3, <2>1, <2>2 DEF Partition
    <2>4. \A id \in active_ids' : id < next_id'
        BY <1>2, <2>1 DEF Partition
    <2>5. ASSUME NEW id \in 1 .. next_id' - 1, id \notin active_ids'
          PROVE  \E i \in 1 .. Len(free_list') : free_list'[i] = id
        <3>1. PICK i \in 1 .. n : free_list[i] = id
            BY <2>1, <2>5 DEF Partition
        <3>2. i \in 1 .. n - 1
            BY <1>1, <2>1, <2>5, <3>1
        <3> QED
            BY <1>3, <3>1, <3>2
    <2> QED
        BY <2>3, <2>4, <2>5 DEF Partition
<1>6. Pool!Allocate
    BY <1>2 DEF Pool!Allocate, Reuse
<1> QED
    BY <1>4, <1>5, <1>6

\* Handing out next_id keeps the invariant, and nobody held that id.
LEMMA AdvanceInv == Inv /\ Advance => Inv' /\ Pool!Allocate
<1> SUFFICES ASSUME Inv, Advance PROVE Inv' /\ Pool!Allocate
    OBVIOUS
<1> USE IdAssumption DEF Inv, Ids
<1>1. /\ free_list = <<>> /\ free_list' = <<>> /\ Len(free_list) = 0
      /\ next_id \in 1 .. MaxId /\ next_id' = next_id + 1
      /\ active_ids' = active_ids \cup {next_id}
      /\ returned' = {next_id}
    BY DEF Advance
<1>2. next_id \notin active_ids
    BY <1>1 DEF Partition, TypeOK
<1>3. TypeOK'
    BY <1>1 DEF TypeOK
<1>4. Partition'
    <2>1. \A id \in 1 .. next_id - 1 : id \in active_ids
        BY <1>1 DEF Partition
    <2>2. \A id \in active_ids' : id < next_id'
        BY <1>1 DEF Partition, TypeOK
    <2>3. \A id \in 1 .. next_id' - 1 : id \in active_ids'
        BY <1>1, <2>1
    <2> QED
        BY <1>1, <2>2, <2>3 DEF Partition
<1>5. Pool!Allocate
    BY <1>1, <1>2 DEF Pool!Allocate
<1> QED
    BY <1>3, <1>4, <1>5

\* try_allocate gives up only when every id is held.
LEMMA ExhaustedInv == Inv /\ Exhausted => Inv' /\ Pool!Exhausted
<1> SUFFICES ASSUME Inv, Exhausted PROVE Inv' /\ Pool!Exhausted
    OBVIOUS
<1> USE IdAssumption DEF Inv, Ids
<1>1. Len(free_list) = 0 /\ next_id = MaxId + 1
    BY DEF Exhausted, TypeOK
<1>2. \A id \in Ids : id \in 1 .. next_id - 1
    BY <1>1
<1>3. \A id \in Ids : id \in active_ids
    BY <1>1, <1>2 DEF Partition
<1>4. active_ids = Ids
    BY Zenon, <1>3 DEF TypeOK
<1>5. Pool!Exhausted
    BY <1>4 DEF Pool!Exhausted, Exhausted
<1>6. Inv'
    BY DEF Exhausted, TypeOK, Partition
<1> QED
    BY <1>5, <1>6

\* Freeing keeps the invariant: an active id joins the free list, where it was
\* not, and any other id is ignored.
LEMMA FreeInv ==
    ASSUME Inv, NEW id \in Ids, free(id)
    PROVE  Inv' /\ Pool!Free
<1> USE IdAssumption DEF Inv
<1>0. Pool!Free
    BY DEF Pool!Free, free
<1>1. CASE id \notin active_ids
    <2>1. UNCHANGED <<next_id, free_list, active_ids>> /\ returned' = {}
        BY <1>1 DEF free, TypeOK
    <2> QED
        BY <1>0, <2>1 DEF TypeOK, Partition
<1>2. CASE id \in active_ids
    <2>1. /\ active_ids' = active_ids \ {id} /\ next_id' = next_id
          /\ free_list' = Append(free_list, id) /\ returned' = {}
        BY <1>2 DEF free
    <2> DEFINE n == Len(free_list)
    <2>2. /\ n \in Nat /\ Len(free_list') = n + 1
          /\ \A i \in 1 .. n : free_list'[i] = free_list[i] /\ free_list[i] \in Ids
          /\ free_list'[n + 1] = id
          /\ free_list' \in Seq(Ids)
        BY <2>1 DEF TypeOK
    <2>3. TypeOK'
        BY <2>1, <2>2 DEF TypeOK
    <2>4. \A i \in 1 .. n : free_list[i] # id
        BY <1>2, <2>2 DEF Partition
    <2>5. \A i \in 1 .. n + 1 :
             /\ free_list'[i] < next_id
             /\ free_list'[i] \notin active_ids \ {id}
             /\ \A j \in 1 .. n + 1 : free_list'[i] = free_list'[j] => i = j
        BY <1>2, <2>2, <2>4 DEF Partition
    <2>6. ASSUME NEW x \in 1 .. next_id' - 1, x \notin active_ids'
          PROVE  \E i \in 1 .. n + 1 : free_list'[i] = x
        <3>1. CASE x = id
            BY <2>2, <3>1
        <3>2. CASE x # id
            <4>1. PICK i \in 1 .. n : free_list[i] = x
                BY <2>1, <2>6, <3>2 DEF Partition
            <4> QED
                BY <2>2, <4>1
        <3> QED
            BY <3>1, <3>2
    <2>7. Partition'
        BY <2>1, <2>2, <2>5, <2>6 DEF Partition
    <2> QED
        BY <1>0, <2>3, <2>7
<1> QED
    BY <1>1, <1>2

\* Every step keeps the invariant and is a step of the pool.
LEMMA StepInv ==
    Inv /\ [Next]_vars => Inv' /\ [Pool!Next]_<<active_ids, returned>>
<1> SUFFICES ASSUME Inv, [Next]_vars PROVE Inv' /\ [Pool!Next]_<<active_ids, returned>>
    OBVIOUS
<1>1. CASE Reuse
    BY <1>1, ReuseInv DEF Pool!Next
<1>2. CASE Advance
    BY <1>2, AdvanceInv DEF Pool!Next
<1>3. CASE Exhausted
    BY <1>3, ExhaustedInv DEF Pool!Next
<1>4. ASSUME NEW id \in Ids, free(id)
      PROVE  Inv' /\ [Pool!Next]_<<active_ids, returned>>
    BY <1>4, FreeInv DEF Pool!Next
<1>5. CASE UNCHANGED vars
    BY <1>5 DEF vars, Inv, TypeOK, Partition
<1> QED
    BY <1>1, <1>2, <1>3, <1>4, <1>5 DEF Next

\* The held ids and the free list partition the ids handed out so far, whatever
\* the sequence of allocations and frees, stale frees included.
THEOREM PartitionHolds == Spec => [](TypeOK /\ Partition)
<1> QED
    BY InitInv, StepInv, PTL DEF Spec, Inv

\* LocalIdManager implements the pool of ids its callers rely on: what
\* try_allocate returns was held by nobody, and None means that all are held.
THEOREM ManagerImplementsPool == Spec => ImplementsPool
<1>1. Init => Pool!Init
    BY DEF Init, Pool!Init
<1> QED
    BY <1>1, InitInv, StepInv, PTL DEF Spec, ImplementsPool, Pool!Spec

(* The runnable queue. *)

Entries == [id : ThreadIds, token : Nat, front : BOOLEAN]

\* Every entry was pushed with a token of its own, and a queued thread's token
\* is that of an entry of it.
QueueInv ==
    /\ queue \in Seq(Entries)
    /\ queued \in [ThreadIds -> Nat]
    /\ next_token \in Nat
    /\ \A i \in 1 .. Len(queue) : queue[i].token \in 1 .. next_token
    /\ \A i, j \in 1 .. Len(queue) : queue[i].token = queue[j].token => i = j
    /\ \A t \in ThreadIds : queued[t] <= next_token
    /\ \A t \in ThreadIds : queued[t] # 0 =>
           \E i \in 1 .. Len(queue) : queue[i].id = t /\ queue[i].token = queued[t]

\* A set of numbers that is not empty has a least one.
LEMMA MinOfNats ==
    ASSUME NEW S \in SUBSET Nat, S # {}
    PROVE  Min(S) \in S /\ \A x \in S : Min(S) <= x
<1> DEFINE R == OpToRel(<, Nat)
<1>1. \A y, z \in Nat : y < z => <<y, z>> \in R
    BY DEF OpToRel
<1>2. IsWellFoundedOn(R, Nat)
    BY Zenon, NatLessThanWellFounded
<1> HIDE DEF R
<1>3. PICK x \in S : \A y \in S : ~ (<<y, x>> \in R)
    BY Zenon, <1>2, WFMin
<1>4. ASSUME NEW y \in S PROVE x <= y
    <2>1. x \in Nat /\ y \in Nat
        OBVIOUS
    <2>2. ~ (y < x)
        BY Zenon, <1>1, <1>3, <2>1
    <2> QED
        BY <2>1, <2>2
<1> QED
    BY Zenon, <1>4 DEF Min

\* An entry of the queue has a thread and a token.
LEMMA EntryFacts ==
    ASSUME QueueInv
    PROVE  /\ Len(queue) \in Nat
           /\ DOMAIN queue = 1 .. Len(queue)
           /\ \A i \in 1 .. Len(queue) :
                 /\ queue[i] \in Entries /\ queue[i].id \in ThreadIds /\ queue[i].token \in Nat
                 /\ queue[i].token # 0 /\ queue[i].token <= next_token
           /\ Lives = {i \in 1 .. Len(queue) : queued[queue[i].id] = queue[i].token}
<1>1. Len(queue) \in Nat /\ DOMAIN queue = 1 .. Len(queue) /\ \A i \in 1 .. Len(queue) : queue[i] \in Entries
    BY DEF QueueInv
<1>2. \A i \in 1 .. Len(queue) : queue[i].id \in ThreadIds /\ queue[i].token \in Nat
    BY <1>1 DEF Entries
<1>3. \A i \in 1 .. Len(queue) : queue[i].token # 0 /\ queue[i].token <= next_token
    BY DEF QueueInv
<1> QED
    BY <1>1, <1>2, <1>3 DEF Lives, IsLive

\* A token is in the queue once.
LEMMA TokensDistinct ==
    ASSUME QueueInv, NEW i \in 1 .. Len(queue), NEW j \in 1 .. Len(queue), queue[i].token = queue[j].token
    PROVE  i = j
BY DEF QueueInv

\* The threads that the map holds are those of the live entries, one each.
LEMMA LineIsQueued ==
    ASSUME QueueInv
    PROVE  /\ Line = {t \in ThreadIds : queued[t] # 0}
           /\ \A i, j \in Lives : queue[i].id = queue[j].id => i = j
<1>1. ASSUME NEW i \in Lives PROVE queue[i].id \in ThreadIds /\ queued[queue[i].id] # 0
    BY EntryFacts
<1>2. ASSUME NEW t \in ThreadIds, queued[t] # 0 PROVE \E i \in Lives : queue[i].id = t
    BY <1>2, EntryFacts DEF QueueInv
<1>3. \A i, j \in Lives : queue[i].id = queue[j].id => i = j
    BY EntryFacts DEF QueueInv
<1> QED
    BY <1>1, <1>2, <1>3 DEF Line

\* The map and the deque agree.
LEMMA Agreement ==
    ASSUME QueueInv
    PROVE  CountsAgree
<1> SUFFICES ASSUME NEW t \in ThreadIds
             PROVE  Cardinality({i \in DOMAIN queue : queue[i].id = t /\ IsLive(queue[i])})
                        = IF contains(t) THEN 1 ELSE 0
    BY DEF CountsAgree
<1> DEFINE S == {i \in DOMAIN queue : queue[i].id = t /\ IsLive(queue[i])}
<1>1. CASE contains(t)
    <2>1. PICK i \in 1 .. Len(queue) : queue[i].id = t /\ queue[i].token = queued[t]
        BY <1>1 DEF QueueInv, contains
    <2>2. S = {i}
        BY <2>1, EntryFacts DEF QueueInv, IsLive
    <2> QED
        BY Zenon, <1>1, <2>2, FS_Singleton
<1>2. CASE ~contains(t)
    <2>1. S = {}
        BY <1>2, EntryFacts DEF contains, IsLive
    <2> QED
        BY <1>2, <2>1, FS_EmptySet
<1> QED
    BY <1>1, <1>2

\* A new queue is an empty line.
LEMMA QueueInitInv == QueueInit => QueueInv /\ Fifo!FifoInit
<1> SUFFICES ASSUME QueueInit PROVE QueueInv /\ Fifo!FifoInit
    OBVIOUS
<1>1. queue = <<>> /\ Len(queue) = 0 /\ queue \in Seq(Entries) /\ Lives = {}
    BY EmptySeq DEF QueueInit, Lives
<1>2. QueueInv
    BY <1>1 DEF QueueInit, QueueInv
<1>3. Line = {} /\ Before = {} /\ AtFront = {}
    BY <1>1 DEF Line, Before, AtFront
<1> QED
    BY <1>2, <1>3 DEF QueueInit, Fifo!FifoInit

\* A thread that is queued is not queued again.
LEMMA QueuedAlready ==
    ASSUME QueueInv, NEW t \in ThreadIds, contains(t), UNCHANGED <<queue, queued, next_token>>,
           result' = None
    PROVE  QueueInv' /\ Fifo!Join(t) /\ Fifo!JoinFront(t)
<1>1. QueueInv'
    BY DEF QueueInv
<1>2. t \in Line
    BY LineIsQueued DEF contains
<1>3. Line' = Line /\ Before' = Before /\ AtFront' = AtFront
    BY DEF Line, Before, AtFront, Lives, IsLive
<1> QED
    BY <1>1, <1>2, <1>3 DEF Fifo!Join, Fifo!JoinFront

\* enqueue: a thread joins at the back, unless it is in the line.
LEMMA EnqueueStep ==
    ASSUME QueueInv, NEW t \in ThreadIds, enqueue(t)
    PROVE  QueueInv' /\ Fifo!Join(t)
<1>1. CASE contains(t)
    BY <1>1, QueuedAlready DEF enqueue
<1>2. CASE ~contains(t)
    <2> DEFINE n == Len(queue)
               e == [id |-> t, token |-> next_token + 1, front |-> FALSE]
    <2>1. /\ queued[t] = 0 /\ next_token' = next_token + 1 /\ next_token \in Nat /\ result' = None
          /\ queued' = [queued EXCEPT ![t] = next_token + 1] /\ queue' = Append(queue, e)
          /\ queue \in Seq(Entries) /\ e \in Entries /\ queued \in [ThreadIds -> Nat]
        BY <1>2 DEF enqueue, contains, Entry, QueueInv, Entries
    <2>2. /\ queue' \in Seq(Entries) /\ Len(queue') = n + 1 /\ n \in Nat
          /\ DOMAIN queue' = 1 .. (n + 1)
          /\ \A i \in 1 .. n : queue'[i] = queue[i]
          /\ queue'[n + 1] = e
        BY <2>1, AppendProperties, LenProperties
    <2>3. queued' \in [ThreadIds -> Nat] /\ queued'[t] = next_token + 1
          /\ \A u \in ThreadIds \ {t} : queued'[u] = queued[u]
        BY <2>1
    <2>4. \A i \in 1 .. (n + 1) : i \in 1 .. n \/ i = n + 1
        BY <2>2
    <2>5. Lives' = Lives \cup {n + 1}
        <3>1. Lives' = {i \in 1 .. (n + 1) : queued'[queue'[i].id] = queue'[i].token}
            BY <2>2 DEF Lives, IsLive
        <3>2. queued'[queue'[n + 1].id] = queue'[n + 1].token
            BY <2>2, <2>3
        <3>3. ASSUME NEW i \in 1 .. n
              PROVE  queued'[queue'[i].id] = queue'[i].token <=> queued[queue[i].id] = queue[i].token
            <4>1. CASE queue[i].id = t
                BY <2>1, <2>2, <2>3, <4>1, EntryFacts
            <4>2. CASE queue[i].id # t
                BY <2>2, <2>3, <4>2, EntryFacts
            <4> QED
                BY <4>1, <4>2
        <3> QED
            BY <2>2, <2>4, <3>1, <3>2, <3>3, EntryFacts
    <2>6. QueueInv'
        <3>1. \A i \in 1 .. Len(queue') : queue'[i].token \in 1 .. next_token'
            BY <2>1, <2>2, <2>4 DEF QueueInv
        <3>2. \A i, j \in 1 .. Len(queue') : queue'[i].token = queue'[j].token => i = j
            BY <2>1, <2>2, <2>4, EntryFacts DEF QueueInv
        <3>3. \A u \in ThreadIds : queued'[u] <= next_token'
            BY <2>1, <2>3 DEF QueueInv
        <3>4. \A u \in ThreadIds : queued'[u] # 0 =>
                 \E i \in 1 .. Len(queue') : queue'[i].id = u /\ queue'[i].token = queued'[u]
            <4>1. n + 1 \in 1 .. Len(queue') /\ queue'[n + 1].id = t /\ queue'[n + 1].token = queued'[t]
                BY <2>2, <2>3
            <4>2. ASSUME NEW u \in ThreadIds \ {t}, queued'[u] # 0
                  PROVE  \E i \in 1 .. n : queue'[i].id = u /\ queue'[i].token = queued'[u]
                BY <2>2, <2>3, <4>2 DEF QueueInv
            <4>3. 1 .. n \subseteq 1 .. Len(queue')
                BY <2>2
            <4> QED
                BY <4>1, <4>2, <4>3
        <3> QED
            BY <2>1, <2>2, <2>3, <3>1, <3>2, <3>3, <3>4 DEF QueueInv
    <2>7. \A i \in Lives : i \in 1 .. n /\ queue'[i] = queue[i] /\ queue[i].id # t
        BY <2>1, <2>2, EntryFacts
    <2>8. t \notin Line
        BY <2>7 DEF Line
    <2>9. Line' = Line \cup {t} /\ AtFront' = AtFront
        BY <2>2, <2>5, <2>7 DEF Line, AtFront
    <2>10. Before' = Before \cup (Line \X {t})
        <3>1. \A a, b : <<a, b>> \in Before <=> \E i, j \in Lives : i < j /\ queue[i].id = a /\ queue[j].id = b
            BY DEF Before, Line
        <3>2. \A a, b : <<a, b>> \in Before' <=> \E i, j \in Lives' : i < j /\ queue'[i].id = a /\ queue'[j].id = b
            BY DEF Before, Line
        <3>3. ASSUME NEW i \in Lives', NEW j \in Lives', i < j
              PROVE  /\ i \in Lives /\ queue'[i] = queue[i]
                     /\ (j \in Lives /\ queue'[j] = queue[j]) \/ queue'[j].id = t
            BY <2>2, <2>5, <2>7, <3>3
        <3>4. ASSUME NEW i \in Lives
              PROVE  /\ i \in Lives' /\ n + 1 \in Lives' /\ i < n + 1
                     /\ queue'[i] = queue[i] /\ queue'[n + 1].id = t
            BY <2>2, <2>5, <2>7
        <3>5. ASSUME NEW a, NEW b, <<a, b>> \in Before'
              PROVE  <<a, b>> \in Before \/ (a \in Line /\ b = t)
            BY <3>1, <3>2, <3>3, <3>5 DEF Line
        <3>6. ASSUME NEW a, NEW b, <<a, b>> \in Before PROVE <<a, b>> \in Before'
            BY <3>1, <3>2, <3>4, <3>6
        <3>7. ASSUME NEW a \in Line PROVE <<a, t>> \in Before'
            BY <3>2, <3>4 DEF Line
        <3>8. \A p \in Before' : p = <<p[1], p[2]>>
            BY DEF Before
        <3>9. \A p \in Before : p = <<p[1], p[2]>>
            BY DEF Before
        <3> QED
            BY <3>5, <3>6, <3>7, <3>8, <3>9
    <2> QED
        BY <2>1, <2>6, <2>8, <2>9, <2>10 DEF Fifo!Join
<1> QED
    BY <1>1, <1>2

\* enqueue_front: a thread joins at the front, unless it is in the line.
LEMMA EnqueueFrontStep ==
    ASSUME QueueInv, NEW t \in ThreadIds, enqueue_front(t)
    PROVE  QueueInv' /\ Fifo!JoinFront(t)
<1>1. CASE contains(t)
    BY <1>1, QueuedAlready DEF enqueue_front
<1>2. CASE ~contains(t)
    <2> DEFINE n == Len(queue)
               e == [id |-> t, token |-> next_token + 1, front |-> TRUE]
    <2>1. /\ queued[t] = 0 /\ next_token' = next_token + 1 /\ next_token \in Nat /\ result' = None
          /\ queued' = [queued EXCEPT ![t] = next_token + 1] /\ queue' = <<e>> \o queue
          /\ queue \in Seq(Entries) /\ e \in Entries /\ queued \in [ThreadIds -> Nat]
        <3>1. next_token \in Nat /\ queue \in Seq(Entries) /\ queued \in [ThreadIds -> Nat]
            BY DEF QueueInv
        <3>2. e \in Entries
            BY <3>1 DEF Entries
        <3> QED
            BY Zenon, <1>2, <3>1, <3>2 DEF enqueue_front, contains, Entry
    <2>2. /\ queue' \in Seq(Entries) /\ Len(queue') = n + 1 /\ n \in Nat
          /\ DOMAIN queue' = 1 .. (n + 1)
          /\ queue'[1] = e
          /\ \A i \in 1 .. n : queue'[i + 1] = queue[i]
        <3>1. <<e>> \in Seq(Entries) /\ Len(<<e>>) = 1 /\ <<e>>[1] = e /\ n \in Nat
            BY <2>1, LenProperties
        <3>2. /\ queue' \in Seq(Entries) /\ Len(queue') = 1 + n
              /\ \A i \in 1 .. 1 + n : queue'[i] = IF i <= 1 THEN <<e>>[i] ELSE queue[i - 1]
            <4> HIDE DEF e
            <4> QED
                BY <2>1, <3>1, ConcatProperties
        <3> HIDE DEF e
        <3>3. \A i \in 1 .. n : i + 1 \in 1 .. 1 + n /\ ~(i + 1 <= 1) /\ (i + 1) - 1 = i
            BY <3>1
        <3> QED
            BY <3>1, <3>2, <3>3
    <2>3. queued' \in [ThreadIds -> Nat] /\ queued'[t] = next_token + 1
          /\ \A u \in ThreadIds \ {t} : queued'[u] = queued[u]
        BY <2>1
    <2>4. \A i \in 1 .. (n + 1) : i = 1 \/ (i - 1 \in 1 .. n /\ queue'[i] = queue[i - 1])
        <3>1. \A i \in 1 .. (n + 1) : i = 1 \/ (i - 1 \in 1 .. n /\ (i - 1) + 1 = i)
            BY <2>2
        <3> QED
            BY <2>2, <3>1
    <2>5. /\ 1 \in Lives'
          /\ \A i \in 1 .. n : i + 1 \in Lives' <=> i \in Lives
          /\ \A i \in Lives' : i = 1 \/ (i - 1 \in Lives /\ queue'[i] = queue[i - 1])
          /\ Lives' \subseteq 1 .. (n + 1)
        <3>1. Lives' = {i \in 1 .. (n + 1) : queued'[queue'[i].id] = queue'[i].token}
            BY <2>2 DEF Lives, IsLive
        <3>2. queued'[queue'[1].id] = queue'[1].token /\ 1 \in 1 .. (n + 1)
            BY <2>2, <2>3
        <3>3. ASSUME NEW i \in 1 .. n
              PROVE  queued'[queue'[i + 1].id] = queue'[i + 1].token <=> queued[queue[i].id] = queue[i].token
            <4>1. CASE queue[i].id = t
                BY <2>1, <2>2, <2>3, <4>1, EntryFacts
            <4>2. CASE queue[i].id # t
                BY <2>2, <2>3, <4>2, EntryFacts
            <4> QED
                BY <4>1, <4>2
        <3>4. \A i \in 1 .. n : i + 1 \in Lives' <=> i \in Lives
            BY <2>2, <3>1, <3>3, EntryFacts
        <3>5. \A i \in Lives' : i = 1 \/ (i - 1 \in Lives /\ queue'[i] = queue[i - 1])
            <4>1. \A i \in Lives' : i = 1 \/ (i - 1 \in 1 .. n /\ (i - 1) + 1 = i /\ queue'[i] = queue[i - 1])
                BY <2>2, <2>4, <3>1
            <4> QED
                BY <3>4, <4>1
        <3> QED
            BY <3>1, <3>2, <3>4, <3>5
    <2>6. QueueInv'
        <3>1. \A i \in 1 .. Len(queue') : queue'[i].token \in 1 .. next_token'
            BY <2>1, <2>2, <2>4 DEF QueueInv
        <3>2. \A i, j \in 1 .. Len(queue') : queue'[i].token = queue'[j].token => i = j
            <4> SUFFICES ASSUME NEW i \in 1 .. (n + 1), NEW j \in 1 .. (n + 1), queue'[i].token = queue'[j].token
                         PROVE  i = j
                BY <2>2
            <4>1. CASE i = 1 /\ j = 1
                BY <4>1
            <4>5. queue'[1].token = next_token + 1
                BY <2>2
            <4>6. \A k \in 1 .. n : queue[k].token <= next_token /\ queue[k].token \in Nat /\ next_token \in Nat
                BY <2>1, EntryFacts DEF QueueInv
            <4>7. \A k \in 1 .. n : queue[k].token # next_token + 1
                BY <4>6
            <4>2. CASE i = 1 /\ j # 1
                BY <2>4, <4>2, <4>5, <4>7
            <4>3. CASE i # 1 /\ j = 1
                BY <2>4, <4>3, <4>5, <4>7
            <4>4. CASE i # 1 /\ j # 1
                <5>1. /\ i - 1 \in 1 .. n /\ queue'[i] = queue[i - 1]
                      /\ j - 1 \in 1 .. n /\ queue'[j] = queue[j - 1]
                    BY <2>4, <4>4
                <5>2. queue[i - 1].token = queue[j - 1].token
                    BY <5>1
                <5>3. i - 1 = j - 1
                    BY <5>1, <5>2, TokensDistinct
                <5> QED
                    BY <5>3
            <4> QED
                BY <4>1, <4>2, <4>3, <4>4
        <3>3. \A u \in ThreadIds : queued'[u] <= next_token'
            BY <2>1, <2>3 DEF QueueInv
        <3>4. \A u \in ThreadIds : queued'[u] # 0 =>
                 \E i \in 1 .. Len(queue') : queue'[i].id = u /\ queue'[i].token = queued'[u]
            <4>1. 1 \in 1 .. Len(queue') /\ queue'[1].id = t /\ queue'[1].token = queued'[t]
                BY <2>2, <2>3
            <4>2. ASSUME NEW u \in ThreadIds \ {t}, queued'[u] # 0
                  PROVE  \E i \in 1 .. Len(queue') : queue'[i].id = u /\ queue'[i].token = queued'[u]
                <5>1. PICK i \in 1 .. n : queue[i].id = u /\ queue[i].token = queued[u]
                    BY <2>3, <4>2 DEF QueueInv
                <5> QED
                    BY <2>2, <2>3, <5>1
            <4> QED
                BY <4>1, <4>2
        <3> QED
            BY <2>1, <2>2, <2>3, <3>1, <3>2, <3>3, <3>4 DEF QueueInv
    <2>7. \A i \in Lives : i \in 1 .. n /\ i + 1 \in Lives' /\ queue'[i + 1] = queue[i] /\ queue[i].id # t
        <3>1. \A i \in Lives : i \in 1 .. n /\ queue[i].id # t
            BY Zenon, <2>1, EntryFacts
        <3> QED
            BY <2>2, <2>5, <3>1
    <2>8. t \notin Line
        BY <2>7 DEF Line
    <2>9. Line' = Line \cup {t} /\ AtFront' = AtFront \cup {t}
        <3>1. queue'[1].id = t /\ queue'[1].front = TRUE
            BY <2>2
        <3> QED
            BY <2>5, <2>7, <3>1 DEF Line, AtFront
    <2>10. Before' = Before \cup ({t} \X Line)
        <3>1. \A a, b : <<a, b>> \in Before <=> \E i, j \in Lives : i < j /\ queue[i].id = a /\ queue[j].id = b
            BY DEF Before, Line
        <3>2. \A a, b : <<a, b>> \in Before' <=> \E i, j \in Lives' : i < j /\ queue'[i].id = a /\ queue'[j].id = b
            BY DEF Before, Line
        <3>3. ASSUME NEW i \in Lives', NEW j \in Lives', i < j
              PROVE  /\ j - 1 \in Lives /\ queue'[j] = queue[j - 1]
                     /\ (i - 1 \in Lives /\ queue'[i] = queue[i - 1] /\ i - 1 < j - 1) \/ queue'[i].id = t
            BY <2>2, <2>5, <3>3
        <3>4. ASSUME NEW i \in Lives
              PROVE  /\ i + 1 \in Lives' /\ 1 \in Lives' /\ 1 < i + 1
                     /\ queue'[i + 1] = queue[i] /\ queue'[1].id = t
            BY <2>2, <2>5, <2>7
        <3>5. ASSUME NEW a, NEW b, <<a, b>> \in Before'
              PROVE  <<a, b>> \in Before \/ (a = t /\ b \in Line)
            <4>1. PICK i \in Lives', j \in Lives' : i < j /\ queue'[i].id = a /\ queue'[j].id = b
                BY <3>2, <3>5
            <4> QED
                BY <3>1, <3>3, <4>1 DEF Line
        <3>6. ASSUME NEW a, NEW b, <<a, b>> \in Before PROVE <<a, b>> \in Before'
            <4>1. PICK i \in Lives, j \in Lives : i < j /\ queue[i].id = a /\ queue[j].id = b
                BY <3>1, <3>6
            <4>2. i + 1 < j + 1
                BY <2>7, <4>1
            <4> QED
                BY <3>2, <3>4, <4>1, <4>2
        <3>7. ASSUME NEW b \in Line PROVE <<t, b>> \in Before'
            BY <3>2, <3>4 DEF Line
        <3>8. \A p \in Before' : p = <<p[1], p[2]>>
            BY DEF Before
        <3>9. \A p \in Before : p = <<p[1], p[2]>>
            BY DEF Before
        <3> QED
            BY <3>5, <3>6, <3>7, <3>8, <3>9
    <2> QED
        BY <2>1, <2>6, <2>8, <2>9, <2>10 DEF Fifo!JoinFront
<1> QED
    BY <1>1, <1>2

\* A thread leaves: its entry, if it has a live one, is no longer live.
LEMMA RemoveStep ==
    ASSUME QueueInv, NEW t \in ThreadIds, remove(t)
    PROVE  QueueInv' /\ Fifo!TakeOut(t)
<1>1. /\ queue' = queue /\ next_token' = next_token /\ queued' = [queued EXCEPT ![t] = 0]
      /\ result' = <<t, contains(t)>> /\ queued \in [ThreadIds -> Nat]
    BY DEF remove, QueueInv
<1>2. queued' \in [ThreadIds -> Nat] /\ queued'[t] = 0 /\ \A u \in ThreadIds \ {t} : queued'[u] = queued[u]
    BY <1>1
<1>3. QueueInv'
    <2>1. \A u \in ThreadIds : queued'[u] <= next_token'
        BY <1>1, <1>2 DEF QueueInv
    <2>2. \A u \in ThreadIds : queued'[u] # 0 => u # t /\ queued'[u] = queued[u]
        BY <1>2
    <2>3. \A u \in ThreadIds : queued'[u] # 0 =>
              \E i \in 1 .. Len(queue) : queue[i].id = u /\ queue[i].token = queued'[u]
        BY <2>2 DEF QueueInv
    <2> QED
        BY <1>1, <1>2, <2>1, <2>3 DEF QueueInv
<1>4. Lives' = {i \in Lives : queue[i].id # t}
    <2>1. Lives' = {i \in 1 .. Len(queue) : queued'[queue[i].id] = queue[i].token}
        BY <1>1, EntryFacts DEF Lives, IsLive
    <2>2. ASSUME NEW i \in 1 .. Len(queue)
          PROVE  queued'[queue[i].id] = queue[i].token <=>
                     queued[queue[i].id] = queue[i].token /\ queue[i].id # t
        BY <1>2, EntryFacts
    <2> QED
        BY <2>1, <2>2, EntryFacts
<1>5. Line' = Line \ {t} /\ AtFront' = AtFront \ {t}
    BY <1>1, <1>4 DEF Line, AtFront
<1>6. Before' = {p \in Before : p[1] # t /\ p[2] # t}
    BY <1>1, <1>4, <1>5 DEF Before
<1>7. contains(t) <=> t \in Line
    BY LineIsQueued DEF contains
<1>8. contains(t) = (t \in Line)
    BY <1>7 DEF contains
<1> QED
    BY <1>1, <1>3, <1>5, <1>6, <1>8 DEF Fifo!TakeOut, Fifo!Without

\* The first live entry leaves, with the stale ones ahead of it.
LEMMA DequeueStep ==
    ASSUME QueueInv, dequeue_detailed
    PROVE  QueueInv' /\ Fifo!Leave
<1>1. CASE Lives = {}
    <2>1. queue' = <<>> /\ result' = None /\ queued' = queued /\ next_token' = next_token
        BY <1>1 DEF dequeue_detailed
    <2>2. Line = {} /\ Before = {} /\ AtFront = {}
        BY <1>1 DEF Line, Before, AtFront
    <2>3. \A t \in ThreadIds : queued[t] = 0
        BY <2>2, LineIsQueued
    <2>4. queue' \in Seq(Entries) /\ Len(queue') = 0 /\ Lives' = {}
        BY <2>1, EmptySeq DEF Lives
    <2>5. QueueInv'
        BY <2>1, <2>3, <2>4 DEF QueueInv
    <2>6. Line' = {} /\ Before' = {} /\ AtFront' = {}
        BY <2>4 DEF Line, Before, AtFront
    <2> QED
        BY <2>1, <2>2, <2>5, <2>6 DEF Fifo!Leave
<1>2. CASE Lives # {}
    <2> DEFINE n == Len(queue)
    <2>1. Lives \in SUBSET Nat /\ Lives \subseteq 1 .. n /\ n \in Nat
        BY EntryFacts
    <2>2. PICK k \in Lives : k = Min(Lives) /\ \A i \in Lives : k <= i
        BY Zenon, <1>2, <2>1, MinOfNats
    <2>3. k \in 1 .. n
        BY <2>1
    <2>4. PICK t \in ThreadIds : t = queue[k].id
        BY <2>3, EntryFacts
    <2>5. /\ queue' = SubSeq(queue, k + 1, n) /\ queued' = [queued EXCEPT ![t] = 0]
          /\ result' = <<t, queue[k].front>> /\ next_token' = next_token
        BY <1>2, <2>2, <2>4 DEF dequeue_detailed
    <2>6. /\ queue' \in Seq(Entries) /\ Len(queue') = n - k /\ DOMAIN queue' = 1 .. (n - k)
          /\ \A i \in 1 .. (n - k) : queue'[i] = queue[k + i]
        <3>1. \A i \in (k + 1) .. n : queue[i] \in Entries
            BY <2>3, EntryFacts
        <3>2. k + 1 \in Int /\ n \in Int
            BY <2>1, <2>3
        <3>3. /\ queue' \in Seq(Entries) /\ Len(queue') = IF k + 1 <= n THEN n - (k + 1) + 1 ELSE 0
              /\ \A i \in 1 .. n - (k + 1) + 1 : queue'[i] = queue[(k + 1) + i - 1]
            <4> HIDE DEF n
            <4> QED
                BY <2>5, <3>1, <3>2, SubSeqProperties
        <3>4. n - (k + 1) + 1 = n - k /\ \A i \in 1 .. (n - k) : (k + 1) + i - 1 = k + i
            BY <2>1, <2>3
        <3>5. Len(queue') = n - k
            BY <2>1, <2>3, <3>3
        <3> QED
            BY <3>3, <3>4, <3>5, LenProperties
    <2>7. /\ queued \in [ThreadIds -> Nat]
          /\ queued' \in [ThreadIds -> Nat] /\ queued'[t] = 0
          /\ \A u \in ThreadIds \ {t} : queued'[u] = queued[u]
        BY <2>5 DEF QueueInv
    <2>8. \A i \in 1 .. (n - k) : k + i \in 1 .. n
        BY <2>1, <2>3
    <2>9. \A i \in 1 .. (n - k) : i \in Lives' <=> k + i \in Lives
        <3>1. Lives' = {i \in 1 .. (n - k) : queued'[queue'[i].id] = queue'[i].token}
            BY <2>6 DEF Lives, IsLive
        <3>2. ASSUME NEW i \in 1 .. (n - k)
              PROVE  queued'[queue'[i].id] = queue'[i].token <=> queued[queue[k + i].id] = queue[k + i].token
            <4>1. CASE queue[k + i].id = t
                <5>1. queue[k + i].token # 0 /\ queued'[queue'[i].id] = 0
                    BY <2>6, <2>7, <2>8, <4>1, EntryFacts
                <5>2. k + i # k
                    BY <2>3
                <5>3. k + i \notin Lives
                    BY <2>4, <4>1, <5>2, LineIsQueued
                <5> QED
                    BY <2>6, <2>8, <5>1, <5>3, EntryFacts
            <4>2. CASE queue[k + i].id # t
                BY <2>6, <2>7, <2>8, <4>2, EntryFacts
            <4> QED
                BY <4>1, <4>2
        <3> QED
            BY Zenon, <2>8, <3>1, <3>2, EntryFacts
    <2>10. /\ \A i \in Lives' : i \in 1 .. (n - k) /\ k + i \in Lives /\ queue'[i] = queue[k + i] /\ queue[k + i].id # t
           /\ \A j \in Lives : j = k \/ (j - k \in Lives' /\ queue'[j - k] = queue[j])
        <3>1. ASSUME NEW i \in Lives'
              PROVE  i \in 1 .. (n - k) /\ k + i \in Lives /\ queue'[i] = queue[k + i] /\ queue[k + i].id # t
            <4>1. i \in 1 .. (n - k)
                BY <2>6 DEF Lives
            <4>2. k + i \in Lives /\ queue'[i] = queue[k + i] /\ k + i # k
                BY <2>3, <2>6, <2>9, <4>1
            <4> QED
                BY <2>4, <4>1, <4>2, LineIsQueued
        <3>2. ASSUME NEW j \in Lives, j # k
              PROVE  j - k \in Lives' /\ queue'[j - k] = queue[j]
            <4>1. j - k \in 1 .. (n - k) /\ k + (j - k) = j
                BY <2>1, <2>2, <2>3, <3>2
            <4> QED
                BY <2>6, <2>9, <4>1
        <3> QED
            BY <3>1, <3>2
    <2>11. QueueInv'
        <3>0. \A i \in 1 .. n : queue[i].token \in 1 .. next_token
            BY DEF QueueInv
        <3>1. \A i \in 1 .. Len(queue') : queue'[i].token \in 1 .. next_token'
            BY <2>5, <2>6, <2>8, <3>0
        <3>2. ASSUME NEW i \in 1 .. Len(queue'), NEW j \in 1 .. Len(queue'), queue'[i].token = queue'[j].token
              PROVE  i = j
            <4>1. k + i = k + j
                BY <2>6, <2>8, <3>2, TokensDistinct
            <4> QED
                BY <2>3, <2>6, <4>1
        <3>3. \A u \in ThreadIds : queued'[u] <= next_token'
            BY <2>5, <2>7 DEF QueueInv
        <3>4. ASSUME NEW u \in ThreadIds, queued'[u] # 0
              PROVE  \E i \in 1 .. Len(queue') : queue'[i].id = u /\ queue'[i].token = queued'[u]
            <4>1. u # t /\ queued'[u] = queued[u] /\ queued[u] # 0
                BY <2>7, <3>4
            <4>2. PICK j \in Lives : queue[j].id = u
                BY <4>1, LineIsQueued DEF Line
            <4>3. j # k /\ queue[j].token = queued[u]
                BY <2>4, <4>1, <4>2, EntryFacts
            <4> QED
                BY <2>6, <2>10, <4>1, <4>2, <4>3
        <3>5. next_token' \in Nat
            BY <2>5 DEF QueueInv
        <3> QED
            BY <2>6, <2>7, <3>1, <3>2, <3>3, <3>4, <3>5 DEF QueueInv
    <2>12. t \in Line /\ Line' = Line \ {t} /\ AtFront' = AtFront \ {t}
        <3>1. \A j \in Lives : queue[j].id = t => j = k
            BY <2>4, LineIsQueued
        <3>2. /\ Line = {queue[j].id : j \in Lives} /\ Line' = {queue'[i].id : i \in Lives'}
              /\ AtFront = {queue[j].id : j \in {l \in Lives : queue[l].front}}
              /\ AtFront' = {queue'[i].id : i \in {l \in Lives' : queue'[l].front}}
            BY DEF Line, AtFront
        <3>3. t \in Line
            BY <2>4, <3>2
        <3>4. Line' \subseteq Line \ {t} /\ AtFront' \subseteq AtFront \ {t}
            BY <2>10, <3>2
        <3>5. Line \ {t} \subseteq Line' /\ AtFront \ {t} \subseteq AtFront'
            BY <2>4, <2>10, <3>2
        <3> QED
            BY <3>3, <3>4, <3>5
    <2>13. Before' = {p \in Before : p[1] # t /\ p[2] # t}
        <3>1. \A a, b : <<a, b>> \in Before <=> \E i, j \in Lives : i < j /\ queue[i].id = a /\ queue[j].id = b
            BY DEF Before, Line
        <3>2. \A a, b : <<a, b>> \in Before' <=> \E i, j \in Lives' : i < j /\ queue'[i].id = a /\ queue'[j].id = b
            BY DEF Before, Line
        <3>3. ASSUME NEW a, NEW b, <<a, b>> \in Before' PROVE <<a, b>> \in Before /\ a # t /\ b # t
            <4>1. PICK i \in Lives', j \in Lives' : i < j /\ queue'[i].id = a /\ queue'[j].id = b
                BY <3>2, <3>3
            <4>2. k + i < k + j
                BY <2>3, <2>10, <4>1
            <4> QED
                BY <2>10, <3>1, <4>1, <4>2
        <3>4. ASSUME NEW a, NEW b, <<a, b>> \in Before, a # t, b # t PROVE <<a, b>> \in Before'
            <4>1. PICK i \in Lives, j \in Lives : i < j /\ queue[i].id = a /\ queue[j].id = b
                BY <3>1, <3>4
            <4>2. i # k /\ j # k /\ i - k < j - k
                BY <2>1, <2>3, <2>4, <3>4, <4>1
            <4> QED
                BY <2>10, <3>2, <4>1, <4>2
        <3>5. \A p \in Before' : p = <<p[1], p[2]>>
            BY DEF Before
        <3>6. \A p \in Before : p = <<p[1], p[2]>>
            BY DEF Before
        <3> QED
            BY <3>3, <3>4, <3>5, <3>6
    <2>14. \A u \in Line \ {t} : <<t, u>> \in Before
        <3>1. ASSUME NEW u \in Line, u # t PROVE <<t, u>> \in Before
            <4>1. PICK j \in Lives : queue[j].id = u
                BY DEF Line
            <4>2. k < j
                BY <2>1, <2>2, <2>3, <2>4, <3>1, <4>1
            <4> QED
                BY <2>4, <2>12, <4>1, <4>2 DEF Before
        <3> QED
            BY <3>1
    <2>15. queue[k].front = (t \in AtFront)
        <3>1. queue[k].front \in BOOLEAN
            BY <2>3, EntryFacts DEF Entries
        <3>2. t \in AtFront <=> queue[k].front
            BY <2>4, LineIsQueued DEF AtFront
        <3> QED
            BY <3>1, <3>2
    <2> QED
        BY <2>5, <2>11, <2>12, <2>13, <2>14, <2>15 DEF Fifo!Leave, Fifo!Without
<1> QED
    BY <1>1, <1>2

\* RunnableQueue implements the line: every call is the call of the line that
\* it should be, and the map's count is that of the live entries.
THEOREM QueueIsALine == QueueSpec => ImplementsFifo
<1>1. QueueInv /\ [QueueNext]_queueVars => QueueInv' /\ [Fifo!FifoNext]_(Fifo!fifoVars)
    <2> SUFFICES ASSUME QueueInv, [QueueNext]_queueVars
                 PROVE  QueueInv' /\ [Fifo!FifoNext]_(Fifo!fifoVars)
        OBVIOUS
    <2>1. ASSUME NEW t \in ThreadIds, enqueue(t) \/ enqueue_front(t) \/ remove(t)
          PROVE  QueueInv' /\ Fifo!FifoNext
        BY <2>1, EnqueueStep, EnqueueFrontStep, RemoveStep DEF Fifo!FifoNext
    <2>2. CASE dequeue_detailed
        BY <2>2, DequeueStep DEF Fifo!FifoNext
    <2>3. CASE UNCHANGED queueVars
        <3>1. QueueInv'
            BY <2>3 DEF queueVars, QueueInv
        <3>2. UNCHANGED Fifo!fifoVars
            BY <2>3 DEF queueVars, Fifo!fifoVars, Line, Before, AtFront, Lives, IsLive
        <3> QED
            BY <3>1, <3>2
    <2> QED
        BY <2>1, <2>2, <2>3 DEF QueueNext
<1>2. QueueInv => CountsAgree
    BY Agreement
<1> QED
    BY <1>1, <1>2, QueueInitInv, PTL DEF QueueSpec, ImplementsFifo, Fifo!FifoSpec
================================================================================
