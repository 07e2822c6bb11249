----------------------------- MODULE RunnableQueue -----------------------------
(***************************************************************************)
(* RunnableQueue of the kernel: a deque of entries and a map from a queued *)
(* thread to the token of its entry.  Removing a thread forgets its token  *)
(* and leaves the entry behind, so that the removal needs no search; the   *)
(* stale entry is skipped when it comes to the front.                      *)
(***************************************************************************)
EXTENDS Naturals, Sequences, SequencesExt, FiniteSets, FiniteSetsExt

CONSTANTS ThreadIds, None,
          MaxToken    \* bound on next_token, a u64 in the code

ASSUME QueueAssumption == MaxToken \in Nat /\ 0 \notin ThreadIds

VARIABLES queue,        \* sequence of [id, token, front]
          queued,       \* [ThreadIds -> token of the live entry, 0 for none]
          next_token,
          result

queueVars == <<queue, queued, next_token, result>>

QueueInit ==
    /\ queue = <<>>
    /\ queued = [t \in ThreadIds |-> 0]
    /\ next_token = 0
    /\ result = None

contains(t) == queued[t] # 0

Entry(t, front) == [id |-> t, token |-> next_token + 1, front |-> front]

\* Mutant: a queued thread is queued again.
enqueue_Again(t) ==
    /\ next_token < MaxToken
    /\ next_token' = next_token + 1
    /\ queued' = [queued EXCEPT ![t] = next_token + 1]
    /\ queue' = Append(queue, Entry(t, FALSE))
    /\ result' = None

enqueue(t) ==
    /\ next_token < MaxToken
    /\ IF contains(t) THEN UNCHANGED <<queue, queued, next_token>>
       ELSE /\ next_token' = next_token + 1
            /\ queued' = [queued EXCEPT ![t] = next_token + 1]
            /\ queue' = Append(queue, Entry(t, FALSE))
    /\ result' = None

enqueue_front(t) ==
    /\ next_token < MaxToken
    /\ IF contains(t) THEN UNCHANGED <<queue, queued, next_token>>
       ELSE /\ next_token' = next_token + 1
            /\ queued' = [queued EXCEPT ![t] = next_token + 1]
            /\ queue' = <<Entry(t, TRUE)>> \o queue
    /\ result' = None

\* The entry is the one its thread is queued with.
IsLive(entry) == queued[entry.id] = entry.token

Lives == {i \in DOMAIN queue : IsLive(queue[i])}

\* Entries are popped up to and including the first live one.
dequeue_detailed ==
    /\ UNCHANGED next_token
    /\ IF Lives = {} THEN queue' = <<>> /\ result' = None /\ UNCHANGED queued
       ELSE LET i == Min(Lives) IN
            /\ queue' = SubSeq(queue, i + 1, Len(queue))
            /\ queued' = [queued EXCEPT ![queue[i].id] = 0]
            /\ result' = <<queue[i].id, queue[i].front>>

remove(t) ==
    /\ queued' = [queued EXCEPT ![t] = 0]
    /\ result' = <<t, contains(t)>>
    /\ UNCHANGED <<queue, next_token>>

QueueNext ==
    \/ \E t \in ThreadIds : enqueue(t) \/ enqueue_front(t) \/ remove(t)
    \/ dequeue_detailed

QueueSpec == QueueInit /\ [][QueueNext]_queueVars

-------------------------------------------------------------------------------

\* The line that the live entries make.
Line == {queue[i].id : i \in Lives}
Before == {p \in Line \X Line : \E i, j \in Lives : i < j /\ queue[i].id = p[1] /\ queue[j].id = p[2]}
AtFront == {queue[i].id : i \in {i \in Lives : queue[i].front}}

Fifo == INSTANCE RunnableFifo WITH line <- Line, before <- Before, front <- AtFront

\* is_empty and len look at the map, dequeue at the deque: they agree, each
\* queued thread has exactly one live entry.
CountsAgree ==
    \A t \in ThreadIds :
        Cardinality({i \in DOMAIN queue : queue[i].id = t /\ IsLive(queue[i])})
            = IF contains(t) THEN 1 ELSE 0

\* RunnableQueue behaves as a line of distinct threads: a thread that is removed
\* and queued again keeps no claim on its old place, whichever stale entries of
\* it are still in the deque (enqueue, enqueue_front, dequeue_detailed, remove);
\* and the map it counts by always agrees with the deque.
ImplementsFifo == Fifo!FifoSpec /\ []CountsAgree

===============================================================================
