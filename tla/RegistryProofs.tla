---------------------------- MODULE RegistryProofs -----------------------------
(***************************************************************************)
(* What the operations of the thread registry do to the invariant of the   *)
(* kernel (spawn, mark_running, mark_exited, cancel), and the invariant of *)
(* the scheduler (SchedulerInv).                                           *)
(***************************************************************************)
EXTENDS KernelProofs

-------------------------------------------------------------------------------
(* The registry. *)

\* Thread ids are numbers.
LEMMA ThreadNumbers == \A u \in ThreadIds : u \in Nat
<1>1. PICK c \in Nat : ThreadIds = 1 .. c
    BY KernelAssumption, FS_CardinalityType
<1> QED
    BY <1>1

\* Drop of VmThreadState gives one place of the thread quota back.
LEMMA DropCovers ==
    ASSUME NEW k, KernelInv(k), NEW n \in Nat, Covers(k, n + 1)
    PROVE  LET r == DropVm(k) IN
           /\ KernelInv(r) /\ Covers(r, n) /\ r.tcbs = k.tcbs
           /\ \A t \in ThreadIds : LeavesRest(k, r, t)
           /\ r.queue = k.queue /\ r.blocked = k.blocked
<1>1. k \in Kernels /\ Cardinality(ParkedIn(k)) \in Nat
    BY ThreadsFinite DEF KernelInv, ParkedIn
<1>2. PICK m \in Nat : m = Minus(k.threads, 1) /\ m = Cardinality(ParkedIn(k)) + n
    <2>1. k.threads = Cardinality(ParkedIn(k)) + n + 1
        BY <1>1 DEF Covers
    <2>2. k.threads \in Nat /\ k.threads >= 1
        BY <1>1, <2>1
    <2>3. Minus(k.threads, 1) = k.threads - 1
        BY Zenon, <2>2, MinusIsNat
    <2> QED
        BY <1>1, <2>1, <2>3
<1>3. PICK r : r = [k EXCEPT !.threads = m]
    BY Zenon
<1>4. DropVm(k) = r
    BY Zenon, <1>1, <1>2, <1>3 DEF DropVm, Kernels
<1>5. /\ r \in Kernels
      /\ r.born = k.born /\ r.freed = k.freed /\ r.fresh = k.fresh
      /\ r.exited = k.exited /\ r.active = k.active /\ r.queue = k.queue
      /\ r.blocked = k.blocked /\ r.pending = k.pending
      /\ r.tcbs = k.tcbs /\ r.threads = m
    BY Zenon, <1>1, <1>3 DEF Kernels
<1>6. \A t \in ThreadIds : LeavesRest(k, r, t)
    BY <1>5 DEF LeavesRest, IsQueued
<1>7. RegistryInv(r)
    BY <1>5, <1>6, KernelAssumption, RegistryKept
<1>8. QueuesInv(r)
    BY <1>5 DEF KernelInv, QueuesInv
<1>9. Covers(r, n)
    BY <1>2, <1>5 DEF Covers, ParkedIn
<1> QED
    BY <1>4, <1>5, <1>6, <1>7, <1>8, <1>9 DEF KernelInv

\* RunnableQueue::remove takes thread t out of the line.
LEMMA UnqueueKeeps ==
    ASSUME NEW k, KernelInv(k), NEW t \in ThreadIds, NEW n, Covers(k, n)
    PROVE  LET r == Unqueue(k, t) IN
           /\ KernelInv(r) /\ Covers(r, n) /\ LeavesRest(k, r, t)
           /\ r.tcbs = k.tcbs /\ r.blocked = k.blocked
<1>1. k \in Kernels
    BY DEF KernelInv
<1>2. PICK q : q = RemoveFirst(k.queue, t)
    OBVIOUS
<1>3. IsLine(q) /\ Range(q) = Range(k.queue) \ {t}
    BY <1>2, LineRemove DEF KernelInv, QueuesInv
<1>4. PICK r : r = Rearranged(k, q, k.runnable, k.pending, k.blocked)
    OBVIOUS
<1>5. Unqueue(k, t) = r
    BY Zenon, <1>1, <1>2, <1>4 DEF Unqueue, Rearranged, Kernels
<1>6. /\ k.pending \in Nat /\ k.runnable \in Nat /\ Range(q) \ {t} = Range(k.queue) \ {t}
      /\ k.pending >= Cardinality(k.blocked) /\ k.blocked \in SUBSET ThreadIds
    BY <1>1, <1>3 DEF KernelInv, QueuesInv, Kernels
<1>7. /\ KernelInv(r) /\ LeavesRest(k, r, t) /\ Covers(r, n)
      /\ r.tcbs = k.tcbs /\ r.queue = q /\ r.blocked = k.blocked
    BY <1>3, <1>4, <1>6, QueuesChanged
<1> QED
    BY <1>5, <1>7

\* r is k with another control block for t, whose VM state is the same.
LEMMA MarkRunningKeeps ==
    ASSUME NEW k, KernelInv(k), NEW t \in ThreadIds, NEW n, Covers(k, n)
    PROVE  LET r == mark_running(k, t) IN
           /\ KernelInv(r) /\ Covers(r, n)
           /\ r.born = k.born /\ r.queue = k.queue /\ r.blocked = k.blocked
           /\ r.tcbs[t].vm = k.tcbs[t].vm /\ (Registered(r, t) <=> Registered(k, t))
           /\ \A u \in ThreadIds \ {t} : r.tcbs[u] = k.tcbs[u]
<1>1. k \in Kernels /\ k.tcbs \in [ThreadIds -> Tcb]
    BY DEF KernelInv, Kernels
<1>2. CASE ~(Registered(k, t) /\ ~IsExited(k, t))
    BY <1>2 DEF mark_running
<1>3. CASE Registered(k, t) /\ ~IsExited(k, t)
    <2>1. PICK f \in [ThreadIds -> Tcb] : f = [k.tcbs EXCEPT ![t].state = "running"]
        BY Zenon, <1>1 DEF Tcb
    <2>2. /\ f[t].state = "running" /\ f[t].key = k.tcbs[t].key /\ f[t].vm = k.tcbs[t].vm
          /\ \A u \in ThreadIds \ {t} : f[u] = k.tcbs[u]
        BY <1>1, <2>1 DEF Tcb
    <2>3. PICK r : r = [k EXCEPT !.tcbs = f]
        BY Zenon
    <2>4. mark_running(k, t) = r
        BY <1>1, <1>3, <2>1, <2>3 DEF mark_running, Kernels
    <2>5. /\ r \in Kernels
          /\ r.born = k.born /\ r.freed = k.freed /\ r.fresh = k.fresh
          /\ r.exited = k.exited /\ r.active = k.active /\ r.queue = k.queue
          /\ r.blocked = k.blocked /\ r.pending = k.pending
          /\ r.tcbs = f /\ r.threads = k.threads
        BY Zenon, <1>1, <2>3 DEF Kernels
    <2>6. \A u \in ThreadIds : /\ Registered(r, u) <=> Registered(k, u)
                               /\ IsExited(r, u) <=> IsExited(k, u)
                               /\ r.tcbs[u].key = k.tcbs[u].key /\ r.tcbs[u].vm = k.tcbs[u].vm
        BY <1>3, <2>2, <2>5 DEF Registered, IsExited
    <2>7. Living(r) = Living(k) /\ ParkedIn(r) = ParkedIn(k)
        BY <2>6 DEF Living, ParkedIn
    <2>8. RegistryInv(r)
        <3>1. Range(k.freed) \subseteq ThreadIds /\ Range(k.exited) \subseteq ThreadIds
            BY LineFacts DEF KernelInv, RegistryInv
        <3>2. \A u \in ThreadIds : ~Registered(r, u) => r.tcbs[u] = Absent
            BY <1>3, <2>2, <2>5, <2>6 DEF KernelInv, RegistryInv
        <3> QED
            BY <2>5, <2>6, <2>7, <3>1, <3>2 DEF KernelInv, RegistryInv
    <2>9. QueuesInv(r)
        BY <2>5, <2>6 DEF KernelInv, QueuesInv
    <2>10. Covers(r, n)
        BY <2>5, <2>7 DEF Covers
    <2> QED
        BY <2>2, <2>4, <2>5, <2>6, <2>8, <2>9, <2>10 DEF KernelInv
<1> QED
    BY <1>2, <1>3

\* spawn: the next id is free, and its thread is parked.
LEMMA SpawnKeeps ==
    ASSUME NEW k, KernelInv(k), NEW key \in Keys \cup {NoKey}, CanSpawn(k, key),
           NEW t \in ThreadIds, t = NextId(k), NEW n, Covers(k, n)
    PROVE  LET r == spawn(k, key) IN
           /\ KernelInv(r) /\ Covers(r, n) /\ ~Registered(k, t)
           /\ r.queue = k.queue /\ r.blocked = k.blocked
           /\ r.born = [k.born EXCEPT ![t] = @ + 1]
           /\ r.tcbs = [k.tcbs EXCEPT ![t] = [state |-> "created", vm |-> k.born[t] + 1, key |-> key]]
<1>1. /\ k \in Kernels /\ k.tcbs \in [ThreadIds -> Tcb] /\ k.born \in [ThreadIds -> Nat]
      /\ IsLine(k.freed) /\ k.fresh \in Nat /\ n \in Nat /\ IsLine(k.exited)
    BY DEF KernelInv, Kernels, RegistryInv, Covers
<1>2. PICK c : c = [state |-> "created", vm |-> k.born[t] + 1, key |-> key]
    BY Zenon
<1>3. c \in Tcb /\ c.state = "created" /\ c.vm = k.born[t] + 1 /\ c.key = key /\ c.vm # Gone
    BY <1>1, <1>2 DEF Tcb, Gone
<1>4. PICK f \in [ThreadIds -> Tcb] : f = [k.tcbs EXCEPT ![t] = c]
    BY Zenon, <1>1, <1>3
<1>5. f[t] = c /\ \A u \in ThreadIds \ {t} : f[u] = k.tcbs[u]
    BY <1>1, <1>4
<1>6. PICK b \in [ThreadIds -> Nat] : b = [k.born EXCEPT ![t] = @ + 1]
    <2>1. k.born[t] + 1 \in Nat
        BY <1>1
    <2> QED
        BY Zenon, <1>1, <2>1
<1>7. PICK d : d = IF k.freed # <<>> THEN Front(k.freed) ELSE k.freed
    OBVIOUS
<1>8. PICK g \in Nat : g = IF k.freed # <<>> THEN k.fresh ELSE k.fresh + 1
    BY <1>1
<1>9. /\ ~Registered(k, t)
      /\ IsLine(d) /\ Range(d) = Range(k.freed) \ {t} /\ t < g /\ g >= k.fresh
    <2>1. CASE k.freed # <<>>
        <3>1. t = Last(k.freed)
            BY <2>1 DEF NextId
        <3>2. t \in Range(k.freed) /\ IsLine(d) /\ Range(d) = Range(k.freed) \ {t}
            BY <1>1, <1>7, <2>1, <3>1, LineFront
        <3> QED
            BY <1>1, <1>8, <2>1, <3>2 DEF KernelInv, RegistryInv
    <2>2. CASE k.freed = <<>>
        <3>1. t = k.fresh /\ d = k.freed /\ g = k.fresh + 1 /\ Range(k.freed) = {}
            BY <1>7, <1>8, <2>2, EmptyLine DEF NextId
        <3>2. ~(t < k.fresh)
            BY <1>1, <3>1
        <3> QED
            BY <1>1, <3>1, <3>2 DEF KernelInv, RegistryInv
    <2> QED
        BY <2>1, <2>2
<1>10. PICK r : r = [k EXCEPT !.threads = k.threads + 1, !.active = k.active + 1, !.freed = d,
                              !.fresh = g, !.born = b, !.tcbs = f]
    OBVIOUS
<1>11. spawn(k, key) = r
    BY <1>1, <1>2, <1>4, <1>6, <1>7, <1>8, <1>10 DEF spawn, Kernels
<1>12. /\ r \in Kernels
       /\ r.born = b /\ r.freed = d /\ r.fresh = g
       /\ r.exited = k.exited /\ r.active = k.active + 1 /\ r.queue = k.queue
       /\ r.blocked = k.blocked /\ r.pending = k.pending
       /\ r.tcbs = f /\ r.threads = k.threads + 1
    <2>1. d \in Seq(ThreadIds) /\ k.threads + 1 \in Nat /\ k.active + 1 \in Int
        BY <1>1, <1>9 DEF IsLine, Kernels
    <2>2. PICK x \in Nat : x = k.threads + 1
        BY <2>1
    <2>3. PICK y \in Int : y = k.active + 1
        BY <2>1
    <2> QED
        BY Zenon, <1>1, <1>10, <2>1, <2>2, <2>3 DEF Kernels
<1>13. /\ Registered(r, t) /\ ~IsExited(r, t)
       /\ \A u \in ThreadIds \ {t} : /\ Registered(r, u) <=> Registered(k, u)
                                     /\ IsExited(r, u) <=> IsExited(k, u)
    BY <1>3, <1>5, <1>12 DEF Registered, IsExited
<1>14. Living(r) = Living(k) \cup {t} /\ t \in ThreadIds \ Living(k)
    BY <1>9, <1>13 DEF Living
<1>15. k.tcbs[t] = Absent
    BY <1>9 DEF KernelInv, RegistryInv
<1>16. ParkedIn(r) = ParkedIn(k) \cup {t} /\ t \in ThreadIds \ ParkedIn(k)
    BY <1>3, <1>5, <1>12, <1>15 DEF ParkedIn, Absent
<1>17. RegistryInv(r)
    <2>1. r.active = Cardinality(Living(r))
        BY Zenon, <1>12, <1>14, AddThread DEF KernelInv, RegistryInv, Living
    <2>2. ASSUME NEW u \in ThreadIds, NEW v \in ThreadIds, r.tcbs[u].key # NoKey, r.tcbs[u].key = r.tcbs[v].key
          PROVE  u = v
        <3>1. key # NoKey => \A w \in ThreadIds : k.tcbs[w].key # key
            BY DEF CanSpawn
        <3>2. CASE u # t /\ v # t
            BY <1>5, <1>12, <2>2, <3>2 DEF KernelInv, RegistryInv
        <3>3. CASE u = t /\ v # t
            BY <1>3, <1>5, <1>12, <2>2, <3>1, <3>3
        <3>4. CASE u # t /\ v = t
            BY <1>3, <1>5, <1>12, <2>2, <3>1, <3>4
        <3> QED
            BY <3>2, <3>3, <3>4
    <2>3. \A u \in ThreadIds : ~Registered(r, u) => r.tcbs[u] = Absent
        BY <1>5, <1>12, <1>13 DEF KernelInv, RegistryInv
    <2>4. \A u \in ThreadIds : u \in Nat
        BY ThreadNumbers
    <2>5. \A u \in Range(r.freed) : ~Registered(r, u) /\ u < r.fresh
        <3>1. ASSUME NEW u \in Range(r.freed) PROVE ~Registered(r, u) /\ u < r.fresh
            <4>1. u \in Range(k.freed) /\ u # t /\ u \in ThreadIds
                BY <1>1, <1>9, <1>12, LineFacts
            <4>2. ~Registered(k, u) /\ u < k.fresh
                BY <4>1 DEF KernelInv, RegistryInv
            <4> QED
                BY <1>1, <1>9, <1>12, <1>13, <2>4, <4>1, <4>2
        <3> QED
            BY <3>1
    <2>6. \A u \in ThreadIds : Registered(r, u) => u < r.fresh
        <3>1. ASSUME NEW u \in ThreadIds, Registered(r, u), u # t PROVE u < r.fresh
            <4>1. u < k.fresh
                BY <1>13, <3>1 DEF KernelInv, RegistryInv
            <4> QED
                BY <1>1, <1>9, <1>12, <2>4, <4>1
        <3> QED
            BY <1>9, <1>12, <3>1
    <2>7. \A u \in Range(r.exited) : IsExited(r, u)
        <3>1. \A u \in Range(k.exited) : u \in ThreadIds /\ IsExited(k, u) /\ u # t
            BY <1>1, <1>9, LineFacts DEF KernelInv, RegistryInv, IsExited, Registered
        <3> QED
            BY <1>12, <1>13, <3>1
    <2> QED
        BY <1>1, <1>9, <1>12, <2>1, <2>2, <2>3, <2>5, <2>6, <2>7 DEF RegistryInv
<1>18. QueuesInv(r)
    <2>1. \A u \in ThreadIds : r.tcbs[u].vm <= r.born[u]
        <3>1. \A u \in ThreadIds \ {t} : b[u] = k.born[u]
            BY <1>1, <1>6
        <3>2. b[t] = k.born[t] + 1
            BY <1>1, <1>6
        <3> QED
            BY <1>1, <1>3, <1>5, <1>12, <3>1, <3>2 DEF KernelInv, QueuesInv
    <2> QED
        BY <1>12, <2>1 DEF KernelInv, QueuesInv
<1>19. Covers(r, n)
    <2>1. Cardinality(ParkedIn(r)) = Cardinality(ParkedIn(k)) + 1 /\ Cardinality(ParkedIn(k)) \in Nat
        BY Zenon, <1>16, AddThread, ThreadsFinite DEF ParkedIn
    <2> QED
        BY <1>1, <1>12, <2>1 DEF Covers
<1> QED
    BY <1>2, <1>4, <1>6, <1>9, <1>11, <1>12, <1>17, <1>18, <1>19 DEF KernelInv

\* A parked thread exits: its VM state is dropped, its control block stays.
ExitedState(k, t) ==
    [DropVm(k) EXCEPT !.tcbs[t].vm = Gone, !.tcbs[t].state = "exited",
                      !.active = @ - 1, !.exited = Append(@, t)]

\* The part of mark_exited after the VM state is parked: it is dropped and the
\* thread counted as exited once.
LEMMA ExitKeeps ==
    ASSUME NEW k, KernelInv(k), NEW t \in ThreadIds, Registered(k, t), ~IsExited(k, t),
           k.tcbs[t].vm # Gone, NEW n, Covers(k, n)
    PROVE  LET r == ExitedState(k, t) IN
           /\ KernelInv(r) /\ Covers(r, n) /\ IsExited(r, t)
           /\ r.born = k.born /\ r.queue = k.queue /\ r.blocked = k.blocked
           /\ r.tcbs[t].vm = Gone
           /\ \A u \in ThreadIds \ {t} : r.tcbs[u] = k.tcbs[u]
<1>1. /\ k \in Kernels /\ k.tcbs \in [ThreadIds -> Tcb] /\ k.born \in [ThreadIds -> Nat]
      /\ IsLine(k.exited) /\ IsLine(k.freed) /\ n \in Nat
    BY DEF KernelInv, Kernels, RegistryInv, Covers
<1>2. t \in ParkedIn(k) /\ ParkedIn(k) \in SUBSET ThreadIds
    BY DEF ParkedIn
<1>3. Cardinality(ParkedIn(k)) = Cardinality(ParkedIn(k) \ {t}) + 1 /\ Cardinality(ParkedIn(k) \ {t}) \in Nat
    BY <1>2, RemoveThread
<1>4. PICK m \in Nat : m = Minus(k.threads, 1) /\ m = Cardinality(ParkedIn(k) \ {t}) + n
    <2>1. k.threads = Cardinality(ParkedIn(k) \ {t}) + n + 1
        BY <1>1, <1>3 DEF Covers
    <2>2. k.threads \in Nat /\ k.threads >= 1
        BY <1>1, <1>3, <2>1
    <2>3. Minus(k.threads, 1) = k.threads - 1
        BY <2>2, MinusIsNat
    <2> QED
        BY <1>1, <1>3, <2>1, <2>3
<1>5. PICK c : c = [k.tcbs[t] EXCEPT !.vm = Gone, !.state = "exited"]
    OBVIOUS
<1>6. c \in Tcb /\ c.state = "exited" /\ c.vm = Gone /\ c.key = k.tcbs[t].key
    BY Zenon, <1>1, <1>5 DEF Tcb, Gone
<1>7. PICK f \in [ThreadIds -> Tcb] : f = [k.tcbs EXCEPT ![t] = c]
    BY Zenon, <1>1, <1>6
<1>8. f[t] = c /\ \A u \in ThreadIds \ {t} : f[u] = k.tcbs[u]
    BY <1>1, <1>7
<1>9. PICK x : x = Append(k.exited, t)
    BY Zenon
<1>10. IsLine(x) /\ Range(x) = Range(k.exited) \cup {t}
    <2>1. t \notin Range(k.exited)
        BY DEF KernelInv, RegistryInv
    <2> QED
        BY <1>1, <1>9, <2>1, LineAppend
<1>11. PICK r : r = [k EXCEPT !.threads = m, !.active = k.active - 1, !.exited = x, !.tcbs = f]
    OBVIOUS
<1>12. ExitedState(k, t) = r
    <2>1. DropVm(k) = [k EXCEPT !.threads = m]
        BY <1>1, <1>4 DEF DropVm, Kernels
    <2>2. f = [k.tcbs EXCEPT ![t].vm = Gone, ![t].state = "exited"]
        BY Zenon, <1>1, <1>5, <1>7 DEF Tcb
    <2> QED
        BY Zenon, <1>1, <1>9, <1>11, <2>1, <2>2 DEF ExitedState, Kernels
<1>13. /\ r \in Kernels
       /\ r.born = k.born /\ r.freed = k.freed /\ r.fresh = k.fresh
       /\ r.exited = x /\ r.active = k.active - 1 /\ r.queue = k.queue
       /\ r.blocked = k.blocked /\ r.pending = k.pending
       /\ r.tcbs = f /\ r.threads = m
    <2>1. x \in Seq(ThreadIds) /\ k.active - 1 \in Int
        BY <1>1, <1>10 DEF IsLine, Kernels
    <2>2. PICK y \in Int : y = k.active - 1
        BY <2>1
    <2> QED
        BY Zenon, <1>1, <1>11, <2>1, <2>2 DEF Kernels
<1>14. /\ Registered(r, t) /\ IsExited(r, t)
       /\ \A u \in ThreadIds \ {t} : /\ Registered(r, u) <=> Registered(k, u)
                                     /\ IsExited(r, u) <=> IsExited(k, u)
    BY <1>6, <1>8, <1>13 DEF Registered, IsExited
<1>15. Living(r) = Living(k) \ {t} /\ t \in Living(k) /\ Living(k) \in SUBSET ThreadIds
    BY <1>14 DEF Living
<1>16. RegistryInv(r)
    <2>1. r.active = Cardinality(Living(r))
        <3>1. Cardinality(Living(k)) = Cardinality(Living(r)) + 1 /\ Cardinality(Living(r)) \in Nat
            BY <1>15, RemoveThread
        <3>2. k.active = Cardinality(Living(k))
            BY DEF KernelInv, RegistryInv
        <3> QED
            BY <1>13, <3>1, <3>2
    <2>2. \A u \in ThreadIds : r.tcbs[u].key = k.tcbs[u].key
        BY <1>6, <1>8, <1>13
    <2>3. \A u \in ThreadIds : ~Registered(r, u) => r.tcbs[u] = Absent
        BY <1>8, <1>13, <1>14 DEF KernelInv, RegistryInv
    <2>4. \A u \in Range(r.freed) : ~Registered(r, u) /\ u < r.fresh
        <3>1. \A u \in Range(k.freed) : u \in ThreadIds /\ ~Registered(k, u) /\ u < k.fresh /\ u # t
            BY <1>1, LineFacts DEF KernelInv, RegistryInv
        <3> QED
            BY <1>13, <1>14, <3>1
    <2>5. \A u \in ThreadIds : Registered(r, u) => u < r.fresh
        BY <1>13, <1>14 DEF KernelInv, RegistryInv
    <2>6. \A u \in Range(r.exited) : IsExited(r, u)
        <3>1. \A u \in Range(k.exited) : u \in ThreadIds /\ IsExited(k, u)
            BY <1>1, LineFacts DEF KernelInv, RegistryInv
        <3> QED
            BY <1>10, <1>13, <1>14, <3>1
    <2>7. \A u, v \in ThreadIds : r.tcbs[u].key # NoKey /\ r.tcbs[u].key = r.tcbs[v].key => u = v
        BY <2>2 DEF KernelInv, RegistryInv
    <2> QED
        BY <1>1, <1>10, <1>13, <2>1, <2>3, <2>4, <2>5, <2>6, <2>7 DEF RegistryInv
<1>17. QueuesInv(r)
    <2>1. \A u \in ThreadIds : r.tcbs[u].vm <= r.born[u]
        BY <1>1, <1>6, <1>8, <1>13 DEF KernelInv, QueuesInv, Gone
    <2> QED
        BY <1>13, <2>1 DEF KernelInv, QueuesInv
<1>18. Covers(r, n)
    <2>1. ParkedIn(r) = ParkedIn(k) \ {t}
        BY <1>6, <1>8, <1>13 DEF ParkedIn
    <2> QED
        BY <1>1, <1>4, <1>13, <2>1 DEF Covers
<1> QED
    BY <1>6, <1>8, <1>12, <1>13, <1>14, <1>16, <1>17, <1>18 DEF KernelInv

\* The oldest tombstone goes.
LEMMA ExpireKeeps ==
    ASSUME NEW k, KernelInv(k), NEW n, Covers(k, n)
    PROVE  LET r == ExpireTombstone(k) IN
           /\ KernelInv(r) /\ Covers(r, n)
           /\ r.born = k.born /\ r.queue = k.queue /\ r.blocked = k.blocked
           /\ \A u \in ThreadIds : r.tcbs[u] = k.tcbs[u] \/ (r.tcbs[u] = Absent /\ IsExited(k, u))
<1>1. /\ k \in Kernels /\ k.tcbs \in [ThreadIds -> Tcb] /\ k.born \in [ThreadIds -> Nat]
      /\ IsLine(k.exited) /\ IsLine(k.freed) /\ n \in Nat
    BY DEF KernelInv, Kernels, RegistryInv, Covers
<1>2. CASE Len(k.exited) <= Tombstones
    BY <1>2 DEF ExpireTombstone
<1>3. CASE ~(Len(k.exited) <= Tombstones)
    <2>1. k.exited # <<>>
        BY <1>3, KernelAssumption, EmptySeq
    <2>2. PICK t \in ThreadIds : t = Head(k.exited) /\ t \in Range(k.exited)
        BY <1>1, <2>1, LineTail
    <2>3. PICK x : x = Tail(k.exited)
        BY Zenon
    <2>4. IsLine(x) /\ Range(x) = Range(k.exited) \ {t}
        BY <1>1, <2>1, <2>2, <2>3, LineTail
    <2>5. IsExited(k, t) /\ Registered(k, t)
        BY <2>2 DEF KernelInv, RegistryInv, IsExited, Registered
    <2>6. PICK d : d = IF k.tcbs[t].vm = Gone THEN k ELSE DropVm(k)
        OBVIOUS
    <2>7. PICK m \in Nat : /\ m = IF k.tcbs[t].vm = Gone THEN k.threads ELSE Minus(k.threads, 1)
                           /\ m = Cardinality(ParkedIn(k) \ {t}) + n
        <3>1. CASE k.tcbs[t].vm = Gone
            <4>1. ParkedIn(k) \ {t} = ParkedIn(k) /\ k.threads \in Nat
                BY <1>1, <3>1 DEF ParkedIn, Kernels
            <4> QED
                BY <3>1, <4>1 DEF Covers
        <3>2. CASE k.tcbs[t].vm # Gone
            <4>1. t \in ParkedIn(k) /\ ParkedIn(k) \in SUBSET ThreadIds
                BY <3>2 DEF ParkedIn
            <4>2. Cardinality(ParkedIn(k)) = Cardinality(ParkedIn(k) \ {t}) + 1 /\ Cardinality(ParkedIn(k) \ {t}) \in Nat
                BY <4>1, RemoveThread
            <4>3. k.threads = Cardinality(ParkedIn(k) \ {t}) + n + 1
                BY <1>1, <4>2 DEF Covers
            <4>4. k.threads \in Nat /\ k.threads >= 1
                BY <1>1, <4>2, <4>3
            <4>5. Minus(k.threads, 1) = k.threads - 1
                BY <4>4, MinusIsNat
            <4> QED
                BY <1>1, <3>2, <4>2, <4>3, <4>5
        <3> QED
            BY Zenon, <3>1, <3>2
    <2>8. PICK f \in [ThreadIds -> Tcb] : f = [k.tcbs EXCEPT ![t] = Absent]
        BY Zenon, <1>1 DEF Tcb, Absent, Gone
    <2>9. f[t] = Absent /\ \A u \in ThreadIds \ {t} : f[u] = k.tcbs[u]
        BY <1>1, <2>8
    <2>10. PICK r : r = [k EXCEPT !.threads = m, !.exited = x, !.tcbs = f]
        OBVIOUS
    <2>11. ExpireTombstone(k) = r
        <3>1. d = [k EXCEPT !.threads = m]
            BY Zenon, <1>1, <2>6, <2>7 DEF DropVm, Kernels
        <3>2. ExpireTombstone(k) = [d EXCEPT !.tcbs[t] = Absent, !.exited = Tail(@)]
            BY <1>3, <2>2, <2>6 DEF ExpireTombstone
        <3> QED
            BY Zenon, <1>1, <2>3, <2>8, <2>10, <3>1, <3>2 DEF Kernels
    <2>12. /\ r \in Kernels
           /\ r.born = k.born /\ r.freed = k.freed /\ r.fresh = k.fresh
           /\ r.exited = x /\ r.active = k.active /\ r.queue = k.queue
           /\ r.blocked = k.blocked /\ r.pending = k.pending
           /\ r.tcbs = f /\ r.threads = m
        <3>1. x \in Seq(ThreadIds)
            BY <2>4 DEF IsLine
        <3> QED
            BY Zenon, <1>1, <2>10, <3>1 DEF Kernels
    <2>13. /\ ~Registered(r, t) /\ ~IsExited(r, t)
           /\ \A u \in ThreadIds \ {t} : /\ Registered(r, u) <=> Registered(k, u)
                                         /\ IsExited(r, u) <=> IsExited(k, u)
        BY <2>9, <2>12 DEF Registered, IsExited, Absent
    <2>14. Living(r) = Living(k)
        BY <2>5, <2>13 DEF Living
    <2>15. RegistryInv(r)
        <3>1. \A u \in ThreadIds : r.tcbs[u].key = k.tcbs[u].key \/ r.tcbs[u].key = NoKey
            BY <2>9, <2>12 DEF Absent
        <3>2. \A u \in ThreadIds : ~Registered(r, u) => r.tcbs[u] = Absent
            BY <2>9, <2>12, <2>13 DEF KernelInv, RegistryInv
        <3>3. \A u \in Range(r.freed) : ~Registered(r, u) /\ u < r.fresh
            <4>1. \A u \in Range(k.freed) : u \in ThreadIds /\ ~Registered(k, u) /\ u < k.fresh
                BY <1>1, LineFacts DEF KernelInv, RegistryInv
            <4> QED
                BY <2>12, <2>13, <4>1
        <3>4. \A u \in ThreadIds : Registered(r, u) => u < r.fresh
            BY <2>12, <2>13 DEF KernelInv, RegistryInv
        <3>5. \A u \in Range(r.exited) : IsExited(r, u)
            <4>1. \A u \in Range(k.exited) : u \in ThreadIds /\ IsExited(k, u)
                BY <1>1, LineFacts DEF KernelInv, RegistryInv
            <4> QED
                BY <2>4, <2>12, <2>13, <4>1
        <3>6. \A u, v \in ThreadIds : r.tcbs[u].key # NoKey /\ r.tcbs[u].key = r.tcbs[v].key => u = v
            BY <3>1 DEF KernelInv, RegistryInv
        <3>7. r.active = Cardinality(Living(r))
            BY <2>12, <2>14 DEF KernelInv, RegistryInv
        <3> QED
            BY <1>1, <2>4, <2>12, <3>2, <3>3, <3>4, <3>5, <3>6, <3>7 DEF RegistryInv
    <2>16. QueuesInv(r)
        <3>1. \A u \in ThreadIds : r.tcbs[u].vm <= r.born[u]
            BY <1>1, <2>9, <2>12 DEF KernelInv, QueuesInv, Gone, Absent
        <3> QED
            BY <2>12, <3>1 DEF KernelInv, QueuesInv
    <2>17. Covers(r, n)
        <3>1. ParkedIn(r) = ParkedIn(k) \ {t}
            BY <2>9, <2>12 DEF ParkedIn, Absent
        <3> QED
            BY <1>1, <2>7, <2>12, <3>1 DEF Covers
    <2> QED
        BY <2>5, <2>9, <2>11, <2>12, <2>15, <2>16, <2>17 DEF KernelInv
<1> QED
    BY <1>2, <1>3

\* mark_exited: whatever happened to the thread meanwhile, it does not run.
LEMMA MarkExitedKeeps ==
    ASSUME NEW k, KernelInv(k), NEW t \in ThreadIds, NEW vm \in Nat \ {0}, vm <= k.born[t],
           NEW n \in Nat, Covers(k, n + 1)
    PROVE  LET r == mark_exited(k, t, vm) IN
           /\ KernelInv(r) /\ Covers(r, n)
           /\ r.born = k.born /\ r.queue = k.queue /\ r.blocked = k.blocked
           /\ r.tcbs[t].state # "running"
           /\ r.tcbs[t].vm \in {Gone, vm}
           /\ \A u \in ThreadIds \ {t} : r.tcbs[u] = k.tcbs[u] \/ r.tcbs[u] = Absent
<1>1. PICK p : p = restore_vm_state(k, t, vm)
    OBVIOUS
<1>2. /\ p.born = k.born /\ p.queue = k.queue /\ p.blocked = k.blocked
      /\ p.tcbs = IF Registered(k, t) THEN [k.tcbs EXCEPT ![t].vm = vm] ELSE k.tcbs
    BY <1>1, RestoreFields DEF KernelInv
<1>3. KernelInv(p) /\ Covers(p, n)
    BY Zenon, <1>1, RestoreParks DEF Parks
<1>4. k.tcbs \in [ThreadIds -> Tcb]
    BY DEF KernelInv, Kernels
<1>5. /\ p.tcbs[t].state = k.tcbs[t].state
      /\ \A u \in ThreadIds \ {t} : p.tcbs[u] = k.tcbs[u]
      /\ Registered(k, t) => p.tcbs[t].vm = vm
      /\ ~Registered(k, t) => p.tcbs[t].vm = Gone
    <2>1. ~Registered(k, t) => k.tcbs[t].vm = Gone
        BY DEF KernelInv, RegistryInv, Absent
    <2> QED
        BY <1>2, <1>4, <2>1 DEF Tcb
<1>6. CASE ~Registered(k, t) \/ IsExited(k, t)
    <2>1. mark_exited(k, t, vm) = p
        BY <1>1, <1>6 DEF mark_exited
    <2> QED
        BY Zenon, <1>2, <1>3, <1>5, <1>6, <2>1 DEF Registered, IsExited
<1>7. CASE Registered(k, t) /\ ~IsExited(k, t)
    <2>1. PICK x : x = ExitedState(p, t)
        OBVIOUS
    <2>2. mark_exited(k, t, vm) = ExpireTombstone(x)
        BY <1>1, <1>7, <2>1 DEF mark_exited, ExitedState
    <2>3. Registered(p, t) /\ ~IsExited(p, t) /\ p.tcbs[t].vm # Gone
        BY <1>5, <1>7 DEF Registered, IsExited, Gone
    <2>4. /\ KernelInv(x) /\ Covers(x, n) /\ IsExited(x, t)
          /\ x.born = p.born /\ x.queue = p.queue /\ x.blocked = p.blocked
          /\ x.tcbs[t].vm = Gone
          /\ \A u \in ThreadIds \ {t} : x.tcbs[u] = p.tcbs[u]
        BY <1>3, <2>1, <2>3, ExitKeeps
    <2>5. PICK r : r = ExpireTombstone(x)
        OBVIOUS
    <2>6. /\ KernelInv(r) /\ Covers(r, n)
          /\ r.born = x.born /\ r.queue = x.queue /\ r.blocked = x.blocked
          /\ \A u \in ThreadIds : r.tcbs[u] = x.tcbs[u] \/ (r.tcbs[u] = Absent /\ IsExited(x, u))
        BY <2>4, <2>5, ExpireKeeps
    <2>7. r.tcbs[t].state # "running" /\ r.tcbs[t].vm = Gone
        BY <2>4, <2>6 DEF IsExited, Absent
    <2> QED
        BY <1>2, <1>5, <2>2, <2>4, <2>5, <2>6, <2>7
<1> QED
    BY <1>6, <1>7

\* cancel, as the orchestrator calls it: with the VM state taken.
LEMMA CancelKeeps ==
    ASSUME NEW k, KernelInv(k), NEW t \in ThreadIds, Registered(k, t), k.tcbs[t].vm = Gone,
           NEW n, Covers(k, n)
    PROVE  LET r == cancel(k, t) IN
           /\ KernelInv(r) /\ Covers(r, n)
           /\ r.born = k.born /\ r.tcbs = [k.tcbs EXCEPT ![t] = Absent]
           /\ \A u \in ThreadIds \ {t} : /\ u \in r.blocked <=> u \in k.blocked
                                         /\ IsQueued(r, u) <=> IsQueued(k, u)
<1>1. /\ k \in Kernels /\ k.tcbs \in [ThreadIds -> Tcb] /\ k.born \in [ThreadIds -> Nat]
      /\ IsLine(k.exited) /\ IsLine(k.freed) /\ IsLine(k.queue) /\ n \in Nat
    BY DEF KernelInv, Kernels, RegistryInv, QueuesInv, Covers
<1>2. PICK q : q = RemoveFirst(k.queue, t)
    OBVIOUS
<1>3. PICK x : x = RemoveFirst(k.exited, t)
    OBVIOUS
<1>4. PICK d : d = Append(k.freed, t)
    BY Zenon
<1>5. /\ IsLine(q) /\ Range(q) = Range(k.queue) \ {t}
      /\ IsLine(x) /\ Range(x) = Range(k.exited) \ {t}
    BY <1>1, <1>2, <1>3, LineRemove
<1>6. IsLine(d) /\ Range(d) = Range(k.freed) \cup {t}
    <2>1. t \notin Range(k.freed)
        BY DEF KernelInv, RegistryInv
    <2> QED
        BY <1>1, <1>4, <2>1, LineAppend
<1>7. PICK B \in SUBSET ThreadIds : B = k.blocked \ {t}
    BY Zenon, <1>1 DEF Kernels
<1>8. k.pending >= Cardinality(B)
    <2>1. /\ k.pending \in Nat /\ k.pending >= Cardinality(k.blocked) /\ k.blocked \in SUBSET ThreadIds
          /\ Cardinality(k.blocked) \in Nat
        BY <1>1, ThreadsFinite DEF KernelInv, QueuesInv, Kernels
    <2>2. Cardinality(B) <= Cardinality(k.blocked) /\ Cardinality(B) \in Nat
        BY <1>7, <2>1, ThreadsFinite, FS_Subset
    <2> QED
        BY <2>1, <2>2
<1>9. PICK f \in [ThreadIds -> Tcb] : f = [k.tcbs EXCEPT ![t] = Absent]
    BY Zenon, <1>1 DEF Tcb, Absent, Gone
<1>10. f[t] = Absent /\ \A u \in ThreadIds \ {t} : f[u] = k.tcbs[u]
    BY <1>1, <1>9
<1>11. PICK a \in Int : a = IF IsExited(k, t) THEN k.active ELSE k.active - 1
    BY <1>1 DEF Kernels
<1>12. PICK r : r = [k EXCEPT !.queue = q, !.blocked = B, !.exited = x, !.tcbs = f, !.freed = d, !.active = a]
    OBVIOUS
<1>13. cancel(k, t) = r
    BY <1>1, <1>2, <1>3, <1>4, <1>7, <1>9, <1>11, <1>12 DEF cancel, Unqueue, Kernels
<1>14. /\ r \in Kernels
       /\ r.born = k.born /\ r.freed = d /\ r.fresh = k.fresh
       /\ r.exited = x /\ r.active = a /\ r.queue = q
       /\ r.blocked = B /\ r.pending = k.pending
       /\ r.tcbs = f /\ r.threads = k.threads
    <2>1. x \in Seq(ThreadIds) /\ q \in Seq(ThreadIds) /\ d \in Seq(ThreadIds)
        BY <1>5, <1>6 DEF IsLine
    <2> QED
        BY Zenon, <1>1, <1>12, <2>1 DEF Kernels
<1>15. /\ ~Registered(r, t) /\ ~IsExited(r, t)
       /\ \A u \in ThreadIds \ {t} : /\ Registered(r, u) <=> Registered(k, u)
                                     /\ IsExited(r, u) <=> IsExited(k, u)
    BY <1>10, <1>14 DEF Registered, IsExited, Absent
<1>16. Living(r) = Living(k) \ {t} /\ Living(k) \in SUBSET ThreadIds /\ (t \in Living(k) <=> ~IsExited(k, t))
    BY <1>15 DEF Living
<1>17. RegistryInv(r)
    <2>1. r.active = Cardinality(Living(r))
        <3>1. k.active = Cardinality(Living(k))
            BY DEF KernelInv, RegistryInv
        <3>2. CASE IsExited(k, t)
            <4>1. Living(r) = Living(k)
                BY <1>16, <3>2
            <4> QED
                BY <1>11, <1>14, <3>1, <3>2, <4>1
        <3>3. CASE ~IsExited(k, t)
            <4>1. Cardinality(Living(k)) = Cardinality(Living(r)) + 1 /\ Cardinality(Living(r)) \in Nat
                BY <1>16, <3>3, RemoveThread
            <4> QED
                BY <1>11, <1>14, <3>1, <3>3, <4>1
        <3> QED
            BY <3>2, <3>3
    <2>2. \A u \in ThreadIds : r.tcbs[u].key = k.tcbs[u].key \/ r.tcbs[u].key = NoKey
        BY <1>10, <1>14 DEF Absent
    <2>3. \A u \in ThreadIds : ~Registered(r, u) => r.tcbs[u] = Absent
        BY <1>10, <1>14, <1>15 DEF KernelInv, RegistryInv
    <2>4. \A u \in Range(r.freed) : ~Registered(r, u) /\ u < r.fresh
        <3>1. \A u \in Range(k.freed) : u \in ThreadIds /\ ~Registered(k, u) /\ u < k.fresh
            BY <1>1, LineFacts DEF KernelInv, RegistryInv
        <3>2. t < k.fresh
            BY DEF KernelInv, RegistryInv
        <3> QED
            BY <1>6, <1>14, <1>15, <3>1, <3>2
    <2>5. \A u \in ThreadIds : Registered(r, u) => u < r.fresh
        BY <1>14, <1>15 DEF KernelInv, RegistryInv
    <2>6. \A u \in Range(r.exited) : IsExited(r, u)
        <3>1. \A u \in Range(k.exited) : u \in ThreadIds /\ IsExited(k, u)
            BY <1>1, LineFacts DEF KernelInv, RegistryInv
        <3> QED
            BY <1>5, <1>14, <1>15, <3>1
    <2>7. \A u, v \in ThreadIds : r.tcbs[u].key # NoKey /\ r.tcbs[u].key = r.tcbs[v].key => u = v
        BY <2>2 DEF KernelInv, RegistryInv
    <2> QED
        BY <1>5, <1>6, <1>14, <2>1, <2>3, <2>4, <2>5, <2>6, <2>7 DEF RegistryInv
<1>18. QueuesInv(r)
    <2>1. \A u \in ThreadIds : r.tcbs[u].vm <= r.born[u]
        BY <1>1, <1>10, <1>14 DEF KernelInv, QueuesInv, Gone, Absent
    <2> QED
        BY <1>5, <1>8, <1>14, <2>1 DEF QueuesInv
<1>19. Covers(r, n)
    <2>1. ParkedIn(r) = ParkedIn(k)
        BY <1>10, <1>14 DEF ParkedIn, Absent
    <2> QED
        BY <1>14, <2>1 DEF Covers
<1> QED
    BY <1>5, <1>7, <1>9, <1>13, <1>14, <1>17, <1>18, <1>19 DEF KernelInv, IsQueued

-------------------------------------------------------------------------------
(* The scheduler. *)

TaskOf == [id : ThreadIds, vm : Nat \ {0}]

\* A VM state in a task is parked nowhere, and was made for a registration.
Held(k, T) == \A e \in T : e.vm <= k.born[e.id] /\ k.tcbs[e.id].vm # e.vm

\* Thread t is not forgotten.
Minded(k, W, T, t) ==
    k.tcbs[t].state = "running" =>
        \/ IsQueued(k, t) /\ k.tcbs[t].vm # Gone
        \/ \E e \in T : e.id = t
        \/ t \in k.blocked /\ k.tcbs[t].vm # Gone /\ W[t] > 0

\* All of it, of kernel k with continuations W and tasks T.
AllInHand(k, W, T) ==
    /\ KernelInv(k)
    /\ Covers(k, Cardinality(T))
    /\ Held(k, T)
    /\ \A t \in ThreadIds : Minded(k, W, T, t)

SchedulerInv ==
    /\ waits \in [ThreadIds -> Nat]
    /\ tasks \in SUBSET TaskOf /\ IsFiniteSet(tasks)
    /\ KernelInv(kernel)
    /\ status = "open" => AllInHand(kernel, waits, tasks)

\* Waits of other threads are the same.
OnlyWaits(W, V, t) == \A u \in ThreadIds \ {t} : V[u] = W[u]

\* A task is one VM state; two tasks of one thread have different ones.
LEMMA TaskTypes ==
    ASSUME NEW T \in SUBSET TaskOf, IsFiniteSet(T), NEW e \in T, NEW k, Held(k, T)
    PROVE  /\ e.id \in ThreadIds /\ e.vm \in Nat \ {0} /\ e.vm <= k.born[e.id]
           /\ IsFiniteSet(T \ {e}) /\ Cardinality(T \ {e}) \in Nat
           /\ Cardinality(T) = Cardinality(T \ {e}) + 1
           /\ T \ {e} \in SUBSET TaskOf
           /\ \A d \in T \ {e} : d.id = e.id => d.vm # e.vm
<1>1. e.id \in ThreadIds /\ e.vm \in Nat \ {0} /\ e.vm <= k.born[e.id]
    BY DEF Held, TaskOf
<1>2. IsFiniteSet(T \ {e}) /\ Cardinality(T \ {e}) = Cardinality(T) - 1 /\ Cardinality(T) \in Nat
    BY FS_RemoveElement, FS_CardinalityType
<1>3. Cardinality(T \ {e}) \in Nat
    BY <1>2, FS_CardinalityType
<1>4. \A d \in T : d = [id |-> d.id, vm |-> d.vm]
    BY DEF TaskOf
<1> QED
    BY <1>1, <1>2, <1>3, <1>4

\* The VM state of a task is parked, and its thread is queued or waits.
LEMMA ParkTask ==
    ASSUME NEW k, NEW W, NEW V, NEW T \in SUBSET TaskOf, IsFiniteSet(T), NEW e \in T,
           AllInHand(k, W, T), NEW r, Parks(k, r, e.id, e.vm), Covers(r, Cardinality(T \ {e})),
           OnlyWaits(W, V, e.id),
           Registered(k, e.id) => IsQueued(r, e.id) \/ (e.id \in r.blocked /\ V[e.id] > 0)
    PROVE  AllInHand(r, V, T \ {e})
<1>1. /\ KernelInv(k) /\ Held(k, T) /\ \A t \in ThreadIds : Minded(k, W, T, t)
    BY DEF AllInHand
<1>2. /\ e.id \in ThreadIds /\ e.vm \in Nat \ {0} /\ T \ {e} \in SUBSET TaskOf
      /\ \A d \in T \ {e} : d.id = e.id => d.vm # e.vm
    BY <1>1, TaskTypes
<1>3. PICK t \in ThreadIds : t = e.id
    BY <1>2
<1>0. k.tcbs \in [ThreadIds -> Tcb]
    BY <1>1 DEF KernelInv, Kernels
<1>4. /\ KernelInv(r) /\ LeavesRest(k, r, t) /\ k.tcbs \in [ThreadIds -> Tcb]
      /\ r.tcbs = IF Registered(k, t) THEN [k.tcbs EXCEPT ![t].vm = e.vm] ELSE k.tcbs
    BY Zenon, <1>0, <1>3 DEF Parks
<1>5. /\ Registered(k, t) => r.tcbs[t].vm = e.vm
      /\ ~Registered(k, t) => r.tcbs[t].vm = Gone
    <2>1. ~Registered(k, t) => k.tcbs[t].vm = Gone
        <3>1. RegistryInv(k)
            BY <1>1 DEF KernelInv
        <3>2. ~Registered(k, t) => k.tcbs[t] = Absent
            BY <3>1 DEF RegistryInv
        <3> QED
            BY <3>2 DEF Absent
    <2> QED
        BY <1>4, <2>1 DEF Tcb
<1>6. Held(r, T \ {e})
    <2>1. ASSUME NEW d \in T \ {e} PROVE d.vm <= r.born[d.id] /\ r.tcbs[d.id].vm # d.vm
        <3>1. d.id \in ThreadIds /\ d.vm \in Nat \ {0} /\ d.vm <= k.born[d.id] /\ k.tcbs[d.id].vm # d.vm
            BY <1>1 DEF Held, TaskOf
        <3>2. CASE d.id = t
            BY <1>2, <1>3, <1>4, <1>5, <3>1, <3>2 DEF LeavesRest, Gone
        <3>3. CASE d.id # t
            BY <1>4, <3>1, <3>3 DEF LeavesRest
        <3> QED
            BY <3>2, <3>3
    <2> QED
        BY <2>1 DEF Held
<1>7. ASSUME NEW u \in ThreadIds PROVE Minded(r, V, T \ {e}, u)
    <2>1. SUFFICES ASSUME r.tcbs[u].state = "running"
                   PROVE  \/ IsQueued(r, u) /\ r.tcbs[u].vm # Gone
                          \/ \E d \in T \ {e} : d.id = u
                          \/ u \in r.blocked /\ r.tcbs[u].vm # Gone /\ V[u] > 0
        BY DEF Minded
    <2>2. CASE u = t
        <3>1. Registered(k, t)
            BY <1>4, <2>1, <2>2 DEF LeavesRest, Registered
        <3> QED
            BY <1>2, <1>3, <1>5, <2>2, <3>1 DEF Gone
    <2>3. CASE u # t
        <3>1. r.tcbs[u] = k.tcbs[u] /\ (u \in r.blocked <=> u \in k.blocked) /\ (IsQueued(r, u) <=> IsQueued(k, u))
            BY <1>4, <2>3 DEF LeavesRest
        <3>2. V[u] = W[u]
            BY <1>3, <2>3 DEF OnlyWaits
        <3>3. \A d \in T : d.id = u => d \in T \ {e}
            BY <1>3, <2>3
        <3> QED
            BY <1>1, <2>1, <3>1, <3>2, <3>3 DEF Minded
    <2> QED
        BY <2>2, <2>3
<1> QED
    BY <1>4, <1>6, <1>7 DEF AllInHand

\* A thread is woken, with one continuation less or as many.
LEMMA WakeThread ==
    ASSUME NEW k, NEW W, NEW V, NEW T \in SUBSET TaskOf, AllInHand(k, W, T),
           NEW t \in ThreadIds, NEW r, Wakes(k, r, t), Covers(r, Cardinality(T)),
           OnlyWaits(W, V, t), WasBlocked(k, t) => IsQueued(r, t)
    PROVE  AllInHand(r, V, T)
<1>1. Held(k, T) /\ \A u \in ThreadIds : Minded(k, W, T, u)
    BY DEF AllInHand
<1>2. KernelInv(r) /\ LeavesRest(k, r, t) /\ r.tcbs = k.tcbs /\ (IsQueued(k, t) => IsQueued(r, t))
    BY DEF Wakes
<1>3. Held(r, T)
    BY <1>1, <1>2 DEF Held, LeavesRest
<1>4. ASSUME NEW u \in ThreadIds PROVE Minded(r, V, T, u)
    <2>1. CASE u = t
        BY <1>1, <1>2, <2>1 DEF Minded, WasBlocked
    <2>2. CASE u # t
        <3>1. (u \in r.blocked <=> u \in k.blocked) /\ (IsQueued(r, u) <=> IsQueued(k, u))
            BY <1>2, <2>2 DEF LeavesRest
        <3>2. V[u] = W[u]
            BY <2>2 DEF OnlyWaits
        <3> QED
            BY <1>1, <1>2, <3>1, <3>2 DEF Minded
    <2> QED
        BY <2>1, <2>2
<1> QED
    BY <1>2, <1>3, <1>4 DEF AllInHand

\* A step after which the execution is over.
LEMMA Ends ==
    ASSUME SchedulerInv, NEW e \in tasks, tasks' = tasks \ {e}, waits' \in [ThreadIds -> Nat],
           KernelInv(kernel'), status' # "open"
    PROVE  SchedulerInv'
<1>1. IsFiniteSet(tasks') /\ tasks' \in SUBSET TaskOf
    BY FS_RemoveElement DEF SchedulerInv
<1> QED
    BY <1>1 DEF SchedulerInv

\* A step that the kernel does not refuse.
LEMMA GoesOn ==
    ASSUME SchedulerInv, NEW e \in tasks, tasks' = tasks \ {e}, waits' \in [ThreadIds -> Nat],
           AllInHand(kernel', waits', tasks')
    PROVE  SchedulerInv'
<1>1. IsFiniteSet(tasks') /\ tasks' \in SUBSET TaskOf
    BY FS_RemoveElement DEF SchedulerInv
<1> QED
    BY <1>1 DEF SchedulerInv, AllInHand

\* What a handler may assume of the task whose event it handles.
LEMMA EventFacts ==
    ASSUME SchedulerInv, NEW e, Event(e)
    PROVE  /\ status = "open" /\ e \in tasks /\ tasks' = tasks \ {e}
           /\ AllInHand(kernel, waits, tasks) /\ KernelInv(kernel)
           /\ tasks \in SUBSET TaskOf /\ IsFiniteSet(tasks)
           /\ e.id \in ThreadIds /\ e.vm \in Nat \ {0} /\ e.vm <= kernel.born[e.id]
           /\ Cardinality(tasks \ {e}) \in Nat
           /\ Covers(kernel, Cardinality(tasks \ {e}) + 1)
           /\ waits \in [ThreadIds -> Nat]
<1>1. /\ status = "open" /\ e \in tasks /\ tasks' = tasks \ {e}
      /\ AllInHand(kernel, waits, tasks) /\ KernelInv(kernel)
      /\ tasks \in SUBSET TaskOf /\ IsFiniteSet(tasks) /\ waits \in [ThreadIds -> Nat]
    BY DEF Event, SchedulerInv
<1>2. Held(kernel, tasks) /\ Covers(kernel, Cardinality(tasks))
    BY <1>1 DEF AllInHand
<1>3. /\ e.id \in ThreadIds /\ e.vm \in Nat \ {0} /\ e.vm <= kernel.born[e.id]
      /\ Cardinality(tasks \ {e}) \in Nat
      /\ Cardinality(tasks) = Cardinality(tasks \ {e}) + 1
    BY Zenon, <1>1, <1>2, TaskTypes
<1> QED
    BY <1>1, <1>2, <1>3

================================================================================
