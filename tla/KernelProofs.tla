----------------------------- MODULE KernelProofs ------------------------------
(***************************************************************************)
(* The invariant of VirtualKernel (KernelInv), and what its operations on  *)
(* queued and blocked threads do to it: parking and taking a VM state,     *)
(* queueing, blocking, unblocking, resuming.                               *)
(***************************************************************************)
EXTENDS ThreadScheduler, SequenceTheorems, FiniteSetTheorems,
        WellFoundedInduction, TLAPS

(* Lines: sequences of distinct threads. *)

IsLine(s) == s \in Seq(ThreadIds) /\ IsInjective(s)

\* A line has distinct threads at its positions.
LEMMA LineFacts ==
    ASSUME NEW s, IsLine(s)
    PROVE  /\ Len(s) \in Nat /\ DOMAIN s = 1 .. Len(s)
           /\ \A i \in 1 .. Len(s) : s[i] \in ThreadIds
           /\ \A i, j \in 1 .. Len(s) : s[i] = s[j] => i = j
           /\ \A t : t \in Range(s) <=> \E i \in 1 .. Len(s) : s[i] = t
           /\ Range(s) \subseteq ThreadIds
<1>1. Len(s) \in Nat /\ DOMAIN s = 1 .. Len(s) /\ \A i \in 1 .. Len(s) : s[i] \in ThreadIds
    BY LenProperties, ElementOfSeq DEF IsLine
<1> QED
    BY <1>1 DEF IsLine, IsInjective, Range

\* A sequence whose elements are named is a line.
LEMMA MakesLine ==
    ASSUME NEW s \in Seq(ThreadIds), \A i, j \in 1 .. Len(s) : s[i] = s[j] => i = j
    PROVE  /\ IsLine(s)
           /\ \A t : t \in Range(s) <=> \E i \in 1 .. Len(s) : s[i] = t
BY LenProperties DEF IsLine, IsInjective, Range

\* The empty line.
LEMMA EmptyLine == IsLine(<<>>) /\ Range(<<>>) = {}
BY EmptySeq DEF IsLine, IsInjective, Range

\* Append of a thread that is not there yet.
LEMMA LineAppend ==
    ASSUME NEW s, IsLine(s), NEW t \in ThreadIds, t \notin Range(s)
    PROVE  IsLine(Append(s, t)) /\ Range(Append(s, t)) = Range(s) \cup {t}
<1>1. PICK a : a = Append(s, t)
    BY Zenon
<1>2. /\ a \in Seq(ThreadIds) /\ Len(a) = Len(s) + 1
      /\ \A i \in 1 .. Len(s) : a[i] = s[i]
      /\ a[Len(s) + 1] = t
    BY <1>1, AppendProperties DEF IsLine
<1>3. \A i, j \in 1 .. Len(a) : a[i] = a[j] => i = j
    BY <1>2, LineFacts
<1>4. \A u : u \in Range(a) <=> u \in Range(s) \/ u = t
    <2>1. \A u : u \in Range(a) <=> \E i \in 1 .. Len(a) : a[i] = u
        BY <1>2, <1>3, MakesLine
    <2>2. \A u : u \in Range(s) <=> \E i \in 1 .. Len(s) : s[i] = u
        BY LineFacts
    <2>3. Len(s) + 1 \in 1 .. Len(a) /\ \A i \in 1 .. Len(a) : i = Len(s) + 1 \/ i \in 1 .. Len(s)
        BY <1>2, LineFacts
    <2>4. \A i \in 1 .. Len(s) : i \in 1 .. Len(a)
        BY <1>2, LineFacts
    <2> QED
        BY <1>2, <2>1, <2>2, <2>3, <2>4
<1> QED
    BY Zenon, <1>1, <1>2, <1>3, <1>4, MakesLine

\* enqueue_front puts a thread that is not in the line before the others.
LEMMA LinePrepend ==
    ASSUME NEW s, IsLine(s), NEW t \in ThreadIds, t \notin Range(s)
    PROVE  IsLine(<<t>> \o s) /\ Range(<<t>> \o s) = Range(s) \cup {t}
<1>1. PICK a : a = <<t>> \o s
    BY Zenon
<1>2. /\ a \in Seq(ThreadIds) /\ Len(a) = Len(s) + 1
      /\ a[1] = t
      /\ \A i \in 1 .. Len(a) : i = 1 \/ (i - 1 \in 1 .. Len(s) /\ a[i] = s[i - 1])
      /\ \A i \in 1 .. Len(s) : i + 1 \in 1 .. Len(a) /\ a[i + 1] = s[i]
    <2>1. <<t>> \in Seq(ThreadIds) /\ s \in Seq(ThreadIds) /\ Len(<<t>>) = 1 /\ <<t>>[1] = t
        BY DEF IsLine
    <2>2. /\ a \in Seq(ThreadIds) /\ Len(a) = 1 + Len(s)
          /\ \A i \in 1 .. 1 + Len(s) : a[i] = IF i <= 1 THEN <<t>>[i] ELSE s[i - 1]
        BY <1>1, <2>1, ConcatProperties
    <2> QED
        BY <2>1, <2>2, LineFacts
<1>3. \A i, j \in 1 .. Len(a) : a[i] = a[j] => i = j
    <2>1. \A i \in 1 .. Len(s) : s[i] # t
        BY LineFacts
    <2>2. \A i, j \in 1 .. Len(s) : s[i] = s[j] => i = j
        BY LineFacts
    <2>3. ASSUME NEW i \in 1 .. Len(a), NEW j \in 1 .. Len(a), a[i] = a[j], i # 1, j # 1
          PROVE  i = j
        <3>1. i - 1 = j - 1
            BY <1>2, <2>2, <2>3
        <3> QED
            BY <3>1
    <2>4. ASSUME NEW i \in 1 .. Len(a), i # 1
          PROVE  a[i] # a[1]
        BY <1>2, <2>1, <2>4
    <2> QED
        BY <2>3, <2>4
<1>4. \A u : u \in Range(a) <=> u \in Range(s) \/ u = t
    <2>1. \A u : u \in Range(a) <=> \E i \in 1 .. Len(a) : a[i] = u
        BY <1>2, <1>3, MakesLine
    <2>2. \A u : u \in Range(s) <=> \E i \in 1 .. Len(s) : s[i] = u
        BY LineFacts
    <2>3. 1 \in 1 .. Len(a)
        BY <1>2, LineFacts
    <2> QED
        BY Zenon, <1>2, <2>1, <2>2, <2>3
<1> QED
    BY Zenon, <1>1, <1>2, <1>3, <1>4, MakesLine

\* A piece of a line without one of its ends.
LEMMA LineTail ==
    ASSUME NEW s, IsLine(s), s # <<>>
    PROVE  /\ Head(s) \in Range(s) /\ Head(s) \in ThreadIds
           /\ IsLine(Tail(s)) /\ Range(Tail(s)) = Range(s) \ {Head(s)}
<1>1. PICK a : a = Tail(s)
    BY Zenon
<1>2. /\ a \in Seq(ThreadIds) /\ Len(a) = Len(s) - 1 /\ Head(s) = s[1] /\ 1 \in 1 .. Len(s)
      /\ \A i \in 1 .. Len(a) : i + 1 \in 1 .. Len(s) /\ a[i] = s[i + 1]
      /\ \A i \in 1 .. Len(s) : i = 1 \/ (i - 1 \in 1 .. Len(a) /\ a[i - 1] = s[i])
    <2>1. s \in Seq(ThreadIds) /\ Len(s) \in Nat \ {0} /\ Head(s) = s[1]
        BY LineFacts, EmptySeq DEF IsLine
    <2>2. /\ a \in Seq(ThreadIds) /\ Len(a) = Len(s) - 1
          /\ \A i \in 1 .. Len(a) : a[i] = s[i + 1]
        BY <1>1, <2>1, HeadTailProperties
    <2> QED
        BY <2>1, <2>2
<1>3. \A i, j \in 1 .. Len(a) : a[i] = a[j] => i = j
    BY <1>2, LineFacts
<1>4. \A u : u \in Range(a) <=> u \in Range(s) /\ u # Head(s)
    <2>1. \A u : u \in Range(a) <=> \E i \in 1 .. Len(a) : a[i] = u
        BY <1>2, <1>3, MakesLine
    <2>2. \A u : u \in Range(s) <=> \E i \in 1 .. Len(s) : s[i] = u
        BY LineFacts
    <2>3. \A i \in 1 .. Len(a) : a[i] # s[1]
        BY <1>2, LineFacts
    <2> QED
        BY <1>2, <2>1, <2>2, <2>3
<1>5. Head(s) \in Range(s) /\ Head(s) \in ThreadIds
    BY <1>2, LineFacts
<1>6. IsLine(a)
    BY <1>2, <1>3, MakesLine
<1> QED
    BY <1>1, <1>4, <1>5, <1>6

\* pop: a free list loses its last id, which is in it once.
LEMMA LineFront ==
    ASSUME NEW s, IsLine(s), s # <<>>
    PROVE  /\ Last(s) \in Range(s) /\ Last(s) \in ThreadIds
           /\ IsLine(Front(s)) /\ Range(Front(s)) = Range(s) \ {Last(s)}
<1>1. PICK a : a = Front(s)
    OBVIOUS
<1>2. PICK n \in Nat \ {0} : n = Len(s)
    BY LineFacts, EmptySeq DEF IsLine
<1>3. /\ a \in Seq(ThreadIds) /\ Len(a) = n - 1 /\ Last(s) = s[n] /\ n \in 1 .. n
      /\ \A i \in 1 .. n - 1 : a[i] = s[i]
    <2>1. \A i \in 1 .. n - 1 : s[i] \in ThreadIds
        BY <1>2, LineFacts
    <2>2. a = SubSeq(s, 1, n - 1)
        BY <1>1, <1>2 DEF Front
    <2>3. /\ a \in Seq(ThreadIds) /\ Len(a) = (IF 1 <= n - 1 THEN n - 1 - 1 + 1 ELSE 0)
          /\ \A i \in 1 .. n - 1 - 1 + 1 : a[i] = s[1 + i - 1]
        BY <2>1, <2>2, SubSeqProperties
    <2> QED
        BY <1>2, <2>3 DEF Last
<1>4. \A i, j \in 1 .. Len(a) : a[i] = a[j] => i = j
    BY <1>2, <1>3, LineFacts
<1>5. \A u : u \in Range(a) <=> u \in Range(s) /\ u # s[n]
    <2>1. \A u : u \in Range(a) <=> \E i \in 1 .. n - 1 : a[i] = u
        BY <1>3, <1>4, MakesLine
    <2>2. \A u : u \in Range(s) <=> \E i \in 1 .. n : s[i] = u
        BY <1>2, LineFacts
    <2>3. \A i \in 1 .. n - 1 : i \in 1 .. n /\ s[i] # s[n]
        BY <1>2, LineFacts
    <2> QED
        BY <1>3, <2>1, <2>2, <2>3
<1>6. Last(s) \in Range(s) /\ Last(s) \in ThreadIds
    BY <1>2, <1>3, LineFacts
<1>7. IsLine(a)
    BY <1>3, <1>4, MakesLine
<1> QED
    BY <1>1, <1>3, <1>5, <1>6, <1>7

\* A set of numbers that is not empty has a least one.
LEMMA MinOfNats ==
    ASSUME NEW S \in SUBSET Nat, S # {}
    PROVE  Min(S) \in S /\ \A x \in S : Min(S) <= x
<1> DEFINE R == OpToRel(<, Nat)
<1>1. \A y, z \in Nat : y < z => <<y, z>> \in R
    BY DEF OpToRel
<1>2. IsWellFoundedOn(R, Nat)
    BY Zenon, NatLessThanWellFounded
<1> HIDE DEF R
<1>3. PICK x \in S : \A y \in S : ~ (<<y, x>> \in R)
    BY Zenon, <1>2, WFMin
<1>4. ASSUME NEW y \in S PROVE x <= y
    <2>1. x \in Nat /\ y \in Nat
        OBVIOUS
    <2>2. ~ (y < x)
        BY Zenon, <1>1, <1>3, <2>1
    <2> QED
        BY <2>1, <2>2
<1> QED
    BY Zenon, <1>4 DEF Min

\* What retain and RunnableQueue::remove leave of a line.
LEMMA LineRemove ==
    ASSUME NEW s, IsLine(s), NEW t
    PROVE  IsLine(RemoveFirst(s, t)) /\ Range(RemoveFirst(s, t)) = Range(s) \ {t}
<1>1. CASE ~ \E i \in 1 .. Len(s) : s[i] = t
    <2>1. RemoveFirst(s, t) = s /\ t \notin Range(s)
        BY <1>1, LineFacts DEF RemoveFirst
    <2> QED
        BY <2>1
<1>2. CASE \E i \in 1 .. Len(s) : s[i] = t
    <2>1. PICK n \in Nat : n = Len(s)
        BY LineFacts
    <2>2. PICK I : I = {i \in 1 .. n : s[i] = t}
        BY Zenon
    <2>3. I # {} /\ I \in SUBSET Nat
        BY <1>2, <2>1, <2>2
    <2>4. PICK m \in I : m = Min(I)
        BY Zenon, <2>3, MinOfNats
    <2>5. m \in 1 .. n /\ s[m] = t
        BY <2>2
    <2>6. PICK a : a = RemoveFirst(s, t)
        OBVIOUS
    <2>7. a = SubSeq(s, 1, m - 1) \o SubSeq(s, m + 1, n)
        BY Zenon, <1>2, <2>1, <2>2, <2>3, <2>4, <2>6 DEF RemoveFirst, SelectInSeq, RemoveAt
    <2>8. PICK l : l = SubSeq(s, 1, m - 1)
        BY Zenon
    <2>9. PICK r : r = SubSeq(s, m + 1, n)
        BY Zenon
    <2>10. /\ l \in Seq(ThreadIds) /\ Len(l) = m - 1
           /\ \A i \in 1 .. m - 1 : l[i] = s[i]
        <3>1. \A i \in 1 .. m - 1 : s[i] \in ThreadIds
            BY <2>1, <2>5, LineFacts
        <3>2. /\ l \in Seq(ThreadIds) /\ Len(l) = (IF 1 <= m - 1 THEN m - 1 - 1 + 1 ELSE 0)
              /\ \A i \in 1 .. m - 1 - 1 + 1 : l[i] = s[1 + i - 1]
            BY <2>5, <2>8, <3>1, SubSeqProperties
        <3> QED
            BY <2>5, <3>2
    <2>11. /\ r \in Seq(ThreadIds) /\ Len(r) = n - m
           /\ \A i \in 1 .. n - m : r[i] = s[m + i]
        <3>1. \A i \in m + 1 .. n : s[i] \in ThreadIds
            BY <2>1, <2>5, LineFacts
        <3>2. /\ r \in Seq(ThreadIds) /\ Len(r) = (IF m + 1 <= n THEN n - (m + 1) + 1 ELSE 0)
              /\ \A i \in 1 .. n - (m + 1) + 1 : r[i] = s[m + 1 + i - 1]
            BY <2>5, <2>9, <3>1, SubSeqProperties
        <3> QED
            BY <2>5, <3>2
    <2>12. /\ a \in Seq(ThreadIds) /\ Len(a) = n - 1
           /\ \A i \in 1 .. n - 1 : a[i] = IF i < m THEN s[i] ELSE s[i + 1]
        <3>1. /\ a \in Seq(ThreadIds) /\ Len(a) = (m - 1) + (n - m)
              /\ \A i \in 1 .. (m - 1) + (n - m) : a[i] = IF i <= m - 1 THEN l[i] ELSE r[i - (m - 1)]
            <4>1. a = l \o r
                BY <2>7, <2>8, <2>9
            <4>2. /\ a \in Seq(ThreadIds) /\ Len(a) = Len(l) + Len(r)
                  /\ \A i \in 1 .. Len(l) + Len(r) : a[i] = IF i <= Len(l) THEN l[i] ELSE r[i - Len(l)]
                BY Zenon, <2>10, <2>11, <4>1, ConcatProperties
            <4> QED
                BY <2>10, <2>11, <4>2
        <3>2. (m - 1) + (n - m) = n - 1
            BY <2>5
        <3>3. ASSUME NEW i \in 1 .. n - 1, i < m PROVE a[i] = s[i]
            BY <2>5, <2>10, <3>1, <3>2, <3>3
        <3>4. ASSUME NEW i \in 1 .. n - 1, ~ (i < m) PROVE a[i] = s[i + 1]
            <4>1. i - (m - 1) \in 1 .. n - m /\ m + (i - (m - 1)) = i + 1 /\ ~ (i <= m - 1)
                BY <2>5, <3>4
            <4> QED
                BY <2>11, <3>1, <3>2, <4>1
        <3> QED
            BY <3>1, <3>2, <3>3, <3>4
    <2>13. \A i, j \in 1 .. n : s[i] = s[j] => i = j
        BY <2>1, LineFacts
    <2>14. /\ \A i \in 1 .. n - 1 : \E k \in 1 .. n : k # m /\ a[i] = s[k] /\ k = IF i < m THEN i ELSE i + 1
           /\ \A k \in 1 .. n : k # m => \E i \in 1 .. n - 1 : a[i] = s[k]
        <3>1. ASSUME NEW i \in 1 .. n - 1
              PROVE  \E k \in 1 .. n : k # m /\ a[i] = s[k] /\ k = IF i < m THEN i ELSE i + 1
            <4>1. CASE i < m
                BY <2>5, <2>12, <4>1
            <4>2. CASE ~ (i < m)
                <5>1. i + 1 \in 1 .. n /\ i + 1 # m
                    BY <2>5, <4>2
                <5> QED
                    BY <2>12, <4>2, <5>1
            <4> QED
                BY <4>1, <4>2
        <3>2. ASSUME NEW k \in 1 .. n, k # m
              PROVE  \E i \in 1 .. n - 1 : a[i] = s[k]
            <4>1. CASE k < m
                <5>1. k \in 1 .. n - 1
                    BY <2>5, <4>1
                <5> QED
                    BY <2>12, <4>1, <5>1
            <4>2. CASE ~ (k < m)
                <5>1. k - 1 \in 1 .. n - 1 /\ ~ (k - 1 < m) /\ (k - 1) + 1 = k
                    BY <2>5, <3>2, <4>2
                <5> QED
                    BY <2>12, <5>1
            <4> QED
                BY <4>1, <4>2
        <3> QED
            BY <3>1, <3>2
    <2>15. ASSUME NEW i \in 1 .. Len(a), NEW j \in 1 .. Len(a), a[i] = a[j]
           PROVE  i = j
        <3>1. PICK k \in 1 .. n : k # m /\ a[i] = s[k] /\ k = IF i < m THEN i ELSE i + 1
            BY <2>12, <2>14
        <3>2. PICK h \in 1 .. n : h # m /\ a[j] = s[h] /\ h = IF j < m THEN j ELSE j + 1
            BY <2>12, <2>14
        <3>3. k = h
            BY Zenon, <2>13, <2>15, <3>1, <3>2
        <3> QED
            BY <2>5, <3>1, <3>2, <3>3
    <2>16. IsLine(a) /\ \A u : u \in Range(a) <=> \E i \in 1 .. n - 1 : a[i] = u
        BY <2>12, <2>15, MakesLine
    <2>17. \A u : u \in Range(s) <=> \E i \in 1 .. n : s[i] = u
        BY <2>1, LineFacts
    <2>18. \A u : u \in Range(a) <=> u \in Range(s) /\ u # t
        BY <2>5, <2>13, <2>14, <2>16, <2>17
    <2> QED
        BY <2>6, <2>16, <2>18
<1> QED
    BY <1>1, <1>2

-------------------------------------------------------------------------------
(* What holds of a kernel. *)

Tcb == [state : {"absent", "created", "running", "exited"}, vm : Nat, key : Keys \cup {NoKey}]

Kernels ==
    [tcbs : [ThreadIds -> Tcb], born : [ThreadIds -> Nat], freed : Seq(ThreadIds), fresh : Nat,
     exited : Seq(ThreadIds), active : Int, queue : Seq(ThreadIds), blocked : SUBSET ThreadIds,
     threads : Nat, runnable : Nat, pending : Nat]

Living(k) == {t \in ThreadIds : Registered(k, t) /\ ~IsExited(k, t)}

\* The registry: ids are handed out once, a key finds one thread, active_count
\* counts the threads that live, and the order of exits has tombstones only.
RegistryInv(k) ==
    /\ IsLine(k.freed) /\ IsLine(k.exited)
    /\ k.active = Cardinality(Living(k))
    /\ \A t, u \in ThreadIds : k.tcbs[t].key # NoKey /\ k.tcbs[t].key = k.tcbs[u].key => t = u
    /\ \A t \in ThreadIds : ~Registered(k, t) => k.tcbs[t] = Absent
    /\ \A t \in Range(k.freed) : ~Registered(k, t) /\ t < k.fresh
    /\ \A t \in ThreadIds : Registered(k, t) => t < k.fresh
    /\ \A t \in Range(k.exited) : IsExited(k, t)

\* The queue and the blocked threads; a VM state is named by a registration.
QueuesInv(k) ==
    /\ IsLine(k.queue)
    /\ k.pending >= Cardinality(k.blocked)
    /\ \A t \in ThreadIds : k.tcbs[t].vm <= k.born[t]

KernelInv(k) == k \in Kernels /\ RegistryInv(k) /\ QueuesInv(k)

ParkedIn(k) == {t \in ThreadIds : k.tcbs[t].vm # Gone}

\* The thread quota covers the parked VM states and n more.
Covers(k, n) == n \in Nat /\ k.threads = Cardinality(ParkedIn(k)) + n

\* What a step on thread t leaves alone: the registry but for the VM state of
\* t, and where the other threads are.
LeavesRest(k, l, t) ==
    /\ l.born = k.born /\ l.freed = k.freed /\ l.fresh = k.fresh
    /\ l.exited = k.exited /\ l.active = k.active
    /\ l.tcbs[t].state = k.tcbs[t].state /\ l.tcbs[t].key = k.tcbs[t].key
    /\ \A u \in ThreadIds \ {t} :
          /\ l.tcbs[u] = k.tcbs[u]
          /\ u \in l.blocked <=> u \in k.blocked
          /\ IsQueued(l, u) <=> IsQueued(k, u)

\* Two steps on the same thread leave the rest alone.
LEMMA LeavesRestTransitive ==
    ASSUME NEW k, NEW l, NEW m, NEW t, LeavesRest(k, l, t), LeavesRest(l, m, t)
    PROVE  LeavesRest(k, m, t)
BY DEF LeavesRest

\* Threads can be counted.
LEMMA ThreadsFinite ==
    ASSUME NEW S \in SUBSET ThreadIds
    PROVE  IsFiniteSet(S) /\ Cardinality(S) \in Nat
BY KernelAssumption, FS_Subset, FS_CardinalityType

\* One thread more.
LEMMA AddThread ==
    ASSUME NEW S \in SUBSET ThreadIds, NEW t \in ThreadIds \ S
    PROVE  Cardinality(S \cup {t}) = Cardinality(S) + 1
BY ThreadsFinite, FS_AddElement

\* One thread less.
LEMMA RemoveThread ==
    ASSUME NEW S \in SUBSET ThreadIds, NEW t \in S
    PROVE  Cardinality(S) = Cardinality(S \ {t}) + 1 /\ Cardinality(S \ {t}) \in Nat
<1>1. (S \ {t}) \cup {t} = S /\ S \ {t} \in SUBSET ThreadIds /\ t \in ThreadIds \ (S \ {t})
    OBVIOUS
<1> QED
    BY <1>1, AddThread, ThreadsFinite

\* A step that leaves the rest alone keeps the registry's part.
LEMMA RegistryKept ==
    ASSUME NEW k, KernelInv(k), NEW l \in Kernels, NEW t \in ThreadIds, LeavesRest(k, l, t),
           ~Registered(k, t) => l.tcbs[t] = k.tcbs[t]
    PROVE  RegistryInv(l)
<1>1. \A u \in ThreadIds : l.tcbs[u].state = k.tcbs[u].state /\ l.tcbs[u].key = k.tcbs[u].key
    BY DEF LeavesRest
<1>2. \A u \in ThreadIds : /\ Registered(l, u) <=> Registered(k, u)
                           /\ IsExited(l, u) <=> IsExited(k, u)
    BY <1>1 DEF Registered, IsExited
<1>3. Living(l) = Living(k)
    BY <1>2 DEF Living
<1>4. \A u \in ThreadIds : ~Registered(l, u) => l.tcbs[u] = Absent
    BY <1>2 DEF KernelInv, RegistryInv, LeavesRest
<1>5. Range(k.freed) \subseteq ThreadIds /\ Range(k.exited) \subseteq ThreadIds
    BY LineFacts DEF KernelInv, RegistryInv
<1> QED
    BY <1>1, <1>2, <1>3, <1>4, <1>5 DEF KernelInv, RegistryInv, LeavesRest

-------------------------------------------------------------------------------
(* Parking and taking VM states. *)

\* restore_vm_state puts a VM state where its thread is registered, and drops
\* the one it finds there or the one it cannot put anywhere.
LEMMA RestoreFields ==
    ASSUME NEW k \in Kernels, NEW t \in ThreadIds, NEW vm \in Nat \ {0}
    PROVE  LET r == restore_vm_state(k, t, vm) IN
           /\ r \in Kernels
           /\ r.born = k.born /\ r.freed = k.freed /\ r.fresh = k.fresh
           /\ r.exited = k.exited /\ r.active = k.active /\ r.queue = k.queue
           /\ r.blocked = k.blocked /\ r.runnable = k.runnable /\ r.pending = k.pending
           /\ r.tcbs = IF Registered(k, t) THEN [k.tcbs EXCEPT ![t].vm = vm] ELSE k.tcbs
           /\ r.threads = IF Registered(k, t) /\ k.tcbs[t].vm = Gone THEN k.threads
                          ELSE Minus(k.threads, 1)
<1>1. PICK m \in Nat : m = Minus(k.threads, 1)
    BY DEF Minus, Kernels
<1>2. PICK f \in [ThreadIds -> Tcb] : f = [k.tcbs EXCEPT ![t].vm = vm]
    BY Zenon DEF Kernels, Tcb
<1>3. PICK p : p = [k EXCEPT !.tcbs = f]
    BY Zenon
<1>4. p = [k EXCEPT !.tcbs[t].vm = vm]
    BY <1>2, <1>3 DEF Kernels
<1>5. /\ p \in Kernels /\ p.tcbs = f
      /\ p.born = k.born /\ p.freed = k.freed /\ p.fresh = k.fresh
      /\ p.exited = k.exited /\ p.active = k.active /\ p.queue = k.queue
      /\ p.blocked = k.blocked /\ p.runnable = k.runnable /\ p.pending = k.pending
      /\ p.threads = k.threads
    BY Zenon, <1>3 DEF Kernels
<1>6. CASE ~Registered(k, t)
    <2>1. restore_vm_state(k, t, vm) = [k EXCEPT !.threads = m]
        BY <1>1, <1>6 DEF restore_vm_state, DropVm, Kernels
    <2> QED
        BY Zenon, <1>1, <1>6, <2>1 DEF Kernels
<1>7. CASE Registered(k, t) /\ k.tcbs[t].vm = Gone
    <2>1. restore_vm_state(k, t, vm) = p
        BY <1>4, <1>7 DEF restore_vm_state
    <2> QED
        BY <1>2, <1>5, <1>7, <2>1
<1>8. CASE Registered(k, t) /\ k.tcbs[t].vm # Gone
    <2>1. restore_vm_state(k, t, vm) = [p EXCEPT !.threads = m]
        BY <1>1, <1>4, <1>5, <1>8 DEF restore_vm_state, DropVm, Kernels
    <2> QED
        BY Zenon, <1>1, <1>2, <1>5, <1>8, <2>1 DEF Kernels
<1> QED
    BY <1>6, <1>7, <1>8

\* r is k after the VM state vm of t was given back.
Parks(k, r, t, vm) ==
    /\ KernelInv(r)
    /\ LeavesRest(k, r, t)
    /\ r.tcbs = IF Registered(k, t) THEN [k.tcbs EXCEPT ![t].vm = vm] ELSE k.tcbs

\* restore_vm_state parks a VM state that was out, and drops the one it
\* replaces, or the new one when the thread is gone.
LEMMA RestoreParks ==
    ASSUME NEW k, KernelInv(k), NEW t \in ThreadIds, NEW vm \in Nat \ {0}, vm <= k.born[t],
           NEW n \in Nat, Covers(k, n + 1)
    PROVE  LET r == restore_vm_state(k, t, vm) IN Parks(k, r, t, vm) /\ Covers(r, n)
<1>1. k \in Kernels
    BY DEF KernelInv
<1>2. PICK r : r = restore_vm_state(k, t, vm)
    OBVIOUS
<1>3. /\ r \in Kernels
      /\ r.born = k.born /\ r.freed = k.freed /\ r.fresh = k.fresh
      /\ r.exited = k.exited /\ r.active = k.active /\ r.queue = k.queue
      /\ r.blocked = k.blocked /\ r.pending = k.pending
      /\ r.tcbs = IF Registered(k, t) THEN [k.tcbs EXCEPT ![t].vm = vm] ELSE k.tcbs
      /\ r.threads = IF Registered(k, t) /\ k.tcbs[t].vm = Gone THEN k.threads
                     ELSE Minus(k.threads, 1)
    BY <1>1, <1>2, RestoreFields
<1>4. k.tcbs \in [ThreadIds -> Tcb] /\ k.born \in [ThreadIds -> Nat] /\ k.threads \in Nat
    BY <1>1 DEF Kernels
<1>5. /\ r.tcbs[t].state = k.tcbs[t].state /\ r.tcbs[t].key = k.tcbs[t].key
      /\ \A u \in ThreadIds \ {t} : r.tcbs[u] = k.tcbs[u]
      /\ Registered(k, t) => r.tcbs[t].vm = vm
      /\ ~Registered(k, t) => r.tcbs = k.tcbs
    BY <1>3, <1>4 DEF Tcb
<1>6. LeavesRest(k, r, t)
    BY <1>3, <1>5 DEF LeavesRest, IsQueued
<1>7. RegistryInv(r)
    BY <1>3, <1>5, <1>6, RegistryKept
<1>8. QueuesInv(r)
    <2>1. \A u \in ThreadIds : r.tcbs[u].vm <= r.born[u]
        BY <1>3, <1>5 DEF KernelInv, QueuesInv
    <2> QED
        BY <1>3, <2>1 DEF KernelInv, QueuesInv
<1>9. Covers(r, n)
    <2>1. ParkedIn(k) \in SUBSET ThreadIds /\ Cardinality(ParkedIn(k)) \in Nat
        BY ThreadsFinite DEF ParkedIn
    <2>2. CASE ~Registered(k, t)
        <3>1. ParkedIn(r) = ParkedIn(k)
            BY <1>5, <2>2 DEF ParkedIn
        <3> QED
            BY <1>3, <2>1, <2>2, <3>1 DEF Covers, Minus
    <2>3. CASE Registered(k, t) /\ k.tcbs[t].vm = Gone
        <3>1. ParkedIn(r) = ParkedIn(k) \cup {t} /\ t \in ThreadIds \ ParkedIn(k)
            BY <1>5, <2>3 DEF ParkedIn, Gone
        <3>2. Cardinality(ParkedIn(r)) = Cardinality(ParkedIn(k)) + 1
            BY <2>1, <3>1, AddThread
        <3> QED
            BY <1>3, <2>1, <2>3, <3>2 DEF Covers
    <2>4. CASE Registered(k, t) /\ k.tcbs[t].vm # Gone
        <3>1. ParkedIn(r) = ParkedIn(k)
            BY <1>5, <2>4 DEF ParkedIn, Gone
        <3> QED
            BY <1>3, <2>1, <2>4, <3>1 DEF Covers, Minus
    <2> QED
        BY <2>2, <2>3, <2>4
<1> QED
    BY <1>2, <1>3, <1>6, <1>7, <1>8, <1>9 DEF Parks, KernelInv

\* A kernel whose queue, blocked threads and quotas are others.
Rearranged(k, q, x, y, B) == [k EXCEPT !.queue = q, !.runnable = x, !.pending = y, !.blocked = B]

\* A step that moves thread t in the queue and the blocked set, and counts
\* what it moved, keeps the invariant.
LEMMA QueuesChanged ==
    ASSUME NEW k, KernelInv(k), NEW q, IsLine(q), NEW x \in Nat, NEW y \in Nat,
           NEW B \in SUBSET ThreadIds, y >= Cardinality(B), NEW t \in ThreadIds,
           Range(q) \ {t} = Range(k.queue) \ {t}, B \ {t} = k.blocked \ {t},
           NEW n, Covers(k, n)
    PROVE  LET r == Rearranged(k, q, x, y, B) IN
           /\ KernelInv(r) /\ LeavesRest(k, r, t) /\ Covers(r, n)
           /\ r.tcbs = k.tcbs /\ r.born = k.born /\ r.queue = q /\ r.blocked = B
           /\ r.runnable = x /\ r.pending = y
<1>1. k \in Kernels
    BY DEF KernelInv
<1>2. PICK r : r = Rearranged(k, q, x, y, B)
    OBVIOUS
<1>3. /\ r \in Kernels
      /\ r.born = k.born /\ r.freed = k.freed /\ r.fresh = k.fresh
      /\ r.exited = k.exited /\ r.active = k.active /\ r.queue = q
      /\ r.blocked = B /\ r.runnable = x /\ r.pending = y
      /\ r.tcbs = k.tcbs /\ r.threads = k.threads
    <2>1. q \in Seq(ThreadIds)
        BY DEF IsLine
    <2> QED
        BY Zenon, <1>1, <1>2, <2>1 DEF Kernels, Rearranged
<1>4. LeavesRest(k, r, t)
    BY <1>3 DEF LeavesRest, IsQueued
<1>5. RegistryInv(r)
    BY <1>3, <1>4, RegistryKept
<1>6. QueuesInv(r)
    BY <1>3 DEF KernelInv, QueuesInv
<1>7. Covers(r, n)
    BY <1>3 DEF Covers, ParkedIn
<1> QED
    BY <1>2, <1>3, <1>4, <1>5, <1>6, <1>7 DEF KernelInv

\* enqueue_runnable and enqueue_runnable_front, when the quota allows it.
LEMMA EnqueueParks ==
    ASSUME NEW k, KernelInv(k), NEW t \in ThreadIds, NEW vm \in Nat \ {0}, vm <= k.born[t],
           NEW n \in Nat, Covers(k, n + 1), NEW front \in BOOLEAN, ~RunnableRefused(k, t)
    PROVE  LET r == Enqueued(k, t, vm, front) IN
           Parks(k, r, t, vm) /\ Covers(r, n) /\ IsQueued(r, t) /\ r.blocked = k.blocked
<1>1. k \in Kernels
    BY DEF KernelInv
<1>2. PICK p : p = restore_vm_state(k, t, vm)
    OBVIOUS
<1>3. /\ p \in Kernels /\ p.queue = k.queue /\ p.blocked = k.blocked
      /\ p.runnable = k.runnable /\ p.pending = k.pending
    BY Zenon, <1>1, <1>2, RestoreFields
<1>4. Parks(k, p, t, vm) /\ Covers(p, n)
    BY <1>2, RestoreParks
<1>5. KernelInv(p)
    BY <1>4 DEF Parks
<1>6. CASE IsQueued(k, t)
    <2>1. Enqueued(k, t, vm, front) = p
        BY <1>2, <1>6 DEF Enqueued
    <2> QED
        BY <1>3, <1>4, <1>6, <2>1 DEF IsQueued
<1>7. CASE ~IsQueued(k, t)
    <2>1. PICK q : q = IF front THEN <<t>> \o p.queue ELSE Append(p.queue, t)
        BY Zenon
    <2>2. PICK r : r = Rearranged(p, q, p.runnable + 1, p.pending, p.blocked)
        OBVIOUS
    <2>3. Enqueued(k, t, vm, front) = r
        <3>1. [p EXCEPT !.runnable = @ + 1].queue = p.queue
            BY <1>3 DEF Kernels
        <3>2. r = [[p EXCEPT !.runnable = @ + 1] EXCEPT !.queue = q]
            BY Zenon, <1>3, <2>2 DEF Kernels, Rearranged
        <3> QED
            BY Zenon, <1>2, <1>7, <2>1, <3>1, <3>2 DEF Enqueued, enqueue, enqueue_front
    <2>4. IsLine(q) /\ Range(q) = Range(k.queue) \cup {t}
        <3>1. IsLine(k.queue) /\ t \notin Range(k.queue)
            BY <1>7 DEF KernelInv, QueuesInv, IsQueued
        <3> QED
            BY <1>3, <2>1, <3>1, LineAppend, LinePrepend
    <2>5. /\ Range(q) \ {t} = Range(p.queue) \ {t}
          /\ p.runnable + 1 \in Nat /\ p.pending \in Nat /\ p.blocked \in SUBSET ThreadIds
          /\ p.pending >= Cardinality(p.blocked)
        BY <1>3, <1>5, <2>4 DEF Kernels, KernelInv, QueuesInv
    <2>6. /\ KernelInv(r) /\ LeavesRest(p, r, t) /\ Covers(r, n)
          /\ r.tcbs = p.tcbs /\ r.queue = q /\ r.blocked = p.blocked
        BY <1>4, <1>5, <2>2, <2>4, <2>5, QueuesChanged
    <2>7. LeavesRest(k, r, t)
        BY <1>4, <2>6, LeavesRestTransitive DEF Parks
    <2> QED
        BY <1>3, <1>4, <2>3, <2>4, <2>6, <2>7 DEF Parks, IsQueued
<1> QED
    BY <1>6, <1>7

\* A parked VM state is taken.
LEMMA VmTaken ==
    ASSUME NEW k, KernelInv(k), NEW t \in ThreadIds, k.tcbs[t].vm # Gone, NEW n, Covers(k, n)
    PROVE  LET r == [k EXCEPT !.tcbs[t].vm = Gone] IN
           /\ KernelInv(r) /\ LeavesRest(k, r, t) /\ Covers(r, n + 1)
           /\ r.tcbs = [k.tcbs EXCEPT ![t].vm = Gone]
           /\ r.queue = k.queue /\ r.blocked = k.blocked
           /\ r.runnable = k.runnable /\ r.pending = k.pending
<1>1. k \in Kernels /\ k.tcbs \in [ThreadIds -> Tcb] /\ k.born \in [ThreadIds -> Nat]
    BY DEF KernelInv, Kernels
<1>2. PICK f \in [ThreadIds -> Tcb] : f = [k.tcbs EXCEPT ![t].vm = Gone]
    BY Zenon, <1>1 DEF Tcb, Gone
<1>3. PICK r : r = [k EXCEPT !.tcbs = f]
    BY Zenon
<1>4. r = [k EXCEPT !.tcbs[t].vm = Gone]
    BY <1>1, <1>2, <1>3 DEF Kernels
<1>5. /\ r \in Kernels
      /\ r.born = k.born /\ r.freed = k.freed /\ r.fresh = k.fresh
      /\ r.exited = k.exited /\ r.active = k.active /\ r.queue = k.queue
      /\ r.blocked = k.blocked /\ r.runnable = k.runnable /\ r.pending = k.pending
      /\ r.tcbs = f /\ r.threads = k.threads
    BY Zenon, <1>1, <1>3 DEF Kernels
<1>6. /\ f[t].state = k.tcbs[t].state /\ f[t].key = k.tcbs[t].key /\ f[t].vm = Gone
      /\ \A u \in ThreadIds \ {t} : f[u] = k.tcbs[u]
    BY <1>1, <1>2 DEF Tcb
<1>7. LeavesRest(k, r, t)
    BY <1>5, <1>6 DEF LeavesRest, IsQueued
<1>8. Registered(k, t)
    BY DEF KernelInv, RegistryInv, Absent
<1>9. RegistryInv(r)
    BY <1>5, <1>7, <1>8, RegistryKept
<1>10. QueuesInv(r)
    <2>1. \A u \in ThreadIds : r.tcbs[u].vm <= r.born[u]
        BY <1>1, <1>5, <1>6 DEF KernelInv, QueuesInv, Gone
    <2> QED
        BY <1>5, <2>1 DEF KernelInv, QueuesInv
<1>11. Covers(r, n + 1)
    <2>1. ParkedIn(k) \in SUBSET ThreadIds /\ t \in ParkedIn(k) /\ ParkedIn(r) = ParkedIn(k) \ {t}
        BY <1>5, <1>6 DEF ParkedIn
    <2>2. Cardinality(ParkedIn(k)) = Cardinality(ParkedIn(r)) + 1 /\ Cardinality(ParkedIn(r)) \in Nat
        BY <2>1, RemoveThread
    <2> QED
        BY <1>5, <2>2 DEF Covers
<1> QED
    BY <1>2, <1>4, <1>5, <1>7, <1>9, <1>10, <1>11 DEF KernelInv

\* saturating_sub.
LEMMA MinusIsNat ==
    ASSUME NEW a \in Nat, NEW b \in Nat
    PROVE  Minus(a, b) \in Nat /\ (a >= b => Minus(a, b) = a - b)
BY DEF Minus

\* take_thread, when there is a VM state to take.
LEMMA TakeThread ==
    ASSUME NEW k, KernelInv(k), NEW t \in ThreadIds, k.tcbs[t].vm # Gone, NEW n, Covers(k, n)
    PROVE  LET r == take_thread(k, t) IN
           /\ KernelInv(r) /\ LeavesRest(k, r, t) /\ Covers(r, n + 1)
           /\ r.tcbs = [k.tcbs EXCEPT ![t].vm = Gone]
           /\ r.queue = k.queue /\ r.blocked = k.blocked
<1>1. k \in Kernels
    BY DEF KernelInv
<1>2. PICK p : p = [k EXCEPT !.tcbs[t].vm = Gone]
    BY Zenon
<1>3. /\ KernelInv(p) /\ LeavesRest(k, p, t) /\ Covers(p, n + 1)
      /\ p.tcbs = [k.tcbs EXCEPT ![t].vm = Gone]
      /\ p.queue = k.queue /\ p.blocked = k.blocked
      /\ p.runnable = k.runnable /\ p.pending = k.pending
    BY <1>2, VmTaken
<1>4. PICK m \in Nat : m = Minus(k.runnable, 1)
    BY Zenon, <1>1, MinusIsNat DEF Kernels
<1>5. PICK r : r = Rearranged(p, p.queue, m, p.pending, p.blocked)
    OBVIOUS
<1>6. take_thread(k, t) = r
    <2>1. take_thread(k, t) = [[k EXCEPT !.tcbs[t].vm = Gone] EXCEPT !.runnable = Minus(@, 1)]
        BY <1>1 DEF take_thread, Kernels
    <2>2. take_thread(k, t) = [p EXCEPT !.runnable = m]
        BY <1>2, <1>3, <1>4, <2>1 DEF KernelInv, Kernels
    <2> QED
        BY Zenon, <1>3, <1>5, <2>2 DEF KernelInv, Kernels, Rearranged
<1>7. /\ IsLine(p.queue) /\ p.pending \in Nat /\ p.blocked \in SUBSET ThreadIds
      /\ p.pending >= Cardinality(p.blocked)
    BY <1>3 DEF KernelInv, QueuesInv, Kernels
<1>8. /\ KernelInv(r) /\ LeavesRest(p, r, t) /\ Covers(r, n + 1)
      /\ r.tcbs = p.tcbs /\ r.queue = p.queue /\ r.blocked = p.blocked
    BY <1>3, <1>4, <1>5, <1>7, QueuesChanged
<1> QED
    BY <1>3, <1>6, <1>8, LeavesRestTransitive

\* r is k after t was unblocked: the VM states are where they were.
Wakes(k, r, t) ==
    /\ KernelInv(r) /\ LeavesRest(k, r, t)
    /\ r.tcbs = k.tcbs
    /\ t \notin r.blocked
    /\ IsQueued(k, t) => IsQueued(r, t)

\* unblock moves a blocked thread to the queue, and its VM state with it.
LEMMA UnblockWakes ==
    ASSUME NEW k, KernelInv(k), NEW t \in ThreadIds, NEW n, Covers(k, n),
           WasBlocked(k, t) => IsQueued(unblock(k, t), t)
    PROVE  Wakes(k, unblock(k, t), t) /\ Covers(unblock(k, t), n)
<1>1. k \in Kernels /\ k.tcbs \in [ThreadIds -> Tcb] /\ n \in Nat
    BY DEF KernelInv, Kernels, Covers
<1>2. PICK B \in SUBSET ThreadIds : B = k.blocked \ {t}
    BY Zenon, <1>1 DEF Kernels
<1>3. /\ k.pending \in Nat /\ k.runnable \in Nat /\ IsLine(k.queue)
      /\ k.pending >= Cardinality(k.blocked) /\ k.blocked \in SUBSET ThreadIds
      /\ Cardinality(k.blocked) \in Nat
    BY <1>1, ThreadsFinite DEF KernelInv, QueuesInv, Kernels
<1>4. CASE ~WasBlocked(k, t)
    <2>1. PICK r : r = Rearranged(k, k.queue, k.runnable, k.pending, B)
        OBVIOUS
    <2>2. unblock(k, t) = r
        BY Zenon, <1>1, <1>2, <1>4, <2>1 DEF unblock, Rearranged, Kernels
    <2>3. Cardinality(B) <= Cardinality(k.blocked) /\ Cardinality(B) \in Nat
        BY <1>2, <1>3, ThreadsFinite, FS_Subset
    <2>4. B \ {t} = k.blocked \ {t} /\ k.pending >= Cardinality(B)
        BY <1>2, <1>3, <2>3
    <2>5. /\ KernelInv(r) /\ LeavesRest(k, r, t) /\ Covers(r, n)
          /\ r.tcbs = k.tcbs /\ r.queue = k.queue /\ r.blocked = B
        BY <1>3, <2>1, <2>4, QueuesChanged
    <2> QED
        BY <1>2, <2>2, <2>5 DEF Wakes, IsQueued
<1>5. CASE WasBlocked(k, t)
    <2>1. PICK vm : vm = k.tcbs[t].vm
        OBVIOUS
    <2>2. vm \in Nat \ {0} /\ vm <= k.born[t] /\ vm # Gone /\ t \in k.blocked /\ Registered(k, t)
        BY <1>1, <1>5, <2>1 DEF WasBlocked, Gone, KernelInv, QueuesInv, RegistryInv, Absent, Tcb
    <2>3. PICK p : p = [k EXCEPT !.tcbs[t].vm = Gone]
        BY Zenon
    <2>4. /\ KernelInv(p) /\ LeavesRest(k, p, t) /\ Covers(p, n + 1)
          /\ p.tcbs = [k.tcbs EXCEPT ![t].vm = Gone]
          /\ p.queue = k.queue /\ p.blocked = k.blocked
          /\ p.runnable = k.runnable /\ p.pending = k.pending
        BY Zenon, <2>1, <2>2, <2>3, VmTaken
    <2>5. Cardinality(k.blocked) = Cardinality(B) + 1 /\ Cardinality(B) \in Nat
        BY <1>2, <1>3, <2>2, RemoveThread
    <2>6. PICK m \in Nat : m = Minus(k.pending, 1) /\ m >= Cardinality(B)
        BY <1>3, <2>5 DEF Minus
    <2>7. PICK q : q = Rearranged(p, p.queue, p.runnable, m, B)
        OBVIOUS
    <2>8. /\ KernelInv(q) /\ LeavesRest(p, q, t) /\ Covers(q, n + 1)
          /\ q.tcbs = p.tcbs /\ q.born = p.born /\ q.queue = p.queue /\ q.blocked = B
        <3>1. B \ {t} = p.blocked \ {t} /\ IsLine(p.queue) /\ p.runnable \in Nat
            BY <1>2, <1>3, <2>4
        <3> QED
            BY <2>4, <2>6, <2>7, <3>1, QueuesChanged
    <2>9. unblock(k, t) = Enqueued(q, t, vm, FALSE)
        <3>1. q = [k EXCEPT !.blocked = @ \ {t}, !.tcbs[t].vm = Gone, !.pending = Minus(@, 1)]
            BY Zenon, <1>1, <1>2, <2>3, <2>4, <2>6, <2>7 DEF Rearranged, Kernels
        <3> QED
            BY <1>5, <2>1, <3>1 DEF unblock, enqueue_runnable
    <2>10. LeavesRest(k, q, t)
        BY <2>4, <2>8, LeavesRestTransitive
    <2>11. q \in Kernels /\ vm <= q.born[t] /\ Registered(q, t)
        BY <2>2, <2>8, <2>10 DEF KernelInv, LeavesRest, Registered
    <2>12. ~RunnableRefused(q, t)
        <3>1. SUFFICES ASSUME RunnableRefused(q, t) PROVE FALSE
            OBVIOUS
        <3>2. Enqueued(q, t, vm, FALSE) = restore_vm_state(q, t, vm)
            BY <3>1 DEF Enqueued
        <3>3. restore_vm_state(q, t, vm).queue = q.queue
            BY Zenon, <2>2, <2>11, RestoreFields
        <3> QED
            BY Zenon, <1>5, <2>9, <3>1, <3>2, <3>3 DEF RunnableRefused, IsQueued
    <2>13. PICK r : r = Enqueued(q, t, vm, FALSE)
        BY Zenon
    <2>14. Parks(q, r, t, vm) /\ Covers(r, n) /\ IsQueued(r, t) /\ r.blocked = q.blocked
        BY Zenon, <1>1, <2>2, <2>8, <2>11, <2>12, <2>13, EnqueueParks
    <2>15. r.tcbs = [q.tcbs EXCEPT ![t].vm = vm] /\ KernelInv(r) /\ LeavesRest(k, r, t)
        BY <2>10, <2>11, <2>14, LeavesRestTransitive DEF Parks
    <2>16. r.tcbs = k.tcbs
        BY <1>1, <2>1, <2>4, <2>8, <2>15 DEF Tcb
    <2> QED
        BY Zenon, <1>2, <2>8, <2>9, <2>13, <2>14, <2>15, <2>16 DEF Wakes
<1> QED
    BY <1>4, <1>5

\* resume_pending leaves a parked thread in the queue.
LEMMA ResumeWakes ==
    ASSUME NEW k, KernelInv(k), NEW t \in ThreadIds, NEW n, Covers(k, n), ~ResumeRefused(k, t)
    PROVE  LET r == resume_pending(k, t) IN
           /\ Wakes(k, r, t) /\ Covers(r, n)
           /\ k.tcbs[t].vm # Gone => IsQueued(r, t)
<1>1. PICK w : w = unblock(k, t)
    OBVIOUS
<1>2. WasBlocked(k, t) => IsQueued(unblock(k, t), t)
    BY DEF ResumeRefused
<1>3. Wakes(k, w, t) /\ Covers(w, n)
    BY <1>1, <1>2, UnblockWakes
<1>4. KernelInv(w) /\ LeavesRest(k, w, t) /\ w.tcbs = k.tcbs /\ w.tcbs \in [ThreadIds -> Tcb] /\ n \in Nat
    BY Zenon, <1>3 DEF Wakes, KernelInv, Kernels, Covers
<1>5. CASE w.tcbs[t].vm = Gone
    <2>1. resume_pending(k, t) = w
        BY <1>1, <1>5 DEF resume_pending
    <2> QED
        BY <1>3, <1>4, <1>5, <2>1
<1>6. CASE w.tcbs[t].vm # Gone
    <2>1. PICK vm : vm = w.tcbs[t].vm
        OBVIOUS
    <2>2. PICK p : p = take_thread(w, t)
        OBVIOUS
    <2>3. PICK r : r = Enqueued(p, t, vm, TRUE)
        BY Zenon
    <2>4. resume_pending(k, t) = r /\ ~RunnableRefused(p, t)
        BY <1>1, <1>6, <2>1, <2>2, <2>3 DEF resume_pending, ResumeRefused, enqueue_runnable_front
    <2>5. /\ KernelInv(p) /\ LeavesRest(w, p, t) /\ Covers(p, n + 1)
          /\ p.tcbs = [w.tcbs EXCEPT ![t].vm = Gone]
          /\ p.queue = w.queue /\ p.blocked = w.blocked
        BY <1>3, <1>4, <1>6, <2>2, TakeThread
    <2>6. vm \in Nat \ {0} /\ vm <= p.born[t] /\ Registered(p, t)
        BY <1>4, <1>6, <2>1, <2>5 DEF Gone, KernelInv, QueuesInv, RegistryInv, Registered, Absent, LeavesRest, Tcb
    <2>7. Parks(p, r, t, vm) /\ Covers(r, n) /\ IsQueued(r, t) /\ r.blocked = p.blocked
        <3>1. KernelInv(p) /\ Covers(p, n + 1) /\ n \in Nat /\ ~RunnableRefused(p, t)
            BY <1>4, <2>4, <2>5
        <3> QED
            BY Zenon, <2>3, <2>6, <3>1, EnqueueParks
    <2>8. r.tcbs = [p.tcbs EXCEPT ![t].vm = vm] /\ KernelInv(r) /\ LeavesRest(p, r, t)
        BY <2>6, <2>7 DEF Parks
    <2>9. r.tcbs = k.tcbs
        BY <1>4, <2>1, <2>5, <2>8 DEF Tcb
    <2>10. LeavesRest(k, r, t)
        BY <1>4, <2>5, <2>8, LeavesRestTransitive
    <2> QED
        BY <1>3, <2>4, <2>5, <2>7, <2>8, <2>9, <2>10 DEF Wakes
<1> QED
    BY <1>5, <1>6

\* block parks the VM state and counts a pending one.
LEMMA BlockParks ==
    ASSUME NEW k, KernelInv(k), NEW t \in ThreadIds, NEW vm \in Nat \ {0}, vm <= k.born[t],
           NEW n \in Nat, Covers(k, n + 1)
    PROVE  LET r == block(k, t, vm) IN
           Parks(k, r, t, vm) /\ Covers(r, n) /\ t \in r.blocked
<1>1. k \in Kernels
    BY DEF KernelInv
<1>2. PICK B \in SUBSET ThreadIds : B = k.blocked \cup {t}
    BY Zenon, <1>1 DEF Kernels
<1>3. /\ k.pending \in Nat /\ k.runnable \in Nat /\ IsLine(k.queue)
      /\ k.pending >= Cardinality(k.blocked) /\ k.blocked \in SUBSET ThreadIds
      /\ Cardinality(k.blocked) \in Nat
    BY <1>1, ThreadsFinite DEF KernelInv, QueuesInv, Kernels
<1>4. Cardinality(B) <= Cardinality(k.blocked) + 1 /\ Cardinality(B) \in Nat
    <2>1. CASE t \in k.blocked
        <3>1. B = k.blocked
            BY <1>2, <2>1
        <3> QED
            BY <1>3, <3>1
    <2>2. CASE t \notin k.blocked
        BY <1>2, <1>3, <2>2, AddThread
    <2> QED
        BY <2>1, <2>2
<1>5. PICK p : p = Rearranged(k, k.queue, k.runnable, k.pending + 1, B)
    OBVIOUS
<1>6. block(k, t, vm) = restore_vm_state(p, t, vm)
    BY Zenon, <1>1, <1>2, <1>5 DEF block, Rearranged, Kernels
<1>7. /\ KernelInv(p) /\ LeavesRest(k, p, t) /\ Covers(p, n + 1)
      /\ p.tcbs = k.tcbs /\ p.born = k.born /\ p.queue = k.queue /\ p.blocked = B
    <2>1. B \ {t} = k.blocked \ {t} /\ k.pending + 1 >= Cardinality(B) /\ k.pending + 1 \in Nat
        BY <1>2, <1>3, <1>4
    <2> QED
        BY <1>3, <1>5, <2>1, QueuesChanged
<1>8. PICK r : r = restore_vm_state(p, t, vm)
    OBVIOUS
<1>9. Parks(p, r, t, vm) /\ Covers(r, n)
    BY <1>7, <1>8, RestoreParks
<1>10. r.blocked = B
    BY Zenon, <1>7, <1>8, RestoreFields DEF KernelInv
<1>11. LeavesRest(k, r, t)
    BY <1>7, <1>9, LeavesRestTransitive DEF Parks
<1> QED
    BY <1>2, <1>6, <1>7, <1>8, <1>9, <1>10, <1>11 DEF Parks, Registered

\* An operation that completes at once parks its thread and queues it.
LEMMA BlockAndResume ==
    ASSUME NEW k, KernelInv(k), NEW t \in ThreadIds, NEW vm \in Nat \ {0}, vm <= k.born[t],
           NEW n \in Nat, Covers(k, n + 1), ~ResumeRefused(block(k, t, vm), t)
    PROVE  LET r == resume_pending(block(k, t, vm), t) IN
           Parks(k, r, t, vm) /\ Covers(r, n) /\ (Registered(k, t) => IsQueued(r, t))
<1>1. PICK b : b = block(k, t, vm)
    OBVIOUS
<1>2. Parks(k, b, t, vm) /\ Covers(b, n)
    BY <1>1, BlockParks
<1>3. PICK r : r = resume_pending(b, t)
    OBVIOUS
<1>4. KernelInv(b) /\ LeavesRest(k, b, t) /\ b.tcbs = IF Registered(k, t) THEN [k.tcbs EXCEPT ![t].vm = vm] ELSE k.tcbs
    BY <1>2 DEF Parks
<1>5. /\ Wakes(b, r, t) /\ Covers(r, n)
      /\ b.tcbs[t].vm # Gone => IsQueued(r, t)
    BY Zenon, <1>1, <1>2, <1>3, <1>4, ResumeWakes
<1>6. LeavesRest(k, r, t)
    BY <1>4, <1>5, LeavesRestTransitive DEF Wakes
<1>7. Registered(k, t) => b.tcbs[t].vm # Gone
    BY <1>4 DEF KernelInv, Kernels, Gone, Tcb
<1> QED
    BY <1>1, <1>3, <1>4, <1>5, <1>6, <1>7 DEF Parks, Wakes

================================================================================
