------------------------------ MODULE PrivateHeap ------------------------------
(***************************************************************************)
(* The private heap of a VM thread (galfus-vm/src/heap.rs): slots with a   *)
(* generation, an anchor count (references from registers and globals), an *)
(* edge count (references from other heap objects), a colour, and the      *)
(* trial-deletion cycle collector that an allocation may run.              *)
(*                                                                         *)
(* The heap is a value; every operation of PrivateHeap is an operator from *)
(* heaps to heaps, so that one VM instruction, which calls several of them, *)
(* is one step of VmThread.  Objects keep their references and whether     *)
(* they are an adapter handle; structs, tuples, arrays and choices are all *)
(* objects with fields.  The recursion of the code is recursion here, so   *)
(* this module is for TLC only.                                            *)
(***************************************************************************)
EXTENDS Naturals, Sequences, FiniteSets, SequencesExt

CONSTANTS MaxObjects,     \* ThreadQuota limit on live heap objects
          Fields,         \* number of reference fields of an object
          Null            \* VmValue::Null, and every other non-reference value

ASSUME HeapAssumption ==
    /\ MaxObjects \in Nat \ {0}
    /\ Fields \in Nat \ {0}

\* The quota bounds the live objects, so the slot vector never grows past it.
Slots == 1 .. MaxObjects
NoObject == [kind |-> "none", fields |-> <<>>]
Struct(fields) == [kind |-> "struct", fields |-> fields]
AdapterHandle == [kind |-> "handle", fields |-> <<>>]
Ref(s, g) == [slot |-> s, gen |-> g]

\* A collection is due every so many allocations (500 in alloc).
EmptyHeap(every) ==
    [len     |-> 0,
     every   |-> every,
     obj     |-> [s \in Slots |-> NoObject],
     gen     |-> [s \in Slots |-> 0],
     anchors |-> [s \in Slots |-> 0],
     edges   |-> [s \in Slots |-> 0],
     color   |-> [s \in Slots |-> "Black"],
     free    |-> <<>>,
     roots   |-> {},
     allocs  |-> 0,
     drops   |-> 0,
     used    |-> 0]

Occupied(h) == {s \in Slots : h.obj[s] # NoObject}
Live(h, r) == h.gen[r.slot] = r.gen /\ h.obj[r.slot] # NoObject
Children(o) == SelectSeq(o.fields, LAMBDA v : v # Null)

\* saturating_sub of the two counters.
Less1(n) == IF n = 0 THEN 0 ELSE n - 1

-----------------------------------------------------------------------------
(* Anchors and edges. *)

retain_anchor(h, v) ==
    IF v # Null /\ Live(h, v)
    THEN [h EXCEPT !.anchors[v.slot] = @ + 1,
                   !.color[v.slot] = "Black",
                   !.roots = @ \ {v.slot}]
    ELSE h

retain_edge(h, v) ==
    IF v # Null /\ Live(h, v)
    THEN [h EXCEPT !.edges[v.slot] = @ + 1,
                   !.color[v.slot] = "Black",
                   !.roots = @ \ {v.slot}]
    ELSE h

\* An object that lost its last anchor but still has edges may be in a dead
\* cycle: it becomes a candidate root of the collector.
Suspect(h, s) ==
    IF h.color[s] = "Purple" THEN h
    ELSE [h EXCEPT !.color[s] = "Purple", !.roots = @ \cup {s}]

\* Faulty variant: the slot stays a candidate root.
Vacate_KeepsRoot(h, s) ==
    [h EXCEPT !.obj[s] = NoObject, !.color[s] = "Black",
              !.free = Append(@, s), !.used = @ - 1,
              !.drops = @ + (IF h.obj[s].kind = "handle" THEN 1 ELSE 0)]

\* Take the object out of its slot: the quota and the free list get it back.
Vacate(h, s) ==
    [h EXCEPT !.obj[s] = NoObject,
              !.color[s] = "Black",
              !.roots = @ \ {s},
              !.free = Append(@, s),
              !.used = @ - 1,
              !.drops = @ + (IF h.obj[s].kind = "handle" THEN 1 ELSE 0)]

RECURSIVE release_edge(_, _), release_internal(_, _)

release_internal(h, s) ==
    IF h.obj[s] = NoObject
    THEN [h EXCEPT !.color[s] = "Black", !.roots = @ \ {s}]
    ELSE FoldLeft(LAMBDA g, child : release_edge(g, child),
                  Vacate(h, s), Children(h.obj[s]))

release_edge(h, v) ==
    IF v = Null \/ ~Live(h, v) THEN h
    ELSE LET s == v.slot
             g == [h EXCEPT !.edges[s] = Less1(@)]
         IN CASE g.anchors[s] = 0 /\ g.edges[s] = 0 -> release_internal(g, s)
              [] g.anchors[s] = 0 /\ g.edges[s] > 0 -> Suspect(g, s)
              [] OTHER -> g

release_anchor(h, v) ==
    IF v = Null \/ ~Live(h, v) THEN h
    ELSE LET s == v.slot
             g == [h EXCEPT !.anchors[s] = Less1(@)]
         IN CASE g.anchors[s] = 0 /\ g.edges[s] = 0 -> release_internal(g, s)
              [] g.anchors[s] = 0 /\ g.edges[s] > 0 -> Suspect(g, s)
              [] OTHER -> g

-----------------------------------------------------------------------------
(* The cycle collector: mark_roots, scan_roots, collect_roots.  Each phase  *)
(* walks the root set in the order a hash set yields, that is in any order. *)

\* The children that trial deletion follows: same generation, live or not.
Followed(h, s) ==
    SelectSeq(Children(h.obj[s]), LAMBDA c : h.gen[c.slot] = c.gen)

RECURSIVE mark_gray(_, _)
mark_gray(h, s) ==
    IF h.color[s] = "Gray" THEN h
    ELSE FoldLeft(LAMBDA g, c : mark_gray([g EXCEPT !.edges[c.slot] = Less1(@)], c.slot),
                  [h EXCEPT !.color[s] = "Gray"], Followed(h, s))

MarkRoot(h, s) ==
    IF h.color[s] = "Purple" /\ h.anchors[s] = 0 /\ h.edges[s] > 0
    THEN LET g == mark_gray(h, s) IN [g EXCEPT !.roots = @ \cup {s}]
    ELSE LET g == [h EXCEPT !.color[s] = "Black"]
         IN IF g.anchors[s] = 0 /\ g.edges[s] = 0 THEN release_internal(g, s) ELSE g

mark_roots(h) ==
    {FoldLeft(MarkRoot, [h EXCEPT !.roots = {}], order) : order \in SetToSeqs(h.roots)}

RECURSIVE scan_black(_, _)
scan_black(h, s) ==
    FoldLeft(LAMBDA g, c :
                 LET k == [g EXCEPT !.edges[c.slot] = @ + 1]
                 IN IF k.color[c.slot] = "Black" THEN k ELSE scan_black(k, c.slot),
             [h EXCEPT !.color[s] = "Black"], Followed(h, s))

RECURSIVE scan(_, _)
scan(h, s) ==
    IF h.color[s] # "Gray" THEN h
    ELSE IF h.anchors[s] > 0 \/ h.edges[s] > 0 THEN scan_black(h, s)
    ELSE FoldLeft(LAMBDA g, c : scan(g, c.slot),
                  [h EXCEPT !.color[s] = "White"], Followed(h, s))

scan_roots(h) ==
    {FoldLeft(LAMBDA g, s : scan(g, s), h, order) : order \in SetToSeqs(h.roots)}

RECURSIVE collect_white(_, _)
collect_white(h, s) ==
    IF h.color[s] # "White" \/ h.obj[s] = NoObject THEN h
    ELSE FoldLeft(LAMBDA g, c : collect_white(g, c.slot),
                  Vacate(h, s), Followed(h, s))

CollectRoot(h, s) == collect_white([h EXCEPT !.color[s] = "Black"], s)

collect_roots(h) ==
    {FoldLeft(CollectRoot, [h EXCEPT !.roots = {}], order) : order \in SetToSeqs(h.roots)}

\* The heaps one collection can leave behind.
collect_cycles(h) ==
    IF h.roots = {} THEN {h}
    ELSE UNION {UNION {collect_roots(scanned) : scanned \in scan_roots(marked)} :
                    marked \in mark_roots(h)}

-----------------------------------------------------------------------------
(* Allocation.  The quota is reserved first; the collection, when due, runs  *)
(* before the slot is chosen, so it can hand its slots to this allocation.   *)

MayAlloc(h) == h.used < MaxObjects

\* The generation of the object placed in a slot, new or reused; and the
\* faulty variant that reuses a slot with the generation it had.
NextGeneration_Reused(g, s) == IF g.gen[s] = 0 THEN 1 ELSE g.gen[s]
NextGeneration(g, s) == g.gen[s] + 1

\* The pairs of a heap and the reference that alloc returns.
alloc(h, o) ==
    LET due == h.allocs + 1 >= h.every
        before == [h EXCEPT !.used = @ + 1,
                            !.allocs = IF due THEN 0 ELSE @ + 1]
        Place(g) ==
            LET s == IF g.free = <<>> THEN g.len + 1 ELSE Last(g.free)
            IN [heap |-> [g EXCEPT !.len = IF g.free = <<>> THEN @ + 1 ELSE @,
                                   !.free = IF @ = <<>> THEN @ ELSE Front(@),
                                   !.gen[s] = NextGeneration(g, s),
                                   !.anchors[s] = 1,
                                   !.edges[s] = 0,
                                   !.color[s] = "Black",
                                   !.obj[s] = o],
                ref |-> Ref(s, NextGeneration(g, s))]
    IN {Place(g) : g \in IF due THEN collect_cycles(before) ELSE {before}}
=============================================================================
