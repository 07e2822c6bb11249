------------------------------ MODULE Optimizer ------------------------------
(***************************************************************************)
(* The function passes of the package optimizer: jump threading and dead   *)
(* code removal, register compaction, and register reuse by liveness.  A   *)
(* function is [params, locals, temps, code]; instructions are numbered    *)
(* from 0, as in the code.                                                  *)
(***************************************************************************)
EXTENDS Instructions, Iteration, SequencesExt, FiniteSetsExt

At(code, i) == code[i + 1]
Indices(code) == 0 .. (Len(code) - 1)
RegisterCount(f) == f.params + f.locals + f.temps

jump_target(index, offset) == index + 1 + offset

(* Where control goes after an instruction.                                *)
Successors(code, i) ==
  LET ins  == At(code, i)
      next == {i + 1} \cap Indices(code)
  IN  CASE ins.op = "Jump"      -> {jump_target(i, ins.off)}
        [] ins.op \in Branches  -> {jump_target(i, ins.off)} \cup next
        [] ins.op \in Returns   -> {}
        [] OTHER                -> next

RECURSIVE ReachableFrom(_, _, _)
ReachableFrom(code, pending, seen) ==
  LET new == pending \ seen
  IN  IF new = {} THEN seen
      ELSE ReachableFrom(code, UNION {Successors(code, i) : i \in new}, seen \cup new)

Reachable(code) == ReachableFrom(code, {0} \cap Indices(code), {})

next_retained_index(index, remove) == Min((index .. (index + Cardinality(remove))) \ remove)

(* Follow a chain of unconditional jumps; a target met twice ends it.      *)
RECURSIVE FollowJumps(_, _, _, _)
FollowJumps(code, remove, target, visited) ==
  IF target \notin Indices(code) \/ target \in visited THEN target
  ELSE LET kept == next_retained_index(target, remove)
           next == jump_target(kept, At(code, kept).off)
       IN  IF kept \notin Indices(code) THEN kept
           ELSE IF At(code, kept).op # "Jump" \/ next = kept THEN kept
           ELSE FollowJumps(code, remove, next, visited \cup {target})

resolve_jump_target(code, remove, target) == FollowJumps(code, remove, target, {})

(* The instructions removed before any jump is reconsidered.               *)
FirstRemoved(code) ==
  LET reachable == Reachable(code)
  IN  {i \in Indices(code) :
     \/ i \notin reachable
     \/ At(code, i).op = "Move" /\ At(code, i).args[1] = At(code, i).args[2]
     \/ At(code, i).op = "Jump" /\ At(code, i).off = 0}

(* One pass over the jumps, in order, each seeing the removals before it.  *)
RemovalPass(code, remove) ==
  Fold(LAMBDA gone, n :
      LET i == n - 1
      IN  IF /\ i \notin gone
             /\ At(code, i).op = "Jump"
             /\ resolve_jump_target(code, gone, jump_target(i, At(code, i).off))
                  = next_retained_index(i + 1, gone)
          THEN gone \cup {i} ELSE gone,
    remove, [n \in 1 .. Len(code) |-> n])

RECURSIVE Removals(_, _)
Removals(code, remove) ==
  LET next == RemovalPass(code, remove)
  IN  IF next = remove THEN remove ELSE Removals(code, next)

NewIndex(remove, i) == Cardinality((0 .. (i - 1)) \ remove)

(* canonicalise: the retained instructions with their jumps retargeted.    *)
(* A jump whose final target is itself removed is the expect() that fails. *)
Canonical(code) ==
  LET remove == Removals(code, FirstRemoved(code))
      kept   == SelectSeq([n \in 1 .. Len(code) |-> n - 1], LAMBDA i : i \notin remove)
      target(i) == resolve_jump_target(code, remove, jump_target(i, At(code, i).off))
  IN  IF \E i \in Indices(code) \ remove : At(code, i).op \in Jumps /\ target(i) \in remove
      THEN [panics |-> TRUE, code |-> <<>>]
      ELSE [panics |-> FALSE,
            code |-> [n \in DOMAIN kept |->
              LET i == kept[n]
              IN  IF At(code, i).op \in Jumps
                  THEN [At(code, i) EXCEPT !.off = NewIndex(remove, target(i)) - n]
                  ELSE At(code, i)]]

(* compact_registers: close the gaps between the registers in use; the     *)
(* parameters keep their places.                                            *)
compact_registers(f) ==
  LET used     == (0 .. (f.params - 1)) \cup UNION {Registers(f.code[n]) : n \in DOMAIN f.code}
      localEnd == f.params + f.locals
      remap    == [r \in used |-> Cardinality({s \in used : s < r})]
  IN  [f EXCEPT !.locals = Cardinality(used \cap (f.params .. (localEnd - 1))),
                !.temps  = Cardinality(used \cap (localEnd .. (RegisterCount(f) - 1))),
                !.code   = [n \in DOMAIN @ |-> Renamed(@[n], remap)]]

-----------------------------------------------------------------------------
(***************************************************************************)
(* Liveness and register reuse in the package optimizer: the blocks of a   *)
(* function, the registers live in them, one interval per register, and    *)
(* the allocator that gives registers with disjoint intervals one slot and *)
(* keeps every operand window contiguous.                                   *)
(***************************************************************************)

(* build_cfg: a block is named by the index of its first instruction.      *)
Leaders(code) ==
  {i \in Indices(code) :
     \/ i = 0
     \/ i > 0 /\ At(code, i - 1).op \in Jumps \cup Returns
     \/ \E j \in Indices(code) : At(code, j).op \in Jumps /\ jump_target(j, At(code, j).off) = i}

CodeBlock(code, leaders, end) == [end |-> end, next |-> Successors(code, end - 1) \cap leaders]
CodeBlocks(code, leaders) == [b \in leaders |-> CodeBlock(code, leaders, Min({l \in leaders : l > b} \cup {Len(code)}))]
build_cfg(code) == Evaluated(CodeBlocks(code, Leaders(code)))

LiveBefore_DefsLast(i, live) == (live \cup Uses(i)) \ Defs(i)
LiveBefore(i, live) == (live \ Defs(i)) \cup Uses(i)

(* What is live before instruction i of block b, given what is live after b. *)
LiveAt(code, end, i, liveOut) ==
  Fold(LAMBDA live, n : LiveBefore(At(code, end - n), live), liveOut, [n \in 1 .. (end - i) |-> n])

LiveOut(cfg, b, liveIn) == UNION {liveIn[s] : s \in cfg[b].next}

(* compute_liveness: iterate to the least solution.                        *)
RECURSIVE LiveIn(_, _, _)
LiveIn(code, cfg, liveIn) ==
  LET next == [b \in DOMAIN cfg |-> LiveAt(code, cfg[b].end, b, LiveOut(cfg, b, liveIn))]
  IN  IF Evaluated(next) = liveIn THEN liveIn ELSE LiveIn(code, cfg, next)

compute_liveness(code, cfg) == LiveIn(code, cfg, [b \in DOMAIN cfg |-> {}])

(* compute_intervals: from the first to the last instruction that touches  *)
(* the register or that it is live at.  <<>> when there is none.           *)
compute_intervals(code, cfg, registers) ==
  LET liveIn == compute_liveness(code, cfg)
      touched(b) ==
        LET end == cfg[b].end
            out == LiveOut(cfg, b, liveIn)
        IN  {<<r, end - 1>> : r \in out}
            \cup UNION {{<<r, i>> : r \in Defs(At(code, i)) \cup LiveAt(code, end, i, out)} :
                        i \in b .. (end - 1)}
      all == UNION {touched(b) : b \in DOMAIN cfg}
  IN  [r \in registers |->
         LET at == {p[2] : p \in {q \in all : q[1] = r}}
         IN  IF at = {} THEN <<>> ELSE <<Min(at), Max(at)>>]

(* WeightedUnionFind: every register with its root and its distance to it.  *)
Singletons(registers) == [ok |-> TRUE, at |-> [r \in registers |-> <<r, 0>>]]
union(uf, left, right, distance) ==
  LET l == uf.at[left]
      r == uf.at[right]
  IN  IF l[1] = r[1] THEN [uf EXCEPT !.ok = @ /\ r[2] = l[2] + distance]
      ELSE [uf EXCEPT !.at = [x \in DOMAIN @ |->
             IF @[x][1] = r[1] THEN <<l[1], @[x][2] + l[2] + distance - r[2]>> ELSE @[x]]]

(* Windows become distances between the registers of the window.           *)
Constraints(f) ==
  Fold(LAMBDA uf, i :
      FoldLeft(LAMBDA u, n : IF u.ok THEN union(u, i.start, i.start + n, n) ELSE u,
               uf, [n \in 1 .. (WindowSize(i) - 1) |-> n]),
    Singletons(0 .. (RegisterCount(f) - 1)), f.code)

(* One request per group: its members with their offsets, its width, and   *)
(* the base its parameters force on it (-1: none; -2: they disagree).      *)
Request(f, at, intervals, root) ==
  LET regs   == {r \in DOMAIN at : at[r][1] = root}
      lowest == Min({at[r][2] : r \in regs})
      offset == [r \in regs |-> at[r][2] - lowest]
      bases  == {r - offset[r] : r \in {x \in regs : x < f.params}}
      base   == IF bases = {} THEN -1 ELSE Min(bases)
      starts == {intervals[r][1] : r \in {x \in regs : intervals[x] # <<>>}}
  IN  [offset |-> offset,
       width  |-> Max({offset[r] + 1 : r \in regs}),
       base   |-> base,
       start  |-> IF starts = {} THEN Len(f.code) ELSE Min(starts),
       root   |-> root,
       ok     |-> /\ \A r, s \in regs : offset[r] = offset[s] => r = s
                  /\ bases # {} => Cardinality(bases) = 1 /\ base >= 0
                  /\ \A r \in regs : r >= f.params /\ base >= 0 => base + offset[r] >= f.params]

Before(a, b) ==
  LET key(q) == <<IF q.base = -1 THEN 1 ELSE 0, q.start, q.root>>
      x == key(a)
      y == key(b)
  IN  \/ x[1] < y[1]
      \/ x[1] = y[1] /\ x[2] < y[2]
      \/ x[1] = y[1] /\ x[2] = y[2] /\ x[3] < y[3]

Disjoint(i, j) == i[2] < j[1] \/ j[2] < i[1]

fits(request, base, occupancy, intervals) ==
  \A r \in DOMAIN request.offset :
    intervals[r] # <<>> =>
      \A i \in occupancy[base + request.offset[r]] : Disjoint(i, intervals[r])

(* Place one request: at its forced base, or at the lowest base that fits. *)
Place(f, intervals, state, request) ==
  LET total == RegisterCount(f)
      ways  == {b \in (IF request.base >= 0 THEN {request.base} ELSE f.params .. total) :
                  b + request.width <= total /\ fits(request, b, state.occupancy, intervals)}
      base  == Min(ways)
      here(p) == {r \in DOMAIN request.offset : base + request.offset[r] = p /\ intervals[r] # <<>>}
  IN  IF ~state.ok \/ ways = {} THEN [state EXCEPT !.ok = FALSE]
      ELSE [ok |-> TRUE,
            occupancy |-> [p \in DOMAIN state.occupancy |->
                             state.occupancy[p] \cup {intervals[r] : r \in here(p)}],
            remap |-> [r \in DOMAIN state.remap |->
                         IF r \in DOMAIN request.offset THEN base + request.offset[r]
                         ELSE state.remap[r]]]

(* allocate_registers: the function with its registers renamed, or the     *)
(* function as it was when some constraint cannot be met.                  *)
allocate_registers(f, intervals) ==
  LET registers == 0 .. (RegisterCount(f) - 1)
      uf        == Evaluated(Constraints(f))
      roots     == SelectSeq([n \in 1 .. RegisterCount(f) |-> n - 1], LAMBDA r : uf.at[r][1] = r)
      requests  == Evaluated([n \in DOMAIN roots |-> Request(f, uf.at, intervals, roots[n])])
      placed    == Fold(LAMBDA s, q : Place(f, intervals, s, q),
                     [ok |-> TRUE, occupancy |-> [p \in 0 .. (2 * RegisterCount(f)) |-> {}],
                      remap |-> [r \in registers |-> r]],
                     SortSeq(requests, Before))
      total     == Max({placed.remap[r] + 1 : r \in registers} \cup {f.params})
  IN  IF ~uf.ok \/ (\E n \in DOMAIN requests : ~requests[n].ok) \/ ~placed.ok THEN f
      ELSE [f EXCEPT !.code = [n \in DOMAIN @ |-> Renamed(@[n], placed.remap)],
                     !.locals = total - f.params, !.temps = 0]

supports_liveness_allocation(code) ==
  \A n \in DOMAIN code :
    code[n].op \notin {"AllocLocal", "LoadField", "StoreField", "NewArray", "LoadIndex",
      "StoreIndex", "NewChoice", "Copy", "Instanceof", "Call", "TailCall", "CallMethod",
      "CallDynamic", "AwaitFuture", "CreateFuture", "CreateAwaitFuture", "CallInternalThread",
      "CreateIndirectFuture", "AwaitAll", "AwaitRace", "Len", "CopyArray"}

(* optimize_function: all the passes, in their order.                      *)
Allocated(f) ==
  IF ~supports_liveness_allocation(f.code) THEN f
  ELSE LET g == allocate_registers(f, Evaluated(compute_intervals(f.code, build_cfg(f.code), 0 .. (RegisterCount(f) - 1))))
       IN  IF g = f THEN f ELSE compact_registers(g)
optimize_function(f) ==
  LET c == Canonical(f.code)
  IN  [panics |-> c.panics,
       f |-> IF c.panics THEN f ELSE Allocated(Evaluated(compact_registers([f EXCEPT !.code = c.code])))]
=============================================================================
