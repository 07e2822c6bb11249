------------------------------- MODULE VmThread -------------------------------
(***************************************************************************)
(* The ownership bookkeeping of one VM thread: the flat register file and  *)
(* the call frames (galfus-vm/src/thread.rs), and the instructions that    *)
(* move object references between registers, globals and heap objects      *)
(* (runtime.rs, runtime/data.rs, objects.rs, control.rs, system.rs), over  *)
(* the heap of PrivateHeap.                                                *)
(*                                                                         *)
(* Programs are arbitrary: each step executes one instruction of the set   *)
(* of its mode with any operands the code generator could give it, which  *)
(* reads only registers the current function has written.                  *)
(***************************************************************************)
EXTENDS PrivateHeap, TLC

CONSTANTS Modes,          \* [instructions, every, depth]: the instructions of a
                          \* program, when it collects, limits.max_call_depth
          FrameSize,      \* registers of a function
          MaxDepth,       \* the largest of these depths
          MaxGen,         \* bound: reuses of one slot
          MaxCount        \* bound: anchors or edges of one object

ASSUME ThreadAssumption ==
    /\ FrameSize \in Nat \ {0}
    /\ MaxDepth \in Nat \ {0} /\ \A m \in Modes : m.depth \in 1 .. MaxDepth
    /\ MaxGen \in Nat \ {0}
    /\ MaxCount \in Nat \ {0}

VARIABLES mode,           \* the mode of this thread
          heap,           \* PrivateHeap
          registers,      \* VmThreadState.registers, addressed from each frame's base
          frames,         \* call_stack: the saved has_objects flag and return_dest
          hasObjects,     \* current_frame_has_objects
          global,         \* one module global
          written,        \* per frame, the registers the function has assigned
          handles         \* adapter handles made and not yet handed to the runtime

vmVars == <<mode, heap, registers, frames, hasObjects, global, written, handles>>

RegisterFile == 1 .. (FrameSize * MaxDepth)
Regs == 1 .. FrameSize

Base == FrameSize * (Len(frames) - 1)
At(r) == Base + r
Read(r) == registers[At(r)]
FrameRegisters == {At(r) : r \in Regs}

WrittenHere == written[Len(written)]

VmInit ==
    /\ mode \in Modes
    /\ heap = EmptyHeap(mode.every)
    /\ registers = [i \in RegisterFile |-> Null]
    /\ frames = <<[saved |-> FALSE, dest |-> 0]>>
    /\ hasObjects = FALSE
    /\ global = Null
    /\ written = <<{}>>
    /\ handles = 0

Running == frames # <<>>

-----------------------------------------------------------------------------
(* write_reg: replace the register, then release what it held; made counts  *)
(* the adapter handles the instruction created.                             *)

WriteRegMaking(h, r, v, made) ==
    /\ heap' = release_anchor(h, Read(r))
    /\ registers' = [registers EXCEPT ![At(r)] = v]
    /\ hasObjects' = (hasObjects \/ v # Null)
    /\ written' = [written EXCEPT ![Len(written)] = @ \cup {r}]
    /\ handles' = handles + made
    /\ UNCHANGED <<frames, global>>

WriteReg(h, r, v) == WriteRegMaking(h, r, v, 0)

(* AllocLocal, NewArray, LoadConst of a string: a fresh object. *)
AllocLocal(dest) ==
    /\ MayAlloc(heap)
    /\ \E res \in alloc(heap, Struct([f \in 1 .. Fields |-> Null])) :
           WriteReg(res.heap, dest, res.ref)

(* NewTuple, NewChoice: the fields own what they are given. *)
NewTuple(dest, src) ==
    /\ MayAlloc(heap)
    /\ \E res \in alloc(retain_edge(heap, Read(src)),
                        Struct([f \in 1 .. Fields |-> IF f = 1 THEN Read(src) ELSE Null])) :
           WriteReg(res.heap, dest, res.ref)

(* An adapter proxy's result: a handle placed in a register by resume. *)
NewHandle(dest) ==
    /\ MayAlloc(heap)
    /\ \E res \in alloc(heap, AdapterHandle) : WriteRegMaking(res.heap, dest, res.ref, 1)

\* Faulty variant: the copied reference is not counted.
Move_Unretained(dest, src) == WriteReg(heap, dest, Read(src))
Move(dest, src) == WriteReg(retain_anchor(heap, Read(src)), dest, Read(src))

(* LoadNull, and every instruction with a primitive result; Drop. *)
LoadNull(dest) == WriteReg(heap, dest, Null)

(* LoadField and LoadIndex, Cast and the iterator methods write the value   *)
(* they read into the register as it is.                                    *)
LoadField(dest, src, f) ==
    /\ Read(src) # Null
    /\ Live(heap, Read(src))
    /\ heap.obj[Read(src).slot].kind = "struct"
    /\ WriteReg(heap, dest, heap.obj[Read(src).slot].fields[f])

\* Faulty variant: the field does not own what it is given.
StoreField_Unretained(dst, f, src) ==
    /\ Read(dst) # Null
    /\ Live(heap, Read(dst))
    /\ heap.obj[Read(dst).slot].kind = "struct"
    /\ LET s == Read(dst).slot
       IN heap' = release_edge([heap EXCEPT !.obj[s].fields[f] = Read(src)],
                               heap.obj[s].fields[f])
    /\ UNCHANGED <<registers, frames, hasObjects, global, written, handles>>

(* StoreField and StoreIndex. *)
StoreField(dst, f, src) ==
    /\ Read(dst) # Null
    /\ Live(heap, Read(dst))
    /\ heap.obj[Read(dst).slot].kind = "struct"
    /\ LET s == Read(dst).slot
           old == heap.obj[s].fields[f]
           stored == [retain_edge(heap, Read(src)) EXCEPT !.obj[s].fields[f] = Read(src)]
       IN heap' = release_edge(stored, old)
    /\ UNCHANGED <<registers, frames, hasObjects, global, written, handles>>

(* CopyArray: the elements are cloned into the destination array. *)
CopyArray(dst, src) ==
    /\ Read(dst) # Null /\ Read(src) # Null
    /\ Live(heap, Read(dst)) /\ Live(heap, Read(src))
    /\ heap.obj[Read(dst).slot].kind = "struct"
    /\ heap.obj[Read(src).slot].kind = "struct"
    /\ heap' = [heap EXCEPT !.obj[Read(dst).slot].fields = heap.obj[Read(src).slot].fields]
    /\ UNCHANGED <<registers, frames, hasObjects, global, written, handles>>

LoadGlobal(dest) == WriteReg(retain_anchor(heap, global), dest, global)

StoreGlobal(src) ==
    /\ heap' = release_anchor(retain_anchor(heap, Read(src)), global)
    /\ global' = Read(src)
    /\ UNCHANGED <<registers, frames, hasObjects, written, handles>>

-----------------------------------------------------------------------------
(* Copy: the strong closure of the source is discovered, a placeholder is   *)
(* allocated for each of its objects, and the placeholders are filled.      *)

RECURSIVE discover_strong_copy_closure(_, _)
discover_strong_copy_closure(h, seen) ==
    LET next == seen \cup UNION {ToSet(Children(h.obj[r.slot])) : r \in seen}
    IN IF next = seen THEN seen ELSE discover_strong_copy_closure(h, next)

RECURSIVE allocate_copy_placeholders(_, _, _)
allocate_copy_placeholders(h, order, copied) ==
    IF order = <<>> THEN {[heap |-> h, copied |-> copied]}
    ELSE LET r == Head(order)
             o == h.obj[r.slot]
             blank == [o EXCEPT !.fields = [f \in DOMAIN o.fields |-> Null]]
         IN IF ~Live(h, r) THEN {} ELSE
            UNION {allocate_copy_placeholders(res.heap, Tail(order), copied @@ (r :> res.ref)) :
                       res \in alloc(h, blank)}

fill_copy_placeholders(h, copied) ==
    LET Source(s) == CHOOSE r \in DOMAIN copied : copied[r].slot = s
        Targets == {copied[r].slot : r \in DOMAIN copied}
        Copied(o) == [o EXCEPT !.fields =
                          [f \in DOMAIN o.fields |->
                               IF o.fields[f] = Null THEN Null ELSE copied[o.fields[f]]]]
    IN [h EXCEPT !.obj = [s \in Slots |-> IF s \in Targets
                                          THEN Copied(h.obj[Source(s).slot])
                                          ELSE h.obj[s]]]

Copy(dest, src) ==
    /\ Read(src) # Null
    /\ Live(heap, Read(src))
    /\ LET closure == discover_strong_copy_closure(heap, {Read(src)})
       IN /\ \A r \in closure : Live(heap, r)
          /\ heap.used + Cardinality(closure) <= MaxObjects
          /\ \E order \in SetToSeqs(closure) :
                 \E res \in allocate_copy_placeholders(heap, order, <<>>) :
                     WriteRegMaking(fill_copy_placeholders(res.heap, res.copied),
                                    dest, res.copied[Read(src)],
                                    Cardinality({r \in closure : heap.obj[r.slot].kind = "handle"}))

-----------------------------------------------------------------------------
(* Calls.  Registers above the arguments keep what an earlier frame at the  *)
(* same base left in them.                                                  *)

PushFrame(saved, dest, arg) ==
    /\ Len(frames) < mode.depth
    /\ frames' = Append(frames, [saved |-> saved, dest |-> dest])
    /\ hasObjects' = (arg # Null)
    /\ heap' = retain_anchor(heap, arg)
    /\ registers' = [registers EXCEPT ![Base + FrameSize + 1] = arg]
    /\ written' = Append(written, {1})
    /\ UNCHANGED <<global, handles>>

(* The interpreter loop's path for a function of the same module. *)
Call(dest, src) == PushFrame(FALSE, dest, Read(src))

(* push_frame and setup_args_from_caller: imports, methods, dynamic calls. *)
CallImport(dest, src) == PushFrame(hasObjects, dest, Read(src))

\* Release the objects of the given registers, in register order.
ReleaseFrame(h) ==
    FoldLeft(LAMBDA g, r : release_anchor(g, Read(r)), h, [r \in Regs |-> r])
ClearFrame == [i \in RegisterFile |-> IF i \in FrameRegisters THEN Null ELSE registers[i]]

(* TailCall reuses the frame: read the arguments, empty the frame, place them. *)
TailCall(src) ==
    LET arg == Read(src)
        emptied == IF hasObjects THEN ReleaseFrame(heap) ELSE heap
    IN /\ heap' = retain_anchor(emptied, arg)
       /\ registers' = [ClearFrame EXCEPT ![At(1)] = arg]
       /\ hasObjects' = (arg # Null)
       /\ frames' = [frames EXCEPT ![Len(frames)].saved = (arg # Null)]
       /\ written' = [written EXCEPT ![Len(written)] = {1}]
       /\ UNCHANGED <<global, handles>>

(* Ret and RetNull: v is the returned value, already retained in h. *)
PopFrame(h, v) ==
    LET completed == Last(frames)
        released == IF hasObjects THEN ReleaseFrame(h) ELSE h
        cleared == IF hasObjects THEN ClearFrame ELSE registers
        target == Base - FrameSize + completed.dest
    IN /\ frames' = Front(frames)
       /\ IF Len(frames) = 1
          THEN /\ heap' = released
               /\ registers' = cleared
               /\ hasObjects' = completed.saved
               /\ written' = <<>>
          ELSE /\ heap' = release_anchor(released, cleared[target])
               /\ registers' = [cleared EXCEPT ![target] = v]
               /\ hasObjects' = (completed.saved \/ v # Null)
               /\ written' = [Front(written) EXCEPT ![Len(frames) - 1] = @ \cup {completed.dest}]
       /\ UNCHANGED <<global, handles>>

Ret(src) == PopFrame(retain_anchor(heap, Read(src)), Read(src))
RetNull == PopFrame(heap, Null)

(* prepare_function: the next module initialiser, or the entry function, is *)
(* started on the thread whose previous function returned.                  *)
PrepareFunction ==
    /\ frames = <<>>
    /\ frames' = <<[saved |-> hasObjects, dest |-> 0]>>
    /\ registers' = [i \in RegisterFile |-> Null]
    /\ hasObjects' = FALSE
    /\ written' = <<{}>>
    /\ UNCHANGED <<heap, global, handles>>

(* execute_with_budget hands one queued adapter handle drop to the runtime. *)
AdapterHandleDropped ==
    /\ heap.drops > 0
    /\ heap' = [heap EXCEPT !.drops = @ - 1]
    /\ handles' = handles - 1
    /\ UNCHANGED <<registers, frames, hasObjects, global, written>>

-----------------------------------------------------------------------------
Uses(i) == Running /\ i \in mode.instructions
Allocates(i) == Uses(i) /\ \A s \in Slots : heap.gen[s] < MaxGen
Retains(i) ==
    Uses(i) /\ \A s \in Slots : heap.anchors[s] < MaxCount /\ heap.edges[s] < MaxCount

Step ==
    \/ PrepareFunction
    \/ AdapterHandleDropped
    \/ Uses("RetNull") /\ RetNull
    \/ \E dest \in Regs :
          \/ Uses("LoadNull") /\ LoadNull(dest)
          \/ Retains("LoadGlobal") /\ LoadGlobal(dest)
          \/ Allocates("AllocLocal") /\ AllocLocal(dest)
          \/ Allocates("NewHandle") /\ NewHandle(dest)
    \/ Running /\ \E src \in WrittenHere :
          \/ Retains("StoreGlobal") /\ StoreGlobal(src)
          \/ Retains("TailCall") /\ TailCall(src)
          \/ Retains("Ret") /\ Ret(src)
          \/ \E dst \in WrittenHere :
                \/ Uses("CopyArray") /\ CopyArray(dst, src)
                \/ Retains("StoreField") /\ \E f \in 1 .. Fields : StoreField(dst, f, src)
          \/ \E dest \in Regs :
                \/ Retains("Move") /\ Move(dest, src)
                \/ Allocates("NewTuple") /\ Retains("NewTuple") /\ NewTuple(dest, src)
                \/ Allocates("Copy") /\ Copy(dest, src)
                \/ Retains("Call") /\ Call(dest, src)
                \/ Retains("CallImport") /\ CallImport(dest, src)
                \/ Uses("LoadField") /\ \E f \in 1 .. Fields : LoadField(dest, src, f)

VmNext == Step /\ UNCHANGED mode

VmSpec == VmInit /\ [][VmNext]_vmVars

-----------------------------------------------------------------------------
\* Holders of a reference outside the heap and inside it.
AnchorHolders(r) ==
    Cardinality({i \in RegisterFile : registers[i] = r}) + (IF global = r THEN 1 ELSE 0)
EdgeHolders(r) ==
    Cardinality({<<s, f>> \in Occupied(heap) \X (1 .. Fields) :
                    heap.obj[s].kind = "struct" /\ heap.obj[s].fields[f] = r})

\* References the program can use: written registers of its frames, the global.
Anchored ==
    ({registers[FrameSize * (d - 1) + r] :
         <<d, r>> \in {p \in (DOMAIN frames) \X Regs : p[2] \in written[p[1]]}}
     \cup {global}) \ {Null}

RECURSIVE ReachFrom(_)
ReachFrom(S) ==
    LET more == S \cup UNION {ToSet(Children(heap.obj[r.slot])) : r \in {q \in S : Live(heap, q)}}
    IN IF more = S THEN S ELSE ReachFrom(more)

\* The instructions whose counting is balanced; the others place references
\* without counting them (LoadField, CopyArray, Copy, TailCall).
Counting == {"RetNull", "LoadNull", "LoadGlobal", "AllocLocal", "StoreGlobal", "Ret",
             "StoreField", "Move", "NewTuple", "NewHandle", "Call", "CallImport"}

\* In a program of counting instructions a value lives while it is reachable from an anchor through owning edges:
\* no register the program wrote, no global and no field reachable from them
\* refers to an object the heap has freed.
AnchoredValueLives ==
    mode.instructions \subseteq Counting => \A r \in ReachFrom(Anchored) : Live(heap, r)

\* In such a program the counters never undercount: every register (of a returned frame too, for
\* it is released when it is overwritten) and every global that refers to a
\* live object is covered by one of its anchors, every field by an edge.
CountsCoverHolders ==
    mode.instructions \subseteq Counting =>
    \A s \in Occupied(heap) :
        LET r == Ref(s, heap.gen[s])
        IN heap.anchors[s] >= AnchorHolders(r) /\ heap.edges[s] >= EdgeHolders(r)

\* Slots, free list and quota agree: whatever was released, in whatever order
\* and by the collector or not, each vacant slot is on the free list exactly
\* once and the thread's quota counts exactly the occupied ones; an adapter
\* handle whose object was freed is queued for the runtime exactly once.
HeapAccounting ==
    /\ ToSet(heap.free) = (1 .. heap.len) \ Occupied(heap)
    /\ Len(heap.free) = Cardinality(ToSet(heap.free))
    /\ heap.used = Cardinality(Occupied(heap))
    /\ heap.roots \subseteq Occupied(heap)
    /\ handles = heap.drops + Cardinality({s \in Occupied(heap) : heap.obj[s].kind = "handle"})

\* A reference to a freed object stays dead: reusing the slot never makes an
\* old reference resolve again, so a stale register reads an error and never
\* another object.
DeadStaysDead ==
    [][\A s \in Slots :
           \/ heap'.gen[s] > heap.gen[s]
           \/ heap'.gen[s] = heap.gen[s] /\ (heap.obj[s] = NoObject => heap'.obj[s] = NoObject)]_vmVars

=============================================================================
