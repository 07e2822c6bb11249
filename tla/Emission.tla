------------------------------ MODULE Emission ------------------------------
(***************************************************************************)
(* Emission of bytecode from MIR in SSA form.  Local l lives in register l; *)
(* temporaries are a stack above the locals.  The context C holds the      *)
(* function f, the field names of the struct types (structs), the index of *)
(* each callee (index), what sort of callee it is (kinds), the variants of *)
(* the choice types, and the code location of globals by name.  The emitter *)
(* threads through:                                                         *)
(*   code, temp, max   the instructions, the temporaries now and at most   *)
(*   imm               known_immediates: what a register surely holds      *)
(*   pcs, labels       the place of each label, and the next label          *)
(*   futures           the registers a CreateFuture just wrote, with the   *)
(*                     sort of its callee                                   *)
(*   consts, types     the constants and types of the module so far        *)
(* Until it is patched, off of a jump is the label it goes to.             *)
(***************************************************************************)
EXTENDS MirPasses, Instructions

Push(e, i) == [e EXCEPT !.code = Append(@, i)]
Base(C) == Len(C.f.locals)

alloc_temp(C, e) ==
  <<[e EXCEPT !.temp = @ + 1, !.max = IF e.temp + 1 > @ THEN e.temp + 1 ELSE @], Base(C) + e.temp>>
free_temps(e, n) == [e EXCEPT !.temp = IF @ > n THEN @ - n ELSE 0]

(* The pool is keyed by the raw value; what it holds is normalized.        *)
get_or_create_constant(e, c) ==
  IF c \in ToSet(e.consts) THEN <<e, CHOOSE n \in DOMAIN e.consts : e.consts[n] = c>>
  ELSE <<[e EXCEPT !.consts = Append(@, c)], Len(e.consts) + 1>>
PoolValue(c) == IF c[1] \in FloatTypes THEN Value(c[1], normalize(c[2])) ELSE c
lower_type(e, ty) ==
  IF ty \in ToSet(e.types) THEN <<e, CHOOSE n \in DOMAIN e.types : e.types[n] = ty>>
  ELSE <<[e EXCEPT !.types = Append(@, ty)], Len(e.types) + 1>>
TypeName(name) == <<"type", name>>
Typing(i, t) == [i EXCEPT !.ty = t - 1]

load_constant(e, c, dest) ==
  LET r == get_or_create_constant(e, c) IN Push(r[1], Ins("LoadConst", <<dest>>, 0, 0, 0, r[2] - 1))
load_operand_to(e, o, dest) ==
  IF o[1] = "local" THEN IF o[2] = dest THEN e ELSE Push(e, Plain("Move", <<dest, o[2]>>))
  ELSE IF o[2] = "null" THEN Push(e, Plain("LoadNull", <<dest>>))
  ELSE load_constant(e, <<o[2], o[3]>>, dest)
operand_reg(C, e, o) ==
  IF o[1] = "local" THEN <<e, o[2]>>
  ELSE LET t == alloc_temp(C, e) IN <<load_operand_to(t[1], o, t[2]), t[2]>>
free_temp_if_operand(e, o) == IF o[1] = "const" THEN free_temps(e, 1) ELSE e

(* Operands in registers of their own: <<emitter, registers>>.             *)
OperandRegs(C, e, os) ==
  Fold(LAMBDA acc, o : LET r == operand_reg(C, acc[1], o) IN <<r[1], Append(acc[2], r[2])>>,
           <<e, <<>>>>, os)
FreeOperands(e, os) == Fold(free_temp_if_operand, e, os)
(* One instruction over operands, the destination first if there is one.   *)
Simple(C, e, i, dest, os) ==
  LET r == OperandRegs(C, e, os) IN FreeOperands(Push(r[1], [i EXCEPT !.args = dest \o r[2]]), os)
TypedSimple(C, e, op, dest, os, ty) ==
  LET r == OperandRegs(C, e, os)
      t == lower_type(r[1], ty)
  IN  FreeOperands(Push(t[1], Typing(Plain(op, dest \o r[2]), t[2])), os)

(* Arguments in consecutive temporaries: <<emitter, first>>.               *)
call_arguments_start(C, e, os) ==
  LET room == Fold(LAMBDA acc, o : alloc_temp(C, acc)[1], e, os)
      first == Base(C) + e.temp
  IN  <<Fold(LAMBDA acc, n : load_operand_to(acc, os[n], first + n - 1), room, [n \in DOMAIN os |-> n]),
        IF os = <<>> THEN 0 ELSE first>>
Windowed(C, e, i, os) ==
  LET w == call_arguments_start(C, e, os)
  IN  free_temps(Push(w[1], [i EXCEPT !.start = w[2], !.count = Len(os)]), Len(os))

-----------------------------------------------------------------------------
(* Types and immediates *)

get_operand_type(C, o) == IF o[1] = "local" THEN C.f.locals[o[2] + 1].ty ELSE o[2]

NoImmediate == <<"none", 0>>
immediate_value(e, o) ==
  IF o[1] = "local" THEN IF o[2] \in DOMAIN e.imm THEN e.imm[o[2]] ELSE NoImmediate
  ELSE IF o[2] \in ImmediateTypes THEN <<o[2], o[3]>> ELSE NoImmediate
(* An immediate through a cast; the conversions that are not listed in the *)
(* code are left to the instruction.                                        *)
cast_immediate(v, ty) ==
  IF v[1] = ty THEN v
  ELSE IF v[1] = "i32" /\ ty \in {"i64", "u32", "u64"} \cap IntTypes THEN Value(ty, Wrap(ty, v[2]))
  ELSE IF v[1] = "i32" /\ ty \in FloatTypes THEN Value(ty, Round(ty, v[2]))
  ELSE IF v[1] \in FloatTypes /\ ty \in FloatTypes THEN Value(ty, FloatTo(ty, v[2]))
  ELSE NoImmediate
Remember(e, dest, v) == IF v = NoImmediate THEN e ELSE [e EXCEPT !.imm = (dest :> v) @@ @]
Forget(e, dest) == [e EXCEPT !.imm = [r \in DOMAIN @ \ {dest} |-> @[r]]]

constant_matches_destination_type(C, o, dest) == C.f.locals[dest + 1].ty = o[2]
emit_use(C, e, dest, o) ==
  LET loaded == Remember(load_operand_to(e, o, dest), dest, immediate_value(e, o))
      t == lower_type(loaded, TypeName(C.f.locals[dest + 1].ty))
  IN  IF o[1] = "const" /\ o[2] \in NumericTypes /\ ~constant_matches_destination_type(C, o, dest)
      THEN Push(t[1], Typing(Plain("Cast", <<dest, dest>>), t[2])) ELSE loaded
emit_cast(C, e, dest, o, ty) ==
  LET v == immediate_value(e, o)
  IN  Remember(TypedSimple(C, e, "Cast", <<dest>>, <<o>>, TypeName(ty)), dest,
               IF v = NoImmediate THEN v ELSE cast_immediate(v, ty))

emit_unary(C, e, dest, op, o) == Simple(C, e, Ins("Neg", <<>>, 0, 0, 0, op), <<dest>>, <<o>>)
emit_copy(C, e, dest, o) == Simple(C, e, Plain("Copy", <<>>), <<dest>>, <<o>>)
emit_instanceof(C, e, dest, o, ty) == TypedSimple(C, e, "Instanceof", <<dest>>, <<o>>, TypeName(ty))
lower_choice_variant_type(variant) == <<"variant", variant>>
emit_choice_variant_is(C, e, dest, o, variant) ==
  TypedSimple(C, e, "Instanceof", <<dest>>, <<o>>, lower_choice_variant_type(variant))
emit_imported_choice_variant_is(C, e, dest, o, variant) ==
  TypedSimple(C, e, "Instanceof", <<dest>>, <<o>>, lower_choice_variant_type(variant))
emit_load_global(C, e, dest, name) == Push(e, Ins("LoadGlobal", <<dest>>, 0, 0, 0, C.globals[name]))

-----------------------------------------------------------------------------
(* A binary operation: with an immediate, typed, or generic; operands of   *)
(* different numeric types are brought to one type first.                  *)
CastInto(C, e, reg, ty) ==
  LET t == alloc_temp(C, e)
      idx == lower_type(t[1], TypeName(ty))
  IN  <<Push(idx[1], Typing(Plain("Cast", <<t[2], reg>>), idx[2])), t[2]>>
BinaryInstruction(op, l, r, dest, x, y) ==
  IF op = "NullFallback" THEN Plain("Fallback", <<dest, x, y>>)
  ELSE IF l = r /\ l \in TypedTypes /\ op \in TypedOps THEN Ins("AddI32", <<dest, x, y>>, 0, 0, 0, <<op, l>>)
  ELSE Ins("Add", <<dest, x, y>>, 0, 0, 0, op)
emit_binary(C, e, dest, op, lhs, rhs) ==
  LET l == get_operand_type(C, lhs)
      r == get_operand_type(C, rhs)
      imm == IF l = r /\ op \in ImmediateOps THEN immediate_value(e, rhs) ELSE NoImmediate
      x == operand_reg(C, e, lhs)
      y == operand_reg(C, x[1], rhs)
      differ == l # r /\ {l, r} \subseteq NumericTypes
      left == differ /\ rhs[1] = "local" /\ lhs[1] = "const"
      c == IF left THEN CastInto(C, y[1], x[2], r) ELSE CastInto(C, y[1], y[2], l)
      i == CASE ~differ -> BinaryInstruction(op, l, r, dest, x[2], y[2])
             [] left    -> BinaryInstruction(op, l, r, dest, c[2], y[2])
             [] OTHER   -> BinaryInstruction(op, l, r, dest, x[2], c[2])
      done == IF differ THEN free_temps(Push(c[1], i), 1) ELSE Push(y[1], i)
  IN  IF imm # NoImmediate
      THEN free_temp_if_operand(Push(x[1], Ins("BinaryImmediate", <<dest, x[2]>>, 0, 0, 0, <<op, imm>>)), lhs)
      ELSE free_temp_if_operand(free_temp_if_operand(done, rhs), lhs)

-----------------------------------------------------------------------------
(* Allocations and accesses *)

(* Without the type of the object, a field index all layouts agree on.     *)
field_idx_for_member(C, o, name) ==
  LET ty == get_operand_type(C, o)
      at(s) == {n \in DOMAIN C.structs[s] : C.structs[s][n] = name}
      all == {Min(at(s)) - 1 : s \in {x \in DOMAIN C.structs : at(x) # {}}}
  IN  CASE ty \in C.tuples -> name
        [] ty \in DOMAIN C.structs -> IF at(ty) = {} THEN 0 ELSE Min(at(ty)) - 1
        [] ty \in DOMAIN C.variants -> 0
        [] OTHER -> IF Cardinality(all) = 1 THEN CHOOSE i \in all : TRUE ELSE 0

emit_new_struct(C, e, dest, ty, os) ==
  LET t == lower_type(e, TypeName(ty))
  IN  Fold(LAMBDA acc, n : Simple(C, acc, Ins("StoreField", <<>>, 0, 0, 0, n - 1), <<dest>>, <<os[n]>>),
               Push(t[1], Typing(Plain("AllocLocal", <<dest>>), t[2])), [n \in DOMAIN os |-> n])

LoadInt(C, e, n) == operand_reg(C, e, Const("i32", n))
emit_new_array(C, e, dest, ty, os) ==
  LET t == lower_type(e, TypeName(ty))
      size == LoadInt(C, t[1], Len(os))
      new == free_temps(Push(size[1], Typing(Plain("NewArray", <<dest, size[2]>>), t[2])), 1)
      store(acc, n) ==
        LET at == LoadInt(C, acc, n - 1)
        IN  free_temps(Simple(C, at[1], Plain("StoreIndex", <<>>), <<dest, at[2]>>, <<os[n]>>), 1)
  IN  Fold(store, new, [n \in DOMAIN os |-> n])

emit_new_array_zeroed_dynamic(C, e, dest, ty, o) == TypedSimple(C, e, "NewArray", <<dest>>, <<o>>, TypeName(ty))

(* Elements and spread arrays: the total length first, then the copies at  *)
(* a running offset.  The generic Add serves both.                          *)
Advance(C, e, reg, spread, src) ==
  LET t == alloc_temp(C, e)
      step == IF spread THEN Push(t[1], Plain("Len", <<t[2], src>>)) ELSE load_constant(t[1], <<"i32", 1>>, t[2])
  IN  free_temps(Push(step, Ins("Add", <<reg, reg, t[2]>>, 0, 0, 0, "Add")), 1)
emit_new_array_dynamic(C, e, dest, ty, os, spread) ==
  LET t == lower_type(e, TypeName(ty))
      total == LoadInt(C, t[1], 0)
      count(acc, n) ==
        IF ~spread[n] THEN Advance(C, acc, total[2], FALSE, 0)
        ELSE LET r == operand_reg(C, acc, os[n])
             IN  free_temp_if_operand(Advance(C, r[1], total[2], TRUE, r[2]), os[n])
      sized == Fold(count, total[1], [n \in DOMAIN os |-> n])
      offset == LoadInt(C, Push(sized, Typing(Plain("NewArray", <<dest, total[2]>>), t[2])), 0)
      fill(acc, n) ==
        LET r == operand_reg(C, acc, os[n])
        IN  IF spread[n]
            THEN free_temp_if_operand(
                   Advance(C, Push(r[1], Plain("CopyArray", <<dest, offset[2], r[2]>>)), offset[2], TRUE, r[2]), os[n])
            ELSE Advance(C, free_temp_if_operand(Push(r[1], Plain("StoreIndex", <<dest, offset[2], r[2]>>)), os[n]),
                         offset[2], FALSE, 0)
  IN  free_temps(Fold(fill, offset[1], [n \in DOMAIN os |-> n]), 2)

emit_new_tuple(C, e, dest, ty, os) ==
  LET t == lower_type(e, TypeName(ty)) IN Windowed(C, t[1], Typing(Plain("NewTuple", <<dest>>), t[2]), os)
emit_choice(C, e, dest, ty, variant, os) ==
  LET payload == IF os = <<>> THEN <<Null>> ELSE os
      r == OperandRegs(C, e, payload)
      t == lower_type(r[1], TypeName(ty))
      hits == {n \in DOMAIN C.variants[ty] : C.variants[ty][n] = variant}
      i == [Typing(Plain("NewChoice", <<dest>> \o r[2]), t[2]) EXCEPT !.aux = IF hits = {} THEN 0 ELSE Min(hits) - 1]
  IN  FreeOperands(Push(t[1], i), payload)

emit_array_index(C, e, dest, os) == Simple(C, e, Plain("LoadIndex", <<>>), <<dest>>, os)
emit_member_access(C, e, dest, o, member) ==
  Simple(C, e, Ins("LoadField", <<>>, 0, 0, 0, field_idx_for_member(C, o, member)), <<dest>>, <<o>>)
emit_len(C, e, dest, o) == Simple(C, e, Plain("Len", <<>>), <<dest>>, <<o>>)

FutureOf(C, e, dest, callee) == [e EXCEPT !.futures = (dest :> C.kinds[callee]) @@ @]
emit_create_future(C, e, dest, callee, os) ==
  LET t == lower_type(e, TypeName(C.f.locals[dest + 1].ty))
      i == [Typing(Ins("CreateFuture", <<dest>>, 0, 0, 0, C.index[callee]), t[2]) EXCEPT !.aux = Len(os)]
  IN  FutureOf(C, Windowed(C, t[1], i, os), dest, callee)
emit_create_indirect_future(C, e, dest, os) ==
  LET f == operand_reg(C, e, os[1])
      t == lower_type(f[1], TypeName(C.f.locals[dest + 1].ty))
      i == [Typing(Plain("CreateIndirectFuture", <<dest, f[2]>>), t[2]) EXCEPT !.aux = Len(os) - 1]
  IN  free_temp_if_operand(Windowed(C, t[1], i, Tail(os)), os[1])

emit_rvalue(C, e0, i) ==
  LET e == Forget(e0, i.dest)
      d == i.dest
  IN  CASE i.op = "Use"    -> emit_use(C, e, d, i.args[1])
        [] i.op = "Binary" -> emit_binary(C, e, d, i.ref, i.args[1], i.args[2])
        [] i.op = "Unary"  -> emit_unary(C, e, d, i.ref, i.args[1])
        [] i.op = "Cast"   -> emit_cast(C, e, d, i.args[1], i.ref)
        [] i.op = "Copy"   -> emit_copy(C, e, d, i.args[1])
        [] i.op = "Len"    -> emit_len(C, e, d, i.args[1])
        [] i.op = "Instanceof" -> emit_instanceof(C, e, d, i.args[1], i.ref)
        [] i.op = "ChoiceVariantIs" -> emit_choice_variant_is(C, e, d, i.args[1], i.ref)
        [] i.op = "ImportedChoiceVariantIs" -> emit_imported_choice_variant_is(C, e, d, i.args[1], i.ref)
        [] i.op = "LoadGlobal" -> emit_load_global(C, e, d, i.ref)
        [] i.op = "NewStruct"  -> emit_new_struct(C, e, d, i.ref, i.args)
        [] i.op = "NewArray"   -> emit_new_array(C, e, d, i.ref, i.args)
        [] i.op = "NewArrayDynamic" -> emit_new_array_dynamic(C, e, d, C.f.locals[d + 1].ty, i.args, i.ref)
        [] i.op = "NewArrayZeroedDynamic" -> emit_new_array_zeroed_dynamic(C, e, d, i.ref, i.args[1])
        [] i.op = "NewTuple"   -> emit_new_tuple(C, e, d, i.ref, i.args)
        [] i.op = "ArrayIndex" -> emit_array_index(C, e, d, i.args)
        [] i.op = "MemberAccess" -> emit_member_access(C, e, d, i.args[1], i.ref)
        [] i.op = "Choice"     -> emit_choice(C, e, d, C.f.locals[d + 1].ty, i.ref, i.args)
        [] i.op = "CreateFuture" -> emit_create_future(C, e, d, i.ref, i.args)
        [] i.op = "CreateIndirectFuture" -> emit_create_indirect_future(C, e, d, i.args)

-----------------------------------------------------------------------------
(* Calls and awaits *)

(* A native operation or an async function makes a future; one argument in *)
(* a local is passed where it lies; a call without arguments takes a       *)
(* temporary it never gives back.                                           *)
emit_call(C, e, i) ==
  LET kind == C.kinds[i.ref]
      t == lower_type(e, TypeName(C.f.locals[i.dest + 1].ty))
      call == Ins("Call", <<i.dest>>, 0, 0, 0, C.index[i.ref])
  IN  CASE kind = "math" -> Windowed(C, e, Ins("CallInternalMath", <<i.dest>>, 0, 0, 0, C.index[i.ref]), i.args)
        [] kind = "thread" ->
             Windowed(C, t[1], [Typing(Plain("CallInternalThread", <<i.dest>>), t[2]) EXCEPT !.aux = Len(i.args)], i.args)
        [] kind \in {"native", "async"} -> emit_create_future(C, e, i.dest, i.ref, i.args)
        [] kind = "plain" /\ Len(i.args) = 1 /\ i.args[1][1] = "local" ->
             Push(e, [call EXCEPT !.start = i.args[1][2], !.count = 1])
        [] OTHER -> LET room == IF i.args = <<>> THEN alloc_temp(C, e)[1] ELSE e IN Windowed(C, room, call, i.args)

emit_constraint_call(C, e, i) ==
  LET w == call_arguments_start(C, e, i.args)
      name == get_or_create_constant(w[1], <<"string", i.ref>>)
      call == Ins("CallMethod", <<i.dest, w[2]>>, w[2], Len(i.args), 0, name[2] - 1)
  IN  free_temps(Push(name[1], [call EXCEPT !.aux = Len(i.args)]), Len(i.args))
emit_indirect_call(C, e, i) ==
  LET args == Tail(i.args)
      f == alloc_temp(C, e)
      spare == IF args = <<>> THEN alloc_temp(C, f[1])[1] ELSE f[1]
      w == call_arguments_start(C, load_operand_to(spare, i.args[1], f[2]), args)
      call == Ins("CallDynamic", <<i.dest, f[2]>>, w[2], Len(args), 0, 0)
  IN  free_temp_if_operand(free_temps(Push(w[1], call), 1 + Len(args)), i.args[1])

(* The await of the future the last instruction made becomes one with it.  *)
Fuse(e, i) == [e EXCEPT !.code[Len(e.code)] = i]
emit_await(C, e, i) ==
  LET reg == operand_reg(C, e, i.args[1])
      last == e.code[Len(e.code)]
      fresh == e.code # <<>> /\ last.op \in Windows /\ last.args[1] = reg[2]
      kind == IF fresh /\ reg[2] \in DOMAIN e.futures THEN e.futures[reg[2]] ELSE "none"
      t == lower_type(reg[1], TypeName(C.f.locals[i.dest + 1].ty))
      wait == Push(t[1], Typing(Plain("AwaitFuture", <<i.dest, reg[2]>>), t[2]))
      drop == IF i.ref THEN Push(wait, Plain("Drop", <<reg[2]>>)) ELSE wait
  IN  CASE fresh /\ last.op = "CallInternalThread" -> Fuse(e, [last EXCEPT !.args[1] = i.dest])
        [] fresh /\ last.op = "CreateFuture" /\ kind = "native" ->
             Fuse(e, [last EXCEPT !.op = "CreateAwaitFuture", !.args[1] = i.dest])
        [] fresh /\ last.op = "CreateFuture" /\ kind = "async" ->
             Fuse(e, [last EXCEPT !.op = "Call", !.args[1] = i.dest, !.ty = 0, !.aux = 0])
        [] OTHER -> free_temp_if_operand(drop, i.args[1])
emit_await_collection(C, e, i) ==
  LET t == lower_type(e, TypeName(C.f.locals[i.dest + 1].ty))
  IN  Windowed(C, t[1], Typing(Plain(i.op, <<i.dest>>), t[2]), i.args)

emit_instruction(C, e, i) ==
  CASE i.op \in RValues -> emit_rvalue(C, e, i)
    [] i.op = "Drop" -> Push(e, Plain("Drop", <<i.ref>>))
    [] i.op = "StoreGlobal" -> Simple(C, e, Ins("StoreGlobal", <<>>, 0, 0, 0, C.globals[i.ref]), <<>>, i.args)
    [] i.op = "StoreIndex"  -> Simple(C, e, Plain("StoreIndex", <<>>), <<>>, i.args)
    [] i.op = "StoreField"  ->
         Simple(C, e, Ins("StoreField", <<>>, 0, 0, 0, field_idx_for_member(C, i.args[1], i.ref)), <<>>, i.args)
    [] i.op = "Call" -> emit_call(C, e, i)
    [] i.op = "ConstraintCall" -> emit_constraint_call(C, e, i)
    [] i.op = "IndirectCall" -> emit_indirect_call(C, e, i)
    [] i.op = "Await" -> emit_await(C, e, i)
    [] i.op \in {"AwaitAll", "AwaitRace"} -> emit_await_collection(C, e, i)

-----------------------------------------------------------------------------
(* Parallel copies: edges is destination -> source, all read before any is *)
(* written.  A destination nobody still reads is written, the least first; *)
(* when there is none, the source of the least destination is saved.        *)
RECURSIVE CopyEdges(_, _, _)
CopyEdges(C, e, edges) ==
  LET ready == {d \in DOMAIN edges : \A x \in DOMAIN edges : edges[x] # d}
      d == IF ready # {} THEN Min(ready) ELSE Min(DOMAIN edges)
      t == alloc_temp(C, e)
  IN  IF edges = <<>> THEN e
      ELSE IF ready # {}
           THEN CopyEdges(C, Push(e, Plain("Move", <<d, edges[d]>>)), [x \in DOMAIN edges \ {d} |-> edges[x]])
      ELSE CopyEdges(C, Push(t[1], Plain("Move", <<t[2], edges[d]>>)), [edges EXCEPT ![d] = t[2]])
(* Mutant: the moves of an edge one after the other.                       *)
emit_parallel_copies_Sequential(C, e, dests, os) ==
  Fold(LAMBDA acc, n : load_operand_to(acc, os[n], dests[n]), e, [n \in DOMAIN dests |-> n])
emit_parallel_copies(C, e, dests, os) ==
  LET source(acc, o) ==
        IF o[1] = "local" THEN <<acc[1], Append(acc[2], o[2])>>
        ELSE LET t == alloc_temp(C, acc[1]) IN <<load_operand_to(t[1], o, t[2]), Append(acc[2], t[2])>>
      from == Fold(source, <<e, <<>>>>, os)
      moves == {n \in DOMAIN dests : dests[n] # from[2][n]}
      edges == [d \in {dests[n] : n \in moves} |-> from[2][CHOOSE n \in moves : dests[n] = d]]
  IN  [CopyEdges(C, from[1], edges) EXCEPT !.temp = e.temp]

emit_jump(e, op, args, label) == Push(e, Ins(op, args, 0, 0, label, 0))
emit_label(e, label) == [e EXCEPT !.pcs = (label :> Len(e.code)) @@ @]
target_params(C, id) == BlockOf(C.f, id).params
CopyTo(C, e, t, n) == emit_parallel_copies(C, e, target_params(C, t.to[n]), t.pass[n])
JumpUnlessNext(e, id, next) == IF id = next THEN e ELSE emit_jump(e, "Jump", <<>>, id)

emit_branch(C, e, t, next) ==
  LET c == operand_reg(C, e, t.args[1])
      cond == <<c[2]>>
      done == CASE t.pass = <<<<>>, <<>>>> /\ next = t.to[1] -> emit_jump(c[1], "JumpFalse", cond, t.to[2])
                [] t.pass[1] = <<>> ->
                     JumpUnlessNext(CopyTo(C, emit_jump(c[1], "JumpTrue", cond, t.to[1]), t, 2), t.to[2], next)
                [] t.pass[2] = <<>> ->
                     JumpUnlessNext(CopyTo(C, emit_jump(c[1], "JumpFalse", cond, t.to[2]), t, 1), t.to[1], next)
                [] OTHER ->
                     LET label == c[1].labels
                         test == emit_jump([c[1] EXCEPT !.labels = @ + 1], "JumpTrue", cond, label)
                         no == emit_jump(CopyTo(C, test, t, 2), "Jump", <<>>, t.to[2])
                     IN  emit_jump(CopyTo(C, emit_label(no, label), t, 1), "Jump", <<>>, t.to[1])
  IN  free_temp_if_operand(done, t.args[1])
emit_terminator(C, e, t, next) ==
  CASE t.op = "Return" -> IF t.args = <<>> THEN Push(e, Plain("RetNull", <<>>))
                          ELSE Simple(C, e, Plain("Ret", <<>>), <<>>, t.args)
    [] t.op = "TailCall" -> Windowed(C, e, Ins("TailCall", <<>>, 0, 0, 0, C.index[t.ref]), t.args)
    [] t.op = "Panic" -> LET m == get_or_create_constant(e, <<"string", t.ref>>)
                         IN  Push(m[1], Ins("Panic", <<>>, 0, 0, 0, m[2] - 1))
    [] t.op = "Jump"  -> emit_jump(CopyTo(C, e, t, 1), "Jump", <<>>, t.to[1])
    [] t.op = "Branch" -> emit_branch(C, e, t, next)

PatchJumps(e) ==
  [n \in DOMAIN e.code |->
     IF e.code[n].op \in Jumps THEN [e.code[n] EXCEPT !.off = e.pcs[@] - n] ELSE e.code[n]]
(* One function, into a module that already has constants and types:       *)
(* <<bytecode function, constants, types>>.                                 *)
emit_function(C, name, consts, types) ==
  LET start == [code |-> <<>>, temp |-> 0, max |-> 0, imm |-> <<>>, pcs |-> <<>>, futures |-> <<>>,
                labels |-> 1000, consts |-> consts, types |-> types]
      block(e, n) ==
        LET b == C.f.blocks[n]
            next == IF n < Len(C.f.blocks) THEN C.f.blocks[n + 1].id ELSE None
            body == Fold(LAMBDA acc, i : emit_instruction(C, acc, i), emit_label(e, b.id), b.code)
        IN  emit_terminator(C, body, b.term, next)
      e == Fold(block, start, [n \in DOMAIN C.f.blocks |-> n])
  IN  <<[name |-> name, proxy |-> FALSE, params |-> C.f.params, locals |-> Len(C.f.locals) - C.f.params,
         temps |-> e.max, code |-> PatchJumps(e)], e.consts, e.types>>
=============================================================================
