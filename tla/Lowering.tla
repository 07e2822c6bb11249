------------------------------ MODULE Lowering ------------------------------
(***************************************************************************)
(* Lowering of a typed function body to MIR.  The syntax tree is made of    *)
(* nodes [k, ty, ref, kids]: the kind, the type the checker gave it, the    *)
(* name, operator, literal or callee it holds, and its children.  The       *)
(* builder threads through the lowering:                                    *)
(*   locals, blocks, code   the function so far, and current_instructions  *)
(*   cur, fresh             the current block, and the next block number   *)
(*   scopes                 the locals of each open scope, innermost last  *)
(*   vars                   symbol_to_local                                 *)
(*   loops, arms            the targets of break, continue and of a return *)
(*                          in an arm of match, innermost last             *)
(*   ret, owned             the return type, and the types with an owner   *)
(* P is what the other declarations say: the parameters of each callee      *)
(* (sigs), the fields of each struct, the element type of each array type.  *)
(***************************************************************************)
EXTENDS Mir

LOCAL INSTANCE TLC

Node(k, ty, ref, kids) == [k |-> k, ty |-> ty, ref |-> ref, kids |-> kids]

(* Types that convert into each other. *)
Numeric == {"i32", "i64", "u8", "f32", "f64"}

NewBlock(id) == [id |-> id, params |-> <<>>, code |-> <<>>, term |-> Return(<<>>)]
StartFunction(ret, owned) ==
  [locals |-> <<>>, blocks |-> <<NewBlock(0)>>, code |-> <<>>, cur |-> 0, fresh |-> 1,
   scopes |-> <<<<>>>>, vars |-> <<>>, loops |-> <<>>, arms |-> <<>>, ret |-> ret, owned |-> owned]

-----------------------------------------------------------------------------
(* Blocks, locals and scopes *)

CurrentIndex(b) == CHOOSE n \in DOMAIN b.blocks : b.blocks[n].id = b.cur

(* A block whose terminator still is the bare return it began with.        *)
is_terminated(b) == LET t == b.blocks[CurrentIndex(b)].term IN t.op # "Return" \/ t.args # <<>>

flush_current_instructions(b) ==
  [b EXCEPT !.blocks[CurrentIndex(b)].code = @ \o b.code, !.code = <<>>]
close_current_block(b, term) ==
  [flush_current_instructions(b) EXCEPT !.blocks[CurrentIndex(b)].term = term]
begin_block(b, id) == [b EXCEPT !.blocks = Append(@, NewBlock(id)), !.cur = id]
next_block(b) == [b EXCEPT !.fresh = @ + 1]
JumpUnlessTerminated(b, id) == IF is_terminated(b) THEN b ELSE close_current_block(b, Jump(id))

Emit(b, i) == [b EXCEPT !.code = Append(@, i)]
NoSymbol == ""
declare_local(b, symbol, ty) ==
  LET l == Len(b.locals)
  IN  [b EXCEPT !.locals = Append(@, [ty |-> ty, owned |-> ty \in b.owned]),
                !.vars = IF symbol = NoSymbol THEN @ ELSE (symbol :> l) @@ @,
                !.scopes[Len(b.scopes)] = Append(@, l)]
(* A fresh local assigned the result of one instruction: <<builder, it>>.  *)
Temp(b, ty, op, args, ref) ==
  <<Emit(declare_local(b, NoSymbol, ty), Instr(op, Len(b.locals), args, ref)), Local(Len(b.locals))>>
Bind(b, symbol, ty, operand) ==
  Emit(declare_local(b, symbol, ty), Instr("Use", Len(b.locals), <<operand>>, None))

DropLocals(b, locals) ==
  LET gone == SelectSeq(locals, LAMBDA l : b.locals[l + 1].owned)
  IN  [b EXCEPT !.code = @ \o [n \in DOMAIN gone |-> Instr("Drop", None, <<>>, gone[n])]]
(* Leaving the scopes above a depth, innermost first; keep is not dropped. *)
emit_control_flow_exit(b, depth, keep) ==
  LET open == Reverse(FlattenSeq(SubSeq(b.scopes, depth + 1, Len(b.scopes))))
  IN  DropLocals(b, SelectSeq(open, LAMBDA l : Local(l) # keep))
push_scope(b) == [b EXCEPT !.scopes = Append(@, <<>>)]
pop_scope(b) ==
  LET left == [b EXCEPT !.scopes = SubSeq(@, 1, Len(@) - 1)]
  IN  IF is_terminated(b) THEN left ELSE DropLocals(left, b.scopes[Len(b.scopes)])

TypeOfOperand(b, operand, ty) == IF operand[1] = "local" THEN b.locals[operand[2] + 1].ty ELSE ty
insert_cast_if_needed(b, operand, from, to) ==
  LET actual == IF operand[1] = "const" /\ operand[2] \in Numeric THEN operand[2] ELSE from
  IN  IF actual = to \/ {actual, to} \ Numeric # {} THEN <<b, operand>>
      ELSE Temp(b, to, "Cast", <<operand>>, to)

(* Mutant: an exit without a label leaves the outermost loop.              *)
loop_target_for_Outermost(b, label) ==
  {n \in DOMAIN b.loops : /\ label = NoSymbol \/ b.loops[n].name = label
                          /\ \A m \in 1 .. (n - 1) : ~(label = NoSymbol \/ b.loops[m].name = label)}
(* The innermost loop, or the innermost with that name.                    *)
loop_target_for(b, label) ==
  {n \in DOMAIN b.loops : /\ label = NoSymbol \/ b.loops[n].name = label
                          /\ \A m \in (n + 1) .. Len(b.loops) :
                               ~(label = NoSymbol \/ b.loops[m].name = label)}
push_loop(b, name, brk, cont) ==
  [b EXCEPT !.loops = Append(@, [name |-> name, brk |-> brk, cont |-> cont, depth |-> Len(b.scopes)])]
pop_loop(b) == [b EXCEPT !.loops = SubSeq(@, 1, Len(@) - 1)]

-----------------------------------------------------------------------------
RECURSIVE lower_expression(_, _, _), lower_statement(_, _, _), lower_block(_, _, _),
          lower_pattern_check(_, _, _, _, _), lower_destructuring_binding(_, _, _),
          static_array_length(_, _)

(* Children in order: <<builder, operands>>. *)
LowerEach(P, b, nodes) ==
  Fold(LAMBDA acc, n : LET r == lower_expression(P, acc[1], n) IN <<r[1], Append(acc[2], r[2])>>,
           <<b, <<>>>>, nodes)

lower_binary_expression(P, b, e) ==
  LET args == LowerEach(P, b, e.kids)
      left == args[2][1]
      right == insert_cast_if_needed(args[1], args[2][2], e.kids[2].ty,
                                     TypeOfOperand(args[1], left, e.kids[1].ty))
  IN  Temp(right[1], e.ty, "Binary", <<left, right[2]>>, e.ref)

(* One operand, one instruction: unary, cast, copy, member, length.        *)
LowerUnary(P, b, e, op) ==
  LET arg == lower_expression(P, b, e.kids[1]) IN Temp(arg[1], e.ty, op, <<arg[2]>>, e.ref)

lower_name_expression(P, b, e) ==
  IF e.k = "function" THEN <<b, Const("fn", e.ref)>>
  ELSE IF e.ref \in DOMAIN b.vars THEN <<b, Local(b.vars[e.ref])>>
  ELSE Temp(b, e.ty, "LoadGlobal", <<>>, e.ref)

(* Arguments convert to the parameter types; those beyond the last         *)
(* parameter of a variadic function go to one array; missing ones are null. *)
lower_call_arguments(P, b, nodes, params) ==
  LET rest(n) == params # <<>> /\ params[Len(params)].rest /\ n >= Len(params)
      known(n) == n \in DOMAIN params \/ rest(n)
      target(n) == IF rest(n) THEN params[Len(params)].element ELSE params[n].ty
      argument(acc, n) ==
        LET r == lower_expression(P, acc.b, nodes[n])
            c == IF known(n) THEN insert_cast_if_needed(r[1], r[2], nodes[n].ty, target(n)) ELSE r
        IN  IF rest(n) THEN [acc EXCEPT !.b = c[1], !.rest = Append(@, c[2])]
            ELSE [acc EXCEPT !.b = c[1], !.args = Append(@, c[2])]
      all == Fold(argument, [b |-> b, args |-> <<>>, rest |-> <<>>], [n \in DOMAIN nodes |-> n])
      variadic == params # <<>> /\ params[Len(params)].rest /\ Len(all.args) < Len(params)
      array == Temp(all.b, params[Len(params)].ty, "NewArray", all.rest, params[Len(params)].ty)
      given == IF variadic THEN <<array[1], Append(all.args, array[2])>> ELSE <<all.b, all.args>>
      missing == SelectSeq([n \in DOMAIN params |-> n],
                           LAMBDA n : n > Len(given[2]) /\ ~params[n].rest)
  IN  <<given[1], given[2] \o [n \in DOMAIN missing |-> Null]>>

IsFuture(ty) == ty = "future"
(* A call that yields a future only creates it.                            *)
lower_call(P, b, e) ==
  LET args == lower_call_arguments(P, b, e.kids, P.sigs[e.ref])
      op == IF IsFuture(e.ty) THEN "CreateFuture" ELSE "Call"
  IN  Temp(args[1], e.ty, op, args[2], e.ref)
lower_choice_constructor(P, b, e) ==
  LET args == LowerEach(P, b, e.kids)
      tuple == Temp(args[1], "tuple", "NewTuple", args[2], "tuple")
  IN  IF Len(args[2]) > 1 THEN Temp(tuple[1], e.ty, "Choice", <<tuple[2]>>, e.ref)
      ELSE Temp(args[1], e.ty, "Choice", args[2], e.ref)
lower_constraint_call(P, b, e) ==
  LET args == LowerEach(P, b, e.kids) IN Temp(args[1], e.ty, "ConstraintCall", args[2], e.ref)
(* The destination is declared first, the callee is evaluated last.        *)
lower_indirect_call(P, b, e) ==
  LET args == LowerEach(P, b, Tail(e.kids))
      dest == Len(args[1].locals)
      target == lower_expression(P, declare_local(args[1], NoSymbol, e.ty), e.kids[1])
      op == IF IsFuture(e.ty) THEN "CreateIndirectFuture" ELSE "IndirectCall"
  IN  <<Emit(target[1], Instr(op, dest, <<target[2]>> \o args[2], None)), Local(dest)>>

(* Fields are evaluated as written and stored in declaration order: given, *)
(* else from the first spread that has it, else its default, else null.    *)
FieldValue(P, acc, decl, given) ==
  LET named == {n \in DOMAIN given : given[n].name = decl.name}
      spread == {n \in DOMAIN given : given[n].name = NoSymbol /\ decl.name \in given[n].has}
      value == IF named # {} THEN <<acc[1], given[Max(named)].value>>
               ELSE IF spread # {}
                    THEN Temp(acc[1], decl.ty, "MemberAccess", <<given[Min(spread)].value>>, decl.name)
               ELSE IF decl.default # <<>> THEN lower_expression(P, acc[1], decl.default[1])
               ELSE <<acc[1], Null>>
  IN  <<value[1], Append(acc[2], value[2])>>
FieldNames(P, ty) ==
  IF ty \in DOMAIN P.structs THEN {P.structs[ty][k].name : k \in DOMAIN P.structs[ty]} ELSE {}
lower_struct_literal(P, b, e) ==
  LET values == LowerEach(P, b, [n \in DOMAIN e.kids |-> e.kids[n].kids[1]])
      given == [n \in DOMAIN e.kids |->
                  [name |-> e.kids[n].ref, value |-> values[2][n],
                   has |-> FieldNames(P, e.kids[n].kids[1].ty)]]
      fields == Fold(LAMBDA acc, decl : FieldValue(P, acc, decl, given), <<values[1], <<>>>>, P.structs[e.ty])
  IN  Temp(fields[1], e.ty, "NewStruct", fields[2], e.ty)

(* ref tells, for each element, whether it is spread.                      *)
lower_array_literal(P, b, e) ==
  LET element(acc, n) ==
        LET r == lower_expression(P, acc[1], e.kids[n])
            c == IF e.ref[n] THEN r ELSE insert_cast_if_needed(r[1], r[2], e.kids[n].ty, P.elements[e.ty])
        IN  <<c[1], Append(acc[2], c[2])>>
      args == Fold(element, <<b, <<>>>>, [n \in DOMAIN e.kids |-> n])
  IN  IF \E n \in DOMAIN e.ref : e.ref[n] THEN Temp(args[1], e.ty, "NewArrayDynamic", args[2], e.ref)
      ELSE Temp(args[1], e.ty, "NewArray", args[2], e.ty)
(* new([T], size) *)
lower_new_array_expression(P, b, e) ==
  LET size == lower_expression(P, b, e.kids[1]) IN Temp(size[1], e.ty, "NewArrayZeroedDynamic", <<size[2]>>, e.ty)
lower_tuple_literal(P, b, e) ==
  LET args == LowerEach(P, b, e.kids) IN Temp(args[1], e.ty, "NewTuple", args[2], e.ty)
lower_index_expression(P, b, e) ==
  LET args == LowerEach(P, b, e.kids) IN Temp(args[1], e.ty, "ArrayIndex", args[2], None)

(* drop_future: the awaited future is the result of the call in the await. *)
lower_await_expression(P, b, e) ==
  LET future == lower_expression(P, b, e.kids[1])
  IN  Temp(future[1], e.ty, "Await", <<future[2]>>, e.kids[1].k = "call")
lower_await_collection(P, b, e) ==
  LET futures == LowerEach(P, b, e.kids) IN Temp(futures[1], e.ty, e.ref, futures[2], None)

(* A range is a call of the iterable library; a range with steps passes the *)
(* step, one where it is not written.                                      *)
lower_range_expression(P, b, e) ==
  LET bounds == LowerEach(P, b, SubSeq(e.kids, 1, 2))
      step == IF Len(e.kids) = 3 THEN lower_expression(P, bounds[1], e.kids[3]) ELSE <<bounds[1], Const("i32", 1)>>
  IN  IF e.ref = "exclusive" THEN Temp(bounds[1], e.ty, "Call", bounds[2], <<"ext", "range">>)
      ELSE Temp(step[1], e.ty, "Call", Append(bounds[2], step[2]), <<"ext", "rangeSteps">>)

(* A path: a variant of a choice without payload, or the number of a       *)
(* variant of an enum.                                                      *)
lower_path_expression(b, e) ==
  IF e.k = "enumPath" THEN <<b, Const("i32", e.ref)>> ELSE Temp(b, e.ty, "Choice", <<>>, e.ref)

(* The body of an arm; a return inside it gives the value of the match.    *)
lower_narrowing_arm_body(P, b, body, result, end, ty) ==
  LET in == [b EXCEPT !.arms = Append(@, [result |-> result, end |-> end, ty |-> ty,
                                          depth |-> Len(b.scopes)])]
      r == IF body.k = "block" THEN <<lower_block(P, in, body), Null>> ELSE lower_expression(P, in, body)
      out == [r[1] EXCEPT !.arms = SubSeq(@, 1, Len(@) - 1)]
  IN  IF is_terminated(out) THEN out
      ELSE close_current_block(Emit(out, Instr("Use", result, <<r[2]>>, None)), Jump(end))

lower_match_expression(P, b, e) ==
  LET subject == lower_expression(P, b, e.kids[1])
      temp == Temp(subject[1], e.kids[1].ty, "Use", <<subject[2]>>, None)
      result == Len(temp[1].locals)
      declared == declare_local(temp[1], NoSymbol, e.ty)
      end == declared.fresh
      arm(acc, a) ==
        LET body == acc.fresh
            next == acc.fresh + 1
            tested == lower_pattern_check(P, next_block(next_block(acc)), a.kids[1], temp[2], <<body, next>>)
            done == lower_narrowing_arm_body(P, begin_block(tested, body), a.kids[2], result, end, e.ty)
        IN  begin_block(done, next)
      arms == Fold(arm, next_block(declared), Tail(e.kids))
      panic == close_current_block(arms, Term("Panic", <<>>, <<>>, "non-exhaustive match"))
  IN  <<begin_block(panic, end), Local(result)>>

(* The arm is chosen when the function is compiled.                        *)
lower_typeof_expression(P, b, e) ==
  LET result == Len(b.locals)
      end == b.fresh
      declared == next_block(declare_local(b, NoSymbol, e.ty))
      hits == SelectSeq(Tail(e.kids), LAMBDA a : a.kids[1].k = "wildcard" \/ a.kids[1].ty = e.kids[1].ty)
      none == close_current_block(Emit(declared, Instr("Use", result, <<Null>>, None)), Jump(end))
      done == IF hits = <<>> THEN none
              ELSE lower_narrowing_arm_body(P, declared, hits[1].kids[2], result, end, e.ty)
  IN  <<begin_block(done, end), Local(result)>>

(* Which call it is follows from what the callee names: a variant, a       *)
(* method of a constraint, a value, or a function.                         *)
lower_call_dispatch(P, b, e) ==
  CASE e.k = "construct" -> lower_choice_constructor(P, b, e)
    [] e.k = "method"    -> lower_constraint_call(P, b, e)
    [] e.k = "apply"     -> lower_indirect_call(P, b, e)
    [] e.k = "call"      -> lower_call(P, b, e)

lower_expression(P, b, e) ==
  CASE e.k = "literal" -> <<b, Const(e.ty, e.ref)>>
    [] e.k \in {"name", "function"} -> lower_name_expression(P, b, e)
    [] e.k = "binary"  -> lower_binary_expression(P, b, e)
    [] e.k = "unary"   -> LowerUnary(P, b, e, "Unary")
    [] e.k = "cast"    -> LowerUnary(P, b, e, "Cast")
    [] e.k = "copy"    -> LowerUnary(P, b, e, "Copy")
    [] e.k = "member"  -> LowerUnary(P, b, e, "MemberAccess")
    [] e.k = "length"  -> LowerUnary(P, b, e, "Len")
    [] e.k = "group"   -> lower_expression(P, b, e.kids[1])
    [] e.k \in {"call", "construct", "method", "apply"} -> lower_call_dispatch(P, b, e)
    [] e.k = "struct"  -> lower_struct_literal(P, b, e)
    [] e.k = "array"   -> lower_array_literal(P, b, e)
    [] e.k = "tuple"   -> lower_tuple_literal(P, b, e)
    [] e.k = "filled"  -> lower_new_array_expression(P, b, e)
    [] e.k = "range"   -> lower_range_expression(P, b, e)
    [] e.k \in {"enumPath", "choicePath"} -> lower_path_expression(b, e)
    [] e.k = "index"   -> lower_index_expression(P, b, e)
    [] e.k = "match"   -> lower_match_expression(P, b, e)
    [] e.k = "typeof"  -> lower_typeof_expression(P, b, e)
    [] e.k = "await"   -> lower_await_expression(P, b, e)
    [] e.k = "awaitMany" -> lower_await_collection(P, b, e)

-----------------------------------------------------------------------------
(* Patterns: to[1] is the block of success, to[2] the block of failure.    *)

(* The members of a payload or a struct, each in a block of its own; where *)
(* a part fails the whole pattern fails.                                   *)
LowerParts(P, b, parts, members, object, to) ==
  LET part(acc, n) ==
        LET field == Temp(acc, parts[n].ty, "MemberAccess", <<object>>, members[n])
            last == n = Len(parts)
            next == IF last THEN to[1] ELSE field[1].fresh
            ready == IF last THEN field[1] ELSE next_block(field[1])
            done == lower_pattern_check(P, ready, parts[n], field[2], <<next, to[2]>>)
        IN  IF last THEN done ELSE begin_block(done, next)
  IN  Fold(part, b, [n \in DOMAIN parts |-> n])

(* A test on the subject, and a block for what follows where it holds.     *)
LowerTest(b, subject, op, ref, to) ==
  LET cond == Temp(b, "bool", op, <<subject>>, ref)
      inner == cond[1].fresh
  IN  begin_block(close_current_block(next_block(cond[1]), Branch(cond[2], inner, to[2])), inner)

LiteralPattern(P, b, p, subject, to) ==
  LET lit == lower_expression(P, b, p)
      cond == Temp(lit[1], "bool", "ConstraintCall", <<subject, lit[2]>>, "compare")
  IN  close_current_block(cond[1], Branch(cond[2], to[1], to[2]))
BindingPattern(b, p, subject, to) == close_current_block(Bind(b, p.ref, p.ty, subject), Jump(to[1]))
EnumPattern(b, p, subject, to) ==
  LET val == Temp(b, p.ty, "Cast", <<Const("i32", p.ref)>>, p.ty)
      cond == Temp(val[1], "bool", "Binary", <<subject, val[2]>>, "Equal")
  IN  close_current_block(cond[1], Branch(cond[2], to[1], to[2]))
PayloadPatterns(P, inner, p, subject, to) ==
  LET payload == Temp(inner, IF Len(p.kids) = 1 THEN p.kids[1].ty ELSE "tuple", "MemberAccess", <<subject>>, p.ref)
  IN  IF p.kids = <<>> THEN close_current_block(inner, Jump(to[1]))
      ELSE IF Len(p.kids) = 1 THEN lower_pattern_check(P, payload[1], p.kids[1], payload[2], to)
      ELSE LowerParts(P, payload[1], p.kids, [n \in DOMAIN p.kids |-> n - 1], payload[2], to)
ChoicePattern(P, b, p, subject, to) ==
  PayloadPatterns(P, LowerTest(b, subject, "ChoiceVariantIs", p.ref, to), p, subject, to)
(* A variant of a choice of another module is found by its names.          *)
ImportedChoicePattern(P, b, p, subject, to) ==
  PayloadPatterns(P, LowerTest(b, subject, "ImportedChoiceVariantIs", p.ref, to), p, subject, to)
TypePattern(b, p, subject, to) ==
  LET inner == LowerTest(b, subject, "Instanceof", p.ty, to)
  IN  close_current_block(IF p.ref = NoSymbol THEN inner ELSE Bind(inner, p.ref, p.ty, subject), Jump(to[1]))
StructPattern(P, b, p, subject, to) ==
  LET inner == LowerTest(b, subject, "Instanceof", p.ty, to)
  IN  IF p.kids = <<>> THEN close_current_block(inner, Jump(to[1]))
      ELSE LowerParts(P, inner, p.kids, p.ref, subject, to)

lower_pattern_check(P, b, p, subject, to) ==
  CASE p.k = "literal" -> LiteralPattern(P, b, p, subject, to)
    [] p.k = "wildcard" -> close_current_block(b, Jump(to[1]))
    [] p.k = "binding" -> BindingPattern(b, p, subject, to)
    [] p.k = "enum" -> EnumPattern(b, p, subject, to)
    [] p.k = "variant" -> ChoicePattern(P, b, p, subject, to)
    [] p.k = "imported" -> ImportedChoicePattern(P, b, p, subject, to)
    [] p.k = "type" -> TypePattern(b, p, subject, to)
    [] p.k = "fields" -> StructPattern(P, b, p, subject, to)
    [] OTHER -> close_current_block(b, Jump(to[2]))

-----------------------------------------------------------------------------
(* Declarations *)

static_array_length(b, operand) ==
  LET hits == {n \in DOMAIN b.code : b.code[n].op \in RValues /\ Local(b.code[n].dest) = operand}
      i == b.code[Max(hits)]
      lengths == [n \in DOMAIN i.args |-> IF i.ref[n] THEN static_array_length(b, i.args[n]) ELSE 1]
  IN  IF operand[1] # "local" \/ hits = {} THEN None
      ELSE CASE i.op = "Use" -> static_array_length(b, i.args[1])
             [] i.op = "NewArray" -> Len(i.args)
             [] i.op = "NewArrayDynamic" -> IF None \in ToSet(lengths) THEN None
                                            ELSE Fold(LAMBDA s, n : s + n, 0, lengths)
             [] OTHER -> None

(* The rest of an array is bound only where its length is known here.      *)
lower_static_array_rest_binding(b, p, operand, start) ==
  LET length == static_array_length(b, operand)
      element(acc, n) == LET r == Temp(acc[1], p.kids[1].ref, "ArrayIndex", <<operand, Const("i32", n)>>, None)
                         IN  <<r[1], Append(acc[2], r[2])>>
      all == Fold(element, <<b, <<>>>>, [n \in 1 .. (length - start) |-> start + n - 1])
      array == Temp(all[1], p.ty, "NewArray", all[2], p.ty)
  IN  IF length = None THEN b ELSE lower_destructuring_binding(array[1], p.kids[1], array[2])

lower_destructuring_binding(b, p, operand) ==
  CASE p.k = "identifier" -> Bind(b, p.ref, p.ty, operand)
    [] p.k = "fields" ->
         Fold(LAMBDA acc, n : LET r == Temp(acc, "any", "MemberAccess", <<operand>>, p.ref[n])
                                  IN  lower_destructuring_binding(r[1], p.kids[n], r[2]),
                  b, [n \in DOMAIN p.kids |-> n])
    [] p.k = "elements" ->
         Fold(LAMBDA acc, n :
                    IF p.kids[n].k = "rest" THEN lower_static_array_rest_binding(acc, p.kids[n], operand, n - 1)
                    ELSE LET r == Temp(acc, "any", "ArrayIndex", <<operand, Const("i32", n - 1)>>, None)
                         IN  lower_destructuring_binding(r[1], p.kids[n], r[2]),
                  b, [n \in DOMAIN p.kids |-> n])

-----------------------------------------------------------------------------
(* Statements *)

(* The value an assignment stores: the operand, or the old value combined  *)
(* with it; reading the old value is one instruction.                      *)
CombineOld(b, op, ty, read, args, ref, value) ==
  IF op = "" THEN <<b, value>>
  ELSE LET old == Temp(b, ty, read, args, ref) IN Temp(old[1], ty, "Binary", <<old[2], value>>, op)

lower_index_assignment(P, b, s) ==
  LET target == s.kids[1]
      place == LowerEach(P, b, target.kids)
      raw == lower_expression(P, place[1], s.kids[2])
      value == insert_cast_if_needed(raw[1], raw[2], s.kids[2].ty, target.ty)
      final == CombineOld(value[1], s.ref, target.ty, "ArrayIndex", place[2], None, value[2])
  IN  Emit(final[1], Instr("StoreIndex", None, Append(place[2], final[2]), None))
lower_member_assignment(P, b, s) ==
  LET target == s.kids[1]
      object == lower_expression(P, b, target.kids[1])
      raw == lower_expression(P, object[1], s.kids[2])
      value == insert_cast_if_needed(raw[1], raw[2], s.kids[2].ty, target.ty)
      final == CombineOld(value[1], s.ref, target.ty, "MemberAccess", <<object[2]>>, target.ref, value[2])
  IN  Emit(final[1], Instr("StoreField", None, <<object[2], final[2]>>, target.ref))
(* A variable, or a global: for a global the operator is not applied.      *)
lower_name_assignment(P, b, s) ==
  LET target == s.kids[1]
      raw == lower_expression(P, b, s.kids[2])
      value == insert_cast_if_needed(raw[1], raw[2], s.kids[2].ty, target.ty)
      l == b.vars[target.ref]
      sum == IF s.ref = "" THEN value
             ELSE Temp(value[1], target.ty, "Binary", <<Local(l), value[2]>>, s.ref)
  IN  IF target.ref \notin DOMAIN b.vars
      THEN Emit(value[1], Instr("StoreGlobal", None, <<value[2]>>, target.ref))
      ELSE Emit(sum[1], Instr("Use", l, <<sum[2]>>, None))
lower_assignment(P, b, s) ==
  CASE s.kids[1].k = "index" -> lower_index_assignment(P, b, s)
    [] s.kids[1].k = "member" -> lower_member_assignment(P, b, s)
    [] s.kids[1].k = "name" -> lower_name_assignment(P, b, s)

lower_return(P, b, s) ==
  LET inner == b.arms # <<>>
      arm == b.arms[Len(b.arms)]
      raw == IF s.kids = <<>> THEN <<b, Null>> ELSE lower_expression(P, b, s.kids[1])
      value == IF s.kids = <<>> THEN raw
               ELSE insert_cast_if_needed(raw[1], raw[2], s.kids[1].ty, IF inner THEN arm.ty ELSE b.ret)
      left == emit_control_flow_exit(value[1], IF inner THEN arm.depth ELSE 0, value[2])
  IN  IF is_terminated(value[1]) THEN value[1]
      ELSE IF inner THEN close_current_block(Emit(left, Instr("Use", arm.result, <<value[2]>>, None)), Jump(arm.end))
      ELSE close_current_block(left, Return(IF s.kids = <<>> THEN <<>> ELSE <<value[2]>>))

(* break and continue; without a loop of that name nothing happens.        *)
lower_loop_exit(b, s) ==
  LET hits == loop_target_for(b, s.ref)
      t == b.loops[CHOOSE n \in hits : TRUE]
  IN  IF hits = {} THEN b
      ELSE close_current_block(emit_control_flow_exit(b, t.depth, Null),
                               Jump(IF s.k = "break" THEN t.brk ELSE t.cont))

lower_if(P, b, s) ==
  LET cond == lower_expression(P, b, s.kids[1])
      then == cond[1].fresh
      other == then + 1
      merge == then + 2
      alternative == Len(s.kids) = 3
      branch == close_current_block([cond[1] EXCEPT !.fresh = @ + 3],
                                    Branch(cond[2], then, IF alternative THEN other ELSE merge))
      first == JumpUnlessTerminated(lower_block(P, begin_block(branch, then), s.kids[2]), merge)
      begun == begin_block(first, other)
      second == IF s.kids[3].k = "block" THEN lower_block(P, begun, s.kids[3]) ELSE lower_statement(P, begun, s.kids[3])
  IN  begin_block(IF alternative THEN JumpUnlessTerminated(second, merge) ELSE first, merge)

(* kids: the body, then the condition if there is one; the condition is    *)
(* tested before the body, whatever the metadata of the loop says.         *)
lower_loop(P, b, s) ==
  LET header == b.fresh
      start == begin_block(close_current_block([b EXCEPT !.fresh = @ + 3], Jump(header)), header)
      in == push_loop(start, s.ref, header + 2, header)
      cond == lower_expression(P, in, s.kids[2])
      tested == IF Len(s.kids) = 1 THEN close_current_block(in, Jump(header + 1))
                ELSE close_current_block(cond[1], Branch(cond[2], header + 1, header + 2))
      body == lower_block(P, begin_block(tested, header + 1), s.kids[1])
  IN  begin_block(pop_loop(JumpUnlessTerminated(body, header)), header + 2)

(* kids: the binding, the iterable, the body. *)
lower_for(P, b, s) ==
  LET iterable == lower_expression(P, b, s.kids[2])
      array == Temp(iterable[1], "iterator", "Call", <<iterable[2]>>, <<"ext", "arrayIter">>)
      source == IF s.kids[2].ty \in DOMAIN P.elements THEN array ELSE iterable
      kept == Temp(source[1], "iterator", "Use", <<source[2]>>, None)
      iterator == Temp(kept[1], "iterator", "ConstraintCall", <<kept[2]>>, "iter")
      header == iterator[1].fresh
      start == begin_block(close_current_block([iterator[1] EXCEPT !.fresh = @ + 3], Jump(header)), header)
      next == Temp(start, s.kids[1].ty, "ConstraintCall", <<iterator[2]>>, "next")
      cond == Temp(next[1], "bool", "Binary", <<next[2], Null>>, "NotEqual")
      tested == begin_block(close_current_block(cond[1], Branch(cond[2], header + 1, header + 2)), header + 1)
      bound == push_loop(lower_destructuring_binding(tested, s.kids[1], next[2]), s.ref, header + 2, header)
      body == lower_block(P, bound, s.kids[3])
  IN  begin_block(pop_loop(JumpUnlessTerminated(body, header)), header + 2)

lower_var(P, b, s) ==
  LET init == IF Len(s.kids) = 1 THEN <<b, Null>> ELSE lower_expression(P, b, s.kids[2])
  IN  lower_destructuring_binding(init[1], s.kids[1], init[2])

lower_statement(P, b, s) ==
  CASE s.k = "var" -> lower_var(P, b, s)
    [] s.k = "assign" -> lower_assignment(P, b, s)
    [] s.k = "return" -> lower_return(P, b, s)
    [] s.k \in {"break", "continue"} -> lower_loop_exit(b, s)
    [] s.k = "expression" -> lower_expression(P, b, s.kids[1])[1]
    [] s.k = "block" -> lower_block(P, b, s)
    [] s.k = "if" -> lower_if(P, b, s)
    [] s.k = "loop" -> lower_loop(P, b, s)
    [] s.k = "for" -> lower_for(P, b, s)

(* Statements after one that ended the block are not lowered.              *)
lower_block(P, b, s) ==
  pop_scope(Fold(LAMBDA acc, x : IF is_terminated(acc) THEN acc ELSE lower_statement(P, acc, x),
                     push_scope(b), s.kids))

(* A function [params, ret, body, async]: parameters <<symbol, type,       *)
(* default>>, a null argument replaced by the default before the body runs. *)
lower_parameters(P, b, params) ==
  LET declared == Fold(LAMBDA acc, p : declare_local(acc, p[1], p[2]), b, params)
      fallback(acc, n) ==
        IF params[n][3] = <<>> THEN acc
        ELSE LET d == lower_expression(P, acc, params[n][3][1])
             IN  Emit(d[1], Instr("Binary", n - 1, <<Local(n - 1), d[2]>>, "NullFallback"))
  IN  Fold(fallback, declared, [n \in DOMAIN params |-> n])
build_function(P, owned, f) ==
  LET start == lower_parameters(P, StartFunction(f.ret, owned), f.params)
      value == lower_expression(P, start, f.body)
      done == IF f.body.k = "block" THEN flush_current_instructions(lower_block(P, start, f.body))
              ELSE IF is_terminated(value[1]) THEN flush_current_instructions(value[1])
              ELSE close_current_block(value[1], Return(<<value[2]>>))
  IN  [params |-> Len(f.params), locals |-> done.locals, blocks |-> done.blocks, async |-> f.async]
=============================================================================
