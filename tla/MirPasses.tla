------------------------------ MODULE MirPasses ------------------------------
(***************************************************************************)
(* From lowered MIR to optimized MIR: the conversion to static single      *)
(* assignment form, then the optimization passes in the order the pass     *)
(* manager runs them.  A module is a sequence of functions; the ref of a   *)
(* Call is <<"fn", index from 0>> or <<"ext", name>>.                      *)
(***************************************************************************)
EXTENDS Mir, VmOperators

(***************************************************************************)
(* Conversion of a lowered function to static single assignment form.      *)
(* Every assignment defines a fresh local; where several blocks meet, a    *)
(* variable that is read becomes a block parameter, and every edge passes  *)
(* the value the variable has at its end.  The builder threads             *)
(*   preds   the predecessors of each block, in block order                *)
(*   locals  the declarations so far                                        *)
(*   def     the value of a variable in a block, where it is known         *)
(*   params  the block parameters created: <<variable, local>>             *)
(*   phis    those whose operands are not read yet: <<block, variable>>    *)
(***************************************************************************)

Predecessors(f) ==
  [b \in BlockIds(f) |->
     FlattenSeq([n \in DOMAIN f.blocks |->
       SelectSeq([k \in DOMAIN f.blocks[n].term.to |-> <<f.blocks[n].id, f.blocks[n].term.to[k]>>],
                 LAMBDA e : e[2] = b)])]

StartBuilder(f) ==
  [preds |-> [b \in BlockIds(f) |-> [n \in DOMAIN Predecessors(f)[b] |-> Predecessors(f)[b][n][1]]],
   locals |-> f.locals, phis |-> <<>>,
   def |-> [k \in {<<0, l>> : l \in Parameters(f)} |-> k[2]],
   params |-> [b \in BlockIds(f) |-> <<>>]]

write_variable(s, block, variable, value) ==
  [s EXCEPT !.def = (<<block, variable>> :> value) @@ @]

(* A local declared like an existing one; its id is the old number of locals. *)
Redeclare(s, l) == [s EXCEPT !.locals = Append(@, @[l + 1])]

(* The result is <<builder, local>>.                                        *)
RECURSIVE read_variable(_, _, _)
read_variable(s, block, variable) ==
  IF <<block, variable>> \in DOMAIN s.def THEN <<s, s.def[<<block, variable>>]>>
  ELSE CASE Len(s.preds[block]) = 0 -> <<write_variable(s, block, variable, variable), variable>>
         [] Len(s.preds[block]) = 1 ->
              LET r == read_variable(s, s.preds[block][1], variable)
              IN  <<write_variable(r[1], block, variable, r[2]), r[2]>>
         [] OTHER ->
              LET phi == Len(s.locals)
                  new == [Redeclare(s, variable) EXCEPT
                            !.params[block] = Append(@, <<variable, phi>>),
                            !.phis = Append(@, <<block, variable>>)]
              IN  <<write_variable(new, block, variable, phi), phi>>

(* replace_operand, over the operands of one instruction: <<builder, operands>>. *)
ReplaceOperands(s, block, operands) ==
  Fold(LAMBDA acc, o :
             IF o[1] # "local" THEN <<acc[1], Append(acc[2], o)>>
             ELSE LET r == read_variable(acc[1], block, o[2])
                  IN  <<r[1], Append(acc[2], Local(r[2]))>>,
           <<s, <<>>>>, operands)

define_destination(s, block, i) ==
  IF i.dest = None THEN <<s, i>>
  ELSE <<write_variable(Redeclare(s, i.dest), block, i.dest, Len(s.locals)),
         [i EXCEPT !.dest = Len(s.locals)]>>

replace_instruction(s, block, i) ==
  LET r == ReplaceOperands(s, block, IF i.op = "Drop" THEN <<Local(i.ref)>> ELSE i.args)
  IN  IF i.op = "Drop" THEN <<r[1], [i EXCEPT !.ref = r[2][1][2]]>>
      ELSE define_destination(r[1], block, [i EXCEPT !.args = r[2]])

(* One block, instructions first, then what its terminator reads.          *)
ReplaceBlock(s, b) ==
  LET code == Fold(LAMBDA acc, i : LET r == replace_instruction(acc[1], b.id, i)
                                       IN  <<r[1], Append(acc[2], r[2])>>, <<s, <<>>>>, b.code)
      term == IF b.term.op \in {"Return", "Branch"} THEN ReplaceOperands(code[1], b.id, b.term.args)
              ELSE <<code[1], b.term.args>>
  IN  <<term[1], [b EXCEPT !.code = code[2], !.term.args = term[2]]>>

(* Read the operands of every block parameter; reading may create more.    *)
RECURSIVE EvaluatePhis(_)
EvaluatePhis(s) ==
  IF s.phis = <<>> THEN s
  ELSE LET phi == Head(s.phis)
       IN  EvaluatePhis(Fold(LAMBDA acc, p : read_variable(acc, p, phi[2])[1],
                                 [s EXCEPT !.phis = Tail(@)], s.preds[phi[1]]))

(* The arguments of an edge: a variable still under its own name was never *)
(* assigned on the way, and is null unless it is a parameter.              *)
EdgeArguments(s, f, from, to) ==
  Fold(LAMBDA acc, p :
             LET r == read_variable(acc[1], from, p[1])
             IN  <<r[1], Append(acc[2], IF r[2] = p[1] /\ p[1] \notin Parameters(f)
                                        THEN Null ELSE Local(r[2]))>>,
           <<s, <<>>>>, s.params[to])
PassArguments(s, f, b) ==
  Fold(LAMBDA acc, to : LET r == EdgeArguments(acc[1], f, b.id, to)
                            IN  <<r[1], Append(acc[2], r[2])>>, <<s, <<>>>>, b.term.to)

convert_to_ssa(f) ==
  LET done == Fold(LAMBDA acc, b : LET r == ReplaceBlock(acc[1], b)
                                       IN  <<r[1], Append(acc[2], r[2])>>,
                       <<StartBuilder(f), <<>>>>, f.blocks)
      s == EvaluatePhis(done[1])
      linked == Fold(LAMBDA acc, b :
                           LET r == PassArguments(acc[1], f, b)
                           IN  <<r[1], Append(acc[2],
                                 [b EXCEPT !.params = [n \in DOMAIN s.params[b.id] |-> s.params[b.id][n][2]],
                                           !.term.pass = r[2]])>>,
                         <<s, <<>>>>, done[2])
  IN  [f EXCEPT !.locals = linked[1].locals, !.blocks = linked[2]]

-----------------------------------------------------------------------------
(* The passes. *)
IsUse(i, kind) == i.op = "Use" /\ i.args[1][1] = kind
MapBlocks(f, code) == [f EXCEPT !.blocks = [n \in DOMAIN @ |-> [@[n] EXCEPT !.code = code[n]]]]

(* simplify_local_identities: x = x goes away. *)
simplify_local_identities(f) ==
  MapBlocks(f, [n \in DOMAIN f.blocks |->
    SelectSeq(f.blocks[n].code, LAMBDA i : ~(IsUse(i, "local") /\ i.args[1][2] = i.dest))])

-----------------------------------------------------------------------------
(* Constants: what the locals of one block are known to be.                *)

Unknown == <<"unknown", 0>>
resolve_constant(known, o) ==
  IF o[1] = "const" THEN <<o[2], o[3]>>
  ELSE IF o[2] \in DOMAIN known THEN known[o[2]] ELSE Unknown

fold_primitive_binary(op, l, r) ==
  IF l[1] # r[1] \/ l[1] \notin NumericTypes \/ op \notin TypedOps THEN Unknown
  ELSE IF op \in Equalities THEN equal_values(op, l, r)
  ELSE IF op \in Orders THEN compare_values(op, l, r)
  ELSE IF l[1] \in FloatTypes THEN Value(l[1], FloatArith(op, l[1], l[2], r[2]))
  ELSE IF op \in {"Divide", "Remainder"} /\ r[2] = 0 THEN Unknown
  ELSE IntegerArith(op, l[1], l[2], r[2], TRUE)

FoldInstruction(known, i) ==
  LET v == CASE i.op = "Use" -> resolve_constant(known, i.args[1])
             [] i.op = "Binary" -> fold_primitive_binary(i.ref, resolve_constant(known, i.args[1]),
                                                         resolve_constant(known, i.args[2]))
             [] OTHER -> Unknown
  IN  IF i.op \notin RValues THEN <<known, i>>
      ELSE IF v = Unknown THEN <<[l \in DOMAIN known \ {i.dest} |-> known[l]], i>>
      ELSE <<(i.dest :> v) @@ known, Instr("Use", i.dest, <<Const(v[1], v[2])>>, None)>>
FoldBlock(code) ==
  Fold(LAMBDA acc, i : LET r == FoldInstruction(acc[1], i) IN <<r[1], Append(acc[2], r[2])>>,
           <<<<>>, <<>>>>, code)[2]
propagate_and_fold_constants(f) ==
  MapBlocks(f, [n \in DOMAIN f.blocks |-> FoldBlock(f.blocks[n].code)])

-----------------------------------------------------------------------------
(* Copies *)

(* The blocks that lie on every path to a block: the greatest fixpoint.    *)
RECURSIVE DominatorSets(_, _)
DominatorSets(f, sets) ==
  LET preds(b) == {n \in DOMAIN f.blocks : b \in ToSet(f.blocks[n].term.to)}
      meet(b) == {d \in BlockIds(f) : \A n \in preds(b) : d \in sets[f.blocks[n].id]}
      next == [b \in BlockIds(f) |->
                 IF b = f.blocks[1].id \/ preds(b) = {} THEN {b} ELSE {b} \cup meet(b)]
  IN  IF Evaluated(next) = sets THEN sets ELSE DominatorSets(f, next)
dominators(f) == DominatorSets(f, [b \in BlockIds(f) |-> BlockIds(f)])

(* Copies between locals that own nothing and are each defined once.       *)
collect_copy_definitions(f) ==
  LET defs == Definitions(f)
      once(l) == Cardinality({n \in DOMAIN defs : defs[n] = l}) = 1
      plain(l) == ~f.locals[l + 1].owned /\ once(l)
      at(s) == f.blocks[s[1]].code[s[2]]
      every == UNION {{<<n, k>> : k \in DOMAIN f.blocks[n].code} : n \in DOMAIN f.blocks}
      sites == {s \in every : IsUse(at(s), "local") /\ plain(at(s).dest) /\ plain(at(s).args[1][2])}
  IN  [d \in {at(s).dest : s \in sites} |->
         LET s == CHOOSE x \in sites : at(x).dest = d
         IN  [source |-> at(s).args[1][2], block |-> f.blocks[s[1]].id, index |-> s[2]]]

(* Follow copies while each is sure to have happened before the use.       *)
RECURSIVE CopySource(_, _, _, _, _)
CopySource(copies, doms, block, index, l) ==
  IF l \notin DOMAIN copies THEN l
  ELSE LET c == copies[l]
       IN  IF c.block \notin doms[block] \/ (c.block = block /\ c.index >= index) THEN l
           ELSE CopySource(copies, doms, block, index, c.source)

EndOfBlock == 1000
propagate_function_copies(f) ==
  LET copies == collect_copy_definitions(f)
      doms == dominators(f)
      map(b, k) == [l \in DOMAIN copies |-> Local(CopySource(copies, doms, b.id, k, l))]
      instruction(b, k) ==
        LET i == RewriteInstruction(b.code[k], map(b, k))
        IN  IF i.op = "Drop" THEN [i EXCEPT !.ref = CopySource(copies, doms, b.id, k, @)] ELSE i
      block(b) == [b EXCEPT !.code = [k \in DOMAIN @ |-> instruction(b, k)],
                            !.term = RewriteTerminator(@, map(b, EndOfBlock))]
  IN  IF copies = <<>> THEN f ELSE [f EXCEPT !.blocks = [n \in DOMAIN @ |-> block(@[n])]]
(* A function the rewriting would make invalid keeps its copies.           *)
propagate_ssa_copies(f) ==
  LET g == Evaluated(propagate_function_copies(f)) IN IF validate_function(g) = {} THEN g ELSE f

-----------------------------------------------------------------------------
(* Dead definitions: a constant or a plain copy nobody reads.              *)
UsedLocals(f) ==
  UNION {TerminatorReads(f.blocks[n].term)
         \cup UNION {LET i == f.blocks[n].code[k]
                     IN  InstructionReads(i) \cup (IF i.op = "Drop" THEN {i.ref} ELSE {})
                     : k \in DOMAIN f.blocks[n].code}
         : n \in DOMAIN f.blocks}
remove_dead_constant_definitions(f) ==
  LET used == UsedLocals(f)
      plain(l) == ~f.locals[l + 1].owned
      dead(i) == /\ i.op = "Use" /\ i.dest \notin used /\ plain(i.dest)
                 /\ i.args[1][1] = "local" => plain(i.args[1][2])
                 /\ i.args[1][1] = "const" => i.args[1][2] # "string"
  IN  MapBlocks(f, [n \in DOMAIN f.blocks |-> SelectSeq(f.blocks[n].code, LAMBDA i : ~dead(i))])

-----------------------------------------------------------------------------
(* Inlining of small leaf functions *)

MaxInlineInstructions == 8
MaxInlineLocals == 16
is_inline_candidate(f) ==
  /\ ~f.async /\ Len(f.blocks) = 1 /\ Len(f.locals) <= MaxInlineLocals
  /\ Len(f.blocks[1].code) <= MaxInlineInstructions /\ f.blocks[1].params = <<>>
  /\ f.blocks[1].term.op = "Return" /\ f.blocks[1].term.args # <<>>
  /\ \A k \in DOMAIN f.blocks[1].code :
       f.blocks[1].code[k].op \in {"Use", "Unary", "Binary", "Cast", "Copy"}

(* The body of g, its locals renamed to fresh ones from base on.           *)
InlinedBody(g, args, dest, base) ==
  LET map == [l \in Declared(g) |-> Local(base + l)]
      pass == [n \in DOMAIN args |-> Instr("Use", base + n - 1, <<args[n]>>, None)]
      body == [k \in DOMAIN g.blocks[1].code |->
                 [RewriteInstruction(g.blocks[1].code[k], map) EXCEPT !.dest = base + @]]
      result == Rewrite(g.blocks[1].term.args, map)
  IN  pass \o body \o <<Instr("Use", dest, result, None)>>

InlineCall(module, limit, acc, i) ==
  LET g == module[i.ref[2] + 1]
      added == Len(i.args) + Len(g.blocks[1].code)
      inline == /\ i.op = "Call" /\ i.ref[1] = "fn" /\ is_inline_candidate(g)
                /\ Len(i.args) = g.params /\ acc.size + added <= limit
  IN  IF ~inline THEN [acc EXCEPT !.code = Append(@, i)]
      ELSE [locals |-> acc.locals \o g.locals, size |-> acc.size + added,
            code |-> acc.code \o InlinedBody(g, i.args, i.dest, Len(acc.locals))]
inline_in_function(module, f, limit) ==
  LET size == Fold(LAMBDA s, b : s + Len(b.code), 0, f.blocks)
      block(acc, b) ==
        LET r == Fold(LAMBDA a, i : InlineCall(module, limit, a, i),
                          [locals |-> acc.locals, size |-> acc.size, code |-> <<>>], b.code)
        IN  [locals |-> r.locals, size |-> r.size, blocks |-> Append(acc.blocks, [b EXCEPT !.code = r.code])]
      end == Fold(block, [locals |-> f.locals, size |-> size, blocks |-> <<>>], f.blocks)
  IN  [f EXCEPT !.locals = end.locals, !.blocks = end.blocks]
inline_functions(module, limit) ==
  [n \in DOMAIN module |->
     IF module[n].async THEN module[n] ELSE inline_in_function(module, module[n], limit)]

-----------------------------------------------------------------------------
(* Self calls in tail position: only drops may stand between the call and  *)
(* the return of its result.                                                *)
TailCallAt(b, id) ==
  LET others == {k \in DOMAIN b.code : b.code[k].op # "Drop"}
      k == Max(others)
  IN  IF /\ b.term.op = "Return" /\ others # {}
         /\ b.code[k].op = "Call" /\ b.code[k].ref = <<"fn", id>>
         /\ b.term.args \in {<<>>, <<Local(b.code[k].dest)>>}
      THEN k ELSE None
optimize_tail_calls(f, id) ==
  [f EXCEPT !.blocks = [n \in DOMAIN @ |->
     LET b == @[n]
         k == TailCallAt(b, id)
     IN  IF k = None THEN b
         ELSE [b EXCEPT !.code = SubSeq(@, 1, k - 1),
                        !.term = Term("TailCall", b.code[k].args, <<>>, b.code[k].ref)]]]

-----------------------------------------------------------------------------
(* The manager: the module is validated before and after every pass, and   *)
(* an error ends the compilation.  Stage 0 is the module as it came.       *)
validate_module(module) == UNION {validate_function(module[n]) : n \in DOMAIN module}
InlineLimit == 512
Pass(stage, module) ==
  CASE stage = 1 -> [n \in DOMAIN module |-> simplify_local_identities(module[n])]
    [] stage = 2 -> [n \in DOMAIN module |-> propagate_and_fold_constants(module[n])]
    [] stage = 3 -> [n \in DOMAIN module |-> propagate_ssa_copies(module[n])]
    [] stage = 4 -> [n \in DOMAIN module |-> remove_dead_constant_definitions(module[n])]
    [] stage = 5 -> inline_functions(module, InlineLimit)
    [] stage = 6 -> [n \in DOMAIN module |-> optimize_tail_calls(module[n], n - 1)]
Stages == 6
=============================================================================
