-------------------------------- MODULE Mir --------------------------------
(***************************************************************************)
(* The mid-level intermediate representation and its validator.            *)
(*   operand      <<"local", id>> or <<"const", type, value>>              *)
(*   instruction  [op, dest, args, ref]; dest = None where there is none,  *)
(*                ref the callee, field, global, type or dropped local     *)
(*   terminator   [op, args, to, pass, ref]: the operands it reads, the    *)
(*                blocks it may go to, and the arguments it passes to each *)
(*   function     [params, locals, blocks, async]: the number of           *)
(*                parameters, the declarations [ty, owned] of locals 0, 1, *)
(*                ..., and the blocks [id, params, code, term] in layout   *)
(*                order                                                     *)
(* An instruction "Use", "Binary", ... is Assign(dest, RValue) of that     *)
(* right-hand side.                                                         *)
(***************************************************************************)
EXTENDS Iteration, Integers, Sequences, FiniteSets, SequencesExt

None == -1
Local(l) == <<"local", l>>
Const(ty, v) == <<"const", ty, v>>
Null == Const("null", 0)

Instr(op, dest, args, ref) == [op |-> op, dest |-> dest, args |-> args, ref |-> ref]
RValues ==
  {"Use", "Unary", "Binary", "Cast", "Copy", "NewStruct", "NewArray", "NewArrayDynamic", "NewArrayZeroedDynamic",
   "NewTuple", "MemberAccess", "ArrayIndex", "Choice", "ChoiceVariantIs", "ImportedChoiceVariantIs", "Instanceof",
   "LoadGlobal", "Len", "CreateFuture", "CreateIndirectFuture"}
Stores == {"StoreGlobal", "StoreIndex", "StoreField"}
Awaits == {"Await", "AwaitAll", "AwaitRace"}

Term(op, args, to, ref) ==
  [op |-> op, args |-> args, to |-> to, pass |-> [n \in DOMAIN to |-> <<>>], ref |-> ref]
Jump(b) == Term("Jump", <<>>, <<b>>, None)
Branch(c, t, e) == Term("Branch", <<c>>, <<t, e>>, None)
Return(args) == Term("Return", args, <<>>, None)

(* for_each_rvalue_operand, for_each_instruction_operand: the locals an     *)
(* instruction reads.  Drop reads none.                                     *)
LocalsOf(operands) == {o[2] : o \in {x \in ToSet(operands) : x[1] = "local"}}
InstructionReads(i) == LocalsOf(i.args)

(* for_each_terminator_operand. *)
TerminatorReads(t) == LocalsOf(t.args) \cup UNION {LocalsOf(t.pass[n]) : n \in DOMAIN t.pass}

(* for_each_instruction_operand_mut, for_each_terminator_operand_mut: the  *)
(* same operands, rewritten by a map from locals to operands.              *)
Rewrite(operands, map) ==
  [n \in DOMAIN operands |->
     IF operands[n][1] = "local" /\ operands[n][2] \in DOMAIN map
     THEN map[operands[n][2]] ELSE operands[n]]
RewriteInstruction(i, map) == [i EXCEPT !.args = Rewrite(@, map)]
RewriteTerminator(t, map) ==
  [t EXCEPT !.args = Rewrite(@, map), !.pass = [n \in DOMAIN @ |-> Rewrite(@[n], map)]]

BlockIds(f) == {f.blocks[n].id : n \in DOMAIN f.blocks}
BlockOf(f, id) == f.blocks[CHOOSE n \in DOMAIN f.blocks : f.blocks[n].id = id]
Declared(f) == 0 .. (Len(f.locals) - 1)
Parameters(f) == 0 .. (f.params - 1)

-----------------------------------------------------------------------------
(* The validator *)

(* What a block leaves initialized: a local moved by Use, a store, an await *)
(* or a drop is gone until it is assigned again.                            *)
Moved(i) ==
  CASE i.op = "Use" \/ i.op \in Awaits -> LocalsOf(i.args)
    [] i.op \in Stores -> LocalsOf(<<i.args[Len(i.args)]>>)
    [] i.op = "Drop"   -> {i.ref}
    [] OTHER           -> {}
apply_initialization_effects(b, init) ==
  LET entered == init \cup ToSet(b.params)
      left == Fold(LAMBDA s, i : (s \ Moved(i)) \cup ({i.dest} \ {None}), entered, b.code)
  IN  IF b.term.op = "Return" THEN left \ LocalsOf(b.term.args) ELSE left

(* The greatest solution of the flow equations over the reachable blocks;  *)
(* the worklist of the code computes it in first-in-first-out order.       *)
Flow(f, m) ==
  LET b == BlockOf(f, Head(m.pending))
      out == apply_initialization_effects(b, m.init[b.id])
      next == SelectSeq(b.term.to, LAMBDA s : s \in BlockIds(f))
      merged == [s \in BlockIds(f) |->
                   IF s \notin ToSet(next) THEN m.init[s]
                   ELSE IF None \in m.init[s] THEN out ELSE m.init[s] \cap out]
      pending == Tail(m.pending) \o SelectSeq(next, LAMBDA s : merged[s] # m.init[s])
  IN  [init |-> merged, pending |-> pending, on |-> pending # <<>>]
FlowSteps == 12  \* 2^12 blocks taken from the worklist
initialized_at_block_entries(f) ==
  Iterate(LAMBDA m : Flow(f, m),
          [init |-> [b \in BlockIds(f) |-> IF b = 0 THEN Parameters(f) ELSE {None}],
           pending |-> <<0>>, on |-> TRUE], FlowSteps).init

(* The operands of one block that are not declared or not initialized.     *)
validate_operand(f, init, l) ==
  (IF l \notin Declared(f) THEN {"undeclared"} ELSE {})
  \cup (IF l \notin init THEN {"uninitialized"} ELSE {})
validate_basic_block(f, b, init) ==
  LET errors(s, ls) == UNION {validate_operand(f, s, l) : l \in ls}
      step(acc, i) ==
        [init |-> (IF i.op = "Drop" THEN acc.init \ {i.ref} ELSE acc.init) \cup ({i.dest} \ {None}),
         errors |-> acc.errors \cup errors(acc.init, InstructionReads(i))
                    \cup IF {i.dest, IF i.op = "Drop" THEN i.ref ELSE None} \subseteq Declared(f) \cup {None}
                         THEN {} ELSE {"undeclared"}]
      end == Fold(step, [init |-> init, errors |-> {}], b.code)
  IN  end.errors \cup IF b.term.op = "Jump" THEN {} ELSE errors(end.init, LocalsOf(b.term.args))

(* Every definition of the function, parameters first.                     *)
Definitions(f) ==
  [l \in 1 .. f.params |-> l - 1]
  \o FlattenSeq([n \in DOMAIN f.blocks |->
       f.blocks[n].params
       \o SelectSeq([k \in DOMAIN f.blocks[n].code |-> f.blocks[n].code[k].dest], LAMBDA d : d # None)])

validate_function(f) ==
  LET ids == BlockIds(f)
      shape == (IF Cardinality(ids) # Len(f.blocks) THEN {"duplicate block"} ELSE {})
      entry == initialized_at_block_entries(f)
      at(b) == (IF None \in entry[b.id] THEN Declared(f) ELSE entry[b.id]) \cup ToSet(b.params)
  IN  IF 0 \notin ids THEN shape \cup {"missing entry"}
      ELSE shape
           \cup (IF IsInjective(Definitions(f)) THEN {} ELSE {"assigned twice"})
           \cup UNION {
                  LET b == f.blocks[n]
                      goto(k) == IF b.term.to[k] \notin ids THEN {"undeclared block"}
                                 ELSE IF Len(b.term.pass[k]) # Len(BlockOf(f, b.term.to[k]).params)
                                      THEN {"argument count"} ELSE {}
                  IN  UNION {goto(k) : k \in DOMAIN b.term.to} \cup validate_basic_block(f, b, at(b))
                  : n \in DOMAIN f.blocks}
=============================================================================
