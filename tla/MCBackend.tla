------------------------------ MODULE MCBackend ------------------------------
(***************************************************************************)
(* The back half of a build: small programs through the whole compiler,    *)
(* the operators and parallel copies they rest on, one function or one     *)
(* package given to the optimizer, and the bytecode graph as a state       *)
(* machine.  A behaviour is about one of them.  What a task computes is    *)
(* looked at in the step that does it.                                      *)
(***************************************************************************)
EXTENDS Compilation, BytecodeGraph

(***************************************************************************)
(* Small programs through the whole compiler.  Every program has a struct  *)
(* S { b = 7, a }, a choice C { A(i32), B, D(i32, i32) }, a global g and   *)
(* four functions:                                                          *)
(*   0  main(x), whose body varies                                          *)
(*   1  add(p, q = 2), small enough to be inlined                           *)
(*   2  down(n), which calls itself in tail position                        *)
(*   3  later(n), async                                                     *)
(***************************************************************************)
MCBits == [t \in {"i32", "u32"} |-> 4] @@ [t \in {"i64", "u64"} |-> 8] @@ [t \in {"u8"} |-> 2]
MCSigned == {"i32", "i64"}
MCFloatMax == [f32 |-> 3, f64 |-> 7]

-----------------------------------------------------------------------------
(* Syntax *)
IntLit(n) == Node("literal", "i32", n, <<>>)
Var(x) == Node("name", "i32", x, <<>>)
Named(x, ty) == Node("name", ty, x, <<>>)
Bin(op, l, r) == Node("binary", "i32", op, <<l, r>>)
CallOf(ref, ty, args) == Node("call", ty, ref, args)
Flag == CallOf(<<"ext", "flag">>, "bool", <<>>)
Ex(e) == Node("expression", "null", "", <<e>>)
Tell(e) == Ex(CallOf(<<"ext", "emit">>, "null", <<e>>))
Id(x, ty) == Node("identifier", ty, x, <<>>)
Decl(x, ty, e) == Node("var", "null", "", <<Id(x, ty), e>>)
Set(op, t, e) == Node("assign", "null", op, <<t, e>>)
Member(e, f) == Node("member", "i32", f, <<e>>)
Index(e, i) == Node("index", "i32", "", <<e, i>>)
Blk(ss) == Node("block", "null", "", ss)
If1(c, a) == Node("if", "null", "", <<c, Blk(a)>>)
If2(c, a, b) == Node("if", "null", "", <<c, Blk(a), Blk(b)>>)
While(label, c, body) == Node("loop", "null", label, <<Blk(body), c>>)
Exit(k, label) == Node(k, "null", label, <<>>)
Give(e) == Node("return", "null", "", <<e>>)
Arm(p, e) == Node("arm", "i32", "", <<p, e>>)
Match(ty, e, arms) == Node("match", ty, "", <<e>> \o arms)
NewS(fields) == Node("struct", "S", "", fields)
Field(name, e) == Node("field", "i32", name, <<e>>)

Decls ==
  [sigs |-> (<<"ext", "flag">> :> <<>>) @@ (<<"ext", "emit">> :> <<>>)
            @@ (<<"fn", 1>> :> <<[ty |-> "i32", rest |-> FALSE], [ty |-> "i32", rest |-> FALSE]>>)
            @@ (<<"fn", 2>> :> <<[ty |-> "i32", rest |-> FALSE]>>)
            @@ (<<"fn", 3>> :> <<[ty |-> "i32", rest |-> FALSE]>>),
   structs |-> [S |-> <<[name |-> "b", ty |-> "i32", default |-> <<IntLit(7)>>],
                        [name |-> "a", ty |-> "i32", default |-> <<>>]>>],
   elements |-> [ints |-> "i32", bytes |-> "u8"],
   variants |-> [C |-> <<"A", "B", "D">>]]
Owned == {"S", "C", "ints", "bytes", "tuple", "future", "iterator"}

Function(params, ret, body, async) == [params |-> params, ret |-> ret, body |-> body, async |-> async]
Helpers ==
  <<Function(<<<<"p", "i32", <<>>>>, <<"q", "i32", <<IntLit(2)>>>>>>, "i32", Bin("Add", Var("p"), Var("q")), FALSE),
    Function(<<<<"n", "i32", <<>>>>>>, "i32",
             Blk(<<Tell(Var("n")),
                   If1(Node("binary", "bool", "Greater", <<Var("n"), IntLit(0)>>),
                       <<Give(CallOf(<<"fn", 2>>, "i32", <<Bin("Subtract", Var("n"), IntLit(1))>>))>>),
                   Give(IntLit(5))>>), FALSE),
    Function(<<<<"n", "i32", <<>>>>>>, "i32", Blk(<<Tell(Var("n")), Give(Bin("Add", Var("n"), IntLit(1)))>>), TRUE)>>
Program(body) ==
  [P |-> Decls, F |-> <<Function(<<<<"x", "i32", <<>>>>>>, "i32", Blk(body), FALSE)>> \o Helpers,
   owned |-> Owned, tuples |-> {"tuple"}, externals |-> <<"flag", "emit", "arrayIter", "range", "rangeSteps">>, globals |-> <<"g">>]

-----------------------------------------------------------------------------
(* Programs are listed, not collected in a set: a literal and a name do    *)
(* not compare.                                                             *)
Each(f(_), S) == [i \in DOMAIN S |-> f(S[i])]
Pairs(S, T) == FlattenSeq([i \in DOMAIN S |-> [j \in DOMAIN T |-> <<S[i], T[j]>>]])

(* Control flow around one variable and one object *)
Leaves ==
  <<Set("", Var("a"), Bin("Add", Var("a"), IntLit(1))), Set("Add", Var("a"), Var("x")), Tell(Var("a")),
    Set("Multiply", Member(Named("s", "S"), "b"), Var("a")), Tell(Named("s", "S"))>>
Small == <<Set("", Var("a"), Bin("Add", Var("a"), IntLit(1))), Tell(Named("s", "S")), Exit("break", ""),
           Exit("continue", ""), Give(Var("a")), Exit("break", "out")>>
Compounds ==
  Each(LAMBDA p : If2(Flag, <<p[1]>>, <<p[2]>>), Pairs(Leaves, Leaves))
  \o Each(LAMBDA p : If1(Flag, <<p, Give(Var("a"))>>), Leaves)
  \o Each(LAMBDA p : While("out", Flag, <<p[1], If1(Flag, <<p[2]>>), Tell(Var("a"))>>), Pairs(Leaves, Small))
Frame(body) ==
  Program(<<Decl("a", "i32", IntLit(1)), Decl("s", "S", NewS(<<Field("a", Var("x"))>>))>> \o body
          \o <<Tell(Named("s", "S")), Give(Var("a"))>>)
Flows == Each(Frame, Pairs(Leaves, Compounds))

(* Loops in loops: which loop a labelled exit leaves, and what it drops.   *)
Exits == Each(LAMBDA e : Exit(e[1], e[2]), Pairs(<<"break", "continue">>, <<"", "in", "out">>)) \o <<Give(Var("x"))>>
NestedLoops ==
  Each(LAMBDA p :
    Frame(<<While("out", Flag,
              <<Decl("t", "S", NewS(<<Field("a", Var("a"))>>)), Set("Add", Var("a"), IntLit(1)),
                While("in", Flag, <<Decl("u", "S", NewS(<<Field("b", Var("a")), Field("a", Var("a"))>>)),
                                    If1(Flag, <<p[1]>>), Tell(Named("u", "S"))>>),
                p[2], Tell(Named("t", "S"))>>)>>),
    Pairs(Exits, <<Set("Add", Var("a"), IntLit(2)), If1(Flag, <<Exit("continue", "")>>)>>))

(* Choices and match: the pattern of each arm, and bodies that return.     *)
Make(v, args) == Node("construct", "C", v, args)
PVar(x, ty) == Node("binding", ty, x, <<>>)
PLit(n) == Node("literal", "i32", n, <<>>)
PAny == Node("wildcard", "i32", "", <<>>)
PCase(v, ps) == Node("variant", "C", v, ps)
Subjects == <<Make("A", <<Var("x")>>), Make("A", <<IntLit(1)>>), Make("B", <<>>), Make("D", <<Var("a"), Var("x")>>),
              Make("D", <<Var("x"), IntLit(2)>>)>>
ArmLists ==
  <<<<Arm(PCase("A", <<PVar("m", "i32")>>), Bin("Add", Var("m"), Var("a"))), Arm(PAny, IntLit(0))>>,
    <<Arm(PCase("A", <<PLit(1)>>), IntLit(2)), Arm(PCase("A", <<PVar("m", "i32")>>), Var("m")),
      Arm(PCase("B", <<>>), Blk(<<Tell(IntLit(6)), Give(Var("a"))>>)),
      Arm(PCase("D", <<PVar("m", "i32"), PLit(2)>>), Blk(<<If1(Flag, <<Give(Var("m"))>>), Give(IntLit(3))>>)),
      Arm(PCase("D", <<PLit(1), PVar("n", "i32")>>), Var("n"))>>,
    <<Arm(PCase("D", <<PVar("m", "i32"), PVar("n", "i32")>>), Bin("Multiply", Var("m"), Var("n"))),
      Arm(PCase("B", <<>>), Blk(<<Tell(Var("a"))>>))>>>>
Matching ==
  Each(LAMBDA p : Frame(<<Decl("c", "C", p[1][1]), Decl("r", "i32", Match("i32", Named("c", "C"), p[1][2])),
                          p[2], Tell(Var("r")), Tell(Named("c", "C"))>>),
       Pairs(Pairs(Subjects, ArmLists), <<Set("Add", Var("a"), IntLit(1)), If1(Flag, <<Set("", Var("r"), IntLit(5))>>)>>))

(* Calls: defaults, inlining, tail calls, function values, async calls.    *)
Add(args) == CallOf(<<"fn", 1>>, "i32", args)
Down(e) == CallOf(<<"fn", 2>>, "i32", <<e>>)
Later(e) == CallOf(<<"fn", 3>>, "future", <<e>>)
Await(e) == Node("await", "i32", "", <<e>>)
Apply1(f, args) == Node("apply", "i32", "", <<f>> \o args)
Fn(n) == Node("function", "fn", n, <<>>)
Arguments == <<Var("a"), IntLit(2), Bin("Add", Var("x"), Var("a")), Add(<<Var("x")>>), Down(Var("a"))>>
CallForms(e) ==
  <<Add(<<e>>), Add(<<e, Var("a")>>), Add(<<Var("a"), e>>), Down(e), Await(Later(e)),
    Apply1(Fn(1), <<e, IntLit(1)>>), Apply1(Fn(2), <<e>>)>>
Futures(e) ==
  <<Decl("f", "future", Later(e)), Set("Add", Var("a"), IntLit(1)), Tell(Var("a")), Set("", Var("a"), Await(Named("f", "future")))>>
CallPrograms ==
  Each(LAMBDA p : Frame(<<If1(Flag, <<Set("", Var("a"), p[1])>>), Set("Add", Var("a"), p[2])>>),
       FlattenSeq(Each(LAMBDA e : Pairs(CallForms(e), SubSeq(CallForms(Var("x")), 1, 2)), Arguments)))
  \o Each(LAMBDA e : Frame(Futures(e)), Arguments)
  \o Each(LAMBDA e : Program(<<Decl("a", "i32", IntLit(1)), Give(e)>>), Each(Down, Arguments))

(* Arrays, tuples, spreads, destructuring, globals and iteration.          *)
Array(es, spread) == Node("array", "ints", spread, es)
Plainly(es) == Array(es, [n \in DOMAIN es |-> FALSE])
Tuple2(e, f) == Node("tuple", "tuple", "", <<e, f>>)
Ints(x) == Named(x, "ints")
Bindings ==
  <<Node("var", "null", "", <<Node("elements", "ints", "", <<Id("m", "i32"), Id("n", "i32")>>), Ints("v")>>),
    Node("var", "null", "", <<Node("elements", "ints", "", <<Id("m", "i32"),
           Node("rest", "ints", "", <<Id("n", "ints")>>)>>), Array(<<Var("a"), Ints("v"), Var("x")>>, <<FALSE, TRUE, FALSE>>)>>),
    Node("var", "null", "", <<Node("fields", "S", <<"a", "b">>, <<Id("m", "i32"), Id("n", "i32")>>), Named("s", "S")>>)>>
Steps1 ==
  <<Set("", Index(Ints("v"), IntLit(0)), Var("a")), Set("Add", Index(Ints("v"), IntLit(-1)), IntLit(2)),
    Set("", Index(Ints("v"), Var("x")), IntLit(5)), Set("", Var("g"), Bin("Add", Var("g"), Index(Ints("v"), IntLit(1)))),
    Set("Add", Index(Ints("v"), Var("x")), IntLit(1)), Tell(Index(Ints("v"), IntLit(2))),
    Set("Subtract", Member(Named("s", "S"), "a"), Var("g")),
    Tell(Array(<<Ints("v"), Var("a"), Ints("v")>>, <<TRUE, FALSE, TRUE>>)), Tell(Tuple2(Var("a"), Ints("v"))),
    Tell(NewS(<<Field("", Named("s", "S")), Field("b", Var("x"))>>)), Tell(Node("length", "i32", "", <<Ints("v")>>)),
    Tell(Node("copy", "ints", "", <<Ints("v")>>)),
    Node("for", "null", "", <<Id("e", "i32"), Ints("v"), Blk(<<Set("Add", Var("a"), Var("e")), If1(Flag, <<Exit("break", "")>>)>>)>>),
    Node("for", "null", "out", <<Id("e", "i32"), Ints("v"), Blk(<<If1(Flag, <<Exit("continue", "out")>>), Tell(Var("e"))>>)>>),
    Tell(Node("typeof", "i32", "", <<Ints("v"), Arm(Node("type", "S", "", <<>>), IntLit(1)), Arm(Node("type", "ints", "", <<>>), IntLit(2))>>))>>
Exclusive(e, f) == Node("range", "range", "exclusive", <<e, f>>)
Stepped(es) == Node("range", "range", "stepped", es)
ForIn(x, e, body) == Node("for", "null", "", <<Id(x, "i32"), e, Blk(body)>>)
Cases == <<Node("enumPath", "i32", 2, <<>>), Named("v", "ints"), Named("s", "S"), Node("choicePath", "C", "B", <<>>)>>
PImported(v, ps) == Node("imported", "C", v, ps)
Tests ==
  <<<<Arm(Node("enum", "i32", 3, <<>>), IntLit(1)), Arm(Node("enum", "i32", 2, <<>>), IntLit(2)), Arm(PAny, IntLit(0))>>,
    <<Arm(Node("type", "S", "m", <<>>), Node("group", "i32", "", <<Member(Named("m", "S"), "a")>>)), Arm(PAny, IntLit(0))>>,
    <<Arm(Node("fields", "S", <<"b">>, <<PLit(6)>>), IntLit(1)),
      Arm(Node("fields", "S", <<"a", "b">>, <<PVar("m", "i32"), PLit(7)>>), Node("unary", "i32", "Negate", <<Var("m")>>)), Arm(PAny, IntLit(0))>>,
    <<Arm(PImported("A", <<PVar("m", "i32")>>), Var("m")), Arm(PImported("B", <<>>), IntLit(4))>>>>
Numbered == <<<<1, 1>>, <<2, 2>>, <<3, 2>>, <<3, 3>>, <<4, 4>>, <<2, 3>>>>
MoreData ==
  Each(LAMBDA p : Frame(<<Decl("v", "ints", Node("filled", "ints", "", <<Var("x")>>)), Set("", Index(Ints("v"), Var("a")), IntLit(4)),
                          Tell(Match("i32", Cases[p[1]], Tests[p[2]])), Tell(Ints("v"))>>), Numbered)
  \o Each(LAMBDA e : Frame(<<ForIn("e", e, <<Set("Add", Var("a"), Var("e")), If1(Flag, <<Tell(Var("e"))>>)>>)>>),
          <<Exclusive(Var("a"), Var("x")), Stepped(<<Var("x"), IntLit(2)>>), Stepped(<<Var("x"), Var("x"), IntLit(2)>>)>>)
(* Arrays of a type narrower than what is put into them.                   *)
Byte(i) == Node("index", "u8", "", <<Named("v", "bytes"), IntLit(i)>>)
Byted ==
  Each(LAMBDA p : Frame(<<Decl("v", "bytes", p[1]), p[2], Tell(Byte(1)), Tell(Named("v", "bytes"))>>),
       Pairs(<<Node("filled", "bytes", "", <<Var("x")>>),
               Node("array", "bytes", <<FALSE, FALSE>>, <<Bin("Add", Var("x"), Var("a")), IntLit(1)>>)>>,
             <<Set("", Byte(0), Bin("Add", Var("x"), IntLit(2))), Set("Add", Byte(1), IntLit(3)), Set("", Byte(3), Var("x"))>>))
Data ==
  Each(LAMBDA p : Frame(<<Decl("v", "ints", Plainly(<<Var("x"), IntLit(4)>>)), p[1], p[2], Tell(Ints("v"))>>), Pairs(Steps1, Steps1))
  \o Each(LAMBDA d : Frame(<<Decl("v", "ints", Plainly(<<Var("x"), IntLit(4)>>)), d, Tell(Var("m")), Tell(Var("n")), Tell(Ints("v"))>>), Bindings)

(* Numbers: folded, with an immediate, typed and generic.                  *)
Lit(ty, n) == Node("literal", ty, n, <<>>)
Op(ty, op, l, r) == Node("binary", ty, op, <<l, r>>)
To(ty, e) == Node("cast", ty, ty, <<e>>)
Constants == <<<<"i32", 0>>, <<"i32", -8>>, <<"i32", 5>>, <<"i64", -3>>, <<"i64", 100>>, <<"f64", 0>>, <<"f64", 2>>>>
Operators == <<"Subtract", "Multiply", "Divide", "Remainder", "ShiftLeft", "BitwiseXor">>
ArithmeticOn(c, op, op2) ==
  LET ty == c[1]
      z == Named("z", ty)
  IN  Frame(<<Decl("y", ty, Lit(ty, 2)), Decl("z", ty, Op(ty, op, Named("y", ty), Lit(ty, c[2]))),
              Tell(z), If1(Flag, <<Set(op2, z, Named("x", "i32"))>>), Tell(Op(ty, op2, z, Lit(ty, c[2]))),
              Tell(To("i64", Op(ty, op, To(ty, Var("x")), z))),
              Tell(Op("bool", "Less", z, Lit(ty, c[2]))), Tell(Op("bool", "Equal", To(ty, Var("a")), Lit(ty, 1)))>>)
Integral(c, op) == c[1] # "f64" \/ op \in Arithmetic
Numbers ==
  Each(LAMBDA p : ArithmeticOn(p[1][1], p[1][2], p[2]),
       SelectSeq(Pairs(Pairs(Constants, Operators), <<"Add", "Divide">>), LAMBDA p : Integral(p[1][1], p[1][2])))

MCPrograms == Flows \o NestedLoops \o Matching \o CallPrograms \o Data \o Byted \o MoreData \o Numbers
BitStrings == {<<>>, <<TRUE>>, <<TRUE, TRUE, TRUE>>, <<TRUE, FALSE, TRUE>>}

-----------------------------------------------------------------------------
(* A task is one thing to do: compile a program, apply one operator on one *)
(* type or one cast, or pass the arguments of one edge.                     *)
VARIABLES
  task,          \* what is to be done
  done           \* whether it was done

CompileTasks == {[kind |-> "compile", n |-> n] : n \in DOMAIN MCPrograms}
NumericTasks ==
  {[kind |-> "operator", ty |-> ty, op |-> op] : ty \in NumericTypes, op \in ImmediateOps}
  \cup {[kind |-> "cast", ty |-> ty, to |-> to] : ty \in NumericTypes, to \in NumericTypes}
Sources == {Local(0), Local(1), Local(2), Local(3), Const("i32", 6)}
CopyTasks == {[kind |-> "copy", from |-> os] : os \in [1 .. 3 -> Sources]}
Doing(kind) == task.kind = kind /\ ~done /\ done'

Samples(ty) ==
  IF ty \in FloatTypes THEN {-2, -1, 0, 1, FloatMax[ty], Inf, -Inf, NaN}
  ELSE IF Bits[ty] <= 4 THEN Low(ty) .. High(ty)
  ELSE {Low(ty), Low(ty) + 1, -1, 0, 1, 2, 5, 100, High(ty)} \cap (Low(ty) .. High(ty))

-----------------------------------------------------------------------------
Input == <<Value("i32", 3)>>
Initially == [g |-> Value("i32", 4)]
Meant(p, n, form, bits) ==
  IF n < Emitted THEN MirOutcome(p.P, form.mir, Input, bits, Initially)
  ELSE ByteOutcome(form.image, Input, bits, Initially)
MeaningKept(p, forms) ==
  /\ \A bits \in BitStrings : \A n \in DOMAIN forms :
       forms[n].errors = {} => Meant(p, n, forms[n], bits) = SourceOutcome(p.P, p.F, Input, bits, Initially)
  /\ Last(forms).errors \subseteq {"uninitialized"}

(* Whatever the environment answers, the program tells it the same, ends   *)
(* the same way and leaves the same globals at every stage: lowered, in    *)
(* SSA form, after each pass of the pass manager, as bytecode, and         *)
(* optimized; and no stage reads a value that was dropped.  Neither the    *)
(* MIR validator, before and after each pass, nor the bytecode validator   *)
(* rejects what the compiler itself made, except that a local read after a *)
(* copy of it was stored counts as moved.                                   *)
(*   Left out of the programs are the forms whose lowering does not mean   *)
(* what the manual says: && and || and ??= (both sides are evaluated),      *)
(* nested destructuring, a compound assignment to a global, a call whose   *)
(* target has effects (the manual has the target first, the code the        *)
(* arguments), a bare return, the argument of loop(after), the empty loop,  *)
(* a folded -0.0, and the operands FormsAgree leaves out.                   *)
Meaning ==
  [][Doing("compile") => MeaningKept(MCPrograms[task.n], compile(MCPrograms[task.n]))]_<<task, done>>

Exempt(ty, op, l, r) ==
  \/ ty \in Signed /\ op \in {"Divide", "Remainder"} /\ l = Low(ty) /\ r = -1
  \/ ty \in FloatTypes /\ op = "Remainder"
OperationsAgree ==
  Doing("operator") =>
    LET ty == task.ty
        op == task.op
    IN  \A l \in Samples(ty), r \in Samples(ty) :
          LET x == Value(ty, l)
              y == Value(ty, r)
              folded == fold_primitive_binary(op, x, y)
              forms == {execute_operator_instruction(op, x, y)}
                       \cup (IF ty \in TypedTypes /\ op \in TypedOps THEN {typed_instruction(ty, op, x, y)} ELSE {})
                       \cup (IF ty \in ImmediateTypes THEN {immediate_binary_value(op, x, y)} ELSE {})
          IN  Exempt(ty, op, l, r)
              \/ /\ Cardinality(forms) = 1
                 /\ \A v \in forms :
                      /\ v[1] \in FloatTypes => normalize(v[2]) = v[2]
                      /\ folded # Unknown => v = PoolValue(folded)
                      /\ op \in {"Divide", "Remainder"} /\ ty \in IntTypes => (IsFault(v) <=> r = 0)

CastKeepsImmediate ==
  Doing("cast") =>
    \A n \in Samples(task.ty) :
      LET v == cast_immediate(Value(task.ty, n), task.to)
      IN  v # NoImmediate => PoolValue(v) = execute_cast(Value(task.ty, n), task.to)

(* An operation on two numbers of one type has one result, whether the     *)
(* compiler folds it, puts the right operand into the instruction, or      *)
(* emits the typed or the generic instruction; no result is a negative     *)
(* zero or an odd NaN; a zero divisor is a fault in each form and is never *)
(* folded.  The quotient that does not fit and the remainder of floats are *)
(* left out: there the forms differ.  And what the emitter believes a       *)
(* register holds after a cast of a known immediate is what the cast puts   *)
(* there.                                                                   *)
FormsAgree == [][OperationsAgree /\ CastKeepsImmediate]_<<task, done>>

CopyContext == [f |-> [locals |-> [n \in 1 .. 4 |-> [ty |-> "i32", owned |-> FALSE]]]]
CopyEmitter == [code |-> <<>>, temp |-> 1, max |-> 1, imm |-> <<>>, consts |-> <<>>, types |-> <<>>]
Moved3(e) ==
  Fold(LAMBDA regs, i : [regs EXCEPT ![i.args[1]] =
                           IF i.op = "LoadConst" THEN e.consts[i.ref + 1] ELSE regs[i.args[2]]],
       [r \in 0 .. (3 + e.max) |-> <<"register", r>>], e.code)
AssignedAtOnce ==
  LET e == emit_parallel_copies(CopyContext, CopyEmitter, <<0, 1, 2>>, task.from)
  IN  /\ e.temp = CopyEmitter.temp
      /\ \A n \in 1 .. 3 :
           Moved3(e)[n - 1] = IF task.from[n][1] = "local" THEN <<"register", task.from[n][2]>> ELSE <<"i32", 6>>
      /\ Moved3(e)[3] = <<"register", 3>> /\ Moved3(e)[4] = <<"register", 4>>
(* The moves emitted for an edge assign the block parameters all at once,  *)
(* whatever registers the arguments are in, and take no temporary beyond   *)
(* the terminator.                                                          *)
ParallelCopies == [][Doing("copy") => AssignedAtOnce]_<<task, done>>

-----------------------------------------------------------------------------
Graph == [kind |-> "graph"]
all == <<graphVars, task, done>>

-----------------------------------------------------------------------------
(* The graph: a and b may import each other and the proxy p; module 3 may  *)
(* also try to take the path of b.                                          *)
MCIds == 1 .. 3
GraphNode(path, imports, uses) ==
  [path |-> path, imports |-> imports, globals |-> 1, uses |-> uses, broken |-> FALSE,
   exports |-> <<<<"f", "function", 0>>, <<"g", "global", 0>>>>]
NodesOf(m) ==
  CASE m = 1 -> {GraphNode("a", <<>>, {}), GraphNode("a", <<<<"b", "f">>>>, {}),
                 GraphNode("a", <<<<"p", "f">>>>, {<<2, 0>>})}
    [] m = 2 -> {GraphNode("b", <<>>, {}), [GraphNode("b", <<>>, {}) EXCEPT !.exports = <<>>],
                 GraphNode("b", <<<<"a", "f">>>>, {}), GraphNode("b", <<<<"p", "f">>>>, {})}
    [] m = 3 -> {GraphNode("p", <<>>, {}), GraphNode("b", <<>>, {}),
                 [GraphNode("p", <<>>, {}) EXCEPT !.broken = TRUE]}
MCUpserts ==
  {<<>>} \cup UNION {{(m :> n) : n \in NodesOf(m)} : m \in MCIds}
  \cup {(1 :> n) @@ (2 :> o) @@ (3 :> q) :
          n \in NodesOf(1), o \in NodesOf(2), q \in {GraphNode("p", <<>>, {})}}
MCRemoveSets == {{}, {3}}
MCEdgeSets == {{}, {<<1, 2>>, <<2, 3>>, <<2, 1>>}, {<<1, 2>>, <<1, 3>>, <<2, 3>>}}
MCProxies == {"p"}
MCEntries == {"a", AnyEntry, "z"}
MCManifests == {<<>>, <<"p">>, <<"p", "p">>}

-----------------------------------------------------------------------------
(* Functions: five instructions of control, or seven of data flow.         *)
JumpTo(op, args, at, target) == Ins(op, args, 0, 0, target - at - 1, 0)
Control(at) ==
  {Plain("Move", <<1, 1>>), Plain("StoreGlobal", <<0>>)}
  \cup {JumpTo("Jump", <<>>, at, t) : t \in 0 .. 4} \cup {JumpTo("JumpTrue", <<0>>, at, t) : t \in 0 .. 4}
ControlCode ==
  {<<a, b, c, d, e>> : a \in Control(0), b \in {Plain("Move", <<1, 1>>), JumpTo("Jump", <<>>, 1, 2)},
     c \in Control(2), d \in Control(3), e \in {Plain("Ret", <<1>>), JumpTo("Jump", <<>>, 4, 2)}}
DataFlow ==
  {Ins("LoadConst", <<d>>, 0, 0, 0, d - 1) : d \in 1 .. 3}
  \cup {Plain("Neg", <<d, d - 1>>) : d \in 1 .. 3} \cup {Plain("Add", <<1, 2, 3>>)}
  \cup {Ins("NewTuple", <<d>>, s, 2, 0, 0) : d \in {1, 3}, s \in 0 .. 2}
DataCode ==
  {<<a, Plain("Neg", <<1, 1>>), c, d, e, Plain("StoreGlobal", <<3>>), Plain("Ret", <<1>>)>> :
     a \in DataFlow, c \in DataFlow, d \in DataFlow,
     e \in {JumpTo("JumpTrue", <<0>>, 4, 2), Plain("Neg", <<1, 1>>)}}

Fun(name, code) ==
  [name |-> name, proxy |-> FALSE, params |-> 1, locals |-> 1, temps |-> 2, code |-> code]
Name(layout, method) == [layout |-> layout, method |-> method, tag |-> 0]
Functions == {Fun(Name("S", "m"), c) : c \in ControlCode \cup DataCode}

-----------------------------------------------------------------------------
(* Packages: main, two methods and a helper in module 1, which imports the *)
(* first function of module 2.                                              *)
Module(functions, imports) ==
  [functions |-> functions, imports |-> imports, init |-> -1, exports |-> <<<<"function", 0>>>>,
   constants |-> <<<<"name", "m">>, <<"function", 2>>, <<"int", 7>>>>,
   types |-> <<<<"tuple", 2>>>>, structs |-> <<>>, choices |-> <<>>, globals |-> 0]
Call(f) == Ins("Call", <<1>>, 1, 1, 0, f)
LoadThe(c) == Ins("LoadConst", <<1>>, 0, 0, 0, c)
Method == [Plain("CallMethod", <<1, 0>>) EXCEPT !.count = 1]
Bodies == {<<>>, <<Call(2)>>, <<Call(3)>>, <<Call(4)>>, <<LoadThe(1)>>, <<Method, LoadThe(2)>>,
           <<JumpTo("Jump", <<>>, 0, 2), Call(3), LoadThe(1)>>,
           <<JumpTo("JumpTrue", <<0>>, 0, 2), Call(1)>>}
Ended(body) == Append(body, Plain("Ret", <<1>>))
Packages ==
  {(1 :> Module(<<Fun(Name("", "main"), Ended(a)), Fun(Name("S", "m"), Ended(b)),
                  Fun(Name("T", "k"), Ended(c)), Fun(Name("T", "m"), Ended(<<LoadThe(2)>>))>>, <<<<2, 1>>>>))
   @@ (2 :> Module(<<Fun(Name("", "lib"), Ended(d)), Fun(Name("S", "m"), Ended(<<LoadThe(2)>>)),
                     Fun(Name("", "aux"), Ended(<<LoadThe(2)>>))>>, <<>>)) :
     a \in Bodies, b \in Bodies, c \in {<<>>, <<Call(3)>>, <<Call(4)>>}, d \in {<<>>, <<Method>>, <<Call(2)>>}}
NoPrevious == [modules |-> <<>>, edges |-> {}, version |-> 0]
Edits(p) == {p, [p EXCEPT ![1].functions[1].code = Ended(<<LoadThe(1)>>)], [m \in {2} |-> p[2]]}

-----------------------------------------------------------------------------
Tasks ==
  NumericTasks \cup CopyTasks
  \cup {[kind |-> "function", f |-> f] : f \in Functions}
  \cup {[kind |-> "package", p |-> p] : p \in Packages}

MCInit ==
  /\ GraphInit
  /\ \/ task \in Tasks /\ done = FALSE
     \/ task = Graph /\ done = TRUE
     \/ task \in CompileTasks /\ done = FALSE
DoTask == ~done /\ done' = TRUE /\ UNCHANGED <<graphVars, task>>
StepGraph == task = Graph /\ GraphNext /\ UNCHANGED <<task, done>>
Finished == done /\ task # Graph /\ UNCHANGED all
MCNext == DoTask \/ StepGraph \/ Finished
MCSpec == MCInit /\ [][MCNext]_all

-----------------------------------------------------------------------------
(* A package finalized, and after each edit finalized again from the       *)
(* snapshot before: what was given, and what came out.                      *)
Finalizations(p, first) ==
  {<<p, first.modules>>} \cup {<<q, optimize_package(q, {}, first).modules>> : q \in Edits(p)}
Outcomes(p) == Finalizations(p, optimize_package(p, {}, NoPrevious))

FunctionStaysValid(m, g) ==
  ~g.panics /\ validate_bytecode_module(m) = {} =>
    validate_bytecode_module([m EXCEPT !.functions = <<g.f>>]) = {}
PackageStaysValid(p, out) ==
  \A m \in DOMAIN p : validate_bytecode_module(p[m]) = {} => validate_bytecode_module(out[m]) = {}

(* What the validator accepts it still accepts after optimization: no jump *)
(* leaves the function, no register, constant or function is out of range. *)
ValidStaysValid ==
  [][/\ Doing("function") => FunctionStaysValid(Module(<<task.f>>, <<>>), optimize_function(task.f))
     /\ Doing("package") => \A x \in Outcomes(task.p) : PackageStaysValid(x[1], x[2])]_all

EventsKept(f, g) ==
  ~g.panics => \A bits \in {<<TRUE>>, <<FALSE, TRUE>>} : SameMeaning(f, g.f, bits, 9)

DenotationsKept(p, out) ==
  \A m \in DOMAIN p :
    /\ \A f \in ToSet(out[m].functions) : \A g \in FunctionsNamed(p, m, f.name) :
         2 \in DOMAIN p /\ 1 \in DOMAIN p => References(out, m, f) = References(p, m, g)
    /\ \A n \in DOMAIN p[m].exports :
         FunctionDenoted(out, m, out[m].exports[n][2]) = FunctionDenoted(p, m, p[m].exports[n][2])

DispatchKept(p, out) ==
  \A m \in DOMAIN p, layout \in {"S", "T"} :
    \A name \in global_method_names(out) : call_method(out, m, layout, name) = call_method(p, m, layout, name)

(* Optimized code means what it meant.  optimize_function changes no       *)
(* observable event, whichever way its branches go, by jump threading, dead *)
(* code, compaction or register reuse.  Pruning renumbers functions and     *)
(* constants, and every call, constant and export still denotes what it     *)
(* denoted, in what remains reachable.  A method call finds at run time the *)
(* function it found before: methods are kept by name, in every module      *)
(* (is_called_method).                                                      *)
OptimizedMeaning ==
  [][/\ Doing("function") => EventsKept(task.f, optimize_function(task.f))
     /\ Doing("package") =>
          \A x \in Outcomes(task.p) : DenotationsKept(x[1], x[2]) /\ DispatchKept(x[1], x[2])]_all

(* Finalizing after an edit gives the modules that finalizing from nothing *)
(* gives: none of the snapshot before is stale or left behind               *)
(* (optimize_package).  It is said of the modules: the entry, the limits    *)
(* and the requirements of the package are not in this snapshot, and with   *)
(* no module changed the code returns those it had (see Workspace).         *)
IncrementalIsFresh == [][Doing("package") => \A x \in Outcomes(task.p) : x[2] = Finalized(x[1])]_all
=============================================================================
