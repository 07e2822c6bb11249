---------------------------- MODULE Compilation ----------------------------
(***************************************************************************)
(* One module through the compiler: every function is lowered and brought  *)
(* into SSA form, the pass manager runs its passes, validating before the  *)
(* first and after each, the functions are emitted, the bytecode is        *)
(* validated, and the optimizer runs when the package is finalized.  An     *)
(* error at any validation ends the compilation.                            *)
(*   A program is [P, F, owned, tuples, externals, globals]: the            *)
(* declarations and functions of Lowering, and what emission asks of its   *)
(* context.  A form is what one stage leaves: MIR or bytecode, and the     *)
(* errors found in it.                                                      *)
(***************************************************************************)
EXTENDS Lowering, Emission, PackageOptimizer

-----------------------------------------------------------------------------
(***************************************************************************)
(* What a program means, three times: as a syntax tree, as MIR and as       *)
(* bytecode.  A world w is what all three act on:                           *)
(*   heap     the objects allocated so far: [kind, items]                   *)
(*   events   what the program told its environment, objects in full       *)
(*   bits     the answers the environment still has for flag()             *)
(*   globals  the value of each global, by name                             *)
(*   steps    how many steps are left; a run that needs more "timed out"    *)
(* The result of running anything is a world with two more fields: the      *)
(* value val, and how it ended, st.                                         *)
(***************************************************************************)

Steps == 120
World(bits, globals) ==
  [heap |-> <<>>, events |-> <<>>, bits |-> bits, globals |-> globals, steps |-> Steps,
   val |-> NullValue, st |-> "ok"]
Object(k) == <<"obj", k>>
Gives(w, v) == IF IsFault(v) THEN [w EXCEPT !.val = v, !.st = "fault"] ELSE [w EXCEPT !.val = v]
Fails(w, kind) == Gives(w, Fault(kind))

New(w, kind, items) ==
  Gives([w EXCEPT !.heap = Append(@, [kind |-> kind, items |-> items])], Object(Len(w.heap) + 1))
IsObject(v) == v[1] = "obj"
Load(w, o, n) ==
  IF ~IsObject(o) THEN Fails(w, "mismatch")
  ELSE IF n \notin DOMAIN w.heap[o[2]].items THEN Fails(w, "bounds")
  ELSE Gives(w, w.heap[o[2]].items[n])
Store(w, o, n, v) ==
  IF ~IsObject(o) THEN Fails(w, "mismatch")
  ELSE IF n \notin DOMAIN w.heap[o[2]].items THEN Fails(w, "bounds")
  ELSE [w EXCEPT !.heap[o[2]].items[n] = v]
Position(w, o, index) ==
  resolve_raw_array_index(index[2], Len(w.heap[o[2]].items)) + 1

(* Arrays.  elements gives the element type of each array type: an array   *)
(* is filled with the zero of it, and what is stored is cast to it.  A     *)
(* read out of range gives null, a store out of range is a fault.          *)
zero_value_for_type(ty) == IF ty \in Numeric THEN Value(ty, 0) ELSE IF ty = "bool" THEN Bool(FALSE) ELSE NullValue
Stored(elements, kind, v) == IF kind \in DOMAIN elements THEN execute_cast(v, elements[kind]) ELSE v
NewArray(elements, w, kind, items) ==
  LET stored == [n \in DOMAIN items |-> Stored(elements, kind, items[n])]
  IN  IF \E n \in DOMAIN stored : IsFault(stored[n]) THEN Fails(w, "mismatch") ELSE New(w, kind, stored)
FilledArray(elements, w, kind, len) ==
  IF len[1] \notin IntTypes \/ len[2] < 0 THEN Fails(w, "mismatch")
  ELSE New(w, kind, [n \in 1 .. len[2] |-> zero_value_for_type(elements[kind])])
Indexable(o, index) == IsObject(o) /\ index[1] \in IntTypes
LoadIndex(w, o, index) ==
  IF ~Indexable(o, index) THEN Fails(w, "mismatch")
  ELSE IF Position(w, o, index) = 0 THEN Gives(w, NullValue) ELSE Load(w, o, Position(w, o, index))
StoreIndex(elements, w, o, index, v) ==
  LET stored == Stored(elements, w.heap[o[2]].kind, v)
  IN  IF ~Indexable(o, index) THEN Fails(w, "mismatch")
      ELSE IF Position(w, o, index) = 0 THEN Fails(w, "bounds")
      ELSE IF IsFault(stored) THEN Gives(w, stored) ELSE Store(w, o, Position(w, o, index), stored)
LengthOf(w, o) == IF IsObject(o) THEN Value("i32", Len(w.heap[o[2]].items)) ELSE Mismatch
IsVariant(w, v, variant) == Bool(IsObject(v) /\ w.heap[v[2]].kind = variant)
IsOf(w, v, ty) == Bool(IF IsObject(v) THEN w.heap[v[2]].kind = ty ELSE v[1] = ty)

(* A value with everything it refers to.                                   *)
RECURSIVE Snapshot(_, _)
Snapshot(w, v) ==
  IF ~IsObject(v) THEN v
  ELSE <<"obj", w.heap[v[2]].kind, [n \in DOMAIN w.heap[v[2]].items |-> Snapshot(w, w.heap[v[2]].items[n])]>>

(* A deep copy of a value, for the copy expression.                        *)
RECURSIVE DeepCopy(_, _)
DeepCopy(w, v) ==
  IF ~IsObject(v) THEN Gives(w, v)
  ELSE LET parts == Fold(LAMBDA acc, x : LET r == DeepCopy(acc[1], x) IN <<r, Append(acc[2], r.val)>>,
                             <<w, <<>>>>, w.heap[v[2]].items)
       IN  New(parts[1], w.heap[v[2]].kind, parts[2])

(* The environment's functions, and methods of primitive values.           *)
External(w, name, args) ==
  CASE name = "flag" -> [w EXCEPT !.val = Bool(w.bits # <<>> /\ Head(w.bits)),
                                  !.bits = IF @ = <<>> THEN @ ELSE Tail(@)]
    [] name = "emit" -> [w EXCEPT !.events = Append(@, Snapshot(w, args[1])), !.val = NullValue]
    [] name = "compare" -> Gives(w, equal_values("Equal", args[1], args[2]))
    [] name = "arrayIter" -> New(w, "iterator", <<args[1], Value("i32", 0)>>)
    [] name \in {"range", "rangeSteps"} ->
         LET step == IF name = "range" THEN 1 ELSE args[3][2]
             count == IF name = "range" THEN args[2][2] - args[1][2] ELSE args[2][2]
             all == New(w, "ints", [n \in 1 .. Max({count, 0}) |-> Value("i32", Wrap("i32", args[1][2] + step * (n - 1)))])
         IN  New(all, "iterator", <<all.val, Value("i32", 0)>>)
    [] name = "iter" -> Gives(w, args[1])
    [] name = "next" ->
         LET it == w.heap[args[1][2]].items
             array == w.heap[it[1][2]].items
         IN  IF it[2][2] = Len(array) THEN Gives(w, NullValue)
             ELSE Gives([w EXCEPT !.heap[args[1][2]].items[2][2] = @ + 1], array[it[2][2] + 1])

(* Numbers of one type have the typed operation, whatever form the code    *)
(* takes; other operands the generic one.                                  *)
Binary(op, l, r) ==
  IF l[1] = r[1] /\ l[1] \in TypedTypes /\ op \in TypedOps THEN typed_instruction(l[1], op, l, r)
  ELSE execute_operator_instruction(op, l, r)

(* Convert where both types are numeric, as insert_cast_if_needed does.    *)
Convert(v, ty) == IF {v[1], ty} \subseteq Numeric THEN execute_cast(v, ty) ELSE v

-----------------------------------------------------------------------------
(* The syntax tree.  F is a sequence of functions [params, ret, body,      *)
(* async], env maps names to values; both travel in the state s = [w, env]. *)

RECURSIVE Do(_, _, _, _), DoEach(_, _, _, _, _), Apply(_, _, _, _, _), Matches(_, _, _, _, _),
          Repeat(_, _, _, _), ForEach(_, _, _, _, _), Take(_, _, _, _), Fields(_, _, _, _, _)

On(s) == s.w.st = "ok"
Put(s, w) == [s EXCEPT !.w = w]
SetVal(s, v) == Put(s, Gives(s.w, v))
Tick(s) == IF s.w.steps = 0 THEN Put(s, Fails(s.w, "timeout")) ELSE [s EXCEPT !.w.steps = @ - 1]

(* Children from left to right: their values, while nothing stops it.      *)
DoEach(P, F, s, nodes, values) ==
  IF nodes = <<>> \/ ~On(s) THEN <<s, values>>
  ELSE LET r == Do(P, F, s, Head(nodes)) IN DoEach(P, F, r, Tail(nodes), Append(values, r.w.val))

(* Call function n: its own environment, then back to the caller's.        *)
Apply(P, F, s, n, args) ==
  LET f == F[n + 1]
      given(k) == IF k \in DOMAIN args THEN args[k] ELSE NullValue
      in == [s EXCEPT !.env = [x \in {f.params[k][1] : k \in DOMAIN f.params} |->
                                 given(CHOOSE k \in DOMAIN f.params : f.params[k][1] = x)]]
      default(acc, k) == IF f.params[k][3] = <<>> \/ acc.env[f.params[k][1]][1] # "null" THEN acc
                         ELSE LET r == Do(P, F, acc, f.params[k][3][1])
                              IN  [r EXCEPT !.env[f.params[k][1]] = r.w.val]
      started == Fold(default, Tick(in), [k \in DOMAIN f.params |-> k])
      ran == IF On(started) THEN Do(P, F, started, f.body) ELSE started
      out == [ran EXCEPT !.env = s.env]
  IN  IF ran.w.st = "return" THEN Put(out, [ran.w EXCEPT !.st = "ok"])
      ELSE IF f.body.k = "block" /\ On(ran) THEN SetVal(out, NullValue) ELSE out
CallRef(P, F, s, ref, args) ==
  IF ref[1] = "fn" THEN Apply(P, F, s, ref[2], args) ELSE Put(s, External(s.w, ref[2], args))
ConvertArgs(args, params) ==
  [n \in DOMAIN args |-> IF n \in DOMAIN params THEN Convert(args[n], params[n].ty) ELSE args[n]]

(* The fields of a struct literal, in declaration order.                   *)
Fields(P, F, s, decls, acc) ==
  LET d == Head(decls)
      named == {n \in DOMAIN acc.given : acc.given[n].name = d.name}
      spread == {n \in DOMAIN acc.given : acc.given[n].name = NoSymbol /\ d.name \in acc.given[n].has}
      object == acc.given[Min(spread)]
      r == IF named # {} THEN SetVal(s, acc.given[Max(named)].value)
           ELSE IF spread # {}
                THEN Put(s, Load(s.w, object.value, CHOOSE n \in DOMAIN object.names : object.names[n] = d.name))
           ELSE IF d.default # <<>> THEN Do(P, F, s, d.default[1]) ELSE SetVal(s, NullValue)
  IN  IF decls = <<>> \/ ~On(s) THEN <<s, acc.values>>
      ELSE Fields(P, F, r, Tail(decls), [acc EXCEPT !.values = Append(@, r.w.val)])

FieldAt(P, ty, name) ==
  IF ty \in DOMAIN P.structs THEN CHOOSE n \in DOMAIN P.structs[ty] : P.structs[ty][n].name = name ELSE name + 1

(* A pattern: <<matches, environment>>.                                    *)
Matches(P, w, env, p, v) ==
  LET parts(members, patterns) ==
        Fold(LAMBDA acc, n : IF acc[1] THEN Matches(P, w, acc[2], patterns[n], members[n]) ELSE acc,
                 <<TRUE, env>>, [n \in DOMAIN patterns |-> n])
  IN  CASE p.k = "literal" -> <<v = Value(p.ty, p.ref), env>>
        [] p.k = "enum" -> <<v = Value(p.ty, p.ref), env>>
        [] p.k = "wildcard" -> <<TRUE, env>>
        [] p.k = "binding" -> <<TRUE, (p.ref :> v) @@ env>>
        [] p.k = "type" -> <<IsOf(w, v, p.ty) = Bool(TRUE), IF p.ref = NoSymbol THEN env ELSE (p.ref :> v) @@ env>>
        [] p.k \in {"variant", "imported"} ->
             IF IsVariant(w, v, p.ref) # Bool(TRUE) THEN <<FALSE, env>>
             ELSE LET payload == w.heap[v[2]].items[1]
                  IN  IF p.kids = <<>> THEN <<TRUE, env>>
                      ELSE IF Len(p.kids) = 1 THEN Matches(P, w, env, p.kids[1], payload)
                      ELSE parts(w.heap[payload[2]].items, p.kids)
        [] p.k = "fields" ->
             IF IsOf(w, v, p.ty) # Bool(TRUE) THEN <<FALSE, env>>
             ELSE parts([n \in DOMAIN p.kids |-> w.heap[v[2]].items[FieldAt(P, p.ty, p.ref[n])]], p.kids)

(* The body of an arm: a return in it gives the value of the match.        *)
ArmValue(P, F, s, body) ==
  LET r == Do(P, F, s, body)
  IN  IF r.w.st = "return" THEN Put(r, [r.w EXCEPT !.st = "ok"])
      ELSE IF body.k = "block" /\ On(r) THEN SetVal(r, NullValue) ELSE r
Take(P, F, s, arms) ==
  LET m == Matches(P, s.w, s.env, Head(arms).kids[1], s.w.val)
  IN  IF arms = <<>> THEN Put(s, Fails(s.w, "panic"))
      ELSE IF m[1] THEN ArmValue(P, F, [s EXCEPT !.env = m[2]], Head(arms).kids[2])
      ELSE Take(P, F, s, Tail(arms))

(* Declarations by pattern. *)
RECURSIVE Declare(_, _, _, _)
Declare(P, s, p, v) ==
  LET item(n) == s.w.heap[v[2]].items[n]
      rest == SubSeq(s.w.heap[v[2]].items, Len(p.kids), Len(s.w.heap[v[2]].items))
  IN  CASE p.k = "identifier" -> [s EXCEPT !.env = (p.ref :> v) @@ @]
        [] p.k = "fields" -> Fold(LAMBDA acc, n : Declare(P, acc, p.kids[n], item(FieldAt(P, p.ty, p.ref[n]))), s, [n \in DOMAIN p.kids |-> n])
        [] p.k = "elements" ->
             Fold(LAMBDA acc, n :
                        IF p.kids[n].k = "rest"
                        THEN LET r == Put(acc, New(acc.w, p.kids[n].ty, rest)) IN Declare(P, r, p.kids[n].kids[1], r.w.val)
                        ELSE Declare(P, acc, p.kids[n], item(n)),
                      s, [n \in DOMAIN p.kids |-> n])

Combined(op, old, v) == IF op = "" THEN v ELSE Binary(op, old, v)
Assign(P, F, s, n) ==
  LET t == n.kids[1]
      place == DoEach(P, F, s, IF t.k = "name" THEN <<>> ELSE t.kids, <<>>)
      r == Do(P, F, place[1], n.kids[2])
      v == Convert(r.w.val, t.ty)
      at == FieldAt(P, t.kids[1].ty, t.ref)
      old == IF t.k = "index" THEN LoadIndex(r.w, place[2][1], place[2][2]) ELSE Load(r.w, place[2][1], at)
      new == Combined(n.ref, IF n.ref = "" THEN v ELSE old.val, v)
      var == Combined(n.ref, IF t.ref \in DOMAIN r.env THEN r.env[t.ref] ELSE r.w.globals[t.ref], v)
  IN  IF ~On(r) THEN r
      ELSE IF t.k = "name"
           THEN IF IsFault(var) THEN SetVal(r, var)
                ELSE IF t.ref \in DOMAIN r.env THEN [r EXCEPT !.env[t.ref] = var]
                ELSE [r EXCEPT !.w.globals[t.ref] = var]
      ELSE IF old.st # "ok" THEN Put(r, old)
      ELSE IF IsFault(new) THEN SetVal(r, new)
      ELSE IF t.k = "index" THEN Put(r, StoreIndex(P.elements, r.w, place[2][1], place[2][2], new))
      ELSE Put(r, Store(r.w, place[2][1], at, new))

(* A loop: the condition before each turn; break and continue that name    *)
(* another loop pass through.                                               *)
Mine(s, n) == s.w.val \in {<<"label", NoSymbol>>, <<"label", n.ref>>}
Repeat(P, F, s, n) ==
  LET c == IF Len(n.kids) = 2 THEN Do(P, F, Tick(s), n.kids[2]) ELSE SetVal(Tick(s), Bool(TRUE))
      r == Do(P, F, c, n.kids[1])
      back == Put(r, [r.w EXCEPT !.st = "ok"])
  IN  IF ~On(c) THEN c
      ELSE IF c.w.val # Bool(TRUE) THEN c
      ELSE IF On(r) \/ (r.w.st = "continue" /\ Mine(r, n)) THEN Repeat(P, F, back, n)
      ELSE IF r.w.st = "break" /\ Mine(r, n) THEN back ELSE r

Outer(s, r) == [r EXCEPT !.env = [x \in DOMAIN s.env |-> r.env[x]]]
ForEach(P, F, s, n, array) ==
  LET r == Outer(s, Do(P, F, Declare(P, Tick(s), n.kids[1], Head(array)), n.kids[3]))
      back == Put(r, [r.w EXCEPT !.st = "ok"])
  IN  IF array = <<>> \/ ~On(s) THEN s
      ELSE IF On(r) \/ (r.w.st = "continue" /\ Mine(r, n)) THEN ForEach(P, F, back, n, Tail(array))
      ELSE IF r.w.st = "break" /\ Mine(r, n) THEN back ELSE r

Block(P, F, s, n) ==
  Outer(s, Fold(LAMBDA acc, x : IF On(acc) THEN Do(P, F, acc, x) ELSE acc, s, n.kids))

Do(P, F, s, n) ==
  LET a == DoEach(P, F, s, n.kids, <<>>)
      r == a[1]
      v(k) == a[2][k]
      made(kind, items) == IF On(r) THEN Put(r, New(r.w, kind, items)) ELSE r
  IN  CASE n.k = "literal"  -> SetVal(s, Value(n.ty, n.ref))
        [] n.k = "name"     -> SetVal(s, IF n.ref \in DOMAIN s.env THEN s.env[n.ref] ELSE s.w.globals[n.ref])
        [] n.k = "function" -> SetVal(s, <<"fn", n.ref>>)
        [] n.k = "binary"   -> IF ~On(r) THEN r
                               ELSE SetVal(r, Binary(n.ref, v(1), Convert(v(2), v(1)[1])))
        [] n.k = "unary"    -> IF On(r) THEN SetVal(r, unary_instruction(n.ref, v(1))) ELSE r
        [] n.k = "cast"     -> IF On(r) THEN SetVal(r, execute_cast(v(1), n.ref)) ELSE r
        [] n.k = "group"    -> r
        [] n.k = "length"   -> IF On(r) THEN SetVal(r, LengthOf(r.w, v(1))) ELSE r
        [] n.k = "member"   -> IF On(r) THEN Put(r, Load(r.w, v(1), FieldAt(P, n.kids[1].ty, n.ref))) ELSE r
        [] n.k = "index"    -> IF On(r) THEN Put(r, LoadIndex(r.w, v(1), v(2))) ELSE r
        [] n.k = "tuple"    -> made(n.ty, a[2])
        [] n.k = "array"    ->
             IF On(r) THEN Put(r, NewArray(P.elements, r.w, n.ty, FlattenSeq([k \in DOMAIN a[2] |->
                      IF n.ref[k] THEN r.w.heap[v(k)[2]].items ELSE <<v(k)>>]))) ELSE r
        [] n.k = "filled"   -> IF On(r) THEN Put(r, FilledArray(P.elements, r.w, n.ty, v(1))) ELSE r
        [] n.k = "range"    ->
             IF On(r) THEN Put(r, External(r.w, IF n.ref = "exclusive" THEN "range" ELSE "rangeSteps",
                                           IF Len(n.kids) = 2 THEN Append(a[2], Value("i32", 1)) ELSE a[2])) ELSE r
        [] n.k = "enumPath" -> SetVal(s, Value("i32", n.ref))
        [] n.k = "choicePath" -> Put(s, New(s.w, n.ref, <<NullValue>>))
        [] n.k = "construct" ->
             IF ~On(r) THEN r
             ELSE IF Len(n.kids) < 2 THEN Put(r, New(r.w, n.ref, IF n.kids = <<>> THEN <<NullValue>> ELSE a[2]))
             ELSE LET t == New(r.w, "tuple", a[2]) IN Put(r, New(t, n.ref, <<t.val>>))
        [] n.k = "struct"   ->
             LET b == DoEach(P, F, s, [k \in DOMAIN n.kids |-> n.kids[k].kids[1]], <<>>)
                 given == [k \in DOMAIN b[2] |->
                    LET ty == n.kids[k].kids[1].ty
                    IN  [name |-> n.kids[k].ref, value |-> b[2][k], has |-> FieldNames(P, ty),
                         names |-> IF ty \in DOMAIN P.structs THEN [j \in DOMAIN P.structs[ty] |-> P.structs[ty][j].name]
                                   ELSE <<>>]]
                 f == Fields(P, F, b[1], P.structs[n.ty], [given |-> given, values |-> <<>>])
             IN  IF On(f[1]) THEN Put(f[1], New(f[1].w, n.ty, f[2])) ELSE f[1]
        [] n.k = "call"     ->
             IF ~On(r) THEN r
             ELSE IF IsFuture(n.ty) THEN Put(r, New(r.w, "future", <<n.ref>> \o ConvertArgs(a[2], P.sigs[n.ref])))
             ELSE CallRef(P, F, r, n.ref, ConvertArgs(a[2], P.sigs[n.ref]))
        [] n.k = "apply"    ->
             IF On(r) THEN CallRef(P, F, r, v(1), Tail(a[2])) ELSE r
        [] n.k = "await"    ->
             IF ~On(r) THEN r
             ELSE LET items == r.w.heap[v(1)[2]].items IN CallRef(P, F, r, items[1], Tail(items))
        [] n.k = "match"    -> LET m == Do(P, F, s, n.kids[1])
                               IN  IF On(m) THEN Outer(s, Take(P, F, m, Tail(n.kids))) ELSE m
        [] n.k = "var"      -> LET i == IF Len(n.kids) = 1 THEN SetVal(s, NullValue) ELSE Do(P, F, s, n.kids[2])
                               IN  IF On(i) THEN Declare(P, i, n.kids[1], i.w.val) ELSE i
        [] n.k = "assign"   -> Assign(P, F, s, n)
        [] n.k = "expression" -> r
        [] n.k = "return"   -> IF On(r) THEN Put(r, [r.w EXCEPT !.st = "return", !.val = IF n.kids = <<>> THEN NullValue ELSE @]) ELSE r
        [] n.k \in {"break", "continue"} -> Put(s, [s.w EXCEPT !.st = n.k, !.val = <<"label", n.ref>>])
        [] n.k = "block"    -> Block(P, F, s, n)
        [] n.k = "if"       ->
             LET c == Do(P, F, s, n.kids[1])
             IN  IF ~On(c) THEN c
                 ELSE IF c.w.val = Bool(TRUE) THEN Do(P, F, c, n.kids[2])
                 ELSE IF Len(n.kids) = 3 THEN Do(P, F, c, n.kids[3]) ELSE c
        [] n.k = "loop"     -> Repeat(P, F, s, n)
        [] n.k = "for"      ->
             LET c == Do(P, F, s, n.kids[2])
                 object == c.w.heap[c.w.val[2]]
                 array == IF object.kind = "iterator" THEN c.w.heap[object.items[1][2]].items ELSE object.items
             IN  IF On(c) THEN ForEach(P, F, c, n, array) ELSE c
        [] n.k = "typeof"   ->
             LET hits == SelectSeq(Tail(n.kids), LAMBDA x : x.kids[1].k = "wildcard" \/ x.kids[1].ty = n.kids[1].ty)
             IN  IF hits = <<>> THEN SetVal(s, NullValue) ELSE Outer(s, ArmValue(P, F, s, hits[1].kids[2]))
        [] n.k = "copy"     -> IF On(r) THEN Put(r, DeepCopy(r.w, v(1))) ELSE r

(* What an observer sees of a run: the events, how it ended and with what. *)
Observed(w) == <<w.events, w.st, Snapshot(w, w.val), [g \in DOMAIN w.globals |-> Snapshot(w, w.globals[g])]>>
SourceOutcome(P, F, args, bits, globals) ==
  Observed(Apply(P, F, [w |-> World(bits, globals), env |-> <<>>], 0, args).w)

-----------------------------------------------------------------------------
(***************************************************************************)
(* Two more meanings of a program: a machine for MIR, in and out of SSA     *)
(* form, and the register machine for bytecode.  A dropped local or        *)
(* register holds a value that nothing may read.                            *)
(***************************************************************************)
Dropped == <<"dropped", 0>>
Unset == <<"unset", 0>>
Readable(values) == Dropped \notin ToSet(values) /\ Unset \notin ToSet(values)

-----------------------------------------------------------------------------
(* MIR: M is the sequence of functions.  A machine is [w, frames, on]; a   *)
(* frame is [f, block, pc, l, dest]: where it is, the values of its locals, *)
(* and the caller's local that receives its result.                        *)

(* A constant is what the pool will hold.                                  *)
OperandValue(l, o) == IF o[1] = "local" THEN l[o[2]] ELSE PoolValue(<<o[2], o[3]>>)
OperandValues(l, os) == [n \in DOMAIN os |-> OperandValue(l, os[n])]

Given(args, n) == IF n <= Len(args) THEN args[n] ELSE NullValue
MirFrame(M, index, args, dest) ==
  [f |-> index, block |-> 0, pc |-> 1, dest |-> dest,
   l |-> [l \in Declared(M[index + 1]) |-> IF l < M[index + 1].params THEN Given(args, l + 1) ELSE Unset]]
Stop(m, w) == [m EXCEPT !.w = w, !.on = FALSE]
Top(m) == m.frames[Len(m.frames)]
Below(m) == SubSeq(m.frames, 1, Len(m.frames) - 1)

(* A step that gives the instruction's value, here to the local dest.      *)
MirGives(m, w, dest) ==
  IF w.st # "ok" THEN Stop(m, w)
  ELSE [m EXCEPT !.w = w, !.frames[Len(m.frames)].pc = @ + 1,
                 !.frames[Len(m.frames)].l = IF dest = None THEN @ ELSE [@ EXCEPT ![dest] = w.val]]
MirCall(M, m, ref, args, dest) ==
  IF ref[1] = "ext" THEN MirGives(m, External(m.w, ref[2], args), dest)
  ELSE [m EXCEPT !.frames = Append([@ EXCEPT ![Len(@)].pc = @ + 1], MirFrame(M, ref[2], args, dest))]
MirReturn(m, v) ==
  IF Len(m.frames) = 1 THEN Stop(m, Gives(m.w, v))
  ELSE [m EXCEPT !.frames = [Below(m) EXCEPT ![Len(m.frames) - 1].l[Top(m).dest] = v]]

(* The value of an instruction: a world whose val is what dest receives.   *)
MirValue(P, f, w, i, v) ==
  LET ty == f.locals[i.args[1][2] + 1].ty
      spread == FlattenSeq([n \in DOMAIN v |-> IF i.ref[n] THEN w.heap[v[n][2]].items ELSE <<v[n]>>])
  IN  CASE i.op = "Use"    -> Gives(w, IF i.args[1][1] = "const" THEN Convert(v[1], f.locals[i.dest + 1].ty) ELSE v[1])
        [] i.op = "Binary" -> Gives(w, Binary(i.ref, v[1], Convert(v[2], v[1][1])))
        [] i.op = "Unary"  -> Gives(w, unary_instruction(i.ref, v[1]))
        [] i.op = "Cast"   -> Gives(w, execute_cast(v[1], i.ref))
        [] i.op = "Copy"   -> DeepCopy(w, v[1])
        [] i.op \in {"NewStruct", "NewTuple"} -> New(w, i.ref, v)
        [] i.op = "NewArray" -> NewArray(P.elements, w, i.ref, v)
        [] i.op = "NewArrayDynamic" -> NewArray(P.elements, w, f.locals[i.dest + 1].ty, spread)
        [] i.op = "NewArrayZeroedDynamic" -> FilledArray(P.elements, w, i.ref, v[1])
        [] i.op = "MemberAccess" ->
             Load(w, v[1], IF ty \in DOMAIN P.variants THEN 1 ELSE FieldAt(P, w.heap[v[1][2]].kind, i.ref))
        [] i.op = "ArrayIndex" -> LoadIndex(w, v[1], v[2])
        [] i.op = "Choice" -> New(w, i.ref, IF v = <<>> THEN <<NullValue>> ELSE v)
        [] i.op \in {"ChoiceVariantIs", "ImportedChoiceVariantIs"} -> Gives(w, IsVariant(w, v[1], i.ref))
        [] i.op = "Instanceof" -> Gives(w, IsOf(w, v[1], i.ref))
        [] i.op = "LoadGlobal" -> Gives(w, w.globals[i.ref])
        [] i.op = "Len" -> Gives(w, LengthOf(w, v[1]))
        [] i.op = "CreateFuture" -> New(w, "future", <<i.ref>> \o v)
        [] i.op = "StoreGlobal" -> [w EXCEPT !.globals[i.ref] = v[1]]
        [] i.op = "StoreIndex" -> StoreIndex(P.elements, w, v[1], v[2], v[3])
        [] i.op = "StoreField" -> Store(w, v[1], FieldAt(P, ty, i.ref), v[2])
        [] i.op = "ConstraintCall" -> External(w, i.ref, v)
MirInstruction(P, M, m, f, i, v) ==
  LET future == m.w.heap[v[1][2]].items
  IN  CASE i.op = "Call" -> MirCall(M, m, i.ref, v, i.dest)
        [] i.op = "IndirectCall" -> MirCall(M, m, v[1], Tail(v), i.dest)
        [] i.op = "Await" -> MirCall(M, m, future[1], Tail(future), i.dest)
        [] i.op = "Drop" -> MirGives(m, Gives(m.w, Dropped), i.ref)
        [] OTHER -> MirGives(m, MirValue(P, f, m.w, i, v), i.dest)
MirGoto(m, f, t, way) ==
  LET ps == BlockOf(f, t.to[way]).params
      l == Top(m).l
      passed == OperandValues(l, t.pass[way])
  IN  [m EXCEPT !.frames[Len(m.frames)] =
         [@ EXCEPT !.block = t.to[way], !.pc = 1,
                   !.l = [x \in DOMAIN l |-> IF x \in ToSet(ps) THEN passed[CHOOSE n \in DOMAIN ps : ps[n] = x] ELSE l[x]]]]
MirTerminator(P, M, m, f, t, v) ==
  CASE t.op = "Return"   -> MirReturn(m, IF v = <<>> THEN NullValue ELSE v[1])
    [] t.op = "TailCall" -> [m EXCEPT !.frames = Append(Below(m), MirFrame(M, t.ref[2], v, Top(m).dest))]
    [] t.op = "Panic"    -> Stop(m, Fails(m.w, "panic"))
    [] t.op = "Jump"     -> MirGoto(m, f, t, 1)
    [] t.op = "Branch"   -> MirGoto(m, f, t, IF v[1] = Bool(TRUE) THEN 1 ELSE 2)
MirStep(P, M, m) ==
  LET fr == Top(m)
      f == M[fr.f + 1]
      b == BlockOf(f, fr.block)
      end == fr.pc > Len(b.code)
      v == OperandValues(fr.l, IF end THEN b.term.args ELSE b.code[fr.pc].args)
  IN  IF ~Readable(v) THEN Stop(m, Fails(m.w, "dropped"))
      ELSE IF end THEN MirTerminator(P, M, m, f, b.term, v)
      ELSE MirInstruction(P, M, m, f, b.code[fr.pc], v)

(* 2^StepBits steps at most; a longer run has timed out.                   *)
StepBits == 9
Outcome(m) == Observed(IF m.on THEN Fails(m.w, "timeout") ELSE m.w)
MirOutcome(P, M, args, bits, globals) ==
  Outcome(Iterate(LAMBDA m : MirStep(P, M, m),
                  [w |-> World(bits, globals), frames |-> <<MirFrame(M, 0, args, None)>>, on |-> TRUE], StepBits))

-----------------------------------------------------------------------------
(* Bytecode: B = [functions, constants, types, globals, externals,         *)
(* elements, ...], where externals follow the functions in the numbering   *)
(* of callees; a frame is [f, pc, l, dest], l the registers.                *)

ByteFrame(B, index, args, dest) ==
  LET f == B.functions[index + 1]
  IN  [f |-> index, pc |-> 1, dest |-> dest,
       l |-> [r \in 0 .. (f.params + f.locals + f.temps - 1) |-> IF r < f.params THEN Given(args, r + 1) ELSE NullValue]]
ByteCall(B, m, index, args, dest) ==
  IF index >= Len(B.functions)
  THEN MirGives(m, External(m.w, B.externals[index - Len(B.functions) + 1], args), dest)
  ELSE [m EXCEPT !.frames = Append([@ EXCEPT ![Len(@)].pc = @ + 1], ByteFrame(B, index, args, dest))]

ByteValue(B, w, i, v, window) ==
  LET ty == B.types[i.ty + 1]
      obj == v[IF i.op \in Defines THEN 2 ELSE 1]
      src == w.heap[v[3][2]].items
      at == v[2][2] + 1
  IN  CASE i.op = "LoadConst" -> Gives(w, PoolValue(B.constants[i.ref + 1]))
        [] i.op = "LoadNull"  -> Gives(w, NullValue)
        [] i.op = "Move"      -> Gives(w, v[2])
        [] i.op = "Copy"      -> DeepCopy(w, v[2])
        [] i.op = "Neg"       -> Gives(w, unary_instruction(i.ref, v[2]))
        [] i.op = "Cast"      -> Gives(w, execute_cast(v[2], ty[2]))
        [] i.op = "Add"       -> Gives(w, execute_operator_instruction(i.ref, v[2], v[3]))
        [] i.op = "Fallback"  -> Gives(w, execute_operator_instruction("NullFallback", v[2], v[3]))
        [] i.op = "AddI32"    -> Gives(w, typed_instruction(i.ref[2], i.ref[1], v[2], v[3]))
        [] i.op = "BinaryImmediate" -> Gives(w, immediate_binary_value(i.ref[1], v[2], i.ref[2]))
        [] i.op = "Len"       -> Gives(w, LengthOf(w, v[2]))
        [] i.op = "Instanceof" -> Gives(w, IF ty[1] = "variant" THEN IsVariant(w, v[2], ty[2]) ELSE IsOf(w, v[2], ty[2]))
        [] i.op = "LoadGlobal" -> Gives(w, w.globals[B.globals[i.ref + 1]])
        [] i.op = "StoreGlobal" -> [w EXCEPT !.globals[B.globals[i.ref + 1]] = v[1]]
        [] i.op = "AllocLocal" -> New(w, ty[2], [n \in 1 .. B.sizes[ty[2]] |-> NullValue])
        [] i.op = "NewArray"  -> FilledArray(B.elements, w, ty[2], v[2])
        [] i.op = "NewTuple"  -> New(w, ty[2], window)
        [] i.op = "NewChoice" -> New(w, B.variants[ty[2]][i.aux + 1], <<v[2]>>)
        [] i.op = "LoadField" -> Load(w, obj, i.ref + 1)
        [] i.op = "StoreField" -> Store(w, obj, i.ref + 1, v[2])
        [] i.op = "LoadIndex" -> LoadIndex(w, obj, v[3])
        [] i.op = "StoreIndex" -> StoreIndex(B.elements, w, obj, v[2], v[3])
        [] i.op = "CopyArray" ->
             [w EXCEPT !.heap[obj[2]].items = SubSeq(@, 1, at - 1) \o src \o SubSeq(@, at + Len(src), Len(@))]
        [] i.op = "CreateFuture" -> New(w, "future", <<<<"index", i.ref>>>> \o window)
        [] i.op = "CallMethod" -> External(w, B.constants[i.ref + 1][2], window)

ByteInstruction(B, m, i, v, window) ==
  LET future == m.w.heap[v[2][2]].items
      taken == CASE i.op = "JumpTrue" -> v[1] = Bool(TRUE) [] i.op = "JumpFalse" -> v[1] = Bool(FALSE) [] OTHER -> TRUE
      dest == IF i.op \in Defines THEN i.args[1] ELSE None
  IN  CASE i.op = "Ret" -> MirReturn(m, v[1])
        [] i.op = "RetNull" -> MirReturn(m, NullValue)
        [] i.op = "Panic" -> Stop(m, Fails(m.w, "panic"))
        [] i.op = "TailCall" -> [m EXCEPT !.frames = Append(Below(m), ByteFrame(B, i.ref, window, Top(m).dest))]
        [] i.op \in Jumps -> [m EXCEPT !.frames[Len(m.frames)].pc = @ + 1 + IF taken THEN i.off ELSE 0]
        [] i.op = "Drop" -> MirGives(m, Gives(m.w, Dropped), i.args[1])
        [] i.op = "Call" -> ByteCall(B, m, i.ref, window, dest)
        [] i.op = "CallDynamic" -> ByteCall(B, m, v[2][2], window, dest)
        [] i.op = "AwaitFuture" -> ByteCall(B, m, future[1][2], Tail(future), dest)
        [] OTHER -> MirGives(m, ByteValue(B, m.w, i, v, window), dest)
ByteStep(B, m) ==
  LET fr == Top(m)
      i == B.functions[fr.f + 1].code[fr.pc]
      v == [n \in DOMAIN i.args |-> fr.l[i.args[n]]]
      window == [n \in 1 .. i.count |-> fr.l[IF i.op = "CallMethod" /\ n = 1 THEN i.args[2] ELSE i.start + n - 1]]
      read == (IF i.op \in Defines THEN Tail(v) ELSE v) \o window
  IN  IF i.op # "Drop" /\ ~Readable(read) THEN Stop(m, Fails(m.w, "dropped"))
      ELSE ByteInstruction(B, m, i, v, window)
ByteOutcome(B, args, bits, globals) ==
  Outcome(Iterate(LAMBDA m : ByteStep(B, m),
                  [w |-> World(bits, globals), frames |-> <<ByteFrame(B, 0, args, None)>>, on |-> TRUE], StepBits))

-----------------------------------------------------------------------------
(* The stages of one compilation.                                           *)

Emitted == 3 + Stages
Optimized == 4 + Stages
NoImage == [functions |-> <<>>]
MirForm(mir, errors) == [mir |-> mir, image |-> NoImage, errors |-> errors]

build_module(p) == MirForm([n \in DOMAIN p.F |-> build_function(p.P, p.owned, p.F[n])], {})
Validated(mir) == MirForm(mir, validate_module(mir))
ConvertToSsa(form) == Validated(Evaluated([n \in DOMAIN form.mir |-> convert_to_ssa(form.mir[n])]))
RunPass(n, form) == Validated(Evaluated(Pass(n, form.mir)))

-----------------------------------------------------------------------------
(* Emission: the functions in order, into one pool of constants and types. *)

Context(p, f) ==
  LET fns == {<<"fn", n - 1>> : n \in DOMAIN p.F}
      exts == {<<"ext", x>> : x \in ToSet(p.externals)}
      at(x) == CHOOSE n \in DOMAIN p.externals : p.externals[n] = x
  IN  [f |-> f, structs |-> [s \in DOMAIN p.P.structs |-> [k \in DOMAIN p.P.structs[s] |-> p.P.structs[s][k].name]],
       tuples |-> p.tuples, variants |-> p.P.variants,
       index |-> [r \in fns |-> r[2]] @@ [r \in exts |-> Len(p.F) + at(r[2]) - 1],
       kinds |-> [r \in fns |-> IF p.F[r[2] + 1].async THEN "async" ELSE "plain"] @@ [r \in exts |-> "extern"],
       globals |-> [g \in ToSet(p.globals) |-> (CHOOSE n \in DOMAIN p.globals : p.globals[n] = g) - 1]]
compile_single_module(p, mir) ==
  LET one(acc, n) ==
        LET r == emit_function(Context(p, mir[n]), n - 1, acc.constants, acc.types)
        IN  [acc EXCEPT !.functions = Append(@, r[1]), !.constants = r[2], !.types = r[3]]
      start == [functions |-> <<>>, constants |-> <<>>, types |-> <<>>, globals |-> p.globals,
                externals |-> p.externals, variants |-> p.P.variants, elements |-> p.P.elements,
                sizes |-> [s \in DOMAIN p.P.structs |-> Len(p.P.structs[s])]]
  IN  Fold(one, start, [n \in DOMAIN mir |-> n])

(* The same image as the validator sees it: types by kind and layout.      *)
Layouts(set) == CHOOSE s \in [1 .. Cardinality(set) -> set] : IsInjective(s)
AsModule(p, b) ==
  LET structs == Layouts(DOMAIN p.P.structs)
      choices == Layouts(DOMAIN p.P.variants)
      at(s, x) == (CHOOSE n \in DOMAIN s : s[n] = x) - 1
      kind(t) == IF t[1] = "variant" THEN <<"variant", 0>>
                 ELSE IF t[2] \in ToSet(structs) THEN <<"struct", at(structs, t[2])>>
                 ELSE IF t[2] \in ToSet(choices) THEN <<"choice", at(choices, t[2])>>
                 ELSE IF t[2] \in p.tuples THEN <<"tuple", 2>> ELSE <<"other", 0>>
  IN  [functions |-> b.functions, imports |-> b.externals, init |-> -1, exports |-> <<>>,
       constants |-> b.constants, types |-> [n \in DOMAIN b.types |-> kind(b.types[n])],
       structs |-> [n \in DOMAIN structs |-> Len(p.P.structs[structs[n]])],
       choices |-> [n \in DOMAIN choices |-> Len(p.P.variants[choices[n]])],
       globals |-> Len(b.globals)]
EmittedForm(mir, image, errors) == [mir |-> mir, image |-> image, errors |-> errors]
CheckedImage(p, mir, image) == EmittedForm(mir, image, validate_bytecode_module(AsModule(p, image)))
EmitModule(p, form) == CheckedImage(p, form.mir, compile_single_module(p, form.mir))
OptimizeModule(form) ==
  [form EXCEPT !.image.functions = [n \in DOMAIN @ |-> optimize_function(@[n]).f]]

-----------------------------------------------------------------------------
(* The forms of a program, one for each stage that was reached: lowered,   *)
(* SSA, after each pass, emitted, optimized.                                *)
StageOf(p, n, form) ==
  CASE n = 2 -> ConvertToSsa(form)
    [] n \in 3 .. (2 + Stages) -> RunPass(n - 2, form)
    [] n = Emitted -> EmitModule(p, form)
    [] n = Optimized -> OptimizeModule(form)
compile(p) ==
  Fold(LAMBDA forms, n : IF Last(forms).errors # {} THEN forms ELSE Append(forms, StageOf(p, n, Last(forms))),
       <<build_module(p)>>, [n \in 1 .. (3 + Stages) |-> n + 1])
=============================================================================
