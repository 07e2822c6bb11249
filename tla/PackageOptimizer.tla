-------------------------- MODULE PackageOptimizer --------------------------
(***************************************************************************)
(* Finalization of a package: unreachable functions and constants are      *)
(* pruned from every module, the functions are optimized, and modules are  *)
(* pruned again when the optimization removed calls.  A package is a       *)
(* function from module ids to modules; a module is                        *)
(*   functions  a sequence of [name, proxy, params, locals, temps, code],  *)
(*   constants  a sequence of <<kind, value>>,                             *)
(*   exports    a sequence of <<kind, index>>, the kind function or global,*)
(*   init       the index of the initializer, -1 for none,                 *)
(*   imports    a sequence of <<module, export position>>.                 *)
(* A function's name is [layout, method, tag]: `layout::method#tag`, with  *)
(* tag 0 for a function that is not a specialization of a generic one.     *)
(***************************************************************************)
EXTENDS Optimizer, BytecodeValidation

Calls == {"Call", "CreateFuture", "TailCall"}

(* What the optimizer never prunes because some code may call it by name.  *)
global_method_names(package) ==
  UNION {UNION {{package[m].constants[i.ref + 1][2] :
                   i \in {j \in ToSet(package[m].functions[n].code) : j.op = "CallMethod"}} :
                n \in DOMAIN package[m].functions} : m \in DOMAIN package}

(* The name and its suffixes at each `::`, compared with the called names. *)
is_called_method(name, names) == name.tag = 0 /\ name.method \in names

direct_call_count(f) == Len(SelectSeq(f.code, LAMBDA i : i.op \in Calls))

(* The functions and constants one function names directly.                *)
LocalCallees(m, f) ==
  {i.ref : i \in {j \in ToSet(f.code) : j.op \in Calls /\ j.ref < Len(m.functions)}}
ConstantsOf(f) ==
  {i.ref : i \in {j \in ToSet(f.code) : j.op \in {"LoadConst", "Panic", "CallMethod"}}}
FunctionConstants(m, consts) ==
  {m.constants[c + 1][2] : c \in {d \in consts : d < Len(m.constants)
                                     /\ m.constants[d + 1][1] = "function"
                                     /\ m.constants[d + 1][2] < Len(m.functions)}}

RECURSIVE CloseReachable(_, _)
CloseReachable(m, seen) ==
  LET consts == UNION {ConstantsOf(At(m.functions, n)) : n \in seen}
      next == seen \cup UNION {LocalCallees(m, At(m.functions, n)) : n \in seen}
                   \cup FunctionConstants(m, consts)
  IN  IF next = seen THEN [functions |-> seen, constants |-> consts] ELSE CloseReachable(m, next)

collect_reachable_indices(m, names) ==
  CloseReachable(m, {n \in 0 .. (Len(m.functions) - 1) :
    \/ n = m.init
    \/ <<"function", n>> \in ToSet(m.exports)
    \/ At(m.functions, n).proxy
    \/ is_called_method(At(m.functions, n).name, names)})

module_needs_pruning(m, names) ==
  LET r == collect_reachable_indices(m, names)
  IN  \/ Cardinality(r.functions) # Len(m.functions)
      \/ Cardinality(r.constants) # Len(m.constants)

(* Retained functions move up; an import keeps its position behind the     *)
(* last function.                                                           *)
MovedFunction_ImportsStay(m, kept, i) ==
  IF i < Len(m.functions) THEN Cardinality({n \in kept : n < i}) ELSE i
MovedFunction(m, kept, i) ==
  IF i < Len(m.functions) THEN Cardinality({n \in kept : n < i})
  ELSE i - Len(m.functions) + Cardinality(kept)

prune_module(m, names) ==
  LET r        == collect_reachable_indices(m, names)
      kept(s)  == SelectSeq([n \in 1 .. Len(m.functions) |-> n - 1], LAMBDA n : n \in s)
      keptC    == SelectSeq([n \in 1 .. Len(m.constants) |-> n - 1], LAMBDA n : n \in r.constants)
      funcs    == kept(r.functions)
      fn(i)    == MovedFunction(m, r.functions, i)
      cn(i)    == Cardinality({n \in r.constants : n < i})
      ins(i)   == IF i.op \in Calls THEN [i EXCEPT !.ref = fn(@)]
                  ELSE IF i.op \in {"LoadConst", "Panic", "CallMethod"} THEN [i EXCEPT !.ref = cn(@)]
                  ELSE i
      const(c) == IF c[1] = "function" THEN <<"function", fn(c[2])>> ELSE c
  IN  [m EXCEPT !.functions = [n \in DOMAIN funcs |->
                   LET f == At(m.functions, funcs[n])
                   IN  [f EXCEPT !.code = [k \in DOMAIN @ |-> ins(@[k])]]],
                !.constants = [n \in DOMAIN keptC |-> const(At(m.constants, keptC[n]))],
                !.exports = [n \in DOMAIN @ |->
                   IF @[n][1] = "function" THEN <<"function", fn(@[n][2])>> ELSE @[n]],
                !.init = IF @ = -1 THEN -1 ELSE fn(@)]

Pruned(package, names) ==
  [m \in DOMAIN package |->
     IF module_needs_pruning(package[m], names) THEN prune_module(package[m], names)
     ELSE package[m]]

OptimizedModule(m) ==
  [m EXCEPT !.functions = [n \in DOMAIN @ |-> optimize_function(@[n]).f]]

(* optimize_package: the modules a finalized package has.                  *)
Finalized(package) ==
  LET pruned  == Pruned(package, global_method_names(package))
      better  == [m \in DOMAIN pruned |-> OptimizedModule(pruned[m])]
      changed == \E m \in DOMAIN package : \E n \in DOMAIN pruned[m].functions :
                   direct_call_count(pruned[m].functions[n])
                     # direct_call_count(better[m].functions[n])
  IN  IF changed THEN Pruned(better, global_method_names(better)) ELSE better

(* The snapshot published: nodes that equal the previous finalized ones are *)
(* taken from it, modules gone from the package are removed, and with no   *)
(* change at all the previous snapshot itself is returned.  What a package *)
(* has besides its graph is modelled in Workspace.                         *)
optimize_package_KeepsRemoved(package, edges, previous) ==
  LET final == Finalized(package)
  IN  [modules |-> [m \in DOMAIN previous.modules \cup DOMAIN final |->
                      IF m \in DOMAIN final THEN final[m] ELSE previous.modules[m]],
       edges |-> edges, version |-> previous.version + 1]
optimize_package(package, edges, previous) ==
  LET final   == Finalized(package)
      changed == {m \in DOMAIN final :
                    m \notin DOMAIN previous.modules \/ previous.modules[m] # final[m]}
      removed == DOMAIN previous.modules \ DOMAIN package
  IN  IF changed = {} /\ removed = {} /\ previous.edges = edges THEN previous
      ELSE [modules |-> [m \in (DOMAIN previous.modules \ removed) \cup changed |->
                           IF m \in changed THEN final[m] ELSE previous.modules[m]],
            edges |-> edges, version |-> previous.version + 1]

-----------------------------------------------------------------------------
(* What bytecode means, for comparing code before and after optimization:  *)
(* a symbolic run of one function, what each call and constant of a        *)
(* package denotes, and which function a method call finds at run time.    *)

(* A machine whose values are terms and whose events are what it stores,   *)
(* tests and returns.                                                       *)
Start(f) ==
  [pc |-> 0, on |-> TRUE, tests |-> 0, events |-> <<>>,
   regs |-> [r \in 0 .. (RegisterCount(f) - 1) |-> IF r < f.params THEN <<"param", r>> ELSE <<"null">>]]

Step(f, bits, m) ==
  LET i == At(f.code, m.pc)
      val(n) == m.regs[i.args[n]]
      next == [m EXCEPT !.pc = @ + 1]
      set(v) == [next EXCEPT !.regs[i.args[1]] = v]
      tell(e) == [next EXCEPT !.events = Append(@, e)]
      taken == m.tests < Len(bits) /\ bits[m.tests + 1]
  IN  CASE i.op = "LoadConst"   -> set(<<"const", i.ref>>)
        [] i.op = "Move"        -> set(val(2))
        [] i.op = "Neg"         -> set(<<"neg", val(2)>>)
        [] i.op = "Add"         -> set(<<"add", val(2), val(3)>>)
        [] i.op = "NewTuple"    -> set(<<"tuple">> \o [n \in 1 .. i.count |-> m.regs[i.start + n - 1]])
        [] i.op = "StoreGlobal" -> tell(<<"store", val(1)>>)
        [] i.op = "Jump"        -> [m EXCEPT !.pc = jump_target(m.pc, i.off)]
        [] i.op = "JumpTrue"    -> [tell(<<"test", val(1)>>) EXCEPT !.tests = @ + 1,
                                      !.pc = IF taken THEN jump_target(m.pc, i.off) ELSE @]
        [] i.op = "Ret"         -> [tell(<<"ret", val(1)>>) EXCEPT !.on = FALSE]

RECURSIVE Run(_, _, _, _)
Run(f, bits, m, k) == IF k = 0 \/ ~m.on THEN m ELSE Run(f, bits, Step(f, bits, m), k - 1)

(* Two functions tell the same events; the shorter run may lag behind.     *)
SameMeaning(f, g, bits, steps) ==
  LET a == Run(f, bits, Start(f), steps)
      b == Run(g, bits, Start(g), steps)
  IN  /\ IsPrefix(a.events, b.events) \/ IsPrefix(b.events, a.events)
      /\ ~a.on => ~b.on /\ a.events = b.events

(* What a reference of module m denotes, by name.                          *)
FunctionDenoted(p, m, index) ==
  IF index < Len(p[m].functions) THEN <<m, At(p[m].functions, index).name>>
  ELSE LET n == index - Len(p[m].functions) + 1
       IN  IF n \notin DOMAIN p[m].imports THEN <<"dangling">>
           ELSE LET i == p[m].imports[n]
                IN  <<i[1], At(p[i[1]].functions, p[i[1]].exports[i[2]][2]).name>>
Denoted(p, m, i) ==
  CASE i.op \in Calls -> FunctionDenoted(p, m, i.ref)
    [] i.op \in {"LoadConst", "Panic", "CallMethod"} ->
         LET c == At(p[m].constants, i.ref)
         IN  IF c[1] = "function" THEN FunctionDenoted(p, m, c[2]) ELSE c
    [] OTHER -> <<>>

(* The references a function can reach, in code order.                     *)
References(p, m, f) ==
  LET names == {"LoadConst", "Panic", "CallMethod"} \cup Calls
      seq == SelectSeq([n \in 1 .. Len(f.code) |-> n - 1],
               LAMBDA i : i \in Reachable(f.code) /\ At(f.code, i).op \in names)
  IN  [n \in DOMAIN seq |-> Denoted(p, m, At(f.code, seq[n]))]

FunctionsNamed(p, m, name) == {f \in ToSet(p[m].functions) : f.name = name}

(* call_method: the receiver's layout first, then the method name alone.   *)
First(functions, Matches(_)) ==
  LET hits == {n \in DOMAIN functions : Matches(functions[n].name)}
  IN  IF hits = {} THEN <<>> ELSE functions[Min(hits)].name
call_method(p, m, layout, method) ==
  LET qualified == First(p[m].functions, LAMBDA x : x.layout = layout /\ x.method = method)
      plain     == First(p[m].functions, LAMBDA x : x.method = method /\ x.tag = 0)
  IN  IF qualified # <<>> THEN qualified ELSE plain
=============================================================================
