---------------------------- MODULE SemanticRules ----------------------------
(* Rules the type checker holds over statements and over declarations        *)
(* (galfus-frontend/src/type_validation: semantics.rs, control_flow.rs,      *)
(* ownership.rs, ownership_validation.rs): the targets of break and          *)
(* continue, return on every path, unreachable statements, cycles among      *)
(* initializers and cycles of owning struct fields.  A statement is          *)
(* [k, label, cond, kids]; expressions are left out of it.                   *)
EXTENDS Naturals, Sequences, FiniteSets, Iteration

CONSTANTS
    TypeDecls, \* named types: [kind, target], the target of an alias
    Bodies,  \* the functions to check: [returns, body]
    Graphs,  \* the ordered dependency graphs to check: [order, edges]
    Structs  \* the lists of struct fields to check: [owner, weak, type]

\* Types, by kind: prim, named, inst (an instance of a generic), param (a generic
\* parameter), union, array, none.
Ty(k, name, args) == [k |-> k, name |-> name, args |-> args]
NoType == Ty("none", "", <<>>)
NullType == Ty("prim", "null", <<>>)

RECURSIVE resolve_alias_type_with_visited(_, _)
resolve_alias_type_with_visited(t, visited) ==
    IF t.k = "named" /\ t.name \in DOMAIN TypeDecls /\ t.name \notin visited
         /\ TypeDecls[t.name].kind = "Alias"
    THEN resolve_alias_type_with_visited(TypeDecls[t.name].target, visited \cup {t.name})
    ELSE t

resolve_alias_type(t) == resolve_alias_type_with_visited(t, {})

-----------------------------------------------------------------------------
(* Control targets. *)

\* Loops of the enclosing function expressions stay visible.
RECURSIVE check_control_flow(_, _)
Visible(targets, label) == label # "" /\ \E i \in DOMAIN targets : targets[i] = label
check_jump(s, targets) ==
    CASE s.label = "" /\ targets = <<>> -> {"outside loop"}
      [] s.label # "" /\ ~Visible(targets, s.label) -> {"unresolved target"}
      [] OTHER -> {}
check_loop_statement_control_flow(s, targets) ==
    (IF Visible(targets, s.label) THEN {"duplicate target"} ELSE {})
        \cup check_control_flow(s.kids[1], Append(targets, s.label))
check_control_flow(s, targets) ==
    CASE s.k \in {"break", "continue"} -> check_jump(s, targets)
      [] s.k \in {"loop", "for"} -> check_loop_statement_control_flow(s, targets)
      [] OTHER -> UNION {check_control_flow(s.kids[i], targets) : i \in DOMAIN s.kids}

-----------------------------------------------------------------------------
(* Return on every path. *)

RECURSIVE statement_guarantees_return(_)
statement_list_guarantees_return(block) ==
    \E i \in DOMAIN block.kids : statement_guarantees_return(block.kids[i])

\* Mutant: an if that returns in its first block returns.
if_statement_guarantees_return_Then(s) == statement_list_guarantees_return(s.kids[1])
if_statement_guarantees_return(s) ==
    /\ statement_list_guarantees_return(s.kids[1])
    /\ Len(s.kids) > 1
    /\ statement_guarantees_return(s.kids[2])

\* The first child of a loop is its body only when the loop has neither a name
\* nor a condition.
statement_guarantees_return(s) ==
    CASE s.k = "return" -> TRUE
      [] s.k = "block" -> statement_list_guarantees_return(s)
      [] s.k = "if" -> if_statement_guarantees_return(s)
      [] s.k = "loop" -> s.label = "" /\ ~s.cond /\ statement_list_guarantees_return(s.kids[1])
      [] OTHER -> FALSE

RECURSIVE generic_parameter_symbols_from_type(_)
generic_parameter_symbols_from_type(t) ==
    LET r == resolve_alias_type(t)
    IN  IF r.k = "param" THEN {r.name}
        ELSE UNION {generic_parameter_symbols_from_type(r.args[i]) : i \in DOMAIN r.args}

\* Functions without a return type, those that return null and those whose
\* return type mentions a generic parameter are not looked at.
check_single_function_return_path(function) ==
    IF \/ function.returns = NoType
       \/ resolve_alias_type(function.returns) = NullType
       \/ generic_parameter_symbols_from_type(function.returns) # {}
       \/ statement_list_guarantees_return(function.body)
    THEN {} ELSE {"missing return"}

\* The statements of a block after one that returns, by their place in the body.
RECURSIVE check_unreachable_statements(_, _)
check_unreachable_block_statements(block, place) ==
    {Append(place, i) : i \in {j \in DOMAIN block.kids :
        \E h \in 1..(j - 1) : statement_guarantees_return(block.kids[h])}}
check_unreachable_statements(s, place) ==
    (IF s.k = "block" THEN check_unreachable_block_statements(s, place) ELSE {})
        \cup UNION {check_unreachable_statements(s.kids[i], Append(place, i)) : i \in DOMAIN s.kids}

-----------------------------------------------------------------------------
(* Cycles among initializers: depth first from every binding, in the order   *)
(* the maps yield them.                                                      *)

\* Mutant: the bindings on the way to the cycle are reported with it.
RECURSIVE check_binding_cycle_from_Whole(_, _, _, _)
check_binding_cycle_from_Whole(symbol, edges, visiting, reported) ==
    LET on_path == {visiting[i] : i \in DOMAIN visiting}
        follow(r, dependency) ==
            check_binding_cycle_from_Whole(dependency, edges, Append(visiting, symbol), r)
    IN  CASE symbol \in reported -> reported
          [] symbol \notin reported /\ symbol \in on_path -> reported \cup on_path
          [] OTHER -> Fold(follow, reported, edges[symbol])
RECURSIVE check_binding_cycle_from(_, _, _, _)
check_binding_cycle_from(symbol, edges, visiting, reported) ==
    LET starts == {i \in DOMAIN visiting : visiting[i] = symbol}
        follow(r, dependency) ==
            check_binding_cycle_from(dependency, edges, Append(visiting, symbol), r)
    IN  CASE symbol \in reported -> reported
          [] symbol \notin reported /\ starts # {} ->
                reported \cup {visiting[i] : i \in {j \in DOMAIN visiting :
                                                \E h \in starts : h <= j}}
          [] OTHER -> Fold(follow, reported, edges[symbol])

check_binding_initialization_cycles(graph) ==
    LET from(r, symbol) == check_binding_cycle_from(symbol, graph.edges, <<>>, r)
    IN  Fold(from, {}, graph.order)

-----------------------------------------------------------------------------
(* Cycles of owning fields. *)

RECURSIVE is_owned_edge_type(_)
is_owned_edge_type(t) ==
    LET r == resolve_alias_type(t)
    IN  CASE r.k = "named" -> TypeDecls[r.name].kind \in {"Struct", "Choice"}
          [] r.k \in {"array", "tuple"} -> TRUE
          [] r.k = "union" -> \E i \in DOMAIN r.args : is_owned_edge_type(r.args[i])
          [] OTHER -> FALSE

RECURSIVE collect_owned_struct_symbols(_, _)
collect_owned_struct_symbols(symbols, t) ==
    LET r == resolve_alias_type(t)
        own == IF r.k \in {"named", "inst"} /\ TypeDecls[r.name].kind = "Struct"
                    /\ ~\E i \in DOMAIN symbols : symbols[i] = r.name
               THEN Append(symbols, r.name) ELSE symbols
    IN  IF r.k = "function" THEN symbols ELSE Fold(collect_owned_struct_symbols, own, r.args)

is_weak_field_nullable_type(t) ==
    LET r == resolve_alias_type(t)
    IN  r = NullType \/ (r.k = "union" /\ \E i \in DOMAIN r.args : r.args[i] = NullType)

check_weak_struct_field(field) ==
    IF field.weak /\ ~is_weak_field_nullable_type(field.type) THEN {"weak field"} ELSE {}

collect_struct_edge_metadata(fields) ==
    SelectSeq(fields, LAMBDA f : ~f.weak /\ is_owned_edge_type(f.type))

\* owner -> the structs its fields own, each once, in the order of the fields.
strong_edge_graph(fields) ==
    LET edges == collect_struct_edge_metadata(fields)
        add(targets, e) == collect_owned_struct_symbols(targets, e.type)
        targets(owner) == Fold(add, <<>>, SelectSeq(edges, LAMBDA e : e.owner = owner))
    IN  [owner \in {n \in DOMAIN TypeDecls : TypeDecls[n].kind = "Struct"} |-> targets(owner)]

\* Every simple path from start back to start is a cycle; its symbols are its key.
RECURSIVE collect_ownership_cycles_from(_, _, _, _, _)
collect_ownership_cycles_from(start, current, graph, path, seen) ==
    LET here == path \cup {current}
        step(s, target) ==
            CASE target = start -> s \cup {here}
              [] target # start /\ target \in here -> s
              [] OTHER -> collect_ownership_cycles_from(start, target, graph, here, s)
    IN  Fold(step, seen, graph[current])

validate_ownership_cycles(graph) ==
    UNION {collect_ownership_cycles_from(start, start, graph, {}, {}) : start \in DOMAIN graph}

-----------------------------------------------------------------------------
(* Checking a function body and the fields of the structs. *)

check_function_body(function) ==
    [reports |-> check_control_flow(function.body, <<>>)
                    \cup check_single_function_return_path(function),
     unreachable |-> check_unreachable_statements(function.body, <<>>)]
check_ownership_metadata(fields) ==
    [reports |-> UNION {check_weak_struct_field(fields[i]) : i \in DOMAIN fields},
     cycles |-> validate_ownership_cycles(strong_edge_graph(fields))]

-----------------------------------------------------------------------------
(* Reference: how a statement may end, and the cycles of a graph. *)

\* A statement ends normally, by a return, or by a jump out of it (a break or
\* a continue with its label); a loop that never ends has no outcome.
Normal == <<"normal", "">>
Returned == <<"return", "">>
RECURSIVE Outcomes(_)
InOrder(statements) ==
    LET then(before, s) == IF Normal \in before THEN (before \ {Normal}) \cup Outcomes(s) ELSE before
    IN  Fold(then, {Normal}, statements)
Leaves(s, outcome) == outcome[1] = "break" /\ outcome[2] \in {"", s.label}
Repeats(s, outcome) == outcome[1] = "continue" /\ outcome[2] \in {"", s.label}
Outcomes(s) ==
    LET of(i) == Outcomes(s.kids[i])
    IN  CASE s.k = "return" -> {Returned}
          [] s.k \in {"break", "continue"} -> {<<s.k, s.label>>}
          [] s.k = "block" -> InOrder(s.kids)
          [] s.k = "if" -> of(1) \cup (IF Len(s.kids) = 1 THEN {Normal} ELSE of(2))
          [] s.k \in {"loop", "for"} ->
                {o \in of(1) : o # Normal /\ ~Leaves(s, o) /\ ~Repeats(s, o)} \cup
                (IF s.k = "for" \/ s.cond \/ \E o \in of(1) : Leaves(s, o) THEN {Normal} ELSE {})
          [] OTHER -> {Normal}

RECURSIVE Statements(_)
Statements(s) == {s} \cup UNION {Statements(s.kids[i]) : i \in DOMAIN s.kids}

RECURSIVE StatementAt(_, _)
StatementAt(s, place) ==
    IF place = <<>> THEN s ELSE StatementAt(s.kids[Head(place)], Tail(place))

\* A loop that is taken to return although a break leaves it first.
BreaksFirst(body) == \E s \in Statements(body) :
    s.k = "loop" /\ statement_guarantees_return(s) /\ Normal \in Outcomes(s)

\* The type mentions a generic parameter, through aliases too.
Generic(t) == generic_parameter_symbols_from_type(t) # {}

Accounted(function, checked) ==
    LET body == function.body
        mayEnd == function.returns = NoType \/ resolve_alias_type(function.returns) = NullType
    IN
    /\ checked.reports \subseteq {"missing return", "duplicate target"} =>
         Outcomes(body) \subseteq {Normal, Returned}
    /\ mayEnd => "missing return" \notin checked.reports
    /\ ~BreaksFirst(body) =>
         /\ checked.reports = {} /\ ~mayEnd /\ ~Generic(function.returns) =>
              Outcomes(body) \subseteq {Returned}
         /\ \A place \in checked.unreachable :
              LET n == Len(place)
                  block == StatementAt(body, SubSeq(place, 1, n - 1))
              IN  Normal \notin InOrder(SubSeq(block.kids, 1, place[n] - 1))

\* The sets of symbols of the simple cycles of a graph.
Edge(edges, a, b) == \E i \in DOMAIN edges[a] : edges[a][i] = b
CycleSets(edges) ==
    {S \in SUBSET DOMAIN edges : \E n \in 1..Cardinality(DOMAIN edges) : \E walk \in [1..n -> S] :
        /\ {walk[i] : i \in 1..n} = S /\ Cardinality(S) = n
        /\ \A i \in 1..n : Edge(edges, walk[i], walk[(i % n) + 1])}

OwnershipFound(fields) ==
    check_ownership_metadata(fields).cycles = CycleSets(strong_edge_graph(fields))
InitializersFound(cycles, reported) ==
    reported \subseteq UNION cycles /\ \A c \in cycles : c \cap reported # {}
=============================================================================
