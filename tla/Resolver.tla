------------------------------ MODULE Resolver ------------------------------
(***************************************************************************)
(* Name resolution of one module (galfus-frontend/src/resolver).           *)
(*                                                                         *)
(* The resolver walks the syntax tree eleven times.  The early passes      *)
(* declare symbols and open scopes, the later ones look names up in what   *)
(* the early ones built, so the outcome depends on which pass declares     *)
(* what, and on every pass finding the scope of a node under the same      *)
(* node.  The layer r is threaded through the passes.                       *)
(*                                                                         *)
(* A syntax node is a record [kind, text, kids]; a node's identifier is    *)
(* its path from the root, the sequence of child positions.  A name is a   *)
(* sequence of words: an anchored function S::m is called <<"S", "m">>.    *)
(***************************************************************************)
EXTENDS Naturals, Sequences, SequencesExt, FiniteSets, Iteration

CONSTANTS
    BuiltinTypes,       \* names of the built-in types
    BuiltinConstraints  \* name of a built-in constraint -> names of its members

VARIABLE
    program             \* the syntax tree of the module being resolved

NoNode == <<0>>
NoScope == 0
NoSymbol == 0
Root == <<>>

---------------------------------------------------------------------------
(* The syntax layer. *)

RECURSIVE NodeIn(_, _)
NodeIn(tree, path) ==
    IF path = <<>> THEN tree ELSE NodeIn(tree.kids[Head(path)], Tail(path))

Kind(n) == NodeIn(program, n).kind
Text(n) == NodeIn(program, n).text
Kids(n) == [i \in 1..Len(NodeIn(program, n).kids) |-> Append(n, i)]

\* child: the i-th child, counted from 1.
child(n, i) == IF i <= Len(Kids(n)) THEN Kids(n)[i] ELSE NoNode

last_child(n) == IF Kids(n) = <<>> THEN NoNode ELSE Kids(n)[Len(Kids(n))]

first_child_of_kind(n, kind) ==
    LET found == SelectSeq(Kids(n), LAMBDA c : Kind(c) = kind)
    IN  IF found = <<>> THEN NoNode ELSE found[1]

\* Every pass sees through `export`.
Items == [i \in 1..Len(Kids(Root)) |->
            IF Kind(Kids(Root)[i]) = "ExportItem"
            THEN child(Kids(Root)[i], 1)
            ELSE Kids(Root)[i]]

\* The nodes of a subtree, the node itself first.
RECURSIVE Subtree(_)
Subtree(n) == {n} \cup UNION {Subtree(c) : c \in ToSet(Kids(n))}

---------------------------------------------------------------------------
(* The ResolutionLayer. *)

Put(f, k, v) == (k :> v) @@ f
Get(f, k, default) == IF k \in DOMAIN f THEN f[k] ELSE default
NoEntries == [x \in {} |-> 0]

EmptyLayer ==
    [scopes |-> <<>>, symbols |-> <<>>, imports |-> <<>>, exports |-> <<>>,
     declarations |-> NoEntries, references |-> NoEntries,
     path_references |-> NoEntries, type_references |-> NoEntries,
     type_path_references |-> NoEntries, node_scopes |-> NoEntries,
     member_scopes |-> NoEntries, builtin_scope |-> NoScope,
     module_scope |-> NoScope, errors |-> {}]

bind_scope(r, node, scope) == [r EXCEPT !.node_scopes = Put(@, node, scope)]

add_scope(r, kind, parent, owner) ==
    LET id == Len(r.scopes) + 1
        added == [r EXCEPT
            !.scopes = Append(@, [kind |-> kind, parent |-> parent, symbols |-> NoEntries]),
            !.module_scope = IF kind = "Module" THEN id ELSE @,
            !.builtin_scope = IF kind = "Builtin" THEN id ELSE @]
    IN  IF owner = NoNode THEN added ELSE bind_scope(added, owner, id)

\* The scope add_scope has just opened.
Opened(r) == Len(r.scopes)

add_symbol(r, name, kind, declaration, scope) ==
    [r EXCEPT
        !.symbols = Append(@, [name |-> name, kind |-> kind,
                               declaration |-> declaration, scope |-> scope]),
        !.declarations = Put(@, declaration, Len(r.symbols) + 1)]

insert_symbol(r, name, scope, symbol) ==
    [r EXCEPT !.scopes[scope].symbols = Put(@, name, symbol)]

Error(r, code, node) == [r EXCEPT !.errors = @ \cup {<<code, node>>}]

\* The first declaration of a name in a scope stays, a second is an error.
declare_symbol(r, name, kind, declaration, scope) ==
    IF name \in DOMAIN r.scopes[scope].symbols
    THEN Error(r, "DuplicateSymbol", declaration)
    ELSE insert_symbol(add_symbol(r, name, kind, declaration, scope),
                       name, scope, Len(r.symbols) + 1)

RECURSIVE lookup_symbol(_, _, _)
lookup_symbol(r, scope, name) ==
    IF scope = NoScope THEN NoSymbol
    ELSE IF name \in DOMAIN r.scopes[scope].symbols
    THEN r.scopes[scope].symbols[name]
    ELSE lookup_symbol(r, r.scopes[scope].parent, name)

lookup_direct_symbol(r, scope, name) ==
    Get(r.scopes[scope].symbols, name, NoSymbol)

node_scope(r, node, default) == Get(r.node_scopes, node, default)
declaration_symbol(r, node) == Get(r.declarations, node, NoSymbol)
member_scope(r, symbol) == Get(r.member_scopes, symbol, NoScope)
SymbolKind(r, symbol) == r.symbols[symbol].kind

\* Declares the identifiers of a sequence, in order, in one scope.
DeclareAll(r, identifiers, kind, scope) ==
    Fold(LAMBDA acc, n : declare_symbol(acc, Text(n), kind, n, scope), r, identifiers)

Flatten(seqs) == Fold(LAMBDA acc, s : acc \o s, <<>>, seqs)

---------------------------------------------------------------------------
(* The built-in scope and the module scope. *)

declare_builtin_type(r, scope, name) ==
    IF name \in DOMAIN r.scopes[scope].symbols THEN r
    ELSE insert_symbol(add_symbol(r, name, "BuiltinType", Root, scope),
                       name, scope, Len(r.symbols) + 1)

\* A constraint owns a member scope below the built-in one, bound to the root.
declare_builtin_constraint(r, scope, name) ==
    LET symbol == Len(r.symbols) + 1
        declared == insert_symbol(add_symbol(r, name, "Constraint", Root, scope),
                                  name, scope, symbol)
        opened == add_scope(declared, "Constraint", scope, Root)
        members == SetToSeq(BuiltinConstraints[name])
        bound == [opened EXCEPT !.member_scopes = Put(@, symbol, Opened(opened))]
    IN  IF name \in DOMAIN r.scopes[scope].symbols THEN r
        ELSE Fold(LAMBDA acc, m :
                        insert_symbol(add_symbol(acc, m, "ConstraintFunction", Root, Opened(opened)),
                                      m, Opened(opened), Len(acc.symbols) + 1),
                      bound, members)

create_builtin_scope(r) ==
    LET opened == add_scope(r, "Builtin", NoScope, NoNode)
        scope == Opened(opened)
        types == Fold(LAMBDA acc, t : declare_builtin_type(acc, scope, t),
                          opened, SetToSeq(BuiltinTypes))
    IN  Fold(LAMBDA acc, c : declare_builtin_constraint(acc, scope, c),
                 types, SetToSeq(DOMAIN BuiltinConstraints))

\* Resolver::new; resolve_source_file then binds the root to the module scope.
NewResolver ==
    LET r == add_scope(create_builtin_scope(EmptyLayer), "Module", NoScope, Root)
    IN  bind_scope(r, Root, r.module_scope)

---------------------------------------------------------------------------
(* Pass 1: the names of the module's own items. *)

\* The identifiers a binding pattern declares.
RECURSIVE declare_binding_pattern(_)
declare_binding_pattern(n) ==
    LET kids == IF Kind(n) = "StructPattern" THEN Tail(Kids(n)) ELSE Kids(n)
        inner == Flatten([i \in 1..Len(kids) |-> declare_binding_pattern(kids[i])])
    IN  CASE Kind(n) = "Identifier" -> <<n>>
          [] Kind(n) \in {"BindingPattern", "StructBindingPattern", "TupleBindingPattern",
                          "ArrayBindingPattern", "StructPattern", "RestBindingPattern"} -> inner
          [] Kind(n) \in {"StructBindingField", "StructPatternField"} ->
                IF Len(Kids(n)) = 1 THEN Kids(n)
                ELSE declare_binding_pattern(child(n, 2))
          [] OTHER -> <<>>

function_name(item) == first_child_of_kind(item, "Identifier")

function_symbol_name(item, name) ==
    LET anchor == first_child_of_kind(item, "FunctionAnchor")
    IN  IF anchor = NoNode THEN Text(name) ELSE Text(anchor) \o Text(name)

NamedItems ==
    [TypeAliasItem |-> "TypeAlias", StructItem |-> "Struct", EnumItem |-> "Enum",
     ChoiceItem |-> "Choice", ConstraintItem |-> "Constraint"]

declare_named_item(r, item, kind, scope) ==
    LET name == first_child_of_kind(item, "Identifier")
    IN  declare_symbol(r, Text(name), kind, name, scope)

declare_function_item(r, item, scope) ==
    LET name == function_name(item)
    IN  declare_symbol(r, function_symbol_name(item, name), "Function", name, scope)

\* A binding whose pattern is the wildcard has no BindingPattern child.
declare_binding_item(r, item, kind, scope) ==
    LET pattern == first_child_of_kind(item, "BindingPattern")
    IN  IF pattern = NoNode THEN r
        ELSE DeclareAll(r, declare_binding_pattern(pattern), kind, scope)

declare_top_level_item(r, item) ==
    LET kind == Kind(item)
        scope == r.module_scope
    IN  CASE kind = "FunctionItem" -> declare_function_item(r, item, scope)
          [] kind \in DOMAIN NamedItems -> declare_named_item(r, item, NamedItems[kind], scope)
          [] kind = "VarItem" -> declare_binding_item(r, item, "Var", scope)
          [] kind = "ConstItem" -> declare_binding_item(r, item, "Const", scope)
          [] OTHER -> r

---------------------------------------------------------------------------
(* Passes 2 and 3: imports, and the export surface. *)

add_import(r, record) == [r EXCEPT !.imports = Append(@, record)]

\* A binding that is already declared makes no import record.
DeclareImport(r, item, kind, symbolKind, declaration, imported) ==
    LET declared == declare_symbol(r, Text(declaration), symbolKind, declaration, r.module_scope)
    IN  IF Len(declared.symbols) = Len(r.symbols) THEN declared
        ELSE add_import(declared,
                        [kind |-> kind, import_node |-> item, declaration |-> declaration,
                         imported |-> imported, symbol |-> Len(declared.symbols)])

declare_namespace_import(r, item, clause) ==
    DeclareImport(r, item, "Namespace", "ImportNamespace",
                  first_child_of_kind(clause, "Identifier"), <<>>)

declare_named_import(r, item, named) ==
    LET imported == first_child_of_kind(named, "Identifier")
        alias == first_child_of_kind(named, "ImportAlias")
        declaration == IF alias = NoNode THEN imported
                       ELSE first_child_of_kind(alias, "Identifier")
    IN  DeclareImport(r, item, "Named", "ImportBinding", declaration, Text(imported))

declare_import_item(r, item) ==
    LET clause == child(item, 1)
    IN  IF Kind(item) # "ImportItem" THEN r
        ELSE IF Kind(clause) = "NamespaceImport" THEN declare_namespace_import(r, item, clause)
        ELSE Fold(LAMBDA acc, n : declare_named_import(acc, item, n), r, Kids(clause))

\* One export per symbol and per name: a second one changes nothing.
add_export(r, name, symbol) ==
    IF \E e \in ToSet(r.exports) : e.symbol = symbol \/ e.name = name THEN r
    ELSE [r EXCEPT !.exports = Append(@, [name |-> name, symbol |-> symbol])]

\* An item whose declaration was refused as a duplicate is not exported.
export_declaration(r, declaration, name) ==
    IF declaration_symbol(r, declaration) = NoSymbol THEN r
    ELSE add_export(r, name, declaration_symbol(r, declaration))

export_import_bindings(r, item) ==
    Fold(LAMBDA acc, i : IF i.import_node = item
                             THEN add_export(acc, Text(i.declaration), i.symbol) ELSE acc,
             r, r.imports)

RECURSIVE export_binding_pattern(_)

\* The identifiers of a binding pattern that `export` makes public.
export_binding_pattern(n) ==
    LET inner == Flatten([i \in 1..Len(Kids(n)) |-> export_binding_pattern(Kids(n)[i])])
    IN  CASE Kind(n) = "Identifier" -> <<n>>
          [] Kind(n) \in {"BindingPattern", "StructBindingPattern", "TupleBindingPattern",
                          "ArrayBindingPattern", "RestBindingPattern"} -> inner
          [] Kind(n) = "StructBindingField" ->
                IF Len(Kids(n)) = 1 THEN Kids(n) ELSE export_binding_pattern(child(n, 2))
          [] OTHER -> <<>>

export_top_level_item(r, item) ==
    LET name == first_child_of_kind(item, "Identifier")
        pattern == first_child_of_kind(item, "BindingPattern")
    IN  CASE Kind(item) = "ImportItem" -> export_import_bindings(r, item)
          [] Kind(item) = "FunctionItem" ->
                export_declaration(r, function_name(item),
                                   function_symbol_name(item, function_name(item)))
          [] Kind(item) \in DOMAIN NamedItems -> export_declaration(r, name, Text(name))
          [] Kind(item) \in {"VarItem", "ConstItem"} /\ pattern # NoNode ->
                Fold(LAMBDA acc, n : export_declaration(acc, n, Text(n)),
                         r, export_binding_pattern(pattern))
          [] OTHER -> r

build_export_surface_item(r, node) ==
    IF Kind(node) = "ExportItem" THEN export_top_level_item(r, child(node, 1)) ELSE r

---------------------------------------------------------------------------
(* Passes 4 and 5: function scopes with their parameters, then generics. *)

\* A parameter is a binding pattern, or the identifier `self`.
declare_parameter(n) ==
    LET pattern == first_child_of_kind(n, "BindingPattern")
        name == first_child_of_kind(n, "Identifier")
    IN  IF pattern # NoNode THEN declare_binding_pattern(pattern)
        ELSE IF name # NoNode THEN <<name>> ELSE <<>>

declare_parameter_list(r, parameters, scope) ==
    Fold(LAMBDA acc, n :
                DeclareAll(acc, declare_parameter(n),
                           IF Kind(n) = "RestParameter" THEN "RestParameter" ELSE "Parameter",
                           scope),
             r, SelectSeq(Kids(parameters), LAMBDA n : Kind(n) \in {"Parameter", "RestParameter"}))

RECURSIVE function_anchor_base_name(_)
function_anchor_base_name(n) ==
    IF Kind(n) = "GenericType" THEN function_anchor_base_name(child(n, 1))
    ELSE first_child_of_kind(n, "Identifier")

struct_item_for_symbol(r, symbol) ==
    CHOOSE item \in Subtree(Root) :
        /\ Kind(item) = "StructItem"
        /\ declaration_symbol(r, first_child_of_kind(item, "Identifier")) = symbol

\* The local struct a function is anchored to, or NoSymbol.
AnchorStruct(r, function) ==
    LET anchor == first_child_of_kind(function, "FunctionAnchor")
        symbol == lookup_symbol(r, r.module_scope,
                                Text(function_anchor_base_name(child(anchor, 1))))
    IN  IF anchor = NoNode THEN NoSymbol
        ELSE IF symbol = NoSymbol THEN NoSymbol
        ELSE IF SymbolKind(r, symbol) = "Struct" THEN symbol ELSE NoSymbol

\* An anchored function's scope lies in the scope of its struct, opened here
\* when no earlier function did.
resolve_function_item_scope(r, function) ==
    LET struct == AnchorStruct(r, function)
        item == struct_item_for_symbol(r, struct)
        ready == IF struct = NoSymbol \/ node_scope(r, item, NoScope) # NoScope THEN r
                 ELSE add_scope(r, "Struct", r.module_scope, item)
        parent == IF struct = NoSymbol THEN r.module_scope
                  ELSE node_scope(ready, item, NoScope)
        opened == add_scope(ready, "Function", parent, function)
        parameters == first_child_of_kind(function, "ParameterList")
    IN  IF parameters = NoNode THEN opened
        ELSE declare_parameter_list(bind_scope(opened, parameters, Opened(opened)),
                                    parameters, Opened(opened))

resolve_function_scope_item(r, item) ==
    IF Kind(item) = "FunctionItem" THEN resolve_function_item_scope(r, item) ELSE r

ensure_item_scope(r, item, kind) ==
    IF node_scope(r, item, NoScope) # NoScope THEN r
    ELSE add_scope(r, kind, r.module_scope, item)

declare_generic_parameters_in(r, item, scope) ==
    LET generics == first_child_of_kind(item, "GenericParameterList")
    IN  IF generics = NoNode THEN r
        ELSE DeclareAll(bind_scope(r, generics, scope),
                        [i \in 1..Len(Kids(generics)) |->
                            first_child_of_kind(Kids(generics)[i], "Identifier")],
                        "GenericParameter", scope)

resolve_generic_parameter_scope_item(r, item) ==
    LET ensured == IF Kind(item) = "FunctionItem" THEN r
                   ELSE ensure_item_scope(r, item, NamedItems[Kind(item)])
    IN  IF Kind(item) \in {"FunctionItem"} \cup DOMAIN NamedItems
        THEN declare_generic_parameters_in(ensured, item,
                                           node_scope(ensured, item, r.module_scope))
        ELSE r

---------------------------------------------------------------------------
(* Pass 6: blocks, loops, arms and function expressions, with what they    *)
(* declare.                                                                *)

\* The identifiers a binding inside a match arm declares.
RECURSIVE declare_match_binding_pattern(_)
declare_match_binding_pattern(n) ==
    LET kids == IF Kind(n) = "StructPattern" THEN Tail(Kids(n)) ELSE Kids(n)
        inner == Flatten([i \in 1..Len(kids) |-> declare_match_binding_pattern(kids[i])])
    IN  CASE Kind(n) = "Identifier" -> <<n>>
          [] Kind(n) \in {"BindingPattern", "StructBindingPattern", "TupleBindingPattern",
                          "ArrayBindingPattern", "StructPattern", "RestBindingPattern"} -> inner
          [] Kind(n) \in {"StructBindingField", "StructPatternField"} ->
                IF Len(Kids(n)) = 1 THEN Kids(n)
                ELSE declare_match_binding_pattern(child(n, 2))
          [] OTHER -> <<>>

\* The identifiers the pattern of a match arm declares.  A struct pattern is
\* none of these cases: it declares nothing.
RECURSIVE declare_pattern_bindings(_)
declare_pattern_bindings(n) ==
    LET inner == Flatten([i \in 1..Len(Kids(n)) |-> declare_pattern_bindings(Kids(n)[i])])
        payload == first_child_of_kind(n, "VariantPatternPayload")
    IN  CASE Kind(n) = "BindingPattern" -> declare_match_binding_pattern(n)
          [] Kind(n) \in {"VariantPatternPayload", "TupleBindingPattern",
                          "ArrayBindingPattern"} -> inner
          [] Kind(n) = "VariantPattern" /\ payload # NoNode -> declare_pattern_bindings(payload)
          [] OTHER -> <<>>

declare_instanceof_pattern_bindings(n) ==
    LET binding == first_child_of_kind(n, "TypePatternBinding")
    IN  CASE Kind(n) = "BindingPattern" -> declare_match_binding_pattern(n)
          [] Kind(n) = "TypePattern" /\ binding # NoNode ->
                <<first_child_of_kind(binding, "Identifier")>>
          [] OTHER -> <<>>

declare_for_binding(n) ==
    Flatten([i \in 1..Len(Kids(n)) |->
        CASE Kind(Kids(n)[i]) = "BindingPattern" -> declare_binding_pattern(Kids(n)[i])
          [] Kind(Kids(n)[i]) = "Identifier" -> <<Kids(n)[i]>>
          [] OTHER -> <<>>])

RECURSIVE resolve_block(_, _, _)
RECURSIVE resolve_nested_blocks_in(_, _, _)

\* A body is a block, with a scope of its own, or an expression.
ResolveBody(r, body, scope) ==
    IF Kind(body) = "Block" THEN resolve_block(r, body, scope)
    ELSE resolve_nested_blocks_in(r, body, scope)

resolve_function_expression(r, expression, parent) ==
    LET opened == add_scope(r, "FunctionExpression", parent, expression)
        scope == Opened(opened)
        parameters == first_child_of_kind(expression, "ParameterList")
        declared == IF parameters = NoNode THEN opened
                    ELSE declare_parameter_list(bind_scope(opened, parameters, scope),
                                                parameters, scope)
    IN  ResolveBody(declared, last_child(expression), scope)

\* The iterable is not searched for nested scopes.
resolve_for_statement(r, statement, parent) ==
    LET opened == add_scope(r, "For", parent, statement)
        scope == Opened(opened)
        binding == first_child_of_kind(statement, "ForBinding")
        declared == IF binding = NoNode THEN opened
                    ELSE DeclareAll(opened, declare_for_binding(binding), "ForBinding", scope)
        body == first_child_of_kind(statement, "Block")
    IN  IF body = NoNode THEN declared ELSE resolve_block(declared, body, scope)

ArmBody(arm) == child(child(arm, 2), 1)

resolve_match_arm(r, arm, parent) ==
    LET opened == add_scope(r, "MatchArm", parent, arm)
        scope == Opened(opened)
    IN  ResolveBody(DeclareAll(opened, declare_pattern_bindings(child(arm, 1)),
                               "PatternBinding", scope),
                    ArmBody(arm), scope)

resolve_instanceof_arm(r, arm, parent) ==
    LET opened == add_scope(r, "InstanceofArm", parent, arm)
        scope == Opened(opened)
    IN  ResolveBody(DeclareAll(opened, declare_instanceof_pattern_bindings(child(arm, 1)),
                               "TypePatternBinding", scope),
                    ArmBody(arm), scope)

resolve_nested_blocks_in(r, node, scope) ==
    Fold(LAMBDA acc, c :
        CASE Kind(c) \in {"ExpressionFunction", "BlockFunction"} ->
                resolve_function_expression(acc, c, scope)
          [] Kind(c) = "ForStatement" -> resolve_for_statement(acc, c, scope)
          [] Kind(c) = "Block" -> resolve_block(acc, c, scope)
          [] Kind(c) = "MatchArm" -> resolve_match_arm(acc, c, scope)
          [] Kind(c) = "InstanceofArm" -> resolve_instanceof_arm(acc, c, scope)
          [] OTHER -> resolve_nested_blocks_in(acc, c, scope),
        r, Kids(node))

declare_block_statement(r, n, scope) ==
    CASE Kind(n) = "VarStatement" ->
            resolve_nested_blocks_in(declare_binding_item(r, n, "Var", scope), n, scope)
      [] Kind(n) = "ConstStatement" ->
            resolve_nested_blocks_in(declare_binding_item(r, n, "Const", scope), n, scope)
      [] Kind(n) = "Block" -> resolve_block(r, n, scope)
      [] Kind(n) = "ForStatement" -> resolve_for_statement(r, n, scope)
      [] Kind(n) \in {"IfStatement", "LoopStatement", "ReturnStatement",
                      "ExpressionStatement", "AssignmentStatement"} ->
            resolve_nested_blocks_in(r, n, scope)
      [] OTHER -> r

resolve_block(r, block, parent) ==
    LET opened == add_scope(r, "Block", parent, block)
    IN  Fold(LAMBDA acc, n : declare_block_statement(acc, n, Opened(opened)),
                 opened, Kids(block))

resolve_block_scope_item(r, item) ==
    LET body == first_child_of_kind(item, "Block")
    IN  CASE Kind(item) = "FunctionItem" /\ body # NoNode ->
                resolve_block(r, body, node_scope(r, item, NoScope))
          [] Kind(item) \in {"VarItem", "ConstItem"} ->
                resolve_nested_blocks_in(r, item, r.module_scope)
          [] OTHER -> r

---------------------------------------------------------------------------
(* Pass 7: type names.  Members of types are not declared yet, so a field  *)
(* never hides a type.                                                     *)

is_type_symbol(kind) ==
    kind \in {"TypeAlias", "Struct", "Enum", "Choice", "Constraint",
              "GenericParameter", "ImportBinding", "BuiltinType"}

is_type_path_root_symbol(kind) == is_type_symbol(kind) \/ kind = "ImportNamespace"

bind_type_reference(r, node, symbol) ==
    [r EXCEPT !.type_references = Put(@, node, symbol)]

\* Mutant: built-in types are looked up before the scopes.
resolve_named_type_BuiltinFirst(r, node, scope) ==
    LET name == Text(first_child_of_kind(node, "Identifier"))
        found == lookup_symbol(r, scope, name)
        builtin == lookup_direct_symbol(r, r.builtin_scope, name)
    IN  IF builtin # NoSymbol THEN bind_type_reference(r, node, builtin)
        ELSE IF found = NoSymbol THEN Error(r, "UnresolvedType", node)
        ELSE IF is_type_symbol(SymbolKind(r, found))
        THEN bind_type_reference(r, node, found)
        ELSE Error(r, "UnresolvedType", node)

\* A built-in type is found only when no scope declares the name.
resolve_named_type(r, node, scope) ==
    LET name == Text(first_child_of_kind(node, "Identifier"))
        found == lookup_symbol(r, scope, name)
        builtin == lookup_direct_symbol(r, r.builtin_scope, name)
    IN  IF found # NoSymbol
        THEN IF is_type_symbol(SymbolKind(r, found))
             THEN bind_type_reference(r, node, found)
             ELSE Error(r, "UnresolvedType", node)
        ELSE IF builtin # NoSymbol THEN bind_type_reference(r, node, builtin)
        ELSE Error(r, "UnresolvedType", node)

resolve_type_path(r, node, scope) ==
    LET found == lookup_symbol(r, scope, Text(first_child_of_kind(node, "Identifier")))
    IN  IF found = NoSymbol THEN Error(r, "UnresolvedType", node)
        ELSE IF is_type_path_root_symbol(SymbolKind(r, found))
        THEN bind_type_reference(r, node, found)
        ELSE Error(r, "UnresolvedType", node)

RECURSIVE resolve_type_references_in_node(_, _, _)
resolve_type_references_in_node(r, node, current) ==
    LET scope == node_scope(r, node, current)
    IN  CASE Kind(node) = "NamedType" -> resolve_named_type(r, node, scope)
          [] Kind(node) = "Path" -> resolve_type_path(r, node, scope)
          [] OTHER -> Fold(LAMBDA acc, c : resolve_type_references_in_node(acc, c, scope),
                               r, Kids(node))

TypedItems == {"FunctionItem", "VarItem", "ConstItem"} \cup DOMAIN NamedItems

resolve_type_reference_item(r, item) ==
    IF Kind(item) \in TypedItems
    THEN resolve_type_references_in_node(r, item, r.module_scope)
    ELSE r

---------------------------------------------------------------------------
(* Passes 8 to 10: members of types, members named by type paths, anchors. *)

MemberLists ==
    [StructItem |-> [list |-> "StructFieldList",
                     StructField |-> "StructField", WeakStructField |-> "StructField"],
     EnumItem |-> [list |-> "EnumVariantList", EnumVariant |-> "EnumVariant"],
     ChoiceItem |-> [list |-> "ChoiceVariantList", ChoiceVariant |-> "ChoiceVariant"],
     ConstraintItem |-> [list |-> "ConstraintMemberList", ConstraintField |-> "ConstraintField",
                         ConstraintFunctionSignature |-> "ConstraintFunction"]]

bind_type_member_scope(r, item, scope) ==
    LET symbol == declaration_symbol(r, first_child_of_kind(item, "Identifier"))
    IN  IF symbol = NoSymbol THEN r
        ELSE [r EXCEPT !.member_scopes = Put(@, symbol, scope)]

declare_members(r, item, scope) ==
    LET shape == MemberLists[Kind(item)]
        list == first_child_of_kind(item, shape.list)
    IN  IF list = NoNode THEN r
        ELSE Fold(LAMBDA acc, m :
                DeclareAll(acc, <<first_child_of_kind(m, "Identifier")>>, shape[Kind(m)], scope),
                r, SelectSeq(Kids(list), LAMBDA m : Kind(m) \in DOMAIN shape))

resolve_type_member_scope_item(r, item) ==
    LET ensured == ensure_item_scope(r, item, NamedItems[Kind(item)])
        scope == node_scope(ensured, item, NoScope)
    IN  IF Kind(item) \in DOMAIN MemberLists
        THEN declare_members(bind_type_member_scope(ensured, item, scope), item, scope)
        ELSE r

\* Follows the members of a path; an unknown one is an error only where the
\* owner has members at all.
RECURSIVE FollowMembers(_, _, _)
FollowMembers(r, symbol, members) ==
    LET scope == member_scope(r, symbol)
        found == lookup_direct_symbol(r, scope, Text(Head(members)))
    IN  IF members = <<>> THEN [symbol |-> symbol, missing |-> NoNode]
        ELSE IF scope = NoScope THEN [symbol |-> NoSymbol, missing |-> NoNode]
        ELSE IF found = NoSymbol THEN [symbol |-> NoSymbol, missing |-> Head(members)]
        ELSE FollowMembers(r, found, Tail(members))

resolve_type_path_member(r, path) ==
    LET root == Get(r.type_references, path, NoSymbol)
        end == FollowMembers(r, root, Tail(Kids(path)))
    IN  IF root = NoSymbol THEN r
        ELSE IF end.missing # NoNode THEN Error(r, "UnresolvedType", end.missing)
        ELSE IF end.symbol \in {NoSymbol, root} THEN r
        ELSE [r EXCEPT !.type_path_references = Put(@, path, end.symbol)]

RECURSIVE resolve_type_path_members_in_node(_, _)
resolve_type_path_members_in_node(r, node) ==
    IF Kind(node) = "Path" THEN resolve_type_path_member(r, node)
    ELSE Fold(LAMBDA acc, c : resolve_type_path_members_in_node(acc, c), r, Kids(node))

resolve_type_path_member_item(r, item) ==
    IF Kind(item) \in TypedItems THEN resolve_type_path_members_in_node(r, item) ELSE r

RECURSIVE anchor_type_symbol(_, _)
anchor_type_symbol(r, n) ==
    CASE Kind(n) = "NamedType" -> Get(r.type_references, n, NoSymbol)
      [] Kind(n) = "Path" -> Get(r.type_path_references, n, Get(r.type_references, n, NoSymbol))
      [] Kind(n) = "GenericType" -> anchor_type_symbol(r, child(n, 1))
      [] OTHER -> NoSymbol

validate_function_anchor(r, function) ==
    LET anchor == first_child_of_kind(function, "FunctionAnchor")
        symbol == anchor_type_symbol(r, child(anchor, 1))
    IN  IF anchor = NoNode THEN r
        ELSE IF symbol = NoSymbol THEN r
        ELSE IF SymbolKind(r, symbol) \in {"Struct", "ImportBinding"} THEN r
        ELSE Error(r, "InvalidFunctionAnchor", anchor)

validate_function_anchor_item(r, item) ==
    IF Kind(item) = "FunctionItem" THEN validate_function_anchor(r, item) ELSE r

---------------------------------------------------------------------------
(* Pass 11: names and paths in expressions and patterns. *)

bind_reference(r, node, symbol) == [r EXCEPT !.references = Put(@, node, symbol)]
bind_path_reference(r, node, symbol) == [r EXCEPT !.path_references = Put(@, node, symbol)]

\* Binds `node` to what `name` denotes in a scope, or reports the name.
BindName(r, node, name, scope) ==
    LET found == lookup_symbol(r, scope, Text(name))
    IN  IF found = NoSymbol THEN Error(r, "UnresolvedName", name)
        ELSE bind_reference(r, node, found)

resolve_name_expression(r, node, scope) ==
    BindName(r, node, first_child_of_kind(node, "Identifier"), scope)

resolve_local_path_member(r, root, name) ==
    IF member_scope(r, root) = NoScope THEN NoSymbol
    ELSE lookup_direct_symbol(r, member_scope(r, root), name)

resolve_anchor_function_member(r, root, name) ==
    LET found == lookup_symbol(r, r.module_scope, r.symbols[root].name \o name)
    IN  IF SymbolKind(r, root) # "Struct" THEN NoSymbol
        ELSE IF found = NoSymbol THEN NoSymbol
        ELSE IF SymbolKind(r, found) = "Function" THEN found ELSE NoSymbol

should_report_unresolved_path_member(r, root) ==
    SymbolKind(r, root) \in {"Enum", "Choice", "Constraint", "Struct"}

\* A member of the type first, else a function anchored to it.
resolve_path_expression_member(r, expression, root) ==
    LET name == Text(child(expression, 2))
        member == resolve_local_path_member(r, root, name)
        anchored == resolve_anchor_function_member(r, root, name)
    IN  IF member # NoSymbol THEN bind_path_reference(r, expression, member)
        ELSE IF anchored # NoSymbol THEN bind_path_reference(r, expression, anchored)
        ELSE IF should_report_unresolved_path_member(r, root)
        THEN Error(r, "UnresolvedName", child(expression, 2))
        ELSE r

\* `Name<T>` refers to what `Name` refers to.
RECURSIVE WithoutGenerics(_)
WithoutGenerics(n) ==
    IF Kind(n) = "GenericExpression" THEN WithoutGenerics(child(n, 1)) ELSE n

RECURSIVE resolve_node_references(_, _, _, _)

resolve_path_expression(r, node, scope) ==
    LET walked == resolve_node_references(r, child(node, 1), scope, "None")
        root == Get(walked.references, WithoutGenerics(child(node, 1)), NoSymbol)
    IN  IF root = NoSymbol THEN walked
        ELSE resolve_path_expression_member(bind_reference(walked, node, root), node, root)

resolve_variant_pattern_member(r, pattern, root) ==
    LET scope == member_scope(r, root)
        found == lookup_direct_symbol(r, scope, Text(child(pattern, 2)))
        variant == IF found = NoSymbol THEN FALSE
                   ELSE SymbolKind(r, found) \in {"EnumVariant", "ChoiceVariant"}
    IN  IF scope = NoScope THEN r
        ELSE IF variant THEN bind_path_reference(r, pattern, found)
        ELSE Error(r, "UnresolvedName", child(pattern, 2))

\* node_text of a name or of a path: the words of its identifiers.
RECURSIVE node_text(_)
node_text(n) ==
    IF Kids(n) = <<>> THEN Text(n)
    ELSE Fold(LAMBDA acc, c : acc \o node_text(c), <<>>, Kids(n))

\* The root is what its name or its path refers to, or what its text names.
\* An unresolved root has been reported when its name was walked.
resolve_variant_pattern(r, pattern, scope) ==
    LET walked == resolve_node_references(r, child(pattern, 1), scope, "None")
        target == WithoutGenerics(child(pattern, 1))
        root == Get(walked.references, target,
                    Get(walked.path_references, target,
                        lookup_symbol(walked, scope, node_text(target))))
    IN  IF root = NoSymbol THEN Error(walked, "UnresolvedName", target)
        ELSE resolve_variant_pattern_member(bind_reference(walked, pattern, root), pattern, root)

\* The second child is taken for the iterable and the third for the body.
resolve_for_statement_references(r, statement, parent, scope) ==
    LET iterated == resolve_node_references(r, child(statement, 2), parent, "None")
    IN  resolve_node_references(iterated, child(statement, 3), scope, "None")

resolve_function_expression_references(r, expression, scope) ==
    LET parameters == first_child_of_kind(expression, "ParameterList")
        defaults == IF parameters = NoNode THEN r
                    ELSE resolve_node_references(r, parameters, scope, "None")
    IN  resolve_node_references(defaults, last_child(expression), scope, "None")

resolve_node_references(r, node, current, parentKind) ==
    LET scope == node_scope(r, node, current)
        kind == Kind(node)
        walked == IF kind = "VariantPattern" THEN resolve_variant_pattern(r, node, scope) ELSE r
    IN  CASE kind = "NameExpression" -> resolve_name_expression(r, node, scope)
          [] kind = "StructLiteralFieldShorthand" ->
                BindName(r, child(node, 1), child(node, 1), scope)
          [] kind = "PathExpression" -> resolve_path_expression(r, node, scope)
          [] kind = "ForStatement" ->
                resolve_for_statement_references(r, node, current, scope)
          [] kind \in {"ExpressionFunction", "BlockFunction"} ->
                resolve_function_expression_references(r, node, scope)
          [] kind = "WildcardExpression" ->
                IF parentKind = "Argument" THEN r ELSE Error(r, "UnresolvedName", node)
          [] OTHER -> Fold(LAMBDA acc, c : resolve_node_references(acc, c, scope, kind),
                               walked, Kids(node))

\* Decorator targets, in the scope of the node they are found under.
RECURSIVE resolve_decorator_references_in_node(_, _, _)
resolve_decorator_references_in_node(r, node, current) ==
    LET scope == node_scope(r, node, current)
    IN  IF Kind(node) = "Decorator" THEN resolve_node_references(r, child(node, 1), scope, "None")
        ELSE Fold(LAMBDA acc, c : resolve_decorator_references_in_node(acc, c, scope),
                      r, Kids(node))

resolve_direct_decorator_list(r, item) ==
    LET decorators == first_child_of_kind(item, "DecoratorList")
    IN  IF decorators = NoNode THEN r
        ELSE resolve_decorator_references_in_node(r, decorators, r.module_scope)

\* The parameters, for their defaults, then the body.
resolve_function_references(r, function) ==
    LET scope == node_scope(r, function, NoScope)
        parameters == first_child_of_kind(function, "ParameterList")
        defaults == IF parameters = NoNode THEN r
                    ELSE resolve_node_references(r, parameters, scope, "None")
        body == last_child(function)
    IN  resolve_node_references(defaults, body, node_scope(r, body, scope), "None")

resolve_reference_item(r, item) ==
    CASE Kind(item) = "FunctionItem" ->
            resolve_function_references(resolve_direct_decorator_list(r, item), item)
      [] Kind(item) \in {"StructItem", "ChoiceItem"} ->
            resolve_decorator_references_in_node(r, item, r.module_scope)
      [] Kind(item) \in {"VarItem", "ConstItem"} ->
            resolve_node_references(r, item, r.module_scope, "None")
      [] OTHER -> r

---------------------------------------------------------------------------
(* resolve_source_file: eleven passes over the items. *)

DeclareItems(r) == Fold(declare_top_level_item, r, Items)
DeclareImports(r) == Fold(declare_import_item, r, Items)
BuildExports(r) == Fold(build_export_surface_item, r, Kids(Root))
OpenFunctions(r) == Fold(resolve_function_scope_item, r, Items)
DeclareGenerics(r) == Fold(resolve_generic_parameter_scope_item, r, Items)
OpenBlocks(r) == Fold(resolve_block_scope_item, r, Items)
ResolveTypes(r) == Fold(resolve_type_reference_item, r, Items)
DeclareMembers(r) == Fold(resolve_type_member_scope_item, r, Items)
ResolveTypePaths(r) == Fold(resolve_type_path_member_item, r, Items)
ValidateAnchors(r) == Fold(validate_function_anchor_item, r, Items)
ResolveNames(r) == Fold(resolve_reference_item, r, Items)

resolve_source_file ==
    LET pass(r, n) ==
            CASE n = 1 -> DeclareItems(r) [] n = 2 -> DeclareImports(r) [] n = 3 -> BuildExports(r)
              [] n = 4 -> OpenFunctions(r) [] n = 5 -> DeclareGenerics(r) [] n = 6 -> OpenBlocks(r)
              [] n = 7 -> ResolveTypes(r) [] n = 8 -> DeclareMembers(r) [] n = 9 -> ResolveTypePaths(r)
              [] n = 10 -> ValidateAnchors(r) [] n = 11 -> ResolveNames(r)
    IN  Fold(pass, NewResolver, [n \in 1..11 |-> n])

---------------------------------------------------------------------------
(* Reference: lexical scoping, read off the syntax tree. *)

\* The identifiers a pattern binds.
RECURSIVE BoundBy(_)
BoundBy(n) ==
    LET kids == ToSet(Kids(n))
    IN  CASE Kind(n) = "Identifier" -> {n}
          [] Kind(n) \in {"StructBindingField", "StructPatternField"} -> BoundBy(last_child(n))
          [] Kind(n) \in {"NameExpression", "NamedType", "LiteralPattern"} -> {}
          [] Kind(n) = "VariantPattern" ->
                UNION {BoundBy(c) : c \in {k \in kids : Kind(k) = "VariantPatternPayload"}}
          [] Kind(n) \in {"Parameter", "RestParameter"} -> BoundBy(child(n, 1))
          [] OTHER -> UNION {BoundBy(c) : c \in kids}

KidsOfKind(n, kinds) == {c \in ToSet(Kids(n)) : Kind(c) \in kinds}

\* The declarations a node makes for what lies below its i-th child.
DeclaresFor(n, i) ==
    LET parameters == UNION {BoundBy(c) : c \in KidsOfKind(n, {"ParameterList"})}
        generics == UNION {UNION {KidsOfKind(g, {"Identifier"}) : g \in ToSet(Kids(l))} :
                            l \in KidsOfKind(n, {"GenericParameterList"})}
        bindings == UNION {BoundBy(p) : p \in UNION {KidsOfKind(s, {"BindingPattern"}) :
                        s \in KidsOfKind(n, {"VarStatement", "ConstStatement"})}}
    IN  CASE Kind(n) = "Block" -> bindings
          [] Kind(n) = "ForStatement" ->
                IF i = Len(Kids(n))
                THEN UNION {BoundBy(b) : b \in KidsOfKind(n, {"ForBinding"})} ELSE {}
          [] Kind(n) \in {"MatchArm", "InstanceofArm"} ->
                IF i = 2 THEN BoundBy(child(n, 1)) ELSE {}
          [] Kind(n) \in {"ExpressionFunction", "BlockFunction"} -> parameters
          [] Kind(n) = "FunctionItem" ->
                IF Kind(child(n, i)) = "DecoratorList" THEN {} ELSE parameters \cup generics
          [] Kind(n) \in DOMAIN NamedItems -> generics
          [] OTHER -> {}

\* The members of a type, by the list they are written in.
MembersOf(item) ==
    UNION {UNION {KidsOfKind(m, {"Identifier"}) : m \in ToSet(Kids(l))} :
            l \in KidsOfKind(item, {"StructFieldList", "EnumVariantList", "ChoiceVariantList",
                                    "ConstraintMemberList"})}

\* The names of the module itself: its items, then its imports.
ModuleNames ==
    LET named(item) ==
            CASE Kind(item) = "FunctionItem" ->
                    {<<function_symbol_name(item, function_name(item)), function_name(item)>>}
              [] Kind(item) \in DOMAIN NamedItems ->
                    {<<Text(d), d>> : d \in KidsOfKind(item, {"Identifier"})}
              [] Kind(item) \in {"VarItem", "ConstItem"} ->
                    {<<Text(d), d>> : d \in UNION {BoundBy(p) :
                                        p \in KidsOfKind(item, {"BindingPattern"})}}
              [] Kind(item) = "ImportItem" ->
                    {<<Text(d), d>> : d \in
                        {last_child(c) : c \in {m \in Subtree(item) :
                            Kind(m) \in {"NamespaceImport", "ImportAlias"}
                            \/ (Kind(m) = "NamedImport" /\ Len(Kids(m)) = 1)}}}
              [] OTHER -> {}
    IN  UNION {named(item) : item \in ToSet(Items)}

\* The struct item of this module that a function is anchored to.
AnchoredTo(function) ==
    {item \in ToSet(Items) :
        /\ Kind(item) = "StructItem"
        /\ \E a \in KidsOfKind(function, {"FunctionAnchor"}) :
                Text(function_anchor_base_name(child(a, 1)))
                    = Text(first_child_of_kind(item, "Identifier"))}

\* The declaration of `name` nearest to the i-th child of n.  The members of
\* a type are visible in its item and in the functions anchored to it, to
\* expressions (`members`), never to types.
RECURSIVE Nearest(_, _, _, _)
Nearest(n, i, name, members) ==
    LET called(ds) == {d \in ds : Text(d) = name}
        own == IF members /\ Kind(n) \in DOMAIN NamedItems THEN MembersOf(n) ELSE {}
        here == called(DeclaresFor(n, i) \cup own)
        struct == IF Kind(n) # "FunctionItem" \/ Kind(child(n, i)) = "DecoratorList" THEN {}
                  ELSE called(UNION {DeclaresFor(s, 1) \cup (IF members THEN MembersOf(s) ELSE {}) :
                                        s \in AnchoredTo(n)})
        module == {m[2] : m \in {x \in ModuleNames : x[1] = name}}
    IN  IF here # {} THEN CHOOSE d \in here : TRUE
        ELSE IF struct # {} THEN CHOOSE d \in struct : TRUE
        ELSE IF n # Root THEN Nearest(Front(n), n[Len(n)], name, members)
        ELSE IF module # {} THEN CHOOSE d \in module : TRUE ELSE NoNode

NearestTo(node, members) ==
    Nearest(Front(node), node[Len(node)], Text(first_child_of_kind(node, "Identifier")), members)

Declared(res, symbol) == res.symbols[symbol].declaration
Names == {n \in Subtree(Root) : Kind(n) = "NameExpression"}
TypeNames == {n \in Subtree(Root) : Kind(n) = "NamedType"}
NoDuplicates(res) == \A e \in res.errors : e[1] # "DuplicateSymbol"

BoundLexically(res, n) ==
    LET d == NearestTo(n, TRUE)
    IN  IF d = NoNode
        THEN /\ n \notin DOMAIN res.references
             /\ <<"UnresolvedName", first_child_of_kind(n, "Identifier")>> \in res.errors
        ELSE /\ n \in DOMAIN res.references
             /\ Declared(res, res.references[n]) = d

TypeBoundLexically(res, n) ==
    LET d == NearestTo(n, FALSE)
        name == Text(first_child_of_kind(n, "Identifier"))
    IN  IF n \in DOMAIN res.type_references
        THEN LET symbol == res.type_references[n]
             IN  IF d = NoNode
                 THEN name \in BuiltinTypes /\ SymbolKind(res, symbol) = "BuiltinType"
                 ELSE Declared(res, symbol) = d /\ is_type_symbol(SymbolKind(res, symbol))
        ELSE <<"UnresolvedType", n>> \in res.errors

\* Constructs whose names the passes do not treat alike: the parts below them
\* are scoped by some passes and not by others.
ScopedKinds == {"ExpressionFunction", "BlockFunction", "MatchArm", "InstanceofArm"}

Below(n, m) == n # m /\ IsPrefix(n, m)
Ancestors(n) == {SubSeq(n, 1, k) : k \in 0..(Len(n) - 1)}

Unscoped(n) ==
    \E a \in Ancestors(n) :
        \/ Kind(a) = "ForStatement" /\ Len(Kids(a)) = 4       \* a named `for`
        \/ /\ Kind(a) = "MatchArm" /\ IsPrefix(child(a, 2), n)  \* a struct pattern
           /\ \E p \in Subtree(child(a, 1)) : Kind(p) = "StructPattern"
        \/ /\ Kind(a) \in ScopedKinds       \* a scope in an iterable, a default
           /\ \E f \in Ancestors(a) :        \* or an expression body
                \/ Kind(f) = "ForStatement" /\ IsPrefix(child(f, Len(Kids(f)) - 1), a)
                \/ Kind(f) = "ParameterList"
                \/ /\ Kind(f) = "FunctionItem" /\ Kind(last_child(f)) # "Block"
                   /\ IsPrefix(last_child(f), a)

LexicalNames(res) ==
    NoDuplicates(res) =>
        /\ \A n \in Names : ~Unscoped(n) => BoundLexically(res, n)
        /\ \A n \in TypeNames : ~Unscoped(n) => TypeBoundLexically(res, n)

PathsAndExportsDenote(res) ==
    LET exported == {Items[i] : i \in {j \in 1..Len(Items) : Kind(Kids(Root)[j]) = "ExportItem"}}
        item(symbol) == Front(Declared(res, symbol))
    IN  NoDuplicates(res) =>
        /\ \A n \in DOMAIN res.path_references :
             LET root == res.references[n]
                 end == res.path_references[n]
             IN  Text(child(n, 2)) = Text(Declared(res, end)) /\
                 \/ Declared(res, root) # Root /\ Declared(res, end) \in MembersOf(item(root))
                 \/ /\ SymbolKind(res, end) = "Function"
                    /\ item(root) \in AnchoredTo(item(end))
        /\ {<<e.name, Declared(res, e.symbol)>> : e \in ToSet(res.exports)}
             = {m \in ModuleNames : \E x \in exported : Below(x, m[2])}

DenotesLexically(res) == LexicalNames(res) /\ PathsAndExportsDenote(res)
=============================================================================
