----------------------------- MODULE MCFrontend -----------------------------
(* Small modules for the frontend's passes. *)
EXTENDS Resolver, SemanticRules

N(kind, kids) == [kind |-> kind, text |-> <<>>, kids |-> kids]
Ident(name) == [kind |-> "Identifier", text |-> <<name>>, kids |-> <<>>]
Use(name) == N("NameExpression", <<Ident(name)>>)
Named(name) == N("NamedType", <<Ident(name)>>)
Bind(name) == N("BindingPattern", <<Ident(name)>>)
Wild == N("WildcardPattern", <<>>)

\* Expressions, without and with a scope inside.
Member(root, name) == N("PathExpression", <<Use(root), Ident(name)>>)
Closure(name, type, body) ==
    N("ExpressionFunction",
      <<N("ParameterList", <<N("Parameter", <<Bind(name), Named(type)>>)>>), body>>)
Match(subject, arms) ==
    N("MatchExpression", <<subject, N("MatchArmList", [i \in 1..Len(arms) |->
        N("MatchArm", <<arms[i][1], N("ArmBody", <<arms[i][2]>>)>>)])>>)
Variant(payload) ==
    N("VariantPattern", <<Use("C"), Ident("a"),
                          N("VariantPatternPayload", <<payload>>)>>)
StructPat(name) == N("StructPattern", <<Named("S"), N("StructPatternField", <<Ident(name)>>)>>)
Renamed == N("BindingPattern", <<N("StructBindingPattern",
                <<N("StructBindingField", <<Ident("y"), Bind("x")>>)>>)>>)
Instanceof ==
    N("InstanceofExpression", <<Use("x"), N("InstanceofArmList", <<N("InstanceofArm",
        <<N("TypePattern", <<Named("S"), N("TypePatternBinding", <<Ident("x")>>)>>),
          N("ArmBody", <<Use("x")>>)>>)>>)>>)

TypePath(root, name) == N("Path", <<Ident(root), Ident(name)>>)
Plain == {Use("x"), Use("y"), Member("C", "a"), Member("S", "x"),
          N("PathExpression", <<N("GenericExpression", <<Use("S"), Named("T")>>), Ident("m")>>),
          N("StructLiteral", <<TypePath("K", "y"), N("StructLiteralFieldShorthand", <<Ident("x")>>)>>)}
Scoped ==
    {Closure("x", "T", Use("x")), Closure("y", "S", Closure("x", "S", Use("y"))),
     Match(Use("x"), <<<<Bind("x"), Use("x")>>>>),
     Match(Use("y"), <<<<Variant(Bind("x")), Use("x")>>, <<Wild, Use("x")>>>>),
     Match(Use("y"), <<<<Variant(Renamed), Closure("T", "i32", Use("x"))>>>>),
     Match(Use("y"), <<<<StructPat("x"), Use("x")>>>>),
     Instanceof}

Block(statements) == N("Block", statements)
Var(name, value) == N("VarStatement", <<Bind(name), value>>)
Say(value) == N("ExpressionStatement", <<value>>)
For(name, iterable, body) ==
    N("ForStatement", <<N("ForBinding", <<Bind(name)>>), iterable, Block(body)>>)
NamedFor(name, iterable, body) ==
    N("ForStatement", <<N("KeywordMetadataList", <<>>),
                        N("ForBinding", <<Bind(name)>>), iterable, Block(body)>>)

First == {Say(e) : e \in Plain \cup Scoped}
            \cup {Var("x", Use("y")), Var("y", Closure("x", "S", Use("x"))),
                  N("VarStatement", <<Renamed, Use("x")>>),
                  N("VarStatement", <<Wild, N("WildcardExpression", <<>>)>>)}
Second == {Say(Use("x")),
           Block(<<Say(Use("x")), Var("x", Use("y"))>>),
           For("x", Use("x"), <<Say(Use("x"))>>),
           For("y", Closure("x", "S", Use("x")), <<Say(Use("y"))>>),
           NamedFor("x", Use("x"), <<Say(Use("y"))>>),
           N("IfStatement", <<Use("x"), Block(<<Var("y", Use("x"))>>),
                              N("ElseClause", <<Block(<<Say(Use("y"))>>)>>)>>)}

Generics(name) == N("GenericParameterList", <<N("GenericParameter", <<Ident(name)>>)>>)
Struct == N("StructItem", <<Ident("S"), Generics("T"),
            N("StructFieldList", <<N("StructField", <<Ident("x"), Named("T")>>)>>)>>)
Constraint == N("ConstraintItem", <<Ident("K"),
            N("ConstraintMemberList", <<N("ConstraintField", <<Ident("y"), TypePath("K", "y")>>),
                N("ConstraintFunctionSignature", <<Ident("m"), Named("K")>>)>>)>>)
Choice == N("ChoiceItem", <<N("DecoratorList", <<N("Decorator", <<Use("a")>>)>>), Ident("C"),
            N("ChoiceVariantList", <<N("ChoiceVariant", <<Ident("a"), Named("S")>>)>>)>>)
Method == N("FunctionItem", <<N("DecoratorList", <<N("Decorator", <<Use("x")>>)>>), [N("FunctionAnchor", <<Named("S")>>) EXCEPT !.text = <<"S">>],
            Ident("m"), N("ParameterList", <<>>), Named("T"), Block(<<Say(Use("y"))>>)>>)
Export(item) == N("ExportItem", <<item>>)

Outer == {<<>>, <<N("VarItem", <<Bind("x"), Use("y")>>)>>,
          <<Export(N("ConstItem", <<N("BindingPattern", <<N("TupleBindingPattern",
                <<Bind("z"), Renamed>>)>>), Closure("y", "S", Use("y"))>>))>>,
          <<Export(N("ImportItem", <<N("NamedImportList",
                <<N("NamedImport", <<Ident("x"), N("ImportAlias", <<Ident("y")>>)>>)>>)>>))>>,
          <<N("ImportItem", <<N("NamespaceImport", <<Ident("x")>>)>>)>>}

\* f<T>(p: type) { first second }, anchored to S or not.
Function(anchor, parameter, first, second) ==
    N("FunctionItem", anchor \o <<Ident("f"), Generics("U"),
        N("ParameterList", <<N("Parameter", <<Bind(parameter), Named("S")>>)>>),
        Named("i32"), Block(<<first, second>>)>>)

MCPrograms ==
    {N("SourceFile", outer \o <<Struct, Method, Constraint, Export(Choice), Function(anchor, p, first, second)>>) :
        outer \in Outer, p \in {"x", "T"}, first \in First, second \in Second,
        anchor \in {<<>>, <<[N("FunctionAnchor", <<Named("S")>>) EXCEPT !.text = <<"S">>]>>}}

MCBuiltinTypes == {<<"i32">>, <<"T">>}
MCBuiltinConstraints == [c \in {<<"Iterable">>} |-> {<<"next">>}]

-----------------------------------------------------------------------------
(* The named types of the fields. *)

Nom(name) == Ty("named", name, <<>>)
Inst(name, arg) == Ty("inst", name, <<arg>>)
Either(types) == Ty("union", "", types)

Decl(kind) == [kind |-> kind, target |-> NoType]
MCTypeDecls ==
    [A |-> Decl("Struct"), B |-> Decl("Struct"), Z |-> Decl("Struct"), O |-> Decl("Choice"),
     AB |-> [kind |-> "Alias", target |-> Either(<<Nom("A"), Nom("B")>>)],
     Unit |-> [kind |-> "Alias", target |-> NullType]]

-----------------------------------------------------------------------------
(* Function bodies, initializer graphs and struct fields. *)

St(k, label, cond, kids) == [k |-> k, label |-> label, cond |-> cond, kids |-> kids]
Do(k) == St(k, "", FALSE, <<>>)
Body(statements) == St("block", "", FALSE, statements)
Simple == {Do("return"), Do("break"), Do("say"), St("continue", "a", FALSE, <<>>), St("break", "a", FALSE, <<>>)}
Blocks(statements) == {Body(<<s>>) : s \in statements} \cup {Body(<<s, t>>) : s, t \in statements}
Small == Blocks(Simple)
Ifs(thens, elses) ==
    {St("if", "", FALSE, <<b>>) : b \in thens} \cup {St("if", "", FALSE, <<b, c>>) : b \in thens, c \in elses}
Loops(blocks) ==
    {St("loop", label, cond, <<b>>) : label \in {"", "a"}, cond \in BOOLEAN, b \in blocks}
        \cup {St("for", label, FALSE, <<b>>) : label \in {"", "a"}, b \in blocks}
Inner == Ifs(Small, {Body(<<Do("return")>>), Body(<<Do("break")>>)}) \cup {Do("return"), Do("say")}
    \cup Loops({Body(<<s>>) : s \in Simple})
FunctionBodies == {Body(<<s, t>>) : s \in Loops({Body(<<x, y>>) : x \in Inner, y \in {Do("say"), Do("return")}})
                                  \cup Inner,
                            t \in {Do("say"), Do("return")}}
    \cup {Body(<<St(k, "", FALSE, <<Body(<<St("closure", "", FALSE, <<b>>)>>)>>), Do("return")>>) :
            k \in {"block", "loop"}, b \in Small}
Returns == {NoType, NullType, Nom("Unit"), Nom("A"), Either(<<Nom("A"), NullType>>),
            Ty("array", "", <<Ty("param", "T", <<>>)>>)}
MCBodies == [returns : Returns, body : FunctionBodies]

Vertices == {"x", "y", "z"}
Orders(S) == UNION {{o \in [1..n -> S] : \A i, j \in 1..n : o[i] = o[j] => i = j} : n \in 0..Cardinality(S)}
MCGraphs == [order : {<<"x", "y", "z">>, <<"z", "x", "y">>, <<"y", "z", "x">>},
             edges : [Vertices -> Orders(Vertices)]]

FieldTypes == {Nom("A"), Nom("Z"), Nom("AB"), Ty("array", "", <<Nom("B")>>),
               Either(<<Inst("O", Nom("A")), Nom("Z"), NullType>>), Inst("O", Nom("A"))}
Fields == [owner : {"A", "B", "Z"}, weak : BOOLEAN, type : FieldTypes]
MCStructs == UNION {[1..n -> Fields] : n \in 1..3}

-----------------------------------------------------------------------------
(* A behaviour is about one input: a module is resolved; a function body, a  *)
(* graph of initializers or a list of struct fields is checked.  What comes  *)
(* out is looked at in the step that does it.                                *)

VARIABLES
    input,  \* what is checked; program is its syntax tree if it is a module
    done    \* whether it was checked

all == <<program, input, done>>
NoModule == N("SourceFile", <<>>)
Input(kind, of) == input = [kind |-> kind, of |-> of]

MCInit ==
    /\ done = FALSE
    /\ \/ /\ program = NoModule
          /\ \/ \E body \in Bodies : Input("body", body)
             \/ \E graph \in Graphs : Input("initializers", graph)
             \/ \E fields \in Structs : Input("fields", fields)
       \/ program \in MCPrograms /\ Input("module", <<>>)
Check == ~done /\ done' = TRUE /\ UNCHANGED <<program, input>>
MCSpec == MCInit /\ [][Check]_all

Doing(kind) == input.kind = kind /\ ~done /\ done'

\* Every name that the passes reach in an accepted module denotes the nearest
\* declaration around it, types included, whichever pass declared it; an
\* undeclared one is reported.  Left out (Unscoped) are the names in a named for
\* statement, in an arm with a struct pattern, and in a function expression or
\* an arm inside an iterable, a default value or an expression body: some passes
\* open or declare nothing there.
\* (reference.rs resolve_name_expression, type_reference.rs resolve_named_type,
\* tests/reference/paths.rs resolve_prefers_nearest_scope_symbol,
\* tests/type_member.rs resolve_type_member_symbols_do_not_shadow_type_references.)
\* A member path denotes a member of the type its root denotes or a function
\* anchored to that type, and the export surface lists exactly the exported
\* declarations under their own names (reference.rs
\* resolve_path_expression_member, resolution.rs add_export).
NamesAreLexical == [][Doing("module") => DenotesLexically(resolve_source_file)]_all

\* In a body without a report every break and continue has a loop to go to
\* (check_control_flow), a function that must return a value never ends any other
\* way, one that may end without a value is not reported
\* (check_single_function_return_path), and a statement reported as
\* unreachable is never reached: what is before it in its block never ends
\* normally (check_unreachable_block_statements).  A function expression is a
\* statement that ends normally.  Left out, because the code judges them
\* otherwise than 11-control-flow.md:166 says: functions whose return type
\* mentions a generic parameter, which are never reported, and bodies with a
\* loop taken to return although a break leaves it first
\* (statement_guarantees_return).
PathsAreAccounted == [][Doing("body") => Accounted(input.of, check_function_body(input.of))]_all

\* Exactly the simple cycles of owning fields are recorded, whatever paths they
\* share (collect_ownership_cycles_from); a binding reported for its initializer
\* is on a cycle, and every cycle of initializers has a binding that is reported
\* (check_binding_cycle_from stops at the bindings already reported).
CyclesAreFound ==
    [][/\ Doing("fields") => OwnershipFound(input.of)
       /\ Doing("initializers") =>
            InitializersFound(CycleSets(input.of.edges), check_binding_initialization_cycles(input.of))]_all
=============================================================================
