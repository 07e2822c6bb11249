--------------------------- MODULE FrontendSession ---------------------------
(***************************************************************************)
(* The incremental frontend session: the modules it has parsed, the index  *)
(* of their importers, the semantic graph and the type results, and what   *)
(* one check does to them.  A path is the sequence of its segments (the    *)
(* suffix .gfs left out), an import source likewise.  The text of a module *)
(* is abstracted to what other modules and the later phases see of it:     *)
(*   imports  a sequence of [src, kind ("named" | "namespace"), names], the *)
(*            names being the one imported, or those referred to as ns::x, *)
(*   exports  a sequence of [name, kind, ty, of, inner]; the type is ty,   *)
(*            or when of is a pair <<import, name>> the one inferred from  *)
(*            it; inner holds the uses a generic body instantiates,        *)
(*   expects  the types it uses its imports at: <<import, name>> -> type,   *)
(*   iter, match  whether it desugars into std/iterable, std/constraints,  *)
(*   calls    the uses it calls, reads the uses it reads as globals,       *)
(*   demands  the set of <<use, type>> at which it instantiates generics,  *)
(*   fault    "none", "parse" (a diagnostic of its own) or "emit" (its     *)
(*            bytecode cannot be emitted),                                 *)
(*   adapter  the adapter a proxy names, or the alias of a provider.       *)
(***************************************************************************)
EXTENDS Integers, Sequences, FiniteSets, SequencesExt

CONSTANTS
  Builtins,       \* the builtin modules: import source -> text
  Iterable,       \* the source of std/iterable
  Constraints,    \* the source of std/constraints
  ProxyFiles      \* the last segments of adapter proxies (.gfp)

NoPath == <<>>
None == 0
Unknown == "unknown"
NoResult == [types |-> <<>>, imported |-> <<>>, errors |-> {}]

is_builtin_module(src) == src \in DOMAIN Builtins
is_provider_module(catalog, src) == src \in DOMAIN catalog.providers
is_proxy(path) == path[Len(path)] \in ProxyFiles

is_resolvable_import(src, catalog) ==
  src[1] \in {".", ".."} \/ is_builtin_module(src) \/ is_provider_module(catalog, src)

(* resolve_relative_import: a builtin or provider is its own path; another *)
(* source is walked from the importing module's directory.                 *)
WalkSegment(path, segment) ==
  IF path = NoPath THEN NoPath
  ELSE IF segment = "." THEN path
  ELSE IF segment = ".." THEN IF Len(path) = 1 THEN NoPath ELSE SubSeq(path, 1, Len(path) - 1)
  ELSE Append(path, segment)
rooted(walked) == IF Len(walked) < 2 THEN NoPath ELSE Tail(walked)
resolve_relative_import(base, src, catalog) ==
  IF is_builtin_module(src) \/ is_provider_module(catalog, src) THEN src
  ELSE rooted(FoldLeft(WalkSegment, <<"/">> \o Front(base), src))

(* The session's module index keeps the last module of a path.             *)
last_of(found) == IF found = {} THEN None ELSE CHOOSE n \in found : \A k \in found : k <= n
index_of(modules, path) == last_of({n \in DOMAIN modules : modules[n].path = path})
import_target_index(modules, n, src, catalog) ==
  index_of(modules, resolve_relative_import(modules[n].path, src, catalog))

collect_implicit_dependencies(text) ==
  (IF text.iter THEN {Iterable} ELSE {}) \cup (IF text.match THEN {Constraints} ELSE {})

ExportNames(text) == {text.exports[n].name : n \in DOMAIN text.exports}
Uses(text) == UNION {{<<k, name>> : name \in text.imports[k].names} : k \in DOMAIN text.imports}

(* required_dependencies: the builtin and provider modules in use.         *)
required_dependencies(modules, catalog) ==
  UNION {{i.src : i \in {i \in ToSet(modules[n].text.imports) :
            is_builtin_module(i.src) \/ is_provider_module(catalog, i.src)}}
         \cup collect_implicit_dependencies(modules[n].text) : n \in DOMAIN modules}

(* rebuild_reverse_import_index: <<importer, imported>> by module id.      *)
reverse_imports(modules, catalog) ==
  UNION {{<<modules[n].id, modules[t].id>> :
            t \in {import_target_index(modules, n, src, catalog) :
                     src \in {i.src : i \in ToSet(modules[n].text.imports)}
                             \cup collect_implicit_dependencies(modules[n].text)} \ {None}} :
         n \in DOMAIN modules}

RECURSIVE transitive_dependents(_, _)
transitive_dependents(reverse, changed) ==
  LET more == {e[1] : e \in {e \in reverse : e[2] \in changed}}
  IN  IF more \subseteq changed THEN changed
      ELSE transitive_dependents(reverse, changed \cup more)

-----------------------------------------------------------------------------
(* build_module_surface: what other modules see, name -> type.             *)
surface_of(text, types) == [name \in ExportNames(text) |-> types[name]]

(* check_declaration_types: the types that need no import.                 *)
check_declaration_types(text) ==
  [types |-> [name \in ExportNames(text) |->
     LET e == CHOOSE e \in ToSet(text.exports) : e.name = name
     IN  IF e.of = <<>> THEN e.ty ELSE Unknown],
   imported |-> <<>>, errors |-> {}]

(* imported_surface_types_for_module: the types of the uses whose module   *)
(* and export can be found.                                                *)
visible(modules, text, u, surfaces, t, catalog) ==
  /\ is_resolvable_import(text.imports[u[1]].src, catalog)
  /\ t # None
  /\ u[2] \in DOMAIN surfaces[t]
surface_types(modules, text, surfaces, target, catalog) ==
  [u \in {u \in Uses(text) : visible(modules, text, u, surfaces, target[u], catalog)} |->
     surfaces[target[u]][u[2]]]
imported_surface_types(modules, n, surfaces, catalog) ==
  surface_types(modules, modules[n].text, surfaces,
    [u \in Uses(modules[n].text) |->
       import_target_index(modules, n, modules[n].text.imports[u[1]].src, catalog)], catalog)

(* check_definition_types_with_surfaces: the inferred types, and the uses  *)
(* whose type is not the one expected.                                     *)
check_definition_types(text, imported) ==
  [types |-> [name \in ExportNames(text) |->
     LET e == CHOOSE e \in ToSet(text.exports) : e.name = name
     IN  IF e.of = <<>> THEN e.ty ELSE IF e.of \in DOMAIN imported THEN imported[e.of] ELSE Unknown],
   imported |-> imported,
   errors |-> {u \in DOMAIN text.expects \cap DOMAIN imported :
                 imported[u] \notin {Unknown, text.expects[u]}}]

(* One round of type_check_modules: every module against the surfaces the  *)
(* round before left.  (results # results never holds: the comparison      *)
(* evaluates a round before the next one starts.)                          *)
check_round(modules, surfaces, catalog) ==
  [n \in DOMAIN modules |->
     check_definition_types(modules[n].text, imported_surface_types(modules, n, surfaces, catalog))]
surfaces_of(modules, results) ==
  [n \in DOMAIN modules |-> surface_of(modules[n].text, results[n].types)]
RECURSIVE check_rounds(_, _, _, _)
check_rounds(modules, results, catalog, rounds) ==
  IF rounds = 0 \/ results # results THEN results
  ELSE check_rounds(modules, check_round(modules, surfaces_of(modules, results), catalog),
                    catalog, rounds - 1)
type_results(modules, catalog) ==
  check_rounds(modules, [n \in DOMAIN modules |-> check_declaration_types(modules[n].text)], catalog,
               IF Len(modules) > 1 THEN Len(modules) ELSE 1)

(* type_check_modules keeps the results of the changed modules; one that   *)
(* had a result already gets a new semantic revision.                      *)
store_result(session, n, results, changed) ==
  LET m == session.modules[n]
      bumped == m.typed
  IN  IF m.id \notin changed THEN session
      ELSE [session EXCEPT
              !.next = IF bumped THEN @ + 1 ELSE @,
              !.modules[n] = [m EXCEPT !.rev = IF bumped THEN session.next + 1 ELSE @,
                                       !.typed = TRUE, !.result = results[n]]]
store_results(session, changed, results) ==
  FoldLeft(LAMBDA s, n : store_result(s, n, results, changed), session,
           [n \in DOMAIN session.modules |-> n])
type_check_modules(session, changed, catalog) ==
  store_results(session, changed, type_results(session.modules, catalog))

-----------------------------------------------------------------------------
(* Diagnostics, as pairs <<path, code>>.                                   *)
validate_import(modules, m, i, path, target, catalog) ==
  IF ~is_resolvable_import(i.src, catalog) THEN {<<m.path, "ImportModuleNotFound">>}
  ELSE IF i.kind # "named" \/ path = NoPath THEN {}
  ELSE IF target = None THEN {<<m.path, "ImportModuleNotFound">>}
  ELSE IF i.names \subseteq ExportNames(modules[target].text) THEN {}
  ELSE {<<m.path, "MissingExport">>}
validate_imports(modules, catalog) ==
  UNION {UNION {validate_import(modules, modules[n], i,
                                resolve_relative_import(modules[n].path, i.src, catalog),
                                import_target_index(modules, n, i.src, catalog), catalog) :
                i \in ToSet(modules[n].text.imports)} : n \in DOMAIN modules}
validate_adapter_proxy_declarations(modules) ==
  UNION {{<<modules[n].path, "BodylessFunction">> :
            e \in {e \in ToSet(modules[n].text.exports) :
                     modules[n].kind = "standard" /\ e.kind \in {"external", "external sync"}}}
         \cup {<<modules[n].path, "InvalidAdapterProxyDeclaration">> :
            e \in {e \in ToSet(modules[n].text.exports) :
                     modules[n].kind = "proxy" /\ e.kind \in {"fn", "async", "generic", "external sync"}}} :
         n \in DOMAIN modules}
rebuild_diagnostics(modules, catalog) ==
  {<<modules[n].path, "Syntax">> : n \in {n \in DOMAIN modules : modules[n].text.fault = "parse"}}
  \cup validate_imports(modules, catalog)
  \cup validate_adapter_proxy_declarations(modules)
  \cup {<<modules[n].path, "TypeMismatch">> : n \in {n \in DOMAIN modules : modules[n].result.errors # {}}}
-----------------------------------------------------------------------------
(* The semantic graph: the roots, <<path, id>> of the modules it knows, and *)
(* one edge per explicit import and implicit dependency, whose target may  *)
(* be missing (to = None).                                                 *)
EmptyGraph == [roots |-> <<>>, modules |-> {}, edges |-> {}]

module_by_path(graph, path) ==
  IF \E m \in graph.modules : m[1] = path THEN (CHOOSE m \in graph.modules : m[1] = path)[2] ELSE None
module_by_id(modules, id) == CHOOSE n \in DOMAIN modules : modules[n].id = id

(* resolve_import_export, resolve_namespace_referenced_exports.            *)
referenced_exports(modules, i, to) ==
  IF to = None THEN {} ELSE i.names \cap ExportNames(modules[module_by_id(modules, to)].text)
import_edge(modules, m, k, path, to) ==
  [from |-> m.id, slot |-> k, path |-> path, to |-> to,
   exports |-> referenced_exports(modules, m.text.imports[k], to)]
import_edges_for(graph, modules, m, catalog) ==
  UNION {{import_edge(modules, m, k, path, module_by_path(graph, path)) :
            path \in {resolve_relative_import(m.path, m.text.imports[k].src, catalog)} \ {NoPath}} :
         k \in DOMAIN m.text.imports}
(* add_implicit_import_edge: unless an import names the module already.    *)
with_implicit_edges(graph, m, explicit) ==
  explicit \cup
  {[from |-> m.id, slot |-> 0, path |-> src, to |-> module_by_path(graph, src), exports |-> {}] :
     src \in collect_implicit_dependencies(m.text) \ {e.path : e \in explicit}}
edges_for(graph, modules, m, catalog) ==
  with_implicit_edges(graph, m, import_edges_for(graph, modules, m, catalog))

reindex_modules(graph, roots, news, gone) ==
  [graph EXCEPT !.roots = roots,
     !.modules = {m \in @ : m[2] \notin gone} \cup {<<m.path, m.id>> : m \in news}]
clear_removed(edges, removed) ==
  {IF e.to \in removed THEN [e EXCEPT !.to = None, !.exports = {}] ELSE e : e \in edges}
rebuild_edges(graph, modules, news, removed, kept, catalog) ==
  [graph EXCEPT !.edges = clear_removed(kept, removed)
                          \cup UNION {edges_for(graph, modules, m, catalog) : m \in news}]
replace_modules(graph, roots, modules, news, removed, gone, catalog) ==
  rebuild_edges(reindex_modules(graph, roots, news, gone), modules, news, removed,
                {e \in graph.edges : e.from \notin gone}, catalog)
apply_delta(graph, roots, modules, changed, removed, catalog) ==
  replace_modules(graph, roots, modules, {m \in ToSet(modules) : m.id \in changed},
                  removed, changed \cup removed, catalog)

dependencies_of(graph, id) == {e.to : e \in {e \in graph.edges : e.from = id}} \ {None}
unresolved_dependency_paths_of(graph, id) ==
  {e.path : e \in {e \in graph.edges : e.from = id /\ e.to = None}}

-----------------------------------------------------------------------------
EmptySession == [modules |-> <<>>, reverse |-> {}, graph |-> EmptyGraph, next |-> 0]

(* parse_module: a new semantic revision, and no result yet.               *)
parse_module(session, input) ==
  [id |-> input.id, path |-> input.path, kind |-> input.kind, text |-> input.text,
   rev |-> session.next + 1, typed |-> FALSE, result |-> NoResult]
session_index(modules, input, ids) ==
  IF ids # {} THEN CHOOSE n \in ids : \A k \in ids : n <= k ELSE index_of(modules, input.path)
add_parsed(st, input, parsed) ==
  [session |-> [st.session EXCEPT !.next = @ + 1, !.modules = Append(@, parsed)],
   changed |-> st.changed \cup {input.id}]
replace_parsed(st, n, input, old, parsed) ==
  IF old.path = input.path /\ old.text = input.text /\ old.kind = input.kind THEN st
  ELSE [session |-> [st.session EXCEPT !.next = @ + 1, !.modules[n] = parsed],
        changed |-> st.changed \cup {old.id}]
update_at(st, input, n) ==
  IF n = None THEN add_parsed(st, input, parse_module(st.session, input))
  ELSE replace_parsed(st, n, input, st.session.modules[n], parse_module(st.session, input))
update_source(st, input) ==
  update_at(st, input,
    session_index(st.session.modules, input,
      {n \in DOMAIN st.session.modules : st.session.modules[n].id = input.id}))

(* check: removals, sources, the importers of both, types, diagnostics and *)
(* the semantic graph.                                                     *)
MaxRevision(session) ==
  IF session.modules = <<>> THEN session.next
  ELSE last_of({session.modules[n].rev : n \in DOMAIN session.modules})
\* Mutant: only the direct importers are analysed again.
retyped_DirectOnly(reverse, changed) == changed \cup {e[1] : e \in {e \in reverse : e[2] \in changed}}
retyped(reverse, changed) == transitive_dependents(reverse, changed)
remove_sources(session, removed) ==
  [session |-> [session EXCEPT !.modules = SelectSeq(@, LAMBDA m : m.id \notin removed)],
   changed |-> transitive_dependents(session.reverse, removed)]
reindex(st, catalog) == [st EXCEPT !.session.reverse = reverse_imports(st.session.modules, catalog)]
widen(st) == [st EXCEPT !.changed = retyped(st.session.reverse, @)]
retype(st, catalog) == [st EXCEPT !.session = type_check_modules(@, st.changed, catalog)]
regraph(st, roots, removed, catalog) ==
  [st EXCEPT !.session.graph = apply_delta(@, roots, st.session.modules, st.changed, removed, catalog)]
report_of(st, catalog) ==
  [session |-> st.session, changed |-> st.changed, rev |-> MaxRevision(st.session),
   required |-> required_dependencies(st.session.modules, catalog),
   diagnostics |-> rebuild_diagnostics(st.session.modules, catalog)]
check(session, inputs, removed, roots, catalog) ==
  report_of(regraph(retype(widen(reindex(
              FoldLeft(update_source, remove_sources(session, removed), inputs),
            catalog)), catalog), roots, removed, catalog), catalog)
=============================================================================
