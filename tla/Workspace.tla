------------------------------ MODULE Workspace ------------------------------
(***************************************************************************)
(* The workspace a host edits, checks and compiles: the source store, the  *)
(* check and compile states, and the package it publishes.  Check drives   *)
(* the frontend session until no dependency is missing; Compile drives the *)
(* compiler session over what the last check reported and applies the      *)
(* result to the cached bytecode graph (BytecodeGraph).  The revision      *)
(* counter of the sources, used for reports only, is left out.             *)
(***************************************************************************)
EXTENDS CompilerSession

CONSTANTS
  Paths,          \* every module path, in the order of ModulePath
  ModuleIds,      \* module_id_for: path -> id
  SourceIds,      \* source_id_for: path -> id
  Texts,          \* the texts a user may load: path -> set of texts
  Bridges,        \* the bridge modules a host may register: <<path, text>>
  Catalogs,       \* the capability catalogs: [providers, adapters], where an
                  \* adapter is given by the types its schema accepts
  Configs,        \* the manifests: [entry, exports]
  NoEntry,        \* stands for a manifest without an entry
  Representable,  \* the types a surface schema exists for
  Openings,       \* the texts a workspace may be opened with: path -> text
  Manifest,       \* the configuration it is opened with
  MaxEdits,       \* bound on the edits of a behaviour
  MaxInstances    \* bound on the identifiers of specialised functions

VARIABLES
  config, catalog, descriptors,
  store, dirty_sources, removed_modules,
  check_state, session,
  compile_state, compiler,
  edits,          \* the number of edits so far
  unpublished     \* modules re-analysed since a compilation last covered them

sources == <<config, catalog, descriptors, store, dirty_sources, removed_modules>>
vars == <<sources, check_state, session, compile_state, compiler, edits, unpublished>>

G == INSTANCE BytecodeGraph
       WITH Ids <- {}, Upserts <- {}, RemoveSets <- {}, EdgeSets <- {}, Manifests <- {},
            Entries <- {}, MaxVersion <- 0, AnyEntry <- NoEntry, graph <- 0, package <- 0,
            Proxies <- {p \in ToSet(Paths) : is_proxy(p)}

NoConfig == [entry |-> NoEntry, exports |-> <<"none">>]
Dirty == [state |-> "dirty", rev |-> 0, changed |-> {}]
(* PackageImage: a graph, its adapter and provider requirements, its entry. *)
NoImage == [graph |-> G!Empty, manifest |-> {}, providers |-> {}, entry |-> NoEntry]
(* package is what was published, unfinalized what optimize_package was    *)
(* given, whose graph the next compilation starts from.                    *)
Missing == [state |-> "missing", rev |-> 0, package |-> NoImage, unfinalized |-> NoImage]
Sorted(paths) == SelectSeq(Paths, LAMBDA p : p \in paths)

-----------------------------------------------------------------------------
(* SourceStore.                                                            *)
Collides(st, path) ==
  \E p \in DOMAIN st : p # path /\ (ModuleIds[p] = ModuleIds[path] \/ SourceIds[p] = SourceIds[path])
Stored(st, path, text, origin) ==
  [p \in DOMAIN st \cup {path} |-> IF p = path THEN [text |-> text, origin |-> origin] ELSE st[p]]
Without(f, gone) == [p \in DOMAIN f \ gone |-> f[p]]

(* mark_dirty: the check is void, and a ready package is kept as stale.    *)
mark_dirty ==
  /\ check_state' = Dirty
  /\ compile_state' = IF compile_state.state = "ready" THEN [compile_state EXCEPT !.state = "stale"]
                      ELSE compile_state
Edit == edits < MaxEdits /\ edits' = edits + 1
Untouched == UNCHANGED <<session, compiler, unpublished>>

(* load_module: a reserved path is refused, identical bytes change nothing *)
(* (except those of a proxy), and colliding identities are an error.       *)
load_module(path, text) ==
  /\ Edit
  /\ ~is_provider_module(catalog, path)
  /\ path \in DOMAIN store /\ ~is_proxy(path) => store[path].text # text
  /\ ~Collides(store, path)
  /\ store' = Stored(store, path, text, IF is_proxy(path) THEN "proxy" ELSE "user")
  /\ descriptors' = IF is_proxy(path)
       THEN [p \in DOMAIN descriptors \cup {path} |->
               IF p = path THEN [adapter |-> text.adapter, exports |-> {}] ELSE descriptors[p]]
       ELSE Without(descriptors, {path})
  /\ dirty_sources' = dirty_sources \cup {path}
  /\ mark_dirty
  /\ Untouched /\ UNCHANGED <<config, catalog, removed_modules>>

register_bridge_module(path, text) ==
  /\ Edit
  /\ ~Collides(store, path)
  /\ store' = Stored(store, path, text, "builtin")
  /\ dirty_sources' = dirty_sources \cup {path}
  /\ mark_dirty
  /\ Untouched /\ UNCHANGED <<config, catalog, removed_modules, descriptors>>

remove_module(path) ==
  /\ Edit
  /\ path \in DOMAIN store
  /\ store' = Without(store, {path})
  /\ descriptors' = Without(descriptors, {path})
  /\ dirty_sources' = dirty_sources \ {path}
  /\ removed_modules' = removed_modules \cup {ModuleIds[path]}
  /\ mark_dirty
  /\ Untouched /\ UNCHANGED <<config, catalog>>

(* set_catalog: provider modules go with the catalog they came from.       *)
provider_entries == {p \in DOMAIN store : store[p].origin = "provider"}
set_catalog(new) ==
  /\ Edit
  /\ new # catalog
  /\ LET gone == provider_entries
     IN  /\ store' = Without(store, gone)
         /\ dirty_sources' = dirty_sources \ gone
         /\ removed_modules' = removed_modules \cup {ModuleIds[p] : p \in gone}
  /\ catalog' = new
  /\ mark_dirty
  /\ Untouched /\ UNCHANGED <<config, descriptors>>

load_manifest(new) ==
  /\ Edit
  /\ config' = new
  /\ mark_dirty
  /\ Untouched /\ UNCHANGED <<catalog, descriptors, store, dirty_sources, removed_modules>>

-----------------------------------------------------------------------------
(* frontend_roots: the entry and the exports that are loaded.              *)
frontend_roots(st) ==
  SelectSeq(<<config.entry>> \o config.exports, LAMBDA p : p \in DOMAIN st)

(* load_required_dependencies: builtin modules and provider sources, in    *)
(* path order up to the first collision.                                   *)
load_dependency(st, path) ==
  IF st.collision \/ path \in DOMAIN st.store THEN st
  ELSE IF ~is_builtin_module(path) /\ ~is_provider_module(catalog, path) THEN st
  ELSE IF Collides(st.store, path) THEN [st EXCEPT !.collision = TRUE]
  ELSE [st EXCEPT !.store = IF is_builtin_module(path) THEN Stored(@, path, Builtins[path], "builtin")
                            ELSE Stored(@, path, catalog.providers[path], "provider"),
                  !.dirty = @ \cup {path}]
load_required_dependencies(st, required) == FoldLeft(load_dependency, st, Sorted(required))

ModuleKind(origin) == CASE origin = "user" -> "standard" [] origin = "proxy" -> "proxy"
                        [] OTHER -> "builtin"

(* The loop of check: analyse, then load what is missing and start over.   *)
(* The report is that of the last round; all collects every round's.       *)
source_input(st, p) ==
  [id |-> ModuleIds[p], path |-> p, kind |-> ModuleKind(st.store[p].origin), text |-> st.store[p].text]
source_inputs(st, order) == [n \in DOMAIN order |-> source_input(st, order[n])]
load_reported(st, report) ==
  [load_required_dependencies([st EXCEPT !.session = report.session, !.dirty = {}, !.removed = {}],
                              report.required)
     EXCEPT !.report = report, !.all = @ \cup report.changed]
check_once(st) ==
  load_reported(st, check(st.session, source_inputs(st, Sorted(st.dirty \cap DOMAIN st.store)),
                          st.removed, st.roots, catalog))
RECURSIVE check_loop(_)
check_again(st) == IF st.collision \/ st.dirty = {} THEN st ELSE check_loop(st)
check_loop(st) == check_again(check_once(st))

(* refresh_adapter_proxy_descriptors: the exported functions of each proxy  *)
(* whose types have a surface schema; the others are diagnosed.            *)
ProxyModules(s) == {n \in DOMAIN s.modules : s.modules[n].kind = "proxy"}
Signatures(m) == {<<e.name, m.result.types[e.name]>> :
                    e \in {e \in ToSet(m.text.exports) : e.kind # "const"}}
refreshed(descriptor, signatures) ==
  [descriptor EXCEPT !.exports = {x \in signatures : x[2] \in Representable}]
refresh_descriptors(s) ==
  [p \in DOMAIN descriptors |->
     IF \E n \in ProxyModules(s) : s.modules[n].path = p
     THEN refreshed(descriptors[p], Signatures(s.modules[CHOOSE n \in ProxyModules(s) : s.modules[n].path = p]))
     ELSE descriptors[p]]
unrepresentable(s) ==
  {<<s.modules[n].path, "InvalidAdapterProxy">> :
     n \in {n \in ProxyModules(s) : /\ s.modules[n].path \in DOMAIN descriptors
                                    /\ \E x \in Signatures(s.modules[n]) : x[2] \notin Representable}}
(* validate_registered_adapter_schemas, of the refreshed descriptors: each *)
(* names an adapter of the catalog, whose validate_schema accepts it.      *)
validate_schema(d) == \A x \in d.exports : x[2] \in catalog.adapters[d.adapter]
validate_registered_adapter_schemas(refreshed_descriptors) ==
  {<<p, "InvalidAdapterProxy">> :
     p \in {p \in DOMAIN refreshed_descriptors :
              LET d == refreshed_descriptors[p] IN d.adapter \notin DOMAIN catalog.adapters \/ ~validate_schema(d)}}
descriptor_diagnostics(s) == unrepresentable(s) \cup validate_registered_adapter_schemas(refresh_descriptors(s))

(* check, when the workspace is dirty.                                     *)
Conclude(st, bad) ==
  /\ session' = st.session
  /\ store' = st.store
  /\ dirty_sources' = st.dirty
  /\ removed_modules' = {}
  /\ descriptors' = refresh_descriptors(st.session)
  /\ check_state' = [state |-> IF bad THEN "failed" ELSE "passed", rev |-> st.report.rev,
                     changed |-> IF bad THEN {} ELSE st.report.changed]
  /\ unpublished' = unpublished \cup st.all
  /\ UNCHANGED <<config, catalog>>
Check ==
  /\ check_state.state = "dirty"
  /\ IF config = NoConfig
     THEN /\ check_state' = [state |-> "failed", rev |-> 0, changed |-> {}]
          /\ UNCHANGED <<sources, session, unpublished>>
     ELSE \E st \in {check_loop([session |-> session, store |-> store, roots |-> frontend_roots(store),
                                 dirty |-> dirty_sources, removed |-> removed_modules, collision |-> FALSE,
                                 report |-> <<>>, all |-> {}])} :
            Conclude(st, st.collision \/ st.report.diagnostics \cup descriptor_diagnostics(st.session) # {})
  /\ UNCHANGED <<compile_state, compiler, edits>>

-----------------------------------------------------------------------------
(* compile: what can be reached from the roots, which of it is emitted     *)
(* again, and the transaction that makes the next package.                 *)
found_modules(modules, paths) == {m.id : m \in {m \in ToSet(modules) : m.path \in paths}}
neighbours(s, seen) ==
  UNION {dependencies_of(s.graph, id) \cup found_modules(s.modules, unresolved_dependency_paths_of(s.graph, id)) :
         id \in seen}
RECURSIVE Reach(_, _)
Reach(s, seen) ==
  IF neighbours(s, seen) \subseteq seen THEN seen ELSE Reach(s, seen \cup neighbours(s, seen))
reachable_modules(s) == Reach(s, {ModuleIds[p] : p \in ToSet(s.graph.roots)})

cached_graph == IF compile_state.state = "stale" THEN compile_state.unfinalized.graph ELSE G!Empty
\* Mutant: of a cached graph only the missing modules are emitted.
compilation_targets_MissingOnly(s, base, reachable) == reachable \ DOMAIN base.modules
outdated(base, m) == m.id \notin DOMAIN base.modules \/ base.modules[m.id].rev # m.rev
compilation_targets(s, base, reachable) ==
  ({m.id : m \in {m \in ToSet(s.modules) :
                    compile_state.state # "stale" \/ (m.id \in check_state.changed /\ outdated(base, m))}}
   \cap reachable)
  \cup (reachable \ DOMAIN base.modules)
import_edges(s, reachable) ==
  {<<e.from, e.to>> : e \in {e \in s.graph.edges : e.from \in reachable /\ e.to # None}}
adapter_requirements(graph) ==
  {[path |-> p, descriptor |-> descriptors[p]] :
     p \in {graph.modules[id].path : id \in DOMAIN graph.modules} \cap DOMAIN descriptors}

(* provider_requirements_for, provider_interface_for: the operations of    *)
(* each provider module, those without a surface schema left out, and an   *)
(* error when they do not share one alias (the adapter field of the text). *)
ProviderPaths(graph) == {p \in {graph.modules[id].path : id \in DOMAIN graph.modules} : is_provider_module(catalog, p)}
provider_interface(s, path) ==
  {x \in Signatures(s.modules[first_index(s.modules, path)]) : x[2] \in Representable}
provider_requirements(s, graph) ==
  {[path |-> p, exports |-> provider_interface(s, p)] : p \in ProviderPaths(graph)}
provider_fails(s, graph) ==
  \E p \in ProviderPaths(graph) :
    ~\E m \in ToSet(s.modules) : m.path = p /\ m.text.adapter # "none"

(* The worklist comes out of a hash set, so its order is open; that of the *)
(* modules that instantiate nothing does not matter.                       *)
Orders(plain, demanding) == {SetToSortSeq(plain, <) \o order : order \in SetToSeqs(demanding)}
Demanding(modules, indexes) == {n \in indexes : modules[n].text.demands # {}}
Worklists(modules, indexes) ==
  Orders(indexes \ Demanding(modules, indexes), Demanding(modules, indexes))

transaction(base, reachable, nodes) ==
  [base |-> base.version, upserts |-> nodes, removes |-> DOMAIN base.modules \ reachable,
   edges |-> import_edges(session, reachable)]
package_image(graph) ==
  [graph |-> graph, manifest |-> adapter_requirements(graph), providers |-> provider_requirements(session, graph),
   entry |-> config.entry]
complete(image) == G!try_new(image.graph, image.entry, SetToSeq({r.path : r \in image.manifest})) = {}
accepted(base, t, image) ==
  /\ ~provider_fails(session, image.graph)
  /\ G!apply_errors(base, t) = {}
  /\ complete(image)

(* optimize_package: the modules that differ from those published before   *)
(* are applied to that graph; when none does, the package published before *)
(* is returned, with the entry and the requirements it had.                *)
finalizing(image, old) ==
  [base |-> old.version,
   upserts |-> [id \in {id \in DOMAIN image.graph.modules :
                          id \notin DOMAIN old.modules \/ old.modules[id] # image.graph.modules[id]} |->
                  image.graph.modules[id]],
   removes |-> DOMAIN old.modules \ DOMAIN image.graph.modules, edges |-> image.graph.edges]
optimize_package(image, previous) ==
  LET t == finalizing(image, previous.graph)
  IN  IF compile_state.state # "stale" THEN image
      ELSE IF DOMAIN t.upserts = {} /\ t.removes = {} /\ t.edges = previous.graph.edges THEN previous
      ELSE [image EXCEPT !.graph = G!applied(previous.graph, t)]
finalization_fails(image, previous) ==
  /\ optimize_package(image, previous) \notin {image, previous}
  /\ \/ G!apply_errors(previous.graph, finalizing(image, previous.graph)) # {}
     \/ ~complete(optimize_package(image, previous))

Publish(image, emitted) ==
  /\ compile_state' = [state |-> "ready", rev |-> check_state.rev, unfinalized |-> image,
                       package |-> optimize_package(image, compile_state.package)]
  /\ unpublished' = unpublished \ (emitted \cup check_state.changed)
Package(base, out, t) ==
  \E image \in {package_image(G!applied(base, t))} :
    IF out.ok /\ accepted(base, t, image) /\ ~finalization_fails(image, compile_state.package)
    THEN Publish(image, DOMAIN out.nodes)
    ELSE UNCHANGED <<compile_state, unpublished>>
CompileFrom(base, reachable, targets) ==
  \E modules \in {SelectSeq(session.modules, LAMBDA m : m.id \in reachable)} :
    \E order \in Worklists(modules, {n \in DOMAIN modules : modules[n].id \in targets}) :
      \E out \in {compile_changed_modules(modules, compiler, targets, order)} :
        /\ compiler' = out.cs
        /\ Package(base, out, transaction(base, reachable, out.nodes))
Compile ==
  /\ check_state.state = "passed"
  /\ ~(compile_state.state = "ready" /\ compile_state.rev = check_state.rev)
  /\ compiler.next < MaxInstances
  /\ \E reachable \in {reachable_modules(session)} :
       CompileFrom(cached_graph, reachable, compilation_targets(session, cached_graph, reachable))
  /\ UNCHANGED <<sources, check_state, session, edits>>
-----------------------------------------------------------------------------
(* A workspace whose manifest and files have been loaded.                  *)
Init ==
  /\ config = Manifest /\ catalog \in Catalogs
  /\ \E files \in Openings :
       /\ store = [p \in DOMAIN files |-> [text |-> files[p], origin |-> IF is_proxy(p) THEN "proxy" ELSE "user"]]
       /\ descriptors = [p \in {p \in DOMAIN files : is_proxy(p)} |-> [adapter |-> files[p].adapter, exports |-> {}]]
       /\ dirty_sources = DOMAIN files
  /\ removed_modules = {}
  /\ check_state = Dirty /\ session = EmptySession
  /\ compile_state = Missing /\ compiler = NewCompiler
  /\ edits = 0 /\ unpublished = {}

Next ==
  \/ \E p \in DOMAIN Texts : \E text \in Texts[p] : load_module(p, text)
  \/ \E b \in Bridges : register_bridge_module(b[1], b[2])
  \/ \E p \in DOMAIN store : remove_module(p)
  \/ \E c \in Catalogs : set_catalog(c)
  \/ \E c \in Configs : load_manifest(c)
  \/ Check
  \/ Compile
Spec == Init /\ [][Next]_vars

-----------------------------------------------------------------------------
(* Reference definitions.  The type of an export, followed through the     *)
(* modules its inference goes through; a cycle has none.                   *)
Source(path) == store[path].text
Target(path, use) == resolve_relative_import(path, Source(path).imports[use[1]].src, catalog)
Resolves(path, use) ==
  /\ is_resolvable_import(Source(path).imports[use[1]].src, catalog)
  /\ Target(path, use) \in DOMAIN store
  /\ use[2] \in ExportNames(Source(Target(path, use)))
RECURSIVE TypeOf(_, _, _)
TypeOf(path, name, seen) ==
  LET e == Source(path).exports[Export(Source(path), name)]
  IN  IF e.of = <<>> THEN e.ty
      ELSE IF <<path, name>> \in seen \/ ~Resolves(path, e.of) THEN Unknown
      ELSE TypeOf(Target(path, e.of), e.of[2], seen \cup {<<path, name>>})
ImportedTypes(path) ==
  [use \in {use \in Uses(Source(path)) : Resolves(path, use)} |-> TypeOf(Target(path, use), use[2], {})]


(* After a check that passed, the analysis is the one a new session would  *)
(* compute from the sources in the store: the same modules, every type the *)
(* one its definition has through however many modules, the semantic graph *)
(* rebuilt from nothing, and no dependency missing (FrontendSession::check *)
(* re-types only what changed and its importers).                          *)
AnalysisIsFresh ==
  check_state.state = "passed" =>
    /\ {<<m.path, m.text>> : m \in ToSet(session.modules)} = {<<p, Source(p)>> : p \in DOMAIN store}
    /\ \A m \in ToSet(session.modules) :
         /\ \A name \in ExportNames(m.text) : m.result.types[name] = TypeOf(m.path, name, {})
         /\ m.result.imported = ImportedTypes(m.path)
    /\ session.graph = apply_delta(EmptyGraph, frontend_roots(store), session.modules,
                                   {m.id : m \in ToSet(session.modules)}, {}, catalog)
    /\ required_dependencies(session.modules, catalog) \subseteq DOMAIN store

(* A module's image is the one of its present text and of the types its    *)
(* imports have now.                                                       *)
ImageIsCurrent(node) ==
  /\ node.path \in DOMAIN store
  /\ node.of.text = Source(node.path)
  /\ node.of.result.imported = ImportedTypes(node.path)

SignaturesNow(path) == {<<e.name, TypeOf(path, e.name, {})>> : e \in ToSet(Source(path).exports)}

RequirementsAreCurrent(image, except) ==
  /\ \A r \in image.manifest : ModuleIds[r.path] \notin except => r.descriptor.exports = SignaturesNow(r.path)
  /\ \A r \in image.providers : ModuleIds[r.path] \notin except => r.exports = SignaturesNow(r.path)

(* A ready package belongs to the check that passed last and holds exactly *)
(* what its roots reach (compile).  The image given to the optimizer has   *)
(* the entry of the configuration and lists proxies and providers with the *)
(* signatures they have now.                                               *)
(*   Of the published package less is true, and this says how much.  Its   *)
(* images are current, and so are its requirements, except those of        *)
(* modules that only an earlier check reported as changed: such a module   *)
(* is not emitted again, and when no other is, optimize_package returns    *)
(* the package before.  That package's entry may be out of date too.       *)
PackageIsCurrent ==
  compile_state.state = "ready" =>
    LET nodes == compile_state.package.graph.modules
    IN  /\ check_state.state = "passed" /\ compile_state.rev = check_state.rev
        /\ DOMAIN nodes = reachable_modules(session)
        /\ compile_state.unfinalized.entry = config.entry
        /\ RequirementsAreCurrent(compile_state.unfinalized, {})
        /\ RequirementsAreCurrent(compile_state.package, unpublished)
        /\ \A id \in DOMAIN nodes \ unpublished : ImageIsCurrent(nodes[id])

=============================================================================
