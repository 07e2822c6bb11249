---------------------------- MODULE BytecodeGraph ----------------------------
(***************************************************************************)
(* The bytecode graph a workspace publishes: snapshots that transactions   *)
(* replace, with the indexes derived from them, the links between modules  *)
(* and the order in which they are initialized.  A node is                 *)
(*   path      its logical path,                                            *)
(*   imports   a sequence of <<path, symbol>>,                             *)
(*   exports   a sequence of <<symbol, kind, index>>,                      *)
(*   globals   the number of globals it owns,                              *)
(*   uses      the set of <<owner, global>> its instructions name,         *)
(*   broken    whether validate_bytecode_module finds an error in it.      *)
(***************************************************************************)
EXTENDS Integers, Sequences, FiniteSets, SequencesExt

CONSTANTS
  Ids,           \* module identifiers
  Upserts,       \* the functions from ids to nodes a transaction may carry
  RemoveSets,    \* the sets of ids it may remove
  EdgeSets,      \* the edges it may carry
  Proxies,       \* the paths of adapter proxies (.gfp)
  AnyEntry,      \* stands for a package without an entry point
  Entries,       \* the entry points a package may have
  Manifests,     \* the adapter manifests a package may have
  MaxVersion     \* bound on the transactions applied

VARIABLES
  graph,         \* the current snapshot
  package        \* the package image built from it, or NoPackage

graphVars == <<graph, package>>

NoPackage == [entry |-> "none"]
Missing == -1

(* Indexes keep the last entry for a name.                                 *)
ids_by_path(modules) ==
  [p \in {modules[m].path : m \in DOMAIN modules} |->
     CHOOSE m \in DOMAIN modules : modules[m].path = p
       /\ \A k \in DOMAIN modules : modules[k].path = p => k <= m]
export_index(node) ==
  [s \in {node.exports[n][1] : n \in DOMAIN node.exports} |->
     CHOOSE n \in DOMAIN node.exports : node.exports[n][1] = s
       /\ \A k \in DOMAIN node.exports : node.exports[k][1] = s => k <= n]
dependencies(edges) == [m \in {e[1] : e \in edges} |-> {e[2] : e \in {x \in edges : x[1] = m}}]
dependents(edges) == [m \in {e[2] : e \in edges} |-> {e[1] : e \in {x \in edges : x[2] = m}}]

(* rebuild_transient_indexes.                                              *)
Indexed(g) ==
  [g EXCEPT !.byPath = ids_by_path(g.modules),
            !.deps = dependencies(g.edges),
            !.users = dependents(g.edges),
            !.exports = [m \in DOMAIN g.modules |-> export_index(g.modules[m])]]

Empty == [version |-> 0, modules |-> <<>>, edges |-> {}, byPath |-> <<>>, deps |-> <<>>,
          users |-> <<>>, exports |-> <<>>]

(* validate: what is wrong with a graph.                                   *)
duplicate_paths(g) ==
  IF \E m, k \in DOMAIN g.modules : m # k /\ g.modules[m].path = g.modules[k].path
  THEN {"DuplicateModulePath"} ELSE {}
invalid_modules(g) == IF \E m \in DOMAIN g.modules : g.modules[m].broken THEN {"InvalidModule"} ELSE {}
global_errors(g) ==
  UNION {UNION {
    IF u[1] \notin DOMAIN g.modules THEN {"MissingGlobalModule"}
    ELSE LET owner == g.modules[u[1]]
         IN  IF u[2] >= owner.globals THEN {"GlobalIndexOutOfBounds"}
             ELSE IF /\ u[1] # m
                     /\ \A n \in DOMAIN owner.exports :
                          ~(owner.exports[n][2] = "global" /\ owner.exports[n][3] = u[2])
                  THEN {"MissingImportedExport"} ELSE {} :
    u \in g.modules[m].uses} : m \in DOMAIN g.modules}
edge_errors(g) ==
  IF \E e \in g.edges : e[1] \notin DOMAIN g.modules \/ e[2] \notin DOMAIN g.modules
  THEN {"MissingDependencyModule"} ELSE {}
import_errors_PathOnly(g) ==
  IF \E m \in DOMAIN g.modules : \E n \in DOMAIN g.modules[m].imports :
       \A k \in DOMAIN g.modules : g.modules[k].path # g.modules[m].imports[n][1]
  THEN {"MissingImportedModule"} ELSE {}
import_errors(g) ==
  UNION {UNION {
    LET i == g.modules[m].imports[n]
        owners == {k \in DOMAIN g.modules : g.modules[k].path = i[1]}
        owner == ids_by_path(g.modules)[i[1]]
    IN  IF owners = {} THEN {"MissingImportedModule"}
        ELSE IF \A x \in DOMAIN g.modules[owner].exports : g.modules[owner].exports[x][1] # i[2]
        THEN {"MissingImportedExport"} ELSE {} :
    n \in DOMAIN g.modules[m].imports} : m \in DOMAIN g.modules}
validate(g) ==
  duplicate_paths(g) \cup invalid_modules(g) \cup global_errors(g)
  \cup edge_errors(g) \cup import_errors(g)

(* validate_transaction: a transaction is a base version, a function from  *)
(* ids to the nodes it upserts, a set of ids it removes, and all the edges. *)
validate_transaction(g, t) ==
  LET ups == DOMAIN t.upserts
  IN  IF ups \cap t.removes # {} THEN {"ConflictingModuleOperations"}
      ELSE IF \E m, k \in ups : m # k /\ t.upserts[m].path = t.upserts[k].path
      THEN {"DuplicateUpsertedModulePath"}
      ELSE IF \E m \in ups : \E k \in DOMAIN g.modules :
                g.modules[k].path = t.upserts[m].path /\ k # m /\ k \notin t.removes
      THEN {"RetainedModulePathConflict"}
      ELSE {}

(* The modules of the next snapshot.                                       *)
Replaced(g, t) ==
  [m \in (DOMAIN g.modules \ t.removes) \cup DOMAIN t.upserts |->
     IF m \in DOMAIN t.upserts THEN t.upserts[m] ELSE g.modules[m]]

apply_errors(g, t) ==
  IF t.base # g.version THEN {"StaleBaseVersion"}
  ELSE IF validate_transaction(g, t) # {} THEN validate_transaction(g, t)
  ELSE validate(Indexed([g EXCEPT !.modules = Replaced(g, t), !.edges = t.edges]))
applied(g, t) ==
  [Indexed([g EXCEPT !.modules = Replaced(g, t), !.edges = t.edges]) EXCEPT !.version = @ + 1]

(* resolve_imports: the module of each import slot, Missing when there is   *)
(* none or when it does not export the symbol.                              *)
resolve_import(g, i) ==
  IF i[1] \notin DOMAIN g.byPath THEN Missing
  ELSE LET owner == g.byPath[i[1]]
       IN  IF owner \in DOMAIN g.exports /\ i[2] \in DOMAIN g.exports[owner] THEN owner ELSE Missing
resolve_imports(g, m) ==
  [n \in DOMAIN g.modules[m].imports |-> resolve_import(g, g.modules[m].imports[n])]

(* collect_initialization_order: depth first, dependencies before their    *)
(* users; a module met again while it is being visited is a cycle.          *)
RECURSIVE Visit(_, _, _)
Visit_Preorder(g, m, state) ==
  IF state.cycle \/ m \in ToSet(state.order) THEN state
  ELSE FoldLeft(LAMBDA s, k : Visit(g, k, s),
                [state EXCEPT !.order = Append(@, m)], resolve_imports(g, m))
Visit(g, m, state) ==
  IF state.cycle \/ m \in ToSet(state.order) THEN state
  ELSE IF m \in state.visiting THEN [state EXCEPT !.cycle = TRUE]
  ELSE LET entered == [state EXCEPT !.visiting = @ \cup {m}]
           left == FoldLeft(LAMBDA s, k : IF s.cycle THEN s ELSE Visit(g, k, s),
                            entered, resolve_imports(g, m))
       IN  IF left.cycle THEN left
           ELSE [left EXCEPT !.visiting = @ \ {m}, !.order = Append(@, m)]
initialization_order(g, m) == Visit(g, m, [cycle |-> FALSE, order |-> <<>>, visiting |-> {}])

RECURSIVE ReachModules(_, _, _)
ReachModules(index, pending, seen) ==
  LET next == UNION {IF m \in DOMAIN index THEN index[m] ELSE {} : m \in pending}
  IN  IF next \subseteq seen THEN seen ELSE ReachModules(index, next, seen \cup next)
reachable_modules(g, entry) == ReachModules(g.deps, {entry}, {entry})

(* validate_adapter_requirements: the manifest names exactly the proxies   *)
(* that can be reached from the entry point.                                *)
reachable_proxies(g, entry) ==
  LET mods == IF entry = AnyEntry THEN DOMAIN g.modules
              ELSE IF entry \in DOMAIN g.byPath THEN reachable_modules(g, g.byPath[entry])
              ELSE {}
  IN  {g.modules[m].path : m \in mods \cap DOMAIN g.modules} \cap Proxies
try_new(g, entry, manifest) ==
  IF Cardinality(ToSet(manifest)) # Len(manifest) THEN {"DuplicateAdapterRequirement"}
  ELSE IF ~(reachable_proxies(g, entry) \subseteq ToSet(manifest)) THEN {"MissingAdapterRequirement"}
  ELSE IF ~(ToSet(manifest) \subseteq reachable_proxies(g, entry)) THEN {"UnexpectedAdapterRequirement"}
  ELSE {}

Transactions ==
  {[base |-> b, upserts |-> u, removes |-> r, edges |-> e] :
     b \in {graph.version, graph.version + 1},
     u \in Upserts, r \in RemoveSets, e \in EdgeSets}

GraphInit == graph = Empty /\ package = NoPackage

(* apply: the snapshot is replaced, or the transaction refused as a whole. *)
Publish(t) ==
  /\ graph.version < MaxVersion
  /\ graph' = IF apply_errors(graph, t) = {} THEN applied(graph, t) ELSE graph
  /\ UNCHANGED package

(* try_new: an image of the current snapshot with its manifest.            *)
Build(entry, manifest) ==
  /\ try_new(graph, entry, manifest) = {}
  /\ package' = [entry |-> entry, manifest |-> manifest, graph |-> graph]
  /\ UNCHANGED graph

(* from_bytecode(to_bytecode(..)): indexes and version are not encoded.    *)
Decoded(g) == Indexed([g EXCEPT !.version = 0, !.byPath = <<>>, !.deps = <<>>,
                                !.users = <<>>, !.exports = <<>>])
Reload ==
  /\ package # NoPackage
  /\ validate(Decoded(package.graph)) = {}
  /\ try_new(Decoded(package.graph), package.entry, package.manifest) = {}
  /\ package' = [package EXCEPT !.graph = Decoded(@)]
  /\ UNCHANGED graph

GraphNext ==
  \/ \E t \in Transactions : Publish(t)
  \/ \E entry \in Entries, manifest \in Manifests : Build(entry, manifest)
  \/ Reload
GraphSpec == GraphInit /\ [][GraphNext]_graphVars

-----------------------------------------------------------------------------
(* Reference definitions: the import relation by paths and symbols alone.  *)
ImportsOf(g, m) ==
  {k \in DOMAIN g.modules : \E n \in DOMAIN g.modules[m].imports :
     /\ g.modules[k].path = g.modules[m].imports[n][1]
     /\ \E x \in DOMAIN g.modules[k].exports :
          g.modules[k].exports[x][1] = g.modules[m].imports[n][2]}
RECURSIVE Closure(_, _)
Closure(g, s) ==
  LET next == s \cup UNION {ImportsOf(g, m) : m \in s}
  IN  IF next = s THEN s ELSE Closure(g, next)
Needs(g, m) == Closure(g, ImportsOf(g, m))

ImportsResolve ==
  \A m \in DOMAIN graph.modules :
    /\ \A n \in DOMAIN graph.modules[m].imports :
         LET k == resolve_import(graph, graph.modules[m].imports[n])
         IN  k # Missing /\ k \in ImportsOf(graph, m)
    /\ \A u \in graph.modules[m].uses :
         /\ u[1] \in DOMAIN graph.modules
         /\ u[1] # m => \E x \in DOMAIN graph.modules[u[1]].exports :
              graph.modules[u[1]].exports[x][2] = "global" /\ graph.modules[u[1]].exports[x][3] = u[2]
PackageSurvives ==
  package # NoPackage =>
    LET d == Decoded(package.graph)
    IN  /\ validate(d) = {}
        /\ \A m \in DOMAIN d.modules :
             /\ resolve_imports(d, m) = resolve_imports(package.graph, m)
             /\ initialization_order(d, m) = initialization_order(package.graph, m)
        /\ try_new(d, package.entry, package.manifest) = {}
ManifestCovers ==
  package # NoPackage /\ package.entry \in DOMAIN package.graph.byPath
  /\ (\A m \in DOMAIN package.graph.modules : \A k \in ImportsOf(package.graph, m) :
         <<m, k>> \in package.graph.edges) =>
    LET g == package.graph
        m == g.byPath[package.entry]
    IN  {g.modules[k].path : k \in {m} \cup Needs(g, m)} \cap Proxies \subseteq ToSet(package.manifest)

(* Linking never fails on a published snapshot: every import slot of every *)
(* module resolves, to the module of that path, and a global read across   *)
(* modules is one its owner exports (validate, resolve_imports).  A package *)
(* survives encoding: after decoding it links, initializes and requires    *)
(* the same proxies as the image that was built (from_bytecode).  Running  *)
(* a package needs no proxy its manifest leaves out, provided the edges of *)
(* its graph cover its imports (validate_adapter_requirements walks the    *)
(* edges, initialization walks the imports).                                *)
LinksResolve == ImportsResolve /\ PackageSurvives /\ ManifestCovers

(* initialization_order lists a module after everything it imports, lists  *)
(* exactly what it needs, once, and reports a cycle just when there is one. *)
InitializationOrder ==
  \A m \in DOMAIN graph.modules :
    LET r == initialization_order(graph, m)
        all == {m} \cup Needs(graph, m)
        pos(k) == CHOOSE n \in DOMAIN r.order : r.order[n] = k
    IN  IF \E k \in all : k \in Needs(graph, k) THEN r.cycle
        ELSE /\ ~r.cycle
             /\ ToSet(r.order) = all /\ Len(r.order) = Cardinality(all)
             /\ \A k \in all : \A d \in ImportsOf(graph, k) : pos(d) < pos(k)
=============================================================================
