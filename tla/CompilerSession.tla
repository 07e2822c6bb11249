--------------------------- MODULE CompilerSession ---------------------------
(***************************************************************************)
(* The compile driver over the modules of a frontend snapshot: which       *)
(* modules are lowered, how generic functions of one module are            *)
(* specialised at the demand of another and kept between compilations, and *)
(* how imports, exports and globals become the slots of a bytecode node.   *)
(* The compiler's state is                                                 *)
(*   specs    {[mod, name, ty, id]}, the function an instantiation names,  *)
(*   bodies   {[mod, id, name, ty, of, since, calls]}, the specialised     *)
(*            functions: ty is an id of mod's type table, of the type it   *)
(*            stood for when the body was lowered,                         *)
(*   next     the number of identifiers given out so far,                  *)
(*   pending  the modules that gained a body and must be emitted again,    *)
(*   tables   the type table of each module of this compilation; a type id *)
(*            is an index.  They are copies of the frontend's, so what a   *)
(*            compilation adds to them is gone at its end,                 *)
(*   since    next as it was when this compilation began.                  *)
(* A symbol of a slot is <<name, 0>> or <<"func", id>>.                    *)
(***************************************************************************)
EXTENDS FrontendSession

CONSTANT Primitives   \* the types each type table begins with, a sequence

NewCompiler == [specs |-> {}, bodies |-> {}, next |-> 0, pending |-> {}, tables |-> <<>>, since |-> 0]
Composite(ty) == ty \notin ToSet(Primitives)
Spelled(name) == <<name, 0>>
Numbered(id) == <<"func", id>>

(* begin_compilation: only what belongs to live, unchanged modules stays.  *)
begin_compilation(cs, live, changed) ==
  [cs EXCEPT !.specs = {s \in @ : s.mod \in live \ changed},
             !.bodies = {b \in @ : b.mod \in live \ changed},
             !.pending = {}]

(* compile::resolve::import_target_index: the source read as a path from   *)
(* the root comes first, then the frontend's resolution without a catalog. *)
NoCatalog == [providers |-> <<>>, adapters |-> <<>>]
first_of(found) == IF found = {} THEN None ELSE CHOOSE n \in found : \A k \in found : n <= k
first_index(modules, path) == first_of({n \in DOMAIN modules : modules[n].path = path})
direct_path(src) == rooted(FoldLeft(WalkSegment, <<"/">>, src))
index_or(direct, otherwise) == IF direct # None THEN direct ELSE otherwise
target_index(modules, n, src) ==
  index_or(first_index(modules, direct_path(src)),
           first_index(modules, resolve_relative_import(modules[n].path, src, NoCatalog)))

(* resolve_import_target: the module and export a use of module n means.   *)
Export(text, name) == CHOOSE x \in DOMAIN text.exports : text.exports[x].name = name
exported_by(modules, t, name) ==
  IF t = None THEN [mod |-> None, slot |-> 0]
  ELSE IF name \notin ExportNames(modules[t].text) THEN [mod |-> None, slot |-> 0]
  ELSE [mod |-> t, slot |-> Export(modules[t].text, name)]
resolve_import_target(modules, n, use) ==
  exported_by(modules, target_index(modules, n, modules[n].text.imports[use[1]].src), use[2])

(* TypeTable.  A table starts with what the module's own text needs.       *)
type_table(text) == Primitives \o SetToSeq({d[2] : d \in text.demands} \ ToSet(Primitives))
intern(table, ty) == IF ty \in ToSet(table) THEN table ELSE Append(table, ty)
type_id(table, ty) == CHOOSE n \in DOMAIN table : table[n] = ty
(* lower_type: what an id stands for when code is emitted.                 *)
lowered_type(table, ty) == IF ty \in DOMAIN table THEN table[ty] ELSE "null"

translate_type(cs, n, t, ty) ==
  IF n = t \/ ty \notin DOMAIN cs.tables[n] THEN [cs |-> cs, ty |-> ty]
  ELSE [cs |-> [cs EXCEPT !.tables[t] = intern(@, cs.tables[n][ty])],
        ty |-> type_id(intern(cs.tables[t], cs.tables[n][ty]), cs.tables[n][ty])]

cached_instances(cs, mod, name, ty) == {s \in cs.specs : s.mod = mod /\ s.name = name /\ s.ty = ty}

(* specialize_function: the identifier of an instantiation, made on first  *)
(* demand.  The body is lowered at once, and may demand others in turn.    *)
RECURSIVE specialize_function(_, _, _, _, _)
called_too(st, r) == [cs |-> r.cs, calls |-> st.calls \cup r.ids]
specialize_inner(modules, cs, t, export, ty) ==
  FoldFunctionOnSet(LAMBDA use, st : called_too(st, specialize_function(modules, st.cs, t, use, ty)),
                    [cs |-> cs, calls |-> {}], [u \in export.inner |-> u], export.inner)
keep_instance(spec, of, inner) ==
  [cs |-> [inner.cs EXCEPT
             !.bodies = @ \cup {[mod |-> spec.mod, id |-> spec.id, name |-> spec.name, ty |-> spec.ty,
                                 of |-> of, since |-> inner.cs.since, calls |-> inner.calls]},
             !.pending = @ \cup {spec.mod}],
   ids |-> {spec.id}]
lower_instance(modules, cs, t, export, spec) ==
  keep_instance(spec, lowered_type(cs.tables[t], spec.ty),
                specialize_inner(modules, [cs EXCEPT !.next = spec.id, !.specs = @ \cup {spec}], t, export, spec.ty))
find_instance(modules, cs, t, export, ty, known) ==
  IF known # {} THEN [cs |-> cs, ids |-> {s.id : s \in known}]
  ELSE lower_instance(modules, cs, t, export,
                      [mod |-> modules[t].id, name |-> export.name, ty |-> ty, id |-> cs.next + 1])
specialize_export(modules, as, t, export) ==
  find_instance(modules, as.cs, t, export, as.ty, cached_instances(as.cs, modules[t].id, export.name, as.ty))
specialize_target(modules, cs, n, target, ty) ==
  IF target.mod = None THEN [cs |-> cs, ids |-> {}]
  ELSE IF modules[target.mod].text.exports[target.slot].kind # "generic" THEN [cs |-> cs, ids |-> {}]
  ELSE specialize_export(modules, translate_type(cs, n, target.mod, ty), target.mod,
                         modules[target.mod].text.exports[target.slot])
specialize_function(modules, cs, n, use, ty) ==
  specialize_target(modules, cs, n, resolve_import_target(modules, n, use), ty)

(* Lowering one module: its instantiations, and the functions they name.   *)
bound_too(st, d, r) == [cs |-> r.cs, binds |-> st.binds \cup {<<d, id>> : id \in r.ids}]
lower_module(modules, cs, n) ==
  FoldFunctionOnSet(LAMBDA d, st : bound_too(st, d, specialize_function(modules, st.cs, n, d[1], type_id(st.cs.tables[n], d[2]))),
                    [cs |-> cs, binds |-> {}], [d \in modules[n].text.demands |-> d], modules[n].text.demands)

(* Phase 1 of compile_changed_modules: a last-in first-out worklist that   *)
(* grows with every module a specialisation adds a body to.                *)
affected_by(modules, cs, affected) ==
  {n \in DOMAIN modules : modules[n].id \in cs.pending} \ affected
requeue(st, n, low, more) ==
  [cs |-> [low.cs EXCEPT !.pending = {}],
   binds |-> [st.binds EXCEPT ![n] = low.binds],
   affected |-> st.affected \cup more,
   work |-> Front(st.work) \o SetToSeq(more)]
lowered(modules, st, n, low) == requeue(st, n, low, affected_by(modules, low.cs, st.affected))
RECURSIVE lower_modules(_, _)
lower_modules(modules, st) ==
  IF st.work = <<>> THEN st
  ELSE lower_modules(modules, lowered(modules, st, Last(st.work), lower_module(modules, st.cs, Last(st.work))))

-----------------------------------------------------------------------------
(* compile_single_module.  Calls through an instantiation go to the        *)
(* specialised function, other calls to the export the import names; one   *)
(* that belongs to the module itself needs no slot.                        *)
Functions(module) == {x \in DOMAIN module.text.exports :
                        module.text.exports[x].kind \in {"fn", "async", "external", "external sync"}}
Globals(module) == {x \in DOMAIN module.text.exports : module.text.exports[x].kind = "const"}
spec_owner(cs, id) ==
  IF \E s \in cs.specs : s.id = id THEN (CHOOSE s \in cs.specs : s.id = id).mod ELSE None

specialised_calls(cs, module, binds) ==
  {b[2] : b \in binds} \cup UNION {b.calls : b \in {b \in cs.bodies : b.mod = module.id}}
\* The targets the uses of module n resolve to, with the names they use.
Resolved(modules, n, uses) ==
  {r \in {[name |-> use[2], to |-> resolve_import_target(modules, n, use)] : use \in uses} : r.to.mod # None}
Spellings(modules, resolved) ==
  {[mod |-> modules[r.to.mod].id, symbol |-> Spelled(r.name)] : r \in resolved}
cross_module_calls(modules, cs, n, binds) ==
  {[mod |-> spec_owner(cs, id), symbol |-> Numbered(id)] :
     id \in {id \in specialised_calls(cs, modules[n], binds) : spec_owner(cs, id) \notin {None, modules[n].id}}}
  \cup Spellings(modules, Resolved(modules, n, modules[n].text.calls))

(* Named imports of globals get a slot each, so that the owner is          *)
(* initialised first.                                                      *)
imported_globals(modules, n) ==
  Spellings(modules,
    {r \in Resolved(modules, n, {u \in Uses(modules[n].text) : modules[n].text.imports[u[1]].kind = "named"}) :
       r.to.slot \in Globals(modules[r.to.mod])})
PathOf(modules, id) == modules[CHOOSE n \in DOMAIN modules : modules[n].id = id].path
import_slots(modules, cs, n, binds) ==
  SetToSeq({<<PathOf(modules, c.mod), c.symbol>> :
              c \in cross_module_calls(modules, cs, n, binds) \cup imported_globals(modules, n)})

(* Exported functions and globals, then the specialised functions.         *)
export_slot(module, x) ==
  <<Spelled(module.text.exports[x].name), IF x \in Globals(module) THEN "global" ELSE "function", x>>
export_slots(cs, module) ==
  SetToSortSeq({export_slot(module, x) : x \in Functions(module) \cup Globals(module)},
               LAMBDA a, b : a[3] < b[3])
  \o SetToSeq({<<Numbered(b.id), "function", b.id>> : b \in {b \in cs.bodies : b.mod = module.id}})

(* rewrite_global_indices, canonical_global_ref: a read of an imported     *)
(* global names the owner and the owner's index.                           *)
rewrite_global_indices(modules, n) ==
  {<<modules[r.to.mod].id, r.to.slot>> : r \in Resolved(modules, n, modules[n].text.reads)}
global_count(module) ==
  IF Globals(module) = {} THEN 0 ELSE 1 + CHOOSE x \in Globals(module) : \A y \in Globals(module) : y <= x

(* A body is emitted with what its type id stands for now.                 *)
emitted_bodies(cs, n, mod) ==
  {[id |-> b.id, name |-> b.name, of |-> b.of, as |-> lowered_type(cs.tables[n], b.ty), since |-> b.since,
    calls |-> b.calls] : b \in {b \in cs.bodies : b.mod = mod}}

emission_fails(modules, cs, n, binds) ==
  \/ modules[n].text.fault = "emit"
  \/ \E id \in specialised_calls(cs, modules[n], binds) : spec_owner(cs, id) = None
  \/ \E u \in modules[n].text.calls \cup modules[n].text.reads : resolve_import_target(modules, n, u).mod = None
compile_single_module(modules, cs, n, m, binds) ==
  [path |-> m.path, rev |-> m.rev, broken |-> FALSE,
   imports |-> import_slots(modules, cs, n, binds),
   exports |-> export_slots(cs, m),
   globals |-> global_count(m),
   uses |-> rewrite_global_indices(modules, n),
   of |-> [text |-> m.text, result |-> m.result],
   binds |-> binds, bodies |-> emitted_bodies(cs, n, m.id), since |-> cs.since]

(* compile_changed_modules.  The order is that of the worklist's hash set; *)
(* an error leaves the compiler's state as the lowering left it.           *)
emitted_node(modules, low, n) == compile_single_module(modules, low.cs, n, modules[n], low.binds[n])
emit_modules(modules, low) ==
  [ok |-> \A n \in low.affected : ~emission_fails(modules, low.cs, n, low.binds[n]),
   cs |-> [low.cs EXCEPT !.tables = <<>>],
   nodes |-> [id \in {modules[n].id : n \in low.affected} |->
                emitted_node(modules, low, module_by_id(modules, id))]]
compile_changed_modules(modules, cs, changed, order) ==
  IF changed = {} THEN [ok |-> TRUE, cs |-> cs, nodes |-> <<>>]
  ELSE emit_modules(modules,
         lower_modules(modules,
           [cs |-> [begin_compilation(cs, {m.id : m \in ToSet(modules)}, changed)
                      EXCEPT !.tables = [n \in DOMAIN modules |-> type_table(modules[n].text)], !.since = cs.next],
            binds |-> [n \in DOMAIN modules |-> {}], affected |-> ToSet(order), work |-> order]))
=============================================================================
