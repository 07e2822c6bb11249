---------------------------- MODULE SurfaceCodec ----------------------------
(***************************************************************************)
(* Values at the boundary between a program and its host: the schema the   *)
(* workspace derives from the types of a provider operation or of a        *)
(* function of an adapter proxy (workspace/compilation.rs), the bytecode   *)
(* types and layouts the same declarations are lowered to                  *)
(* (bytecode_emission/types*.rs), the codec between a thread's heap and    *)
(* the host's values that both of them drive (runtime task.rs, contract    *)
(* surface.rs), and what the virtual machine checks of the value that      *)
(* comes back (vm runtime.rs, runtime/heap.rs).                            *)
(*                                                                         *)
(* A value of the heap is the tree of what it refers to: the codec reads   *)
(* what it decodes and allocates what it encodes, and shares nothing.      *)
(***************************************************************************)
EXTENDS Integers, Sequences, FiniteSets, SequencesExt

CONSTANTS
    Alphabet,   \* the names of variants, in alphabetical order
    Decls,      \* symbol -> its declaration (struct, choice, alias, enum)
    Modules,    \* module -> [proxy, uses]: whether it is an adapter proxy, and its
                \* functions' types in the order in which emission lowers them
    Operations, \* [module, takes, gives]: the boundary functions it declares
    Internals,  \* [module, gives, answer]: results that the runtime makes itself
    Quotas,     \* the objects the heap may still allocate when an answer comes
    Casts       \* [module, type]: the instance tests of the program

(* Source types, bytecode types, schemas, host values, values of the heap.  *)
Ty(k, name, of) == [k |-> k, name |-> name, of |-> of]
Bt(k, name, idx, of) == [k |-> k, name |-> name, idx |-> idx, of |-> of]
Sc(k, names, of) == [k |-> k, names |-> names, of |-> of]
Sv(k, n, names, of) == [k |-> k, n |-> n, names |-> names, of |-> of]
Vm(k, n, module, type, of) == [k |-> k, n |-> n, module |-> module, type |-> type, of |-> of]

Prim(p) == Ty("prim", p, <<>>)
Basic(k) == Bt(k, "", 0, <<>>)
NoType == Basic("none")
NoSchema == Sc("none", <<>>, <<>>)
Unsupported == Sc("error", <<>>, <<>>)
NoHostValue == Sv("error", 0, <<>>, <<>>)
Scalar(k, n) == Vm(k, n, "", NoType, <<>>)
VmNull == Scalar("null", 0)

\* The primitive types that the surface contract carries.
SurfaceScalars == {"null", "bool", "u16", "i32", "i64", "u32", "u64", "f32", "f64"}
Scalars == SurfaceScalars \union {"u8"}

\* normalize_f32, normalize_f64: one NaN and one zero (2 is another form of 0).
normalize(k, n) == IF k \in {"f32", "f64"} /\ n = 2 THEN 0 ELSE n

At(names, name) == SelectInSeq(names, LAMBDA x : x = name)
Declared(s, kind) == s \in DOMAIN Decls /\ Decls[s].kind = kind

-----------------------------------------------------------------------------
(* Lowering: the types of a module and the tables of its layouts.           *)

RECURSIVE resolve_type_with_substitutions(_, _)
resolve_type_with_substitutions(ty, sub) ==
    CASE ty.k = "named" /\ Declared(ty.name, "alias") ->
            resolve_type_with_substitutions(Decls[ty.name].type, sub)
      [] ty.k = "param" /\ ty.name \in DOMAIN sub -> resolve_type_with_substitutions(sub[ty.name], sub)
      [] OTHER -> ty

\* The fields of a struct, each name once: those declared, with those of the
\* structs it expands; then the members of its own scope, which give a field its
\* type and add the weak ones (in a hash map's order: at most one is assumed).
RECURSIVE get_struct_fields(_)
get_struct_fields(s) ==
    LET Named(fields, name) == SelectSeq(fields, LAMBDA f : f.name = name)
        Add(fields, new) == fields \o SelectSeq(new, LAMBDA f : Named(fields, f.name) = <<>>)
        Pairs(forms) == LET own == SelectSeq(Decls[s].fields, LAMBDA f : f.form \in forms)
                        IN [i \in DOMAIN own |-> [name |-> own[i].name, type |-> own[i].type]]
        Walked(f) == CASE f.form = "field" -> <<[name |-> f.name, type |-> f.type]>>
                       [] f.form = "expansion" -> get_struct_fields(f.type.name)
                       [] OTHER -> <<>>
        walked == FoldLeft(LAMBDA fields, f : Add(fields, Walked(f)), <<>>, Decls[s].fields)
        Typed(f) == LET own == Named(Pairs({"field", "weak"}), f.name)
                    IN IF own = <<>> THEN f ELSE own[1]
    IN Add([i \in DOMAIN walked |-> Typed(walked[i])], Pairs({"weak"}))

\* The variants of a choice as they are declared; several payload types are
\* one tuple, which the checker has interned.
get_choice_variants(s) ==
    LET payload(types) == CASE types = <<>> -> Ty("none", "", <<>>)
                            [] Len(types) = 1 -> types[1]
                            [] OTHER -> Ty("tuple", "", types)
    IN [v \in DOMAIN Decls[s].variants |->
            [name |-> Decls[s].variants[v].name, type |-> payload(Decls[s].variants[v].types)]]

RECURSIVE lower_type(_, _, _)
LowerEach(c, types, sub) ==
    FoldLeft(LAMBDA done, ty : LET r == lower_type(done.c, ty, sub)
                               IN [c |-> r.c, ts |-> Append(done.ts, r.t)],
             [c |-> c, ts |-> <<>>], types)

\* The members of a struct or choice with their types lowered, and the context.
LowerMembers(c, members, sub) ==
    LET r == LowerEach(c, [i \in DOMAIN members |-> members[i].type], sub)
    IN [c |-> r.c, ms |-> [i \in DOMAIN members |-> [name |-> members[i].name, type |-> r.ts[i]]]]

Layout(c, k, idx) == [c |-> c, t |-> Bt(k, "", idx, <<>>)]

\* The index is the next one when the struct is met, but its layout is pushed
\* after those of the structs that its fields are the first to mention.
get_or_create_struct_layout(c, s, sub) ==
    IF s \in DOMAIN c.struct_map THEN Layout(c, "struct", c.struct_map[s])
    ELSE LET next_idx == Len(c.structs) + 1
             r == LowerMembers([c EXCEPT !.struct_map = (s :> next_idx) @@ @], get_struct_fields(s), sub)
         IN Layout([r.c EXCEPT !.structs = Append(@, [of |-> s, fields |-> r.ms])], "struct", next_idx)

\* The same for a choice without arguments.
get_or_create_choice_layout(c, s, sub) ==
    IF s \in DOMAIN c.choice_map THEN Layout(c, "choice", c.choice_map[s])
    ELSE LET next_idx == Len(c.choices) + 1
             r == LowerMembers([c EXCEPT !.choice_map = (s :> next_idx) @@ @], get_choice_variants(s), sub)
         IN Layout([r.c EXCEPT !.choices = Append(@, [name |-> <<s>>, variants |-> r.ms])], "choice", next_idx)

\* The name of a bytecode type: layouts are named, not numbered.
RECURSIVE canonical_bytecode_type_name(_, _)
canonical_bytecode_type_name(c, t) ==
    LET of == [i \in DOMAIN t.of |-> canonical_bytecode_type_name(c, t.of[i])]
    IN CASE t.k = "struct" -> <<"struct", c.structs[t.idx].of>>
         [] t.k = "choice" -> <<"choice">> \o c.choices[t.idx].name
         [] OTHER -> <<t.k, t.name>> \o FlattenSeq(of)

\* A choice that another module declares is found by its name, and its place in
\* the table is taken before its payloads are lowered.
get_or_create_imported_choice_layout(c, s, name, sub) ==
    LET found == SelectInSeq(c.choices, LAMBDA layout : layout.name = name)
        next_idx == Len(c.choices) + 1
        r == LowerMembers([c EXCEPT !.choices = Append(@, [name |-> name, variants |-> <<>>])],
                          get_choice_variants(s), sub)
    IN IF found # 0 THEN Layout(c, "choice", found)
       ELSE Layout([r.c EXCEPT !.choices[next_idx].variants = r.ms], "choice", next_idx)

\* The name of an instance, and the context with its arguments lowered.
intern_generic_choice_layout(c, s, arguments, sub) ==
    LET args == LowerEach(c, arguments, sub)
    IN [c |-> args.c, name |-> <<s>> \o FlattenSeq([i \in DOMAIN args.ts |->
                                                      canonical_bytecode_type_name(args.c, args.ts[i])])]

choice_generic_parameters(s, arguments) ==
    [p \in {Decls[s].params[i] : i \in DOMAIN arguments} |-> arguments[At(Decls[s].params, p)]]

\* A choice with arguments is found by the name of the instance; its payloads
\* are lowered with the arguments in them.
get_or_create_generic_choice_layout(c, s, arguments, sub) ==
    LET interned == intern_generic_choice_layout(c, s, arguments, sub)
    IN get_or_create_imported_choice_layout(interned.c, s, interned.name, choice_generic_parameters(s, arguments) @@ sub)

\* A named type: the structs of an adapter proxy are handles, an enum is its base.
lower_named(c, s, sub) ==
    CASE Declared(s, "struct") /\ c.proxy -> [c |-> c, t |-> Bt("handle", s, 0, <<>>)]
      [] Declared(s, "struct") /\ ~c.proxy -> get_or_create_struct_layout(c, s, sub)
      [] Declared(s, "choice") /\ Decls[s].module = c.module -> get_or_create_choice_layout(c, s, sub)
      [] Declared(s, "choice") /\ Decls[s].module # c.module ->
            get_or_create_imported_choice_layout(c, s, <<s>>, sub)
      [] Declared(s, "enum") -> lower_type(c, Decls[s].type, sub)
      [] OTHER -> [c |-> c, t |-> Basic("null")]

\* Only T | null has a bytecode type of its own: any other union is any. A type
\* is lowered once, and looked up as it stands: with its parameters unreplaced.
lower_type(c, type, sub) ==
    LET ty == resolve_type_with_substitutions(type, sub)
        others == SelectSeq(ty.of, LAMBDA u : resolve_type_with_substitutions(u, sub) # Prim("null"))
        nullable == ty.k = "union" /\ Len(others) = 1 /\ Len(ty.of) = 2
        parts == LowerEach(c, CASE ty.k \in {"array", "tuple"} -> ty.of [] nullable -> others [] OTHER -> <<>>, sub)
        layout == IF ty.k = "instance" /\ Declared(ty.name, "choice")
                  THEN get_or_create_generic_choice_layout(c, ty.name, ty.of, sub)
                  ELSE lower_named(c, ty.name, sub)
        lowered == CASE ty.k = "prim" -> [c |-> c, t |-> Basic(ty.name)]
                     [] ty.k \in {"array", "tuple"} -> [c |-> parts.c, t |-> Bt(ty.k, "", 0, parts.ts)]
                     [] nullable -> [c |-> parts.c, t |-> Bt("nullable", "", 0, parts.ts)]
                     [] ty.k = "union" /\ ~nullable -> [c |-> c, t |-> Basic("any")]
                     [] ty.k \in {"named", "instance"} -> layout
                     [] ty.k = "variant" -> [layout EXCEPT !.t.k = "variant", !.t.name = ty.of[1].name]
                     [] ty.k = "none" -> [c |-> c, t |-> NoType]
                     [] OTHER -> [c |-> c, t |-> Basic("null")]
    IN IF ty \in DOMAIN c.type_map /\ (ty = Prim("null") \/ c.type_map[ty] # Basic("null"))
       THEN [c |-> c, t |-> c.type_map[ty]]
       ELSE [lowered EXCEPT !.c.type_map = (ty :> lowered.t) @@ @]

VARIABLES
    image,      \* module -> its types' layouts, as far as they have been emitted
    emitted     \* module -> how many of its types have been lowered

EmptyImage(m) == [module |-> m, proxy |-> Modules[m].proxy, structs |-> <<>>, choices |-> <<>>,
                  struct_map |-> <<>>, choice_map |-> <<>>, type_map |-> <<>>]

\* The bytecode type that a type, which it uses, has in a module.
TypeIn(m, ty) == image[m].type_map[resolve_type_with_substitutions(ty, <<>>)]

-----------------------------------------------------------------------------
(* Schemas: what the host is told of a type.                                *)

Whole(k, names, of) == IF \E i \in DOMAIN of : of[i].k = "error" THEN Unsupported ELSE Sc(k, names, of)

RECURSIVE surface_schema_for(_, _)

\* The variants in alphabetical order; several payload types are one tuple.
choice_surface_schema_for(m, s) ==
    LET variants == Decls[s].variants
        VariantOf(name) == CHOOSE i \in DOMAIN variants : variants[i].name = name
        names == SelectSeq(Alphabet, LAMBDA name : \E i \in DOMAIN variants : variants[i].name = name)
        payload(types) == LET of == [i \in DOMAIN types |-> surface_schema_for(m, types[i])]
                          IN CASE types = <<>> -> NoSchema
                               [] Len(types) = 1 -> of[1]
                               [] OTHER -> Whole("tuple", <<>>, of)
    IN Whole("choice", names, [i \in DOMAIN names |-> payload(variants[VariantOf(names[i])].types)])

\* The fields declared, weak ones included; what the struct expands is left out.
struct_surface_schema(m, s) ==
    LET fields == SelectSeq(Decls[s].fields, LAMBDA f : f.form \in {"field", "weak"})
    IN Whole("struct", [i \in DOMAIN fields |-> fields[i].name],
             [i \in DOMAIN fields |-> surface_schema_for(m, fields[i].type)])

\* Future<T>, like every generic type with one argument, has the schema of T.
surface_schema_for(m, ty) ==
    LET of == [i \in DOMAIN ty.of |-> surface_schema_for(m, ty.of[i])]
        others == SelectSeq(ty.of, LAMBDA u : u # Prim("null"))
    IN CASE ty.k = "prim" /\ ty.name \in SurfaceScalars -> Sc(ty.name, <<>>, <<>>)
         [] ty.k = "named" /\ Declared(ty.name, "choice") -> choice_surface_schema_for(m, ty.name)
         [] ty.k = "named" /\ Declared(ty.name, "alias") -> surface_schema_for(m, Decls[ty.name].type)
         [] ty.k = "named" /\ Declared(ty.name, "struct") ->
                IF Modules[m].proxy THEN Sc("handle", <<ty.name>>, <<>>) ELSE struct_surface_schema(m, ty.name)
         [] ty.k = "array" -> IF ty.of[1] = Prim("u8") THEN Sc("bytes", <<>>, <<>>) ELSE Whole("list", <<>>, of)
         [] ty.k = "tuple" -> Whole("tuple", <<>>, of)
         [] ty.k = "instance" /\ Len(ty.of) = 1 -> of[1]
         [] ty.k = "union" /\ Len(others) = 1 /\ Len(ty.of) = 2 ->
                Whole("optional", <<>>, <<surface_schema_for(m, others[1])>>)
         [] OTHER -> Unsupported

-----------------------------------------------------------------------------
(* From the heap to the host.                                               *)

RECURSIVE decode_surface_from_thread_heap(_, _, _, _)

\* Objects: an element of the value, of the schema and of the type at a time.
\* The variant of a choice is looked up in the schema by its index.
decode_object(schema, v, t, c) ==
    LET Parts(k, names, schemas, ts) ==
            LET of == [i \in DOMAIN v.of |-> decode_surface_from_thread_heap(schemas[i], v.of[i], ts[i], c)]
            IN IF \E i \in DOMAIN of : of[i].k = "error" THEN NoHostValue ELSE Sv(k, 0, names, of)
        Types(members) == [i \in DOMAIN members |-> members[i].type]
        fields == Types(c.structs[t.idx].fields)
        variants == c.choices[t.idx].variants
        payload == variants[v.n].type
    IN CASE schema.k = "list" -> Parts("list", <<>>, [i \in DOMAIN v.of |-> schema.of[1]], [i \in DOMAIN v.of |-> t.of[1]])
         [] schema.k = "tuple" /\ Len(schema.of) = Len(v.of) /\ Len(v.of) = Len(t.of) ->
                Parts("tuple", <<>>, schema.of, t.of)
         [] schema.k = "struct" /\ t.idx \in DOMAIN c.structs /\ Len(schema.of) = Len(v.of) /\ Len(v.of) = Len(fields) ->
                Parts("struct", schema.names, schema.of, fields)
         [] schema.k = "choice" /\ v.n \in DOMAIN schema.of /\ t.idx \in DOMAIN c.choices /\ v.n \in DOMAIN variants ->
                CASE schema.of[v.n] = NoSchema /\ payload = NoType -> Sv("choice", 0, <<schema.names[v.n]>>, <<>>)
                  [] schema.of[v.n] # NoSchema /\ payload # NoType ->
                        Parts("choice", <<schema.names[v.n]>>, <<schema.of[v.n]>>, <<payload>>)
                  [] OTHER -> NoHostValue
         [] schema.k = "handle" /\ v.type = t -> Sv("handle", v.n, <<t.name>>, <<>>)
         [] OTHER -> NoHostValue

\* Mutant: numbers are handed to the host as they are.
decode_surface_from_thread_heap_Raw(schema, v, t, c) ==
    CASE schema.k \in SurfaceScalars /\ v.k = schema.k /\ t.k = schema.k -> Sv(v.k, v.n, <<>>, <<>>)
      [] schema.k = "optional" /\ t.k = "nullable" ->
            IF v.k = "null" THEN Sv("null", 0, <<>>, <<>>)
            ELSE decode_surface_from_thread_heap(schema.of[1], v, t.of[1], c)
      [] schema.k = "bytes" /\ v.k = "array" ->
            Sv("bytes", 0, <<>>, [i \in DOMAIN v.of |-> Sv("u8", v.of[i].n, <<>>, <<>>)])
      [] schema.k = "list" /\ v.k = "array" /\ t.k = "array" -> decode_object(schema, v, t, c)
      [] schema.k \in {"tuple", "struct", "choice", "handle"} /\ v.k = schema.k /\ t.k = schema.k ->
            decode_object(schema, v, t, c)
      [] OTHER -> NoHostValue

decode_surface_from_thread_heap(schema, v, t, c) ==
    CASE schema.k \in SurfaceScalars /\ v.k = schema.k /\ t.k = schema.k ->
            Sv(v.k, normalize(v.k, v.n), <<>>, <<>>)
      [] schema.k = "bytes" /\ v.k = "array" /\ t.k = "array" /\ t.of = <<Basic("u8")>> ->
            IF \A i \in DOMAIN v.of : v.of[i].k = "u8"
            THEN Sv("bytes", 0, <<>>, [i \in DOMAIN v.of |-> Sv("u8", v.of[i].n, <<>>, <<>>)])
            ELSE NoHostValue
      [] schema.k = "optional" /\ t.k = "nullable" ->
            IF v.k = "null" THEN Sv("null", 0, <<>>, <<>>)
            ELSE decode_surface_from_thread_heap(schema.of[1], v, t.of[1], c)
      [] schema.k = "list" /\ v.k = "array" /\ t.k = "array" -> decode_object(schema, v, t, c)
      [] schema.k \in {"tuple", "struct", "choice", "handle"} /\ v.k = schema.k /\ t.k = schema.k ->
            decode_object(schema, v, t, c)
      [] OTHER -> NoHostValue

-----------------------------------------------------------------------------
(* From the host to the heap. A result is [ok, v, left]: whether it encodes, *)
(* the value, and the objects that the heap may still allocate.              *)

RECURSIVE validate_value(_, _)
validate_value(schema, value) ==
    CASE schema.k \in SurfaceScalars \union {"bytes", "handle"} -> value.k = schema.k
      [] schema.k = "optional" -> value.k = "null" \/ validate_value(schema.of[1], value)
      [] schema.k = "list" -> value.k = "list" /\ \A i \in DOMAIN value.of : validate_value(schema.of[1], value.of[i])
      [] schema.k = "tuple" -> /\ value.k = "tuple" /\ Len(schema.of) = Len(value.of)
                               /\ \A i \in DOMAIN value.of : validate_value(schema.of[i], value.of[i])
      [] schema.k = "struct" -> /\ value.k = "struct" /\ Len(schema.of) = Len(value.of)
                                /\ \A i \in DOMAIN schema.of :
                                      LET j == At(value.names, schema.names[i])
                                      IN j # 0 /\ validate_value(schema.of[i], value.of[j])
      [] schema.k = "choice" ->
            /\ value.k = "choice"
            /\ LET j == At(schema.names, value.names[1])
               IN /\ j # 0
                  /\ (schema.of[j] = NoSchema) <=> (value.of = <<>>)
                  /\ value.of # <<>> => validate_value(schema.of[j], value.of[1])

Refused(left) == [ok |-> FALSE, v |-> VmNull, left |-> left]
Encoded(v, left) == [ok |-> TRUE, v |-> v, left |-> left]

\* PrivateHeap::alloc: one object more, unless the quota is used up.
alloc(v, left) == IF left = 0 THEN Refused(left) ELSE Encoded(v, left - 1)

\* The parts one after another, up to the first that fails; then the object.
EncodeParts(count, Encode(_, _), left, Object(_)) ==
    LET Step(done, i) == LET r == Encode(i, done.left)
                         IN IF ~done.ok THEN done
                            ELSE [ok |-> r.ok, vs |-> Append(done.vs, r.v), left |-> r.left]
        parts == FoldLeft(Step, [ok |-> TRUE, vs |-> <<>>, left |-> left], [i \in 1..count |-> i])
    IN IF parts.ok THEN alloc(Object(parts.vs), parts.left) ELSE Refused(parts.left)

RECURSIVE encode_surface_into_thread_heap(_, _, _, _, _, _)

\* Struct fields are found by name; the place of a variant is its place in the schema.
encode_object(schema, value, t, m, binding, left) ==
    LET c == image[m]
        Part(s, u, ty, l) == encode_surface_into_thread_heap(s, u, ty, m, binding, l)
        fields == c.structs[t.idx].fields
        variants == c.choices[t.idx].variants
        j == At(schema.names, value.names[1])
        payload == variants[j].type
    IN CASE schema.k = "tuple" /\ Len(value.of) = Len(t.of) ->
                EncodeParts(Len(t.of), LAMBDA i, l : Part(schema.of[i], value.of[i], t.of[i], l), left,
                            LAMBDA vs : Vm("tuple", 0, "", NoType, vs))
         [] schema.k = "struct" /\ t.idx \in DOMAIN c.structs /\ Len(schema.of) = Len(fields) ->
                EncodeParts(Len(fields), LAMBDA i, l : Part(schema.of[i], value.of[At(value.names, schema.names[i])],
                                                            fields[i].type, l), left,
                            LAMBDA vs : Vm("struct", 0, m, t, vs))
         [] schema.k = "choice" /\ t.idx \in DOMAIN c.choices /\ j \in DOMAIN variants ->
                CASE schema.of[j] = NoSchema /\ payload = NoType /\ value.of = <<>> ->
                        alloc(Vm("choice", j, m, t, <<VmNull>>), left)
                  [] schema.of[j] # NoSchema /\ payload # NoType /\ value.of # <<>> ->
                        EncodeParts(1, LAMBDA i, l : Part(schema.of[j], value.of[1], payload, l), left,
                                    LAMBDA vs : Vm("choice", j, m, t, vs))
                  [] OTHER -> Refused(left)
         [] schema.k = "handle" /\ value.names = <<t.name>> /\ binding # "" ->
                alloc(Vm("handle", value.n, binding, t, <<>>), left)
         [] OTHER -> Refused(left)

encode_surface_into_thread_heap(schema, value, t, m, binding, left) ==
    LET Element(i, l) == encode_surface_into_thread_heap(schema.of[1], value.of[i], t.of[1], m, binding, l)
    IN IF ~validate_value(schema, value) THEN Refused(left)
       ELSE CASE schema.k \in SurfaceScalars /\ t.k = schema.k ->
                    Encoded(Scalar(t.k, normalize(t.k, value.n)), left)
              [] schema.k = "bytes" /\ t.k = "array" /\ t.of = <<Basic("u8")>> ->
                    alloc(Vm("array", 0, m, t.of[1], [i \in DOMAIN value.of |-> Scalar("u8", value.of[i].n)]), left)
              [] schema.k = "optional" /\ t.k = "nullable" ->
                    IF value.k = "null" THEN Encoded(VmNull, left)
                    ELSE encode_surface_into_thread_heap(schema.of[1], value, t.of[1], m, binding, left)
              [] schema.k = "list" /\ t.k = "array" ->
                    EncodeParts(Len(value.of), Element, left, LAMBDA vs : Vm("array", 0, m, t.of[1], vs))
              [] schema.k \in {"tuple", "struct", "choice", "handle"} /\ t.k = schema.k ->
                    encode_object(schema, value, t, m, binding, left)
              [] OTHER -> Refused(left)

\* What the runtime makes of a completed future: a result of its own (a scalar
\* or bytes), the host's answer under its contract, or the results of await all.
Fv(k, n, of) == [k |-> k, n |-> n, of |-> of, schema |-> NoSchema, value |-> NoHostValue, binding |-> ""]
Surface(schema, value, binding) == [k |-> "surface", n |-> 0, of |-> <<>>, schema |-> schema, value |-> value, binding |-> binding]

RECURSIVE encode_future_value_into_thread_heap(_, _, _, _)

encode_aggregate_into_thread_heap(of, t, m, left) ==
    LET Element(i, l) == encode_future_value_into_thread_heap(of[i], t.of[1], m, l)
        Part(i, l) == encode_future_value_into_thread_heap(of[i], t.of[i], m, l)
    IN CASE t.k = "array" -> EncodeParts(Len(of), Element, left, LAMBDA vs : Vm("array", 0, m, t.of[1], vs))
         [] t.k = "tuple" /\ Len(t.of) = Len(of) ->
                EncodeParts(Len(of), Part, left, LAMBDA vs : Vm("tuple", 0, "", NoType, vs))
         [] OTHER -> Refused(left)

\* The forms of FutureValue that the runtime makes: scalars, bytes, aggregates.
encode_non_null_future_value(value, t, m, left) ==
    CASE value.k \in Scalars /\ t.k \in {value.k, "any"} -> Encoded(Scalar(value.k, normalize(value.k, value.n)), left)
      [] value.k = "array" /\ t.k = "array" -> encode_aggregate_into_thread_heap(value.of, t, m, left)
      [] value.k = "aggregate" -> encode_aggregate_into_thread_heap(value.of, t, m, left)
      [] OTHER -> Refused(left)

encode_future_value_into_thread_heap(value, t, m, left) ==
    CASE value.k = "null" -> IF t.k \in {"null", "nullable", "any"} THEN Encoded(VmNull, left) ELSE Refused(left)
      [] value.k = "surface" ->
            encode_surface_into_thread_heap(value.schema, value.value, t, m, value.binding, left)
      [] OTHER -> encode_non_null_future_value(value, IF t.k = "nullable" THEN t.of[1] ELSE t, m, left)

-----------------------------------------------------------------------------
(* The virtual machine: resuming with a value, and testing an instance.     *)

RECURSIVE value_matches_type(_, _, _)
value_matches_type(v, t, m) ==
    LET All(ts) == Len(v.of) = Len(ts) /\ \A i \in DOMAIN ts : value_matches_type(v.of[i], ts[i], m)
        Types(members) == [i \in DOMAIN members |-> members[i].type]
        fields == Types(image[m].structs[t.idx].fields)
        variants == image[m].choices[t.idx].variants
    IN CASE t.k \in Scalars -> v.k = t.k
         [] t.k = "nullable" -> v.k = "null" \/ value_matches_type(v, t.of[1], m)
         [] t.k = "array" -> v.k = "array" /\ v.module = m /\ v.type = t.of[1] /\ All([i \in DOMAIN v.of |-> t.of[1]])
         [] t.k = "tuple" -> v.k = "tuple" /\ All(t.of)
         [] t.k = "struct" -> v.k = "struct" /\ v.module = m /\ v.type = t /\ t.idx \in DOMAIN image[m].structs /\ All(fields)
         [] t.k = "choice" ->
                /\ v.k = "choice" /\ v.module = m /\ v.type = t
                /\ t.idx \in DOMAIN image[m].choices /\ v.n \in DOMAIN variants
                /\ IF variants[v.n].type = NoType THEN v.of[1] = VmNull ELSE All(<<variants[v.n].type>>)
         [] t.k = "handle" -> v.k = "handle" /\ v.type = t
         [] OTHER -> FALSE

\* Mutant: layouts are compared by their numbers in their modules.
choice_layout_matches_Numbers(am, actual, em, expected) == actual = expected
choice_layout_matches(am, actual, em, expected) ==
    \/ am = em /\ actual = expected
    \/ /\ actual \in DOMAIN image[am].choices /\ expected \in DOMAIN image[em].choices
       /\ image[am].choices[actual].name = image[em].choices[expected].name

RECURSIVE type_idx_matches_inner(_, _, _, _)
type_idx_matches_inner(am, a, em, e) ==
    CASE am = em /\ a = e -> TRUE
      [] ~(am = em /\ a = e) /\ e.k = "nullable" -> type_idx_matches_inner(am, a, em, e.of[1])
      [] ~(am = em /\ a = e) /\ e.k \in {"array", "tuple"} ->
            /\ a.k = e.k /\ Len(a.of) = Len(e.of)
            /\ \A i \in DOMAIN e.of : type_idx_matches_inner(am, a.of[i], em, e.of[i])
      [] ~(am = em /\ a = e) /\ e.k = "choice" -> a.k = "choice" /\ choice_layout_matches(am, a.idx, em, e.idx)
      [] OTHER -> a = e

\* The test in module m; a struct is told by the number of its layout alone.
RECURSIVE check_value_type(_, _, _)
check_value_type(v, t, m) ==
    CASE t.k = "any" -> TRUE
      [] t.k \in Scalars -> v.k = t.k
      [] t.k = "nullable" -> v.k = "null" \/ check_value_type(v, t.of[1], m)
      [] t.k = "struct" -> v.k = "struct" /\ v.type.idx = t.idx
      [] t.k = "array" -> v.k = "array" /\ type_idx_matches_inner(v.module, v.type, m, t.of[1])
      [] t.k = "tuple" -> /\ v.k = "tuple" /\ Len(v.of) = Len(t.of)
                          /\ \A i \in DOMAIN t.of : check_value_type(v.of[i], t.of[i], m)
      [] t.k = "choice" -> v.k = "choice" /\ choice_layout_matches(v.module, v.type.idx, m, t.idx)
      [] t.k = "variant" -> /\ v.k = "choice" /\ choice_layout_matches(v.module, v.type.idx, m, t.idx)
                            /\ v.n \in DOMAIN image[v.module].choices[v.type.idx].variants
                            /\ image[v.module].choices[v.type.idx].variants[v.n].name = t.name
      [] OTHER -> FALSE

-----------------------------------------------------------------------------
(* A call over the boundary.                                                *)

VARIABLES
    phase,      \* emit, idle, called, refused, rejected, resumed or tested
    operation,  \* the operation, or the internal result, of the call
    argument,   \* the heap value that was passed
    told,       \* what the host was told of it
    answer,     \* what the future was completed with, and the quota left then
    result,     \* the heap value the thread resumed with
    test        \* the instance test that followed, and what it said

codecVars == <<image, emitted, phase, operation, argument, told, answer, result, test>>

NoAnswer == [value |-> Fv("null", 0, <<>>), left |-> 0]
NoTest == [cast |-> [module |-> "", type |-> Prim("null")], says |-> FALSE]

\* provider_interface_for: only operations with a schema are described to a host.
Provided == {op \in Operations : /\ surface_schema_for(op.module, op.takes).k # "error"
                                 /\ surface_schema_for(op.module, op.gives).k # "error"}

\* The values that a program has of a type, with arrays up to two elements.
RECURSIVE ValuesOf(_, _, _)
Rows(m, types, sub) ==
    FoldLeft(LAMBDA rows, ty : {Append(row, v) : row \in rows, v \in ValuesOf(m, ty, sub)}, {<<>>}, types)
ValuesOf(m, type, sub) ==
    LET ty == resolve_type_with_substitutions(type, sub)
        s == ty.name
        t == TypeIn(m, ty)
        fields == get_struct_fields(s)
        Payloads(member) == IF member.type.k = "none" THEN {VmNull}
                            ELSE ValuesOf(m, member.type, choice_generic_parameters(s, ty.of) @@ sub)
    IN CASE ty.k = "prim" -> {Scalar(s, n) : n \in CASE s = "null" -> {0} [] s = "f64" -> 0..2 [] OTHER -> 0..1}
         [] Declared(s, "enum") -> ValuesOf(m, Decls[s].type, sub)
         [] Declared(s, "struct") /\ Modules[m].proxy -> {Vm("handle", 1, m, t, <<>>)}
         [] Declared(s, "struct") /\ ~Modules[m].proxy ->
                {Vm("struct", 0, m, t, row) : row \in Rows(m, [i \in DOMAIN fields |-> fields[i].type], sub)}
         [] Declared(s, "choice") ->
                UNION {{Vm("choice", i, m, t, <<v>>) : v \in Payloads(get_choice_variants(s)[i])} :
                          i \in DOMAIN Decls[s].variants}
         [] ty.k = "tuple" -> {Vm("tuple", 0, "", NoType, row) : row \in Rows(m, ty.of, sub)}
         [] ty.k = "array" -> {Vm("array", 0, m, t.of[1], row) :
                                  row \in UNION {Rows(m, [i \in 1..n |-> ty.of[1]], sub) : n \in 0..2}}
         [] ty.k = "union" -> UNION {ValuesOf(m, ty.of[i], sub) : i \in DOMAIN ty.of}

\* What a host may answer: values of the schema, the fields of a struct in any
\* order or one of them twice; for every scalar also a value of another type.
RECURSIVE AnswersFor(_)
AnswerRows(schemas) ==
    FoldLeft(LAMBDA rows, schema : {Append(row, v) : row \in rows, v \in AnswersFor(schema)}, {<<>>}, schemas)
AnswersFor(schema) ==
    CASE schema.k \in SurfaceScalars ->
            {Sv(schema.k, IF schema.k = "f64" THEN 2 ELSE 1, <<>>, <<>>), Sv("u64", 1, <<>>, <<>>)}
      [] schema.k = "bytes" -> {Sv("bytes", 0, <<>>, of) : of \in {<<>>, <<Sv("u8", 1, <<>>, <<>>)>>}}
      [] schema.k = "optional" -> {Sv("null", 0, <<>>, <<>>)} \union AnswersFor(schema.of[1])
      [] schema.k = "list" -> {Sv("list", 0, <<>>, row) :
                                  row \in UNION {AnswerRows([i \in 1..n |-> schema.of[1]]) : n \in 0..2}}
      [] schema.k = "tuple" -> {Sv("tuple", 0, <<>>, row) : row \in AnswerRows(schema.of) \union {<<>>}}
      [] schema.k = "struct" ->
            UNION {{Sv("struct", 0, schema.names, row), Sv("struct", 0, Reverse(schema.names), Reverse(row)),
                    Sv("struct", 0, [i \in DOMAIN row |-> schema.names[1]], row)} : row \in AnswerRows(schema.of)}
      [] schema.k = "choice" ->
            {Sv("choice", 0, <<Alphabet[i]>>, <<>>) : i \in DOMAIN Alphabet} \union
            UNION {{Sv("choice", 0, <<schema.names[i]>>, <<v>>) : v \in AnswersFor(schema.of[i])} :
                      i \in {j \in DOMAIN schema.of : schema.of[j] # NoSchema}}
      [] schema.k = "handle" -> {Sv("handle", 1, <<s>>, <<>>) : s \in {d \in DOMAIN Decls : Decls[d].kind = "struct"}}

\* The handles in an answer belong to the proxy that was called.
RECURSIVE validate_adapter_handles(_, _)
validate_adapter_handles(value, proxy) ==
    CASE value.k \in {"list", "tuple", "choice"} -> \A i \in DOMAIN value.of : validate_adapter_handles(value.of[i], proxy)
      [] value.k = "handle" -> Decls[value.names[1]].module = proxy
      [] OTHER -> TRUE

CodecInit ==
    /\ image = [m \in DOMAIN Modules |-> EmptyImage(m)] /\ emitted = [m \in DOMAIN Modules |-> 0]
    /\ phase = "emit" /\ operation = [module |-> "", takes |-> Prim("null"), gives |-> Prim("null")]
    /\ argument = VmNull /\ told = NoHostValue /\ answer = NoAnswer /\ result = VmNull /\ test = NoTest

\* Emission of a module's functions lowers their types one after another.
Emit ==
    /\ phase = "emit"
    /\ \E m \in DOMAIN Modules :
        /\ emitted[m] < Len(Modules[m].uses)
        /\ emitted' = [emitted EXCEPT ![m] = @ + 1]
        /\ image' = [image EXCEPT ![m] = lower_type(@, Modules[m].uses[emitted'[m]], <<>>).c]
    /\ phase' = IF \A m \in DOMAIN Modules : emitted'[m] = Len(Modules[m].uses) THEN "idle" ELSE "emit"
    /\ UNCHANGED <<operation, argument, told, answer, result, test>>

\* create_future's activation: the argument is decoded, or the call is refused.
Call ==
    /\ phase = "idle"
    /\ \E op \in Provided : \E v \in ValuesOf(op.module, op.takes, <<>>) :
        LET host == decode_surface_from_thread_heap(surface_schema_for(op.module, op.takes), v,
                                                    TypeIn(op.module, op.takes), image[op.module])
        IN /\ operation' = op /\ argument' = v /\ told' = host
           /\ phase' = IF host.k = "error" THEN "refused" ELSE "called"
    /\ UNCHANGED <<image, emitted, answer, result, test>>

\* resume_pending and VirtualMachine::resume: the value is encoded into the heap
\* of the thread and checked against the type that the continuation expects.
resume_pending(op, value, left) ==
    LET t == TypeIn(op.module, op.gives)
        r == encode_future_value_into_thread_heap(value, t, op.module, left)
    IN /\ answer' = [value |-> value, left |-> left]
       /\ result' = r.v
       /\ phase' = CASE ~r.ok -> "refused"
                     [] r.ok /\ ~value_matches_type(r.v, t, op.module) -> "rejected"
                     [] OTHER -> "resumed"

\* The host completes the call; an adapter may only give handles of its own.
Complete ==
    /\ phase = "called"
    /\ \E value \in AnswersFor(surface_schema_for(operation.module, operation.gives)), left \in Quotas :
        LET proxy == Modules[operation.module].proxy
            surface == Surface(surface_schema_for(operation.module, operation.gives), value,
                               IF proxy THEN operation.module ELSE "")
        IN IF proxy /\ ~validate_adapter_handles(value, operation.module)
           THEN phase' = "refused" /\ answer' = [value |-> surface, left |-> left] /\ result' = VmNull
           ELSE resume_pending(operation, surface, left)
    /\ UNCHANGED <<image, emitted, operation, argument, told, test>>

\* The runtime completes a future of its own: a sleep, a message, await all.
CompleteInternal ==
    /\ phase = "idle"
    /\ \E i \in Internals, left \in Quotas :
        /\ operation' = [module |-> i.module, takes |-> Prim("null"), gives |-> i.gives]
        /\ resume_pending(operation', i.answer, left)
    /\ UNCHANGED <<image, emitted, argument, told, test>>

\* The value is passed on, and a module tests what it is.
InstanceTest ==
    /\ phase = "resumed"
    /\ \E cast \in Casts :
        test' = [cast |-> cast, says |-> check_value_type(result, TypeIn(cast.module, cast.type), cast.module)]
    /\ phase' = "tested"
    /\ UNCHANGED <<image, emitted, operation, argument, told, answer, result>>

CodecNext == Emit \/ Call \/ Complete \/ CompleteInternal \/ InstanceTest
CodecSpec == CodecInit /\ [][CodecNext]_codecVars

-----------------------------------------------------------------------------
(* What a declaration means to the host, and the types that keep it.        *)

\* The types whose schema and layout agree: choices declared in alphabetical
\* order and without arguments, structs of plain fields whose layout is in the
\* place that the struct's type names.
RECURSIVE Orderly(_, _)
Orderly(m, ty) ==
    LET s == ty.name
        order == [i \in DOMAIN Decls[s].variants |-> At(Alphabet, Decls[s].variants[i].name)]
        All(types) == \A i \in DOMAIN types : Orderly(m, types[i])
    IN CASE ty.k \in {"array", "tuple", "union"} -> All(ty.of)
         [] ty.k = "instance" -> FALSE
         [] Declared(s, "alias") -> Orderly(m, Decls[s].type)
         [] Declared(s, "choice") ->
                /\ \A i, j \in DOMAIN order : i < j => order[i] < order[j]
                /\ image[m].choices[image[m].choice_map[s]].name = <<s>>
                /\ \A i \in DOMAIN order : All(Decls[s].variants[i].types)
         [] Declared(s, "struct") /\ ~Modules[m].proxy ->
                /\ image[m].structs[image[m].struct_map[s]].of = s
                /\ \A i \in DOMAIN Decls[s].fields : Decls[s].fields[i].form = "field" /\ Orderly(m, Decls[s].fields[i].type)
         [] OTHER -> TRUE

\* The host value that a heap value of a declared type stands for.
RECURSIVE Stands(_, _)
Stands(v, type) ==
    LET whole == resolve_type_with_substitutions(type, <<>>)
        some == SelectSeq(whole.of, LAMBDA u : u # Prim("null"))[1]
        ty == IF whole.k = "union" THEN resolve_type_with_substitutions(some, <<>>) ELSE whole
        s == ty.name
        fields == get_struct_fields(s)
        variant == get_choice_variants(s)[v.n]
        Each(types) == [i \in DOMAIN v.of |-> Stands(v.of[i], types[i])]
    IN CASE v.k \in Scalars -> Sv(v.k, normalize(v.k, v.n), <<>>, <<>>)
         [] v.k = "handle" -> Sv("handle", v.n, <<s>>, <<>>)
         [] v.k = "tuple" -> Sv("tuple", 0, <<>>, Each(ty.of))
         [] v.k = "array" -> Sv(IF ty.of[1] = Prim("u8") THEN "bytes" ELSE "list", 0, <<>>, Each([i \in DOMAIN v.of |-> ty.of[1]]))
         [] v.k = "struct" -> Sv("struct", 0, [i \in DOMAIN fields |-> fields[i].name],
                                 Each([i \in DOMAIN fields |-> fields[i].type]))
         [] v.k = "choice" -> Sv("choice", 0, <<variant.name>>,
                                 IF variant.type.k = "none" THEN <<>> ELSE <<Stands(v.of[1], variant.type)>>)

\* A heap value with its floats normalised, and an answer with its fields in order.
RECURSIVE Clean(_)
Clean(v) == [v EXCEPT !.n = normalize(v.k, @), !.of = [i \in DOMAIN @ |-> Clean(@[i])]]

RECURSIVE Ordered(_, _)
Ordered(schema, value) ==
    LET Each(schemas) == [value EXCEPT !.of = [i \in DOMAIN @ |-> Ordered(schemas[i], @[i])]]
        Field(i) == Ordered(schema.of[i], value.of[At(value.names, schema.names[i])])
    IN CASE schema.k = "optional" -> IF value.k = "null" THEN value ELSE Ordered(schema.of[1], value)
         [] schema.k = "list" -> Each([i \in DOMAIN value.of |-> schema.of[1]])
         [] schema.k = "tuple" -> Each(schema.of)
         [] schema.k = "choice" -> Each(<<schema.of[At(schema.names, value.names[1])]>>)
         [] schema.k = "struct" -> Sv("struct", 0, schema.names, [i \in DOMAIN schema.of |-> Field(i)])
         [] OTHER -> [value EXCEPT !.n = normalize(value.k, @)]

\* The objects that an answer becomes.
RECURSIVE Objects(_)
Objects(value) ==
    CASE value.k \in Scalars -> 0
      [] value.k = "bytes" -> 1
      [] OTHER -> 1 + FoldLeft(LAMBDA n, u : n + Objects(u), 0, value.of)

Enough == 100
Takes == [schema |-> surface_schema_for(operation.module, operation.takes), t |-> TypeIn(operation.module, operation.takes)]

(* What the host is told of an argument (decode_surface_from_thread_heap) is a *)
(* value of the schema it was given, and encoding it again gives the argument  *)
(* back. When schema and layout agree, nothing is refused and the host sees    *)
(* the variants and the fields that the program named.                         *)
ArgumentsArriveIntact ==
    phase \notin {"emit", "idle"} /\ operation \in Provided =>
        /\ told.k # "error" =>
              /\ validate_value(Takes.schema, told)
              /\ encode_surface_into_thread_heap(Takes.schema, told, Takes.t, operation.module, operation.module, Enough)
                    = Encoded(Clean(argument), Enough - Objects(told))
        /\ Orderly(operation.module, operation.takes) => told = Stands(argument, operation.takes)

RECURSIVE Dynamic(_)
Dynamic(t) == t.k = "any" \/ \E i \in DOMAIN t.of : Dynamic(t.of[i])

\* What is encoded into a thread's heap passes the check of resume, unless the
\* type of the future is a union (value_matches_type has no case for any). An
\* answer that its schema allows, with handles of the proxy only, is refused
\* for want of quota alone when schema and layout agree, and the program then
\* holds what the host named.
AnswersAreAccepted ==
    LET schema == answer.value.schema
        value == answer.value.value
        m == operation.module
    IN /\ phase = "rejected" => Dynamic(TypeIn(m, operation.gives))
       /\ (answer.value.k = "surface" /\ Orderly(m, operation.gives)) =>
            LET Allowed == /\ validate_value(schema, value)
                           /\ Modules[m].proxy => validate_adapter_handles(value, m)
            IN /\ phase \in {"resumed", "tested"} <=> Allowed /\ Objects(value) <= answer.left
               /\ phase \in {"resumed", "tested"} => Stands(result, operation.gives) = Ordered(schema, value)

\* A type with its aliases and enums replaced by what they stand for.
RECURSIVE Expanded(_)
Expanded(type) ==
    LET ty == resolve_type_with_substitutions(type, <<>>)
    IN IF Declared(ty.name, "enum") /\ ty.k = "named" THEN Expanded(Decls[ty.name].type)
       ELSE [ty EXCEPT !.of = [i \in DOMAIN @ |-> Expanded(@[i])]]

\* The types whose values carry enough to be told apart in every module.
RECURSIVE Comparable(_)
Comparable(ty) ==
    \/ ty.k \in {"prim", "variant"}
    \/ ty.k = "named" /\ Declared(ty.name, "choice")
    \/ ty.k \in {"array", "tuple"} /\ \A i \in DOMAIN ty.of : Comparable(ty.of[i])

\* A module that tests a value made for another one (check_value_type, with
\* layouts numbered by each module for itself) says that it is an instance
\* exactly when the declared types are the same; of a variant, when the value
\* is that variant of that choice.
InstanceTestsAgree ==
    LET given == Expanded(operation.gives)
        asked == Expanded(test.cast.type)
    IN phase = "tested" /\ Comparable(given) /\ Comparable(asked) =>
          (test.says <=> IF asked.k # "variant" THEN given = asked
                         ELSE given = Ty("named", asked.name, <<>>)
                              /\ Decls[asked.name].variants[result.n].name = asked.of[1].name)

(* A value that comes back over the boundary has the type that the program     *)
(* gave it: resume accepts exactly the answers that the schema and the quota   *)
(* allow, with what the host named in them (resume_pending), and               *)
(* every module's instance test recognises it (check_value_type).  The tests   *)
(* are those of primitives, choices, their variants, arrays and tuples: of     *)
(* structs, handles and nullables a value does not carry enough (Comparable).  *)
AnswersKeepTheirType == AnswersAreAccepted /\ InstanceTestsAgree
=============================================================================
