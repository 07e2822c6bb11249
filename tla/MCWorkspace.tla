----------------------------- MODULE MCWorkspace -----------------------------
(***************************************************************************)
(* A small workspace: an entry module, a library, a utility in a           *)
(* subdirectory, an adapter proxy, one builtin and one provider module;    *)
(* and the boundary of a provider module, a proxy and a user of both. A     *)
(* behaviour is one of the workspace or one of a call over the boundary.   *)
(***************************************************************************)
EXTENDS Workspace, SurfaceCodec

VARIABLE part

Main == <<"main">>
Lib == <<"lib">>
Util == <<"sub", "util">>
Proxy == <<"p.gfp">>
Iter == <<"std", "iterable">>
Match == <<"std", "constraints">>
Clock == <<"host", "clock">>

Plain == [imports |-> <<>>, exports |-> <<>>, expects |-> <<>>, iter |-> FALSE, match |-> FALSE,
          calls |-> {}, reads |-> {}, demands |-> {}, fault |-> "none", adapter |-> "none"]
Import(src, kind, names) == [src |-> src, kind |-> kind, names |-> names]
Item(name, kind, ty) == [name |-> name, kind |-> kind, ty |-> ty, of |-> <<>>, inner |-> {}]
Inferred(name, of) == [name |-> name, kind |-> "fn", ty |-> Unknown, of |-> of, inner |-> {}]
Generic(name, inner) == [name |-> name, kind |-> "generic", ty |-> "any", of |-> <<>>, inner |-> inner]

FromLib(names) == Import(<<".", "lib">>, "named", names)
\* Calls a function whose type comes from the utility, through the library.
MainCalls == [Plain EXCEPT !.imports = <<FromLib({"f"})>>, !.iter = TRUE,
                           !.expects = (<<1, "f">> :> "i32"), !.calls = {<<1, "f">>}]
\* Instantiates a generic function of the library, whose body instantiates one of the utility.
MainDemands == [Plain EXCEPT !.imports = <<FromLib({"g"}), Import(<<".", "sub", "util">>, "namespace", {"c"})>>,
                             !.demands = {<<<<1, "g">>, "i32">>, <<<<1, "g">>, "[bool]">>}, !.reads = {<<2, "c">>}]
MainProxy == [Plain EXCEPT !.imports = <<Import(<<".", "p.gfp">>, "named", {"e"}), FromLib({"g"})>>,
                           !.calls = {<<1, "e">>}, !.demands = {<<<<2, "g">>, "[i32]">>}]
MainClock == [Plain EXCEPT !.imports = <<Import(Clock, "named", {"now"})>>, !.calls = {<<1, "now">>}]
MainMatch == [Plain EXCEPT !.match = TRUE]
UtilUse == <<1, "h">>
LibInfers == [Plain EXCEPT !.imports = <<Import(<<".", "sub", "util">>, "named", {"h"}),
                                         Import(<<".", "sub", "util">>, "named", {"k"})>>,
                           !.exports = <<Inferred("f", UtilUse), Generic("g", {<<2, "k">>})>>,
                           !.calls = {UtilUse}, !.demands = {<<<<2, "k">>, "[i32]">>}]
LibFails == [LibInfers EXCEPT !.fault = "emit"]
UtilFirst == [Plain EXCEPT !.exports = <<Inferred("h", <<1, "x">>), Item("c", "const", "i32"), Generic("k", {})>>,
                           !.imports = <<Import(<<".", "leaf">>, "named", {"x"})>>, !.calls = {<<1, "x">>}]
UtilMoved == [Plain EXCEPT !.exports = <<Item("c", "const", "i32"), Item("h", "fn", "i32"), Generic("k", {})>>]
Leaf == <<"sub", "leaf">>
LeafInt == [Plain EXCEPT !.exports = <<Item("x", "fn", "i32")>>]
LeafBool == [Plain EXCEPT !.exports = <<Item("x", "fn", "bool")>>]
ProxyText(ty) == [Plain EXCEPT !.exports = <<Item("e", "external", ty)>>, !.adapter = "c_abi"]
ClockText(ty) == [Plain EXCEPT !.exports = <<Item("now", "async", ty)>>, !.adapter = "clock"]

MCBuiltins == (Iter :> [Plain EXCEPT !.exports = <<Item("next", "fn", "i32")>>]) @@ (Match :> Plain)
MCPaths == <<Clock, Lib, Main, Proxy, Match, Iter, Leaf, Util>>
MCModuleIds == (Main :> 1) @@ (Lib :> 2) @@ (Util :> 3) @@ (Proxy :> 4) @@ (Iter :> 5) @@ (Match :> 6)
               @@ (Clock :> 7) @@ (Leaf :> 8)
MCSourceIds == MCModuleIds
\* A hash collision of the leaf and a builtin.
MCColliding == [MCSourceIds EXCEPT ![Match] = 8]
MCTexts == (Main :> {MainCalls, MainDemands, MainProxy, MainClock, MainMatch}) @@ (Lib :> {LibInfers, LibFails})
           @@ (Util :> {UtilMoved}) @@ (Leaf :> {LeafBool}) @@ (Proxy :> {ProxyText("bool"), ProxyText("wide")})
MCBridges == {<<Util, UtilMoved>>}
\* An adapter that takes every type of the boundary, one that takes some, none.
Adapter(types) == [c_abi |-> types]
NoProviders == [providers |-> <<>>, adapters |-> Adapter({"i32", "bool"})]
MCCatalogs == {NoProviders, [providers |-> (Clock :> ClockText("i32")), adapters |-> Adapter({"i32"})],
               [providers |-> (Clock :> ClockText("bool")), adapters |-> <<>>]}
MCManifest == [entry |-> Main, exports |-> <<>>]
\* One that has the same roots, and no entry.
MCConfigs == {MCManifest, [entry |-> NoEntry, exports |-> <<Lib>>], [entry |-> NoEntry, exports |-> <<Main>>]}
MCOpened == (Main :> MainCalls) @@ (Lib :> LibInfers) @@ (Util :> UtilFirst) @@ (Leaf :> LeafInt) @@ (Proxy :> ProxyText("i32"))
MCOpenings == {[MCOpened EXCEPT ![Main] = text] : text \in {MainCalls, MainProxy, MainClock}}
MCPrimitives == <<"i32", "bool">>
MCRepresentable == {"i32", "bool"}

-----------------------------------------------------------------------------
(* The boundary: choices declared in and out of alphabetical order, structs  *)
(* met before and after the structs they contain, weak and expanded fields.  *)

I32 == Prim("i32")
Of(s) == Ty("named", s, <<>>)
ArrayOf(ty) == Ty("array", "", <<ty>>)
TupleTy(types) == Ty("tuple", "", types)
Optional(ty) == Ty("union", "", <<ty, Prim("null")>>)
VariantOf(s, name) == Ty("variant", s, <<Of(name)>>)
Variant(name, types) == [name |-> name, types |-> types]
ChoiceDecl(params, variants) == [kind |-> "choice", module |-> "lib", params |-> params, variants |-> variants]
StructDecl(m, fields) == [kind |-> "struct", module |-> m, fields |-> fields]
Field(name, ty) == [form |-> "field", name |-> name, type |-> ty]

MCAlphabet == <<"circle", "down", "none", "rect", "some", "up">>
MCDecls ==
    [Shape |-> ChoiceDecl(<<>>, <<Variant("circle", <<I32>>), Variant("none", <<>>),
                                  Variant("rect", <<I32, Prim("f64")>>)>>),
     Level |-> ChoiceDecl(<<>>, <<Variant("up", <<I32>>), Variant("down", <<I32>>)>>),
     Pick |-> ChoiceDecl(<<"T">>, <<Variant("some", <<Ty("param", "T", <<>>)>>), Variant("none", <<>>)>>),
     Point |-> StructDecl("lib", <<Field("x", I32), Field("y", Prim("f64"))>>),
     Line |-> StructDecl("lib", <<Field("from", Of("Point")), Field("shape", Of("Shape"))>>),
     Dot |-> StructDecl("lib", <<Field("at", I32)>>),
     Mark |-> StructDecl("lib", <<Field("dot", Of("Dot"))>>),
     Deep |-> StructDecl("lib", <<[form |-> "expansion", name |-> "", type |-> Of("Dot")], Field("z", I32)>>),
     Node |-> StructDecl("lib", <<[form |-> "weak", name |-> "next", type |-> I32], Field("id", I32)>>),
     Bytes |-> [kind |-> "alias", module |-> "lib", type |-> ArrayOf(Prim("u8"))],
     Color |-> [kind |-> "enum", module |-> "lib", type |-> I32],
     File |-> StructDecl("proxy", <<Field("fd", I32)>>)]
PickOfInt == Ty("instance", "Pick", <<I32>>)
Race == Ty("union", "", <<I32, Prim("bool")>>)
Tested == <<I32, Of("Shape"), Of("Level"), ArrayOf(Of("Level")), ArrayOf(Of("Shape")), TupleTy(<<Of("Shape"), I32>>),
            VariantOf("Shape", "circle"), VariantOf("Shape", "none")>>
MCModules ==
    [lib |-> [proxy |-> FALSE,
              uses |-> <<Of("Point"), Of("Line"), Of("Level"), Of("Mark"), Of("Dot"), Of("Deep"), Of("Node"),
                         Of("Color"), Optional(Of("Bytes")), PickOfInt, Ty("instance", "Future", <<I32>>), Race,
                         Prim("null"), TupleTy(<<I32, Prim("bool")>>), TupleTy(<<I32, Of("Bytes")>>)>> \o Tested],
     proxy |-> [proxy |-> TRUE, uses |-> <<ArrayOf(Of("File")), Optional(Of("File"))>>],
     user |-> [proxy |-> FALSE, uses |-> <<ArrayOf(Of("Level"))>> \o Tested]]

Operation(m, takes, gives) == [module |-> m, takes |-> takes, gives |-> gives]
MCOperations ==
    {Operation("lib", Of("Line"), Of("Shape")), Operation("lib", Of("Level"), Of("Level")),
     Operation("lib", Of("Mark"), Of("Point")), Operation("lib", Of("Deep"), ArrayOf(Of("Shape"))),
     Operation("lib", Of("Node"), Of("Line")), Operation("lib", Optional(Of("Bytes")), Optional(Of("Bytes"))),
     Operation("lib", PickOfInt, TupleTy(<<Of("Shape"), I32>>)),
     Operation("lib", Of("Color"), I32), Operation("lib", TupleTy(<<I32, Prim("bool")>>), I32),
     Operation("proxy", ArrayOf(Of("File")), Optional(Of("File")))}
Internal(gives, value) == [module |-> "lib", gives |-> gives, answer |-> value]
Up == Surface(surface_schema_for("lib", Of("Level")),
              Sv("choice", 0, <<"up">>, <<Sv("i32", 1, <<>>, <<>>)>>), "")
\* A sleep, a received message, a race, await all of a tuple and of an array.
MCInternals ==
    {Internal(Prim("null"), Fv("null", 0, <<>>)),
     Internal(Optional(Of("Bytes")), Fv("array", 0, <<Fv("u8", 1, <<>>)>>)),
     Internal(Race, Fv("i32", 1, <<>>)),
     Internal(TupleTy(<<I32, Of("Bytes")>>), Fv("aggregate", 0, <<Fv("i32", 1, <<>>), Fv("array", 0, <<>>)>>)),
     Internal(ArrayOf(Of("Level")), Fv("aggregate", 0, <<Up>>))}
MCCasts == {[module |-> m, type |-> Tested[i]] : m \in {"lib", "user"}, i \in DOMAIN Tested}

MCInit == part \in {"workspace", "boundary"} /\ Init /\ CodecInit /\ (part = "boundary" => catalog = NoProviders /\ Source(Main) = MainCalls)
MCNext ==
    /\ UNCHANGED part
    /\ \/ part = "workspace" /\ Next /\ UNCHANGED codecVars
       \/ part = "boundary" /\ CodecNext /\ UNCHANGED vars
MCSpec == MCInit /\ [][MCNext]_<<part, vars, codecVars>>
=============================================================================
