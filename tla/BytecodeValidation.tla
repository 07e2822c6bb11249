------------------------- MODULE BytecodeValidation -------------------------
(***************************************************************************)
(* validate_bytecode_module: the errors of one module.  Beyond the fields  *)
(* of PackageOptimizer a module has here                                   *)
(*   types     a sequence of <<kind, n>>: n is the layout of a struct or a *)
(*             choice, the number of elements of a tuple,                  *)
(*   structs, choices   the numbers of fields and of variants of a layout, *)
(*   globals   how many globals it owns,                                   *)
(*   exports   a sequence of <<kind, index>>.                              *)
(***************************************************************************)
EXTENDS Instructions, FiniteSetsExt

LOCAL InRange(i, s) == i \in 0 .. (Len(s) - 1)

check_reg(r, regs) == IF r >= regs THEN {"InvalidRegister"} ELSE {}
check_const(i, m)  == IF ~InRange(i, m.constants) THEN {"InvalidConstantIndex"} ELSE {}
check_type(t, m)   == IF ~InRange(t, m.types) THEN {"InvalidTypeIndex"} ELSE {}
check_func(i, m)   ==
  IF i >= Len(m.functions) + Len(m.imports) THEN {"InvalidFunctionIndex"} ELSE {}
check_jump(at, i, code) ==
  IF at + 1 + i.off \notin 0 .. (Len(code) - 1) THEN {"InvalidJumpOffset"} ELSE {}

check_args(i, regs) == UNION {check_reg(i.args[n], regs) : n \in DOMAIN i.args}

(* Only the last register of a window is looked at, and the first one of   *)
(* the call and tuple windows; a method call leaves its last argument out. *)
check_window(i, regs) ==
  IF i.op = "CallMethod"
  THEN IF i.count > 1 THEN check_reg(i.start + i.count - 2, regs) ELSE {}
  ELSE IF i.count = 0 THEN {}
  ELSE check_reg(i.start + i.count - 1, regs)
       \cup (IF i.op \in {"Call", "CallDynamic", "NewTuple"} THEN check_reg(i.start, regs) ELSE {})

(* A field index beyond every struct and every tuple of the module.        *)
max_field_count(m) ==
  LET sizes == {m.structs[n] : n \in DOMAIN m.structs}
               \cup {m.types[n][2] : n \in {k \in DOMAIN m.types : m.types[k][1] = "tuple"}}
  IN  IF sizes = {} THEN -1 ELSE Max(sizes)
check_field(i, m) ==
  LET most == max_field_count(m)
  IN  IF most # -1 /\ i.ref >= most THEN {"FieldOutOfBounds"} ELSE {}

(* The type an allocation names must be of the kind it allocates.          *)
check_alloc(i, m, kind, layouts) ==
  IF ~InRange(i.ty, m.types) THEN {}
  ELSE LET t == m.types[i.ty + 1]
       IN  IF t[1] # kind THEN {"TypeMismatchAlloc"}
           ELSE IF kind = "tuple" THEN IF t[2] # i.count THEN {"TupleCountMismatch"} ELSE {}
           ELSE IF ~InRange(t[2], layouts) THEN {"LayoutOutOfBounds"}
           ELSE IF kind = "choice" /\ i.aux >= layouts[t[2] + 1] THEN {"ChoiceVariantOutOfBounds"}
           ELSE {}

check_future(i, m) ==
  check_type(i.ty, m) \cup (IF i.aux # i.count THEN {"FutureArgumentTypeCountMismatch"} ELSE {})

(* The typed arithmetic instructions and the tail call are not looked at.  *)
Unchecked == {"AddI32", "TailCall"}

InstructionErrors(m, regs, code, at) ==
  LET i == code[at + 1]
  IN  IF i.op \in Unchecked THEN {}
      ELSE check_args(i, regs) \cup check_window(i, regs) \cup
        CASE i.op \in {"LoadConst", "Panic", "CallMethod"} -> check_const(i.ref, m)
          [] i.op \in Jumps -> check_jump(at, i, code)
          [] i.op = "Call" -> check_func(i.ref, m)
          [] i.op = "AllocLocal" -> check_type(i.ty, m) \cup check_alloc(i, m, "struct", m.structs)
          [] i.op = "NewTuple" -> check_type(i.ty, m) \cup check_alloc(i, m, "tuple", <<>>)
          [] i.op = "NewChoice" -> check_type(i.ty, m) \cup check_alloc(i, m, "choice", m.choices)
          [] i.op \in {"LoadField", "StoreField"} -> check_field(i, m)
          [] i.op \in {"NewArray", "Cast", "Instanceof", "AwaitFuture", "AwaitAll", "AwaitRace"} ->
               check_type(i.ty, m)
          [] i.op = "CreateFuture" -> check_func(i.ref, m) \cup check_future(i, m)
          [] i.op \in {"CreateAwaitFuture", "CallInternalThread", "CreateIndirectFuture"} ->
               check_future(i, m)
          [] i.op = "CallInternalMath" -> IF i.ref > 10 THEN {"InvalidConstantIndex"} ELSE {}
          [] OTHER -> {}

FunctionErrors(m, f) ==
  UNION {InstructionErrors(m, f.params + f.locals + f.temps, f.code, at) :
         at \in 0 .. (Len(f.code) - 1)}

export_errors(m) ==
  UNION {CASE m.exports[n][1] = "function" ->
                IF ~InRange(m.exports[n][2], m.functions) THEN {"ExportFunctionOutOfBounds"} ELSE {}
           [] OTHER -> IF m.exports[n][2] >= m.globals THEN {"ExportGlobalOutOfBounds"} ELSE {} :
         n \in DOMAIN m.exports}

validate_bytecode_module(m) ==
  (IF m.init # -1 /\ ~InRange(m.init, m.functions) THEN {"InitFunctionOutOfBounds"} ELSE {})
  \cup export_errors(m)
  \cup UNION {FunctionErrors(m, m.functions[n]) : n \in DOMAIN m.functions}
=============================================================================
