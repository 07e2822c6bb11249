----------------------------- MODULE VmOperators -----------------------------
(***************************************************************************)
(* The values of the virtual machine and its arithmetic: the generic        *)
(* operator instructions, the typed ones, the ones with an immediate        *)
(* operand, and the casts.  A value is <<type, n>>.  Integers keep a width  *)
(* (Bits, scaled down) and wrap; a float is a whole number of a small range *)
(* (FloatMax), a negative zero, an infinity or one of two NaNs, and rounds  *)
(* toward zero.                                                             *)
(***************************************************************************)
EXTENDS Integers, Sequences

CONSTANTS
  Bits,       \* the width of each integer type, a power of two
  Signed,     \* the signed ones
  FloatMax    \* the largest finite value of "f32" and of "f64"

IntTypes == DOMAIN Bits
FloatTypes == DOMAIN FloatMax
NumericTypes == IntTypes \cup FloatTypes

Value(ty, n) == <<ty, n>>
Bool(b) == <<"bool", IF b THEN 1 ELSE 0>>
NullValue == <<"null", 0>>
Fault(kind) == <<"fault", kind>>
Mismatch == Fault("type mismatch")
IsFault(v) == v[1] = "fault"

-----------------------------------------------------------------------------
(* Integers of one type *)

Low(ty) == IF ty \in Signed THEN -(2 ^ (Bits[ty] - 1)) ELSE 0
High(ty) == IF ty \in Signed THEN 2 ^ (Bits[ty] - 1) - 1 ELSE 2 ^ Bits[ty] - 1
Wrap(ty, n) == ((n - Low(ty)) % 2 ^ Bits[ty]) + Low(ty)

Magnitude(n) == IF n < 0 THEN -n ELSE n
Sign(n) == IF n < 0 THEN -1 ELSE IF n > 0 THEN 1 ELSE 0
Quotient(a, b) == Sign(a) * Sign(b) * (Magnitude(a) \div Magnitude(b))
Remainder(a, b) == a - b * Quotient(a, b)

(* wrapping_pow, wrapping_shl and wrapping_shr: the exponent and the        *)
(* distance are taken as u32, the distance modulo the width.                *)
AsU32(n) == n % 2 ^ Bits["u32"]
WrappingPow(ty, a, e) ==
  LET power[k \in 0 .. e] == IF k = 0 THEN Wrap(ty, 1) ELSE Wrap(ty, a * power[k - 1]) IN power[e]
ShiftLeft(ty, a, n) == Wrap(ty, a * 2 ^ (AsU32(n) % Bits[ty]))
ShiftRight(ty, a, n) == a \div 2 ^ (AsU32(n) % Bits[ty])

(* Bit k of the two's complement of a, and the number with given bits.     *)
Bit(a, k) == (a \div 2 ^ k) % 2
Combine(op, x, y) ==
  CASE op = "BitwiseAnd" -> x * y
    [] op = "BitwiseOr"  -> x + y - x * y
    [] op = "BitwiseXor" -> (x + y) % 2
Bitwise(op, ty, a, b) ==
  LET sum[k \in 0 .. Bits[ty]] ==
        IF k = 0 THEN 0 ELSE sum[k - 1] + Combine(op, Bit(a, k - 1), Bit(b, k - 1)) * 2 ^ (k - 1)
  IN  Wrap(ty, sum[Bits[ty]])

-----------------------------------------------------------------------------
(* Floats *)

Inf == 1000
NaN == 2000         \* the canonical one
OddNaN == 2001      \* any other payload: what an operation may produce
NegZero == 3000
IsNaN(x) == x \in {NaN, OddNaN}
IsInf(x) == x \in {Inf, -Inf}
Num(x) == IF x = NegZero THEN 0 ELSE x
FloatSign(x) == IF x = NegZero \/ x < 0 THEN -1 ELSE 1
Signed0(n, sign) == IF n = 0 /\ sign < 0 THEN NegZero ELSE n
Round(ty, n) == IF n > FloatMax[ty] THEN Inf ELSE IF n < -FloatMax[ty] THEN -Inf ELSE n

(* normalize_f32 and normalize_f64: one NaN, one zero.                     *)
normalize(x) == IF IsNaN(x) THEN NaN ELSE Num(x)

FloatNeg(x) == IF IsNaN(x) THEN x ELSE Signed0(-Num(x), -FloatSign(x))
FloatAdd(ty, x, y) ==
  CASE IsNaN(x) \/ IsNaN(y) \/ (IsInf(x) /\ y = -x) -> OddNaN
    [] IsInf(x) -> x
    [] IsInf(y) -> y
    [] x = NegZero /\ y = NegZero -> NegZero
    [] OTHER -> Round(ty, Num(x) + Num(y))
FloatMul(ty, x, y) ==
  LET sign == FloatSign(x) * FloatSign(y)
  IN  CASE IsNaN(x) \/ IsNaN(y) \/ (IsInf(x) /\ Num(y) = 0) \/ (IsInf(y) /\ Num(x) = 0) -> OddNaN
        [] IsInf(x) \/ IsInf(y) -> sign * Inf
        [] OTHER -> Signed0(Round(ty, Num(x) * Num(y)), sign)
FloatDiv(ty, x, y) ==
  LET sign == FloatSign(x) * FloatSign(y)
  IN  CASE IsNaN(x) \/ IsNaN(y) \/ (Num(x) = 0 /\ Num(y) = 0) \/ (IsInf(x) /\ IsInf(y)) -> OddNaN
        [] IsInf(y) -> Signed0(0, sign)
        [] IsInf(x) \/ Num(y) = 0 -> sign * Inf
        [] OTHER -> Signed0(Quotient(Num(x), y), sign)
FloatRem(ty, x, y) ==
  CASE IsNaN(x) \/ IsNaN(y) \/ IsInf(x) \/ Num(y) = 0 -> OddNaN
    [] IsInf(y) -> x
    [] OTHER -> Signed0(Remainder(Num(x), y), FloatSign(x))

Arithmetic == {"Add", "Subtract", "Multiply", "Divide", "Remainder"}
FloatArith(op, ty, x, y) ==
  CASE op = "Add"       -> FloatAdd(ty, x, y)
    [] op = "Subtract"  -> FloatAdd(ty, x, FloatNeg(y))
    [] op = "Multiply"  -> FloatMul(ty, x, y)
    [] op = "Divide"    -> FloatDiv(ty, x, y)
    [] op = "Remainder" -> FloatRem(ty, x, y)

-----------------------------------------------------------------------------
(* Comparison *)

Orders == {"Less", "LessEqual", "Greater", "GreaterEqual"}
Equalities == {"Equal", "NotEqual"}
Ordered(op, a, b) ==
  CASE op = "Less" -> a < b [] op = "LessEqual" -> a <= b
    [] op = "Greater" -> a > b [] op = "GreaterEqual" -> a >= b
Unordered(l, r) == l[1] \in FloatTypes /\ (IsNaN(l[2]) \/ IsNaN(r[2]))

(* compare_values: equal types only; a NaN is not ordered.                 *)
compare_values(op, l, r) ==
  IF l[1] # r[1] \/ l[1] \notin NumericTypes \cup {"bool"} THEN Mismatch
  ELSE Bool(~Unordered(l, r) /\ Ordered(op, Num(l[2]), Num(r[2])))

(* Eq and Ne on values of any type: different types are different values.  *)
equal_values(op, l, r) ==
  LET same == l[1] = r[1] /\ Num(l[2]) = Num(r[2]) /\ ~Unordered(l, r)
  IN  Bool(same = (op = "Equal"))

-----------------------------------------------------------------------------
(* The three forms of a binary operation *)

(* Integer arithmetic that wraps; the one quotient that does not fit is    *)
(* either wrapped as well or stops the process (plain / and % in Rust).    *)
IntegerArith(op, ty, a, b, wraps) ==
  IF op \in {"Divide", "Remainder"} /\ b = 0 THEN Fault("division by zero")
  ELSE IF op \in {"Divide", "Remainder"} /\ ty \in Signed /\ a = Low(ty) /\ b = -1 /\ ~wraps
       THEN Fault("overflow")
  ELSE Value(ty, Wrap(ty, CASE op = "Add" -> a + b [] op = "Subtract" -> a - b
                            [] op = "Multiply" -> a * b [] op = "Divide" -> Quotient(a, b)
                            [] op = "Remainder" -> Remainder(a, b)))

Shifts == {"ShiftLeft", "ShiftRight"}
Bitwises == {"BitwiseAnd", "BitwiseOr", "BitwiseXor"}
Shift(op, ty, a, n) == Value(ty, IF op = "ShiftLeft" THEN ShiftLeft(ty, a, n) ELSE ShiftRight(ty, a, n))

pow_values(l, r) ==
  IF l[1] # r[1] \/ l[1] \notin NumericTypes THEN Mismatch
  ELSE IF l[1] \in IntTypes THEN Value(l[1], WrappingPow(l[1], l[2], AsU32(r[2])))
  ELSE Value(l[1], normalize(IF r[2] = 0 THEN 1 ELSE IF r[2] = 1 THEN l[2] ELSE OddNaN))

(* Logical and and or are the same instruction as the bitwise ones.        *)
AsBitwise(op) == CASE op = "LogicalAnd" -> "BitwiseAnd" [] op = "LogicalOr" -> "BitwiseOr" [] OTHER -> op

(* Generic instructions look at the values. *)
binary_op(op, l, r) ==
  CASE l[1] = r[1] /\ l[1] \in IntTypes -> IntegerArith(op, l[1], l[2], r[2], FALSE)
    [] l[1] = r[1] /\ l[1] \in FloatTypes /\ op # "Remainder" ->
         Value(l[1], normalize(FloatArith(op, l[1], l[2], r[2])))
    [] OTHER -> Mismatch
bitwise_op(op, l, r) ==
  CASE l[1] = r[1] /\ l[1] = "bool" -> <<"bool", Combine(op, l[2], r[2])>>
    [] l[1] = r[1] /\ l[1] \in IntTypes -> Value(l[1], Bitwise(op, l[1], l[2], r[2]))
    [] OTHER -> Mismatch
shift_op(op, l, r) ==
  IF l[1] \in IntTypes /\ r[1] \in IntTypes THEN Shift(op, l[1], l[2], r[2]) ELSE Mismatch
execute_operator_instruction(op, l, r) ==
  CASE op \in Equalities -> equal_values(op, l, r)
    [] op \in Orders     -> compare_values(op, l, r)
    [] op = "Power"      -> pow_values(l, r)
    [] op = "NullFallback" -> IF l[1] # "null" THEN l ELSE r
    [] op \in Shifts     -> shift_op(op, l, r)
    [] AsBitwise(op) \in Bitwises -> bitwise_op(AsBitwise(op), l, r)
    [] OTHER -> binary_op(op, l, r)

(* Typed instructions trust the compiler: a register of another type is    *)
(* undefined behaviour.                                                     *)
TypedTypes == {"i32", "i64", "f32", "f64"}
TypedOps == Arithmetic \cup Orders \cup Equalities
TypedComparison(op, l, r) == IF op \in Equalities THEN equal_values(op, l, r) ELSE compare_values(op, l, r)
TypedInteger(ty, op, l, r) ==
  IF op \in Arithmetic THEN IntegerArith(op, ty, l[2], r[2], TRUE) ELSE TypedComparison(op, l, r)
TypedFloat(ty, op, l, r) ==
  IF op \in Arithmetic THEN Value(ty, normalize(FloatArith(op, ty, l[2], r[2]))) ELSE TypedComparison(op, l, r)
typed_instruction(ty, op, l, r) ==
  IF l[1] # ty \/ r[1] # ty THEN Fault("undefined")
  ELSE IF ty \in IntTypes THEN TypedInteger(ty, op, l, r) ELSE TypedFloat(ty, op, l, r)

ImmediateTypes == {"i32", "i64", "u32", "u64", "f32", "f64"} \cap NumericTypes
ImmediateOps == TypedOps \cup Shifts \cup Bitwises
(* Mutant: the result of a float operation is not normalized.              *)
immediate_binary_value_Raw(op, l, imm) ==
  LET ty == imm[1]
  IN  IF l[1] # ty THEN Mismatch
      ELSE IF op \in Equalities THEN equal_values(op, l, imm)
      ELSE IF op \in Orders THEN compare_values(op, l, imm)
      ELSE IF ty \in FloatTypes
           THEN IF op \in Arithmetic THEN Value(ty, FloatArith(op, ty, l[2], imm[2])) ELSE Mismatch
      ELSE IF op \in Shifts THEN Shift(op, ty, l[2], imm[2])
      ELSE IF op \in Bitwises THEN Value(ty, Bitwise(op, ty, l[2], imm[2]))
      ELSE IntegerArith(op, ty, l[2], imm[2], FALSE)
immediate_binary_value(op, l, imm) ==
  LET ty == imm[1]
  IN  IF l[1] # ty THEN Mismatch
      ELSE IF op \in Equalities THEN equal_values(op, l, imm)
      ELSE IF op \in Orders THEN compare_values(op, l, imm)
      ELSE IF ty \in FloatTypes
           THEN IF op \in Arithmetic THEN Value(ty, normalize(FloatArith(op, ty, l[2], imm[2])))
                ELSE Mismatch
      ELSE IF op \in Shifts THEN Shift(op, ty, l[2], imm[2])
      ELSE IF op \in Bitwises THEN Value(ty, Bitwise(op, ty, l[2], imm[2]))
      ELSE IntegerArith(op, ty, l[2], imm[2], FALSE)

unary_instruction(op, v) ==
  CASE op = "Negate" -> IF v[1] \in Signed THEN Value(v[1], Wrap(v[1], -v[2]))
                        ELSE IF v[1] \in FloatTypes THEN Value(v[1], normalize(FloatNeg(v[2])))
                        ELSE Mismatch
    [] op = "Not"    -> IF v[1] = "bool" THEN Bool(v[2] = 0) ELSE Mismatch
    [] op = "BitwiseNot" -> IF v[1] \in IntTypes THEN Value(v[1], Wrap(v[1], -v[2] - 1)) ELSE Mismatch

(* execute_cast between primitive types: integers wrap, floats saturate.   *)
Saturate(ty, x) ==
  IF IsNaN(x) \/ x = NegZero THEN 0
  ELSE IF x > High(ty) THEN High(ty) ELSE IF x < Low(ty) THEN Low(ty) ELSE x
FloatTo(ty, x) == IF IsNaN(x) \/ IsInf(x) \/ x = NegZero THEN x ELSE Round(ty, x)
execute_cast(v, ty) ==
  IF v[1] = ty THEN v
  ELSE IF v[1] \notin NumericTypes \/ ty \notin NumericTypes THEN Mismatch
  ELSE Value(ty, CASE v[1] \in IntTypes /\ ty \in IntTypes -> Wrap(ty, v[2])
                   [] v[1] \in IntTypes -> normalize(Round(ty, v[2]))
                   [] ty \in IntTypes -> Saturate(ty, v[2])
                   [] OTHER -> normalize(FloatTo(ty, v[2])))

(* A negative index counts from the end; -1 stands for out of range.       *)
resolve_raw_array_index(raw, len) ==
  LET at == IF raw < 0 THEN len + raw ELSE raw IN IF at < 0 \/ at >= len THEN -1 ELSE at
=============================================================================
