---------------------------- MODULE Instructions ----------------------------
(***************************************************************************)
(* The register-machine instruction set as the optimizer and the bytecode  *)
(* validator see it.  An instruction is the record                          *)
(*     op     its opcode,                                                   *)
(*     args   the single registers it names, the destination first,        *)
(*     start, count   its operand window (count = 0: no window),           *)
(*     off    the relative offset of a jump,                                *)
(*     ref    the constant, function, field or operation it names,         *)
(*     ty     the type it names,                                            *)
(*     aux    the variant it builds or the argument types it carries.      *)
(* The opcodes that every pass treats alike are one opcode here: Add stands *)
(* for the 17 generic binary operations, AddI32 for the 44 typed ones.      *)
(***************************************************************************)
EXTENDS Integers, Sequences, FiniteSets

LOCAL INSTANCE TLC

Loads    == {"LoadConst", "LoadGlobal", "LoadNull", "AllocLocal"}
Unaries  == {"Move", "Copy", "Len", "Neg", "Cast", "Instanceof", "BinaryImmediate",
             "LoadField", "NewArray", "NewChoice", "AwaitFuture"}
Generics == {"Add"}
Typed    == {"AddI32"}
Binaries == Generics \cup Typed \cup {"Fallback", "LoadIndex"}
Windows  == {"Call", "CreateFuture", "CreateAwaitFuture", "CallInternalThread",
             "CallInternalMath", "NewTuple", "AwaitAll", "AwaitRace"}
Dynamics == {"CallMethod", "CallDynamic", "CreateIndirectFuture"}
Branches == {"JumpTrue", "JumpFalse", "JumpNull"}
Jumps    == {"Jump"} \cup Branches
Returns  == {"Ret", "RetNull", "Panic"}

(* Those whose first register is a definition.                             *)
Defines == Loads \cup Unaries \cup Binaries \cup Windows \cup Dynamics

Ins(op, args, start, count, off, ref) ==
  [op |-> op, args |-> args, start |-> start, count |-> count, off |-> off, ref |-> ref,
   ty |-> 0, aux |-> 0]
Plain(op, args) == Ins(op, args, 0, 0, 0, 0)

(* A method call counts its receiver, which is not part of the window.     *)
WindowSize(i) ==
  IF i.op = "CallMethod" THEN IF i.count > 1 THEN i.count - 1 ELSE 0 ELSE i.count
Window(i) == i.start .. (i.start + WindowSize(i) - 1)

(* instruction_def_use: what an instruction writes and what it reads.      *)
Defs(i) == IF i.op \in Defines THEN {i.args[1]} ELSE {}
Uses(i) ==
  {i.args[n] : n \in (IF i.op \in Defines THEN 2 ELSE 1) .. Len(i.args)} \cup Window(i)

(* visit_instruction_registers: every register it names.                   *)
Registers(i) == {i.args[n] : n \in DOMAIN i.args} \cup Window(i)

(* visit_instruction_registers_mut: rename the single registers and the    *)
(* first register of a window that is not empty.                           *)
Renamed(i, remap) ==
  [i EXCEPT !.args = [n \in DOMAIN @ |-> remap[@[n]]],
            !.start = IF WindowSize(i) > 0 THEN remap[@] ELSE @]
=============================================================================
