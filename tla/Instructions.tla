----------------------------- MODULE Instructions -----------------------------
(***************************************************************************)
(* The instruction set of instructions.h, which the interpreter decodes    *)
(* and the compiler emits: one opcode byte, and for some opcodes a         *)
(* little-endian operand of IntBytes bytes.                                *)
(***************************************************************************)
EXTENDS Words

Byte == 0..255
-----------------------------------------------------------------------------
OP_PUSH == 1
OP_POP == 2
OP_DUP == 3
OP_ADD == 16
OP_SUB == 17
OP_MUL == 18
OP_DIV == 19
OP_CMP == 20
OP_CMP_EQ == 21
OP_CMP_NE == 22
OP_CMP_GT == 23
OP_CMP_LE == 24
OP_CMP_GE == 25
OP_JMP == 32
OP_JZ == 33
OP_JNZ == 34
OP_STORE == 48
OP_LOAD == 49
OP_CALL == 64
OP_RET == 65
OP_PRINT == 80
OP_HALT == 255
-----------------------------------------------------------------------------
(* The opcodes by the shape of their instruction. *)
BinaryOps == {OP_ADD, OP_SUB, OP_MUL, OP_DIV, OP_CMP, OP_CMP_EQ, OP_CMP_NE,
              OP_CMP_GT, OP_CMP_LE, OP_CMP_GE}
BranchOps == {OP_JZ, OP_JNZ}
OperandOps == BranchOps \cup {OP_PUSH, OP_JMP, OP_STORE, OP_LOAD, OP_CALL}
Opcodes == BinaryOps \cup OperandOps
             \cup {OP_POP, OP_DUP, OP_RET, OP_PRINT, OP_HALT}

WordIn(bytes, i) ==            \* read_int32: little-endian, two's complement
  LET b(k) == IF k < IntBytes THEN bytes[i + k] ELSE 0
  IN  Wrap(b(0) + 256 * b(1) + 65536 * b(2) + 16777216 * b(3))
=============================================================================
