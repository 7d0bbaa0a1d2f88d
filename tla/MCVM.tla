--------------------------------- MODULE MCVM ---------------------------------
(* The interpreter on one-byte operands: every byte string up to MaxLength     *)
(* over Alphabet, and the named longer programs.                              *)
EXTENDS VM, SequencesExt

CONSTANTS MaxLength

\* The opcodes with distinct behaviour, a zero, and 128, which is as an operand
\* -128 and as an opcode undefined.
Alphabet == {0, 128, OP_PUSH, OP_POP, OP_DUP, OP_DIV, OP_JMP, OP_JZ, OP_STORE,
             OP_LOAD, OP_CALL, OP_RET, OP_HALT}

MinByMinusOne == <<OP_PUSH, 128, OP_PUSH, 255, OP_DIV, OP_PRINT, OP_HALT>>
Countdown == <<OP_PUSH, 3, OP_STORE, 0, OP_LOAD, 0, OP_PUSH, 1, OP_SUB,
               OP_STORE, 0, OP_LOAD, 0, OP_JNZ, 4, OP_HALT>>
ThreeDeep == <<OP_CALL, 3, OP_HALT, OP_CALL, 6, OP_RET, OP_CALL, 9, OP_RET, OP_RET>>
Nested == <<OP_CALL, 3, OP_HALT, OP_CALL, 6, OP_RET, OP_PUSH, 7, OP_RET>>
BadStore == <<OP_PUSH, 5, OP_STORE, 0, OP_STORE, 0, OP_STORE, 2>>
Mixed == {<<OP_PUSH, 100, OP_PUSH, b, op, OP_POP, OP_PUSH, 1, OP_JNZ, 20>> :
            b \in {0, 100, 156}, op \in BinaryOps}

MCPrograms == BoundedSeq(Alphabet, MaxLength)
                \cup {MinByMinusOne, Countdown, ThreeDeep, Nested, BadStore}
                \cup Mixed
=============================================================================
