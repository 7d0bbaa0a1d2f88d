-------------------------------- MODULE Promise --------------------------------
(***************************************************************************)
(* What the compiler (codegen.c) promises of the bytecode it returns, and  *)
(* what the interpreter and the debugger rest on.                          *)
(***************************************************************************)
EXTENDS Instructions, Sequences

Size(op) == IF op \in OperandOps THEN 1 + IntBytes ELSE 1

Pops(op) ==
  IF op \in BinaryOps THEN 2
  ELSE IF op \in BranchOps \cup {OP_POP, OP_DUP, OP_STORE, OP_PRINT} THEN 1 ELSE 0

Pushes(op) ==
  IF op = OP_DUP THEN 2 ELSE IF op \in BinaryOps \cup {OP_PUSH, OP_LOAD} THEN 1 ELSE 0

\* codegen_node emits whole instructions, no call, and jumps that are patched to
\* the beginning of one; codegen_compile adds the only OP_HALT at the end.
\* starts: where the instructions of c begin, and its end.
WholeCode(c, starts) ==
  /\ {0, Len(c)} \subseteq starts
  /\ Len(c) > 0
  /\ starts \subseteq 0..Len(c)
  /\ \A at \in starts \ {Len(c)} :
       LET op == c[at + 1]
       IN  /\ op \in Opcodes \ {OP_CALL, OP_RET}
           /\ at + Size(op) \in starts
           /\ op \in BranchOps \cup {OP_JMP} => WordIn(c, at + 2) \in starts \ {Len(c)}
           /\ op = OP_HALT <=> at + Size(op) = Len(c)

\* An expression leaves one cell and a statement none, or one that is never taken:
\* on every way to an instruction the cells it pops are there, and the slots of
\* variables are below slots.  depth: the cells the stack has at least, at each
\* instruction and at the end.
Balanced(c, depth, slots) ==
  /\ depth \in [DOMAIN depth -> Nat]
  /\ depth[0] = 0
  /\ \A at \in DOMAIN depth \ {Len(c)} :
       LET op == c[at + 1]
           left == depth[at] - Pops(op) + Pushes(op)
       IN  /\ depth[at] >= Pops(op)
           /\ op # OP_JMP => depth[at + Size(op)] <= left
           /\ op \in BranchOps \cup {OP_JMP} => depth[WordIn(c, at + 2)] <= left
           /\ op \in {OP_STORE, OP_LOAD} => WordIn(c, at + 2) \in 0..slots - 1

\* Nothing is left behind: depth says what the stack has, and at the end nothing.
Exact(c, depth) ==
  /\ depth[Len(c)] = 0
  /\ \A at \in DOMAIN depth \ {Len(c)} :
       LET op == c[at + 1]
           left == depth[at] - Pops(op) + Pushes(op)
       IN  /\ op # OP_JMP => depth[at + Size(op)] = left
           /\ op \in BranchOps \cup {OP_JMP} => depth[WordIn(c, at + 2)] = left
=============================================================================
