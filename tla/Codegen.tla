-------------------------------- MODULE Codegen --------------------------------
(***************************************************************************)
(* codegen_compile of codegen.c as one function from trees to bytecode,    *)
(* variable slots and source map.  exit(1) in the middle of a compilation  *)
(* is seen in the result: code and variables only grow, so a compilation   *)
(* exits iff the uninterrupted one passes a limit.  Compiler has the same  *)
(* code call by call.                                                      *)
(***************************************************************************)
EXTENDS Emission

RECURSIVE GenNode(_, _)

GenInt(p, n) == EmitWith(p, EMIT_PUSH, n.value)

GenVar(p, n) ==
  LET q == AddVar(p, n.name) IN EmitWith(q, EMIT_LOAD, Slot(q, n.name))

GenOp(p, n) == Emit(GenNode(GenNode(p, n.left), n.right), EmitOp[n.op])

GenStore(p, n) ==                          \* NODE_DECL and NODE_ASSIGN
  LET q == AddVar(p, n.name)
  IN  EmitWith(GenNode(q, n.left), EMIT_STORE, Slot(q, n.name))

GenPrint(p, n) == Emit(GenNode(p, n.left), EMIT_PRINT)

GenIf(p, n) ==
  LET test == EmitWith(GenNode(p, n.left), EMIT_JZ, 0)
      jz == Offset(test) - IntBytes
      then == GenNode(test, n.right)
      over == EmitWith(then, EMIT_JMP, 0)
      jmp == Offset(over) - IntBytes
      else == GenNode(Patch(over, jz, Offset(over)), n.extra)
  IN  IF n.extra = NoNode
        THEN Patch(then, jz, Offset(then))
        ELSE Patch(else, jmp, Offset(else))

GenWhile(p, n) ==
  LET test == EmitWith(GenNode(p, n.left), EMIT_JZ, 0)
      jz == Offset(test) - IntBytes
      loop == EmitWith(GenNode(test, n.right), EMIT_JMP, Offset(p))
  IN  Patch(loop, jz, Offset(loop))

GenNode(p, n) ==                           \* codegen_node
  LET q == AddSourceMap(p, n.line)
  IN  CASE n.type = "NULL" -> p
        [] n.type = "INT" -> GenInt(q, n)
        [] n.type = "VAR" -> GenVar(q, n)
        [] n.type = "OP" -> GenOp(q, n)
        [] n.type \in {"DECL", "ASSIGN"} -> GenStore(q, n)
        [] n.type = "PRINT" -> GenPrint(q, n)
        [] n.type = "IF" -> GenIf(q, n)
        [] n.type = "WHILE" -> GenWhile(q, n)
        [] n.type = "SEQ" -> GenNode(GenNode(q, n.left), n.right)

Compile(root) ==                           \* codegen_compile
  Emit(GenNode(NoCode, root), EMIT_HALT)
=============================================================================
