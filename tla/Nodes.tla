--------------------------------- MODULE Nodes ---------------------------------
(***************************************************************************)
(* The syntax tree of ast.h, as the actions of parser.y and lexer.l build  *)
(* it.                                                                     *)
(*                                                                         *)
(* line is the value of yylineno when a node is made: the line of the last *)
(* token read.  That is the token after it for an if without else and for  *)
(* most operators; * and / have the line where their right operand ends.   *)
(***************************************************************************)
NodeInt(value, line) == [type |-> "INT", value |-> value, line |-> line]
NodeVar(name, line) == [type |-> "VAR", name |-> name, line |-> line]
NodeOp(op, left, right, line) ==
  [type |-> "OP", op |-> op, left |-> left, right |-> right, line |-> line]
NodeDecl(name, init, line) ==
  [type |-> "DECL", name |-> name, left |-> init, line |-> line]
NodeAssign(name, expr, line) ==
  [type |-> "ASSIGN", name |-> name, left |-> expr, line |-> line]
NodePrint(expr, line) == [type |-> "PRINT", left |-> expr, line |-> line]
NodeIf(cond, then, else, line) ==
  [type |-> "IF", left |-> cond, right |-> then, extra |-> else, line |-> line]
NodeWhile(cond, body, line) ==
  [type |-> "WHILE", left |-> cond, right |-> body, line |-> line]
NodeSeq(first, second, line) ==
  [type |-> "SEQ", left |-> first, right |-> second, line |-> line]

NoNode == [type |-> "NULL"]

DeclZero(name, line) == NodeDecl(name, NodeInt(0, 0), line)      \* var name;

IsExpression(n) == n.type \in {"INT", "VAR", "OP"}
=============================================================================
