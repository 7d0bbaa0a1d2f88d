------------------------------- MODULE Compiler --------------------------------
(***************************************************************************)
(* codegen_compile of codegen.c on a tree, call by call: the recursion of  *)
(* codegen_node is a stack of open calls, and a step is what a call does   *)
(* up to the next call it makes or to its end.                             *)
(***************************************************************************)
EXTENDS Emission, Promise

CONSTANT Trees     \* what the parser may build: whole trees and the nodes in them

\* Children are never NULL, but for the else of an if; operators and conditions
\* stand on expressions; only the 0 of a var without a value has no line.
ASSUME TreesAssumption ==
  \A n \in Trees :
    LET Expression(e) == e \in Trees /\ IsExpression(e)
    IN  /\ n.line \in Nat
        /\ n.type # "INT" => n.line > 0
        /\ \/ n.type = "INT" /\ n.value \in Word
           \/ n.type = "VAR"
           \/ /\ n.type = "OP"
              /\ n.op \in DOMAIN EmitOp
              /\ Expression(n.left) /\ Expression(n.right)
           \/ n.type \in {"DECL", "ASSIGN", "PRINT"} /\ Expression(n.left)
           \/ /\ n.type = "IF"
              /\ Expression(n.left)
              /\ n.right \in Trees
              /\ n.extra \in Trees \cup {NoNode}
           \/ n.type = "WHILE" /\ Expression(n.left) /\ n.right \in Trees
           \/ n.type = "SEQ" /\ n.left \in Trees /\ n.right \in Trees

VARIABLES
  stage,       \* "idle", in "codegen", "returned", or "exited" by exit(1)
  tree,        \* the argument of codegen_compile
  prog,        \* what is emitted so far
  calls,       \* the open calls of codegen_node, the innermost last
  depth,       \* history: where instructions begin, and the cells on the stack there
  leaves       \* history: an expression was compiled whose value nobody takes

emitted == <<prog, calls, depth>>
compiler == <<stage, tree, emitted, leaves>>
-----------------------------------------------------------------------------
(* A call: its argument, the child it is in or has come back from last, and *)
(* its locals slot, loop_start and jz_patch or jmp_patch (never both are in *)
(* use; 0 when no jump waits to be patched).  base is history: the cells on *)
(* the stack when the code of the call begins.                             *)
Called(n, p, cells) ==
  [node |-> n, at |-> "enter", slot |-> 0, start |-> Offset(p), hole |-> 0, base |-> cells]

Current == calls[Len(calls)]
Node == Current.node
Mapped == AddSourceMap(prog, Node.line)
Cells == depth[Offset(prog)]

In(types, at) ==
  /\ stage = "codegen"
  /\ calls # << >>
  /\ Node.type \in types
  /\ Current.at = at

\* What the stack holds where the code of call f stands, once the child that f is
\* in has returned; an expression statement's value is not counted.
Held(f) ==
  f.base + (IF f.at = "return" THEN IF IsExpression(f.node) THEN 1 ELSE 0
            ELSE IF f.at = "left" THEN IF f.node.type = "SEQ" THEN 0 ELSE 1
            ELSE IF f.at = "right" /\ f.node.type = "OP" THEN 2 ELSE 0)

Known(offset, cells) ==
  [k \in DOMAIN depth \cup {offset} |-> IF k = offset THEN cells ELSE depth[k]]

Became(f) == [calls EXCEPT ![Len(calls)] = f]
Returning == Became([Current EXCEPT !.at = "return", !.hole = 0])
Calling(f, n, p, cells) == Append(Became(f), Called(n, p, cells))

Exit == stage' = "exited" /\ UNCHANGED <<tree, emitted, leaves>>

\* prog becomes p, with so many cells on the stack at its end, and the calls next.
Emits(p, cells, next) ==
  \/ /\ ~Exits(p)
     /\ prog' = p
     /\ depth' = Known(Offset(p), cells)
     /\ calls' = next
     /\ UNCHANGED <<stage, tree, leaves>>
  \/ /\ Exits(p)
     /\ Exit
-----------------------------------------------------------------------------
Begin(root) ==                             \* codegen_compile
  /\ stage = "idle"
  /\ stage' = "codegen"
  /\ tree' = root
  /\ calls' = <<Called(root, prog, 0)>>
  /\ UNCHANGED <<prog, depth, leaves>>

CompileInt ==
  /\ In({"INT"}, "enter")
  /\ Emits(EmitWith(Mapped, EMIT_PUSH, Node.value), Cells + 1, Returning)

CompileVar ==
  /\ In({"VAR"}, "enter")
  /\ LET p == AddVar(Mapped, Node.name)
     IN  Emits(EmitWith(p, EMIT_LOAD, Slot(p, Node.name)), Cells + 1, Returning)

EnterStore ==
  /\ In({"DECL", "ASSIGN"}, "enter")
  /\ LET p == AddVar(Mapped, Node.name)
         f == [Current EXCEPT !.at = "left", !.slot = Slot(p, Node.name)]
     IN  Emits(p, Cells, Calling(f, Node.left, p, Cells))

\* Faulty variant: the operands are compiled in the wrong order.
EnterSwapped ==
  /\ In({"OP", "PRINT", "IF", "WHILE", "SEQ"}, "enter")
  /\ LET first == IF Node.type = "OP" THEN Node.right ELSE Node.left
     IN  Emits(Mapped, Cells, Calling([Current EXCEPT !.at = "left"], first, Mapped, Cells))

EnterOther ==
  /\ In({"OP", "PRINT", "IF", "WHILE", "SEQ"}, "enter")
  /\ Emits(Mapped, Cells, Calling([Current EXCEPT !.at = "left"], Node.left, Mapped, Cells))

SecondPart ==
  /\ In({"OP", "SEQ"}, "left")
  /\ calls' = Calling([Current EXCEPT !.at = "right"], Node.right, prog, Cells)
  /\ UNCHANGED <<stage, tree, prog, depth, leaves>>

CompileOp ==
  /\ In({"OP"}, "right")
  /\ Emits(Emit(prog, EmitOp[Node.op]), Cells - 1, Returning)

CompileStore ==
  /\ In({"DECL", "ASSIGN"}, "left")
  /\ Emits(EmitWith(prog, EMIT_STORE, Current.slot), Cells - 1, Returning)

CompilePrint ==
  /\ In({"PRINT"}, "left")
  /\ Emits(Emit(prog, EMIT_PRINT), Cells - 1, Returning)

CompileTest ==                             \* behind the condition
  /\ In({"IF", "WHILE"}, "left")
  /\ LET p == EmitWith(prog, EMIT_JZ, 0)
         f == [Current EXCEPT !.at = "right", !.hole = Offset(prog) + 1]
     IN  Emits(p, Cells - 1, Calling(f, Node.right, p, Cells - 1))

\* Faulty variant: a false condition jumps to the operand of the jump over else.
CompileElseToOperand ==
  /\ In({"IF"}, "right")
  /\ Node.extra # NoNode
  /\ LET over == EmitWith(prog, EMIT_JMP, 0)
         p == Patch(over, Current.hole, Offset(prog) + 1)
         f == [Current EXCEPT !.at = "extra", !.hole = Offset(prog) + 1]
     IN  Emits(p, Current.base, Calling(f, Node.extra, p, Current.base))

CompileElse ==
  /\ In({"IF"}, "right")
  /\ Node.extra # NoNode
  /\ LET over == EmitWith(prog, EMIT_JMP, 0)
         p == Patch(over, Current.hole, Offset(over))
         f == [Current EXCEPT !.at = "extra", !.hole = Offset(prog) + 1]
     IN  Emits(p, Current.base, Calling(f, Node.extra, p, Current.base))

EndIf ==
  /\ \/ In({"IF"}, "right") /\ Node.extra = NoNode
     \/ In({"IF"}, "extra")
  /\ Emits(Patch(prog, Current.hole, Offset(prog)), Cells, Returning)

\* Faulty variant: the exit is patched before the jump back is emitted.
CompileLoopShort ==
  /\ In({"WHILE"}, "right")
  /\ LET p == Patch(prog, Current.hole, Offset(prog))
     IN  Emits(EmitWith(p, EMIT_JMP, Current.start), Current.base, Returning)

CompileLoop ==
  /\ In({"WHILE"}, "right")
  /\ LET loop == EmitWith(prog, EMIT_JMP, Current.start)
     IN  Emits(Patch(loop, Current.hole, Offset(loop)), Current.base, Returning)

EndSeq ==
  /\ In({"SEQ"}, "right")
  /\ calls' = Returning
  /\ UNCHANGED <<stage, tree, prog, depth, leaves>>

NodeReturns ==
  /\ stage = "codegen"
  /\ calls # << >>
  /\ Current.at = "return"
  /\ calls' = SubSeq(calls, 1, Len(calls) - 1)
  /\ depth' = Known(Offset(prog), IF calls' = << >> THEN 0 ELSE Held(calls'[Len(calls')]))
  /\ leaves' = (leaves \/ depth' # depth)
  /\ UNCHANGED <<stage, tree, prog>>

Finish ==                                  \* codegen_compile
  /\ stage = "codegen"
  /\ calls = << >>
  /\ LET p == Emit(prog, EMIT_HALT)
     IN  \/ /\ ~Exits(p)
            /\ prog' = p
            /\ depth' = Known(Offset(p), Cells)
            /\ stage' = "returned"
            /\ UNCHANGED <<tree, calls, leaves>>
         \/ /\ Exits(p)
            /\ Exit
-----------------------------------------------------------------------------
CompilerInit ==
  /\ stage = "idle"
  /\ tree = NoNode
  /\ prog = NoCode
  /\ calls = << >>
  /\ depth = [k \in {0} |-> 0]
  /\ leaves = FALSE

CompileNode ==                             \* codegen_node
  \/ CompileInt \/ CompileVar
  \/ EnterStore \/ EnterOther \/ SecondPart
  \/ CompileOp \/ CompileStore \/ CompilePrint
  \/ CompileTest \/ CompileElse \/ EndIf \/ CompileLoop
  \/ EndSeq \/ NodeReturns

CompilerNext ==
  \/ \E root \in Trees : Begin(root)
  \/ CompileNode
  \/ Finish

CompilerSpec == CompilerInit /\ [][CompilerNext]_compiler
=============================================================================
