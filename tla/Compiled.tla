------------------------------- MODULE Compiled -------------------------------
(***************************************************************************)
(* A submitted program from its text to the end of its run: the text is    *)
(* parsed (Parser), the tree compiled, loaded and run (Submission), and    *)
(* what comes out is compared with what Codegen says the tree's code is    *)
(* and with what the evaluator of ast.c (Ast) does with the tree.          *)
(***************************************************************************)
EXTENDS Submission, Writing, Codegen, Ast

CONSTANTS
  Texts,     \* what the files hold
  Turns      \* loop turns after which eval is given up

VARIABLE file        \* its text

cvars == <<svars, file>>

CompiledInit == SubmissionInit /\ file = << >>

\* What the parser makes of the files.
Parsings == {[text |-> t, tree |-> Parse(t)] : t \in Texts}

Submit ==                                  \* pm_submit, of a file it does not refuse
  \E f \in Parsings :
    /\ f.tree # NoNode
    /\ Begin(f.tree)
    /\ file' = f.text
    /\ UNCHANGED vars

Over ==
  /\ \/ host = "killed" \/ stage = "exited"
     \/ host = "idle" /\ pc > 0
  /\ UNCHANGED cvars

CompiledNext ==
  \/ Submit
  \/ (Compiles \/ LoadCompiled \/ PmRun) /\ UNCHANGED file
  \/ Over

CompiledSpec ==
  CompiledInit /\ [][CompiledNext]_cvars
               /\ WF_cvars(RunStep /\ UNCHANGED <<compiler, file>>)
               /\ WF_cvars(RunReturn /\ UNCHANGED <<compiler, file>>)
-----------------------------------------------------------------------------
Evaluated == Eval(Eval0(Turns), tree)

Comparable == Evaluated.stop \in {"no", "division"} /\ ~Evaluated.redeclared

Ended == host = "vm_run" /\ ~running

RECURSIVE LeavesValue(_)
LeavesValue(n) ==                          \* holds an expression statement
  \/ n.type \in {"INT", "VAR", "OP"}
  \/ n.type = "SEQ" /\ LeavesValue(n.left)
  \/ n.type \in {"SEQ", "IF", "WHILE"} /\ LeavesValue(n.right)
  \/ n.type = "IF" /\ LeavesValue(n.extra)

\* The tree says what the file says: written down again, with the precedences the
\* README gives and brackets only where they are needed, it is the text of the
\* file, up to a byte that ends the input.  (The texts checked have no needless
\* brackets.)  Operators group to the left, an else belongs to the nearest if,
\* and no token is dropped, moved or read twice.
ReadsAsWritten ==
  stage = "codegen" /\ prog = NoCode /\ Len(calls) = 1 => Listing(tree) = UpToEnd(file)

\* The calls of codegen_node, each with locals of its own, leave the bytecode, the
\* slots and the source map that the tree's structure defines, whatever the
\* nesting; exit(1) meets exactly the trees whose code or variables pass a limit;
\* and a value is left behind exactly by the expression statements.
ImplementsCodegen ==
  /\ stage = "returned" /\ code = << >> => prog = Compile(tree) /\ leaves = LeavesValue(tree)
  /\ stage = "exited" => Exits(Compile(tree))

\* The run of the bytecode ends as the evaluation of the tree does, with the
\* same variables, whenever the program declares each variable before it uses it
\* and only once, and its expression statements do not fill the stack.
AgreesWithEval ==
  Ended /\ Comparable =>
    \/ error = "STACK_OVERFLOW"
    \/ /\ error = IF Evaluated.stop = "no" THEN "VM_OK" ELSE "DIVISION_BY_ZERO"
       /\ \A x \in DOMAIN Evaluated.vars :
            \E k \in DOMAIN prog.vars :
              prog.vars[k] = x /\ memory[k - 1] = Evaluated.vars[x]

\* The run of such a program ends if its evaluation does.
EndsWithEval ==
  host = "vm_run" /\ Comparable ~> host # "vm_run"
=============================================================================
