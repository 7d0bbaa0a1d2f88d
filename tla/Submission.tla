------------------------------ MODULE Submission -------------------------------
(***************************************************************************)
(* A tree from the compiler to the end of its run: codegen_compile call by *)
(* call (Compiler), the code it returns loaded and run by vm_run (VM).     *)
(***************************************************************************)
EXTENDS Compiler, CompiledCode

\* MAX_CODEGEN_VARS is 128, MEMORY_SIZE 256.
ASSUME SlotsAssumption == MAX_CODEGEN_VARS <= MemorySize

svars == <<compiler, vars>>

SubmissionInit == CompilerInit /\ Init

Compiles == (CompileNode \/ Finish) /\ UNCHANGED vars            \* pm_submit

LoadCompiled ==                            \* pm_run: vm_load_program
  /\ stage = "returned"
  /\ LoadCode(prog.code)
  /\ UNCHANGED compiler

PmRun == Runs /\ UNCHANGED compiler        \* pm_run: vm_run

SubmissionNext ==
  \/ \E root \in Trees : Begin(root) /\ UNCHANGED vars
  \/ Compiles
  \/ LoadCompiled
  \/ PmRun

SubmissionSpec == SubmissionInit /\ [][SubmissionNext]_svars
-----------------------------------------------------------------------------
\* Every line in the source map is a real one and is entered where an instruction
\* begins, the first at offset 0: no instruction is without a line.
LinesAtInstructions ==
  /\ \A k \in DOMAIN prog.source_map :
       /\ prog.source_map[k].source_line > 0
       /\ prog.source_map[k].bytecode_offset \in DOMAIN depth \ {Offset(prog)}
  /\ prog.source_map # << >> => prog.source_map[1].bytecode_offset = 0

\* What the compiler returns is what the interpreter's bounds and the debugger's
\* breakpoints rest on: from offset 0 the code falls into instructions, every jump
\* is patched to the beginning of one, no way through it takes from the stack what
\* no instruction has pushed, and lines are those of instructions.
CodeAsPromised ==
  code # << >> =>
    /\ Promised(code, depth)
    /\ LinesAtInstructions

\* Expression statements aside, which leave their value, a statement gives back
\* all the stack it takes: if every expression fits the stack, no loop overflows
\* it however long it runs, and a program ends with the stack empty.
StackGivenBack ==
  /\ code # << >>
  /\ ~leaves
  /\ \A at \in DOMAIN depth : depth[at] <= StackSize
  => /\ error # "STACK_OVERFLOW"
     /\ host = "vm_run" /\ ~running /\ error = "VM_OK" => stack = << >>
=============================================================================
