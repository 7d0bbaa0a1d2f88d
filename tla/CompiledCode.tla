----------------------------- MODULE CompiledCode ------------------------------
(***************************************************************************)
(* The interpreter when pm_run gives it code that keeps the compiler's     *)
(* promise: loaded once and run by vm_run, with no debugger that resumes   *)
(* it after a fault.                                                       *)
(***************************************************************************)
EXTENDS VM, Promise

Promised(c, depth) == WholeCode(c, DOMAIN depth) /\ Balanced(c, depth, MemorySize)

RunLoaded ==                   \* pm_run: vm_load_program, then vm_run
  /\ code # << >>
  /\ pc = 0
  /\ Run

RunTrap == host = "vm_run" /\ Trap     \* SIGFPE inside vm_run

Runs == RunLoaded \/ RunStep \/ RunReturn \/ RunTrap

CodeSpec == Init /\ [][LoadProgram \/ Runs]_vars

\* The only faults compiled code can meet are a division by zero and a full
\* operand stack: no instruction pops what no other has pushed, no jump leaves
\* the code or lands inside an instruction, and every slot is in memory.
CompiledFaults == error \in {"VM_OK", "DIVISION_BY_ZERO", "STACK_OVERFLOW"}
=============================================================================
