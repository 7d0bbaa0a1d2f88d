---------------------------------- MODULE VM ----------------------------------
(***************************************************************************)
(* The bytecode interpreter of vm.c: operand stack, variable memory,       *)
(* return stack, program counter and the running/error pair its callers    *)
(* look at.  One step is one call of execute_instruction().  The host      *)
(* (program manager or debugger) creates the VM, loads a program, and then *)
(* either lets vm_run() loop or calls vm_step().                           *)
(*                                                                         *)
(* Program counters are the code's own, from 0; the TLA+ sequence code is  *)
(* indexed from 1, so the byte at pc is code[pc + 1].  A stack is the      *)
(* sequence of its live cells (the cells at and above sp are never read).  *)
(***************************************************************************)
EXTENDS Instructions, Integers, Sequences

CONSTANTS
  StackSize,        \* STACK_SIZE
  MemorySize,       \* MEMORY_SIZE
  ReturnStackSize,  \* RETURN_STACK_SIZE
  Programs          \* the byte strings a host may load

ASSUME SizesAssumption ==
  /\ StackSize \in Nat \ {0}
  /\ MemorySize \in Nat \ {0}
  /\ ReturnStackSize \in Nat \ {0}

ASSUME ProgramsAssumption == Programs \subseteq Seq(Byte)

VARIABLES
  code,          \* the loaded bytecode; << >> before vm_load_program
  pc,
  stack,
  return_stack,
  memory,
  running,
  error,
  host           \* "idle", inside "vm_run", or "killed" by SIGFPE

data == <<stack, return_stack, memory>>
vars == <<code, pc, stack, return_stack, memory, running, error, host>>
-----------------------------------------------------------------------------
VMError == {"VM_OK", "STACK_OVERFLOW", "STACK_UNDERFLOW", "INVALID_OPCODE",
            "DIVISION_BY_ZERO", "MEMORY_BOUNDS", "CODE_BOUNDS",
            "RETURN_STACK_OVERFLOW", "RETURN_STACK_UNDERFLOW"}
-----------------------------------------------------------------------------
Result(op, a, b) ==
  CASE op = OP_ADD -> Wrap(a + b)
    [] op = OP_SUB -> Wrap(a - b)
    [] op = OP_MUL -> Wrap(a * b)
    [] op = OP_DIV -> Wrap(TruncDiv(a, b))
    [] op = OP_CMP -> Truth(a < b)
    [] op = OP_CMP_EQ -> Truth(a = b)
    [] op = OP_CMP_NE -> Truth(a # b)
    [] op = OP_CMP_GT -> Truth(a > b)
    [] op = OP_CMP_LE -> Truth(a <= b)
    [] op = OP_CMP_GE -> Truth(a >= b)
-----------------------------------------------------------------------------
(* Fetching, and the two ways an instruction leaves the running/error pair. *)
At(op) == pc < Len(code) /\ code[pc + 1] = op

HasOperand == pc + 1 + IntBytes <= Len(code)
AtOperand(op) == At(op) /\ HasOperand

WordAt(i) == WordIn(code, i)

Operand == WordAt(pc + 2)

Next1 == pc + 1                \* pc after an instruction without an operand
NextOperand == pc + 1 + IntBytes

Proceed == running' = TRUE /\ error' = "VM_OK"
Fault(e) == running' = FALSE /\ error' = e

Top(k) == stack[Len(stack) - k]              \* Top(0) is stack[sp - 1]
Below(n) == SubSeq(stack, 1, Len(stack) - n)

\* Faulty variant: a failed push reports its error and leaves running set.
PushKeepsRunning(s, v) ==
  \/ Len(s) < StackSize /\ stack' = Append(s, v) /\ Proceed
  \/ /\ Len(s) >= StackSize
     /\ stack' = s
     /\ running' = TRUE
     /\ error' = "STACK_OVERFLOW"

PushOn(s, v) ==                              \* stack_push and its caller's test
  \/ /\ Len(s) < StackSize
     /\ stack' = Append(s, v)
     /\ Proceed
  \/ /\ Len(s) >= StackSize
     /\ stack' = s
     /\ Fault("STACK_OVERFLOW")

Underflow(n) ==        \* the pops before the failing one have taken effect
  /\ Len(stack) < n
  /\ stack' = << >>
  /\ Fault("STACK_UNDERFLOW")

\* Faulty variant: the upper bound of a jump is off by one.
JumpOneTooFar(address) ==
  \/ address \in 0..Len(code) + 1 /\ pc' = address /\ Proceed
  \/ address \notin 0..Len(code) + 1 /\ pc' = NextOperand /\ Fault("CODE_BOUNDS")

JumpTo(address) ==
  \/ /\ address \in 0..Len(code)
     /\ pc' = address
     /\ Proceed
  \/ /\ address \notin 0..Len(code)
     /\ pc' = NextOperand
     /\ Fault("CODE_BOUNDS")
-----------------------------------------------------------------------------
(* The cases of execute_instruction. *)
\* Faulty variant: running off the end of the code counts as a halt.
EndHalts ==
  /\ pc >= Len(code)
  /\ running' = FALSE
  /\ error' = "VM_OK"
  /\ UNCHANGED <<pc, data>>

FetchPastEnd ==
  /\ pc >= Len(code)
  /\ Fault("CODE_BOUNDS")
  /\ UNCHANGED <<pc, data>>

OperandCutOff ==               \* read_int32 fails: only the opcode is consumed
  /\ \E op \in OperandOps : At(op)
  /\ ~HasOperand
  /\ pc' = Next1
  /\ Fault("CODE_BOUNDS")
  /\ UNCHANGED data

Push ==
  /\ AtOperand(OP_PUSH)
  /\ pc' = NextOperand
  /\ PushOn(stack, Operand)
  /\ UNCHANGED <<return_stack, memory>>

Pop ==
  /\ At(OP_POP)
  /\ pc' = Next1
  /\ \/ Underflow(1)
     \/ Len(stack) >= 1 /\ stack' = Below(1) /\ Proceed
  /\ UNCHANGED <<return_stack, memory>>

Dup ==
  /\ At(OP_DUP)
  /\ pc' = Next1
  /\ \/ Underflow(1)
     \/ Len(stack) >= 1 /\ PushOn(stack, Top(0))
  /\ UNCHANGED <<return_stack, memory>>

DivideByZero ==                \* tested after the first pop, before the second
  /\ At(OP_DIV)
  /\ Len(stack) >= 1
  /\ Top(0) = 0
  /\ pc' = Next1
  /\ stack' = Below(1)
  /\ Fault("DIVISION_BY_ZERO")
  /\ UNCHANGED <<return_stack, memory>>

Binary(op) ==
  /\ At(op)
  /\ op = OP_DIV /\ Len(stack) >= 1 => Top(0) # 0
  /\ pc' = Next1
  /\ \/ Underflow(2)
     \/ Len(stack) >= 2 /\ PushOn(Below(2), Result(op, Top(1), Top(0)))
  /\ UNCHANGED <<return_stack, memory>>

DivideTrap ==                  \* INT_MIN / -1 traps on x86: SIGFPE
  /\ At(OP_DIV)
  /\ Len(stack) >= 2
  /\ Top(0) = -1
  /\ Top(1) = -HalfRange

Jmp ==
  /\ AtOperand(OP_JMP)
  /\ JumpTo(Operand)
  /\ UNCHANGED data

Branch(op) ==
  /\ AtOperand(op)
  /\ \/ Underflow(1) /\ pc' = NextOperand
     \/ /\ Len(stack) >= 1
        /\ stack' = Below(1)
        /\ IF (Top(0) = 0) = (op = OP_JZ)
             THEN JumpTo(Operand)
             ELSE pc' = NextOperand /\ Proceed
  /\ UNCHANGED <<return_stack, memory>>

\* Faulty variant: the 0 an underflowing pop returns is stored.
StoreUnchecked ==
  /\ AtOperand(OP_STORE)
  /\ pc' = NextOperand
  /\ Operand \in 0..MemorySize - 1
  /\ memory' = [memory EXCEPT ![Operand] = IF stack = << >> THEN 0 ELSE Top(0)]
  /\ \/ Underflow(1)
     \/ Len(stack) >= 1 /\ stack' = Below(1) /\ Proceed
  /\ UNCHANGED return_stack

Store ==                       \* the index is tested before the pop
  /\ AtOperand(OP_STORE)
  /\ pc' = NextOperand
  /\ \/ /\ Operand \notin 0..MemorySize - 1
        /\ Fault("MEMORY_BOUNDS")
        /\ UNCHANGED <<stack, memory>>
     \/ /\ Operand \in 0..MemorySize - 1
        /\ Underflow(1)
        /\ UNCHANGED memory
     \/ /\ Operand \in 0..MemorySize - 1
        /\ Len(stack) >= 1
        /\ memory' = [memory EXCEPT ![Operand] = Top(0)]
        /\ stack' = Below(1)
        /\ Proceed
  /\ UNCHANGED return_stack

Load ==
  /\ AtOperand(OP_LOAD)
  /\ pc' = NextOperand
  /\ \/ /\ Operand \notin 0..MemorySize - 1
        /\ Fault("MEMORY_BOUNDS")
        /\ UNCHANGED stack
     \/ /\ Operand \in 0..MemorySize - 1
        /\ PushOn(stack, memory[Operand])
  /\ UNCHANGED <<return_stack, memory>>

\* Faulty variant: the return address is saved before the operand is read.
CallSavesOperand ==
  /\ AtOperand(OP_CALL)
  /\ Operand \in 0..Len(code) - 1
  /\ Len(return_stack) < ReturnStackSize
  /\ return_stack' = Append(return_stack, Next1)
  /\ pc' = Operand
  /\ Proceed
  /\ UNCHANGED <<stack, memory>>

Call ==
  /\ AtOperand(OP_CALL)
  /\ \/ /\ Operand \notin 0..Len(code) - 1
        /\ pc' = NextOperand
        /\ Fault("CODE_BOUNDS")
        /\ UNCHANGED return_stack
     \/ /\ Operand \in 0..Len(code) - 1
        /\ Len(return_stack) >= ReturnStackSize
        /\ pc' = NextOperand
        /\ Fault("RETURN_STACK_OVERFLOW")
        /\ UNCHANGED return_stack
     \/ /\ Operand \in 0..Len(code) - 1
        /\ Len(return_stack) < ReturnStackSize
        /\ return_stack' = Append(return_stack, NextOperand)
        /\ pc' = Operand
        /\ Proceed
  /\ UNCHANGED <<stack, memory>>

\* Faulty variant: the return address is read and not popped.
RetPeeks ==
  /\ At(OP_RET)
  /\ return_stack # << >>
  /\ pc' = return_stack[Len(return_stack)]
  /\ Proceed
  /\ UNCHANGED data

Ret ==
  /\ At(OP_RET)
  /\ \/ /\ return_stack = << >>
        /\ pc' = Next1
        /\ Fault("RETURN_STACK_UNDERFLOW")
        /\ UNCHANGED return_stack
     \/ /\ return_stack # << >>
        /\ pc' = return_stack[Len(return_stack)]
        /\ return_stack' = SubSeq(return_stack, 1, Len(return_stack) - 1)
        /\ Proceed
  /\ UNCHANGED <<stack, memory>>

\* Faulty variant: the value printed is left on the stack.
PrintPeeks ==
  /\ At(OP_PRINT)
  /\ pc' = Next1
  /\ stack # << >>
  /\ Proceed
  /\ UNCHANGED data

PrintTop ==                    \* OP_PRINT; the text written is not modelled
  /\ At(OP_PRINT)
  /\ pc' = Next1
  /\ \/ Underflow(1)
     \/ Len(stack) >= 1 /\ stack' = Below(1) /\ Proceed
  /\ UNCHANGED <<return_stack, memory>>

Halt ==
  /\ At(OP_HALT)
  /\ pc' = Next1
  /\ running' = FALSE
  /\ error' = "VM_OK"
  /\ UNCHANGED data

InvalidOpcode ==
  /\ pc < Len(code)
  /\ code[pc + 1] \notin Opcodes
  /\ pc' = Next1
  /\ Fault("INVALID_OPCODE")
  /\ UNCHANGED data

Execute ==                     \* always entered with running and VM_OK
  \/ FetchPastEnd \/ OperandCutOff
  \/ Push \/ Pop \/ Dup
  \/ DivideByZero
  \/ \E op \in BinaryOps : Binary(op)
  \/ Jmp
  \/ \E op \in BranchOps : Branch(op)
  \/ Store \/ Load
  \/ Call \/ Ret
  \/ PrintTop \/ Halt \/ InvalidOpcode
-----------------------------------------------------------------------------
(* The host's calls. *)
Init ==                        \* vm_create
  /\ code = << >>
  /\ pc = 0
  /\ stack = << >>
  /\ return_stack = << >>
  /\ memory = [i \in 0..MemorySize - 1 |-> 0]
  /\ running = FALSE
  /\ error = "VM_OK"
  /\ host = "idle"

LoadCode(c) ==                 \* vm_load_program, once per VM as its hosts do
  /\ host = "idle"
  /\ code = << >>
  /\ code' = c
  /\ pc' = 0
  /\ stack' = << >>
  /\ return_stack' = << >>
  /\ memory' = [i \in 0..MemorySize - 1 |-> 0]
  /\ running' = FALSE
  /\ error' = "VM_OK"
  /\ UNCHANGED host

LoadProgram == code = << >> /\ \E c \in Programs : LoadCode(c)

Run ==                         \* entry of vm_run
  /\ host = "idle"
  /\ host' = "vm_run"
  /\ Proceed
  /\ UNCHANGED <<code, pc, data>>

RunStep ==                     \* one turn of vm_run's loop
  /\ host = "vm_run"
  /\ running
  /\ error = "VM_OK"
  /\ Execute
  /\ UNCHANGED <<code, host>>

RunReturn ==
  /\ host = "vm_run"
  /\ ~(running /\ error = "VM_OK")
  /\ host' = "idle"
  /\ UNCHANGED <<code, pc, data, running, error>>

Resume ==                      \* the debugger sets the pair itself
  /\ host = "idle"
  /\ Proceed
  /\ UNCHANGED <<code, pc, data, host>>

Step ==                        \* vm_step: a stopped VM is set running again
  /\ host = "idle"
  /\ running => error = "VM_OK"
  /\ Execute
  /\ UNCHANGED <<code, host>>

Trap ==                        \* the process dies inside OP_DIV
  /\ \/ host = "vm_run" /\ running /\ error = "VM_OK"
     \/ host = "idle" /\ (running => error = "VM_OK")
  /\ DivideTrap
  /\ host' = "killed"
  /\ UNCHANGED <<code, pc, data, running, error>>

Killed == host = "killed" /\ UNCHANGED vars

Next ==
  \/ LoadProgram
  \/ Run \/ RunStep \/ RunReturn
  \/ Resume \/ Step
  \/ Trap \/ Killed

Spec == Init /\ [][Next]_vars

\* vm_run is a plain loop on the only thread: it keeps taking turns until it
\* returns.  Nothing obliges the host to make a call.
FairSpec == Spec /\ WF_vars(RunStep) /\ WF_vars(RunReturn)
-----------------------------------------------------------------------------
TypeOK ==
  /\ code \in Seq(Byte)
  /\ pc \in 0..Len(code)
  /\ stack \in Seq(Word)
  /\ Len(stack) <= StackSize
  /\ return_stack \in Seq(0..Len(code))
  /\ Len(return_stack) <= ReturnStackSize
  /\ memory \in [0..MemorySize - 1 -> Word]
  /\ running \in BOOLEAN
  /\ error \in VMError
  /\ host \in {"idle", "vm_run", "killed"}

\* The pair the callers look at: debugger_continue and debugger_step_line loop
\* on running alone, vm_run on both.  An instruction that reports an error must
\* therefore have cleared running on every one of its paths, or the debugger
\* would go on executing (or spin in vm_step) after a fault.
ErrorStops == error # "VM_OK" => ~running

\* RET can only go to an instruction boundary that follows a CALL of the loaded
\* code: no sequence of jumps, partial pops or re-entries makes the return
\* stack hold another address.
ReturnsFollowCalls ==
  \A i \in DOMAIN return_stack :
    LET ra == return_stack[i]
    IN  ra > IntBytes /\ code[ra - IntBytes] = OP_CALL

\* When vm_run is about to return VM_OK (which pm_run records as FINISHED) the
\* last instruction executed was OP_HALT: falling off the end of the code, a
\* jump to code_size or a return past the end is never taken for success.
OKMeansHalted ==
  host = "vm_run" /\ ~running /\ error = "VM_OK"
    => pc >= 1 /\ code[pc] = OP_HALT

\* A step that ends in an error has not touched the variables or the return
\* stack and has not grown the operand stack; operands popped before the fault
\* are lost, which is why resuming after a fault cannot re-execute it.
FaultsOnlyPop ==
  [][error' # "VM_OK" =>
       /\ UNCHANGED <<memory, return_stack>>
       /\ Len(stack') <= Len(stack)]_vars

\* Code whose jumps and calls, read at any byte, go forward or are out of
\* bounds, cannot keep vm_run from returning, however its calls nest and return.
ForwardOnly ==
  \A i \in 1..Len(code) - IntBytes :
    code[i] \in BranchOps \cup {OP_JMP, OP_CALL}
      => WordAt(i + 1) \notin 0..i + IntBytes - 1

ForwardCodeReturns == host = "vm_run" /\ ForwardOnly ~> host # "vm_run"
=============================================================================
