--------------------------- MODULE SubmissionProofs ---------------------------
(***************************************************************************)
(* Whatever tree is compiled, loaded and run: the compiler keeps its       *)
(* promise (CompilerProofs), the interpreter makes use of it               *)
(* (CompiledCodeProofs), and no third thing comes between them.            *)
(***************************************************************************)
EXTENDS Submission, CompilerProofs, CompiledCodeProofs

(* Which code is loaded, and what the stack holds while it runs: with a      *)
(* compiler that promised depth cells, at least as many; with one that left  *)
(* nothing behind, exactly as many.  pc has left 0 when the run has stopped, *)
(* so a program never starts on the stack of an earlier run.                 *)

Loaded == code # << >> => stage = "returned" /\ code = prog.code

Fits == ~leaves /\ \A at \in DOMAIN depth : depth[at] <= StackSize

Level ==
  /\ error # "STACK_OVERFLOW"
  /\ host = "idle" /\ pc = 0 => stack = << >>
  /\ host = "vm_run" /\ running => Len(stack) = depth[pc]
  /\ host = "vm_run" /\ ~running => pc > 0
  /\ host = "vm_run" /\ ~running /\ error = "VM_OK" => stack = << >>

SInv ==
  /\ CInv
  /\ IInv
  /\ Loaded
  /\ CompiledFaults
  /\ host = "vm_run" => code # << >>
  /\ host = "vm_run" /\ running => Deep(depth)
  /\ code # << >> /\ Fits => Level
-----------------------------------------------------------------------------
(* What the compiler returned is what the interpreter may rest on.          *)
LEMMA LoadedAsPromised ==
  ASSUME CInv, Loaded, code # << >>
  PROVE  /\ Promised(code, depth)
         /\ ~leaves => Exact(code, depth)
<1>1. /\ code = prog.code
      /\ WholeCode(prog.code, DOMAIN depth)
      /\ Balanced(prog.code, depth, MAX_CODEGEN_VARS)
      /\ ~leaves => Exact(prog.code, depth)
  BY DEF CInv, Returned, Loaded
<1>2. \A k \in Int : k \in 0..MAX_CODEGEN_VARS - 1 => k \in 0..MemorySize - 1
  BY SlotsAssumption, SizesAssumption, LimitsAssumption
<1>3. Balanced(code, depth, MemorySize)
  BY <1>1, <1>2 DEF Balanced
<1> QED BY <1>1, <1>3 DEF Promised

(* The lines of what the compiler returned.                                  *)
LEMMA ReturnedLines == ASSUME Returned PROVE LinesAtInstructions
<1>1. prog.source_map \in Seq(Mapping) /\ DOMAIN prog.source_map = 1..Len(prog.source_map)
  BY LenProperties DEF Returned, Progs
<1>2. ASSUME NEW k \in DOMAIN prog.source_map
      PROVE  /\ prog.source_map[k].source_line > 0
             /\ prog.source_map[k].bytecode_offset \in DOMAIN depth \ {Offset(prog)}
  <2>1. prog.source_map[k] \in Mapping
    BY <1>1, ElementOfSeq
  <2>2. prog.source_map[k].bytecode_offset \in DOMAIN depth \ {Offset(prog)}
    BY <1>1 DEF Returned, MapOK
  <2> QED BY <2>1, <2>2 DEF Mapping
<1> QED BY <1>2 DEF Returned, MapOK, LinesAtInstructions

(* An instruction that stops the run has moved pc.                          *)
LEMMA StopMoves ==
  ASSUME TypeOK, pc < Len(code), Execute, ~running'
  PROVE  pc' > 0
<1>1. pc \in Nat /\ IntBytes \in Nat /\ Next1 > 0 /\ NextOperand > 0
  BY WordAssumption DEF TypeOK, Next1, NextOperand
<1>2. \A a : JumpTo(a) => pc' = NextOperand
  BY DEF JumpTo, Proceed
<1>3. ~FetchPastEnd
  BY <1>1 DEF FetchPastEnd, TypeOK
<1>4. pc' \in {Next1, NextOperand}
  BY <1>2, <1>3 DEF Execute, OperandCutOff, Push, Pop, Dup, DivideByZero, Binary, Jmp, Branch,
     Store, Load, Call, Ret, PrintTop, Halt, InvalidOpcode, Proceed
<1> QED BY <1>1, <1>4

(* One instruction of code that leaves nothing behind, on a stack that has   *)
(* room for every expression.                                                *)
LEMMA ExecuteLevel ==
  ASSUME TypeOK, NEW d, Promised(code, d), Exact(code, d), Deep(d), Len(stack) = d[pc],
         \A at \in DOMAIN d : d[at] <= StackSize, Execute
  PROVE  /\ error' # "STACK_OVERFLOW"
         /\ running' => Len(stack') = d[pc']
         /\ ~running' => pc' > 0
         /\ ~running' /\ error' = "VM_OK" => stack' = << >>
<1>1. /\ running' => Len(stack') = Left /\ pc' \in Successors
      /\ error' = "STACK_OVERFLOW" => Left > StackSize
      /\ ~running' /\ error' = "VM_OK" => Current1 = OP_HALT /\ stack' = stack
  BY ExecuteCells
<1>2. /\ pc \in DOMAIN d \ {Len(code)} /\ DOMAIN d \subseteq 0..Len(code)
      /\ \A at \in DOMAIN d : d[at] \in Nat
      /\ stack \in Seq(Word) /\ Len(stack) \in Nat /\ StackSize \in Nat
      /\ pc \in Nat /\ Len(code) \in Nat /\ pc < Len(code)
  BY SizesAssumption, SMTT(30) DEF Deep, Promised, WholeCode, Balanced, TypeOK
<1>3. Left = d[pc] - Pops(Current1) + Pushes(Current1)
  BY DEF Left
<1>4. /\ pc + Size(Current1) \in DOMAIN d
      /\ Current1 \in BranchOps \cup {OP_JMP} => Operand \in DOMAIN d
      /\ Current1 # OP_JMP => d[pc + Size(Current1)] = Left
      /\ Current1 \in BranchOps \cup {OP_JMP} => d[Operand] = Left
  <2>1. /\ pc + Size(Current1) \in DOMAIN d
        /\ Current1 \in BranchOps \cup {OP_JMP} => Operand \in DOMAIN d
    BY <1>2 DEF Promised, WholeCode, Operand, WordAt, Current1
  <2>2. /\ Current1 # OP_JMP => d[pc + Size(Current1)] = Left
        /\ Current1 \in BranchOps \cup {OP_JMP} => d[Operand] = Left
    BY <1>2, <1>3 DEF Exact, Operand, WordAt, Current1
  <2> QED BY <2>1, <2>2
<1>5. Left \in Nat /\ Left <= StackSize
  BY <1>2, <1>4
<1>6. running' => Len(stack') = d[pc']
  BY <1>1, <1>4 DEF Successors
<1>7. ASSUME Current1 = OP_HALT, stack' = stack
      PROVE  stack' = << >>
  <2>1. pc + Size(OP_HALT) = Len(code)
    BY <1>2, <1>7 DEF Promised, WholeCode, Current1
  <2>2. OP_HALT # OP_JMP /\ d[Len(code)] = 0
    BY Sizes DEF Exact
  <2>3. Left = 0
    BY <1>4, <1>7, <2>1, <2>2
  <2>4. Len(stack) = 0
    BY <1>2, <1>3, <1>7, <2>3, HaltEmitted
  <2> QED BY <1>2, <1>7, <2>4, EmptySeq
<1> QED BY <1>1, <1>2, <1>5, <1>6, <1>7, StopMoves
-----------------------------------------------------------------------------
(* The invariant.                                                           *)

LEMMA SInit == SubmissionInit => SInv
<1>1. SubmissionInit => CInv /\ IInv
  BY CInit, InitInv DEF SubmissionInit
<1> QED BY <1>1 DEF SubmissionInit, Init, SInv, Loaded, CompiledFaults

(* While the compiler works nothing is loaded, and when it has returned it   *)
(* works no more.                                                            *)
LEMMA CompilerStep ==
  ASSUME SInv, CompilerNext, UNCHANGED vars
  PROVE  SInv'
<1>1. CInv'
  BY CNext DEF SInv
<1>2. UNCHANGED <<code, pc, stack, return_stack, memory, running, error, host>>
  BY DEF vars, data
<1>3. IInv'
  BY NextInv DEF SInv
<1>4. stage \in {"idle", "codegen"}
  BY NodeStages DEF CompilerNext, Begin, Finish
<1>5. code = << >>
  BY <1>4 DEF SInv, Loaded
<1> QED BY <1>1, <1>2, <1>3, <1>5 DEF SInv, Loaded, CompiledFaults

LEMMA LoadStep ==
  ASSUME SInv, LoadCompiled
  PROVE  SInv'
<1>1. /\ stage = "returned" /\ LoadCode(prog.code) /\ UNCHANGED compiler
  BY DEF LoadCompiled
<1>2. CInv' /\ stage' = stage /\ prog' = prog
  BY <1>1, CStutter DEF SInv, compiler, emitted
<1>3. prog.code \in Seq(Byte)
  BY <1>1 DEF SInv, CInv, Returned, Progs
<1>4. IInv'
  BY <1>1, <1>3, LoadInv
<1>5. /\ code' = prog.code /\ pc' = 0 /\ stack' = << >> /\ error' = "VM_OK"
      /\ host' = "idle"
  BY <1>1 DEF LoadCode
<1> QED BY <1>1, <1>2, <1>4, <1>5 DEF SInv, Loaded, Level, CompiledFaults

(* vm_run on the loaded code, from its first instruction to its return.     *)
LEMMA RunStepKeeps ==
  ASSUME SInv, PmRun
  PROVE  SInv'
<1>1. /\ CInv' /\ stage' = stage /\ prog' = prog /\ depth' = depth /\ leaves' = leaves
  BY CStutter DEF SInv, PmRun, compiler, emitted
<1>2. IInv'
  <2>1. [Next]_vars
    BY DEF PmRun, Runs, RunLoaded, RunTrap, Next
  <2> QED BY <2>1, NextInv DEF SInv
<1>3. TypeOK
  BY DEF SInv, IInv
<1>4. Fits' <=> Fits
  BY <1>1 DEF Fits
<1>5. code # << >> => Promised(code, depth) /\ (~leaves => Exact(code, depth))
  BY LoadedAsPromised DEF SInv
<1>6. code' = code /\ Loaded'
  BY <1>1 DEF SInv, Loaded, PmRun, Runs, RunLoaded, Run, RunStep, RunReturn, RunTrap, Trap
<1>7. CASE RunLoaded
  <2>1. /\ code # << >> /\ pc = 0 /\ error' = "VM_OK" /\ running'
        /\ host = "idle" /\ host' = "vm_run" /\ pc' = pc /\ stack' = stack
    BY <1>7 DEF RunLoaded, Run, Proceed, data
  <2>2. 0 \in DOMAIN depth \ {Len(code)} /\ depth[0] = 0
    BY <1>5, <2>1 DEF Promised, WholeCode, Balanced
  <2>3. Len(stack) \in Nat
    BY <1>3 DEF TypeOK
  <2>4. Deep(depth)'
    BY <1>1, <1>6, <2>1, <2>2, <2>3 DEF Deep
  <2>5. ASSUME Fits PROVE Level'
    <3>1. stack = << >>
      BY <2>1, <2>5 DEF SInv, Level
    <3> QED BY <1>1, <2>1, <2>2, <3>1 DEF Level
  <2> QED BY <1>1, <1>2, <1>4, <1>6, <2>1, <2>4, <2>5 DEF SInv, CompiledFaults
<1>8. CASE RunStep
  <2>1. /\ host = "vm_run" /\ running /\ Execute /\ code' = code /\ host' = host
        /\ code # << >> /\ Deep(depth)
    BY <1>8 DEF RunStep, SInv
  <2>2. Promised(code, depth)
    BY <1>5, <2>1
  <2>3. error' \in Harmless /\ (running' => Deep(depth)')
    <3>1. PICK d : d = depth
      OBVIOUS
    <3>2. error' \in Harmless /\ (running' => Deep(d)')
      BY <1>3, <2>1, <2>2, <3>1, ExecuteDeep
    <3> QED BY <1>1, <3>1, <3>2 DEF Deep
  <2>4. ASSUME Fits PROVE Level'
    <3>1. Exact(code, depth) /\ \A at \in DOMAIN depth : depth[at] <= StackSize
      BY <1>5, <2>1, <2>4 DEF Fits
    <3>2. Len(stack) = depth[pc]
      BY <2>1, <2>4 DEF SInv, Level
    <3>3. /\ error' # "STACK_OVERFLOW"
          /\ running' => Len(stack') = depth[pc']
          /\ ~running' => pc' > 0
          /\ ~running' /\ error' = "VM_OK" => stack' = << >>
      BY <1>3, <2>1, <2>2, <3>1, <3>2, ExecuteLevel
    <3> QED BY <1>1, <2>1, <3>3 DEF Level
  <2> QED BY <1>1, <1>2, <1>4, <1>6, <2>1, <2>3, <2>4 DEF SInv, CompiledFaults, Harmless
<1>9. CASE RunReturn \/ RunTrap
  <2>1. /\ UNCHANGED <<code, pc, stack, running, error>> /\ host' # "vm_run"
        /\ host' = "idle" => host = "vm_run" /\ ~(running /\ error = "VM_OK")
    BY <1>9 DEF RunReturn, RunTrap, Trap, data
  <2>2. pc \in Nat /\ (error # "VM_OK" => ~running)
    BY <1>3 DEF TypeOK, SInv, IInv, ErrorStops
  <2>3. ASSUME code # << >>, Fits PROVE Level'
    BY <2>1, <2>2, <2>3 DEF SInv, Level
  <2> QED BY <1>1, <1>2, <1>4, <1>6, <2>1, <2>3 DEF SInv, CompiledFaults
<1> QED BY <1>7, <1>8, <1>9 DEF PmRun, Runs

LEMMA SNext ==
  ASSUME SInv, [SubmissionNext]_svars
  PROVE  SInv'
<1>1. CASE (\E root \in Trees : Begin(root) /\ UNCHANGED vars) \/ Compiles
  BY <1>1, CompilerStep DEF Compiles, CompilerNext
<1>2. CASE UNCHANGED svars
  <2>1. UNCHANGED <<compiler, vars>>
    BY <1>2 DEF svars
  <2>2. CInv' /\ stage' = stage /\ prog' = prog /\ depth' = depth /\ leaves' = leaves
    BY <2>1, CStutter DEF SInv, compiler, emitted
  <2>3. IInv'
    BY <2>1, NextInv DEF SInv
  <2>4. UNCHANGED <<code, pc, stack, return_stack, memory, running, error, host>>
    BY <2>1 DEF vars, data
  <2> QED BY <2>2, <2>3, <2>4 DEF SInv, Loaded, CompiledFaults, Deep, Fits, Level
<1> QED BY <1>1, <1>2, LoadStep, RunStepKeeps DEF SubmissionNext

LEMMA SubmissionInvariance == SubmissionSpec => []SInv
<1>1. SInv /\ [SubmissionNext]_svars => SInv'
  BY SNext
<1> QED BY SInit, <1>1, PTL DEF SubmissionSpec

(* Whatever tree was compiled, the code that vm_run is given is whole         *)
(* instructions, with jumps patched to the beginning of one, that take        *)
(* nothing from the stack that is not there; and the debugger can stop at     *)
(* each line that the source map knows.                                       *)
THEOREM EveryTreeAsPromised == SubmissionSpec => []CodeAsPromised
<1>1. ASSUME SInv PROVE CodeAsPromised
  <2> SUFFICES ASSUME code # << >> PROVE Promised(code, depth) /\ LinesAtInstructions
    BY DEF CodeAsPromised
  <2>1. Returned
    BY <1>1 DEF SInv, CInv, Loaded
  <2> QED BY <1>1, <2>1, LoadedAsPromised, ReturnedLines DEF SInv
<1> QED BY <1>1, SubmissionInvariance, PTL

(* Whatever tree was compiled, its run meets no fault but a division by zero  *)
(* and a full stack: from the parser on, nothing has to be checked again.     *)
THEOREM EveryTreeIsSafe == SubmissionSpec => []CompiledFaults
<1>1. SInv => CompiledFaults
  BY DEF SInv
<1> QED BY <1>1, SubmissionInvariance, PTL

(* A program without expression statements whose every expression fits the    *)
(* stack never overflows it, and ends with nothing on it.                     *)
THEOREM EveryStackGivenBack == SubmissionSpec => []StackGivenBack
<1>1. SInv => StackGivenBack
  BY DEF SInv, Fits, Level, StackGivenBack
<1> QED BY <1>1, SubmissionInvariance, PTL
=============================================================================
