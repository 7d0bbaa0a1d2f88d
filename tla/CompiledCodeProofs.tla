-------------------------- MODULE CompiledCodeProofs ---------------------------
(***************************************************************************)
(* Whatever code keeps the compiler's promise, vm_run meets no fault on it *)
(* but a division by zero and a full stack.                                *)
(***************************************************************************)
EXTENDS CompiledCode, VMProofs

(* What the instructions of compiled code take and leave, opcode by opcode.  *)

LEMMA Binaries == ASSUME NEW op \in BinaryOps
                  PROVE  /\ Pops(op) = 2 /\ Pushes(op) = 1
                         /\ op \notin OperandOps /\ op # OP_JMP /\ op # OP_HALT
BY DEF Pops, Pushes, BinaryOps, OperandOps, BranchOps, OP_PUSH, OP_POP, OP_DUP, OP_ADD, OP_SUB,
       OP_MUL, OP_DIV, OP_CMP, OP_CMP_EQ, OP_CMP_NE, OP_CMP_GT, OP_CMP_LE, OP_CMP_GE, OP_JMP,
       OP_JZ, OP_JNZ, OP_STORE, OP_LOAD, OP_CALL, OP_PRINT, OP_HALT

LEMMA Others ==
  /\ Pops(OP_PUSH) = 0 /\ Pushes(OP_PUSH) = 1
  /\ Pops(OP_LOAD) = 0 /\ Pushes(OP_LOAD) = 1
  /\ Pops(OP_STORE) = 1 /\ Pushes(OP_STORE) = 0
  /\ Pops(OP_POP) = 1 /\ Pushes(OP_POP) = 0
  /\ Pops(OP_PRINT) = 1 /\ Pushes(OP_PRINT) = 0
  /\ Pops(OP_DUP) = 1 /\ Pushes(OP_DUP) = 2
  /\ Pops(OP_JMP) = 0 /\ Pushes(OP_JMP) = 0
  /\ \A op \in BranchOps : Pops(op) = 1 /\ Pushes(op) = 0
BY DEF Pops, Pushes, BinaryOps, BranchOps, OP_PUSH, OP_POP, OP_DUP, OP_ADD, OP_SUB,
       OP_MUL, OP_DIV, OP_CMP, OP_CMP_EQ, OP_CMP_NE, OP_CMP_GT, OP_CMP_LE, OP_CMP_GE, OP_JMP,
       OP_JZ, OP_JNZ, OP_STORE, OP_LOAD, OP_PRINT

Plain == {OP_POP, OP_DUP, OP_PRINT}
WithOperand == {OP_PUSH, OP_STORE, OP_LOAD} \cup BranchOps

LEMMA Sizes ==
  /\ \A op \in Plain : op \notin OperandOps /\ op # OP_JMP /\ op # OP_HALT
  /\ \A op \in WithOperand : op \in OperandOps /\ op # OP_JMP /\ op # OP_HALT
  /\ OP_JMP \in OperandOps /\ OP_HALT \notin OperandOps
BY DEF Plain, WithOperand, OperandOps, BranchOps, OP_PUSH, OP_POP, OP_DUP, OP_JMP,
       OP_JZ, OP_JNZ, OP_STORE, OP_LOAD, OP_CALL, OP_PRINT, OP_HALT
-----------------------------------------------------------------------------
(* pc stays at the beginning of an instruction of the compiled code, and the *)
(* only one that stops without an error is the last.                         *)

LEMMA ExecuteMoves ==
  ASSUME TypeOK, NEW starts, WholeCode(code, starts), pc \in starts, Execute
  PROVE  /\ pc' \in starts
         /\ Halted => pc' = Len(code)
<1> DEFINE op == code[pc + 1]
<1>0. pc \in Nat /\ Len(code) \in Nat /\ IntBytes \in Nat
  BY WordAssumption DEF TypeOK
<1>1. starts \subseteq 0..Len(code) /\ pc \in starts
  BY DEF WholeCode
<1>2. CASE FetchPastEnd
  <2>1. pc' = pc
    BY <1>2 DEF FetchPastEnd
  <2> QED BY <1>0, <1>1, <2>1 DEF Halted
<1>3. CASE pc < Len(code)
  <2>1. /\ op \in Opcodes \ {OP_CALL, OP_RET}
        /\ pc + Size(op) \in starts
        /\ op \in BranchOps \cup {OP_JMP} => Operand \in starts
        /\ op = OP_HALT => pc + 1 = Len(code)
    <3>1. pc \in starts \ {Len(code)}
      BY <1>0, <1>1, <1>3
    <3>2. Operand = WordIn(code, pc + 2)
      BY DEF Operand, WordAt
    <3>3. /\ op \in Opcodes \ {OP_CALL, OP_RET}
          /\ pc + Size(op) \in starts
          /\ op \in BranchOps \cup {OP_JMP} => Operand \in starts
          /\ op = OP_HALT => pc + Size(op) = Len(code)
      BY <3>1, <3>2 DEF WholeCode
    <3>4. op = OP_HALT => Size(op) = 1
      BY Sizes DEF Size
    <3> QED BY <3>3, <3>4
  <2>2. op \in OperandOps => HasOperand /\ NextOperand \in starts
    <3>1. ASSUME op \in OperandOps PROVE pc + Size(op) = NextOperand
      BY <1>0, <3>1 DEF Size, NextOperand
    <3> QED BY <1>0, <1>1, <2>1, <3>1 DEF HasOperand, NextOperand
  <2>3. op \notin OperandOps => Next1 \in starts
    BY <2>1 DEF Size, Next1
  <2>4. Halted => pc' = Len(code)
    BY <2>1 DEF Halted
  <2>5. CASE Push \/ Store \/ Load
    <3>1. pc' = NextOperand /\ op \in OperandOps
      BY <2>5 DEF Push, Store, Load, AtOperand, At, OperandOps
    <3> QED BY <2>2, <2>4, <3>1
  <2>6. CASE Pop \/ Dup \/ PrintTop \/ Halt
    <3>1. pc' = Next1 /\ op \in {OP_POP, OP_DUP, OP_PRINT, OP_HALT}
      BY <2>6 DEF Pop, Dup, PrintTop, Halt, At
    <3>2. op \notin OperandOps
      BY <3>1 DEF OperandOps, BranchOps, OP_POP, OP_DUP, OP_PRINT, OP_HALT, OP_JZ, OP_JNZ,
                  OP_PUSH, OP_JMP, OP_STORE, OP_LOAD, OP_CALL
    <3> QED BY <2>3, <2>4, <3>1, <3>2
  <2>7. CASE DivideByZero \/ \E b \in BinaryOps : Binary(b)
    <3>1. pc' = Next1 /\ op \in BinaryOps
      BY <2>7 DEF DivideByZero, Binary, At, BinaryOps
    <3>2. op \notin OperandOps
      BY <3>1 DEF OperandOps, BranchOps, BinaryOps, OP_ADD, OP_SUB, OP_MUL, OP_DIV, OP_CMP,
                  OP_CMP_EQ, OP_CMP_NE, OP_CMP_GT, OP_CMP_LE, OP_CMP_GE, OP_JZ, OP_JNZ,
                  OP_PUSH, OP_JMP, OP_STORE, OP_LOAD, OP_CALL
    <3> QED BY <2>3, <2>4, <3>1, <3>2
  <2>8. CASE Jmp \/ \E b \in BranchOps : Branch(b)
    <3>1. pc' \in {Operand, NextOperand} /\ op \in BranchOps \cup {OP_JMP}
      BY <2>8 DEF Jmp, Branch, JumpTo, AtOperand, At
    <3>2. op \in OperandOps
      BY <3>1 DEF OperandOps
    <3> QED BY <2>1, <2>2, <2>4, <3>1, <3>2
  <2>9. ~Call /\ ~Ret
    BY <2>1 DEF Call, Ret, AtOperand, At
  <2>10. ~OperandCutOff
    BY <2>2 DEF OperandCutOff, At
  <2>11. ~InvalidOpcode
    BY <2>1 DEF InvalidOpcode
  <2>12. ~FetchPastEnd
    BY <1>0, <1>3 DEF FetchPastEnd
  <2> QED BY <2>5, <2>6, <2>7, <2>8, <2>9, <2>10, <2>11, <2>12 DEF Execute
<1>4. ASSUME ~(pc < Len(code)) PROVE FetchPastEnd
  BY <1>0, <1>4 DEF Execute, OperandCutOff, Push, Pop, Dup, DivideByZero, Binary, Jmp, Branch,
         Store, Load, Call, Ret, PrintTop, Halt, InvalidOpcode, AtOperand, At
<1> QED BY <1>2, <1>3, <1>4
-----------------------------------------------------------------------------
(* What one instruction of promised code does to the operand stack and to pc. *)
Current1 == code[pc + 1]
Left == Len(stack) - Pops(Current1) + Pushes(Current1)
Successors ==
  (IF Current1 \in {OP_JMP, OP_HALT} THEN {} ELSE {pc + Size(Current1)})
    \cup (IF Current1 \in BranchOps \cup {OP_JMP} THEN {Operand} ELSE {})

Deep(depth) ==
  /\ pc \in DOMAIN depth \ {Len(code)}
  /\ Len(stack) >= depth[pc]

Harmless == {"VM_OK", "DIVISION_BY_ZERO", "STACK_OVERFLOW"}

LEMMA PushHarmless ==
  ASSUME NEW s \in Seq(Word), NEW v \in Word, PushOn(s, v), Len(s) <= StackSize
  PROVE  /\ error' \in Harmless
         /\ running' => Len(stack') = Len(s) + 1
         /\ error' = "STACK_OVERFLOW" => Len(s) + 1 > StackSize
         /\ ~running' => error' # "VM_OK"
<1>1. Len(s) \in Nat /\ StackSize \in Nat
  BY SizesAssumption, LenProperties
<1> QED BY <1>1, AppendProperties DEF PushOn, Proceed, Fault, Harmless

(* It finds the cells it pops, goes on where the promise says, stops without  *)
(* an error only at OP_HALT, and overflows only a stack that has no room.     *)
LEMMA ExecuteCells ==
  ASSUME TypeOK, NEW depth, Promised(code, depth), Deep(depth), Execute
  PROVE  /\ error' \in Harmless
         /\ running' => Len(stack') = Left /\ pc' \in Successors
         /\ error' = "STACK_OVERFLOW" => Left > StackSize
         /\ ~running' /\ error' = "VM_OK" => Current1 = OP_HALT /\ stack' = stack
<1> DEFINE starts == DOMAIN depth
           op == Current1
<1>0. /\ pc \in Nat /\ Len(code) \in Nat /\ IntBytes \in Nat
      /\ stack \in Seq(Word) /\ Len(stack) \in Nat
      /\ StackSize \in Nat /\ Len(stack) <= StackSize
      /\ memory \in [0..MemorySize - 1 -> Word]
  BY WordAssumption, SizesAssumption DEF TypeOK
<1>1. /\ starts \subseteq 0..Len(code) /\ pc \in starts \ {Len(code)} /\ pc < Len(code)
      /\ Len(stack) >= depth[pc] /\ \A at \in starts : depth[at] \in Nat
  BY <1>0 DEF Deep, Promised, WholeCode, Balanced
<1>2. /\ op \in Opcodes \ {OP_CALL, OP_RET}
      /\ pc + Size(op) \in starts
      /\ op \in BranchOps \cup {OP_JMP} => Operand \in starts \ {Len(code)}
  BY <1>1 DEF Promised, WholeCode, Operand, WordAt, Current1
<1>3. /\ depth[pc] >= Pops(op)
      /\ op \in {OP_STORE, OP_LOAD} => Operand \in 0..MemorySize - 1
  BY <1>1 DEF Promised, Balanced, Operand, WordAt, Current1
<1>4. Pops(op) \in 0..2 /\ Pushes(op) \in 0..2 /\ Len(stack) >= Pops(op)
  BY <1>0, <1>1, <1>3 DEF Pops, Pushes
<1>5. op \in OperandOps => HasOperand /\ NextOperand = pc + Size(op)
  BY <1>0, <1>1, <1>2 DEF Size, HasOperand, NextOperand
<1>6. op \notin OperandOps => Next1 = pc + Size(op)
  BY DEF Size, Next1
<1>7. op = code[pc + 1]
  BY DEF Current1
<1>8. /\ Left = Len(stack) - Pops(op) + Pushes(op)
      /\ op \notin {OP_JMP, OP_HALT} => pc + Size(op) \in Successors
      /\ op \in BranchOps \cup {OP_JMP} => Operand \in Successors
  BY DEF Left, Successors
<1> HIDE DEF op
<1>9. ASSUME NEW n \in 0..2, n <= Len(stack)
      PROVE  Below(n) \in Seq(Word) /\ Len(Below(n)) = Len(stack) - n
  BY <1>9, BelowIsStack
<1>10. \A e \in Opcodes : At(e) => op = e
  BY <1>7 DEF At
<1> USE DEF Harmless
<1> DEFINE PushedFrom(n) ==
             /\ running' => Len(stack') = n + 1
             /\ error' = "STACK_OVERFLOW" => n + 1 > StackSize
             /\ ~running' => error' # "VM_OK"
<1>11. CASE Push
  <2>1. op = OP_PUSH /\ pc' = NextOperand /\ PushOn(stack, Operand)
    BY <1>7, <1>11 DEF Push, AtOperand, At
  <2>2. Operand \in Word
    BY <1>1, <1>5, <2>1, Sizes, FetchInBounds DEF WithOperand
  <2>3. error' \in Harmless /\ PushedFrom(Len(stack))
    BY <1>0, <2>1, <2>2, PushHarmless
  <2> QED BY <1>0, <1>5, <1>8, <2>1, <2>3, Sizes, Others DEF WithOperand
<1>12. CASE Load
  <2>1. op = OP_LOAD /\ pc' = NextOperand
    BY <1>7, <1>12 DEF Load, AtOperand, At
  <2>2. PushOn(stack, memory[Operand]) /\ memory[Operand] \in Word
    BY <1>0, <1>3, <1>12, <2>1 DEF Load
  <2>3. error' \in Harmless /\ PushedFrom(Len(stack))
    BY <1>0, <2>2, PushHarmless
  <2> QED BY <1>0, <1>5, <1>8, <2>1, <2>3, Sizes, Others DEF WithOperand
<1>13. CASE Store
  <2>1. op = OP_STORE /\ pc' = NextOperand
    BY <1>7, <1>13 DEF Store, AtOperand, At
  <2>2. Len(stack) >= 1
    BY <1>0, <1>4, <2>1, Others
  <2>3. stack' = Below(1) /\ Proceed
    BY <1>3, <1>13, <2>1, <2>2 DEF Store, Underflow
  <2>4. Len(stack') = Len(stack) - 1
    BY <1>0, <1>9, <2>2, <2>3
  <2> QED BY <1>0, <1>5, <1>8, <2>1, <2>3, <2>4, Sizes, Others DEF WithOperand, Proceed
<1>14. CASE Pop \/ PrintTop
  <2>1. op \in {OP_POP, OP_PRINT} /\ pc' = Next1
    BY <1>7, <1>14 DEF Pop, PrintTop, At
  <2>2. Len(stack) >= 1
    BY <1>0, <1>4, <2>1, Others
  <2>3. stack' = Below(1) /\ Proceed
    BY <1>14, <2>2 DEF Pop, PrintTop, Underflow
  <2>4. Len(stack') = Len(stack) - 1
    BY <1>0, <1>9, <2>2, <2>3
  <2> QED BY <1>0, <1>6, <1>8, <2>1, <2>3, <2>4, Sizes, Others DEF Plain, Proceed
<1>15. CASE Dup
  <2>1. op = OP_DUP /\ pc' = Next1
    BY <1>7, <1>15 DEF Dup, At
  <2>2. Len(stack) >= 1
    BY <1>0, <1>4, <2>1, Others
  <2>3. PushOn(stack, Top(0)) /\ Top(0) \in Word
    BY <1>0, <1>15, <2>2, TopIsCell DEF Dup, Underflow
  <2>4. error' \in Harmless /\ PushedFrom(Len(stack))
    BY <1>0, <2>3, PushHarmless
  <2> QED BY <1>0, <1>6, <1>8, <2>1, <2>4, Sizes, Others DEF Plain
<1>16. CASE DivideByZero
  BY <1>16 DEF DivideByZero, Fault
<1>17. CASE \E b \in BinaryOps : Binary(b)
  <2>1. PICK b \in BinaryOps : Binary(b)
    BY <1>17
  <2>2. op = b /\ pc' = Next1
    BY <1>7, <2>1 DEF Binary, At
  <2>3. Len(stack) >= 2
    BY <1>0, <1>4, <2>2, Binaries
  <2>4. PushOn(Below(2), Result(b, Top(1), Top(0)))
    BY <2>1, <2>3, <1>0 DEF Binary, Underflow
  <2>5. Result(b, Top(1), Top(0)) \in Word
    <3>1. Top(0) \in Word /\ Top(1) \in Word
      BY <1>0, <2>3, TopIsCell
    <3>2. b = OP_DIV => Top(0) # 0
      BY <1>0, <2>1, <2>3 DEF Binary
    <3> QED BY <3>1, <3>2, ResultInWord
  <2>6. Below(2) \in Seq(Word) /\ Len(Below(2)) = Len(stack) - 2
    BY <1>0, <1>9, <2>3
  <2>7. error' \in Harmless /\ PushedFrom(Len(stack) - 2)
    BY <1>0, <2>4, <2>5, <2>6, PushHarmless
  <2> QED BY <1>0, <1>6, <1>8, <2>2, <2>7, Binaries
<1>18. CASE Jmp
  <2>1. op = OP_JMP /\ JumpTo(Operand) /\ stack' = stack
    BY <1>7, <1>18 DEF Jmp, AtOperand, At, data
  <2>2. pc' = Operand /\ Proceed
    BY <1>1, <1>2, <2>1 DEF JumpTo
  <2> QED BY <1>0, <1>8, <2>1, <2>2, Others DEF Proceed
<1>19. CASE \E b \in BranchOps : Branch(b)
  <2>1. PICK b \in BranchOps : Branch(b)
    BY <1>19
  <2>2. op = b
    BY <1>7, <2>1 DEF Branch, AtOperand, At
  <2>3. Len(stack) >= 1
    BY <1>0, <1>4, <2>2, Others
  <2>4. stack' = Below(1) /\ (JumpTo(Operand) \/ (pc' = NextOperand /\ Proceed))
    BY <2>1, <2>3, <1>0 DEF Branch, Underflow
  <2>5. Len(stack') = Len(stack) - 1
    BY <1>0, <1>9, <2>3, <2>4
  <2>6. (pc' = Operand \/ pc' = NextOperand) /\ Proceed
    BY <1>1, <1>2, <2>2, <2>4 DEF JumpTo
  <2> QED BY <1>0, <1>5, <1>8, <2>2, <2>5, <2>6, Sizes, Others DEF WithOperand, Proceed
<1>20. CASE Halt
  BY <1>20 DEF Halt, At, data, Current1
<1>21. ~Call /\ ~Ret /\ ~InvalidOpcode /\ ~OperandCutOff /\ ~FetchPastEnd
  BY <1>0, <1>1, <1>2, <1>5, <1>7
     DEF Call, Ret, InvalidOpcode, OperandCutOff, FetchPastEnd, AtOperand, At
<1> QED BY <1>11, <1>12, <1>13, <1>14, <1>15, <1>16, <1>17, <1>18, <1>19, <1>20, <1>21 DEF Execute
-----------------------------------------------------------------------------
(* No instruction of promised code finds less on the stack than it pops, and *)
(* each leaves what the next one is promised.                                *)
LEMMA ExecuteDeep ==
  ASSUME TypeOK, NEW depth, Promised(code, depth), Deep(depth), Execute, code' = code
  PROVE  error' \in Harmless /\ (running' => Deep(depth)')
<1> DEFINE left == depth[pc] - Pops(Current1) + Pushes(Current1)
<1>1. error' \in Harmless /\ (running' => Len(stack') = Left /\ pc' \in Successors)
  BY ExecuteCells
<1> SUFFICES ASSUME running' PROVE Deep(depth)'
  BY <1>1
<1>2. /\ Len(stack) \in Nat /\ Len(code) \in Nat
      /\ pc \in DOMAIN depth \ {Len(code)} /\ Len(stack) >= depth[pc]
      /\ \A at \in DOMAIN depth : depth[at] \in Nat
  BY DEF TypeOK, Deep, Promised, Balanced
<1>3. Pops(Current1) \in 0..2 /\ Pushes(Current1) \in 0..2
  BY DEF Pops, Pushes
<1>4. pc' \in DOMAIN depth \ {Len(code)} /\ depth[pc'] <= left
  <2>1. CASE pc' = pc + Size(Current1) /\ Current1 \notin {OP_JMP, OP_HALT}
    BY <1>2, <2>1 DEF Promised, WholeCode, Balanced, Current1
  <2>2. CASE pc' = Operand /\ Current1 \in BranchOps \cup {OP_JMP}
    BY <1>2, <2>2 DEF Promised, WholeCode, Balanced, Current1, Operand, WordAt
  <2> QED BY <1>1, <2>1, <2>2 DEF Successors
<1>5. Len(stack') >= depth[pc']
  <2>1. depth[pc] \in Nat /\ depth[pc'] \in Nat /\ Len(stack') = Left
    BY <1>1, <1>2, <1>4
  <2>2. Len(stack') = Len(stack) - Pops(Current1) + Pushes(Current1)
    BY <2>1 DEF Left
  <2> QED BY <1>2, <1>3, <1>4, <2>1, <2>2
<1> QED BY <1>4, <1>5 DEF Deep
-----------------------------------------------------------------------------
(* Before the first step of vm_run the stack may hold anything: the depth at  *)
(* the beginning of the code is 0.                                            *)
RunInv(Depths) ==
  /\ IInv
  /\ CompiledFaults
  /\ code # << >> => code \in Programs
  /\ host = "vm_run" => code # << >>
  /\ host = "vm_run" /\ running => Deep(Depths[code])

LEMMA RunsMap == [LoadProgram \/ Runs]_vars => [Next]_vars
BY DEF Runs, RunLoaded, RunTrap, Next

LEMMA RunNext ==
  ASSUME NEW Depths, \A c \in Programs : Promised(c, Depths[c])
  PROVE  RunInv(Depths) /\ [LoadProgram \/ Runs]_vars => RunInv(Depths)'
<1> SUFFICES ASSUME RunInv(Depths), [LoadProgram \/ Runs]_vars PROVE RunInv(Depths)'
  OBVIOUS
<1>1. IInv'
  BY RunsMap, NextInv DEF RunInv
<1>2. TypeOK
  BY DEF RunInv, IInv
<1>3. CASE LoadProgram
  BY <1>1, <1>3 DEF LoadProgram, LoadCode, RunInv, CompiledFaults
<1>4. CASE RunLoaded
  <2>1. /\ code \in Programs /\ pc = 0 /\ error' = "VM_OK"
        /\ UNCHANGED <<code, pc, stack>>
    BY <1>4 DEF RunLoaded, Run, Proceed, RunInv, data
  <2>2. Promised(code, Depths[code])
    BY <2>1
  <2>3. Deep(Depths[code])'
    <3>1. Len(stack) \in Nat
      BY <1>2 DEF TypeOK
    <3>2. 0 \in DOMAIN Depths[code] /\ Len(code) # 0 /\ Depths[code][0] = 0
      BY <2>2 DEF Promised, WholeCode, Balanced
    <3> QED BY <2>1, <3>1, <3>2 DEF Deep
  <2> QED BY <1>1, <1>4, <2>1, <2>3 DEF RunInv, CompiledFaults, RunLoaded
<1>5. CASE RunStep
  <2>1. /\ host = "vm_run" /\ running /\ Execute /\ UNCHANGED <<code, host>>
    BY <1>5 DEF RunStep
  <2>2. code \in Programs /\ Promised(code, Depths[code]) /\ Deep(Depths[code])
    BY <2>1 DEF RunInv
  <2>3. error' \in Harmless /\ (running' => Deep(Depths[code])')
    <3>1. PICK c \in Programs : c = code
      BY <2>2
    <3>2. error' \in Harmless /\ (running' => Deep(Depths[c])')
      BY <1>2, <2>1, <2>2, <3>1, ExecuteDeep
    <3>3. code' = c
      BY <2>1, <3>1
    <3> QED BY <3>2, <3>3 DEF Deep
  <2> QED BY <1>1, <2>1, <2>2, <2>3 DEF RunInv, CompiledFaults, Harmless
<1>6. CASE RunReturn \/ RunTrap
  <2>1. /\ UNCHANGED <<code, pc, data, running, error>> /\ host' # "vm_run"
    BY <1>6 DEF RunReturn, RunTrap, Trap
  <2> QED BY <1>1, <2>1 DEF RunInv, CompiledFaults
<1>7. CASE UNCHANGED vars
  BY <1>1, <1>7 DEF vars, data, RunInv, CompiledFaults, Deep
<1> QED BY <1>3, <1>4, <1>5, <1>6, <1>7 DEF Runs

(* Any code that keeps the promise of the compiler, whatever program it is    *)
(* from, is run by vm_run without an underflow, a jump out of the code, an    *)
(* access outside the memory, a byte that is no opcode or a missing return.   *)
THEOREM CompiledCodeIsSafe ==
  ASSUME NEW Depths, \A c \in Programs : Promised(c, Depths[c])
  PROVE  CodeSpec => []CompiledFaults
<1>1. Init => RunInv(Depths)
  BY InitInv DEF Init, RunInv, CompiledFaults
<1>2. RunInv(Depths) /\ [LoadProgram \/ Runs]_vars => RunInv(Depths)'
  BY RunNext
<1>3. RunInv(Depths) => CompiledFaults
  BY DEF RunInv
<1> QED BY <1>1, <1>2, <1>3, PTL DEF CodeSpec
=============================================================================
