------------------------------- MODULE VMProofs -------------------------------
(***************************************************************************)
(* The interpreter keeps its types, its error discipline and its return    *)
(* addresses for every program, every size of its stacks and memory, and   *)
(* every order of the host's calls.                                        *)
(***************************************************************************)
EXTENDS VM, SequenceTheorems, TLAPS

(* A wrapped value fits a cell. *)
LEMMA WrapInWord == ASSUME NEW x \in Int PROVE Wrap(x) \in Word
<1> DEFINE n == 2 * HalfRange
           y == x + HalfRange
<1>1. n \in Nat \ {0} /\ y \in Int
  BY WordAssumption
<1>2. y % n \in 0 .. n - 1
  <2> HIDE DEF n, y
  <2> QED BY <1>1
<1> QED BY <1>2, WordAssumption DEF Wrap, Word

(* Every operation of two cells has a cell for its result. *)
LEMMA ResultInWord ==
  ASSUME NEW op \in BinaryOps, NEW a \in Word, NEW b \in Word,
         op = OP_DIV => b # 0
  PROVE  Result(op, a, b) \in Word
<1>1. a \in Int /\ b \in Int
  BY WordAssumption DEF Word
<1>2. Wrap(a + b) \in Word /\ Wrap(a - b) \in Word /\ Wrap(a * b) \in Word
  BY <1>1, WrapInWord
<1>3. 0 \in Word /\ 1 \in Word
  BY WordAssumption DEF Word
<1>4. ASSUME b # 0 PROVE Wrap(TruncDiv(a, b)) \in Word
  <2>1. Abs(a) \in Nat /\ Abs(b) \in Nat \ {0}
    BY <1>1, <1>4 DEF Abs
  <2>2. Abs(a) \div Abs(b) \in Int
    BY <2>1
  <2>3. TruncDiv(a, b) \in Int
    BY <2>2 DEF TruncDiv
  <2> QED BY <2>3, WrapInWord
<1>5. /\ Truth(a < b) \in Word
      /\ Truth(a = b) \in Word
      /\ Truth(a # b) \in Word
      /\ Truth(a > b) \in Word
      /\ Truth(a <= b) \in Word
      /\ Truth(a >= b) \in Word
  BY <1>3 DEF Truth
<1> QED
  BY <1>2, <1>4, <1>5
  DEF Result, BinaryOps, OP_ADD, OP_SUB, OP_MUL, OP_DIV, OP_CMP, OP_CMP_EQ,
      OP_CMP_NE, OP_CMP_GT, OP_CMP_LE, OP_CMP_GE
-----------------------------------------------------------------------------
(* The pieces of an instruction. *)

(* A fetched opcode lies inside the code, and so does its operand. *)
LEMMA FetchInBounds ==
  ASSUME TypeOK, pc < Len(code)
  PROVE  /\ Next1 \in 0..Len(code)
         /\ HasOperand => NextOperand \in 0..Len(code) /\ Operand \in Word
<1>1. pc \in Nat /\ Len(code) \in Nat /\ Next1 \in 0..Len(code)
  BY DEF TypeOK, Next1
<1>2. ASSUME HasOperand PROVE NextOperand \in 0..Len(code) /\ Operand \in Word
  <2>1. NextOperand \in 0..Len(code)
    BY <1>1, <1>2, WordAssumption DEF HasOperand, NextOperand
  <2>2. \A k \in 0..IntBytes - 1 : code[pc + 2 + k] \in Int
    <3> SUFFICES ASSUME NEW k \in 0..IntBytes - 1 PROVE code[pc + 2 + k] \in Int
      OBVIOUS
    <3>1. pc + 2 + k \in 1..Len(code)
      BY <1>1, <1>2, WordAssumption DEF HasOperand
    <3>2. \A j \in 1..Len(code) : code[j] \in Byte
      BY ElementOfSeq DEF TypeOK
    <3>3. Byte \subseteq Int
      BY DEF Byte
    <3> QED BY <3>1, <3>2, <3>3
  <2> DEFINE b(k) == IF k < IntBytes THEN code[pc + 2 + k] ELSE 0
             x == b(0) + 256 * b(1) + 65536 * b(2) + 16777216 * b(3)
  <2>3. b(0) \in Int /\ b(1) \in Int /\ b(2) \in Int /\ b(3) \in Int
    BY <2>2, WordAssumption
  <2>4. x \in Int
    <3> HIDE DEF b
    <3> QED BY <2>3
  <2>5. Operand = Wrap(x)
    BY DEF Operand, WordAt, WordIn
  <2> HIDE DEF x
  <2> QED BY <2>1, <2>4, <2>5, WrapInWord
<1> QED BY <1>1, <1>2

(* What is left after n pops is a stack, n cells lower. *)
LEMMA BelowIsStack ==
  ASSUME TypeOK, NEW n \in Nat, n <= Len(stack)
  PROVE  Below(n) \in Seq(Word) /\ Len(Below(n)) = Len(stack) - n
<1>1. stack \in Seq(Word) /\ Len(stack) \in Nat /\ Len(stack) - n \in 0..Len(stack)
  BY DEF TypeOK
<1> QED BY <1>1, SubSeqProperties DEF Below

(* A popped cell is a cell. *)
LEMMA TopIsCell ==
  ASSUME TypeOK, NEW k \in Nat, k < Len(stack)
  PROVE  Top(k) \in Word
<1>1. stack \in Seq(Word) /\ Len(stack) - k \in 1..Len(stack)
  BY DEF TypeOK
<1> QED BY <1>1 DEF Top

StackFits == stack' \in Seq(Word) /\ Len(stack') <= StackSize

(* A popped stack is a stack. *)
LEMMA PopEffect ==
  ASSUME TypeOK, NEW n \in 1..2, Len(stack) >= n, stack' = Below(n)
  PROVE  StackFits /\ Len(stack') <= Len(stack)
<1>1. n \in Nat /\ Len(stack) \in Nat /\ Len(stack) <= StackSize
  BY DEF TypeOK
<1>2. Below(n) \in Seq(Word) /\ Len(Below(n)) = Len(stack) - n
  BY <1>1, BelowIsStack
<1> QED BY <1>1, <1>2, SizesAssumption DEF StackFits

(* A return stack whose top has been taken is a return stack. *)
LEMMA ReturnPop ==
  ASSUME NEW S, NEW s \in Seq(S), s # << >>
  PROVE  /\ s[Len(s)] \in S
         /\ SubSeq(s, 1, Len(s) - 1) \in Seq(S)
         /\ Len(SubSeq(s, 1, Len(s) - 1)) = Len(s) - 1
         /\ \A i \in 1..Len(s) - 1 : SubSeq(s, 1, Len(s) - 1)[i] = s[i]
<1>1. Len(s) \in Nat \ {0}
  BY EmptySeq, LenProperties
<1>2. Len(s) \in 1..Len(s) /\ Len(s) - 1 \in 0..Len(s)
  BY <1>1
<1>3. s[Len(s)] \in S
  BY <1>2, ElementOfSeq
<1> DEFINE m == Len(s) - 1
           t == SubSeq(s, 1, m)
<1>4. t \in Seq(S) /\ Len(t) = m /\ \A i \in 1..m : t[i] = s[i]
  <2>1. m \in Nat /\ m <= Len(s) /\ Len(s) \in Nat
    BY <1>1
  <2> HIDE DEF m
  <2> QED BY <2>1, SubSeqProperties
<1> QED BY <1>3, <1>4

Verdict ==         \* the two ways an instruction other than OP_HALT ends
  /\ running' \in BOOLEAN
  /\ error' \in VMError
  /\ running' <=> error' = "VM_OK"

LEMMA ProceedVerdict == Proceed => Verdict /\ error' = "VM_OK"
BY DEF Proceed, Verdict, VMError

LEMMA FaultVerdict ==
  ASSUME NEW e \in VMError \ {"VM_OK"}, Fault(e)
  PROVE  Verdict /\ error' # "VM_OK"
BY DEF Fault, Verdict, VMError

(* A push that does not fit leaves the stack as the pops left it. *)
LEMMA PushOnEffect ==
  ASSUME NEW s \in Seq(Word), Len(s) <= StackSize, NEW v \in Word, PushOn(s, v)
  PROVE  /\ StackFits
         /\ Verdict
         /\ error' # "VM_OK" => Len(stack') <= Len(s)
<1>1. CASE Len(s) < StackSize /\ stack' = Append(s, v) /\ Proceed
  <2>1. Append(s, v) \in Seq(Word) /\ Len(Append(s, v)) = Len(s) + 1
    BY AppendProperties
  <2>2. Len(s) \in Nat
    BY LenProperties
  <2> QED BY <1>1, <2>1, <2>2, ProceedVerdict, SizesAssumption DEF StackFits
<1>2. CASE Len(s) >= StackSize /\ stack' = s /\ Fault("STACK_OVERFLOW")
  <2>1. Verdict
    BY <1>2, FaultVerdict DEF VMError
  <2> QED BY <1>2, <2>1, LenProperties DEF StackFits
<1> QED BY <1>1, <1>2 DEF PushOn

(* A pop that finds nothing leaves the stack empty. *)
LEMMA UnderflowEffect ==
  ASSUME TypeOK, NEW n \in Nat, Underflow(n)
  PROVE  /\ StackFits
         /\ Verdict
         /\ error' # "VM_OK"
         /\ Len(stack') <= Len(stack)
<1>1. << >> \in Seq(Word) /\ Len(<< >>) = 0 /\ Len(stack) \in Nat
  BY DEF TypeOK
<1>2. Verdict /\ error' # "VM_OK"
  BY FaultVerdict DEF Underflow, VMError
<1> QED BY <1>1, <1>2, SizesAssumption DEF Underflow, StackFits

(* A jump stays inside the code or faults. *)
LEMMA JumpToEffect ==
  ASSUME TypeOK, pc < Len(code), HasOperand, NEW a \in Int, JumpTo(a)
  PROVE  pc' \in 0..Len(code) /\ Verdict
<1>1. CASE a \in 0..Len(code) /\ pc' = a /\ Proceed
  BY <1>1, ProceedVerdict
<1>2. CASE a \notin 0..Len(code) /\ pc' = NextOperand /\ Fault("CODE_BOUNDS")
  BY <1>2, FetchInBounds, FaultVerdict DEF VMError
<1> QED BY <1>1, <1>2 DEF JumpTo
-----------------------------------------------------------------------------
(* What one instruction does to the state, whatever it is. *)

Halted == ~running' /\ error' = "VM_OK" /\ pc' = pc + 1 /\ code[pc + 1] = OP_HALT

Effect ==
  /\ pc' \in 0..Len(code)
  /\ StackFits
  /\ memory' \in [0..MemorySize - 1 -> Word]
  /\ return_stack' \in Seq(0..Len(code)) /\ Len(return_stack') <= ReturnStackSize
  /\ running' \in BOOLEAN /\ error' \in VMError
  /\ Verdict \/ Halted
  /\ error' # "VM_OK" => /\ UNCHANGED <<memory, return_stack>>
                         /\ Len(stack') <= Len(stack)

(* Types, verdict and the extent of a fault's damage, for every instruction. *)
LEMMA ExecuteEffect == ASSUME TypeOK, Execute PROVE Effect
<1> USE DEF Effect
<1>0. /\ pc \in 0..Len(code) /\ Len(code) \in Nat
      /\ stack \in Seq(Word) /\ Len(stack) \in Nat /\ Len(stack) <= StackSize
      /\ memory \in [0..MemorySize - 1 -> Word]
      /\ return_stack \in Seq(0..Len(code)) /\ Len(return_stack) \in Nat
      /\ Len(return_stack) <= ReturnStackSize
  BY DEF TypeOK
<1>s. stack' = stack => StackFits /\ Len(stack') <= Len(stack)
  BY <1>0 DEF StackFits
<1>1. CASE FetchPastEnd
  BY <1>0, <1>1, <1>s, FaultVerdict DEF FetchPastEnd, VMError, Verdict, data
<1>2. CASE OperandCutOff
  BY <1>0, <1>2, <1>s, FaultVerdict, FetchInBounds
  DEF OperandCutOff, At, VMError, Verdict, data
<1>3. CASE Push
  BY <1>0, <1>3, FetchInBounds, PushOnEffect
  DEF Push, AtOperand, At, Verdict
<1>4. CASE Pop
  <2>1. CASE Underflow(1)
    BY <1>0, <1>4, <2>1, FetchInBounds, UnderflowEffect DEF Pop, At, Verdict
  <2>2. CASE Len(stack) >= 1 /\ stack' = Below(1) /\ Proceed
    BY <1>0, <1>4, <2>2, FetchInBounds, PopEffect, ProceedVerdict
    DEF Pop, At, Verdict
  <2> QED BY <1>4, <2>1, <2>2 DEF Pop
<1>5. CASE Dup
  <2>1. CASE Underflow(1)
    BY <1>0, <1>5, <2>1, FetchInBounds, UnderflowEffect DEF Dup, At, Verdict
  <2>2. CASE Len(stack) >= 1 /\ PushOn(stack, Top(0))
    BY <1>0, <1>5, <2>2, FetchInBounds, TopIsCell, PushOnEffect DEF Dup, At, Verdict
  <2> QED BY <1>5, <2>1, <2>2 DEF Dup
<1>6. CASE DivideByZero
  BY <1>0, <1>6, FetchInBounds, PopEffect, FaultVerdict
  DEF DivideByZero, At, Verdict, VMError
<1>7. ASSUME NEW op \in BinaryOps, Binary(op) PROVE Effect
  <2>1. CASE Underflow(2)
    BY <1>0, <1>7, <2>1, FetchInBounds, UnderflowEffect DEF Binary, At, Verdict
  <2>2. CASE Len(stack) >= 2 /\ PushOn(Below(2), Result(op, Top(1), Top(0)))
    <3>1. Top(0) \in Word /\ Top(1) \in Word
      BY <1>0, <2>2, TopIsCell
    <3>2. op = OP_DIV => Top(0) # 0
      BY <1>7, <2>2 DEF Binary
    <3>3. Result(op, Top(1), Top(0)) \in Word
      BY <1>7, <3>1, <3>2, ResultInWord
    <3>4. Below(2) \in Seq(Word) /\ Len(Below(2)) = Len(stack) - 2
      BY <1>0, <2>2, BelowIsStack
    <3>5. StackFits /\ Verdict /\ (error' # "VM_OK" => Len(stack') <= Len(stack))
      <4>1. Len(Below(2)) <= StackSize
        BY <1>0, <2>2, <3>4, SizesAssumption
      <4>2. StackFits /\ Verdict /\ (error' # "VM_OK" => Len(stack') <= Len(Below(2)))
        BY <2>2, <3>3, <3>4, <4>1, PushOnEffect
      <4> QED BY <1>0, <3>4, <4>2, LenProperties DEF StackFits
    <3> QED BY <1>0, <1>7, <3>5, FetchInBounds DEF Binary, At, Verdict
  <2> QED BY <1>7, <2>1, <2>2 DEF Binary
<1>8. CASE Jmp
  <2>1. Operand \in Int /\ pc < Len(code) /\ HasOperand /\ JumpTo(Operand)
    BY <1>0, <1>8, FetchInBounds DEF Jmp, AtOperand, At, Word
  <2> QED BY <1>0, <1>8, <1>s, <2>1, JumpToEffect DEF Jmp, Verdict, data
<1>9. ASSUME NEW op \in BranchOps, Branch(op) PROVE Effect
  <2>1. Operand \in Int /\ pc < Len(code) /\ HasOperand /\ NextOperand \in 0..Len(code)
    BY <1>0, <1>9, FetchInBounds DEF Branch, AtOperand, At, Word
  <2>2. CASE Underflow(1) /\ pc' = NextOperand
    BY <1>0, <1>9, <2>1, <2>2, UnderflowEffect DEF Branch, Verdict
  <2>3. CASE /\ Len(stack) >= 1 /\ stack' = Below(1)
             /\ JumpTo(Operand) \/ (pc' = NextOperand /\ Proceed)
    <3>1. StackFits /\ Len(stack') <= Len(stack)
      BY <2>3, PopEffect
    <3>2. pc' \in 0..Len(code) /\ Verdict
      BY <2>1, <2>3, JumpToEffect, ProceedVerdict
    <3> QED BY <1>0, <1>9, <3>1, <3>2 DEF Branch, Verdict
  <2> QED BY <1>9, <2>2, <2>3 DEF Branch
<1>10. CASE Store
  <2>1. Operand \in Word /\ NextOperand \in 0..Len(code)
    BY <1>0, <1>10, FetchInBounds DEF Store, AtOperand, At
  <2>2. CASE Operand \notin 0..MemorySize - 1 /\ Fault("MEMORY_BOUNDS")
                /\ UNCHANGED <<stack, memory>>
    BY <1>0, <1>10, <1>s, <2>1, <2>2, FaultVerdict DEF Store, Verdict, VMError
  <2>3. CASE Underflow(1) /\ UNCHANGED memory
    BY <1>0, <1>10, <2>1, <2>3, UnderflowEffect DEF Store, Verdict
  <2>4. CASE /\ Len(stack) >= 1 /\ Proceed /\ stack' = Below(1)
             /\ memory' = [memory EXCEPT ![Operand] = Top(0)]
    <3>1. StackFits
      BY <2>4, PopEffect
    <3>2. memory' \in [0..MemorySize - 1 -> Word]
      <4>1. Top(0) \in Word
        BY <1>0, <2>4, TopIsCell
      <4> QED BY <1>0, <2>4, <4>1
    <3> QED BY <1>0, <1>10, <2>1, <2>4, <3>1, <3>2, ProceedVerdict DEF Store, Verdict
  <2> QED BY <1>10, <2>2, <2>3, <2>4 DEF Store
<1>11. CASE Load
  <2>1. Operand \in Word /\ NextOperand \in 0..Len(code)
    BY <1>0, <1>11, FetchInBounds DEF Load, AtOperand, At
  <2>2. CASE Operand \notin 0..MemorySize - 1 /\ Fault("MEMORY_BOUNDS")
                /\ UNCHANGED stack
    BY <1>0, <1>11, <1>s, <2>1, <2>2, FaultVerdict DEF Load, Verdict, VMError
  <2>3. CASE Operand \in 0..MemorySize - 1 /\ PushOn(stack, memory[Operand])
    BY <1>0, <1>11, <2>1, <2>3, PushOnEffect DEF Load, Verdict
  <2> QED BY <1>11, <2>2, <2>3 DEF Load
<1>12. CASE Call
  <2>1. NextOperand \in 0..Len(code)
    BY <1>0, <1>12, FetchInBounds DEF Call, AtOperand, At
  <2>2. CASE pc' = NextOperand /\ return_stack' = return_stack
             /\ (Fault("CODE_BOUNDS") \/ Fault("RETURN_STACK_OVERFLOW"))
    BY <1>0, <1>12, <1>s, <2>1, <2>2, FaultVerdict DEF Call, Verdict, VMError
  <2>3. CASE /\ Operand \in 0..Len(code) - 1
             /\ Len(return_stack) < ReturnStackSize
             /\ return_stack' = Append(return_stack, NextOperand)
             /\ pc' = Operand /\ Proceed
    <3>1. return_stack' \in Seq(0..Len(code)) /\ Len(return_stack') <= ReturnStackSize
      BY <1>0, <2>1, <2>3, AppendProperties, SizesAssumption
    <3> QED BY <1>0, <1>12, <1>s, <2>3, <3>1, ProceedVerdict DEF Call, Verdict
  <2> QED BY <1>12, <2>2, <2>3 DEF Call
<1>13. CASE Ret
  <2>1. CASE pc' = Next1 /\ return_stack' = return_stack /\ Fault("RETURN_STACK_UNDERFLOW")
    BY <1>0, <1>13, <1>s, <2>1, FaultVerdict, FetchInBounds DEF Ret, At, Verdict, VMError
  <2>2. CASE /\ return_stack # << >> /\ Proceed
             /\ pc' = return_stack[Len(return_stack)]
             /\ return_stack' = SubSeq(return_stack, 1, Len(return_stack) - 1)
    <3>1. pc' \in 0..Len(code)
      BY <1>0, <2>2, ReturnPop
    <3>2. return_stack' \in Seq(0..Len(code)) /\ Len(return_stack') = Len(return_stack) - 1
      BY <1>0, <2>2, ReturnPop
    <3> QED BY <1>0, <1>13, <1>s, <2>2, <3>1, <3>2, ProceedVerdict, SizesAssumption, SMTT(30)
            DEF Ret, Verdict
  <2> QED BY <1>13, <2>1, <2>2 DEF Ret
<1>14. CASE PrintTop
  <2>1. CASE Underflow(1)
    BY <1>0, <1>14, <2>1, FetchInBounds, UnderflowEffect DEF PrintTop, At, Verdict
  <2>2. CASE Len(stack) >= 1 /\ stack' = Below(1) /\ Proceed
    BY <1>0, <1>14, <2>2, FetchInBounds, PopEffect, ProceedVerdict
    DEF PrintTop, At, Verdict
  <2> QED BY <1>14, <2>1, <2>2 DEF PrintTop
<1>15. CASE Halt
  BY <1>0, <1>15, <1>s, FetchInBounds DEF Halt, Halted, At, Next1, VMError, data
<1>16. CASE InvalidOpcode
  BY <1>0, <1>16, <1>s, FetchInBounds, FaultVerdict
  DEF InvalidOpcode, Verdict, VMError, data
<1> QED
  BY <1>1, <1>2, <1>3, <1>4, <1>5, <1>6, <1>7, <1>8, <1>9, <1>10, <1>11, <1>12,
     <1>13, <1>14, <1>15, <1>16 DEF Execute
-----------------------------------------------------------------------------
(* Return addresses. *)

(* Only OP_CALL adds a return address, and it is the byte after its operand;  *)
(* OP_RET removes one, and a fault leaves them alone.                         *)
LEMMA ExecuteReturns ==
  ASSUME TypeOK, ReturnsFollowCalls, Execute, code' = code
  PROVE  ReturnsFollowCalls'
<1> DEFINE Follows(ra) == ra > IntBytes /\ code[ra - IntBytes] = OP_CALL
<1>0. return_stack \in Seq(0..Len(code)) /\ Len(return_stack) \in Nat
  BY DEF TypeOK
<1>1. \A i \in 1..Len(return_stack) : Follows(return_stack[i])
  BY <1>0 DEF ReturnsFollowCalls
<1>2. SUFFICES ASSUME return_stack' \in Seq(0..Len(code)),
                      NEW i \in 1..Len(return_stack')
               PROVE  Follows(return_stack'[i])
  <2>1. return_stack' \in Seq(0..Len(code))
    BY ExecuteEffect DEF Effect
  <2> QED BY <1>2, <2>1 DEF ReturnsFollowCalls
<1>3. CASE return_stack' = return_stack
  BY <1>1, <1>3
<1>4. CASE Call /\ return_stack' = Append(return_stack, NextOperand)
  <2>1. NextOperand \in Int /\ Follows(NextOperand)
    <3>1. pc \in Nat /\ code[pc + 1] = OP_CALL
      BY <1>4 DEF Call, AtOperand, At, TypeOK
    <3> QED BY <3>1, WordAssumption DEF NextOperand
  <2>2. \A k \in 1..Len(return_stack) : return_stack'[k] = return_stack[k]
    BY <1>0, <1>4, AppendProperties
  <2>3. /\ Len(return_stack') = Len(return_stack) + 1
        /\ return_stack'[Len(return_stack) + 1] = NextOperand
    BY <1>0, <1>4, <2>1
  <2> HIDE DEF Follows
  <2> QED BY <1>0, <1>1, <2>1, <2>2, <2>3
<1>5. CASE Ret /\ return_stack # << >>
           /\ return_stack' = SubSeq(return_stack, 1, Len(return_stack) - 1)
  <2>1. Len(return_stack') = Len(return_stack) - 1 /\ return_stack'[i] = return_stack[i]
    BY <1>0, <1>5, ReturnPop
  <2> QED BY <1>0, <1>1, <2>1
<1>6. Call \/ Ret \/ return_stack' = return_stack
  BY DEF Execute, FetchPastEnd, OperandCutOff, Push, Pop, Dup, DivideByZero, Binary,
         Jmp, Branch, Store, Load, PrintTop, Halt, InvalidOpcode, data
<1> QED BY <1>3, <1>4, <1>5, <1>6 DEF Call, Ret
-----------------------------------------------------------------------------
(* The invariant.  No part needs the others except through TypeOK, which  *)
(* bounds pc, the operand and the cells that an instruction reads.         *)
IInv == TypeOK /\ ErrorStops /\ ReturnsFollowCalls /\ OKMeansHalted

LEMMA InitInv == Init => IInv
<1> SUFFICES ASSUME Init PROVE IInv
  OBVIOUS
<1>1. << >> \in Seq(Byte) /\ << >> \in Seq(Word) /\ << >> \in Seq(0..Len(code))
  OBVIOUS
<1>2. memory \in [0..MemorySize - 1 -> Word]
  BY WordAssumption DEF Init, Word
<1>3. Len(code) = 0
  BY DEF Init
<1>4. pc \in 0..Len(code) /\ error \in VMError
  <2>1. pc = 0 /\ error = "VM_OK"
    BY DEF Init
  <2> QED BY <1>3, <2>1 DEF VMError
<1>5. TypeOK
  BY <1>1, <1>2, <1>4, SizesAssumption DEF Init, TypeOK
<1>6. ErrorStops /\ ReturnsFollowCalls /\ OKMeansHalted
  BY DEF Init, ErrorStops, ReturnsFollowCalls, OKMeansHalted
<1> QED BY <1>5, <1>6 DEF IInv

(* A step that leaves the machine alone and changes only the verdict pair. *)
LEMMA ControlStep ==
  ASSUME IInv, UNCHANGED <<code, pc, data>>,
         running' \in BOOLEAN, error' \in VMError, error' # "VM_OK" => ~running',
         host' \in {"idle", "vm_run", "killed"}
  PROVE  TypeOK' /\ ErrorStops' /\ ReturnsFollowCalls'
BY DEF IInv, TypeOK, ErrorStops, ReturnsFollowCalls, data

(* One instruction, whoever asked for it. *)
LEMMA ExecuteInv ==
  ASSUME IInv, Execute, UNCHANGED <<code, host>>
  PROVE  IInv'
<1>1. TypeOK /\ Effect
  BY ExecuteEffect DEF IInv
<1>2. TypeOK'
  BY <1>1 DEF Effect, StackFits, TypeOK
<1>3. ErrorStops'
  BY <1>1 DEF Effect, Verdict, Halted, ErrorStops
<1>4. ReturnsFollowCalls'
  BY <1>1, ExecuteReturns DEF IInv
<1>5. OKMeansHalted'
  <2>1. pc \in Nat
    BY <1>1 DEF TypeOK
  <2> QED BY <1>1, <2>1 DEF Effect, Verdict, Halted, OKMeansHalted
<1> QED BY <1>2, <1>3, <1>4, <1>5 DEF IInv

(* A freshly loaded machine, whatever the bytes.                              *)
LEMMA LoadInv ==
  ASSUME NEW c \in Seq(Byte), LoadCode(c)
  PROVE  IInv'
<1>1. code' \in Seq(Byte) /\ Len(code') \in Nat
  BY LenProperties DEF LoadCode
<1>2. memory' \in [0..MemorySize - 1 -> Word]
  BY WordAssumption DEF LoadCode, Word
<1>3. stack' \in Seq(Word) /\ Len(stack') <= StackSize
  <2>1. stack' = << >> /\ StackSize \in Nat
    BY SizesAssumption DEF LoadCode
  <2> QED BY <2>1
<1>4. pc' \in 0..Len(code') /\ error' \in VMError
  <2>1. pc' = 0 /\ error' = "VM_OK"
    BY DEF LoadCode
  <2> QED BY <1>1, <2>1 DEF VMError
<1>5. TypeOK'
  <2> DEFINE T == 0..Len(code')
  <2>1. return_stack' \in Seq(T) /\ Len(return_stack') <= ReturnStackSize
    <3>1. return_stack' = << >> /\ ReturnStackSize \in Nat
      BY SizesAssumption DEF LoadCode
    <3> HIDE DEF T
    <3> QED BY <3>1
  <2>2. running' \in BOOLEAN /\ host' \in {"idle", "vm_run", "killed"}
    BY DEF LoadCode
  <2> QED BY <1>1, <1>2, <1>3, <1>4, <2>1, <2>2 DEF TypeOK
<1>6. ErrorStops' /\ ReturnsFollowCalls' /\ OKMeansHalted'
  BY DEF LoadCode, ErrorStops, ReturnsFollowCalls, OKMeansHalted
<1> QED BY <1>5, <1>6 DEF IInv

LEMMA NextInv == IInv /\ [Next]_vars => IInv'
<1> SUFFICES ASSUME IInv, [Next]_vars PROVE IInv'
  OBVIOUS
<1>1. CASE LoadProgram
  <2>1. PICK c \in Programs : LoadCode(c)
    BY <1>1 DEF LoadProgram
  <2> QED BY <2>1, ProgramsAssumption, LoadInv
<1>2. CASE Run
  BY <1>2, ControlStep DEF Run, Proceed, IInv, OKMeansHalted, VMError
<1>3. CASE RunStep
  BY <1>3, ExecuteInv DEF RunStep
<1>4. CASE RunReturn
  BY <1>4, ControlStep DEF RunReturn, IInv, TypeOK, ErrorStops, OKMeansHalted
<1>5. CASE Resume
  BY <1>5, ControlStep DEF Resume, Proceed, IInv, OKMeansHalted, VMError
<1>6. CASE Step
  BY <1>6, ExecuteInv DEF Step
<1>7. CASE Trap
  BY <1>7, ControlStep DEF Trap, IInv, TypeOK, ErrorStops, OKMeansHalted
<1>8. CASE Killed \/ UNCHANGED vars
  BY <1>8 DEF Killed, vars, data, IInv, TypeOK, ErrorStops, ReturnsFollowCalls, OKMeansHalted
<1> QED BY <1>1, <1>2, <1>3, <1>4, <1>5, <1>6, <1>7, <1>8 DEF Next

LEMMA Invariance == Spec => []IInv
BY InitInv, NextInv, PTL DEF Spec

(* Every value the machine reads or writes is a byte, a cell or an address in *)
(* bounds, for every program: no stack, memory or code access is out of range.*)
THEOREM TypeCorrect == Spec => []TypeOK
BY Invariance, PTL DEF IInv

(* No instruction reports an error and leaves running set, so every caller    *)
(* that loops on either field stops.                                          *)
THEOREM ErrorsStop == Spec => []ErrorStops
BY Invariance, PTL DEF IInv

(* A return address is always that of the instruction after some OP_CALL of   *)
(* the loaded code.                                                           *)
THEOREM ReturnAddresses == Spec => []ReturnsFollowCalls
BY Invariance, PTL DEF IInv

(* vm_run returns VM_OK only after OP_HALT.                                   *)
THEOREM SuccessIsHalt == Spec => []OKMeansHalted
BY Invariance, PTL DEF IInv

(* An instruction that faults leaves the variables and the return addresses   *)
(* as they were, and the operand stack no higher.                             *)
THEOREM FaultDamage == Spec => FaultsOnlyPop
<1> DEFINE Only == error' # "VM_OK" => UNCHANGED <<memory, return_stack>>
                                       /\ Len(stack') <= Len(stack)
<1>1. ASSUME IInv, Next PROVE [Only]_vars
  <2>0. Len(stack) \in Nat /\ (error # "VM_OK" => ~running)
    BY <1>1, LenProperties DEF IInv, TypeOK, ErrorStops
  <2>1. CASE RunStep \/ Step
    <3>1. Effect
      BY <1>1, <2>1, ExecuteEffect DEF RunStep, Step, IInv
    <3> QED BY <3>1 DEF Effect
  <2>2. CASE LoadProgram \/ Run \/ Resume
    BY <2>2 DEF LoadProgram, LoadCode, Run, Resume, Proceed
  <2>3. CASE RunReturn \/ Trap \/ Killed
    BY <2>0, <2>3 DEF RunReturn, Trap, Killed, data, vars
  <2> QED BY <1>1, <2>1, <2>2, <2>3 DEF Next
<1>2. IInv /\ [Next]_vars => [Only]_vars
  BY <1>1
<1> QED BY <1>2, Invariance, PTL DEF Spec, FaultsOnlyPop
=============================================================================
